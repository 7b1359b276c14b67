-------------------------------- MODULE Tally --------------------------------
(***************************************************************************)
(* The promise behind requests_total and its like, to whoever scrapes      *)
(* /metrics: an addition takes effect at once and is never lost or made    *)
(* twice, and a scrape shows the sum of the additions made so far, so that *)
(* what successive scrapes show never goes down.  Metrics keeps it.        *)
(***************************************************************************)
EXTENDS Naturals

VARIABLES
  added,   \* how many additions have been made
  seen     \* what the last scrape has shown

\* Nothing has been counted, and nobody has looked.
Untouched == added = 0 /\ seen = added

\* An addition, by whichever goroutine.
Addition == added' = added + 1 /\ seen' = seen

\* A scrape.
Scraped == seen' = added /\ added' = added

Either == Addition \/ Scraped
both == <<added, seen>>

Promise == Untouched /\ [][Either]_both
=============================================================================
