-------------------------------- MODULE Probe --------------------------------
(***************************************************************************)
(* What an orchestrator may rely on when it polls /ready (obs/health.go):  *)
(* the endpoint goes through its answers in one order only, and says ready *)
(* only of a process that has loaded its configuration.  In particular it  *)
(* never turns back to ready once it has said that the process is stopping.*)
(***************************************************************************)
EXTENDS Naturals

VARIABLES
  answer,       \* what a poll of /ready gets
  configured    \* a configuration has been loaded

vars == <<answer, configured>>

Rank == [unreachable |-> 0, not_ready |-> 1, ready |-> 2, shutting_down |-> 3, gone |-> 4]

Init == answer = "unreachable" /\ configured = FALSE

Configure == ~configured /\ configured' = TRUE

Advance ==
  /\ answer' \in DOMAIN Rank
  /\ Rank[answer'] > Rank[answer]
  /\ answer' = "ready" => configured'

Next ==
  \/ Configure /\ UNCHANGED answer
  \/ Advance /\ UNCHANGED configured
  \/ Configure /\ Advance

Spec == Init /\ [][Next]_vars
=============================================================================
