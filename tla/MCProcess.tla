------------------------------ MODULE MCProcess ------------------------------
\* A small instance of Process for TLC: main and a goroutine that applies snapshots.
\* The environment sets a number of instances that is out of bounds and a level that
\* does not exist; one page overrides both and has a timeout out of bounds, one is empty.
EXTENDS Process, TLC

CONSTANT r1

MCKeys == <<"upstream_timeout", "instances", "log_level">>
MCParsable == [k \in Keys |-> 0 .. 2]
MCAccepted == [k \in Keys |-> 1 .. 2]
MCDefault == [k \in Keys |-> 1]
MCEnv == [upstream_timeout |-> 2, instances |-> 0, log_level |-> 0]
MCPages == {[upstream_timeout |-> 0, instances |-> 1, log_level |-> 2], NoOverrides}
=============================================================================
