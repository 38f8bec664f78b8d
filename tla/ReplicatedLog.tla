--------------------------- MODULE ReplicatedLog ----------------------------
(***************************************************************************)
(* What replication promises: the hub's keyspaces are a log, which a new   *)
(* run of the hub begins anew, and a reader is at some place of it, with   *)
(* the keyspace that is there.  A reader moves forward in the log of the   *)
(* current run, or gives its place up.  Replication implements it.         *)
(***************************************************************************)
EXTENDS Integers, Sequences

CONSTANTS Readers

VARIABLES
    epoch,   \* the run of the hub, from 1
    log,     \* the keyspaces of this run, one more than frames
    place    \* per reader: [epoch, at, state], epoch 0 when it has no place

vars == <<epoch, log, place>>

NoPlace == 0

\* A reader that follows the current run.
Follows(r) == place[r].epoch = epoch

Init ==
    /\ epoch = 1
    /\ Len(log) = 1
    /\ \A r \in Readers : place[r].epoch = NoPlace

\* The next keyspace.  What has been said stays said.
Grow ==
    /\ Len(log') = Len(log) + 1
    /\ \A i \in 1..Len(log) : log'[i] = log[i]
    /\ UNCHANGED <<epoch, place>>

\* A new run: whoever has a place has it in an earlier one.
Restart ==
    /\ epoch' = epoch + 1
    /\ Len(log') = 1
    /\ UNCHANGED place

\* A reader comes to a place, one further on if it had one in this run, and has what is
\* there.
Move(r) ==
    /\ place'[r].epoch = epoch
    /\ place'[r].at \in 0..(Len(log) - 1)
    /\ place'[r].state = log[place'[r].at + 1]
    /\ Follows(r) => place'[r].at >= place[r].at
    /\ \A q \in Readers \ {r} : place'[q] = place[q]
    /\ UNCHANGED <<epoch, log>>

\* A reader gives up its place, not its keyspace.
Forget(r) ==
    /\ place'[r].epoch = NoPlace
    /\ place'[r].state = place[r].state
    /\ \A q \in Readers \ {r} : place'[q] = place[q]
    /\ UNCHANGED <<epoch, log>>

Next == Grow \/ Restart \/ \E r \in Readers : Move(r) \/ Forget(r)

Spec == Init /\ [][Next]_vars
=============================================================================
