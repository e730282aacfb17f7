---------------------------- MODULE JobLifecycle ----------------------------
(***************************************************************************)
(* What the job queue promises to whoever schedules a module run.          *)
(*                                                                         *)
(* A submitted job waits, is worked on by one of a bounded number of slots *)
(* and ends with exactly one result, which never changes afterwards.  Work *)
(* in progress can be lost (the process dies, or the result can not be     *)
(* written); a recovery puts all lost work back in the queue.  A job whose *)
(* case is deleted disappears and never comes back.                        *)
(*                                                                         *)
(* JobQueue implements this specification as long as no runner ticks       *)
(* before the start-up recovery has run (see JobQueue!EarlyTick).          *)
(***************************************************************************)
EXTENDS Naturals, FiniteSets

CONSTANTS Jobs,   \* every job that may ever be submitted
          Slots   \* how many jobs may be worked on at once

VARIABLE state    \* [Jobs -> States]

States == {"none", "queued", "active", "lost", "ok", "failed", "gone"}

In(s) == {j \in Jobs : state[j] = s}

TypeOK == state \in [Jobs -> States]

Init == state = [j \in Jobs |-> "none"]

Move(j, from, to) == state[j] = from /\ state' = [state EXCEPT ![j] = to]

Submit(j) == Move(j, "none", "queued")

Claim(j) == Move(j, "queued", "active") /\ Cardinality(In("active")) < Slots

Finish(j) == Move(j, "active", "ok") \/ Move(j, "active", "failed")

LoseResult(j) == Move(j, "active", "lost")

\* Every job of the set S that is in state "from" goes to state "to".
MoveAll(S, from, to) ==
    state' = [j \in Jobs |-> IF j \in S /\ state[j] \in from THEN to ELSE state[j]]

LoseAll == MoveAll(Jobs, {"active"}, "lost")

Recover == MoveAll(Jobs, {"lost"}, "queued")

Drop(S) == MoveAll(S, {"queued", "active", "lost", "ok", "failed"}, "gone")

Next == \/ \E j \in Jobs : Submit(j) \/ Claim(j) \/ Finish(j) \/ LoseResult(j)
        \/ LoseAll
        \/ Recover
        \/ \E S \in SUBSET Jobs : Drop(S)

Spec == Init /\ [][Next]_state
=============================================================================
