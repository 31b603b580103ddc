------------------------------ MODULE TaskPool ------------------------------
(***************************************************************************)
(* What a worker pool promises the code that owns it: the tasks start in   *)
(* the order they were submitted, each exactly once, never more of them at *)
(* a time than there are workers, and the pool is gone only after          *)
(* everything submitted to it has finished.  The scanners rely on exactly  *)
(* this: tcp_range_scan reads its result vectors without a lock as soon as *)
(* the pool's scope ends.  No queue, lock or condition variable appears    *)
(* here; module ThreadPool shows that the ones in the code provide it.     *)
(***************************************************************************)
EXTENDS Naturals, Sequences, FiniteSets

CONSTANTS
    NumWorkers,     \* threads of the pool
    MaxTasks        \* bound: how many tasks the owner may submit

VARIABLES
    submitted,      \* number of tasks handed to the pool; task i is the i-th
    started,        \* the tasks in the order in which a worker took them
    finished,       \* the tasks whose execution is over
    pool            \* "open", "closing", "closed", "aborted"

poolVars == <<submitted, started, finished, pool>>

Tasks == 1..MaxTasks

Init ==
    /\ submitted = 0
    /\ started = <<>>
    /\ finished = {}
    /\ pool = "open"

Submit ==
    /\ pool = "open"
    /\ submitted < MaxTasks
    /\ submitted' = submitted + 1
    /\ UNCHANGED <<started, finished, pool>>

\* The next task in submission order begins, on a worker that is free.
Start ==
    /\ pool \in {"open", "closing"}
    /\ Len(started) < submitted
    /\ Len(started) - Cardinality(finished) < NumWorkers
    /\ started' = Append(started, Len(started) + 1)
    /\ UNCHANGED <<submitted, finished, pool>>

Finish(t) ==
    /\ pool \in {"open", "closing"}
    /\ t \in 1..Len(started)
    /\ t \notin finished
    /\ finished' = finished \cup {t}
    /\ UNCHANGED <<submitted, started, pool>>

Close ==
    /\ pool = "open"
    /\ pool' = "closing"
    /\ UNCHANGED <<submitted, started, finished>>

\* The owner goes on, having waited for all of its tasks.
Return ==
    /\ pool = "closing"
    /\ finished = 1..submitted
    /\ pool' = "closed"
    /\ UNCHANGED <<submitted, started, finished>>

\* A task that lets an exception escape takes the whole process with it.
Abort ==
    /\ pool \in {"open", "closing"}
    /\ Len(started) > Cardinality(finished)
    /\ pool' = "aborted"
    /\ UNCHANGED <<submitted, started, finished>>

Next ==
    \/ Submit \/ Start \/ Close \/ Return \/ Abort
    \/ \E t \in Tasks : Finish(t)

Spec == Init /\ [][Next]_poolVars
=============================================================================
