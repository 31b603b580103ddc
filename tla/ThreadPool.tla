----------------------------- MODULE ThreadPool -----------------------------
(***************************************************************************)
(* concurrency::ThreadPool: a FIFO of tasks, a mutex, one condition        *)
(* variable, a stop flag, and workers that leave only when the flag is set *)
(* and the queue is empty.  Every critical section of queue_mutex is one   *)
(* action (the lock is never held across another wait, so the sections are *)
(* atomic to each other); the notifications happen after the unlock and    *)
(* are actions of their own.  A worker whose predicate is false releases   *)
(* the mutex and joins the wait set in one step, as condition.wait does.   *)
(* Tasks are numbered in the order of enqueue.                             *)
(***************************************************************************)
EXTENDS Naturals, Sequences, FiniteSets

CONSTANTS
    NumWorkers,     \* the constructor's num_threads
    MaxTasks        \* bound: how many tasks the owner may enqueue

ASSUME ThreadPoolSizes == NumWorkers \in Nat \ {0} /\ MaxTasks \in Nat

VARIABLES
    tasks,          \* the queue
    stop,           \* the stop flag
    wpc,            \* where each worker is in worker_loop
    current,        \* the task a worker has moved out of the queue, 0 if none
    cpc,            \* where the owner is: between calls, in enqueue, in ~ThreadPool
    joined,         \* how many workers the destructor has joined
    submitted,      \* history: number of tasks enqueued
    started,        \* history: tasks in the order they were popped
    finished        \* history: tasks that returned

vars == <<tasks, stop, wpc, current, cpc, joined, submitted, started, finished>>
history == <<submitted, started, finished>>

Workers == 1..NumWorkers
Tasks == 1..MaxTasks
WaitSet == {w \in Workers : wpc[w] = "waiting"}

\* The constructor: no task, and workers about to take the mutex.
Init ==
    /\ tasks = <<>>
    /\ stop = FALSE
    /\ wpc = [w \in Workers |-> "lock"]
    /\ current = [w \in Workers |-> 0]
    /\ cpc = "idle"
    /\ joined = 0
    /\ submitted = 0
    /\ started = <<>>
    /\ finished = {}

-----------------------------------------------------------------------------
\* enqueue, as if it skipped the notification when the queue was not empty.
Bug_EnqueueNotifiesOnEmptyOnly ==
    /\ cpc = "idle"
    /\ submitted < MaxTasks
    /\ tasks' = Append(tasks, submitted + 1)
    /\ submitted' = submitted + 1
    /\ cpc' = IF tasks = <<>> THEN "notify_one" ELSE "idle"
    /\ UNCHANGED <<stop, wpc, current, joined, started, finished>>

\* enqueue: the push under queue_mutex.
Enqueue ==
    /\ cpc = "idle"
    /\ submitted < MaxTasks
    /\ tasks' = Append(tasks, submitted + 1)
    /\ submitted' = submitted + 1
    /\ cpc' = "notify_one"
    /\ UNCHANGED <<stop, wpc, current, joined, started, finished>>

\* enqueue: notify_one after the unlock; it is lost when nobody waits.
NotifyOne ==
    /\ cpc = "notify_one"
    /\ cpc' = "idle"
    /\ \/ \E w \in WaitSet : wpc' = [wpc EXCEPT ![w] = "lock"]
       \/ WaitSet = {} /\ UNCHANGED wpc
    /\ UNCHANGED <<tasks, stop, current, joined, history>>

\* ~ThreadPool: set the flag under queue_mutex.
BeginDestroy ==
    /\ cpc = "idle"
    /\ stop' = TRUE
    /\ cpc' = "notify_all"
    /\ UNCHANGED <<tasks, wpc, current, joined, history>>

\* ~ThreadPool, as if it woke a single worker.
Bug_NotifyAllWakesOne ==
    /\ cpc = "notify_all"
    /\ cpc' = "join"
    /\ \/ \E w \in WaitSet : wpc' = [wpc EXCEPT ![w] = "lock"]
       \/ WaitSet = {} /\ UNCHANGED wpc
    /\ UNCHANGED <<tasks, stop, current, joined, history>>

\* ~ThreadPool: wake every waiting worker.
NotifyAll ==
    /\ cpc = "notify_all"
    /\ cpc' = "join"
    /\ wpc' = [w \in Workers |-> IF wpc[w] = "waiting" THEN "lock" ELSE wpc[w]]
    /\ UNCHANGED <<tasks, stop, current, joined, history>>

\* ~ThreadPool: join the workers one after the other.
Join ==
    /\ cpc = "join"
    /\ joined < NumWorkers
    /\ wpc[joined + 1] = "returned"
    /\ joined' = joined + 1
    /\ UNCHANGED <<tasks, stop, wpc, current, cpc, history>>

\* ~ThreadPool returns once the last worker is joined.
EndDestroy ==
    /\ cpc = "join"
    /\ joined = NumWorkers
    /\ cpc' = "destroyed"
    /\ UNCHANGED <<tasks, stop, wpc, current, joined, history>>

-----------------------------------------------------------------------------
\* worker_loop: the wait predicate is false, so release the mutex and sleep.
Wait(w) ==
    /\ wpc[w] = "lock"
    /\ ~stop /\ tasks = <<>>
    /\ wpc' = [wpc EXCEPT ![w] = "waiting"]
    /\ UNCHANGED <<tasks, stop, current, cpc, joined, history>>

\* condition.wait may return without a notification; the predicate is tested again.
SpuriousWakeup(w) ==
    /\ wpc[w] = "waiting"
    /\ wpc' = [wpc EXCEPT ![w] = "lock"]
    /\ UNCHANGED <<tasks, stop, current, cpc, joined, history>>

\* worker_loop, as if the flag alone were enough to leave.
Bug_ReturnWithoutDraining(w) ==
    /\ wpc[w] = "lock"
    /\ stop
    /\ wpc' = [wpc EXCEPT ![w] = "returned"]
    /\ UNCHANGED <<tasks, stop, current, cpc, joined, history>>

\* worker_loop: leave when stopped and nothing is left to do.
WorkerReturn(w) ==
    /\ wpc[w] = "lock"
    /\ stop /\ tasks = <<>>
    /\ wpc' = [wpc EXCEPT ![w] = "returned"]
    /\ UNCHANGED <<tasks, stop, current, cpc, joined, history>>

\* worker_loop, as if the front were copied out and popped only by a later section.
Bug_TakeWithoutPop(w) ==
    /\ wpc[w] = "lock"
    /\ tasks # <<>>
    /\ wpc' = [wpc EXCEPT ![w] = "running"]
    /\ current' = [current EXCEPT ![w] = Head(tasks)]
    /\ tasks' = IF Head(tasks) \in {current[v] : v \in Workers} THEN Tail(tasks) ELSE tasks
    /\ started' = Append(started, Head(tasks))
    /\ UNCHANGED <<stop, cpc, joined, submitted, finished>>

\* worker_loop: take the front of the queue and release the mutex.
TakeTask(w) ==
    /\ wpc[w] = "lock"
    /\ tasks # <<>>
    /\ wpc' = [wpc EXCEPT ![w] = "running"]
    /\ current' = [current EXCEPT ![w] = Head(tasks)]
    /\ tasks' = Tail(tasks)
    /\ started' = Append(started, Head(tasks))
    /\ UNCHANGED <<stop, cpc, joined, submitted, finished>>

\* worker_loop, as if one task object lived across the iterations.
Bug_TaskOutlivesIteration(w) ==
    /\ wpc[w] = "running"
    /\ wpc' = [wpc EXCEPT ![w] = "lock"]
    /\ finished' = finished \cup {current[w]}
    /\ UNCHANGED <<tasks, stop, current, cpc, joined, submitted, started>>

\* worker_loop: task() returns, outside the lock.
FinishTask(w) ==
    /\ wpc[w] = "running"
    /\ wpc' = [wpc EXCEPT ![w] = "lock"]
    /\ current' = [current EXCEPT ![w] = 0]
    /\ finished' = finished \cup {current[w]}
    /\ UNCHANGED <<tasks, stop, cpc, joined, submitted, started>>

\* task() throws: nothing in worker_loop catches it, so std::terminate ends the
\* process.  Every thread stops where it is.
TaskThrows(w) ==
    /\ wpc[w] = "running"
    /\ wpc' = [v \in Workers |-> "killed"]
    /\ cpc' = "aborted"
    /\ UNCHANGED <<tasks, stop, current, joined, history>>

\* Nothing happens after the destructor returned or the process died.
Stopped ==
    /\ cpc \in {"destroyed", "aborted"}
    /\ UNCHANGED vars

OwnerStep == Enqueue \/ NotifyOne \/ BeginDestroy \/ NotifyAll \/ Join \/ EndDestroy
WorkerStep(w) == Wait(w) \/ WorkerReturn(w) \/ TakeTask(w) \/ FinishTask(w) \/ TaskThrows(w)

Next ==
    \/ OwnerStep
    \/ \E w \in Workers : WorkerStep(w) \/ SpuriousWakeup(w)
    \/ Stopped

\* Every thread is scheduled again and again; the mutex is not held while a task
\* runs, and a task ends because each of its socket calls has a timeout.  Nothing
\* is assumed of spurious wakeups.
Fairness == WF_vars(OwnerStep) /\ \A w \in Workers : WF_vars(WorkerStep(w))

Spec == Init /\ [][Next]_vars
FairSpec == Spec /\ Fairness

-----------------------------------------------------------------------------
\* Types; a worker holds a task exactly while it runs one.
TypeOK ==
    /\ tasks \in Seq(Tasks)
    /\ stop \in BOOLEAN
    /\ wpc \in [Workers -> {"lock", "waiting", "running", "returned", "killed"}]
    /\ current \in [Workers -> 0..MaxTasks]
    /\ cpc \in {"idle", "notify_one", "notify_all", "join", "destroyed", "aborted"}
    /\ joined \in 0..NumWorkers
    /\ submitted \in 0..MaxTasks
    /\ started \in Seq(Tasks)
    /\ finished \in SUBSET Tasks
    /\ \A w \in Workers : /\ wpc[w] = "running" => current[w] # 0
                          /\ current[w] # 0 => wpc[w] \in {"running", "killed"}

\* Every enqueued task is in exactly one place: in the queue, in the hands of one
\* worker that runs it, or finished; and tasks leave the queue in the order they
\* entered it (enqueue, worker_loop).
TasksPartitioned ==
    LET held == {current[w] : w \in Workers} \ {0}
    IN  /\ TypeOK
        /\ started \o tasks = [i \in 1..submitted |-> i]
        /\ finished \cup held = 1..Len(started)
        /\ finished \cap held = {}
        /\ \A v, w \in Workers : v # w /\ current[v] # 0 => current[v] # current[w]

\* When ~ThreadPool returns, every task that was ever enqueued has run to its end:
\* the owner may read what the tasks wrote without a lock (tcp_range.cpp:133-135).
DrainedBeforeReturn == cpc = "destroyed" => finished = 1..submitted

\* No wakeup is lost: a worker sleeps only while every queued task has an awake
\* worker on its way to the queue, or a notify_one about to be sent for it, so the
\* scan never runs with less parallelism than the pool has (enqueue notifies after
\* the unlock, worker_loop waits with a predicate).
NoSleepBesideWork ==
    WaitSet # {} =>
        Len(tasks) <= Cardinality({w \in Workers : wpc[w] = "lock"})
                        + (IF cpc = "notify_one" THEN 1 ELSE 0)

\* The destructor always comes to its end, whatever was in the queue when it
\* began, unless a task killed the process (~ThreadPool, worker_loop).
PoolShutsDown == <>(cpc \in {"destroyed", "aborted"})

-----------------------------------------------------------------------------
\* The abstract pool that the owner sees.
PoolPhase ==
    CASE cpc \in {"idle", "notify_one"} -> "open"
      [] cpc \in {"notify_all", "join"} -> "closing"
      [] cpc = "destroyed" -> "closed"
      [] cpc = "aborted" -> "aborted"

Abstract == INSTANCE TaskPool WITH pool <- PoolPhase

\* The queue, the flag and the condition variable together implement TaskPool:
\* first in, first out, exactly once, at most NumWorkers at a time, and no return
\* before the last task is over.
ImplementsTaskPool == Abstract!Spec
=============================================================================
