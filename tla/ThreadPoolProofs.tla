-------------------------- MODULE ThreadPoolProofs --------------------------
(***************************************************************************)
(* Proofs, for any number of workers and any number of tasks, that the     *)
(* thread pool loses no task, runs none twice, and is not gone before the  *)
(* last one is over; and that it implements TaskPool.                      *)
(***************************************************************************)
EXTENDS ThreadPool, SequenceTheorems, FiniteSetTheorems, TLAPS

\* The queue is what is left of 1..submitted once the started tasks are removed.
QueueInv ==
    /\ Len(started) + Len(tasks) = submitted
    /\ \A i \in 1..Len(started) : started[i] = i
    /\ \A i \in 1..Len(tasks) : tasks[i] = Len(started) + i

\* A started task is finished or held, by one worker only, and never both.
HeldInv ==
    /\ finished \subseteq 1..Len(started)
    /\ \A w \in Workers : current[w] # 0 =>
            current[w] \in 1..Len(started) /\ current[w] \notin finished
    /\ \A v, w \in Workers : v # w /\ current[v] # 0 => current[v] # current[w]
    /\ \A t \in 1..Len(started) : t \in finished \/ \E w \in Workers : current[w] = t

\* The flag is set for the destructor only, and a worker that has left proves that
\* the queue is empty for good.
StopInv ==
    /\ cpc \in {"idle", "notify_one"} => ~stop
    /\ cpc \in {"notify_all", "join", "destroyed"} => stop
    /\ \A w \in Workers : wpc[w] = "killed" <=> cpc = "aborted"
    /\ cpc = "destroyed" => joined = NumWorkers
    /\ cpc # "aborted" => \A i \in 1..joined : wpc[i] = "returned"
    /\ \A w \in Workers : wpc[w] = "returned" => stop /\ tasks = <<>>

IInv == TypeOK /\ QueueInv /\ HeldInv /\ StopInv

-----------------------------------------------------------------------------
\* Types are preserved by every step of the owner and of the workers.
LEMMA TypeStep == TypeOK /\ [Next]_vars => TypeOK'
<1> SUFFICES ASSUME TypeOK, [Next]_vars PROVE TypeOK'
  OBVIOUS
<1> USE ThreadPoolSizes DEF TypeOK, Workers, Tasks, history
<1>1. CASE Enqueue
  <2>1. submitted + 1 \in Tasks
    BY <1>1 DEF Enqueue
  <2>2. tasks' \in Seq(Tasks)
    BY <1>1, <2>1, AppendProperties DEF Enqueue
  <2> QED BY <1>1, <2>1, <2>2 DEF Enqueue
<1>2. CASE NotifyOne
  BY <1>2 DEF NotifyOne, WaitSet
<1>3. CASE BeginDestroy
  BY <1>3 DEF BeginDestroy
<1>4. CASE NotifyAll
  BY <1>4 DEF NotifyAll
<1>5. CASE Join
  BY <1>5 DEF Join
<1>6. CASE EndDestroy
  BY <1>6 DEF EndDestroy
<1>7. ASSUME NEW w \in Workers, Wait(w) PROVE TypeOK'
  BY <1>7 DEF Wait
<1>8. ASSUME NEW w \in Workers, SpuriousWakeup(w) PROVE TypeOK'
  BY <1>8 DEF SpuriousWakeup
<1>9. ASSUME NEW w \in Workers, WorkerReturn(w) PROVE TypeOK'
  BY <1>9 DEF WorkerReturn
<1>10. ASSUME NEW w \in Workers, TakeTask(w) PROVE TypeOK'
  <2>1. Head(tasks) \in Tasks /\ Tail(tasks) \in Seq(Tasks)
    BY <1>10, HeadTailProperties DEF TakeTask
  <2>2. started' \in Seq(Tasks)
    BY <1>10, <2>1, AppendProperties DEF TakeTask
  <2>3. current' \in [Workers -> 0..MaxTasks] /\ Head(tasks) # 0
    <3>1. Head(tasks) \in 0..MaxTasks /\ Head(tasks) # 0
      BY <2>1, ThreadPoolSizes DEF Tasks
    <3>2. current' = [current EXCEPT ![w] = Head(tasks)] /\ current \in [Workers -> 0..MaxTasks]
      BY <1>10 DEF TakeTask
    <3> QED BY <3>1, <3>2
  <2>4. \A v \in Workers : /\ wpc'[v] = "running" => current'[v] # 0
                           /\ current'[v] # 0 => wpc'[v] \in {"running", "killed"}
    BY <1>10, <2>3 DEF TakeTask
  <2>5. wpc' \in [Workers -> {"lock", "waiting", "running", "returned", "killed"}]
    BY <1>10 DEF TakeTask
  <2> HIDE DEF Workers, Tasks
  <2> QED BY <1>10, <2>1, <2>2, <2>3, <2>4, <2>5 DEF TakeTask
<1>11. ASSUME NEW w \in Workers, FinishTask(w) PROVE TypeOK'
  <2>1. current[w] \in Tasks
    BY <1>11 DEF FinishTask
  <2>2. finished' \in SUBSET Tasks
    BY <1>11, <2>1 DEF FinishTask
  <2>3. /\ wpc' \in [Workers -> {"lock", "waiting", "running", "returned", "killed"}]
        /\ current' \in [Workers -> 0..MaxTasks]
    BY <1>11 DEF FinishTask
  <2>4. \A v \in Workers : /\ wpc'[v] = "running" => current'[v] # 0
                           /\ current'[v] # 0 => wpc'[v] \in {"running", "killed"}
    BY <1>11 DEF FinishTask
  <2> HIDE DEF Workers, Tasks
  <2> QED BY <1>11, <2>2, <2>3, <2>4 DEF FinishTask
<1>12. ASSUME NEW w \in Workers, TaskThrows(w) PROVE TypeOK'
  BY <1>12 DEF TaskThrows
<1>13. CASE UNCHANGED vars
  BY <1>13 DEF vars
<1> QED
  BY <1>1, <1>2, <1>3, <1>4, <1>5, <1>6, <1>7, <1>8, <1>9, <1>10, <1>11, <1>12, <1>13
     DEF Next, OwnerStep, WorkerStep, Stopped

\* The constructor leaves a well-typed pool.
LEMMA TypeCorrectInit == Init => TypeOK
<1>1. <<>> \in Seq(Tasks)
  BY EmptySeq
<1>2. 0 \in 0..MaxTasks /\ 0 \in 0..NumWorkers
  BY ThreadPoolSizes
<1> QED BY <1>1, <1>2 DEF Init, TypeOK

\* Types: a worker never runs without a task, nor keeps one after running it.
THEOREM TypeCorrect == Spec => []TypeOK
BY TypeCorrectInit, TypeStep, PTL DEF Spec

-----------------------------------------------------------------------------
\* The queue discipline survives every step: only Enqueue and TakeTask touch it.
LEMMA QueueStep == TypeOK /\ QueueInv /\ [Next]_vars => QueueInv'
<1> SUFFICES ASSUME TypeOK, QueueInv, [Next]_vars PROVE QueueInv'
  OBVIOUS
<1> USE DEF QueueInv
<1>1. /\ tasks \in Seq(Tasks) /\ started \in Seq(Tasks)
      /\ Len(tasks) \in Nat /\ Len(started) \in Nat /\ submitted \in Nat
  BY LenProperties, ThreadPoolSizes DEF TypeOK
<1>2. CASE Enqueue
  <2>1. submitted + 1 \in Tasks
    BY <1>2, ThreadPoolSizes DEF Enqueue, TypeOK, Tasks
  <2>2. /\ Len(tasks') = Len(tasks) + 1
        /\ \A i \in 1..Len(tasks) : tasks'[i] = tasks[i]
        /\ tasks'[Len(tasks) + 1] = submitted + 1
    BY <1>1, <1>2, <2>1, AppendProperties DEF Enqueue
  <2>3. \A i \in 1..Len(tasks') : tasks'[i] = Len(started) + i
    <3>1. \A i \in 1..Len(tasks') : i \in 1..Len(tasks) \/ i = Len(tasks) + 1
      BY <1>1, <2>2
    <3>2. tasks'[Len(tasks) + 1] = Len(started) + (Len(tasks) + 1)
      BY <1>1, <2>2
    <3> QED BY <2>2, <3>1, <3>2
  <2> QED BY <1>1, <1>2, <2>2, <2>3 DEF Enqueue
<1>3. ASSUME NEW w \in Workers, TakeTask(w) PROVE QueueInv'
  <2>1. /\ Head(tasks) \in Tasks /\ Len(Tail(tasks)) = Len(tasks) - 1
        /\ \A i \in 1..Len(Tail(tasks)) : Tail(tasks)[i] = tasks[i + 1]
    BY <1>1, <1>3, HeadTailProperties DEF TakeTask
  <2>2. Len(tasks) > 0 /\ Head(tasks) = tasks[1]
    BY <1>1, <1>3 DEF TakeTask
  <2>3. /\ Len(started') = Len(started) + 1
        /\ \A i \in 1..Len(started) : started'[i] = started[i]
        /\ started'[Len(started) + 1] = Head(tasks)
    BY <1>1, <1>3, <2>1, AppendProperties DEF TakeTask
  <2>4. Head(tasks) = Len(started) + 1
    BY <1>1, <2>2
  <2>5. \A i \in 1..Len(started') : started'[i] = i
    BY <1>1, <2>3, <2>4
  <2>6. \A i \in 1..Len(tasks') : tasks'[i] = Len(started') + i
    BY <1>1, <1>3, <2>1, <2>3 DEF TakeTask
  <2>7. tasks' = Tail(tasks) /\ submitted' = submitted
    BY <1>3 DEF TakeTask
  <2>8. Len(started') + Len(tasks') = submitted'
    <3>1. Len(tasks') = Len(tasks) - 1
      BY <2>1, <2>7
    <3>2. Len(started') = Len(started) + 1
      BY <2>3
    <3>3. submitted' = submitted
      BY <2>7
    <3> QED BY <1>1, <3>1, <3>2, <3>3
  <2> QED BY <2>5, <2>6, <2>8
<1>4. CASE UNCHANGED <<tasks, started, submitted>>
  BY <1>4
<1> QED
  BY <1>2, <1>3, <1>4
     DEF Next, OwnerStep, WorkerStep, Stopped, vars, history, NotifyOne, BeginDestroy,
         NotifyAll, Join, EndDestroy, Wait, SpuriousWakeup, WorkerReturn, FinishTask, TaskThrows

\* A task changes hands only from the queue to one worker to finished.
LEMMA HeldStep == TypeOK /\ QueueInv /\ HeldInv /\ [Next]_vars => HeldInv'
<1> SUFFICES ASSUME TypeOK, QueueInv, HeldInv, [Next]_vars PROVE HeldInv'
  OBVIOUS
<1> USE DEF HeldInv
<1>1. /\ tasks \in Seq(Tasks) /\ started \in Seq(Tasks)
      /\ Len(tasks) \in Nat /\ Len(started) \in Nat
      /\ current \in [Workers -> 0..MaxTasks]
  BY LenProperties DEF TypeOK
<1>2. ASSUME NEW w \in Workers, TakeTask(w) PROVE HeldInv'
  <2>1. Len(started') = Len(started) + 1 /\ Head(tasks) = Len(started) + 1
    <3>1. Head(tasks) \in Tasks
      BY <1>1, <1>2, HeadTailProperties DEF TakeTask
    <3>2. Len(tasks) > 0 /\ Head(tasks) = tasks[1]
      BY <1>1, <1>2 DEF TakeTask
    <3> QED BY <1>1, <1>2, <3>1, <3>2, AppendProperties DEF TakeTask, QueueInv
  <2>2. current[w] = 0
    BY <1>2 DEF TakeTask, TypeOK
  <2>3. current' = [current EXCEPT ![w] = Len(started) + 1] /\ finished' = finished
    BY <1>2, <2>1 DEF TakeTask
  <2>4. \A v \in Workers : current'[v] = IF v = w THEN Len(started) + 1 ELSE current[v]
    BY <1>1, <2>3
  <2>5. \A t \in 1..Len(started') : t \in finished' \/ \E v \in Workers : current'[v] = t
    <3> SUFFICES ASSUME NEW t \in 1..Len(started'), t \notin finished'
                 PROVE  \E v \in Workers : current'[v] = t
      OBVIOUS
    <3>1. CASE t = Len(started) + 1
      BY <2>4, <3>1
    <3>2. CASE t # Len(started) + 1
      <4>1. t \in 1..Len(started)
        BY <1>1, <2>1, <3>2
      <4>2. PICK v \in Workers : current[v] = t
        BY <2>3, <4>1
      <4> QED BY <2>2, <2>4, <4>1, <4>2
    <3> QED BY <3>1, <3>2
  <2>6. /\ finished' \subseteq 1..Len(started')
        /\ \A v \in Workers : current'[v] # 0 =>
                current'[v] \in 1..Len(started') /\ current'[v] \notin finished'
    BY <1>1, <2>1, <2>3, <2>4
  <2>7. \A u, v \in Workers : u # v /\ current'[u] # 0 => current'[u] # current'[v]
    BY <1>1, <2>4
  <2> QED BY <2>5, <2>6, <2>7
<1>3. ASSUME NEW w \in Workers, FinishTask(w) PROVE HeldInv'
  <2>1. current[w] # 0
    BY <1>3 DEF FinishTask, TypeOK
  <2>2. /\ finished' = finished \cup {current[w]} /\ started' = started
        /\ \A v \in Workers : current'[v] = IF v = w THEN 0 ELSE current[v]
    BY <1>1, <1>3 DEF FinishTask
  <2>3. \A t \in 1..Len(started') : t \in finished' \/ \E v \in Workers : current'[v] = t
    BY <2>2
  <2>4. \A u, v \in Workers : u # v /\ current'[u] # 0 => current'[u] # current'[v]
    BY <2>2
  <2>5. finished' \subseteq 1..Len(started')
    BY <1>1, <2>1, <2>2
  <2>6. \A v \in Workers : current'[v] # 0 =>
            current'[v] \in 1..Len(started') /\ current'[v] \notin finished'
    BY <2>1, <2>2
  <2> QED BY <2>3, <2>4, <2>5, <2>6
<1>4. CASE UNCHANGED <<current, started, finished>>
  BY <1>4
<1> QED
  BY <1>2, <1>3, <1>4
     DEF Next, OwnerStep, WorkerStep, Stopped, vars, history, Enqueue, NotifyOne, BeginDestroy,
         NotifyAll, Join, EndDestroy, Wait, SpuriousWakeup, WorkerReturn, TaskThrows

\* Once a worker has left, the flag is set and nothing can enter the queue again.
LEMMA StopStep == TypeOK /\ StopInv /\ [Next]_vars => StopInv'
<1> SUFFICES ASSUME TypeOK, StopInv, [Next]_vars PROVE StopInv'
  OBVIOUS
<1>0. /\ joined \in 0..NumWorkers /\ NumWorkers \in Nat
      /\ wpc \in [Workers -> {"lock", "waiting", "running", "returned", "killed"}]
      /\ \A i \in 0..NumWorkers : i # 0 => i \in Workers
      /\ \A i \in 1..joined : i \in Workers
  BY ThreadPoolSizes DEF TypeOK, Workers
<1> USE <1>0 DEF StopInv, history
<1>1. CASE Enqueue
  BY <1>1 DEF Enqueue
<1>2. CASE NotifyOne
  BY <1>2 DEF NotifyOne, WaitSet
<1>3. CASE BeginDestroy
  BY <1>3 DEF BeginDestroy
<1>4. CASE NotifyAll
  BY <1>4 DEF NotifyAll
<1>5. CASE Join
  BY <1>5 DEF Join
<1>6. CASE EndDestroy
  BY <1>6 DEF EndDestroy
<1>7. ASSUME NEW w \in Workers, Wait(w) PROVE StopInv'
  BY <1>7 DEF Wait
<1>8. ASSUME NEW w \in Workers, SpuriousWakeup(w) PROVE StopInv'
  BY <1>8 DEF SpuriousWakeup
<1>9. ASSUME NEW w \in Workers, WorkerReturn(w) PROVE StopInv'
  BY <1>9 DEF WorkerReturn
<1>10. ASSUME NEW w \in Workers, TakeTask(w) PROVE StopInv'
  BY <1>10 DEF TakeTask
<1>11. ASSUME NEW w \in Workers, FinishTask(w) PROVE StopInv'
  BY <1>11 DEF FinishTask
<1>12. ASSUME NEW w \in Workers, TaskThrows(w) PROVE StopInv'
  BY <1>12 DEF TaskThrows
<1>13. CASE UNCHANGED vars
  BY <1>13 DEF vars
<1> QED
  BY <1>1, <1>2, <1>3, <1>4, <1>5, <1>6, <1>7, <1>8, <1>9, <1>10, <1>11, <1>12, <1>13
     DEF Next, OwnerStep, WorkerStep, Stopped

\* The inductive invariant holds in every state of the pool.
THEOREM Inductive == Spec => []IInv
<1>1. Init => IInv
  <2> SUFFICES ASSUME Init PROVE QueueInv /\ HeldInv /\ StopInv
    BY TypeCorrectInit DEF IInv
  <2>1. QueueInv
    BY DEF Init, QueueInv
  <2>2. HeldInv
    BY DEF Init, HeldInv
  <2>3. StopInv
    BY ThreadPoolSizes DEF Init, StopInv, Workers
  <2> QED BY <2>1, <2>2, <2>3
<1>2. IInv /\ [Next]_vars => IInv'
  BY TypeStep, QueueStep, HeldStep, StopStep DEF IInv
<1> QED BY <1>1, <1>2, PTL DEF Spec

-----------------------------------------------------------------------------
\* A pool without queued, started or held tasks that are not accounted for: for
\* every number of workers and tasks, each enqueued task is queued, held by one
\* worker, or finished, and the order is first in, first out.
THEOREM Partitioned == Spec => []TasksPartitioned
<1>1. IInv => TasksPartitioned
  <2> SUFFICES ASSUME IInv PROVE TasksPartitioned
    OBVIOUS
  <2> DEFINE held == {current[w] : w \in Workers} \ {0}
  <2>1. /\ started \in Seq(Nat) /\ tasks \in Seq(Nat) /\ submitted \in Nat
        /\ Len(started) \in Nat /\ Len(tasks) \in Nat
    BY LenProperties, ThreadPoolSizes DEF IInv, TypeOK, Tasks
  <2>2. started \o tasks = [i \in 1..submitted |-> i]
    <3>1. /\ started \o tasks \in Seq(Nat) /\ Len(started \o tasks) = submitted
          /\ \A i \in 1..submitted : (started \o tasks)[i] =
                IF i <= Len(started) THEN started[i] ELSE tasks[i - Len(started)]
      BY <2>1, ConcatProperties DEF IInv, QueueInv
    <3>2. \A i \in 1..submitted : (started \o tasks)[i] = i
      <4> SUFFICES ASSUME NEW i \in 1..submitted PROVE (started \o tasks)[i] = i
        OBVIOUS
      <4>1. CASE i <= Len(started)
        BY <2>1, <3>1, <4>1 DEF IInv, QueueInv
      <4>2. CASE ~(i <= Len(started))
        <5>1. i - Len(started) \in 1..Len(tasks)
          BY <2>1, <4>2 DEF IInv, QueueInv
        <5>2. tasks[i - Len(started)] = Len(started) + (i - Len(started))
          BY <5>1 DEF IInv, QueueInv
        <5> QED BY <2>1, <3>1, <4>2, <5>2
      <4> QED BY <4>1, <4>2
    <3>3. /\ DOMAIN (started \o tasks) = 1..submitted
          /\ started \o tasks = [i \in DOMAIN (started \o tasks) |-> (started \o tasks)[i]]
      BY <3>1, LenProperties
    <3> HIDE DEF IInv
    <3> QED BY <3>2, <3>3
  <2>3. finished \cup held = 1..Len(started) /\ finished \cap held = {}
    <3>1. held \subseteq 1..Len(started) /\ finished \cap held = {}
      BY DEF IInv, HeldInv
    <3>2. 0 \notin 1..Len(started)
      BY <2>1
    <3>3. \A t \in 1..Len(started) : t \in finished \cup held
      BY <3>2 DEF IInv, HeldInv
    <3> QED BY <3>1, <3>3 DEF IInv, HeldInv
  <2>4. \A v, w \in Workers : v # w /\ current[v] # 0 => current[v] # current[w]
    BY DEF IInv, HeldInv
  <2>5. TypeOK
    BY DEF IInv
  <2> QED BY <2>2, <2>3, <2>4, <2>5 DEF TasksPartitioned
<1> QED BY <1>1, Inductive, PTL

\* Once every worker is joined nothing is queued and nobody holds a task.
LEMMA ReturnMeansDrained == IInv => DrainedBeforeReturn
<1> SUFFICES ASSUME IInv, cpc = "destroyed" PROVE finished = 1..submitted
  BY DEF DrainedBeforeReturn
<1>1. \A w \in Workers : wpc[w] = "returned"
  BY ThreadPoolSizes DEF IInv, StopInv, TypeOK, Workers
<1>2. tasks = <<>> /\ \A w \in Workers : current[w] = 0
  <2>1. 1 \in Workers
    BY ThreadPoolSizes DEF Workers
  <2> QED BY <1>1, <2>1 DEF IInv, StopInv, TypeOK
<1>3. Len(started) = submitted
  <2>1. Len(started) \in Nat /\ Len(tasks) = 0
    BY <1>2, LenProperties, EmptySeq DEF IInv, TypeOK
  <2> QED BY <2>1 DEF IInv, QueueInv
<1>4. submitted \in Nat /\ 0 \notin 1..submitted
  BY ThreadPoolSizes DEF IInv, TypeOK
<1>5. \A t \in 1..submitted : t \in finished
  BY <1>2, <1>3, <1>4 DEF IInv, HeldInv
<1> QED BY <1>3, <1>5 DEF IInv, HeldInv

\* When the destructor returns nothing is queued or running, whatever the number
\* of workers: the scanner may read its results without a lock.
THEOREM Drained == Spec => []DrainedBeforeReturn
BY ReturnMeansDrained, Inductive, PTL

-----------------------------------------------------------------------------
\* The tasks that run are as many as started is longer than finished is large.
LEMMA RunningCount ==
    ASSUME TypeOK, HeldInv
    PROVE  /\ IsFiniteSet((1..Len(started)) \ finished)
           /\ Cardinality((1..Len(started)) \ finished) = Len(started) - Cardinality(finished)
           /\ Cardinality(finished) \in Nat /\ Len(started) \in Nat
<1> DEFINE all == 1..Len(started)
           run == all \ finished
<1>1. Len(started) \in Nat
  BY LenProperties DEF TypeOK
<1>2. IsFiniteSet(all) /\ Cardinality(all) = Len(started)
  <2>1. \A n \in Nat : IsFiniteSet(1..n) /\ Cardinality(1..n) = n
    <3> TAKE n \in Nat
    <3>1. /\ IsFiniteSet(1..n)
          /\ Cardinality(1..n) = IF 1 > n THEN 0 ELSE n - 1 + 1
      BY FS_Interval
    <3> QED BY <3>1
  <2> QED BY <1>1, <2>1
<1>3. finished \in SUBSET all /\ run \in SUBSET all
  BY DEF HeldInv
<1> HIDE DEF all
<1>4. IsFiniteSet(finished) /\ IsFiniteSet(run)
  BY <1>2, <1>3, FS_Subset
<1>5. finished \cup run = all /\ finished \cap run = {}
  BY <1>3
<1>6. Cardinality(finished \cup run) =
          Cardinality(finished) + Cardinality(run) - Cardinality(finished \cap run)
  BY <1>4, FS_Union
<1>7. Cardinality(finished) \in Nat /\ Cardinality(run) \in Nat
  BY <1>4, FS_CardinalityType
<1>8. Cardinality(run) = Len(started) - Cardinality(finished)
  <2>1. Len(started) = Cardinality(finished) + Cardinality(run) - 0
    BY <1>2, <1>5, <1>6, FS_EmptySet
  <2> HIDE DEF run
  <2> QED BY <1>1, <1>7, <2>1
<1> QED BY <1>1, <1>4, <1>7, <1>8 DEF all

\* While a worker has no task, fewer tasks run than there are workers: the others
\* hold the running ones, each its own.
LEMMA FreeWorker ==
    ASSUME TypeOK, HeldInv, NEW w \in Workers, current[w] = 0
    PROVE  Len(started) - Cardinality(finished) < NumWorkers
<1> DEFINE run == (1..Len(started)) \ finished
           others == Workers \ {w}
           holder == [t \in run |-> CHOOSE v \in Workers : current[v] = t]
<1>1. Len(started) \in Nat /\ 0 \notin run
  BY LenProperties DEF TypeOK
<1>2. IsFiniteSet(others) /\ Cardinality(others) = NumWorkers - 1
  <2>1. IsFiniteSet(Workers) /\ Cardinality(Workers) = NumWorkers
    BY FS_Interval, ThreadPoolSizes DEF Workers
  <2> QED BY <2>1, FS_RemoveElement
<1>3. \A t \in run : holder[t] \in others /\ current[holder[t]] = t
  <2> SUFFICES ASSUME NEW t \in run PROVE holder[t] \in others /\ current[holder[t]] = t
    OBVIOUS
  <2>1. \E v \in Workers : current[v] = t
    BY DEF HeldInv
  <2>2. holder[t] \in Workers /\ current[holder[t]] = t
    BY <2>1
  <2>3. t # 0
    BY <1>1
  <2> QED BY <2>2, <2>3
<1>4. holder \in Injection(run, others)
  <2> HIDE DEF run, others
  <2>1. holder \in [run -> others]
    BY <1>3
  <2> HIDE DEF holder
  <2> QED BY <1>3, <2>1 DEF Injection, IsInjective
<1>5. Cardinality(run) <= Cardinality(others)
  BY <1>2, <1>4, FS_Injection
<1> QED BY <1>2, <1>5, RunningCount, ThreadPoolSizes

\* While a task runs, fewer tasks are finished than were started.
LEMMA TaskRuns ==
    ASSUME TypeOK, HeldInv, NEW w \in Workers, current[w] # 0
    PROVE  Len(started) > Cardinality(finished)
<1>1. current[w] \in (1..Len(started)) \ finished
  BY DEF HeldInv
<1>2. Cardinality((1..Len(started)) \ finished) # 0
  BY <1>1, RunningCount, FS_EmptySet
<1>3. Cardinality((1..Len(started)) \ finished) \in Nat
  BY RunningCount, FS_CardinalityType
<1> QED BY <1>2, <1>3, RunningCount

\* Both modules count with the same Cardinality.
LEMMA SameCardinality == Abstract!Cardinality(finished) = Cardinality(finished)
BY DEF Abstract!Cardinality, Cardinality

\* Every step of the pool is a step of TaskPool or leaves what the owner sees alone.
LEMMA RefinementStep == IInv /\ [Next]_vars => [Abstract!Next]_(Abstract!poolVars)
<1> SUFFICES ASSUME IInv, [Next]_vars
             PROVE  Abstract!Next \/ UNCHANGED Abstract!poolVars
  OBVIOUS
<1> USE DEF PoolPhase, Abstract!poolVars, history
<1>0. TypeOK /\ QueueInv /\ HeldInv /\ StopInv
  BY DEF IInv
<1>1. CASE Enqueue
  <2>1. Abstract!Submit
    BY <1>1 DEF Enqueue, Abstract!Submit
  <2> QED BY <2>1 DEF Abstract!Next
<1>2. CASE NotifyOne
  BY <1>2 DEF NotifyOne
<1>3. CASE BeginDestroy
  <2>1. Abstract!Close
    BY <1>3 DEF BeginDestroy, Abstract!Close
  <2> QED BY <2>1 DEF Abstract!Next
<1>4. CASE NotifyAll
  BY <1>4 DEF NotifyAll
<1>5. CASE Join
  BY <1>5 DEF Join
<1>6. CASE EndDestroy
  <2>1. finished = 1..submitted
    <3>1. IInv'
      BY TypeStep, QueueStep, HeldStep, StopStep DEF IInv
    <3>2. cpc' = "destroyed" /\ finished' = finished /\ submitted' = submitted
      BY <1>6 DEF EndDestroy
    <3>3. IInv' => DrainedBeforeReturn'
      BY ReturnMeansDrained, PTL
    <3> QED BY <3>1, <3>2, <3>3 DEF DrainedBeforeReturn
  <2>2. Abstract!Return
    BY <1>6, <2>1 DEF EndDestroy, Abstract!Return
  <2> QED BY <2>2 DEF Abstract!Next
<1>7. ASSUME NEW w \in Workers, Wait(w) PROVE UNCHANGED Abstract!poolVars
  BY <1>7 DEF Wait
<1>8. ASSUME NEW w \in Workers, SpuriousWakeup(w) PROVE UNCHANGED Abstract!poolVars
  BY <1>8 DEF SpuriousWakeup
<1>9. ASSUME NEW w \in Workers, WorkerReturn(w) PROVE UNCHANGED Abstract!poolVars
  BY <1>9 DEF WorkerReturn
\* A worker at the lock is neither gone nor joined, so the owner is still there.
<1>a. \A w \in Workers : wpc[w] \in {"lock", "running"} =>
          PoolPhase \in {"open", "closing"}
  <2> SUFFICES ASSUME NEW w \in Workers, wpc[w] \in {"lock", "running"}
               PROVE  PoolPhase \in {"open", "closing"}
    OBVIOUS
  <2>1. cpc # "aborted"
    BY <1>0 DEF StopInv
  <2>2. cpc # "destroyed"
    <3>1. w \in 1..NumWorkers
      BY DEF Workers
    <3> QED BY <1>0, <2>1, <3>1 DEF StopInv
  <2> QED BY <1>0, <2>1, <2>2 DEF TypeOK
<1>10. ASSUME NEW w \in Workers, TakeTask(w) PROVE Abstract!Next
  <2>1. PoolPhase \in {"open", "closing"} /\ PoolPhase' = PoolPhase
    BY <1>10, <1>a DEF TakeTask
  <2>2. Len(tasks) \in Nat /\ Len(started) \in Nat /\ tasks # <<>> /\ tasks \in Seq(Tasks)
    BY <1>0, <1>10, LenProperties DEF TypeOK, TakeTask
  <2>3. Len(tasks) > 0 /\ Head(tasks) = tasks[1]
    BY <2>2, EmptySeq, HeadTailProperties
  <2>4. Head(tasks) = Len(started) + 1 /\ Len(started) < submitted
    BY <1>0, <2>2, <2>3 DEF QueueInv
  <2>5. Len(started) - Cardinality(finished) < NumWorkers
    BY <1>0, <1>10, FreeWorker DEF TakeTask, TypeOK
  <2>6. Abstract!Start
    BY <1>10, <2>1, <2>4, <2>5, SameCardinality DEF TakeTask, Abstract!Start
  <2> QED BY <2>6 DEF Abstract!Next
<1>11. ASSUME NEW w \in Workers, FinishTask(w) PROVE Abstract!Next
  <2>1. PoolPhase \in {"open", "closing"} /\ PoolPhase' = PoolPhase
    BY <1>11, <1>a DEF FinishTask
  <2>2. current[w] # 0 /\ current[w] \in 0..MaxTasks /\ MaxTasks \in Nat
    BY <1>0, <1>11, ThreadPoolSizes DEF FinishTask, TypeOK
  <2>3. current[w] \in Abstract!Tasks
    BY <2>2 DEF Abstract!Tasks
  <2>4. current[w] \in 1..Len(started) /\ current[w] \notin finished
    BY <1>0, <2>2 DEF HeldInv
  <2>5. Abstract!Finish(current[w])
    BY <1>11, <2>1, <2>4 DEF FinishTask, Abstract!Finish
  <2> QED BY <2>3, <2>5 DEF Abstract!Next
<1>12. ASSUME NEW w \in Workers, TaskThrows(w) PROVE Abstract!Next
  <2>1. PoolPhase \in {"open", "closing"} /\ PoolPhase' = "aborted"
    BY <1>12, <1>a DEF TaskThrows
  <2>2. Len(started) > Cardinality(finished)
    BY <1>0, <1>12, TaskRuns DEF TaskThrows, TypeOK
  <2>3. Abstract!Abort
    BY <1>12, <2>1, <2>2, SameCardinality DEF TaskThrows, Abstract!Abort
  <2> QED BY <2>3 DEF Abstract!Next
<1>13. CASE UNCHANGED vars
  BY <1>13 DEF vars
<1> QED
  BY <1>1, <1>2, <1>3, <1>4, <1>5, <1>6, <1>7, <1>8, <1>9, <1>10, <1>11, <1>12, <1>13
     DEF Next, OwnerStep, WorkerStep, Stopped

\* Queue, flag, condition variable and join together are a TaskPool, for every
\* number of workers and tasks: what ScanJob assumes of the pool is what the code does.
THEOREM Refinement == Spec => ImplementsTaskPool
<1>1. Init => Abstract!Init
  BY DEF Init, Abstract!Init, PoolPhase
<1> QED BY <1>1, Inductive, RefinementStep, PTL DEF Spec, ImplementsTaskPool, Abstract!Spec

-----------------------------------------------------------------------------
AtLock == {w \in Workers : wpc[w] = "lock"}

\* One worker more or less at the lock.
LEMMA LockCount ==
    ASSUME TypeOK
    PROVE  /\ IsFiniteSet(AtLock) /\ Cardinality(AtLock) \in Nat
           /\ \A w \in Workers : wpc[w] # "lock" =>
                  Cardinality(AtLock \cup {w}) = Cardinality(AtLock) + 1
           /\ \A w \in Workers : wpc[w] = "lock" =>
                  Cardinality(AtLock \ {w}) = Cardinality(AtLock) - 1
<1>1. IsFiniteSet(Workers)
  BY FS_Interval, ThreadPoolSizes DEF Workers
<1>2. AtLock \in SUBSET Workers
  BY DEF AtLock
<1>3. IsFiniteSet(AtLock)
  BY <1>1, <1>2, FS_Subset
<1>4. ASSUME NEW w \in Workers, wpc[w] # "lock"
      PROVE  Cardinality(AtLock \cup {w}) = Cardinality(AtLock) + 1
  <2>1. w \notin AtLock
    BY <1>4 DEF AtLock
  <2> QED BY <1>3, <2>1, FS_AddElement
<1>5. ASSUME NEW w \in Workers, wpc[w] = "lock"
      PROVE  Cardinality(AtLock \ {w}) = Cardinality(AtLock) - 1
  <2>1. w \in AtLock
    BY <1>5 DEF AtLock
  <2> QED BY <1>3, <2>1, FS_RemoveElement
<1> QED BY <1>3, <1>4, <1>5, FS_CardinalityType

\* A worker that comes to the lock, from waiting or from a task, adds one there.
LEMMA ComesToLock ==
    ASSUME TypeOK, NEW w \in Workers, wpc[w] # "lock", wpc' = [wpc EXCEPT ![w] = "lock"]
    PROVE  Cardinality(AtLock') = Cardinality(AtLock) + 1
<1>1. AtLock' = AtLock \cup {w}
  BY DEF TypeOK, AtLock
<1> QED BY <1>1, LockCount

\* No step puts a worker to sleep beside work or forgets to wake one for new work.
LEMMA SleepStep == TypeOK /\ NoSleepBesideWork /\ [Next]_vars => NoSleepBesideWork'
<1> SUFFICES ASSUME TypeOK, NoSleepBesideWork, [Next]_vars, WaitSet' # {}
             PROVE  Len(tasks') <= Cardinality(AtLock') + (IF cpc' = "notify_one" THEN 1 ELSE 0)
  BY DEF NoSleepBesideWork, AtLock
<1> DEFINE coming == IF cpc = "notify_one" THEN 1 ELSE 0
           count == Cardinality(AtLock)
<1>0. /\ WaitSet # {} => Len(tasks) <= count + coming
      /\ Len(tasks) \in Nat /\ count \in Nat
  BY LockCount, LenProperties DEF NoSleepBesideWork, AtLock, TypeOK
<1>w. \A w \in Workers : wpc[w] = "waiting" => WaitSet # {}
  BY DEF WaitSet
<1>e. \A s : s = <<>> => Len(s) = 0
  BY EmptySeq
<1>1. CASE Enqueue
  <2>1. Len(tasks') = Len(tasks) + 1
    <3>1. tasks \in Seq(Tasks) /\ submitted + 1 \in Tasks
      BY <1>1, ThreadPoolSizes DEF TypeOK, Tasks, Enqueue
    <3> QED BY <1>1, <3>1, AppendProperties DEF Enqueue
  <2>2. WaitSet' = WaitSet /\ AtLock' = AtLock /\ cpc = "idle" /\ cpc' = "notify_one"
    BY <1>1 DEF Enqueue, WaitSet, AtLock
  <2> QED BY <1>0, <2>1, <2>2
<1>2. CASE NotifyOne
  <2>1. cpc = "notify_one" /\ cpc' = "idle" /\ tasks' = tasks
    BY <1>2 DEF NotifyOne
  <2>2. CASE \E w \in WaitSet : wpc' = [wpc EXCEPT ![w] = "lock"]
    <3>1. Cardinality(AtLock') = count + 1
      BY <2>2, ComesToLock DEF WaitSet
    <3>2. Len(tasks) <= count + 1
      BY <1>0, <2>1, <2>2
    <3> QED BY <2>1, <3>1, <3>2, <1>0
  <2>3. CASE WaitSet = {} /\ UNCHANGED wpc
    BY <2>3 DEF WaitSet
  <2> QED BY <1>2, <2>2, <2>3 DEF NotifyOne
<1>3. CASE BeginDestroy
  <2>1. WaitSet' = WaitSet /\ AtLock' = AtLock /\ tasks' = tasks /\ cpc = "idle" /\ cpc' = "notify_all"
    BY <1>3 DEF BeginDestroy, WaitSet, AtLock
  <2> QED BY <1>0, <2>1
<1>4. CASE NotifyAll
  BY <1>4 DEF NotifyAll, WaitSet
<1>5. CASE Join \/ EndDestroy
  <2>1. /\ WaitSet' = WaitSet /\ AtLock' = AtLock /\ tasks' = tasks
        /\ cpc = "join" /\ cpc' # "notify_one"
    BY <1>5 DEF Join, EndDestroy, WaitSet, AtLock
  <2> QED BY <1>0, <2>1
<1>6. ASSUME NEW w \in Workers, Wait(w) \/ WorkerReturn(w)
      PROVE  Len(tasks') <= Cardinality(AtLock') + (IF cpc' = "notify_one" THEN 1 ELSE 0)
  <2>1. Len(tasks') = 0
    BY <1>6, <1>e DEF Wait, WorkerReturn
  <2>2. Cardinality(AtLock') = count - 1
    <3>1. AtLock' = AtLock \ {w} /\ wpc[w] = "lock"
      BY <1>6 DEF Wait, WorkerReturn, AtLock, TypeOK
    <3> QED BY <3>1, LockCount
  <2>3. count > 0
    <3>1. AtLock # {}
      BY <1>6 DEF Wait, WorkerReturn, AtLock
    <3> QED BY <1>0, <3>1, LockCount, FS_EmptySet
  <2> QED BY <1>0, <2>1, <2>2, <2>3
<1>7. ASSUME NEW w \in Workers, SpuriousWakeup(w)
      PROVE  Len(tasks') <= Cardinality(AtLock') + (IF cpc' = "notify_one" THEN 1 ELSE 0)
  <2>1. Cardinality(AtLock') = count + 1 /\ tasks' = tasks /\ cpc' = cpc /\ WaitSet # {}
    BY <1>7, <1>w, ComesToLock DEF SpuriousWakeup
  <2> QED BY <1>0, <2>1
<1>8. ASSUME NEW w \in Workers, TakeTask(w)
      PROVE  Len(tasks') <= Cardinality(AtLock') + (IF cpc' = "notify_one" THEN 1 ELSE 0)
  <2>1. Len(tasks') = Len(tasks) - 1
    <3>1. tasks \in Seq(Tasks) /\ tasks # <<>> /\ tasks' = Tail(tasks)
      BY <1>8 DEF TakeTask, TypeOK
    <3> QED BY <3>1, HeadTailProperties
  <2>2. Cardinality(AtLock') = count - 1
    <3>1. AtLock' = AtLock \ {w} /\ wpc[w] = "lock"
      BY <1>8 DEF TakeTask, AtLock, TypeOK
    <3> QED BY <3>1, LockCount
  <2>3. WaitSet # {} /\ cpc' = cpc
    BY <1>8 DEF TakeTask, WaitSet, TypeOK
  <2> QED BY <1>0, <2>1, <2>2, <2>3
<1>9. ASSUME NEW w \in Workers, FinishTask(w)
      PROVE  Len(tasks') <= Cardinality(AtLock') + (IF cpc' = "notify_one" THEN 1 ELSE 0)
  <2>1. Cardinality(AtLock') = count + 1 /\ tasks' = tasks /\ cpc' = cpc
    BY <1>9, ComesToLock DEF FinishTask
  <2>2. WaitSet # {}
    BY <1>9 DEF FinishTask, WaitSet, TypeOK
  <2> QED BY <1>0, <2>1, <2>2
<1>10. ASSUME NEW w \in Workers, TaskThrows(w) PROVE WaitSet' = {}
  BY <1>10 DEF TaskThrows, WaitSet
<1>11. CASE UNCHANGED vars
  <2>1. WaitSet' = WaitSet /\ AtLock' = AtLock /\ tasks' = tasks /\ cpc' = cpc
    BY <1>11 DEF vars, WaitSet, AtLock
  <2> QED BY <1>0, <2>1
<1> QED
  BY <1>1, <1>2, <1>3, <1>4, <1>5, <1>6, <1>7, <1>8, <1>9, <1>10, <1>11
     DEF Next, OwnerStep, WorkerStep, Stopped

\* No wakeup is lost, for every number of workers and tasks: a worker sleeps only
\* while each queued task has a worker, or a notification, on its way.
THEOREM NoLostWakeup == Spec => []NoSleepBesideWork
<1>1. Init => NoSleepBesideWork
  BY DEF Init, NoSleepBesideWork, WaitSet
<1> QED BY <1>1, TypeCorrect, SleepStep, PTL DEF Spec
=============================================================================
