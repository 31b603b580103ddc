-------------------------- MODULE ScanHistoryProofs --------------------------
(***************************************************************************)
(* Proofs, for any set of scans, any number of restarts and any faults of  *)
(* SQLite, that a scan fails only when SQLite failed, that only a failed   *)
(* COMMIT leaves a transaction open, and that what the file holds of a     *)
(* scan belongs together.                                                  *)
(***************************************************************************)
EXTENDS ScanHistory, TLAPS

\* Before its final writes, after the done row, inside a transaction of its own, and all
\* the places at which a job thread holds db_mu_.
Early == {"idle", "insert", "spawned", "mark_running", "scan", "lock", "mark_done"}
Saving == {"ports", "insert_ports", "commit_ports", "findings", "insert_findings", "commit_findings"}
InSave == {"insert_ports", "commit_ports", "insert_findings", "commit_findings"}
Holding == {"mark_done"} \cup Saving
Places == Early \cup Saving \cup {"catch", "mark_error", "exit", "gone"}

Tables == [row : [Jobs -> RowStatus], ports : [Jobs -> Saved], findings : [Jobs -> Saved]]

Types ==
    /\ pc \in [Jobs -> Places]
    /\ mem \in [Jobs -> {"absent", "queued", "running", "done", "error"}]
    /\ db_mu \in Jobs \cup {Free}
    /\ conn \in Tables /\ file \in Tables /\ tx \in BOOLEAN
    /\ faulty \subseteq Jobs \X Faults

\* db_mu_ is held by the thread that is at one of the final writes.
LockInv == \A j \in Jobs : pc[j] \in Holding <=> db_mu = j

\* A save has its transaction, and a transaction without a save was left by a COMMIT.
TransactionInv ==
    /\ \A j \in Jobs : pc[j] \in InSave => tx
    /\ tx => CommitFailed \/ \E j \in Jobs : pc[j] \in InSave
    /\ ~tx => conn = file

\* Every trace of an error has an error of SQLite behind it.
ErrorInv ==
    \A j \in Jobs :
        \/ pc[j] \in {"catch", "mark_error"} \/ mem[j] = "error"
        \/ conn.row[j] = "error" \/ file.row[j] = "error"
        => Faulty(j) \/ CommitFailed

NoResults(t, j) == t.ports[j] = "none" /\ t.findings[j] = "none"
Behind(t, j) == NoResults(t, j) \/ t.row[j] \in {"done", "error"}

\* A table has no results of a scan before the done row is written, and then only behind
\* a final row.
ResultsInv ==
    \A j \in Jobs :
        /\ pc[j] \in Early => NoResults(conn, j) /\ NoResults(file, j)
        /\ ~Faulty(j) => Behind(conn, j) /\ Behind(file, j)
        /\ ~Faulty(j) /\ pc[j] \in Saving => conn.row[j] = "done"

\* What a job thread that met no fault has stored by the time it is at each place.
StoredInv ==
    \A j \in Jobs : ~Faulty(j) /\ ~CommitFailed =>
        /\ pc[j] \in Saving \cup {"exit"} => conn.row[j] = "done" /\ file.row[j] = "done"
        /\ pc[j] \in {"commit_ports", "findings", "insert_findings", "commit_findings", "exit"} =>
              conn.ports[j] = "all"
        /\ pc[j] \in {"findings", "insert_findings", "commit_findings", "exit"} =>
              file.ports[j] = "all"
        /\ pc[j] \in {"commit_findings", "exit"} => conn.findings[j] = "all"
        /\ pc[j] = "exit" => file.findings[j] = "all"

IInv == Types /\ LockInv /\ TransactionInv /\ ErrorInv /\ ResultsInv /\ StoredInv

-----------------------------------------------------------------------------
(* What the steps do, in the terms of the invariant. *)

\* The file starts empty.
LEMMA InitIInv == Init => IInv
<1> SUFFICES ASSUME Init PROVE IInv
  OBVIOUS
<1>1. /\ \A j \in Jobs : pc[j] = "idle" /\ mem[j] = "absent" /\ conn.row[j] = "none"
                         /\ conn.ports[j] = "none" /\ conn.findings[j] = "none"
      /\ file = conn /\ db_mu = Free /\ tx = FALSE /\ faulty = {} /\ Free \notin Jobs
  BY HistoryConstants DEF Init, Empty, Free
<1>2. Types
  BY DEF Init, Types, Tables, Empty, RowStatus, Saved, Places, Early, Free
<1>3. LockInv /\ TransactionInv
  BY <1>1 DEF LockInv, TransactionInv, Holding, Saving, InSave
<1>4. ErrorInv /\ ResultsInv /\ StoredInv
  BY <1>1 DEF ErrorInv, ResultsInv, StoredInv, NoResults, Behind, Saving
<1> QED BY <1>2, <1>3, <1>4 DEF IInv

\* The errors recorded for a scan stay recorded, and an error for one scan is none for another.
LEMMA FaultsKept ==
  ASSUME faulty' = faulty
  PROVE  /\ CommitFailed' = CommitFailed
         /\ \A j \in Jobs : Faulty(j)' = Faulty(j)
BY DEF CommitFailed, Faulty

LEMMA FaultsGrow ==
  ASSUME NEW j \in Jobs, NEW kind \in Faults, faulty' = faulty \cup {<<j, kind>>}
  PROVE  /\ Faulty(j)'
         /\ \A k \in Jobs : Faulty(k) => Faulty(k)'
         /\ \A k \in Jobs : k # j => (Faulty(k)' <=> Faulty(k))
         /\ CommitFailed => CommitFailed'
         /\ kind = "commit" => CommitFailed'
         /\ kind # "commit" => (CommitFailed' <=> CommitFailed)
BY DEF CommitFailed, Faulty

\* A statement on a scan's row writes that row, in the file too unless a transaction is
\* open, or fails and is recorded.
LEMMA RowWritten ==
  ASSUME Types, NEW j \in Jobs, NEW s \in RowStatus, SetRow(j, s)
  PROVE  /\ tx' = tx
         /\ \/ /\ faulty' = faulty
               /\ conn' \in Tables /\ conn'.row[j] = s
               /\ \A k \in Jobs : k # j => conn'.row[k] = conn.row[k]
               /\ conn'.ports = conn.ports /\ conn'.findings = conn.findings
               /\ file' = IF tx THEN file ELSE conn'
            \/ /\ UNCHANGED <<conn, file>> /\ "statement" \in Faults
               /\ faulty' = faulty \cup {<<j, "statement">>}
BY DEF Types, Tables, SetRow, Write, Ignored

\* A statement on a scan's row keeps the kinds of the tables.
LEMMA RowTypes ==
  ASSUME Types, NEW j \in Jobs, NEW s \in RowStatus, SetRow(j, s)
  PROVE  conn' \in Tables /\ file' \in Tables /\ tx' \in BOOLEAN /\ faulty' \subseteq Jobs \X Faults
BY RowWritten DEF Types

\* The two saves are alike but for the names of their parts.
LEMMA SaveNames ==
  ASSUME NEW s \in SaveSteps
  PROVE  \/ /\ s.table = "ports" /\ s.begin = "ports" /\ s.insert = "insert_ports"
            /\ s.commit = "commit_ports" /\ s.next = "findings"
         \/ /\ s.table = "findings" /\ s.begin = "findings" /\ s.insert = "insert_findings"
            /\ s.commit = "commit_findings" /\ s.next = "exit"
BY DEF SaveSteps

\* The inserts set one scan's results in one table of the connection.
LEMMA Inserted ==
  ASSUME Types, NEW j \in Jobs, NEW s \in SaveSteps, NEW v \in Saved,
         conn' = [conn EXCEPT ![s.table][j] = v]
  PROVE  /\ conn' \in Tables /\ conn'.row = conn.row
         /\ \A k \in Jobs : k # j => conn'.ports[k] = conn.ports[k] /\ conn'.findings[k] = conn.findings[k]
         /\ s.table = "ports" => conn'.ports[j] = v /\ conn'.findings[j] = conn.findings[j]
         /\ s.table = "findings" => conn'.findings[j] = v /\ conn'.ports[j] = conn.ports[j]
<1>1. conn \in Tables
  BY DEF Types
<1>2. CASE s.table = "ports"
  <2>1. conn' = [conn EXCEPT !.ports = [conn.ports EXCEPT ![j] = v]]
    BY <1>1, <1>2 DEF Tables
  <2> QED BY <1>1, <1>2, <2>1 DEF Tables
<1>3. CASE s.table = "findings"
  <2>1. conn' = [conn EXCEPT !.findings = [conn.findings EXCEPT ![j] = v]]
    BY <1>1, <1>3 DEF Tables
  <2> QED BY <1>1, <1>3, <2>1 DEF Tables
<1> QED BY <1>2, <1>3, SaveNames

\* What changes for the other scans when one takes a step: nothing of where they are.
LEMMA OthersStay ==
  ASSUME Types, NEW j \in Jobs, StartScan(j) \/ JobStep(j)
  PROVE  \A k \in Jobs : k # j => pc'[k] = pc[k] /\ mem'[k] = mem[k]
<1>1. \A label : Go(j, label) => \A k \in Jobs : k # j => pc'[k] = pc[k]
  BY DEF Types, Go
<1>2. CASE StartScan(j) \/ JobRunning(j) \/ JobScanned(j) \/ JobCatch(j)
  BY <1>1, <1>2 DEF Types, StartScan, JobRunning, JobScanned, JobCatch
<1>3. CASE InsertRow(j) \/ JobRunningRow(j) \/ JobLocks(j) \/ JobDoneRow(j) \/ JobErrorRow(j)
  BY <1>1, <1>3 DEF InsertRow, JobRunningRow, JobLocks, JobDoneRow, JobErrorRow
<1>4. ASSUME NEW s \in SaveSteps,
             \/ SaveBegin(j, s) \/ SavePrepareFails(j, s)
             \/ SaveInsert(j, s) \/ SaveCommit(j, s) \/ SaveCommitFails(j, s)
      PROVE  \A k \in Jobs : k # j => pc'[k] = pc[k] /\ mem'[k] = mem[k]
  BY <1>1, <1>4 DEF SaveBegin, SavePrepareFails, SaveInsert, SaveCommit, SaveCommitFails, Leave, Throw
<1> QED BY <1>2, <1>3, <1>4 DEF JobStep

\* What a save does to the place of its job, to db_mu_ and to the transaction.
LEMMA SaveMoves ==
  ASSUME Types, NEW j \in Jobs, NEW s \in SaveSteps
  PROVE  /\ SaveBegin(j, s) =>
              /\ pc[j] = s.begin /\ UNCHANGED <<mem, conn, file, faulty>> /\ tx'
              /\ \/ ~tx /\ pc'[j] = s.insert /\ db_mu' = db_mu
                 \/ tx /\ pc'[j] = "catch" /\ db_mu' = Free
         /\ SavePrepareFails(j, s) =>
              /\ pc[j] = s.insert /\ pc'[j] = s.next /\ UNCHANGED <<mem, file>>
              /\ faulty' = faulty \cup {<<j, "prepare">>} /\ "prepare" \in Faults
              /\ conn' = file /\ tx' = FALSE
              /\ db_mu' = IF s.next = "exit" THEN Free ELSE db_mu
         /\ SaveInsert(j, s) =>
              /\ pc[j] = s.insert /\ pc'[j] = s.commit /\ UNCHANGED <<mem, db_mu, file, tx>>
              /\ \/ conn' = [conn EXCEPT ![s.table][j] = "all"] /\ faulty' = faulty
                 \/ /\ "statement" \in Faults /\ faulty' = faulty \cup {<<j, "statement">>}
                    /\ \E part \in Saved : conn' = [conn EXCEPT ![s.table][j] = part]
         /\ SaveCommit(j, s) =>
              /\ pc[j] = s.commit /\ pc'[j] = s.next /\ UNCHANGED <<mem, conn, faulty>>
              /\ file' = conn /\ tx' = FALSE
              /\ db_mu' = IF s.next = "exit" THEN Free ELSE db_mu
         /\ SaveCommitFails(j, s) =>
              /\ pc[j] = s.commit /\ pc'[j] = "catch" /\ UNCHANGED <<mem, file>> /\ db_mu' = Free
              /\ faulty' = faulty \cup {<<j, "commit">>} /\ "commit" \in Faults
              /\ \/ conn' = file /\ tx' = FALSE
                 \/ UNCHANGED <<conn, tx>>
<1>1. \A label : Go(j, label) => pc'[j] = label
  BY DEF Types, Go
<1>2. SaveBegin(j, s) =>
        /\ pc[j] = s.begin /\ UNCHANGED <<mem, conn, file, faulty>> /\ tx'
        /\ \/ ~tx /\ pc'[j] = s.insert /\ db_mu' = db_mu
           \/ tx /\ pc'[j] = "catch" /\ db_mu' = Free
  BY <1>1 DEF SaveBegin, Throw
<1>3. SavePrepareFails(j, s) =>
        /\ pc[j] = s.insert /\ pc'[j] = s.next /\ UNCHANGED <<mem, file>>
        /\ faulty' = faulty \cup {<<j, "prepare">>} /\ "prepare" \in Faults
        /\ conn' = file /\ tx' = FALSE
        /\ db_mu' = IF s.next = "exit" THEN Free ELSE db_mu
  BY <1>1 DEF SavePrepareFails, Leave
<1>4. SaveInsert(j, s) =>
        /\ pc[j] = s.insert /\ pc'[j] = s.commit /\ UNCHANGED <<mem, db_mu, file, tx>>
        /\ \/ conn' = [conn EXCEPT ![s.table][j] = "all"] /\ faulty' = faulty
           \/ /\ "statement" \in Faults /\ faulty' = faulty \cup {<<j, "statement">>}
              /\ \E part \in Saved : conn' = [conn EXCEPT ![s.table][j] = part]
  BY <1>1 DEF SaveInsert, Saved
<1>5. SaveCommit(j, s) =>
        /\ pc[j] = s.commit /\ pc'[j] = s.next /\ UNCHANGED <<mem, conn, faulty>>
        /\ file' = conn /\ tx' = FALSE
        /\ db_mu' = IF s.next = "exit" THEN Free ELSE db_mu
  BY <1>1 DEF SaveCommit, Leave
<1>6. SaveCommitFails(j, s) =>
        /\ pc[j] = s.commit /\ pc'[j] = "catch" /\ UNCHANGED <<mem, file>> /\ db_mu' = Free
        /\ faulty' = faulty \cup {<<j, "commit">>} /\ "commit" \in Faults
        /\ \/ conn' = file /\ tx' = FALSE
           \/ UNCHANGED <<conn, tx>>
  BY <1>1 DEF SaveCommitFails, Throw
<1> QED BY <1>2, <1>3, <1>4, <1>5, <1>6

\* A step of a scan's thread is at one place, and the ones that are not saves are these.
Plain(j, from, to) == pc[j] = from /\ pc'[j] = to

LEMMA PlainMoves ==
  ASSUME Types, NEW j \in Jobs
  PROVE  /\ StartScan(j) => /\ Plain(j, "idle", "insert") /\ mem'[j] = "queued"
                            /\ UNCHANGED <<db_mu, conn, file, tx, faulty>>
         /\ JobRunning(j) => /\ Plain(j, "spawned", "mark_running") /\ mem'[j] = "running"
                             /\ UNCHANGED <<db_mu, conn, file, tx, faulty>>
         /\ JobScanned(j) => /\ Plain(j, "scan", "lock") /\ mem'[j] = "done"
                             /\ UNCHANGED <<db_mu, conn, file, tx, faulty>>
         /\ JobCatch(j) => /\ Plain(j, "catch", "mark_error") /\ mem'[j] = "error"
                           /\ UNCHANGED <<db_mu, conn, file, tx, faulty>>
         /\ JobLocks(j) => /\ Plain(j, "lock", "mark_done") /\ db_mu = Free /\ db_mu' = j
                           /\ UNCHANGED <<mem, conn, file, tx, faulty>>
         /\ InsertRow(j) => /\ Plain(j, "insert", "spawned") /\ db_mu = Free
                            /\ SetRow(j, "queued") /\ UNCHANGED <<mem, db_mu>>
         /\ JobRunningRow(j) => /\ Plain(j, "mark_running", "scan") /\ db_mu = Free
                                /\ SetRow(j, "running") /\ UNCHANGED <<mem, db_mu>>
         /\ JobDoneRow(j) => /\ Plain(j, "mark_done", "ports")
                             /\ SetRow(j, "done") /\ UNCHANGED <<mem, db_mu>>
         /\ JobErrorRow(j) => /\ Plain(j, "mark_error", "exit") /\ db_mu = Free
                              /\ SetRow(j, "error") /\ UNCHANGED <<mem, db_mu>>
<1>1. \A label : Go(j, label) => pc'[j] = label
  BY DEF Types, Go
<1>2. \A v : mem' = [mem EXCEPT ![j] = v] => mem'[j] = v
  BY DEF Types
<1> QED BY <1>1, <1>2 DEF Plain, StartScan, JobRunning, JobScanned, JobCatch, JobLocks, InsertRow,
           JobRunningRow, JobDoneRow, JobErrorRow

-----------------------------------------------------------------------------
(* The invariant, part by part. *)

\* Types are preserved by every step.
LEMMA TypesStep == IInv /\ [Next]_vars => Types'
<1> SUFFICES ASSUME IInv, [Next]_vars PROVE Types'
  OBVIOUS
<1>1. Types
  BY DEF IInv
<1>2. ASSUME NEW j \in Jobs, StartScan(j) \/ JobStep(j) PROVE Types'
  <2>1. \A label \in Places : Go(j, label) => pc' \in [Jobs -> Places]
    BY <1>1 DEF Types, Go
  <2>2. CASE StartScan(j) \/ JobRunning(j) \/ JobScanned(j) \/ JobCatch(j)
    BY <1>1, <2>1, <2>2 DEF Types, StartScan, JobRunning, JobScanned, JobCatch, Places, Early
  <2>3. CASE JobLocks(j)
    BY <1>1, <2>1, <2>3 DEF Types, JobLocks, Places, Early
  <2>4. CASE InsertRow(j) \/ JobRunningRow(j) \/ JobDoneRow(j) \/ JobErrorRow(j)
    <3>1. \E s \in RowStatus : SetRow(j, s)
      BY <2>4 DEF InsertRow, JobRunningRow, JobDoneRow, JobErrorRow, RowStatus
    <3>2. conn' \in Tables /\ file' \in Tables /\ tx' \in BOOLEAN /\ faulty' \subseteq Jobs \X Faults
      BY <1>1, <3>1, RowTypes
    <3>3. /\ pc' \in [Jobs -> Places] /\ mem' = mem /\ db_mu' = db_mu
      BY <1>1, <2>1, <2>4 DEF InsertRow, JobRunningRow, JobDoneRow, JobErrorRow, Places, Early, Saving
    <3> QED BY <1>1, <3>2, <3>3 DEF Types
  <2>5. ASSUME NEW s \in SaveSteps,
               \/ SaveBegin(j, s) \/ SavePrepareFails(j, s)
               \/ SaveInsert(j, s) \/ SaveCommit(j, s) \/ SaveCommitFails(j, s)
        PROVE  Types'
    <3>1. pc' \in [Jobs -> Places]
      BY <2>1, <2>5, SaveNames DEF SaveBegin, SavePrepareFails, SaveInsert, SaveCommit, SaveCommitFails,
         Leave, Throw, Places, Saving
    <3>2. mem' = mem /\ db_mu' \in Jobs \cup {Free} /\ tx' \in BOOLEAN
      BY <1>1, <2>5, SaveMoves DEF Types
    <3>3. faulty' \subseteq Jobs \X Faults
      <4>1. \/ faulty' = faulty
            \/ \E kind \in Faults : faulty' = faulty \cup {<<j, kind>>}
        BY <1>1, <2>5, SaveMoves
      <4> QED BY <1>1, <4>1 DEF Types
    <3>4. conn' \in Tables /\ file' \in Tables
      <4>1. CASE SaveInsert(j, s)
        <5>1. file' = file /\ \E v \in Saved : conn' = [conn EXCEPT ![s.table][j] = v]
          BY <1>1, <4>1, SaveMoves DEF Saved
        <5> QED BY <1>1, <5>1, Inserted DEF Types
      <4>2. CASE ~SaveInsert(j, s)
        BY <1>1, <2>5, <4>2, SaveMoves DEF Types
      <4> QED BY <4>1, <4>2
    <3> QED BY <3>1, <3>2, <3>3, <3>4, <1>1 DEF Types
  <2> QED BY <1>2, <2>2, <2>3, <2>4, <2>5 DEF JobStep
<1>3. CASE Crash
  BY <1>1, <1>3 DEF Crash, Types, Places, Early
<1>4. CASE UNCHANGED vars
  BY <1>1, <1>4 DEF vars, Types
<1> QED BY <1>2, <1>3, <1>4 DEF Next, Over

\* db_mu_ passes from the threads that hold it to nobody, and from nobody to one.
LEMMA LockStep == IInv /\ [Next]_vars => LockInv'
<1> SUFFICES ASSUME IInv, [Next]_vars PROVE LockInv'
  OBVIOUS
<1>1. Types /\ LockInv /\ Free \notin Jobs
  BY HistoryConstants DEF IInv, Free
<1>2. ASSUME NEW j \in Jobs, StartScan(j) \/ JobStep(j) PROVE LockInv'
  <2>1. \A k \in Jobs : k # j => pc'[k] = pc[k]
    BY <1>1, <1>2, OthersStay
  <2>2. CASE /\ pc[j] \notin Holding /\ pc'[j] \notin Holding /\ db_mu' = db_mu
    BY <1>1, <2>1, <2>2 DEF LockInv
  <2>3. CASE /\ pc[j] \in Holding /\ pc'[j] \in Holding /\ db_mu' = db_mu
    BY <1>1, <2>1, <2>3 DEF LockInv
  <2>4. CASE /\ pc[j] \in Holding /\ pc'[j] \notin Holding /\ db_mu' = Free
    BY <1>1, <2>1, <2>4 DEF LockInv
  <2>5. CASE /\ db_mu = Free /\ pc'[j] \in Holding /\ db_mu' = j
    BY <1>1, <2>1, <2>5 DEF LockInv
  <2>6. CASE StartScan(j) \/ JobRunning(j) \/ JobScanned(j) \/ JobCatch(j) \/ InsertRow(j)
             \/ JobRunningRow(j) \/ JobErrorRow(j)
    <3>1. pc[j] \notin Holding /\ pc'[j] \notin Holding /\ db_mu' = db_mu
      BY <1>1, <2>6, PlainMoves DEF Plain, Holding, Saving
    <3> QED BY <2>2, <3>1
  <2>7. CASE JobLocks(j)
    BY <1>1, <2>5, <2>7, PlainMoves DEF Plain, Holding
  <2>8. CASE JobDoneRow(j)
    BY <1>1, <2>3, <2>8, PlainMoves DEF Plain, Holding, Saving
  <2>9. ASSUME NEW s \in SaveSteps,
               \/ SaveBegin(j, s) \/ SavePrepareFails(j, s)
               \/ SaveInsert(j, s) \/ SaveCommit(j, s) \/ SaveCommitFails(j, s)
        PROVE  LockInv'
    <3>1. pc[j] \in Holding
      <4>1. pc[j] \in {s.begin, s.insert, s.commit}
        BY <1>1, <2>9, SaveMoves
      <4> QED BY <4>1, SaveNames DEF Holding, Saving
    <3>2. \/ pc'[j] \in {s.insert, s.commit} /\ db_mu' = db_mu
          \/ pc'[j] = "catch" /\ db_mu' = Free
          \/ pc'[j] = s.next /\ db_mu' = IF s.next = "exit" THEN Free ELSE db_mu
      BY <1>1, <2>9, SaveMoves
    <3>3. \/ pc'[j] \in Holding /\ db_mu' = db_mu
          \/ pc'[j] \notin Holding /\ db_mu' = Free
      BY <3>2, SaveNames DEF Holding, Saving
    <3> QED BY <2>3, <2>4, <3>1, <3>3
  <2> QED BY <1>2, <2>6, <2>7, <2>8, <2>9 DEF JobStep
<1>3. CASE Crash
  BY <1>1, <1>3 DEF Crash, Types, LockInv, Holding, Saving
<1>4. CASE UNCHANGED vars
  BY <1>1, <1>4 DEF vars, LockInv
<1> QED BY <1>2, <1>3, <1>4 DEF Next, Over

\* No two threads are at their final writes.
LEMMA OneHolds ==
  ASSUME LockInv
  PROVE  /\ \A j, k \in Jobs : pc[j] \in Holding /\ pc[k] \in Holding => j = k
         /\ db_mu = Free => \A k \in Jobs : pc[k] \notin Holding
BY HistoryConstants DEF LockInv, Free

\* A transaction is begun and ended by one save, under the hold of db_mu_.
LEMMA TransactionStep == IInv /\ [Next]_vars => TransactionInv'
<1> SUFFICES ASSUME IInv, [Next]_vars PROVE TransactionInv'
  OBVIOUS
<1>1. Types /\ LockInv /\ TransactionInv
  BY DEF IInv
<1>2. \A k \in Jobs : pc[k] \in InSave => pc[k] \in Holding
  BY DEF InSave, Holding, Saving
<1>3. ASSUME NEW j \in Jobs, StartScan(j) \/ JobStep(j) PROVE TransactionInv'
  <2>1. \A k \in Jobs : k # j => pc'[k] = pc[k]
    BY <1>1, <1>3, OthersStay
  <2>2. CASE /\ pc[j] \notin InSave /\ pc'[j] \notin InSave /\ tx' = tx
             /\ (CommitFailed => CommitFailed') /\ (~tx => conn' = file')
    BY <1>1, <2>1, <2>2 DEF TransactionInv
  <2>3. CASE StartScan(j) \/ JobRunning(j) \/ JobScanned(j) \/ JobCatch(j) \/ JobLocks(j)
    <3>1. /\ pc[j] \notin InSave /\ pc'[j] \notin InSave /\ UNCHANGED <<tx, conn, file, faulty>>
      BY <1>1, <2>3, PlainMoves DEF Plain, InSave
    <3> QED BY <1>1, <2>2, <3>1, FaultsKept DEF TransactionInv
  <2>4. CASE InsertRow(j) \/ JobRunningRow(j) \/ JobDoneRow(j) \/ JobErrorRow(j)
    <3>1. pc[j] \notin InSave /\ pc'[j] \notin InSave /\ \E s \in RowStatus : SetRow(j, s)
      BY <1>1, <2>4, PlainMoves DEF Plain, InSave, RowStatus
    <3>2. tx' = tx /\ (CommitFailed => CommitFailed')
      BY <1>1, <3>1, RowWritten, FaultsKept, FaultsGrow
    <3>3. ~tx => conn' = file'
      BY <1>1, <3>1, RowWritten DEF TransactionInv
    <3> QED BY <2>2, <3>1, <3>2, <3>3
  <2>5. ASSUME NEW s \in SaveSteps,
               \/ SaveBegin(j, s) \/ SavePrepareFails(j, s)
               \/ SaveInsert(j, s) \/ SaveCommit(j, s) \/ SaveCommitFails(j, s)
        PROVE  TransactionInv'
    <3>1. pc[j] \in {s.begin, s.insert, s.commit}
      BY <1>1, <2>5, SaveMoves
    <3>2. pc[j] \in Holding /\ \A k \in Jobs : k # j => pc[k] \notin InSave
      BY <1>1, <1>2, <3>1, SaveNames, OneHolds DEF Holding, Saving
    <3>3. \A k \in Jobs : k # j => pc'[k] \notin InSave
      BY <2>1, <3>2
    <3>4. s.begin \notin InSave /\ s.insert \in InSave /\ s.commit \in InSave /\ s.next \notin InSave
      BY SaveNames DEF InSave
    <3>5. CASE SaveBegin(j, s)
      <4>1. /\ pc[j] = s.begin /\ UNCHANGED <<conn, file, faulty>> /\ tx'
            /\ \/ ~tx /\ pc'[j] = s.insert
               \/ tx /\ pc'[j] = "catch"
        BY <1>1, <3>5, SaveMoves
      <4>2. CASE ~tx /\ pc'[j] = s.insert
        BY <3>3, <3>4, <4>1, <4>2 DEF TransactionInv
      <4>3. CASE tx /\ pc'[j] = "catch"
        <5>1. CommitFailed
          BY <1>1, <3>2, <3>4, <4>1, <4>3 DEF TransactionInv
        <5>2. CommitFailed'
          BY <4>1, <5>1, FaultsKept
        <5> QED BY <3>3, <4>1, <4>3, <5>2 DEF TransactionInv, InSave
      <4> QED BY <4>1, <4>2, <4>3
    <3>6. CASE SavePrepareFails(j, s) \/ SaveCommit(j, s)
      <4>1. pc'[j] = s.next /\ tx' = FALSE /\ conn' = file'
        BY <1>1, <3>6, SaveMoves
      <4> QED BY <3>3, <3>4, <4>1 DEF TransactionInv
    <3>7. CASE SaveInsert(j, s)
      <4>1. pc'[j] = s.commit /\ tx' = tx /\ pc[j] = s.insert
        BY <1>1, <3>7, SaveMoves
      <4> QED BY <1>1, <3>3, <3>4, <4>1 DEF TransactionInv
    <3>8. CASE SaveCommitFails(j, s)
      <4>1. /\ pc'[j] = "catch" /\ faulty' = faulty \cup {<<j, "commit">>} /\ "commit" \in Faults
            /\ file' = file
            /\ \/ conn' = file /\ tx' = FALSE
               \/ UNCHANGED <<conn, tx>>
        BY <1>1, <3>8, SaveMoves
      <4>2. CommitFailed'
        BY <4>1, FaultsGrow
      <4> QED BY <1>1, <3>3, <4>1, <4>2 DEF TransactionInv, InSave
    <3> QED BY <2>5, <3>5, <3>6, <3>7, <3>8
  <2> QED BY <1>3, <2>3, <2>4, <2>5 DEF JobStep
<1>4. CASE Crash
  BY <1>1, <1>4 DEF Crash, Types, TransactionInv, InSave
<1>5. CASE UNCHANGED vars
  BY <1>1, <1>5, FaultsKept DEF vars, TransactionInv
<1> QED BY <1>3, <1>4, <1>5 DEF Next, Over

\* A scan becomes an error only by an error of its own, or because it found the
\* transaction that a failed COMMIT left.
LEMMA ErrorStep == IInv /\ [Next]_vars => ErrorInv'
<1> SUFFICES ASSUME IInv, [Next]_vars PROVE ErrorInv'
  OBVIOUS
<1>1. Types /\ LockInv /\ TransactionInv /\ ErrorInv
  BY DEF IInv
<1>2. ASSUME NEW j \in Jobs, StartScan(j) \/ JobStep(j) PROVE ErrorInv'
  <2>1. \A k \in Jobs : k # j => pc'[k] = pc[k] /\ mem'[k] = mem[k]
    BY <1>1, <1>2, OthersStay
  <2>2. CASE StartScan(j) \/ JobRunning(j) \/ JobScanned(j) \/ JobCatch(j) \/ JobLocks(j)
    <3>1. /\ UNCHANGED <<conn, file, faulty>>
          /\ pc'[j] \in {"catch", "mark_error"} => pc[j] \in {"catch", "mark_error"}
          /\ mem'[j] = "error" => mem[j] = "error" \/ pc[j] = "catch"
      BY <1>1, <2>2, PlainMoves DEF Plain
    <3> QED BY <1>1, <2>1, <3>1, FaultsKept DEF ErrorInv
  <2>3. CASE InsertRow(j) \/ JobRunningRow(j) \/ JobDoneRow(j) \/ JobErrorRow(j)
    <3>1. PICK s \in RowStatus : SetRow(j, s) /\ (s = "error" => pc[j] = "mark_error")
      BY <1>1, <2>3, PlainMoves DEF Plain, RowStatus
    <3>2. pc'[j] \notin {"catch", "mark_error"} /\ mem' = mem
      BY <1>1, <2>3, PlainMoves DEF Plain
    <3>3. \A k \in Jobs : (Faulty(k) \/ CommitFailed) => (Faulty(k) \/ CommitFailed)'
      BY <1>1, <3>1, RowWritten, FaultsKept, FaultsGrow
    <3>4. \A k \in Jobs : conn'.row[k] = "error" \/ file'.row[k] = "error" =>
             \/ conn.row[k] = "error" \/ file.row[k] = "error"
             \/ pc[k] \in {"catch", "mark_error"}
      BY <1>1, <3>1, RowWritten
    <3> QED BY <1>1, <2>1, <3>2, <3>3, <3>4 DEF ErrorInv
  <2>4. ASSUME NEW s \in SaveSteps,
               \/ SaveBegin(j, s) \/ SavePrepareFails(j, s)
               \/ SaveInsert(j, s) \/ SaveCommit(j, s) \/ SaveCommitFails(j, s)
        PROVE  ErrorInv'
    <3>1. \A k \in Jobs : (Faulty(k) \/ CommitFailed) => (Faulty(k) \/ CommitFailed)'
      <4>1. \/ faulty' = faulty
            \/ \E kind \in Faults : faulty' = faulty \cup {<<j, kind>>}
        BY <1>1, <2>4, SaveMoves
      <4> QED BY <4>1, FaultsKept, FaultsGrow
    <3>2. mem' = mem /\ \A k \in Jobs : k # j => pc'[k] = pc[k]
      BY <1>1, <2>1, <2>4, SaveMoves
    <3>3. \A k \in Jobs : conn'.row[k] = "error" \/ file'.row[k] = "error" =>
             conn.row[k] = "error" \/ file.row[k] = "error"
      <4>1. CASE SaveInsert(j, s)
        <5>1. file' = file /\ \E v \in Saved : conn' = [conn EXCEPT ![s.table][j] = v]
          BY <1>1, <4>1, SaveMoves DEF Saved
        <5>2. conn'.row = conn.row
          BY <1>1, <5>1, Inserted
        <5> QED BY <5>1, <5>2
      <4>2. CASE ~SaveInsert(j, s)
        <5>1. conn' \in {conn, file} /\ file' \in {conn, file}
          BY <1>1, <2>4, <4>2, SaveMoves
        <5> QED BY <5>1
      <4> QED BY <4>1, <4>2
    <3>4. pc'[j] \in {"catch", "mark_error"} => (Faulty(j) \/ CommitFailed)'
      <4>1. CASE SaveBegin(j, s)
        <5>1. /\ pc[j] = s.begin /\ faulty' = faulty
              /\ pc'[j] = s.insert \/ tx
          BY <1>1, <4>1, SaveMoves
        <5>2. pc[j] \in Holding /\ pc[j] \notin InSave /\ s.insert \notin {"catch", "mark_error"}
          BY <5>1, SaveNames DEF Holding, Saving, InSave
        <5>3. \A k \in Jobs : pc[k] \notin InSave
          BY <1>1, <5>2, OneHolds DEF InSave, Holding, Saving
        <5>4. tx => CommitFailed
          BY <1>1, <5>3 DEF TransactionInv
        <5> QED BY <5>1, <5>2, <5>4, FaultsKept
      <4>2. CASE SaveCommitFails(j, s)
        BY <1>1, <4>2, SaveMoves, FaultsGrow
      <4>3. CASE SavePrepareFails(j, s) \/ SaveInsert(j, s) \/ SaveCommit(j, s)
        <5>1. pc'[j] \in {s.commit, s.next}
          BY <1>1, <4>3, SaveMoves
        <5> QED BY <5>1, SaveNames
      <4> QED BY <2>4, <4>1, <4>2, <4>3
    <3> QED BY <1>1, <3>1, <3>2, <3>3, <3>4 DEF ErrorInv
  <2> QED BY <1>2, <2>2, <2>3, <2>4 DEF JobStep
<1>3. CASE Crash
  <2>1. /\ conn' = file /\ file' = file /\ faulty' = faulty
        /\ \A k \in Jobs : pc'[k] \notin {"catch", "mark_error"} /\ mem'[k] = "absent"
    BY <1>3 DEF Crash
  <2> QED BY <1>1, <2>1, FaultsKept DEF ErrorInv
<1>4. CASE UNCHANGED vars
  BY <1>1, <1>4, FaultsKept DEF vars, ErrorInv
<1> QED BY <1>2, <1>3, <1>4 DEF Next, Over

\* Two versions of the tables have the same of a scan.
Same(t, u, k) == t.row[k] = u.row[k] /\ t.ports[k] = u.ports[k] /\ t.findings[k] = u.findings[k]

\* What one scan's step does to the rows and results of the others: nothing, but that what
\* the connection holds of them is committed or, by the holder of db_mu_, rolled back.
LEMMA OthersTables ==
  ASSUME Types, NEW j \in Jobs, StartScan(j) \/ JobStep(j), NEW k \in Jobs, k # j
  PROVE  /\ Faulty(k)' <=> Faulty(k)
         /\ CommitFailed => CommitFailed'
         /\ \/ Same(conn', conn, k) /\ (Same(file', file, k) \/ Same(file', conn, k))
            \/ pc[j] \in Holding /\ Same(conn', file, k) /\ Same(file', file, k)
<1> DEFINE Goal == /\ Faulty(k)' <=> Faulty(k)
                   /\ CommitFailed => CommitFailed'
                   /\ \/ Same(conn', conn, k) /\ (Same(file', file, k) \/ Same(file', conn, k))
                      \/ pc[j] \in Holding /\ Same(conn', file, k) /\ Same(file', file, k)
<1>1. CASE StartScan(j) \/ JobRunning(j) \/ JobScanned(j) \/ JobCatch(j) \/ JobLocks(j)
  <2>1. UNCHANGED <<conn, file, faulty>>
    BY <1>1, PlainMoves
  <2> QED BY <2>1, FaultsKept DEF Same
<1>2. CASE InsertRow(j) \/ JobRunningRow(j) \/ JobDoneRow(j) \/ JobErrorRow(j)
  <2>1. PICK s \in RowStatus : SetRow(j, s)
    BY <1>2, PlainMoves DEF RowStatus
  <2>2. /\ Faulty(k)' <=> Faulty(k)
        /\ CommitFailed => CommitFailed'
    BY <2>1, RowWritten, FaultsKept, FaultsGrow
  <2>3. Same(conn', conn, k) /\ (Same(file', file, k) \/ Same(file', conn, k))
    BY <2>1, RowWritten DEF Same
  <2> QED BY <2>2, <2>3
<1>3. ASSUME NEW s \in SaveSteps,
             \/ SaveBegin(j, s) \/ SavePrepareFails(j, s)
             \/ SaveInsert(j, s) \/ SaveCommit(j, s) \/ SaveCommitFails(j, s)
      PROVE  Goal
  <2>1. /\ Faulty(k)' <=> Faulty(k)
        /\ CommitFailed => CommitFailed'
    <3>1. \/ faulty' = faulty
          \/ \E kind \in Faults : faulty' = faulty \cup {<<j, kind>>}
      BY <1>3, SaveMoves
    <3> QED BY <3>1, FaultsKept, FaultsGrow
  <2>2. pc[j] \in Holding
    <3>1. pc[j] \in {s.begin, s.insert, s.commit}
      BY <1>3, SaveMoves
    <3> QED BY <3>1, SaveNames DEF Holding, Saving
  <2>3. CASE SaveInsert(j, s)
    <3>1. file' = file /\ \E v \in Saved : conn' = [conn EXCEPT ![s.table][j] = v]
      BY <2>3, SaveMoves DEF Saved
    <3>2. Same(conn', conn, k) /\ Same(file', file, k)
      BY <3>1, Inserted DEF Same
    <3> QED BY <2>1, <3>2
  <2>4. CASE ~SaveInsert(j, s)
    <3>1. \/ conn' = conn /\ file' \in {file, conn}
          \/ conn' = file /\ file' = file
      BY <1>3, <2>4, SaveMoves
    <3> QED BY <2>1, <2>2, <3>1 DEF Same
  <2> QED BY <2>3, <2>4
<1> QED BY <1>1, <1>2, <1>3 DEF JobStep

\* Results appear behind the done row, and stay behind a final row.
LEMMA ResultsStep == IInv /\ [Next]_vars => ResultsInv'
<1> SUFFICES ASSUME IInv, [Next]_vars PROVE ResultsInv'
  OBVIOUS
<1>1. Types /\ LockInv /\ ResultsInv
  BY DEF IInv
<1> DEFINE R(k) == /\ pc[k] \in Early => NoResults(conn, k) /\ NoResults(file, k)
                   /\ ~Faulty(k) => Behind(conn, k) /\ Behind(file, k)
                   /\ ~Faulty(k) /\ pc[k] \in Saving => conn.row[k] = "done"
<1>2. ASSUME NEW j \in Jobs, StartScan(j) \/ JobStep(j) PROVE ResultsInv'
  <2>1. ASSUME NEW k \in Jobs, k # j PROVE R(k)'
    <3>1. R(k) /\ pc'[k] = pc[k]
      BY <1>1, <1>2, <2>1, OthersStay DEF ResultsInv
    <3>2. CASE Same(conn', conn, k) /\ (Same(file', file, k) \/ Same(file', conn, k))
      BY <1>1, <1>2, <2>1, <3>1, <3>2, OthersTables DEF Same, NoResults, Behind
    <3>3. CASE pc[j] \in Holding /\ Same(conn', file, k) /\ Same(file', file, k)
      <4>1. pc[k] \notin Saving
        BY <1>1, <2>1, <3>3, OneHolds DEF Holding
      <4> QED BY <1>1, <1>2, <2>1, <3>1, <3>3, <4>1, OthersTables DEF Same, NoResults, Behind
    <3> QED BY <1>1, <1>2, <2>1, <3>2, <3>3, OthersTables
  <2>2. R(j)
    BY <1>1 DEF ResultsInv
  <2>3. CASE StartScan(j) \/ JobRunning(j) \/ JobScanned(j) \/ JobCatch(j) \/ JobLocks(j)
    <3>1. /\ UNCHANGED <<conn, file, faulty>> /\ (pc'[j] \in Early => pc[j] \in Early)
          /\ pc'[j] \notin Saving
      BY <1>1, <2>3, PlainMoves DEF Plain, Early, Saving
    <3>2. R(j)'
      BY <2>2, <3>1, FaultsKept DEF NoResults, Behind
    <3> QED BY <2>1, <3>2 DEF ResultsInv
  <2>4. CASE InsertRow(j) \/ JobRunningRow(j) \/ JobDoneRow(j) \/ JobErrorRow(j)
    <3>1. PICK s \in RowStatus : /\ SetRow(j, s)
                                 /\ pc[j] \notin Early => s = "error"
                                 /\ pc'[j] \in Saving => s = "done"
                                 /\ pc'[j] \in Early => pc[j] \in Early
      <4>1. CASE JobErrorRow(j)
        BY <1>1, <4>1, PlainMoves DEF Plain, RowStatus, Early, Saving
      <4>2. CASE InsertRow(j) \/ JobRunningRow(j)
        BY <1>1, <4>2, PlainMoves DEF Plain, RowStatus, Early, Saving
      <4>3. CASE JobDoneRow(j)
        BY <1>1, <4>3, PlainMoves DEF Plain, RowStatus, Early, Saving
      <4> QED BY <2>4, <4>1, <4>2, <4>3
    <3>2. CASE UNCHANGED <<conn, file>> /\ faulty' = faulty \cup {<<j, "statement">>} /\ "statement" \in Faults
      <4>1. Faulty(j)'
        BY <3>2, FaultsGrow
      <4>2. R(j)'
        BY <2>2, <3>1, <3>2, <4>1 DEF NoResults
      <4> QED BY <2>1, <4>2 DEF ResultsInv
    <3>3. CASE /\ faulty' = faulty
               /\ conn'.row[j] = s /\ conn'.ports = conn.ports /\ conn'.findings = conn.findings
               /\ file' = IF tx THEN file ELSE conn'
      <4>1. Faulty(j)' <=> Faulty(j)
        BY <3>3, FaultsKept
      <4>2. pc[j] \in Early => NoResults(conn', j) /\ NoResults(file', j)
        BY <2>2, <3>3 DEF NoResults
      <4>3. s = "error" => conn'.row[j] \in {"done", "error"} /\ (~Faulty(j) => Behind(file', j))
        BY <2>2, <3>3 DEF Behind
      <4>4. R(j)'
        BY <3>1, <3>3, <4>1, <4>2, <4>3 DEF Behind, Saving, Early
      <4> QED BY <2>1, <4>4 DEF ResultsInv
    <3> QED BY <1>1, <3>1, <3>2, <3>3, RowWritten
  <2>5. ASSUME NEW s \in SaveSteps,
               \/ SaveBegin(j, s) \/ SavePrepareFails(j, s)
               \/ SaveInsert(j, s) \/ SaveCommit(j, s) \/ SaveCommitFails(j, s)
        PROVE  ResultsInv'
    <3>1. pc[j] \in Saving
      <4>1. pc[j] \in {s.begin, s.insert, s.commit}
        BY <1>1, <2>5, SaveMoves
      <4> QED BY <4>1, SaveNames DEF Saving
    <3>2. pc'[j] \notin Early
      <4>1. pc'[j] \in {s.insert, s.commit, s.next, "catch"}
        BY <1>1, <2>5, SaveMoves
      <4> QED BY <4>1, SaveNames DEF Early
    <3>3. CASE SavePrepareFails(j, s) \/ SaveCommitFails(j, s)
      <4>1. Faulty(j)'
        BY <1>1, <3>3, SaveMoves, FaultsGrow
      <4> QED BY <2>1, <3>2, <4>1 DEF ResultsInv
    <3>4. CASE SaveBegin(j, s) \/ SaveCommit(j, s)
      <4>1. conn' = conn /\ file' \in {conn, file} /\ faulty' = faulty
        BY <1>1, <3>4, SaveMoves
      <4>2. R(j)'
        BY <2>2, <3>1, <3>2, <4>1, FaultsKept DEF Behind, NoResults
      <4> QED BY <2>1, <4>2 DEF ResultsInv
    <3>5. CASE SaveInsert(j, s)
      <4>1. PICK v \in Saved : conn' = [conn EXCEPT ![s.table][j] = v]
        BY <1>1, <3>5, SaveMoves DEF Saved
      <4>2. conn'.row = conn.row /\ file' = file
        BY <1>1, <3>5, <4>1, SaveMoves, Inserted
      <4>3. Faulty(j) => Faulty(j)'
        BY <1>1, <3>5, SaveMoves, FaultsKept, FaultsGrow
      <4>4. R(j)'
        BY <2>2, <3>1, <3>2, <4>2, <4>3 DEF Behind, NoResults
      <4> QED BY <2>1, <4>4 DEF ResultsInv
    <3> QED BY <2>5, <3>3, <3>4, <3>5
  <2> QED BY <1>2, <2>3, <2>4, <2>5 DEF JobStep
<1>3. CASE Crash
  <2>1. /\ conn' = file /\ file' = file /\ faulty' = faulty
        /\ \A k \in Jobs : pc'[k] = IF pc[k] = "idle" THEN "idle" ELSE "gone"
    BY <1>3 DEF Crash
  <2> QED BY <1>1, <2>1, FaultsKept DEF ResultsInv, NoResults, Behind, Early, Saving
<1>4. CASE UNCHANGED vars
  BY <1>1, <1>4, FaultsKept DEF vars, ResultsInv, NoResults, Behind
<1> QED BY <1>2, <1>3, <1>4 DEF Next, Over

\* A thread that meets no fault stores everything in its order.
LEMMA StoredStep == IInv /\ [Next]_vars => StoredInv'
<1> SUFFICES ASSUME IInv, [Next]_vars PROVE StoredInv'
  OBVIOUS
<1>1. Types /\ LockInv /\ TransactionInv /\ ErrorInv /\ StoredInv
  BY DEF IInv
<1> DEFINE
     R(k) ==
        /\ pc[k] \in Saving \cup {"exit"} => conn.row[k] = "done" /\ file.row[k] = "done"
        /\ pc[k] \in {"commit_ports", "findings", "insert_findings", "commit_findings", "exit"} =>
              conn.ports[k] = "all"
        /\ pc[k] \in {"findings", "insert_findings", "commit_findings", "exit"} =>
              file.ports[k] = "all"
        /\ pc[k] \in {"commit_findings", "exit"} => conn.findings[k] = "all"
        /\ pc[k] = "exit" => file.findings[k] = "all"
     Clean(k) == ~Faulty(k) /\ ~CommitFailed
<1>2. ASSUME NEW j \in Jobs, StartScan(j) \/ JobStep(j) PROVE StoredInv'
  <2>1. ASSUME NEW k \in Jobs, k # j, Clean(k)' PROVE R(k)'
    <3>1. Clean(k)
      BY <1>1, <1>2, <2>1, OthersTables
    <3>2. R(k) /\ pc'[k] = pc[k]
      BY <1>1, <1>2, <2>1, <3>1, OthersStay DEF StoredInv
    <3>3. CASE Same(conn', conn, k) /\ (Same(file', file, k) \/ Same(file', conn, k))
      BY <3>2, <3>3 DEF Same
    <3>4. CASE pc[j] \in Holding /\ Same(conn', file, k) /\ Same(file', file, k)
      <4>1. pc[k] \notin Saving
        BY <1>1, <2>1, <3>4, OneHolds DEF Holding
      <4> QED BY <3>2, <3>4, <4>1 DEF Same, Saving
    <3> QED BY <1>1, <1>2, <2>1, <3>3, <3>4, OthersTables
  <2>2. ASSUME Clean(j)' PROVE R(j)'
    <3>1. \A kind \in Faults : faulty' # faulty \cup {<<j, kind>>}
      BY <2>2, FaultsGrow
    <3>2. CASE faulty' = faulty
      <4>1. Clean(j) /\ R(j)
        BY <1>1, <2>2, <3>2, FaultsKept DEF StoredInv
      <4>2. CASE StartScan(j) \/ JobRunning(j) \/ JobScanned(j) \/ JobCatch(j) \/ JobLocks(j)
                 \/ InsertRow(j) \/ JobRunningRow(j)
        <5>1. pc'[j] \notin Saving \cup {"exit"}
          BY <1>1, <4>2, PlainMoves DEF Plain, Saving
        <5> QED BY <5>1 DEF Saving
      <4>3. CASE JobDoneRow(j)
        <5>1. pc[j] = "mark_done" /\ pc'[j] = "ports" /\ SetRow(j, "done")
          BY <1>1, <4>3, PlainMoves DEF Plain
        <5>2. \A k \in Jobs : pc[k] \notin InSave
          BY <1>1, <5>1, OneHolds DEF InSave, Holding, Saving
        <5>3. ~tx
          BY <1>1, <4>1, <5>2 DEF TransactionInv
        <5>4. conn'.row[j] = "done" /\ file' = conn'
          BY <1>1, <3>1, <5>1, <5>3, RowWritten DEF RowStatus
        <5> QED BY <5>1, <5>4 DEF Saving
      <4>4. CASE JobErrorRow(j)
        <5>1. pc[j] = "mark_error"
          BY <1>1, <4>4, PlainMoves DEF Plain
        <5> QED BY <1>1, <4>1, <5>1 DEF ErrorInv
      <4>5. ASSUME NEW s \in SaveSteps,
                   \/ SaveBegin(j, s) \/ SavePrepareFails(j, s)
                   \/ SaveInsert(j, s) \/ SaveCommit(j, s) \/ SaveCommitFails(j, s)
            PROVE  R(j)'
        <5>1. ~SavePrepareFails(j, s) /\ ~SaveCommitFails(j, s)
          BY <1>1, <3>1, SaveMoves
        <5>2. CASE SaveBegin(j, s)
          <6>1. pc[j] = s.begin /\ pc'[j] \in {s.insert, "catch"} /\ UNCHANGED <<conn, file>>
            BY <1>1, <5>2, SaveMoves
          <6> QED BY <4>1, <6>1, SaveNames DEF Saving
        <5>3. CASE SaveInsert(j, s)
          <6>1. /\ pc[j] = s.insert /\ pc'[j] = s.commit /\ file' = file
                /\ conn' = [conn EXCEPT ![s.table][j] = "all"]
            BY <1>1, <3>1, <5>3, SaveMoves
          <6>2. /\ conn'.row = conn.row
                /\ s.table = "ports" => conn'.ports[j] = "all" /\ conn'.findings[j] = conn.findings[j]
                /\ s.table = "findings" => conn'.findings[j] = "all" /\ conn'.ports[j] = conn.ports[j]
            BY <1>1, <6>1, Inserted DEF Saved
          <6>3. CASE s.table = "ports"
            <7>1. pc[j] = "insert_ports" /\ pc'[j] = "commit_ports"
              BY <6>1, <6>3, SaveNames
            <7> QED BY <4>1, <6>1, <6>2, <6>3, <7>1 DEF Saving
          <6>4. CASE s.table = "findings"
            <7>1. pc[j] = "insert_findings" /\ pc'[j] = "commit_findings"
              BY <6>1, <6>4, SaveNames
            <7> QED BY <4>1, <6>1, <6>2, <6>4, <7>1 DEF Saving
          <6> QED BY <6>3, <6>4, SaveNames
        <5>4. CASE SaveCommit(j, s)
          <6>1. pc[j] = s.commit /\ pc'[j] = s.next /\ conn' = conn /\ file' = conn
            BY <1>1, <5>4, SaveMoves
          <6>2. \/ pc[j] = "commit_ports" /\ pc'[j] = "findings"
                \/ pc[j] = "commit_findings" /\ pc'[j] = "exit"
            BY <6>1, SaveNames
          <6> QED BY <4>1, <6>1, <6>2 DEF Saving
        <5> QED BY <4>5, <5>1, <5>2, <5>3, <5>4
      <4> QED BY <1>2, <4>2, <4>3, <4>4, <4>5 DEF JobStep
    <3>3. CASE faulty' # faulty
      <4>1. \E kind \in Faults : faulty' = faulty \cup {<<j, kind>>}
        <5>1. CASE StartScan(j) \/ JobRunning(j) \/ JobScanned(j) \/ JobCatch(j) \/ JobLocks(j)
          BY <1>1, <3>3, <5>1, PlainMoves
        <5>2. CASE InsertRow(j) \/ JobRunningRow(j) \/ JobDoneRow(j) \/ JobErrorRow(j)
          <6>1. \E s \in RowStatus : SetRow(j, s)
            BY <1>1, <5>2, PlainMoves DEF RowStatus
          <6> QED BY <1>1, <3>3, <6>1, RowWritten
        <5>3. ASSUME NEW s \in SaveSteps,
                     \/ SaveBegin(j, s) \/ SavePrepareFails(j, s)
                     \/ SaveInsert(j, s) \/ SaveCommit(j, s) \/ SaveCommitFails(j, s)
              PROVE  \E kind \in Faults : faulty' = faulty \cup {<<j, kind>>}
          BY <1>1, <3>3, <5>3, SaveMoves
        <5> QED BY <1>2, <5>1, <5>2, <5>3 DEF JobStep
      <4> QED BY <3>1, <4>1
    <3> QED BY <3>2, <3>3
  <2> QED BY <2>1, <2>2 DEF StoredInv
<1>3. CASE Crash
  <2>1. \A k \in Jobs : pc'[k] \in {"idle", "gone"}
    BY <1>3 DEF Crash
  <2> QED BY <2>1 DEF StoredInv, Saving
<1>4. CASE UNCHANGED vars
  BY <1>1, <1>4, FaultsKept DEF vars, StoredInv
<1> QED BY <1>2, <1>3, <1>4 DEF Next, Over

-----------------------------------------------------------------------------
(* The theorems. *)

\* The invariant holds in every state of every history.
THEOREM Invariant == Spec => []IInv
<1>1. Init => IInv
  BY InitIInv
<1>2. IInv /\ [Next]_vars => IInv'
  BY TypesStep, LockStep, TransactionStep, ErrorStep, ResultsStep, StoredStep DEF IInv
<1> QED BY <1>1, <1>2, PTL DEF Spec

\* start_scan's thread: as long as no COMMIT failed, a scan is shown as failed only when
\* SQLite failed for it, however many scans end at the same time (webui.cpp:648-657).
THEOREM ErrorsHaveFaults == Spec => []NoErrorWithoutFault
<1>1. IInv => NoErrorWithoutFault
  BY DEF IInv, ErrorInv, NoErrorWithoutFault, Shown
<1> QED BY <1>1, Invariant, PTL

\* save_ports and save_findings: when db_mu_ is free no transaction is open, unless a
\* COMMIT failed.
THEOREM TransactionsEnd == Spec => []NoTransactionLeaks
<1>1. IInv => NoTransactionLeaks
  <2> SUFFICES ASSUME IInv, tx, db_mu = Free PROVE CommitFailed
    BY DEF NoTransactionLeaks
  <2>1. \A j \in Jobs : pc[j] \notin InSave
    BY OneHolds DEF IInv, InSave, Holding, Saving
  <2> QED BY <2>1 DEF IInv, TransactionInv
<1> QED BY <1>1, Invariant, PTL

\* The final writes: what the file holds of a scan belongs together, through any crash.
THEOREM StoredResults == Spec => []StoredResultsFitTheirRow
<1>1. IInv => StoredResultsFitTheirRow
  <2> SUFFICES ASSUME IInv PROVE StoredResultsFitTheirRow
    OBVIOUS
  <2>1. TypeOK
    BY DEF IInv, Types, TransactionInv, TypeOK, Tables
  <2>2. FinishedScanIsStored
    BY DEF IInv, StoredInv, FinishedScanIsStored
  <2>3. ResultsBehindFinalRow
    BY DEF IInv, ResultsInv, Behind, NoResults, ResultsBehindFinalRow
  <2> QED BY <2>1, <2>2, <2>3 DEF StoredResultsFitTheirRow
<1> QED BY <1>1, Invariant, PTL
=============================================================================
