---------------------------- MODULE ScanHistory -----------------------------
(***************************************************************************)
(* The scan history: the job map of the running server, the SQLite file,   *)
(* the one connection all threads share under db_mu_, and the writes of    *)
(* start_scan and of its job thread in their order, with the process dying *)
(* between any two of them.  A statement outside a transaction is durable  *)
(* when it returns; inside one, at COMMIT.  The scan itself is one step;   *)
(* its results are a whole that a table holds or not (or holds in part,    *)
(* when an insert fails: save_ports and save_findings ignore the result of *)
(* sqlite3_step).                                                          *)
(***************************************************************************)
EXTENDS Naturals, FiniteSets

CONSTANTS
    Jobs,           \* scans started over the life of the file
    MaxRestarts,    \* bound: how often the process dies and comes back
    Faults          \* what SQLite may do: a subset of FaultKinds

FaultKinds == {"statement", "prepare", "commit"}

ASSUME HistoryConstants ==
    /\ MaxRestarts \in Nat /\ Faults \subseteq FaultKinds
    /\ "free" \notin Jobs      \* a name for nobody

RowStatus == {"none", "queued", "running", "done", "error"}
Saved == {"none", "part", "all"}
Free == "free"

VARIABLES
    pc,             \* where the thread that works for each job is
    mem,            \* jobs_: the status of a job in memory, or "absent"
    db_mu,          \* who holds db_mu_ across several statements
    conn,           \* the tables as the connection sees them
    file,           \* the tables as committed
    tx,             \* is a transaction open on the connection?
    faulty,         \* history: the errors SQLite reported, each with the job it was for
    restarts

vars == <<pc, mem, db_mu, conn, file, tx, faulty, restarts>>

Empty == [row |-> [j \in Jobs |-> "none"], ports |-> [j \in Jobs |-> "none"],
          findings |-> [j \in Jobs |-> "none"]]

Init ==
    /\ pc = [j \in Jobs |-> "idle"]
    /\ mem = [j \in Jobs |-> "absent"]
    /\ db_mu = Free
    /\ conn = Empty /\ file = Empty /\ tx = FALSE
    /\ faulty = {}
    /\ restarts = 0

-----------------------------------------------------------------------------
(* SQLite as the wrapper uses it. *)

\* A statement that makes t the connection's tables.
Write(t) ==
    /\ conn' = t
    /\ file' = IF tx THEN file ELSE t
    /\ UNCHANGED tx

\* A statement for job j that fails; nothing in the code looks at the result.
Ignored(j) ==
    /\ "statement" \in Faults
    /\ faulty' = faulty \cup {<<j, "statement">>}
    /\ UNCHANGED <<conn, file, tx>>

\* UPDATE or INSERT of job j's row in scans.
SetRow(j, s) ==
    \/ Write([conn EXCEPT !.row[j] = s]) /\ UNCHANGED faulty
    \/ Ignored(j)

Go(j, label) == pc' = [pc EXCEPT ![j] = label]

-----------------------------------------------------------------------------
\* start_scan: the job enters jobs_.
StartScan(j) ==
    /\ pc[j] = "idle"
    /\ mem' = [mem EXCEPT ![j] = "queued"]
    /\ Go(j, "insert")
    /\ UNCHANGED <<db_mu, conn, file, tx, faulty, restarts>>

\* start_scan: upsert_scan, then the thread is spawned.
InsertRow(j) ==
    /\ pc[j] = "insert"
    /\ db_mu = Free
    /\ SetRow(j, "queued")
    /\ Go(j, "spawned")
    /\ UNCHANGED <<mem, db_mu, restarts>>

JobRunning(j) ==
    /\ pc[j] = "spawned"
    /\ mem' = [mem EXCEPT ![j] = "running"]
    /\ Go(j, "mark_running")
    /\ UNCHANGED <<db_mu, conn, file, tx, faulty, restarts>>

JobRunningRow(j) ==
    /\ pc[j] = "mark_running"
    /\ db_mu = Free
    /\ SetRow(j, "running")
    /\ Go(j, "scan")
    /\ UNCHANGED <<mem, db_mu, restarts>>

\* tcp_range_scan returns and the status becomes done.
JobScanned(j) ==
    /\ pc[j] = "scan"
    /\ mem' = [mem EXCEPT ![j] = "done"]
    /\ Go(j, "lock")
    /\ UNCHANGED <<db_mu, conn, file, tx, faulty, restarts>>

\* The guard of the final writes, as if each of the three calls locked for itself.
Bug_NoLockAcrossSaves(j) ==
    /\ pc[j] = "lock"
    /\ db_mu = Free
    /\ Go(j, "mark_done")
    /\ UNCHANGED <<mem, db_mu, conn, file, tx, faulty, restarts>>

\* db_mu_ is held across the three final writes.
JobLocks(j) ==
    /\ pc[j] = "lock"
    /\ db_mu = Free
    /\ db_mu' = j
    /\ Go(j, "mark_done")
    /\ UNCHANGED <<mem, conn, file, tx, faulty, restarts>>

\* The done row, as if its status were a word no reader knows.
Bug_UnknownStatus(j) ==
    /\ pc[j] = "mark_done"
    /\ SetRow(j, "finished")
    /\ Go(j, "ports")
    /\ UNCHANGED <<mem, db_mu, restarts>>

\* The done row, as if it were left for after the results.
Bug_DoneRowLeftForLater(j) ==
    /\ pc[j] = "mark_done"
    /\ Go(j, "ports")
    /\ UNCHANGED <<mem, db_mu, conn, file, tx, faulty, restarts>>

\* update_scan_status("done"), the first of the three writes.
JobDoneRow(j) ==
    /\ pc[j] = "mark_done"
    /\ SetRow(j, "done")
    /\ Go(j, "ports")
    /\ UNCHANGED <<mem, db_mu, restarts>>

\* The exception leaves the block, as if the guard were a plain lock.
Bug_ThrowKeepsLock(j) == UNCHANGED db_mu /\ Go(j, "catch")

\* The exception leaves the block: the guard is released, the handler runs.
Throw(j) == db_mu' = Free /\ Go(j, "catch")

\* The bulk saves, as if the findings were forgotten.
Bug_OnlyPortsSaved ==
    {[table |-> "ports", begin |-> "ports", insert |-> "insert_ports",
      commit |-> "commit_ports", next |-> "exit"]}

\* The two bulk saves: their table, the labels of their three parts, and what is
\* next; the block, and with it the hold of db_mu_, ends with the second.
SaveSteps ==
    {[table |-> "ports", begin |-> "ports", insert |-> "insert_ports",
      commit |-> "commit_ports", next |-> "findings"],
     [table |-> "findings", begin |-> "findings", insert |-> "insert_findings",
      commit |-> "commit_findings", next |-> "exit"]}

Leave(j, s) ==
    /\ Go(j, s.next)
    /\ db_mu' = IF s.next = "exit" THEN Free ELSE db_mu

\* exec_("BEGIN"): fails, and throws, only when a transaction is open already.
SaveBegin(j, s) ==
    /\ pc[j] = s.begin
    /\ \/ ~tx /\ tx' = TRUE /\ Go(j, s.insert) /\ UNCHANGED <<db_mu, faulty>>
       \/ tx /\ UNCHANGED tx /\ Throw(j) /\ UNCHANGED faulty
    /\ UNCHANGED <<mem, conn, file, restarts>>

\* The failed prepare, as if it returned without the rollback.
Bug_PrepareLeavesTransaction(j, s) ==
    /\ pc[j] = s.insert
    /\ "prepare" \in Faults
    /\ faulty' = faulty \cup {<<j, "prepare">>}
    /\ Leave(j, s)
    /\ UNCHANGED <<mem, conn, file, tx, restarts>>

\* sqlite3_prepare_v2 fails: roll back and return as if all were well.
SavePrepareFails(j, s) ==
    /\ pc[j] = s.insert
    /\ "prepare" \in Faults
    /\ faulty' = faulty \cup {<<j, "prepare">>}
    /\ conn' = file /\ tx' = FALSE
    /\ Leave(j, s)
    /\ UNCHANGED <<mem, file, restarts>>

\* The inserts, one per row; a failed one is skipped in silence.
SaveInsert(j, s) ==
    /\ pc[j] = s.insert
    /\ \/ conn' = [conn EXCEPT ![s.table][j] = "all"] /\ UNCHANGED faulty
       \/ /\ "statement" \in Faults
          /\ \E part \in {"none", "part"} : conn' = [conn EXCEPT ![s.table][j] = part]
          /\ faulty' = faulty \cup {<<j, "statement">>}
    /\ Go(j, s.commit)
    /\ UNCHANGED <<mem, db_mu, file, tx, restarts>>

\* exec_("COMMIT").
SaveCommit(j, s) ==
    /\ pc[j] = s.commit
    /\ file' = conn /\ tx' = FALSE
    /\ Leave(j, s)
    /\ UNCHANGED <<mem, conn, faulty, restarts>>

\* COMMIT fails and throws; SQLite has rolled the transaction back, or left it open.
SaveCommitFails(j, s) ==
    /\ pc[j] = s.commit
    /\ "commit" \in Faults
    /\ faulty' = faulty \cup {<<j, "commit">>}
    /\ \/ conn' = file /\ tx' = FALSE
       \/ UNCHANGED <<conn, tx>>
    /\ Throw(j)
    /\ UNCHANGED <<mem, file, restarts>>

\* catch: the status becomes error.
JobCatch(j) ==
    /\ pc[j] = "catch"
    /\ mem' = [mem EXCEPT ![j] = "error"]
    /\ Go(j, "mark_error")
    /\ UNCHANGED <<db_mu, conn, file, tx, faulty, restarts>>

JobErrorRow(j) ==
    /\ pc[j] = "mark_error"
    /\ db_mu = Free
    /\ SetRow(j, "error")
    /\ Go(j, "exit")
    /\ UNCHANGED <<mem, db_mu, restarts>>

\* The process dies and is started again: what was not committed is gone, and so are
\* the job map and the threads; nothing looks at the rows they left.
Crash ==
    /\ restarts < MaxRestarts
    /\ restarts' = restarts + 1
    /\ pc' = [j \in Jobs |-> IF pc[j] = "idle" THEN "idle" ELSE "gone"]
    /\ mem' = [j \in Jobs |-> "absent"]
    /\ db_mu' = Free
    /\ conn' = file /\ tx' = FALSE
    /\ UNCHANGED <<file, faulty>>

JobStep(j) ==
    \/ InsertRow(j) \/ JobRunning(j) \/ JobRunningRow(j) \/ JobScanned(j) \/ JobLocks(j)
    \/ JobDoneRow(j) \/ JobCatch(j) \/ JobErrorRow(j)
    \/ \E s \in SaveSteps : \/ SaveBegin(j, s) \/ SavePrepareFails(j, s)
                            \/ SaveInsert(j, s) \/ SaveCommit(j, s) \/ SaveCommitFails(j, s)

\* All scans have been started and their threads are over.
Over ==
    /\ \A j \in Jobs : pc[j] \in {"exit", "gone"}
    /\ UNCHANGED vars

Next == (\E j \in Jobs : StartScan(j) \/ JobStep(j)) \/ Crash \/ Over

\* A thread whose process lives keeps running; db_mu_ is held for a few statements.
Fairness == \A j \in Jobs : WF_vars(JobStep(j))

Spec == Init /\ [][Next]_vars
FairSpec == Spec /\ Fairness

-----------------------------------------------------------------------------
\* Types; outside a hold of db_mu_ by a saving job the connection and the file agree
\* unless a transaction is open.
TypeOK ==
    /\ mem \in [Jobs -> {"absent", "queued", "running", "done", "error"}]
    /\ db_mu \in Jobs \cup {Free}
    /\ \A t \in {conn, file} : /\ t.row \in [Jobs -> RowStatus]
                              /\ t.ports \in [Jobs -> Saved] /\ t.findings \in [Jobs -> Saved]
    /\ tx \in BOOLEAN
    /\ faulty \subseteq Jobs \X Faults
    /\ ~tx => conn = file

\* What get_scan and list_scans show of a job: the live one, else its row.
Shown(j) == IF mem[j] # "absent" THEN mem[j] ELSE conn.row[j]

Faulty(j) == \E kind \in Faults : <<j, kind>> \in faulty
CommitFailed == \E j \in Jobs : <<j, "commit">> \in faulty

\* As long as no COMMIT failed, a scan fails only when SQLite failed for it: two scans
\* that end at the same time do not trip over each other's BEGIN, because db_mu_ covers
\* all three writes.
NoErrorWithoutFault == \A j \in Jobs : Shown(j) = "error" => Faulty(j) \/ CommitFailed

\* Only a failed COMMIT leaves a transaction open past the hold of db_mu_ it was opened
\* under, not a failed prepare or insert and not a crash: otherwise the next writer
\* starts outside a transaction.
NoTransactionLeaks == tx /\ db_mu = Free => CommitFailed

\* When the thread of a scan is over and neither a statement of it nor a COMMIT failed,
\* the file has the done row, all ports and all findings.
FinishedScanIsStored ==
    \A j \in Jobs : pc[j] = "exit" /\ ~Faulty(j) /\ ~CommitFailed =>
        file.row[j] = "done" /\ file.ports[j] = "all" /\ file.findings[j] = "all"

\* Results in the file always belong to a row that says the scan is over, also when
\* another scan's COMMIT failed: a restart never shows ports or findings of a scan that
\* is listed as queued or running.
ResultsBehindFinalRow ==
    \A j \in Jobs : file.ports[j] # "none" \/ file.findings[j] # "none" =>
        Faulty(j) \/ file.row[j] \in {"done", "error"}

\* Without a crash, every scan that was started is shown as done or as error at last.
ScanSettles ==
    \A j \in Jobs : mem[j] = "queued" ~> (Shown(j) \in {"done", "error"} \/ pc[j] = "gone")

\* "Stores every scan (metadata, open ports, findings) in one file so the web UI
\* survives a restart" (db.hpp:3-5): a scan that the restarted server lists as done
\* still has its ports and findings.
DoneSurvivesRestart ==
    \A j \in Jobs : pc[j] = "gone" /\ Shown(j) = "done" =>
        conn.ports[j] = "all" /\ conn.findings[j] = "all"

\* What the file holds of a scan belongs together: results only behind a final row, and
\* after a scan without faults all of them (save_scan, save_ports, save_findings).
StoredResultsFitTheirRow == TypeOK /\ FinishedScanIsStored /\ ResultsBehindFinalRow
=============================================================================
