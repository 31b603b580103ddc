------------------------------ MODULE ScanJob -------------------------------
(***************************************************************************)
(* One web scan in memory: the detached job thread of start_scan, the port *)
(* tasks of tcp_range_scan on the worker pool (through what TaskPool       *)
(* promises), and the three handlers that read the job while it runs:      *)
(* stream_scan, get_scan and list_scans.  The scanner and the readers      *)
(* share two atomics (status, scanned), the result vectors under           *)
(* results_mu, and completed_at, which nothing protects.  Each load, store *)
(* and critical section is a step of its own.                              *)
(* A finding is the pair of its port and its identity on that port: every  *)
(* producer gives it scope PORT, so finding_identity keeps the port, and   *)
(* the rows of one port are unique after deduplicate_findings(local).      *)
(***************************************************************************)
EXTENDS Naturals, Sequences, FiniteSets, SequencesExt

CONSTANTS
    NumPorts,       \* bound: size of the requested port range
    NumWorkers,     \* threads of the scanner's pool
    MaxFindings,    \* bound: findings on one port
    Readers         \* bound: the sets of handlers that may be called on one scan

ASSUME ScanJobSizes ==
    /\ NumPorts \in Nat \ {0} /\ NumWorkers \in Nat \ {0} /\ MaxFindings \in Nat
    /\ Readers \subseteq SUBSET {"stream", "get", "list"}

Ports == 1..NumPorts
Findings == Ports \X (1..MaxFindings)

\* ScanJob::status
Queued == 0
Running == 1
Done == 2
Error == 3

VARIABLES
    submitted, started, finished, pool,     \* the worker pool (TaskPool)
    tpc,            \* where the task of each port is
    local,          \* the findings a task has gathered for its port
    out_ports, out_findings,                \* tcp_range_scan's vectors, under mu
    result,         \* what tcp_range_scan returned
    jpc,            \* where the job thread is
    status, scanned,                        \* the job's atomics
    ports, findings, error,                 \* the job's rows, under results_mu
    results_mu,     \* its holder across steps: "free" or "list"
    completed_at,   \* 0, or 1 once stamped
    called,         \* the handlers that clients call on this scan, any time from now on
    sv,             \* stream_scan's locals
    ui,             \* what the browser has received
    got,            \* get_scan's locals and answer
    listed          \* list_scans' locals and answer

Pool == INSTANCE TaskPool WITH MaxTasks <- NumPorts

poolVars == <<submitted, started, finished, pool>>
taskVars == <<tpc, local, out_ports, out_findings>>
rowVars == <<ports, findings>>
jobVars == <<jpc, status, completed_at, error, result>>
readVars == <<called, sv, ui, got, listed>>
vars == <<poolVars, taskVars, rowVars, jobVars, scanned, results_mu, readVars>>

Init ==
    /\ Pool!Init
    /\ tpc = [p \in Ports |-> "queued"]
    /\ local = [p \in Ports |-> <<>>]
    /\ out_ports = <<>> /\ out_findings = <<>>
    /\ result = [ports |-> <<>>, findings |-> <<>>]
    /\ jpc = "spawned"
    /\ status = Queued /\ scanned = 0 /\ completed_at = 0
    /\ ports = <<>> /\ findings = <<>> /\ error = FALSE
    /\ results_mu = "free"
    /\ called \in Readers
    /\ sv = [pc |-> "off", status |-> Queued, scanned |-> 0, sent_ports |-> 0, sent_findings |-> 0,
             new_ports |-> <<>>, new_findings |-> <<>>]
    /\ ui = [scanned |-> 0, ports |-> <<>>, findings |-> <<>>, status |-> Queued, ended |-> FALSE]
    /\ got = [pc |-> "idle", completed_at |-> 0, status |-> Queued, ports |-> {}, findings |-> {}]
    /\ listed = [pc |-> "idle", open |-> 0, findings |-> 0, status |-> Queued, scanned |-> 0]

-----------------------------------------------------------------------------
(* The task of one port: the lambda given to pool.enqueue. *)

\* A worker takes the port from the queue.
Begin(p) ==
    /\ p = Len(started) + 1
    /\ Pool!Start
    /\ tpc' = [tpc EXCEPT ![p] = "probe"]
    /\ UNCHANGED <<local, out_ports, out_findings, rowVars, jobVars, scanned, results_mu, readVars>>

\* connect, the banner, the detections, the plugins and the CVE checks; nothing
\* shared is touched until the port's own findings are complete.
Probe(p) ==
    /\ tpc[p] = "probe"
    /\ \/ tpc' = [tpc EXCEPT ![p] = "count"] /\ UNCHANGED local
       \/ \E n \in 0..MaxFindings :
            /\ tpc' = [tpc EXCEPT ![p] = "publish"]
            /\ local' = [local EXCEPT ![p] = [k \in 1..n |-> <<p, k>>]]
    /\ UNCHANGED <<poolVars, out_ports, out_findings, rowVars, jobVars, scanned, results_mu, readVars>>

\* on_port_open, as if a port without findings were not worth a call.
Bug_PublishOnlyWithFindings(p) ==
    /\ tpc[p] = "publish"
    /\ results_mu = "free"
    /\ ports' = IF local[p] = <<>> THEN ports ELSE Append(ports, p)
    /\ findings' = findings \o local[p]
    /\ tpc' = [tpc EXCEPT ![p] = "collect"]
    /\ UNCHANGED <<poolVars, local, out_ports, out_findings, jobVars, scanned, results_mu, readVars>>

\* sink.on_port_open: both vectors grow in one critical section of results_mu.
Publish(p) ==
    /\ tpc[p] = "publish"
    /\ results_mu = "free"
    /\ ports' = Append(ports, p)
    /\ findings' = findings \o local[p]
    /\ tpc' = [tpc EXCEPT ![p] = "collect"]
    /\ UNCHANGED <<poolVars, local, out_ports, out_findings, jobVars, scanned, results_mu, readVars>>

\* The rows are collected, as if the progress were counted here as well.
Bug_CollectCounts(p) ==
    /\ tpc[p] = "collect"
    /\ out_ports' = Append(out_ports, p)
    /\ out_findings' = out_findings \o local[p]
    /\ local' = [local EXCEPT ![p] = <<>>]
    /\ tpc' = [tpc EXCEPT ![p] = "count"]
    /\ scanned' = scanned + 1
    /\ UNCHANGED <<poolVars, rowVars, jobVars, results_mu, readVars>>

\* The rows move into tcp_range_scan's own vectors, under mu.
Collect(p) ==
    /\ tpc[p] = "collect"
    /\ out_ports' = Append(out_ports, p)
    /\ out_findings' = out_findings \o local[p]
    /\ local' = [local EXCEPT ![p] = <<>>]
    /\ tpc' = [tpc EXCEPT ![p] = "count"]
    /\ UNCHANGED <<poolVars, rowVars, jobVars, scanned, results_mu, readVars>>

\* A port is counted whether it was open or not, and the task is over.
Count(p) ==
    /\ tpc[p] = "count"
    /\ scanned' = scanned + 1
    /\ Pool!Finish(p)
    /\ tpc' = [tpc EXCEPT ![p] = "over"]
    /\ UNCHANGED <<local, out_ports, out_findings, rowVars, jobVars, results_mu, readVars>>

TaskStep(p) == Begin(p) \/ Probe(p) \/ Publish(p) \/ Collect(p) \/ Count(p)

-----------------------------------------------------------------------------
(* The job thread: the lambda of start_scan, with tcp_range_scan inlined. *)

JobStart ==
    /\ jpc = "spawned"
    /\ status' = Running
    /\ jpc' = "scan"
    /\ UNCHANGED <<poolVars, taskVars, rowVars, completed_at, error, result, scanned, results_mu, readVars>>

JobEnqueue ==
    /\ jpc = "scan"
    /\ Pool!Submit
    /\ UNCHANGED <<taskVars, rowVars, jobVars, scanned, results_mu, readVars>>

\* The scope of the pool ends when the whole range has been enqueued.
JobClosePool ==
    /\ jpc = "scan"
    /\ submitted = NumPorts
    /\ Pool!Close
    /\ UNCHANGED <<taskVars, rowVars, jobVars, scanned, results_mu, readVars>>

\* Sort the open ports.
SortedPorts(ps) ==
    {s \in SetToSeqs(ToSet(ps)) : IsSorted(s, <)}

\* Sort the findings by port; std::sort leaves the order within a port open.
SortedByPort(fs) ==
    {s \in SetToSeqs(ToSet(fs)) : IsSorted(s, LAMBDA a, b : a[1] <= b[1])}

\* The pool is gone: sort, deduplicate (every identity is there once) and return.
JobScanReturns ==
    /\ jpc = "scan"
    /\ Pool!Return
    /\ \E ps \in SortedPorts(out_ports), fs \in SortedByPort(out_findings) :
          result' = [ports |-> ps, findings |-> fs]
    /\ jpc' = "done"
    /\ UNCHANGED <<taskVars, rowVars, status, completed_at, error, scanned, results_mu, readVars>>

JobSetDone ==
    /\ jpc = "done"
    /\ status' = Done
    /\ jpc' = "stamp"
    /\ UNCHANGED <<poolVars, taskVars, rowVars, completed_at, error, result, scanned, results_mu, readVars>>

JobStamp ==
    /\ jpc = "stamp"
    /\ completed_at' = 1
    /\ jpc' = "save"
    /\ UNCHANGED <<poolVars, taskVars, rowVars, status, error, result, scanned, results_mu, readVars>>

\* The write to the history returns, or throws out of Db::exec_.
JobSave ==
    /\ jpc = "save"
    /\ jpc' \in {"exit", "catch"}
    /\ UNCHANGED <<poolVars, taskVars, rowVars, status, completed_at, error, result, scanned, results_mu, readVars>>

JobCatch ==
    /\ jpc = "catch"
    /\ results_mu = "free"
    /\ error' = TRUE
    /\ jpc' = "error"
    /\ UNCHANGED <<poolVars, taskVars, rowVars, status, completed_at, result, scanned, results_mu, readVars>>

\* The second stamp repeats completed_at.
JobSetError ==
    /\ jpc = "error"
    /\ status' = Error
    /\ jpc' = "exit"
    /\ UNCHANGED <<poolVars, taskVars, rowVars, completed_at, error, result, scanned, results_mu, readVars>>

JobStep ==
    \/ JobStart \/ JobEnqueue \/ JobClosePool \/ JobScanReturns \/ JobSetDone
    \/ JobStamp \/ JobSave \/ JobCatch \/ JobSetError

-----------------------------------------------------------------------------
(* stream_scan: one iteration of its loop is four steps. *)

scanVars == <<poolVars, taskVars, rowVars, jobVars, scanned, called>>

StreamOpen ==
    /\ "stream" \in called
    /\ sv.pc = "off"
    /\ sv' = [sv EXCEPT !.pc = "status"]
    /\ UNCHANGED <<scanVars, results_mu, ui, got, listed>>

StreamStatus ==
    /\ sv.pc = "status"
    /\ sv' = [sv EXCEPT !.pc = "scanned", !.status = status]
    /\ UNCHANGED <<scanVars, results_mu, ui, got, listed>>

StreamScanned ==
    /\ sv.pc = "scanned"
    /\ sv' = [sv EXCEPT !.pc = "rows", !.scanned = scanned]
    /\ UNCHANGED <<scanVars, results_mu, ui, got, listed>>

\* Copy the rows that came since the last iteration, as if the cursor were not moved.
Bug_StreamKeepsCursor ==
    /\ sv.pc = "rows"
    /\ results_mu = "free"
    /\ sv' = [sv EXCEPT !.pc = "push",
                        !.new_ports = SubSeq(ports, sv.sent_ports + 1, Len(ports)),
                        !.new_findings = SubSeq(findings, sv.sent_findings + 1, Len(findings)),
                        !.sent_findings = Len(findings)]
    /\ UNCHANGED <<scanVars, results_mu, ui, got, listed>>

\* Copy the rows that came since the last iteration, under results_mu.
StreamRows ==
    /\ sv.pc = "rows"
    /\ results_mu = "free"
    /\ sv' = [sv EXCEPT !.pc = "push",
                        !.new_ports = SubSeq(ports, sv.sent_ports + 1, Len(ports)),
                        !.new_findings = SubSeq(findings, sv.sent_findings + 1, Len(findings)),
                        !.sent_ports = Len(ports),
                        !.sent_findings = Len(findings)]
    /\ UNCHANGED <<scanVars, results_mu, ui, got, listed>>

\* What the browser has once the batch is written, with st as the status event.
Delivered(st) ==
    [scanned |-> sv.scanned,
     ports |-> ui.ports \o sv.new_ports,
     findings |-> ui.findings \o sv.new_findings,
     status |-> st,
     ended |-> st \in {Done, Error}]

\* The batch, as if the status event used a load made after the rows were copied.
Bug_StreamPushesFreshStatus ==
    /\ sv.pc = "push"
    /\ ui' = Delivered(status)
    /\ sv' = [sv EXCEPT !.pc = IF status \in {Done, Error} THEN "ended" ELSE "status",
                        !.new_ports = <<>>, !.new_findings = <<>>]
    /\ UNCHANGED <<scanVars, results_mu, got, listed>>

\* The batch, as if only a done scan ended the stream.
Bug_StreamEndsOnDoneOnly ==
    /\ sv.pc = "push"
    /\ ui' = [Delivered(sv.status) EXCEPT !.ended = (sv.status = Done)]
    /\ sv' = [sv EXCEPT !.pc = IF sv.status = Done THEN "ended" ELSE "status",
                        !.new_ports = <<>>, !.new_findings = <<>>]
    /\ UNCHANGED <<scanVars, results_mu, got, listed>>

\* Write progress, ports, findings and status, then end or sleep and go round.
StreamPush ==
    /\ sv.pc = "push"
    /\ ui' = Delivered(sv.status)
    /\ sv' = [sv EXCEPT !.pc = IF sv.status \in {Done, Error} THEN "ended" ELSE "status",
                        !.new_ports = <<>>, !.new_findings = <<>>]
    /\ UNCHANGED <<scanVars, results_mu, got, listed>>

\* A write fails after some of the batch: the provider gives up.
StreamBreaks ==
    /\ sv.pc = "push"
    /\ \E i \in 0..Len(sv.new_ports), j \in 0..Len(sv.new_findings) :
          /\ j > 0 => i = Len(sv.new_ports)
          /\ ui' = [ui EXCEPT !.scanned = sv.scanned,
                              !.ports = @ \o SubSeq(sv.new_ports, 1, i),
                              !.findings = @ \o SubSeq(sv.new_findings, 1, j)]
    /\ sv' = [sv EXCEPT !.pc = "broken", !.new_ports = <<>>, !.new_findings = <<>>]
    /\ UNCHANGED <<scanVars, results_mu, got, listed>>

StreamStep == StreamStatus \/ StreamScanned \/ StreamRows \/ StreamPush

-----------------------------------------------------------------------------
(* get_scan of a job that is in memory. *)

GetCompletedAt ==
    /\ "get" \in called
    /\ got.pc = "idle"
    /\ got' = [got EXCEPT !.pc = "status", !.completed_at = completed_at]
    /\ UNCHANGED <<scanVars, results_mu, sv, ui, listed>>

GetStatus ==
    /\ got.pc = "status"
    /\ got' = [got EXCEPT !.pc = "rows", !.status = status]
    /\ UNCHANGED <<scanVars, results_mu, sv, ui, listed>>

GetRows ==
    /\ got.pc = "rows"
    /\ results_mu = "free"
    /\ got' = [got EXCEPT !.pc = "reply", !.ports = ToSet(ports), !.findings = ToSet(findings)]
    /\ UNCHANGED <<scanVars, results_mu, sv, ui, listed>>

\* The answer, as if its status were loaded while it is written.
Bug_GetReplyLoadsStatus ==
    /\ got.pc = "reply"
    /\ got' = [got EXCEPT !.pc = "answered", !.status = status]
    /\ UNCHANGED <<scanVars, results_mu, sv, ui, listed>>

\* The answer is made of the copies.
GetReply ==
    /\ got.pc = "reply"
    /\ got' = [got EXCEPT !.pc = "answered"]
    /\ UNCHANGED <<scanVars, results_mu, sv, ui, listed>>

(* list_scans for a job that is in memory: sizes, status and progress are read
   in that order while results_mu is held. *)

\* The sizes, as if results_mu were released before the status is read.
Bug_ListReleasesEarly ==
    /\ "list" \in called
    /\ listed.pc = "idle"
    /\ results_mu = "free"
    /\ listed' = [listed EXCEPT !.pc = "status", !.open = Len(ports), !.findings = Len(findings)]
    /\ UNCHANGED <<scanVars, results_mu, sv, ui, got>>

ListSizes ==
    /\ "list" \in called
    /\ listed.pc = "idle"
    /\ results_mu = "free"
    /\ results_mu' = "list"
    /\ listed' = [listed EXCEPT !.pc = "status", !.open = Len(ports), !.findings = Len(findings)]
    /\ UNCHANGED <<scanVars, sv, ui, got>>

ListStatus ==
    /\ listed.pc = "status"
    /\ listed' = [listed EXCEPT !.pc = "scanned", !.status = status]
    /\ UNCHANGED <<scanVars, results_mu, sv, ui, got>>

ListScanned ==
    /\ listed.pc = "scanned"
    /\ listed' = [listed EXCEPT !.pc = "answered", !.scanned = scanned]
    /\ results_mu' = "free"
    /\ UNCHANGED <<scanVars, sv, ui, got>>

SnapshotStep ==
    GetCompletedAt \/ GetStatus \/ GetRows \/ GetReply \/ ListSizes \/ ListStatus \/ ListScanned

-----------------------------------------------------------------------------
\* The job is over and every handler that was called has answered.
Quiet ==
    /\ jpc = "exit"
    /\ sv.pc \in {"off", "ended", "broken"}
    /\ got.pc \in {"idle", "answered"} /\ listed.pc \in {"idle", "answered"}
    /\ UNCHANGED vars

Next ==
    \/ JobStep
    \/ \E p \in Ports : TaskStep(p)
    \/ StreamOpen \/ StreamStep \/ StreamBreaks
    \/ SnapshotStep
    \/ Quiet

\* The job thread, the workers and a handler that was called keep running: sockets
\* have timeouts, the mutexes are held for a few statements, and the stream's sleep
\* is bounded.  Nobody has to call a handler, and no write has to fail.
Fairness ==
    /\ WF_vars(JobStep)
    /\ \A p \in Ports : WF_vars(TaskStep(p))
    /\ WF_vars(StreamStep)
    /\ WF_vars(ListStatus \/ ListScanned)

Spec == Init /\ [][Next]_vars
FairSpec == Spec /\ Fairness

-----------------------------------------------------------------------------
\* The open ports of the range, and all of their findings.
OpenPorts == ToSet(result.ports)
AllFindings == ToSet(result.findings)

\* Types of what threads share.
TypeOK ==
    /\ tpc \in [Ports -> {"queued", "probe", "publish", "collect", "count", "over"}]
    /\ status \in Queued..Error
    /\ scanned \in 0..NumPorts
    /\ ports \in Seq(Ports) /\ findings \in Seq(Findings)
    /\ out_ports \in Seq(Ports) /\ out_findings \in Seq(Findings)
    /\ results_mu \in {"free", "list"}
    /\ results_mu = "list" <=> listed.pc \in {"status", "scanned"}

\* When tcp_range_scan has returned, the rows pushed live are the rows it returned,
\* each once, only in another order (webui.cpp:652-654 saves one and shows the other).
LiveRowsAreResultRows ==
    jpc \notin {"spawned", "scan"} =>
        /\ ToSet(ports) = ToSet(result.ports) /\ Len(ports) = Len(result.ports)
        /\ ToSet(findings) = ToSet(result.findings) /\ Len(findings) = Len(result.findings)

\* A stream that reports the end of a scan has delivered all of it before: every
\* open port, every finding, and the full count of probed ports.  It depends on
\* stream_scan loading the status before it copies the rows.
StreamEndIsComplete ==
    ui.ended =>
        /\ ToSet(ui.ports) = OpenPorts
        /\ ToSet(ui.findings) = AllFindings
        /\ ui.scanned = NumPorts

\* At any time the stream has delivered a prefix of the job's rows: none twice, none
\* skipped, although rows arrive between its iterations and a write may fail.
StreamDeliversPrefix == IsPrefix(ui.ports, ports) /\ IsPrefix(ui.findings, findings)

\* get_scan never answers done with rows missing, although it reads the status and
\* the rows in different steps.
GetScanDoneIsComplete ==
    got.pc = "answered" /\ got.status \in {Done, Error} =>
        got.ports = OpenPorts /\ got.findings = AllFindings

\* list_scans never lists a scan as done with rows or probed ports missing, although
\* it reads the sizes before the status: it holds results_mu in between.
ListScanDoneIsComplete ==
    listed.pc = "answered" /\ listed.status \in {Done, Error} =>
        /\ listed.open = Cardinality(OpenPorts) /\ listed.findings = Cardinality(AllFindings)
        /\ listed.scanned = NumPorts

\* A stream that was opened ends, with the end event unless its connection broke:
\* no scan keeps a browser and a server thread waiting for ever.
StreamEnds == sv.pc = "status" ~> sv.pc \in {"ended", "broken"}

\* What a browser gets from stream_scan is faithful at every moment and whole at its end.
StreamIsFaithful == TypeOK /\ StreamDeliversPrefix /\ StreamEndIsComplete

\* No answer that says done or error leaves out a row or a probed port (get_scan,
\* list_scans).
DoneAnswersAreComplete == GetScanDoneIsComplete /\ ListScanDoneIsComplete
-----------------------------------------------------------------------------
(* The feed that the pages see. *)

Over == status \in {Done, Error}

\* get_scan's answer is settled when the rows are copied, or before that when the scan
\* ends after its status was loaded: it will show the last moment before the end.
AnswerIsSettled ==
    \/ got.pc \in {"reply", "answered"}
    \/ got.pc = "rows" /\ Over /\ got.status \notin {Done, Error}

Answered ==
    IF ~AnswerIsSettled THEN {}
    ELSE {[over |-> got.status \in {Done, Error},
           ports |-> IF got.pc = "rows" THEN ToSet(ports) ELSE got.ports,
           findings |-> IF got.pc = "rows" THEN ToSet(findings) ELSE got.findings]}

\* list_scans' answer is settled when the status is loaded: nothing is published between
\* that and the sizes.
Listed ==
    IF listed.pc \notin {"scanned", "answered"} THEN {}
    ELSE {[over |-> listed.status \in {Done, Error}, open |-> listed.open,
           findings |-> listed.findings]}

Feed == INSTANCE ScanFeed WITH
    over <- Over,
    shown <- [ports |-> ports, findings |-> findings],
    received <- [ports |-> ui.ports, findings |-> ui.findings],
    ended <- ui.ended,
    answer <- Answered,
    listing <- Listed

\* The tasks, the job thread and the three handlers together keep the promises of
\* ScanFeed: the stream is a gapless copy that ends with the scan, and every answer of
\* get_scan and list_scans is the scan as it was at one moment, whether it runs or is
\* over, although each is put together from several loads.
ImplementsScanFeed == Feed!Spec
=============================================================================
