----------------------------- MODULE Dashboard ------------------------------
(***************************************************************************)
(* The live view of the dashboard page: openScan, its two globals          *)
(* liveState and liveStream, and the event handlers it installs.  The      *)
(* script is single-threaded, but openScan awaits the answer of get_scan,  *)
(* so a second openScan can run between the two halves of a first one, and *)
(* the answers can come back in either order.  The handlers of a stream    *)
(* write whatever liveState is current.                                    *)
(* The server is what module ScanFeed promises, and ScanJob implements:    *)
(* rows are only added, get_scan answers with a snapshot, and every stream *)
(* starts at the first row and says done after the last one.               *)
(* The names of the specification's parts begin with Page, so that its     *)
(* proofs can stand beside those of the sign-in.                           *)
(***************************************************************************)
EXTENDS Naturals, Sequences, FiniteSets, SequencesExt

CONSTANTS
    Scans,          \* scans in the list
    MaxRows,        \* bound: rows of a scan
    MaxOpens,       \* bound: calls of openScan
    OverlappingOpens    \* may the user open a scan while another open awaits its answer?

ASSUME DashboardSizes ==
    /\ MaxRows \in Nat /\ MaxOpens \in Nat /\ OverlappingOpens \in BOOLEAN

Calls == 1..MaxOpens
NoCall == 0
Status == {"running", "done"}      \* running or queued, done or error: the page asks no more
Rows(s, n) == [i \in 1..n |-> <<s, i>>]

VARIABLES
    rows,           \* the server: number of rows of each scan
    status,         \* the server: status of each scan
    call,           \* each openScan: its scan, its answer, its EventSource's cursor
    liveState,      \* the page's view, or Nothing
    liveStream      \* the call whose EventSource the page remembers, or NoCall

pageVars == <<rows, status, call, liveState, liveStream>>
server == <<rows, status>>

Nothing == [id |-> "none", status |-> "none", rows |-> <<>>]
Unused == [pc |-> "unused", id |-> "none", status |-> "none", rows |-> <<>>, cursor |-> 0]

PageInit ==
    /\ rows = [s \in Scans |-> 0]
    /\ status = [s \in Scans |-> "running"]
    /\ call = [k \in Calls |-> Unused]
    /\ liveState = Nothing
    /\ liveStream = NoCall

-----------------------------------------------------------------------------
\* The scanner publishes a row.
ServerRow(s) ==
    /\ status[s] = "running"
    /\ rows[s] < MaxRows
    /\ rows' = [rows EXCEPT ![s] = @ + 1]
    /\ UNCHANGED <<status, call, liveState, liveStream>>

ServerDone(s) ==
    /\ status[s] = "running"
    /\ status' = [status EXCEPT ![s] = "done"]
    /\ UNCHANGED <<rows, call, liveState, liveStream>>

\* Close the stream the page remembers, if any.
CloseLive == IF liveStream = NoCall THEN call
             ELSE [call EXCEPT ![liveStream].pc = "closed"]

AwaitingAnswer == \E k \in Calls : call[k].pc \in {"fetching", "answered"}

\* openScan, as if the previous stream were left alone.
Bug_OpenKeepsStream(k, s) ==
    /\ call[k].pc = "unused"
    /\ \A i \in 1..(k - 1) : call[i].pc # "unused"
    /\ OverlappingOpens \/ ~AwaitingAnswer
    /\ call' = [call EXCEPT ![k] = [Unused EXCEPT !.pc = "fetching", !.id = s]]
    /\ liveStream' = NoCall
    /\ UNCHANGED <<server, liveState>>

\* openScan(id): stop the previous stream, then ask for the scan and wait.
OpenScan(k, s) ==
    /\ call[k].pc = "unused"
    /\ \A i \in 1..(k - 1) : call[i].pc # "unused"
    /\ OverlappingOpens \/ ~AwaitingAnswer
    /\ call' = [CloseLive EXCEPT ![k] = [Unused EXCEPT !.pc = "fetching", !.id = s]]
    /\ liveStream' = NoCall
    /\ UNCHANGED <<server, liveState>>

\* get_scan answers with a snapshot (Answer of ScanFeed).
Answer(k) ==
    /\ call[k].pc = "fetching"
    /\ LET s == call[k].id IN
          call' = [call EXCEPT ![k].pc = "answered", ![k].status = status[s], ![k].rows = Rows(s, rows[s])]
    /\ UNCHANGED <<server, liveState, liveStream>>

\* The fetch fails: openScan rejects and the page stays as it is.
AnswerFails(k) ==
    /\ call[k].pc = "fetching"
    /\ call' = [call EXCEPT ![k].pc = "closed"]
    /\ UNCHANGED <<server, liveState, liveStream>>

\* openScan goes on: seed the view, and subscribe unless the scan is over.
Resume(k) ==
    /\ call[k].pc = "answered"
    /\ liveState' = [id |-> call[k].id, status |-> call[k].status, rows |-> call[k].rows]
    /\ \/ /\ call[k].status = "running"
          /\ call' = [call EXCEPT ![k].pc = "streaming", ![k].rows = <<>>]
          /\ liveStream' = k
       \/ /\ call[k].status # "running"
          /\ call' = [call EXCEPT ![k].pc = "closed", ![k].rows = <<>>]
          /\ UNCHANGED liveStream
    /\ UNCHANGED server

\* A row event, as if the stream read one row past the vector.
Bug_RowPastEnd(k) ==
    /\ call[k].pc = "streaming"
    /\ LET s == call[k].id  n == call[k].cursor + 1 IN
          /\ n <= rows[s] + 1
          /\ liveState' = [liveState EXCEPT !.rows = Append(@, <<s, n>>)]
          /\ call' = [call EXCEPT ![k].cursor = n]
    /\ UNCHANGED <<server, liveStream>>

\* A port or finding event: the handler pushes it on the current view.
RowEvent(k) ==
    /\ call[k].pc = "streaming"
    /\ LET s == call[k].id  n == call[k].cursor + 1 IN
          /\ n <= rows[s]
          /\ liveState' = [liveState EXCEPT !.rows = Append(@, <<s, n>>)]
          /\ call' = [call EXCEPT ![k].cursor = n]
    /\ UNCHANGED <<server, liveStream>>

\* The stream's end, as if the status event could overtake the rows.
Bug_EndBeforeRows(k) ==
    /\ call[k].pc = "streaming"
    /\ status[call[k].id] = "done"
    /\ liveState' = [liveState EXCEPT !.status = "done"]
    /\ call' = [call EXCEPT ![k].pc = "closed"]
    /\ liveStream' = NoCall
    /\ UNCHANGED server

\* The status event of the end and the end event: the handlers set the status of the
\* current view, close this stream and forget the remembered one.
EndEvent(k) ==
    /\ call[k].pc = "streaming"
    /\ status[call[k].id] = "done"
    /\ call[k].cursor = rows[call[k].id]
    /\ liveState' = [liveState EXCEPT !.status = "done"]
    /\ call' = [call EXCEPT ![k].pc = "closed"]
    /\ liveStream' = NoCall
    /\ UNCHANGED server

\* onerror: close this stream and forget the remembered one; the view stays.
ErrorEvent(k) ==
    /\ call[k].pc = "streaming"
    /\ call' = [call EXCEPT ![k].pc = "closed"]
    /\ liveStream' = NoCall
    /\ UNCHANGED <<server, liveState>>

PageStep(k) == Answer(k) \/ Resume(k) \/ RowEvent(k) \/ EndEvent(k)

PageNext ==
    \/ \E s \in Scans : ServerRow(s) \/ ServerDone(s)
    \/ \E k \in Calls, s \in Scans : OpenScan(k, s)
    \/ \E k \in Calls : PageStep(k) \/ AnswerFails(k) \/ ErrorEvent(k)

PageSpec == PageInit /\ [][PageNext]_pageVars

-----------------------------------------------------------------------------
\* Types of the page's globals and of the calls.
PageTypeOK ==
    /\ rows \in [Scans -> 0..MaxRows] /\ status \in [Scans -> Status]
    /\ liveStream \in Calls \cup {NoCall}
    /\ liveState.id \in Scans \cup {"none"} /\ liveState.status \in Status \cup {"none"}
    /\ \A k \in Calls : /\ call[k].pc \in {"unused", "fetching", "answered", "streaming", "closed"}
                        /\ call[k].cursor \in 0..MaxRows

Streaming == {k \in Calls : call[k].pc = "streaming"}

\* At most one event stream is open, and the page can still close it: "one at a
\* time. New scan replaces the previous stream" (webui.cpp:363).
OneStreamAtATime == Streaming \subseteq {liveStream}

\* Events are shown in the view of the scan they belong to: no stream feeds the rows
\* or the status of one scan into the view of another (the handlers of openScan).
StreamFeedsItsOwnView == \A k \in Streaming : call[k].id = liveState.id

\* A view that says done shows every row of its scan, whether the page learned it
\* from the seed or from the stream.
DoneViewIsComplete ==
    liveState.status = "done" =>
        ToSet(Rows(liveState.id, rows[liveState.id])) \subseteq ToSet(liveState.rows)

\* The view shows a row once: the stream is there "for progress + new results"
\* (webui.cpp:392), new meaning not already in the seed.
RowsShownOnce == IsInjective(liveState.rows)

\* The streams that are open and the view they write to belong together (openScan).
StreamsMatchTheView == PageTypeOK /\ OneStreamAtATime /\ StreamFeedsItsOwnView
=============================================================================
