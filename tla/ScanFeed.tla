------------------------------ MODULE ScanFeed ------------------------------
(***************************************************************************)
(* What one web scan promises the pages that watch it.  The rows of an     *)
(* open port appear together, once, and never change; when the scan is     *)
(* over no more come.  A stream delivers the rows in the order in which    *)
(* they appeared, and ends only when it has delivered all of them.  The    *)
(* answers of get_scan and of list_scans are snapshots: each shows the     *)
(* scan as it was at one moment.  No thread, lock, atomic or loop appears  *)
(* here; module ScanJob shows that the ones in the code provide it, and    *)
(* module Dashboard relies on nothing else of its server.                  *)
(***************************************************************************)
EXTENDS Naturals, Sequences, SequencesExt

CONSTANTS
    Ports,          \* the requested port range
    MaxFindings     \* bound: findings on one port

VARIABLES
    over,           \* the scan is done, or has failed
    shown,          \* the rows so far: ports and findings
    received,       \* the rows that the stream has delivered
    ended,          \* the stream has reported the end of the scan
    answer,         \* the snapshot that get_scan took: none or one
    listing         \* the snapshot that list_scans took: none or one

feedVars == <<over, shown, received, ended, answer, listing>>

NoRows == [ports |-> <<>>, findings |-> <<>>]

Init ==
    /\ over = FALSE /\ shown = NoRows
    /\ received = NoRows /\ ended = FALSE
    /\ answer = {} /\ listing = {}

\* An open port and its findings appear.
Publish(p) ==
    /\ ~over
    /\ p \notin ToSet(shown.ports)
    /\ \E n \in 0..MaxFindings :
          shown' = [ports |-> Append(shown.ports, p),
                    findings |-> shown.findings \o [k \in 1..n |-> <<p, k>>]]
    /\ UNCHANGED <<over, received, ended, answer, listing>>

\* The stream goes on, by all of what is new or by some.
Deliver ==
    /\ ~ended
    /\ \E i \in Len(received.ports)..Len(shown.ports),
          j \in Len(received.findings)..Len(shown.findings) :
          received' = [ports |-> SubSeq(shown.ports, 1, i), findings |-> SubSeq(shown.findings, 1, j)]
    /\ UNCHANGED <<over, shown, ended, answer, listing>>

\* The stream delivers the rest and the end of the scan.
DeliverEnd ==
    /\ over /\ ~ended
    /\ received' = shown
    /\ ended' = TRUE
    /\ UNCHANGED <<over, shown, answer, listing>>

\* The scan as get_scan shows it now.
Snapshot == [over |-> over, ports |-> ToSet(shown.ports), findings |-> ToSet(shown.findings)]

Answer ==
    /\ answer = {}
    /\ answer' = {Snapshot}
    /\ UNCHANGED <<over, shown, received, ended, listing>>

\* list_scans shows how many rows there are.
List ==
    /\ listing = {}
    /\ listing' = {[over |-> over, open |-> Len(shown.ports), findings |-> Len(shown.findings)]}
    /\ UNCHANGED <<over, shown, received, ended, answer>>

\* The scan ends; an answer may show its last moment before that.
Finish ==
    /\ ~over
    /\ over' = TRUE
    /\ \/ UNCHANGED answer
       \/ answer = {} /\ answer' = {Snapshot}
    /\ UNCHANGED <<shown, received, ended, listing>>

Next ==
    \/ \E p \in Ports : Publish(p)
    \/ Deliver \/ DeliverEnd
    \/ Answer \/ List
    \/ Finish

Spec == Init /\ [][Next]_feedVars
=============================================================================
