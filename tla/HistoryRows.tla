---------------------------- MODULE HistoryRows ----------------------------
(***************************************************************************)
(* The three tables of the scan history as values (core/db.cpp): what a    *)
(* scan, its ports and its findings become as rows, and what the loads     *)
(* make of the rows.  A table is a function of its primary keys.  Texts    *)
(* are sequences of characters, NUL among them; one text stands for all    *)
(* the text columns that are bound and read in the same way.               *)
(***************************************************************************)
EXTENDS Integers, Sequences, SequencesExt, FiniteSetsExt, TLC

NUL == "NUL"
Bar == "|"
NoRows == <<>>

\* The enumerators of core::Severity, Confidence and Protocol, from 0 on.
Severities == <<"INFO", "LOW", "MEDIUM", "HIGH", "CRITICAL">>
Confidences == <<"UNKNOWN", "VERSION_MATCH", "VERIFIED">>
Protocols == <<"UNKNOWN", "TCP", "UDP", "ICMP">>
NameOf(names, n) == names[n + 1]
EnumeratorOf(names, name, default) ==
    IF name \in ToSet(names) THEN (CHOOSE i \in 1..Len(names) : names[i] = name) - 1 ELSE default

\* sqlite3_bind_text with length -1: a text ends at its first NUL.
Bound(text) == SubSeq(text, 1, Min({i \in 1..Len(text) : text[i] = NUL} \cup {Len(text) + 1}) - 1)

\* join_references.
JoinReferences(references) ==
    FoldLeft(LAMBDA text, r : (IF text = <<>> THEN text ELSE Append(text, Bar)) \o r, <<>>, references)

\* split_references: the parts between bars that are not empty.
SplitReferences(text) ==
    LET cuts == SetToSortSeq({0, Len(text) + 1} \cup {i \in 1..Len(text) : text[i] = Bar}, <)
        parts == [i \in 1..(Len(cuts) - 1) |-> SubSeq(text, cuts[i] + 1, cuts[i + 1] - 1)]
    IN  SelectSeq(parts, LAMBDA p : p # <<>>)

\* INSERT OR REPLACE of rows, and the keys of one scan in the order of their index.
Replace(table, rows) == rows @@ table
KeysOf(table, scan) == SetToSortSeq({k \in DOMAIN table : k[1] = scan}, LAMBDA k, l : k[2] < l[2])

-----------------------------------------------------------------------------
FindingRow(f) ==
    [text |-> Bound(f.text), evidence |-> Bound(f.evidence.value), details |-> Bound(f.evidence.details),
     severity |-> NameOf(Severities, f.severity), confidence |-> NameOf(Confidences, f.confidence),
     protocol |-> NameOf(Protocols, f.protocol), port |-> f.port,
     references |-> Bound(JoinReferences(f.references))]

\* save_findings, as if the position among the findings were not part of the key.
Bug_KeyWithoutIndex(table, scan, findings) ==
    IF findings = <<>> THEN table
    ELSE Replace(table, <<scan, 0>> :> FindingRow(findings[Len(findings)]))

SaveFindings(table, scan, findings) ==
    Replace(table, [k \in {<<scan, i - 1>> : i \in 1..Len(findings)} |-> FindingRow(findings[k[2] + 1])])

\* load_findings: in the order they were saved; the evidence is stored once.
LoadFindings(table, scan) ==
    LET keys == KeysOf(table, scan)
        F(r) == [text |-> r.text, evidence |-> [value |-> r.evidence, details |-> r.details],
                 severity |-> EnumeratorOf(Severities, r.severity, 0),
                 confidence |-> EnumeratorOf(Confidences, r.confidence, 0),
                 protocol |-> EnumeratorOf(Protocols, r.protocol, 0), port |-> r.port,
                 references |-> SplitReferences(r.references)]
    IN  [i \in 1..Len(keys) |-> F(table[keys[i]])]

\* save_ports: one row for each number and protocol.
SavePorts(table, scan, ports) ==
    FoldLeft(LAMBDA t, p :
                Replace(t, <<scan, p.number, NameOf(Protocols, p.protocol)>> :>
                              [service |-> Bound(p.service), tls |-> IF p.tls THEN 1 ELSE 0]),
             table, ports)

\* load_ports: by number; what is stored is open.
LoadPorts(table, scan) ==
    LET keys == KeysOf(table, scan)
    IN  [i \in 1..Len(keys) |->
            [number |-> keys[i][2], protocol |-> EnumeratorOf(Protocols, keys[i][3], 0), state |-> "OPEN",
             service |-> table[keys[i]].service, tls |-> table[keys[i]].tls # 0]]

-----------------------------------------------------------------------------
\* upsert_scan, as if a conflict replaced the whole row.
Bug_UpsertReplaces(scans, row) == Replace(scans, row.id :> row)

\* upsert_scan: who asked for a scan, for what and when is settled by the first insert.
UpsertScan(scans, row) ==
    IF row.id \in DOMAIN scans
    THEN Replace(scans, row.id :> [scans[row.id] EXCEPT !.status = row.status, !.completed = row.completed])
    ELSE Replace(scans, row.id :> row)

\* update_scan_status: nothing for an id that is not there.
UpdateScanStatus(scans, id, status, completed) ==
    IF id \in DOMAIN scans
    THEN Replace(scans, id :> [scans[id] EXCEPT !.status = status, !.completed = completed]) ELSE scans

\* get_scan and list_scans: the newest first, at most limit.
GetScan(scans, id) == IF id \in DOMAIN scans THEN <<scans[id]>> ELSE <<>>
ListScans(scans, limit) ==
    LET ids == SetToSortSeq(DOMAIN scans, LAMBDA a, b : scans[a].started > scans[b].started)
    IN  [i \in 1..Min({limit, Len(ids)}) |-> scans[ids[i]]]
=============================================================================
