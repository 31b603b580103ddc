---------------------------- MODULE ScanJobProofs ----------------------------
(***************************************************************************)
(* Proofs, for any range, any number of workers and findings and any calls *)
(* of the handlers, that the rows pushed while the scan ran are the rows   *)
(* it returned, that the stream is a faithful and in the end complete copy *)
(* of them, and that no answer says done before the job is complete.       *)
(***************************************************************************)
EXTENDS ScanJob, SequenceTheorems, FiniteSetTheorems, TLAPS

\* A sequence that repeats nothing.
Distinct(s) == \A i, j \in 1..Len(s) : s[i] = s[j] => i = j

TaskPlaces == {"queued", "probe", "publish", "collect", "count", "over"}
JobPlaces == {"spawned", "scan", "done", "stamp", "save", "catch", "error", "exit"}
StreamPlaces == {"off", "status", "scanned", "rows", "push", "ended", "broken"}
GetPlaces == {"idle", "status", "rows", "reply", "answered"}
ListPlaces == {"idle", "status", "scanned", "answered"}
Final == {Done, Error}

Rows == [ports : Seq(Ports), findings : Seq(Findings)]
StreamTypes ==
    [pc : StreamPlaces, status : Queued..Error, scanned : 0..NumPorts, sent_ports : Nat,
     sent_findings : Nat, new_ports : Seq(Ports), new_findings : Seq(Findings)]
BrowserTypes ==
    [scanned : 0..NumPorts, ports : Seq(Ports), findings : Seq(Findings), status : Queued..Error,
     ended : BOOLEAN]
GetTypes ==
    [pc : GetPlaces, completed_at : 0..1, status : Queued..Error, ports : SUBSET Ports,
     findings : SUBSET Findings]
ListTypes ==
    [pc : ListPlaces, open : Nat, findings : Nat, status : Queued..Error, scanned : 0..NumPorts]

Types ==
    /\ submitted \in 0..NumPorts /\ started \in Seq(Nat) /\ finished \in SUBSET Ports
    /\ pool \in {"open", "closing", "closed"}
    /\ tpc \in [Ports -> TaskPlaces]
    /\ local \in [Ports -> Seq(Findings)]
    /\ out_ports \in Seq(Ports) /\ out_findings \in Seq(Findings)
    /\ result \in Rows
    /\ jpc \in JobPlaces
    /\ status \in Queued..Error /\ scanned \in Nat /\ completed_at \in 0..1
    /\ ports \in Seq(Ports) /\ findings \in Seq(Findings) /\ error \in BOOLEAN
    /\ results_mu \in {"free", "list"}
    /\ sv \in StreamTypes /\ ui \in BrowserTypes /\ got \in GetTypes /\ listed \in ListTypes

\* The pool takes the ports in order; progress counts the tasks that are over, and when
\* tcp_range_scan has returned they all are.
PoolInv ==
    /\ Len(started) <= submitted
    /\ \A p \in Ports : tpc[p] = "queued" <=> p > Len(started)
    /\ \A p \in Ports : tpc[p] = "over" <=> p \in finished
    /\ scanned = Cardinality(finished)
    /\ jpc = "spawned" => submitted = 0 /\ pool = "open"
    /\ pool # "open" => submitted = NumPorts
    /\ pool = "closed" <=> jpc \notin {"spawned", "scan"}
    /\ pool = "closed" => finished = Ports

\* The status is done or error only once the job thread is past the scan.
StatusInv ==
    /\ jpc = "spawned" => status = Queued
    /\ jpc \in {"scan", "done"} => status = Running
    /\ jpc \in {"stamp", "save", "catch", "error"} => status = Done
    /\ jpc = "exit" => status \in Final

\* The rows shown live are the rows collected, and those of the tasks that have published
\* and not yet collected; no row is there twice.
PortRowsInv ==
    /\ Distinct(ports) /\ Distinct(out_ports)
    /\ \A p \in Ports : p \in ToSet(ports) <=> p \in ToSet(out_ports) \/ tpc[p] = "collect"
    /\ \A p \in ToSet(out_ports) : tpc[p] \in {"count", "over"}

FindingRowsInv ==
    /\ Distinct(findings) /\ Distinct(out_findings)
    /\ \A p \in Ports : Distinct(local[p]) /\ \A f \in ToSet(local[p]) : f[1] = p
    /\ \A f \in Findings :
          f \in ToSet(findings) <=> \/ f \in ToSet(out_findings)
                                    \/ tpc[f[1]] = "collect" /\ f \in ToSet(local[f[1]])
    /\ \A f \in ToSet(out_findings) : tpc[f[1]] \in {"count", "over"}

\* What tcp_range_scan returned is what it collected, in order.
ResultInv ==
    pool = "closed" =>
        /\ Distinct(result.ports) /\ ToSet(result.ports) = ToSet(out_ports)
        /\ Distinct(result.findings) /\ ToSet(result.findings) = ToSet(out_findings)

\* What the browser has, with the batch on its way, is what came before the cursors.
CursorInv ==
    /\ sv.pc # "push" => sv.new_ports = <<>> /\ sv.new_findings = <<>>
    /\ IsPrefix(ui.ports \o sv.new_ports, ports)
    /\ IsPrefix(ui.findings \o sv.new_findings, findings)
    /\ sv.pc # "broken" => /\ sv.sent_ports = Len(ui.ports \o sv.new_ports)
                           /\ sv.sent_findings = Len(ui.findings \o sv.new_findings)

\* A status that says the scan is over was true when it was loaded, and is still: all
\* that is loaded after it is final.
StreamInv ==
    /\ sv.pc \in {"scanned", "rows", "push"} /\ sv.status \in Final => status \in Final
    /\ sv.pc \in {"rows", "push"} /\ sv.status \in Final => sv.scanned = NumPorts
    /\ sv.pc = "push" /\ sv.status \in Final =>
          sv.sent_ports = Len(ports) /\ sv.sent_findings = Len(findings)
    /\ ui.ended =>
          /\ sv.pc = "ended" /\ status \in Final /\ ui.scanned = NumPorts
          /\ Len(ui.ports) = Len(ports) /\ Len(ui.findings) = Len(findings)

GetInv ==
    /\ got.pc \in {"rows", "reply", "answered"} /\ got.status \in Final => status \in Final
    /\ got.pc \in {"reply", "answered"} /\ got.status \in Final =>
          got.ports = ToSet(ports) /\ got.findings = ToSet(findings)

ListInv ==
    /\ results_mu = "list" <=> listed.pc \in {"status", "scanned"}
    /\ results_mu = "list" => listed.open = Len(ports) /\ listed.findings = Len(findings)
    /\ listed.pc \in {"scanned", "answered"} /\ listed.status \in Final => status \in Final
    /\ listed.pc = "answered" /\ listed.status \in Final =>
          /\ listed.open = Len(ports) /\ listed.findings = Len(findings)
          /\ listed.scanned = NumPorts

IInv ==
    /\ Types /\ PoolInv /\ StatusInv /\ PortRowsInv /\ FindingRowsInv /\ ResultInv
    /\ CursorInv /\ StreamInv /\ GetInv /\ ListInv

-----------------------------------------------------------------------------
(* Sequences: their elements, appended, concatenated and counted. *)

\* The elements of a sequence are the values at its positions.
LEMMA Elements ==
  ASSUME NEW S, NEW s \in Seq(S)
  PROVE  /\ ToSet(s) = {s[i] : i \in 1..Len(s)}
         /\ ToSet(s) \subseteq S
         /\ \A i \in 1..Len(s) : s[i] \in ToSet(s)
         /\ \A e \in ToSet(s) : \E i \in 1..Len(s) : s[i] = e
<1>1. ToSet(s) = {s[i] : i \in 1..Len(s)}
  BY DEF ToSet
<1>2. \A i \in 1..Len(s) : s[i] \in S
  BY ElementOfSeq
<1> QED BY <1>1, <1>2

\* The empty sequence has no element.
LEMMA EmptyElements == ToSet(<<>>) = {} /\ Distinct(<<>>)
BY EmptySeq DEF ToSet, Distinct

\* push_back of a new row.
LEMMA AppendElements ==
  ASSUME NEW S, NEW s \in Seq(S), NEW e \in S
  PROVE  /\ ToSet(Append(s, e)) = ToSet(s) \cup {e}
         /\ Distinct(s) /\ e \notin ToSet(s) => Distinct(Append(s, e))
<1> DEFINE t == Append(s, e)
<1>1. /\ t \in Seq(S) /\ Len(t) = Len(s) + 1 /\ t[Len(s) + 1] = e
      /\ \A i \in 1..Len(s) : t[i] = s[i]
  BY AppendProperties
<1>2. Len(s) \in Nat
  BY LenProperties
<1>3. ToSet(t) = {t[i] : i \in 1..Len(t)} /\ ToSet(s) = {s[i] : i \in 1..Len(s)}
  BY <1>1, Elements
<1> HIDE DEF t
<1>4. ToSet(t) = ToSet(s) \cup {e}
  BY <1>1, <1>2, <1>3
<1>5. Distinct(s) /\ e \notin ToSet(s) => Distinct(t)
  BY <1>1, <1>2, <1>3 DEF Distinct
<1> QED BY <1>4, <1>5 DEF t

\* insert of a batch that has no row in common with what is there.
LEMMA ConcatElements ==
  ASSUME NEW S, NEW s \in Seq(S), NEW u \in Seq(S)
  PROVE  /\ ToSet(s \o u) = ToSet(s) \cup ToSet(u)
         /\ Distinct(s) /\ Distinct(u) /\ ToSet(s) \cap ToSet(u) = {} => Distinct(s \o u)
<1> DEFINE t == s \o u
<1>1. /\ t \in Seq(S) /\ Len(t) = Len(s) + Len(u)
      /\ \A i \in 1..Len(s) + Len(u) : t[i] = IF i <= Len(s) THEN s[i] ELSE u[i - Len(s)]
  BY ConcatProperties
<1>2. Len(s) \in Nat /\ Len(u) \in Nat
  BY LenProperties
<1>3. /\ ToSet(t) = {t[i] : i \in 1..Len(t)} /\ ToSet(s) = {s[i] : i \in 1..Len(s)}
      /\ ToSet(u) = {u[i] : i \in 1..Len(u)}
  BY <1>1, Elements
<1> HIDE DEF t
<1>4. \A i \in 1..Len(s) : i \in 1..Len(t) /\ t[i] = s[i]
  BY <1>1, <1>2
<1>5. ASSUME NEW i \in 1..Len(u) PROVE Len(s) + i \in 1..Len(t) /\ t[Len(s) + i] = u[i]
  <2>1. Len(s) + i \in 1..Len(s) + Len(u) /\ ~(Len(s) + i <= Len(s)) /\ Len(s) + i - Len(s) = i
    BY <1>2
  <2> QED BY <1>1, <2>1
<1>6. ASSUME NEW i \in 1..Len(t), i \notin 1..Len(s)
      PROVE  i - Len(s) \in 1..Len(u) /\ t[i] = u[i - Len(s)]
  <2>1. i \in 1..Len(s) + Len(u) /\ ~(i <= Len(s)) /\ i - Len(s) \in 1..Len(u)
    BY <1>1, <1>2, <1>6
  <2> QED BY <1>1, <2>1
<1>7. ToSet(t) = ToSet(s) \cup ToSet(u)
  BY <1>3, <1>4, <1>5, <1>6
<1>8. ASSUME Distinct(s), Distinct(u), ToSet(s) \cap ToSet(u) = {} PROVE Distinct(t)
  <2>1. SUFFICES ASSUME NEW i \in 1..Len(t), NEW j \in 1..Len(t), t[i] = t[j] PROVE i = j
    BY DEF Distinct
  <2>2. CASE i \in 1..Len(s) /\ j \in 1..Len(s)
    BY <1>4, <1>8, <2>1, <2>2 DEF Distinct
  <2>3. CASE i \notin 1..Len(s) /\ j \notin 1..Len(s)
    <3>1. /\ i - Len(s) \in 1..Len(u) /\ j - Len(s) \in 1..Len(u)
          /\ u[i - Len(s)] = u[j - Len(s)]
      BY <1>6, <2>1, <2>3
    <3> QED BY <1>1, <1>2, <1>8, <3>1 DEF Distinct
  <2>4. CASE i \in 1..Len(s) /\ j \notin 1..Len(s)
    <3>1. t[i] \in ToSet(s) /\ t[j] \in ToSet(u)
      BY <1>3, <1>4, <1>6, <2>4
    <3> QED BY <1>8, <2>1, <3>1
  <2>5. CASE i \notin 1..Len(s) /\ j \in 1..Len(s)
    <3>1. t[j] \in ToSet(s) /\ t[i] \in ToSet(u)
      BY <1>3, <1>4, <1>6, <2>5
    <3> QED BY <1>8, <2>1, <3>1
  <2> QED BY <2>2, <2>3, <2>4, <2>5
<1> QED BY <1>7, <1>8 DEF t

\* The length of a sequence without repetition is the number of its elements.
LEMMA CountElements ==
  ASSUME NEW S, NEW s \in Seq(S), Distinct(s)
  PROVE  Cardinality(ToSet(s)) = Len(s) /\ IsFiniteSet(ToSet(s))
<1>1. s \in [1..Len(s) -> ToSet(s)] /\ Len(s) \in Nat /\ DOMAIN s = 1..Len(s)
  BY LenProperties, Elements
<1>2. s \in Bijection(1..Len(s), ToSet(s))
  <2>1. s \in Injection(1..Len(s), ToSet(s))
    BY <1>1 DEF Distinct, Injection, IsInjective
  <2>2. s \in Surjection(1..Len(s), ToSet(s))
    BY <1>1, Elements DEF Surjection
  <2> QED BY <2>1, <2>2 DEF Bijection
<1>3. ExistsBijection(1..Len(s), ToSet(s))
  BY <1>2 DEF ExistsBijection
<1>4. Cardinality(ToSet(s)) = Len(s)
  BY <1>1, <1>3, FS_CountingElements
<1>5. IsFiniteSet(ToSet(s))
  BY <1>1, <1>3, FS_NatBijection
<1> QED BY <1>4, <1>5

\* Two such sequences with the same elements are equally long.
LEMMA SameLength ==
  ASSUME NEW S, NEW s \in Seq(S), NEW u \in Seq(S), Distinct(s), Distinct(u), ToSet(s) = ToSet(u)
  PROVE  Len(s) = Len(u)
BY CountElements

\* A sequence that lists a set has its elements, each once.
LEMMA ListingElements ==
  ASSUME NEW S, NEW u \in Seq(S), Distinct(u), NEW s \in SetToSeqs(ToSet(u))
  PROVE  s \in Seq(S) /\ Distinct(s) /\ ToSet(s) = ToSet(u)
<1> DEFINE n == Len(u)
           T == ToSet(u)
<1>1. n \in Nat /\ Cardinality(T) = n /\ IsFiniteSet(T) /\ T \subseteq S
  BY CountElements, LenProperties, Elements
<1>2. s \in [1..n -> T] /\ \A i, j \in 1..n : i # j => s[i] # s[j]
  BY <1>1 DEF SetToSeqs
<1>3. s \in Seq(S) /\ Len(s) = n
  BY <1>1, <1>2
<1>4. Distinct(s)
  BY <1>2, <1>3 DEF Distinct
<1>5. Cardinality(1..n) = n
  <2>1. 1 \in Int /\ n \in Int /\ (1 > n <=> n = 0) /\ n - 1 + 1 = n
    BY <1>1
  <2>2. Cardinality(1..n) = IF 1 > n THEN 0 ELSE n - 1 + 1
    BY <2>1, FS_Interval
  <2> QED BY <2>1, <2>2
<1>6. s \in Injection(1..n, T)
  BY <1>2 DEF Injection, IsInjective
<1>7. s \in Surjection(1..n, T)
  BY <1>1, <1>5, <1>6, FS_Injection
<1>8. \A e \in T : \E i \in 1..n : s[i] = e
  BY <1>7 DEF Surjection
<1>9. ToSet(s) = {s[i] : i \in 1..n}
  BY <1>3, Elements
<1>10. ToSet(s) = T
  BY <1>2, <1>8, <1>9
<1> QED BY <1>3, <1>4, <1>10

(* Prefixes: what has been delivered stays the beginning of what there is. *)

\* A prefix agrees with the whole at each of its positions.
LEMMA PrefixMeans ==
  ASSUME NEW S, NEW s \in Seq(S), NEW t \in Seq(S)
  PROVE  IsPrefix(s, t) <=> Len(s) <= Len(t) /\ \A i \in 1..Len(s) : s[i] = t[i]
<1>1. Len(s) \in Nat /\ Len(t) \in Nat
  BY LenProperties
<1>2. SubSeq(s, 1, Len(s)) = s
  BY SubSeqFull
<1>3. CASE Len(s) <= Len(t)
  <2>1. \A i \in 1..Len(s) : t[i] \in S
    BY <1>1, <1>3, ElementOfSeq
  <2>2. /\ SubSeq(t, 1, Len(s)) \in Seq(S) /\ Len(SubSeq(t, 1, Len(s))) = Len(s)
        /\ \A i \in 1..Len(s) : SubSeq(t, 1, Len(s))[i] = t[i]
    BY <1>1, <2>1, SubSeqProperties
  <2>3. (\A i \in 1..Len(s) : s[i] = t[i]) => s = SubSeq(t, 1, Len(s))
    BY <2>2, SeqEqual
  <2> QED BY <1>2, <1>3, <2>2, <2>3 DEF IsPrefix
<1>4. CASE ~(Len(s) <= Len(t))
  BY <1>4 DEF IsPrefix
<1> QED BY <1>3, <1>4

LEMMA PrefixTransitive ==
  ASSUME NEW S, NEW s \in Seq(S), NEW t \in Seq(S), NEW u \in Seq(S),
         IsPrefix(s, t), IsPrefix(t, u)
  PROVE  IsPrefix(s, u)
BY PrefixMeans, LenProperties

\* A prefix as long as the whole is the whole.
LEMMA WholePrefix ==
  ASSUME NEW S, NEW s \in Seq(S), NEW t \in Seq(S), IsPrefix(s, t), Len(s) = Len(t)
  PROVE  s = t
BY PrefixMeans, SeqEqual

\* What is there before rows are added is a prefix of what is there after.
LEMMA PrefixGrows ==
  ASSUME NEW S, NEW s \in Seq(S), NEW u \in Seq(S)
  PROVE  IsPrefix(s, s) /\ IsPrefix(s, s \o u) /\ \A e \in S : IsPrefix(s, Append(s, e))
<1>1. IsPrefix(s, s)
  BY PrefixMeans, LenProperties
<1>2. IsPrefix(s, s \o u)
  <2>1. /\ s \o u \in Seq(S) /\ Len(s \o u) = Len(s) + Len(u) /\ Len(s) \in Nat /\ Len(u) \in Nat
        /\ \A i \in 1..Len(s) + Len(u) : (s \o u)[i] = IF i <= Len(s) THEN s[i] ELSE u[i - Len(s)]
    BY ConcatProperties, LenProperties
  <2>2. Len(s) <= Len(s \o u) /\ \A i \in 1..Len(s) : s[i] = (s \o u)[i]
    BY <2>1
  <2> QED BY <2>1, <2>2, PrefixMeans
<1>3. ASSUME NEW e \in S PROVE IsPrefix(s, Append(s, e))
  <2>1. /\ Append(s, e) \in Seq(S) /\ Len(Append(s, e)) = Len(s) + 1 /\ Len(s) \in Nat
        /\ \A i \in 1..Len(s) : s[i] = Append(s, e)[i]
    BY AppendProperties, LenProperties
  <2>2. Len(s) <= Len(Append(s, e))
    BY <2>1
  <2> QED BY <2>1, <2>2, PrefixMeans
<1> QED BY <1>1, <1>2, <1>3

\* A prefix with the rows that follow it is the whole.
LEMMA PrefixCompleted ==
  ASSUME NEW S, NEW s \in Seq(S), NEW t \in Seq(S), IsPrefix(s, t)
  PROVE  /\ SubSeq(t, Len(s) + 1, Len(t)) \in Seq(S)
         /\ s \o SubSeq(t, Len(s) + 1, Len(t)) = t
<1> DEFINE u == SubSeq(t, Len(s) + 1, Len(t))
<1>1. Len(s) \in Nat /\ Len(t) \in Nat /\ Len(s) <= Len(t) /\ \A i \in 1..Len(s) : s[i] = t[i]
  BY PrefixMeans, LenProperties
<1>2. \A i \in Len(s) + 1..Len(t) : t[i] \in S
  BY <1>1, ElementOfSeq
<1>3. /\ u \in Seq(S) /\ Len(u) = Len(t) - Len(s)
      /\ \A i \in 1..Len(u) : u[i] = t[Len(s) + i]
  BY <1>1, <1>2, SubSeqProperties
<1> HIDE DEF u
<1>4. /\ s \o u \in Seq(S) /\ Len(s \o u) = Len(t)
      /\ \A i \in 1..Len(t) : (s \o u)[i] = IF i <= Len(s) THEN s[i] ELSE u[i - Len(s)]
  BY <1>1, <1>3, ConcatProperties
<1>5. \A i \in 1..Len(t) : (s \o u)[i] = t[i]
  BY <1>1, <1>3, <1>4
<1>6. s \o u = t
  BY <1>4, <1>5, SeqEqual
<1> QED BY <1>3, <1>6 DEF u

\* A batch cut short leaves a prefix as well.
LEMMA PrefixOfBatch ==
  ASSUME NEW S, NEW s \in Seq(S), NEW u \in Seq(S), NEW i \in 0..Len(u)
  PROVE  /\ SubSeq(u, 1, i) \in Seq(S)
         /\ IsPrefix(s \o SubSeq(u, 1, i), s \o u)
<1> DEFINE v == SubSeq(u, 1, i)
<1>1. Len(s) \in Nat /\ Len(u) \in Nat
  BY LenProperties
<1>2. \A j \in 1..i : u[j] \in S
  BY <1>1, ElementOfSeq
<1>3. v \in Seq(S) /\ Len(v) = i /\ \A j \in 1..i : v[j] = u[j]
  BY <1>1, <1>2, SubSeqProperties
<1> HIDE DEF v
<1>4. /\ s \o v \in Seq(S) /\ Len(s \o v) = Len(s) + i
      /\ \A j \in 1..Len(s) + i : (s \o v)[j] = IF j <= Len(s) THEN s[j] ELSE v[j - Len(s)]
  BY <1>3, ConcatProperties
<1>5. /\ s \o u \in Seq(S) /\ Len(s \o u) = Len(s) + Len(u)
      /\ \A j \in 1..Len(s) + Len(u) : (s \o u)[j] = IF j <= Len(s) THEN s[j] ELSE u[j - Len(s)]
  BY ConcatProperties
<1>6. ASSUME NEW j \in 1..Len(s) + i PROVE (s \o v)[j] = (s \o u)[j]
  <2>1. j \in 1..Len(s) + Len(u) /\ (~(j <= Len(s)) => j - Len(s) \in 1..i)
    BY <1>1
  <2> QED BY <1>3, <1>4, <1>5, <2>1
<1>7. IsPrefix(s \o v, s \o u)
  <2>1. Len(s \o v) <= Len(s \o u) /\ \A j \in 1..Len(s \o v) : (s \o v)[j] = (s \o u)[j]
    BY <1>1, <1>4, <1>5, <1>6
  <2> QED BY <1>4, <1>5, <2>1, PrefixMeans
<1> QED BY <1>3, <1>7 DEF v

-----------------------------------------------------------------------------
(* The job as it starts, and the kinds of its variables. *)

\* A new job has no rows, no progress and no reader.
LEMMA InitIInv == Init => IInv
<1> SUFFICES ASSUME Init PROVE IInv
  OBVIOUS
<1> USE ScanJobSizes
<1>1. \A S : <<>> \in Seq(S) /\ Len(<<>>) = 0 /\ <<>> \o <<>> = <<>>
  BY EmptySeq, ConcatEmptySeq
<1>2. IsPrefix(<<>>, <<>>)
  BY <1>1, PrefixGrows
<1>3. /\ ports = <<>> /\ findings = <<>> /\ out_ports = <<>> /\ out_findings = <<>>
      /\ \A p \in Ports : local[p] = <<>> /\ tpc[p] = "queued"
      /\ submitted = 0 /\ started = <<>> /\ finished = {} /\ pool = "open"
      /\ jpc = "spawned" /\ status = Queued /\ scanned = 0
      /\ ui.ports = <<>> /\ ui.findings = <<>> /\ ~ui.ended
      /\ sv.new_ports = <<>> /\ sv.new_findings = <<>> /\ sv.pc = "off"
      /\ sv.sent_ports = 0 /\ sv.sent_findings = 0
      /\ got.pc = "idle" /\ listed.pc = "idle" /\ results_mu = "free"
  BY DEF Init, Pool!Init
<1>4. Types
  <2>1. /\ 0 \in 0..NumPorts /\ Queued \in Queued..Error /\ 0 \in 0..1 /\ 0 \in Nat
        /\ {} \in SUBSET Ports /\ {} \in SUBSET Findings
    BY DEF Queued, Error
  <2>2. sv \in StreamTypes /\ ui \in BrowserTypes
    BY <1>1, <2>1 DEF Init, StreamTypes, BrowserTypes, StreamPlaces
  <2>3. got \in GetTypes /\ listed \in ListTypes
    BY <2>1 DEF Init, GetTypes, ListTypes, GetPlaces, ListPlaces
  <2>4. result \in Rows
    BY <1>1 DEF Init, Rows
  <2>5. tpc \in [Ports -> TaskPlaces] /\ local \in [Ports -> Seq(Findings)]
    BY <1>1 DEF Init, TaskPlaces
  <2>6. completed_at = 0 /\ error = FALSE
    BY DEF Init
  <2> QED BY <1>1, <1>3, <2>1, <2>2, <2>3, <2>4, <2>5, <2>6 DEF Types, JobPlaces
<1>5. PoolInv
  BY <1>1, <1>3, FS_EmptySet DEF PoolInv, Ports
<1>6. PortRowsInv /\ FindingRowsInv
  <2>1. \A p \in Ports : ToSet(local[p]) = {} /\ Distinct(local[p])
    BY <1>3, EmptyElements
  <2>2. /\ ToSet(ports) = {} /\ ToSet(out_ports) = {} /\ Distinct(ports) /\ Distinct(out_ports)
        /\ ToSet(findings) = {} /\ ToSet(out_findings) = {} /\ Distinct(findings)
        /\ Distinct(out_findings)
    BY <1>3, EmptyElements
  <2>3. \A f \in Findings : f[1] \in Ports
    BY DEF Findings
  <2> QED BY <1>3, <2>1, <2>2, <2>3 DEF PortRowsInv, FindingRowsInv
<1>7. StatusInv /\ ResultInv /\ CursorInv /\ StreamInv /\ GetInv /\ ListInv
  BY <1>1, <1>2, <1>3 DEF StatusInv, ResultInv, CursorInv, StreamInv, GetInv, ListInv
<1> QED BY <1>4, <1>5, <1>6, <1>7 DEF IInv

\* The findings that a probe may gather are a sequence of that port's findings, without
\* repetition.
LEMMA GatheredFindings ==
  ASSUME NEW p \in Ports, NEW n \in 0..MaxFindings
  PROVE  LET s == [k \in 1..n |-> <<p, k>>]
         IN  s \in Seq(Findings) /\ Distinct(s) /\ \A f \in ToSet(s) : f[1] = p
<1> DEFINE s == [k \in 1..n |-> <<p, k>>]
<1>1. n \in Nat /\ MaxFindings \in Nat
  BY ScanJobSizes
<1>2. \A k \in 1..n : s[k] \in Findings /\ s[k][1] = p /\ s[k][2] = k
  BY <1>1 DEF Findings
<1>3. s \in Seq(Findings) /\ Len(s) = n
  BY <1>1, <1>2
<1> HIDE DEF s
<1>4. Distinct(s)
  BY <1>2, <1>3 DEF Distinct
<1>5. \A f \in ToSet(s) : f[1] = p
  BY <1>2, <1>3, Elements
<1> QED BY <1>3, <1>4, <1>5 DEF s

\* Types are preserved by the worker threads.
LEMMA TypesTask == ASSUME Types, PoolInv, NEW p \in Ports, TaskStep(p) PROVE Types'
<1>1. CASE Begin(p)
  <2>1. /\ started' = Append(started, Len(started) + 1) /\ tpc' = [tpc EXCEPT ![p] = "probe"]
        /\ UNCHANGED <<submitted, finished, pool, local, out_ports, out_findings, rowVars, jobVars,
                       scanned, results_mu, readVars>>
    BY <1>1 DEF Begin, Pool!Start
  <2>2. started' \in Seq(Nat)
    BY <2>1, LenProperties, AppendProperties DEF Types
  <2> QED BY <2>1, <2>2 DEF Types, TaskPlaces, rowVars, jobVars, readVars
<1>2. CASE Probe(p)
  <2>1. local' \in [Ports -> Seq(Findings)]
    <3>1. CASE UNCHANGED local
      BY <3>1 DEF Types
    <3>2. CASE \E n \in 0..MaxFindings : local' = [local EXCEPT ![p] = [k \in 1..n |-> <<p, k>>]]
      <4>1. PICK n \in 0..MaxFindings : local' = [local EXCEPT ![p] = [k \in 1..n |-> <<p, k>>]]
        BY <3>2
      <4> DEFINE s == [k \in 1..n |-> <<p, k>>]
      <4>2. s \in Seq(Findings)
        BY GatheredFindings
      <4> HIDE DEF s
      <4>3. local \in [Ports -> Seq(Findings)] /\ local' = [local EXCEPT ![p] = s]
        BY <4>1 DEF Types, s
      <4> QED BY <4>2, <4>3
    <3> QED BY <1>2, <3>1, <3>2 DEF Probe
  <2> QED BY <1>2, <2>1 DEF Probe, Types, TaskPlaces, poolVars, rowVars, jobVars, readVars
<1>3. CASE Publish(p)
  <2>1. ports' \in Seq(Ports) /\ findings' \in Seq(Findings)
    BY <1>3, AppendProperties, ConcatProperties DEF Publish, Types
  <2> QED BY <1>3, <2>1 DEF Publish, Types, TaskPlaces, poolVars, jobVars, readVars
<1>4. CASE Collect(p)
  <2>1. out_ports' \in Seq(Ports) /\ out_findings' \in Seq(Findings)
    BY <1>4, AppendProperties, ConcatProperties DEF Collect, Types
  <2>2. local' \in [Ports -> Seq(Findings)]
    BY <1>4, EmptySeq DEF Collect, Types
  <2> QED BY <1>4, <2>1, <2>2 DEF Collect, Types, TaskPlaces, poolVars, rowVars, jobVars, readVars
<1>5. CASE Count(p)
  BY <1>5 DEF Count, Pool!Finish, Types, TaskPlaces, rowVars, jobVars, readVars, Ports
<1> QED BY <1>1, <1>2, <1>3, <1>4, <1>5 DEF TaskStep

\* What tcp_range_scan returns is of the kind its vectors are.
LEMMA ResultFacts ==
  ASSUME Types, PortRowsInv, FindingRowsInv, JobScanReturns
  PROVE  /\ result'.ports \in Seq(Ports) /\ Distinct(result'.ports)
         /\ ToSet(result'.ports) = ToSet(out_ports)
         /\ result'.findings \in Seq(Findings) /\ Distinct(result'.findings)
         /\ ToSet(result'.findings) = ToSet(out_findings)
         /\ result' = [ports |-> result'.ports, findings |-> result'.findings]
<1>1. PICK ps \in SortedPorts(out_ports), fs \in SortedByPort(out_findings) :
         result' = [ports |-> ps, findings |-> fs]
  BY DEF JobScanReturns
<1>2. ps \in SetToSeqs(ToSet(out_ports)) /\ fs \in SetToSeqs(ToSet(out_findings))
  BY DEF SortedPorts, SortedByPort
<1>3. ps \in Seq(Ports) /\ Distinct(ps) /\ ToSet(ps) = ToSet(out_ports)
  BY <1>2, ListingElements DEF Types, PortRowsInv
<1>4. fs \in Seq(Findings) /\ Distinct(fs) /\ ToSet(fs) = ToSet(out_findings)
  BY <1>2, ListingElements DEF Types, FindingRowsInv
<1> QED BY <1>1, <1>3, <1>4

\* Types are preserved by the job thread.
LEMMA TypesJob == ASSUME Types, PortRowsInv, FindingRowsInv, JobStep PROVE Types'
<1>1. CASE JobStart
  BY <1>1 DEF JobStart, Types, poolVars, taskVars, rowVars, readVars, Queued, Running, Error, JobPlaces
<1>2. CASE JobEnqueue
  <2>1. submitted' \in 0..NumPorts
    BY <1>2, ScanJobSizes DEF JobEnqueue, Pool!Submit, Types
  <2> QED BY <1>2, <2>1 DEF JobEnqueue, Pool!Submit, Types, taskVars, rowVars, jobVars, readVars
<1>3. CASE JobClosePool
  BY <1>3 DEF JobClosePool, Pool!Close, Types, taskVars, rowVars, jobVars, readVars
<1>4. CASE JobScanReturns
  <2>1. result' \in Rows
    BY <1>4, ResultFacts DEF Rows
  <2> QED BY <1>4, <2>1 DEF JobScanReturns, Pool!Return, Types, taskVars, rowVars, readVars, JobPlaces
<1>5. CASE JobSetDone \/ JobSetError
  BY <1>5 DEF JobSetDone, JobSetError, Types, poolVars, taskVars, rowVars, readVars, JobPlaces,
     Queued, Done, Error
<1>6. CASE JobStamp
  BY <1>6 DEF JobStamp, Types, poolVars, taskVars, rowVars, readVars, JobPlaces
<1>7. CASE JobSave \/ JobCatch
  BY <1>7 DEF JobSave, JobCatch, Types, poolVars, taskVars, rowVars, readVars, JobPlaces
<1> QED BY <1>1, <1>2, <1>3, <1>4, <1>5, <1>6, <1>7 DEF JobStep

\* The count of a job is a number of ports, and all of them once its pool is gone.
LEMMA CountBound ==
  ASSUME Types, PoolInv
  PROVE  scanned \in 0..NumPorts /\ (pool = "closed" => scanned = NumPorts)
<1>1. NumPorts \in Nat /\ Ports = 1..NumPorts /\ finished \in SUBSET Ports
  BY ScanJobSizes DEF Types, Ports
<1>2. IsFiniteSet(Ports) /\ Cardinality(Ports) = NumPorts
  <2>1. 1 \in Int /\ NumPorts \in Int /\ ~(1 > NumPorts) /\ NumPorts - 1 + 1 = NumPorts
    BY ScanJobSizes
  <2>2. /\ IsFiniteSet(1..NumPorts)
        /\ Cardinality(1..NumPorts) = IF 1 > NumPorts THEN 0 ELSE NumPorts - 1 + 1
    BY <2>1, FS_Interval
  <2> QED BY <1>1, <2>1, <2>2
<1>3. Cardinality(finished) <= NumPorts /\ Cardinality(finished) \in Nat
  BY <1>1, <1>2, FS_Subset, FS_CardinalityType
<1>4. scanned = Cardinality(finished) /\ (pool = "closed" => finished = Ports)
  BY DEF PoolInv
<1> QED BY <1>1, <1>2, <1>3, <1>4

\* Types are preserved by stream_scan.
LEMMA TypesStream ==
  ASSUME Types, PoolInv, CursorInv, StreamOpen \/ StreamStep \/ StreamBreaks
  PROVE  Types'
<1> DEFINE Others == UNCHANGED <<scanVars, results_mu, got, listed>>
<1>1. Others
  BY DEF StreamOpen, StreamStep, StreamBreaks, StreamStatus, StreamScanned, StreamRows, StreamPush
<1>2. SUFFICES sv' \in StreamTypes /\ ui' \in BrowserTypes
  BY <1>1 DEF Types, scanVars, poolVars, taskVars, rowVars, jobVars
<1>3. sv \in StreamTypes /\ ui \in BrowserTypes /\ status \in Queued..Error
      /\ ports \in Seq(Ports) /\ findings \in Seq(Findings) /\ <<>> \in Seq(Ports) /\ <<>> \in Seq(Findings)
  BY EmptySeq DEF Types
<1>4. CASE StreamOpen \/ StreamStatus
  BY <1>3, <1>4 DEF StreamOpen, StreamStatus, StreamTypes, StreamPlaces
<1>5. CASE StreamScanned
  BY <1>3, <1>5, CountBound DEF StreamScanned, StreamTypes, StreamPlaces
<1>6. CASE StreamRows
  <2>1. /\ sv.new_ports = <<>> /\ sv.new_findings = <<>>
        /\ IsPrefix(ui.ports \o sv.new_ports, ports)
        /\ IsPrefix(ui.findings \o sv.new_findings, findings)
        /\ sv.sent_ports = Len(ui.ports \o sv.new_ports)
        /\ sv.sent_findings = Len(ui.findings \o sv.new_findings)
    BY <1>6 DEF StreamRows, CursorInv
  <2>2. ui.ports \o sv.new_ports = ui.ports /\ ui.findings \o sv.new_findings = ui.findings
        /\ ui.ports \in Seq(Ports) /\ ui.findings \in Seq(Findings)
    BY <1>3, <2>1, ConcatEmptySeq DEF BrowserTypes
  <2>3. SubSeq(ports, sv.sent_ports + 1, Len(ports)) \in Seq(Ports)
    BY <1>3, <2>1, <2>2, PrefixCompleted
  <2>4. SubSeq(findings, sv.sent_findings + 1, Len(findings)) \in Seq(Findings)
    BY <1>3, <2>1, <2>2, PrefixCompleted
  <2>5. Len(ports) \in Nat /\ Len(findings) \in Nat
    BY <1>3, LenProperties
  <2> QED BY <1>3, <1>6, <2>3, <2>4, <2>5 DEF StreamRows, StreamTypes, StreamPlaces
<1>7. CASE StreamPush
  <2>1. ui.ports \o sv.new_ports \in Seq(Ports) /\ ui.findings \o sv.new_findings \in Seq(Findings)
    BY <1>3, ConcatProperties DEF BrowserTypes, StreamTypes
  <2>2. ui' \in BrowserTypes
    BY <1>3, <1>7, <2>1 DEF StreamPush, Delivered, BrowserTypes, StreamTypes
  <2>3. sv' \in StreamTypes
    BY <1>3, <1>7 DEF StreamPush, StreamTypes, StreamPlaces
  <2> QED BY <2>2, <2>3
<1>8. CASE StreamBreaks
  <2>1. PICK i \in 0..Len(sv.new_ports), j \in 0..Len(sv.new_findings) :
           ui' = [ui EXCEPT !.scanned = sv.scanned,
                            !.ports = @ \o SubSeq(sv.new_ports, 1, i),
                            !.findings = @ \o SubSeq(sv.new_findings, 1, j)]
    BY <1>8 DEF StreamBreaks
  <2>2. /\ ui.ports \in Seq(Ports) /\ sv.new_ports \in Seq(Ports)
        /\ ui.findings \in Seq(Findings) /\ sv.new_findings \in Seq(Findings)
    BY <1>3 DEF StreamTypes, BrowserTypes
  <2>3. ui.ports \o SubSeq(sv.new_ports, 1, i) \in Seq(Ports)
    BY <2>2, PrefixOfBatch, ConcatProperties
  <2>4. ui.findings \o SubSeq(sv.new_findings, 1, j) \in Seq(Findings)
    BY <2>2, PrefixOfBatch, ConcatProperties
  <2>5. ui' \in BrowserTypes
    BY <1>3, <2>1, <2>3, <2>4 DEF BrowserTypes, StreamTypes
  <2>6. sv' \in StreamTypes
    BY <1>3, <1>8 DEF StreamBreaks, StreamTypes, StreamPlaces
  <2> QED BY <2>5, <2>6
<1> QED BY <1>4, <1>5, <1>6, <1>7, <1>8 DEF StreamStep

\* Types are preserved by get_scan and list_scans.
LEMMA TypesSnapshot == ASSUME Types, PoolInv, SnapshotStep PROVE Types'
<1>1. /\ UNCHANGED <<scanVars, sv, ui>>
      /\ got' = got \/ listed' = listed
  BY DEF SnapshotStep, GetCompletedAt, GetStatus, GetRows, GetReply, ListSizes, ListStatus, ListScanned
<1>2. SUFFICES got' \in GetTypes /\ listed' \in ListTypes /\ results_mu' \in {"free", "list"}
  BY <1>1 DEF Types, scanVars, poolVars, taskVars, rowVars, jobVars
<1>3. /\ got \in GetTypes /\ listed \in ListTypes /\ results_mu \in {"free", "list"}
      /\ status \in Queued..Error /\ completed_at \in 0..1
      /\ ports \in Seq(Ports) /\ findings \in Seq(Findings)
  BY DEF Types
<1>4. CASE GetCompletedAt \/ GetStatus \/ GetReply
  BY <1>3, <1>4 DEF GetCompletedAt, GetStatus, GetReply, GetTypes, GetPlaces
<1>5. CASE GetRows
  <2>1. ToSet(ports) \in SUBSET Ports /\ ToSet(findings) \in SUBSET Findings
    BY <1>3, Elements
  <2> QED BY <1>3, <1>5, <2>1 DEF GetRows, GetTypes, GetPlaces
<1>6. CASE ListSizes
  <2>1. Len(ports) \in Nat /\ Len(findings) \in Nat
    BY <1>3, LenProperties
  <2> QED BY <1>3, <1>6, <2>1 DEF ListSizes, ListTypes, ListPlaces
<1>7. CASE ListStatus
  BY <1>3, <1>7 DEF ListStatus, ListTypes, ListPlaces
<1>8. CASE ListScanned
  BY <1>3, <1>8, CountBound DEF ListScanned, ListTypes, ListPlaces
<1> QED BY <1>4, <1>5, <1>6, <1>7, <1>8 DEF SnapshotStep

\* Types are preserved by every step.
LEMMA TypesStep == IInv /\ [Next]_vars => Types'
<1> SUFFICES ASSUME IInv, [Next]_vars PROVE Types'
  OBVIOUS
<1>1. CASE UNCHANGED vars
  BY <1>1 DEF IInv, Types, vars, poolVars, taskVars, rowVars, jobVars, readVars
<1>2. CASE Quiet
  BY <1>1, <1>2 DEF Quiet
<1> QED BY <1>1, <1>2, TypesTask, TypesJob, TypesStream, TypesSnapshot DEF Next, IInv

-----------------------------------------------------------------------------
(* Who changes what. *)

HandlerStep == StreamOpen \/ StreamStep \/ StreamBreaks \/ SnapshotStep

\* A step is one of a handler, which leaves the scan alone, one of the job thread or
\* one of a task.
LEMMA WhoMoves ==
  ASSUME [Next]_vars
  PROVE  \/ HandlerStep /\ UNCHANGED scanVars
         \/ UNCHANGED vars
         \/ JobStep /\ UNCHANGED <<taskVars, rowVars, scanned, results_mu, readVars>>
         \/ \E p \in Ports : TaskStep(p) /\ UNCHANGED <<jobVars, results_mu, readVars>>
<1>1. CASE HandlerStep
  BY <1>1 DEF HandlerStep, StreamOpen, StreamStep, StreamBreaks, SnapshotStep, StreamStatus, StreamScanned,
     StreamRows, StreamPush, GetCompletedAt, GetStatus, GetRows, GetReply, ListSizes, ListStatus,
     ListScanned
<1>2. CASE JobStep
  BY <1>2 DEF JobStep, JobStart, JobEnqueue, JobClosePool, JobScanReturns, JobSetDone, JobStamp,
     JobSave, JobCatch, JobSetError
<1>3. ASSUME NEW p \in Ports, TaskStep(p)
      PROVE  UNCHANGED <<jobVars, results_mu, readVars>>
  BY <1>3 DEF TaskStep, Begin, Probe, Publish, Collect, Count
<1> QED BY <1>1, <1>2, <1>3 DEF Next, HandlerStep, Quiet

\* The pool's promises survive a task's step.
LEMMA PoolTask == ASSUME Types, PoolInv, NEW p \in Ports, TaskStep(p) PROVE PoolInv'
<1>1. UNCHANGED jobVars
  BY DEF TaskStep, Begin, Probe, Publish, Collect, Count
<1>2. /\ NumPorts \in Nat \ {0} /\ Ports = 1..NumPorts /\ p \in Nat
      /\ Len(started) \in Nat /\ submitted \in Nat /\ submitted <= NumPorts
  BY ScanJobSizes, LenProperties DEF Types, Ports
<1>3. CASE Begin(p)
  <2>1. /\ pool \in {"open", "closing"} /\ Len(started) < submitted /\ p = Len(started) + 1
        /\ started' = Append(started, Len(started) + 1) /\ tpc' = [tpc EXCEPT ![p] = "probe"]
        /\ UNCHANGED <<submitted, finished, pool, jpc, scanned>>
    BY <1>1, <1>3 DEF Begin, Pool!Start, jobVars
  <2>2. Len(started') = Len(started) + 1
    BY <1>2, <2>1, AppendProperties DEF Types
  <2>3. \A q \in Ports : tpc'[q] = "queued" <=> q > Len(started')
    <3>1. SUFFICES ASSUME NEW q \in Ports PROVE tpc'[q] = "queued" <=> q > Len(started')
      OBVIOUS
    <3>2. q \in Nat /\ (tpc[q] = "queued" <=> q > Len(started))
      BY <1>2 DEF PoolInv
    <3>3. tpc'[q] = IF q = p THEN "probe" ELSE tpc[q]
      BY <2>1 DEF Types
    <3> QED BY <1>2, <2>1, <2>2, <3>2, <3>3
  <2>4. p \notin finished
    BY <1>2, <2>1 DEF PoolInv
  <2>5. \A q \in Ports : tpc'[q] = "over" <=> q \in finished'
    BY <2>1, <2>4 DEF PoolInv, Types
  <2> QED BY <1>2, <2>1, <2>2, <2>3, <2>5 DEF PoolInv
<1>4. CASE Probe(p) \/ Publish(p) \/ Collect(p)
  <2>1. /\ UNCHANGED <<submitted, started, finished, pool, jpc, scanned>>
        /\ \A q \in Ports : q # p => tpc'[q] = tpc[q]
        /\ tpc[p] \notin {"queued", "over"} /\ tpc'[p] \notin {"queued", "over"}
    BY <1>1, <1>4 DEF Probe, Publish, Collect, poolVars, Types, jobVars
  <2> QED BY <2>1 DEF PoolInv
<1>5. CASE Count(p)
  <2>1. /\ tpc[p] = "count" /\ pool # "closed" /\ p \notin finished /\ finished' = finished \cup {p}
        /\ tpc' = [tpc EXCEPT ![p] = "over"] /\ scanned' = scanned + 1
        /\ UNCHANGED <<submitted, started, pool, jpc>>
    BY <1>1, <1>5 DEF Count, Pool!Finish, jobVars
  <2>2. IsFiniteSet(finished)
    <3>1. 1 \in Int /\ NumPorts \in Int /\ finished \in SUBSET (1..NumPorts)
      BY <1>2 DEF Types
    <3>2. IsFiniteSet(1..NumPorts)
      BY <3>1, FS_Interval
    <3> QED BY <3>1, <3>2, FS_Subset
  <2>3. scanned' = Cardinality(finished')
    BY <2>1, <2>2, FS_AddElement DEF PoolInv
  <2> QED BY <2>1, <2>3 DEF PoolInv, Types
<1> QED BY <1>3, <1>4, <1>5 DEF TaskStep

\* The pool's promises survive a step of the job thread.
LEMMA PoolJob ==
  ASSUME Types, PoolInv, JobStep, UNCHANGED <<taskVars, rowVars, scanned, results_mu, readVars>>
  PROVE  PoolInv'
<1>1. UNCHANGED <<tpc, scanned>>
  BY DEF taskVars
<1>2. CASE JobEnqueue
  BY <1>1, <1>2, LenProperties DEF JobEnqueue, Pool!Submit, jobVars, PoolInv, Types
<1>3. CASE JobClosePool
  BY <1>1, <1>3 DEF JobClosePool, Pool!Close, jobVars, PoolInv
<1>4. CASE JobScanReturns
  BY <1>1, <1>4 DEF JobScanReturns, Pool!Return, PoolInv, Ports
<1>5. CASE ~(JobEnqueue \/ JobClosePool \/ JobScanReturns)
  <2>1. UNCHANGED poolVars /\ (jpc' \in {"spawned", "scan"} <=> jpc \in {"spawned", "scan"})
        /\ jpc' # "spawned"
    BY <1>5 DEF JobStep, JobStart, JobSetDone, JobStamp, JobSave, JobCatch, JobSetError
  <2> QED BY <1>1, <2>1 DEF PoolInv, poolVars
<1> QED BY <1>2, <1>3, <1>4, <1>5

LEMMA PoolStep == IInv /\ [Next]_vars => PoolInv'
<1> SUFFICES ASSUME IInv, [Next]_vars PROVE PoolInv'
  OBVIOUS
<1>1. CASE UNCHANGED scanVars
  BY <1>1 DEF IInv, PoolInv, scanVars, poolVars, taskVars, jobVars
<1> QED BY <1>1, WhoMoves, PoolTask, PoolJob DEF IInv, vars, scanVars, readVars

\* The status follows the place of the job thread.
LEMMA StatusStep == IInv /\ [Next]_vars => StatusInv'
<1> SUFFICES ASSUME IInv, [Next]_vars PROVE StatusInv'
  OBVIOUS
<1>1. CASE UNCHANGED jobVars
  BY <1>1 DEF IInv, StatusInv, jobVars
<1>2. CASE JobStep
  BY <1>2 DEF IInv, StatusInv, JobStep, JobStart, JobEnqueue, JobClosePool, JobScanReturns, JobSetDone,
     JobStamp, JobSave, JobCatch, JobSetError, jobVars, Final, Queued, Running, Done, Error
<1> QED BY <1>1, <1>2, WhoMoves DEF vars, scanVars

\* Once the scan's status is final, its rows, its progress and its result stay as they are,
\* the progress is complete, and the status stays final.
LEMMA FinalIsFinal ==
  ASSUME IInv, [Next]_vars, status \in Final
  PROVE  /\ UNCHANGED <<ports, findings, scanned, result>>
         /\ status' \in Final /\ scanned = NumPorts /\ pool = "closed"
<1>1. pool = "closed" /\ jpc \notin {"spawned", "scan", "done"}
  BY DEF IInv, PoolInv, StatusInv, Final, Queued, Running, Done, Error
<1>2. scanned = NumPorts
  BY <1>1, CountBound DEF IInv
<1>3. \A p \in Ports : tpc[p] = "over"
  BY <1>1 DEF IInv, PoolInv
<1>4. \A p \in Ports : ~TaskStep(p)
  BY <1>1, <1>3 DEF TaskStep, Begin, Probe, Publish, Collect, Count, Pool!Start
<1>5. ASSUME JobStep PROVE result' = result /\ status' \in Final
  <2>1. CASE UNCHANGED jobVars
    BY <2>1 DEF jobVars
  <2>2. CASE JobSetDone \/ JobSetError \/ JobStamp \/ JobSave \/ JobCatch
    BY <2>2 DEF JobSetDone, JobSetError, JobStamp, JobSave, JobCatch, Final
  <2> QED BY <1>1, <1>5, <2>1, <2>2 DEF JobStep, JobStart, JobEnqueue, JobClosePool, JobScanReturns
<1> QED BY <1>1, <1>2, <1>4, <1>5, WhoMoves DEF vars, scanVars, rowVars, jobVars

\* Rows are only ever added at the end.
LEMMA RowsGrow ==
  ASSUME IInv, [Next]_vars
  PROVE  IsPrefix(ports, ports') /\ IsPrefix(findings, findings')
<1>1. ports \in Seq(Ports) /\ findings \in Seq(Findings) /\ local \in [Ports -> Seq(Findings)]
  BY DEF IInv, Types
<1>2. CASE UNCHANGED rowVars
  BY <1>1, <1>2, PrefixGrows DEF rowVars
<1>3. ASSUME NEW p \in Ports, TaskStep(p), ~UNCHANGED rowVars
      PROVE  IsPrefix(ports, ports') /\ IsPrefix(findings, findings')
  <2>1. ports' = Append(ports, p) /\ findings' = findings \o local[p]
    BY <1>3 DEF TaskStep, Begin, Probe, Publish, Collect, Count
  <2> QED BY <1>1, <2>1, PrefixGrows
<1> QED BY <1>2, <1>3, WhoMoves DEF vars, scanVars

-----------------------------------------------------------------------------
(* The rows: published, then collected, each once. *)

\* The port a worker takes is the first of the queued ones.
LEMMA BeginsQueued ==
  ASSUME Types, PoolInv, NEW p \in Ports, Begin(p)
  PROVE  tpc[p] = "queued"
BY LenProperties DEF Types, PoolInv, Begin

\* A port is published at its task's publish, collected at its collect.
LEMMA PortRowsTask ==
  ASSUME Types, PoolInv, PortRowsInv, NEW p \in Ports, TaskStep(p)
  PROVE  PortRowsInv'
<1>1. /\ ports \in Seq(Ports) /\ out_ports \in Seq(Ports) /\ tpc \in [Ports -> TaskPlaces]
      /\ ToSet(ports) \subseteq Ports /\ ToSet(out_ports) \subseteq Ports
  BY Elements DEF Types
<1>2. CASE Begin(p) \/ Probe(p) \/ Count(p)
  <2>1. /\ UNCHANGED <<ports, out_ports>> /\ \A q \in Ports : q # p => tpc'[q] = tpc[q]
        /\ tpc[p] # "collect" /\ tpc'[p] # "collect"
        /\ tpc[p] \in {"count", "over"} => tpc'[p] \in {"count", "over"}
    <3>1. CASE Begin(p)
      BY <1>1, <3>1, BeginsQueued DEF Begin, rowVars
    <3>2. CASE Probe(p)
      BY <1>1, <3>2 DEF Probe, rowVars
    <3>3. CASE Count(p)
      BY <1>1, <3>3 DEF Count, rowVars
    <3> QED BY <1>2, <3>1, <3>2, <3>3
  <2> QED BY <1>1, <2>1 DEF PortRowsInv
<1>3. CASE Publish(p)
  <2>1. /\ ports' = Append(ports, p) /\ out_ports' = out_ports
        /\ tpc[p] = "publish" /\ tpc' = [tpc EXCEPT ![p] = "collect"]
    BY <1>3 DEF Publish
  <2>2. p \notin ToSet(ports) /\ p \notin ToSet(out_ports)
    BY <2>1 DEF PortRowsInv
  <2>3. ToSet(ports') = ToSet(ports) \cup {p} /\ Distinct(ports')
    BY <1>1, <2>1, <2>2, AppendElements DEF PortRowsInv
  <2> QED BY <1>1, <2>1, <2>2, <2>3 DEF PortRowsInv
<1>4. CASE Collect(p)
  <2>1. /\ out_ports' = Append(out_ports, p) /\ ports' = ports
        /\ tpc[p] = "collect" /\ tpc' = [tpc EXCEPT ![p] = "count"]
    BY <1>4 DEF Collect, rowVars
  <2>2. p \notin ToSet(out_ports)
    BY <2>1 DEF PortRowsInv
  <2>3. ToSet(out_ports') = ToSet(out_ports) \cup {p} /\ Distinct(out_ports')
    BY <1>1, <2>1, <2>2, AppendElements DEF PortRowsInv
  <2> QED BY <1>1, <2>1, <2>2, <2>3 DEF PortRowsInv
<1> QED BY <1>2, <1>3, <1>4 DEF TaskStep

\* So are the findings of a port, with it.
LEMMA FindingRowsTask ==
  ASSUME Types, PoolInv, FindingRowsInv, NEW p \in Ports, TaskStep(p)
  PROVE  FindingRowsInv'
<1>1. /\ findings \in Seq(Findings) /\ out_findings \in Seq(Findings)
      /\ tpc \in [Ports -> TaskPlaces] /\ local \in [Ports -> Seq(Findings)]
      /\ local[p] \in Seq(Findings)
  BY DEF Types
<1>2. /\ ToSet(findings) \subseteq Findings /\ ToSet(out_findings) \subseteq Findings
      /\ \A q \in Ports : ToSet(local[q]) \subseteq Findings
      /\ \A f \in Findings : f[1] \in Ports
  BY <1>1, Elements DEF Findings
<1>3. CASE Begin(p) \/ Count(p)
  <2>1. /\ UNCHANGED <<findings, out_findings, local>> /\ \A q \in Ports : q # p => tpc'[q] = tpc[q]
        /\ tpc[p] # "collect" /\ tpc'[p] # "collect"
        /\ tpc[p] \in {"count", "over"} => tpc'[p] \in {"count", "over"}
    <3>1. CASE Begin(p)
      BY <1>1, <1>2, <3>1, BeginsQueued DEF Begin, rowVars
    <3>2. CASE Count(p)
      BY <1>1, <1>2, <3>2 DEF Count, rowVars
    <3> QED BY <1>3, <3>1, <3>2
  <2> QED BY <1>2, <2>1 DEF FindingRowsInv
<1>4. CASE Probe(p)
  <2>1. /\ UNCHANGED <<findings, out_findings>> /\ \A q \in Ports : q # p => tpc'[q] = tpc[q]
        /\ tpc[p] = "probe" /\ tpc'[p] \in {"publish", "count"}
        /\ \A q \in Ports : q # p => local'[q] = local[q]
    BY <1>1, <1>4 DEF Probe, rowVars
  <2>2. Distinct(local'[p]) /\ \A f \in ToSet(local'[p]) : f[1] = p
    <3>1. CASE UNCHANGED local
      BY <3>1 DEF FindingRowsInv
    <3>2. CASE \E n \in 0..MaxFindings : local' = [local EXCEPT ![p] = [k \in 1..n |-> <<p, k>>]]
      <4>1. PICK n \in 0..MaxFindings : local' = [local EXCEPT ![p] = [k \in 1..n |-> <<p, k>>]]
        BY <3>2
      <4>2. local'[p] = [k \in 1..n |-> <<p, k>>]
        BY <1>1, <4>1
      <4> QED BY <4>2, GatheredFindings
    <3> QED BY <1>4, <3>1, <3>2 DEF Probe
  <2> QED BY <1>2, <2>1, <2>2 DEF FindingRowsInv
<1>5. CASE Publish(p)
  <2>1. /\ findings' = findings \o local[p] /\ UNCHANGED <<out_findings, local>>
        /\ tpc[p] = "publish" /\ tpc' = [tpc EXCEPT ![p] = "collect"]
    BY <1>5 DEF Publish
  <2>2. /\ Distinct(findings) /\ Distinct(local[p]) /\ \A f \in ToSet(local[p]) : f[1] = p
        /\ ToSet(findings) \cap ToSet(local[p]) = {}
    BY <1>2, <2>1 DEF FindingRowsInv
  <2>3. ToSet(findings') = ToSet(findings) \cup ToSet(local[p]) /\ Distinct(findings')
    BY <1>1, <2>1, <2>2, ConcatElements
  <2>4. /\ tpc'[p] = "collect" /\ \A q \in Ports : q # p => tpc'[q] = tpc[q]
    BY <1>1, <2>1
  <2>5. \A f \in Findings :
           f \in ToSet(findings') <=> \/ f \in ToSet(out_findings)
                                      \/ tpc'[f[1]] = "collect" /\ f \in ToSet(local[f[1]])
    BY <1>2, <2>1, <2>2, <2>3, <2>4 DEF FindingRowsInv
  <2>6. \A f \in ToSet(out_findings) : tpc'[f[1]] \in {"count", "over"}
    BY <1>2, <2>1, <2>4 DEF FindingRowsInv
  <2> QED BY <2>1, <2>3, <2>5, <2>6 DEF FindingRowsInv
<1>6. CASE Collect(p)
  <2>1. /\ out_findings' = out_findings \o local[p] /\ findings' = findings
        /\ local' = [local EXCEPT ![p] = <<>>]
        /\ tpc[p] = "collect" /\ tpc' = [tpc EXCEPT ![p] = "count"]
    BY <1>6 DEF Collect, rowVars
  <2>2. /\ Distinct(out_findings) /\ Distinct(local[p]) /\ \A f \in ToSet(local[p]) : f[1] = p
        /\ ToSet(out_findings) \cap ToSet(local[p]) = {}
    BY <1>2, <2>1 DEF FindingRowsInv
  <2>3. ToSet(out_findings') = ToSet(out_findings) \cup ToSet(local[p]) /\ Distinct(out_findings')
    BY <1>1, <2>1, <2>2, ConcatElements
  <2>4. /\ tpc'[p] = "count" /\ \A q \in Ports : q # p => tpc'[q] = tpc[q]
        /\ local'[p] = <<>> /\ \A q \in Ports : q # p => local'[q] = local[q]
    BY <1>1, <2>1
  <2>5. \A f \in Findings :
           f \in ToSet(findings) <=> \/ f \in ToSet(out_findings')
                                     \/ tpc'[f[1]] = "collect" /\ f \in ToSet(local'[f[1]])
    BY <1>2, <2>1, <2>2, <2>3, <2>4 DEF FindingRowsInv
  <2>6. \A f \in ToSet(out_findings') : tpc'[f[1]] \in {"count", "over"}
    BY <1>2, <2>2, <2>3, <2>4 DEF FindingRowsInv
  <2>7. \A q \in Ports : Distinct(local'[q]) /\ \A f \in ToSet(local'[q]) : f[1] = q
    BY <2>4, EmptyElements DEF FindingRowsInv
  <2>8. Distinct(findings')
    BY <2>1 DEF FindingRowsInv
  <2> QED BY <2>1, <2>3, <2>5, <2>6, <2>7, <2>8 DEF FindingRowsInv
<1> QED BY <1>3, <1>4, <1>5, <1>6 DEF TaskStep

LEMMA RowsStep == IInv /\ [Next]_vars => PortRowsInv' /\ FindingRowsInv'
<1> SUFFICES ASSUME IInv, [Next]_vars PROVE PortRowsInv' /\ FindingRowsInv'
  OBVIOUS
<1>1. CASE UNCHANGED <<taskVars, rowVars>>
  BY <1>1 DEF IInv, PortRowsInv, FindingRowsInv, taskVars, rowVars
<1> QED BY <1>1, WhoMoves, PortRowsTask, FindingRowsTask DEF IInv, vars, scanVars

\* When the pool is gone nothing is collected any more.
LEMMA ResultStep == IInv /\ [Next]_vars => ResultInv'
<1> SUFFICES ASSUME IInv, [Next]_vars PROVE ResultInv'
  OBVIOUS
<1>1. CASE UNCHANGED <<pool, result, out_ports, out_findings>>
  BY <1>1 DEF IInv, ResultInv
<1>2. CASE JobStep /\ UNCHANGED <<taskVars, rowVars, scanned, results_mu, readVars>>
  <2>1. CASE JobScanReturns
    BY <1>2, <2>1, ResultFacts DEF IInv, ResultInv, taskVars
  <2>2. CASE ~JobScanReturns
    <3>1. pool' = "closed" => pool = "closed"
      BY <1>2, <2>2 DEF JobStep, JobStart, JobEnqueue, JobClosePool, JobSetDone, JobStamp, JobSave,
         JobCatch, JobSetError, Pool!Submit, Pool!Close, poolVars
    <3>2. result' = result
      BY <1>2, <2>2 DEF JobStep, JobStart, JobEnqueue, JobClosePool, JobSetDone, JobStamp, JobSave,
         JobCatch, JobSetError, jobVars
    <3> QED BY <1>2, <3>1, <3>2 DEF IInv, ResultInv, taskVars
  <2> QED BY <2>1, <2>2
<1>3. ASSUME NEW p \in Ports, TaskStep(p), UNCHANGED <<jobVars, results_mu, readVars>> PROVE ResultInv'
  <2>1. pool' = pool
    BY <1>3 DEF TaskStep, Begin, Probe, Publish, Collect, Count, Pool!Start, Pool!Finish, poolVars
  <2>2. pool # "closed"
    BY <1>3 DEF IInv, PoolInv, TaskStep, Begin, Probe, Publish, Collect, Count, Pool!Start
  <2> QED BY <2>1, <2>2 DEF ResultInv
<1> QED BY <1>1, <1>2, <1>3, WhoMoves DEF vars, scanVars, poolVars, taskVars, jobVars

-----------------------------------------------------------------------------
(* The handlers. *)

\* The cursors and what the browser has move together, however the rows grow.
LEMMA CursorStep == IInv /\ [Next]_vars => CursorInv'
<1> SUFFICES ASSUME IInv, [Next]_vars PROVE CursorInv'
  OBVIOUS
<1>1. /\ ports \in Seq(Ports) /\ ports' \in Seq(Ports)
      /\ findings \in Seq(Findings) /\ findings' \in Seq(Findings)
      /\ ui.ports \in Seq(Ports) /\ ui.findings \in Seq(Findings)
      /\ sv.new_ports \in Seq(Ports) /\ sv.new_findings \in Seq(Findings)
      /\ sv \in StreamTypes /\ ui \in BrowserTypes
      /\ <<>> \in Seq(Ports) /\ <<>> \in Seq(Findings)
  BY TypesStep, EmptySeq DEF IInv, Types, StreamTypes, BrowserTypes
<1>2. ui.ports \o sv.new_ports \in Seq(Ports) /\ ui.findings \o sv.new_findings \in Seq(Findings)
  BY <1>1, ConcatProperties
<1>3. CursorInv
  BY DEF IInv
<1>4. CASE UNCHANGED <<sv, ui>>
  <2>1. IsPrefix(ui.ports \o sv.new_ports, ports') /\ IsPrefix(ui.findings \o sv.new_findings, findings')
    BY <1>1, <1>2, <1>3, RowsGrow, PrefixTransitive DEF CursorInv
  <2> QED BY <1>3, <1>4, <2>1 DEF CursorInv
<1>5. CASE (StreamOpen \/ StreamStep \/ StreamBreaks) /\ UNCHANGED scanVars
  <2>1. ports' = ports /\ findings' = findings
    BY <1>5 DEF scanVars, rowVars
  <2>2. CASE StreamOpen \/ StreamStatus \/ StreamScanned
    <3>1. /\ sv'.new_ports = sv.new_ports /\ sv'.new_findings = sv.new_findings
          /\ sv'.sent_ports = sv.sent_ports /\ sv'.sent_findings = sv.sent_findings
          /\ sv.pc \notin {"push", "broken"} /\ sv'.pc \notin {"push", "broken"} /\ ui' = ui
      BY <1>1, <2>2 DEF StreamOpen, StreamStatus, StreamScanned, StreamTypes
    <3> QED BY <1>3, <2>1, <3>1 DEF CursorInv
  <2>3. CASE StreamRows
    <3>1. /\ sv.new_ports = <<>> /\ sv.new_findings = <<>>
          /\ ui.ports \o sv.new_ports = ui.ports /\ ui.findings \o sv.new_findings = ui.findings
          /\ sv.sent_ports = Len(ui.ports) /\ sv.sent_findings = Len(ui.findings)
          /\ IsPrefix(ui.ports, ports) /\ IsPrefix(ui.findings, findings)
      BY <1>1, <1>3, <2>3, ConcatEmptySeq DEF StreamRows, CursorInv
    <3>2. /\ ui' = ui /\ sv'.pc = "push"
          /\ sv'.new_ports = SubSeq(ports, Len(ui.ports) + 1, Len(ports))
          /\ sv'.new_findings = SubSeq(findings, Len(ui.findings) + 1, Len(findings))
          /\ sv'.sent_ports = Len(ports) /\ sv'.sent_findings = Len(findings)
      BY <1>1, <2>3, <3>1 DEF StreamRows, StreamTypes
    <3>3. ui.ports \o sv'.new_ports = ports /\ ui.findings \o sv'.new_findings = findings
      <4>1. ui.ports \o SubSeq(ports, Len(ui.ports) + 1, Len(ports)) = ports
        <5>1. ui.ports \in Seq(Ports) /\ ports \in Seq(Ports) /\ IsPrefix(ui.ports, ports)
          BY <1>1, <3>1
        <5> QED BY <5>1, PrefixCompleted
      <4>2. ui.findings \o SubSeq(findings, Len(ui.findings) + 1, Len(findings)) = findings
        <5>1. /\ ui.findings \in Seq(Findings) /\ findings \in Seq(Findings)
              /\ IsPrefix(ui.findings, findings)
          BY <1>1, <3>1
        <5> QED BY <5>1, PrefixCompleted
      <4> QED BY <3>2, <4>1, <4>2
    <3>4. IsPrefix(ports, ports) /\ IsPrefix(findings, findings)
      BY <1>1, PrefixGrows
    <3> QED BY <2>1, <3>2, <3>3, <3>4 DEF CursorInv
  <2>4. CASE StreamPush
    <3>1. /\ ui'.ports = ui.ports \o sv.new_ports /\ ui'.findings = ui.findings \o sv.new_findings
          /\ sv'.new_ports = <<>> /\ sv'.new_findings = <<>> /\ sv'.pc \in {"ended", "status"}
          /\ sv'.sent_ports = sv.sent_ports /\ sv'.sent_findings = sv.sent_findings
          /\ sv.pc = "push"
      BY <1>1, <2>4 DEF StreamPush, Delivered, StreamTypes
    <3>2. /\ ui'.ports \o sv'.new_ports = ui.ports \o sv.new_ports
          /\ ui'.findings \o sv'.new_findings = ui.findings \o sv.new_findings
      BY <1>2, <3>1, ConcatEmptySeq
    <3> QED BY <1>3, <2>1, <3>1, <3>2 DEF CursorInv
  <2>5. CASE StreamBreaks
    <3>1. PICK i \in 0..Len(sv.new_ports), j \in 0..Len(sv.new_findings) :
             ui' = [ui EXCEPT !.scanned = sv.scanned,
                              !.ports = @ \o SubSeq(sv.new_ports, 1, i),
                              !.findings = @ \o SubSeq(sv.new_findings, 1, j)]
      BY <2>5 DEF StreamBreaks
    <3>2. /\ ui'.ports = ui.ports \o SubSeq(sv.new_ports, 1, i)
          /\ ui'.findings = ui.findings \o SubSeq(sv.new_findings, 1, j)
      BY <1>1, <3>1 DEF BrowserTypes
    <3>3. sv'.pc = "broken" /\ sv'.new_ports = <<>> /\ sv'.new_findings = <<>>
      BY <1>1, <2>5 DEF StreamBreaks, StreamTypes
    <3>4. ui'.ports \in Seq(Ports) /\ ui'.findings \in Seq(Findings)
      BY <1>1, <3>2, PrefixOfBatch, ConcatProperties
    <3>5. ui'.ports \o sv'.new_ports = ui'.ports /\ ui'.findings \o sv'.new_findings = ui'.findings
      BY <3>3, <3>4, ConcatEmptySeq
    <3>6. IsPrefix(ui'.ports, ui.ports \o sv.new_ports)
      BY <1>1, <3>2, PrefixOfBatch
    <3>7. IsPrefix(ui'.findings, ui.findings \o sv.new_findings)
      BY <1>1, <3>2, PrefixOfBatch
    <3>8. IsPrefix(ui'.ports, ports) /\ IsPrefix(ui'.findings, findings)
      <4>1. /\ IsPrefix(ui.ports \o sv.new_ports, ports)
            /\ IsPrefix(ui.findings \o sv.new_findings, findings)
        BY <1>3 DEF CursorInv
      <4>2. IsPrefix(ui'.ports, ports)
        BY <1>1, <1>2, <3>4, <3>6, <4>1, PrefixTransitive
      <4>3. IsPrefix(ui'.findings, findings)
        BY <1>1, <1>2, <3>4, <3>7, <4>1, PrefixTransitive
      <4> QED BY <4>2, <4>3
    <3> QED BY <2>1, <3>3, <3>5, <3>8 DEF CursorInv
  <2> QED BY <1>5, <2>2, <2>3, <2>4, <2>5 DEF StreamStep
<1>6. CASE SnapshotStep
  BY <1>4, <1>6 DEF SnapshotStep, GetCompletedAt, GetStatus, GetRows, GetReply, ListSizes, ListStatus,
     ListScanned
<1> QED BY <1>4, <1>5, <1>6, WhoMoves DEF vars, readVars, HandlerStep

\* What the stream loads after a final status is final.
LEMMA StreamInvStep == IInv /\ [Next]_vars => StreamInv'
<1> SUFFICES ASSUME IInv, [Next]_vars PROVE StreamInv'
  OBVIOUS
<1>1. /\ sv \in StreamTypes /\ ui \in BrowserTypes /\ StreamInv /\ CursorInv
      /\ ports \in Seq(Ports) /\ findings \in Seq(Findings)
      /\ ui.ports \in Seq(Ports) /\ ui.findings \in Seq(Findings)
  BY DEF IInv, Types, BrowserTypes
<1>2. status \in Final =>
         ports' = ports /\ findings' = findings /\ status' \in Final /\ scanned = NumPorts
  BY FinalIsFinal
<1>3. CASE UNCHANGED <<sv, ui>>
  BY <1>1, <1>2, <1>3 DEF StreamInv
<1>4. CASE (StreamOpen \/ StreamStep \/ StreamBreaks) /\ UNCHANGED scanVars
  <2>1. ports' = ports /\ findings' = findings /\ status' = status /\ scanned' = scanned
    BY <1>4 DEF scanVars, rowVars, jobVars
  <2>2. CASE StreamOpen \/ StreamStatus \/ StreamScanned
    <3>1. ui' = ui /\ (ui.ended => sv.pc = "ended")
      BY <1>1, <2>2 DEF StreamOpen, StreamStatus, StreamScanned, StreamInv
    <3>2. CASE StreamOpen
      BY <1>1, <3>1, <3>2 DEF StreamOpen, StreamTypes, StreamInv
    <3>3. CASE StreamStatus
      BY <1>1, <2>1, <3>1, <3>3 DEF StreamStatus, StreamTypes, StreamInv
    <3>4. CASE StreamScanned
      BY <1>1, <1>2, <2>1, <3>1, <3>4 DEF StreamScanned, StreamTypes, StreamInv
    <3> QED BY <2>2, <3>2, <3>3, <3>4
  <2>3. CASE StreamRows
    <3>1. /\ ui' = ui /\ sv.pc = "rows" /\ sv'.pc = "push" /\ sv'.status = sv.status
          /\ sv'.scanned = sv.scanned
          /\ sv'.sent_ports = Len(ports) /\ sv'.sent_findings = Len(findings)
      BY <1>1, <2>3 DEF StreamRows, StreamTypes
    <3> QED BY <1>1, <2>1, <3>1 DEF StreamInv
  <2>4. CASE StreamPush
    <3>1. /\ sv.pc = "push" /\ sv'.pc = IF sv.status \in Final THEN "ended" ELSE "status"
          /\ ui'.ended = (sv.status \in Final) /\ ui'.scanned = sv.scanned
          /\ ui'.ports = ui.ports \o sv.new_ports /\ ui'.findings = ui.findings \o sv.new_findings
      BY <1>1, <2>4 DEF StreamPush, Delivered, StreamTypes, Final
    <3> QED BY <1>1, <2>1, <3>1 DEF StreamInv, CursorInv
  <2>5. CASE StreamBreaks
    <3>1. sv.pc = "push" /\ sv'.pc = "broken" /\ ui'.ended = ui.ended
      BY <1>1, <2>5 DEF StreamBreaks, StreamTypes, BrowserTypes
    <3> QED BY <1>1, <3>1 DEF StreamInv
  <2> QED BY <1>4, <2>2, <2>3, <2>4, <2>5 DEF StreamStep
<1>5. CASE SnapshotStep
  BY <1>3, <1>5 DEF SnapshotStep, GetCompletedAt, GetStatus, GetRows, GetReply, ListSizes, ListStatus,
     ListScanned
<1> QED BY <1>3, <1>4, <1>5, WhoMoves DEF vars, readVars, HandlerStep

\* The rows of an answer of get_scan that says done are copied after the status.
LEMMA GetStep == IInv /\ [Next]_vars => GetInv'
<1> SUFFICES ASSUME IInv, [Next]_vars PROVE GetInv'
  OBVIOUS
<1>1. got \in GetTypes /\ GetInv
  BY DEF IInv, Types
<1>2. status \in Final => ports' = ports /\ findings' = findings /\ status' \in Final
  BY FinalIsFinal
<1>3. CASE UNCHANGED got
  BY <1>1, <1>2, <1>3 DEF GetInv
<1>4. CASE SnapshotStep /\ UNCHANGED scanVars
  <2>1. ports' = ports /\ findings' = findings /\ status' = status
    BY <1>4 DEF scanVars, rowVars, jobVars
  <2>2. CASE GetCompletedAt
    BY <1>1, <2>2 DEF GetCompletedAt, GetTypes, GetInv
  <2>3. CASE GetStatus
    BY <1>1, <2>1, <2>3 DEF GetStatus, GetTypes, GetInv
  <2>4. CASE GetRows
    BY <1>1, <2>1, <2>4 DEF GetRows, GetTypes, GetInv
  <2>5. CASE GetReply
    BY <1>1, <2>1, <2>5 DEF GetReply, GetTypes, GetInv
  <2>6. CASE ListSizes \/ ListStatus \/ ListScanned
    BY <1>3, <2>6 DEF ListSizes, ListStatus, ListScanned
  <2> QED BY <1>4, <2>2, <2>3, <2>4, <2>5, <2>6 DEF SnapshotStep
<1>5. CASE StreamOpen \/ StreamStep \/ StreamBreaks
  BY <1>3, <1>5 DEF StreamOpen, StreamStep, StreamBreaks, StreamStatus, StreamScanned, StreamRows,
     StreamPush
<1> QED BY <1>3, <1>4, <1>5, WhoMoves DEF vars, readVars, HandlerStep

\* list_scans holds results_mu from the sizes to the progress, and nothing is published
\* meanwhile.
LEMMA ListStep == IInv /\ [Next]_vars => ListInv'
<1> SUFFICES ASSUME IInv, [Next]_vars PROVE ListInv'
  OBVIOUS
<1>1. listed \in ListTypes /\ ListInv
  BY DEF IInv, Types
<1>2. status \in Final =>
         ports' = ports /\ findings' = findings /\ status' \in Final /\ scanned = NumPorts
  BY FinalIsFinal
<1>3. results_mu = "list" => ports' = ports /\ findings' = findings
  <2>1. ASSUME results_mu = "list", NEW p \in Ports, TaskStep(p) PROVE UNCHANGED rowVars
    BY <2>1 DEF TaskStep, Begin, Probe, Publish, Collect, Count
  <2> QED BY <2>1, WhoMoves DEF rowVars, vars, scanVars
<1>4. CASE UNCHANGED <<listed, results_mu>>
  BY <1>1, <1>2, <1>3, <1>4 DEF ListInv
<1>5. CASE SnapshotStep /\ UNCHANGED scanVars
  <2>1. /\ ports' = ports /\ findings' = findings /\ status' = status /\ scanned' = scanned
    BY <1>5 DEF scanVars, rowVars, jobVars
  <2>2. CASE ListSizes
    BY <1>1, <2>1, <2>2 DEF ListSizes, ListTypes, ListInv
  <2>3. CASE ListStatus
    BY <1>1, <2>1, <2>3 DEF ListStatus, ListTypes, ListInv
  <2>4. CASE ListScanned
    BY <1>1, <1>2, <2>1, <2>4 DEF ListScanned, ListTypes, ListInv
  <2>5. CASE GetCompletedAt \/ GetStatus \/ GetRows \/ GetReply
    BY <1>4, <2>5 DEF GetCompletedAt, GetStatus, GetRows, GetReply
  <2> QED BY <1>5, <2>2, <2>3, <2>4, <2>5 DEF SnapshotStep
<1>6. CASE StreamOpen \/ StreamStep \/ StreamBreaks
  BY <1>4, <1>6 DEF StreamOpen, StreamStep, StreamBreaks, StreamStatus, StreamScanned, StreamRows,
     StreamPush
<1> QED BY <1>4, <1>5, <1>6, WhoMoves DEF vars, readVars, HandlerStep

-----------------------------------------------------------------------------
(* The theorems. *)

\* The invariant holds in every state of every scan.
THEOREM Invariant == Spec => []IInv
<1>1. Init => IInv
  BY InitIInv
<1>2. IInv /\ [Next]_vars => IInv'
  BY TypesStep, PoolStep, StatusStep, RowsStep, ResultStep, CursorStep, StreamInvStep, GetStep, ListStep
     DEF IInv
<1> QED BY <1>1, <1>2, PTL DEF Spec

\* In a state of the invariant the rows shown live are the rows that were returned.
LEMMA RowsAgree == IInv => LiveRowsAreResultRows
<1> SUFFICES ASSUME IInv, jpc \notin {"spawned", "scan"}
             PROVE  /\ ToSet(ports) = ToSet(result.ports) /\ Len(ports) = Len(result.ports)
                    /\ ToSet(findings) = ToSet(result.findings)
                    /\ Len(findings) = Len(result.findings)
  BY DEF LiveRowsAreResultRows
<1>1. /\ ports \in Seq(Ports) /\ findings \in Seq(Findings)
      /\ result.ports \in Seq(Ports) /\ result.findings \in Seq(Findings)
      /\ ToSet(ports) \subseteq Ports /\ ToSet(out_ports) \subseteq Ports
      /\ ToSet(findings) \subseteq Findings /\ ToSet(out_findings) \subseteq Findings
      /\ \A f \in Findings : f[1] \in Ports
  BY Elements DEF IInv, Types, Rows, Findings
<1>2. pool = "closed" /\ \A p \in Ports : tpc[p] = "over"
  BY DEF IInv, PoolInv
<1>3. ToSet(ports) = ToSet(out_ports)
  BY <1>1, <1>2 DEF IInv, PortRowsInv
<1>4. ToSet(findings) = ToSet(out_findings)
  BY <1>1, <1>2 DEF IInv, FindingRowsInv
<1>5. /\ Distinct(ports) /\ Distinct(result.ports) /\ ToSet(result.ports) = ToSet(out_ports)
      /\ Distinct(findings) /\ Distinct(result.findings) /\ ToSet(result.findings) = ToSet(out_findings)
  BY <1>2 DEF IInv, PortRowsInv, FindingRowsInv, ResultInv
<1> QED BY <1>1, <1>3, <1>4, <1>5, SameLength

\* on_port_open and tcp_range_scan's own vectors (webui.cpp:640-645, tcp_range.cpp:122-128):
\* once the scan has returned, the rows that were pushed live are the rows it returned.
THEOREM LiveRows == Spec => []LiveRowsAreResultRows
<1>1. IInv => LiveRowsAreResultRows
  BY RowsAgree
<1> QED BY <1>1, Invariant, PTL

\* In a state of the invariant the browser has a faithful copy.
LEMMA Faithful == IInv => StreamIsFaithful
<1> SUFFICES ASSUME IInv PROVE StreamIsFaithful
  OBVIOUS
<1>1. /\ ports \in Seq(Ports) /\ findings \in Seq(Findings)
      /\ ui.ports \in Seq(Ports) /\ ui.findings \in Seq(Findings)
      /\ sv.new_ports \in Seq(Ports) /\ sv.new_findings \in Seq(Findings)
      /\ ui.ports \o sv.new_ports \in Seq(Ports) /\ ui.findings \o sv.new_findings \in Seq(Findings)
  BY ConcatProperties DEF IInv, Types, BrowserTypes, StreamTypes
<1>2. TypeOK
  BY CountBound DEF IInv, Types, TypeOK, ListInv, TaskPlaces
<1>3. StreamDeliversPrefix
  <2>1. /\ IsPrefix(ui.ports, ui.ports \o sv.new_ports)
        /\ IsPrefix(ui.findings, ui.findings \o sv.new_findings)
    BY <1>1, PrefixGrows
  <2>2. IsPrefix(ui.ports \o sv.new_ports, ports) /\ IsPrefix(ui.findings \o sv.new_findings, findings)
    BY DEF IInv, CursorInv
  <2> QED BY <1>1, <2>1, <2>2, PrefixTransitive DEF StreamDeliversPrefix
<1>4. StreamEndIsComplete
  <2> SUFFICES ASSUME ui.ended PROVE /\ ToSet(ui.ports) = OpenPorts
                                     /\ ToSet(ui.findings) = AllFindings
                                     /\ ui.scanned = NumPorts
    BY DEF StreamEndIsComplete
  <2>1. /\ ui.scanned = NumPorts /\ status \in Final
        /\ Len(ui.ports) = Len(ports) /\ Len(ui.findings) = Len(findings)
    BY DEF IInv, StreamInv
  <2>2. ui.ports = ports /\ ui.findings = findings
    BY <1>1, <1>3, <2>1, WholePrefix DEF StreamDeliversPrefix
  <2>3. jpc \notin {"spawned", "scan"}
    BY <2>1 DEF IInv, StatusInv, Final, Queued, Running, Done, Error
  <2> QED BY <2>1, <2>2, <2>3, RowsAgree DEF LiveRowsAreResultRows, OpenPorts, AllFindings
<1> QED BY <1>2, <1>3, <1>4 DEF StreamIsFaithful

\* stream_scan: the browser has a prefix of the job's rows at every moment, and all of
\* them, with the full progress, when the stream ends.
THEOREM Stream == Spec => []StreamIsFaithful
<1>1. IInv => StreamIsFaithful
  BY Faithful
<1> QED BY <1>1, Invariant, PTL

\* get_scan and list_scans: an answer that says done or error leaves out no row and no
\* probed port.
THEOREM Answers == Spec => []DoneAnswersAreComplete
<1>1. IInv => DoneAnswersAreComplete
  <2> SUFFICES ASSUME IInv PROVE DoneAnswersAreComplete
    OBVIOUS
  <2>1. status \in Final => /\ ToSet(ports) = OpenPorts /\ ToSet(findings) = AllFindings
                            /\ Len(ports) = Cardinality(OpenPorts)
                            /\ Len(findings) = Cardinality(AllFindings)
    <3> SUFFICES ASSUME status \in Final
                 PROVE  /\ ToSet(ports) = OpenPorts /\ ToSet(findings) = AllFindings
                        /\ Len(ports) = Cardinality(OpenPorts)
                        /\ Len(findings) = Cardinality(AllFindings)
      OBVIOUS
    <3>1. jpc \notin {"spawned", "scan"}
      BY DEF IInv, StatusInv, Final, Queued, Running, Done, Error
    <3>2. ToSet(ports) = OpenPorts /\ ToSet(findings) = AllFindings
      BY <3>1, RowsAgree DEF LiveRowsAreResultRows, OpenPorts, AllFindings
    <3>3. /\ ports \in Seq(Ports) /\ findings \in Seq(Findings)
          /\ Distinct(ports) /\ Distinct(findings)
      BY DEF IInv, Types, PortRowsInv, FindingRowsInv
    <3> QED BY <3>2, <3>3, CountElements
  <2>2. GetScanDoneIsComplete
    BY <2>1 DEF IInv, GetInv, GetScanDoneIsComplete, Final
  <2>3. ListScanDoneIsComplete
    BY <2>1 DEF IInv, ListInv, ListScanDoneIsComplete, Final
  <2> QED BY <2>2, <2>3 DEF DoneAnswersAreComplete
<1> QED BY <1>1, Invariant, PTL
-----------------------------------------------------------------------------
(* The scan as the pages see it. *)

\* A task's findings are those of its own port, numbered from 1.
GatheredInv == \A p \in Ports : \E n \in 0..MaxFindings : local[p] = [k \in 1..n |-> <<p, k>>]

LEMMA GatheredStep == Types /\ GatheredInv /\ [Next]_vars => GatheredInv'
<1> SUFFICES ASSUME Types, GatheredInv, [Next]_vars, NEW q \in Ports
             PROVE  \E n \in 0..MaxFindings : local'[q] = [k \in 1..n |-> <<q, k>>]
  BY DEF GatheredInv
<1>1. local \in [Ports -> Seq(Findings)]
  BY DEF Types
<1>2. CASE local'[q] = local[q]
  BY <1>2 DEF GatheredInv
<1>3. ASSUME NEW p \in Ports, TaskStep(p), local'[q] # local[q]
      PROVE  \E n \in 0..MaxFindings : local'[q] = [k \in 1..n |-> <<q, k>>]
  <2>1. CASE Probe(p)
    <3>1. PICK n \in 0..MaxFindings : local' = [local EXCEPT ![p] = [k \in 1..n |-> <<p, k>>]]
      BY <1>3, <2>1 DEF Probe
    <3> QED BY <1>1, <1>3, <3>1
  <2>2. CASE Collect(p)
    <3>1. local' = [local EXCEPT ![p] = <<>>]
      BY <2>2 DEF Collect
    <3>2. <<>> = [k \in 1..0 |-> <<p, k>>] /\ 0 \in 0..MaxFindings
      BY ScanJobSizes
    <3> QED BY <1>1, <1>3, <3>1, <3>2
  <2> QED BY <1>3, <2>1, <2>2 DEF TaskStep, Begin, Publish, Count
<1> QED BY <1>2, <1>3, WhoMoves DEF vars, scanVars, taskVars

LEMMA Gathered == Spec => []GatheredInv
<1>1. Init => GatheredInv
  <2> SUFFICES ASSUME Init, NEW p \in Ports
               PROVE  \E n \in 0..MaxFindings : local[p] = [k \in 1..n |-> <<p, k>>]
    BY DEF GatheredInv
  <2>1. local[p] = <<>> /\ 0 \in 0..MaxFindings
    BY ScanJobSizes DEF Init
  <2> QED BY <2>1
<1>2. IInv => Types
  BY DEF IInv
<1> QED BY <1>1, <1>2, GatheredStep, Invariant, PTL DEF Spec

\* ScanFeed takes the elements of a sequence as ScanJob does.
LEMMA SameElements == \A s : Feed!ToSet(s) = ToSet(s)
BY DEF Feed!ToSet, ToSet

\* What the pages see stays as it is when what it is made of does.
LEMMA FeedStutters ==
  ASSUME UNCHANGED <<rowVars, Over, ui, Answered, Listed>>
  PROVE  UNCHANGED Feed!feedVars
BY DEF Feed!feedVars, rowVars

\* on_port_open is the appearance of the rows of one port.
LEMMA PublishAppears ==
  ASSUME IInv, GatheredInv, NEW p \in Ports, Publish(p)
  PROVE  Feed!Publish(p)
<1>1. /\ tpc[p] = "publish" /\ ports' = Append(ports, p) /\ findings' = findings \o local[p]
      /\ UNCHANGED <<status, ui, got, listed>>
  BY DEF Publish, jobVars, readVars
<1>2. ~Over
  <2>1. pool # "closed"
    BY <1>1 DEF IInv, PoolInv
  <2> QED BY <2>1 DEF IInv, PoolInv, StatusInv, Over, Queued, Running, Done, Error
<1>3. p \notin ToSet(ports)
  BY <1>1 DEF IInv, PortRowsInv
<1>4. PICK n \in 0..MaxFindings : local[p] = [k \in 1..n |-> <<p, k>>]
  BY DEF GatheredInv
<1>5. UNCHANGED <<Over, Answered, Listed>>
  BY <1>1, <1>2 DEF Over, Answered, AnswerIsSettled, Listed
<1> DEFINE rows == [ports |-> ports, findings |-> findings]
<1>6. rows.ports = ports /\ rows.findings = findings
  OBVIOUS
<1>7. rows' = [ports |-> Append(ports, p), findings |-> findings \o [k \in 1..n |-> <<p, k>>]]
  BY <1>1, <1>4
<1>8. p \notin Feed!ToSet(rows.ports)
  BY <1>3, <1>6, SameElements
<1>9. UNCHANGED <<Over, [ports |-> ui.ports, findings |-> ui.findings], ui.ended, Answered, Listed>>
  BY <1>1, <1>5
<1> QED BY <1>2, <1>6, <1>7, <1>8, <1>9 DEF Feed!Publish

\* The job thread: only the step that makes the status final is seen, and a get_scan that
\* loaded the status before it shows the scan as it was then.
LEMMA JobFinishes ==
  ASSUME IInv, JobStep, UNCHANGED <<rowVars, readVars>>
  PROVE  Feed!Finish \/ UNCHANGED Feed!feedVars
<1>1. UNCHANGED <<ports, findings, ui, got, listed>> /\ UNCHANGED Listed
  BY DEF rowVars, readVars, Listed
<1>2. CASE Over' = Over
  BY <1>1, <1>2, FeedStutters DEF Answered, AnswerIsSettled, rowVars
<1>3. CASE Over' # Over
  <2>1. ~Over /\ Over'
    <3>1. JobStart \/ JobSetDone \/ JobSetError
      BY <1>3 DEF JobStep, JobEnqueue, JobClosePool, JobScanReturns, JobStamp, JobSave, JobCatch,
         jobVars, Over
    <3>2. CASE JobStart
      BY <1>3, <3>2 DEF JobStart, IInv, StatusInv, Over, Queued, Running, Done, Error
    <3>3. CASE JobSetDone \/ JobSetError
      BY <1>3, <3>3 DEF JobSetDone, JobSetError, Over
    <3> QED BY <3>1, <3>2, <3>3
  <2>2. CASE got.pc = "rows" /\ got.status \notin {Done, Error}
    <3>1. Answered = {}
      BY <2>1, <2>2 DEF Answered, AnswerIsSettled
    <3>2. Answered' = {[over |-> FALSE, ports |-> ToSet(ports), findings |-> ToSet(findings)]}
      <4>1. AnswerIsSettled' /\ got' = got /\ got.pc = "rows"
        BY <1>1, <2>1, <2>2 DEF AnswerIsSettled
      <4>2. Answered' = {[over |-> got.status \in {Done, Error}, ports |-> ToSet(ports),
                          findings |-> ToSet(findings)]}
        BY <1>1, <4>1 DEF Answered
      <4>3. (got.status \in {Done, Error}) = FALSE
        BY <2>2
      <4> QED BY <4>2, <4>3
    <3>3. Answered' = {Feed!Snapshot}
      <4>1. Over = FALSE
        BY <2>1 DEF Over
      <4> QED BY <3>2, <4>1, SameElements DEF Feed!Snapshot
    <3> QED BY <1>1, <2>1, <3>1, <3>3 DEF Feed!Finish
  <2>3. CASE ~(got.pc = "rows" /\ got.status \notin {Done, Error})
    <3>1. UNCHANGED Answered
      <4>1. CASE got.pc = "rows"
        BY <1>1, <2>3, <4>1 DEF Answered, AnswerIsSettled
      <4>2. CASE got.pc # "rows"
        BY <1>1, <4>2 DEF Answered, AnswerIsSettled
      <4> QED BY <4>1, <4>2
    <3> QED BY <1>1, <2>1, <3>1 DEF Feed!Finish
  <2> QED BY <2>2, <2>3
<1> QED BY <1>2, <1>3

\* The same in the next state.
LEMMA FaithfulNext == IInv' => StreamIsFaithful'
BY Faithful, PTL

\* Adding rows makes a sequence no shorter.
LEMMA ConcatLonger ==
  ASSUME NEW S, NEW s \in Seq(S), NEW u \in Seq(S)
  PROVE  Len(s) <= Len(s \o u)
BY ConcatProperties, LenProperties

\* The stream goes on, or ends with everything.
LEMMA StreamDelivers ==
  ASSUME IInv, IInv', StreamOpen \/ StreamStep \/ StreamBreaks,
         UNCHANGED <<scanVars, got, listed>>
  PROVE  Feed!Deliver \/ Feed!DeliverEnd \/ UNCHANGED Feed!feedVars
<1>1. /\ UNCHANGED <<ports, findings, status, got, listed>>
      /\ UNCHANGED <<Over, Answered, Listed>>
  BY DEF scanVars, rowVars, jobVars, Over, Answered, AnswerIsSettled, Listed
<1>2. /\ ports \in Seq(Ports) /\ findings \in Seq(Findings)
      /\ sv \in StreamTypes /\ ui \in BrowserTypes
      /\ ui.ports \in Seq(Ports) /\ ui.findings \in Seq(Findings)
      /\ ui'.ports \in Seq(Ports) /\ ui'.findings \in Seq(Findings)
      /\ sv.new_ports \in Seq(Ports) /\ sv.new_findings \in Seq(Findings)
  BY DEF IInv, Types, StreamTypes, BrowserTypes
<1>3. IsPrefix(ui'.ports, ports) /\ IsPrefix(ui'.findings, findings)
  BY <1>1, FaithfulNext DEF StreamIsFaithful, StreamDeliversPrefix
<1>4. CASE UNCHANGED ui
  BY <1>1, <1>4, FeedStutters DEF rowVars
<1>5. ASSUME sv.pc = "push", ui'.ended = FALSE,
             Len(ui.ports) <= Len(ui'.ports), Len(ui.findings) <= Len(ui'.findings)
      PROVE  Feed!Deliver
  <2> DEFINE i == Len(ui'.ports)
             j == Len(ui'.findings)
  <2>1. ui.ended = FALSE
    BY <1>2, <1>5 DEF IInv, StreamInv, BrowserTypes
  <2>2. i \in Len(ui.ports)..Len(ports) /\ j \in Len(ui.findings)..Len(findings)
    BY <1>2, <1>3, <1>5, PrefixMeans, LenProperties
  <2>3. ui'.ports = SubSeq(ports, 1, i) /\ ui'.findings = SubSeq(findings, 1, j)
    BY <1>2, <1>3, SubSeqFull DEF IsPrefix
  <2> QED BY <1>1, <1>5, <2>1, <2>2, <2>3 DEF Feed!Deliver
<1>6. CASE StreamPush
  <2>1. /\ sv.pc = "push" /\ ui'.ended = (sv.status \in Final)
        /\ ui'.ports = ui.ports \o sv.new_ports /\ ui'.findings = ui.findings \o sv.new_findings
    BY <1>2, <1>6 DEF StreamPush, Delivered, StreamTypes, Final
  <2>2. CASE sv.status \in Final
    <3>1. Over /\ Len(ui'.ports) = Len(ports) /\ Len(ui'.findings) = Len(findings)
      BY <1>1, <2>1, <2>2 DEF IInv, StreamInv, Over, Final
    <3>2. ui'.ports = ports /\ ui'.findings = findings
      BY <1>2, <1>3, <3>1, WholePrefix
    <3>3. ui.ended = FALSE
      BY <1>2, <2>1 DEF IInv, StreamInv, BrowserTypes
    <3> QED BY <1>1, <2>1, <2>2, <3>1, <3>2, <3>3 DEF Feed!DeliverEnd
  <2>3. CASE sv.status \notin Final
    <3>1. Len(ui.ports) <= Len(ui'.ports)
      BY <1>2, <2>1, ConcatLonger
    <3>2. Len(ui.findings) <= Len(ui'.findings)
      BY <1>2, <2>1, ConcatLonger
    <3>3. (sv.status \in Final) = FALSE
      BY <2>3
    <3>4. ui'.ended = FALSE
      BY <2>1, <3>3
    <3> QED BY <1>5, <2>1, <3>1, <3>2, <3>4
  <2> QED BY <2>2, <2>3
<1>7. CASE StreamBreaks
  <2>1. PICK i \in 0..Len(sv.new_ports), j \in 0..Len(sv.new_findings) :
           ui' = [ui EXCEPT !.scanned = sv.scanned,
                            !.ports = @ \o SubSeq(sv.new_ports, 1, i),
                            !.findings = @ \o SubSeq(sv.new_findings, 1, j)]
    BY <1>7 DEF StreamBreaks
  <2>2. /\ sv.pc = "push" /\ ui'.ended = ui.ended
        /\ ui'.ports = ui.ports \o SubSeq(sv.new_ports, 1, i)
        /\ ui'.findings = ui.findings \o SubSeq(sv.new_findings, 1, j)
    BY <1>2, <1>7, <2>1 DEF StreamBreaks, BrowserTypes
  <2>3. ui.ended = FALSE
    BY <1>2, <2>2 DEF IInv, StreamInv, BrowserTypes
  <2>4. Len(ui.ports) <= Len(ui'.ports)
    <3>1. SubSeq(sv.new_ports, 1, i) \in Seq(Ports)
      BY <1>2, PrefixOfBatch
    <3> QED BY <1>2, <2>2, <3>1, ConcatLonger
  <2>5. Len(ui.findings) <= Len(ui'.findings)
    <3>1. SubSeq(sv.new_findings, 1, j) \in Seq(Findings)
      BY <1>2, PrefixOfBatch
    <3> QED BY <1>2, <2>2, <3>1, ConcatLonger
  <2> QED BY <1>5, <2>2, <2>3, <2>4, <2>5
<1>8. CASE StreamOpen \/ StreamStatus \/ StreamScanned \/ StreamRows
  BY <1>4, <1>8 DEF StreamOpen, StreamStatus, StreamScanned, StreamRows
<1> QED BY <1>6, <1>7, <1>8 DEF StreamStep

\* get_scan and list_scans: each takes its snapshot in one step, or took it when the scan
\* ended.
LEMMA SnapshotTaken ==
  ASSUME IInv, SnapshotStep, UNCHANGED <<scanVars, ui>>
  PROVE  Feed!Answer \/ Feed!List \/ UNCHANGED Feed!feedVars
<1>1. UNCHANGED <<ports, findings, status, ui, Over, rowVars>>
  BY DEF scanVars, rowVars, jobVars, Over
<1>2. got \in GetTypes /\ listed \in ListTypes /\ GetInv /\ ListInv
  BY DEF IInv, Types
<1>3. ASSUME UNCHANGED <<got, listed>> PROVE UNCHANGED Feed!feedVars
  BY <1>1, <1>3, FeedStutters DEF Answered, AnswerIsSettled, Listed
<1>4. CASE GetCompletedAt
  <2>1. got.pc = "idle" /\ got'.pc = "status" /\ UNCHANGED listed
    BY <1>2, <1>4 DEF GetCompletedAt, GetTypes
  <2>2. UNCHANGED <<Answered, Listed>>
    BY <2>1 DEF Answered, AnswerIsSettled, Listed
  <2> QED BY <1>1, <2>2, FeedStutters
<1>5. CASE GetStatus
  <2>1. got.pc = "status" /\ got'.pc = "rows" /\ got'.status = status /\ UNCHANGED listed
    BY <1>2, <1>5 DEF GetStatus, GetTypes
  <2>2. UNCHANGED <<Answered, Listed>>
    BY <1>1, <2>1 DEF Answered, AnswerIsSettled, Listed, Over
  <2> QED BY <1>1, <2>2, FeedStutters
<1>6. CASE GetRows
  <2>1. /\ got.pc = "rows" /\ got'.pc = "reply" /\ got'.status = got.status
        /\ got'.ports = ToSet(ports) /\ got'.findings = ToSet(findings) /\ UNCHANGED listed
    BY <1>2, <1>6 DEF GetRows, GetTypes
  <2>2. UNCHANGED Listed
    BY <2>1 DEF Listed
  <2>3. Answered' = {[over |-> got.status \in {Done, Error}, ports |-> ToSet(ports),
                      findings |-> ToSet(findings)]}
    BY <2>1 DEF Answered, AnswerIsSettled
  <2>4. CASE Over /\ got.status \notin {Done, Error}
    <3>1. Answered = {[over |-> got.status \in {Done, Error}, ports |-> ToSet(ports),
                       findings |-> ToSet(findings)]}
      BY <2>1, <2>4 DEF Answered, AnswerIsSettled
    <3> QED BY <1>1, <2>2, <2>3, <3>1, FeedStutters
  <2>5. CASE ~(Over /\ got.status \notin {Done, Error})
    <3>1. Answered = {}
      BY <2>1, <2>5 DEF Answered, AnswerIsSettled
    <3>2. Over = (got.status \in {Done, Error})
      BY <1>2, <2>1, <2>5 DEF GetInv, Over, Final
    <3>3. Answered' = {Feed!Snapshot}
      BY <2>3, <3>2, SameElements DEF Feed!Snapshot
    <3> QED BY <1>1, <2>2, <3>1, <3>3 DEF Feed!Answer
  <2> QED BY <2>4, <2>5
<1>7. CASE GetReply
  <2>1. /\ got.pc = "reply" /\ got'.pc = "answered" /\ got'.status = got.status
        /\ got'.ports = got.ports /\ got'.findings = got.findings /\ UNCHANGED listed
    BY <1>2, <1>7 DEF GetReply, GetTypes
  <2>2. UNCHANGED <<Answered, Listed>>
    BY <2>1 DEF Answered, AnswerIsSettled, Listed
  <2> QED BY <1>1, <2>2, FeedStutters
<1>8. CASE ListSizes
  <2>1. listed.pc = "idle" /\ listed'.pc = "status" /\ UNCHANGED got
    BY <1>2, <1>8 DEF ListSizes, ListTypes
  <2>2. UNCHANGED <<Answered, Listed>>
    BY <1>1, <2>1 DEF Answered, AnswerIsSettled, Listed
  <2> QED BY <1>1, <2>2, FeedStutters
<1>9. CASE ListStatus
  <2>1. /\ listed.pc = "status" /\ listed'.pc = "scanned" /\ listed'.status = status
        /\ listed'.open = listed.open /\ listed'.findings = listed.findings /\ UNCHANGED got
    BY <1>2, <1>9 DEF ListStatus, ListTypes
  <2>2. listed.open = Len(ports) /\ listed.findings = Len(findings)
    BY <1>2, <2>1 DEF ListInv
  <2>3. UNCHANGED Answered
    BY <1>1, <2>1 DEF Answered, AnswerIsSettled
  <2>4. Listed = {} /\ Listed' = {[over |-> Over, open |-> Len(ports), findings |-> Len(findings)]}
    BY <2>1, <2>2 DEF Listed, Over
  <2> QED BY <1>1, <2>3, <2>4 DEF Feed!List
<1>10. CASE ListScanned
  <2>1. /\ listed.pc = "scanned" /\ listed'.pc = "answered" /\ listed'.status = listed.status
        /\ listed'.open = listed.open /\ listed'.findings = listed.findings /\ UNCHANGED got
    BY <1>2, <1>10 DEF ListScanned, ListTypes, ListInv
  <2>2. UNCHANGED <<Answered, Listed>>
    BY <1>1, <2>1 DEF Answered, AnswerIsSettled, Listed
  <2> QED BY <1>1, <2>2, FeedStutters
<1> QED BY <1>4, <1>5, <1>6, <1>7, <1>8, <1>9, <1>10 DEF SnapshotStep

\* Every step of the scan is a step of the feed, or is not seen.
LEMMA FeedStep == IInv /\ IInv' /\ GatheredInv /\ [Next]_vars => [Feed!Next]_Feed!feedVars
<1> SUFFICES ASSUME IInv, IInv', GatheredInv, [Next]_vars
             PROVE  Feed!Next \/ UNCHANGED Feed!feedVars
  OBVIOUS
<1>1. CASE UNCHANGED vars
  <2>1. UNCHANGED <<rowVars, status, ui, got, listed>>
    BY <1>1 DEF vars, jobVars, readVars
  <2>2. UNCHANGED <<Over, Answered, Listed>>
    BY <2>1 DEF Over, Answered, AnswerIsSettled, Listed, rowVars
  <2> QED BY <2>1, <2>2, FeedStutters
<1>2. CASE HandlerStep /\ UNCHANGED scanVars
  <2>1. CASE StreamOpen \/ StreamStep \/ StreamBreaks
    <3>1. UNCHANGED <<got, listed>>
      BY <2>1 DEF StreamOpen, StreamStep, StreamBreaks, StreamStatus, StreamScanned, StreamRows,
         StreamPush
    <3> QED BY <1>2, <2>1, <3>1, StreamDelivers DEF Feed!Next
  <2>2. CASE SnapshotStep
    <3>1. UNCHANGED ui
      BY <2>2 DEF SnapshotStep, GetCompletedAt, GetStatus, GetRows, GetReply, ListSizes, ListStatus,
         ListScanned
    <3> QED BY <1>2, <2>2, <3>1, SnapshotTaken DEF Feed!Next
  <2> QED BY <1>2, <2>1, <2>2 DEF HandlerStep
<1>3. CASE JobStep /\ UNCHANGED <<rowVars, readVars>>
  BY <1>3, JobFinishes DEF Feed!Next
<1>4. ASSUME NEW p \in Ports, TaskStep(p), UNCHANGED <<jobVars, readVars>>
      PROVE  Feed!Next \/ UNCHANGED Feed!feedVars
  <2>1. CASE Publish(p)
    BY <2>1, PublishAppears DEF Feed!Next
  <2>2. CASE ~Publish(p)
    <3>1. UNCHANGED <<rowVars, status, ui, got, listed>>
      BY <1>4, <2>2 DEF TaskStep, Begin, Probe, Collect, Count, jobVars, readVars
    <3>2. UNCHANGED <<Over, Answered, Listed>>
      BY <3>1 DEF Over, Answered, AnswerIsSettled, Listed, rowVars
    <3> QED BY <3>1, <3>2, FeedStutters
  <2> QED BY <2>1, <2>2
<1> QED BY <1>1, <1>2, <1>3, <1>4, WhoMoves

\* stream_scan, get_scan and list_scans (webui.cpp) show a scan as ScanFeed promises, for
\* any range, any number of workers and findings, and any calls of the handlers.
THEOREM Refinement == Spec => ImplementsScanFeed
<1>1. Init => Feed!Init
  BY DEF Init, Feed!Init, Feed!NoRows, Over, Answered, AnswerIsSettled, Listed, Queued, Done, Error
<1> QED BY <1>1, FeedStep, Gathered, Invariant, PTL DEF Spec, ImplementsScanFeed, Feed!Spec
=============================================================================
