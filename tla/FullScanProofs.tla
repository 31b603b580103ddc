--------------------------- MODULE FullScanProofs ---------------------------
(***************************************************************************)
(* Proofs, for any number of hosts, ports, workers and findings and any    *)
(* width of int, that a host's report has all its tasks found, that the    *)
(* progress repeats no line and has caught up between two hosts, and that  *)
(* a host shown as alive has the TTL of a host that was pinged.            *)
(***************************************************************************)
EXTENDS FullScan, SequenceTheorems, FiniteSetTheorems, TLAPS

\* A sequence that repeats nothing.
NoRepeat(s) == \A i, j \in 1..Len(s) : s[i] = s[j] => i = j

Findings == Ports \X (1..MaxFindings)
TaskPlaces == {"queued", "probe", "collect", "tick", "load", "cas", "print", "over"}
Ticked == {p \in Ports : tpc[p] \in {"load", "cas", "print", "over"}}
Pings == [state : {"UNKNOWN", "UNREACHABLE", "ALIVE"}, ttl : Nat]

Types ==
    /\ submitted \in 0..MaxPorts /\ started \in Seq(Nat) /\ finished \in SUBSET Ports
    /\ pool \in {"open", "closing", "closed"}
    /\ targets \in 0..MaxHosts /\ range \in 0..MaxPorts /\ host \in Nat
    /\ mpc \in {"begin", "ping", "poll", "scan", "report", "end", "over"}
    /\ ping \in Pings
    /\ tpc \in [Ports -> TaskPlaces]
    /\ local \in [Ports -> Closed..MaxFindings]
    /\ out_ports \in Seq(Ports) /\ out_findings \in Seq(Findings)
    /\ total \in Ints /\ completed \in Ints /\ last_percent \in Ints
    /\ tick \in [Ports -> [percent : Ints, expected : Ints]]
    /\ printed \in Seq(Ints)

\* The pool takes the ports in order; nothing is handed to it before the scan, and when it
\* is closed the whole range is over.
PoolInv ==
    /\ Len(started) <= submitted /\ submitted <= range
    /\ \A p \in Ports : tpc[p] = "queued" <=> p > Len(started)
    /\ \A p \in Ports : tpc[p] = "over" <=> p \in finished
    /\ pool # "closed" /\ mpc # "scan" => submitted = 0 /\ pool = "open"
    /\ pool = "closing" => submitted = range
    /\ pool = "closed" => mpc \in {"report", "end", "over"} /\ finished = 1..range
    /\ mpc \in {"report", "end"} => pool = "closed"

\* The host is on the list, and replies on their way are to pings that were sent.
HostInv ==
    /\ \/ host \in 1..targets
       \/ targets = 0 /\ mpc \in {"begin", "over"} /\ pool # "closed" /\ host = 1
    /\ mpc = "begin" => host = 1 /\ pool # "closed"
    /\ echo \subseteq 1..host
    /\ ping.state = "ALIVE" => ping.ttl \in 1..host

\* The host has the rows of the tasks that have collected, each once.
RowsInv ==
    /\ \A p \in Ports : tpc[p] \in {"queued", "probe"} => local[p] = Closed
    /\ \A p \in Ports : tpc[p] = "collect" => local[p] # Closed
    /\ NoRepeat(out_ports) /\ NoRepeat(out_findings)
    /\ \A p \in Ports : p \in ToSet(out_ports) <=> local[p] # Closed /\ tpc[p] # "collect"
    /\ \A f \in Findings :
          f \in ToSet(out_findings) <=> f[1] \in ToSet(out_ports) /\ f[2] \in 1..local[f[1]]

\* The lines printed and those of the tasks about to print differ, and none exceeds the
\* last percent: an exchange that succeeds has raised it.
LinesInv ==
    /\ NoRepeat(printed)
    /\ \A i \in 1..Len(printed) : printed[i] <= last_percent
    /\ \A p \in Ports : tpc[p] = "print" =>
          /\ tick[p].percent <= last_percent
          /\ \A i \in 1..Len(printed) : printed[i] # tick[p].percent
          /\ \A q \in Ports : tpc[q] = "print" /\ tick[q].percent = tick[p].percent => p = q
    /\ \A p \in Ports : tpc[p] = "cas" => tick[p].percent > tick[p].expected
    /\ mpc = "begin" => printed = <<>>

\* The reporter counts the tasks of this host that have ticked and all of the hosts before.
CountInv ==
    /\ mpc = "begin" => total = 0 /\ completed = 0 /\ last_percent = -1
    /\ Fits /\ mpc # "begin" =>
        /\ total = targets * range
        /\ completed = (host - 1) * range + Cardinality(Ticked)

\* No percent is ahead of the count, the last percent is out or about to be, and it has
\* caught up with the count unless a task at the exchange will see to that.
ShownInv ==
    Fits /\ mpc # "begin" =>
        /\ \/ last_percent = -1
           \/ last_percent \in ToSet(printed)
           \/ \E p \in Ports : tpc[p] = "print" /\ tick[p].percent = last_percent
        /\ last_percent <= Percent(completed)
        /\ \A p \in Ports : tpc[p] \in {"load", "cas", "print"} => tick[p].percent <= Percent(completed)
        /\ completed > 0 =>
              \/ last_percent = Percent(completed)
              \/ \E p \in Ports : tpc[p] \in {"load", "cas"} /\ tick[p].percent = Percent(completed)

IInv ==
    Types /\ PoolInv /\ HostInv /\ RowsInv /\ LinesInv /\ CountInv /\ ShownInv

-----------------------------------------------------------------------------
(* Sequences: their elements, appended and concatenated, and sorted. *)

\* The elements of a sequence are what stands at its positions.
LEMMA ElementsAt ==
  ASSUME NEW S, NEW s \in Seq(S)
  PROVE  /\ ToSet(s) = {s[i] : i \in 1..Len(s)} /\ ToSet(s) \subseteq S
         /\ Len(s) \in Nat /\ DOMAIN s = 1..Len(s) /\ s \in [1..Len(s) -> S]
<1>1. Len(s) \in Nat /\ DOMAIN s = 1..Len(s) /\ s \in [1..Len(s) -> S]
  BY LenProperties
<1> QED BY <1>1 DEF ToSet

LEMMA NothingThere == ToSet(<<>>) = {} /\ NoRepeat(<<>>)
BY EmptySeq DEF ToSet, NoRepeat

\* push_back.
LEMMA OneMore ==
  ASSUME NEW S, NEW s \in Seq(S), NEW e \in S
  PROVE  /\ Append(s, e) \in Seq(S) /\ ToSet(Append(s, e)) = ToSet(s) \cup {e}
         /\ NoRepeat(s) /\ e \notin ToSet(s) => NoRepeat(Append(s, e))
<1> DEFINE t == Append(s, e)
<1>1. /\ t \in Seq(S) /\ Len(t) = Len(s) + 1 /\ t[Len(s) + 1] = e
      /\ \A i \in 1..Len(s) : t[i] = s[i]
  BY AppendProperties
<1>2. /\ Len(s) \in Nat /\ ToSet(s) = {s[i] : i \in 1..Len(s)}
      /\ ToSet(t) = {t[i] : i \in 1..Len(t)}
  BY <1>1, ElementsAt
<1> HIDE DEF t
<1>3. ToSet(t) = ToSet(s) \cup {e}
  BY <1>1, <1>2
<1>4. NoRepeat(s) /\ e \notin ToSet(s) => NoRepeat(t)
  BY <1>1, <1>2 DEF NoRepeat
<1> QED BY <1>1, <1>3, <1>4 DEF t

\* push_back of each row of a port: they are new, and differ from one another.
LEMMA RowsMore ==
  ASSUME NEW S, NEW s \in Seq(S), NEW u \in Seq(S)
  PROVE  /\ s \o u \in Seq(S) /\ ToSet(s \o u) = ToSet(s) \cup ToSet(u)
         /\ NoRepeat(s) /\ NoRepeat(u) /\ ToSet(s) \cap ToSet(u) = {} => NoRepeat(s \o u)
<1> DEFINE t == s \o u
           n == Len(s)
           m == Len(u)
<1>1. /\ t \in Seq(S) /\ Len(t) = n + m
      /\ \A i \in 1..n + m : t[i] = IF i <= n THEN s[i] ELSE u[i - n]
  BY ConcatProperties
<1>2. /\ n \in Nat /\ m \in Nat
      /\ ToSet(s) = {s[i] : i \in 1..n} /\ ToSet(u) = {u[i] : i \in 1..m}
      /\ ToSet(t) = {t[i] : i \in 1..n + m}
  BY <1>1, ElementsAt
<1> HIDE DEF t, n, m
<1>3. \A i \in 1..n : i \in 1..n + m /\ t[i] = s[i]
  BY <1>1, <1>2
<1>4. ASSUME NEW i \in 1..m PROVE n + i \in 1..n + m /\ t[n + i] = u[i]
  <2>1. n + i \in 1..n + m /\ ~(n + i <= n) /\ (n + i) - n = i
    BY <1>2
  <2> QED BY <1>1, <2>1
<1>5. ASSUME NEW i \in 1..n + m, i \notin 1..n PROVE i - n \in 1..m /\ t[i] = u[i - n]
  <2>1. ~(i <= n) /\ i - n \in 1..m
    BY <1>2, <1>5
  <2> QED BY <1>1, <2>1
<1>6. ToSet(t) = ToSet(s) \cup ToSet(u)
  BY <1>2, <1>3, <1>4, <1>5
<1>7. ASSUME NoRepeat(s), NoRepeat(u), ToSet(s) \cap ToSet(u) = {},
             NEW i \in 1..n + m, NEW j \in 1..n + m, t[i] = t[j]
      PROVE  i = j
  <2>1. CASE i \in 1..n /\ j \in 1..n
    BY <1>3, <1>7, <2>1 DEF NoRepeat, n
  <2>2. CASE i \notin 1..n /\ j \notin 1..n
    <3>1. i - n \in 1..m /\ j - n \in 1..m /\ u[i - n] = u[j - n]
      BY <1>5, <1>7, <2>2
    <3>2. i - n = j - n
      BY <1>7, <3>1 DEF NoRepeat, m
    <3> QED BY <1>2, <3>2
  <2>3. CASE i \in 1..n /\ j \notin 1..n
    <3>1. t[i] \in ToSet(s) /\ t[j] \in ToSet(u)
      BY <1>2, <1>3, <1>5, <2>3
    <3> QED BY <1>7, <3>1
  <2>4. CASE i \notin 1..n /\ j \in 1..n
    <3>1. t[j] \in ToSet(s) /\ t[i] \in ToSet(u)
      BY <1>2, <1>3, <1>5, <2>4
    <3> QED BY <1>7, <3>1
  <2> QED BY <2>1, <2>2, <2>3, <2>4
<1>8. NoRepeat(s) /\ NoRepeat(u) /\ ToSet(s) \cap ToSet(u) = {} => NoRepeat(t)
  BY <1>1, <1>7 DEF NoRepeat
<1> QED BY <1>1, <1>6, <1>8 DEF t

\* An arrangement of rows is a sequence of the same rows.
LEMMA ArrangementRows ==
  ASSUME NEW S, NEW rows \in Seq(S), NEW s \in Arrangements(rows)
  PROVE  /\ s \in Seq(S) /\ ToSet(s) = ToSet(rows) /\ DOMAIN s = 1..Len(s)
         /\ NoRepeat(rows) => NoRepeat(s)
<1> DEFINE n == Len(rows)
<1>1. /\ n \in Nat /\ DOMAIN rows = 1..n /\ ToSet(rows) = {rows[i] : i \in 1..n}
      /\ \A i \in 1..n : rows[i] \in S
  BY ElementsAt
<1>2. PICK order \in Bijection(1..n, 1..n) : s = [i \in 1..n |-> rows[order[i]]]
  BY <1>1 DEF Arrangements
<1> HIDE DEF n
<1>3. /\ order \in [1..n -> 1..n]
      /\ \A i, j \in 1..n : order[i] = order[j] => i = j
      /\ \A k \in 1..n : \E i \in 1..n : order[i] = k
  BY <1>2 DEF Bijection, Injection, IsInjective, Surjection
<1>4. \A i \in 1..n : order[i] \in 1..n /\ s[i] = rows[order[i]]
  BY <1>2, <1>3
<1>5. s \in Seq(S) /\ Len(s) = n
  <2>1. \A i \in 1..n : rows[order[i]] \in S
    BY <1>1, <1>4
  <2> QED BY <1>1, <1>2, <2>1
<1>6. ToSet(s) = {s[i] : i \in 1..Len(s)} /\ DOMAIN s = 1..Len(s)
  BY <1>5, ElementsAt
<1>7. ToSet(s) = ToSet(rows)
  <2>1. ASSUME NEW k \in 1..n PROVE \E i \in 1..n : rows[k] = s[i]
    <3>1. PICK i \in 1..n : order[i] = k
      BY <1>3
    <3>2. s[i] = rows[k]
      BY <1>4, <3>1
    <3> QED BY <3>2
  <2>2. ASSUME NEW e \in ToSet(rows) PROVE e \in ToSet(s)
    <3>1. PICK k \in 1..n : e = rows[k]
      BY <1>1
    <3>2. PICK i \in 1..n : e = s[i]
      BY <2>1, <3>1
    <3> QED BY <1>5, <1>6, <3>2
  <2>3. ASSUME NEW e \in ToSet(s) PROVE e \in ToSet(rows)
    <3>1. PICK i \in 1..n : e = s[i]
      BY <1>5, <1>6
    <3>2. order[i] \in 1..n /\ e = rows[order[i]]
      BY <1>4, <3>1
    <3> QED BY <1>1, <3>2
  <2> QED BY <2>2, <2>3
<1>8. ASSUME NoRepeat(rows) PROVE NoRepeat(s)
  <2>1. SUFFICES ASSUME NEW i \in 1..n, NEW j \in 1..n, s[i] = s[j] PROVE i = j
    BY <1>5 DEF NoRepeat
  <2>2. rows[order[i]] = rows[order[j]]
    BY <1>4, <2>1
  <2>3. order[i] = order[j]
    BY <1>4, <1>8, <2>2 DEF NoRepeat, n
  <2> QED BY <1>3, <2>3
<1> QED BY <1>5, <1>6, <1>7, <1>8

\* Rows can be arranged in the order of any keys they have: the position of a row is the
\* number of rows that come before it, by key and, where keys are equal, as they stand.
LEMMA SortingOrder ==
  ASSUME NEW n \in Nat, NEW key \in [1..n -> Nat]
  PROVE  \E order \in Bijection(1..n, 1..n) :
            \A i, j \in 1..n : i < j => key[order[i]] <= key[order[j]]
<1> DEFINE weight == [i \in 1..n |-> key[i] * (n + 1) + i]
           upTo(i) == {j \in 1..n : weight[j] <= weight[i]}
           rank == [i \in 1..n |-> Cardinality(upTo(i))]
           order == [k \in 1..n |-> CHOOSE i \in 1..n : rank[i] = k]
<1>1. \A i \in 1..n : weight[i] \in Nat
  <2>1. \A i \in 1..n : key[i] * (n + 1) \in Nat
    OBVIOUS
  <2> QED BY <2>1
<1>2. ASSUME NEW i \in 1..n, NEW j \in 1..n, key[i] < key[j] PROVE weight[i] < weight[j]
  <2> DEFINE a == key[i] * (n + 1)
             b == key[j] * (n + 1)
  <2>1. (key[i] + 1) * (n + 1) <= b /\ (key[i] + 1) * (n + 1) = a + (n + 1)
    <3> DEFINE x == key[i]
               y == key[j]
               m == n + 1
    <3>1. x + 1 <= y /\ x \in Nat /\ y \in Nat /\ m \in Nat
      BY <1>2
    <3> HIDE DEF x, y, m
    <3>2. (x + 1) * m <= y * m /\ (x + 1) * m = x * m + m
      BY <3>1
    <3> QED BY <3>2 DEF x, y, m
  <2>2. a \in Nat /\ b \in Nat
    OBVIOUS
  <2>3. weight[i] = a + i /\ weight[j] = b + j
    OBVIOUS
  <2> HIDE DEF a, b, weight
  <2>4. a + (n + 1) <= b
    BY <2>1
  <2> QED BY <2>2, <2>3, <2>4
<1>3. ASSUME NEW i \in 1..n, NEW j \in 1..n, i # j PROVE weight[i] # weight[j]
  <2>1. CASE key[i] = key[j]
    <3>1. key[i] * (n + 1) = key[j] * (n + 1) /\ key[i] * (n + 1) \in Nat
      BY <2>1
    <3> DEFINE x == key[i] * (n + 1)
    <3>2. weight[i] = x + i /\ weight[j] = x + j /\ x \in Nat
      BY <3>1
    <3> HIDE DEF weight, x
    <3> QED BY <1>3, <3>2
  <2>2. CASE key[i] # key[j]
    <3>1. key[i] < key[j] \/ key[j] < key[i]
      BY <2>2
    <3>2. weight[i] < weight[j] \/ weight[j] < weight[i]
      BY <1>2, <3>1
    <3> HIDE DEF weight
    <3> QED BY <1>1, <3>2
  <2> QED BY <2>1, <2>2
<1> HIDE DEF weight
<1>4. Cardinality(1..n) = n /\ IsFiniteSet(1..n)
  <2>1. 1 \in Int /\ n \in Int /\ (1 > n <=> n = 0) /\ n - 1 + 1 = n
    OBVIOUS
  <2>2. Cardinality(1..n) = IF 1 > n THEN 0 ELSE n - 1 + 1
    BY <2>1, FS_Interval
  <2>3. IsFiniteSet(1..n)
    BY <2>1, FS_Interval
  <2> QED BY <2>1, <2>2, <2>3
<1>5. \A i \in 1..n : IsFiniteSet(upTo(i)) /\ Cardinality(upTo(i)) <= n
  <2> SUFFICES ASSUME NEW i \in 1..n PROVE IsFiniteSet(upTo(i)) /\ Cardinality(upTo(i)) <= n
    OBVIOUS
  <2>1. upTo(i) \in SUBSET (1..n)
    OBVIOUS
  <2> QED BY <1>4, <2>1, FS_Subset
<1>6. ASSUME NEW i \in 1..n, NEW j \in 1..n, weight[i] < weight[j] PROVE rank[i] < rank[j]
  <2>1. upTo(i) \in SUBSET upTo(j) /\ j \in upTo(j) /\ j \notin upTo(i)
    BY <1>1, <1>6
  <2> HIDE DEF upTo
  <2>2. Cardinality(upTo(i)) <= Cardinality(upTo(j)) /\ Cardinality(upTo(i)) # Cardinality(upTo(j))
    BY <1>5, <2>1, FS_Subset
  <2>3. Cardinality(upTo(i)) \in Nat /\ Cardinality(upTo(j)) \in Nat
    BY <1>5, FS_CardinalityType
  <2> QED BY <2>2, <2>3
<1>7. rank \in Injection(1..n, 1..n)
  <2>1. \A i \in 1..n : rank[i] \in 1..n
    <3> SUFFICES ASSUME NEW i \in 1..n PROVE rank[i] \in 1..n
      OBVIOUS
    <3>1. i \in upTo(i)
      BY <1>1
    <3> HIDE DEF upTo
    <3>2. Cardinality(upTo(i)) \in Nat /\ Cardinality(upTo(i)) # 0
      BY <1>5, <3>1, FS_CardinalityType, FS_EmptySet
    <3> QED BY <1>5, <3>2
  <2>2. \A i, j \in 1..n : i # j => rank[i] # rank[j]
    <3> SUFFICES ASSUME NEW i \in 1..n, NEW j \in 1..n, i # j PROVE rank[i] # rank[j]
      OBVIOUS
    <3>1. weight[i] < weight[j] \/ weight[j] < weight[i]
      BY <1>1, <1>3
    <3>2. rank[i] < rank[j] \/ rank[j] < rank[i]
      BY <1>6, <3>1
    <3> HIDE DEF rank
    <3> QED BY <2>1, <3>2
  <2>3. rank \in [1..n -> 1..n]
    BY <2>1
  <2> HIDE DEF rank
  <2> QED BY <2>2, <2>3 DEF Injection, IsInjective
<1>8. rank \in Surjection(1..n, 1..n)
  BY <1>4, <1>7, FS_Injection
<1> HIDE DEF rank
<1>9. /\ \A i \in 1..n : rank[i] \in 1..n
      /\ \A i, j \in 1..n : rank[i] = rank[j] => i = j
      /\ \A k \in 1..n : \E i \in 1..n : rank[i] = k
  BY <1>7, <1>8 DEF Injection, IsInjective, Surjection
<1>10. \A k \in 1..n : order[k] \in 1..n /\ rank[order[k]] = k
  BY <1>9
<1>11. order \in [1..n -> 1..n]
  BY <1>10
<1> HIDE DEF order
<1>12. order \in Bijection(1..n, 1..n)
  <2>1. \A k \in 1..n : order[rank[k]] = k
    BY <1>9, <1>10
  <2>2. \A i, j \in 1..n : order[i] = order[j] => i = j
    BY <1>10
  <2>3. \A k \in 1..n : \E i \in 1..n : order[i] = k
    BY <1>9, <2>1
  <2>4. order \in Injection(1..n, 1..n)
    BY <1>11, <2>2 DEF Injection, IsInjective
  <2>5. order \in Surjection(1..n, 1..n)
    BY <1>11, <2>3 DEF Surjection
  <2> QED BY <2>4, <2>5 DEF Bijection
<1>13. ASSUME NEW i \in 1..n, NEW j \in 1..n, i < j PROVE key[order[i]] <= key[order[j]]
  <2>1. SUFFICES ASSUME ~(key[order[i]] <= key[order[j]]) PROVE FALSE
    OBVIOUS
  <2>2. order[i] \in 1..n /\ order[j] \in 1..n /\ key[order[j]] < key[order[i]]
    BY <1>10, <2>1
  <2>3. weight[order[j]] < weight[order[i]]
    BY <1>2, <2>2
  <2>4. rank[order[j]] < rank[order[i]]
    BY <1>6, <2>2, <2>3
  <2> QED BY <1>10, <1>13, <2>4
<1> QED BY <1>12, <1>13
\* The host's ports can be sorted, and so can its findings.
LEMMA SortingEnds ==
  ASSUME Types
  PROVE  SortedPorts # {} /\ SortedFindings # {}
<1>1. SortedPorts # {}
  <2> DEFINE n == Len(out_ports)
  <2>1. n \in Nat /\ DOMAIN out_ports = 1..n /\ out_ports \in [1..n -> Nat]
    <3>1. out_ports \in Seq(Ports)
      BY DEF Types
    <3>2. n \in Nat /\ DOMAIN out_ports = 1..n /\ out_ports \in [1..n -> Ports]
      BY <3>1, ElementsAt
    <3>3. Ports \subseteq Nat
      BY FullScanConstants DEF Ports
    <3> QED BY <3>2, <3>3
  <2> HIDE DEF n
  <2>2. PICK order \in Bijection(1..n, 1..n) :
           \A i, j \in 1..n : i < j => out_ports[order[i]] <= out_ports[order[j]]
    BY <2>1, SortingOrder
  <2> DEFINE s == [i \in 1..n |-> out_ports[order[i]]]
  <2>3. s \in Arrangements(out_ports)
    BY <2>1 DEF Arrangements
  <2>4. Len(s) = n
    BY <2>1
  <2>5. IsSorted(s, <=)
    BY <2>2, <2>4 DEF IsSorted
  <2> QED BY <2>3, <2>5 DEF SortedPorts
<1>2. SortedFindings # {}
  <2> DEFINE n == Len(out_findings)
             key == [i \in 1..n |-> out_findings[i][1]]
  <2>1. n \in Nat /\ DOMAIN out_findings = 1..n /\ out_findings \in [1..n -> Findings]
    BY ElementsAt DEF Types
  <2>2. key \in [1..n -> Nat]
    BY <2>1 DEF Findings, Ports
  <2>3. \A i \in 1..n : key[i] = out_findings[i][1]
    OBVIOUS
  <2> HIDE DEF n, key
  <2>4. PICK order \in Bijection(1..n, 1..n) :
           \A i, j \in 1..n : i < j => key[order[i]] <= key[order[j]]
    BY <2>1, <2>2, SortingOrder
  <2>5. \A i \in 1..n : order[i] \in 1..n
    BY DEF Bijection, Injection
  <2> DEFINE s == [i \in 1..n |-> out_findings[order[i]]]
  <2>6. s \in Arrangements(out_findings)
    BY <2>1 DEF Arrangements
  <2>7. Len(s) = n
    BY <2>1
  <2>8. \A i, j \in 1..n : i < j => s[i][1] <= s[j][1]
    BY <2>3, <2>4, <2>5
  <2>9. IsSorted(s, LAMBDA a, b : a[1] <= b[1])
    BY <2>7, <2>8 DEF IsSorted
  <2> QED BY <2>6, <2>9 DEF SortedFindings
<1> QED BY <1>1, <1>2

-----------------------------------------------------------------------------
(* The ints of the reporter. *)

LEMMA Numbers ==
  /\ MaxHosts \in Nat /\ MaxPorts \in Nat /\ MaxFindings \in Nat
  /\ IntBound \in Nat \ {0} /\ Scale \in 1..IntBound - 1 /\ Ports \subseteq Nat
BY FullScanConstants DEF Ports

\* An int stays an int, and one that fits is not changed.
LEMMA WrapIsInt ==
  /\ \A x \in Int : Wrap(x) \in Ints
  /\ \A x \in 0..IntBound - 1 : Wrap(x) = x
<1>1. ASSUME NEW x \in Int PROVE Wrap(x) \in Ints
  <2> DEFINE m == 2 * IntBound
             y == x + IntBound
  <2>1. m \in Nat \ {0} /\ y \in Int
    BY Numbers
  <2> HIDE DEF m, y
  <2>2. y % m \in 0..m - 1
    BY <2>1
  <2> QED BY <2>2, Numbers DEF Wrap, Ints, m, y
<1>2. ASSUME NEW x \in 0..IntBound - 1 PROVE Wrap(x) = x
  <2> DEFINE m == 2 * IntBound
             y == x + IntBound
  <2>1. m \in Nat \ {0} /\ y \in 0..m - 1
    BY Numbers
  <2> HIDE DEF m, y
  <2>2. y % m = y
    BY <2>1
  <2> QED BY <2>2, Numbers DEF Wrap, m, y
<1> QED BY <1>1, <1>2

\* A percent is an int, whatever the counters.
LEMMA PercentIsInt ==
  ASSUME total \in Ints, NEW done \in Int
  PROVE  Percent(done) \in Ints
<1>1. CASE ~(total > 0)
  BY <1>1, Numbers DEF Percent, Ints
<1>2. CASE total > 0
  <2> DEFINE a == Wrap(done * Scale)
  <2>1. done * Scale \in Int
    BY Numbers
  <2>2. a \in Ints /\ total \in Nat \ {0}
    BY <1>2, <2>1, Numbers, WrapIsInt DEF Ints
  <2>3. Percent(done) = Quotient(a, total)
    BY <1>2 DEF Percent
  <2> HIDE DEF a
  <2>4. \A x \in Nat, n \in Nat \ {0} : x \div n \in Nat /\ x \div n <= x
    OBVIOUS
  <2>5. CASE a >= 0
    BY <2>2, <2>3, <2>4, <2>5, Numbers DEF Quotient, Ints
  <2>6. CASE ~(a >= 0)
    <3>1. -a \in Nat /\ -a <= IntBound
      BY <2>2, <2>6, Numbers DEF Ints
    <3>2. (-a) \div total \in Nat /\ (-a) \div total <= -a
      BY <2>2, <2>4, <3>1
    <3> QED BY <2>3, <2>6, <3>1, <3>2, Numbers DEF Quotient, Ints
  <2> QED BY <2>5, <2>6
<1> QED BY <1>1, <1>2

\* The percent grows with the count, as long as the ints are wide enough for both.
LEMMA PercentGrows ==
  ASSUME total \in Nat, NEW d \in Nat, NEW e \in Nat, d <= e, e * Scale < IntBound
  PROVE  0 <= Percent(d) /\ Percent(d) <= Percent(e)
<1>1. CASE ~(total > 0)
  BY <1>1, Numbers DEF Percent
<1>2. CASE total > 0
  <2> DEFINE x == d * Scale
             y == e * Scale
  <2>1. x \in Nat /\ y \in Nat /\ x <= y /\ y < IntBound
    BY Numbers
  <2> HIDE DEF x, y
  <2>2. Wrap(x) = x /\ Wrap(y) = y
    BY <2>1, Numbers, WrapIsInt
  <2>3. Percent(d) = x \div total /\ Percent(e) = y \div total
    BY <1>2, <2>1, <2>2 DEF Percent, Quotient, x, y
  <2>4. \A a, b \in Nat, n \in Nat \ {0} : a <= b => 0 <= a \div n /\ a \div n <= b \div n
    OBVIOUS
  <2> QED BY <1>2, <2>1, <2>3, <2>4
<1> QED BY <1>1, <1>2
-----------------------------------------------------------------------------
(* The initial states. *)

LEMMA Initially == Init => IInv
<1> SUFFICES ASSUME Init PROVE IInv
  OBVIOUS
<1> USE DEF Init, Pool!Init
<1>1. Types
  <2>1. started \in Seq(Nat) /\ out_ports \in Seq(Ports) /\ out_findings \in Seq(Findings)
        /\ printed \in Seq(Ints)
    BY EmptySeq
  <2>2. total \in Ints /\ completed \in Ints /\ last_percent \in Ints
        /\ tick \in [Ports -> [percent : Ints, expected : Ints]]
    BY Numbers DEF Ints, NoTick
  <2>3. /\ tpc \in [Ports -> TaskPlaces] /\ local \in [Ports -> Closed..MaxFindings]
        /\ ping \in Pings
    BY Numbers DEF TaskPlaces, Closed, NoPing, Pings
  <2>4. submitted \in 0..MaxPorts
    BY Numbers
  <2> QED BY <2>1, <2>2, <2>3, <2>4, Numbers DEF Types
<1>2. PoolInv
  <2>1. Len(started) = 0
    BY EmptySeq
  <2> QED BY <2>1, Numbers DEF PoolInv, Ports
<1>3. HostInv
  BY Numbers DEF HostInv, NoPing
<1>4. RowsInv
  BY NothingThere DEF RowsInv, Closed
<1>5. LinesInv
  <2>1. Len(printed) = 0
    BY EmptySeq
  <2> QED BY <2>1, NothingThere DEF LinesInv
<1>6. CountInv /\ ShownInv
  BY DEF CountInv, ShownInv
<1> QED BY <1>1, <1>2, <1>3, <1>4, <1>5, <1>6 DEF IInv

-----------------------------------------------------------------------------
(* The tasks of a host: what a step of one does to the pool and to the task. *)

\* The head of the loop: the task goes to the exchange, with what it has seen, or is over.
LEMMA LoopMoves ==
  ASSUME NEW p \in Ports, NEW seen, LoopWith(p, seen)
  PROVE  \/ /\ tick[p].percent > seen
            /\ tick' = [tick EXCEPT ![p].expected = seen]
            /\ tpc' = [tpc EXCEPT ![p] = "cas"]
            /\ UNCHANGED poolVars
         \/ ~(tick[p].percent > seen) /\ TaskEnds(p)
BY DEF LoopWith

LEMMA EndMoves ==
  ASSUME NEW p \in Ports, TaskEnds(p)
  PROVE  /\ tpc' = [tpc EXCEPT ![p] = "over"] /\ tick' = [tick EXCEPT ![p] = NoTick]
         /\ finished' = finished \cup {p}
         /\ pool # "closed" /\ UNCHANGED <<submitted, started, pool>>
BY DEF TaskEnds, Pool!Finish

\* Where a step of a task finds it and leaves it.
LEMMA TaskMoves ==
  ASSUME NEW p \in Ports, TaskStep(p)
  PROVE  /\ UNCHANGED <<submitted, pool, total, mainVars>>
         /\ \E place \in TaskPlaces \ {"queued"} : tpc' = [tpc EXCEPT ![p] = place]
         /\ \/ /\ Begin(p) /\ tpc' = [tpc EXCEPT ![p] = "probe"] /\ UNCHANGED finished
               /\ p = Len(started) + 1 /\ Len(started) < submitted /\ started' = Append(started, p)
            \/ /\ tpc[p] \in TaskPlaces \ {"queued", "over"} /\ UNCHANGED <<started, finished>>
               /\ \E place \in TaskPlaces \ {"queued", "over"} : tpc' = [tpc EXCEPT ![p] = place]
            \/ /\ tpc[p] \in {"load", "cas", "print"} /\ UNCHANGED started
               /\ finished' = finished \cup {p} /\ tpc' = [tpc EXCEPT ![p] = "over"]
<1> USE DEF TaskPlaces, poolVars
<1>1. CASE Begin(p)
  BY <1>1 DEF Begin, Pool!Start, mainVars, tickVars
<1>2. CASE Probe(p)
  BY <1>2 DEF Probe, mainVars, tickVars
<1>3. CASE Collect(p)
  BY <1>3 DEF Collect, mainVars, tickVars
<1>4. CASE TickCount(p)
  BY <1>4 DEF TickCount, mainVars
<1>5. CASE TickLoad(p)
  BY <1>5, LoopMoves, EndMoves DEF TickLoad, mainVars
<1>6. CASE TickExchange(p)
  BY <1>6 DEF TickExchange, mainVars
<1>7. CASE TickExchangeFails(p)
  BY <1>7, LoopMoves, EndMoves DEF TickExchangeFails, mainVars
<1>8. CASE TickPrint(p)
  BY <1>8, EndMoves DEF TickPrint, mainVars
<1> QED BY <1>1, <1>2, <1>3, <1>4, <1>5, <1>6, <1>7, <1>8 DEF TaskStep
-----------------------------------------------------------------------------
(* Each part of the invariant is kept by every step. *)

LEMMA MainTypes ==
  ASSUME IInv, MainStep
  PROVE  Types'
<1> USE DEF poolVars, taskVars, tickVars, mainVars
<1>1. Types /\ 0 \in Ints /\ -1 \in Ints
  BY Numbers DEF IInv, Ints
<1>2. CASE BeginScan
  <2>1. targets * range \in Int
    BY <1>1, Numbers DEF Types
  <2>2. total' \in Ints /\ completed' \in Ints /\ last_percent' \in Ints
    BY <1>1, <1>2, <2>1, WrapIsInt DEF BeginScan, Types
  <2> QED BY <1>1, <1>2, <2>2 DEF BeginScan, Types
<1>3. CASE PingSend
  BY <1>1, <1>3 DEF PingSend, Types, NoPing, Pings
<1>4. CASE PingPoll
  <2>1. HostInv
    BY DEF IInv
  <2>2. ping' \in Pings
    BY <1>1, <1>4, <2>1 DEF PingPoll, Packets, IsReply, NoPing, Pings, Types, HostInv
  <2> QED BY <1>1, <1>4, <2>2 DEF PingPoll, Types
<1>5. CASE EnqueuePort
  BY <1>1, <1>5, Numbers DEF EnqueuePort, Pool!Submit, Types
<1>6. CASE ClosePool
  BY <1>1, <1>6 DEF ClosePool, Pool!Close, Types
<1>7. CASE PoolReturns
  BY <1>1, <1>7 DEF PoolReturns, Pool!Return, Types
<1>8. CASE ReportHost
  <2>1. CASE host < targets
    <3>1. <<>> \in Seq(Nat) /\ <<>> \in Seq(Ports) /\ <<>> \in Seq(Findings) /\ 0 \in 0..MaxPorts
      BY EmptySeq, Numbers
    <3>2. [p \in Ports |-> "queued"] \in [Ports -> TaskPlaces]
          /\ [p \in Ports |-> Closed] \in [Ports -> Closed..MaxFindings] /\ NoPing \in Pings
      BY Numbers DEF TaskPlaces, Closed, NoPing, Pings
    <3> QED BY <1>1, <1>8, <2>1, <3>1, <3>2 DEF ReportHost, Types
  <2>2. CASE ~(host < targets)
    BY <1>1, <1>8, <2>2 DEF ReportHost, Types
  <2> QED BY <2>1, <2>2
<1>9. CASE EndScan
  BY <1>1, <1>9 DEF EndScan, Types
<1> QED BY <1>2, <1>3, <1>4, <1>5, <1>6, <1>7, <1>8, <1>9 DEF MainStep

LEMMA TaskTypes ==
  ASSUME IInv, NEW p \in Ports, TaskStep(p)
  PROVE  Types'
<1>1. Types
  BY DEF IInv
<1>2. /\ submitted' \in 0..MaxPorts /\ pool' \in {"open", "closing", "closed"}
      /\ targets' \in 0..MaxHosts /\ range' \in 0..MaxPorts /\ host' \in Nat
      /\ mpc' \in {"begin", "ping", "poll", "scan", "report", "end", "over"}
      /\ ping' \in Pings /\ total' \in Ints
  BY <1>1, TaskMoves DEF Types, mainVars
<1>3. started' \in Seq(Nat)
  <2>1. started \in Seq(Nat) /\ p \in Nat
    BY <1>1, Numbers DEF Types
  <2>2. started' = started \/ started' = Append(started, p)
    BY TaskMoves
  <2> QED BY <2>1, <2>2, AppendProperties
<1>4. finished' \in SUBSET Ports
  <2>1. finished' = finished \/ finished' = finished \cup {p}
    BY TaskMoves
  <2> QED BY <1>1, <2>1 DEF Types
<1>5. tpc' \in [Ports -> TaskPlaces]
  BY <1>1, TaskMoves DEF Types
<1>6. local' \in [Ports -> Closed..MaxFindings] /\ out_ports' \in Seq(Ports) /\ out_findings' \in Seq(Findings)
  <2>1. CASE Probe(p)
    BY <1>1, <2>1, Numbers DEF Probe, Types, Closed
  <2>2. CASE Collect(p)
    <3>1. Append(out_ports, p) \in Seq(Ports)
      BY <1>1, OneMore DEF Types
    <3>2. local[p] \in Closed..MaxFindings
      BY <1>1 DEF Types
    <3> DEFINE rows == [k \in 1..local[p] |-> <<p, k>>]
    <3>3. rows \in Seq(Findings)
      <4>1. tpc[p] = "collect" => local[p] # Closed
        BY DEF IInv, RowsInv
      <4>2. local[p] \in Nat /\ local[p] <= MaxFindings
        BY <2>2, <3>2, <4>1, Numbers DEF Collect, Closed
      <4>3. \A k \in 1..local[p] : <<p, k>> \in Findings
        BY <4>2, Numbers DEF Findings
      <4> QED BY <4>2, <4>3
    <3> HIDE DEF rows
    <3>4. out_findings \o rows \in Seq(Findings)
      BY <1>1, <3>3, RowsMore DEF Types
    <3> QED BY <1>1, <2>2, <3>1, <3>4 DEF Collect, Types, rows
  <2>3. CASE ~Probe(p) /\ ~Collect(p)
    <3>1. UNCHANGED <<local, out_ports, out_findings>>
      BY <2>3 DEF TaskStep, Begin, TickCount, TickLoad, TickExchange, TickExchangeFails, TickPrint
    <3> QED BY <1>1, <3>1 DEF Types
  <2> QED BY <2>1, <2>2, <2>3
<1>7. completed' \in Ints /\ last_percent' \in Ints
      /\ tick' \in [Ports -> [percent : Ints, expected : Ints]] /\ printed' \in Seq(Ints)
  <2>1. 0 \in Ints /\ NoTick \in [percent : Ints, expected : Ints] /\ tick[p].percent \in Ints
    BY <1>1, Numbers DEF Ints, NoTick, Types
  <2>2. ASSUME LoopWith(p, last_percent) PROVE tick' \in [Ports -> [percent : Ints, expected : Ints]]
    <3>1. CASE TaskEnds(p)
      <4>1. tick' = [tick EXCEPT ![p] = NoTick]
        BY <3>1, EndMoves
      <4> QED BY <1>1, <2>1, <4>1 DEF Types
    <3>2. CASE ~TaskEnds(p)
      <4>1. tick' = [tick EXCEPT ![p].expected = last_percent]
        BY <2>2, <3>2, LoopMoves
      <4> QED BY <1>1, <4>1 DEF Types
    <3> QED BY <3>1, <3>2
  <2>3. CASE Begin(p) \/ Probe(p) \/ Collect(p)
    BY <1>1, <2>3 DEF Begin, Probe, Collect, tickVars, Types
  <2>4. CASE TickCount(p)
    <3>1. completed' = Wrap(completed + 1) /\ completed + 1 \in Int
      BY <1>1, <2>4, Numbers DEF TickCount, Types, Ints
    <3>2. completed' \in Ints /\ completed' \in Int
      BY <3>1, WrapIsInt, Numbers DEF Ints
    <3>3. Percent(completed') \in Ints
      BY <1>1, <3>2, PercentIsInt DEF Types
    <3> QED BY <1>1, <2>1, <2>4, <3>2, <3>3 DEF TickCount, Types
  <2>5. CASE TickLoad(p)
    BY <1>1, <2>2, <2>5 DEF TickLoad, Types
  <2>6. CASE TickExchange(p)
    BY <1>1, <2>1, <2>6 DEF TickExchange, Types
  <2>7. CASE TickExchangeFails(p)
    BY <1>1, <2>2, <2>7 DEF TickExchangeFails, Types
  <2>8. CASE TickPrint(p)
    <3>1. printed' \in Seq(Ints)
      BY <1>1, <2>1, <2>8, OneMore DEF TickPrint, Types
    <3>2. tick' = [tick EXCEPT ![p] = NoTick]
      BY <2>8, EndMoves DEF TickPrint
    <3> QED BY <1>1, <2>1, <2>8, <3>1, <3>2 DEF TickPrint, Types
  <2> QED BY <2>3, <2>4, <2>5, <2>6, <2>7, <2>8 DEF TaskStep
<1> QED BY <1>2, <1>3, <1>4, <1>5, <1>6, <1>7 DEF Types
\* A started task is on the range, and when the pool is closed none is under way.
LEMMA UnderWay ==
  ASSUME IInv, NEW p \in Ports, tpc[p] \notin {"queued", "over"}
  PROVE  /\ p \in 1..range /\ pool # "closed" /\ mpc = "scan"
<1>1. Types /\ PoolInv /\ p \in Nat \ {0}
  BY DEF IInv, Ports
<1>2. started \in Seq(Nat) /\ submitted \in Nat /\ range \in Nat
  BY <1>1, Numbers DEF Types
<1>3. Len(started) \in Nat
  BY <1>2, LenProperties
<1>4. p <= Len(started) /\ Len(started) <= submitted /\ submitted <= range
  BY <1>1, <1>3 DEF PoolInv
<1>5. p \in 1..range
  BY <1>1, <1>2, <1>3, <1>4
<1>6. p \notin finished
  BY <1>1 DEF PoolInv
<1>7. pool # "closed"
  BY <1>1, <1>5, <1>6 DEF PoolInv
<1>8. mpc = "scan"
  BY <1>1, <1>2, <1>3, <1>4, <1>7 DEF PoolInv
<1> QED BY <1>5, <1>7, <1>8
LEMMA MainPool ==
  ASSUME IInv, MainStep
  PROVE  PoolInv'
<1> USE DEF poolVars, taskVars, tickVars, mainVars
<1>1. Types /\ PoolInv /\ HostInv
  BY DEF IInv
<1>2. /\ submitted \in Nat /\ started \in Seq(Nat) /\ Len(started) \in Nat /\ range \in Nat
      /\ submitted <= MaxPorts
  BY <1>1, LenProperties, Numbers DEF Types
<1>3. CASE BeginScan \/ PingSend \/ PingPoll \/ EndScan
  <2>1. UNCHANGED <<submitted, started, finished, pool, tpc, range>>
    BY <1>3 DEF BeginScan, PingSend, PingPoll, EndScan
  <2>2. CASE BeginScan
    BY <1>1, <2>1, <2>2 DEF BeginScan, PoolInv
  <2>3. CASE PingSend
    BY <1>1, <2>1, <2>3 DEF PingSend, PoolInv
  <2>4. CASE PingPoll
    BY <1>1, <2>1, <2>4 DEF PingPoll, PoolInv
  <2>5. CASE EndScan
    BY <1>1, <2>1, <2>5 DEF EndScan, PoolInv
  <2> QED BY <1>3, <2>2, <2>3, <2>4, <2>5
<1>4. CASE EnqueuePort
  <2>1. /\ submitted' = submitted + 1 /\ submitted < range /\ pool = "open" /\ mpc = "scan"
        /\ UNCHANGED <<started, finished, pool, tpc, range, mpc>>
    BY <1>4 DEF EnqueuePort, Pool!Submit
  <2> QED BY <1>1, <1>2, <2>1 DEF PoolInv
<1>5. CASE ClosePool
  BY <1>1, <1>5 DEF ClosePool, Pool!Close, PoolInv
<1>6. CASE PoolReturns
  BY <1>1, <1>6 DEF PoolReturns, Pool!Return, PoolInv
<1>7. CASE ReportHost
  <2>1. CASE host < targets
    <3>1. Len(<<>>) = 0 /\ Ports \subseteq Nat \ {0}
      BY EmptySeq DEF Ports
    <3>2. /\ submitted' = 0 /\ started' = <<>> /\ finished' = {} /\ pool' = "open"
          /\ tpc' = [p \in Ports |-> "queued"] /\ mpc' = "ping" /\ range' = range
      BY <1>7, <2>1 DEF ReportHost
    <3> QED BY <1>2, <3>1, <3>2 DEF PoolInv
  <2>2. CASE ~(host < targets)
    BY <1>1, <1>7, <2>2 DEF ReportHost, PoolInv
  <2> QED BY <2>1, <2>2
<1> QED BY <1>3, <1>4, <1>5, <1>6, <1>7 DEF MainStep

LEMMA TaskInPool ==
  ASSUME IInv, NEW p \in Ports, TaskStep(p)
  PROVE  PoolInv'
<1>1. Types /\ PoolInv /\ p \in Nat
  BY DEF IInv, Ports
<1>2. started \in Seq(Nat) /\ Len(started) \in Nat /\ submitted \in Nat /\ range \in Nat
  BY <1>1, LenProperties, Numbers DEF Types
<1>3. UNCHANGED <<submitted, pool, mpc, range>>
  BY TaskMoves DEF mainVars
<1>4. CASE Begin(p) /\ UNCHANGED finished /\ tpc' = [tpc EXCEPT ![p] = "probe"]
  <2>1. Len(started) < submitted /\ p = Len(started) + 1 /\ started' = Append(started, p)
    BY <1>4 DEF Begin, Pool!Start
  <2>2. Len(started') = Len(started) + 1
    BY <1>1, <1>2, <2>1, AppendProperties
  <2>3. \A q \in Ports : q \in Nat /\ (q > Len(started') <=> q > Len(started) /\ q # p)
    BY <1>2, <2>1, <2>2, Numbers
  <2>4. tpc[p] = "queued" /\ p \notin finished
    BY <1>1, <1>2, <2>1 DEF PoolInv
  <2> QED BY <1>1, <1>2, <1>3, <1>4, <2>1, <2>2, <2>3, <2>4 DEF PoolInv, Types
<1>5. CASE /\ tpc[p] \in TaskPlaces \ {"queued", "over"} /\ UNCHANGED <<started, finished>>
           /\ \E place \in TaskPlaces \ {"queued", "over"} : tpc' = [tpc EXCEPT ![p] = place]
  BY <1>1, <1>3, <1>5 DEF PoolInv, Types
<1>6. CASE /\ tpc[p] \in {"load", "cas", "print"} /\ UNCHANGED started
           /\ finished' = finished \cup {p} /\ tpc' = [tpc EXCEPT ![p] = "over"]
  <2>1. p \in 1..range /\ pool # "closed" /\ mpc = "scan"
    BY <1>6, UnderWay
  <2> QED BY <1>1, <1>3, <1>6, <2>1 DEF PoolInv, Types
<1> QED BY <1>4, <1>5, <1>6, TaskMoves

LEMMA MainHost ==
  ASSUME IInv, MainStep
  PROVE  HostInv'
<1> USE DEF poolVars, taskVars, tickVars, mainVars
<1>1. Types /\ HostInv /\ PoolInv /\ host \in Nat
  BY DEF IInv, Types
<1>2. CASE BeginScan
  BY <1>1, <1>2 DEF BeginScan, HostInv
<1>3. CASE PingSend
  <2>1. host \in 1..targets /\ echo \subseteq 1..host /\ host \in 1..host
    BY <1>1, <1>3, Numbers DEF PingSend, HostInv, Types
  <2>2. UNCHANGED <<host, targets>> /\ ping'.state # "ALIVE" /\ mpc' # "begin"
    BY <1>3 DEF PingSend, NoPing
  <2>3. echo' \subseteq 1..host
    BY <1>3, <2>1 DEF PingSend
  <2> QED BY <2>1, <2>2, <2>3 DEF HostInv
<1>4. CASE PingPoll
  <2>1. host \in 1..targets /\ echo \subseteq 1..host
    BY <1>1, <1>4 DEF PingPoll, HostInv
  <2>2. UNCHANGED <<host, targets>> /\ echo' \subseteq echo /\ mpc' # "begin"
    BY <1>4 DEF PingPoll
  <2>3. ping'.state = "ALIVE" => ping'.ttl \in 1..host
    BY <1>4, <2>1 DEF PingPoll, Packets, IsReply, NoPing
  <2> QED BY <2>1, <2>2, <2>3 DEF HostInv
<1>5. CASE EnqueuePort \/ ClosePool \/ PoolReturns
  <2>1. UNCHANGED <<host, targets, echo, ping>> /\ mpc = "scan" /\ mpc' # "begin"
    BY <1>5 DEF EnqueuePort, ClosePool, PoolReturns
  <2> QED BY <1>1, <2>1 DEF HostInv
<1>6. CASE ReportHost
  BY <1>1, <1>6, Numbers DEF ReportHost, HostInv, NoPing, Types
<1>7. CASE EndScan
  BY <1>1, <1>7 DEF EndScan, HostInv
<1> QED BY <1>2, <1>3, <1>4, <1>5, <1>6, <1>7 DEF MainStep

LEMMA TaskHost ==
  ASSUME IInv, NEW p \in Ports, TaskStep(p)
  PROVE  HostInv'
<1>1. UNCHANGED <<host, targets, echo, ping, mpc, pool>>
  BY TaskMoves DEF mainVars
<1> QED BY <1>1 DEF IInv, HostInv

\* The main thread leaves the rows alone, or begins anew with the next host.
LEMMA MainRows ==
  ASSUME IInv, MainStep
  PROVE  RowsInv'
<1> USE DEF poolVars, taskVars, tickVars, mainVars
<1>1. RowsInv
  BY DEF IInv
<1>2. CASE UNCHANGED <<tpc, local, out_ports, out_findings>>
  BY <1>1, <1>2 DEF RowsInv
<1>3. CASE ReportHost /\ host < targets
  <2>1. /\ tpc' = [q \in Ports |-> "queued"] /\ local' = [q \in Ports |-> Closed]
        /\ out_ports' = <<>> /\ out_findings' = <<>>
    BY <1>3 DEF ReportHost
  <2> QED BY <2>1, NothingThere DEF RowsInv, Closed
<1>4. \/ UNCHANGED <<tpc, local, out_ports, out_findings>>
      \/ ReportHost /\ host < targets
  <2>1. CASE ReportHost
    BY <2>1 DEF ReportHost
  <2>2. CASE ~ReportHost
    BY <2>2 DEF MainStep, BeginScan, PingSend, PingPoll, EnqueuePort, ClosePool, PoolReturns, EndScan
  <2> QED BY <2>1, <2>2
<1> QED BY <1>2, <1>3, <1>4

LEMMA TaskRows ==
  ASSUME IInv, NEW p \in Ports, TaskStep(p)
  PROVE  RowsInv'
<1>1. Types /\ RowsInv
  BY DEF IInv
<1>2. CASE Begin(p)
  <2>1. tpc[p] = "queued" /\ tpc' = [tpc EXCEPT ![p] = "probe"] /\ UNCHANGED <<local, out_ports, out_findings>>
    <3>1. p = Len(started) + 1 /\ Len(started) \in Nat
      BY <1>1, <1>2, LenProperties DEF Begin, Types
    <3>2. tpc[p] = "queued"
      BY <3>1 DEF IInv, PoolInv
    <3> QED BY <1>2, <3>2 DEF Begin
  <2> QED BY <1>1, <2>1 DEF RowsInv, Types
<1>3. CASE Probe(p)
  <2>1. /\ tpc[p] = "probe" /\ UNCHANGED <<out_ports, out_findings>>
        /\ \/ tpc' = [tpc EXCEPT ![p] = "tick"] /\ UNCHANGED local
           \/ /\ tpc' = [tpc EXCEPT ![p] = "collect"]
              /\ \E n \in 0..MaxFindings : local' = [local EXCEPT ![p] = n]
    BY <1>3 DEF Probe
  <2>2. local[p] = Closed /\ p \notin ToSet(out_ports)
    BY <1>1, <2>1 DEF RowsInv
  <2>3. CASE tpc' = [tpc EXCEPT ![p] = "tick"] /\ UNCHANGED local
    BY <1>1, <2>1, <2>2, <2>3 DEF RowsInv, Types
  <2>4. CASE /\ tpc' = [tpc EXCEPT ![p] = "collect"]
             /\ \E n \in 0..MaxFindings : local' = [local EXCEPT ![p] = n]
    <3>1. PICK n \in 0..MaxFindings : local' = [local EXCEPT ![p] = n]
      BY <2>4
    <3>2. n # Closed
      BY Numbers DEF Closed
    <3>3. ASSUME NEW f \in Findings
          PROVE  f \in ToSet(out_findings)' <=> f[1] \in ToSet(out_ports)' /\ f[2] \in 1..local'[f[1]]
      <4>1. f[1] \in Ports
        BY DEF Findings
      <4>2. CASE f[1] = p
        BY <1>1, <2>1, <2>2, <4>2 DEF RowsInv
      <4>3. CASE f[1] # p
        <5>1. local'[f[1]] = local[f[1]]
          BY <1>1, <3>1, <4>1, <4>3 DEF Types
        <5> QED BY <1>1, <2>1, <5>1 DEF RowsInv
      <4> QED BY <4>2, <4>3
    <3>4. \A q \in Ports : q \in ToSet(out_ports)' <=> local'[q] # Closed /\ tpc'[q] # "collect"
      BY <1>1, <2>1, <2>2, <2>4, <3>1 DEF RowsInv, Types
    <3>5. /\ \A q \in Ports : tpc'[q] \in {"queued", "probe"} => local'[q] = Closed
          /\ \A q \in Ports : tpc'[q] = "collect" => local'[q] # Closed
      BY <1>1, <2>1, <2>4, <3>1, <3>2 DEF RowsInv, Types
    <3> QED BY <1>1, <2>1, <3>3, <3>4, <3>5 DEF RowsInv
  <2> QED BY <2>1, <2>3, <2>4
<1>4. CASE Collect(p)
  <2> DEFINE rows == [k \in 1..local[p] |-> <<p, k>>]
  <2>1. /\ tpc[p] = "collect" /\ UNCHANGED local /\ tpc' = [tpc EXCEPT ![p] = "tick"]
        /\ out_ports' = Append(out_ports, p) /\ out_findings' = out_findings \o rows
    BY <1>4 DEF Collect
  <2>2. local[p] \in Nat /\ local[p] <= MaxFindings /\ local[p] # Closed
    BY <1>1, <2>1, Numbers DEF RowsInv, Types, Closed
  <2>3. p \notin ToSet(out_ports) /\ \A f \in Findings : f[1] = p => f \notin ToSet(out_findings)
    BY <1>1, <2>1 DEF RowsInv
  <2>4. /\ rows \in Seq(Findings) /\ NoRepeat(rows)
        /\ \A f \in Findings : f \in ToSet(rows) <=> f[1] = p /\ f[2] \in 1..local[p]
    <3>1. \A k \in 1..local[p] : <<p, k>> \in Findings
      BY <2>2, Numbers DEF Findings
    <3>2. rows \in Seq(Findings) /\ Len(rows) = local[p] /\ \A k \in 1..local[p] : rows[k] = <<p, k>>
      BY <2>2, <3>1
    <3> HIDE DEF rows
    <3>3. ToSet(rows) = {rows[k] : k \in 1..Len(rows)}
      BY <3>2, ElementsAt
    <3>4. NoRepeat(rows)
      BY <3>2 DEF NoRepeat
    <3>5. ASSUME NEW f \in Findings PROVE f \in ToSet(rows) <=> f[1] = p /\ f[2] \in 1..local[p]
      <4>1. f = <<f[1], f[2]>>
        BY DEF Findings
      <4>2. f \in ToSet(rows) <=> \E k \in 1..local[p] : f = <<p, k>>
        BY <3>2, <3>3
      <4> QED BY <4>1, <4>2
    <3> QED BY <3>2, <3>4, <3>5
  <2> HIDE DEF rows
  <2>5. /\ ToSet(out_ports)' = ToSet(out_ports) \cup {p} /\ NoRepeat(out_ports)'
    <3>1. out_ports \in Seq(Ports) /\ NoRepeat(out_ports)
      BY <1>1 DEF Types, RowsInv
    <3>2. /\ ToSet(Append(out_ports, p)) = ToSet(out_ports) \cup {p}
          /\ NoRepeat(Append(out_ports, p))
      BY <2>3, <3>1, OneMore
    <3> QED BY <2>1, <3>2
  <2>6. /\ ToSet(out_findings)' = ToSet(out_findings) \cup ToSet(rows) /\ NoRepeat(out_findings)'
    <3>1. out_findings \in Seq(Findings) /\ NoRepeat(out_findings)
      BY <1>1 DEF Types, RowsInv
    <3>2. ToSet(out_findings) \subseteq Findings /\ ToSet(rows) \subseteq Findings
      BY <2>4, <3>1, ElementsAt
    <3>3. ToSet(out_findings) \cap ToSet(rows) = {}
      BY <2>3, <2>4, <3>2
    <3>4. /\ ToSet(out_findings \o rows) = ToSet(out_findings) \cup ToSet(rows)
          /\ NoRepeat(out_findings \o rows)
      BY <2>4, <3>1, <3>3, RowsMore
    <3> QED BY <2>1, <3>4
  <2>7. \A q \in Ports : q \in ToSet(out_ports)' <=> local'[q] # Closed /\ tpc'[q] # "collect"
    BY <1>1, <2>1, <2>2, <2>5 DEF RowsInv, Types
  <2>8. ASSUME NEW f \in Findings
        PROVE  f \in ToSet(out_findings)' <=> f[1] \in ToSet(out_ports)' /\ f[2] \in 1..local'[f[1]]
    BY <1>1, <2>1, <2>3, <2>4, <2>5, <2>6 DEF RowsInv
  <2>9. /\ \A q \in Ports : tpc'[q] \in {"queued", "probe"} => local'[q] = Closed
        /\ \A q \in Ports : tpc'[q] = "collect" => local'[q] # Closed
    BY <1>1, <2>1 DEF RowsInv, Types
  <2> QED BY <2>5, <2>6, <2>7, <2>8, <2>9 DEF RowsInv
<1>5. CASE ~Begin(p) /\ ~Probe(p) /\ ~Collect(p)
  <2>1. UNCHANGED <<local, out_ports, out_findings>>
    BY <1>5 DEF TaskStep, TickCount, TickLoad, TickExchange, TickExchangeFails, TickPrint
  <2>2. tpc[p] \notin {"queued", "probe", "collect"}
    BY <1>5 DEF TaskStep, TickCount, TickLoad, TickExchange, TickExchangeFails, TickPrint
  <2>3. \E place \in TaskPlaces \ {"queued", "probe", "collect"} : tpc' = [tpc EXCEPT ![p] = place]
    BY <1>5, LoopMoves, EndMoves
    DEF TaskStep, TickCount, TickLoad, TickExchange, TickExchangeFails, TickPrint, TaskPlaces
  <2> QED BY <1>1, <2>1, <2>2, <2>3 DEF RowsInv, Types
<1> QED BY <1>2, <1>3, <1>4, <1>5
\* The task after the head of the loop, and the others.
LEMMA LoopLeaves ==
  ASSUME Types, NEW p \in Ports, NEW seen \in Ints, LoopWith(p, seen)
  PROVE  /\ \A q \in Ports \ {p} : tick'[q] = tick[q] /\ tpc'[q] = tpc[q]
         /\ \/ /\ tpc'[p] = "cas" /\ tick[p].percent > seen
               /\ tick'[p].percent = tick[p].percent /\ tick'[p].expected = seen
            \/ tpc'[p] = "over" /\ ~(tick[p].percent > seen)
<1>1. CASE /\ tick[p].percent > seen
           /\ tick' = [tick EXCEPT ![p].expected = seen]
           /\ tpc' = [tpc EXCEPT ![p] = "cas"]
  BY <1>1 DEF Types
<1>2. CASE ~(tick[p].percent > seen) /\ TaskEnds(p)
  <2>1. tpc' = [tpc EXCEPT ![p] = "over"] /\ tick' = [tick EXCEPT ![p] = NoTick]
    BY <1>2, EndMoves
  <2> QED BY <1>2, <2>1 DEF Types
<1> QED BY <1>1, <1>2, LoopMoves

\* Tasks run only while the main thread is in the scope of the pool, on ports of the range.
LEMMA TaskRuns ==
  ASSUME IInv, NEW p \in Ports, TaskStep(p)
  PROVE  p \in 1..range /\ mpc = "scan" /\ tpc[p] # "over"
<1>1. Types /\ PoolInv /\ p \in Nat \ {0}
  BY DEF IInv, Ports
<1>2. Len(started) \in Nat /\ submitted \in Nat /\ range \in Nat
  BY <1>1, LenProperties, Numbers DEF Types
<1>3. CASE p = Len(started) + 1 /\ Begin(p)
  <2>1. Len(started) < submitted /\ pool # "closed"
    BY <1>3 DEF Begin, Pool!Start
  <2>2. tpc[p] = "queued"
    BY <1>1, <1>2, <1>3 DEF PoolInv
  <2> QED BY <1>1, <1>2, <1>3, <2>1, <2>2 DEF PoolInv
<1>4. CASE tpc[p] \notin {"queued", "over"}
  BY <1>4, UnderWay
<1> QED BY <1>3, <1>4, TaskMoves

LEMMA MainLines ==
  ASSUME IInv, MainStep
  PROVE  LinesInv'
<1> USE DEF poolVars, taskVars, tickVars, mainVars
<1>1. LinesInv /\ Types
  BY DEF IInv
<1>2. CASE BeginScan
  <2>1. mpc = "begin" /\ mpc' # "begin" /\ UNCHANGED <<tpc, tick, printed>>
    BY <1>2 DEF BeginScan
  <2>2. \A p \in Ports : tpc[p] \in {"queued", "over"}
    BY <2>1, UnderWay
  <2>3. printed = <<>> /\ Len(printed) = 0
    BY <1>1, <2>1, EmptySeq DEF LinesInv
  <2> QED BY <2>1, <2>2, <2>3, NothingThere DEF LinesInv
<1>3. CASE ReportHost
  <2>1. mpc' # "begin" /\ UNCHANGED <<last_percent, tick, printed>>
    BY <1>3 DEF ReportHost
  <2>2. UNCHANGED tpc \/ \A p \in Ports : tpc'[p] = "queued"
    BY <1>3 DEF ReportHost
  <2> QED BY <1>1, <2>1, <2>2 DEF LinesInv
<1>4. CASE ~BeginScan /\ ~ReportHost
  <2>1. mpc' # "begin" /\ UNCHANGED <<last_percent, tick, printed, tpc>>
    BY <1>1, <1>4 DEF MainStep, PingSend, PingPoll, EnqueuePort, ClosePool, PoolReturns, EndScan
  <2> QED BY <1>1, <2>1 DEF LinesInv
<1> QED BY <1>2, <1>3, <1>4

LEMMA TaskLines ==
  ASSUME IInv, NEW p \in Ports, TaskStep(p)
  PROVE  LinesInv'
<1>1. LinesInv /\ Types /\ mpc # "begin" /\ mpc' # "begin"
  BY TaskRuns, TaskMoves DEF IInv, mainVars
<1>2. \A q \in Ports \ {p} : tpc'[q] = tpc[q]
  BY <1>1, TaskMoves DEF Types
<1>3. CASE Begin(p) \/ Probe(p) \/ Collect(p) \/ TickCount(p)
  <2>1. tpc'[p] \notin {"print", "cas"} /\ UNCHANGED <<last_percent, printed>>
    BY <1>1, <1>3 DEF Begin, Probe, Collect, TickCount, tickVars, Types
  <2>2. \A q \in Ports \ {p} : tick'[q] = tick[q]
    BY <1>1, <1>3 DEF Begin, Probe, Collect, TickCount, tickVars, Types
  <2> QED BY <1>1, <1>2, <2>1, <2>2 DEF LinesInv
<1>4. CASE TickLoad(p) \/ TickExchangeFails(p)
  <2>1. LoopWith(p, last_percent) /\ UNCHANGED <<last_percent, printed>>
    BY <1>4 DEF TickLoad, TickExchangeFails
  <2>2. last_percent \in Ints
    BY <1>1 DEF Types
  <2>3. /\ \A q \in Ports \ {p} : tick'[q] = tick[q]
        /\ tpc'[p] # "print" /\ (tpc'[p] = "cas" => tick'[p].percent > tick'[p].expected)
    BY <1>1, <2>1, <2>2, LoopLeaves
  <2> QED BY <1>1, <1>2, <2>1, <2>2, <2>3 DEF LinesInv
<1>5. CASE TickExchange(p)
  <2>1. /\ tpc[p] = "cas" /\ last_percent = tick[p].expected /\ last_percent' = tick[p].percent
        /\ tpc'[p] = "print" /\ UNCHANGED <<tick, printed>>
    BY <1>1, <1>5 DEF TickExchange, Types
  <2>2. last_percent < last_percent' /\ last_percent \in Int /\ last_percent' \in Int
    BY <1>1, <2>1, Numbers DEF LinesInv, Types, Ints
  <2>3. /\ \A q \in Ports : tick[q].percent \in Int
        /\ \A i \in 1..Len(printed) : printed[i] \in Int
    <3>1. printed \in Seq(Ints)
      BY <1>1 DEF Types
    <3>2. printed \in [1..Len(printed) -> Ints]
      BY <3>1, ElementsAt
    <3>3. Ints \subseteq Int
      BY Numbers DEF Ints
    <3> QED BY <1>1, <3>2, <3>3 DEF Types
  <2>4. \A i \in 1..Len(printed) : printed[i] <= last_percent' /\ printed[i] # tick[p].percent
    BY <1>1, <2>1, <2>2, <2>3 DEF LinesInv
  <2>5. \A q \in Ports \ {p} : tpc[q] = "print" =>
           tick[q].percent <= last_percent' /\ tick[q].percent # tick[p].percent
    BY <1>1, <2>1, <2>2, <2>3 DEF LinesInv
  <2>6. tick[p].percent <= last_percent'
    BY <2>1, <2>2
  <2> QED BY <1>1, <1>2, <2>1, <2>4, <2>5, <2>6 DEF LinesInv
<1>6. CASE TickPrint(p)
  <2>1. /\ tpc[p] = "print" /\ printed' = Append(printed, tick[p].percent)
        /\ tpc'[p] = "over" /\ UNCHANGED last_percent
    BY <1>1, <1>6, EndMoves DEF TickPrint, Types
  <2>2. \A q \in Ports \ {p} : tick'[q] = tick[q]
    BY <1>1, <1>6, EndMoves DEF TickPrint, Types
  <2>3. printed \in Seq(Ints) /\ tick[p].percent \in Ints
    BY <1>1 DEF Types
  <2>4. /\ Len(printed) \in Nat /\ Len(printed') = Len(printed) + 1
        /\ \A i \in 1..Len(printed) : printed'[i] = printed[i]
        /\ printed'[Len(printed) + 1] = tick[p].percent
    BY <2>1, <2>3, AppendProperties, LenProperties
  <2>5. NoRepeat(printed')
    BY <1>1, <2>1, <2>4 DEF LinesInv, NoRepeat
  <2>6. \A i \in 1..Len(printed') : i \in 1..Len(printed) \/ i = Len(printed) + 1
    BY <2>4
  <2>7. \A i \in 1..Len(printed') : printed'[i] <= last_percent'
    BY <1>1, <2>1, <2>4, <2>6 DEF LinesInv
  <2>8. \A q \in Ports \ {p} : tpc[q] = "print" =>
           \A i \in 1..Len(printed') : printed'[i] # tick'[q].percent
    BY <1>1, <2>1, <2>2, <2>4, <2>6 DEF LinesInv
  <2> QED BY <1>1, <1>2, <2>1, <2>2, <2>5, <2>7, <2>8 DEF LinesInv
<1> QED BY <1>3, <1>4, <1>5, <1>6 DEF TaskStep
-----------------------------------------------------------------------------
(* The count of the reporter. *)

\* Only ports of the range have been started, and before the scan none has.
LEMMA StartedPorts ==
  ASSUME IInv, NEW p \in Ports
  PROVE  /\ tpc[p] # "queued" => p \in 1..range
         /\ pool # "closed" /\ mpc # "scan" => tpc[p] = "queued"
         /\ pool = "closed" => (tpc[p] = "over" <=> p \in 1..range) /\ tpc[p] \in {"queued", "over"}
<1>1. Types /\ PoolInv /\ p \in Nat \ {0}
  BY DEF IInv, Ports
<1>2. Len(started) \in Nat /\ submitted \in Nat /\ range \in Nat
  BY <1>1, LenProperties, Numbers DEF Types
<1>3. pool = "closed" => tpc[p] \in {"queued", "over"}
  BY UnderWay
<1> QED BY <1>1, <1>2, <1>3 DEF PoolInv

LEMMA TickedPorts ==
  ASSUME IInv
  PROVE  /\ Ticked \subseteq 1..range /\ IsFiniteSet(Ticked)
         /\ Cardinality(Ticked) \in Nat /\ Cardinality(Ticked) <= range
         /\ \A p \in Ports : tpc[p] = "tick" =>
               /\ Cardinality(Ticked \cup {p}) = Cardinality(Ticked) + 1
               /\ Cardinality(Ticked) + 1 <= range
         /\ pool # "closed" /\ mpc # "scan" => Cardinality(Ticked) = 0
         /\ pool = "closed" => Cardinality(Ticked) = range
<1>1. range \in Nat /\ range <= MaxPorts
  BY Numbers DEF IInv, Types
<1>2. IsFiniteSet(1..range) /\ Cardinality(1..range) = range
  <2>1. 1 \in Int /\ range \in Int /\ (1 > range <=> range = 0) /\ range - 1 + 1 = range
    BY <1>1
  <2>2. Cardinality(1..range) = IF 1 > range THEN 0 ELSE range - 1 + 1
    BY <2>1, FS_Interval
  <2>3. IsFiniteSet(1..range)
    BY <2>1, FS_Interval
  <2> QED BY <2>1, <2>2, <2>3
<1>3. Ticked \in SUBSET (1..range)
  BY StartedPorts DEF Ticked
<1>4. IsFiniteSet(Ticked) /\ Cardinality(Ticked) <= range
  BY <1>2, <1>3, FS_Subset
<1>5. Cardinality(Ticked) \in Nat
  BY <1>4, FS_CardinalityType
<1>6. ASSUME NEW p \in Ports, tpc[p] = "tick"
      PROVE  /\ Cardinality(Ticked \cup {p}) = Cardinality(Ticked) + 1
             /\ Cardinality(Ticked) + 1 <= range
  <2>1. p \notin Ticked
    BY <1>6 DEF Ticked
  <2>2. Cardinality(Ticked \cup {p}) = Cardinality(Ticked) + 1
    BY <1>4, <2>1, FS_AddElement
  <2>3. p \in 1..range
    BY <1>6, StartedPorts
  <2>4. Ticked \cup {p} \in SUBSET (1..range)
    BY <1>3, <2>3
  <2>5. Cardinality(Ticked \cup {p}) <= range
    BY <1>2, <2>4, FS_Subset
  <2> QED BY <2>2, <2>5
<1>7. pool # "closed" /\ mpc # "scan" => Cardinality(Ticked) = 0
  <2>1. pool # "closed" /\ mpc # "scan" => Ticked = {}
    BY StartedPorts DEF Ticked
  <2> QED BY <2>1, FS_EmptySet
<1>8. pool = "closed" => Cardinality(Ticked) = range
  <2>1. 1..range \subseteq Ports
    BY <1>1, Numbers DEF Ports
  <2>2. pool = "closed" => Ticked = 1..range
    BY <2>1, StartedPorts DEF Ticked
  <2> QED BY <1>2, <2>2
<1> QED BY <1>3, <1>4, <1>5, <1>6, <1>7, <1>8

\* The count never exceeds the total, so it fits when the total does.
LEMMA CountFits ==
  ASSUME IInv, Fits, mpc # "begin"
  PROVE  /\ total \in Nat /\ completed \in Nat /\ completed * Scale < IntBound
         /\ \A p \in Ports : tpc[p] = "tick" =>
               (completed + 1) * Scale < IntBound /\ completed + 1 < IntBound
<1> DEFINE c == Cardinality(Ticked)
           most == targets * range
<1>1. /\ targets \in Nat /\ range \in Nat /\ most \in Nat /\ Scale \in Nat \ {0} /\ IntBound \in Nat
      /\ total = most /\ completed = (host - 1) * range + c /\ most * Scale < IntBound
  BY Numbers DEF IInv, Types, CountInv, Fits
<1>2. \A x, y, m \in Nat : x <= y => x * m <= y * m
  OBVIOUS
<1>3. /\ c \in Nat /\ c <= range /\ \A p \in Ports : tpc[p] = "tick" => c + 1 <= range
      /\ pool # "closed" /\ mpc # "scan" => c = 0
  BY TickedPorts
<1>4. HostInv
  BY DEF IInv
<1> HIDE DEF c
<1>5. /\ completed \in Nat /\ completed <= most
      /\ \A p \in Ports : tpc[p] = "tick" => completed + 1 <= most
  <2>1. CASE host \in 1..targets
    <3> DEFINE b == (host - 1) * range
    <3>1. b \in Nat /\ b + range = host * range
      <4> DEFINE h == host - 1
      <4>1. h \in Nat /\ host = h + 1
        BY <1>1, <2>1
      <4> HIDE DEF h
      <4>2. h * range \in Nat /\ h * range + range = (h + 1) * range
        BY <1>1, <4>1
      <4>3. host - 1 = h
        BY DEF h
      <4> QED BY <4>1, <4>2, <4>3
    <3>2. host * range <= most
      BY <1>1, <1>2, <2>1
    <3>3. completed = b + c
      BY <1>1
    <3> HIDE DEF b, most
    <3>4. host * range \in Nat
      BY <1>1, <2>1
    <3> QED BY <1>1, <1>3, <3>1, <3>2, <3>3, <3>4
  <2>2. CASE targets = 0 /\ host = 1 /\ mpc # "scan" /\ pool # "closed"
    <3>1. (host - 1) * range = 0
      BY <1>1, <2>2
    <3>2. \A p \in Ports : tpc[p] = "queued"
      BY <2>2, StartedPorts
    <3> QED BY <1>1, <1>3, <2>2, <3>1, <3>2
  <2> QED BY <1>4, <2>1, <2>2 DEF HostInv
<1>6. \A x \in Nat : x <= most => x * Scale < IntBound /\ x < IntBound
  <2> HIDE DEF most
  <2> SUFFICES ASSUME NEW x \in Nat, x <= most PROVE x * Scale < IntBound /\ x < IntBound
    OBVIOUS
  <2>1. x * Scale <= most * Scale /\ x <= x * Scale /\ x * Scale \in Nat /\ most * Scale \in Nat
    BY <1>1, <1>2
  <2> QED BY <1>1, <2>1
<1> QED BY <1>1, <1>5, <1>6
LEMMA MainCount ==
  ASSUME IInv, MainStep
  PROVE  CountInv'
<1> USE DEF poolVars, taskVars, tickVars, mainVars
<1>1. Types /\ CountInv /\ HostInv /\ PoolInv
  BY DEF IInv
<1>2. targets \in Nat /\ range \in Nat /\ host \in Nat
  BY <1>1, Numbers DEF Types
<1>3. CASE BeginScan
  <2>1. /\ mpc = "begin" /\ mpc' # "begin" /\ UNCHANGED <<targets, range, host, tpc>>
        /\ completed' = 0 /\ total' = IF targets = 0 THEN 0 ELSE Wrap(targets * range)
    BY <1>1, <1>3 DEF BeginScan, CountInv
  <2>2. Fits => Wrap(targets * range) = targets * range
    <3> DEFINE most == targets * range
    <3>1. most \in Nat /\ Scale \in Nat \ {0} /\ IntBound \in Nat /\ (Fits => most * Scale < IntBound)
      BY <1>2, Numbers DEF Fits
    <3> HIDE DEF most
    <3>2. most <= most * Scale /\ most * Scale \in Nat
      BY <3>1
    <3>3. Fits => most \in 0..IntBound - 1
      BY <3>1, <3>2
    <3> QED BY <3>3, WrapIsInt DEF most
  <2>3. Fits' => Fits
    BY <2>1 DEF Fits
  <2>4. Ticked' = Ticked /\ Cardinality(Ticked) = 0 /\ host = 1
    BY <1>1, <2>1, TickedPorts DEF Ticked, HostInv
  <2>5. Fits => total' = targets * range
    BY <1>2, <2>1, <2>2
  <2> QED BY <1>2, <2>1, <2>3, <2>4, <2>5 DEF CountInv
<1>4. CASE ReportHost /\ host < targets
  <2>1. /\ mpc = "report" /\ mpc' # "begin" /\ UNCHANGED <<targets, range, total, completed>>
        /\ host' = host + 1 /\ pool' = "open" /\ \A p \in Ports : tpc'[p] = "queued"
    BY <1>4 DEF ReportHost
  <2>2. Ticked' = {}
    BY <2>1 DEF Ticked
  <2>3. Cardinality(Ticked') = 0 /\ Cardinality(Ticked) = range
    BY <1>1, <2>1, <2>2, TickedPorts, FS_EmptySet DEF PoolInv
  <2>4. Fits' => Fits
    BY <2>1 DEF Fits
  <2>5. host \in Nat \ {0} /\ (host - 1) * range + range = (host' - 1) * range + 0
    <3> DEFINE h == host - 1
    <3>1. host \in Nat \ {0}
      BY <1>1, <1>2, <2>1 DEF HostInv
    <3>2. h \in Nat /\ host' - 1 = h + 1
      BY <2>1, <3>1
    <3> HIDE DEF h
    <3>3. h * range + range = (h + 1) * range + 0
      BY <1>2, <3>2
    <3>4. host - 1 = h
      BY DEF h
    <3> QED BY <3>1, <3>2, <3>3, <3>4
  <2> QED BY <1>1, <2>1, <2>3, <2>4, <2>5 DEF CountInv
<1>5. CASE ~BeginScan /\ (ReportHost => ~(host < targets))
  <2>1. mpc # "begin" /\ mpc' # "begin" /\ UNCHANGED <<targets, range, host, tpc, total, completed>>
    <3>1. CASE ReportHost
      BY <1>5, <3>1 DEF ReportHost
    <3>2. CASE ~ReportHost
      BY <1>5, <3>2 DEF MainStep, PingSend, PingPoll, EnqueuePort, ClosePool, PoolReturns, EndScan
    <3> QED BY <3>1, <3>2
  <2>2. Ticked' = Ticked /\ (Fits' => Fits)
    BY <2>1 DEF Ticked, Fits
  <2> QED BY <1>1, <2>1, <2>2 DEF CountInv
<1> QED BY <1>3, <1>4, <1>5

LEMMA TaskCount ==
  ASSUME IInv, NEW p \in Ports, TaskStep(p)
  PROVE  CountInv'
<1>1. Types /\ CountInv /\ mpc # "begin"
  BY TaskRuns DEF IInv
<1>2. UNCHANGED <<targets, range, host, total, mpc>> /\ (Fits' => Fits)
  BY TaskMoves DEF mainVars, Fits
<1>3. \A q \in Ports \ {p} : tpc'[q] = tpc[q]
  BY <1>1, TaskMoves DEF Types
<1>4. CASE TickCount(p)
  <2>1. tpc[p] = "tick" /\ tpc'[p] = "load" /\ completed' = Wrap(completed + 1)
    BY <1>1, <1>4 DEF TickCount, Types
  <2>2. Ticked' = Ticked \cup {p}
    BY <1>3, <2>1 DEF Ticked
  <2>3. Cardinality(Ticked') = Cardinality(Ticked) + 1 /\ Cardinality(Ticked) \in Nat
    BY <2>1, <2>2, TickedPorts
  <2>4. Fits => completed \in Nat /\ completed + 1 \in 0..IntBound - 1
    BY <1>1, <2>1, CountFits, Numbers
  <2>5. Fits => completed' = completed + 1
    BY <2>1, <2>4, WrapIsInt
  <2>6. Fits => completed = (host - 1) * range + Cardinality(Ticked) /\ total = targets * range
    BY <1>1 DEF CountInv
  <2>7. (host - 1) * range \in Int
    BY <1>1, Numbers DEF Types
  <2> DEFINE b == (host - 1) * range
             c == Cardinality(Ticked)
  <2>8. Fits => completed' = b + (c + 1)
    <3>1. b \in Int /\ c \in Nat /\ (Fits => completed = b + c /\ completed' = completed + 1)
      BY <2>3, <2>5, <2>6, <2>7
    <3> HIDE DEF b, c
    <3> QED BY <3>1
  <2> QED BY <1>1, <1>2, <2>3, <2>6, <2>8 DEF CountInv
<1>5. CASE ~TickCount(p)
  <2>1. UNCHANGED completed
    BY <1>5 DEF TaskStep, Begin, Probe, Collect, TickLoad, TickExchange, TickExchangeFails,
                TickPrint, tickVars
  <2>2. p \in Ticked' <=> p \in Ticked
    <3>1. CASE Begin(p)
      <4>1. p = Len(started) + 1 /\ Len(started) \in Nat
        BY <1>1, <3>1, LenProperties DEF Begin, Types
      <4>2. tpc[p] = "queued"
        BY <4>1 DEF IInv, PoolInv
      <4> QED BY <1>1, <3>1, <4>2 DEF Begin, Ticked, Types
    <3>2. CASE Probe(p) \/ Collect(p)
      BY <1>1, <3>2 DEF Probe, Collect, Ticked, Types
    <3>3. CASE TickLoad(p) \/ TickExchangeFails(p)
      <4>1. tpc[p] \in {"load", "cas"} /\ LoopWith(p, last_percent) /\ last_percent \in Ints
        BY <1>1, <3>3 DEF TickLoad, TickExchangeFails, Types
      <4>2. tpc'[p] \in {"cas", "over"}
        BY <1>1, <4>1, LoopLeaves
      <4> QED BY <4>1, <4>2 DEF Ticked
    <3>4. CASE TickExchange(p) \/ TickPrint(p)
      BY <1>1, <3>4, EndMoves DEF TickExchange, TickPrint, Ticked, Types
    <3> QED BY <1>5, <3>1, <3>2, <3>3, <3>4 DEF TaskStep
  <2>3. Ticked' = Ticked
    BY <1>3, <2>2 DEF Ticked
  <2> QED BY <1>1, <1>2, <2>1, <2>3 DEF CountInv
<1> QED BY <1>4, <1>5
LEMMA MainShown ==
  ASSUME IInv, MainStep
  PROVE  ShownInv'
<1> USE DEF poolVars, taskVars, tickVars, mainVars
<1>1. Types /\ CountInv /\ HostInv /\ PoolInv /\ ShownInv
  BY DEF IInv
<1>2. CASE BeginScan
  <2>1. /\ mpc = "begin" /\ completed' = 0 /\ last_percent' = -1 /\ UNCHANGED tpc
    BY <1>1, <1>2 DEF BeginScan, CountInv
  <2>2. \A p \in Ports : tpc[p] = "queued"
    BY <1>1, <2>1, StartedPorts DEF HostInv
  <2>3. -1 <= Percent(completed)'
    <3>1. Wrap(0 * Scale) = 0
      BY Numbers, WrapIsInt
    <3>2. total' \in Int
      BY MainTypes, Numbers DEF Types, Ints
    <3>3. \A n \in Nat \ {0} : 0 \div n = 0
      OBVIOUS
    <3>4. Percent(completed)' = IF total' > 0 THEN 0 \div total' ELSE Scale
      BY <2>1, <3>1 DEF Percent, Quotient
    <3>5. CASE total' > 0
      <4>1. total' \in Nat \ {0}
        BY <3>2, <3>5
      <4>2. 0 \div total' = 0
        BY <3>3, <4>1
      <4> QED BY <3>4, <3>5, <4>2
    <3>6. CASE ~(total' > 0)
      BY <3>4, <3>6, Numbers
    <3> QED BY <3>5, <3>6
  <2> QED BY <2>1, <2>2, <2>3 DEF ShownInv
<1>3. CASE ~BeginScan
  <2>1. /\ mpc # "begin" /\ UNCHANGED <<targets, range, total, completed, last_percent, tick, printed>>
    BY <1>3 DEF MainStep, PingSend, PingPoll, EnqueuePort, ClosePool, PoolReturns, ReportHost, EndScan
  <2>2. \A p \in Ports : tpc'[p] = tpc[p] \/ {tpc[p], tpc'[p]} \subseteq {"queued", "over"}
    <3>1. CASE ReportHost
      <4>1. pool = "closed" /\ (UNCHANGED tpc \/ \A p \in Ports : tpc'[p] = "queued")
        BY <1>1, <3>1 DEF ReportHost, PoolInv
      <4>2. \A p \in Ports : tpc[p] \in {"queued", "over"}
        BY <4>1, StartedPorts
      <4> QED BY <4>1, <4>2
    <3>2. CASE ~ReportHost
      BY <1>3, <3>2 DEF MainStep, PingSend, PingPoll, EnqueuePort, ClosePool, PoolReturns, EndScan
    <3> QED BY <3>1, <3>2
  <2>3. Percent(completed)' = Percent(completed) /\ (Fits' => Fits)
    BY <2>1 DEF Percent, Fits
  <2>4. \A p \in Ports, place \in {"load", "cas", "print"} : tpc'[p] = place <=> tpc[p] = place
    BY <2>2
  <2> QED BY <1>1, <2>1, <2>3, <2>4 DEF ShownInv
<1> QED BY <1>2, <1>3

LEMMA TaskShown ==
  ASSUME IInv, NEW p \in Ports, TaskStep(p)
  PROVE  ShownInv'
<1>1. Types /\ LinesInv /\ mpc # "begin"
  BY TaskRuns DEF IInv
<1>2. UNCHANGED <<targets, range, total, mpc>> /\ (Fits' => Fits)
  BY TaskMoves DEF mainVars, Fits
<1>3. \A q \in Ports \ {p} : tpc'[q] = tpc[q]
  BY <1>1, TaskMoves DEF Types
<1> SUFFICES ASSUME Fits PROVE ShownInv'
  BY <1>2 DEF ShownInv
<1> DEFINE top == Percent(completed)
<1>4. /\ last_percent \in Int /\ \A q \in Ports : tick[q].percent \in Int /\ tick[q].expected \in Int
      /\ completed \in Int /\ last_percent \in Ints
  BY <1>1, Numbers DEF Types, Ints
<1>5. /\ \/ last_percent = -1
         \/ last_percent \in ToSet(printed)
         \/ \E q \in Ports : tpc[q] = "print" /\ tick[q].percent = last_percent
      /\ last_percent <= top
      /\ \A q \in Ports : tpc[q] \in {"load", "cas", "print"} => tick[q].percent <= top
      /\ completed > 0 =>
            \/ last_percent = top
            \/ \E q \in Ports : tpc[q] \in {"load", "cas"} /\ tick[q].percent = top
  BY <1>1 DEF IInv, ShownInv
<1>6. CASE TickCount(p)
  <2>1. /\ tpc[p] = "tick" /\ tpc'[p] = "load" /\ completed' = Wrap(completed + 1)
        /\ tick'[p].percent = Percent(completed') /\ UNCHANGED <<last_percent, printed>>
        /\ \A q \in Ports \ {p} : tick'[q] = tick[q]
    BY <1>1, <1>6 DEF TickCount, Types
  <2>2. /\ completed \in Nat /\ completed + 1 \in 0..IntBound - 1 /\ total \in Nat
        /\ (completed + 1) * Scale < IntBound
    BY <1>1, <2>1, CountFits, Numbers
  <2>3. completed' = completed + 1
    BY <2>1, <2>2, WrapIsInt
  <2>4. top <= Percent(completed + 1)
    <3>1. completed + 1 \in Nat /\ completed <= completed + 1
      BY <2>2
    <3> QED BY <2>2, <3>1, PercentGrows
  <2>5. Percent(completed)' = Percent(completed + 1) /\ tick'[p].percent = Percent(completed + 1)
    BY <1>2, <2>1, <2>3 DEF Percent
  <2>6. top \in Int /\ Percent(completed + 1) \in Int
    <3>1. total \in Ints /\ completed + 1 \in Int
      BY <1>1, <2>2 DEF Types
    <3>2. top \in Ints /\ Percent(completed + 1) \in Ints
      BY <1>4, <3>1, PercentIsInt
    <3> QED BY <3>2, Numbers DEF Ints
  <2> DEFINE next == Percent(completed + 1)
  <2> HIDE DEF top, next
  <2>7. /\ last_percent <= next
        /\ \A q \in Ports \ {p} : tpc[q] \in {"load", "cas", "print"} => tick[q].percent <= next
    BY <1>4, <1>5, <2>4, <2>6 DEF next
  <2>8. Percent(completed)' = next /\ tick'[p].percent = next
    BY <2>5 DEF next
  <2>9. next <= next
    BY <2>6 DEF next
  <2>10. \/ last_percent' = -1
         \/ last_percent' \in ToSet(printed)'
         \/ \E q \in Ports : tpc'[q] = "print" /\ tick'[q].percent = last_percent'
    BY <1>3, <1>5, <2>1
  <2>11. \A q \in Ports : tpc'[q] \in {"load", "cas", "print"} => tick'[q].percent <= next
    BY <1>3, <2>1, <2>7, <2>8, <2>9
  <2>12. \E q \in Ports : tpc'[q] \in {"load", "cas"} /\ tick'[q].percent = next
    BY <2>1, <2>8
  <2> QED BY <2>1, <2>7, <2>8, <2>10, <2>11, <2>12 DEF ShownInv
<1>7. CASE ~TickCount(p)
  <2>1. UNCHANGED completed
    BY <1>7 DEF TaskStep, Begin, Probe, Collect, TickLoad, TickExchange, TickExchangeFails,
                TickPrint, tickVars
  <2>2. Percent(completed)' = top
    BY <1>2, <2>1 DEF Percent
  <2>3. top \in Int
    <3>1. top \in Ints
      BY <1>1, <1>4, PercentIsInt DEF Types
    <3> QED BY <3>1, Numbers DEF Ints
  <2> HIDE DEF top
  <2>4. CASE Begin(p) \/ Probe(p) \/ Collect(p)
    <3>1. UNCHANGED <<last_percent, printed, tick>> /\ tpc'[p] \notin {"load", "cas", "print"}
      BY <1>1, <2>4 DEF Begin, Probe, Collect, tickVars, Types
    <3>2. tpc[p] \notin {"load", "cas", "print"}
      <4>1. CASE Begin(p)
        <5>1. p = Len(started) + 1 /\ Len(started) \in Nat
          BY <1>1, <4>1, LenProperties DEF Begin, Types
        <5> QED BY <5>1 DEF IInv, PoolInv
      <4>2. CASE ~Begin(p)
        BY <2>4, <4>2 DEF Probe, Collect
      <4> QED BY <4>1, <4>2
    <3>3. \A q \in Ports, place \in {"load", "cas", "print"} : tpc'[q] = place <=> tpc[q] = place
      BY <1>3, <3>1, <3>2
    <3> QED BY <1>5, <2>1, <2>2, <3>1, <3>3 DEF ShownInv
  <2>5. CASE TickLoad(p) \/ TickExchangeFails(p)
    <3>1. /\ tpc[p] \in {"load", "cas"} /\ LoopWith(p, last_percent)
          /\ UNCHANGED <<last_percent, printed>>
      BY <2>5 DEF TickLoad, TickExchangeFails
    <3>2. /\ \A q \in Ports \ {p} : tick'[q] = tick[q]
          /\ \/ tpc'[p] = "cas" /\ tick'[p].percent = tick[p].percent
             \/ tpc'[p] = "over" /\ tick[p].percent <= last_percent
      BY <1>1, <1>4, <3>1, LoopLeaves
    <3>3. tick[p].percent = top /\ tick[p].percent <= last_percent => last_percent = top
      BY <1>4, <1>5, <2>3
    <3>4. \/ last_percent' = -1
          \/ last_percent' \in ToSet(printed)'
          \/ \E q \in Ports : tpc'[q] = "print" /\ tick'[q].percent = last_percent'
      BY <1>3, <1>5, <3>1, <3>2
    <3>5. \A q \in Ports : tpc'[q] \in {"load", "cas", "print"} => tick'[q].percent <= top
      BY <1>3, <1>5, <3>1, <3>2
    <3>6. completed > 0 =>
            \/ last_percent = top
            \/ \E q \in Ports : tpc'[q] \in {"load", "cas"} /\ tick'[q].percent = top
      BY <1>3, <1>5, <3>1, <3>2, <3>3
    <3> QED BY <1>5, <2>1, <2>2, <3>1, <3>4, <3>5, <3>6 DEF ShownInv
  <2>6. CASE TickExchange(p)
    <3>1. /\ tpc[p] = "cas" /\ last_percent = tick[p].expected /\ last_percent' = tick[p].percent
          /\ tpc'[p] = "print" /\ UNCHANGED <<tick, printed>>
      BY <1>1, <2>6 DEF TickExchange, Types
    <3>2. last_percent' <= top /\ last_percent # top /\ last_percent < last_percent'
      BY <1>1, <1>4, <1>5, <2>3, <3>1 DEF LinesInv
    <3>3. \E q \in Ports : tpc'[q] = "print" /\ tick'[q].percent = last_percent'
      BY <3>1
    <3>4. \A q \in Ports : tpc'[q] \in {"load", "cas", "print"} => tick'[q].percent <= top
      BY <1>3, <1>5, <3>1
    <3>5. completed > 0 =>
            \/ last_percent' = top
            \/ \E q \in Ports : tpc'[q] \in {"load", "cas"} /\ tick'[q].percent = top
      BY <1>3, <1>5, <3>1, <3>2
    <3> QED BY <2>1, <2>2, <3>2, <3>3, <3>4, <3>5 DEF ShownInv
  <2>7. CASE TickPrint(p)
    <3>1. /\ tpc[p] = "print" /\ printed' = Append(printed, tick[p].percent)
          /\ tpc'[p] = "over" /\ UNCHANGED last_percent
          /\ \A q \in Ports \ {p} : tick'[q] = tick[q]
      BY <1>1, <2>7, EndMoves DEF TickPrint, Types
    <3>2. printed \in Seq(Ints) /\ tick[p].percent \in Ints
      BY <1>1 DEF Types
    <3>3. ToSet(printed)' = ToSet(printed) \cup {tick[p].percent}
      BY <3>1, <3>2, OneMore
    <3>4. \/ last_percent' = -1
          \/ last_percent' \in ToSet(printed)'
          \/ \E q \in Ports : tpc'[q] = "print" /\ tick'[q].percent = last_percent'
      BY <1>3, <1>5, <3>1, <3>3
    <3>5. \A q \in Ports : tpc'[q] \in {"load", "cas", "print"} => tick'[q].percent <= top
      BY <1>3, <1>5, <3>1
    <3>6. completed > 0 =>
            \/ last_percent = top
            \/ \E q \in Ports : tpc'[q] \in {"load", "cas"} /\ tick'[q].percent = top
      BY <1>3, <1>5, <3>1
    <3> QED BY <1>5, <2>1, <2>2, <3>1, <3>4, <3>5, <3>6 DEF ShownInv
  <2> QED BY <1>7, <2>4, <2>5, <2>6, <2>7 DEF TaskStep
<1> QED BY <1>6, <1>7
-----------------------------------------------------------------------------
(* The invariant, and what it says of reports and progress. *)

LEMMA Preserved ==
  IInv /\ [Next]_vars => IInv'
<1> SUFFICES ASSUME IInv, [Next]_vars PROVE IInv'
  OBVIOUS
<1>1. CASE MainStep
  BY <1>1, MainTypes, MainPool, MainHost, MainRows, MainLines, MainCount, MainShown DEF IInv
<1>2. CASE \E p \in Ports : TaskStep(p)
  <2>1. PICK p \in Ports : TaskStep(p)
    BY <1>2
  <2> QED BY <2>1, TaskTypes, TaskInPool, TaskHost, TaskRows, TaskLines, TaskCount, TaskShown DEF IInv
<1>3. CASE UNCHANGED vars
  <2>1. UNCHANGED <<submitted, started, finished, pool>> /\ UNCHANGED taskVars /\ UNCHANGED tickVars
        /\ UNCHANGED mainVars
    BY <1>3 DEF vars, poolVars
  <2> USE <2>1 DEF IInv, taskVars, tickVars, mainVars
  <2>2. Types' /\ PoolInv' /\ HostInv'
    BY DEF Types, PoolInv, HostInv
  <2>3. RowsInv' /\ LinesInv'
    BY DEF RowsInv, LinesInv
  <2>4. CountInv'
    BY DEF CountInv, Fits, Ticked
  <2>5. ShownInv'
    BY DEF ShownInv, Fits, Percent
  <2> QED BY <2>2, <2>3, <2>4, <2>5
<1> QED BY <1>1, <1>2, <1>3 DEF Next, Over

\* The invariant of the full scan: the pool and its tasks, the host and its replies, the
\* rows, the lines and the count, in main and CliReporter::tick.
THEOREM Invariant == Spec => []IInv
<1>1. Init => IInv
  BY Initially
<1>2. IInv /\ [Next]_vars => IInv'
  BY Preserved
<1> QED BY <1>1, <1>2, PTL DEF Spec

\* Main reads and sorts the host's vectors when the tasks are over, so that its report has
\* all they found and nothing twice.
THEOREM Reported == Spec => []ReportIsComplete
<1>1. IInv => ReportIsComplete
  <2> SUFFICES ASSUME IInv, mpc = "report"
               PROVE  LET open == {p \in 1..range : local[p] # Closed}
                      IN  /\ Reports # {}
                          /\ \A report \in Reports :
                                /\ IsSorted(report.ports, <) /\ ToSet(report.ports) = open
                                /\ ToSet(report.findings) = UNION {{p} \X (1..local[p]) : p \in open}
                                /\ IsInjective(report.findings)
    BY DEF ReportIsComplete
  <2> DEFINE open == {p \in 1..range : local[p] # Closed}
  <2>1. Types /\ RowsInv /\ pool = "closed"
    BY DEF IInv, PoolInv
  <2>2. out_ports \in Seq(Ports) /\ out_findings \in Seq(Findings)
    BY <2>1 DEF Types
  <2>3. ToSet(out_ports) = open
    <3>1. \A p \in Ports : p \in ToSet(out_ports) => p \in open
      BY <2>1, StartedPorts DEF RowsInv
    <3>2. ToSet(out_ports) \subseteq Ports
      BY <2>2, ElementsAt
    <3>3. \A p \in open : p \in Ports /\ tpc[p] = "over"
      <4>1. 1..range \subseteq Ports
        BY <2>1, Numbers DEF Types, Ports
      <4> QED BY <2>1, <4>1, StartedPorts
    <3> QED BY <2>1, <3>1, <3>2, <3>3 DEF RowsInv
  <2>4. ToSet(out_findings) = UNION {{p} \X (1..local[p]) : p \in open}
    <3>1. ToSet(out_findings) \subseteq Findings
      BY <2>2, ElementsAt
    <3>2. \A f \in Findings : f \in ToSet(out_findings) <=> f[1] \in open /\ f[2] \in 1..local[f[1]]
      BY <2>1, <2>3 DEF RowsInv
    <3>3. \A p \in open : {p} \X (1..local[p]) \subseteq Findings
      <4> SUFFICES ASSUME NEW p \in open PROVE {p} \X (1..local[p]) \subseteq Findings
        OBVIOUS
      <4>1. p \in Ports
        BY <2>3, <2>2, ElementsAt
      <4>2. local[p] \in Closed..MaxFindings
        BY <2>1, <4>1 DEF Types
      <4>3. 1..local[p] \subseteq 1..MaxFindings
        BY <4>2, Numbers DEF Closed
      <4> QED BY <4>1, <4>3 DEF Findings
    <3>4. \A f \in Findings : f = <<f[1], f[2]>>
      BY DEF Findings
    <3> HIDE DEF open
    <3> QED BY <3>1, <3>2, <3>3, <3>4
  <2> HIDE DEF open
  <2>5. Reports # {}
    <3>1. PICK ps \in SortedPorts : TRUE
      BY <2>1, SortingEnds
    <3>2. PICK fs \in SortedFindings : TRUE
      BY <2>1, SortingEnds
    <3>3. [ttl |-> ping.ttl, ports |-> ps, findings |-> fs] \in Reports
      BY DEF Reports
    <3> QED BY <3>3
  <2>6. ASSUME NEW report \in Reports
        PROVE  /\ IsSorted(report.ports, <) /\ ToSet(report.ports) = open
               /\ ToSet(report.findings) = UNION {{p} \X (1..local[p]) : p \in open}
               /\ IsInjective(report.findings)
    <3> DEFINE ps == report.ports
               fs == report.findings
    <3>1. /\ ps \in Arrangements(out_ports) /\ IsSorted(ps, <=)
          /\ fs \in Arrangements(out_findings)
      BY DEF Reports, SortedPorts, SortedFindings
    <3> HIDE DEF ps, fs
    <3>2. NoRepeat(out_ports) /\ NoRepeat(out_findings)
      BY <2>1 DEF RowsInv
    <3>3. ps \in Seq(Ports) /\ ToSet(ps) = ToSet(out_ports) /\ NoRepeat(ps)
      BY <2>2, <3>1, <3>2, ArrangementRows
    <3>4. /\ ToSet(fs) = ToSet(out_findings) /\ NoRepeat(fs) /\ DOMAIN fs = 1..Len(fs)
      BY <2>2, <3>1, <3>2, ArrangementRows
    <3>5. IsSorted(ps, <)
      <4>1. \A i \in 1..Len(ps) : ps[i] \in Nat
        BY <3>3, ElementsAt, Numbers
      <4>2. Len(ps) \in Nat
        BY <3>3, LenProperties
      <4> QED BY <3>1, <3>3, <4>1, <4>2 DEF IsSorted, NoRepeat
    <3>6. IsInjective(fs)
      BY <3>4 DEF IsInjective, NoRepeat
    <3> QED BY <2>3, <2>4, <3>3, <3>4, <3>5, <3>6 DEF ps, fs
  <2> QED BY <2>5, <2>6 DEF open
<1> QED BY <1>1, Invariant, PTL

\* The types of the model, the lines of the progress, each once, and the count that they
\* have caught up with between two hosts, in CliReporter::tick.
THEOREM Progress == Spec => []ProgressIsFaithful
<1>1. IInv => TypeOK
  BY DEF IInv, Types, HostInv, TypeOK, TaskPlaces
<1>2. IInv => EachPercentOnce
  <2> SUFFICES ASSUME IInv PROVE IsInjective(printed)
    BY DEF EachPercentOnce
  <2>1. printed \in Seq(Ints) /\ NoRepeat(printed)
    BY DEF IInv, Types, LinesInv
  <2>2. DOMAIN printed = 1..Len(printed)
    BY <2>1, ElementsAt
  <2> QED BY <2>1, <2>2 DEF IsInjective, NoRepeat
<1>3. IInv => ProgressCaughtUp
  <2> SUFFICES ASSUME IInv, mpc = "report", range > 0, Fits
               PROVE  completed = host * range /\ Percent(completed) \in ToSet(printed)
    BY DEF ProgressCaughtUp
  <2>1. Types /\ CountInv /\ HostInv /\ ShownInv /\ pool = "closed" /\ range \in Nat /\ host \in Nat \ {0}
    BY Numbers DEF IInv, PoolInv, HostInv, Types
  <2>2. completed = host * range
    <3>1. completed = (host - 1) * range + range
      BY <2>1, TickedPorts DEF CountInv
    <3> DEFINE h == host - 1
    <3>2. h \in Nat /\ host = h + 1
      BY <2>1
    <3>3. completed = h * range + range
      BY <3>1
    <3> HIDE DEF h
    <3>4. h * range + range = (h + 1) * range
      BY <2>1, <3>2
    <3> QED BY <3>2, <3>3, <3>4
  <2>3. completed > 0
    <3>1. \A x, y \in Nat \ {0} : x * y > 0
      OBVIOUS
    <3> QED BY <2>1, <2>2, <3>1
  <2>4. 0 <= Percent(completed)
    <3>1. completed \in Nat /\ total \in Nat /\ completed * Scale < IntBound /\ completed <= completed
      BY CountFits
    <3> QED BY <3>1, PercentGrows
  <2>5. \A p \in Ports : tpc[p] \in {"queued", "over"}
    BY <2>1, StartedPorts
  <2>6. last_percent = Percent(completed)
    BY <2>1, <2>3, <2>5 DEF ShownInv
  <2>7. last_percent = -1 \/ last_percent \in ToSet(printed)
    BY <2>1, <2>5 DEF ShownInv
  <2> QED BY <2>2, <2>4, <2>6, <2>7
<1> QED BY <1>1, <1>2, <1>3, Invariant, PTL DEF ProgressIsFaithful

\* A reply that Icmp::ping accepts is to a ping of this process, so its TTL is one of a
\* host up to the current one.
THEOREM PingedTtl == Spec => []TtlOfAPingedHost
<1>1. IInv => TtlOfAPingedHost
  BY DEF IInv, HostInv, TtlOfAPingedHost, Reports
<1> QED BY <1>1, Invariant, PTL
=============================================================================
