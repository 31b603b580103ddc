--------------------------- MODULE PortTaskProofs ---------------------------
(***************************************************************************)
(* Proofs, for any plugins, any claims and findings of theirs and any CVE  *)
(* database, that what plugins are told is what the row says, that the     *)
(* checks that ran are those of the published service, and that the loops  *)
(* over the findings lose no CVE, no evidence and no verification.         *)
(* The loops are recursive functions; facts about them rest on the least   *)
(* counterexample (WFMin), which needs no induction rule.                  *)
(***************************************************************************)
EXTENDS PortTask, SequenceTheorems, FiniteSetTheorems, WellFoundedInduction, TLAPS

\* A nonempty set of naturals has a least element.
LEMMA Least ==
    ASSUME NEW T, T \subseteq Nat, T # {}
    PROVE  \E n \in T : \A m \in T : n <= m
<1>1. \E R : IsWellFoundedOn(R, Nat) /\ \A m, n \in Nat : m < n => <<m, n>> \in R
  <2> DEFINE R == OpToRel(<, Nat)
  <2>1. IsWellFoundedOn(R, Nat)
    BY NatLessThanWellFounded
  <2>2. \A m, n \in Nat : m < n => <<m, n>> \in R
    BY DEF OpToRel
  <2> HIDE DEF R
  <2> QED BY <2>1, <2>2
<1>2. PICK R : IsWellFoundedOn(R, Nat) /\ \A m, n \in Nat : m < n => <<m, n>> \in R
  BY <1>1
<1>3. \E n \in T : \A m \in T : ~ (<<m, n>> \in R)
  <2>1. IsWellFoundedOn(R, Nat)
    BY <1>2
  <2> HIDE <1>2
  <2> QED BY <2>1, WFMin, Zenon
<1>4. PICK n \in T : \A m \in T : ~ (<<m, n>> \in R)
  BY <1>3
<1>5. \A m \in T : n <= m
  <2> SUFFICES ASSUME NEW m \in T PROVE n <= m
    OBVIOUS
  <2>1. m \in Nat /\ n \in Nat
    OBVIOUS
  <2>2. ~(m < n)
    BY <1>2, <1>4, <2>1
  <2> QED BY <2>1, <2>2
<1> QED BY <1>5

\* A set that holds 0, and with a number the next one, holds every number.
LEMMA Upward ==
    ASSUME NEW S, 0 \in S, \A n \in Nat : n \in S => n + 1 \in S
    PROVE  \A n \in Nat : n \in S
<1> SUFFICES ASSUME Nat \ S # {} PROVE FALSE
  OBVIOUS
<1>1. \E n \in Nat \ S : \A m \in Nat \ S : n <= m
  BY Least
<1>2. PICK n \in Nat \ S : \A m \in Nat \ S : n <= m
  BY <1>1
<1>3. n # 0 /\ n - 1 \in Nat /\ n \in Nat /\ ~(n <= n - 1)
  OBVIOUS
<1>4. n - 1 \in S
  BY <1>2, <1>3
<1>5. n - 1 + 1 \in S
  BY <1>3, <1>4
<1> QED BY <1>3, <1>5

\* A loop of N turns from e, whose turn i is the function G[i], runs through f.
Runs(f, N, e, G) == f[0] = e /\ \A i \in 1..N : f[i] = G[i][f[i - 1]]

LEMMA LoopRuns ==
    ASSUME NEW N \in Nat, NEW S, NEW e \in S, NEW G \in [1..N -> [S -> S]]
    PROVE  \E f \in [0..N -> S] : Runs(f, N, e, G)
<1> DEFINE Good == {n \in Nat : n <= N => \E f \in [0..n -> S] : Runs(f, n, e, G)}
<1>1. 0 \in Good
  <2>1. Runs([i \in 0..0 |-> e], 0, e, G) /\ [i \in 0..0 |-> e] \in [0..0 -> S]
    BY DEF Runs
  <2> QED BY <2>1
<1>2. ASSUME NEW n \in Nat, n \in Good PROVE n + 1 \in Good
  <2> SUFFICES ASSUME n + 1 <= N PROVE \E f \in [0..(n + 1) -> S] : Runs(f, n + 1, e, G)
    OBVIOUS
  <2>1. PICK f \in [0..n -> S] : Runs(f, n, e, G)
    BY <1>2
  <2> DEFINE g == [i \in 0..(n + 1) |-> IF i = n + 1 THEN G[n + 1][f[n]] ELSE f[i]]
  <2>2. f[n] \in S /\ n + 1 \in 1..N
    BY <2>1
  <2>3. G[n + 1][f[n]] \in S
    BY <2>2
  <2>4. g \in [0..(n + 1) -> S] /\ g[0] = e
    BY <2>1, <2>3 DEF Runs
  <2>5. \A i \in 1..(n + 1) : g[i] = G[i][g[i - 1]]
    <3> SUFFICES ASSUME NEW i \in 1..(n + 1) PROVE g[i] = G[i][g[i - 1]]
      OBVIOUS
    <3>1. i - 1 \in 0..n /\ g[i - 1] = f[i - 1]
      OBVIOUS
    <3>2. CASE i = n + 1
      BY <3>1, <3>2
    <3>3. CASE i # n + 1
      <4>1. i \in 1..n
        BY <3>3
      <4>2. f[i] = G[i][f[i - 1]]
        BY <2>1, <4>1 DEF Runs
      <4> QED BY <3>1, <3>3, <4>2
    <3> QED BY <3>2, <3>3
  <2> HIDE DEF g
  <2> QED BY <2>4, <2>5 DEF Runs
<1> HIDE DEF Good
<1>3. N \in Good
  BY <1>1, <1>2, Upward
<1> QED BY <1>3 DEF Good

\* The members of a sequence and of a longer one.
LEMMA Members ==
    ASSUME NEW S, NEW s \in Seq(S)
    PROVE  /\ ToSet(s) = {s[i] : i \in 1..Len(s)} /\ ToSet(s) \subseteq S /\ Len(s) \in Nat
           /\ \A e \in S : ToSet(Append(s, e)) = ToSet(s) \cup {e}
<1>1. DOMAIN s = 1..Len(s) /\ Len(s) \in Nat /\ \A i \in 1..Len(s) : s[i] \in S
  BY LenProperties
<1>2. ToSet(s) = {s[i] : i \in 1..Len(s)} /\ ToSet(s) \subseteq S
  BY <1>1 DEF ToSet
<1>3. ASSUME NEW e \in S PROVE ToSet(Append(s, e)) = ToSet(s) \cup {e}
  <2> DEFINE t == Append(s, e)
  <2>1. /\ t \in Seq(S) /\ Len(t) = Len(s) + 1 /\ t[Len(s) + 1] = e
        /\ \A i \in 1..Len(s) : t[i] = s[i]
    BY AppendProperties
  <2> HIDE DEF t
  <2>2. ToSet(t) = {t[i] : i \in 1..(Len(s) + 1)}
    <3>1. DOMAIN t = 1..Len(t)
      BY <2>1, LenProperties
    <3> QED BY <2>1, <3>1 DEF ToSet
  <2>3. \A x \in ToSet(t) : x \in ToSet(s) \cup {e}
    BY <1>1, <1>2, <2>1, <2>2
  <2>4. \A x \in ToSet(s) \cup {e} : x \in ToSet(t)
    BY <1>1, <1>2, <2>1, <2>2
  <2> QED BY <2>3, <2>4 DEF t
<1> QED BY <1>1, <1>2, <1>3

LEMMA Joined ==
    ASSUME NEW S, NEW s \in Seq(S), NEW t \in Seq(S)
    PROVE  s \o t \in Seq(S) /\ ToSet(s \o t) = ToSet(s) \cup ToSet(t)
<1>1. /\ s \o t \in Seq(S) /\ Len(s \o t) = Len(s) + Len(t)
      /\ Len(s) \in Nat /\ Len(t) \in Nat
      /\ \A i \in 1..(Len(s) + Len(t)) : (s \o t)[i] = IF i <= Len(s) THEN s[i] ELSE t[i - Len(s)]
  BY ConcatProperties, LenProperties
<1> DEFINE u == s \o t
<1>2. /\ ToSet(s) = {s[i] : i \in 1..Len(s)} /\ ToSet(t) = {t[i] : i \in 1..Len(t)}
      /\ ToSet(u) = {u[i] : i \in 1..Len(u)}
  BY <1>1, Members
<1> HIDE DEF u
<1>3. \A x \in ToSet(u) : x \in ToSet(s) \cup ToSet(t)
  <2> SUFFICES ASSUME NEW i \in 1..Len(u) PROVE u[i] \in ToSet(s) \cup ToSet(t)
    BY <1>2
  <2>1. CASE i <= Len(s)
    BY <1>1, <1>2, <2>1 DEF u
  <2>2. CASE i > Len(s)
    <3>1. i - Len(s) \in 1..Len(t) /\ u[i] = t[i - Len(s)]
      BY <1>1, <2>2 DEF u
    <3> QED BY <1>2, <3>1
  <2> QED BY <1>1, <2>1, <2>2 DEF u
<1>4. \A x \in ToSet(s) : x \in ToSet(u)
  BY <1>1, <1>2 DEF u
<1>5. \A x \in ToSet(t) : x \in ToSet(u)
  <2> SUFFICES ASSUME NEW i \in 1..Len(t) PROVE t[i] \in ToSet(u)
    BY <1>2
  <2>1. i + Len(s) \in 1..Len(u) /\ u[i + Len(s)] = t[i]
    BY <1>1 DEF u
  <2> QED BY <1>2, <2>1
<1> QED BY <1>1, <1>3, <1>4, <1>5 DEF u

\* Keep does what it says.
LEMMA Kept ==
    ASSUME NEW S, NEW s \in Seq(S), NEW T
    PROVE  Keep(s, T) \in Seq(S) /\ ToSet(Keep(s, T)) = ToSet(s) \cap T
<1> DEFINE N == Len(s)
           Turn(q, i) == IF s[i] \in T THEN Append(q, s[i]) ELSE q
           kept == CHOOSE f : f = [n \in 0..N |-> IF n = 0 THEN <<>>
                                                  ELSE IF s[n] \in T THEN Append(f[n - 1], s[n]) ELSE f[n - 1]]
<1>1. N \in Nat /\ \A i \in 1..N : s[i] \in S
  BY LenProperties
<1>2. kept = [n \in 0..N |-> IF n = 0 THEN <<>> ELSE Turn(kept[n - 1], n)]
  <2> DEFINE G == [i \in 1..N |-> [q \in Seq(S) |-> Turn(q, i)]]
  <2>1. \A q \in Seq(S), i \in 1..N : Turn(q, i) \in Seq(S)
    BY <1>1, AppendProperties
  <2> HIDE DEF Turn
  <2>2. G \in [1..N -> [Seq(S) -> Seq(S)]] /\ \A q \in Seq(S), i \in 1..N : G[i][q] = Turn(q, i)
    BY <2>1
  <2>3. <<>> \in Seq(S)
    OBVIOUS
  <2> HIDE DEF G, N
  <2>4. PICK f \in [0..N -> Seq(S)] : Runs(f, N, <<>>, G)
    BY <1>1, <2>2, <2>3, LoopRuns
  <2>5. \A n \in 0..N : f[n] = IF n = 0 THEN <<>> ELSE Turn(f[n - 1], n)
    <3> SUFFICES ASSUME NEW n \in 0..N, n # 0 PROVE f[n] = Turn(f[n - 1], n)
      BY <2>4 DEF Runs
    <3>1. n \in 1..N /\ n - 1 \in 0..N
      BY <1>1
    <3> QED BY <2>2, <2>4, <3>1 DEF Runs
  <2>6. f = [n \in 0..N |-> IF n = 0 THEN <<>> ELSE Turn(f[n - 1], n)]
    BY <2>4, <2>5
  <2> QED BY <2>6 DEF Turn
<1> HIDE DEF kept
<1>3. kept[0] = <<>> /\ \A n \in 1..N : kept[n] = Turn(kept[n - 1], n)
  <2> HIDE DEF Turn, N
  <2> QED BY <1>1, <1>2
<1> DEFINE Good == {n \in Nat : n <= N => kept[n] \in Seq(S) /\ ToSet(kept[n]) = {s[i] : i \in 1..n} \cap T}
<1>4. 0 \in Good
  <2>1. kept[0] = <<>> /\ <<>> \in Seq(S) /\ ToSet(<<>>) = {}
    BY <1>3 DEF ToSet
  <2>2. {s[i] : i \in 1..0} = {}
    OBVIOUS
  <2> HIDE DEF Turn
  <2> QED BY <2>1, <2>2
<1>5. ASSUME NEW n \in Nat, n \in Good PROVE n + 1 \in Good
  <2> SUFFICES ASSUME n + 1 <= N
               PROVE  kept[n + 1] \in Seq(S) /\ ToSet(kept[n + 1]) = {s[i] : i \in 1..(n + 1)} \cap T
    OBVIOUS
  <2>1. kept[n] \in Seq(S) /\ ToSet(kept[n]) = {s[i] : i \in 1..n} \cap T
    BY <1>1, <1>5
  <2>2. n + 1 \in 1..N /\ s[n + 1] \in S
    BY <1>1
  <2>3. kept[n + 1] = IF s[n + 1] \in T THEN Append(kept[n], s[n + 1]) ELSE kept[n]
    BY <1>3, <2>2
  <2>4. {s[i] : i \in 1..(n + 1)} = {s[i] : i \in 1..n} \cup {s[n + 1]}
    OBVIOUS
  <2>5. ToSet(Append(kept[n], s[n + 1])) = ToSet(kept[n]) \cup {s[n + 1]} /\ Append(kept[n], s[n + 1]) \in Seq(S)
    BY <2>1, <2>2, Members, AppendProperties
  <2> HIDE DEF Good, Turn
  <2> QED BY <2>1, <2>3, <2>4, <2>5
<1> HIDE DEF Good
<1>6. N \in Good
  BY <1>1, <1>4, <1>5, Upward
<1>7. Keep(s, T) = kept[N]
  BY DEF Keep, kept
<1>8. kept[N] \in Seq(S) /\ ToSet(kept[N]) = {s[i] : i \in 1..N} \cap T
  BY <1>1, <1>6 DEF Good
<1> QED BY <1>7, <1>8, Members
-----------------------------------------------------------------------------
\* STRING, spelled out for the literals of the model, which the provers do not take for strings.
Texts ==
    STRING \cup {"", Omitted, "c2", "title", "terrapin", "tls", "match", "patched", "Plugin runtime error",
                "ssh-terrapin", "cve-database"}

Findings == [by : Texts, cve : Texts, title : Texts, service : Texts,
             verification : Verifications, score : Nat, evidence : BOOLEAN]

\* The rows u are unique and hold the best of the findings in F.
Best(u, F) ==
    /\ \A i, j \in 1..Len(u) : i # j => Identity(u[i]) # Identity(u[j])
    /\ \A f \in F : \E i \in 1..Len(u) : Identity(u[i]) = Identity(f)
    /\ \A i \in 1..Len(u) : \E f \in F : Identity(f) = Identity(u[i])
    /\ \A i \in 1..Len(u), f \in F : f.evidence /\ Identity(f) = Identity(u[i]) => u[i].evidence
    /\ \A i \in 1..Len(u) :
          (\A f \in F : Identity(f) = Identity(u[i]) => f.evidence) =>
             \A f \in F : Identity(f) = Identity(u[i]) => Rank(f.verification) <= Rank(u[i].verification)

LEMMA RankType == \A v \in Verifications : Rank(v) \in Nat
  BY DEF Rank, Verifications

\* What the merge of two findings of one identity keeps.
LEMMA Merged ==
    ASSUME NEW r \in Findings, NEW f \in Findings, Identity(r) = Identity(f)
    PROVE  /\ Merge(r, f) \in Findings /\ Identity(Merge(r, f)) = Identity(r)
           /\ r.evidence \/ f.evidence => Merge(r, f).evidence \/ (r.evidence /\ ~f.evidence)
           /\ r.evidence => Merge(r, f).evidence
           /\ f.evidence => Merge(r, f).evidence
           /\ r.evidence => /\ Rank(r.verification) <= Rank(Merge(r, f).verification)
                            /\ Rank(f.verification) <= Rank(Merge(r, f).verification)
<1> DEFINE g == [f EXCEPT !.evidence = @ \/ r.evidence]
<1>1. /\ g \in Findings /\ g.service = f.service /\ g.cve = f.cve /\ g.by = f.by /\ g.title = f.title
      /\ g.verification = f.verification /\ g.evidence = (f.evidence \/ r.evidence)
  BY DEF Findings
<1>2. Identity(g) = Identity(f)
  BY <1>1 DEF Identity
<1>3. Merge(r, f) = IF Better(f, r) \/ ~r.evidence THEN g ELSE r
  BY DEF Merge
<1>4. Rank(f.verification) \in Nat /\ Rank(r.verification) \in Nat
  BY RankType DEF Findings
<1> HIDE DEF g
<1>5. r.evidence => /\ Rank(r.verification) <= Rank(Merge(r, f).verification)
                    /\ Rank(f.verification) <= Rank(Merge(r, f).verification)
  BY <1>1, <1>3, <1>4 DEF Better
<1>6. CASE Merge(r, f) = g
  BY <1>1, <1>2, <1>5, <1>6 
<1>7. CASE Merge(r, f) = r /\ r.evidence
  BY <1>5, <1>7
<1> QED BY <1>3, <1>6, <1>7

\* One turn of the loop.
LEMMA Turn ==
    ASSUME NEW u \in Seq(Findings), NEW F \in SUBSET Findings, NEW f \in Findings, Best(u, F)
    PROVE  Deduplicated(u, f) \in Seq(Findings) /\ Best(Deduplicated(u, f), F \cup {f})
<1> DEFINE n == Len(u)
           v == Deduplicated(u, f)
<1>1. n \in Nat /\ DOMAIN u = 1..n /\ \A i \in 1..n : u[i] \in Findings
  BY LenProperties
<1>2. CASE \E i \in 1..n : Identity(u[i]) = Identity(f)
  <2>1. PICK k \in 1..n : Identity(u[k]) = Identity(f)
    BY <1>2
  <2>2. v = [i \in 1..n |-> IF Identity(u[i]) = Identity(f) THEN Merge(u[i], f) ELSE u[i]]
    BY <1>1, <1>2 DEF Deduplicated, SameFinding
  <2>3. \A i \in 1..n : i # k => Identity(u[i]) # Identity(f)
    BY <2>1 DEF Best
  <2>4. /\ Merge(u[k], f) \in Findings /\ Identity(Merge(u[k], f)) = Identity(f)
        /\ u[k].evidence => Merge(u[k], f).evidence
        /\ f.evidence => Merge(u[k], f).evidence
        /\ u[k].evidence => /\ Rank(u[k].verification) <= Rank(Merge(u[k], f).verification)
                            /\ Rank(f.verification) <= Rank(Merge(u[k], f).verification)
    BY <1>1, <2>1, Merged
  <2> DEFINE m == Merge(u[k], f)
  <2> HIDE DEF v, n, m
  <2>5. \A i \in 1..n : v[i] = IF i = k THEN m ELSE u[i]
    BY <2>1, <2>2, <2>3 DEF m
  <2>6. v \in Seq(Findings) /\ Len(v) = n
    <3>1. \A i \in 1..n : v[i] \in Findings
      BY <1>1, <2>4, <2>5 DEF m
    <3>2. v = [i \in 1..n |-> v[i]]
      BY <2>2
    <3> QED BY <1>1, <3>1, <3>2
  <2>7. \A i \in 1..n : Identity(v[i]) = Identity(u[i])
    BY <2>1, <2>4, <2>5 DEF m
  <2>8. \A i, j \in 1..n : i # j => Identity(v[i]) # Identity(v[j])
    BY <2>7 DEF Best, n
  <2>9. \A g \in F \cup {f} : \E i \in 1..n : Identity(v[i]) = Identity(g)
    BY <2>1, <2>7 DEF Best, n
  <2>10. \A i \in 1..n : \E g \in F \cup {f} : Identity(g) = Identity(v[i])
    BY <2>7 DEF Best, n
  <2>11. \A i \in 1..n, g \in F \cup {f} : g.evidence /\ Identity(g) = Identity(v[i]) => v[i].evidence
    <3> SUFFICES ASSUME NEW i \in 1..n, NEW g \in F \cup {f}, g.evidence, Identity(g) = Identity(v[i])
                 PROVE  v[i].evidence
      OBVIOUS
    <3>1. CASE i = k
      BY <2>1, <2>4, <2>5, <2>7, <3>1 DEF Best, n, m
    <3>2. CASE i # k
      BY <2>3, <2>5, <2>7, <3>2 DEF Best, n
    <3> QED BY <3>1, <3>2
  <2>12. ASSUME NEW i \in 1..n, \A g \in F \cup {f} : Identity(g) = Identity(v[i]) => g.evidence,
                NEW g \in F \cup {f}, Identity(g) = Identity(v[i])
         PROVE  Rank(g.verification) <= Rank(v[i].verification)
    <3>1. CASE i = k
      <4>1. \A h \in F : Identity(h) = Identity(u[k]) => h.evidence
        BY <2>7, <2>12, <3>1
      <4>2. u[k].evidence
        <5>1. PICK h \in F : Identity(h) = Identity(u[k])
          BY DEF Best, n
        <5> QED BY <4>1, <5>1 DEF Best, n
      <4>3. v[i] = m /\ Rank(u[k].verification) <= Rank(m.verification) /\ Rank(f.verification) <= Rank(m.verification)
        BY <2>4, <2>5, <3>1, <4>2 DEF m
      <4>4. CASE g = f
        BY <4>3, <4>4
      <4>5. CASE g \in F
        <5>1. Rank(g.verification) <= Rank(u[k].verification)
          BY <2>7, <2>12, <3>1, <4>1, <4>5 DEF Best, n
        <5>2. Rank(g.verification) \in Nat /\ Rank(u[k].verification) \in Nat /\ Rank(m.verification) \in Nat
          BY <1>1, <2>4, <4>5, RankType DEF Findings, m
        <5> QED BY <4>3, <5>1, <5>2
      <4> QED BY <4>4, <4>5
    <3>2. CASE i # k
      <4>1. v[i] = u[i] /\ Identity(u[i]) # Identity(f) /\ g \in F
        BY <2>3, <2>5, <2>12, <3>2
      <4> QED BY <2>12, <4>1 DEF Best, n
    <3> QED BY <3>1, <3>2
  <2>13. Best(v, F \cup {f})
    BY <2>6, <2>8, <2>9, <2>10, <2>11, <2>12 DEF Best
  <2> QED BY <2>6, <2>13 DEF v
<1>3. CASE ~ \E i \in 1..n : Identity(u[i]) = Identity(f)
  <2>1. v = Append(u, f)
    BY <1>1, <1>3 DEF Deduplicated, SameFinding
  <2>2. /\ v \in Seq(Findings) /\ Len(v) = n + 1 /\ v[n + 1] = f
        /\ \A i \in 1..n : v[i] = u[i]
    BY <2>1, AppendProperties
  <2>3. \A g \in F : Identity(g) # Identity(f)
    BY <1>3 DEF Best
  <2>4. \A i \in 1..(n + 1) : i = n + 1 \/ i \in 1..n
    BY <1>1
  <2> HIDE DEF v, n
  <2>5. \A i, j \in 1..(n + 1) : i # j => Identity(v[i]) # Identity(v[j])
    BY <1>3, <2>2, <2>4 DEF Best, n
  <2>6. \A g \in F \cup {f} : \E i \in 1..(n + 1) : Identity(v[i]) = Identity(g)
    <3>1. n + 1 \in 1..(n + 1) /\ \A i \in 1..n : i \in 1..(n + 1)
      BY <1>1
    <3> QED BY <2>2, <3>1 DEF Best, n
  <2>7. \A i \in 1..(n + 1) : \E g \in F \cup {f} : Identity(g) = Identity(v[i])
    BY <2>2, <2>4 DEF Best, n
  <2>8. \A i \in 1..(n + 1), g \in F \cup {f} : g.evidence /\ Identity(g) = Identity(v[i]) => v[i].evidence
    BY <1>3, <2>2, <2>3, <2>4 DEF Best, n
  <2>9. Rank(f.verification) \in Nat
    BY RankType DEF Findings
  <2>10. ASSUME NEW i \in 1..(n + 1), \A g \in F \cup {f} : Identity(g) = Identity(v[i]) => g.evidence,
                NEW g \in F \cup {f}, Identity(g) = Identity(v[i])
         PROVE  Rank(g.verification) <= Rank(v[i].verification)
    <3>1. CASE i = n + 1
      <4>1. g = f
        BY <2>2, <2>3, <2>10, <3>1
      <4> QED BY <2>2, <2>9, <3>1, <4>1
    <3>2. CASE i \in 1..n
      <4>1. v[i] = u[i] /\ g \in F
        BY <1>3, <2>2, <2>10, <3>2
      <4> QED BY <2>10, <3>2, <4>1 DEF Best, n
    <3> QED BY <2>4, <3>1, <3>2
  <2>11. Best(v, F \cup {f})
    BY <2>2, <2>5, <2>6, <2>7, <2>8, <2>10 DEF Best
  <2> QED BY <2>2, <2>11 DEF v
<1> QED BY <1>2, <1>3

\* The whole loop.
LEMMA Deduplicates ==
    ASSUME NEW fs \in Seq(Findings)
    PROVE  Dedup(fs) \in Seq(Findings) /\ Best(Dedup(fs), ToSet(fs))
<1> DEFINE N == Len(fs)
           unique == CHOOSE g : g = [n \in 0..N |-> IF n = 0 THEN <<>> ELSE Deduplicated(g[n - 1], fs[n])]
           G == [i \in 1..N |-> [q \in Seq(Findings) |-> Deduplicated(q, fs[i])]]
           Done(n) == {fs[i] : i \in 1..n}
<1>1. N \in Nat /\ \A i \in 1..N : fs[i] \in Findings
  BY LenProperties
<1>2. \A q \in Seq(Findings), i \in 1..N : Deduplicated(q, fs[i]) \in Seq(Findings)
  <2> SUFFICES ASSUME NEW q \in Seq(Findings), NEW f \in Findings PROVE Deduplicated(q, f) \in Seq(Findings)
    BY <1>1
  <2>1. Len(q) \in Nat /\ DOMAIN q = 1..Len(q) /\ \A i \in 1..Len(q) : q[i] \in Findings
    BY LenProperties
  <2>2. CASE \E i \in DOMAIN q : SameFinding(q[i], f)
    <3> DEFINE r == [i \in DOMAIN q |-> IF SameFinding(q[i], f) THEN Merge(q[i], f) ELSE q[i]]
    <3>1. \A i \in 1..Len(q) : r[i] \in Findings
      BY <2>1, Merged DEF SameFinding
    <3>2. r = [i \in 1..Len(q) |-> r[i]]
      BY <2>1
    <3> HIDE DEF r
    <3>3. r \in Seq(Findings)
      BY <2>1, <3>1, <3>2
    <3> QED BY <2>2, <3>3 DEF Deduplicated, r
  <2>3. CASE ~ \E i \in DOMAIN q : SameFinding(q[i], f)
    BY <2>3, AppendProperties DEF Deduplicated
  <2> QED BY <2>2, <2>3
<1>3. unique = [n \in 0..N |-> IF n = 0 THEN <<>> ELSE Deduplicated(unique[n - 1], fs[n])]
  <2> HIDE DEF N, unique
  <2>1. /\ G \in [1..N -> [Seq(Findings) -> Seq(Findings)]]
        /\ \A q \in Seq(Findings), i \in 1..N : G[i][q] = Deduplicated(q, fs[i])
    BY <1>2
  <2>2. <<>> \in Seq(Findings)
    OBVIOUS
  <2> HIDE DEF G
  <2>3. PICK f \in [0..N -> Seq(Findings)] : Runs(f, N, <<>>, G)
    BY <1>1, <2>1, <2>2, LoopRuns
  <2>4. \A n \in 0..N : f[n] = IF n = 0 THEN <<>> ELSE Deduplicated(f[n - 1], fs[n])
    <3> SUFFICES ASSUME NEW n \in 0..N, n # 0 PROVE f[n] = Deduplicated(f[n - 1], fs[n])
      BY <2>3 DEF Runs
    <3>1. n \in 1..N /\ n - 1 \in 0..N
      BY <1>1
    <3> QED BY <2>1, <2>3, <3>1 DEF Runs
  <2>5. f = [n \in 0..N |-> IF n = 0 THEN <<>> ELSE Deduplicated(f[n - 1], fs[n])]
    BY <2>3, <2>4
  <2> QED BY <2>5 DEF unique
<1> HIDE DEF unique, N, Done, G
<1>4. unique[0] = <<>> /\ \A n \in 1..N : unique[n] = Deduplicated(unique[n - 1], fs[n])
  BY <1>1, <1>3
<1> DEFINE Good == {n \in Nat : n <= N => unique[n] \in Seq(Findings) /\ Best(unique[n], Done(n))}
<1>5. 0 \in Good
  <2>1. unique[0] \in Seq(Findings) /\ Len(unique[0]) = 0
    BY <1>4
  <2>2. Done(0) = {}
    BY DEF Done
  <2>3. Best(unique[0], Done(0))
    BY <2>1, <2>2 DEF Best
  <2> QED BY <2>1, <2>3
<1>6. ASSUME NEW n \in Nat, n \in Good PROVE n + 1 \in Good
  <2> SUFFICES ASSUME n + 1 <= N PROVE unique[n + 1] \in Seq(Findings) /\ Best(unique[n + 1], Done(n + 1))
    OBVIOUS
  <2>1. unique[n] \in Seq(Findings) /\ Best(unique[n], Done(n))
    BY <1>1, <1>6
  <2>2. n + 1 \in 1..N /\ fs[n + 1] \in Findings /\ unique[n + 1] = Deduplicated(unique[n], fs[n + 1])
    BY <1>1, <1>4
  <2>3. Done(n) \in SUBSET Findings
    BY <1>1 DEF Done
  <2>4. Done(n + 1) = Done(n) \cup {fs[n + 1]}
    BY DEF Done
  <2> HIDE DEF Good
  <2> QED BY <2>1, <2>2, <2>3, <2>4, Turn
<1> HIDE DEF Good
<1>7. N \in Good
  BY <1>1, <1>5, <1>6, Upward
<1>8. unique[N] \in Seq(Findings) /\ Best(unique[N], Done(N))
  BY <1>1, <1>7 DEF Good
<1>9. Dedup(fs) = unique[N] /\ Done(N) = ToSet(fs)
  <2>1. Dedup(fs) = unique[N]
    BY DEF Dedup, unique, N
  <2>2. Done(N) = ToSet(fs)
    BY Members DEF Done, N
  <2> QED BY <2>1, <2>2
<1> QED BY <1>8, <1>9
-----------------------------------------------------------------------------
(* Orders, queues and findings. *)

\* Every order that readdir may give names every plugin once.
LEMMA Orders ==
    ASSUME NEW S, IsFiniteSet(S), NEW o \in SetToSeqs(S)
    PROVE  o \in Seq(S) /\ ToSet(o) = S /\ \A i, j \in 1..Len(o) : i # j => o[i] # o[j]
<1> DEFINE n == Cardinality(S)
<1>1. n \in Nat
  BY FS_CardinalityType
<1>2. o \in [1..n -> S] /\ \A i, j \in 1..n : i # j => o[i] # o[j]
  BY DEF SetToSeqs
<1> HIDE DEF n
<1>3. o \in Seq(S) /\ Len(o) = n
  BY <1>1, <1>2
<1>4. o \in Injection(1..n, S)
  BY <1>2 DEF Injection, IsInjective
<1>5. IsFiniteSet(1..n) /\ Cardinality(1..n) = n
  BY <1>1, FS_Interval
<1>6. o \in Surjection(1..n, S)
  BY <1>4, <1>5, FS_Injection DEF n
<1>7. ToSet(o) = {o[i] : i \in 1..n}
  BY <1>3, Members
<1>8. \A x \in S : \E i \in 1..n : o[i] = x
  BY <1>6 DEF Surjection
<1>9. ToSet(o) = S
  BY <1>2, <1>7, <1>8
<1> QED BY <1>2, <1>3, <1>9

\* The first of a queue and the rest of it.
LEMMA Queues ==
    ASSUME NEW S, NEW q \in Seq(S), q # <<>>
    PROVE  /\ Head(q) \in S /\ Tail(q) \in Seq(S)
           /\ (\A i, j \in 1..Len(q) : i # j => q[i] # q[j]) =>
                 /\ ToSet(Tail(q)) = ToSet(q) \ {Head(q)}
                 /\ \A i, j \in 1..Len(Tail(q)) : i # j => Tail(q)[i] # Tail(q)[j]
<1> DEFINE t == Tail(q)
           n == Len(q)
<1>1. /\ Head(q) \in S /\ t \in Seq(S) /\ Head(q) = q[1] /\ n \in Nat /\ n > 0
      /\ Len(t) = n - 1 /\ \A i \in 1..(n - 1) : t[i] = q[i + 1]
  BY HeadTailProperties, LenProperties, EmptySeq
<1>2. ToSet(q) = {q[i] : i \in 1..n} /\ ToSet(t) = {t[i] : i \in 1..Len(t)}
  BY <1>1, Members
<1> SUFFICES ASSUME \A i, j \in 1..n : i # j => q[i] # q[j]
             PROVE  ToSet(t) = ToSet(q) \ {Head(q)} /\ \A i, j \in 1..(n - 1) : i # j => t[i] # t[j]
  BY <1>1
<1> HIDE DEF t, n
<1>3. \A i \in 1..(n - 1) : i + 1 \in 1..n /\ i + 1 # 1
  BY <1>1
<1>4. \A i, j \in 1..(n - 1) : i # j => t[i] # t[j]
  BY <1>1, <1>3
<1>5. \A x \in ToSet(t) : x \in ToSet(q) \ {Head(q)}
  BY <1>1, <1>2, <1>3
<1>6. ASSUME NEW x \in ToSet(q) \ {Head(q)} PROVE x \in ToSet(t)
  <2>1. PICK i \in 1..n : x = q[i]
    BY <1>2
  <2>2. i - 1 \in 1..(n - 1) /\ t[i - 1] = q[i]
    BY <1>1, <2>1
  <2> QED BY <1>1, <1>2, <2>1, <2>2
<1> QED BY <1>4, <1>5, <1>6

\* What the checks, the plugins and the database report are findings.
LEMMA Reported ==
    ASSUME NEW by \in Texts, NEW cve \in Texts, NEW title \in Texts, NEW service \in Texts,
           NEW v \in Verifications, NEW n \in Nat, NEW evidence \in BOOLEAN
    PROVE  Finding(by, cve, title, service, v, n, evidence) \in Findings
  BY DEF Finding, Findings

LEMMA Literals ==
    {"", Omitted, "c2", "title", "terrapin", "tls", "match", "patched", "Plugin runtime error",
     "ssh-terrapin", "cve-database"} \subseteq Texts
  BY DEF Texts

LEMMA Qualities == {"NOT_VULNERABLE", "VERSION_MATCH", "ACTIVE_CHECK", "UNKNOWN"} \subseteq Verifications
  BY DEF Verifications

LEMMA Databased == ASSUME port \in [Fields -> Texts] PROVE DbFindings \in Seq(Findings)
<1> DEFINE Entries == [cve : STRING, product : STRING, versions : SUBSET STRING]
           T == {e \in ToSet(CveDatabase) : /\ port["product"] # "" /\ port["version"] # ""
                                            /\ e.product = port["product"] /\ port["version"] \in e.versions}
           matching == Keep(CveDatabase, T)
           Of(e) == IF Patched(e.cve)
                    THEN Finding("cve-database", e.cve, "patched", port["service"], "NOT_VULNERABLE", 9, TRUE)
                    ELSE Finding("cve-database", e.cve, "match", port["service"], "VERSION_MATCH", 5, TRUE)
<1>1. CveDatabase \in Seq(Entries)
  BY PortTaskConstants
<1> HIDE DEF T
<1>2. matching \in Seq(Entries)
  BY <1>1, Kept
<1>3. port["service"] \in Texts
  BY DEF Fields
<1>4. \A e \in Entries : Of(e) \in Findings
  <2> SUFFICES ASSUME NEW e \in Entries PROVE Of(e) \in Findings
    OBVIOUS
  <2>1. e.cve \in Texts
    BY DEF Texts
  <2>2. Finding("cve-database", e.cve, "patched", port["service"], "NOT_VULNERABLE", 9, TRUE) \in Findings
    BY <1>3, <2>1, Literals, Reported, Qualities
  <2>3. Finding("cve-database", e.cve, "match", port["service"], "VERSION_MATCH", 5, TRUE) \in Findings
    BY <1>3, <2>1, Literals, Reported, Qualities
  <2> QED BY <2>2, <2>3
<1>5. DbFindings = [i \in DOMAIN matching |-> Of(matching[i])]
  BY DEF DbFindings, T
<1> HIDE DEF matching, Of, Entries
<1>6. DOMAIN matching = 1..Len(matching) /\ Len(matching) \in Nat /\ \A i \in 1..Len(matching) : matching[i] \in Entries
  BY <1>2, LenProperties
<1> DEFINE F == [i \in 1..Len(matching) |-> Of(matching[i])]
<1>7. F \in [1..Len(matching) -> Findings]
  BY <1>4, <1>6
<1>8. DbFindings = F
  BY <1>5, <1>6
<1> HIDE DEF F
<1> QED BY <1>6, <1>7, <1>8

\* The defaults leave the CVE alone.
LEMMA Filled ==
    ASSUME port \in [Fields -> Texts], NEW fs \in Seq(Findings)
    PROVE  /\ FillDefaults(fs) \in Seq(Findings)
           /\ \A f \in ToSet(fs) : \E g \in ToSet(FillDefaults(fs)) : g.cve = f.cve
<1> DEFINE n == Len(fs)
           D(f) == IF f.service = "" THEN [f EXCEPT !.service = port["service"]] ELSE f
           gs == FillDefaults(fs)
<1>1. n \in Nat /\ DOMAIN fs = 1..n /\ \A i \in 1..n : fs[i] \in Findings
  BY LenProperties
<1>2. port["service"] \in Texts
  BY DEF Fields
<1>3. \A f \in Findings : D(f) \in Findings /\ D(f).cve = f.cve
  BY <1>2 DEF Findings
<1>4. gs = [i \in 1..n |-> D(fs[i])]
  BY <1>1 DEF FillDefaults
<1> HIDE DEF gs, D, n
<1>5. gs \in [1..n -> Findings] /\ \A i \in 1..n : gs[i].cve = fs[i].cve
  BY <1>1, <1>3, <1>4
<1>6. gs \in Seq(Findings) /\ Len(gs) = n
  BY <1>1, <1>5
<1>7. ToSet(fs) = {fs[i] : i \in 1..n} /\ ToSet(gs) = {gs[i] : i \in 1..n}
  BY <1>6, Members DEF n
<1>8. \A f \in ToSet(fs) : \E g \in ToSet(gs) : g.cve = f.cve
  BY <1>5, <1>7
<1> QED BY <1>6, <1>8 DEF gs

\* With the database's entries, no CVE of it and of the port's findings is missing.
LEMMA Completed ==
    ASSUME port \in [Fields -> Texts], local \in Seq(Findings)
    PROVE  /\ WithDatabase \in Seq(Findings)
           /\ \A f \in ToSet(local) : f \in ToSet(WithDatabase)
           /\ \A f \in ToSet(DbFindings) : f.cve # "" => \E g \in ToSet(WithDatabase) : g.cve = f.cve
<1> DEFINE reported == {f.cve : f \in ToSet(local)} \ {""}
           T == {f \in ToSet(DbFindings) : f.cve \notin reported}
           kept == Keep(DbFindings, T)
<1>1. DbFindings \in Seq(Findings)
  BY Databased
<1>2. WithDatabase = local \o kept
  BY DEF WithDatabase
<1>3. kept \in Seq(Findings) /\ ToSet(kept) = ToSet(DbFindings) \cap T
  <2> HIDE DEF T
  <2> QED BY <1>1, Kept
<1>4. WithDatabase \in Seq(Findings) /\ ToSet(WithDatabase) = ToSet(local) \cup ToSet(kept)
  <2>1. local \in Seq(Findings)
    OBVIOUS
  <2> HIDE DEF kept, T, reported
  <2>2. local \o kept \in Seq(Findings) /\ ToSet(local \o kept) = ToSet(local) \cup ToSet(kept)
    BY <1>3, <2>1, Joined
  <2> QED BY <1>2, <2>2
<1>5. ASSUME NEW f \in ToSet(DbFindings), f.cve # "" PROVE \E g \in ToSet(WithDatabase) : g.cve = f.cve
  <2>1. CASE f.cve \in reported
    BY <1>4, <2>1
  <2>2. CASE f.cve \notin reported
    <3>1. f \in ToSet(kept)
      BY <1>3, <2>2
    <3> QED BY <1>4, <3>1
  <2> QED BY <2>1, <2>2
<1> QED BY <1>4, <1>5
-----------------------------------------------------------------------------
(* The inductive invariant. *)

RunRecords ==
    [plugin : Texts, known : Texts, set : [Fields -> Texts], target : [Fields -> Texts], calls : Nat]

Types ==
    /\ pc \in {"connect", "native", "plugins", "pass1", "pass2", "cves", "dedup", "published", "closed"}
    /\ dir \in Directories /\ tagged \in BOOLEAN
    /\ order \in Seq(Plugins) /\ ToSet(order) = Plugins
    /\ \A i, j \in 1..Len(order) : i # j => order[i] # order[j]
    /\ port \in [Fields -> Texts] /\ info \in [Fields -> Texts] /\ kb \in [Fields -> Texts]
    /\ run \in RunRecords /\ behind \subseteq Fields
    /\ ran \subseteq Plugins /\ queue \in Seq(Plugins)
    /\ found \in Seq(Findings) /\ local \in Seq(Findings) /\ rows \in Seq(Findings)

\* Plugins run in the two passes only, and nothing of a run is left between two of them.
RunInv ==
    /\ Idle => run = NoRun
    /\ ~Idle => pc \in {"pass1", "pass2"} /\ run.plugin \in ran
    /\ pc \in {"connect", "native", "plugins", "closed"} =>
          info = Nothing /\ kb = [k \in Fields |-> Omitted] /\ ran = {} /\ found = <<>>

\* What the port's row will say if the plugin that runs ends here.
Effective == Override(info, run.set, "")

\* The KB and the target object show a value of the row or hide it, but for the keys of a
\* claim that failed; a service that is known is in the KB during the first pass.
SeenInv ==
    /\ \A k \in Fields \ behind : kb[k] \in {Omitted, "", Effective[k]}
    /\ ~Idle => \A k \in (Fields \ behind) \cup {"service"} : run.target[k] \in {"", Effective[k]}
    /\ pc = "pass1" /\ Effective["service"] # "" => kb["service"] # Omitted \/ "service" \in behind

\* What was known of the service is never forgotten, and is what is published.
ServiceInv ==
    /\ pc \in {"connect", "native", "plugins"} => port["service"] # Omitted
    /\ pc \in {"pass1", "pass2"} /\ port["service"] # "" => info["service"] # ""
    /\ pc \in {"cves", "dedup", "published"} => port["service"] = info["service"]

\* Every CVE of the plugins and of the database is among the port's findings, and the
\* rows are the best of those.
RowsInv ==
    /\ pc = "cves" => ToSet(found) \subseteq ToSet(local)
    /\ pc \in {"dedup", "published"} =>
          \A f \in ToSet(found) \cup ToSet(DbFindings) : f.cve # "" => \E g \in ToSet(local) : g.cve = f.cve
    /\ pc = "published" => Best(rows, ToSet(local))

IInv == Types /\ RunInv /\ SeenInv /\ ServiceInv /\ RowsInv

\* A plugin with a filter claims no service but that of its filter, as the shipped ones.
OwnServices ==
    \A d \in Directories : \A p \in DOMAIN d.filter :
        d.filter[p] # "any" => \A c \in d.claims[p] : c["service"] \in {"", d.filter[p]}

Filtered == {p \in Plugins : dir.filter[p] \notin {"any", ""}}

\* The first pass runs no plugin that has a filter; the second one leaves the service as
\* it is, and has run those for it that are no longer in its queue.
PassInv ==
    /\ OwnServices
    /\ pc = "pass1" => \A p \in ran : dir.filter[p] = "any"
    /\ pc = "pass2" =>
          /\ \A i, j \in 1..Len(queue) : i # j => queue[i] # queue[j]
          /\ ~Idle => /\ dir.filter[run.plugin] # "any" /\ dir.filter[run.plugin] \in {"", info["service"]}
                      /\ run.set["service"] \in {"", info["service"]}
          /\ \A p \in Filtered : p \in ran <=> dir.filter[p] = info["service"] /\ p \notin ToSet(queue)
    /\ pc \in {"cves", "dedup", "published"} => \A p \in Filtered : p \in ran <=> dir.filter[p] = info["service"]
-----------------------------------------------------------------------------
(* The invariant holds at first, and every step keeps it. *)

\* What a directory of plugins may hold.
LEMMA Directory ==
    ASSUME NEW d \in Directories
    PROVE  /\ IsFiniteSet(DOMAIN d.filter) /\ DOMAIN d.filter \subseteq Texts \ {""}
           /\ \A p \in DOMAIN d.filter : \A c \in d.claims[p] : c \in [Fields -> Texts] /\ c["service"] # Omitted
           /\ \A r \in d.reports : /\ r.cve \in Texts /\ r.verification \in Verifications
                                   /\ r.score \in Nat /\ r.evidence \in BOOLEAN
<1>1. IsFiniteSet(DOMAIN d.filter) /\ DOMAIN d.filter \subseteq Texts \ {""}
  BY PortTaskConstants DEF Texts
<1>2. ASSUME NEW p \in DOMAIN d.filter, NEW c \in d.claims[p]
      PROVE  c \in [Fields -> Texts] /\ c["service"] # Omitted
  <2>1. c \in [Fields -> STRING] /\ c["service"] # Omitted
    BY PortTaskConstants
  <2> QED BY <2>1 DEF Texts
<1>3. ASSUME NEW r \in d.reports
      PROVE  r.cve \in Texts /\ r.verification \in Verifications /\ r.score \in Nat /\ r.evidence \in BOOLEAN
  <2>1. r \in [cve : STRING, verification : Verifications, score : Nat, evidence : BOOLEAN]
    BY PortTaskConstants
  <2> QED BY <2>1 DEF Texts
<1> QED BY <1>1, <1>2, <1>3

LEMMA Overriding ==
    ASSUME NEW old \in [Fields -> Texts], NEW new \in [Fields -> Texts], NEW none
    PROVE  Override(old, new, none) \in [Fields -> Texts]
  BY DEF Override

LEMMA Fresh == Nothing \in [Fields -> Texts] /\ NoRun \in RunRecords
  BY Literals DEF Nothing, NoRun, RunRecords

\* The changes of the record of a run.
LEMMA Counted ==
    ASSUME NEW r \in RunRecords, NEW q, q = [r EXCEPT !.calls = @ + 1]
    PROVE  q \in RunRecords /\ q.plugin = r.plugin /\ q.set = r.set /\ q.target = r.target
  BY DEF RunRecords

LEMMA Claimed ==
    ASSUME NEW r \in RunRecords, NEW c \in [Fields -> Texts], NEW q,
           q = [r EXCEPT !.calls = @ + 1, !.set = Override(@, c, Omitted), !.target = Override(@, c, Omitted)]
    PROVE  /\ q \in RunRecords /\ q.plugin = r.plugin
           /\ q.set = Override(r.set, c, Omitted) /\ q.target = Override(r.target, c, Omitted)
<1>1. r.set \in [Fields -> Texts] /\ r.target \in [Fields -> Texts]
  BY DEF RunRecords
<1>2. Override(r.set, c, Omitted) \in [Fields -> Texts] /\ Override(r.target, c, Omitted) \in [Fields -> Texts]
  BY <1>1, Overriding
<1> DEFINE set == Override(r.set, c, Omitted)
           target == Override(r.target, c, Omitted)
           once == [r EXCEPT !.calls = @ + 1]
<1>3. q = [once EXCEPT !.set = set, !.target = target]
  OBVIOUS
<1> HIDE DEF set, target
<1>4. set \in [Fields -> Texts] /\ target \in [Fields -> Texts]
  BY <1>2 DEF set, target
<1>5. once \in RunRecords /\ once.plugin = r.plugin
  BY Counted
<1> HIDE DEF once
<1>6. q \in RunRecords /\ q.plugin = once.plugin /\ q.set = set /\ q.target = target
  BY <1>3, <1>4, <1>5 DEF RunRecords
<1> QED BY <1>5, <1>6 DEF set, target

LEMMA Initially == Init => IInv
<1> SUFFICES ASSUME Init PROVE IInv
  OBVIOUS
<1>1. dir \in Directories /\ order \in SetToSeqs(Plugins) /\ IsFiniteSet(Plugins)
  BY Directory DEF Init, Plugins
<1>2. order \in Seq(Plugins) /\ ToSet(order) = Plugins /\ \A i, j \in 1..Len(order) : i # j => order[i] # order[j]
  BY <1>1, Orders
<1>3. Nothing \in [Fields -> Texts] /\ [k \in Fields |-> Omitted] \in [Fields -> Texts] /\ "" \in Texts
  BY Literals DEF Nothing
<1>4. <<>> \in Seq(Plugins) /\ <<>> \in Seq(Findings) /\ NoRun \in RunRecords
  BY Fresh
<1>5. Types
  BY <1>1, <1>2, <1>3, <1>4 DEF Init, Types
<1>6. RunInv
  BY DEF Init, RunInv, Idle, NoRun
<1>7. SeenInv
  BY DEF Init, SeenInv, Idle, NoRun
<1>8. ServiceInv /\ RowsInv
  BY DEF Init, ServiceInv, RowsInv, Nothing, Fields, Omitted
<1> QED BY <1>5, <1>6, <1>7, <1>8 DEF IInv

\* The connection and the native checks.
LEMMA ConnectKeeps == ASSUME IInv, Connect PROVE IInv'
<1>1. pc = "connect" /\ UNCHANGED <<dir, order, queue, info, kb, behind, run, ran, found, local, rows>>
  BY DEF Connect
<1>2. pc' \in {"closed", "native"} /\ port' \in [Fields -> Texts] /\ tagged' \in BOOLEAN
  BY PortTaskConstants DEF Connect, IInv, Types, Texts
<1>3. Types'
  BY <1>1, <1>2 DEF IInv, Types, Plugins
<1>4. RunInv' /\ SeenInv'
  BY <1>1, <1>2 DEF IInv, RunInv, SeenInv, Idle, Effective
<1>5. ServiceInv' /\ RowsInv'
  <2>1. port'["service"] # Omitted
    BY PortTaskConstants DEF Connect, IInv, ServiceInv, Fields
  <2> QED BY <1>2, <2>1 DEF ServiceInv, RowsInv
<1> QED BY <1>3, <1>4, <1>5 DEF IInv

LEMMA NativeKeeps == ASSUME IInv, NativeChecks PROVE IInv'
<1>1. /\ pc = "native" /\ pc' = "plugins"
      /\ UNCHANGED <<dir, order, port, tagged, queue, info, kb, behind, run, ran, found, rows>>
  BY DEF NativeChecks
<1>2. local' \in Seq(Findings)
  <2>1. port["service"] \in Texts
    BY DEF IInv, Types, Fields
  <2>2. /\ Finding("ssh-terrapin", "c2", "terrapin", port["service"], "ACTIVE_CHECK", 9, TRUE) \in Findings
        /\ Finding("tls", "", "tls", port["service"], "ACTIVE_CHECK", 9, TRUE) \in Findings
    BY <2>1, Literals, Qualities, Reported
  <2>3. \A f \in Findings : <<f>> \in Seq(Findings)
    OBVIOUS
  <2>4. \E terrapin, tls \in Seq(Findings) : local' = terrapin \o tls
    <3> DEFINE Terrapin == Finding("ssh-terrapin", "c2", "terrapin", port["service"], "ACTIVE_CHECK", 9, TRUE)
               Tls == Finding("tls", "", "tls", port["service"], "ACTIVE_CHECK", 9, TRUE)
    <3>1. PICK terrapin \in {<<>>, <<Terrapin>>}, tls \in {<<>>, <<Tls>>} : local' = terrapin \o tls
      BY DEF NativeChecks
    <3>2. <<>> \in Seq(Findings) /\ <<Terrapin>> \in Seq(Findings) /\ <<Tls>> \in Seq(Findings)
      <4>1. Terrapin \in Findings /\ Tls \in Findings
        BY <2>2, Zenon
      <4> HIDE DEF Terrapin, Tls
      <4> QED BY <2>3, <4>1
    <3> HIDE DEF Terrapin, Tls
    <3> QED BY <3>1, <3>2
  <2>5. PICK terrapin, tls \in Seq(Findings) : local' = terrapin \o tls
    BY <2>4
  <2> QED BY <2>5, Joined
<1>3. Types'
  BY <1>1, <1>2 DEF IInv, Types, Plugins
<1>4. RunInv' /\ SeenInv'
  BY <1>1 DEF IInv, RunInv, SeenInv, Idle, Effective
<1>5. ServiceInv' /\ RowsInv'
  BY <1>1 DEF IInv, ServiceInv, RowsInv
<1> QED BY <1>3, <1>4, <1>5 DEF IInv

\* The passes: what a plugin claims reaches the KB at once and the row when it ends.
LEMMA BeginKeeps == ASSUME IInv, BeginPlugins PROVE IInv'
<1>1. /\ pc = "plugins" /\ pc' = "pass1" /\ queue' = order
      /\ UNCHANGED <<dir, order, port, tagged, behind, run, ran, found, local, rows>>
  BY DEF BeginPlugins
<1>2. info = Nothing /\ kb = [k \in Fields |-> Omitted] /\ run = NoRun /\ Idle
  BY <1>1 DEF IInv, RunInv
<1>3. port["service"] \in Texts /\ "" \in Texts /\ Omitted \in Texts
  BY Literals DEF IInv, Types, Fields
<1>4. /\ info' = [k \in Fields |-> IF k = "service" THEN port["service"] ELSE ""]
      /\ kb' = [k \in Fields |-> IF k = "service" /\ port["service"] # "" THEN port["service"] ELSE Omitted]
  BY <1>2 DEF BeginPlugins, Nothing, Fields
<1>5. info' \in [Fields -> Texts] /\ kb' \in [Fields -> Texts]
  BY <1>3, <1>4
<1>6. Types'
  BY <1>1, <1>5 DEF IInv, Types, Plugins
<1>7. RunInv'
  BY <1>1, <1>2 DEF IInv, RunInv, Idle
<1>8. Effective' = info' /\ Idle'
  <2>1. run' = NoRun /\ run'.set = Nothing /\ run'.plugin = ""
    BY <1>1, <1>2 DEF NoRun
  <2> QED BY <1>5, <2>1 DEF Effective, Override, Nothing, Idle
<1>9. SeenInv'
  <2>1. \A k \in Fields : kb'[k] \in {Omitted, "", Effective'[k]}
    BY <1>4, <1>8
  <2>2. Effective'["service"] # "" => kb'["service"] # Omitted
    BY <1>1, <1>4, <1>8 DEF IInv, ServiceInv, Fields
  <2> QED BY <1>8, <2>1, <2>2 DEF SeenInv
<1>10. ServiceInv' /\ RowsInv'
  BY <1>1, <1>4 DEF ServiceInv, RowsInv, Fields
<1> QED BY <1>6, <1>7, <1>9, <1>10 DEF IInv

LEMMA SkipKeeps == ASSUME IInv, SkipPlugin PROVE IInv'
<1>1. /\ pc \in {"pass1", "pass2"} /\ queue # <<>> /\ queue' = Tail(queue)
      /\ UNCHANGED <<pc, dir, order, port, tagged, info, kb, behind, run, ran, found, local, rows>>
  BY DEF SkipPlugin
<1>2. queue' \in Seq(Plugins)
  BY <1>1, Queues DEF IInv, Types
<1>3. Types'
  BY <1>1, <1>2 DEF IInv, Types, Plugins
<1>4. RunInv' /\ SeenInv'
  BY <1>1 DEF IInv, RunInv, SeenInv, Idle, Effective
<1>5. ServiceInv' /\ RowsInv'
  BY <1>1 DEF IInv, ServiceInv, RowsInv
<1> QED BY <1>3, <1>4, <1>5 DEF IInv

LEMMA StartKeeps == ASSUME IInv, StartPlugin PROVE IInv'
<1>0. run' = [NoRun EXCEPT !.plugin = Head(queue), !.known = info["service"], !.target = Target]
  BY DEF StartPlugin
<1>1. /\ pc \in {"pass1", "pass2"} /\ Idle /\ queue # <<>> /\ queue' = Tail(queue)
      /\ ran' = ran \cup {Head(queue)}
      /\ UNCHANGED <<pc, dir, order, port, tagged, info, kb, behind, found, local, rows>>
  BY DEF StartPlugin
<1>2. Head(queue) \in Plugins /\ queue' \in Seq(Plugins) /\ Head(queue) # ""
  <2>1. queue \in Seq(Plugins) /\ dir \in Directories
    BY DEF IInv, Types
  <2> QED BY <1>1, <2>1, Queues, Directory DEF Plugins
<1>3. info \in [Fields -> Texts] /\ kb \in [Fields -> Texts] /\ Nothing \in [Fields -> Texts] /\ info["service"] \in Texts
  BY Literals DEF IInv, Types, Nothing, Fields
<1>4. /\ Target \in [Fields -> Texts] /\ Target["service"] = info["service"]
      /\ \A k \in Fields : k # "service" => Target[k] = IF kb[k] = Omitted THEN "" ELSE kb[k]
  BY <1>3, Literals DEF Target, Override, Nothing, Fields
<1>5. run' \in RunRecords /\ run'.plugin = Head(queue) /\ run'.set = Nothing /\ run'.target = Target
  <2>1. Head(queue) \in Texts
    BY <1>2, Directory DEF IInv, Types, Plugins
  <2> DEFINE p == Head(queue)
             s == info["service"]
             u == Target
  <2>2. run' = [NoRun EXCEPT !.plugin = p, !.known = s, !.target = u]
    BY <1>0
  <2>3. p \in Texts /\ s \in Texts /\ u \in [Fields -> Texts]
    BY <1>3, <1>4, <2>1
  <2> HIDE DEF p, s, u
  <2>4. run' \in RunRecords /\ run'.plugin = p /\ run'.set = Nothing /\ run'.target = u
    <3> DEFINE r == NoRun
               named == [r EXCEPT !.plugin = p, !.known = s]
    <3>1. run' = [named EXCEPT !.target = u]
      BY <2>2
    <3>2. r \in RunRecords /\ r.set = Nothing
      BY Fresh DEF NoRun
    <3> HIDE DEF r
    <3>3. named \in RunRecords /\ named.plugin = p /\ named.set = r.set
      BY <2>3, <3>2 DEF RunRecords
    <3> HIDE DEF named
    <3>4. run' \in RunRecords /\ run'.plugin = named.plugin /\ run'.set = named.set /\ run'.target = u
      BY <2>3, <3>1, <3>3 DEF RunRecords
    <3> QED BY <3>2, <3>3, <3>4
  <2> QED BY <2>4 DEF p, u
<1>6. Types'
  BY <1>1, <1>2, <1>5 DEF IInv, Types, Plugins
<1>7. RunInv'
  BY <1>1, <1>2, <1>5 DEF IInv, RunInv, Idle
<1>8. Effective = info /\ Effective' = info
  <2>1. run.set = Nothing
    <3>1. run = NoRun
      BY <1>1 DEF IInv, RunInv
    <3> QED BY <3>1 DEF NoRun
  <2> QED BY <1>1, <1>3, <1>5, <2>1 DEF Effective, Override, Nothing
<1>9. SeenInv'
  <2>1. \A k \in Fields \ behind : kb[k] \in {Omitted, "", info[k]}
    BY <1>8 DEF IInv, SeenInv
  <2>2. \A k \in (Fields \ behind) \cup {"service"} : Target[k] \in {"", info[k]}
    BY <1>4, <2>1 DEF Fields
  <2>3. pc = "pass1" /\ info["service"] # "" => kb["service"] # Omitted \/ "service" \in behind
    BY <1>8 DEF IInv, SeenInv
  <2> QED BY <1>1, <1>5, <1>8, <2>1, <2>2, <2>3 DEF SeenInv
<1>10. ServiceInv' /\ RowsInv'
  BY <1>1 DEF IInv, ServiceInv, RowsInv
<1> QED BY <1>6, <1>7, <1>9, <1>10 DEF IInv

\* The plugin that runs is one of the directory's.
LEMMA Running == ASSUME IInv, ~Idle PROVE run.plugin \in Plugins /\ pc \in {"pass1", "pass2"} /\ dir \in Directories
  BY DEF IInv, Types, RunInv, Idle

LEMMA ClaimKeeps ==
    ASSUME IInv, ~Idle, NEW c \in dir.claims[run.plugin], SetService(c)
    PROVE  IInv'
<1>0. run' = [run EXCEPT !.calls = @ + 1, !.set = Override(@, c, Omitted), !.target = Override(@, c, Omitted)]
  BY DEF SetService
<1>1. /\ kb' = Override(kb, c, Omitted) /\ behind' = {k \in behind : c[k] = Omitted}
      /\ UNCHANGED <<pc, dir, order, port, tagged, queue, info, ran, found, local, rows>>
  BY DEF SetService
<1>2. c \in [Fields -> Texts] /\ c["service"] # Omitted
  BY Running, Directory DEF Plugins
<1>3. /\ run \in RunRecords
      /\ kb \in [Fields -> Texts] /\ info \in [Fields -> Texts]
  BY DEF IInv, Types
<1>4. /\ run'.plugin = run.plugin /\ run'.set = Override(run.set, c, Omitted)
      /\ run'.target = Override(run.target, c, Omitted)
      /\ run' \in RunRecords
  <2>1. run \in RunRecords
    BY <1>3
  <2>2. c \in [Fields -> Texts]
    BY <1>2
  <2> QED BY <1>0, <2>1, <2>2, Claimed
<1>5. kb' \in [Fields -> Texts]
  BY <1>1, <1>2, <1>3, Overriding
<1>6. Types'
  BY <1>1, <1>4, <1>5 DEF IInv, Types, Plugins
<1>7. RunInv' /\ ~Idle'
  BY <1>1, <1>4, Running DEF IInv, RunInv, Idle
<1>8. \A k \in Fields : IF c[k] = Omitted
                        THEN kb'[k] = kb[k] /\ run'.target[k] = run.target[k] /\ Effective'[k] = Effective[k]
                        ELSE kb'[k] = c[k] /\ run'.target[k] = c[k] /\ (c[k] # "" => Effective'[k] = c[k])
  BY <1>1, <1>4 DEF Override, Effective
<1>9. SeenInv'
  <2>1. "service" \in Fields /\ c["service"] # Omitted /\ pc' = pc /\ behind' = {k \in behind : c[k] = Omitted}
    BY <1>1, <1>2 DEF Fields
  <2>2. /\ \A k \in Fields \ behind : kb[k] \in {Omitted, "", Effective[k]}
        /\ \A k \in (Fields \ behind) \cup {"service"} : run.target[k] \in {"", Effective[k]}
    BY DEF IInv, SeenInv
  <2>3. \A k \in Fields \ behind' : kb'[k] \in {Omitted, "", Effective'[k]}
    BY <1>8, <2>1, <2>2
  <2>4. \A k \in (Fields \ behind') \cup {"service"} : run'.target[k] \in {"", Effective'[k]}
    BY <1>8, <2>1, <2>2
  <2>5. kb'["service"] # Omitted
    BY <1>8, <2>1
  <2> QED BY <2>3, <2>4, <2>5 DEF SeenInv
<1>10. ServiceInv' /\ RowsInv'
  BY <1>1, Running DEF IInv, ServiceInv, RowsInv
<1> QED BY <1>6, <1>7, <1>9, <1>10 DEF IInv

LEMMA ReportKeeps ==
    ASSUME IInv, ~Idle, NEW r \in dir.reports, ReportFinding(r)
    PROVE  IInv'
<1>0. run' = [run EXCEPT !.calls = @ + 1]
  BY DEF ReportFinding
<1>1. /\ found' = Append(found, Finding(run.plugin, r.cve, "title",
                    IF run.set["service"] = "" THEN run.known ELSE run.set["service"],
                    r.verification, r.score, r.evidence))
      /\ UNCHANGED <<pc, dir, order, port, tagged, queue, info, kb, behind, ran, local, rows>>
  BY DEF ReportFinding
<1>2. run \in RunRecords
  BY DEF IInv, Types
<1>3. /\ run'.plugin = run.plugin /\ run'.set = run.set /\ run'.target = run.target
      /\ run' \in RunRecords
  BY <1>0, <1>2, Counted
<1>4. found' \in Seq(Findings)
  <2>1. run.plugin \in Texts /\ dir \in Directories
    BY Running, Directory DEF Plugins
  <2>2. r.cve \in Texts /\ r.verification \in Verifications /\ r.score \in Nat /\ r.evidence \in BOOLEAN
    BY <2>1, Directory
  <2>3. (IF run.set["service"] = "" THEN run.known ELSE run.set["service"]) \in Texts
    BY <1>2 DEF Fields, RunRecords
  <2>4. Finding(run.plugin, r.cve, "title", IF run.set["service"] = "" THEN run.known ELSE run.set["service"],
                r.verification, r.score, r.evidence) \in Findings
    BY <2>1, <2>2, <2>3, Literals, Reported
  <2>5. found \in Seq(Findings)
    BY DEF IInv, Types
  <2> DEFINE f == Finding(run.plugin, r.cve, "title", IF run.set["service"] = "" THEN run.known ELSE run.set["service"],
                          r.verification, r.score, r.evidence)
  <2>6. found' = Append(found, f) /\ f \in Findings
    BY <1>1, <2>4
  <2> HIDE DEF f
  <2> QED BY <2>5, <2>6, AppendProperties
<1>5. Types'
  BY <1>1, <1>3, <1>4 DEF IInv, Types, Plugins
<1>6. RunInv' /\ SeenInv'
  BY <1>1, <1>3, Running DEF IInv, RunInv, SeenInv, Idle, Effective
<1>7. ServiceInv' /\ RowsInv'
  BY <1>1, Running DEF IInv, ServiceInv, RowsInv
<1> QED BY <1>5, <1>6, <1>7 DEF IInv

\* The values a failed claim has brought to the RunState are absorbed; the KB is behind by
\* them and by nothing else.
LEMMA ClaimThrowsKeeps ==
    ASSUME IInv, ~Idle, NEW c \in dir.claims[run.plugin], ClaimThrows(c)
    PROVE  IInv'
<1>1. /\ run' = NoRun /\ found' = Append(found, RuntimeError)
      /\ UNCHANGED <<pc, dir, order, port, tagged, queue, kb, ran, local, rows>>
  BY DEF ClaimThrows
<1>2. PICK given \in {{"service"}, {"service", "version"}} :
          LET claimed == [k \in Fields |-> IF k \in given THEN c[k] ELSE Omitted]
          IN  /\ info' = Override(info, Override(run.set, claimed, Omitted), "")
              /\ behind' = behind \cup {k \in Fields : claimed[k] # Omitted}
  BY DEF ClaimThrows
<1> DEFINE claimed == [k \in Fields |-> IF k \in given THEN c[k] ELSE Omitted]
<1>3. c \in [Fields -> Texts] /\ c["service"] # Omitted
  BY Running, Directory DEF Plugins
<1>4. claimed \in [Fields -> Texts] /\ claimed["service"] # Omitted
  BY <1>3, Literals DEF Fields
<1>5. /\ info' = Override(info, Override(run.set, claimed, Omitted), "")
      /\ behind' = behind \cup {k \in Fields : claimed[k] # Omitted}
  BY <1>2
<1> HIDE DEF claimed
<1>6. run.set \in [Fields -> Texts] /\ info \in [Fields -> Texts]
  BY DEF IInv, Types, RunRecords
<1>7. info' \in [Fields -> Texts]
  <2>1. Override(run.set, claimed, Omitted) \in [Fields -> Texts]
    BY <1>4, <1>6, Overriding
  <2> QED BY <1>5, <1>6, <2>1, Overriding
<1>8. found' \in Seq(Findings)
  <2>1. run.plugin \in Texts /\ RuntimeError \in Findings
    BY Running, Directory, Literals, Qualities, Reported DEF Plugins, RuntimeError
  <2> QED BY <1>1, <2>1, AppendProperties DEF IInv, Types
<1>9. Types'
  BY <1>1, <1>5, <1>7, <1>8, Fresh DEF IInv, Types, Plugins
<1>10. RunInv' /\ Idle'
  BY <1>1, Running DEF IInv, RunInv, Idle, NoRun
<1>11. /\ \A k \in Fields : claimed[k] = Omitted => Effective'[k] = Effective[k]
       /\ Effective'["service"] = "" => info["service"] = ""
  BY <1>1, <1>5, <1>7 DEF Effective, Override, NoRun, Nothing, Fields
<1>12. SeenInv'
  BY <1>1, <1>4, <1>5, <1>10, <1>11 DEF IInv, SeenInv, Fields
<1>13. ServiceInv'
  BY <1>1, <1>5, Running DEF IInv, ServiceInv, Override, Fields
<1>14. RowsInv'
  BY <1>1, Running DEF RowsInv
<1> QED BY <1>9, <1>10, <1>12, <1>13, <1>14 DEF IInv

LEMMA EndKeeps == ASSUME IInv, ~Idle, EndPlugin \/ PluginThrows PROVE IInv'
<1>1. /\ info' = Effective /\ run' = NoRun
      /\ UNCHANGED <<pc, dir, order, port, tagged, queue, kb, behind, ran, local, rows>>
  BY DEF EndPlugin, PluginThrows, Absorb, Effective
<1>2. /\ run \in RunRecords
      /\ info \in [Fields -> Texts]
  BY DEF IInv, Types
<1>3. info' \in [Fields -> Texts]
  <2>1. run.set \in [Fields -> Texts]
    BY <1>2 DEF RunRecords
  <2> QED BY <1>1, <1>2, <2>1, Overriding DEF Effective
<1>4. NoRun \in RunRecords
  BY Fresh
<1>5. found' \in Seq(Findings)
  <2>1. CASE EndPlugin
    BY <2>1 DEF EndPlugin, IInv, Types
  <2>2. CASE PluginThrows
    <3>1. run.plugin \in Texts /\ RuntimeError \in Findings
      BY Running, Directory, Literals, Qualities, Reported DEF Plugins, RuntimeError
    <3> QED BY <2>2, <3>1, AppendProperties DEF PluginThrows, IInv, Types
  <2> QED BY <2>1, <2>2
<1>6. Types'
  BY <1>1, <1>3, <1>4, <1>5 DEF IInv, Types, Plugins
<1>7. RunInv' /\ Idle'
  BY <1>1, Running DEF IInv, RunInv, Idle, NoRun
<1>8. Effective' = Effective
  BY <1>1, <1>3 DEF Effective, Override, NoRun, Nothing
<1>9. SeenInv'
  BY <1>1, <1>7, <1>8 DEF IInv, SeenInv
<1>10. ServiceInv'
  BY <1>1, Running DEF IInv, ServiceInv, Effective, Override, Fields
<1>11. RowsInv'
  BY <1>1, Running DEF RowsInv
<1> QED BY <1>6, <1>7, <1>9, <1>10, <1>11 DEF IInv

LEMMA PassKeeps == ASSUME IInv, NextPass PROVE IInv'
<1>1. /\ pc = "pass1" /\ pc' = "pass2" /\ Idle /\ queue' = order
      /\ UNCHANGED <<dir, order, port, tagged, info, kb, behind, run, ran, found, local, rows>>
  BY DEF NextPass
<1>2. Types'
  BY <1>1 DEF IInv, Types, Plugins
<1>3. RunInv' /\ SeenInv'
  BY <1>1 DEF IInv, RunInv, SeenInv, Idle, Effective
<1>4. ServiceInv' /\ RowsInv'
  BY <1>1 DEF IInv, ServiceInv, RowsInv
<1> QED BY <1>2, <1>3, <1>4 DEF IInv

LEMMA DoneKeeps == ASSUME IInv, PluginsDone PROVE IInv'
<1>1. /\ pc = "pass2" /\ pc' = "cves" /\ Idle
      /\ port' = Override(port, info, "") /\ local' = local \o found
      /\ UNCHANGED <<dir, order, tagged, queue, info, kb, behind, run, ran, found, rows>>
  BY DEF PluginsDone
<1>2. /\ port \in [Fields -> Texts] /\ info \in [Fields -> Texts]
      /\ local \in Seq(Findings) /\ found \in Seq(Findings)
  BY DEF IInv, Types
<1>3. port' \in [Fields -> Texts]
  BY <1>1, <1>2, Overriding
<1>4. local' \in Seq(Findings) /\ ToSet(local') = ToSet(local) \cup ToSet(found)
  <2>1. local' = local \o found
    BY <1>1
  <2>2. local \in Seq(Findings) /\ found \in Seq(Findings)
    BY <1>2
  <2> QED BY <2>1, <2>2, Joined
<1>5. Types'
  BY <1>1, <1>3, <1>4 DEF IInv, Types, Plugins
<1>6. RunInv' /\ SeenInv'
  BY <1>1 DEF IInv, RunInv, SeenInv, Idle, Effective
<1>7. ServiceInv'
  BY <1>1, <1>2 DEF IInv, ServiceInv, Override, Fields
<1>8. RowsInv'
  BY <1>1, <1>4 DEF RowsInv
<1> QED BY <1>5, <1>6, <1>7, <1>8 DEF IInv

\* The database and the publication.
LEMMA SameDatabase == ASSUME UNCHANGED <<port, tagged>> PROVE DbFindings' = DbFindings
  BY DEF DbFindings, Patched

LEMMA CvesKeep == ASSUME IInv, CheckCves PROVE IInv'
<1>1. /\ pc = "cves" /\ pc' = "dedup" /\ local' = FillDefaults(WithDatabase)
      /\ UNCHANGED <<dir, order, port, tagged, queue, info, kb, behind, run, ran, found, rows>>
  BY DEF CheckCves
<1>2. port \in [Fields -> Texts] /\ local \in Seq(Findings)
  BY DEF IInv, Types
<1>3. /\ WithDatabase \in Seq(Findings)
      /\ \A f \in ToSet(local) : f \in ToSet(WithDatabase)
      /\ \A f \in ToSet(DbFindings) : f.cve # "" => \E g \in ToSet(WithDatabase) : g.cve = f.cve
  BY <1>2, Completed
<1>4. local' \in Seq(Findings) /\ \A f \in ToSet(WithDatabase) : \E g \in ToSet(local') : g.cve = f.cve
  BY <1>1, <1>2, <1>3, Filled
<1>5. Types'
  BY <1>1, <1>4 DEF IInv, Types, Plugins
<1>6. RunInv' /\ SeenInv'
  BY <1>1 DEF IInv, RunInv, SeenInv, Idle, Effective
<1>7. ServiceInv'
  BY <1>1 DEF IInv, ServiceInv
<1>8. RowsInv'
  <2>1. \A f \in ToSet(found) : \E g \in ToSet(local') : g.cve = f.cve
    BY <1>1, <1>3, <1>4 DEF IInv, RowsInv
  <2>2. \A f \in ToSet(DbFindings) : f.cve # "" => \E g \in ToSet(local') : g.cve = f.cve
    BY <1>3, <1>4
  <2>3. DbFindings' = DbFindings
    BY <1>1, SameDatabase
  <2> QED BY <1>1, <2>1, <2>2, <2>3 DEF RowsInv
<1> QED BY <1>5, <1>6, <1>7, <1>8 DEF IInv

LEMMA PublishKeeps == ASSUME IInv, Publish PROVE IInv'
<1>1. /\ pc = "dedup" /\ pc' = "published" /\ rows' = Dedup(local)
      /\ UNCHANGED <<dir, order, port, tagged, queue, info, kb, behind, run, ran, found, local>>
  BY DEF Publish
<1>2. rows' \in Seq(Findings) /\ Best(rows', ToSet(local))
  BY <1>1, Deduplicates DEF IInv, Types
<1>3. Types'
  BY <1>1, <1>2 DEF IInv, Types, Plugins
<1>4. RunInv' /\ SeenInv'
  BY <1>1 DEF IInv, RunInv, SeenInv, Idle, Effective
<1>5. ServiceInv'
  BY <1>1 DEF IInv, ServiceInv
<1>6. RowsInv'
  <2>1. DbFindings' = DbFindings
    BY <1>1, SameDatabase
  <2> QED BY <1>1, <1>2, <2>1 DEF IInv, RowsInv
<1> QED BY <1>3, <1>4, <1>5, <1>6 DEF IInv

LEMMA StutterKeeps == ASSUME IInv, UNCHANGED vars PROVE IInv'
<1>1. DbFindings' = DbFindings
  BY SameDatabase DEF vars
<1>2. Types' /\ RunInv'
  BY DEF vars, IInv, Types, Plugins, RunInv, Idle
<1>3. SeenInv' /\ ServiceInv'
  BY DEF vars, IInv, SeenInv, Idle, Effective, ServiceInv
<1>4. RowsInv'
  BY <1>1 DEF vars, IInv, RowsInv
<1> QED BY <1>2, <1>3, <1>4 DEF IInv

-----------------------------------------------------------------------------
\* The invariant of the task: a plugin's claims, the KB, the row and the findings agree,
\* whatever directory was loaded, whatever the plugins do and whatever the database has.
THEOREM Invariant == Spec => []IInv
<1>1. IInv /\ [Next]_vars => IInv'
  <2> SUFFICES ASSUME IInv, [Next]_vars PROVE IInv'
    OBVIOUS
  <2>1. CASE UNCHANGED vars
    BY <2>1, StutterKeeps
  <2>2. CASE PluginStep
    BY <2>2, ClaimKeeps, ClaimThrowsKeeps, ReportKeeps, EndKeeps DEF PluginStep
  <2>3. CASE Over
    BY <2>3, StutterKeeps DEF Over
  <2> QED BY <2>1, <2>2, <2>3, ConnectKeeps, NativeKeeps, BeginKeeps, SkipKeeps, StartKeeps, PassKeeps,
             DoneKeeps, CvesKeep, PublishKeeps DEF Next
<1> QED BY <1>1, Initially, PTL DEF Spec
\* Every key that the plugins see is the row's value or hidden, between two runs and
\* during one (register_stdlib, set_service and absorb).
THEOREM Seen == Spec => []PluginsSeeWhatIsReported
<1>1. IInv => PluginsSeeWhatIsReported
  <2> SUFFICES ASSUME IInv PROVE PluginsSeeWhatIsReported
    OBVIOUS
  <2>1. ASSUME Idle, NEW k \in Fields \ behind PROVE kb[k] \in {Omitted, "", info[k]}
    <3>1. run = NoRun /\ info \in [Fields -> Texts]
      BY <2>1 DEF IInv, RunInv, Types
    <3>2. Effective[k] = info[k]
      BY <3>1 DEF Effective, Override, NoRun, Nothing
    <3> QED BY <3>2 DEF IInv, SeenInv
  <2>2. ASSUME ~Idle, NEW k \in (Fields \ behind) \cup {"service"}
        PROVE  run.target[k] \in {"", Override(info, run.set, "")[k]}
    BY <2>2 DEF IInv, SeenInv, Effective
  <2> QED BY <2>1, <2>2 DEF PluginsSeeWhatIsReported
<1> QED BY <1>1, Invariant, PTL

\* What a finding and the row that stands for it have in common.
LEMMA SameCve ==
    ASSUME NEW f \in Findings, NEW r \in Findings, Identity(f) = Identity(r), f.cve # ""
    PROVE  r.cve = f.cve
<1> DEFINE F == IF f.cve = "" THEN <<f.by, f.title>> ELSE <<f.cve>>
           R == IF r.cve = "" THEN <<r.by, r.title>> ELSE <<r.cve>>
<1>1. F = R
  BY DEF Identity
<1>2. F = <<f.cve>> /\ Len(F) = 1 /\ F[1] = f.cve
  OBVIOUS
<1>3. r.cve # ""
  <2> SUFFICES ASSUME r.cve = "" PROVE FALSE
    OBVIOUS
  <2>1. Len(R) = 2
    OBVIOUS
  <2> QED BY <1>1, <1>2, <2>1
<1>4. R = <<r.cve>> /\ R[1] = r.cve
  BY <1>3
<1> QED BY <1>1, <1>2, <1>4

\* No CVE of a check, of a plugin or of the database is missing in the rows (check_port,
\* fill_defaults and deduplicate_findings).
THEOREM NoneLost == Spec => []NoCveLost
<1>1. IInv => NoCveLost
  <2> SUFFICES ASSUME IInv, pc = "published",
                      NEW f \in ToSet(local) \cup ToSet(found) \cup ToSet(DbFindings), f.cve # ""
               PROVE  \E r \in ToSet(rows) : r.cve = f.cve
    BY DEF NoCveLost
  <2>1. \E g \in ToSet(local) : g.cve = f.cve
    BY DEF IInv, RowsInv
  <2>2. PICK g \in ToSet(local) : g.cve = f.cve
    BY <2>1
  <2>3. local \in Seq(Findings) /\ rows \in Seq(Findings) /\ Best(rows, ToSet(local))
    BY DEF IInv, Types, RowsInv
  <2>4. PICK i \in 1..Len(rows) : Identity(rows[i]) = Identity(g)
    BY <2>3 DEF Best
  <2>5. g \in Findings /\ rows[i] \in ToSet(rows) /\ rows[i] \in Findings
    <3>1. ToSet(local) \subseteq Findings /\ ToSet(rows) \subseteq Findings /\ ToSet(rows) = {rows[j] : j \in 1..Len(rows)}
      BY <2>3, Members
    <3> QED BY <2>2, <2>4, <3>1
  <2>6. rows[i].cve = g.cve
    BY <2>2, <2>4, <2>5, SameCve
  <2> QED BY <2>2, <2>5, <2>6
<1> QED BY <1>1, Invariant, PTL

LEMMA RowsAreBest == IInv => DedupKeepsTheBest
<1> SUFFICES ASSUME IInv PROVE DedupKeepsTheBest
  OBVIOUS
<1>1. local \in Seq(Findings) /\ rows \in Seq(Findings)
  BY DEF IInv, Types
<1>2. /\ DOMAIN rows = 1..Len(rows) /\ ToSet(rows) = {rows[i] : i \in 1..Len(rows)}
      /\ ToSet(local) \subseteq Findings
  BY <1>1, Members, LenProperties
<1>3. TypeOK
  <2>1. run.plugin \in Plugins \cup {""}
    BY DEF IInv, Types, RunInv, Idle
  <2>2. \A f \in ToSet(local) : f.verification \in Verifications
    BY <1>2 DEF Findings
  <2>3. pc = "pass1" /\ info["service"] # "" => kb["service"] # Omitted \/ "service" \in behind
    BY DEF IInv, SeenInv, Effective, Override, Fields
  <2> QED BY <2>1, <2>2, <2>3 DEF TypeOK, IInv, Types
<1>4. pc = "published" => Best(rows, ToSet(local))
  BY DEF IInv, RowsInv
<1>5. UniqueRows
  BY <1>2, <1>4 DEF UniqueRows, Best
<1>6. EvidenceKept
  BY <1>2, <1>4 DEF EvidenceKept, Best
<1>7. StrongestKept
  BY <1>2, <1>4 DEF StrongestKept, Best
<1> QED BY <1>3, <1>5, <1>6, <1>7 DEF DedupKeepsTheBest

\* deduplicate_findings leaves one row of each identity, which has evidence if one of its
\* findings had, and if all had, the strongest verification of them.
THEOREM BestKept == Spec => []DedupKeepsTheBest
<1> QED BY RowsAreBest, Invariant, PTL

-----------------------------------------------------------------------------
(* The two passes, while plugins with a filter claim no other service. *)

LEMMA Discovery == ASSUME IInv, PassInv, [Next]_vars PROVE PassInv'
<1> USE DEF Filtered, Plugins
<1>1. ASSUME UNCHANGED <<pc, dir, info, queue, ran>>, run'.plugin = run.plugin, run'.set = run.set PROVE PassInv'
  BY <1>1 DEF PassInv, OwnServices, Idle
<1>2. CASE UNCHANGED vars \/ Over
  BY <1>1, <1>2 DEF Over, vars
<1>3. CASE Connect \/ NativeChecks
  BY <1>3 DEF Connect, NativeChecks, PassInv, OwnServices
<1>4. CASE BeginPlugins
  <2>1. ran = {} /\ ran' = ran /\ pc' = "pass1"
    BY <1>4 DEF BeginPlugins, IInv, RunInv
  <2> QED BY <2>1 DEF PassInv, OwnServices
<1>5. ASSUME pc \in {"pass1", "pass2"}, queue # <<>>
      PROVE  /\ Head(queue) \in Plugins /\ Tail(queue) \in Seq(Plugins)
             /\ pc = "pass2" => /\ ToSet(Tail(queue)) = ToSet(queue) \ {Head(queue)}
                                /\ \A i, j \in 1..Len(Tail(queue)) : i # j => Tail(queue)[i] # Tail(queue)[j]
  <2>1. queue \in Seq(Plugins)
    BY DEF IInv, Types
  <2>2. pc = "pass2" => \A i, j \in 1..Len(queue) : i # j => queue[i] # queue[j]
    BY DEF PassInv
  <2> QED BY <1>5, <2>1, <2>2, Queues
<1>6. CASE SkipPlugin
  <2>1. /\ pc \in {"pass1", "pass2"} /\ Idle /\ queue # <<>> /\ queue' = Tail(queue) /\ ~Applies(Head(queue))
        /\ UNCHANGED <<pc, dir, info, run, ran>>
    BY <1>6 DEF SkipPlugin
  <2>2. CASE pc = "pass1"
    BY <2>1, <2>2 DEF PassInv, OwnServices
  <2>3. CASE pc = "pass2"
    <3>1. Head(queue) \in Filtered => dir.filter[Head(queue)] # info["service"]
      BY <2>1, <2>3 DEF Applies
    <3>2. \A p \in Filtered : p \in ran <=> dir.filter[p] = info["service"] /\ p \notin ToSet(Tail(queue))
      BY <1>5, <2>1, <2>3, <3>1 DEF PassInv
    <3> QED BY <1>5, <2>1, <2>3, <3>2 DEF PassInv, OwnServices, Idle
  <2> QED BY <2>1, <2>2, <2>3
<1>7. CASE StartPlugin
  <2>1. /\ pc \in {"pass1", "pass2"} /\ queue # <<>> /\ queue' = Tail(queue) /\ Applies(Head(queue))
        /\ ran' = ran \cup {Head(queue)}
        /\ UNCHANGED <<pc, dir, info>>
    BY <1>7 DEF StartPlugin
  <2>2. run'.plugin = Head(queue) /\ run'.set["service"] = ""
    BY <1>7 DEF StartPlugin, NoRun, Nothing, Fields
  <2>3. CASE pc = "pass1"
    BY <2>1, <2>3 DEF PassInv, OwnServices, Applies
  <2>4. CASE pc = "pass2"
    <3>1. dir.filter[Head(queue)] # "any" /\ dir.filter[Head(queue)] \in {"", info["service"]}
      BY <2>1, <2>4 DEF Applies
    <3>2. \A p \in Filtered : p \in ran' <=> dir.filter[p] = info["service"] /\ p \notin ToSet(Tail(queue))
      BY <1>5, <2>1, <2>4, <3>1 DEF PassInv
    <3>3. \A i, j \in 1..Len(queue') : i # j => queue'[i] # queue'[j]
      BY <1>5, <2>1, <2>4
    <3>4. /\ dir'.filter[run'.plugin] # "any" /\ dir'.filter[run'.plugin] \in {"", info'["service"]}
          /\ run'.set["service"] \in {"", info'["service"]}
      BY <2>1, <2>2, <3>1
    <3>5. \A p \in Filtered' : p \in ran' <=> dir'.filter[p] = info'["service"] /\ p \notin ToSet(queue')
      BY <2>1, <3>2 DEF Filtered
    <3> QED BY <2>1, <2>4, <3>3, <3>4, <3>5 DEF PassInv, OwnServices
  <2> QED BY <2>1, <2>3, <2>4
<1>8. CASE PluginStep
  <2>1. ~Idle /\ run.plugin \in Plugins /\ pc \in {"pass1", "pass2"} /\ dir \in Directories
    BY <1>8, Running DEF PluginStep
  <2>2. ASSUME NEW c \in dir.claims[run.plugin], SetService(c) PROVE PassInv'
    <3>1. UNCHANGED <<pc, dir, info, queue, ran>>
      BY <2>2 DEF SetService
    <3>2. run \in RunRecords /\ c \in [Fields -> Texts]
      BY <2>1, Directory DEF IInv, Types
    <3>3. run' = [run EXCEPT !.calls = @ + 1, !.set = Override(@, c, Omitted), !.target = Override(@, c, Omitted)]
      BY <2>2 DEF SetService
    <3>4. run'.plugin = run.plugin /\ run'.set = Override(run.set, c, Omitted)
      BY <3>2, <3>3, Claimed
    <3>5. run'.set["service"] \in {run.set["service"], c["service"]}
      BY <3>4 DEF Override, Fields
    <3>6. pc = "pass2" => c["service"] \in {"", info["service"]}
      BY <2>1 DEF PassInv, OwnServices
    <3>7. pc' = pc /\ Filtered' = Filtered /\ (~Idle <=> ~Idle')
      BY <3>1, <3>4 DEF Filtered, Plugins, Idle
    <3>8. ASSUME pc = "pass2"
          PROVE  /\ dir'.filter[run'.plugin] # "any" /\ dir'.filter[run'.plugin] \in {"", info'["service"]}
                 /\ run'.set["service"] \in {"", info'["service"]}
      BY <2>1, <3>1, <3>4, <3>5, <3>6, <3>8 DEF PassInv
    <3>9. /\ OwnServices' /\ (pc' = "pass1" => \A p \in ran' : dir'.filter[p] = "any")
          /\ pc' \notin {"cves", "dedup", "published"}
      BY <2>1, <3>1 DEF PassInv, OwnServices
    <3>10. pc' = "pass2" =>
              /\ \A i, j \in 1..Len(queue') : i # j => queue'[i] # queue'[j]
              /\ \A p \in Filtered' : p \in ran' <=> dir'.filter[p] = info'["service"] /\ p \notin ToSet(queue')
      <4> SUFFICES ASSUME pc = "pass2"
                   PROVE  /\ \A i, j \in 1..Len(queue') : i # j => queue'[i] # queue'[j]
                          /\ \A p \in Filtered' : p \in ran' <=>
                                dir'.filter[p] = info'["service"] /\ p \notin ToSet(queue')
        BY <3>7
      <4>1. queue' = queue /\ \A i, j \in 1..Len(queue) : i # j => queue[i] # queue[j]
        BY <3>1 DEF PassInv
      <4>2. \A p \in Filtered : p \in ran <=> dir.filter[p] = info["service"] /\ p \notin ToSet(queue)
        BY DEF PassInv
      <4>3. dir' = dir /\ info' = info /\ ran' = ran
        BY <3>1
      <4> QED BY <3>7, <4>1, <4>2, <4>3
    <3> QED BY <3>7, <3>8, <3>9, <3>10 DEF PassInv
  <2>3. ASSUME NEW r \in dir.reports, ReportFinding(r) PROVE PassInv'
    <3>1. UNCHANGED <<pc, dir, info, queue, ran>> /\ run' = [run EXCEPT !.calls = @ + 1]
      BY <2>3 DEF ReportFinding
    <3>2. run'.plugin = run.plugin /\ run'.set = run.set
      BY <3>1, Counted DEF IInv, Types
    <3> QED BY <1>1, <3>1, <3>2
  <2>4. CASE EndPlugin \/ PluginThrows
    <3>1. /\ info' = Override(info, run.set, "") /\ run' = NoRun
          /\ UNCHANGED <<pc, dir, queue, ran>>
      BY <2>4 DEF EndPlugin, PluginThrows, Absorb
    <3>2. Idle'
      BY <3>1 DEF Idle, NoRun
    <3>3. pc = "pass2" => info'["service"] = info["service"]
      BY <2>1, <3>1 DEF PassInv, Override, Fields
    <3> QED BY <2>1, <3>1, <3>2, <3>3 DEF PassInv, OwnServices
  <2>5. ASSUME NEW c \in dir.claims[run.plugin], ClaimThrows(c) PROVE PassInv'
    <3>1. run' = NoRun /\ UNCHANGED <<pc, dir, queue, ran>>
      BY <2>5 DEF ClaimThrows
    <3>2. Idle'
      BY <3>1 DEF Idle, NoRun
    <3>3. info'["service"] = "" \/ info'["service"] \in {info["service"], run.set["service"], c["service"]}
      BY <2>5 DEF ClaimThrows, Override, Fields
    <3>4. info'["service"] = "" => info["service"] = ""
      BY <2>5 DEF ClaimThrows, Override, Fields
    <3>5. pc = "pass2" => c["service"] \in {"", info["service"]} /\ run.set["service"] \in {"", info["service"]}
      BY <2>1 DEF PassInv, OwnServices
    <3>6. pc = "pass2" => info'["service"] = info["service"]
      BY <3>3, <3>4, <3>5
    <3> QED BY <2>1, <3>1, <3>2, <3>6 DEF PassInv, OwnServices
  <2> QED BY <1>8, <2>2, <2>3, <2>4, <2>5 DEF PluginStep
<1>9. CASE NextPass
  <2>1. pc = "pass1" /\ pc' = "pass2" /\ Idle /\ queue' = order /\ UNCHANGED <<dir, info, run, ran>>
    BY <1>9 DEF NextPass
  <2>2. ToSet(queue') = Plugins /\ \A i, j \in 1..Len(queue') : i # j => queue'[i] # queue'[j]
    BY <2>1 DEF IInv, Types
  <2>3. \A p \in Filtered : p \notin ran
    BY <2>1 DEF PassInv
  <2> QED BY <2>1, <2>2, <2>3 DEF PassInv, OwnServices, Idle
<1>10. CASE PluginsDone
  <2>1. pc = "pass2" /\ pc' = "cves" /\ queue = <<>> /\ UNCHANGED <<dir, info, ran>>
    BY <1>10 DEF PluginsDone
  <2>2. ToSet(queue) = {}
    BY <2>1 DEF ToSet
  <2> QED BY <2>1, <2>2 DEF PassInv, OwnServices
<1>11. CASE CheckCves \/ Publish
  BY <1>11 DEF CheckCves, Publish, PassInv, OwnServices
<1> QED BY <1>2, <1>3, <1>4, <1>6, <1>7, <1>8, <1>9, <1>10, <1>11 DEF Next

\* The checks with a filter that ran are those for the published service, in any order of
\* the directory: the first pass settles the service, the second one cannot change it.
THEOREM ServiceChecks == OwnServices /\ Spec => []ChecksMatchService
<1>1. OwnServices /\ Init => PassInv
  BY DEF Init, PassInv
<1>2. IInv /\ PassInv /\ [Next]_vars => PassInv'
  BY Discovery
<1>3. IInv /\ PassInv => ChecksMatchService
  BY DEF IInv, ServiceInv, PassInv, ChecksMatchService, Filtered
<1> QED BY <1>1, <1>2, <1>3, Invariant, PTL DEF Spec
=============================================================================
