--------------------------- MODULE DecisionsProofs ---------------------------
(***************************************************************************)
(* Proofs, for every input and all limits, that the decisions of the pure  *)
(* functions are right: the addresses of a block, the laws of the version  *)
(* orders and what rests on them, the verdict on a TLS server, the bytes   *)
(* of a range.  Facts about recursive functions rest on the least          *)
(* counterexample (WFMin); the laws of every comparison rest on one lemma  *)
(* about the first of several comparisons that decides (FirstLawful).      *)
(***************************************************************************)
EXTENDS Decisions, SequenceTheorems, FiniteSetTheorems, WellFoundedInduction, TLAPS

-----------------------------------------------------------------------------
(* Numbers and loops.                                                      *)

\* A nonempty set of naturals has a least element.
LEMMA Least ==
    ASSUME NEW T, T \subseteq Nat, T # {}
    PROVE  \E n \in T : \A m \in T : n <= m
<1>1. \E R : IsWellFoundedOn(R, Nat) /\ \A m, n \in Nat : m < n => <<m, n>> \in R
  <2> DEFINE R == OpToRel(<, Nat)
  <2>1. IsWellFoundedOn(R, Nat)
    BY NatLessThanWellFounded
  <2>2. \A m, n \in Nat : m < n => <<m, n>> \in R
    BY DEF OpToRel
  <2> HIDE DEF R
  <2> QED BY <2>1, <2>2
<1>2. PICK R : IsWellFoundedOn(R, Nat) /\ \A m, n \in Nat : m < n => <<m, n>> \in R
  BY <1>1
<1>3. \E n \in T : \A m \in T : ~ (<<m, n>> \in R)
  <2>1. IsWellFoundedOn(R, Nat)
    BY <1>2
  <2> HIDE <1>2
  <2> QED BY <2>1, WFMin, Zenon
<1>4. PICK n \in T : \A m \in T : ~ (<<m, n>> \in R)
  BY <1>3
<1>5. \A m \in T : n <= m
  <2> SUFFICES ASSUME NEW m \in T PROVE n <= m
    OBVIOUS
  <2>1. m \in Nat /\ n \in Nat
    OBVIOUS
  <2>2. ~(m < n)
    BY <1>2, <1>4, <2>1
  <2> QED BY <2>1, <2>2
<1> QED BY <1>5

\* A set that holds 0, and with a number the next one, holds every number.
LEMMA Upward ==
    ASSUME NEW S, 0 \in S, \A n \in Nat : n \in S => n + 1 \in S
    PROVE  \A n \in Nat : n \in S
<1> SUFFICES ASSUME Nat \ S # {} PROVE FALSE
  OBVIOUS
<1>1. \E n \in Nat \ S : \A m \in Nat \ S : n <= m
  BY Least
<1>2. PICK n \in Nat \ S : \A m \in Nat \ S : n <= m
  BY <1>1
<1>3. n # 0 /\ n - 1 \in Nat /\ n \in Nat /\ ~(n <= n - 1)
  OBVIOUS
<1>4. n - 1 \in S
  BY <1>2, <1>3
<1>5. n - 1 + 1 \in S
  BY <1>3, <1>4
<1> QED BY <1>3, <1>5

\* The least and the greatest element of a nonempty bounded set of naturals.
LEMMA MinOf ==
    ASSUME NEW T, T \subseteq Nat, T # {}
    PROVE  Min(T) \in T /\ \A m \in T : Min(T) <= m
<1>1. \E n \in T : \A m \in T : n <= m
  BY Least
<1> QED BY <1>1 DEF Min

LEMMA MaxOf ==
    ASSUME NEW N \in Nat, NEW T, T \subseteq 0..N, T # {}
    PROVE  Max(T) \in T /\ \A m \in T : m <= Max(T)
<1> DEFINE U == {n \in Nat : \A m \in T : m <= n}
<1>1. N \in U /\ U \subseteq Nat
  OBVIOUS
<1>2. PICK n \in U : \A m \in U : n <= m
  <2> HIDE DEF U
  <2> QED BY <1>1, Least
<1>3. n \in T
  <2> SUFFICES ASSUME n \notin T PROVE FALSE
    OBVIOUS
  <2>1. PICK m \in T : TRUE
    OBVIOUS
  <2>2. n \in Nat /\ m \in Nat /\ m <= n /\ m # n
    BY <2>1
  <2>3. n - 1 \in U
    BY <2>2
  <2> QED BY <1>2, <2>2, <2>3
<1>4. \E x \in T : \A y \in T : x >= y
  BY <1>2, <1>3
<1>5. Max(T) \in T /\ \A y \in T : Max(T) >= y
  BY <1>4 DEF Max
<1> QED BY <1>5

\* A loop that starts at e and whose turn i is G[i] runs through f.
Loop(f, e, G) == f[0] = e /\ \A i \in Nat : f[i + 1] = G[i][f[i]]

LEMMA LoopRuns ==
    ASSUME NEW S, NEW e \in S, NEW G \in [Nat -> [S -> S]]
    PROVE  \E f \in [Nat -> S] : Loop(f, e, G)
<1> DEFINE Runs(f, n) == f[0] = e /\ \A i \in 0..(n - 1) : f[i + 1] = G[i][f[i]]
           Good == {n \in Nat : \E f \in [0..n -> S] : Runs(f, n)}
<1>1. 0 \in Good
  <2>1. [i \in 0..0 |-> e] \in [0..0 -> S] /\ Runs([i \in 0..0 |-> e], 0)
    OBVIOUS
  <2> QED BY <2>1
<1>2. ASSUME NEW n \in Nat, n \in Good PROVE n + 1 \in Good
  <2>1. PICK f \in [0..n -> S] : Runs(f, n)
    BY <1>2
  <2> DEFINE g == [i \in 0..(n + 1) |-> IF i = n + 1 THEN G[n][f[n]] ELSE f[i]]
  <2>2. G[n][f[n]] \in S
    BY <2>1
  <2>3. g \in [0..(n + 1) -> S] /\ g[0] = e
    BY <2>1, <2>2
  <2>4. \A i \in 0..n : g[i + 1] = G[i][g[i]]
    <3> SUFFICES ASSUME NEW i \in 0..n PROVE g[i + 1] = G[i][g[i]]
      OBVIOUS
    <3>1. CASE i = n
      BY <3>1
    <3>2. CASE i # n
      <4>1. i \in 0..(n - 1) /\ i + 1 \in 0..(n + 1) /\ i + 1 # n + 1 /\ i # n + 1
        BY <3>2
      <4> QED BY <2>1, <4>1
    <3> QED BY <3>1, <3>2
  <2> HIDE DEF g
  <2>5. Runs(g, n + 1)
    BY <2>3, <2>4
  <2> QED BY <2>3, <2>5
<1>3. \A n \in Nat : n \in Good
  <2> HIDE DEF Good
  <2> QED BY <1>1, <1>2, Upward
<1> DEFINE F == [n \in Nat |-> CHOOSE f \in [0..n -> S] : Runs(f, n)]
           run == [n \in Nat |-> F[n][n]]
<1>4. \A n \in Nat : F[n] \in [0..n -> S] /\ Runs(F[n], n)
  BY <1>3
<1>5. \A n \in Nat : \A i \in 0..n : F[n + 1][i] = F[n][i]
  <2> SUFFICES ASSUME NEW n \in Nat PROVE \A i \in 0..n : F[n + 1][i] = F[n][i]
    OBVIOUS
  <2> DEFINE Same == {i \in Nat : i <= n => F[n + 1][i] = F[n][i]}
  <2> HIDE DEF F
  <2>0. n \in Nat /\ n + 1 \in Nat
    OBVIOUS
  <2>1. Runs(F[n], n) /\ Runs(F[n + 1], n + 1)
    <3> HIDE DEF Runs
    <3> QED BY <1>4, <2>0
  <2>2. 0 \in Same
    BY <2>1
  <2>3. ASSUME NEW i \in Nat, i \in Same PROVE i + 1 \in Same
    <3> SUFFICES ASSUME i + 1 <= n PROVE F[n + 1][i + 1] = F[n][i + 1]
      OBVIOUS
    <3>1. i \in 0..(n - 1) /\ i \in 0..(n + 1 - 1) /\ F[n + 1][i] = F[n][i]
      BY <2>3
    <3> QED BY <2>1, <3>1
  <2>4. \A i \in Nat : i \in Same
    <3> HIDE DEF Same
    <3> QED BY <2>2, <2>3, Upward
  <2> QED BY <2>4
<1> HIDE DEF F
<1>6. run \in [Nat -> S] /\ run[0] = e
  <2>1. \A n \in Nat : n \in 0..n /\ F[n] \in [0..n -> S]
    BY <1>4
  <2>2. \A n \in Nat : F[n][n] \in S
    BY <2>1
  <2>3. F[0][0] = e
    BY <1>4
  <2> QED BY <2>2, <2>3
<1>7. \A i \in Nat : run[i + 1] = G[i][run[i]]
  <2> SUFFICES ASSUME NEW i \in Nat PROVE run[i + 1] = G[i][run[i]]
    OBVIOUS
  <2>1. F[i + 1][i + 1] = G[i][F[i + 1][i]]
    BY <1>4
  <2>2. F[i + 1][i] = F[i][i]
    BY <1>5
  <2> QED BY <2>1, <2>2
<1> HIDE DEF run
<1> QED BY <1>6, <1>7 DEF Loop

\* A part of a sequence.
LEMMA PartOf ==
    ASSUME NEW S, NEW s \in Seq(S), NEW m \in Nat, NEW n \in Nat, m + n <= Len(s)
    PROVE  /\ SubSeq(s, m + 1, m + n) = [j \in 1..n |-> s[m + j]]
           /\ SubSeq(s, m + 1, m + n) \in Seq(S) /\ Len(SubSeq(s, m + 1, m + n)) = n
<1> DEFINE t == SubSeq(s, m + 1, m + n)
<1>1. Len(s) \in Nat /\ \A i \in 1..Len(s) : s[i] \in S
  BY LenProperties
<1>2. /\ m + 1 \in Int /\ m + n \in Int /\ (m + n) - (m + 1) + 1 = n
      /\ \A i \in (m + 1)..(m + n) : s[i] \in S
  BY <1>1
<1>3. /\ t \in Seq(S) /\ Len(t) = (IF m + 1 <= m + n THEN (m + n) - (m + 1) + 1 ELSE 0)
      /\ \A i \in 1..((m + n) - (m + 1) + 1) : t[i] = s[(m + 1) + i - 1]
  BY <1>2, SubSeqProperties
<1> HIDE DEF t
<1>4. Len(t) = n /\ \A j \in 1..n : t[j] = s[m + j]
  <2>1. \A j \in 1..n : (m + 1) + j - 1 = m + j
    OBVIOUS
  <2> QED BY <1>2, <1>3, <2>1
<1>5. t = [j \in 1..n |-> s[m + j]]
  <2>1. t = [j \in 1..Len(t) |-> t[j]]
    BY <1>3
  <2> QED BY <1>4, <2>1
<1> QED BY <1>3, <1>4, <1>5 DEF t

-----------------------------------------------------------------------------
(* Addresses.                                                              *)

\* A number is the block it is in and its place in the block.
LEMMA Division ==
    ASSUME NEW a \in Nat, NEW b \in Nat \ {0}
    PROVE  /\ a \div b \in Nat /\ a % b \in 0..(b - 1)
           /\ a = b * (a \div b) + (a % b)
OBVIOUS

\* Powers of two are positive, and the powers of a sum are the products.
LEMMA Powers ==
    /\ \A n \in Nat : Pow2[n] \in Nat \ {0}
    /\ \A m, n \in Nat : Pow2[m + n] = Pow2[m] * Pow2[n]
    /\ Pow2[0] = 1
<1> DEFINE Double == [i \in Nat |-> [x \in Nat |-> 2 * x]]
<1>0. Double \in [Nat -> [Nat -> Nat]] /\ \A i, x \in Nat : Double[i][x] = 2 * x
  OBVIOUS
<1> HIDE DEF Double
<1>1. PICK f \in [Nat -> Nat] : Loop(f, 1, Double)
  BY <1>0, LoopRuns
<1>2. \A n \in Nat : f[n] = IF n = 0 THEN 1 ELSE 2 * f[n - 1]
  <2> SUFFICES ASSUME NEW n \in Nat, n # 0 PROVE f[n] = 2 * f[n - 1]
    BY <1>1 DEF Loop
  <2>1. n - 1 \in Nat /\ n - 1 + 1 = n
    OBVIOUS
  <2> QED BY <1>0, <1>1, <2>1 DEF Loop
<1>3. f = [n \in Nat |-> IF n = 0 THEN 1 ELSE 2 * f[n - 1]]
  BY <1>1, <1>2
<1>4. Pow2 = [n \in Nat |-> IF n = 0 THEN 1 ELSE 2 * Pow2[n - 1]]
  BY <1>3 DEF Pow2
<1>5. Pow2[0] = 1 /\ \A n \in Nat : Pow2[n + 1] = 2 * Pow2[n]
  <2>1. \A n \in Nat : Pow2[n] = IF n = 0 THEN 1 ELSE 2 * Pow2[n - 1]
    BY <1>4
  <2>2. \A n \in Nat : n + 1 \in Nat /\ n + 1 # 0 /\ n + 1 - 1 = n
    OBVIOUS
  <2> QED BY <2>1, <2>2
<1>6. \A n \in Nat : Pow2[n] \in Nat \ {0}
  <2> DEFINE P == {n \in Nat : Pow2[n] \in Nat \ {0}}
  <2>1. 0 \in P /\ \A n \in Nat : n \in P => n + 1 \in P
    BY <1>5
  <2> HIDE DEF P
  <2>2. \A n \in Nat : n \in P
    BY <2>1, Upward
  <2> QED BY <2>2 DEF P
<1>7. ASSUME NEW n \in Nat PROVE \A m \in Nat : Pow2[m + n] = Pow2[m] * Pow2[n]
  <2> DEFINE P == {m \in Nat : Pow2[m + n] = Pow2[m] * Pow2[n]}
  <2>1. 0 \in P
    BY <1>5, <1>6
  <2>2. ASSUME NEW m \in Nat, m \in P PROVE m + 1 \in P
    <3>1. Pow2[m + 1 + n] = 2 * Pow2[m + n] /\ Pow2[m + 1] = 2 * Pow2[m]
      <4>1. m + n \in Nat /\ m + 1 + n = m + n + 1
        OBVIOUS
      <4> QED BY <1>5, <4>1
    <3>2. Pow2[m] \in Nat /\ Pow2[n] \in Nat /\ Pow2[m + n] = Pow2[m] * Pow2[n]
      BY <1>6, <2>2
    <3>3. 2 * (Pow2[m] * Pow2[n]) = (2 * Pow2[m]) * Pow2[n]
      BY <3>2
    <3> QED BY <3>1, <3>2, <3>3
  <2> HIDE DEF P
  <2>3. \A m \in Nat : m \in P
    BY <2>1, <2>2, Upward
  <2> QED BY <2>3 DEF P
<1> QED BY <1>5, <1>6, <1>7

\* The addresses that share a prefix with base are an interval, which starts where Hosts does.
LEMMA BlockIsInterval ==
    ASSUME NEW base \in 0..(Width - 1), NEW prefix \in 0..Bits
    PROVE  LET size == Block(prefix)
               first == base - (base % size)
           IN  /\ size \in Nat \ {0} /\ size <= Width /\ first \in Nat /\ first + size <= Width
               /\ {a \in 0..(Width - 1) : a \div size = base \div size} = first..(first + size - 1)
<1> DEFINE size == Block(prefix)
           k == Pow2[prefix]
           q == base \div size
           first == base - (base % size)
<1>1. Bits \in Nat /\ Bits - prefix \in Nat /\ prefix \in Nat /\ (Bits - prefix) + prefix = Bits
  BY CidrSizes
<1>2. size \in Nat \ {0} /\ k \in Nat \ {0} /\ Width = size * k /\ Width \in Nat
  BY <1>1, Powers DEF Block, Width
<1> HIDE DEF size, k
<1>3. base \in Nat /\ q \in Nat /\ base % size \in 0..(size - 1) /\ base = size * q + (base % size)
  <2>1. base \in Nat
    BY <1>2
  <2> QED BY <1>2, <2>1, Division
<1>4. first = size * q /\ first \in Nat
  BY <1>2, <1>3
<1>5. first + size <= Width
  <2> HIDE DEF q, first
  <2>1. size * q < size * k
    <3>1. base < Width
      BY <1>2
    <3>2. size * q <= base
      BY <1>2, <1>3, <1>4
    <3> QED BY <1>2, <1>3, <1>4, <3>1, <3>2
  <2>2. size * q + size <= size * k
    BY <1>2, <1>3, <2>1
  <2> QED BY <1>2, <1>4, <2>2
<1>6. ASSUME NEW a \in 0..(Width - 1) PROVE a \div size = q <=> a \in first..(first + size - 1)
  <2>1. /\ a \in Nat /\ a \div size \in Nat /\ a % size \in 0..(size - 1)
        /\ a = size * (a \div size) + (a % size)
    <3>1. a \in Nat
      BY <1>2
    <3> QED BY <1>2, <3>1, Division
  <2>2. ASSUME a \div size = q PROVE a \in first..(first + size - 1)
    <3> HIDE DEF first, q
    <3> QED BY <1>2, <1>3, <1>4, <2>1, <2>2
  <2>3. ASSUME a \in first..(first + size - 1) PROVE a \div size = q
    <3>1. a - size * q \in 0..(size - 1) /\ a = size * q + (a - size * q)
      <4> HIDE DEF first, q
      <4> QED BY <1>2, <1>3, <1>4, <2>1, <2>3
    <3> DEFINE r == a - size * q
    <3> HIDE DEF r, q, first
    <3>2. r \in 0..(size - 1) /\ a = size * q + r
      BY <3>1 DEF r
    <3> QED BY <1>2, <1>3, <2>1, <3>2
  <2> QED BY <2>2, <2>3
<1>7. first..(first + size - 1) \subseteq 0..(Width - 1)
  <2> HIDE DEF first
  <2> QED BY <1>2, <1>4, <1>5
<1>8. {a \in 0..(Width - 1) : a \div size = q} = first..(first + size - 1)
  <2> HIDE DEF first, q
  <2> QED BY <1>6, <1>7
<1>9. size <= Width
  <2> HIDE DEF first
  <2> QED BY <1>2, <1>4, <1>5
<1> QED BY <1>2, <1>4, <1>5, <1>8, <1>9 DEF size

\* The smaller of two numbers.
LEMMA SmallerOf ==
    ASSUME NEW m \in Nat, NEW n \in Nat
    PROVE  Min({m, n}) = IF m > n THEN n ELSE m
<1>1. Min({m, n}) \in {m, n} /\ \A k \in {m, n} : Min({m, n}) <= k
  BY MinOf
<1> QED BY <1>1

\* The loop of expand_cidr walks through the block from its first address.
LEMMA HostsOfBlock ==
    ASSUME NEW base \in 0..(Width - 1), NEW prefix \in 0..Bits
    PROVE  LET size == Block(prefix)
               block == {a \in 0..(Width - 1) : a \div size = base \div size}
               hosts == Hosts(base, prefix)
           IN  /\ Len(hosts) = Min({MaxHosts, Cardinality(block)})
               /\ \A i \in 1..Len(hosts) :
                     /\ hosts[i] \in block
                     /\ \A a \in block : a < hosts[i] <=> \E j \in 1..(i - 1) : hosts[j] = a
<1> DEFINE size == Block(prefix)
           first == base - (base % size)
           block == {a \in 0..(Width - 1) : a \div size = base \div size}
           count == IF size > MaxHosts THEN MaxHosts ELSE size
           hosts == Hosts(base, prefix)
<1>1. /\ size \in Nat \ {0} /\ size <= Width /\ first \in Nat /\ first + size <= Width
      /\ block = first..(first + size - 1)
  BY BlockIsInterval
<1>2. Width \in Nat \ {0} /\ MaxHosts \in Nat \ {0} /\ Bits \in Nat
  BY Powers, CidrSizes DEF Width
<1>3. hosts = [i \in 1..count |-> (first + i - 1) % Width]
  <2>1. Width - (IF prefix = 0 THEN 0 ELSE Width - size) = size
    <3>1. prefix = 0 => size = Width
      BY <1>2 DEF Block, Width
    <3> HIDE DEF size, first
    <3> QED BY <1>1, <1>2, <3>1
  <2> QED BY <2>1 DEF Hosts
<1> HIDE DEF size, first, block, hosts
<1>4. count \in Nat \ {0} /\ count <= size /\ count <= MaxHosts
  BY <1>1, <1>2
<1>5. hosts = [i \in 1..count |-> first + i - 1]
  <2>1. ASSUME NEW i \in 1..count PROVE (first + i - 1) % Width = first + i - 1
    <3>1. first + i - 1 \in Nat /\ first + i - 1 < Width
      BY <1>1, <1>2, <1>4
    <3> QED BY <1>2, <3>1
  <2> HIDE DEF count
  <2> QED BY <1>3, <2>1
<1>6. Cardinality(block) = size
  <2>1. first \in Int /\ first + size - 1 \in Int /\ first <= first + size - 1
        /\ (first + size - 1) - first + 1 = size
    BY <1>1
  <2>2. Cardinality(first..(first + size - 1)) = (first + size - 1) - first + 1
    BY <2>1, FS_Interval
  <2> QED BY <1>1, <2>1, <2>2
<1>7. Len(hosts) = count
  <2> HIDE DEF count
  <2> QED BY <1>4, <1>5
<1>8. Len(hosts) = Min({MaxHosts, Cardinality(block)})
  BY <1>1, <1>2, <1>6, <1>7, SmallerOf
<1>9. ASSUME NEW i \in 1..count
      PROVE  /\ hosts[i] \in block
             /\ \A a \in block : a < hosts[i] <=> \E j \in 1..(i - 1) : hosts[j] = a
  <2>1. hosts[i] = first + i - 1 /\ \A j \in 1..(i - 1) : hosts[j] = first + j - 1
    BY <1>4, <1>5
  <2>2. hosts[i] \in block
    BY <1>1, <1>4, <2>1
  <2>3. ASSUME NEW a \in block, a < hosts[i] PROVE \E j \in 1..(i - 1) : hosts[j] = a
    <3> DEFINE j == a - first + 1
    <3>1. j \in 1..(i - 1) /\ first + j - 1 = a
      BY <1>1, <1>4, <2>1, <2>3
    <3> HIDE DEF j
    <3> QED BY <2>1, <3>1
  <2>4. ASSUME NEW a \in block, NEW j \in 1..(i - 1), hosts[j] = a PROVE a < hosts[i]
    BY <1>1, <2>1, <2>4
  <2> QED BY <2>2, <2>3, <2>4
<1>10. \A i \in 1..Len(hosts) :
          /\ hosts[i] \in block
          /\ \A a \in block : a < hosts[i] <=> \E j \in 1..(i - 1) : hosts[j] = a
  <2> HIDE DEF count
  <2> QED BY <1>7, <1>9
<1> QED BY <1>8, <1>10 DEF block, hosts, size

-----------------------------------------------------------------------------
(* Byte ranges.                                                            *)

Sides == Nat \cup {Body!Absent}

\* A range as range_error rewrites it lies inside the body.
Inside(r, len) ==
    LET q == Body!Resolved(r, len) IN 0 <= q[1] /\ q[1] <= q[2] /\ q[2] <= len - 1

\* A range that selects bytes of a body, and no suffix longer than it.
Good(r, len) == /\ BytesOf(r, len) # {}
                /\ r[1] = Body!Absent => r[2] <= len
                /\ r[1] # Body!Absent /\ r[2] # Body!Absent => r[1] <= r[2]

LEMMA ResolvedType ==
    ASSUME NEW r \in Sides \X Sides, NEW len \in Nat
    PROVE  Body!Resolved(r, len) \in Int \X Int
<1>1. r = <<r[1], r[2]>> /\ r[1] \in Int /\ r[2] \in Int
  BY DEF Sides, Body!Absent
<1> QED BY <1>1 DEF Body!Resolved, Body!Absent

\* What a valid range that lies inside the body selects is an interval of bytes.
LEMMA SelectedBytes ==
    ASSUME NEW r \in Sides \X Sides, NEW len \in Nat, Body!ValidRange(r), Inside(r, len)
    PROVE  BytesOf(r, len) = Body!Resolved(r, len)[1]..Body!Resolved(r, len)[2]
<1> DEFINE q == Body!Resolved(r, len)
<1>1. r = <<r[1], r[2]>> /\ r[1] \in Nat \cup {-1} /\ r[2] \in Nat \cup {-1}
  BY DEF Sides, Body!Absent
<1>2. q[1] = IF r[1] = -1 THEN len - r[2] ELSE r[1]
  BY <1>1 DEF Body!Resolved, Body!Absent
<1>3. q[2] = IF r[1] = -1 \/ r[2] = -1 \/ r[2] >= len THEN len - 1 ELSE r[2]
  BY <1>1 DEF Body!Resolved, Body!Absent
<1>4. 0 <= q[1] /\ q[1] <= q[2] /\ q[2] <= len - 1 /\ r # <<-1, -1>>
  BY DEF Inside, Body!ValidRange, Body!Absent
<1> HIDE DEF q
<1>5. CASE r[1] = -1
  <2>1. r[2] \in Nat /\ BytesOf(r, len) = {i \in 0..(len - 1) : i >= len - r[2]}
    BY <1>1, <1>4, <1>5 DEF BytesOf, Body!Absent
  <2> QED BY <1>2, <1>3, <1>4, <1>5, <2>1 DEF q
<1>6. CASE r[1] # -1
  <2>1. BytesOf(r, len) = {i \in r[1]..(len - 1) : r[2] = -1 \/ i <= r[2]}
    BY <1>6 DEF BytesOf, Body!Absent
  <2> QED BY <1>1, <1>2, <1>3, <1>4, <1>6, <2>1 DEF q
<1> QED BY <1>5, <1>6

\* One range is answered exactly when it is good.
LEMMA OneRange ==
    ASSUME NEW r \in Sides \X Sides, NEW len \in Nat
    PROVE  Body!ValidRange(r) /\ Inside(r, len) <=> Good(r, len)
<1> DEFINE q == Body!Resolved(r, len)
<1>1. r = <<r[1], r[2]>> /\ r[1] \in Nat \cup {-1} /\ r[2] \in Nat \cup {-1}
  BY DEF Sides, Body!Absent
<1>2. q[1] = IF r[1] = -1 THEN len - r[2] ELSE r[1]
  BY <1>1 DEF Body!Resolved, Body!Absent
<1>3. q[2] = IF r[1] = -1 \/ r[2] = -1 \/ r[2] >= len THEN len - 1 ELSE r[2]
  BY <1>1 DEF Body!Resolved, Body!Absent
<1>4. ASSUME Body!ValidRange(r), Inside(r, len) PROVE Good(r, len)
  <2>1. 0 <= q[1] /\ q[1] <= q[2] /\ q[2] <= len - 1
    BY <1>4 DEF Inside
  <2>2. BytesOf(r, len) = q[1]..q[2]
    BY <1>4, SelectedBytes
  <2> HIDE DEF q
  <2>3. q[1] \in Int /\ q[2] \in Int
    BY <1>1, <1>2, <1>3
  <2>4. BytesOf(r, len) # {}
    BY <2>1, <2>2, <2>3
  <2> QED BY <1>1, <1>2, <1>4, <2>1, <2>4 DEF Good, Body!ValidRange, Body!Absent
<1>5. ASSUME Good(r, len) PROVE Body!ValidRange(r) /\ Inside(r, len)
  <2>1. PICK i : i \in BytesOf(r, len)
    BY <1>5 DEF Good
  <2>2. CASE r[1] = -1
    <3>1. r[2] # -1 /\ i \in 0..(len - 1) /\ i >= len - r[2] /\ r[2] <= len
      BY <1>5, <2>1, <2>2 DEF BytesOf, Body!Absent, Good
    <3>2. 0 <= q[1] /\ q[1] <= q[2] /\ q[2] <= len - 1
      <4> HIDE DEF q
      <4> QED BY <1>1, <1>2, <1>3, <2>2, <3>1
    <3> QED BY <1>1, <2>2, <3>1, <3>2 DEF Inside, Body!ValidRange, Body!Absent
  <2>3. CASE r[1] # -1
    <3>1. i \in r[1]..(len - 1) /\ (r[2] = -1 \/ i <= r[2]) /\ (r[2] # -1 => r[1] <= r[2])
      BY <1>5, <2>1, <2>3 DEF BytesOf, Body!Absent, Good
    <3>2. 0 <= q[1] /\ q[1] <= q[2] /\ q[2] <= len - 1
      <4> HIDE DEF q
      <4> QED BY <1>1, <1>2, <1>3, <2>3, <3>1
    <3> QED BY <1>1, <2>3, <3>1, <3>2 DEF Inside, Body!ValidRange, Body!Absent
  <2> QED BY <2>2, <2>3
<1> QED BY <1>4, <1>5

\* What apply_ranges answers.
RangeAnswer(in, out) ==
    LET len == Len(in.body)
    IN  /\ out.status = 200 <=> in.parts = <<>>
        /\ Len(in.parts) = 1 => ((out.status = 206) = Good(in.parts[1], len))
        /\ out.status = 206 =>
             \A i \in 1..Len(in.parts) :
                LET B == BytesOf(in.parts[i], len)
                    part == out.parts[i]
                IN  /\ part.range = <<Min(B), Max(B), len>>
                    /\ part.data = [j \in 1..Cardinality(B) |-> in.body[Min(B) + j]]

\* A slice of a body, and the header that goes with it.
LEMMA SliceOfBody ==
    ASSUME NEW S, NEW body \in Seq(S), NEW r \in Sides \X Sides,
           Body!ValidRange(r), Inside(r, Len(body))
    PROVE  LET B == BytesOf(r, Len(body))
               q == Body!Resolved(r, Len(body))
           IN  /\ Body!ContentRange(q, Len(body)) = <<Min(B), Max(B), Len(body)>>
               /\ Body!Slice(body, q) = [j \in 1..Cardinality(B) |-> body[Min(B) + j]]
<1> DEFINE len == Len(body)
           B == BytesOf(r, len)
           q == Body!Resolved(r, len)
           lo == q[1]
           hi == q[2]
<1>1. len \in Nat /\ q \in Int \X Int /\ q = <<lo, hi>>
  BY ResolvedType, LenProperties
<1>2. B = lo..hi
  BY SelectedBytes, LenProperties
<1>3. lo \in Nat /\ hi \in Nat /\ lo <= hi /\ hi <= len - 1
  BY <1>1 DEF Inside
<1> HIDE DEF q, B
<1>4. Min(B) = lo /\ Max(B) = hi /\ Cardinality(B) = hi - lo + 1
  <2>1. B \subseteq Nat /\ B \subseteq 0..hi /\ B # {} /\ lo \in B /\ hi \in B
    BY <1>2, <1>3
  <2>2. Min(B) \in B /\ Min(B) <= lo
    BY <2>1, MinOf
  <2>3. Max(B) \in B /\ hi <= Max(B)
    BY <1>3, <2>1, MaxOf
  <2>4. Cardinality(lo..hi) = hi - lo + 1
    <3> HIDE DEF lo, hi
    <3>1. lo \in Int /\ hi \in Int /\ ~(lo > hi)
      BY <1>3
    <3>2. Cardinality(lo..hi) = IF lo > hi THEN 0 ELSE hi - lo + 1
      BY <3>1, FS_Interval
    <3> QED BY <3>1, <3>2
  <2> QED BY <1>2, <1>3, <2>2, <2>3, <2>4
<1>5. lo + (hi - lo + 1) - 1 = hi /\ lo + (hi - lo) + 1 = hi + 1
  BY <1>3
<1>6. Body!ContentRange(q, len) = <<lo, hi, len>>
  BY <1>5 DEF Body!ContentRange
<1>7. Body!Slice(body, q) = [j \in 1..(hi - lo + 1) |-> body[lo + j]]
  <2>1. Body!Slice(body, q) = SubSeq(body, lo + 1, lo + (hi - lo) + 1)
    BY DEF Body!Slice
  <2>2. hi - lo + 1 \in Nat /\ lo + (hi - lo + 1) <= len /\ lo + (hi - lo) + 1 = lo + (hi - lo + 1)
    BY <1>1, <1>3
  <2> HIDE DEF lo, hi
  <2> QED BY <1>3, <2>1, <2>2, PartOf
<1> QED BY <1>4, <1>6, <1>7 DEF B, q

\* The first range follows no other: nothing is below it, and nothing overlaps it.
LEMMA OneRangeError ==
    ASSUME NEW parts \in Seq(Sides \X Sides), Len(parts) = 1, NEW len \in Nat
    PROVE  Body!RangeError(parts, len) <=> ~Inside(parts[1], len)
<1> DEFINE r == [i \in 1..Len(parts) |-> Body!Resolved(parts[i], len)]
           PrevLast(i) == Max({r[j][2] : j \in 1..(i - 1)} \cup {-1})
           over == {i \in 1..Len(parts) : r[i][1] <= PrevLast(i)}
<1>a. \A S : Body!Cardinality(S) = Cardinality(S)
  BY DEF Body!Cardinality, Cardinality, Body!IsFiniteSet, IsFiniteSet
<1>b. \A S : Body!Max(S) = Max(S)
  BY DEF Body!Max, Max
<1>0. Body!RangeError(parts, len) =
        \/ Len(parts) > RangeMaxCount
        \/ \E i \in 1..Len(parts) : ~(0 <= r[i][1] /\ r[i][1] <= r[i][2] /\ r[i][2] <= len - 1)
        \/ \E i \in 2..Len(parts) : r[i][1] <= r[i - 1][1]
        \/ Cardinality(over) > MaxOverlaps
  BY <1>a, <1>b DEF Body!RangeError
<1>1. 1..Len(parts) = {1} /\ 2..Len(parts) = {} /\ RangeMaxCount \in Nat \ {0} /\ MaxOverlaps \in Nat
  BY Limits
<1>2. r[1] = Body!Resolved(parts[1], len) /\ r[1][1] \in Int /\ r[1][2] \in Int
  <2>1. parts[1] \in Sides \X Sides
    <3>1. 1 \in 1..Len(parts)
      BY <1>1
    <3> QED BY <3>1, ElementOfSeq
  <2> QED BY <1>1, <2>1, ResolvedType
<1>3. ASSUME Inside(parts[1], len) PROVE Cardinality(over) = 0
  <2>1. PrevLast(1) = -1
    <3>1. {r[j][2] : j \in 1..(1 - 1)} \cup {-1} = {-1}
      <4>1. 1..(1 - 1) = {}
        OBVIOUS
      <4> HIDE DEF r
      <4> QED BY <4>1
    <3>2. Max({-1}) = -1
      BY DEF Max
    <3> HIDE DEF r
    <3> QED BY <3>1, <3>2
  <2>2. 0 <= r[1][1]
    BY <1>2, <1>3 DEF Inside
  <2>3. over = {}
    <3> HIDE DEF r, PrevLast
    <3>1. ~(r[1][1] <= PrevLast(1))
      BY <1>2, <2>1, <2>2
    <3> QED BY <1>1, <3>1
  <2> QED BY <2>3, FS_EmptySet
<1>4. (\E i \in 1..Len(parts) : ~(0 <= r[i][1] /\ r[i][1] <= r[i][2] /\ r[i][2] <= len - 1))
        <=> ~Inside(parts[1], len)
  <2> HIDE DEF r
  <2> QED BY <1>1, <1>2 DEF Inside
<1>5. Len(parts) <= RangeMaxCount
  BY <1>1
<1> HIDE DEF r, over
<1> QED BY <1>0, <1>1, <1>3, <1>4, <1>5

\* apply_ranges answers as RangeAnswer says.
LEMMA RangesAnswered ==
    ASSUME NEW in \in Requests
    PROVE  RangeAnswer(in, Body!ApplyRanges(in.parts, in.body))
<1> DEFINE parts == in.parts
           body == in.body
           len == Len(body)
           out == Body!ApplyRanges(parts, body)
           R(i) == Body!Resolved(parts[i], len)
           cut == [i \in 1..Len(parts) |->
                     [range |-> Body!ContentRange(R(i), len), data |-> Body!Slice(body, R(i))]]
<1>1. parts \in Seq(Sides \X Sides) /\ body \in Seq(Bytes) /\ len \in Nat
  BY LenProperties DEF Requests, Sides
<1>2. Len(parts) \in Nat /\ \A i \in 1..Len(parts) : parts[i] \in Sides \X Sides
  BY <1>1, LenProperties
<1>3. out = IF parts = <<>> THEN [status |-> 200, parts |-> <<[range |-> <<>>, data |-> body]>>]
            ELSE IF ~Body!ParseRangeHeader(parts) \/ Body!RangeError(parts, len)
            THEN [status |-> 416, parts |-> <<>>]
            ELSE [status |-> 206, parts |-> cut]
  BY DEF Body!ApplyRanges
<1> HIDE DEF parts, body, out
<1>4. out.status = 200 <=> parts = <<>>
  <2> HIDE DEF cut
  <2> QED BY <1>3
<1>5. out.status = 206 <=> parts # <<>> /\ Body!ParseRangeHeader(parts) /\ ~Body!RangeError(parts, len)
  <2> HIDE DEF cut
  <2> QED BY <1>3
<1>6. ASSUME Len(parts) = 1 PROVE (out.status = 206) = Good(parts[1], len)
  <2>1. parts # <<>> /\ 1..Len(parts) = {1}
    BY <1>1, <1>6, EmptySeq
  <2>2. Body!RangeError(parts, len) <=> ~Inside(parts[1], len)
    BY <1>1, <1>6, OneRangeError
  <2>3. Body!ParseRangeHeader(parts) <=> Body!ValidRange(parts[1])
    BY <2>1 DEF Body!ParseRangeHeader
  <2>4. Body!ValidRange(parts[1]) /\ Inside(parts[1], len) <=> Good(parts[1], len)
    BY <1>1, <1>2, <2>1, OneRange
  <2>5. out.status = 206 <=> Good(parts[1], len)
    BY <1>5, <2>1, <2>2, <2>3, <2>4
  <2>6. Good(parts[1], len) \in BOOLEAN
    BY DEF Good
  <2> QED BY <2>5, <2>6
<1>7. ASSUME out.status = 206, NEW i \in 1..Len(parts)
      PROVE  LET B == BytesOf(parts[i], len)
             IN  /\ out.parts[i].range = <<Min(B), Max(B), len>>
                 /\ out.parts[i].data = [j \in 1..Cardinality(B) |-> body[Min(B) + j]]
  <2>1. parts # <<>> /\ Body!ParseRangeHeader(parts) /\ ~Body!RangeError(parts, len)
    BY <1>5, <1>7
  <2>2. Body!ValidRange(parts[i])
    BY <2>1 DEF Body!ParseRangeHeader
  <2>3. Inside(parts[i], len)
    <3> DEFINE r == [k \in 1..Len(parts) |-> Body!Resolved(parts[k], len)]
    <3>1. 0 <= r[i][1] /\ r[i][1] <= r[i][2] /\ r[i][2] <= len - 1
      BY <2>1 DEF Body!RangeError
    <3> QED BY <3>1 DEF Inside
  <2>4. out.parts[i] = [range |-> Body!ContentRange(R(i), len), data |-> Body!Slice(body, R(i))]
    <3>1. out.parts = cut
      BY <1>3, <2>1
    <3> QED BY <3>1
  <2>5. LET B == BytesOf(parts[i], len)
        IN  /\ Body!ContentRange(R(i), len) = <<Min(B), Max(B), len>>
            /\ Body!Slice(body, R(i)) = [j \in 1..Cardinality(B) |-> body[Min(B) + j]]
    BY <1>1, <1>2, <2>2, <2>3, SliceOfBody
  <2> QED BY <2>4, <2>5
<1> QED BY <1>4, <1>6, <1>7 DEF RangeAnswer, parts, body, out

\* expand_cidr answers as CidrIsTheBlock says.
CidrAnswer(in, out) ==
    LET size == Block(in.prefix)
        block == {a \in 0..(Width - 1) : a \div size = in.base \div size}
    IN  CASE in.form = "no slash" -> out = <<in.base>>
          [] in.form = "cidr" /\ in.prefix <= Bits ->
                /\ Len(out) = Min({MaxHosts, Cardinality(block)})
                /\ \A i \in 1..Len(out) :
                      /\ out[i] \in block
                      /\ \A a \in block : a < out[i] <=> \E j \in 1..(i - 1) : out[j] = a
          [] OTHER -> out = <<>>

LEMMA CidrAnswered ==
    ASSUME NEW in \in CidrTexts
    PROVE  CidrAnswer(in, ExpandCidr(in))
<1>1. in.base \in 0..(Width - 1) /\ in.prefix \in Nat /\ Bits \in Nat
  BY CidrSizes DEF CidrTexts
<1>2. CASE in.form = "no slash"
  BY <1>2 DEF CidrAnswer, ExpandCidr
<1>3. CASE in.form = "cidr" /\ in.prefix <= Bits
  <2>1. in.prefix \in 0..Bits /\ in.form # "no slash"
    BY <1>1, <1>3
  <2>2. ExpandCidr(in) = Hosts(in.base, in.prefix)
    BY <1>3, <2>1 DEF ExpandCidr
  <2>3. LET size == Block(in.prefix)
            block == {a \in 0..(Width - 1) : a \div size = in.base \div size}
            hosts == Hosts(in.base, in.prefix)
        IN  /\ Len(hosts) = Min({MaxHosts, Cardinality(block)})
            /\ \A i \in 1..Len(hosts) :
                  /\ hosts[i] \in block
                  /\ \A a \in block : a < hosts[i] <=> \E j \in 1..(i - 1) : hosts[j] = a
    BY <1>1, <2>1, HostsOfBlock
  <2> QED BY <1>3, <2>1, <2>2, <2>3 DEF CidrAnswer
<1>4. CASE in.form # "no slash" /\ ~(in.form = "cidr" /\ in.prefix <= Bits)
  <2>1. in.form = "cidr" => ~(in.prefix \in 0..Bits)
    BY <1>1, <1>4
  <2>2. ExpandCidr(in) = <<>>
    BY <1>4, <2>1, Zenon DEF ExpandCidr
  <2> QED BY <1>4, <2>2, Zenon DEF CidrAnswer
<1> QED BY <1>2, <1>3, <1>4

-----------------------------------------------------------------------------
(* TLS servers.                                                            *)

\* The cipher strings that select the six suites.
LEMMA SuiteGroups ==
    /\ Tls!Groups(<<"ADH", "AES128", "SHA">>) = {"aNULL"}
    /\ Tls!Groups(<<"AECDH", "NULL", "SHA">>) = {"aNULL", "eNULL"}
    /\ Tls!Groups(<<"NULL", "SHA256">>) = {"eNULL"}
    /\ Tls!Groups(<<"RC4", "SHA">>) = {"RC4"}
    /\ Tls!Groups(<<"DES", "CBC3", "SHA">>) = {"3DES"}
    /\ Tls!Groups(<<"AES128", "SHA">>) = {"DEFAULT"}
BY DEF Tls!Groups

\* What a suite's name says of it.
Says(name, anonymous, null, rc4) ==
    /\ Tls!CipherIsAnonymous(name) <=> anonymous
    /\ Tls!CipherIsNull(name) <=> null
    /\ Tls!Marked(name, "RC4") <=> rc4
    /\ ~Tls!Marked(name, "DES:!3DES")
    /\ ~Tls!Marked(name, "EXPORT")

LEMMA Marks ==
    ASSUME NEW name
    PROVE  /\ Tls!Marked(name, "RC4") <=> \E i \in DOMAIN name : name[i] = "RC4"
           /\ Tls!Marked(name, "DES:!3DES") <=> \E i \in 2..(Len(name) - 1) : name[i] = "DES"
           /\ Tls!Marked(name, "EXPORT") <=> \E i \in DOMAIN name : name[i] \in {"EXP", "EXP1024"}
<1>1. Tls!Marked(name, "RC4") = ("RC4" \in Tls!ToSet(name))
  BY DEF Tls!Marked
<1>2. Tls!Marked(name, "DES:!3DES") = Tls!MiddlePart(name, "DES")
  BY DEF Tls!Marked
<1>3. Tls!Marked(name, "EXPORT") = ({"EXP", "EXP1024"} \cap Tls!ToSet(name) # {})
  BY DEF Tls!Marked
<1> QED BY <1>1, <1>2, <1>3 DEF Tls!ToSet, Tls!MiddlePart

\* The names of the suites below TLS 1.3 tell their kind, and that of TLS 1.3 tells none.
LEMMA NamesTell ==
    /\ \A s \in Suites : Says(s, "aNULL" \in Tls!Groups(s), "eNULL" \in Tls!Groups(s), "RC4" \in Tls!Groups(s))
    /\ Says(Tls!Modern, FALSE, FALSE, FALSE)
<1> USE DEF Says, Tls!CipherIsAnonymous, Tls!CipherIsNull, Tls!FirstPart, Tls!MiddlePart
<1>1. Says(<<"ADH", "AES128", "SHA">>, TRUE, FALSE, FALSE)
  BY Marks
<1>2. Says(<<"AECDH", "NULL", "SHA">>, TRUE, TRUE, FALSE)
  BY Marks
<1>3. Says(<<"NULL", "SHA256">>, FALSE, TRUE, FALSE)
  BY Marks
<1>4. Says(<<"RC4", "SHA">>, FALSE, FALSE, TRUE)
  BY Marks
<1>5. Says(<<"DES", "CBC3", "SHA">>, FALSE, FALSE, FALSE)
  BY Marks
<1>6. Says(<<"AES128", "SHA">>, FALSE, FALSE, FALSE)
  BY Marks
<1>7. Says(Tls!Modern, FALSE, FALSE, FALSE)
  BY Marks DEF Tls!Modern
<1> QED BY <1>1, <1>2, <1>3, <1>4, <1>5, <1>6, <1>7, SuiteGroups DEF Suites

\* A handshake that ends well is one of TLS 1.3, or its suite is among the offered ones.
LEMMA Shaken ==
    ASSUME NEW server \in Servers, NEW expr, NEW refused \in BOOLEAN
    PROVE  LET H == Tls!Handshake(server, expr, refused)
               Shared(i) == server.suites[i] \in Tls!Offered(server, expr)
           IN  /\ H.ok = (~refused /\ (server.tls13 \/ \E i \in 1..Len(server.suites) : Shared(i)))
               /\ H.ok /\ server.tls13 => H.cipher = Tls!Modern /\ H.version = "TLSv1.3"
               /\ H.ok /\ ~server.tls13 =>
                     /\ H.version = server.version
                     /\ \E i \in 1..Len(server.suites) : Shared(i) /\ H.cipher = server.suites[i]
<1> DEFINE H == Tls!Handshake(server, expr, refused)
           shared == {i \in 1..Len(server.suites) : server.suites[i] \in Tls!Offered(server, expr)}
<1>1. server.suites \in Seq(Suites) /\ Len(server.suites) \in Nat /\ server.tls13 \in BOOLEAN
  BY LenProperties DEF Servers
<1>2. CASE ~refused /\ server.tls13
  <2>1. H = [ok |-> TRUE, version |-> "TLSv1.3", cipher |-> Tls!Modern]
    BY <1>2, Zenon DEF Tls!Handshake
  <2>2. H.ok = TRUE /\ H.version = "TLSv1.3" /\ H.cipher = Tls!Modern
    BY <2>1
  <2> HIDE DEF H
  <2> QED BY <1>2, <2>2 DEF H
<1>3. CASE ~refused /\ ~server.tls13 /\ shared # {}
  <2>1. H = [ok |-> TRUE, version |-> server.version, cipher |-> server.suites[Tls!Min(shared)]]
    BY <1>3, Zenon DEF Tls!Handshake
  <2>2. Tls!Min(shared) \in shared
    <3>1. shared \subseteq Nat
      BY <1>1
    <3>2. Min(shared) \in shared
      <4> HIDE DEF shared
      <4> QED BY <1>3, <3>1, MinOf
    <3>3. Tls!Min(shared) = Min(shared)
      BY DEF Tls!Min, Min
    <3> QED BY <3>2, <3>3
  <2>3. H.ok = TRUE /\ H.version = server.version /\ H.cipher = server.suites[Tls!Min(shared)]
    BY <2>1
  <2> HIDE DEF H
  <2> QED BY <1>3, <2>2, <2>3 DEF H
<1>4. CASE refused \/ (~server.tls13 /\ shared = {})
  <2>1. H = [ok |-> FALSE, version |-> "", cipher |-> <<>>]
    <3>1. ~(~refused /\ server.tls13) /\ ~(~refused /\ ~server.tls13 /\ shared # {})
      BY <1>4
    <3> QED BY <3>1, Zenon DEF Tls!Handshake
  <2> HIDE DEF H
  <2>2. H.ok = FALSE
    BY <2>1, Zenon
  <2> QED BY <1>1, <1>4, <2>2 DEF H
<1> QED BY <1>1, <1>2, <1>3, <1>4

\* Which suites a client offers.
LEMMA OfferedSuites ==
    ASSUME NEW server \in Servers, NEW kind
    PROVE  /\ Tls!Offered(server, kind) \subseteq server.build
           /\ (\E s \in server.build : kind \in Tls!Groups(s)) \/ kind = "DEFAULT"
                => Tls!Offered(server, kind) = {s \in server.build : kind \in Tls!Groups(s)}
BY DEF Tls!Offered

\* The check of a cipher string reports what the server accepts, and below TLS 1.3 all of it.
LEMMA CipherVerdict ==
    ASSUME NEW server \in Servers, NEW kind, NEW refused \in BOOLEAN, NEW named, NEW finding,
           LET name == Tls!Handshake(server, kind, refused).cipher
           IN  /\ name = Tls!Modern => ~named
               /\ name \in Suites => (named <=> kind \in Tls!Groups(name))
    PROVE  LET F == Tls!CipherFinding(server, kind, refused, named, finding)
           IN  /\ F \subseteq {finding}
               /\ finding \in F => Accepts(server, kind)
               /\ ~server.tls13 /\ Accepts(server, kind) /\ ~refused => finding \in F
<1> DEFINE H == Tls!Handshake(server, kind, refused)
           F == Tls!CipherFinding(server, kind, refused, named, finding)
           Offer == Tls!Offered(server, kind)
<1>1. server.suites \in Seq(Suites) /\ \A i \in 1..Len(server.suites) : server.suites[i] \in Suites
  <2>1. server.suites \in Seq(Suites)
    BY DEF Servers
  <2> QED BY <2>1, LenProperties
<1>2. F = IF H.ok /\ named THEN {finding} ELSE {}
  BY DEF Tls!CipherFinding
<1>3. /\ H.ok = (~refused /\ (server.tls13 \/ \E i \in 1..Len(server.suites) : server.suites[i] \in Offer))
      /\ H.ok /\ server.tls13 => H.cipher = Tls!Modern
      /\ H.ok /\ ~server.tls13 =>
            \E i \in 1..Len(server.suites) : server.suites[i] \in Offer /\ H.cipher = server.suites[i]
  BY Shaken
<1>4. /\ H.cipher = Tls!Modern => ~named
      /\ H.cipher \in Suites => (named <=> kind \in Tls!Groups(H.cipher))
  OBVIOUS
<1>5. server.tls13 \in BOOLEAN /\ Offer \subseteq server.build
  BY OfferedSuites DEF Servers
<1>6. (\E s \in server.build : kind \in Tls!Groups(s))
        => Offer = {s \in server.build : kind \in Tls!Groups(s)}
  BY OfferedSuites
<1> HIDE DEF H, F, Offer
<1>7. ASSUME H.ok, named PROVE Accepts(server, kind)
  <2>1. PICK i \in 1..Len(server.suites) : server.suites[i] \in Offer /\ H.cipher = server.suites[i]
    BY <1>3, <1>4, <1>5, <1>7
  <2>2. kind \in Tls!Groups(server.suites[i]) /\ server.suites[i] \in server.build
    BY <1>1, <1>4, <1>5, <1>7, <2>1
  <2> QED BY <2>2 DEF Accepts
<1>8. ASSUME ~server.tls13, Accepts(server, kind), ~refused PROVE H.ok /\ named
  <2>1. PICK i \in 1..Len(server.suites) :
           kind \in Tls!Groups(server.suites[i]) /\ server.suites[i] \in server.build
    BY <1>8 DEF Accepts
  <2>2. Offer = {s \in server.build : kind \in Tls!Groups(s)}
    BY <1>6, <2>1
  <2>3. H.ok
    BY <1>3, <1>8, <2>1, <2>2
  <2> QED BY <1>1, <1>3, <1>4, <1>8, <2>2, <2>3
<1> QED BY <1>2, <1>7, <1>8 DEF F, H

\* A certificate is reported as expired only when it is.
LEMMA ExpiredIsPast ==
    ASSUME NEW cert \in Certificates, Tls!Expired(cert)
    PROVE  cert.hours < 0
<1> SUFFICES ASSUME cert.hours >= 0 PROVE FALSE
  BY DEF Certificates
<1>1. cert.hours \in Nat
  BY DEF Certificates
<1>2. cert.hours \div 24 \in Nat
  BY <1>1
<1>3. Tls!DaysUntilExpiry(cert) = cert.hours \div 24
  BY DEF Tls!DaysUntilExpiry
<1> QED BY <1>2, <1>3 DEF Tls!Expired

\* What run_tls_checks answers.
TlsAnswer(in, out) ==
    LET server == in.server
        first == "" \notin in.refusing /\ (server.tls13 \/ Accepts(server, "DEFAULT"))
        Reported(f) == f \in out
    IN  /\ Reported("tls-supported") = (first /\ in.port \in Tls!TlsPorts)
        /\ out # {} => Reported("tls-supported")
        /\ {"tls-des-supported", "tls-export-supported"} \cap out = {}
        /\ \A f \in CipherFindings : Reported(f) => Accepts(server, Kind(f))
        /\ Reported("tls-supported") /\ ~server.tls13 =>
              \A f \in CipherFindings :
                 Accepts(server, Kind(f)) /\ Kind(f) \notin in.refusing => Reported(f)
        /\ Reported("tls-cert-expired") => server.cert.hours < 0
        /\ Reported("tls-old-protocol") => ~server.tls13 /\ server.version # "TLSv1.2"
        /\ ~server.cert.present => ~Reported("tls-cert-self-signed")

\* The first handshake, with the default suites.
LEMMA FirstHandshake ==
    ASSUME NEW server \in Servers, NEW refused \in BOOLEAN
    PROVE  LET H == Tls!Handshake(server, "DEFAULT", refused)
           IN  /\ H.ok = (~refused /\ (server.tls13 \/ Accepts(server, "DEFAULT")))
               /\ H.ok => H.version = IF server.tls13 THEN "TLSv1.3" ELSE server.version
<1> DEFINE H == Tls!Handshake(server, "DEFAULT", refused)
           Offer == Tls!Offered(server, "DEFAULT")
<1>1. /\ H.ok = (~refused /\ (server.tls13 \/ \E i \in 1..Len(server.suites) : server.suites[i] \in Offer))
      /\ H.ok => H.version = IF server.tls13 THEN "TLSv1.3" ELSE server.version
  <2>1. server.tls13 \in BOOLEAN
    BY DEF Servers
  <2> QED BY <2>1, Shaken
<1>2. Offer = {s \in server.build : "DEFAULT" \in Tls!Groups(s)}
  BY OfferedSuites
<1> HIDE DEF H, Offer
<1>3. (\E i \in 1..Len(server.suites) : server.suites[i] \in Offer) <=> Accepts(server, "DEFAULT")
  BY <1>2 DEF Accepts
<1>4. Accepts(server, "DEFAULT") \in BOOLEAN
  BY DEF Accepts
<1> QED BY <1>1, <1>3, <1>4 DEF H

\* run_tls_checks answers as TlsAnswer says.
LEMMA TlsAnswered ==
    ASSUME NEW in \in Audits
    PROVE  TlsAnswer(in, Tls!RunTlsChecks(in.port, in.server, in.refusing))
<1> DEFINE server == in.server
           refusing == in.refusing
           out == Tls!RunTlsChecks(in.port, server, refusing)
           first == Tls!Handshake(server, "DEFAULT", "" \in refusing)
           Name(expr) == Tls!Handshake(server, expr, expr \in refusing).cipher
           Check(expr, named, finding) == Tls!CipherFinding(server, expr, expr \in refusing, named, finding)
           A == Check("aNULL", Tls!CipherIsAnonymous(Name("aNULL")), "tls-anonymous-ciphers")
           N == Check("eNULL", Tls!CipherIsNull(Name("eNULL")), "tls-null-ciphers")
           R == Check("RC4", Tls!Marked(Name("RC4"), "RC4"), "tls-rc4-supported")
           T == Check("3DES", Tls!Marked(Name("3DES"), "3DES"), "tls-3des-supported")
           D == Check("DES:!3DES", Tls!Marked(Name("DES:!3DES"), "DES:!3DES"), "tls-des-supported")
           X == Check("EXPORT", Tls!Marked(Name("EXPORT"), "EXPORT"), "tls-export-supported")
           C == Tls!CertificateFindings(server.cert)
           O == Tls!OldProtocol(first.version)
<1>1. /\ server \in Servers /\ server.cert \in Certificates /\ server.tls13 \in BOOLEAN
      /\ server.suites \in Seq(Suites) /\ server.build \subseteq Suites
  BY DEF Audits, Servers
<1>2. UNION {Check(g.expr, Tls!Marked(Name(g.expr), g.expr), g.finding) : g \in Tls!WeakCipherGroups}
         = R \cup T \cup D \cup X
  <2> DEFINE G(g) == Check(g.expr, Tls!Marked(Name(g.expr), g.expr), g.finding)
             r == [expr |-> "RC4", finding |-> "tls-rc4-supported"]
             t == [expr |-> "3DES", finding |-> "tls-3des-supported"]
             d == [expr |-> "DES:!3DES", finding |-> "tls-des-supported"]
             x == [expr |-> "EXPORT", finding |-> "tls-export-supported"]
  <2>1. G(r) = R /\ G(t) = T /\ G(d) = D /\ G(x) = X
    OBVIOUS
  <2>2. Tls!WeakCipherGroups = {r, t, d, x}
    BY DEF Tls!WeakCipherGroups
  <2> HIDE DEF r, t, d, x, R, T, D, X, G
  <2>3. UNION {G(g) : g \in {r, t, d, x}} = G(r) \cup G(t) \cup G(d) \cup G(x)
    OBVIOUS
  <2>4. UNION {G(g) : g \in Tls!WeakCipherGroups} = R \cup T \cup D \cup X
    BY <2>1, <2>2, <2>3
  <2> QED BY <2>4 DEF G
<1>3. out = IF in.port \notin Tls!TlsPorts \/ ~first.ok THEN {}
            ELSE {"tls-supported"} \cup C \cup O \cup A \cup N \cup (R \cup T \cup D \cup X)
  <2>1. out = IF in.port \notin Tls!TlsPorts \/ ~first.ok THEN {}
              ELSE {"tls-supported"} \cup C \cup O \cup A \cup N
                    \cup UNION {Check(g.expr, Tls!Marked(Name(g.expr), g.expr), g.finding) : g \in Tls!WeakCipherGroups}
    BY DEF Tls!RunTlsChecks
  <2> HIDE DEF out, first, C, O, A, N, R, T, D, X, Check, Name
  <2> QED BY <1>2, <2>1
<1>4. /\ first.ok = ("" \notin refusing /\ (server.tls13 \/ Accepts(server, "DEFAULT")))
      /\ first.ok => first.version = IF server.tls13 THEN "TLSv1.3" ELSE server.version
  <2>1. ("" \in refusing) \in BOOLEAN
    OBVIOUS
  <2> QED BY <1>1, <2>1, FirstHandshake
<1>5. ASSUME NEW kind, NEW named, NEW finding,
             /\ Name(kind) = Tls!Modern => ~named
             /\ Name(kind) \in Suites => (named <=> kind \in Tls!Groups(Name(kind)))
      PROVE  /\ Check(kind, named, finding) \subseteq {finding}
             /\ finding \in Check(kind, named, finding) => Accepts(server, kind)
             /\ ~server.tls13 /\ Accepts(server, kind) /\ kind \notin refusing
                  => finding \in Check(kind, named, finding)
  <2>1. (kind \in refusing) \in BOOLEAN
    OBVIOUS
  <2> QED BY <1>1, <1>5, <2>1, CipherVerdict
<1>6. /\ A \subseteq {"tls-anonymous-ciphers"}
      /\ A # {} => Accepts(server, "aNULL")
      /\ ~server.tls13 /\ Accepts(server, "aNULL") /\ "aNULL" \notin refusing => A # {}
  <2> DEFINE name == Name("aNULL")
  <2>1. /\ name = Tls!Modern => ~Tls!CipherIsAnonymous(name)
        /\ name \in Suites => (Tls!CipherIsAnonymous(name) <=> "aNULL" \in Tls!Groups(name))
    <3> HIDE DEF name
    <3> QED BY NamesTell DEF Says
  <2>2. /\ A \subseteq {"tls-anonymous-ciphers"}
        /\ "tls-anonymous-ciphers" \in A => Accepts(server, "aNULL")
        /\ ~server.tls13 /\ Accepts(server, "aNULL") /\ "aNULL" \notin refusing => "tls-anonymous-ciphers" \in A
    <3> HIDE DEF Check
    <3> QED BY <1>5, <2>1
  <2> HIDE DEF A
  <2> QED BY <2>2
<1>7. /\ N \subseteq {"tls-null-ciphers"}
      /\ N # {} => Accepts(server, "eNULL")
      /\ ~server.tls13 /\ Accepts(server, "eNULL") /\ "eNULL" \notin refusing => N # {}
  <2> DEFINE name == Name("eNULL")
  <2>1. /\ name = Tls!Modern => ~Tls!CipherIsNull(name)
        /\ name \in Suites => (Tls!CipherIsNull(name) <=> "eNULL" \in Tls!Groups(name))
    <3> HIDE DEF name
    <3> QED BY NamesTell DEF Says
  <2>2. /\ N \subseteq {"tls-null-ciphers"}
        /\ "tls-null-ciphers" \in N => Accepts(server, "eNULL")
        /\ ~server.tls13 /\ Accepts(server, "eNULL") /\ "eNULL" \notin refusing => "tls-null-ciphers" \in N
    <3> HIDE DEF Check
    <3> QED BY <1>5, <2>1
  <2> HIDE DEF N
  <2> QED BY <2>2
<1>8. /\ R \subseteq {"tls-rc4-supported"}
      /\ R # {} => Accepts(server, "RC4")
      /\ ~server.tls13 /\ Accepts(server, "RC4") /\ "RC4" \notin refusing => R # {}
  <2> DEFINE name == Name("RC4")
  <2>1. /\ name = Tls!Modern => ~Tls!Marked(name, "RC4")
        /\ name \in Suites => (Tls!Marked(name, "RC4") <=> "RC4" \in Tls!Groups(name))
    <3> HIDE DEF name
    <3> QED BY NamesTell DEF Says
  <2>2. /\ R \subseteq {"tls-rc4-supported"}
        /\ "tls-rc4-supported" \in R => Accepts(server, "RC4")
        /\ ~server.tls13 /\ Accepts(server, "RC4") /\ "RC4" \notin refusing => "tls-rc4-supported" \in R
    <3> HIDE DEF Check
    <3> QED BY <1>5, <2>1
  <2> HIDE DEF R
  <2> QED BY <2>2
<1>9. T \subseteq {"tls-3des-supported"}
  BY DEF Tls!CipherFinding
<1>10. first.ok => D = {} /\ X = {}
  <2>1. ASSUME NEW kind, NEW named, NEW finding, NEW refused \in BOOLEAN,
               LET H == Tls!Handshake(server, kind, refused) IN H.cipher \in Suites \cup {Tls!Modern} => ~named
        PROVE  Tls!CipherFinding(server, kind, refused, named, finding) = {}
    <3> DEFINE H == Tls!Handshake(server, kind, refused)
    <3>1. \A i \in 1..Len(server.suites) : server.suites[i] \in Suites
      BY <1>1, LenProperties
    <3>2. H.ok => H.cipher \in Suites \cup {Tls!Modern}
      <4>1. /\ H.ok /\ server.tls13 => H.cipher = Tls!Modern
            /\ H.ok /\ ~server.tls13 => \E i \in 1..Len(server.suites) : H.cipher = server.suites[i]
        BY <1>1, Shaken
      <4> HIDE DEF H
      <4> QED BY <1>1, <3>1, <4>1
    <3> QED BY <2>1, <3>2 DEF Tls!CipherFinding
  <2>2. \A name \in Suites \cup {Tls!Modern} : ~Tls!Marked(name, "DES:!3DES") /\ ~Tls!Marked(name, "EXPORT")
    BY NamesTell DEF Says
  <2>3. ("DES:!3DES" \in refusing) \in BOOLEAN /\ ("EXPORT" \in refusing) \in BOOLEAN
    OBVIOUS
  <2>4. D = {}
    BY <2>1, <2>2, <2>3
  <2>5. X = {}
    BY <2>1, <2>2, <2>3
  <2> QED BY <2>4, <2>5
<1>11. /\ C \subseteq {"tls-cert-expired", "tls-cert-self-signed", "tls-cert-weak-signature"}
       /\ "tls-cert-expired" \in C => server.cert.hours < 0
       /\ ~server.cert.present => C = {}
  <2>1. C = IF ~server.cert.present THEN {}
            ELSE {f \in {"tls-cert-expired", "tls-cert-self-signed", "tls-cert-weak-signature"} :
                    CASE f = "tls-cert-expired" -> Tls!Expired(server.cert)
                      [] f = "tls-cert-self-signed" -> server.cert.subject = server.cert.issuer
                      [] f = "tls-cert-weak-signature" -> server.cert.signature \in {"md5WithRSA", "sha1WithRSA"}}
    BY DEF Tls!CertificateFindings
  <2>2. "tls-cert-expired" \in C => Tls!Expired(server.cert)
    <3>1. CASE ~server.cert.present
      BY <2>1, <3>1
    <3>2. CASE server.cert.present
      BY <2>1, <3>2
    <3> QED BY <3>1, <3>2
  <2>3. /\ C \subseteq {"tls-cert-expired", "tls-cert-self-signed", "tls-cert-weak-signature"}
        /\ ~server.cert.present => C = {}
    BY <2>1
  <2> HIDE DEF C
  <2> QED BY <1>1, <2>2, <2>3, ExpiredIsPast
<1>12. /\ O \subseteq {"tls-old-protocol"}
       /\ O # {} => first.version \in {"SSLv3", "TLSv1", "TLSv1.1"}
  BY DEF Tls!OldProtocol
<1> HIDE DEF out, first, A, N, R, T, D, X, C, O, server, refusing
<1> DEFINE on == in.port \in Tls!TlsPorts /\ first.ok
<1>13. CASE ~on
  <2>1. out = {} /\ ~on
    BY <1>3, <1>13
  <2>2. ("tls-supported" \in out)
           = (("" \notin refusing /\ (server.tls13 \/ Accepts(server, "DEFAULT"))) /\ in.port \in Tls!TlsPorts)
    <3>1. "tls-supported" \notin out
      BY <2>1
    <3>2. ~(("" \notin refusing /\ (server.tls13 \/ Accepts(server, "DEFAULT"))) /\ in.port \in Tls!TlsPorts)
      BY <1>4, <2>1
    <3> DEFINE asked == ("" \notin refusing /\ (server.tls13 \/ Accepts(server, "DEFAULT"))) /\ in.port \in Tls!TlsPorts
    <3>3. asked = FALSE
      BY <3>2
    <3>4. ("tls-supported" \in out) = FALSE
      BY <3>1
    <3> QED BY <3>3, <3>4, Zenon
  <2>3. \A f : f \notin out
    BY <2>1
  <2> QED BY <2>1, <2>2, <2>3 DEF TlsAnswer, out, server, refusing
<1>14. CASE on
  <2>1. out = {"tls-supported"} \cup C \cup O \cup A \cup N \cup R \cup T
    BY <1>3, <1>10, <1>14
  <2>2. /\ "tls-supported" \in out /\ {"tls-des-supported", "tls-export-supported"} \cap out = {}
        /\ "tls-anonymous-ciphers" \in out <=> A # {}
        /\ "tls-null-ciphers" \in out <=> N # {}
        /\ "tls-rc4-supported" \in out <=> R # {}
        /\ "tls-old-protocol" \in out <=> O # {}
        /\ "tls-cert-expired" \in out <=> "tls-cert-expired" \in C
        /\ "tls-cert-self-signed" \in out <=> "tls-cert-self-signed" \in C
    <3>1. /\ \A f \in A : f = "tls-anonymous-ciphers"
          /\ \A f \in N : f = "tls-null-ciphers"
          /\ \A f \in R : f = "tls-rc4-supported"
          /\ \A f \in T : f = "tls-3des-supported"
          /\ \A f \in O : f = "tls-old-protocol"
          /\ \A f \in C : f \in {"tls-cert-expired", "tls-cert-self-signed", "tls-cert-weak-signature"}
      BY <1>6, <1>7, <1>8, <1>9, <1>11, <1>12
    <3>2. \A f : f \in out <=> \/ f = "tls-supported" \/ f \in C \/ f \in O \/ f \in A
                               \/ f \in N \/ f \in R \/ f \in T
      BY <2>1
    <3> QED BY <3>1, <3>2
  <2>3. /\ Kind("tls-anonymous-ciphers") = "aNULL"
        /\ Kind("tls-null-ciphers") = "eNULL"
        /\ Kind("tls-rc4-supported") = "RC4"
    BY DEF Kind
  <2>4. ASSUME NEW f \in CipherFindings, f \in out PROVE Accepts(server, Kind(f))
    <3>1. CASE f = "tls-anonymous-ciphers"
      BY <1>6, <2>2, <2>3, <2>4, <3>1
    <3>2. CASE f = "tls-null-ciphers"
      BY <1>7, <2>2, <2>3, <2>4, <3>2
    <3>3. CASE f = "tls-rc4-supported"
      BY <1>8, <2>2, <2>3, <2>4, <3>3
    <3> QED BY <3>1, <3>2, <3>3 DEF CipherFindings
  <2>5. ASSUME ~server.tls13, NEW f \in CipherFindings, Accepts(server, Kind(f)), Kind(f) \notin refusing
        PROVE  f \in out
    <3>1. CASE f = "tls-anonymous-ciphers"
      BY <1>6, <2>2, <2>3, <2>5, <3>1
    <3>2. CASE f = "tls-null-ciphers"
      BY <1>7, <2>2, <2>3, <2>5, <3>2
    <3>3. CASE f = "tls-rc4-supported"
      BY <1>8, <2>2, <2>3, <2>5, <3>3
    <3> QED BY <3>1, <3>2, <3>3 DEF CipherFindings
  <2>6. "tls-old-protocol" \in out => ~server.tls13 /\ server.version # "TLSv1.2"
    BY <2>2, <1>4, <1>12, <1>14
  <2>7. /\ "tls-cert-expired" \in out => server.cert.hours < 0
        /\ ~server.cert.present => "tls-cert-self-signed" \notin out
    BY <2>2, <1>11
  <2>8. ("tls-supported" \in out)
           = (("" \notin refusing /\ (server.tls13 \/ Accepts(server, "DEFAULT"))) /\ in.port \in Tls!TlsPorts)
    BY <2>2, <1>4, <1>14
  <2> QED BY <2>2, <2>4, <2>5, <2>6, <2>7, <2>8 DEF TlsAnswer, out, server, refusing
<1> QED BY <1>13, <1>14

-----------------------------------------------------------------------------
(* Comparisons.                                                            *)

Results == {-1, 0, 1}
Positions == Nat \ {0}

\* The results of comparing the members of S pairwise are those of an order.
Lawful(S, c) ==
    /\ c \in [S \X S -> Results]
    /\ \A x, y \in S : c[<<x, y>>] = -c[<<y, x>>]
    /\ \A x, y, z \in S : c[<<x, y>>] <= 0 /\ c[<<y, z>>] <= 0 => c[<<x, z>>] <= 0

\* The first of infinitely many comparisons that does not find equal.
First(order) ==
    LET D == {i \in Positions : order[i] # 0} IN IF D = {} THEN 0 ELSE order[Min(D)]

\* What a comparison with a law says of three members at once.
LEMMA LawfulChain ==
    ASSUME NEW S, NEW c, Lawful(S, c), NEW x \in S, NEW y \in S, NEW z \in S,
           c[<<x, y>>] <= 0, c[<<y, z>>] <= 0
    PROVE  /\ c[<<x, z>>] \in Results /\ c[<<x, z>>] <= 0
           /\ c[<<x, z>>] = 0 <=> c[<<x, y>>] = 0 /\ c[<<y, z>>] = 0
<1>1. /\ c[<<x, y>>] \in Results /\ c[<<y, z>>] \in Results /\ c[<<x, z>>] \in Results
      /\ c[<<y, x>>] \in Results /\ c[<<z, y>>] \in Results /\ c[<<z, x>>] \in Results
  BY DEF Lawful
<1>2. c[<<x, y>>] = -c[<<y, x>>] /\ c[<<y, z>>] = -c[<<z, y>>] /\ c[<<x, z>>] = -c[<<z, x>>]
  BY DEF Lawful
<1>3. c[<<x, z>>] <= 0
  BY DEF Lawful
<1>4. ASSUME c[<<x, z>>] = 0 PROVE c[<<x, y>>] = 0 /\ c[<<y, z>>] = 0
  <2>1. c[<<z, x>>] <= 0
    BY <1>1, <1>2, <1>4 DEF Results
  <2>2. c[<<z, y>>] <= 0
    BY <2>1 DEF Lawful
  <2>3. c[<<y, x>>] <= 0
    BY <2>1 DEF Lawful
  <2> QED BY <1>1, <1>2, <2>2, <2>3 DEF Results
<1>5. ASSUME c[<<x, y>>] = 0, c[<<y, z>>] = 0 PROVE c[<<x, z>>] = 0
  <2>1. c[<<y, x>>] <= 0 /\ c[<<z, y>>] <= 0
    BY <1>1, <1>2, <1>5 DEF Results
  <2>2. c[<<z, x>>] <= 0
    BY <2>1 DEF Lawful
  <2> QED BY <1>1, <1>2, <1>3, <2>2 DEF Results
<1> QED BY <1>1, <1>3, <1>4, <1>5

\* What the first comparison that decides decides.
LEMMA FirstIs ==
    ASSUME NEW order \in [Positions -> Results]
    PROVE  /\ First(order) \in Results
           /\ First(order) = 0 => \A i \in Positions : order[i] = 0
           /\ First(order) # 0 =>
                \E m \in Positions : /\ order[m] = First(order)
                                     /\ \A i \in 1..(m - 1) : order[i] = 0
<1> DEFINE D == {i \in Positions : order[i] # 0}
<1>1. First(order) = IF D = {} THEN 0 ELSE order[Min(D)]
  BY DEF First
<1>2. CASE D = {}
  BY <1>1, <1>2 DEF Results
<1>3. CASE D # {}
  <2>1. D \subseteq Nat
    BY DEF Positions
  <2>2. Min(D) \in D /\ \A i \in D : Min(D) <= i
    <3> HIDE DEF D
    <3> QED BY <1>3, <2>1, MinOf
  <2> DEFINE m == Min(D)
  <2>3. m \in Positions /\ order[m] # 0 /\ First(order) = order[m] /\ order[m] \in Results
    BY <1>1, <1>3, <2>2
  <2>4. \A i \in 1..(m - 1) : order[i] = 0
    <3> SUFFICES ASSUME NEW i \in 1..(m - 1), order[i] # 0 PROVE FALSE
      OBVIOUS
    <3>1. m \in Nat
      BY <2>3 DEF Positions
    <3> HIDE DEF m
    <3>2. i \in Positions /\ ~(m <= i)
      BY <3>1 DEF Positions
    <3> QED BY <2>2, <3>2 DEF m
  <2> HIDE DEF m
  <2> QED BY <2>3, <2>4
<1> QED BY <1>2, <1>3

\* And how to tell what it decides.
LEMMA FirstAt ==
    ASSUME NEW order \in [Positions -> Results], NEW m \in Positions,
           order[m] # 0, \A i \in 1..(m - 1) : order[i] = 0
    PROVE  First(order) = order[m]
<1>1. First(order) # 0
  BY FirstIs
<1>2. PICK n \in Positions : order[n] = First(order) /\ \A i \in 1..(n - 1) : order[i] = 0
  BY <1>1, FirstIs
<1>3. ~(n < m)
  <2> SUFFICES ASSUME n < m PROVE FALSE
    OBVIOUS
  <2>1. n \in 1..(m - 1)
    BY DEF Positions
  <2> QED BY <1>1, <1>2, <2>1
<1>4. ~(m < n)
  <2> SUFFICES ASSUME m < n PROVE FALSE
    OBVIOUS
  <2>1. m \in 1..(n - 1)
    BY DEF Positions
  <2> QED BY <1>2, <2>1
<1>5. m = n
  BY <1>3, <1>4 DEF Positions
<1> QED BY <1>2, <1>5

\* When every one of several comparisons is an order, so is the first that decides.
LEMMA FirstLawful ==
    ASSUME NEW S, NEW C, \A i \in Positions : Lawful(S, C[i])
    PROVE  Lawful(S, [p \in S \X S |-> First([i \in Positions |-> C[i][p]])])
<1> DEFINE O(x, y) == [i \in Positions |-> C[i][<<x, y>>]]
           F == [p \in S \X S |-> First([i \in Positions |-> C[i][p]])]
<1>1. \A x, y \in S : F[<<x, y>>] = First(O(x, y))
  OBVIOUS
<1>2. \A x, y \in S : O(x, y) \in [Positions -> Results]
  BY DEF Lawful
<1>3. \A x, y \in S : \A i \in Positions : O(x, y)[i] = C[i][<<x, y>>]
  OBVIOUS
<1>4. F \in [S \X S -> Results]
  <2>1. ASSUME NEW p \in S \X S PROVE First([i \in Positions |-> C[i][p]]) \in Results
    <3>1. [i \in Positions |-> C[i][p]] \in [Positions -> Results]
      BY DEF Lawful
    <3> QED BY <3>1, FirstIs
  <2> QED BY <2>1
<1> HIDE DEF O, F
<1>5. ASSUME NEW x \in S, NEW y \in S PROVE F[<<x, y>>] = -F[<<y, x>>]
  <2>1. \A i \in Positions : /\ O(x, y)[i] = -O(y, x)[i]
                             /\ O(x, y)[i] \in Results /\ O(y, x)[i] \in Results
    <3> SUFFICES ASSUME NEW i \in Positions
                 PROVE  /\ O(x, y)[i] = -O(y, x)[i]
                        /\ O(x, y)[i] \in Results /\ O(y, x)[i] \in Results
      OBVIOUS
    <3>1. C[i][<<x, y>>] = -C[i][<<y, x>>]
      BY DEF Lawful
    <3> QED BY <1>2, <1>3, <3>1
  <2>2. CASE First(O(x, y)) = 0
    <3>1. \A i \in Positions : O(x, y)[i] = 0
      BY <1>2, <2>2, FirstIs
    <3>2. \A i \in Positions : O(y, x)[i] = 0
      BY <2>1, <3>1 DEF Results
    <3>3. First(O(y, x)) = 0
      BY <1>2, <3>2, FirstIs
    <3> QED BY <1>1, <2>2, <3>3
  <2>3. CASE First(O(x, y)) # 0
    <3>1. PICK m \in Positions : O(x, y)[m] = First(O(x, y)) /\ \A i \in 1..(m - 1) : O(x, y)[i] = 0
      BY <1>2, <2>3, FirstIs
    <3>2. \A i \in 1..(m - 1) : i \in Positions
      BY DEF Positions
    <3>3. O(y, x)[m] # 0 /\ \A i \in 1..(m - 1) : O(y, x)[i] = 0
      BY <2>1, <2>3, <3>1, <3>2 DEF Results
    <3>4. First(O(y, x)) = O(y, x)[m]
      BY <1>2, <3>3, FirstAt
    <3> QED BY <1>1, <2>1, <3>1, <3>4
  <2> QED BY <2>2, <2>3
<1>6. ASSUME NEW x \in S, NEW y \in S, NEW z \in S, F[<<x, y>>] <= 0, F[<<y, z>>] <= 0
      PROVE  F[<<x, z>>] <= 0
  <2> DEFINE D == {i \in Positions : O(x, y)[i] # 0 \/ O(y, z)[i] # 0}
  <2>0. /\ O(x, y) \in [Positions -> Results] /\ O(y, z) \in [Positions -> Results]
        /\ O(x, z) \in [Positions -> Results]
        /\ F[<<x, y>>] = First(O(x, y)) /\ F[<<y, z>>] = First(O(y, z)) /\ F[<<x, z>>] = First(O(x, z))
    BY <1>1, <1>2
  <2>1. \A i \in Positions :
          O(x, y)[i] <= 0 /\ O(y, z)[i] <= 0 =>
             /\ O(x, z)[i] \in Results /\ O(x, z)[i] <= 0
             /\ O(x, z)[i] = 0 <=> O(x, y)[i] = 0 /\ O(y, z)[i] = 0
    <3> SUFFICES ASSUME NEW i \in Positions, O(x, y)[i] <= 0, O(y, z)[i] <= 0
                 PROVE  /\ O(x, z)[i] \in Results /\ O(x, z)[i] <= 0
                        /\ O(x, z)[i] = 0 <=> O(x, y)[i] = 0 /\ O(y, z)[i] = 0
      OBVIOUS
    <3>1. C[i][<<x, y>>] <= 0 /\ C[i][<<y, z>>] <= 0
      BY <1>3
    <3>2. /\ C[i][<<x, z>>] \in Results /\ C[i][<<x, z>>] <= 0
          /\ C[i][<<x, z>>] = 0 <=> C[i][<<x, y>>] = 0 /\ C[i][<<y, z>>] = 0
      BY <3>1, LawfulChain
    <3> QED BY <1>3, <3>2
  <2>2. CASE D = {}
    <3>1. \A i \in Positions : O(x, z)[i] = 0
      BY <2>1, <2>2
    <3>2. First(O(x, z)) = 0
      BY <2>0, <3>1, FirstIs
    <3> QED BY <2>0, <3>2
  <2>3. CASE D # {}
    <3>1. D \subseteq Nat
      BY DEF Positions
    <3>2. PICK m \in D : \A i \in D : m <= i
      <4> HIDE DEF D
      <4> QED BY <2>3, <3>1, Least
    <3>3. \A i \in 1..(m - 1) : i \in Positions /\ O(x, y)[i] = 0 /\ O(y, z)[i] = 0
      <4> SUFFICES ASSUME NEW i \in 1..(m - 1) PROVE i \in Positions /\ i \notin D
        OBVIOUS
      <4>1. m \in Nat
        BY <3>1
      <4>2. i \in Positions /\ ~(m <= i)
        BY <4>1 DEF Positions
      <4> QED BY <3>2, <4>2
    <3>4. m \in Positions /\ (O(x, y)[m] # 0 \/ O(y, z)[m] # 0)
      OBVIOUS
    <3> HIDE DEF D
    <3>5. O(x, y)[m] <= 0
      <4>1. CASE O(x, y)[m] = 0
        BY <4>1
      <4>2. CASE O(x, y)[m] # 0
        BY <1>6, <2>0, <3>3, <3>4, <4>2, FirstAt
      <4> QED BY <4>1, <4>2
    <3>6. O(y, z)[m] <= 0
      <4>1. CASE O(y, z)[m] = 0
        BY <4>1
      <4>2. CASE O(y, z)[m] # 0
        BY <1>6, <2>0, <3>3, <3>4, <4>2, FirstAt
      <4> QED BY <4>1, <4>2
    <3>7. O(x, z)[m] # 0 /\ O(x, z)[m] <= 0
      BY <2>1, <3>4, <3>5, <3>6
    <3>8. \A i \in 1..(m - 1) : O(x, z)[i] = 0
      BY <2>1, <3>3
    <3>9. First(O(x, z)) = O(x, z)[m]
      BY <2>0, <3>4, <3>7, <3>8, FirstAt
    <3> QED BY <2>0, <3>7, <3>9
  <2> QED BY <2>2, <2>3
<1> QED BY <1>4, <1>5, <1>6 DEF Lawful, F

\* One comparison after another.
LEMMA ThenLawful ==
    ASSUME NEW S, NEW c, NEW d, Lawful(S, c), Lawful(S, d)
    PROVE  Lawful(S, [p \in S \X S |-> IF c[p] # 0 THEN c[p] ELSE d[p]])
<1> DEFINE F == [p \in S \X S |-> IF c[p] # 0 THEN c[p] ELSE d[p]]
<1>1. F \in [S \X S -> Results]
  BY DEF Lawful
<1>2. \A x, y \in S : F[<<x, y>>] = IF c[<<x, y>>] # 0 THEN c[<<x, y>>] ELSE d[<<x, y>>]
  OBVIOUS
<1> HIDE DEF F
<1>3. ASSUME NEW x \in S, NEW y \in S PROVE F[<<x, y>>] = -F[<<y, x>>]
  <2>1. /\ c[<<x, y>>] \in Results /\ c[<<y, x>>] \in Results
        /\ c[<<x, y>>] = -c[<<y, x>>] /\ d[<<x, y>>] = -d[<<y, x>>]
    BY DEF Lawful
  <2> QED BY <1>2, <2>1 DEF Results
<1>4. ASSUME NEW x \in S, NEW y \in S, NEW z \in S, F[<<x, y>>] <= 0, F[<<y, z>>] <= 0
      PROVE  F[<<x, z>>] <= 0
  <2>1. c[<<x, y>>] \in Results /\ c[<<y, z>>] \in Results
    BY DEF Lawful
  <2>2. c[<<x, y>>] <= 0 /\ c[<<y, z>>] <= 0
    BY <1>2, <1>4, <2>1 DEF Results
  <2>3. /\ c[<<x, z>>] \in Results /\ c[<<x, z>>] <= 0
        /\ c[<<x, z>>] = 0 <=> c[<<x, y>>] = 0 /\ c[<<y, z>>] = 0
    BY <2>2, LawfulChain
  <2>4. CASE c[<<x, z>>] # 0
    BY <1>2, <2>3, <2>4
  <2>5. CASE c[<<x, z>>] = 0
    <3>1. d[<<x, y>>] <= 0 /\ d[<<y, z>>] <= 0
      BY <1>2, <1>4, <2>3, <2>5
    <3>2. d[<<x, z>>] <= 0
      BY <3>1 DEF Lawful
    <3> QED BY <1>2, <2>5, <3>2
  <2> QED BY <2>4, <2>5
<1> QED BY <1>1, <1>3, <1>4 DEF Lawful, F

\* Comparing what is made of the members.
Pulled(S, c, f) == [p \in S \X S |-> c[<<f[p[1]], f[p[2]]>>]]

LEMMA PulledBack ==
    ASSUME NEW S, NEW T, NEW c, Lawful(T, c), NEW f \in [S -> T]
    PROVE  Lawful(S, Pulled(S, c, f))
<1> DEFINE F == [p \in S \X S |-> c[<<f[p[1]], f[p[2]]>>]]
<1>1. \A p \in S \X S : <<f[p[1]], f[p[2]]>> \in T \X T
  OBVIOUS
<1>2. F \in [S \X S -> Results]
  BY <1>1 DEF Lawful
<1>3. \A x, y \in S : F[<<x, y>>] = c[<<f[x], f[y]>>] /\ f[x] \in T /\ f[y] \in T
  OBVIOUS
<1> HIDE DEF F
<1>4. ASSUME NEW x \in S, NEW y \in S PROVE F[<<x, y>>] = -F[<<y, x>>]
  <2>1. c[<<f[x], f[y]>>] = -c[<<f[y], f[x]>>]
    BY <1>3 DEF Lawful
  <2> QED BY <1>3, <2>1
<1>5. ASSUME NEW x \in S, NEW y \in S, NEW z \in S, F[<<x, y>>] <= 0, F[<<y, z>>] <= 0
      PROVE  F[<<x, z>>] <= 0
  <2>1. c[<<f[x], f[y]>>] <= 0 /\ c[<<f[y], f[z]>>] <= 0 /\ f[x] \in T /\ f[y] \in T /\ f[z] \in T
    BY <1>3, <1>5
  <2>2. c[<<f[x], f[z]>>] <= 0
    BY <2>1 DEF Lawful
  <2> QED BY <1>3, <2>2
<1> QED BY <1>2, <1>4, <1>5 DEF Lawful, Pulled, F

\* Comparing numbers that are made of the members.
LEMMA SignLawful ==
    ASSUME NEW S, NEW f \in [S -> Int]
    PROVE  Lawful(S, [p \in S \X S |-> Ver!Sign(f[p[1]], f[p[2]])])
<1> DEFINE c == [p \in S \X S |-> Ver!Sign(f[p[1]], f[p[2]])]
<1>1. \A x, y \in S : c[<<x, y>>] = IF f[x] = f[y] THEN 0 ELSE IF f[x] < f[y] THEN -1 ELSE 1
  BY DEF Ver!Sign
<1>2. c \in [S \X S -> Results]
  BY DEF Ver!Sign, Results
<1> HIDE DEF c
<1>3. ASSUME NEW x \in S, NEW y \in S PROVE c[<<x, y>>] = -c[<<y, x>>]
  <2>1. f[x] \in Int /\ f[y] \in Int
    OBVIOUS
  <2> QED BY <1>1, <2>1
<1>4. ASSUME NEW x \in S, NEW y \in S, NEW z \in S, c[<<x, y>>] <= 0, c[<<y, z>>] <= 0
      PROVE  c[<<x, z>>] <= 0
  <2>1. f[x] \in Int /\ f[y] \in Int /\ f[z] \in Int
    OBVIOUS
  <2> QED BY <1>1, <1>4, <2>1
<1> QED BY <1>2, <1>3, <1>4 DEF Lawful, c

\* Keys are compared by the first position at which they differ.
Keys == [Positions -> Int]
KeyOrder(k, l) == First([i \in Positions |-> Ver!Sign(k[i], l[i])])

LEMMA KeysLawful ==
    ASSUME NEW S, NEW f \in [S -> Keys]
    PROVE  Lawful(S, [p \in S \X S |-> KeyOrder(f[p[1]], f[p[2]])])
<1> DEFINE C == [i \in Positions |-> [p \in S \X S |-> Ver!Sign(f[p[1]][i], f[p[2]][i])]]
<1>1. ASSUME NEW i \in Positions PROVE Lawful(S, C[i])
  <2> DEFINE g == [x \in S |-> f[x][i]]
  <2>1. g \in [S -> Int]
    BY DEF Keys
  <2>2. Lawful(S, [p \in S \X S |-> Ver!Sign(g[p[1]], g[p[2]])])
    <3> HIDE DEF g
    <3> QED BY <2>1, SignLawful
  <2>3. [p \in S \X S |-> Ver!Sign(g[p[1]], g[p[2]])] = C[i]
    OBVIOUS
  <2> QED BY <2>2, <2>3
<1>2. Lawful(S, [p \in S \X S |-> First([i \in Positions |-> C[i][p]])])
  <2> HIDE DEF C
  <2> QED BY <1>1, FirstLawful
<1>3. \A p \in S \X S : [i \in Positions |-> C[i][p]] = [i \in Positions |-> Ver!Sign(f[p[1]][i], f[p[2]][i])]
  OBVIOUS
<1>4. \A p \in S \X S : First([i \in Positions |-> C[i][p]]) = KeyOrder(f[p[1]], f[p[2]])
  BY <1>3 DEF KeyOrder
<1> HIDE DEF C
<1>5. [p \in S \X S |-> First([i \in Positions |-> C[i][p]])] = [p \in S \X S |-> KeyOrder(f[p[1]], f[p[2]])]
  BY <1>4
<1> QED BY <1>2, <1>5

\* Finitely many comparisons, when none behind them decides.
LEMMA DecidedIsFirst ==
    ASSUME NEW n \in Nat, NEW order \in [Positions -> Results], NEW g,
           \A i \in 1..n : g[i] = order[i], \A i \in Positions : i > n => order[i] = 0
    PROVE  Ver!Decided(n, g) = First(order)
<1> DEFINE D == {i \in Positions : order[i] # 0}
           E == {i \in 1..n : g[i] # 0}
<1>1. D = E
  BY DEF Positions
<1>2. Ver!Decided(n, g) = IF E = {} THEN 0 ELSE g[Min(E)]
  <2>1. Ver!Min(E) = Min(E)
    BY DEF Ver!Min, Min
  <2> QED BY <2>1 DEF Ver!Decided
<1>3. First(order) = IF D = {} THEN 0 ELSE order[Min(D)]
  BY DEF First
<1>4. E # {} => Min(E) \in E
  <2>1. E \subseteq Nat
    OBVIOUS
  <2> HIDE DEF E
  <2> QED BY <2>1, MinOf
<1>5. E # {} => g[Min(E)] = order[Min(E)]
  BY <1>4
<1> HIDE DEF D, E
<1> QED BY <1>1, <1>2, <1>3, <1>5

-----------------------------------------------------------------------------
(* Versions.                                                               *)

\* The least and the greatest are those of the module of versions.
LEMMA SameExtremes ==
    /\ \A T : Ver!Max(T) = Max(T)
    /\ \A T : Ver!Min(T) = Min(T)
BY DEF Ver!Max, Max, Ver!Min, Min

\* A run ends at the first character of another class.
LEMMA RunOf ==
    ASSUME NEW s \in Ver!Text, NEW class
    PROVE  LET n == Ver!Run(s, class)
           IN  /\ n \in 0..Len(s)
               /\ \A i \in 1..n : s[i] \in class
               /\ n < Len(s) => s[n + 1] \notin class
<1> DEFINE T == {n \in 0..Len(s) : \A i \in 1..n : s[i] \in class}
           n == Max(T)
<1>1. Len(s) \in Nat
  BY LenProperties DEF Ver!Text
<1>2. T \subseteq 0..Len(s) /\ 0 \in T
  BY <1>1
<1>3. n \in T /\ \A m \in T : m <= n
  <2> HIDE DEF T
  <2> QED BY <1>1, <1>2, MaxOf
<1>4. ASSUME n < Len(s), s[n + 1] \in class PROVE FALSE
  <2>1. n + 1 \in 0..Len(s) /\ \A i \in 1..(n + 1) : i \in 1..n \/ i = n + 1
    <3>1. n \in 0..Len(s)
      BY <1>2, <1>3
    <3> HIDE DEF n
    <3> QED BY <1>1, <1>4, <3>1
  <2>2. n + 1 \in T
    <3> HIDE DEF n
    <3> QED BY <1>3, <1>4, <2>1
  <2> HIDE DEF T, n
  <2> QED BY <1>1, <1>2, <1>3, <2>2
<1>5. Ver!Run(s, class) = n
  BY SameExtremes DEF Ver!Run
<1> QED BY <1>3, <1>4, <1>5

\* What makes a run as long as it is.
LEMMA RunIs ==
    ASSUME NEW s \in Ver!Text, NEW class, NEW m \in 0..Len(s),
           \A i \in 1..m : s[i] \in class, m < Len(s) => s[m + 1] \notin class
    PROVE  Ver!Run(s, class) = m
<1> DEFINE n == Ver!Run(s, class)
<1>1. n \in 0..Len(s) /\ (\A i \in 1..n : s[i] \in class) /\ (n < Len(s) => s[n + 1] \notin class)
  BY RunOf
<1>2. Len(s) \in Nat
  BY LenProperties DEF Ver!Text
<1> HIDE DEF n
<1>3. ~(n < m)
  <2>1. n < m => n + 1 \in 1..m /\ n < Len(s)
    BY <1>1, <1>2
  <2> QED BY <1>1, <2>1
<1>4. ~(m < n)
  <2>1. m < n => m + 1 \in 1..n /\ m < Len(s)
    BY <1>1, <1>2
  <2> QED BY <1>1, <2>1
<1>5. n = m
  BY <1>1, <1>2, <1>3, <1>4
<1> QED BY <1>5 DEF n

\* The beginning of a text and what is behind it.
LEMMA Dropped ==
    ASSUME NEW s \in Ver!Text, NEW n \in 0..Len(s)
    PROVE  /\ Ver!Drop(s, n) \in Ver!Text /\ Len(Ver!Drop(s, n)) = Len(s) - n
           /\ \A i \in 1..(Len(s) - n) : Ver!Drop(s, n)[i] = s[n + i]
           /\ SubSeq(s, 1, n) \in Ver!Text /\ Len(SubSeq(s, 1, n)) = n
           /\ \A i \in 1..n : SubSeq(s, 1, n)[i] = s[i]
<1>1. s \in Seq(Ver!Chars) /\ Len(s) \in Nat /\ n \in Nat /\ Len(s) - n \in Nat
  BY LenProperties DEF Ver!Text
<1>2. PICK k \in Nat : k = Len(s) - n /\ n + k = Len(s)
  BY <1>1
<1>3. /\ Ver!Drop(s, n) = [j \in 1..k |-> s[n + j]]
      /\ Ver!Drop(s, n) \in Seq(Ver!Chars) /\ Len(Ver!Drop(s, n)) = k
  <2>1. /\ SubSeq(s, n + 1, n + k) = [j \in 1..k |-> s[n + j]]
        /\ SubSeq(s, n + 1, n + k) \in Seq(Ver!Chars) /\ Len(SubSeq(s, n + 1, n + k)) = k
    <3>1. n + k <= Len(s)
      BY <1>1, <1>2
    <3> HIDE <1>2
    <3> QED BY <1>1, <3>1, PartOf
  <2> QED BY <1>2, <2>1 DEF Ver!Drop
<1>4. /\ SubSeq(s, 1, n) = [j \in 1..n |-> s[j]]
      /\ SubSeq(s, 1, n) \in Seq(Ver!Chars) /\ Len(SubSeq(s, 1, n)) = n
  <2>1. PICK o \in Nat : o = 0
    OBVIOUS
  <2>2. /\ SubSeq(s, o + 1, o + n) = [j \in 1..n |-> s[o + j]]
        /\ SubSeq(s, o + 1, o + n) \in Seq(Ver!Chars) /\ Len(SubSeq(s, o + 1, o + n)) = n
    <3>1. o + n <= Len(s)
      BY <1>1, <2>1
    <3> HIDE <2>1
    <3> QED BY <1>1, <3>1, PartOf
  <2>3. o + 1 = 1 /\ o + n = n /\ \A j \in 1..n : o + j = j
    BY <1>1, <2>1
  <2> QED BY <2>2, <2>3
<1> QED BY <1>2, <1>3, <1>4 DEF Ver!Text

\* Positions behind which two keys agree need not be compared.
LEMMA KeyDecides ==
    ASSUME NEW k \in Keys, NEW l \in Keys, NEW n \in Nat, NEW g,
           \A i \in 1..n : g[i] = Ver!Sign(k[i], l[i]),
           \A i \in Positions : i > n => k[i] = l[i]
    PROVE  Ver!Decided(n, g) = KeyOrder(k, l)
<1> DEFINE order == [i \in Positions |-> Ver!Sign(k[i], l[i])]
<1>1. order \in [Positions -> Results]
  BY DEF Ver!Sign, Results
<1>2. /\ \A i \in 1..n : g[i] = order[i]
      /\ \A i \in Positions : i > n => order[i] = 0
  BY DEF Ver!Sign, Positions
<1>3. KeyOrder(k, l) = First(order)
  BY DEF KeyOrder
<1> HIDE DEF order
<1> QED BY <1>1, <1>2, <1>3, DecidedIsFirst

\* The larger of two numbers.
LEMMA LargerOf ==
    ASSUME NEW m \in Nat, NEW n \in Nat
    PROVE  Ver!Max({m, n}) = IF m < n THEN n ELSE m
<1>1. PICK b \in Nat : m <= b /\ n <= b
  <2>1. m <= m + n /\ n <= m + n /\ m + n \in Nat
    OBVIOUS
  <2> QED BY <2>1
<1>2. {m, n} \subseteq 0..b /\ {m, n} # {}
  BY <1>1
<1>3. Max({m, n}) \in {m, n} /\ \A k \in {m, n} : k <= Max({m, n})
  BY <1>2, MaxOf
<1> QED BY <1>3, SameExtremes

\* The runs of non-digits compare as the keys of their padded character orders.
TextKey == [s \in Ver!Text |-> [i \in Positions |->
              IF i <= Ver!Run(s, Ver!NonDigits) THEN Ver!DpkgCharOrder(s[i]) ELSE 0]]

LEMMA TextKeys ==
    /\ TextKey \in [Ver!Text -> Keys]
    /\ \A a, b \in Ver!Text : Ver!TextOrder(a, b) = KeyOrder(TextKey[a], TextKey[b])
<1>1. ASSUME NEW s \in Ver!Text
      PROVE  /\ Ver!Run(s, Ver!NonDigits) \in Nat
             /\ TextKey[s] \in Keys
             /\ \A i \in Positions : TextKey[s][i] =
                   IF i <= Ver!Run(s, Ver!NonDigits) THEN Ver!DpkgCharOrder(s[i]) ELSE 0
  <2> DEFINE n == Ver!Run(s, Ver!NonDigits)
  <2>1. n \in 0..Len(s) /\ s \in Seq(Ver!Chars) /\ Len(s) \in Nat
    BY RunOf, LenProperties DEF Ver!Text
  <2> HIDE DEF n
  <2>2. \A i \in 1..n : s[i] \in Ver!Chars
    BY <2>1, LenProperties
  <2>3. \A c \in Ver!Chars : Ver!DpkgCharOrder(c) \in Int
    BY DEF Ver!DpkgCharOrder, Ver!Chars
  <2>4. \A i \in Positions : (IF i <= n THEN Ver!DpkgCharOrder(s[i]) ELSE 0) \in Int
    BY <2>1, <2>2, <2>3 DEF Positions
  <2>5. TextKey[s] = [i \in Positions |-> IF i <= n THEN Ver!DpkgCharOrder(s[i]) ELSE 0]
    BY DEF TextKey, n
  <2> QED BY <2>1, <2>4, <2>5 DEF Keys, n
<1>2. TextKey \in [Ver!Text -> Keys]
  <2>1. TextKey = [s \in Ver!Text |-> TextKey[s]]
    BY DEF TextKey
  <2> QED BY <1>1, <2>1
<1>3. ASSUME NEW a \in Ver!Text, NEW b \in Ver!Text
      PROVE  Ver!TextOrder(a, b) = KeyOrder(TextKey[a], TextKey[b])
  <2> DEFINE m == Ver!Run(a, Ver!NonDigits)
             k == Ver!Run(b, Ver!NonDigits)
             n == Ver!Max({m, k})
             Order(s, i) == IF i <= Ver!Run(s, Ver!NonDigits) THEN Ver!DpkgCharOrder(s[i]) ELSE 0
             g == [i \in 1..n |-> Ver!Sign(Order(a, i), Order(b, i))]
  <2>1. Ver!TextOrder(a, b) = Ver!Decided(n, g)
    BY DEF Ver!TextOrder
  <2>2. n \in Nat /\ m <= n /\ k <= n /\ m \in Nat /\ k \in Nat
    <3>1. m \in Nat /\ k \in Nat
      BY <1>1
    <3> HIDE DEF m, k
    <3> QED BY <3>1, LargerOf
  <2>3. \A i \in 1..n : g[i] = Ver!Sign(TextKey[a][i], TextKey[b][i])
    <3>1. \A i \in 1..n : i \in Positions
      BY DEF Positions
    <3>2. \A i \in 1..n : TextKey[a][i] = Order(a, i) /\ TextKey[b][i] = Order(b, i)
      BY <1>1, <3>1
    <3> HIDE DEF Order
    <3> QED BY <3>2
  <2>4. \A i \in Positions : i > n => TextKey[a][i] = TextKey[b][i]
    <3> SUFFICES ASSUME NEW i \in Positions, i > n PROVE TextKey[a][i] = 0 /\ TextKey[b][i] = 0
      OBVIOUS
    <3>1. ~(i <= m) /\ ~(i <= k)
      <4> HIDE DEF m, k, n
      <4> QED BY <2>2 DEF Positions
    <3> QED BY <1>1, <3>1
  <2>5. TextKey[a] \in Keys /\ TextKey[b] \in Keys
    BY <1>1
  <2> HIDE DEF n, g
  <2> QED BY <2>1, <2>2, <2>3, <2>4, <2>5, KeyDecides
<1> QED BY <1>2, <1>3

\* Numbers, missing ones being 0, compare as their keys.
PartKey == [v \in Seq(Int) |-> [i \in Positions |-> IF i <= Len(v) THEN v[i] ELSE 0]]

LEMMA PartKeys ==
    /\ PartKey \in [Seq(Int) -> Keys]
    /\ \A v \in Seq(Int) : \A i \in Positions : PartKey[v][i] = IF i <= Len(v) THEN v[i] ELSE 0
<1>1. ASSUME NEW v \in Seq(Int)
      PROVE  /\ PartKey[v] \in Keys
             /\ \A i \in Positions : PartKey[v][i] = IF i <= Len(v) THEN v[i] ELSE 0
  <2>1. Len(v) \in Nat /\ \A i \in 1..Len(v) : v[i] \in Int
    BY LenProperties
  <2>2. \A i \in Positions : (IF i <= Len(v) THEN v[i] ELSE 0) \in Int
    BY <2>1 DEF Positions
  <2>3. PartKey[v] = [i \in Positions |-> IF i <= Len(v) THEN v[i] ELSE 0]
    BY DEF PartKey
  <2> QED BY <2>2, <2>3 DEF Keys
<1>2. PartKey = [v \in Seq(Int) |-> PartKey[v]]
  BY DEF PartKey
<1> QED BY <1>1, <1>2

\* VersionMatcher::compare.
LEMMA PartsCompared ==
    ASSUME NEW v \in Seq(Int), NEW w \in Seq(Int)
    PROVE  Ver!CompareVersions(v, w) = KeyOrder(PartKey[v], PartKey[w])
<1> DEFINE n == Ver!Max({Len(v), Len(w)})
           Part(x, i) == IF i <= Len(x) THEN x[i] ELSE 0
           g == [i \in 1..n |-> Ver!Sign(Part(v, i), Part(w, i))]
<1>1. Ver!CompareVersions(v, w) = Ver!Decided(n, g)
  BY DEF Ver!CompareVersions
<1>2. n \in Nat /\ Len(v) <= n /\ Len(w) <= n /\ Len(v) \in Nat /\ Len(w) \in Nat
  <2>1. Len(v) \in Nat /\ Len(w) \in Nat
    BY LenProperties
  <2>2. n = IF Len(v) < Len(w) THEN Len(w) ELSE Len(v)
    BY <2>1, LargerOf
  <2> HIDE DEF n
  <2> QED BY <2>1, <2>2
<1>3. \A i \in 1..n : g[i] = Ver!Sign(PartKey[v][i], PartKey[w][i])
  <2>1. \A i \in 1..n : i \in Positions
    BY DEF Positions
  <2>2. \A i \in 1..n : PartKey[v][i] = Part(v, i) /\ PartKey[w][i] = Part(w, i)
    BY <2>1, PartKeys
  <2> HIDE DEF Part
  <2> QED BY <2>2
<1>4. \A i \in Positions : i > n => PartKey[v][i] = PartKey[w][i]
  <2> SUFFICES ASSUME NEW i \in Positions, i > n PROVE PartKey[v][i] = PartKey[w][i]
    OBVIOUS
  <2>1. ~(i <= Len(v)) /\ ~(i <= Len(w))
    <3> HIDE DEF n
    <3> QED BY <1>2 DEF Positions
  <2> QED BY <2>1, PartKeys
<1>5. PartKey[v] \in Keys /\ PartKey[w] \in Keys
  BY PartKeys
<1> DEFINE k == PartKey[v]
           l == PartKey[w]
<1> HIDE DEF n, g
<1>6. Ver!Decided(n, g) = KeyOrder(k, l)
  <2>1. /\ n \in Nat /\ k \in Keys /\ l \in Keys
        /\ \A i \in 1..n : g[i] = Ver!Sign(k[i], l[i])
        /\ \A i \in Positions : i > n => k[i] = l[i]
    BY <1>2, <1>3, <1>4, <1>5
  <2> HIDE DEF k, l
  <2> QED BY <2>1, KeyDecides
<1> QED BY <1>1, <1>6

LEMMA TextIsNumbers == Ver!Text \subseteq Seq(Int)
<1>1. Ver!Chars \subseteq Int
  BY DEF Ver!Chars
<1>2. Seq(Ver!Chars) \subseteq Seq(Int)
  BY <1>1, SeqMonotonic
<1> QED BY <1>2 DEF Ver!Text

\* Numbers of the same length are compared digit by digit.
LEMMA DigitsCompared ==
    ASSUME NEW x \in Ver!Text, NEW y \in Ver!Text
    PROVE  Ver!DigitsOrder(x, y) = LET c == Ver!Sign(Len(x), Len(y))
                                   IN  IF c # 0 THEN c ELSE KeyOrder(PartKey[x], PartKey[y])
<1>1. x \in Seq(Int) /\ y \in Seq(Int) /\ Len(x) \in Nat /\ Len(y) \in Nat
  BY TextIsNumbers, LenProperties DEF Ver!Text
<1>2. CASE Len(x) # Len(y)
  BY <1>1, <1>2 DEF Ver!DigitsOrder, Ver!Sign
<1>3. CASE Len(x) = Len(y)
  <2> DEFINE n == Len(x)
             g == [i \in 1..n |-> Ver!Sign(x[i], y[i])]
  <2>1. Ver!DigitsOrder(x, y) = Ver!Decided(n, g)
    BY <1>3 DEF Ver!DigitsOrder
  <2>2. \A i \in 1..n : g[i] = Ver!Sign(PartKey[x][i], PartKey[y][i])
    <3> SUFFICES ASSUME NEW i \in 1..n PROVE PartKey[x][i] = x[i] /\ PartKey[y][i] = y[i]
      OBVIOUS
    <3>1. i \in Positions /\ i <= Len(x) /\ i <= Len(y)
      BY <1>1, <1>3 DEF Positions
    <3> QED BY <1>1, <3>1, PartKeys
  <2>3. ASSUME NEW i \in Positions, i > n PROVE PartKey[x][i] = PartKey[y][i]
    <3>1. ~(i <= Len(x)) /\ ~(i <= Len(y))
      BY <1>1, <1>3, <2>3 DEF Positions
    <3> QED BY <1>1, <3>1, PartKeys
  <2>4. PartKey[x] \in Keys /\ PartKey[y] \in Keys
    BY <1>1, PartKeys
  <2> DEFINE k == PartKey[x]
             l == PartKey[y]
  <2> HIDE DEF n, g
  <2>5. Ver!Decided(n, g) = KeyOrder(k, l)
    <3>1. /\ n \in Nat /\ k \in Keys /\ l \in Keys
          /\ \A i \in 1..n : g[i] = Ver!Sign(k[i], l[i])
          /\ \A i \in Positions : i > n => k[i] = l[i]
      BY <1>1, <2>2, <2>3, <2>4 DEF n
    <3> HIDE DEF k, l
    <3> QED BY <3>1, KeyDecides
  <2> QED BY <1>1, <1>3, <2>1, <2>5 DEF Ver!Sign
<1> QED BY <1>2, <1>3

\* What is cut out of a text is a text.
LEMMA Cut ==
    ASSUME NEW s \in Ver!Text
    PROVE  /\ Ver!BehindText(s) \in Ver!Text /\ Len(Ver!BehindText(s)) = Len(s) - Ver!Run(s, Ver!NonDigits)
           /\ Ver!BehindNumber(s) \in Ver!Text /\ Len(Ver!BehindNumber(s)) = Len(s) - Ver!Run(s, Ver!Digits)
           /\ Ver!Number(s) \in Ver!Text
<1>1. Ver!Run(s, Ver!NonDigits) \in 0..Len(s) /\ Ver!Run(s, Ver!Digits) \in 0..Len(s)
  BY RunOf
<1>2. /\ Ver!BehindText(s) \in Ver!Text /\ Len(Ver!BehindText(s)) = Len(s) - Ver!Run(s, Ver!NonDigits)
      /\ Ver!BehindNumber(s) \in Ver!Text /\ Len(Ver!BehindNumber(s)) = Len(s) - Ver!Run(s, Ver!Digits)
  BY <1>1, Dropped DEF Ver!BehindText, Ver!BehindNumber
<1>3. Ver!Number(s) \in Ver!Text
  <2> DEFINE t == SubSeq(s, 1, Ver!Run(s, Ver!Digits))
  <2>1. t \in Ver!Text
    BY <1>1, Dropped
  <2> HIDE DEF t
  <2>2. Ver!Run(t, {48}) \in 0..Len(t)
    BY <2>1, RunOf
  <2>3. Ver!Drop(t, Ver!Run(t, {48})) \in Ver!Text
    BY <2>1, <2>2, Dropped
  <2> QED BY <2>3 DEF Ver!Number, t
<1> QED BY <1>2, <1>3

\* One turn of dpkg_compare_str is an order.
TurnResults == [p \in Ver!Text \X Ver!Text |-> Ver!TurnOrder(p[1], p[2])]

LEMMA TurnLawful == Lawful(Ver!Text, TurnResults)
<1> DEFINE P == Ver!Text \X Ver!Text
           number == [s \in Ver!Text |-> Ver!Number(Ver!BehindText(s))]
           size == [s \in Ver!Text |-> Len(number[s])]
           key == [s \in Ver!Text |-> PartKey[number[s]]]
           c1 == [p \in P |-> KeyOrder(TextKey[p[1]], TextKey[p[2]])]
           c2 == [p \in P |-> Ver!Sign(size[p[1]], size[p[2]])]
           c3 == [p \in P |-> KeyOrder(key[p[1]], key[p[2]])]
           c4 == [p \in P |-> IF c2[p] # 0 THEN c2[p] ELSE c3[p]]
           c5 == [p \in P |-> IF c1[p] # 0 THEN c1[p] ELSE c4[p]]
<1>1. \A s \in Ver!Text : number[s] \in Ver!Text /\ number[s] = Ver!Number(Ver!BehindText(s))
  BY Cut
<1> HIDE DEF number
<1>2. size \in [Ver!Text -> Int] /\ \A s \in Ver!Text : size[s] = Len(number[s])
  BY <1>1, LenProperties DEF Ver!Text
<1>3. key \in [Ver!Text -> Keys] /\ \A s \in Ver!Text : key[s] = PartKey[number[s]]
  BY <1>1, TextIsNumbers, PartKeys
<1> HIDE DEF size, key
<1>4. Lawful(Ver!Text, c1)
  BY TextKeys, KeysLawful
<1>5. Lawful(Ver!Text, c2)
  BY <1>2, SignLawful
<1>6. Lawful(Ver!Text, c3)
  BY <1>3, KeysLawful
<1>7. /\ \A p \in P : c1[p] = Ver!TextOrder(p[1], p[2])
      /\ \A p \in P : c2[p] = Ver!Sign(Len(number[p[1]]), Len(number[p[2]]))
      /\ \A p \in P : c3[p] = KeyOrder(PartKey[number[p[1]]], PartKey[number[p[2]]])
  BY <1>2, <1>3, TextKeys
<1> HIDE DEF c1, c2, c3
<1>8. Lawful(Ver!Text, c4)
  BY <1>5, <1>6, ThenLawful
<1>9. \A p \in P : c4[p] = Ver!DigitsOrder(number[p[1]], number[p[2]])
  <2>1. \A p \in P : c4[p] = IF c2[p] # 0 THEN c2[p] ELSE c3[p]
    OBVIOUS
  <2> HIDE DEF c4
  <2>2. \A p \in P : number[p[1]] \in Ver!Text /\ number[p[2]] \in Ver!Text
    BY <1>1
  <2> QED BY <1>7, <2>1, <2>2, DigitsCompared
<1> HIDE DEF c4
<1>10. Lawful(Ver!Text, c5)
  BY <1>4, <1>8, ThenLawful
<1>11. \A p \in P : c5[p] = Ver!TurnOrder(p[1], p[2])
  <2>1. \A p \in P : c5[p] = IF c1[p] # 0 THEN c1[p] ELSE c4[p]
    OBVIOUS
  <2> HIDE DEF c5
  <2>2. \A p \in P : p[1] \in Ver!Text /\ p[2] \in Ver!Text
    OBVIOUS
  <2> QED BY <1>1, <1>7, <1>9, <2>1, <2>2 DEF Ver!TurnOrder
<1>12. c5 = TurnResults
  BY <1>11 DEF TurnResults
<1> QED BY <1>10, <1>12

\* What is left after the turns of dpkg_compare_str.
LEMMA RestRuns ==
    ASSUME NEW s \in Ver!Text
    PROVE  /\ Ver!Rest(s) \in [Nat -> Ver!Text] /\ Ver!Rest(s)[0] = s
           /\ \A k \in Nat : Ver!Rest(s)[k + 1] = Ver!BehindNumber(Ver!BehindText(Ver!Rest(s)[k]))
<1> DEFINE turn == [t \in Ver!Text |-> Ver!BehindNumber(Ver!BehindText(t))]
           G == [i \in Nat |-> turn]
           R(rest) == [k \in Nat |-> IF k = 0 THEN s ELSE Ver!BehindNumber(Ver!BehindText(rest[k - 1]))]
<1>1. turn \in [Ver!Text -> Ver!Text] /\ \A t \in Ver!Text : turn[t] = Ver!BehindNumber(Ver!BehindText(t))
  BY Cut
<1> HIDE DEF turn
<1>2. G \in [Nat -> [Ver!Text -> Ver!Text]] /\ \A i \in Nat : G[i] = turn
  BY <1>1
<1> HIDE DEF G
<1>3. PICK f \in [Nat -> Ver!Text] : Loop(f, s, G)
  BY <1>2, LoopRuns
<1>4. \A k \in Nat : f[k] = IF k = 0 THEN s ELSE Ver!BehindNumber(Ver!BehindText(f[k - 1]))
  <2> SUFFICES ASSUME NEW k \in Nat, k # 0 PROVE f[k] = Ver!BehindNumber(Ver!BehindText(f[k - 1]))
    BY <1>3 DEF Loop
  <2>1. k - 1 \in Nat /\ k - 1 + 1 = k
    OBVIOUS
  <2> QED BY <1>1, <1>2, <1>3, <2>1 DEF Loop
<1>5. f = R(f)
  BY <1>3, <1>4
<1>6. Ver!Rest(s) = R(Ver!Rest(s))
  <2>1. Ver!Rest(s) = CHOOSE rest : rest = R(rest)
    BY DEF Ver!Rest
  <2> HIDE DEF R
  <2> QED BY <1>5, <2>1
<1> DEFINE rest == Ver!Rest(s)
<1> HIDE DEF rest
<1>7. /\ rest[0] = s /\ DOMAIN rest = Nat
      /\ \A k \in Nat : rest[k + 1] = Ver!BehindNumber(Ver!BehindText(rest[k]))
  <2>1. rest = R(rest)
    BY <1>6 DEF rest
  <2>2. DOMAIN rest = Nat /\ \A k \in Nat : rest[k] = IF k = 0 THEN s ELSE Ver!BehindNumber(Ver!BehindText(rest[k - 1]))
    BY <2>1
  <2>3. \A k \in Nat : k + 1 \in Nat /\ k + 1 # 0 /\ k + 1 - 1 = k
    OBVIOUS
  <2> HIDE <2>1
  <2> QED BY <2>2, <2>3
<1>8. \A k \in Nat : rest[k] \in Ver!Text
  <2> DEFINE P == {k \in Nat : rest[k] \in Ver!Text}
  <2>1. 0 \in P /\ \A k \in Nat : k \in P => k + 1 \in P
    BY <1>7, Cut
  <2> HIDE DEF P
  <2>2. \A k \in Nat : k \in P
    BY <2>1, Upward
  <2> QED BY <2>2 DEF P
<1>9. rest = [k \in Nat |-> rest[k]]
  BY <1>6, <1>7 DEF rest
<1> QED BY <1>7, <1>8, <1>9 DEF rest

\* A turn uses up something of a text that is not used up.
LEMMA TurnShrinks ==
    ASSUME NEW t \in Ver!Text
    PROVE  LET u == Ver!BehindNumber(Ver!BehindText(t))
           IN  Len(u) \in Nat /\ Len(u) <= Len(t) /\ (Len(t) # 0 => Len(u) < Len(t))
<1> DEFINE n == Ver!Run(t, Ver!NonDigits)
           b == Ver!BehindText(t)
           m == Ver!Run(b, Ver!Digits)
           u == Ver!BehindNumber(b)
<1>1. b \in Ver!Text /\ Len(b) = Len(t) - n /\ u \in Ver!Text /\ Len(u) = Len(b) - m
  BY Cut
<1>2. n \in 0..Len(t) /\ (n < Len(t) => t[n + 1] \notin Ver!NonDigits)
  BY RunOf
<1>3. m \in 0..Len(b) /\ (m < Len(b) => b[m + 1] \notin Ver!Digits)
  BY <1>1, RunOf
<1>4. Len(t) \in Nat /\ Len(b) \in Nat /\ Len(u) \in Nat /\ \A i \in 1..Len(t) : t[i] \in Ver!Chars
  BY <1>1, LenProperties DEF Ver!Text
<1>5. \A i \in 1..(Len(t) - n) : b[i] = t[n + i]
  BY <1>2, Dropped DEF Ver!BehindText
<1> HIDE DEF n, b, m, u
<1>6. ASSUME Len(t) # 0, n = 0, m = 0 PROVE FALSE
  <2>1. t[1] \notin Ver!NonDigits /\ t[1] \in Ver!Chars /\ b[1] = t[1] /\ b[1] \notin Ver!Digits
    BY <1>1, <1>2, <1>3, <1>4, <1>5, <1>6
  <2> QED BY <2>1 DEF Ver!NonDigits
<1>7. Len(u) \in Nat /\ Len(u) <= Len(t) /\ (Len(t) # 0 => Len(u) < Len(t))
  BY <1>1, <1>2, <1>3, <1>4, <1>6
<1> QED BY <1>7 DEF u, b

\* After as many turns as a text has characters, it is used up.
LEMMA RestEnds ==
    ASSUME NEW s \in Ver!Text
    PROVE  \A k \in Nat : k >= Len(s) => Ver!Rest(s)[k] = <<>>
<1> DEFINE rest == Ver!Rest(s)
           P == {k \in Nat : Len(rest[k]) = 0 \/ Len(rest[k]) + k <= Len(s)}
<1>1. /\ rest[0] = s /\ \A k \in Nat : rest[k] \in Ver!Text
      /\ \A k \in Nat : rest[k + 1] = Ver!BehindNumber(Ver!BehindText(rest[k]))
  BY RestRuns
<1> HIDE DEF rest
<1>2. \A k \in Nat : Len(rest[k]) \in Nat
  BY <1>1, LenProperties DEF Ver!Text
<1>3. 0 \in P
  <2>1. Len(rest[0]) = Len(s) /\ Len(rest[0]) \in Nat
    BY <1>1, <1>2
  <2> QED BY <2>1
<1>4. ASSUME NEW k \in Nat, k \in P PROVE k + 1 \in P
  <2>1. /\ Len(rest[k + 1]) \in Nat /\ Len(rest[k]) \in Nat /\ Len(rest[k + 1]) <= Len(rest[k])
        /\ Len(rest[k]) # 0 => Len(rest[k + 1]) < Len(rest[k])
    BY <1>1, <1>2, TurnShrinks
  <2>2. Len(s) \in Nat /\ k + 1 \in Nat
    BY LenProperties DEF Ver!Text
  <2> QED BY <1>4, <2>1, <2>2
<1>5. \A k \in Nat : k \in P
  <2> HIDE DEF P
  <2> QED BY <1>3, <1>4, Upward
<1>6. ASSUME NEW k \in Nat, k >= Len(s) PROVE rest[k] = <<>>
  <2>1. Len(rest[k]) = 0
    <3>1. Len(s) \in Nat /\ Len(rest[k]) \in Nat
      BY <1>2, LenProperties DEF Ver!Text
    <3> QED BY <1>5, <1>6, <3>1
  <2> QED BY <1>1, <2>1, EmptySeq DEF Ver!Text
<1> QED BY <1>6 DEF rest

\* dpkg_compare_str is an order.
StrResults == [p \in Ver!Text \X Ver!Text |-> Ver!DpkgCompareStr(p[1], p[2])]

LEMMA StrLawful == Lawful(Ver!Text, StrResults)
<1> DEFINE P == Ver!Text \X Ver!Text
           rest == [i \in Positions |-> [s \in Ver!Text |-> Ver!Rest(s)[i - 1]]]
           C == [i \in Positions |-> [p \in P |-> TurnResults[<<rest[i][p[1]], rest[i][p[2]]>>]]]
           F == [p \in P |-> First([i \in Positions |-> C[i][p]])]
<1>1. ASSUME NEW i \in Positions
      PROVE  rest[i] \in [Ver!Text -> Ver!Text] /\ \A s \in Ver!Text : rest[i][s] = Ver!Rest(s)[i - 1]
  <2>1. i - 1 \in Nat
    BY DEF Positions
  <2> QED BY <2>1, RestRuns
<1> HIDE DEF rest
<1>2. ASSUME NEW i \in Positions PROVE Lawful(Ver!Text, C[i])
  <2> DEFINE f == rest[i]
  <2>1. f \in [Ver!Text -> Ver!Text]
    BY <1>1
  <2> HIDE DEF f
  <2>2. Lawful(Ver!Text, Pulled(Ver!Text, TurnResults, f))
    BY <2>1, TurnLawful, PulledBack
  <2>3. C[i] = Pulled(Ver!Text, TurnResults, f)
    BY DEF f, Pulled
  <2> QED BY <2>2, <2>3
<1>3. \A i \in Positions : \A a, b \in Ver!Text :
          C[i][<<a, b>>] = Ver!TurnOrder(Ver!Rest(a)[i - 1], Ver!Rest(b)[i - 1])
  <2> SUFFICES ASSUME NEW i \in Positions, NEW a \in Ver!Text, NEW b \in Ver!Text
               PROVE  C[i][<<a, b>>] = Ver!TurnOrder(Ver!Rest(a)[i - 1], Ver!Rest(b)[i - 1])
    OBVIOUS
  <2>1. C[i][<<a, b>>] = TurnResults[<<rest[i][a], rest[i][b]>>] /\ rest[i][a] \in Ver!Text /\ rest[i][b] \in Ver!Text
    BY <1>1
  <2>2. TurnResults[<<rest[i][a], rest[i][b]>>] = Ver!TurnOrder(rest[i][a], rest[i][b])
    BY <2>1 DEF TurnResults
  <2> QED BY <1>1, <2>1, <2>2
<1> HIDE DEF C
<1>4. Lawful(Ver!Text, F)
  BY <1>2, FirstLawful
<1>5. Ver!TurnOrder(<<>>, <<>>) = 0
  <2>1. <<>> \in Ver!Text
    BY EmptySeq DEF Ver!Text
  <2>2. TurnResults[<<<<>>, <<>>>>] = -TurnResults[<<<<>>, <<>>>>] /\ TurnResults[<<<<>>, <<>>>>] \in Results
    BY <2>1, TurnLawful DEF Lawful
  <2>3. TurnResults[<<<<>>, <<>>>>] = 0
    BY <2>2 DEF Results
  <2> QED BY <2>1, <2>3 DEF TurnResults
<1>6. ASSUME NEW a \in Ver!Text, NEW b \in Ver!Text PROVE Ver!DpkgCompareStr(a, b) = F[<<a, b>>]
  <2> DEFINE n == Ver!Max({Len(a), Len(b)})
             g == [k \in 1..n |-> Ver!TurnOrder(Ver!Rest(a)[k - 1], Ver!Rest(b)[k - 1])]
             order == [i \in Positions |-> C[i][<<a, b>>]]
  <2>1. Ver!DpkgCompareStr(a, b) = Ver!Decided(n, g)
    BY DEF Ver!DpkgCompareStr
  <2>2. n \in Nat /\ Len(a) <= n /\ Len(b) <= n /\ Len(a) \in Nat /\ Len(b) \in Nat
    <3>1. Len(a) \in Nat /\ Len(b) \in Nat
      BY LenProperties DEF Ver!Text
    <3>2. n = IF Len(a) < Len(b) THEN Len(b) ELSE Len(a)
      BY <3>1, LargerOf
    <3> HIDE DEF n
    <3> QED BY <3>1, <3>2
  <2>3. order \in [Positions -> Results]
    BY <1>2 DEF Lawful
  <2>4. \A i \in 1..n : g[i] = order[i]
    <3>1. \A i \in 1..n : i \in Positions
      BY DEF Positions
    <3> QED BY <1>3, <3>1
  <2>5. \A i \in Positions : i > n => order[i] = 0
    <3> SUFFICES ASSUME NEW i \in Positions, i > n PROVE order[i] = 0
      OBVIOUS
    <3>1. i - 1 \in Nat /\ i - 1 >= Len(a) /\ i - 1 >= Len(b)
      <4> HIDE DEF n
      <4> QED BY <2>2 DEF Positions
    <3>2. Ver!Rest(a)[i - 1] = <<>> /\ Ver!Rest(b)[i - 1] = <<>>
      BY <3>1, RestEnds
    <3> QED BY <1>3, <1>5, <3>2
  <2>6. F[<<a, b>>] = First(order)
    OBVIOUS
  <2> HIDE DEF n, g, order, F
  <2> QED BY <2>1, <2>2, <2>3, <2>4, <2>5, <2>6, DecidedIsFirst
<1>7. F = StrResults
  <2>1. \A p \in P : F[p] = StrResults[p]
    <3> HIDE DEF F
    <3> SUFFICES ASSUME NEW a \in Ver!Text, NEW b \in Ver!Text PROVE F[<<a, b>>] = StrResults[<<a, b>>]
      OBVIOUS
    <3>1. StrResults[<<a, b>>] = Ver!DpkgCompareStr(a, b)
      BY DEF StrResults
    <3> QED BY <1>6, <3>1
  <2>2. F = [p \in P |-> F[p]] /\ StrResults = [p \in P |-> StrResults[p]]
    BY DEF StrResults
  <2> HIDE DEF F
  <2> QED BY <2>1, <2>2
<1> QED BY <1>4, <1>7

\* The parts of a package version are texts.
LEMMA ParsedType ==
    ASSUME NEW raw \in Ver!Text
    PROVE  LET v == Ver!ParseDpkgVersion(raw)
           IN  v.epoch \in Ver!Text /\ v.upstream \in Ver!Text /\ v.revision \in Ver!Text
<1> DEFINE n == Ver!Run(raw, Ver!Digits)
           hasEpoch == n \in 1..(Len(raw) - 1) /\ raw[n + 1] = Ver!Colon
           rest == IF hasEpoch THEN Ver!Drop(raw, n + 1) ELSE raw
           dashes == {i \in 1..Len(rest) : rest[i] = Ver!Dash}
           last == Ver!Max(dashes)
           v == Ver!ParseDpkgVersion(raw)
<1>1. /\ v.epoch = IF hasEpoch THEN SubSeq(raw, 1, n) ELSE <<48>>
      /\ v.upstream = IF dashes = {} THEN rest ELSE SubSeq(rest, 1, last - 1)
      /\ v.revision = IF dashes = {} THEN <<>> ELSE Ver!Drop(rest, last)
  BY DEF Ver!ParseDpkgVersion
<1>2. n \in 0..Len(raw) /\ Len(raw) \in Nat
  BY RunOf, LenProperties DEF Ver!Text
<1>3. <<48>> \in Ver!Text /\ <<>> \in Ver!Text
  BY EmptySeq DEF Ver!Text, Ver!Chars
<1> HIDE DEF n, v
<1>4. hasEpoch => n + 1 \in 0..Len(raw)
  BY <1>2
<1>5. rest \in Ver!Text
  BY <1>2, <1>4, Dropped
<1>6. SubSeq(raw, 1, n) \in Ver!Text
  BY <1>2, Dropped
<1> HIDE DEF hasEpoch, rest
<1>7. ASSUME dashes # {} PROVE last - 1 \in 0..Len(rest) /\ last \in 0..Len(rest)
  <2>1. Len(rest) \in Nat
    BY <1>5, LenProperties DEF Ver!Text
  <2>2. dashes \subseteq 0..Len(rest) /\ dashes \subseteq 1..Len(rest)
    BY <2>1
  <2>3. last \in dashes
    <3> HIDE DEF dashes
    <3> QED BY <1>7, <2>1, <2>2, MaxOf, SameExtremes
  <2> HIDE DEF dashes, last
  <2> QED BY <2>1, <2>2, <2>3
<1> HIDE DEF dashes, last
<1>8. dashes # {} => SubSeq(rest, 1, last - 1) \in Ver!Text /\ Ver!Drop(rest, last) \in Ver!Text
  BY <1>5, <1>7, Dropped
<1> QED BY <1>1, <1>3, <1>5, <1>6, <1>8 DEF v

\* dpkg_compare is an order.
DpkgResults == [p \in Ver!Text \X Ver!Text |-> Ver!DpkgCompare(p[1], p[2])]

LEMMA DpkgLawful == Lawful(Ver!Text, DpkgResults)
<1> DEFINE P == Ver!Text \X Ver!Text
           epoch == [s \in Ver!Text |-> Ver!ParseDpkgVersion(s).epoch]
           upstream == [s \in Ver!Text |-> Ver!ParseDpkgVersion(s).upstream]
           revision == [s \in Ver!Text |-> Ver!ParseDpkgVersion(s).revision]
           c1 == Pulled(Ver!Text, StrResults, epoch)
           c2 == Pulled(Ver!Text, StrResults, upstream)
           c3 == Pulled(Ver!Text, StrResults, revision)
           c4 == [p \in P |-> IF c2[p] # 0 THEN c2[p] ELSE c3[p]]
           c5 == [p \in P |-> IF c1[p] # 0 THEN c1[p] ELSE c4[p]]
<1>1. /\ epoch \in [Ver!Text -> Ver!Text] /\ upstream \in [Ver!Text -> Ver!Text]
      /\ revision \in [Ver!Text -> Ver!Text]
      /\ \A s \in Ver!Text : /\ epoch[s] = Ver!ParseDpkgVersion(s).epoch
                             /\ upstream[s] = Ver!ParseDpkgVersion(s).upstream
                             /\ revision[s] = Ver!ParseDpkgVersion(s).revision
  BY ParsedType
<1> HIDE DEF epoch, upstream, revision
<1>2. Lawful(Ver!Text, c1) /\ Lawful(Ver!Text, c2) /\ Lawful(Ver!Text, c3)
  BY <1>1, StrLawful, PulledBack
<1>3. ASSUME NEW a \in Ver!Text, NEW b \in Ver!Text
      PROVE  /\ c1[<<a, b>>] = Ver!DpkgCompareStr(epoch[a], epoch[b])
             /\ c2[<<a, b>>] = Ver!DpkgCompareStr(upstream[a], upstream[b])
             /\ c3[<<a, b>>] = Ver!DpkgCompareStr(revision[a], revision[b])
  <2>1. \A s, t \in Ver!Text : StrResults[<<s, t>>] = Ver!DpkgCompareStr(s, t)
    BY DEF StrResults
  <2>2. /\ c1[<<a, b>>] = StrResults[<<epoch[a], epoch[b]>>]
        /\ c2[<<a, b>>] = StrResults[<<upstream[a], upstream[b]>>]
        /\ c3[<<a, b>>] = StrResults[<<revision[a], revision[b]>>]
    BY DEF Pulled
  <2> HIDE DEF c1, c2, c3
  <2> QED BY <1>1, <2>1, <2>2
<1> HIDE DEF c1, c2, c3
<1>4. Lawful(Ver!Text, c4)
  BY <1>2, ThenLawful
<1>5. \A p \in P : c4[p] = IF c2[p] # 0 THEN c2[p] ELSE c3[p]
  OBVIOUS
<1> HIDE DEF c4
<1>6. Lawful(Ver!Text, c5)
  BY <1>2, <1>4, ThenLawful
<1>7. ASSUME NEW a \in Ver!Text, NEW b \in Ver!Text PROVE c5[<<a, b>>] = Ver!DpkgCompare(a, b)
  <2>1. c5[<<a, b>>] = IF c1[<<a, b>>] # 0 THEN c1[<<a, b>>]
                       ELSE IF c2[<<a, b>>] # 0 THEN c2[<<a, b>>] ELSE c3[<<a, b>>]
    BY <1>5
  <2> HIDE DEF c5
  <2> QED BY <1>1, <1>3, <2>1 DEF Ver!DpkgCompare
<1>8. c5 = DpkgResults
  <2>1. c5 = [p \in P |-> c5[p]] /\ DpkgResults = [p \in P |-> DpkgResults[p]]
    BY DEF DpkgResults
  <2> HIDE DEF c5
  <2>2. \A p \in P : c5[p] = DpkgResults[p]
    <3> SUFFICES ASSUME NEW a \in Ver!Text, NEW b \in Ver!Text PROVE c5[<<a, b>>] = DpkgResults[<<a, b>>]
      OBVIOUS
    <3>1. DpkgResults[<<a, b>>] = Ver!DpkgCompare(a, b)
      BY DEF DpkgResults
    <3> QED BY <1>7, <3>1
  <2> QED BY <2>1, <2>2
<1> QED BY <1>6, <1>8

\* std::stoi gives a number.
LEMMA ValueType ==
    ASSUME NEW s \in Ver!Text
    PROVE  Ver!Value(s) \in Int
<1> DEFINE n == Ver!Run(s, Ver!Digits)
           digit == [i \in Nat |-> IF i < n THEN s[i + 1] ELSE 0]
           Next1(v, d) == IF 10 * v + d - 48 > IntMax THEN IntMax + 1 ELSE 10 * v + d - 48
           G == [i \in Nat |-> [v \in Int |-> Next1(v, digit[i])]]
           R(value) == [i \in 0..n |-> IF i = 0 THEN 0 ELSE Next1(value[i - 1], s[i])]
<1>1. n \in Nat /\ \A i \in 1..n : s[i] \in Int
  <2>1. n \in 0..Len(s) /\ Len(s) \in Nat /\ \A i \in 1..Len(s) : s[i] \in Ver!Chars
    BY RunOf, LenProperties DEF Ver!Text
  <2> HIDE DEF n
  <2>2. \A i \in 1..n : i \in 1..Len(s)
    BY <2>1
  <2>3. Ver!Chars \subseteq Int
    BY DEF Ver!Chars
  <2>4. n \in Nat
    BY <2>1
  <2>5. ASSUME NEW i \in 1..n PROVE s[i] \in Int
    <3>1. s[i] \in Ver!Chars
      BY <2>1, <2>2
    <3> QED BY <2>3, <3>1
  <2> QED BY <2>4, <2>5
<1> HIDE DEF n
<1>2. digit \in [Nat -> Int] /\ \A i \in 1..n : digit[i - 1] = s[i]
  BY <1>1
<1> HIDE DEF digit
<1>3. IntMax \in Nat
  BY Limits
<1>4. G \in [Nat -> [Int -> Int]] /\ \A i \in Nat, v \in Int : G[i][v] = Next1(v, digit[i])
  BY <1>2, <1>3
<1> HIDE DEF G
<1>5. PICK f \in [Nat -> Int] : Loop(f, 0, G)
  <2>1. 0 \in Int
    OBVIOUS
  <2>2. G \in [Nat -> [Int -> Int]]
    BY <1>4
  <2> QED BY <2>1, <2>2, LoopRuns
<1> DEFINE g == [i \in 0..n |-> f[i]]
<1>6. \A i \in 0..n : g[i] = IF i = 0 THEN 0 ELSE Next1(g[i - 1], s[i])
  <2> SUFFICES ASSUME NEW i \in 0..n PROVE f[i] = IF i = 0 THEN 0 ELSE Next1(g[i - 1], s[i])
    BY <1>1
  <2>1. CASE i = 0
    BY <1>5, <2>1 DEF Loop
  <2>2. CASE i # 0
    <3>1. i - 1 \in Nat /\ i - 1 + 1 = i /\ i \in 1..n /\ i - 1 \in 0..n
      BY <1>1, <2>2
    <3>2. f[i] = Next1(f[i - 1], digit[i - 1])
      <4> HIDE DEF Next1, g
      <4> QED BY <1>4, <1>5, <3>1 DEF Loop
    <3>3. f[i] = Next1(g[i - 1], s[i])
      <4>1. g[i - 1] = f[i - 1]
        BY <3>1
      <4> HIDE DEF Next1, g
      <4> QED BY <1>2, <3>1, <3>2, <4>1
    <3> QED BY <2>2, <3>3
  <2> QED BY <2>1, <2>2
<1>7. g = R(g)
  <2> HIDE DEF Next1
  <2> QED BY <1>6
<1> DEFINE value == CHOOSE h : h = R(h)
<1>8. value = R(value)
  <2> HIDE DEF R, g
  <2> QED BY <1>7
<1>9. Ver!Value(s) = value[n]
  BY DEF Ver!Value, n
<1> HIDE DEF value
<1>10. \A i \in 0..n : value[i] = IF i = 0 THEN 0 ELSE Next1(value[i - 1], s[i])
  <2> HIDE DEF Next1
  <2> QED BY <1>8
<1> DEFINE P == {i \in Nat : i <= n => value[i] \in Int}
<1>11. 0 \in P
  BY <1>1, <1>10
<1>12. ASSUME NEW i \in Nat, i \in P PROVE i + 1 \in P
  <2> SUFFICES ASSUME i + 1 <= n PROVE value[i + 1] \in Int
    OBVIOUS
  <2>1. i + 1 \in 0..n /\ i + 1 \in 1..n /\ i + 1 # 0 /\ i + 1 - 1 = i /\ i <= n
    BY <1>1
  <2>2. value[i] \in Int /\ s[i + 1] \in Int
    BY <1>1, <1>12, <2>1
  <2>3. value[i + 1] = Next1(value[i], s[i + 1])
    <3> HIDE DEF Next1
    <3> QED BY <1>10, <2>1
  <2> QED BY <1>3, <2>2, <2>3
<1>13. \A i \in Nat : i \in P
  <2> HIDE DEF P
  <2> QED BY <1>11, <1>12, Upward
<1>14. value[n] \in Int
  BY <1>1, <1>13
<1> QED BY <1>9, <1>14

\* What is left behind the numbers of an upstream version is a text.
LEMMA TailsType ==
    ASSUME NEW s \in Ver!Text
    PROVE  \A k \in Nat : Ver!Tails(s)[k] \in Ver!Text
<1> DEFINE turn == [t \in Ver!Text |-> Ver!BehindDot(t)]
           G == [i \in Nat |-> turn]
           R(tail) == [k \in Nat |-> IF k = 0 THEN s ELSE Ver!BehindDot(tail[k - 1])]
<1>1. \A t \in Ver!Text : Ver!BehindDot(t) \in Ver!Text
  <2> SUFFICES ASSUME NEW t \in Ver!Text PROVE Ver!BehindDot(t) \in Ver!Text
    OBVIOUS
  <2> DEFINE n == Ver!Run(t, Ver!Digits)
  <2>1. n \in 0..Len(t) /\ Len(t) \in Nat /\ <<>> \in Ver!Text
    BY RunOf, EmptySeq, LenProperties DEF Ver!Text
  <2>2. Ver!BehindDot(t) = IF n > 0 /\ n < Len(t) /\ t[n + 1] = Ver!Dot THEN Ver!Drop(t, n + 1) ELSE <<>>
    BY DEF Ver!BehindDot
  <2> HIDE DEF n
  <2>3. n < Len(t) => n + 1 \in 0..Len(t)
    BY <2>1
  <2> QED BY <2>1, <2>2, <2>3, Dropped
<1>2. turn \in [Ver!Text -> Ver!Text] /\ \A t \in Ver!Text : turn[t] = Ver!BehindDot(t)
  BY <1>1
<1> HIDE DEF turn
<1>3. G \in [Nat -> [Ver!Text -> Ver!Text]] /\ \A i \in Nat : G[i] = turn
  BY <1>2
<1> HIDE DEF G
<1>4. PICK f \in [Nat -> Ver!Text] : Loop(f, s, G)
  BY <1>3, LoopRuns
<1>5. \A k \in Nat : f[k] = IF k = 0 THEN s ELSE Ver!BehindDot(f[k - 1])
  <2> SUFFICES ASSUME NEW k \in Nat, k # 0 PROVE f[k] = Ver!BehindDot(f[k - 1])
    BY <1>4 DEF Loop
  <2>1. k - 1 \in Nat /\ k - 1 + 1 = k
    OBVIOUS
  <2> QED BY <1>2, <1>3, <1>4, <2>1 DEF Loop
<1>6. f = R(f)
  BY <1>4, <1>5
<1> DEFINE tail == Ver!Tails(s)
<1>7. tail = R(tail)
  <2>1. tail = CHOOSE t : t = R(t)
    BY DEF Ver!Tails
  <2> HIDE DEF R, tail
  <2> QED BY <1>6, <2>1
<1> HIDE DEF tail
<1>8. \A k \in Nat : tail[k] = IF k = 0 THEN s ELSE Ver!BehindDot(tail[k - 1])
  BY <1>7
<1> DEFINE P == {k \in Nat : tail[k] \in Ver!Text}
<1>9. 0 \in P
  BY <1>8
<1>10. ASSUME NEW k \in Nat, k \in P PROVE k + 1 \in P
  <2>1. k + 1 \in Nat /\ k + 1 # 0 /\ k + 1 - 1 = k
    OBVIOUS
  <2>2. tail[k + 1] = Ver!BehindDot(tail[k])
    BY <1>8, <2>1
  <2> QED BY <1>1, <1>10, <2>1, <2>2
<1>11. \A k \in Nat : k \in P
  <2> HIDE DEF P
  <2> QED BY <1>9, <1>10, Upward
<1> QED BY <1>11 DEF tail

\* VersionMatcher::parse gives numbers.
LEMMA PartsType ==
    ASSUME NEW raw \in Ver!Text
    PROVE  Ver!ParseVersion(raw) \in Seq(Int)
<1> DEFINE tail == Ver!Tails(Ver!BehindText(raw))
           T == {k \in 0..Len(raw) : \A j \in 0..(k - 1) : Ver!Run(tail[j], Ver!Digits) > 0}
           n == Ver!Max(T)
<1>1. Len(raw) \in Nat /\ \A k \in Nat : tail[k] \in Ver!Text
  BY Cut, TailsType, LenProperties DEF Ver!Text
<1>2. Ver!ParseVersion(raw) = IF \E k \in 1..n : Ver!Value(tail[k - 1]) > IntMax THEN <<>>
                              ELSE [k \in 1..n |-> Ver!Value(tail[k - 1])]
  BY DEF Ver!ParseVersion
<1> HIDE DEF tail
<1>3. T \subseteq 0..Len(raw) /\ 0 \in T
  BY <1>1
<1>4. n \in Nat
  <2> HIDE DEF T
  <2>1. Max(T) \in T
    BY <1>1, <1>3, MaxOf
  <2>2. n = Max(T)
    BY SameExtremes
  <2>3. n \in 0..Len(raw)
    BY <1>3, <2>1, <2>2
  <2> HIDE DEF n
  <2> QED BY <1>1, <2>3
<1> HIDE DEF n
<1>5. \A k \in 1..n : Ver!Value(tail[k - 1]) \in Int
  <2>1. \A k \in 1..n : k - 1 \in Nat
    BY <1>4
  <2> QED BY <1>1, <2>1, ValueType
<1>6. [k \in 1..n |-> Ver!Value(tail[k - 1])] \in Seq(Int)
  BY <1>4, <1>5, SeqDef
<1>7. <<>> \in Seq(Int)
  BY EmptySeq
<1> QED BY <1>2, <1>6, <1>7

\* VersionMatcher::compare is an order on the texts it is given.
UpstreamResults == [p \in Ver!Text \X Ver!Text |->
                      Ver!CompareVersions(Ver!ParseVersion(p[1]), Ver!ParseVersion(p[2]))]

LEMMA UpstreamLawful == Lawful(Ver!Text, UpstreamResults)
<1> DEFINE P == Ver!Text \X Ver!Text
           key == [s \in Ver!Text |-> PartKey[Ver!ParseVersion(s)]]
           c == [p \in P |-> KeyOrder(key[p[1]], key[p[2]])]
<1>1. key \in [Ver!Text -> Keys] /\ \A s \in Ver!Text : key[s] = PartKey[Ver!ParseVersion(s)]
  BY PartsType, PartKeys
<1> HIDE DEF key
<1>2. Lawful(Ver!Text, c)
  BY <1>1, KeysLawful
<1>3. \A p \in P : c[p] = Ver!CompareVersions(Ver!ParseVersion(p[1]), Ver!ParseVersion(p[2]))
  <2> SUFFICES ASSUME NEW p \in P
               PROVE  c[p] = Ver!CompareVersions(Ver!ParseVersion(p[1]), Ver!ParseVersion(p[2]))
    OBVIOUS
  <2>1. p[1] \in Ver!Text /\ p[2] \in Ver!Text
    OBVIOUS
  <2>2. c[p] = KeyOrder(PartKey[Ver!ParseVersion(p[1])], PartKey[Ver!ParseVersion(p[2])])
    BY <1>1, <2>1
  <2> QED BY <2>1, <2>2, PartsType, PartsCompared
<1>4. c = UpstreamResults
  BY <1>3 DEF UpstreamResults
<1> QED BY <1>2, <1>4

\* A bound of in_range stands between a version and those behind it.
LEMMA Between ==
    ASSUME NEW a \in Ver!Text, NEW b \in Ver!Text, NEW c \in Ver!Text, NEW range \in Ver!Text \X Ver!Text,
           Ver!InRange(a, range), Ver!InRange(c, range), Ver!ParseVersion(b) # <<>>,
           UpstreamResults[<<a, b>>] <= 0, UpstreamResults[<<b, c>>] <= 0
    PROVE  Ver!InRange(b, range)
<1> DEFINE U == UpstreamResults
           lo == range[1]
           hi == range[2]
<1>1. \A s, t \in Ver!Text : /\ U[<<s, t>>] = Ver!CompareVersions(Ver!ParseVersion(s), Ver!ParseVersion(t))
                             /\ U[<<s, t>>] \in Results /\ U[<<t, s>>] \in Results
                             /\ U[<<s, t>>] = -U[<<t, s>>]
  <2>1. \A s, t \in Ver!Text : U[<<s, t>>] \in Results /\ U[<<t, s>>] \in Results /\ U[<<s, t>>] = -U[<<t, s>>]
    BY UpstreamLawful DEF Lawful
  <2>2. \A s, t \in Ver!Text : U[<<s, t>>] = Ver!CompareVersions(Ver!ParseVersion(s), Ver!ParseVersion(t))
    BY DEF UpstreamResults
  <2> HIDE DEF U
  <2> QED BY <2>1, <2>2
<1>2. \A s, t, u \in Ver!Text : U[<<s, t>>] <= 0 /\ U[<<t, u>>] <= 0 => U[<<s, u>>] <= 0
  BY UpstreamLawful DEF Lawful
<1>3. lo \in Ver!Text /\ hi \in Ver!Text
  OBVIOUS
<1>4. U[<<a, b>>] <= 0 /\ U[<<b, c>>] <= 0
  OBVIOUS
<1> HIDE DEF U
<1>5. lo # Ver!Any => Ver!CompareVersions(Ver!ParseVersion(b), Ver!ParseVersion(lo)) >= 0
  <2> SUFFICES ASSUME lo # Ver!Any PROVE U[<<b, lo>>] >= 0
    BY <1>1, <1>3
  <2>1. U[<<a, lo>>] >= 0
    BY <1>1, <1>3 DEF Ver!InRange
  <2>2. U[<<lo, a>>] <= 0
    BY <1>1, <1>3, <2>1 DEF Results
  <2>3. U[<<lo, b>>] <= 0
    BY <1>2, <1>3, <1>4, <2>2
  <2> QED BY <1>1, <1>3, <2>3 DEF Results
<1>6. hi # Ver!Any => Ver!CompareVersions(Ver!ParseVersion(b), Ver!ParseVersion(hi)) <= 0
  <2> SUFFICES ASSUME hi # Ver!Any PROVE U[<<b, hi>>] <= 0
    BY <1>1, <1>3
  <2>1. U[<<c, hi>>] <= 0
    BY <1>1, <1>3 DEF Ver!InRange
  <2> QED BY <1>2, <1>3, <1>4, <2>1
<1> QED BY <1>5, <1>6 DEF Ver!InRange

\* What CallOrder finds.
OrderAnswer(in, out) ==
    /\ IsOrder(out.dpkg) /\ IsOrder(out.upstream)
    /\ \A i, j, k \in 1..3 :
          /\ out.inside[i] /\ out.inside[k] /\ out.known[j]
          /\ out.upstream[<<i, j>>] <= 0 /\ out.upstream[<<j, k>>] <= 0
          => out.inside[j]

\* The entries of the tables that CallOrder makes.
LEMMA TableOf ==
    ASSUME NEW a \in Ver!Text, NEW b \in Ver!Text
    PROVE  /\ DpkgResults[<<a, b>>] = Ver!DpkgCompare(a, b)
           /\ UpstreamResults[<<a, b>>] = Ver!CompareVersions(Ver!ParseVersion(a), Ver!ParseVersion(b))
BY DEF DpkgResults, UpstreamResults

LEMMA OrdersAnswered ==
    ASSUME NEW in \in Orders, NEW out,
           LET v == in.versions
               Pairs == (1..3) \X (1..3)
           IN  out = [dpkg |-> [p \in Pairs |-> Ver!DpkgCompare(v[p[1]], v[p[2]])],
                      upstream |-> [p \in Pairs |->
                         Ver!CompareVersions(Ver!ParseVersion(v[p[1]]), Ver!ParseVersion(v[p[2]]))],
                      known |-> [i \in 1..3 |-> Ver!ParseVersion(v[i]) # <<>>],
                      inside |-> [i \in 1..3 |-> Ver!InRange(v[i], in.range)]]
    PROVE  OrderAnswer(in, out)
<1> DEFINE v == in.versions
<1>1. in.range \in Ver!Text \X Ver!Text /\ \A i \in 1..3 : v[i] \in Ver!Text
  BY DEF Orders
<1>2. /\ \A i, j \in 1..3 : out.dpkg[<<i, j>>] = Ver!DpkgCompare(v[i], v[j])
      /\ \A i, j \in 1..3 : out.upstream[<<i, j>>] =
            Ver!CompareVersions(Ver!ParseVersion(v[i]), Ver!ParseVersion(v[j]))
      /\ \A i \in 1..3 : out.known[i] = (Ver!ParseVersion(v[i]) # <<>>)
      /\ \A i \in 1..3 : out.inside[i] = Ver!InRange(v[i], in.range)
  OBVIOUS
<1> HIDE DEF v
<1>3. \A i, j \in 1..3 : /\ out.dpkg[<<i, j>>] = DpkgResults[<<v[i], v[j]>>]
                         /\ out.upstream[<<i, j>>] = UpstreamResults[<<v[i], v[j]>>]
  <2> DEFINE d == out.dpkg
             u == out.upstream
  <2>1. /\ \A i, j \in 1..3 : d[<<i, j>>] = Ver!DpkgCompare(v[i], v[j])
        /\ \A i, j \in 1..3 :
              u[<<i, j>>] = Ver!CompareVersions(Ver!ParseVersion(v[i]), Ver!ParseVersion(v[j]))
    BY <1>2
  <2> HIDE DEF d, u
  <2>2. \A i, j \in 1..3 : /\ d[<<i, j>>] = DpkgResults[<<v[i], v[j]>>]
                           /\ u[<<i, j>>] = UpstreamResults[<<v[i], v[j]>>]
    <3> SUFFICES ASSUME NEW i \in 1..3, NEW j \in 1..3
                 PROVE  /\ d[<<i, j>>] = DpkgResults[<<v[i], v[j]>>]
                        /\ u[<<i, j>>] = UpstreamResults[<<v[i], v[j]>>]
      OBVIOUS
    <3>1. v[i] \in Ver!Text /\ v[j] \in Ver!Text
      BY <1>1
    <3>2. /\ d[<<i, j>>] = Ver!DpkgCompare(v[i], v[j])
          /\ u[<<i, j>>] = Ver!CompareVersions(Ver!ParseVersion(v[i]), Ver!ParseVersion(v[j]))
      BY <2>1
    <3> QED BY <3>1, <3>2, TableOf
  <2> QED BY <2>2 DEF d, u
<1>4. IsOrder(out.dpkg)
  <2>1. /\ \A x, y \in Ver!Text : DpkgResults[<<x, y>>] = -DpkgResults[<<y, x>>]
        /\ \A x, y, z \in Ver!Text :
              DpkgResults[<<x, y>>] <= 0 /\ DpkgResults[<<y, z>>] <= 0 => DpkgResults[<<x, z>>] <= 0
    BY DpkgLawful DEF Lawful
  <2> SUFFICES ASSUME NEW i \in 1..3, NEW j \in 1..3, NEW k \in 1..3
               PROVE  /\ out.dpkg[<<i, j>>] = -out.dpkg[<<j, i>>]
                      /\ out.dpkg[<<i, j>>] <= 0 /\ out.dpkg[<<j, k>>] <= 0 => out.dpkg[<<i, k>>] <= 0
    BY DEF IsOrder
  <2>2. v[i] \in Ver!Text /\ v[j] \in Ver!Text /\ v[k] \in Ver!Text
    BY <1>1
  <2>3. /\ out.dpkg[<<i, j>>] = DpkgResults[<<v[i], v[j]>>]
        /\ out.dpkg[<<j, i>>] = DpkgResults[<<v[j], v[i]>>]
        /\ out.dpkg[<<j, k>>] = DpkgResults[<<v[j], v[k]>>]
        /\ out.dpkg[<<i, k>>] = DpkgResults[<<v[i], v[k]>>]
    BY <1>3
  <2> QED BY <2>1, <2>2, <2>3
<1>5. IsOrder(out.upstream)
  <2>1. /\ \A x, y \in Ver!Text : UpstreamResults[<<x, y>>] = -UpstreamResults[<<y, x>>]
        /\ \A x, y, z \in Ver!Text :
              UpstreamResults[<<x, y>>] <= 0 /\ UpstreamResults[<<y, z>>] <= 0 => UpstreamResults[<<x, z>>] <= 0
    BY UpstreamLawful DEF Lawful
  <2> SUFFICES ASSUME NEW i \in 1..3, NEW j \in 1..3, NEW k \in 1..3
               PROVE  /\ out.upstream[<<i, j>>] = -out.upstream[<<j, i>>]
                      /\ out.upstream[<<i, j>>] <= 0 /\ out.upstream[<<j, k>>] <= 0 => out.upstream[<<i, k>>] <= 0
    BY DEF IsOrder
  <2>2. v[i] \in Ver!Text /\ v[j] \in Ver!Text /\ v[k] \in Ver!Text
    BY <1>1
  <2>3. /\ out.upstream[<<i, j>>] = UpstreamResults[<<v[i], v[j]>>]
        /\ out.upstream[<<j, i>>] = UpstreamResults[<<v[j], v[i]>>]
        /\ out.upstream[<<j, k>>] = UpstreamResults[<<v[j], v[k]>>]
        /\ out.upstream[<<i, k>>] = UpstreamResults[<<v[i], v[k]>>]
    BY <1>3
  <2> QED BY <2>1, <2>2, <2>3
<1>6. ASSUME NEW i \in 1..3, NEW j \in 1..3, NEW k \in 1..3,
             out.inside[i], out.inside[k], out.known[j],
             out.upstream[<<i, j>>] <= 0, out.upstream[<<j, k>>] <= 0
      PROVE  out.inside[j]
  <2>1. Ver!InRange(v[i], in.range) /\ Ver!InRange(v[k], in.range) /\ Ver!ParseVersion(v[j]) # <<>>
    BY <1>2, <1>6
  <2>2. UpstreamResults[<<v[i], v[j]>>] <= 0 /\ UpstreamResults[<<v[j], v[k]>>] <= 0
    BY <1>3, <1>6
  <2>3. Ver!InRange(v[j], in.range)
    BY <1>1, <2>1, <2>2, Between
  <2> QED BY <1>2, <2>3
<1> QED BY <1>4, <1>5, <1>6 DEF OrderAnswer

\* Behind the last dash of an installed version is the revision, and what is before it
\* does not depend on the revision.
LEMMA DashParsed ==
    ASSUME NEW version \in Ver!Text, NEW r \in DashFree
    PROVE  LET iv == Ver!ParseDpkgVersion(version \o <<Ver!Dash>> \o r)
               n == Ver!Run(version, Ver!Digits)
           IN  /\ iv.revision = r
               /\ iv.upstream = IF n > 0 /\ n < Len(version) /\ version[n + 1] = Ver!Colon
                                THEN Ver!Drop(version, n + 1) ELSE version
<1> DEFINE raw == version \o <<Ver!Dash>> \o r
           N == Len(version)
           n == Ver!Run(version, Ver!Digits)
           M == Len(r)
<1>1. /\ version \in Seq(Ver!Chars) /\ r \in Seq(Ver!Chars) /\ r \in Ver!Text /\ N \in Nat /\ M \in Nat
      /\ \A i \in 1..M : r[i] # Ver!Dash
  BY LenProperties DEF Ver!Text, DashFree
<1>2. /\ raw \in Ver!Text /\ Len(raw) = N + 1 + M
      /\ \A i \in 1..N : raw[i] = version[i]
      /\ raw[N + 1] = Ver!Dash
      /\ \A i \in 1..M : raw[N + 1 + i] = r[i]
  <2> DEFINE d == <<Ver!Dash>>
             w == version \o d
  <2>1. d \in Seq(Ver!Chars) /\ Len(d) = 1 /\ d[1] = Ver!Dash
    BY DEF Ver!Dash, Ver!Chars
  <2> HIDE DEF d
  <2>2. /\ w \in Seq(Ver!Chars) /\ Len(w) = N + 1
        /\ \A i \in 1..(N + 1) : w[i] = IF i <= N THEN version[i] ELSE d[i - N]
    <3>1. /\ w \in Seq(Ver!Chars) /\ Len(w) = Len(version) + Len(d)
          /\ \A i \in 1..(Len(version) + Len(d)) :
                w[i] = IF i <= Len(version) THEN version[i] ELSE d[i - Len(version)]
      BY <1>1, <2>1, ConcatProperties, Zenon
    <3> QED BY <2>1, <3>1
  <2> HIDE DEF w
  <2>3. /\ w \o r \in Seq(Ver!Chars) /\ Len(w \o r) = N + 1 + M
        /\ \A i \in 1..(N + 1 + M) : (w \o r)[i] = IF i <= N + 1 THEN w[i] ELSE r[i - (N + 1)]
    <3>1. /\ w \o r \in Seq(Ver!Chars) /\ Len(w \o r) = Len(w) + Len(r)
          /\ \A i \in 1..(Len(w) + Len(r)) : (w \o r)[i] = IF i <= Len(w) THEN w[i] ELSE r[i - Len(w)]
      <4>1. w \in Seq(Ver!Chars) /\ r \in Seq(Ver!Chars)
        BY <1>1, <2>2
      <4> HIDE DEF N, M
      <4> QED BY <4>1, ConcatProperties
    <3> QED BY <2>2, <3>1
  <2>4. raw = w \o r
    BY DEF d, w
  <2> HIDE DEF raw
  <2>5. \A i \in 1..N : raw[i] = version[i]
    <3> SUFFICES ASSUME NEW i \in 1..N PROVE raw[i] = version[i]
      OBVIOUS
    <3>1. i \in 1..(N + 1 + M) /\ i \in 1..(N + 1) /\ i <= N + 1 /\ i <= N
      BY <1>1
    <3> QED BY <2>2, <2>3, <2>4, <3>1
  <2>6. raw[N + 1] = Ver!Dash
    <3>1. N + 1 \in 1..(N + 1 + M) /\ N + 1 \in 1..(N + 1) /\ ~(N + 1 <= N) /\ N + 1 - N = 1
      BY <1>1
    <3> QED BY <2>1, <2>2, <2>3, <2>4, <3>1
  <2>7. \A i \in 1..M : raw[N + 1 + i] = r[i]
    <3> SUFFICES ASSUME NEW i \in 1..M PROVE raw[N + 1 + i] = r[i]
      OBVIOUS
    <3>1. N + 1 + i \in 1..(N + 1 + M) /\ ~(N + 1 + i <= N + 1) /\ N + 1 + i - (N + 1) = i
      BY <1>1
    <3> QED BY <2>3, <2>4, <3>1
  <2> QED BY <2>3, <2>4, <2>5, <2>6, <2>7 DEF Ver!Text
<1> HIDE DEF raw
<1>3. n \in 0..N /\ (\A i \in 1..n : version[i] \in Ver!Digits) /\ (n < N => version[n + 1] \notin Ver!Digits)
  BY RunOf
<1>4. Ver!Run(raw, Ver!Digits) = n
  <2> HIDE DEF n, N
  <2>1. n \in 0..Len(raw) /\ \A i \in 1..n : raw[i] \in Ver!Digits
    BY <1>1, <1>2, <1>3
  <2>2. raw[n + 1] \notin Ver!Digits
    <3>1. CASE n < N
      BY <1>1, <1>2, <1>3, <3>1
    <3>2. CASE n = N
      BY <1>1, <1>2, <3>2 DEF Ver!Dash, Ver!Digits
    <3> QED BY <1>1, <1>3, <3>1, <3>2
  <2> QED BY <1>2, <2>1, <2>2, RunIs
<1> DEFINE epoch == n > 0 /\ n < N /\ version[n + 1] = Ver!Colon
           o == IF epoch THEN n + 1 ELSE 0
           rest == IF epoch THEN Ver!Drop(raw, n + 1) ELSE raw
           dashes == {i \in 1..Len(rest) : rest[i] = Ver!Dash}
           last == Ver!Max(dashes)
           iv == Ver!ParseDpkgVersion(raw)
<1>5. (n \in 1..(Len(raw) - 1) /\ raw[n + 1] = Ver!Colon) <=> epoch
  <2> HIDE DEF n, N
  <2>1. CASE n < N
    <3>1. raw[n + 1] = version[n + 1] /\ (n \in 1..(Len(raw) - 1) <=> n > 0)
      BY <1>1, <1>2, <1>3, <2>1
    <3> QED BY <2>1, <3>1
  <2>2. CASE n = N
    BY <1>1, <1>2, <2>2 DEF Ver!Dash, Ver!Colon
  <2> QED BY <1>1, <1>3, <2>1, <2>2
<1>6. /\ iv.upstream = IF dashes = {} THEN rest ELSE SubSeq(rest, 1, last - 1)
      /\ iv.revision = IF dashes = {} THEN <<>> ELSE Ver!Drop(rest, last)
  <2> DEFINE e == n \in 1..(Len(raw) - 1) /\ raw[n + 1] = Ver!Colon
             t == IF e THEN Ver!Drop(raw, n + 1) ELSE raw
             D == {i \in 1..Len(t) : t[i] = Ver!Dash}
  <2>1. /\ iv.upstream = IF D = {} THEN t ELSE SubSeq(t, 1, Ver!Max(D) - 1)
        /\ iv.revision = IF D = {} THEN <<>> ELSE Ver!Drop(t, Ver!Max(D))
    <3> HIDE DEF n
    <3> QED BY <1>4 DEF Ver!ParseDpkgVersion
  <2>2. t = rest
    BY <1>5
  <2> HIDE DEF rest, t, iv
  <2> QED BY <2>1, <2>2
<1> HIDE DEF n, N, M, iv, epoch
<1>7. o \in 0..N /\ (epoch => n + 1 \in 0..Len(raw)) /\ (epoch => n + 1 \in 0..N)
  <2>1. epoch => n < N
    BY DEF epoch
  <2> QED BY <1>1, <1>2, <1>3, <2>1
<1>8. /\ rest \in Ver!Text /\ Len(rest) = N - o + 1 + M
      /\ \A i \in 1..Len(rest) : rest[i] = raw[o + i]
  <2>1. CASE epoch
    <3>1. rest = Ver!Drop(raw, n + 1) /\ o = n + 1
      BY <2>1
    <3>2. /\ rest \in Ver!Text /\ Len(rest) = Len(raw) - (n + 1)
          /\ \A i \in 1..(Len(raw) - (n + 1)) : rest[i] = raw[n + 1 + i]
      BY <1>2, <1>7, <2>1, <3>1, Dropped
    <3> HIDE DEF rest, o
    <3> QED BY <1>1, <1>2, <1>3, <3>1, <3>2
  <2>2. CASE ~epoch
    <3>1. rest = raw /\ o = 0
      BY <2>2
    <3> HIDE DEF rest, o
    <3> QED BY <1>1, <1>2, <3>1
  <2> QED BY <2>1, <2>2
<1> HIDE DEF o, rest
<1> DEFINE p == N - o + 1
<1>9. p \in 1..Len(rest) /\ rest[p] = Ver!Dash /\ \A i \in 1..Len(rest) : rest[i] = Ver!Dash => i <= p
  <2>1. p \in 1..Len(rest) /\ o + p = N + 1
    BY <1>1, <1>7, <1>8
  <2>2. ASSUME NEW i \in 1..Len(rest), rest[i] = Ver!Dash, ~(i <= p) PROVE FALSE
    <3>1. o + i - (N + 1) \in 1..M /\ N + 1 + (o + i - (N + 1)) = o + i
      BY <1>1, <1>7, <1>8, <2>2
    <3>2. raw[o + i] = r[o + i - (N + 1)]
      BY <1>2, <3>1
    <3> QED BY <1>1, <1>8, <2>2, <3>1, <3>2
  <2> QED BY <1>2, <1>8, <2>1, <2>2
<1>10. dashes # {} /\ last = p
  <2>1. dashes \subseteq 0..Len(rest) /\ p \in dashes /\ Len(rest) \in Nat
    BY <1>8, <1>9, LenProperties DEF Ver!Text
  <2>2. Max(dashes) \in dashes /\ \A i \in dashes : i <= Max(dashes)
    <3> HIDE DEF dashes, p
    <3> QED BY <2>1, MaxOf
  <2>3. last = Max(dashes)
    BY SameExtremes
  <2>4. last <= p /\ p <= last /\ last \in 0..Len(rest)
    <3> HIDE DEF last, p
    <3> QED BY <1>9, <2>1, <2>2, <2>3
  <2> HIDE DEF last, dashes
  <2> QED BY <1>9, <2>1, <2>4
<1> HIDE DEF dashes, last
<1>11. iv.upstream = SubSeq(rest, 1, p - 1) /\ iv.revision = Ver!Drop(rest, p)
  BY <1>6, <1>10
<1>12. p \in 0..Len(rest) /\ p - 1 \in 0..Len(rest)
  BY <1>9
<1>13. Ver!Drop(rest, p) = r
  <2> DEFINE t == Ver!Drop(rest, p)
  <2>1. t \in Ver!Text /\ Len(t) = Len(rest) - p /\ \A i \in 1..(Len(rest) - p) : t[i] = rest[p + i]
    BY <1>8, <1>12, Dropped
  <2> HIDE DEF t
  <2>2. Len(t) = M
    BY <1>1, <1>7, <1>8, <2>1
  <2>3. \A i \in 1..M : t[i] = r[i]
    <3> SUFFICES ASSUME NEW i \in 1..M PROVE t[i] = r[i]
      OBVIOUS
    <3>1. i \in 1..(Len(rest) - p) /\ p + i \in 1..Len(rest) /\ o + (p + i) = N + 1 + i
      BY <1>1, <1>7, <1>8
    <3>2. t[i] = raw[N + 1 + i]
      <4> HIDE DEF p
      <4> QED BY <1>8, <2>1, <3>1
    <3> QED BY <1>2, <3>2
  <2> HIDE DEF p
  <2> QED BY <1>1, <2>1, <2>2, <2>3, SeqEqual DEF t, M, Ver!Text
<1>14. SubSeq(rest, 1, p - 1) = IF epoch THEN Ver!Drop(version, n + 1) ELSE version
  <2> DEFINE t == SubSeq(rest, 1, p - 1)
             u == IF epoch THEN Ver!Drop(version, n + 1) ELSE version
  <2>1. t \in Ver!Text /\ Len(t) = p - 1 /\ \A i \in 1..(p - 1) : t[i] = rest[i]
    BY <1>8, <1>12, Dropped
  <2>2. u \in Ver!Text /\ Len(u) = N - o /\ \A i \in 1..(N - o) : u[i] = version[o + i]
    <3>1. CASE epoch
      <4>1. u = Ver!Drop(version, n + 1) /\ o = n + 1
        BY <3>1 DEF o
      <4>2. n + 1 \in 0..Len(version)
        BY <1>7, <3>1 DEF N
      <4> HIDE DEF u
      <4> QED BY <4>1, <4>2, Dropped DEF N
    <3>2. CASE ~epoch
      <4>1. u = version /\ o = 0
        BY <3>2 DEF o
      <4> HIDE DEF u
      <4> QED BY <1>1, <4>1 DEF N
    <3> QED BY <3>1, <3>2
  <2> HIDE DEF t, u
  <2>3. Len(t) = Len(u)
    BY <1>1, <1>7, <2>1, <2>2
  <2>4. \A i \in 1..Len(t) : t[i] = u[i]
    <3> SUFFICES ASSUME NEW i \in 1..Len(t) PROVE t[i] = u[i]
      OBVIOUS
    <3>1. i \in 1..(p - 1) /\ i \in 1..(N - o) /\ i \in 1..Len(rest) /\ o + i \in 1..N
      BY <1>1, <1>7, <1>8, <2>1
    <3> HIDE DEF p
    <3> QED BY <1>2, <1>8, <2>1, <2>2, <3>1
  <2> HIDE DEF p
  <2> QED BY <2>1, <2>2, <2>3, <2>4, SeqEqual DEF t, u, Ver!Text
<1> HIDE DEF p
<1> QED BY <1>11, <1>13, <1>14 DEF iv, raw, epoch, n, N

\* A revision behind an installed one stays behind it when it is upgraded.
NewerAnswer(in, out) == out.patched /\ out.order <= 0 /\ in.newer # <<>> => out.later

LEMMA NewersAnswered ==
    ASSUME NEW in \in Upgrades, NEW out,
           out = [patched |-> Ver!CheckBackport(in.fixes, in.version, in.revision),
                  later |-> Ver!CheckBackport(in.fixes, in.version, in.newer),
                  order |-> Ver!DpkgCompareStr(in.revision, in.newer)]
    PROVE  NewerAnswer(in, out)
<1> SUFFICES ASSUME out.patched, out.order <= 0, in.newer # <<>> PROVE out.later
  BY DEF NewerAnswer
<1> DEFINE fixes == in.fixes
           Iv(r) == Ver!ParseDpkgVersion(in.version \o <<Ver!Dash>> \o r)
           Fv(i) == Ver!ParseDpkgVersion(fixes[i].fixed)
           S(a, b) == StrResults[<<a, b>>]
<1>1. /\ in.version \in Ver!Text /\ in.revision \in DashFree /\ in.newer \in DashFree
      /\ in.revision \in Ver!Text /\ in.newer \in Ver!Text
      /\ fixes \in Seq(Fixes)
  BY DEF Upgrades, DashFree
<1>2. \A i \in 1..Len(fixes) : fixes[i].fixed \in Ver!Text
  <2>1. \A i \in 1..Len(fixes) : fixes[i] \in Fixes
    BY <1>1, ElementOfSeq
  <2> QED BY <2>1 DEF Fixes
<1>3. /\ Iv(in.revision).revision = in.revision /\ Iv(in.newer).revision = in.newer
      /\ Iv(in.revision).upstream = Iv(in.newer).upstream
  BY <1>1, DashParsed
<1>4. Ver!DpkgCompareStr(in.revision, in.newer) <= 0
  OBVIOUS
<1>5. Ver!CheckBackport(in.fixes, in.version, in.revision)
  OBVIOUS
<1>6. PICK i \in 1..Len(fixes) :
         /\ fixes[i].status \in {"released", "resolved", "fixed"}
         /\ fixes[i].fixed # <<>>
         /\ Ver!DpkgCompareStr(Fv(i).upstream, Iv(in.revision).upstream) = 0
         /\ Ver!DpkgCompareStr(Iv(in.revision).revision, Fv(i).revision) >= 0
  BY <1>5 DEF Ver!CheckBackport
<1>11. in.version # <<>> /\ in.newer # <<>>
  BY <1>5 DEF Ver!CheckBackport
<1>7. Fv(i).revision \in Ver!Text
  BY <1>2, ParsedType
<1> DEFINE rev == Fv(i).revision
<1>8. /\ \A a, b \in Ver!Text : S(a, b) = Ver!DpkgCompareStr(a, b)
      /\ \A a, b \in Ver!Text : S(a, b) = -S(b, a) /\ S(a, b) \in Results /\ S(b, a) \in Results
      /\ \A a, b, c \in Ver!Text : S(a, b) <= 0 /\ S(b, c) <= 0 => S(a, c) <= 0
  <2>1. \A a, b \in Ver!Text : S(a, b) = Ver!DpkgCompareStr(a, b)
    BY DEF StrResults
  <2>2. /\ \A a, b \in Ver!Text : S(a, b) = -S(b, a) /\ S(a, b) \in Results /\ S(b, a) \in Results
        /\ \A a, b, c \in Ver!Text : S(a, b) <= 0 /\ S(b, c) <= 0 => S(a, c) <= 0
    BY StrLawful DEF Lawful
  <2> HIDE DEF S
  <2> QED BY <2>1, <2>2
<1> HIDE DEF rev, S
<1>9. Ver!DpkgCompareStr(in.newer, rev) >= 0
  <2>1. S(in.revision, rev) >= 0 /\ S(in.revision, in.newer) <= 0
    BY <1>1, <1>3, <1>4, <1>6, <1>7, <1>8 DEF rev
  <2>2. S(rev, in.revision) <= 0
    BY <1>1, <1>7, <1>8, <2>1 DEF rev, Results
  <2>3. S(rev, in.newer) <= 0
    BY <1>1, <1>7, <1>8, <2>1, <2>2 DEF rev
  <2>4. S(in.newer, rev) >= 0
    BY <1>1, <1>7, <1>8, <2>3 DEF rev, Results
  <2> QED BY <1>1, <1>7, <1>8, <2>4 DEF rev
<1>10. Ver!CheckBackport(in.fixes, in.version, in.newer)
  <2>1. Ver!DpkgCompareStr(Fv(i).upstream, Iv(in.newer).upstream) = 0
    BY <1>3, <1>6
  <2>2. Ver!DpkgCompareStr(Iv(in.newer).revision, Fv(i).revision) >= 0
    BY <1>3, <1>9 DEF rev
  <2> QED BY <1>6, <1>11, <2>1, <2>2 DEF Ver!CheckBackport
<1> QED BY <1>10

\* verify_version confirms what lookup lists.
VerifyAnswer(in, out) ==
    /\ out.verified = "VERSION_MATCH" <=>
         (IF in.cve = "" THEN out.found # {} ELSE in.cve \in out.found)
    /\ out.verified = "UNKNOWN" <=> in.product = <<>> \/ in.version = <<>>

LEMMA VerifyAnswered ==
    ASSUME NEW in \in Questions, NEW out,
           out = [verified |-> Ver!VerifyVersion(in.db, in.cve, in.product, in.version),
                  found |-> Ver!Lookup(in.db, in.product, in.version)]
    PROVE  VerifyAnswer(in, out)
<1> DEFINE none == in.product = <<>> \/ in.version = <<>>
           M == Ver!Matching(in.db, in.product, in.version)
           hit == \E i \in M : in.cve \in {"", in.db[i].cve}
           verified == Ver!VerifyVersion(in.db, in.cve, in.product, in.version)
<1>1. none => M = {}
  BY DEF Ver!Matching
<1>2. out.found = {in.db[i].cve : i \in M} /\ out.verified = verified
  BY DEF Ver!Lookup
<1> HIDE DEF M
<1>3. /\ none => verified = "UNKNOWN"
      /\ ~none /\ hit => verified = "VERSION_MATCH"
      /\ ~none /\ ~hit => verified = "NOT_VULNERABLE"
  <2>1. none => verified = "UNKNOWN"
    <3>1. none => ~hit
      BY <1>1
    <3> QED BY <3>1, Zenon DEF Ver!VerifyVersion, M
  <2>2. ~none /\ hit => verified = "VERSION_MATCH"
    BY Zenon DEF Ver!VerifyVersion, M
  <2>3. ~none /\ ~hit => verified = "NOT_VULNERABLE"
    BY Zenon DEF Ver!VerifyVersion, M
  <2> QED BY <2>1, <2>2, <2>3
<1> HIDE DEF verified
<1>4. hit <=> IF in.cve = "" THEN out.found # {} ELSE in.cve \in out.found
  BY <1>2
<1>5. out.verified = "VERSION_MATCH" <=> IF in.cve = "" THEN out.found # {} ELSE in.cve \in out.found
  <2>1. none => ~hit
    BY <1>1
  <2> HIDE DEF none, hit
  <2> QED BY <1>2, <1>3, <1>4, <2>1
<1>6. out.verified = "UNKNOWN" <=> none
  <2> HIDE DEF none, hit
  <2> QED BY <1>2, <1>3
<1> QED BY <1>5, <1>6 DEF VerifyAnswer

-----------------------------------------------------------------------------
(* The state machine of the calls.                                         *)

\* The input is one of its subject's, and what the call answered is right for it.
Right ==
    /\ subject = "cidr" => input \in CidrTexts /\ (called => CidrAnswer(input, output))
    /\ subject = "order" => input \in Orders /\ (called => OrderAnswer(input, output))
    /\ subject = "newer" => input \in Upgrades /\ (called => NewerAnswer(input, output))
    /\ subject = "verify" => input \in Questions /\ (called => VerifyAnswer(input, output))
    /\ subject = "tls" => input \in Audits /\ (called => TlsAnswer(input, output))
    /\ subject = "ranges" => input \in Requests /\ (called => RangeAnswer(input, output))

LEMMA RightInit == DecisionsInit => Right
BY InputTypes DEF DecisionsInit, Right

LEMMA RightStep == Right /\ [DecisionsNext]_vars => Right'
<1> SUFFICES ASSUME Right, [DecisionsNext]_vars PROVE Right'
  OBVIOUS
<1>1. CASE CallCidr
  <2>1. /\ subject = "cidr" /\ subject' = subject /\ input' = input
        /\ output' = ExpandCidr(input)
    BY <1>1 DEF CallCidr, Called
  <2>2. input \in CidrTexts /\ CidrAnswer(input, output')
    BY <2>1, CidrAnswered DEF Right
  <2> QED BY <2>1, <2>2 DEF Right, CidrAnswer
<1>2. CASE CallOrder
  <2>1. /\ subject = "order" /\ subject' = subject /\ input' = input
        /\ output' = [dpkg |-> [p \in (1..3) \X (1..3) |-> Ver!DpkgCompare(input.versions[p[1]], input.versions[p[2]])],
                      upstream |-> [p \in (1..3) \X (1..3) |->
                         Ver!CompareVersions(Ver!ParseVersion(input.versions[p[1]]),
                                             Ver!ParseVersion(input.versions[p[2]]))],
                      known |-> [i \in 1..3 |-> Ver!ParseVersion(input.versions[i]) # <<>>],
                      inside |-> [i \in 1..3 |-> Ver!InRange(input.versions[i], input.range)]]
    BY <1>2 DEF CallOrder, Called
  <2>2. input \in Orders /\ OrderAnswer(input, output')
    BY <2>1, OrdersAnswered DEF Right
  <2> QED BY <2>1, <2>2 DEF Right, OrderAnswer
<1>3. CASE CallNewer
  <2>1. /\ subject = "newer" /\ subject' = subject /\ input' = input
        /\ output' = [patched |-> Ver!CheckBackport(input.fixes, input.version, input.revision),
                      later |-> Ver!CheckBackport(input.fixes, input.version, input.newer),
                      order |-> Ver!DpkgCompareStr(input.revision, input.newer)]
    BY <1>3 DEF CallNewer, Called
  <2>2. input \in Upgrades /\ NewerAnswer(input, output')
    BY <2>1, NewersAnswered DEF Right
  <2> QED BY <2>1, <2>2 DEF Right, NewerAnswer
<1>4. CASE CallVerify
  <2>1. /\ subject = "verify" /\ subject' = subject /\ input' = input
        /\ output' = [verified |-> Ver!VerifyVersion(input.db, input.cve, input.product, input.version),
                      found |-> Ver!Lookup(input.db, input.product, input.version)]
    BY <1>4 DEF CallVerify, Called
  <2>2. input \in Questions /\ VerifyAnswer(input, output')
    BY <2>1, VerifyAnswered DEF Right
  <2> QED BY <2>1, <2>2 DEF Right, VerifyAnswer
<1>5. CASE CallTls
  <2>1. /\ subject = "tls" /\ subject' = subject /\ input' = input
        /\ output' = Tls!RunTlsChecks(input.port, input.server, input.refusing)
    BY <1>5 DEF CallTls, Called
  <2>2. input \in Audits /\ TlsAnswer(input, output')
    BY <2>1, TlsAnswered DEF Right
  <2>3. subject' = "tls" /\ input' \in Audits /\ TlsAnswer(input', output')
    BY <2>1, <2>2
  <2> QED BY <2>3 DEF Right
<1>6. CASE CallRanges
  <2>1. /\ subject = "ranges" /\ subject' = subject /\ input' = input
        /\ output' = Body!ApplyRanges(input.parts, input.body)
    BY <1>6 DEF CallRanges, Called
  <2>2. input \in Requests /\ RangeAnswer(input, output')
    BY <2>1, RangesAnswered DEF Right
  <2> QED BY <2>1, <2>2 DEF Right, RangeAnswer
<1>7. CASE UNCHANGED vars
  BY <1>7 DEF Right, vars
<1> QED BY <1>1, <1>2, <1>3, <1>4, <1>5, <1>6, <1>7 DEF DecisionsNext

\* Whatever the inputs and the limits are, every call is answered as it should be.
LEMMA AlwaysRight == DecisionsSpec => []Right
BY RightInit, RightStep, PTL DEF DecisionsSpec

\* expand_cidr (scan/cidr.cpp) gives exactly the first addresses of the block, in order, for
\* every size of an address and every limit of the results.
THEOREM BlockOfAddresses == DecisionsSpec => []CidrIsTheBlock
<1>1. Right => CidrIsTheBlock
  BY DEF Right, CidrIsTheBlock, Answered, CidrAnswer
<1> QED BY <1>1, AlwaysRight, PTL

\* dpkg_compare and VersionMatcher::compare are orders on all texts; in_range and
\* verify_version decide in accordance with them, and so does check_backport for revisions
\* without a dash, upgraded to one that is not empty (cve.cpp).
THEOREM VersionLaws == DecisionsSpec => []VersionsInOrder
<1>1. Right => VersionsInOrder
  BY DEF Right, VersionsInOrder, ComparisonsAreOrders, PatchedStaysPatched, VerifyAgreesWithLookup,
         Answered, OrderAnswer, NewerAnswer, VerifyAnswer
<1> QED BY <1>1, AlwaysRight, PTL

\* run_tls_checks (tls/checks.cpp) reports what a server accepts and nothing else, for
\* every list of suites, certificate, build of OpenSSL and failing handshake.
THEOREM TlsServers == DecisionsSpec => []TlsVerdict
<1>1. Right => TlsVerdict
  BY DEF Right, TlsVerdict, Answered, TlsAnswer
<1> QED BY <1>1, AlwaysRight, PTL

\* apply_ranges (httplib.h) sends exactly the bytes of each range, for every body and all
\* limits on the ranges.
THEOREM RangeBytes == DecisionsSpec => []RangesAreTheBytes
<1>1. Right => RangesAreTheBytes
  BY DEF Right, RangesAreTheBytes, Answered, RangeAnswer, Good
<1> QED BY <1>1, AlwaysRight, PTL
=============================================================================
