------------------------- MODULE WarpGroups_proofs -------------------------
(***************************************************************************)
(* Proofs about WarpGroups, for any number of ops, partitions and warps.   *)
(***************************************************************************)
EXTENDS WarpGroups, FiniteSetTheorems, SequenceTheorems, WellFoundedInduction, TLAPS

-----------------------------------------------------------------------------
(* Sequences *)

LEMMA SeqFacts ==
  ASSUME NEW S, NEW s \in Seq(S)
  PROVE  /\ Len(s) \in Nat /\ DOMAIN s = 1 .. Len(s)
         /\ \A i \in 1 .. Len(s) : s[i] \in S
         /\ s # <<>> => Len(s) \in Nat \ {0} /\ 1 \in 1 .. Len(s)
OBVIOUS

LEMMA IsSeq ==
  ASSUME NEW S, NEW n \in Nat, NEW f \in [1 .. n -> S]
  PROVE  f \in Seq(S) /\ Len(f) = n
OBVIOUS

LEMMA PutFirst ==
  ASSUME NEW S, NEW a \in S, NEW s \in Seq(S)
  PROVE  /\ <<a>> \o s \in Seq(S) /\ <<a>> \o s # <<>> /\ (<<a>> \o s)[1] = a
         /\ \A k \in 1 .. Len(s) : (<<a>> \o s)[k + 1] = s[k]
OBVIOUS

-----------------------------------------------------------------------------
(* Sums *)

\* Induction over the naturals, for a set of numbers.
LEMMA Inductive ==
  ASSUME NEW S, 0 \in S, \A n \in Nat : n \in S => n + 1 \in S
  PROVE  Nat \subseteq S
<1> DEFINE R == {r \in Nat \X Nat : r[1] < r[2]}
           T == Nat \ S
<1>1. OpToRel(<, Nat) = R
  BY Zenon DEF OpToRel
<1>2. IsWellFoundedOn(R, Nat)
  BY <1>1, NatLessThanWellFounded
<1>3. T \in SUBSET Nat
  OBVIOUS
<1> SUFFICES ASSUME T # {} PROVE FALSE
  OBVIOUS
<1> HIDE DEF R, T
<1>4. PICK x \in T : \A y \in T : ~(<<y, x>> \in R)
  BY <1>2, <1>3, WFMin
<1>5. \A y \in T : ~(y < x)
  BY <1>3, <1>4 DEF R
<1>6. x \in Nat /\ x # 0 /\ x - 1 \in Nat /\ (x - 1) + 1 = x
  BY <1>3 DEF T
<1>7. x - 1 \in T
  BY <1>3, <1>6 DEF T
<1> QED BY <1>5, <1>6, <1>7

\* The recursion of SumTo has a solution.
LEMMA SumExists ==
  ASSUME NEW f, NEW n \in Nat, \A i \in 1 .. n : f[i] \in Int
  PROVE  \E s \in [0 .. n -> Int] :
           s = [i \in 0 .. n |-> IF i = 0 THEN 0 ELSE s[i - 1] + f[i]]
<1> DEFINE P(k, s) == /\ s \in [0 .. k -> Int]
                      /\ s = [i \in 0 .. k |-> IF i = 0 THEN 0 ELSE s[i - 1] + f[i]]
           S == {k \in Nat : k <= n => \E s : P(k, s)}
<1>1. 0 \in S
  <2> DEFINE z == [i \in 0 .. 0 |-> 0]
  <2>1. P(0, z)
    OBVIOUS
  <2> QED BY <2>1
<1>2. ASSUME NEW k \in Nat, k \in S PROVE k + 1 \in S
  <2> SUFFICES ASSUME k + 1 <= n PROVE \E s : P(k + 1, s)
    OBVIOUS
  <2>1. PICK s : P(k, s)
    BY <1>2
  <2> DEFINE t == [i \in 0 .. k + 1 |-> IF i = k + 1 THEN s[k] + f[k + 1] ELSE s[i]]
  <2>2. t \in [0 .. k + 1 -> Int]
    BY <2>1
  <2>3. \A i \in 0 .. k + 1 : t[i] = IF i = 0 THEN 0 ELSE t[i - 1] + f[i]
    BY <2>1
  <2>4. P(k + 1, t)
    BY <2>2, <2>3
  <2> QED BY <2>4
<1> HIDE DEF P
<1>3. n \in S
  BY <1>1, <1>2, Inductive
<1>4. \E s : P(n, s)
  BY <1>3
<1> QED BY <1>4 DEF P

Sums(f, n) == CHOOSE s : s = [i \in 0 .. n |-> IF i = 0 THEN 0 ELSE s[i - 1] + f[i]]

LEMMA SumSteps ==
  ASSUME NEW f, NEW n \in Nat, \A i \in 1 .. n : f[i] \in Int
  PROVE  /\ Sums(f, n) \in [0 .. n -> Int]
         /\ Sums(f, n)[0] = 0
         /\ \A i \in 1 .. n : Sums(f, n)[i] = Sums(f, n)[i - 1] + f[i]
         /\ SumTo(f, n) = Sums(f, n)[n]
<1> DEFINE s == Sums(f, n)
           S == {k \in Nat : k <= n => s[k] \in Int}
<1>0. \E t \in [0 .. n -> Int] : t = [i \in 0 .. n |-> IF i = 0 THEN 0 ELSE t[i - 1] + f[i]]
  BY SumExists
<1>1. s = [i \in 0 .. n |-> IF i = 0 THEN 0 ELSE s[i - 1] + f[i]]
  BY <1>0, Zenon DEF Sums
<1>2. SumTo(f, n) = s[n]
  BY DEF SumTo, Sums
<1> HIDE DEF s
<1>3. s[0] = 0 /\ \A i \in 1 .. n : s[i] = s[i - 1] + f[i]
  BY <1>1
<1>4. 0 \in S /\ \A k \in Nat : k \in S => k + 1 \in S
  BY <1>3
<1> HIDE DEF S
<1>5. Nat \subseteq S
  BY <1>4, Inductive
<1>6. \A k \in 0 .. n : s[k] \in Int
  BY <1>5 DEF S
<1>7. s \in [0 .. n -> Int]
  BY <1>1, <1>6
<1> QED BY <1>2, <1>3, <1>7 DEF s

LEMMA SumZero == ASSUME NEW f PROVE SumTo(f, 0) = 0
BY SumSteps

LEMMA SumNext ==
  ASSUME NEW f, NEW n \in Nat, \A i \in 1 .. n + 1 : f[i] \in Int
  PROVE  SumTo(f, n + 1) = SumTo(f, n) + f[n + 1] /\ SumTo(f, n) \in Int
<1> DEFINE s == Sums(f, n)
           t == Sums(f, n + 1)
           S == {k \in Nat : k <= n => s[k] = t[k]}
<1>1. /\ s \in [0 .. n -> Int] /\ s[0] = 0 /\ SumTo(f, n) = s[n]
      /\ \A i \in 1 .. n : s[i] = s[i - 1] + f[i]
  BY SumSteps
<1>2. /\ t \in [0 .. n + 1 -> Int] /\ t[0] = 0 /\ SumTo(f, n + 1) = t[n + 1]
      /\ \A i \in 1 .. n + 1 : t[i] = t[i - 1] + f[i]
  BY SumSteps
<1> HIDE DEF s, t
<1>3. 0 \in S /\ \A k \in Nat : k \in S => k + 1 \in S
  BY <1>1, <1>2
<1> HIDE DEF S
<1>4. n \in S
  BY <1>3, Inductive
<1>5. s[n] = t[n]
  BY <1>4 DEF S
<1> QED BY <1>1, <1>2, <1>5

LEMMA SumInt ==
  ASSUME NEW f, NEW n \in Nat, \A i \in 1 .. n : f[i] \in Int
  PROVE  SumTo(f, n) \in Int
BY SumSteps

\* A sum is linear in its summands.
LEMMA SumAdds ==
  ASSUME NEW f, NEW g, NEW h, NEW n \in Nat,
         \A i \in 1 .. n : f[i] \in Int /\ g[i] \in Int /\ h[i] = f[i] + g[i]
  PROVE  SumTo(h, n) = SumTo(f, n) + SumTo(g, n)
<1> DEFINE S == {k \in Nat : k <= n => SumTo(h, k) = SumTo(f, k) + SumTo(g, k)}
<1>1. 0 \in S
  BY SumZero
<1>2. ASSUME NEW k \in Nat, k \in S PROVE k + 1 \in S
  <2> SUFFICES ASSUME k + 1 <= n PROVE SumTo(h, k + 1) = SumTo(f, k + 1) + SumTo(g, k + 1)
    OBVIOUS
  <2>1. \A i \in 1 .. k + 1 : h[i] \in Int /\ f[i] \in Int /\ g[i] \in Int
    OBVIOUS
  <2>2. /\ SumTo(h, k + 1) = SumTo(h, k) + h[k + 1]
        /\ SumTo(f, k + 1) = SumTo(f, k) + f[k + 1] /\ SumTo(f, k) \in Int
        /\ SumTo(g, k + 1) = SumTo(g, k) + g[k + 1] /\ SumTo(g, k) \in Int
    BY <2>1, SumNext
  <2> QED BY <1>2, <2>2
<1> HIDE DEF S
<1>3. n \in S
  BY <1>1, <1>2, Inductive
<1> QED BY <1>3 DEF S

\* Functions that agree have the same sums.
LEMMA SumAgrees ==
  ASSUME NEW f, NEW g, NEW n \in Nat,
         \A i \in 1 .. n : f[i] \in Int /\ g[i] = f[i]
  PROVE  SumTo(g, n) = SumTo(f, n)
<1> DEFINE S == {k \in Nat : k <= n => SumTo(g, k) = SumTo(f, k)}
<1>1. 0 \in S
  BY SumZero
<1>2. ASSUME NEW k \in Nat, k \in S PROVE k + 1 \in S
  <2> SUFFICES ASSUME k + 1 <= n PROVE SumTo(g, k + 1) = SumTo(f, k + 1)
    OBVIOUS
  <2>1. \A i \in 1 .. k + 1 : f[i] \in Int /\ g[i] \in Int
    OBVIOUS
  <2>2. /\ SumTo(f, k + 1) = SumTo(f, k) + f[k + 1] /\ SumTo(f, k) \in Int
        /\ SumTo(g, k + 1) = SumTo(g, k) + g[k + 1] /\ SumTo(g, k) \in Int
    BY <2>1, SumNext
  <2> QED BY <1>2, <2>2
<1> HIDE DEF S
<1>3. n \in S
  BY <1>1, <1>2, Inductive
<1> QED BY <1>3 DEF S

\* Sums are monotonic.
LEMMA SumLeq ==
  ASSUME NEW f, NEW g, NEW n \in Nat,
         \A i \in 1 .. n : f[i] \in Int /\ g[i] \in Int /\ f[i] <= g[i]
  PROVE  SumTo(f, n) <= SumTo(g, n)
<1> DEFINE S == {k \in Nat : k <= n => SumTo(f, k) <= SumTo(g, k)}
<1>1. 0 \in S
  BY SumZero
<1>2. ASSUME NEW k \in Nat, k \in S PROVE k + 1 \in S
  <2> SUFFICES ASSUME k + 1 <= n PROVE SumTo(f, k + 1) <= SumTo(g, k + 1)
    OBVIOUS
  <2>1. \A i \in 1 .. k + 1 : f[i] \in Int /\ g[i] \in Int
    OBVIOUS
  <2>2. /\ SumTo(f, k + 1) = SumTo(f, k) + f[k + 1] /\ SumTo(f, k) \in Int
        /\ SumTo(g, k + 1) = SumTo(g, k) + g[k + 1] /\ SumTo(g, k) \in Int
    BY <2>1, SumNext
  <2> QED BY <1>2, <2>2
<1> HIDE DEF S
<1>3. n \in S
  BY <1>1, <1>2, Inductive
<1> QED BY <1>3 DEF S

\* A factor of all summands is one of the sum.
LEMMA SumScales ==
  ASSUME NEW c \in Int, NEW f, NEW g, NEW n \in Nat,
         \A i \in 1 .. n : f[i] \in Int /\ g[i] = c * f[i]
  PROVE  SumTo(g, n) = c * SumTo(f, n)
<1> DEFINE S == {k \in Nat : k <= n => SumTo(g, k) = c * SumTo(f, k)}
<1>1. 0 \in S
  BY SumZero
<1>2. ASSUME NEW k \in Nat, k \in S PROVE k + 1 \in S
  <2> SUFFICES ASSUME k + 1 <= n PROVE SumTo(g, k + 1) = c * SumTo(f, k + 1)
    OBVIOUS
  <2>1. \A i \in 1 .. k + 1 : f[i] \in Int /\ g[i] \in Int
    OBVIOUS
  <2>2. /\ SumTo(f, k + 1) = SumTo(f, k) + f[k + 1] /\ SumTo(f, k) \in Int
        /\ SumTo(g, k + 1) = SumTo(g, k) + g[k + 1] /\ SumTo(g, k) \in Int
    BY <2>1, SumNext
  <2> QED BY <1>2, <2>2
<1> HIDE DEF S
<1>3. n \in S
  BY <1>1, <1>2, Inductive
<1> QED BY <1>3 DEF S

\* Zeros add up to zero.
LEMMA SumNone ==
  ASSUME NEW f, NEW n \in Nat,
         \A i \in 1 .. n : f[i] = 0
  PROVE  SumTo(f, n) = 0
<1> DEFINE S == {k \in Nat : k <= n => SumTo(f, k) = 0}
<1>1. 0 \in S
  BY SumZero
<1>2. ASSUME NEW k \in Nat, k \in S PROVE k + 1 \in S
  <2> SUFFICES ASSUME k + 1 <= n PROVE SumTo(f, k + 1) = 0
    OBVIOUS
  <2>1. \A i \in 1 .. k + 1 : f[i] \in Int
    OBVIOUS
  <2>2. /\ SumTo(f, k + 1) = SumTo(f, k) + f[k + 1] /\ SumTo(f, k) \in Int
    BY <2>1, SumNext
  <2> QED BY <1>2, <2>2
<1> HIDE DEF S
<1>3. n \in S
  BY <1>1, <1>2, Inductive
<1> QED BY <1>3 DEF S

\* A single summand that is not zero is the sum.
LEMMA SumOne ==
  ASSUME NEW f, NEW n \in Nat, NEW m \in 1 .. n, f[m] \in Int,
         \A i \in 1 .. n : i # m => f[i] = 0
  PROVE  SumTo(f, n) = f[m]
<1> DEFINE S == {k \in Nat : m <= k /\ k <= n => SumTo(f, k) = f[m]}
<1>1. 0 \in S
  OBVIOUS
<1>2. ASSUME NEW k \in Nat, k \in S PROVE k + 1 \in S
  <2> SUFFICES ASSUME m <= k + 1, k + 1 <= n PROVE SumTo(f, k + 1) = f[m]
    OBVIOUS
  <2>1. \A i \in 1 .. k + 1 : f[i] \in Int
    OBVIOUS
  <2>2. SumTo(f, k + 1) = SumTo(f, k) + f[k + 1] /\ SumTo(f, k) \in Int
    BY <2>1, SumNext
  <2>3. m = k + 1 => SumTo(f, k) = 0
    BY SumNone
  <2> QED BY <1>2, <2>2, <2>3
<1> HIDE DEF S
<1>3. n \in S
  BY <1>1, <1>2, Inductive
<1> QED BY <1>3 DEF S

\* Changing one summand changes the sum by as much.
LEMMA SumChanges ==
  ASSUME NEW f, NEW g, NEW n \in Nat, NEW m \in 1 .. n,
         \A i \in 1 .. n : f[i] \in Int /\ g[i] \in Int /\ (i # m => g[i] = f[i])
  PROVE  SumTo(g, n) = SumTo(f, n) + g[m] - f[m]
<1> DEFINE h == [i \in 1 .. n |-> g[i] - f[i]]
<1>1. \A i \in 1 .. n : h[i] \in Int /\ f[i] \in Int /\ g[i] = f[i] + h[i] /\ (i # m => h[i] = 0)
  OBVIOUS
<1>2. h[m] = g[m] - f[m]
  OBVIOUS
<1> HIDE DEF h
<1>3. SumTo(g, n) = SumTo(f, n) + SumTo(h, n)
  BY <1>1, SumAdds
<1>4. SumTo(h, n) = h[m]
  BY <1>1, SumOne
<1>5. SumTo(f, n) \in Int /\ f[m] \in Int /\ g[m] \in Int
  BY SumInt
<1> QED BY <1>2, <1>3, <1>4, <1>5

Permutes(q, n) ==
  q \in [1 .. n -> 1 .. n] /\ \A i, j \in 1 .. n : i # j => q[i] # q[j]

LEMMA PermutationHits ==
  ASSUME NEW n \in Nat, NEW q, Permutes(q, n), NEW m \in 1 .. n
  PROVE  \E i \in 1 .. n : q[i] = m
<1> SUFFICES ASSUME \A i \in 1 .. n : q[i] # m PROVE FALSE
  OBVIOUS
<1> DEFINE T == (1 .. n) \ {m}
<1>1. IsFiniteSet(1 .. n) /\ Cardinality(1 .. n) = n
  BY FS_Interval
<1>2. IsFiniteSet(T) /\ Cardinality(T) < Cardinality(1 .. n)
  <2>1. /\ IsFiniteSet((1 .. n) \ {m})
        /\ Cardinality((1 .. n) \ {m}) = IF m \in 1 .. n THEN n - 1 ELSE n
    BY <1>1, FS_RemoveElement, Zenon
  <2> QED BY <1>1, <2>1
<1>3. q \in [1 .. n -> T]
  BY DEF Permutes
<1> HIDE DEF T
<1>4. \E i, j \in 1 .. n : i # j /\ q[i] = q[j]
  BY <1>1, <1>2, <1>3, FS_PigeonHole
<1> QED BY <1>4 DEF Permutes

\* The order of the summands does not matter.
LEMMA SumPermutes ==
  ASSUME NEW f, NEW n \in Nat, \A i \in 1 .. n : f[i] \in Int, NEW p, Permutes(p, n)
  PROVE  SumTo([i \in 1 .. n |-> f[p[i]]], n) = SumTo(f, n)
<1> DEFINE Same(q, k) == SumTo([i \in 1 .. k |-> f[q[i]]], k) = SumTo(f, k)
           S == {k \in Nat : k <= n => \A q : Permutes(q, k) => Same(q, k)}
<1>1. 0 \in S
  BY SumZero
<1>2. ASSUME NEW k \in Nat, k \in S PROVE k + 1 \in S
  <2> SUFFICES ASSUME k + 1 <= n, NEW q, Permutes(q, k + 1) PROVE Same(q, k + 1)
    OBVIOUS
  <2>1. PICK m \in 1 .. k + 1 : q[m] = k + 1
    BY PermutationHits
  <2> DEFINE r == [i \in 1 .. k |-> IF i = m THEN q[k + 1] ELSE q[i]]
             F == [i \in 1 .. k + 1 |-> f[q[i]]]
             G == [i \in 1 .. k |-> f[r[i]]]
  <2>2. Permutes(r, k)
    <3>1. /\ \A i \in 1 .. k + 1 : q[i] \in 1 .. k + 1
          /\ \A i, j \in 1 .. k + 1 : i # j => q[i] # q[j]
          /\ \A i \in 1 .. k : i \in 1 .. k + 1 /\ i # k + 1
          /\ k + 1 \in 1 .. k + 1
      BY DEF Permutes
    <3>2. ASSUME NEW i \in 1 .. k PROVE r[i] = IF i = m THEN q[k + 1] ELSE q[i]
      OBVIOUS
    <3>3. r = [i \in 1 .. k |-> r[i]]
      OBVIOUS
    <3> HIDE DEF r
    <3>4. ASSUME NEW i \in 1 .. k PROVE r[i] \in 1 .. k + 1 /\ r[i] # k + 1
      BY <2>1, <3>1, <3>2
    <3>5. \A x \in 1 .. k + 1 : x # k + 1 => x \in 1 .. k
      OBVIOUS
    <3>6. \A i \in 1 .. k : r[i] \in 1 .. k
      BY <3>4, <3>5
    <3>7. ASSUME NEW i \in 1 .. k, NEW j \in 1 .. k, i # j PROVE r[i] # r[j]
      BY <3>1, <3>2, <3>7
    <3>8. r \in [1 .. k -> 1 .. k]
      BY <3>3, <3>6
    <3> QED BY <3>7, <3>8 DEF Permutes
  <2>3. SumTo(G, k) = SumTo(f, k)
    BY <1>2, <2>2
  <2>4. \A i \in 1 .. k + 1 : q[i] \in 1 .. n /\ f[q[i]] \in Int
    <3>1. \A i \in 1 .. k + 1 : q[i] \in 1 .. k + 1
      BY DEF Permutes
    <3>2. \A x \in 1 .. k + 1 : x \in 1 .. n
      OBVIOUS
    <3>3. \A x \in 1 .. n : f[x] \in Int
      OBVIOUS
    <3> QED BY ONLY <3>1, <3>2, <3>3
  <2>5. /\ \A i \in 1 .. k + 1 : F[i] = f[q[i]] /\ F[i] \in Int
        /\ \A i \in 1 .. k : G[i] = IF i = m THEN F[k + 1] ELSE F[i]
    BY <2>4
  <2>6. f[k + 1] \in Int /\ F[m] = f[k + 1]
    BY <2>1, <2>5
  <2> HIDE DEF F, G, r
  <2>7. SumTo(F, k + 1) = SumTo(F, k) + F[k + 1] /\ SumTo(F, k) \in Int
    BY <2>5, SumNext
  <2>8. SumTo(f, k + 1) = SumTo(f, k) + f[k + 1] /\ SumTo(f, k) \in Int
    BY SumNext
  <2>9. CASE m = k + 1
    <3>1. SumTo(G, k) = SumTo(F, k)
      <4>1. \A i \in 1 .. k : F[i] \in Int /\ G[i] = F[i]
        BY <2>5, <2>9
      <4> QED BY <4>1, SumAgrees
    <3> QED BY <2>3, <2>6, <2>7, <2>8, <2>9, <3>1 DEF F
  <2>10. CASE m \in 1 .. k
    <3>1. SumTo(G, k) = SumTo(F, k) + G[m] - F[m]
      <4>1. \A i \in 1 .. k : F[i] \in Int /\ G[i] \in Int /\ (i # m => G[i] = F[i])
        BY <2>5
      <4> QED BY <4>1, <2>10, SumChanges
    <3>2. G[m] = F[k + 1] /\ F[k + 1] \in Int
      BY <2>5, <2>10
    <3>3. SumTo(F, k + 1) = SumTo(f, k + 1)
      BY <2>3, <2>6, <2>7, <2>8, <3>1, <3>2
    <3> QED BY <3>3 DEF F
  <2> QED BY <2>9, <2>10
<1>3. n \in S
  <2> HIDE DEF S
  <2> QED BY <1>1, <1>2, Inductive
<1> QED BY <1>3

LEMMA TotalConcat ==
  ASSUME NEW s \in Seq(Int), NEW t \in Seq(Int)
  PROVE  Total(s \o t) = Total(s) + Total(t)
<1> DEFINE r == s \o t
           S == {k \in Nat : k <= Len(t) => SumTo(r, Len(s) + k) = Total(s) + SumTo(t, k)}
<1>1. /\ r \in Seq(Int) /\ Len(r) = Len(s) + Len(t) /\ Len(s) \in Nat /\ Len(t) \in Nat
      /\ \A i \in 1 .. Len(s) : s[i] \in Int /\ r[i] = s[i]
      /\ \A i \in 1 .. Len(t) : t[i] \in Int /\ r[Len(s) + i] = t[i]
  <2>1. r \in Seq(Int) /\ Len(r) = Len(s) + Len(t)
    OBVIOUS
  <2>2. \A i \in 1 .. Len(s) : r[i] = s[i]
    OBVIOUS
  <2>3. \A i \in 1 .. Len(t) : r[Len(s) + i] = t[i]
    OBVIOUS
  <2> HIDE DEF r
  <2> QED BY <2>1, <2>2, <2>3, SeqFacts
<1> HIDE DEF r
<1>2. \A i \in 1 .. Len(s) + Len(t) : r[i] \in Int
  BY <1>1, SeqFacts
<1>3. SumTo(r, Len(s)) = Total(s) /\ Total(s) \in Int
  <2>1. \A i \in 1 .. Len(s) : s[i] \in Int /\ r[i] \in Int /\ r[i] = s[i]
    BY <1>1
  <2>2. SumTo(s, Len(s)) \in Int
    BY <1>1, <2>1, SumInt
  <2>3. SumTo(r, Len(s)) = SumTo(s, Len(s))
    BY <1>1, <2>1, SumAgrees
  <2> QED BY <2>2, <2>3 DEF Total
<1>4. 0 \in S
  BY <1>1, <1>3, SumZero
<1>5. ASSUME NEW k \in Nat, k \in S PROVE k + 1 \in S
  <2> SUFFICES ASSUME k + 1 <= Len(t)
               PROVE  SumTo(r, Len(s) + (k + 1)) = Total(s) + SumTo(t, k + 1)
    OBVIOUS
  <2>1. SumTo(t, k + 1) = SumTo(t, k) + t[k + 1] /\ SumTo(t, k) \in Int
    <3>1. k \in Nat /\ \A i \in 1 .. k + 1 : t[i] \in Int
      BY <1>1
    <3> QED BY ONLY <3>1, SumNext
  <2>2. SumTo(r, (Len(s) + k) + 1) = SumTo(r, Len(s) + k) + r[(Len(s) + k) + 1]
    <3>1. Len(s) \in Nat /\ Len(t) \in Nat
      BY <1>1
    <3>2. Len(s) + k \in Nat /\ \A i \in 1 .. (Len(s) + k) + 1 : i \in 1 .. Len(s) + Len(t)
      BY <3>1
    <3>3. \A i \in 1 .. (Len(s) + k) + 1 : r[i] \in Int
      BY ONLY <1>2, <3>2
    <3> QED BY ONLY <3>2, <3>3, SumNext
  <2>3. r[(Len(s) + k) + 1] = t[k + 1] /\ (Len(s) + k) + 1 = Len(s) + (k + 1)
    BY <1>1
  <2>4. t[k + 1] \in Int /\ SumTo(r, Len(s) + k) = Total(s) + SumTo(t, k)
    BY <1>1, <1>5
  <2> QED BY <1>3, <2>1, <2>2, <2>3, <2>4
<1> HIDE DEF S
<1>6. Len(t) \in S
  BY <1>1, <1>4, <1>5, Inductive
<1> QED BY <1>1, <1>6 DEF S, r, Total

-----------------------------------------------------------------------------
(* Padding *)

\* A non-empty set of naturals with an upper bound has a maximum.
LEMMA MaxIsMember ==
  ASSUME NEW n \in Nat, NEW T \in SUBSET (0 .. n), T # {}
  PROVE  Max(T) \in T /\ \A x \in T : x <= Max(T)
<1> DEFINE S == {k \in Nat : k <= n /\ (\E x \in T : x >= n - k)
                              => \E m \in T : \A x \in T : m >= x}
<1>1. 0 \in S
  OBVIOUS
<1>2. ASSUME NEW k \in Nat, k \in S PROVE k + 1 \in S
  <2> SUFFICES ASSUME k + 1 <= n, NEW x \in T, x >= n - (k + 1)
               PROVE  \E m \in T : \A y \in T : m >= y
    OBVIOUS
  <2>1. CASE \E y \in T : y >= n - k
    BY <1>2, <2>1
  <2>2. CASE \A y \in T : y < n - k
    <3>1. \A y \in T : x >= y
      BY <2>2
    <3> QED BY <3>1
  <2> QED BY <2>1, <2>2
<1>3. n \in S
  <2> HIDE DEF S
  <2> QED BY <1>1, <1>2, Inductive
<1>4. \E x \in T : x >= n - n
  <2>1. PICK x \in T : TRUE
    OBVIOUS
  <2> QED BY <2>1
<1>5. \E m \in T : \A x \in T : m >= x
  BY <1>3, <1>4
<1>6. Max(T) \in T /\ \A x \in T : Max(T) >= x
  BY <1>5, Zenon DEF Max
<1> QED BY <1>6

LEMMA MaxIs ==
  ASSUME NEW T \in SUBSET Int, NEW m \in T, \A x \in T : m >= x
  PROVE  Max(T) = m
<1>1. Max(T) \in T /\ \A x \in T : Max(T) >= x
  BY Zenon DEF Max
<1>2. Max(T) >= m /\ m >= Max(T) /\ Max(T) \in Int /\ m \in Int
  BY <1>1
<1> QED BY <1>2

LEMMA PaddingSizeFits ==
  ASSUME NEW n \in Nat \ {0} PROVE PaddingSize(n) \in 1 .. n
<1> DEFINE T == {p \in 1 .. n : p \in {2 ^ e : e \in 0 .. 30}}
<1>1. 2 ^ 0 = 1
  OBVIOUS
<1>2. 1 \in T /\ T \in SUBSET (0 .. n) /\ T \subseteq 1 .. n
  BY <1>1
<1> HIDE DEF T
<1>3. Max(T) \in T
  BY <1>2, MaxIsMember
<1> QED BY <1>2, <1>3 DEF PaddingSize, T

PadWith(f, i) == <<PaddingSize(i)>> \o f[i - PaddingSize(i)]

\* The recursion of Padding has a solution.
LEMMA PadExists ==
  ASSUME NEW n \in Nat
  PROVE  \E p : p = [i \in 0 .. n |->
           IF i = 0 THEN <<>> ELSE PadWith(p, i)]
<1> DEFINE P(k, p) == p = [i \in 0 .. k |->
             IF i = 0 THEN <<>> ELSE PadWith(p, i)]
           S == {k \in Nat : \E p : P(k, p)}
<1>1. 0 \in S
  <2>1. P(0, [i \in 0 .. 0 |-> <<>>])
    OBVIOUS
  <2> QED BY <2>1
<1>2. ASSUME NEW k \in Nat, k \in S PROVE k + 1 \in S
  <2>1. PICK p : P(k, p)
    BY <1>2
  <2> DEFINE q == [i \in 0 .. k + 1 |->
               IF i = k + 1 THEN PadWith(p, i) ELSE p[i]]
  <2>2. \A i \in 0 .. k + 1 : i # 0 => i - PaddingSize(i) \in 0 .. k
    BY PaddingSizeFits
  <2>3. \A i \in 0 .. k : q[i] = p[i]
    OBVIOUS
  <2>4. \A i \in 0 .. k + 1 :
          q[i] = IF i = 0 THEN <<>> ELSE PadWith(q, i)
    <3> SUFFICES ASSUME NEW i \in 0 .. k + 1
                 PROVE  q[i] = IF i = 0 THEN <<>> ELSE PadWith(q, i)
      OBVIOUS
    <3>1. i # 0 => PadWith(q, i) = PadWith(p, i)
      BY <2>2, <2>3 DEF PadWith
    <3>2. i \in 0 .. k => p[i] = IF i = 0 THEN <<>> ELSE PadWith(p, i)
      BY <2>1
    <3> QED BY <3>1, <3>2
  <2>5. P(k + 1, q)
    BY <2>4
  <2> HIDE DEF P
  <2>6. \E r : P(k + 1, r)
    BY <2>5
  <2> QED BY <2>6
<1> HIDE DEF P
<1>3. n \in S
  BY <1>1, <1>2, Inductive
<1>4. \E p : P(n, p)
  BY <1>3
<1> QED BY <1>4 DEF P

PadFunction(n) ==
  CHOOSE p : p = [i \in 0 .. n |->
    IF i = 0 THEN <<>> ELSE PadWith(p, i)]

\* The padding partitions have the missing warps.
LEMMA PaddingAddsUp ==
  ASSUME NEW n \in Nat
  PROVE  Padding(n) \in Seq(Nat \ {0}) /\ Total(Padding(n)) = n
<1> DEFINE p == PadFunction(n)
           Good(k) == p[k] \in Seq(Nat \ {0}) /\ Total(p[k]) = k
           S == {k \in Nat : \A i \in 0 .. k : i <= n => Good(i)}
<1>0. \E q : q = [i \in 0 .. n |->
           IF i = 0 THEN <<>> ELSE PadWith(q, i)]
  BY PadExists
<1>1. p = [i \in 0 .. n |->
        IF i = 0 THEN <<>> ELSE PadWith(p, i)]
  BY <1>0, Zenon DEF PadFunction
<1>2. Padding(n) = p[n]
  BY DEF Padding, PadFunction, PadWith
<1> HIDE DEF p
<1>3. Good(0)
  BY <1>1, SumZero DEF Total
<1>4. 0 \in S
  BY <1>3
<1>5. ASSUME NEW k \in Nat, k \in S PROVE k + 1 \in S
  <2> SUFFICES ASSUME k + 1 <= n PROVE Good(k + 1)
    BY <1>5
  <2> DEFINE z == PaddingSize(k + 1)
  <2>1. z \in 1 .. k + 1
    BY PaddingSizeFits
  <2>2. p[k + 1] = <<z>> \o p[(k + 1) - z]
    <3>1. p[k + 1] = PadWith(p, k + 1)
      BY <1>1
    <3> QED BY <3>1 DEF PadWith
  <2> HIDE DEF z
  <2>3. Good((k + 1) - z)
    BY <1>5, <2>1
  <2>4. <<z>> \in Seq(Int) /\ Len(<<z>>) = 1 /\ <<z>>[1] = z /\ <<z>> \in Seq(Nat \ {0})
    BY <2>1
  <2>5. Total(<<z>>) = z
    <3>1. \A i \in 1 .. 0 + 1 : <<z>>[i] \in Int
      BY <2>4
    <3>2. SumTo(<<z>>, 0 + 1) = SumTo(<<z>>, 0) + <<z>>[0 + 1]
      BY <3>1, SumNext
    <3> QED BY <2>1, <2>4, <3>2, SumZero DEF Total
  <2>6. p[(k + 1) - z] \in Seq(Int) /\ p[k + 1] \in Seq(Nat \ {0})
    BY <2>2, <2>3, <2>4
  <2>7. Total(p[k + 1]) = Total(<<z>>) + Total(p[(k + 1) - z])
    BY <2>2, <2>4, <2>6, TotalConcat
  <2> QED BY <2>1, <2>3, <2>5, <2>6, <2>7
<1>6. n \in S
  <2> HIDE DEF S
  <2> QED BY <1>4, <1>5, Inductive
<1> QED BY <1>2, <1>6

-----------------------------------------------------------------------------
(* Layout: the partitions in the order of the sort, one after the other *)

Sorted(sizes, order) == [i \in DOMAIN sizes |-> sizes[order[i]]]

LEMMA SortedFacts ==
  ASSUME NEW sizes \in Seq(Nat \ {0}), NEW order \in Orders(sizes)
  PROVE  /\ DOMAIN sizes = 1 .. Len(sizes) /\ Len(sizes) \in Nat
         /\ Permutes(order, Len(sizes))
         /\ \A i \in 1 .. Len(sizes) :
              /\ order[i] \in 1 .. Len(sizes) /\ Sorted(sizes, order)[i] = sizes[order[i]]
              /\ Sorted(sizes, order)[i] \in Nat \ {0}
         /\ SumTo(Sorted(sizes, order), Len(sizes)) = Total(sizes)
<1> DEFINE n == Len(sizes)
<1>1. DOMAIN sizes = 1 .. n /\ n \in Nat /\ \A i \in 1 .. n : sizes[i] \in Nat \ {0}
  OBVIOUS
<1>2. order \in [1 .. n -> 1 .. n] /\ \A i, j \in 1 .. n : i # j => order[i] # order[j]
  BY <1>1 DEF Orders
<1>3. Permutes(order, n)
  BY <1>2 DEF Permutes
<1>4. \A i \in 1 .. n : sizes[i] \in Int
  BY <1>1
<1> HIDE DEF n
<1>5. SumTo([i \in 1 .. n |-> sizes[order[i]]], n) = SumTo(sizes, n)
  BY <1>1, <1>3, <1>4, SumPermutes
<1>6. Sorted(sizes, order) = [i \in 1 .. n |-> sizes[order[i]]]
  BY <1>1 DEF Sorted
<1>7. \A i \in 1 .. n :
        /\ order[i] \in 1 .. n /\ Sorted(sizes, order)[i] = sizes[order[i]]
        /\ Sorted(sizes, order)[i] \in Nat \ {0}
  BY <1>1, <1>2, <1>6
<1> QED BY <1>1, <1>3, <1>5, <1>6, <1>7 DEF n, Total

\* Sums of sizes grow with the number of summands.
LEMMA SumGrows ==
  ASSUME NEW f, NEW n \in Nat, \A i \in 1 .. n : f[i] \in Nat, NEW k \in 0 .. n
  PROVE  \A j \in 0 .. k : SumTo(f, j) \in Nat /\ SumTo(f, j) <= SumTo(f, k)
<1> DEFINE S == {m \in Nat : m <= n =>
             \A j \in 0 .. m : SumTo(f, j) \in Nat /\ SumTo(f, j) <= SumTo(f, m)}
<1>1. 0 \in S
  BY SumZero
<1>2. ASSUME NEW m \in Nat, m \in S PROVE m + 1 \in S
  <2> SUFFICES ASSUME m + 1 <= n
               PROVE  \A j \in 0 .. m + 1 :
                        SumTo(f, j) \in Nat /\ SumTo(f, j) <= SumTo(f, m + 1)
    OBVIOUS
  <2>1. SumTo(f, m + 1) = SumTo(f, m) + f[m + 1] /\ f[m + 1] \in Nat
    BY SumNext
  <2>2. \A j \in 0 .. m : SumTo(f, j) \in Nat /\ SumTo(f, j) <= SumTo(f, m)
    BY <1>2
  <2>3. SumTo(f, m) \in Nat
    BY <2>2
  <2> QED BY <2>1, <2>2, <2>3
<1>3. k \in S
  <2> HIDE DEF S
  <2> QED BY <1>1, <1>2, Inductive
<1> QED BY <1>3

LEMMA SumNat ==
  ASSUME NEW f, NEW n \in Nat, \A i \in 1 .. n : f[i] \in Nat
  PROVE  SumTo(f, n) \in Nat
<1>1. n \in 0 .. n
  OBVIOUS
<1> QED BY <1>1, SumGrows

\* In a row of intervals with the lengths f[1], f[2], ..., no two overlap, and
\* together they have no gap.
LEMMA IntervalsApart ==
  ASSUME NEW f, NEW n \in Nat, \A i \in 1 .. n : f[i] \in Nat,
         NEW a \in 1 .. n, NEW b \in 1 .. n, a < b
  PROVE  /\ SumTo(f, a - 1) \in Nat /\ SumTo(f, b - 1) \in Nat
         /\ SumTo(f, a - 1) + f[a] <= SumTo(f, b - 1)
<1>1. a - 1 \in Nat /\ (a - 1) + 1 = a /\ a \in 0 .. b - 1 /\ b - 1 \in Nat
  OBVIOUS
<1>2. \A i \in 1 .. (a - 1) + 1 : f[i] \in Int
  BY <1>1
<1>3. SumTo(f, a) = SumTo(f, a - 1) + f[a]
  BY <1>1, <1>2, SumNext
<1>4. \A i \in 1 .. b - 1 : f[i] \in Nat
  OBVIOUS
<1>5. b - 1 \in 0 .. b - 1 /\ a - 1 \in 0 .. b - 1
  OBVIOUS
<1>6. \A m \in 0 .. b - 1 : SumTo(f, m) \in Nat /\ SumTo(f, m) <= SumTo(f, b - 1)
  BY <1>1, <1>4, <1>5, SumGrows
<1>7. SumTo(f, a) <= SumTo(f, b - 1) /\ SumTo(f, a - 1) \in Nat /\ SumTo(f, b - 1) \in Nat
  BY <1>1, <1>5, <1>6
<1> QED BY <1>3, <1>7

LEMMA IntervalsCover ==
  ASSUME NEW f, NEW n \in Nat, \A i \in 1 .. n : f[i] \in Nat,
         NEW x \in Nat, x < SumTo(f, n)
  PROVE  \E i \in 1 .. n :
           /\ SumTo(f, i - 1) \in Nat /\ SumTo(f, i - 1) <= x
           /\ x < SumTo(f, i - 1) + f[i]
<1> DEFINE At(i) == /\ SumTo(f, i - 1) \in Nat /\ SumTo(f, i - 1) <= x
                    /\ x < SumTo(f, i - 1) + f[i]
           S == {m \in Nat : m <= n /\ x < SumTo(f, m) => \E i \in 1 .. n : At(i)}
<1>1. 0 \in S
  BY SumZero
<1>2. ASSUME NEW m \in Nat, m \in S PROVE m + 1 \in S
  <2> SUFFICES ASSUME m + 1 <= n, x < SumTo(f, m + 1) PROVE \E i \in 1 .. n : At(i)
    OBVIOUS
  <2>1. CASE x < SumTo(f, m)
    BY <1>2, <2>1
  <2>2. CASE ~(x < SumTo(f, m))
    <3>1. \A i \in 1 .. m + 1 : f[i] \in Int
      OBVIOUS
    <3>2. SumTo(f, m + 1) = SumTo(f, m) + f[m + 1]
      BY <3>1, SumNext
    <3>3. SumTo(f, m) \in Nat
      BY SumNat
    <3>4. m + 1 \in 1 .. n /\ (m + 1) - 1 = m
      OBVIOUS
    <3>5. At(m + 1)
      BY <2>2, <3>2, <3>3, <3>4
    <3> QED BY <3>4, <3>5
  <2> QED BY <2>1, <2>2
<1>3. n \in S
  <2> HIDE DEF S
  <2> QED BY <1>1, <1>2, Inductive
<1> QED BY <1>3

LEMMA Starts ==
  ASSUME base \in Nat, NEW sizes \in Seq(Nat \ {0}), NEW order \in Orders(sizes)
  PROVE  /\ StartIds(sizes, order) \in Seq(Nat)
         /\ Len(StartIds(sizes, order)) = Len(sizes)
         /\ DOMAIN StartIds(sizes, order) = 1 .. Len(sizes)
         /\ \A i \in 1 .. Len(sizes) :
              StartIds(sizes, order)[order[i]] = base + SumTo(Sorted(sizes, order), i - 1)
<1> DEFINE n == Len(sizes)
           s == Sorted(sizes, order)
           start == StartIds(sizes, order)
           At(k) == CHOOSE i \in 1 .. n : order[i] = k
<1>1. /\ n \in Nat /\ DOMAIN sizes = 1 .. n /\ Permutes(order, n)
      /\ \A i \in 1 .. n : s[i] \in Nat
  BY SortedFacts
<1>2. start = [k \in 1 .. n |-> base + SumTo(s, At(k) - 1)]
  BY <1>1 DEF StartIds, Sorted
<1>3. ASSUME NEW k \in 1 .. n PROVE At(k) \in 1 .. n /\ order[At(k)] = k
  <2>1. \E i \in 1 .. n : order[i] = k
    BY <1>1, PermutationHits
  <2> QED BY <2>1, Zenon
<1> HIDE DEF n, s, start, At
<1>4. \A i \in 0 .. n : SumTo(s, i) \in Nat
  <2>1. n \in 0 .. n
    BY <1>1
  <2> QED BY <1>1, <2>1, SumGrows
<1>5. \A k \in 1 .. n : start[k] \in Nat
  <2> TAKE k \in 1 .. n
  <2>1. At(k) - 1 \in 0 .. n
    BY <1>1, <1>3
  <2>2. SumTo(s, At(k) - 1) \in Nat
    BY <1>4, <2>1
  <2> QED BY <1>2, <2>2
<1>6. start \in [1 .. n -> Nat]
  BY <1>2, <1>5
<1>7. \A i \in 1 .. n : start[order[i]] = base + SumTo(s, i - 1)
  <2> TAKE i \in 1 .. n
  <2>1. order[i] \in 1 .. n /\ At(order[i]) = i
    BY <1>1, <1>3 DEF Permutes
  <2> QED BY <1>2, <2>1
<1>8. start \in Seq(Nat) /\ Len(start) = n /\ DOMAIN start = 1 .. n
  BY <1>1, <1>6
<1> QED BY <1>7, <1>8 DEF n, s, start

LEMMA Shifted ==
  ASSUME NEW b \in Nat, NEW x \in Nat, NEW y \in Nat, NEW z \in Nat, x + z <= y
  PROVE  (b + x) + z <= b + y
OBVIOUS

\* No two partitions overlap.
LEMMA StartsApart ==
  ASSUME base \in Nat, NEW sizes \in Seq(Nat \ {0}), NEW order \in Orders(sizes),
         NEW j \in 1 .. Len(sizes), NEW k \in 1 .. Len(sizes), j # k
  PROVE  LET start == StartIds(sizes, order) IN
         start[j] + sizes[j] <= start[k] \/ start[k] + sizes[k] <= start[j]
<1> DEFINE n == Len(sizes)
           s == Sorted(sizes, order)
           start == StartIds(sizes, order)
<1>1. /\ n \in Nat /\ Permutes(order, n)
      /\ \A i \in 1 .. n : order[i] \in 1 .. n /\ s[i] = sizes[order[i]] /\ s[i] \in Nat
  BY SortedFacts
<1>2. \A i \in 1 .. n : start[order[i]] = base + SumTo(s, i - 1)
  BY Starts
<1> HIDE DEF s, start, n
<1>3. ASSUME NEW a \in 1 .. n, NEW b \in 1 .. n, a < b
      PROVE  start[order[a]] + sizes[order[a]] <= start[order[b]]
  <2> DEFINE x == SumTo(s, a - 1)
             y == SumTo(s, b - 1)
             z == s[a]
  <2>1. \A i \in 1 .. n : s[i] \in Nat
    BY <1>1
  <2>2. x \in Nat /\ y \in Nat /\ x + z <= y
    BY <1>1, <1>3, <2>1, IntervalsApart
  <2>3. z \in Nat /\ sizes[order[a]] = z
    BY <1>1
  <2>4. start[order[a]] = base + x /\ start[order[b]] = base + y
    BY <1>2
  <2> HIDE DEF x, y, z
  <2>5. (base + x) + z <= base + y
    <3>1. base \in Nat
      OBVIOUS
    <3> QED BY ONLY <2>2, <2>3, <3>1, Shifted
  <2> QED BY ONLY <2>3, <2>4, <2>5
<1>4. PICK a \in 1 .. n : order[a] = j
  BY <1>1, PermutationHits DEF n
<1>5. PICK b \in 1 .. n : order[b] = k
  BY <1>1, PermutationHits DEF n
<1>6. a < b \/ b < a
  <2>1. a # b
    BY <1>4, <1>5
  <2>2. a \in Int /\ b \in Int
    BY <1>1
  <2> QED BY ONLY <2>1, <2>2
<1> QED BY <1>3, <1>4, <1>5, <1>6 DEF start

\* Each warp after the default partition's is some partition's.
LEMMA StartsCover ==
  ASSUME base \in Nat, NEW sizes \in Seq(Nat \ {0}), NEW order \in Orders(sizes),
         NEW w \in base .. base + Total(sizes) - 1
  PROVE  LET start == StartIds(sizes, order) IN
         \E k \in 1 .. Len(sizes) : w \in start[k] .. start[k] + sizes[k] - 1
<1> DEFINE n == Len(sizes)
           s == Sorted(sizes, order)
           start == StartIds(sizes, order)
<1>1. /\ n \in Nat /\ SumTo(s, n) = Total(sizes)
      /\ \A i \in 1 .. n : order[i] \in 1 .. n /\ s[i] = sizes[order[i]] /\ s[i] \in Nat
  BY SortedFacts
<1>2. \A i \in 1 .. n : start[order[i]] = base + SumTo(s, i - 1)
  BY Starts
<1> HIDE DEF s, start, n
<1>3. Total(sizes) \in Nat
  BY <1>1, SumNat
<1>4. w - base \in Nat /\ w - base < SumTo(s, n) /\ w \in Int
  BY <1>1, <1>3
<1>5. PICK i \in 1 .. n :
        /\ SumTo(s, i - 1) \in Nat /\ SumTo(s, i - 1) <= w - base
        /\ w - base < SumTo(s, i - 1) + s[i]
  BY <1>1, <1>4, IntervalsCover
<1> DEFINE x == SumTo(s, i - 1)
           z == s[i]
<1>6. /\ start[order[i]] = base + x /\ sizes[order[i]] = z /\ order[i] \in 1 .. n
      /\ x \in Nat /\ z \in Nat /\ x <= w - base /\ w - base < x + z
  BY <1>1, <1>2, <1>5
<1> HIDE DEF x, z
<1>7. w \in base + x .. (base + x) + (z - 1)
  BY <1>4, <1>6
<1>8. w \in start[order[i]] .. start[order[i]] + (sizes[order[i]] - 1)
  BY <1>6, <1>7
<1> QED BY <1>6, <1>8 DEF start, n

Has(start, sizes, k, w) == w \in start[k] .. start[k] + sizes[k] - 1
Holders(start, sizes, w) == {k \in 1 .. Len(sizes) : w \in start[k] .. start[k] + sizes[k] - 1}

\* A number is not in two ranges of which one ends before the other begins.
LEMMA RangesApart ==
  ASSUME NEW a \in Nat, NEW m \in Nat, NEW b \in Nat, NEW l \in Nat, NEW w,
         w \in a .. a + m - 1, w \in b .. b + l - 1,
         a + m <= b \/ b + l <= a
  PROVE  FALSE
OBVIOUS

\* Exactly one partition has each of the extra warps.
LEMMA LayoutCovers ==
  ASSUME base \in Nat, NEW sizes \in Seq(Nat \ {0}), NEW order \in Orders(sizes),
         NEW w \in base .. base + Total(sizes) - 1
  PROVE  Cardinality(Holders(StartIds(sizes, order), sizes, w)) = 1
<1> DEFINE start == StartIds(sizes, order)
           T == {k \in 1 .. Len(sizes) : w \in start[k] .. start[k] + sizes[k] - 1}
<1>1. PICK k \in 1 .. Len(sizes) : w \in start[k] .. start[k] + sizes[k] - 1
  BY StartsCover
<1>2. /\ start \in Seq(Nat) /\ DOMAIN start = 1 .. Len(sizes)
      /\ \A j \in 1 .. Len(sizes) : start[j] \in Nat /\ sizes[j] \in Nat \ {0}
  <2>1. start \in Seq(Nat) /\ Len(start) = Len(sizes)
    BY Starts
  <2> HIDE DEF start
  <2>2. DOMAIN start = 1 .. Len(sizes) /\ \A j \in 1 .. Len(sizes) : start[j] \in Nat
    BY <2>1, SeqFacts
  <2>3. \A j \in 1 .. Len(sizes) : sizes[j] \in Nat \ {0}
    BY SeqFacts
  <2> QED BY <2>1, <2>2, <2>3
<1>3. ASSUME NEW j \in T PROVE j = k
  <2> SUFFICES ASSUME j # k PROVE FALSE
    OBVIOUS
  <2>1. start[j] + sizes[j] <= start[k] \/ start[k] + sizes[k] <= start[j]
    BY StartsApart
  <2>2. j \in 1 .. Len(sizes) /\ w \in start[j] .. start[j] + sizes[j] - 1
    BY <1>3
  <2> HIDE DEF start, T
  <2>3. /\ start[j] \in Nat /\ sizes[j] \in Nat
        /\ start[k] \in Nat /\ sizes[k] \in Nat
    BY <1>2, <2>2
  <2> QED BY <1>1, <2>1, <2>2, <2>3, RangesApart
<1>4. T = {k}
  BY <1>1, <1>3
<1> HIDE DEF T
<1>5. Cardinality(T) = 1
  BY <1>4, FS_Singleton
<1> QED BY <1>5 DEF T, Holders

LEMMA NextMultiple ==
  ASSUME NEW n \in Nat \ {0}, NEW x \in Int, NEW y \in Int, NEW z \in Int,
         x < y, y <= z, y % n = 0
  PROVE  x \div n # z \div n
<1>1. x \div n < y \div n
  OBVIOUS
<1>2. y \div n <= z \div n
  OBVIOUS
<1> QED BY <1>1, <1>2

\* n partitions, one beside the other.
Apart(start, sizes, n) ==
  /\ DOMAIN start = 1 .. n
  /\ \A i \in 1 .. n : start[i] \in Nat /\ sizes[i] \in Nat /\ sizes[i] # 0
  /\ \A i, h \in 1 .. n : i # h =>
       start[i] + sizes[i] <= start[h] \/ start[h] + sizes[h] <= start[i]

\* Warps of one hardware group belong to partitions of one group.
LEMMA LayoutAgrees ==
  ASSUME NEW n \in Nat, NEW start, NEW sizes, Apart(start, sizes, n),
         NEW j \in 1 .. n, NEW k \in 1 .. n, start[j] <= start[k],
         NEW u, Has(start, sizes, j, u), NEW v, Has(start, sizes, k, v)
  PROVE  u \div WarpsPerGroup = v \div WarpsPerGroup => GroupOf(start, j) = GroupOf(start, k)
<1>0. /\ DOMAIN start = 1 .. n
      /\ \A i \in 1 .. n : start[i] \in Nat /\ sizes[i] \in Nat /\ sizes[i] # 0
      /\ \A i, h \in 1 .. n : i # h =>
           start[i] + sizes[i] <= start[h] \/ start[h] + sizes[h] <= start[i]
      /\ u \in start[j] .. start[j] + sizes[j] - 1 /\ v \in start[k] .. start[k] + sizes[k] - 1
  BY DEF Apart, Has
<1>1. WarpsPerGroup \in Nat \ {0}
  BY WarpsAssumption
<1>2. ASSUME NEW h \in 1 .. n, start[j] < start[h], start[h] <= start[k]
      PROVE  start[h] \in Int /\ u \in Int /\ v \in Int /\ u < start[h] /\ start[h] <= v
  <2>1. start[j] + sizes[j] <= start[h] \/ start[h] + sizes[h] <= start[j]
    BY <1>0, <1>2
  <2>2. /\ start[h] \in Nat /\ start[j] \in Nat /\ start[k] \in Nat
        /\ sizes[h] \in Nat /\ sizes[j] \in Nat /\ sizes[k] \in Nat /\ sizes[h] # 0
    BY <1>0
  <2>3. u \in Int /\ u < start[j] + sizes[j]
    <3>1. u \in start[j] .. start[j] + sizes[j] - 1
      BY <1>0
    <3> QED BY <2>2, <3>1
  <2>4. v \in Int /\ start[k] <= v
    BY <1>0, <2>2
  <2>5. start[j] + sizes[j] <= start[h]
    BY <1>2, <2>1, <2>2
  <2>6. start[j] + sizes[j] \in Int
    BY <2>2
  <2> QED BY <1>2, <2>2, <2>3, <2>4, <2>5, <2>6
<1> SUFFICES ASSUME u \div WarpsPerGroup = v \div WarpsPerGroup
             PROVE  GroupOf(start, j) = GroupOf(start, k)
  OBVIOUS
<1>3. \A h \in 1 .. n : start[h] % WarpsPerGroup = 0 =>
        (start[h] <= start[j] <=> start[h] <= start[k])
  <2> SUFFICES ASSUME NEW h \in 1 .. n, start[h] % WarpsPerGroup = 0
               PROVE  start[h] <= start[j] <=> start[h] <= start[k]
    OBVIOUS
  <2>1. start[h] \in Nat /\ start[j] \in Nat /\ start[k] \in Nat
    BY <1>0
  <2>2. ~(start[j] < start[h] /\ start[h] <= start[k])
    BY <1>1, <1>2, NextMultiple
  <2> QED BY <2>1, <2>2
<1>4. {h \in Heads(start) : start[h] <= start[j]} = {h \in Heads(start) : start[h] <= start[k]}
  BY <1>0, <1>3, Zenon DEF Heads
<1> QED BY <1>4 DEF GroupOf

-----------------------------------------------------------------------------
(* Warp groups and their registers *)

LEMMA GroupInRange ==
  ASSUME NEW n \in Nat, NEW start, DOMAIN start = 1 .. n, NEW k \in 1 .. n,
         NEW h \in 1 .. n, start[h] % WarpsPerGroup = 0, start[h] <= start[k]
  PROVE  /\ Cardinality(Heads(start)) \in Nat
         /\ GroupOf(start, k) \in 1 .. Cardinality(Heads(start))
<1> DEFINE H == Heads(start)
           T == {j \in H : start[j] <= start[k]}
<1>1. IsFiniteSet(1 .. n) /\ H \in SUBSET (1 .. n)
  BY FS_Interval DEF Heads
<1>2. IsFiniteSet(H)
  BY <1>1, FS_Subset
<1>3. T \in SUBSET H /\ h \in T
  BY DEF Heads
<1> HIDE DEF H, T
<1>4. IsFiniteSet(T) /\ Cardinality(T) <= Cardinality(H)
  BY <1>2, <1>3, FS_Subset
<1>5. Cardinality(T) \in Nat /\ Cardinality(H) \in Nat
  BY <1>2, <1>4, FS_CardinalityType
<1>6. Cardinality(T) # 0
  BY <1>3, <1>4, FS_EmptySet
<1>7. GroupOf(start, k) = Cardinality(T)
  BY DEF GroupOf, T, H
<1> QED BY <1>4, <1>5, <1>6, <1>7 DEF H

\* No summand exceeds the sum.
LEMMA SumBounds ==
  ASSUME NEW f, NEW n \in Nat, \A i \in 1 .. n : f[i] \in Nat, NEW k \in 1 .. n
  PROVE  SumTo(f, n) \in Nat /\ f[k] <= SumTo(f, n)
<1>1. k - 1 \in Nat /\ (k - 1) + 1 = k /\ n \in 0 .. n /\ k \in 0 .. n
  OBVIOUS
<1>2. \A i \in 1 .. (k - 1) + 1 : f[i] \in Int
  OBVIOUS
<1>3. SumTo(f, k) = SumTo(f, k - 1) + f[k]
  BY <1>1, <1>2, SumNext
<1>4. SumTo(f, k - 1) \in Nat
  BY <1>1, SumNat
<1>5. SumTo(f, k) \in Nat /\ SumTo(f, k) <= SumTo(f, n)
  BY <1>1, SumGrows
<1>6. SumTo(f, n) \in Nat
  BY SumNat
<1> QED BY <1>3, <1>4, <1>5, <1>6

LEMMA InEights ==
  ASSUME NEW r \in Nat PROVE CeilDiv(r, 8) * 8 \in Nat /\ r <= CeilDiv(r, 8) * 8
BY DEF CeilDiv

\* A group has what each of its partitions requests.
LEMMA GroupRegsSuffice ==
  ASSUME NEW n \in Nat, NEW start, DOMAIN start = 1 .. n,
         NEW req, \A i \in 1 .. n : req[i] \in Nat, NEW g
  PROVE  /\ GroupRegs(req, start, g) \in Nat
         /\ \A k \in 1 .. n : GroupOf(start, k) = g => req[k] <= GroupRegs(req, start, g)
<1> DEFINE c == [i \in 1 .. n |-> CeilDiv(req[i], 8) * 8]
           T == {0} \cup {CeilDiv(req[k], 8) * 8 : k \in Members(start, g)}
           N == SumTo(c, n)
<1>1. \A i \in 1 .. n : c[i] \in Nat /\ req[i] <= c[i] /\ c[i] = CeilDiv(req[i], 8) * 8
  BY InEights
<1> HIDE DEF c
<1>2. N \in Nat /\ \A i \in 1 .. n : c[i] <= N
  BY <1>1, SumNat, SumBounds
<1>3. Members(start, g) = {k \in 1 .. n : GroupOf(start, k) = g}
  BY DEF Members
<1>4. T = {0} \cup {c[k] : k \in Members(start, g)}
  BY <1>1, <1>3
<1> HIDE DEF N, T
<1>5. T \in SUBSET (0 .. N) /\ T # {}
  BY <1>1, <1>2, <1>3, <1>4
<1>6. Max(T) \in T /\ \A x \in T : x <= Max(T)
  BY <1>2, <1>5, MaxIsMember
<1>7. GroupRegs(req, start, g) = Max(T)
  BY DEF GroupRegs, T
<1>8. Max(T) \in Nat
  <2>1. \A x \in T : x \in Nat
    BY <1>2, <1>5
  <2> QED BY <1>6, <2>1
<1>9. ASSUME NEW k \in 1 .. n, GroupOf(start, k) = g PROVE req[k] <= Max(T)
  <2>1. c[k] \in T
    BY <1>3, <1>4, <1>9
  <2>2. c[k] <= Max(T) /\ req[k] <= c[k] /\ c[k] \in Nat /\ req[k] \in Nat
    BY <1>1, <1>6, <2>1
  <2> QED BY <1>8, <2>2
<1> QED BY <1>7, <1>8, <1>9

\* Each k of 1 .. n is in the group G[k] of 1 .. m and counts c[G[k]] times z[k]:
\* f does so k by k, byGroup group by group.
Regroups(m, n, c, z, G, sel, byGroup, f) ==
  /\ \A g \in 1 .. m : c[g] \in Int /\ byGroup[g] = c[g] * SumTo(sel[g], n)
  /\ \A k \in 1 .. n : z[k] \in Int /\ G[k] \in 1 .. m /\ f[k] = c[G[k]] * z[k]
  /\ \A g \in 1 .. m : \A k \in 1 .. n : sel[g][k] = IF G[k] = g THEN z[k] ELSE 0

\* Summing by group and by member is the same.
LEMMA SumRegroups ==
  ASSUME NEW m \in Nat, NEW n \in Nat, NEW c, NEW z, NEW G, NEW sel, NEW byGroup, NEW f,
         Regroups(m, n, c, z, G, sel, byGroup, f)
  PROVE  SumTo(byGroup, m) = SumTo(f, n)
<1>0. /\ \A g \in 1 .. m : c[g] \in Int /\ byGroup[g] = c[g] * SumTo(sel[g], n)
      /\ \A k \in 1 .. n : z[k] \in Int /\ G[k] \in 1 .. m /\ f[k] = c[G[k]] * z[k]
      /\ \A g \in 1 .. m : \A k \in 1 .. n : sel[g][k] = IF G[k] = g THEN z[k] ELSE 0
  BY DEF Regroups
<1> DEFINE Groupwise(p) == [g \in 1 .. m |-> c[g] * SumTo(sel[g], p)]
           S == {p \in Nat : p <= n => SumTo(Groupwise(p), m) = SumTo(f, p)}
<1>1. \A g \in 1 .. m : \A k \in 1 .. n : sel[g][k] \in Int
  BY <1>0
<1>2. \A k \in 1 .. n : f[k] \in Int /\ f[k] = c[G[k]] * z[k]
  BY <1>0
<1>3. ASSUME NEW p \in 0 .. n PROVE \A g \in 1 .. m :
        SumTo(sel[g], p) \in Int /\ Groupwise(p)[g] \in Int
        /\ Groupwise(p)[g] = c[g] * SumTo(sel[g], p)
  <2>1. \A g \in 1 .. m : SumTo(sel[g], p) \in Int
    BY <1>1, <1>3, SumInt
  <2> QED BY <1>0, <2>1
<1>4. 0 \in S
  <2>1. \A g \in 1 .. m : Groupwise(0)[g] = 0
    BY <1>0, SumZero
  <2> HIDE DEF Groupwise
  <2>2. SumTo(Groupwise(0), m) = 0
    BY <2>1, SumNone
  <2> QED BY <2>2, SumZero
<1> HIDE DEF Groupwise
<1>5. ASSUME NEW p \in Nat, p \in S PROVE p + 1 \in S
  <2> SUFFICES ASSUME p + 1 <= n PROVE SumTo(Groupwise(p + 1), m) = SumTo(f, p + 1)
    OBVIOUS
  <2> DEFINE d == [g \in 1 .. m |-> c[g] * sel[g][p + 1]]
             a == G[p + 1]
  <2>1. p + 1 \in 1 .. n /\ a \in 1 .. m /\ z[p + 1] \in Int
    BY <1>0
  <2>2. \A g \in 1 .. m : d[g] = (IF g = a THEN c[g] * z[p + 1] ELSE 0) /\ d[g] \in Int
    BY <1>0, <2>1
  <2>3. \A g \in 1 .. m : d[g] = c[g] * sel[g][p + 1]
    OBVIOUS
  <2> HIDE DEF d, a
  <2>4. SumTo(d, m) = d[a]
    BY <2>1, <2>2, SumOne
  <2>5. d[a] = f[p + 1]
    BY <1>2, <2>1, <2>2 DEF a
  <2>6. \A g \in 1 .. m :
          Groupwise(p)[g] \in Int /\ d[g] \in Int /\ Groupwise(p + 1)[g] = Groupwise(p)[g] + d[g]
    <3> TAKE g \in 1 .. m
    <3>1. \A k \in 1 .. p + 1 : sel[g][k] \in Int
      BY <1>1
    <3>2. SumTo(sel[g], p + 1) = SumTo(sel[g], p) + sel[g][p + 1] /\ SumTo(sel[g], p) \in Int
      BY <3>1, SumNext
    <3>3. sel[g][p + 1] \in Int /\ c[g] \in Int
      BY <1>0, <1>1, <2>1
    <3>4. p \in 0 .. n /\ p + 1 \in 0 .. n
      OBVIOUS
    <3>5. /\ Groupwise(p)[g] = c[g] * SumTo(sel[g], p) /\ Groupwise(p)[g] \in Int
          /\ Groupwise(p + 1)[g] = c[g] * SumTo(sel[g], p + 1)
      BY <1>3, <3>4
    <3>6. c[g] * (SumTo(sel[g], p) + sel[g][p + 1])
            = c[g] * SumTo(sel[g], p) + c[g] * sel[g][p + 1]
      BY <3>2, <3>3
    <3> QED BY <2>2, <2>3, <3>2, <3>5, <3>6
  <2>7. SumTo(Groupwise(p + 1), m) = SumTo(Groupwise(p), m) + SumTo(d, m)
    BY <2>6, SumAdds
  <2>8. SumTo(f, p + 1) = SumTo(f, p) + f[p + 1]
    <3>1. \A k \in 1 .. p + 1 : f[k] \in Int
      BY <1>2
    <3> QED BY <3>1, SumNext
  <2>9. SumTo(Groupwise(p), m) = SumTo(f, p)
    BY <1>5
  <2> QED BY <2>4, <2>5, <2>7, <2>8, <2>9
<1>6. SumTo(Groupwise(n), m) = SumTo(f, n)
  <2> HIDE DEF S
  <2>1. n \in S
    BY <1>4, <1>5, Inductive
  <2> QED BY <2>1 DEF S
<1>7. SumTo(byGroup, m) = SumTo(Groupwise(n), m)
  <2>1. n \in 0 .. n
    OBVIOUS
  <2>2. \A g \in 1 .. m : Groupwise(n)[g] \in Int /\ byGroup[g] = Groupwise(n)[g]
    BY <1>0, <1>3, <2>1
  <2> QED BY <2>2, SumAgrees
<1> QED BY <1>6, <1>7

\* Before the default partition takes what is left: the registers at launch but
\* for those of the partitions.
Spent(op, start) ==
  [k \in 1 .. Len(op.sizes) |-> GroupRegs(op.req, start, GroupOf(start, k)) * op.sizes[k]]

\* What the partitions have at launch beyond that.
Kept(op, start) ==
  [k \in 1 .. Len(op.sizes) |->
     (LaunchRegs - GroupRegs(op.req, start, GroupOf(start, k))) * op.sizes[k]]

\* What Budget computes group by group, counted partition by partition.
LEMMA BudgetByPartition ==
  ASSUME LaunchRegs \in Int, NEW op, NEW start, NEW n \in Nat, NEW m \in Nat,
         n = Len(op.sizes), DOMAIN start = 1 .. n, m = Cardinality(Heads(start)),
         \A k \in 1 .. n : op.sizes[k] \in Int /\ GroupOf(start, k) \in 1 .. m,
         \A g \in 1 .. m : GroupRegs(op.req, start, g) \in Int
  PROVE  Budget(op, start) = LaunchRegs * base + SumTo(Kept(op, start), n)
<1> DEFINE G == [k \in 1 .. n |-> GroupOf(start, k)]
           c == [g \in 1 .. m |-> LaunchRegs - GroupRegs(op.req, start, g)]
           sel == [g \in 1 .. m |->
                     [k \in 1 .. n |-> IF GroupOf(start, k) = g THEN op.sizes[k] ELSE 0]]
           Group(g) == [k \in DOMAIN start |-> IF GroupOf(start, k) = g THEN op.sizes[k] ELSE 0]
           byGroup == [g \in 1 .. m |->
                         (LaunchRegs - GroupRegs(op.req, start, g)) * Total(Group(g))]
<1>1. Budget(op, start) = LaunchRegs * base + Total(byGroup)
  BY DEF Budget
<1>2. \A g \in 1 .. m : Total(Group(g)) = SumTo(sel[g], n)
  <2> TAKE g \in 1 .. m
  <2>1. Group(g) = sel[g]
    OBVIOUS
  <2>2. Len(sel[g]) = n
    OBVIOUS
  <2> QED BY <2>1, <2>2 DEF Total
<1>3. \A g \in 1 .. m : c[g] \in Int /\ byGroup[g] = c[g] * SumTo(sel[g], n)
  BY <1>2
<1>4. Total(byGroup) = SumTo(byGroup, m)
  <2>1. Len(byGroup) = m
    OBVIOUS
  <2> QED BY <2>1 DEF Total
<1>5. \A k \in 1 .. n : op.sizes[k] \in Int /\ G[k] \in 1 .. m
                        /\ Kept(op, start)[k] = c[G[k]] * op.sizes[k]
  BY DEF Kept
<1>6. \A g \in 1 .. m : \A k \in 1 .. n : sel[g][k] = IF G[k] = g THEN op.sizes[k] ELSE 0
  OBVIOUS
<1> HIDE DEF Group, byGroup, c, sel, G
<1>7. Regroups(m, n, c, op.sizes, G, sel, byGroup, Kept(op, start))
  BY <1>3, <1>5, <1>6, Zenon DEF Regroups
<1>8. SumTo(byGroup, m) = SumTo(Kept(op, start), n)
  BY <1>7, SumRegroups
<1> QED BY <1>1, <1>4, <1>8

\* What is left of c times z when a part of it is spent, in each of the n places.
Splits(c, z, part, spent, n) ==
  \A k \in 1 .. n :
    /\ z[k] \in Int /\ part[k] \in Int /\ spent[k] \in Int
    /\ c * z[k] = part[k] + spent[k]

LEMMA SumSplits ==
  ASSUME NEW c \in Int, NEW z, NEW part, NEW spent, NEW n \in Nat,
         Splits(c, z, part, spent, n)
  PROVE  /\ SumTo(part, n) \in Int /\ SumTo(spent, n) \in Int
         /\ SumTo(part, n) = c * SumTo(z, n) - SumTo(spent, n)
<1> DEFINE whole == [k \in 1 .. n |-> c * z[k]]
<1>1. \A k \in 1 .. n : whole[k] = c * z[k]
  OBVIOUS
<1> HIDE DEF whole
<1>2. SumTo(whole, n) = SumTo(part, n) + SumTo(spent, n)
  <2>1. \A k \in 1 .. n : part[k] \in Int /\ spent[k] \in Int /\ whole[k] = part[k] + spent[k]
    BY <1>1 DEF Splits
  <2> QED BY <2>1, SumAdds
<1>3. SumTo(whole, n) = c * SumTo(z, n)
  <2>1. \A k \in 1 .. n : z[k] \in Int /\ whole[k] = c * z[k]
    BY <1>1 DEF Splits
  <2> QED BY <2>1, SumScales
<1>4. SumTo(part, n) \in Int /\ SumTo(spent, n) \in Int /\ SumTo(z, n) \in Int
  BY SumInt DEF Splits
<1>5. c * SumTo(z, n) \in Int
  BY <1>4
<1> QED BY <1>2, <1>3, <1>4, <1>5

\* A product, split in two shares.
LEMMA Shares ==
  ASSUME NEW c \in Int, NEW r \in Int, NEW z \in Int
  PROVE  (c - r) * z \in Int /\ r * z \in Int /\ c * z = (c - r) * z + r * z
OBVIOUS

LEMMA BudgetIs ==
  ASSUME base \in Nat, base % WarpsPerGroup = 0, LaunchRegs \in Int,
         NEW op, op.sizes \in Seq(Nat \ {0}), op.sizes # <<>>,
         op.req \in Seq(Nat), Len(op.req) = Len(op.sizes), NEW order \in Orders(op.sizes)
  PROVE  LET start == StartIds(op.sizes, order) IN
         /\ SumTo(Spent(op, start), Len(op.sizes)) \in Int
         /\ Total(op.sizes) \in Nat
         /\ Budget(op, start)
              = LaunchRegs * base + (LaunchRegs * Total(op.sizes)
                                       - SumTo(Spent(op, start), Len(op.sizes)))
<1> DEFINE n == Len(op.sizes)
           z == op.sizes
           start == StartIds(op.sizes, order)
           m == Cardinality(Heads(start))
           part == Kept(op, start)
           spent == Spent(op, start)
<1>1. /\ n \in Nat \ {0} /\ DOMAIN op.req = 1 .. n
      /\ \A k \in 1 .. n : z[k] \in Nat /\ op.req[k] \in Nat
  <2>1. n \in Nat \ {0} /\ \A k \in 1 .. n : z[k] \in Nat \ {0}
    BY SeqFacts
  <2>2. op.req \in Seq(Nat) /\ Len(op.req) = n
    OBVIOUS
  <2>3. DOMAIN op.req = 1 .. n /\ \A k \in 1 .. n : op.req[k] \in Nat
    BY ONLY <2>2, SeqFacts
  <2> QED BY <2>1, <2>3
<1>2. /\ DOMAIN start = 1 .. n /\ \A k \in 1 .. n : start[k] \in Nat
      /\ \A i \in 1 .. n : start[order[i]] = base + SumTo(Sorted(op.sizes, order), i - 1)
  <2>1. /\ start \in Seq(Nat) /\ Len(start) = n
        /\ \A i \in 1 .. n : start[order[i]] = base + SumTo(Sorted(op.sizes, order), i - 1)
    BY Starts
  <2> HIDE DEF start
  <2>2. DOMAIN start = 1 .. n /\ \A k \in 1 .. n : start[k] \in Nat
    BY ONLY <2>1, SeqFacts
  <2> QED BY <2>1, <2>2
<1>3. PICK h \in 1 .. n : start[h] % WarpsPerGroup = 0 /\ \A k \in 1 .. n : start[h] <= start[k]
  <2>1. /\ Permutes(order, n)
        /\ \A i \in 1 .. n : order[i] \in 1 .. n /\ Sorted(op.sizes, order)[i] \in Nat
    BY SortedFacts
  <2>2. 1 \in 1 .. n /\ 1 - 1 = 0
    BY <1>1
  <2>3. start[order[1]] = base + 0 /\ order[1] \in 1 .. n
    BY <1>2, <2>1, <2>2, SumZero
  <2>4. \A k \in 1 .. n : base <= start[k]
    <3> TAKE k \in 1 .. n
    <3>1. PICK i \in 1 .. n : order[i] = k
      BY <1>1, <2>1, PermutationHits
    <3>2. SumTo(Sorted(op.sizes, order), i - 1) \in Nat
      <4>1. i - 1 \in 0 .. n /\ n \in 0 .. n
        BY <1>1
      <4> QED BY <1>1, <2>1, <4>1, SumGrows
    <3> DEFINE x == SumTo(Sorted(op.sizes, order), i - 1)
    <3>3. start[k] = base + x /\ x \in Nat
      BY <1>2, <3>1, <3>2
    <3> HIDE DEF start, x
    <3> QED BY <3>3
  <2>5. start[order[1]] = base
    BY <2>3
  <2> QED BY <2>3, <2>4, <2>5
<1> HIDE DEF start
<1>4. \A k \in 1 .. n : m \in Nat /\ GroupOf(start, k) \in 1 .. m
  BY <1>1, <1>2, <1>3, GroupInRange
<1>5. \A g \in 1 .. m : GroupRegs(op.req, start, g) \in Nat
  BY <1>1, <1>2, GroupRegsSuffice
<1>6. m \in Nat
  BY <1>1, <1>4
<1> HIDE DEF n, z, m
<1>7. Budget(op, start) = LaunchRegs * base + SumTo(part, n)
  <2>1. \A k \in 1 .. n : op.sizes[k] \in Int /\ GroupOf(start, k) \in 1 .. m
    <3>1. \A k \in 1 .. n : op.sizes[k] \in Int
      BY <1>1 DEF z
    <3> QED BY ONLY <1>4, <3>1
  <2>2. \A g \in 1 .. m : GroupRegs(op.req, start, g) \in Int
    BY <1>5
  <2>3. n = Len(op.sizes) /\ m = Cardinality(Heads(start)) /\ n \in Nat
    BY <1>1 DEF n, m
  <2>4. DOMAIN start = 1 .. n
    BY <1>2
  <2> QED BY <1>6, <2>1, <2>2, <2>3, <2>4, BudgetByPartition
<1>8. \A k \in 1 .. n :
         /\ z[k] \in Int /\ part[k] \in Int /\ spent[k] \in Int
         /\ LaunchRegs * z[k] = part[k] + spent[k]
  <2> TAKE k \in 1 .. n
  <2> DEFINE r == GroupRegs(op.req, start, GroupOf(start, k))
  <2>1. r \in Nat
    BY <1>4, <1>5
  <2>2. part[k] = (LaunchRegs - r) * z[k] /\ spent[k] = r * z[k]
    BY DEF Spent, Kept, n, z
  <2> HIDE DEF r, spent, part
  <2>3. z[k] \in Int
    BY <1>1
  <2> DEFINE c == LaunchRegs
             y == z[k]
  <2>4. c \in Int /\ y \in Int
    BY <2>3
  <2> HIDE DEF c, y
  <2>5. (c - r) * y \in Int /\ r * y \in Int /\ c * y = (c - r) * y + r * y
    BY <2>1, <2>4, Shares
  <2> QED BY <2>2, <2>4, <2>5 DEF c, y
<1> HIDE DEF part, spent
<1>9. SumTo(z, n) \in Nat
  BY <1>1, SumNat
<1>10. /\ SumTo(part, n) \in Int /\ SumTo(spent, n) \in Int
       /\ SumTo(part, n) = LaunchRegs * SumTo(z, n) - SumTo(spent, n)
  <2>1. n \in Nat
    BY <1>1
  <2> HIDE DEF z
  <2>2. Splits(LaunchRegs, z, part, spent, n)
    BY <1>8 DEF Splits
  <2> QED BY <2>1, <2>2, SumSplits
<1>11. SumTo(z, n) = Total(op.sizes)
  BY DEF Total, z, n
<1> QED BY <1>7, <1>9, <1>10, <1>11 DEF spent, start, n

LEMMA ProductGrows ==
  ASSUME NEW x \in Int, NEW y \in Int, x <= y, NEW b \in Nat
  PROVE  x * b \in Int /\ y * b \in Int /\ x * b <= y * b
OBVIOUS

LEMMA ClampedProduct ==
  ASSUME NEW x \in Nat, NEW b \in Nat
  PROVE  Clamp(x) * b \in Int /\ x * b \in Int /\ Clamp(x) * b <= x * b
<1> DEFINE c == Clamp(x)
<1>1. c \in Int /\ c <= x
  BY DEF Clamp
<1> HIDE DEF c
<1>2. c * b \in Int /\ x * b \in Int /\ c * b <= x * b
  BY <1>1, ProductGrows
<1> QED BY <1>2 DEF c

LEMMA Quotient ==
  ASSUME NEW a \in Nat, NEW b \in Nat \ {0}
  PROVE  a \div b \in Nat /\ (a \div b) * b <= a /\ a < ((a \div b) + 1) * b
OBVIOUS

LEMMA EightsBelow ==
  ASSUME NEW x \in Nat
  PROVE  /\ RoundDown8(x) \in Nat /\ RoundDown8(x) <= x /\ x < RoundDown8(x) + 8
         /\ RoundDown8(x) % 8 = 0
BY DEF RoundDown8

LEMMA LeftoverFits ==
  ASSUME base \in Nat \ {0}, NEW op, NEW start, Budget(op, start) \in Int, Budget(op, start) > 0
  PROVE  Leftover(op, start) \in Nat /\ Leftover(op, start) * base <= Budget(op, start)
<1> DEFINE b == Budget(op, start)
           q == b \div base
<1>1. b \in Nat
  OBVIOUS
<1> HIDE DEF b
<1>2. q \in Nat /\ q * base <= b
  BY <1>1, Quotient
<1>3. Leftover(op, start) = RoundDown8(q)
  BY DEF Leftover, b
<1> HIDE DEF q
<1>4. RoundDown8(q) \in Nat /\ RoundDown8(q) <= q
  BY <1>2, EightsBelow
<1>5. RoundDown8(q) * base <= q * base /\ RoundDown8(q) * base \in Int /\ q * base \in Int
  BY <1>2, <1>4, ProductGrows
<1>6. RoundDown8(q) * base <= b
  BY <1>1, <1>2, <1>5
<1> QED BY <1>3, <1>4, <1>6 DEF b

\* The registers of the partitions of the sizes given when act has been handed out.
Given(act, sizes) == Total([k \in DOMAIN sizes |-> Clamp(act[k + 1]) * sizes[k]])

Requesting(op) ==
  /\ op.sizes \in Seq(Nat \ {0}) /\ op.sizes # <<>>
  /\ op.req \in Seq(Nat) /\ Len(op.req) = Len(op.sizes)

\* An op that is given registers: what is handed out has been there at launch, each
\* partition has what it requested, and the count of a partition is its group's.
LEMMA OpFits ==
  ASSUME base \in Nat \ {0}, base % WarpsPerGroup = 0, LaunchRegs \in Int,
         NEW op, Requesting(op), NEW order \in Orders(op.sizes),
         Assigned(op, StartIds(op.sizes, order))
  PROVE  LET start == StartIds(op.sizes, order)
             act == ActualRegs(op, start) IN
         /\ act \in Seq(Nat) /\ act # <<>>
         /\ \A k \in 1 .. Len(op.sizes) :
              /\ act[k + 1] = GroupRegs(op.req, start, GroupOf(start, k))
              /\ act[k + 1] >= op.req[k]
         /\ Clamp(act[1]) * base + Given(act, op.sizes) <= LaunchRegs * (base + Total(op.sizes))
<1> DEFINE n == Len(op.sizes)
           z == op.sizes
           start == StartIds(op.sizes, order)
           act == ActualRegs(op, start)
           left == Leftover(op, start)
           regs == [k \in 1 .. n |-> GroupRegs(op.req, start, GroupOf(start, k))]
           spent == Spent(op, start)
           given == [k \in DOMAIN op.sizes |-> Clamp(act[k + 1]) * op.sizes[k]]
           b == Budget(op, start)
           sum == SumTo(spent, n)
           t == Total(op.sizes)
<1>0. /\ op.sizes \in Seq(Nat \ {0}) /\ op.sizes # <<>>
      /\ op.req \in Seq(Nat) /\ Len(op.req) = Len(op.sizes)
  BY DEF Requesting
<1>1. /\ n \in Nat \ {0} /\ DOMAIN op.req = 1 .. n /\ DOMAIN op.sizes = 1 .. n
      /\ \A k \in 1 .. n : z[k] \in Nat /\ op.req[k] \in Nat
  <2>1. /\ n \in Nat \ {0} /\ DOMAIN op.sizes = 1 .. n
        /\ \A k \in 1 .. n : z[k] \in Nat \ {0}
    BY <1>0, SeqFacts
  <2>2. op.req \in Seq(Nat) /\ Len(op.req) = n
    BY <1>0
  <2>3. DOMAIN op.req = 1 .. n /\ \A k \in 1 .. n : op.req[k] \in Nat
    BY ONLY <2>2, SeqFacts
  <2> QED BY <2>1, <2>3
<1>2. sum \in Int /\ t \in Nat /\ b = LaunchRegs * base + (LaunchRegs * t - sum)
  BY <1>0, BudgetIs
<1>3. DOMAIN start = 1 .. n
  BY <1>0, Starts
<1>4. b > 0
  BY DEF Assigned
<1> HIDE DEF n, z, start, b, sum, t, spent
<1>5. b \in Int
  BY <1>2
<1>6. left \in Nat /\ left * base <= b
  BY <1>4, <1>5, LeftoverFits DEF b
<1>7. \A k \in 1 .. n :
        GroupRegs(op.req, start, GroupOf(start, k)) \in Nat
        /\ op.req[k] <= GroupRegs(op.req, start, GroupOf(start, k))
  BY <1>1, <1>3, GroupRegsSuffice
<1>8. regs \in Seq(Nat) /\ Len(regs) = n
  <2>1. regs \in [1 .. n -> Nat] /\ n \in Nat
    BY <1>1, <1>7
  <2> HIDE DEF regs
  <2> QED BY <2>1, IsSeq
<1>9. act = <<left>> \o regs
  BY <1>3 DEF ActualRegs
<1> HIDE DEF act, left
<1>10. /\ act \in Seq(Nat) /\ act # <<>> /\ act[1] = left
       /\ \A k \in 1 .. n : act[k + 1] = regs[k]
  <2> HIDE DEF regs
  <2>1. left \in Nat
    BY <1>6
  <2> QED BY ONLY <1>8, <1>9, <2>1, PutFirst
<1>11. \A k \in 1 .. n :
         /\ act[k + 1] = GroupRegs(op.req, start, GroupOf(start, k))
         /\ act[k + 1] \in Nat /\ act[k + 1] >= op.req[k]
  <2> TAKE k \in 1 .. n
  <2>1. act[k + 1] = GroupRegs(op.req, start, GroupOf(start, k))
    BY <1>10
  <2> QED BY <1>1, <1>7, <2>1
<1> HIDE DEF regs
<1>13. SumTo(given, n) <= sum
  <2>1. \A k \in 1 .. n : given[k] \in Int /\ spent[k] \in Int /\ given[k] <= spent[k]
    <3> TAKE k \in 1 .. n
    <3>1. /\ given[k] = Clamp(act[k + 1]) * z[k] /\ spent[k] = act[k + 1] * z[k]
          /\ z[k] \in Nat
      BY <1>1, <1>11 DEF Spent, spent, n, z
    <3>2. act[k + 1] \in Nat
      BY <1>11
    <3> HIDE DEF given
    <3> QED BY <3>1, <3>2, ClampedProduct
  <2>2. n \in Nat
    BY <1>1
  <2> HIDE DEF given
  <2> QED BY <2>1, <2>2, SumLeq DEF sum
<1>14. Total(given) = SumTo(given, n) /\ SumTo(given, n) \in Int
  <2>1. Len(given) = n
    BY <1>1
  <2>2. \A k \in 1 .. n : given[k] \in Int
    <3> TAKE k \in 1 .. n
    <3>1. given[k] = Clamp(act[k + 1]) * z[k] /\ z[k] \in Nat /\ act[k + 1] \in Nat
      BY <1>1, <1>11 DEF z
    <3> HIDE DEF given
    <3> QED BY <3>1, ClampedProduct
  <2>3. n \in Nat
    BY <1>1
  <2> HIDE DEF given
  <2> QED BY <2>1, <2>2, <2>3, SumInt DEF Total
<1> HIDE DEF given
<1>15. Clamp(left) * base <= left * base /\ Clamp(left) * base \in Int /\ left * base \in Int
  BY <1>1, <1>6, ClampedProduct
<1>16. LaunchRegs * (base + t) = LaunchRegs * base + LaunchRegs * t
  BY <1>2
<1>17. LaunchRegs * base \in Int /\ LaunchRegs * t \in Int
  BY <1>2
<1>18. Clamp(left) * base + Total(given) <= LaunchRegs * (base + t)
  BY <1>2, <1>5, <1>6, <1>13, <1>14, <1>15, <1>16, <1>17
<1> QED BY <1>10, <1>11, <1>18 DEF act, start, given, n, t, Given

-----------------------------------------------------------------------------
(* The extra warps *)

LEMMA ProductDivides ==
  ASSUME NEW q \in Nat, NEW w \in Nat \ {0} PROVE q * w \in Nat /\ (q * w) % w = 0
OBVIOUS

LEMMA MultipleIs ==
  ASSUME NEW x \in Nat, NEW w \in Nat \ {0}, x % w = 0
  PROVE  \E q \in Nat : x = q * w
<1>1. x \div w \in Nat /\ x = w * (x \div w) + (x % w)
  OBVIOUS
<1> DEFINE q == x \div w
<1>2. q \in Nat /\ x = w * q
  BY <1>1
<1> HIDE DEF q
<1> QED BY <1>2

\* Whole warp groups for m warps.
LEMMA WholeGroups ==
  ASSUME NEW m \in Nat
  PROVE  LET e == CeilDiv(m, WarpsPerGroup) * WarpsPerGroup IN
         /\ e \in Nat /\ e % WarpsPerGroup = 0 /\ m <= e /\ e < m + WarpsPerGroup
         /\ m % WarpsPerGroup = 0 => e = m
<1> DEFINE w == WarpsPerGroup
           q == CeilDiv(m, w)
           e == q * w
<1>1. w \in Nat \ {0} /\ m + w - 1 \in Nat
  BY WarpsAssumption
<1> HIDE DEF w
<1>2. q \in Nat /\ e <= m + w - 1 /\ m + w - 1 < (q + 1) * w
  BY <1>1, Quotient DEF CeilDiv
<1> HIDE DEF q
<1>3. (q + 1) * w = e + w /\ e \in Nat /\ e % w = 0
  <2>1. (q + 1) * w = q * w + w
    BY <1>1, <1>2
  <2> QED BY <1>1, <1>2, <2>1, ProductDivides
<1> HIDE DEF e
<1>4. m <= e /\ e < m + w
  BY <1>1, <1>2, <1>3
<1>5. ASSUME m % w = 0 PROVE e = m
  <2>1. PICK x \in Nat : m = x * w
    BY <1>1, <1>5, MultipleIs
  <2>2. PICK y \in Nat : e = y * w
    BY <1>1, <1>3, MultipleIs
  <2>3. (x + 1) * w = m + w
    BY <1>1, <2>1
  <2>4. ~(y < x) /\ ~(x + 1 <= y)
    <3>1. y < x => y * w <= x * w /\ y * w # x * w
      BY <1>1
    <3>2. x + 1 <= y => (x + 1) * w <= y * w
      BY <1>1, ProductGrows
    <3> QED BY <1>1, <1>3, <1>4, <2>1, <2>2, <2>3, <3>1, <3>2
  <2>5. x = y
    BY <2>4
  <2> QED BY <2>1, <2>2, <2>5
<1> QED BY <1>3, <1>4, <1>5 DEF w, q, e

\* ExtraWarps of the ops o.
ExtraOf(o) ==
  CeilDiv(Max({Total(o[i].sizes) : i \in DOMAIN o}), WarpsPerGroup) * WarpsPerGroup

LEMMA TotalNat ==
  ASSUME NEW sizes \in Seq(Nat \ {0}) PROVE Total(sizes) \in Nat
<1>1. Len(sizes) \in Nat /\ \A i \in 1 .. Len(sizes) : sizes[i] \in Nat
  OBVIOUS
<1> QED BY <1>1, SumNat DEF Total

LEMMA TotalPositive ==
  ASSUME NEW sizes \in Seq(Nat \ {0}), sizes # <<>> PROVE Total(sizes) > 0
<1>1. /\ Len(sizes) \in Nat /\ \A i \in 1 .. Len(sizes) : sizes[i] \in Nat
      /\ 1 \in 1 .. Len(sizes) /\ sizes[1] > 0
  OBVIOUS
<1>2. sizes[1] <= Total(sizes) /\ Total(sizes) \in Nat
  BY <1>1, SumBounds DEF Total
<1> QED BY <1>1, <1>2

\* They are whole warp groups, and the fewest in which the largest op fits.
LEMMA ExtraFits ==
  ASSUME NEW o \in Seq(Op), o # <<>>
  PROVE  /\ ExtraOf(o) \in Nat /\ ExtraOf(o) % WarpsPerGroup = 0
         /\ \A i \in DOMAIN o : Total(o[i].sizes) \in Nat /\ Total(o[i].sizes) <= ExtraOf(o)
         /\ \E i \in DOMAIN o : ExtraOf(o) < Total(o[i].sizes) + WarpsPerGroup
<1> DEFINE n == Len(o)
           t == [i \in 1 .. n |-> Total(o[i].sizes)]
           T == {Total(o[i].sizes) : i \in DOMAIN o}
           N == SumTo(t, n)
<1>1. n \in Nat \ {0} /\ DOMAIN o = 1 .. n /\ \A i \in 1 .. n : o[i] \in Op
  OBVIOUS
<1>2. \A i \in 1 .. n : t[i] \in Nat /\ t[i] = Total(o[i].sizes)
  BY <1>1, TotalNat DEF Op
<1>3. T = {t[i] : i \in 1 .. n}
  BY <1>1
<1> HIDE DEF n, t, T, N
<1>4. N \in Nat /\ \A i \in 1 .. n : t[i] <= N
  BY <1>1, <1>2, SumNat, SumBounds DEF N
<1>5. T \in SUBSET (0 .. N)
  BY <1>2, <1>3, <1>4
<1>6. T # {}
  <2>1. t[1] \in T
    BY <1>1, <1>3
  <2> QED BY <2>1
<1>7. Max(T) \in T /\ \A x \in T : x <= Max(T)
  BY <1>4, <1>5, <1>6, MaxIsMember
<1>8. Max(T) \in Nat
  BY <1>2, <1>3, <1>7
<1>9. /\ ExtraOf(o) \in Nat /\ ExtraOf(o) % WarpsPerGroup = 0
      /\ Max(T) <= ExtraOf(o) /\ ExtraOf(o) < Max(T) + WarpsPerGroup
  BY <1>8, WholeGroups DEF ExtraOf, T
<1>10. PICK i \in 1 .. n : Max(T) = t[i]
  BY <1>3, <1>7
<1>11. \A k \in 1 .. n : t[k] <= Max(T)
  BY <1>3, <1>7
<1>12. \A k \in 1 .. n : t[k] <= ExtraOf(o)
  BY <1>2, <1>8, <1>9, <1>11
<1> QED BY <1>1, <1>2, <1>9, <1>10, <1>12

\* Padding one of the ops to them does not change them.
LEMMA ExtraStays ==
  ASSUME NEW o \in Seq(Op), o # <<>>, NEW q \in Seq(Op), q # <<>>, DOMAIN q = DOMAIN o,
         NEW j \in DOMAIN o, Total(q[j].sizes) = ExtraOf(o),
         \A i \in DOMAIN o : i # j => q[i].sizes = o[i].sizes
  PROVE  ExtraOf(q) = ExtraOf(o)
<1> DEFINE T == {Total(q[i].sizes) : i \in DOMAIN q}
           e == ExtraOf(o)
<1>1. /\ e \in Nat /\ e % WarpsPerGroup = 0
      /\ \A i \in DOMAIN o : Total(o[i].sizes) \in Nat /\ Total(o[i].sizes) <= e
  BY ExtraFits
<1>2. \A i \in DOMAIN q : Total(q[i].sizes) \in Nat
  BY ExtraFits
<1> HIDE DEF e
<1>3. \A i \in DOMAIN q : Total(q[i].sizes) <= e
  <2> TAKE i \in DOMAIN q
  <2>1. CASE i = j
    BY <1>1, <2>1 DEF e
  <2>2. CASE i # j
    BY <1>1, <2>2
  <2> QED BY <2>1, <2>2
<1>4. T \in SUBSET Int /\ e \in T /\ \A x \in T : e >= x
  BY <1>1, <1>2, <1>3 DEF e
<1>5. Max(T) = e
  <2> HIDE DEF T
  <2> QED BY <1>4, MaxIs
<1>6. ExtraOf(q) = CeilDiv(e, WarpsPerGroup) * WarpsPerGroup
  BY <1>5 DEF ExtraOf
<1> QED BY <1>1, <1>6, WholeGroups DEF e

-----------------------------------------------------------------------------
(* The invariant *)

LEMMA UserNat == \A r \in UserRegs : r \in Nat /\ (r = 0 \/ (r >= 24 /\ r <= 256 /\ r % 8 = 0))
<1>1. \A r \in UserRegs : r = 0 \/ (r \in 24 .. 256 /\ r % 8 = 0)
  BY RegsAssumption, Zenon
<1> QED BY <1>1

LEMMA Sizes ==
  ASSUME TypeOK
  PROVE  /\ base \in Nat \ {0} /\ base % WarpsPerGroup = 0
         /\ ops \in Seq(Op) /\ ops # <<>>
         /\ ExtraWarps = ExtraOf(ops) /\ ExtraWarps \in Nat
         /\ LaunchRegs \in Nat
<1>1. /\ base \in Nat \ {0} /\ base % WarpsPerGroup = 0
      /\ ops \in Seq(Op) /\ ops # <<>> /\ user \in UserRegs
  BY WarpsAssumption DEF TypeOK
<1>2. ExtraWarps = ExtraOf(ops)
  BY DEF ExtraWarps, ExtraGroups, ExtraOf
<1>3. ExtraWarps \in Nat
  BY <1>1, <1>2, ExtraFits
<1>4. LaunchRegs \in Nat
  <2>1. CASE user # 0
    <3>1. user \in Nat
      BY <1>1, UserNat
    <3> QED BY <2>1, <3>1 DEF LaunchRegs
  <2>2. CASE user = 0
    <3> DEFINE w == base + ExtraWarps
               x == RegFile \div w
    <3>1. w \in Nat \ {0}
      BY <1>1, <1>3
    <3>2. RegFile \in Nat
      BY RegsAssumption, WarpsAssumption DEF BlockGroups
    <3> HIDE DEF w
    <3>3. x \in Nat
      BY <3>1, <3>2, Quotient
    <3> HIDE DEF x
    <3>4. RoundDown8(x) \in Nat
      BY <3>3, EightsBelow
    <3> QED BY <2>2, <3>4 DEF LaunchRegs, x, w
  <2> QED BY <2>1, <2>2
<1> QED BY <1>1, <1>2, <1>3, <1>4

LEMMA FreshFields ==
  ASSUME NEW sizes, NEW req
  PROVE  LET op == FreshOp(sizes, req) IN
         op.sizes = sizes /\ op.req = req /\ op.start = <<>> /\ op.act = <<>>
BY DEF FreshOp

LEMMA FreshIsOp ==
  ASSUME NEW sizes \in Seq(Nat \ {0}), sizes # <<>>, NEW req \in Seq(Nat)
  PROVE  FreshOp(sizes, req) \in Op
<1>1. <<>> \in Seq(Nat)
  OBVIOUS
<1> QED BY <1>1 DEF FreshOp, Op

\* A block of at most eight warp groups still fits after padding.
LEMMA PaddedFits ==
  ASSUME NEW b \in Nat, b % WarpsPerGroup = 0, NEW e \in Nat, e % WarpsPerGroup = 0,
         NEW m \in Nat, e < m + WarpsPerGroup, b + m <= BlockGroups * WarpsPerGroup
  PROVE  b + e <= BlockGroups * WarpsPerGroup
<1> DEFINE w == WarpsPerGroup
<1>1. w \in Nat \ {0}
  BY WarpsAssumption
<1> HIDE DEF w
<1>2. PICK x \in Nat : b = x * w
  BY <1>1, MultipleIs DEF w
<1>3. PICK y \in Nat : e = y * w
  BY <1>1, MultipleIs DEF w
<1>4. (x + y) * w = b + e
  BY <1>1, <1>2, <1>3
<1>5. b + e < 9 * w
  <2>1. b + m <= 8 * w
    BY DEF w, BlockGroups
  <2> QED BY <1>1, <2>1 DEF w
<1>6. x + y <= 8
  <2>1. 9 <= x + y => 9 * w <= (x + y) * w
    BY <1>1, ProductGrows
  <2> QED BY <1>1, <1>4, <1>5, <2>1
<1>7. (x + y) * w <= 8 * w
  BY <1>1, <1>6, ProductGrows
<1> QED BY <1>4, <1>7 DEF w, BlockGroups

LEMMA InitInv == Init => IInv
<1> SUFFICES ASSUME Init PROVE IInv
  OBVIOUS
<1>1. ops \in Modules /\ base \in BaseWarps /\ user \in UserRegs
  BY DEF Init
<1>2. ops \in Seq({ops[i] : i \in DOMAIN ops}) /\ ops # <<>> /\ \A i \in DOMAIN ops : IsOp(ops[i])
  BY <1>1, WarpsAssumption
<1>3. \A i \in DOMAIN ops : ops[i] \in Op /\ ops[i].act = <<>>
                           /\ (ops[i].req = <<>> \/ Len(ops[i].req) = Len(ops[i].sizes))
  <2> TAKE i \in DOMAIN ops
  <2> DEFINE op == ops[i]
  <2>1. /\ op.sizes \in Seq(Nat \ {0}) /\ op.sizes # <<>>
        /\ op.req = <<>> \/ (op.req \in Seq(Nat) /\ Len(op.req) = Len(op.sizes))
        /\ op = FreshOp(op.sizes, op.req)
    BY <1>2 DEF IsOp
  <2> HIDE DEF op
  <2>2. op.req \in Seq(Nat)
    <3>1. <<>> \in Seq(Nat)
      OBVIOUS
    <3> QED BY <2>1, <3>1, Zenon
  <2>3. op \in Op /\ op.act = <<>>
    BY <2>1, <2>2, FreshIsOp, FreshFields
  <2> QED BY <2>1, <2>3 DEF op
<1>4. ops \in Seq(Op) /\ Len(ops) \in Nat
  <2>1. {ops[i] : i \in DOMAIN ops} \subseteq Op
    BY <1>3
  <2> HIDE DEF Op
  <2> QED BY <1>2, <2>1
<1>5. TypeOK
  <2>1. user \in Nat
    BY <1>1, UserNat
  <2> QED BY <1>1, <1>2, <1>4, <2>1 DEF TypeOK, Init
<1>6. Padded
  BY <1>3 DEF Padded, Init
<1>7. Launched
  BY <1>3 DEF Launched, Init
<1>8. InBlock
  <2>1. /\ base \in Nat \ {0} /\ base % WarpsPerGroup = 0
        /\ ExtraWarps = ExtraOf(ops) /\ ExtraWarps \in Nat
    BY <1>5, Sizes
  <2>2. ExtraWarps % WarpsPerGroup = 0
    BY <1>2, <1>4, <2>1, ExtraFits
  <2>3. PICK i \in DOMAIN ops :
          Total(ops[i].sizes) \in Nat /\ ExtraWarps < Total(ops[i].sizes) + WarpsPerGroup
    BY <1>2, <1>4, <2>1, ExtraFits
  <2>4. base + Total(ops[i].sizes) <= BlockGroups * WarpsPerGroup
    BY <1>1, BlockAssumption
  <2> QED BY <2>1, <2>2, <2>3, <2>4, PaddedFits DEF InBlock
<1>9. WarpsCovered /\ GroupsAgree /\ RegionFits /\ RequestsMet
  BY DEF Init, WarpsCovered, GroupsAgree, RegionFits, RequestsMet
<1> QED BY <1>5, <1>6, <1>7, <1>8, <1>9 DEF IInv

LEMMA PadInv == ASSUME IInv, PadOp PROVE IInv'
<1> DEFINE j == padded + 1
           op == ops[j]
           pad == Padding(ExtraWarps - Total(op.sizes))
           req == IF op.req = <<>> THEN <<>> ELSE op.req \o [k \in DOMAIN pad |-> 16]
           new == FreshOp(op.sizes \o pad, req)
<1>1. /\ base \in Nat \ {0} /\ ops \in Seq(Op) /\ ops # <<>>
      /\ ExtraWarps = ExtraOf(ops) /\ ExtraWarps \in Nat /\ LaunchRegs \in Nat
  BY Sizes DEF IInv
<1>2. /\ padded \in Nat /\ laid = 0 /\ j \in DOMAIN ops /\ Len(ops) \in Nat
  BY <1>1 DEF IInv, TypeOK, Padded, PadOp
<1>3. /\ ops' = [ops EXCEPT ![j] = new] /\ padded' = j
      /\ base' = base /\ user' = user /\ laid' = laid /\ maxnreg' = maxnreg
  BY DEF PadOp
<1>4. /\ op \in Op /\ op.sizes \in Seq(Nat \ {0}) /\ op.sizes # <<>> /\ op.req \in Seq(Nat)
      /\ op.req = <<>> \/ Len(op.req) = Len(op.sizes)
  <2>1. op \in Op
    BY <1>1, <1>2
  <2>2. op.req = <<>> \/ Len(op.req) = Len(op.sizes)
    BY <1>2 DEF IInv, Padded
  <2> QED BY <2>1, <2>2 DEF Op
<1>5. Total(op.sizes) \in Nat /\ Total(op.sizes) <= ExtraWarps
  BY <1>1, <1>2, ExtraFits
<1>6. pad \in Seq(Nat \ {0}) /\ Total(pad) = ExtraWarps - Total(op.sizes)
  <2>1. ExtraWarps - Total(op.sizes) \in Nat
    BY <1>1, <1>5
  <2> QED BY <2>1, PaddingAddsUp
<1> HIDE DEF j, op, pad
<1>7. /\ op.sizes \o pad \in Seq(Nat \ {0}) /\ op.sizes \o pad # <<>>
      /\ Len(op.sizes \o pad) = Len(op.sizes) + Len(pad)
  BY <1>4, <1>6
<1>8. Total(op.sizes \o pad) = ExtraWarps
  <2>1. op.sizes \in Seq(Int) /\ pad \in Seq(Int)
    BY <1>4, <1>6
  <2>2. Total(op.sizes \o pad) = Total(op.sizes) + Total(pad)
    BY <2>1, TotalConcat
  <2> QED BY <1>1, <1>5, <1>6, <2>2
<1>9. req \in Seq(Nat) /\ (req = <<>> \/ Len(req) = Len(op.sizes \o pad))
  <2>1. CASE op.req = <<>>
    BY <2>1
  <2>2. CASE op.req # <<>>
    <3> DEFINE more == [k \in DOMAIN pad |-> 16]
    <3>1. more \in Seq(Nat) /\ Len(more) = Len(pad)
      BY <1>6
    <3> HIDE DEF more
    <3>2. op.req \o more \in Seq(Nat) /\ Len(op.req \o more) = Len(op.req) + Len(more)
      <4>1. op.req \in Seq(Nat)
        BY <1>4
      <4> QED BY <3>1, <4>1, ConcatProperties
    <3>3. Len(op.req) = Len(op.sizes)
      BY <1>4, <2>2
    <3> QED BY <1>7, <2>2, <3>1, <3>2, <3>3 DEF more
  <2> QED BY <2>1, <2>2
<1> HIDE DEF req
<1>10. /\ new \in Op /\ new.sizes = op.sizes \o pad /\ new.req = req /\ new.act = <<>>
  BY <1>7, <1>9, FreshIsOp, FreshFields
<1> HIDE DEF new
<1>11. /\ ops' \in Seq(Op) /\ ops' # <<>> /\ Len(ops') = Len(ops) /\ DOMAIN ops' = DOMAIN ops
       /\ ops'[j] = new /\ \A i \in DOMAIN ops : i # j => ops'[i] = ops[i]
  <2> HIDE DEF Op
  <2> QED BY <1>1, <1>2, <1>3, <1>10
<1>12. ExtraWarps' = ExtraWarps
  <2>1. \A i \in DOMAIN ops : i # j => ops'[i].sizes = ops[i].sizes
    BY <1>11
  <2>2. ExtraOf(ops') = ExtraOf(ops)
    <3>1. Total(ops'[j].sizes) = ExtraOf(ops)
      BY <1>1, <1>8, <1>10, <1>11
    <3>2. j \in DOMAIN ops /\ ops \in Seq(Op) /\ ops # <<>>
      BY <1>1, <1>2
    <3>3. ops' \in Seq(Op) /\ ops' # <<>> /\ DOMAIN ops' = DOMAIN ops
      BY <1>11
    <3> QED BY <2>1, <3>1, <3>2, <3>3, ExtraStays, Zenon
  <2> QED BY <1>1, <2>2 DEF ExtraWarps, ExtraGroups, ExtraOf
<1>13. TypeOK'
  BY <1>1, <1>2, <1>3, <1>11 DEF IInv, TypeOK, j
<1>14. Padded'
  <2>1. \A i \in DOMAIN ops' : ops'[i].req = <<>> \/ Len(ops'[i].req) = Len(ops'[i].sizes)
    BY <1>9, <1>10, <1>11 DEF IInv, Padded
  <2>2. \A i \in 1 .. padded' : Total(ops'[i].sizes) = ExtraWarps
    <3> TAKE i \in 1 .. padded'
    <3>1. CASE i = j
      BY <1>8, <1>10, <1>11, <3>1
    <3>2. CASE i # j
      <4>1. i \in 1 .. padded /\ i \in DOMAIN ops
        BY <1>1, <1>2, <1>3, <3>2 DEF j
      <4> QED BY <1>11, <3>2, <4>1 DEF IInv, Padded
    <3> QED BY <3>1, <3>2
  <2> QED BY <1>2, <1>3, <1>12, <2>1, <2>2 DEF Padded
<1>15. Launched'
  <2>1. \A i \in DOMAIN ops : ops[i].act = <<>>
    BY <1>1, <1>2 DEF IInv, Launched
  <2>2. \A i \in DOMAIN ops' : ops'[i].act = <<>>
    BY <1>10, <1>11, <2>1
  <2>3. maxnreg = user
    BY <2>1 DEF IInv, Launched
  <2> QED BY <1>3, <2>2, <2>3 DEF Launched
<1>16. InBlock'
  BY <1>3, <1>12 DEF IInv, InBlock
<1>17. (WarpsCovered /\ GroupsAgree /\ RegionFits /\ RequestsMet)'
  BY <1>2, <1>3 DEF WarpsCovered, GroupsAgree, RegionFits, RequestsMet
<1> QED BY <1>13, <1>14, <1>15, <1>16, <1>17 DEF IInv

LEMMA LaidOut ==
  ASSUME base \in Nat, NEW sizes \in Seq(Nat \ {0}), NEW order \in Orders(sizes)
  PROVE  /\ Apart(StartIds(sizes, order), sizes, Len(sizes))
         /\ StartIds(sizes, order) \in Seq(Nat)
         /\ Len(sizes) \in Nat /\ DOMAIN sizes = 1 .. Len(sizes)
<1> DEFINE n == Len(sizes)
           start == StartIds(sizes, order)
<1>1. n \in Nat /\ DOMAIN sizes = 1 .. n /\ \A i \in 1 .. n : sizes[i] \in Nat /\ sizes[i] # 0
  <2>1. n \in Nat /\ DOMAIN sizes = 1 .. n /\ \A i \in 1 .. n : sizes[i] \in Nat \ {0}
    BY SeqFacts
  <2> QED BY <2>1
<1>2. start \in Seq(Nat) /\ DOMAIN start = 1 .. n /\ \A i \in 1 .. n : start[i] \in Nat
  <2>1. start \in Seq(Nat) /\ Len(start) = n
    BY Starts
  <2> HIDE DEF start
  <2> QED BY <2>1, SeqFacts
<1>3. \A i, h \in 1 .. n : i # h =>
        start[i] + sizes[i] <= start[h] \/ start[h] + sizes[h] <= start[i]
  BY StartsApart
<1> HIDE DEF n, start
<1>4. Apart(start, sizes, n)
  BY <1>1, <1>2, <1>3 DEF Apart
<1> QED BY <1>1, <1>2, <1>4 DEF n, start

\* The same, whichever partition comes first.
LEMMA GroupsShared ==
  ASSUME NEW n \in Nat, NEW start, NEW sizes, Apart(start, sizes, n),
         NEW j \in 1 .. n, NEW k \in 1 .. n,
         NEW u, Has(start, sizes, j, u), NEW v, Has(start, sizes, k, v)
  PROVE  u \div WarpsPerGroup = v \div WarpsPerGroup => GroupOf(start, j) = GroupOf(start, k)
<1>1. \A i \in 1 .. n : start[i] \in Nat
  BY DEF Apart
<1>2. CASE start[j] <= start[k]
  BY <1>2, LayoutAgrees
<1>3. CASE start[k] <= start[j]
  BY <1>3, LayoutAgrees
<1>4. start[j] <= start[k] \/ start[k] <= start[j]
  BY <1>1
<1> QED BY <1>2, <1>3, <1>4

LEMMA AssignInv == ASSUME IInv, AssignOp PROVE IInv'
<1> DEFINE j == laid + 1
           op == ops[j]
<1>1. /\ base \in Nat \ {0} /\ base % WarpsPerGroup = 0 /\ ops \in Seq(Op) /\ ops # <<>>
      /\ ExtraWarps = ExtraOf(ops) /\ ExtraWarps \in Nat /\ LaunchRegs \in Nat
  BY Sizes DEF IInv
<1>2. /\ laid \in Nat /\ j \in DOMAIN ops /\ Len(ops) \in Nat /\ padded = Len(ops)
      /\ DOMAIN ops = 1 .. Len(ops) /\ maxnreg \in Nat
  BY <1>1 DEF IInv, TypeOK, AssignOp
<1>3. PICK order \in Orders(op.sizes) :
        LET start == StartIds(op.sizes, order) IN
        /\ ops' = [ops EXCEPT
                     ![j].start = start,
                     ![j].act = IF Assigned(op, start) THEN ActualRegs(op, start) ELSE <<>>]
        /\ maxnreg' = IF Assigned(op, start) THEN LaunchRegs ELSE maxnreg
  BY Zenon DEF AssignOp
<1>4. laid' = j /\ base' = base /\ user' = user /\ padded' = padded
  BY DEF AssignOp
<1>5. /\ op \in Op /\ op.sizes \in Seq(Nat \ {0}) /\ op.sizes # <<>> /\ op.req \in Seq(Nat)
      /\ op.req = <<>> \/ Len(op.req) = Len(op.sizes)
  <2>1. op \in Op
    BY <1>1, <1>2
  <2>2. op.req = <<>> \/ Len(op.req) = Len(op.sizes)
    BY <1>2 DEF IInv, Padded
  <2> QED BY <2>1, <2>2 DEF Op
<1>6. Total(op.sizes) = ExtraWarps
  BY <1>2 DEF IInv, Padded
<1> HIDE DEF op
<1> DEFINE start == StartIds(op.sizes, order)
           act == IF Assigned(op, start) THEN ActualRegs(op, start) ELSE <<>>
           new == [op EXCEPT !.start = start, !.act = act]
           n == Len(op.sizes)
<1>7. start \in Seq(Nat) /\ n \in Nat /\ DOMAIN op.sizes = 1 .. n /\ Apart(start, op.sizes, n)
  <2>1. base \in Nat
    BY <1>1
  <2> QED BY <1>5, <2>1, LaidOut
<1>8. act # <<>> =>
        /\ \A k \in 1 .. n :
             /\ act[k + 1] = GroupRegs(op.req, start, GroupOf(start, k))
             /\ act[k + 1] >= op.req[k]
        /\ Clamp(act[1]) * base + Given(act, op.sizes) <= LaunchRegs * (base + ExtraWarps)
  <2> SUFFICES ASSUME act # <<>> PROVE
        /\ \A k \in 1 .. n :
             /\ act[k + 1] = GroupRegs(op.req, start, GroupOf(start, k))
             /\ act[k + 1] >= op.req[k]
        /\ Clamp(act[1]) * base + Given(act, op.sizes) <= LaunchRegs * (base + ExtraWarps)
    OBVIOUS
  <2>1. Assigned(op, start) /\ act = ActualRegs(op, start)
    OBVIOUS
  <2>2. Requesting(op)
    BY <1>5, <2>1 DEF Assigned, Requesting
  <2>3. base \in Nat \ {0} /\ base % WarpsPerGroup = 0 /\ LaunchRegs \in Int
    BY <1>1
  <2>4. /\ \A k \in 1 .. n :
             /\ ActualRegs(op, start)[k + 1] = GroupRegs(op.req, start, GroupOf(start, k))
             /\ ActualRegs(op, start)[k + 1] >= op.req[k]
        /\ Clamp(ActualRegs(op, start)[1]) * base + Given(ActualRegs(op, start), op.sizes)
             <= LaunchRegs * (base + Total(op.sizes))
    BY <2>1, <2>2, <2>3, OpFits
  <2> HIDE DEF act
  <2> QED BY ONLY <1>6, <2>1, <2>4, Zenon
<1>9. act \in Seq(Nat) /\ (Assigned(op, start) <=> act # <<>>)
  <2>1. CASE Assigned(op, start)
    <3>1. Requesting(op)
      BY <1>5, <2>1 DEF Assigned, Requesting
    <3>2. base \in Nat \ {0} /\ base % WarpsPerGroup = 0 /\ LaunchRegs \in Int
      BY <1>1
    <3>3. ActualRegs(op, start) \in Seq(Nat) /\ ActualRegs(op, start) # <<>>
      BY <2>1, <3>1, <3>2, OpFits
    <3> QED BY <2>1, <3>3
  <2>2. CASE ~Assigned(op, start)
    BY <2>2
  <2> QED BY <2>1, <2>2
<1>10. maxnreg' = IF act # <<>> THEN LaunchRegs ELSE maxnreg
  BY <1>3, <1>9
<1>11. ops' = [ops EXCEPT ![j] = new]
  BY <1>3 DEF op
<1> HIDE DEF start, act, n
<1>12. new \in Op /\ new.sizes = op.sizes /\ new.req = op.req /\ new.start = start /\ new.act = act
  BY <1>5, <1>7, <1>9 DEF Op
<1> HIDE DEF new, j
<1>13. /\ ops' \in Seq(Op) /\ ops' # <<>> /\ Len(ops') = Len(ops) /\ DOMAIN ops' = DOMAIN ops
       /\ ops'[j] = new /\ \A i \in DOMAIN ops : i # j => ops'[i] = ops[i]
  <2> HIDE DEF Op
  <2> QED BY <1>1, <1>2, <1>11, <1>12
<1>14. \A i \in DOMAIN ops : ops'[i].sizes = ops[i].sizes /\ ops'[i].req = ops[i].req
  <2> TAKE i \in DOMAIN ops
  <2>1. CASE i = j
    BY <1>12, <1>13, <2>1 DEF op
  <2>2. CASE i # j
    BY <1>13, <2>2
  <2> QED BY <2>1, <2>2
<1>15. ExtraWarps' = ExtraWarps
  <2>1. {Total(ops'[i].sizes) : i \in DOMAIN ops'} = {Total(ops[i].sizes) : i \in DOMAIN ops}
    BY <1>13, <1>14
  <2> QED BY <2>1, Zenon DEF ExtraWarps, ExtraGroups
<1>16. LaunchRegs' = LaunchRegs
  BY <1>4, <1>15 DEF LaunchRegs
<1>17. \A i \in 1 .. laid' : i = j \/ (i \in 1 .. laid /\ ops'[i] = ops[i] /\ i # j)
  BY <1>2, <1>4, <1>13 DEF j
<1>18. TypeOK'
  <2>1. maxnreg' \in Nat
    BY <1>1, <1>2, <1>10
  <2> QED BY <1>2, <1>4, <1>13, <2>1 DEF IInv, TypeOK, j
<1>19. Padded'
  <2>1. \A i \in DOMAIN ops' : ops'[i].req = <<>> \/ Len(ops'[i].req) = Len(ops'[i].sizes)
    BY <1>13, <1>14 DEF IInv, Padded
  <2>2. \A i \in 1 .. padded' : Total(ops'[i].sizes) = ExtraWarps
    BY <1>2, <1>4, <1>14 DEF IInv, Padded
  <2> QED BY <1>2, <1>4, <1>13, <1>15, <2>1, <2>2 DEF Padded
<1>20. Launched'
  <2>1. \A i \in DOMAIN ops : i > laid' => ops'[i].act = <<>>
    BY <1>2, <1>4, <1>13 DEF IInv, Launched, j
  <2>2. CASE act # <<>>
    <3>1. ~\A i \in DOMAIN ops' : ops'[i].act = <<>>
      BY <1>2, <1>12, <1>13, <2>2
    <3> QED BY <1>10, <1>13, <1>16, <2>1, <2>2, <3>1 DEF Launched
  <2>3. CASE act = <<>>
    <3>1. ops[j].act = <<>>
      BY <1>2 DEF IInv, Launched, j
    <3>2. (\A i \in DOMAIN ops' : ops'[i].act = <<>>) <=> (\A i \in DOMAIN ops : ops[i].act = <<>>)
      BY <1>2, <1>12, <1>13, <2>3, <3>1
    <3>3. maxnreg' = maxnreg
      BY <1>10, <2>3
    <3> QED BY <1>4, <1>13, <1>16, <2>1, <3>2, <3>3 DEF IInv, Launched
  <2> QED BY <2>2, <2>3
<1>21. InBlock'
  BY <1>4, <1>15 DEF IInv, InBlock
<1>22. WarpsCovered'
  <2> SUFFICES ASSUME NEW i \in 1 .. laid', NEW w \in base .. base + ExtraWarps - 1
               PROVE  Cardinality({k \in DOMAIN ops'[i].sizes : w \in Warps(ops'[i], k)}) = 1
    BY <1>4, <1>15 DEF WarpsCovered, Warps
  <2>1. CASE i = j
    <3>1. Cardinality(Holders(start, op.sizes, w)) = 1
      BY <1>1, <1>5, <1>6, LayoutCovers DEF start
    <3>2. Holders(start, op.sizes, w) = {k \in DOMAIN ops'[i].sizes : w \in Warps(ops'[i], k)}
      BY <1>7, <1>12, <1>13, <2>1 DEF Warps, Holders, n
    <3> QED BY <3>1, <3>2
  <2>2. CASE i # j
    BY <1>17, <2>2 DEF IInv, WarpsCovered
  <2> QED BY <2>1, <2>2
<1>23. GroupsAgree'
  <2> SUFFICES ASSUME NEW i \in 1 .. laid', ops'[i].act # <<>>,
                      NEW h \in DOMAIN ops'[i].sizes, NEW k \in DOMAIN ops'[i].sizes,
                      NEW u \in Warps(ops'[i], h), NEW v \in Warps(ops'[i], k),
                      u \div WarpsPerGroup = v \div WarpsPerGroup
               PROVE  ops'[i].act[h + 1] = ops'[i].act[k + 1]
    BY DEF GroupsAgree, Warps
  <2>1. CASE i = j
    <3>1. /\ act # <<>> /\ h \in 1 .. n /\ k \in 1 .. n
          /\ Has(start, op.sizes, h, u) /\ Has(start, op.sizes, k, v)
      BY <1>7, <1>12, <1>13, <2>1 DEF Warps, Has
    <3>2. \A p \in 1 .. n : act[p + 1] = GroupRegs(op.req, start, GroupOf(start, p))
      BY <1>8, <3>1
    <3>3. GroupOf(start, h) = GroupOf(start, k)
      BY <1>7, <3>1, GroupsShared
    <3>4. act[h + 1] = act[k + 1]
      BY <3>1, <3>2, <3>3
    <3> QED BY <1>12, <1>13, <2>1, <3>4
  <2>2. CASE i # j
    BY <1>17, <2>2 DEF IInv, GroupsAgree
  <2> QED BY <2>1, <2>2
<1>24. RegionFits'
  <2> SUFFICES ASSUME NEW i \in 1 .. laid', ops'[i].act # <<>>
               PROVE  Clamp(ops'[i].act[1]) * base
                        + Total([k \in DOMAIN ops'[i].sizes |->
                                   Clamp(ops'[i].act[k + 1]) * ops'[i].sizes[k]])
                        <= maxnreg' * (base + ExtraWarps)
    BY <1>4, <1>15 DEF RegionFits, Clamp
  <2>1. CASE i = j
    <3>1. ops'[i].act = act /\ ops'[i].sizes = op.sizes
      BY <1>12, <1>13, <2>1
    <3>2. act # <<>> /\ maxnreg' = LaunchRegs
      BY <1>10, <3>1
    <3> QED BY <1>8, <3>1, <3>2 DEF Given
  <2>2. CASE i # j
    <3>1. i \in 1 .. laid /\ ops'[i] = ops[i] /\ i \in DOMAIN ops
      BY <1>2, <1>17, <2>2 DEF j
    <3>2. maxnreg' = maxnreg
      <4>1. maxnreg = LaunchRegs
        BY <3>1 DEF IInv, Launched
      <4> QED BY <1>10, <4>1
    <3> QED BY <3>1, <3>2 DEF IInv, RegionFits
  <2> QED BY <2>1, <2>2
<1>25. RequestsMet'
  <2> SUFFICES ASSUME NEW i \in 1 .. laid', ops'[i].act # <<>>, NEW k \in DOMAIN ops'[i].sizes
               PROVE  ops'[i].act[k + 1] >= ops'[i].req[k]
    BY DEF RequestsMet
  <2>1. CASE i = j
    <3>1. ops'[i].act = act /\ ops'[i].sizes = op.sizes /\ ops'[i].req = op.req
      BY <1>12, <1>13, <2>1
    <3> QED BY <1>7, <1>8, <3>1
  <2>2. CASE i # j
    BY <1>17, <2>2 DEF IInv, RequestsMet
  <2> QED BY <2>1, <2>2
<1> QED BY <1>18, <1>19, <1>20, <1>21, <1>22, <1>23, <1>24, <1>25 DEF IInv

LEMMA StutterInv == ASSUME IInv, UNCHANGED vars PROVE IInv'
<1>1. base' = base /\ user' = user /\ ops' = ops /\ padded' = padded /\ laid' = laid
      /\ maxnreg' = maxnreg
  BY DEF vars
<1>2. ExtraWarps' = ExtraWarps /\ LaunchRegs' = LaunchRegs
  BY <1>1 DEF ExtraWarps, ExtraGroups, LaunchRegs
<1>3. TypeOK' /\ Padded' /\ Launched' /\ InBlock'
  BY <1>1, <1>2 DEF IInv, TypeOK, Padded, Launched, InBlock
<1>4. WarpsCovered'
  <2> SUFFICES ASSUME NEW i \in 1 .. laid, NEW w \in base .. base + ExtraWarps - 1
               PROVE  Cardinality({k \in DOMAIN ops'[i].sizes : w \in Warps(ops'[i], k)}) = 1
    BY <1>1, <1>2 DEF WarpsCovered, Warps
  <2> QED BY <1>1 DEF IInv, WarpsCovered
<1>5. GroupsAgree'
  <2> SUFFICES ASSUME NEW i \in 1 .. laid, ops[i].act # <<>>,
                      NEW h \in DOMAIN ops[i].sizes, NEW k \in DOMAIN ops[i].sizes,
                      NEW u \in Warps(ops[i], h), NEW v \in Warps(ops[i], k),
                      u \div WarpsPerGroup = v \div WarpsPerGroup
               PROVE  ops[i].act[h + 1] = ops[i].act[k + 1]
    BY <1>1 DEF GroupsAgree, Warps
  <2> QED BY DEF IInv, GroupsAgree
<1>6. RequestsMet'
  BY <1>1 DEF IInv, RequestsMet
<1>7. RegionFits'
  BY <1>1, <1>2, Zenon DEF IInv, RegionFits
<1> QED BY <1>3, <1>4, <1>5, <1>6, <1>7 DEF IInv

-----------------------------------------------------------------------------
(* The kernel header *)

LEMMA NoMultipleBetween ==
  ASSUME NEW z \in Int, NEW c \in Nat \ {0}, 0 <= z * c, z * c < c
  PROVE  z = 0
<1>1. ~(1 <= z)
  <2>1. 1 <= z => 1 * c <= z * c
    BY ProductGrows
  <2> QED BY <2>1
<1>2. ~(z <= -1)
  <2>1. z <= -1 => z * c <= (-1) * c
    BY ProductGrows
  <2> QED BY <2>1
<1> QED BY <1>1, <1>2

LEMMA EightsOf ==
  ASSUME NEW x \in Int
  PROVE  /\ RoundDown8(x) \in Int /\ RoundDown8(x) <= x
         /\ x % 8 = 0 => RoundDown8(x) = x
         /\ x % 8 # 0 => RoundDown8(x) <= x - 1
BY DEF RoundDown8

\* The workers fall back to 24: what they give up is there for the default group.
LEMMA LowestFits ==
  ASSUME NEW m \in Nat, m >= 24, NEW b \in Nat \ {0}, NEW e \in Nat
  PROVE  RoundDown8(m + (((m - 24) * e) \div b)) * b + 24 * e <= m * (b + e)
<1> DEFINE x == (m - 24) * e
           q == x \div b
           d == m + q
           r == RoundDown8(d)
<1>1. x \in Nat
  <2>1. m - 24 \in Nat
    OBVIOUS
  <2> HIDE DEF x
  <2>2. \A u, v \in Nat : u * v \in Nat
    OBVIOUS
  <2> QED BY <2>1, <2>2 DEF x
<1>2. x = m * e - 24 * e /\ m * e \in Int /\ m * b \in Int
  OBVIOUS
<1> HIDE DEF x
<1>3. q \in Nat /\ q * b <= x
  BY <1>1, Quotient
<1> HIDE DEF q
<1>4. d \in Nat /\ d * b = m * b + q * b /\ q * b \in Int
  BY <1>3
<1> HIDE DEF d
<1>5. r \in Int /\ r <= d
  BY <1>4, EightsOf
<1> HIDE DEF r
<1>6. r * b \in Int /\ r * b <= d * b
  BY <1>4, <1>5, ProductGrows
<1>7. m * (b + e) = m * b + m * e
  OBVIOUS
<1>8. r * b + 24 * e <= m * (b + e)
  BY <1>1, <1>2, <1>3, <1>4, <1>6, <1>7
<1> QED BY <1>8 DEF r, d, q, x

\* The launch of m registers a thread covers b warps at 256 registers, and e
\* warps at what they leave.
HighFits(b, e, m) ==
  256 * b + RoundDown8(m - (((256 - m) * b) \div e)) * e <= m * (b + e)

\* The default group takes 256: the workers give up at least what it gains, because in
\* a block of less than eight extra warp groups the division leaves no remainder
\* that rounding down to a multiple of eight would not cover.
LEMMA HighestFits ==
  ASSUME NEW w \in Nat \ {0}, NEW x \in Nat \ {0}, NEW y \in Nat \ {0}, x + y <= 8,
         NEW m \in Nat, m <= 256, m % 8 = 0
  PROVE  HighFits(x * w, y * w, m)
<1> DEFINE b == x * w
           e == y * w
           g == (256 - m) * b
           fl == g \div e
           low == RoundDown8(m - fl)
<1>1. b \in Nat \ {0} /\ e \in Nat \ {0}
  OBVIOUS
<1>2. g \in Nat /\ g = 256 * b - m * b /\ m * b \in Int /\ m * e \in Int
  <2>1. 256 - m \in Nat
    OBVIOUS
  <2> HIDE DEF b
  <2>2. \A u, v \in Nat : u * v \in Nat
    OBVIOUS
  <2>3. g \in Nat
    BY <1>1, <2>1, <2>2
  <2>4. g = 256 * b - m * b /\ m * b \in Int
    BY <1>1
  <2> QED BY <1>1, <2>3, <2>4
<1>3. fl \in Nat /\ fl * e <= g /\ g < (fl + 1) * e
  <2> HIDE DEF g, e
  <2> QED BY <1>1, <1>2, Quotient
<1>4. CASE fl % 8 # 0
  <2> HIDE DEF b, e, g, fl
  <2>1. m - fl \in Int /\ (m - fl) % 8 # 0
    BY <1>3, <1>4
  <2>2. low \in Int /\ low <= m - fl - 1
    BY <2>1, EightsOf
  <2> HIDE DEF low
  <2>3. fl + 1 <= m - low /\ m - low \in Int /\ fl + 1 \in Int
    BY <1>3, <2>2
  <2>4. (fl + 1) * e <= (m - low) * e
    BY <1>1, <2>3, ProductGrows
  <2>5. (m - low) * e = m * e - low * e /\ low * e \in Int /\ (fl + 1) * e \in Int
    BY <1>1, <1>3, <2>2
  <2>6. m * (b + e) = m * b + m * e
    BY <1>1
  <2>7. 256 * b + low * e <= m * (b + e)
    BY <1>1, <1>2, <1>3, <2>4, <2>5, <2>6
  <2> QED BY <2>7 DEF HighFits, low, fl, g, e, b
<1>5. CASE fl % 8 = 0
  <2> DEFINE p == (256 - m) \div 8
             f == fl \div 8
             z == p * x - f * y
             c == 8 * w
  <2>1. p \in Nat /\ 256 - m = 8 * p
    OBVIOUS
  <2>2. f \in Nat /\ fl = 8 * f
    <3> HIDE DEF fl
    <3> QED BY <1>3, <1>5
  <2> HIDE DEF p, f, fl
  <2>3. g = (p * x) * c
    <3>1. g = (8 * p) * (x * w)
      BY <2>1
    <3> QED BY <2>1, <3>1
  <2>4. fl * e = (f * y) * c
    BY <2>2
  <2>5. z \in Int /\ z * c = g - fl * e /\ c \in Nat \ {0}
    <3>1. p * x \in Int /\ f * y \in Int /\ c \in Nat \ {0}
      BY <2>1, <2>2
    <3> HIDE DEF c, g, e
    <3>2. (p * x - f * y) * c = (p * x) * c - (f * y) * c
      BY <3>1
    <3> QED BY <2>3, <2>4, <3>1, <3>2
  <2>6. e < c
    <3>1. y <= 7
      OBVIOUS
    <3>2. y * w <= 7 * w
      BY <3>1, ProductGrows
    <3> QED BY <3>2
  <2>7. (fl + 1) * e = fl * e + e /\ fl * e \in Int
    BY <1>1, <1>3
  <2> HIDE DEF b, e, g, c, z
  <2>8. 0 <= z * c /\ z * c < c
    BY <1>1, <1>2, <1>3, <2>5, <2>6, <2>7
  <2>9. z = 0
    BY <2>5, <2>8, NoMultipleBetween
  <2>10. g = fl * e
    <3>1. z * c = 0
      BY <2>5, <2>9
    <3> QED BY <1>2, <2>5, <2>7, <3>1
  <2>11. low = m - fl
    <3>1. m - fl \in Int /\ (m - fl) % 8 = 0
      BY <1>3, <1>5
    <3> QED BY <3>1, EightsOf
  <2> HIDE DEF low
  <2>12. low * e = m * e - fl * e
    BY <1>1, <1>3, <2>11
  <2>13. m * (b + e) = m * b + m * e
    BY <1>1
  <2>14. 256 * b + low * e <= m * (b + e)
    BY <1>1, <1>2, <2>7, <2>10, <2>12, <2>13
  <2> QED BY <2>14 DEF HighFits, low, fl, g, e, b
<1> QED BY <1>4, <1>5

LEMMA LaunchInRange ==
  ASSUME IInv, maxnreg # 0
  PROVE  /\ maxnreg \in 24 .. 256 /\ maxnreg % 8 = 0
         /\ \E x, y \in Nat \ {0} :
              base = x * WarpsPerGroup /\ ExtraWarps = y * WarpsPerGroup /\ x + y <= 8
<1> DEFINE w == WarpsPerGroup
           e == ExtraWarps
           t == base + e
<1>1. /\ base \in Nat \ {0} /\ base % w = 0 /\ ops \in Seq(Op) /\ ops # <<>>
      /\ e = ExtraOf(ops) /\ e \in Nat /\ user \in UserRegs
  BY Sizes DEF IInv, TypeOK
<1>2. w \in Nat \ {0} /\ RegFile \in 24 * BlockGroups * w .. 512 * w
  BY WarpsAssumption, RegsAssumption
<1>3. e % w = 0 /\ e > 0
  <2>1. e % w = 0 /\ \A i \in DOMAIN ops : Total(ops[i].sizes) \in Nat /\ Total(ops[i].sizes) <= e
    BY <1>1, ExtraFits
  <2>2. 1 \in DOMAIN ops
    BY <1>1
  <2>3. ops[1].sizes \in Seq(Nat \ {0}) /\ ops[1].sizes # <<>>
    <3>1. ops[1] \in Op
      BY <1>1, <2>2
    <3> QED BY <3>1 DEF Op
  <2>4. Total(ops[1].sizes) > 0
    BY <2>3, TotalPositive
  <2> QED BY <1>1, <2>1, <2>2, <2>4
<1>4. t <= 8 * w
  BY DEF IInv, InBlock, BlockGroups
<1> HIDE DEF e, w
<1>5. PICK x \in Nat : base = x * w
  <2>1. base \in Nat /\ w \in Nat \ {0} /\ base % w = 0
    BY <1>1, <1>2
  <2> QED BY ONLY <2>1, MultipleIs
<1>6. PICK y \in Nat : e = y * w
  <2>1. e \in Nat /\ w \in Nat \ {0} /\ e % w = 0
    BY <1>1, <1>2, <1>3
  <2> QED BY ONLY <2>1, MultipleIs
<1>7. x # 0 /\ y # 0
  BY <1>1, <1>2, <1>3, <1>5, <1>6
<1>8. (x + y) * w = t /\ t \in Nat \ {0}
  BY <1>1, <1>2, <1>5, <1>6
<1>9. x + y <= 8
  <2>1. 9 <= x + y => 9 * w <= (x + y) * w
    BY <1>2, ProductGrows
  <2> QED BY <1>2, <1>4, <1>8, <2>1
<1>10. 2 * w <= t
  <2>1. 2 <= x + y
    BY <1>7
  <2> QED BY <1>2, <1>8, <2>1, ProductGrows
<1>11. maxnreg = user \/ maxnreg = LaunchRegs
  BY DEF IInv, Launched
<1>12. ASSUME user # 0 PROVE maxnreg \in 24 .. 256 /\ maxnreg % 8 = 0
  <2>1. maxnreg = user
    BY <1>11, <1>12 DEF LaunchRegs
  <2>2. user \in Nat /\ user >= 24 /\ user <= 256 /\ user % 8 = 0
    BY <1>1, <1>12, UserNat
  <2> QED BY <2>1, <2>2
<1>13. ASSUME user = 0 PROVE maxnreg \in 24 .. 256 /\ maxnreg % 8 = 0
  <2> DEFINE q == RegFile \div t
  <2>1. maxnreg = RoundDown8(q)
    BY <1>11, <1>13 DEF LaunchRegs, e
  <2>2. RegFile \in Nat /\ 192 * w <= RegFile /\ RegFile <= 512 * w
    BY <1>2 DEF BlockGroups
  <2> HIDE DEF t
  <2>3. q \in Nat /\ q * t <= RegFile /\ RegFile < (q + 1) * t
    BY <1>8, <2>2, Quotient
  <2> HIDE DEF q
  <2>4. q >= 24
    <3>1. q + 1 <= 24 => (q + 1) * t <= 24 * t
      BY <1>8, <2>3, ProductGrows
    <3>2. (q + 1) * t \in Int
      BY <1>8, <2>3
    <3> QED BY <1>2, <1>4, <1>8, <2>2, <2>3, <3>1, <3>2
  <2>5. q <= 256
    <3>1. 257 <= q => 257 * t <= q * t
      BY <1>8, <2>3, ProductGrows
    <3>2. q * t \in Int
      BY <1>8, <2>3
    <3> QED BY <1>2, <1>8, <1>10, <2>2, <2>3, <3>1, <3>2
  <2> QED BY <2>1, <2>3, <2>4, <2>5 DEF RoundDown8
<1>14. maxnreg \in 24 .. 256 /\ maxnreg % 8 = 0
  BY <1>12, <1>13
<1> QED BY <1>5, <1>6, <1>7, <1>9, <1>14 DEF e, w

LEMMA HeaderInv == IInv => HeaderFits
<1> SUFFICES ASSUME IInv, maxnreg # 0
             PROVE  DefRegs * base + LowRegs * ExtraWarps <= maxnreg * (base + ExtraWarps)
  BY DEF HeaderFits
<1>1. maxnreg \in 24 .. 256 /\ maxnreg % 8 = 0
  BY LaunchInRange
<1>2. PICK x, y \in Nat \ {0} :
        base = x * WarpsPerGroup /\ ExtraWarps = y * WarpsPerGroup /\ x + y <= 8
  BY LaunchInRange
<1>3. base \in Nat \ {0} /\ ExtraWarps \in Nat /\ WarpsPerGroup \in Nat \ {0}
  BY Sizes, WarpsAssumption DEF IInv
<1>4. CASE RoundDown8(DefaultFirst) > 256
  <2>1. DefRegs = 256
        /\ LowRegs = RoundDown8(maxnreg - (((256 - maxnreg) * base) \div ExtraWarps))
    BY <1>4 DEF DefRegs, LowRegs
  <2>2. maxnreg \in Nat /\ maxnreg <= 256 /\ maxnreg % 8 = 0
    BY <1>1
  <2>3. x \in Nat \ {0} /\ y \in Nat \ {0} /\ WarpsPerGroup \in Nat \ {0}
    BY <1>3
  <2>4. HighFits(x * WarpsPerGroup, y * WarpsPerGroup, maxnreg)
    BY ONLY <1>2, <2>2, <2>3, HighestFits
  <2>5. HighFits(base, ExtraWarps, maxnreg)
    BY ONLY <1>2, <2>4
  <2> QED BY ONLY <2>1, <2>5 DEF HighFits
<1>5. CASE ~(RoundDown8(DefaultFirst) > 256)
  <2>1. /\ DefRegs = RoundDown8(maxnreg + (((maxnreg - 24) * ExtraWarps) \div base))
        /\ LowRegs = 24
    BY <1>5 DEF DefRegs, LowRegs, DefaultFirst
  <2>2. maxnreg \in Nat /\ maxnreg >= 24
    BY <1>1
  <2> QED BY <1>3, <2>1, <2>2, LowestFits
<1> QED BY <1>4, <1>5

-----------------------------------------------------------------------------
(* Theorems *)

\* The invariant holds throughout the pass, whatever order the sort leaves equal
\* sizes in (AllocateWarpGroups.cpp).
THEOREM Invariant == Spec => []IInv
<1>1. Init => IInv
  BY InitInv
<1>2. IInv /\ [Next]_vars => IInv'
  <2> SUFFICES ASSUME IInv, [Next]_vars PROVE IInv'
    OBVIOUS
  <2>1. CASE PadOp
    BY <2>1, PadInv
  <2>2. CASE AssignOp
    BY <2>2, AssignInv
  <2>3. CASE Terminated
    BY <2>3, StutterInv DEF Terminated
  <2>4. CASE UNCHANGED vars
    BY <2>4, StutterInv
  <2> QED BY <2>1, <2>2, <2>3, <2>4 DEF Next
<1> QED BY <1>1, <1>2, PTL DEF Spec

\* Ops, counters and register counts keep their types through padding and layout.
THEOREM TypeCorrect == Spec => []TypeOK
<1>1. IInv => TypeOK
  BY DEF IInv
<1> QED BY <1>1, Invariant, PTL

\* Start IDs put the partitions of every op beside one another from the default
\* partition's end to the end of the last extra warp group: each extra warp is in
\* exactly one of them.
THEOREM Covered == Spec => []WarpsCovered
<1>1. IInv => WarpsCovered
  BY DEF IInv
<1> QED BY <1>1, Invariant, PTL

\* All warps of a hardware warp group execute setmaxnreg with the same count.
THEOREM Agreed == Spec => []GroupsAgree
<1>1. IInv => GroupsAgree
  BY DEF IInv
<1> QED BY <1>1, Invariant, PTL

\* In no op do the default partition and the others ask for more registers than
\* the kernel was launched with.
THEOREM WithinLaunch == Spec => []RegionFits
<1>1. IInv => RegionFits
  BY DEF IInv
<1> QED BY <1>1, Invariant, PTL

\* A partition that is given registers is given at least what it requested.
THEOREM Requested == Spec => []RequestsMet
<1>1. IInv => RequestsMet
  BY DEF IInv
<1> QED BY <1>1, Invariant, PTL

\* The counts the kernel header switches to do not exceed the registers at launch
\* either (ConvertWarpSpecializeToLLVM.cpp), in a block of at most eight warp groups.
THEOREM HeaderWithinLaunch == Spec => []HeaderFits
BY Invariant, HeaderInv, PTL
=============================================================================
