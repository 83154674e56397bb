---------------------------- MODULE OrderLemmas -----------------------------
(***************************************************************************)
(* Induction and recursion over the naturals, stated of sets (the provers  *)
(* cannot instantiate a theorem whose parameter is an operator), and what  *)
(* the project's sequence operators compute: sorting a set by a key,       *)
(* keeping some places of a sequence, and the order of the cloud queue.    *)
(***************************************************************************)
EXTENDS Integers, CloudOrder, WellFoundedInduction, FiniteSetTheorems, SequenceTheorems, TLAPS

\* Every set of naturals that is not empty has a least element.
LEMMA LeastNatural ==
  ASSUME NEW T \in SUBSET Nat, T # {}
  PROVE  \E n \in T : \A m \in T : n <= m
<1> DEFINE R == {ss \in Nat \X Nat : ss[1] < ss[2]}
<1>1. IsWellFoundedOn(R, Nat)
  BY NatLessThanWellFounded DEF OpToRel
<1>2. \A x, y \in Nat : <<y, x>> \notin R => x <= y
  OBVIOUS
<1> HIDE DEF R
<1>3. PICK x \in T : \A y \in T : <<y, x>> \notin R
  BY <1>1, WFMin
<1>4. \A y \in T : x <= y
  BY <1>2, <1>3
<1> QED BY <1>4

\* Induction, as a fact about sets.
LEMMA SetInduction ==
  ASSUME NEW P \in SUBSET Nat, 0 \in P, \A n \in P : n + 1 \in P
  PROVE  P = Nat
<1>1. ASSUME Nat \ P # {} PROVE FALSE
  <2>1. PICK n \in Nat \ P : \A m \in Nat \ P : n <= m
    BY <1>1, LeastNatural
  <2>2. n # 0 /\ n - 1 \in Nat /\ (n - 1) + 1 = n
    BY <2>1
  <2>3. n - 1 \in P
    BY <2>1, <2>2
  <2> QED BY <2>1, <2>2, <2>3
<1> QED BY <1>1

\* In a set of naturals with a bound there is a greatest one.
LEMMA GreatestNatural ==
  ASSUME NEW N \in Nat, NEW T \in SUBSET (0 .. N), T # {}
  PROVE  \E n \in T : \A m \in T : m <= n
<1> DEFINE U == {N - k : k \in T}
<1>1. U \in SUBSET Nat /\ U # {}
  <2>1. \A k \in T : N - k \in Nat
    OBVIOUS
  <2>2. \E k : k \in T
    OBVIOUS
  <2> QED BY <2>1, <2>2
<1>2. PICK u \in U : \A v \in U : u <= v
  BY <1>1, LeastNatural
<1>3. PICK n \in T : u = N - n
  OBVIOUS
<1>4. \A m \in T : N - m \in U
  OBVIOUS
<1>5. \A m \in T : m <= n
  BY <1>2, <1>3, <1>4
<1> QED BY <1>5

\* A function on S can be iterated as often as one likes.
LEMMA Iteration ==
  ASSUME NEW N \in Nat, NEW S, NEW a \in S, NEW G \in [S -> S]
  PROVE  \E u \in [0 .. N -> S] : u[0] = a /\ \A k \in 1 .. N : u[k] = G[u[k - 1]]
<1> DEFINE Run(n, u) == u[0] = a /\ \A k \in 1 .. n : u[k] = G[u[k - 1]]
           P == {n \in Nat : \E u \in [0 .. n -> S] : Run(n, u)}
<1>1. 0 \in P
  <2>1. [k \in 0 .. 0 |-> a] \in [0 .. 0 -> S] /\ Run(0, [k \in 0 .. 0 |-> a])
    OBVIOUS
  <2> QED BY <2>1
<1>2. ASSUME NEW n \in P PROVE n + 1 \in P
  <2>1. n \in Nat
    OBVIOUS
  <2>2. PICK u \in [0 .. n -> S] : Run(n, u)
    OBVIOUS
  <2> DEFINE v == [k \in 0 .. (n + 1) |-> IF k = n + 1 THEN G[u[n]] ELSE u[k]]
  <2>3. v \in [0 .. (n + 1) -> S]
    BY <2>1
  <2>4. \A k \in 0 .. n : v[k] = u[k]
    BY <2>1
  <2>5. v[n + 1] = G[u[n]]
    BY <2>1
  <2> HIDE DEF v
  <2>6. v[0] = a
    BY <2>1, <2>2, <2>4
  <2>7. ASSUME NEW k \in 1 .. (n + 1) PROVE v[k] = G[v[k - 1]]
    <3>1. CASE k = n + 1
      <4>1. k - 1 = n /\ n \in 0 .. n
        BY <2>1, <3>1
      <4> QED BY <2>4, <2>5, <3>1, <4>1
    <3>2. CASE k # n + 1
      <4>1. k \in 1 .. n /\ k \in 0 .. n /\ k - 1 \in 0 .. n
        BY <2>1, <3>2
      <4>2. u[k] = G[u[k - 1]]
        BY <2>2, <4>1
      <4> QED BY <2>4, <4>1, <4>2
    <3> QED BY <3>1, <3>2
  <2> QED BY <2>1, <2>3, <2>6, <2>7
<1> HIDE DEF P
<1>3. P = Nat
  <2>1. P \in SUBSET Nat
    BY DEF P
  <2> QED BY <1>1, <1>2, <2>1, SetInduction
<1> QED BY <1>3 DEF P

-----------------------------------------------------------------------------
(* Sorting a set and keeping some places of a sequence.                    *)

\* No two members of S have the same key.
DistinctKeys(S, key) ==
    /\ \A x \in S : key[x] \in Nat
    /\ \A x, y \in S : key[x] = key[y] => x = y

\* How many members of S come before x.
PlacesBefore(S, key, x) == Cardinality({y \in S : key[y] < key[x]})

\* Ranks are below the size of S and ordered as the keys are.
LEMMA RankOrder ==
  ASSUME NEW S, IsFiniteSet(S), NEW key, DistinctKeys(S, key)
  PROVE  /\ \A x \in S : PlacesBefore(S, key, x) \in 0 .. (Cardinality(S) - 1)
         /\ \A x, y \in S : key[x] < key[y] => PlacesBefore(S, key, x) < PlacesBefore(S, key, y)
<1> DEFINE Below(x) == {y \in S : key[y] < key[x]}
<1>1. ASSUME NEW x \in S
      PROVE  /\ x \notin Below(x) /\ Below(x) \in SUBSET S /\ Below(x) \cup {x} \in SUBSET S
             /\ IsFiniteSet(Below(x)) /\ Cardinality(Below(x)) \in Nat
             /\ Cardinality(Below(x) \cup {x}) = Cardinality(Below(x)) + 1
  <2>1. x \notin Below(x) /\ Below(x) \in SUBSET S /\ Below(x) \cup {x} \in SUBSET S
    BY DEF DistinctKeys
  <2>2. IsFiniteSet(Below(x))
    BY <2>1, FS_Subset
  <2> HIDE DEF Below
  <2> QED BY <2>1, <2>2, FS_CardinalityType, FS_AddElement
<1>2. Cardinality(S) \in Nat
  BY FS_CardinalityType
<1>3. ASSUME NEW x \in S PROVE Cardinality(Below(x)) \in 0 .. (Cardinality(S) - 1)
  <2> HIDE DEF Below
  <2>1. Cardinality(Below(x) \cup {x}) <= Cardinality(S)
    BY <1>1, FS_Subset
  <2> QED BY <1>1, <1>2, <2>1
<1>4. ASSUME NEW x \in S, NEW y \in S, key[x] < key[y]
      PROVE  Cardinality(Below(x)) < Cardinality(Below(y))
  <2>1. Below(x) \cup {x} \in SUBSET Below(y)
    BY <1>4 DEF DistinctKeys
  <2> HIDE DEF Below
  <2>2. Cardinality(Below(x) \cup {x}) <= Cardinality(Below(y))
    BY <1>1, <2>1, FS_Subset
  <2>3. /\ Cardinality(Below(x)) \in Nat /\ Cardinality(Below(y)) \in Nat
        /\ Cardinality(Below(x) \cup {x}) = Cardinality(Below(x)) + 1
    BY <1>1
  <2> QED BY <2>2, <2>3
<1> QED BY <1>3, <1>4 DEF PlacesBefore

\* Every rank below the size of S is taken.
LEMMA RankOnto ==
  ASSUME NEW S, IsFiniteSet(S), NEW key, DistinctKeys(S, key),
         NEW i \in 1 .. Cardinality(S)
  PROVE  \E x \in S : PlacesBefore(S, key, x) = i - 1
<1> DEFINE N == Cardinality(S)
           f == [x \in S |-> PlacesBefore(S, key, x)]
<1>1. N \in Nat
  BY FS_CardinalityType
<1>2. f \in [S -> 0 .. (N - 1)]
  BY RankOrder
<1>3. ASSUME NEW x \in S, NEW y \in S, x # y PROVE f[x] # f[y]
  <2>1. key[x] < key[y] \/ key[y] < key[x]
    BY <1>3 DEF DistinctKeys
  <2>2. f[x] < f[y] \/ f[y] < f[x]
    BY <2>1, RankOrder
  <2>3. f[x] \in Int /\ f[y] \in Int
    BY <1>1, <1>2
  <2> HIDE DEF f
  <2> QED BY <2>2, <2>3
<1> HIDE DEF f, N
<1>4. f \in Injection(S, 0 .. (N - 1))
  BY <1>2, <1>3 DEF Injection, IsInjective
<1>5. IsFiniteSet(0 .. (N - 1)) /\ Cardinality(0 .. (N - 1)) = N
  <2>1. 0 \in Int /\ N - 1 \in Int
    BY <1>1
  <2>2. Cardinality(0 .. (N - 1)) = IF 0 > N - 1 THEN 0 ELSE N - 1 - 0 + 1
    BY <2>1, FS_Interval
  <2> QED BY <1>1, <2>1, <2>2, FS_Interval
<1>6. f \in Surjection(S, 0 .. (N - 1))
  BY <1>4, <1>5, FS_Injection DEF N
<1>7. i - 1 \in 0 .. (N - 1)
  BY <1>1 DEF N
<1>8. PICK x \in S : f[x] = i - 1
  BY <1>6, <1>7 DEF Surjection
<1> QED BY <1>8 DEF f

\* SortedBy lists S once each, by increasing key.
LEMMA SortedLists ==
  ASSUME NEW S, IsFiniteSet(S), NEW key, DistinctKeys(S, key)
  PROVE  /\ Cardinality(S) \in Nat
         /\ SortedBy(S, key) \in Seq(S) /\ Len(SortedBy(S, key)) = Cardinality(S)
         /\ \A i \in 1 .. Cardinality(S) : SortedBy(S, key)[i] \in S
         /\ \A i, j \in 1 .. Cardinality(S) : i < j => key[SortedBy(S, key)[i]] < key[SortedBy(S, key)[j]]
         /\ \A i, j \in 1 .. Cardinality(S) : SortedBy(S, key)[i] = SortedBy(S, key)[j] => i = j
         /\ \A x \in S : \E i \in 1 .. Cardinality(S) : SortedBy(S, key)[i] = x
<1> DEFINE s == SortedBy(S, key)
<1> DEFINE N == Cardinality(S)
<1>1. N \in Nat
  BY FS_CardinalityType
<1>2. s = [i \in 1 .. N |-> CHOOSE x \in S : PlacesBefore(S, key, x) = i - 1]
  BY DEF SortedBy, PlacesBefore
<1> HIDE DEF s
<1>3. ASSUME NEW i \in 1 .. N PROVE s[i] \in S /\ PlacesBefore(S, key, s[i]) = i - 1
  BY <1>2, RankOnto
<1>4. s \in Seq(S) /\ Len(s) = N
  <2>1. s \in [1 .. N -> S]
    BY <1>2, <1>3
  <2> QED BY <1>1, <2>1
<1>5. ASSUME NEW i \in 1 .. N, NEW j \in 1 .. N, i < j PROVE key[s[i]] < key[s[j]]
  <2>1. key[s[i]] \in Nat /\ key[s[j]] \in Nat /\ s[i] \in S /\ s[j] \in S
    BY <1>3 DEF DistinctKeys
  <2>2. ASSUME key[s[j]] < key[s[i]] PROVE FALSE
    <3>1. PlacesBefore(S, key, s[j]) < PlacesBefore(S, key, s[i])
      BY <2>1, <2>2, RankOrder
    <3> QED BY <1>1, <1>3, <1>5, <3>1
  <2>3. ASSUME key[s[j]] = key[s[i]] PROVE FALSE
    <3>1. s[i] = s[j]
      BY <2>1, <2>3 DEF DistinctKeys
    <3>2. i - 1 = j - 1
      BY <1>3, <3>1
    <3> QED BY <1>1, <1>5, <3>2
  <2> QED BY <2>1, <2>2, <2>3
<1>6. ASSUME NEW i \in 1 .. N, NEW j \in 1 .. N, s[i] = s[j] PROVE i = j
  <2>1. i - 1 = j - 1
    BY <1>3, <1>6
  <2> QED BY <1>1, <2>1
<1>7. ASSUME NEW x \in S PROVE \E i \in 1 .. N : s[i] = x
  <2> DEFINE i == PlacesBefore(S, key, x) + 1
  <2>1. PlacesBefore(S, key, x) \in 0 .. (N - 1)
    BY RankOrder
  <2>2. i \in 1 .. N /\ PlacesBefore(S, key, x) = i - 1
    BY <1>1, <2>1
  <2>3. s[i] \in S /\ PlacesBefore(S, key, s[i]) = PlacesBefore(S, key, x)
    BY <1>3, <2>2
  <2>4. ~(key[s[i]] < key[x]) /\ ~(key[x] < key[s[i]])
    BY <1>1, <2>1, <2>3, RankOrder
  <2>5. s[i] = x
    BY <2>3, <2>4 DEF DistinctKeys
  <2> QED BY <2>2, <2>5
<1> QED BY <1>1, <1>3, <1>4, <1>5, <1>6, <1>7 DEF s

\* Kept takes the entries of s at the places P in their order.
LEMMA KeptInOrder ==
  ASSUME NEW A, NEW s \in Seq(A), NEW P \in SUBSET (1 .. Len(s))
  PROVE  \E f : /\ Cardinality(P) \in Nat
                /\ Kept(s, P) \in Seq(A) /\ Len(Kept(s, P)) = Cardinality(P)
                /\ DOMAIN Kept(s, P) = 1 .. Cardinality(P)
                /\ \A k \in 1 .. Cardinality(P) : f[k] \in P /\ Kept(s, P)[k] = s[f[k]]
                /\ \A j, k \in 1 .. Cardinality(P) : j < k => f[j] < f[k]
                /\ \A i \in P : \E k \in 1 .. Cardinality(P) : f[k] = i
<1> DEFINE key == [i \in P |-> i]
           f == SortedBy(P, key)
           N == Cardinality(P)
           q == Kept(s, P)
<1>1. Len(s) \in Nat
  OBVIOUS
<1>2. IsFiniteSet(P)
  <2>1. IsFiniteSet(1 .. Len(s))
    BY <1>1, FS_Interval
  <2> QED BY <2>1, FS_Subset
<1>3. DistinctKeys(P, key)
  BY <1>1 DEF DistinctKeys
<1>4. key[1] = key[1] /\ \A i \in P : key[i] = i
  OBVIOUS
<1>5. q = [k \in 1 .. N |-> s[f[k]]]
  BY DEF Kept
<1> HIDE DEF key, f
<1>6. /\ N \in Nat /\ \A i \in 1 .. N : f[i] \in P
      /\ \A i, j \in 1 .. N : i < j => key[f[i]] < key[f[j]]
      /\ \A x \in P : \E i \in 1 .. N : f[i] = x
  BY <1>2, <1>3, SortedLists DEF f
<1>7. \A i, j \in 1 .. N : i < j => f[i] < f[j]
  BY <1>4, <1>6
<1>8. q \in [1 .. N -> A] /\ \A k \in 1 .. N : q[k] = s[f[k]]
  <2>1. \A i \in P : s[i] \in A
    BY <1>1
  <2>2. \A k \in 1 .. N : s[f[k]] \in A
    BY <1>6, <2>1
  <2> HIDE DEF q
  <2> QED BY <1>5, <2>2
<1> HIDE DEF q
<1>9. q \in Seq(A) /\ Len(q) = N /\ DOMAIN q = 1 .. N
  BY <1>6, <1>8
<1> QED BY <1>6, <1>7, <1>8, <1>9 DEF q

-----------------------------------------------------------------------------
(* The order of the cloud queue.                                           *)

EntriesOf(s) == {s[i] : i \in 1 .. Len(s)}

\* The states of the loop.
KahnStates(Q) == [ready : Seq(Q), inDegree : [Q -> Int], sorted : Seq(Q)]

\* D[n] are the entries with at most n generations of queued ancestors.
Layers(Q, parents, M, D) ==
    /\ D \in [0 .. M -> SUBSET Q]
    /\ \A d \in Q : d \in D[0] <=> parents[d] \cap Q = {}
    /\ \A n \in 1 .. M : \A d \in Q : d \in D[n] <=> parents[d] \cap Q \subseteq D[n - 1]

\* What holds between two pops of the ready list, of the entries L seen so far
\* and the emitted prefix: in-degrees count the parents not emitted, exactly the
\* entries without one have been seen, and nothing overtakes its generation.
KahnCounts(Q, parents, degree, sorted, L) ==
    /\ \A i, j \in 1 .. Len(L) : L[i] = L[j] => i = j
    /\ \A c \in Q : degree[c] = Cardinality((parents[c] \cap Q) \ EntriesOf(sorted))
    /\ \A c \in Q : c \in EntriesOf(L) <=> (parents[c] \cap Q) \ EntriesOf(sorted) = {}
KahnCausal(Q, parents, sorted) ==
    \A j \in 1 .. Len(sorted) : \A p \in parents[sorted[j]] \cap Q :
        \E i \in 1 .. Len(sorted) : i < j /\ sorted[i] = p
KahnLayers(M, D, L) ==
    \A i, j \in 1 .. Len(L) : \A n \in 0 .. M : i < j /\ L[j] \in D[n] => L[i] \in D[n]
KahnInv(Q, parents, M, D, st) ==
    /\ st \in KahnStates(Q)
    /\ KahnCounts(Q, parents, st.inDegree, st.sorted, st.sorted \o st.ready)
    /\ KahnCausal(Q, parents, st.sorted)
    /\ KahnLayers(M, D, st.sorted \o st.ready)

\* A part of the queue in queue order.
LEMMA InOrder ==
  ASSUME NEW Q, IsFiniteSet(Q), NEW ticket, DistinctKeys(Q, ticket), NEW S \in SUBSET Q
  PROVE  /\ InQueueOrder(S, ticket) \in Seq(Q) /\ EntriesOf(InQueueOrder(S, ticket)) = S
         /\ Len(InQueueOrder(S, ticket)) = Cardinality(S) /\ Cardinality(S) \in Nat
         /\ \A i, j \in 1 .. Len(InQueueOrder(S, ticket)) :
               InQueueOrder(S, ticket)[i] = InQueueOrder(S, ticket)[j] => i = j
<1> DEFINE w == SortedBy(S, ticket)
           N == Cardinality(S)
<1>1. IsFiniteSet(S)
  BY FS_Subset
<1>2. DistinctKeys(S, ticket)
  BY DEF DistinctKeys
<1> HIDE DEF N, w
<1>4. /\ w \in Seq(S) /\ Len(w) = N /\ N \in Nat
      /\ \A i \in 1 .. N : w[i] \in S
      /\ \A i, j \in 1 .. N : w[i] = w[j] => i = j
      /\ \A x \in S : \E i \in 1 .. N : w[i] = x
  BY <1>1, <1>2, SortedLists DEF N, w
<1>5. EntriesOf(w) = S
  BY <1>4 DEF EntriesOf
<1>6. w \in Seq(Q)
  BY <1>4, SeqMonotonic
<1> QED BY <1>4, <1>5, <1>6 DEF w, N, InQueueOrder

\* The head of a queue moves to the end of the list before it.
LEMMA HeadMoves ==
  ASSUME NEW Q, NEW s \in Seq(Q), NEW r \in Seq(Q), r # <<>>, NEW w \in Seq(Q)
  PROVE  Append(s, Head(r)) \o (Tail(r) \o w) = (s \o r) \o w
<1> DEFINE a == Append(s, Head(r))
<1>1. /\ Head(r) \in Q /\ Tail(r) \in Seq(Q) /\ Len(Tail(r)) = Len(r) - 1 /\ Head(r) = r[1]
      /\ \A i \in 1 .. (Len(r) - 1) : Tail(r)[i] = r[i + 1]
      /\ Len(r) \in Nat /\ Len(r) > 0 /\ Len(s) \in Nat /\ Len(w) \in Nat
  OBVIOUS
<1>2. /\ a \in Seq(Q) /\ Len(a) = Len(s) + 1 /\ \A i \in 1 .. Len(s) : a[i] = s[i]
      /\ a[Len(s) + 1] = r[1]
  BY <1>1, AppendProperties
<1> HIDE DEF a
<1>3. a \o Tail(r) \in Seq(Q) /\ s \o r \in Seq(Q)
  BY <1>1, <1>2
<1>4. Len(a \o Tail(r)) = Len(s \o r)
  BY <1>1, <1>2
<1>5. ASSUME NEW i \in 1 .. Len(s \o r) PROVE (a \o Tail(r))[i] = (s \o r)[i]
  <2>1. i \in 1 .. (Len(s) + Len(r)) /\ i \in 1 .. (Len(a) + Len(Tail(r)))
    BY <1>1, <1>2
  <2>2. (s \o r)[i] = IF i <= Len(s) THEN s[i] ELSE r[i - Len(s)]
    BY <2>1, ConcatProperties
  <2>3. (a \o Tail(r))[i] = IF i <= Len(a) THEN a[i] ELSE Tail(r)[i - Len(a)]
    BY <1>1, <1>2, <2>1, ConcatProperties
  <2>4. CASE i <= Len(s)
    BY <1>1, <1>2, <2>1, <2>2, <2>3, <2>4
  <2>5. CASE i = Len(s) + 1
    BY <1>1, <1>2, <2>1, <2>2, <2>3, <2>5
  <2>6. CASE i > Len(s) + 1
    <3>1. i - Len(a) \in 1 .. (Len(r) - 1) /\ (i - Len(a)) + 1 = i - Len(s)
      BY <1>1, <1>2, <2>1, <2>6
    <3> QED BY <1>1, <1>2, <2>1, <2>2, <2>3, <2>6, <3>1
  <2> QED BY <1>1, <2>1, <2>4, <2>5, <2>6
<1>6. a \o Tail(r) = s \o r
  BY <1>3, <1>4, <1>5, SeqEqual
<1>7. a \in Seq(Q) /\ Tail(r) \in Seq(Q)
  BY <1>1, <1>2
<1>8. (a \o Tail(r)) \o w = a \o (Tail(r) \o w)
  BY <1>7, ConcatAssociative
<1> QED BY <1>6, <1>8 DEF a

\* The entries that emitting node frees.
Freed(Q, parents, degree, node) == {c \in Q : node \in parents[c] /\ degree[c] = 1}

\* What emitting node does: w lists the freed entries, degree2 are the in-degrees
\* afterwards.
Decrements(Q, parents, degree, node, w, degree2) ==
    /\ EntriesOf(w) = Freed(Q, parents, degree, node)
    /\ \A i, j \in 1 .. Len(w) : w[i] = w[j] => i = j
    /\ \A c \in Q : degree2[c] = IF node \in parents[c] THEN degree[c] - 1 ELSE degree[c]

\* What one pop does to the lists: the entries seen gain those it frees.
Pops(Q, parents, st, node, w, st2) ==
    /\ node \in Q /\ node = Head(st.ready) /\ w \in Seq(Q) /\ st2 \in KahnStates(Q)
    /\ Decrements(Q, parents, st.inDegree, node, w, st2.inDegree)
    /\ st2.sorted = Append(st.sorted, node)
    /\ st2.sorted \o st2.ready = (st.sorted \o st.ready) \o w

\* KahnPop does so.
LEMMA PopLists ==
  ASSUME NEW Q, IsFiniteSet(Q), NEW parents, NEW ticket, DistinctKeys(Q, ticket),
         NEW st \in KahnStates(Q), st.ready # <<>>
  PROVE  \E node, w : Pops(Q, parents, st, node, w, KahnPop(Q, parents, ticket, st))
<1> DEFINE node == Head(st.ready)
           free == Freed(Q, parents, st.inDegree, node)
           w == InQueueOrder(free, ticket)
           st2 == KahnPop(Q, parents, ticket, st)
           deg == [c \in Q |-> IF node \in parents[c] THEN st.inDegree[c] - 1 ELSE st.inDegree[c]]
           kids == {c \in Q : node \in parents[c]}
<1>1. st.ready \in Seq(Q) /\ st.sorted \in Seq(Q) /\ st.inDegree \in [Q -> Int]
  BY DEF KahnStates
<1>2. node \in Q /\ Tail(st.ready) \in Seq(Q)
  BY <1>1
<1>3. free \in SUBSET Q
  BY DEF Freed
<1>4. {c \in kids : st.inDegree[c] = 1} = free
  BY DEF Freed
<1>5. deg = [c \in Q |-> IF c \in kids THEN st.inDegree[c] - 1 ELSE st.inDegree[c]]
  OBVIOUS
<1>6. st2 = [ready |-> Tail(st.ready) \o w, inDegree |-> deg, sorted |-> Append(st.sorted, node)]
  <2> HIDE DEF kids, deg
  <2> QED BY <1>4, <1>5 DEF KahnPop, kids
<1>7. deg \in [Q -> Int] /\ \A c \in Q : deg[c] = IF node \in parents[c] THEN st.inDegree[c] - 1 ELSE st.inDegree[c]
  BY <1>1
<1> HIDE DEF free
<1>8. /\ w \in Seq(Q) /\ EntriesOf(w) = free
      /\ \A i, j \in 1 .. Len(w) : w[i] = w[j] => i = j
  BY <1>3, InOrder
<1> HIDE DEF w
<1>9. Append(st.sorted, node) \o (Tail(st.ready) \o w) = (st.sorted \o st.ready) \o w
  <2>1. w \in Seq(Q)
    BY <1>8
  <2>2. \A s, r, v \in Seq(Q) : r # <<>> => Append(s, Head(r)) \o (Tail(r) \o v) = (s \o r) \o v
    BY HeadMoves
  <2> QED BY <1>1, <2>1, <2>2, Zenon
<1> HIDE DEF deg, st2
<1>10. st2 \in KahnStates(Q)
  <2>1. Append(st.sorted, node) \in Seq(Q)
    BY <1>1, <1>2
  <2>2. Tail(st.ready) \o w \in Seq(Q)
    BY <1>2, <1>8
  <2> QED BY <1>6, <1>7, <2>1, <2>2 DEF KahnStates
<1>11. st2.sorted = Append(st.sorted, node) /\ st2.ready = Tail(st.ready) \o w /\ st2.inDegree = deg
  BY <1>6
<1>12. st2.sorted \o st2.ready = (st.sorted \o st.ready) \o w
  BY <1>9, <1>11
<1>13. node \in Q /\ w \in Seq(Q)
  BY <1>2, <1>8
<1>14. Decrements(Q, parents, st.inDegree, node, w, st2.inDegree)
  BY <1>7, <1>8, <1>11 DEF Decrements, free
<1>15. Pops(Q, parents, st, node, w, st2)
  BY <1>10, <1>11, <1>12, <1>13, <1>14 DEF Pops
<1> QED BY <1>15 DEF st2

\* The next entry to emit: L lists the entries seen, s those emitted.
Emits(s, L, node) ==
    /\ Len(s) < Len(L) /\ node = L[Len(s) + 1]
    /\ \A i \in 1 .. Len(s) : s[i] = L[i]

\* The lists of a state whose ready list is not empty.
LEMMA HeadIsNext ==
  ASSUME NEW Q, NEW s \in Seq(Q), NEW r \in Seq(Q), r # <<>>
  PROVE  s \o r \in Seq(Q) /\ Emits(s, s \o r, Head(r))
<1>1. Len(s) \in Nat /\ Len(r) \in Nat /\ Len(r) > 0 /\ Head(r) = r[1]
  OBVIOUS
<1>2. /\ s \o r \in Seq(Q) /\ Len(s \o r) = Len(s) + Len(r)
      /\ \A i \in 1 .. (Len(s) + Len(r)) : (s \o r)[i] = IF i <= Len(s) THEN s[i] ELSE r[i - Len(s)]
  BY ConcatProperties
<1>3. Len(s) + 1 \in 1 .. (Len(s) + Len(r)) /\ Len(s) + 1 - Len(s) = 1 /\ ~(Len(s) + 1 <= Len(s))
  BY <1>1
<1>4. (s \o r)[Len(s) + 1] = Head(r)
  BY <1>1, <1>2, <1>3
<1>5. \A i \in 1 .. Len(s) : s[i] = (s \o r)[i]
  BY <1>1, <1>2
<1> QED BY <1>1, <1>2, <1>4, <1>5 DEF Emits

\* Emitting an entry.
LEMMA EmittedSet ==
  ASSUME NEW Q, NEW s \in Seq(Q), NEW node \in Q
  PROVE  /\ Append(s, node) \in Seq(Q) /\ Len(Append(s, node)) = Len(s) + 1
         /\ \A i \in 1 .. Len(s) : Append(s, node)[i] = s[i]
         /\ Append(s, node)[Len(s) + 1] = node
         /\ EntriesOf(Append(s, node)) = EntriesOf(s) \cup {node}
<1> DEFINE t == Append(s, node)
<1>1. /\ t \in Seq(Q) /\ Len(t) = Len(s) + 1 /\ \A i \in 1 .. Len(s) : t[i] = s[i]
      /\ t[Len(s) + 1] = node /\ Len(s) \in Nat
  BY AppendProperties
<1> HIDE DEF t
<1>2. \A i \in 1 .. (Len(s) + 1) : i = Len(s) + 1 \/ i \in 1 .. Len(s)
  BY <1>1
<1>3. EntriesOf(t) \subseteq EntriesOf(s) \cup {node}
  BY <1>1, <1>2 DEF EntriesOf
<1>4. EntriesOf(s) \cup {node} \subseteq EntriesOf(t)
  BY <1>1 DEF EntriesOf
<1>5. EntriesOf(t) = EntriesOf(s) \cup {node}
  BY <1>3, <1>4
<1> QED BY <1>1, <1>5 DEF t

\* Two lists one after the other.
LEMMA JoinedSet ==
  ASSUME NEW Q, NEW s \in Seq(Q), NEW t \in Seq(Q)
  PROVE  /\ s \o t \in Seq(Q) /\ Len(s \o t) = Len(s) + Len(t) /\ Len(s) \in Nat /\ Len(t) \in Nat
         /\ \A i \in 1 .. Len(s) : (s \o t)[i] = s[i]
         /\ \A i \in 1 .. (Len(s) + Len(t)) :
               i > Len(s) => i - Len(s) \in 1 .. Len(t) /\ (s \o t)[i] = t[i - Len(s)]
         /\ EntriesOf(s \o t) = EntriesOf(s) \cup EntriesOf(t)
<1> DEFINE v == s \o t
<1>1. /\ v \in Seq(Q) /\ Len(v) = Len(s) + Len(t)
      /\ \A i \in 1 .. (Len(s) + Len(t)) : v[i] = IF i <= Len(s) THEN s[i] ELSE t[i - Len(s)]
  BY ConcatProperties
<1>2. Len(s) \in Nat /\ Len(t) \in Nat
  OBVIOUS
<1> HIDE DEF v
<1>3. \A i \in 1 .. Len(s) : v[i] = s[i]
  BY <1>1, <1>2
<1>4. \A i \in 1 .. (Len(s) + Len(t)) : i > Len(s) => i - Len(s) \in 1 .. Len(t) /\ v[i] = t[i - Len(s)]
  BY <1>1, <1>2
<1>5. ASSUME NEW x \in EntriesOf(v) PROVE x \in EntriesOf(s) \cup EntriesOf(t)
  <2>1. PICK i \in 1 .. (Len(s) + Len(t)) : x = v[i]
    BY <1>1 DEF EntriesOf
  <2>2. CASE i <= Len(s)
    <3>1. i \in 1 .. Len(s)
      BY <1>2, <2>2
    <3> QED BY <1>3, <2>1, <3>1 DEF EntriesOf
  <2>3. CASE i > Len(s)
    BY <1>4, <2>1, <2>3 DEF EntriesOf
  <2> QED BY <1>2, <2>2, <2>3
<1>6. ASSUME NEW x \in EntriesOf(s) PROVE x \in EntriesOf(v)
  <2>1. PICK i \in 1 .. Len(s) : x = s[i]
    BY DEF EntriesOf
  <2>2. i \in 1 .. Len(v)
    BY <1>1, <1>2
  <2> QED BY <1>3, <2>1, <2>2 DEF EntriesOf
<1>7. ASSUME NEW x \in EntriesOf(t) PROVE x \in EntriesOf(v)
  <2>1. PICK i \in 1 .. Len(t) : x = t[i]
    BY DEF EntriesOf
  <2>2. Len(s) + i \in 1 .. Len(v) /\ Len(s) + i > Len(s) /\ (Len(s) + i) - Len(s) = i
    BY <1>1, <1>2
  <2>3. v[Len(s) + i] = t[i]
    BY <1>1, <1>4, <2>2
  <2> QED BY <2>1, <2>2, <2>3 DEF EntriesOf
<1>8. EntriesOf(v) = EntriesOf(s) \cup EntriesOf(t)
  BY <1>5, <1>6, <1>7
<1> QED BY <1>1, <1>2, <1>3, <1>4, <1>8 DEF v

\* The in-degrees and the entries seen after one pop.
LEMMA PopCounts ==
  ASSUME NEW Q, IsFiniteSet(Q), NEW parents, NEW s \in Seq(Q), NEW L \in Seq(Q), NEW w \in Seq(Q),
         NEW node \in Q, NEW degree, NEW degree2,
         Emits(s, L, node), KahnCounts(Q, parents, degree, s, L),
         Decrements(Q, parents, degree, node, w, degree2)
  PROVE  KahnCounts(Q, parents, degree2, Append(s, node), L \o w)
<1> DEFINE Open(c) == (parents[c] \cap Q) \ EntriesOf(s)
           Left(c) == (parents[c] \cap Q) \ EntriesOf(Append(s, node))
<1>0. /\ EntriesOf(w) = {c \in Q : node \in parents[c] /\ degree[c] = 1}
      /\ \A i, j \in 1 .. Len(w) : w[i] = w[j] => i = j
      /\ \A c \in Q : degree2[c] = IF node \in parents[c] THEN degree[c] - 1 ELSE degree[c]
  BY DEF Decrements, Freed
<1>1. node \notin EntriesOf(s) /\ node \in EntriesOf(L)
  <2>1. Len(s) \in Nat /\ Len(L) \in Nat /\ Len(s) + 1 \in 1 .. Len(L) /\ \A i \in 1 .. Len(s) : i \in 1 .. Len(L)
    BY DEF Emits
  <2>2. ASSUME NEW i \in 1 .. Len(s), s[i] = node PROVE FALSE
    <3>1. L[i] = L[Len(s) + 1]
      BY <2>2 DEF Emits
    <3>2. i = Len(s) + 1
      BY <2>1, <3>1 DEF KahnCounts
    <3> QED BY <2>1, <3>2
  <2> QED BY <2>1, <2>2 DEF EntriesOf, Emits
<1>2. EntriesOf(Append(s, node)) = EntriesOf(s) \cup {node}
  BY EmittedSet
<1>3. ASSUME NEW c \in Q
      PROVE  /\ IsFiniteSet(Open(c)) /\ Cardinality(Open(c)) \in Nat /\ degree[c] = Cardinality(Open(c))
             /\ c \in EntriesOf(L) <=> Open(c) = {}
             /\ Left(c) = Open(c) \ {node}
  <2>1. Open(c) \in SUBSET Q
    OBVIOUS
  <2>2. IsFiniteSet(Open(c))
    BY <2>1, FS_Subset
  <2>3. Left(c) = Open(c) \ {node}
    BY <1>2
  <2>4. degree[c] = Cardinality(Open(c)) /\ (c \in EntriesOf(L) <=> Open(c) = {})
    BY DEF KahnCounts
  <2> HIDE DEF Open, Left
  <2> QED BY <2>2, <2>3, <2>4, FS_CardinalityType
<1>4. \A c \in Q : node \in parents[c] <=> node \in Open(c)
  BY <1>1
<1> HIDE DEF Open, Left
<1>5. ASSUME NEW c \in Q PROVE degree2[c] = Cardinality(Left(c))
  <2>1. CASE node \in parents[c]
    <3>1. Cardinality(Open(c) \ {node}) = Cardinality(Open(c)) - 1
      BY <1>3, <1>4, <2>1, FS_RemoveElement
    <3> QED BY <1>0, <1>3, <2>1, <3>1
  <2>2. CASE node \notin parents[c]
    <3>1. Open(c) \ {node} = Open(c)
      BY <1>4, <2>2
    <3> QED BY <1>0, <1>3, <2>2, <3>1
  <2> QED BY <2>1, <2>2
<1>6. /\ EntriesOf(L \o w) = EntriesOf(L) \cup EntriesOf(w)
      /\ Len(L \o w) = Len(L) + Len(w) /\ Len(L) \in Nat /\ Len(w) \in Nat
      /\ \A i \in 1 .. Len(L) : (L \o w)[i] = L[i]
      /\ \A i \in 1 .. (Len(L) + Len(w)) :
            i > Len(L) => i - Len(L) \in 1 .. Len(w) /\ (L \o w)[i] = w[i - Len(L)]
  BY JoinedSet
<1>7. ASSUME NEW c \in Q PROVE c \in EntriesOf(w) <=> node \in Open(c) /\ Left(c) = {}
  <2>1. ASSUME node \in Open(c), degree[c] = 1 PROVE Left(c) = {}
    <3>1. IsFiniteSet(Left(c)) /\ Cardinality(Left(c)) = 0
      BY <1>3, <2>1, FS_RemoveElement
    <3> QED BY <3>1, FS_EmptySet
  <2>2. ASSUME node \in Open(c), Left(c) = {} PROVE degree[c] = 1
    <3>1. Open(c) = {node}
      BY <1>3, <2>2
    <3> QED BY <1>3, <3>1, FS_Singleton
  <2> QED BY <1>0, <1>4, <2>1, <2>2
<1>8. ASSUME NEW c \in Q PROVE c \in EntriesOf(L \o w) <=> Left(c) = {}
  BY <1>3, <1>6, <1>7
<1>9. \A x : ~(x \in EntriesOf(L) /\ x \in EntriesOf(w))
  <2>1. ASSUME NEW x, x \in EntriesOf(L), x \in EntriesOf(w) PROVE FALSE
    <3>1. x \in Q
      BY <1>0, <2>1
    <3> QED BY <1>3, <1>7, <2>1, <3>1
  <2> QED BY <2>1
<1>10. ASSUME NEW i \in 1 .. Len(L \o w), NEW j \in 1 .. Len(L \o w), (L \o w)[i] = (L \o w)[j]
       PROVE  i = j
  <2>1. ASSUME NEW k \in 1 .. Len(L \o w), k <= Len(L)
        PROVE  k \in 1 .. Len(L) /\ (L \o w)[k] = L[k] /\ (L \o w)[k] \in EntriesOf(L)
    <3>1. k \in 1 .. Len(L)
      BY <1>6, <2>1
    <3> QED BY <1>6, <3>1 DEF EntriesOf
  <2>2. ASSUME NEW k \in 1 .. Len(L \o w), k > Len(L)
        PROVE  /\ k - Len(L) \in 1 .. Len(w) /\ (L \o w)[k] = w[k - Len(L)]
               /\ (L \o w)[k] \in EntriesOf(w)
    BY <1>6, <2>2 DEF EntriesOf
  <2>3. CASE i <= Len(L) /\ j <= Len(L)
    BY <1>10, <2>1, <2>3 DEF KahnCounts
  <2>4. CASE i > Len(L) /\ j > Len(L)
    <3>1. i - Len(L) = j - Len(L)
      BY <1>0, <1>10, <2>2, <2>4
    <3> QED BY <1>6, <3>1
  <2>5. ~(i <= Len(L) /\ j > Len(L)) /\ ~(i > Len(L) /\ j <= Len(L))
    BY <1>9, <1>10, <2>1, <2>2
  <2> QED BY <1>6, <2>3, <2>4, <2>5
<1> QED BY <1>5, <1>8, <1>10 DEF KahnCounts, Left

\* The emitted entries stay in causal order.
LEMMA PopCausal ==
  ASSUME NEW Q, NEW parents, NEW s \in Seq(Q), NEW node \in Q,
         (parents[node] \cap Q) \ EntriesOf(s) = {}, KahnCausal(Q, parents, s)
  PROVE  KahnCausal(Q, parents, Append(s, node))
<1> DEFINE t == Append(s, node)
<1>1. /\ Len(t) = Len(s) + 1 /\ Len(s) \in Nat /\ \A i \in 1 .. Len(s) : t[i] = s[i]
      /\ t[Len(s) + 1] = node
  BY EmittedSet
<1> HIDE DEF t
<1>2. ASSUME NEW j \in 1 .. Len(t), NEW p \in parents[t[j]] \cap Q
      PROVE  \E i \in 1 .. Len(t) : i < j /\ t[i] = p
  <2>1. CASE j = Len(s) + 1
    <3>1. p \in EntriesOf(s)
      BY <1>1, <2>1
    <3>2. PICK i \in 1 .. Len(s) : s[i] = p
      BY <3>1 DEF EntriesOf
    <3>3. i \in 1 .. Len(t) /\ i < j /\ t[i] = p
      BY <1>1, <2>1, <3>2
    <3> QED BY <3>3
  <2>2. CASE j # Len(s) + 1
    <3>1. j \in 1 .. Len(s)
      BY <1>1, <2>2
    <3>2. PICK i \in 1 .. Len(s) : i < j /\ s[i] = p
      BY <1>1, <3>1 DEF KahnCausal
    <3>3. i \in 1 .. Len(t) /\ t[i] = p
      BY <1>1, <3>2
    <3> QED BY <3>2, <3>3
  <2> QED BY <2>1, <2>2
<1> QED BY <1>2 DEF KahnCausal, t

\* No entry overtakes an earlier generation.
LEMMA PopLayers ==
  ASSUME NEW Q, NEW parents, NEW s \in Seq(Q), NEW L \in Seq(Q), NEW w \in Seq(Q), NEW node \in Q,
         NEW M \in Nat, NEW D, Layers(Q, parents, M, D),
         Emits(s, L, node), KahnLayers(M, D, L),
         \A c \in EntriesOf(w) : node \in parents[c],
         \A c \in EntriesOf(L \o w) : c \in Q /\ (parents[c] \cap Q) \ EntriesOf(Append(s, node)) = {}
  PROVE  KahnLayers(M, D, L \o w)
<1> DEFINE v == L \o w
<1>1. /\ v \in Seq(Q) /\ Len(v) = Len(L) + Len(w) /\ Len(L) \in Nat /\ Len(w) \in Nat
      /\ \A i \in 1 .. Len(L) : v[i] = L[i]
      /\ \A i \in 1 .. (Len(L) + Len(w)) :
            i > Len(L) => i - Len(L) \in 1 .. Len(w) /\ v[i] = w[i - Len(L)]
  BY JoinedSet
<1>2. Len(s) \in Nat /\ EntriesOf(Append(s, node)) = EntriesOf(s) \cup {node}
  BY EmittedSet
<1>3. \A c \in EntriesOf(v) : c \in Q /\ (parents[c] \cap Q) \ EntriesOf(Append(s, node)) = {}
  OBVIOUS
<1> HIDE DEF v
<1> SUFFICES ASSUME NEW i \in 1 .. Len(v), NEW j \in 1 .. Len(v), NEW n \in 0 .. M, i < j, v[j] \in D[n]
             PROVE  v[i] \in D[n]
  BY DEF KahnLayers, v
<1>4. CASE j <= Len(L)
  <2>1. i \in 1 .. Len(L) /\ j \in 1 .. Len(L)
    BY <1>1, <1>4
  <2> QED BY <1>1, <2>1 DEF KahnLayers
<1>5. CASE j > Len(L)
  <2>1. v[j] \in EntriesOf(w) /\ v[j] \in Q
    BY <1>1, <1>3, <1>5 DEF EntriesOf
  <2>2. node \in parents[v[j]] \cap Q
    BY <2>1
  <2>3. n # 0
    BY <2>1, <2>2 DEF Layers
  <2>4. n \in 1 .. M /\ n - 1 \in 0 .. M
    BY <2>3
  <2>5. node \in D[n - 1]
    BY <2>1, <2>2, <2>4 DEF Layers
  <2>6. ASSUME NEW k \in 1 .. Len(s) PROVE s[k] \in D[n - 1]
    <3>1. k \in 1 .. Len(L) /\ Len(s) + 1 \in 1 .. Len(L) /\ k < Len(s) + 1 /\ s[k] = L[k] /\ node = L[Len(s) + 1]
      BY <1>1, <1>2 DEF Emits
    <3> QED BY <2>4, <2>5, <3>1 DEF KahnLayers
  <2>7. EntriesOf(Append(s, node)) \subseteq D[n - 1]
    BY <1>2, <2>5, <2>6 DEF EntriesOf
  <2>8. v[i] \in Q /\ parents[v[i]] \cap Q \subseteq EntriesOf(Append(s, node))
    BY <1>3 DEF EntriesOf
  <2> QED BY <2>4, <2>7, <2>8 DEF Layers
<1> QED BY <1>1, <1>4, <1>5

\* A pop preserves all of it.
LEMMA KahnStep ==
  ASSUME NEW Q, IsFiniteSet(Q), NEW parents, NEW ticket, DistinctKeys(Q, ticket),
         NEW M \in Nat, NEW D, Layers(Q, parents, M, D),
         NEW st, KahnInv(Q, parents, M, D, st)
  PROVE  /\ KahnInv(Q, parents, M, D, KahnPop(Q, parents, ticket, st))
         /\ IF st.ready = <<>> THEN KahnPop(Q, parents, ticket, st) = st
            ELSE Len(KahnPop(Q, parents, ticket, st).sorted) = Len(st.sorted) + 1
<1>1. CASE st.ready = <<>>
  BY <1>1 DEF KahnPop
<1>2. CASE st.ready # <<>>
  <2> DEFINE s == st.sorted
             L == st.sorted \o st.ready
  <2>1. st \in KahnStates(Q) /\ s \in Seq(Q) /\ st.ready \in Seq(Q)
    BY DEF KahnInv, KahnStates
  <2> DEFINE st2 == KahnPop(Q, parents, ticket, st)
  <2>2. PICK node, w : Pops(Q, parents, st, node, w, st2)
    BY <1>2, <2>1, PopLists
  <2> HIDE DEF st2
  <2>3. /\ node \in Q /\ node = Head(st.ready) /\ w \in Seq(Q) /\ st2 \in KahnStates(Q)
        /\ Decrements(Q, parents, st.inDegree, node, w, st2.inDegree)
        /\ st2.sorted = Append(st.sorted, node)
        /\ st2.sorted \o st2.ready = (st.sorted \o st.ready) \o w
    BY <2>2 DEF Pops
  <2>4. L \in Seq(Q) /\ Emits(s, L, node)
    BY <1>2, <2>1, <2>3, HeadIsNext
  <2>5. KahnCounts(Q, parents, st.inDegree, s, L) /\ KahnCausal(Q, parents, s) /\ KahnLayers(M, D, L)
    BY DEF KahnInv
  <2> HIDE DEF s, L
  <2>6. KahnCounts(Q, parents, st2.inDegree, Append(s, node), L \o w)
    BY <2>1, <2>3, <2>4, <2>5, PopCounts
  <2>7. KahnCausal(Q, parents, Append(s, node))
    <3>1. node \in EntriesOf(L)
      <4>1. Len(s) \in Nat /\ Len(L) \in Nat
        BY <2>1, <2>4
      <4>2. Len(s) + 1 \in 1 .. Len(L) /\ node = L[Len(s) + 1]
        BY <2>4, <4>1 DEF Emits
      <4> QED BY <4>2 DEF EntriesOf
    <3>2. (parents[node] \cap Q) \ EntriesOf(s) = {}
      BY <2>3, <2>5, <3>1 DEF KahnCounts
    <3> QED BY <2>1, <2>3, <2>5, <3>2, PopCausal
  <2>8. KahnLayers(M, D, L \o w)
    <3>1. L \o w \in Seq(Q)
      BY <2>3, <2>4
    <3>2. EntriesOf(L \o w) \subseteq Q
      BY <3>1 DEF EntriesOf
    <3>3. \A c \in EntriesOf(L \o w) : c \in Q /\ (parents[c] \cap Q) \ EntriesOf(Append(s, node)) = {}
      BY <2>6, <3>2 DEF KahnCounts
    <3>4. \A c \in EntriesOf(w) : node \in parents[c]
      BY <2>3 DEF Decrements, Freed
    <3> QED BY <2>1, <2>3, <2>4, <2>5, <3>3, <3>4, PopLayers
  <2>9. st2.sorted = Append(s, node) /\ st2.sorted \o st2.ready = L \o w
    BY <2>3 DEF s, L
  <2>10. KahnInv(Q, parents, M, D, st2)
    BY <2>3, <2>6, <2>7, <2>8, <2>9 DEF KahnInv
  <2>11. Len(st2.sorted) = Len(s) + 1
    BY <2>1, <2>3, <2>9
  <2> QED BY <1>2, <2>10, <2>11 DEF s, st2
<1> QED BY <1>1, <1>2

\* The state before the first pop.
KahnStart(Q, parents, ticket) ==
    LET degree == [c \in Q |-> Cardinality(parents[c] \cap Q)]
    IN  [ready    |-> InQueueOrder({c \in Q : degree[c] = 0}, ticket),
         inDegree |-> degree,
         sorted   |-> <<>>]

\* It holds before the first pop.
LEMMA KahnBegins ==
  ASSUME NEW Q, IsFiniteSet(Q), NEW parents, NEW ticket, DistinctKeys(Q, ticket),
         NEW M \in Nat, NEW D, Layers(Q, parents, M, D)
  PROVE  KahnInv(Q, parents, M, D, KahnStart(Q, parents, ticket))
<1> DEFINE st == KahnStart(Q, parents, ticket)
           degree == [c \in Q |-> Cardinality(parents[c] \cap Q)]
           roots == {c \in Q : degree[c] = 0}
           L == InQueueOrder(roots, ticket)
<1>1. st = [ready |-> L, inDegree |-> degree, sorted |-> <<>>]
  BY DEF KahnStart
<1>2. ASSUME NEW c \in Q
      PROVE  /\ Cardinality(parents[c] \cap Q) \in Int
             /\ Cardinality(parents[c] \cap Q) = 0 <=> parents[c] \cap Q = {}
  <2> DEFINE P == parents[c] \cap Q
  <2>1. IsFiniteSet(P)
    BY FS_Intersection
  <2> HIDE DEF P
  <2>2. Cardinality(P) \in Nat /\ (Cardinality(P) = 0 <=> P = {})
    BY <2>1, FS_CardinalityType, FS_EmptySet
  <2> QED BY <2>2 DEF P
<1>3. roots \in SUBSET Q /\ \A c \in Q : c \in roots <=> parents[c] \cap Q = {}
  BY <1>2
<1>4. degree \in [Q -> Int] /\ \A c \in Q : degree[c] = Cardinality(parents[c] \cap Q)
  <2>1. \A c \in Q : Cardinality(parents[c] \cap Q) \in Int
    BY <1>2
  <2> QED BY <2>1
<1> HIDE DEF st, roots, degree
<1>5. /\ L \in Seq(Q) /\ EntriesOf(L) = roots
      /\ \A i, j \in 1 .. Len(L) : L[i] = L[j] => i = j
  BY <1>3, InOrder
<1> HIDE DEF L
<1>6. EntriesOf(<<>>) = {} /\ <<>> \in Seq(Q) /\ Len(<<>>) = 0
  BY DEF EntriesOf
<1>7. st \in KahnStates(Q) /\ st.sorted = <<>> /\ st.ready = L /\ st.inDegree = degree
  BY <1>1, <1>4, <1>5, <1>6 DEF KahnStates
<1>8. st.sorted \o st.ready = L
  BY <1>5, <1>7
<1>9. KahnCounts(Q, parents, degree, <<>>, L)
  <2>1. \A c \in Q : (parents[c] \cap Q) \ EntriesOf(<<>>) = parents[c] \cap Q
    BY <1>6
  <2>2. \A c \in Q : degree[c] = Cardinality((parents[c] \cap Q) \ EntriesOf(<<>>))
    BY <1>4, <2>1
  <2>3. \A c \in Q : c \in EntriesOf(L) <=> (parents[c] \cap Q) \ EntriesOf(<<>>) = {}
    BY <1>3, <1>5, <2>1
  <2> QED BY <1>5, <2>2, <2>3 DEF KahnCounts
<1>10. KahnCausal(Q, parents, <<>>)
  BY <1>6 DEF KahnCausal
<1>11. KahnLayers(M, D, L)
  <2>1. ASSUME NEW i \in 1 .. Len(L), NEW n \in 0 .. M PROVE L[i] \in D[n]
    <3>1. L[i] \in Q /\ parents[L[i]] \cap Q = {}
      BY <1>3, <1>5 DEF EntriesOf
    <3>2. CASE n = 0
      BY <3>1, <3>2 DEF Layers
    <3>3. CASE n # 0
      <4>1. n \in 1 .. M
        BY <3>3
      <4> QED BY <3>1, <4>1 DEF Layers
    <3> QED BY <3>2, <3>3
  <2> QED BY <2>1 DEF KahnLayers
<1> QED BY <1>7, <1>8, <1>9, <1>10, <1>11 DEF KahnInv, st

\* The loop as a sequence of states, and the order it ends with.
KahnRun(Q, parents, ticket, N, u) ==
    /\ u[0] = KahnStart(Q, parents, ticket)
    /\ \A k \in 1 .. N : u[k] = KahnPop(Q, parents, ticket, u[k - 1])
    /\ topological_sort_queue(Q, parents, ticket)
          = u[N].sorted \o InQueueOrder(Q \ {u[N].sorted[i] : i \in DOMAIN u[N].sorted}, ticket)

\* There is such a sequence for every queue.
LEMMA KahnRuns ==
  ASSUME NEW Q, IsFiniteSet(Q), NEW parents, NEW ticket, DistinctKeys(Q, ticket),
         NEW N, N = Cardinality(Q)
  PROVE  \E u : KahnRun(Q, parents, ticket, N, u)
<1> DEFINE start == KahnStart(Q, parents, ticket)
           Pop(st) == KahnPop(Q, parents, ticket, st)
           Rec(f) == f = [n \in 0 .. N |-> IF n = 0 THEN start ELSE Pop(f[n - 1])]
           u == CHOOSE f : Rec(f)
           G == [st \in KahnStates(Q) |-> Pop(st)]
           D == [n \in 0 .. 0 |-> {d \in Q : parents[d] \cap Q = {}}]
<1>1. N \in Nat
  BY FS_CardinalityType
<1>2. start \in KahnStates(Q)
  <2>1. Layers(Q, parents, 0, D)
    BY DEF Layers
  <2> HIDE DEF D
  <2>2. KahnInv(Q, parents, 0, D, start)
    BY <2>1, KahnBegins
  <2> QED BY <2>2 DEF KahnInv
<1>3. ASSUME NEW st \in KahnStates(Q) PROVE Pop(st) \in KahnStates(Q)
  <2>1. CASE st.ready = <<>>
    BY <2>1 DEF KahnPop
  <2>2. CASE st.ready # <<>>
    <3>1. PICK node, w : Pops(Q, parents, st, node, w, KahnPop(Q, parents, ticket, st))
      BY <2>2, PopLists
    <3> QED BY <3>1 DEF Pops
  <2> QED BY <2>1, <2>2
<1>4. topological_sort_queue(Q, parents, ticket)
        = u[N].sorted \o InQueueOrder(Q \ {u[N].sorted[i] : i \in DOMAIN u[N].sorted}, ticket)
  BY DEF topological_sort_queue, KahnStart
<1> HIDE DEF start
<1>5. G \in [KahnStates(Q) -> KahnStates(Q)]
  BY <1>3
<1>6. \A st \in KahnStates(Q) : G[st] = Pop(st)
  OBVIOUS
<1> HIDE DEF G, Pop
<1>7. PICK v \in [0 .. N -> KahnStates(Q)] : v[0] = start /\ \A k \in 1 .. N : v[k] = G[v[k - 1]]
  <2>1. \A S : \A a \in S, F \in [S -> S] :
            \E v \in [0 .. N -> S] : v[0] = a /\ \A k \in 1 .. N : v[k] = F[v[k - 1]]
    BY <1>1, Iteration
  <2> DEFINE T == KahnStates(Q)
  <2>2. start \in T /\ G \in [T -> T]
    BY <1>2, <1>5
  <2> HIDE DEF T
  <2>3. \E v \in [0 .. N -> T] : v[0] = start /\ \A k \in 1 .. N : v[k] = G[v[k - 1]]
    BY <2>1, <2>2
  <2> QED BY <2>3 DEF T
<1>8. Rec(v)
  <2>1. \A k \in 1 .. N : v[k] = Pop(v[k - 1])
    <3>1. \A k \in 1 .. N : k - 1 \in 0 .. N
      BY <1>1
    <3> QED BY <1>6, <1>7, <3>1
  <2>2. \A k \in 0 .. N : v[k] = IF k = 0 THEN start ELSE Pop(v[k - 1])
    <3>1. \A k \in 0 .. N : k = 0 \/ k \in 1 .. N
      BY <1>1
    <3> QED BY <1>7, <2>1, <3>1
  <2> QED BY <1>7, <2>2
<1>9. Rec(u)
  <2> HIDE DEF Rec
  <2> QED BY <1>8
<1> HIDE DEF u
<1>10. u[0] = start /\ \A k \in 1 .. N : u[k] = Pop(u[k - 1])
  <2>1. 0 \in 0 .. N /\ \A k \in 1 .. N : k \in 0 .. N /\ k # 0
    BY <1>1
  <2> QED BY <1>9, <2>1
<1>11. KahnRun(Q, parents, ticket, N, u)
  BY <1>4, <1>10 DEF KahnRun, start, Pop
<1> QED BY <1>11

\* The loop keeps the invariant and emits until the ready list is empty.
LEMMA KahnKeeps ==
  ASSUME NEW Q, IsFiniteSet(Q), NEW parents, NEW ticket, DistinctKeys(Q, ticket),
         NEW M \in Nat, NEW D, Layers(Q, parents, M, D),
         NEW N \in Nat, NEW u, u[0] = KahnStart(Q, parents, ticket),
         \A k \in 1 .. N : u[k] = KahnPop(Q, parents, ticket, u[k - 1])
  PROVE  KahnInv(Q, parents, M, D, u[N]) /\ (Len(u[N].sorted) = N \/ u[N].ready = <<>>)
<1> DEFINE Good(k) == KahnInv(Q, parents, M, D, u[k]) /\ (Len(u[k].sorted) = k \/ u[k].ready = <<>>)
           P == {k \in Nat : k <= N => Good(k)}
<1>1. Good(0)
  <2>1. KahnInv(Q, parents, M, D, u[0])
    BY KahnBegins
  <2>2. u[0].sorted = <<>>
    BY DEF KahnStart
  <2> QED BY <2>1, <2>2
<1>2. ASSUME NEW k \in Nat, k + 1 <= N, Good(k) PROVE Good(k + 1)
  <2>1. u[k + 1] = KahnPop(Q, parents, ticket, u[k])
    <3>1. k + 1 \in 1 .. N /\ (k + 1) - 1 = k
      BY <1>2
    <3> QED BY <3>1
  <2>2. /\ KahnInv(Q, parents, M, D, u[k + 1])
        /\ IF u[k].ready = <<>> THEN u[k + 1] = u[k] ELSE Len(u[k + 1].sorted) = Len(u[k].sorted) + 1
    <3> DEFINE st == u[k]
    <3>1. KahnInv(Q, parents, M, D, st)
      BY <1>2
    <3> HIDE DEF st
    <3>2. /\ KahnInv(Q, parents, M, D, KahnPop(Q, parents, ticket, st))
          /\ IF st.ready = <<>> THEN KahnPop(Q, parents, ticket, st) = st
             ELSE Len(KahnPop(Q, parents, ticket, st).sorted) = Len(st.sorted) + 1
      BY <3>1, KahnStep
    <3> QED BY <2>1, <3>2 DEF st
  <2> QED BY <1>2, <2>2
<1> HIDE DEF Good
<1>3. 0 \in P
  BY <1>1
<1>4. ASSUME NEW k \in P PROVE k + 1 \in P
  <2>1. k \in Nat /\ (k <= N => Good(k))
    OBVIOUS
  <2>2. k + 1 <= N => k <= N
    BY <2>1
  <2> QED BY <1>2, <2>1, <2>2
<1>5. P \in SUBSET Nat
  OBVIOUS
<1> HIDE DEF P
<1>6. P = Nat
  BY <1>3, <1>4, <1>5, SetInduction
<1>7. N \in P
  BY <1>6
<1>8. Good(N)
  BY <1>7 DEF P
<1> QED BY <1>8 DEF Good

\* A list without repetitions is no longer than the set it is drawn from.
LEMMA ListWithin ==
  ASSUME NEW Q, IsFiniteSet(Q), NEW L \in Seq(Q), \A i, j \in 1 .. Len(L) : L[i] = L[j] => i = j
  PROVE  /\ Len(L) \in Nat /\ Cardinality(Q) \in Nat /\ Len(L) <= Cardinality(Q)
         /\ Cardinality(EntriesOf(L)) = Len(L)
<1>1. Len(L) \in Nat /\ L \in [1 .. Len(L) -> Q] /\ Cardinality(Q) \in Nat
  BY FS_CardinalityType
<1>2. IsFiniteSet(1 .. Len(L)) /\ Cardinality(1 .. Len(L)) = Len(L)
  <2> DEFINE n == Len(L)
  <2>1. n \in Nat
    BY <1>1
  <2> HIDE DEF n
  <2>2. Cardinality(1 .. n) = IF 1 > n THEN 0 ELSE n - 1 + 1
    BY <2>1, FS_Interval
  <2>3. IsFiniteSet(1 .. n) /\ Cardinality(1 .. n) = n
    BY <2>1, <2>2, FS_Interval
  <2> QED BY <2>3 DEF n
<1>3. L \in Injection(1 .. Len(L), Q)
  BY <1>1 DEF Injection, IsInjective
<1>4. Cardinality(1 .. Len(L)) <= Cardinality(Q)
  BY <1>3, FS_Injection
<1>5. L \in Injection(1 .. Len(L), EntriesOf(L)) /\ L \in Surjection(1 .. Len(L), EntriesOf(L))
  BY <1>1 DEF Injection, IsInjective, Surjection, EntriesOf
<1>6. ExistsBijection(1 .. Len(L), EntriesOf(L))
  BY <1>5 DEF ExistsBijection, Bijection
<1>7. Cardinality(EntriesOf(L)) = Len(L)
  BY <1>1, <1>6, FS_CountingElements
<1> QED BY <1>1, <1>2, <1>4, <1>7

\* What the sort returns: the emitted entries s in causal order and by
\* generations, then the rest R in queue order, of which each has a parent in R.
Sorts(Q, parents, M, D, s, R) ==
    /\ s \in Seq(Q) /\ R \in SUBSET Q /\ EntriesOf(s) = Q \ R
    /\ \A i, j \in 1 .. Len(s) : s[i] = s[j] => i = j
    /\ KahnCausal(Q, parents, s) /\ KahnLayers(M, D, s)
    /\ \A c \in R : parents[c] \cap R # {}

SortedAs(Q, parents, ticket, M, D, s, R) ==
    /\ Sorts(Q, parents, M, D, s, R)
    /\ topological_sort_queue(Q, parents, ticket) = s \o InQueueOrder(R, ticket)

\* It is so for every queue.
LEMMA SortResult ==
  ASSUME NEW Q, IsFiniteSet(Q), NEW parents, NEW ticket, DistinctKeys(Q, ticket),
         NEW M \in Nat, NEW D, Layers(Q, parents, M, D)
  PROVE  \E s, R : SortedAs(Q, parents, ticket, M, D, s, R)
<1> DEFINE N == Cardinality(Q)
<1>1. N \in Nat
  BY FS_CardinalityType
<1> HIDE DEF N
<1>2. PICK u : KahnRun(Q, parents, ticket, N, u)
  BY KahnRuns DEF N
<1> DEFINE st == u[N]
           s == st.sorted
           L == st.sorted \o st.ready
           R == Q \ EntriesOf(s)
<1>3. KahnInv(Q, parents, M, D, st) /\ (Len(s) = N \/ st.ready = <<>>)
  BY <1>1, <1>2, KahnKeeps DEF KahnRun
<1> HIDE DEF st
<1>4. s \in Seq(Q) /\ st.ready \in Seq(Q)
  BY <1>3 DEF KahnInv, KahnStates
<1>5. /\ KahnCounts(Q, parents, st.inDegree, s, L) /\ KahnCausal(Q, parents, s)
      /\ KahnLayers(M, D, L)
  BY <1>3 DEF KahnInv
<1>6. st.ready = <<>>
  <2>1. ASSUME st.ready # <<>>, Len(s) = N PROVE FALSE
    <3>1. L \in Seq(Q) /\ Emits(s, L, Head(st.ready))
      BY <1>4, <2>1, HeadIsNext
    <3>2. \A i, j \in 1 .. Len(L) : L[i] = L[j] => i = j
      BY <1>5 DEF KahnCounts
    <3>3. Len(L) \in Nat /\ Len(L) <= N
      BY <3>1, <3>2, ListWithin DEF N
    <3>4. Len(s) < Len(L)
      BY <3>1 DEF Emits
    <3> HIDE DEF s, L
    <3> QED BY <1>1, <2>1, <3>3, <3>4
  <2> QED BY <1>3, <2>1
<1>7. L = s
  BY <1>4, <1>6
<1>8. EntriesOf(s) \subseteq Q
  BY <1>4 DEF EntriesOf
<1>9. R \in SUBSET Q /\ EntriesOf(s) = Q \ R
  BY <1>8
<1> HIDE DEF L, R
<1>10. \A i, j \in 1 .. Len(s) : s[i] = s[j] => i = j
  BY <1>5, <1>7 DEF KahnCounts
<1>11. \A c \in R : parents[c] \cap R # {}
  <2>1. \A c \in Q : c \in EntriesOf(s) <=> (parents[c] \cap Q) \ EntriesOf(s) = {}
    BY <1>5, <1>7 DEF KahnCounts
  <2> QED BY <1>9, <2>1 DEF R
<1>12. Sorts(Q, parents, M, D, s, R)
  BY <1>4, <1>5, <1>7, <1>9, <1>10, <1>11 DEF Sorts
<1>13. Q \ {s[i] : i \in DOMAIN s} = R
  BY <1>4 DEF R, EntriesOf
<1>14. topological_sort_queue(Q, parents, ticket) = s \o InQueueOrder(R, ticket)
  BY <1>2, <1>13 DEF st, KahnRun
<1>15. SortedAs(Q, parents, ticket, M, D, s, R)
  BY <1>12, <1>14 DEF SortedAs
<1> QED BY <1>15

\* Where each entry stands in the whole order t.
Placed(Q, parents, s, R, t) ==
    /\ t \in Seq(Q) /\ EntriesOf(t) = Q /\ Len(t) = Cardinality(Q) /\ Len(s) = Cardinality(Q \ R)
    /\ Len(s) \in Nat /\ Len(t) \in Nat /\ Len(s) <= Len(t)
    /\ \A i, j \in 1 .. Len(t) : t[i] = t[j] => i = j
    /\ \A i \in 1 .. Len(s) : t[i] = s[i]
    /\ \A i \in 1 .. Len(t) : t[i] \in R <=> i > Len(s)
    /\ \A i, j \in 1 .. Len(t) : t[i] \in parents[t[j]] /\ t[j] \notin R => i < j

\* The emitted entries come first, each after its queued parents.
LEMMA SortPlaces ==
  ASSUME NEW Q, IsFiniteSet(Q), NEW parents, NEW ticket, DistinctKeys(Q, ticket),
         NEW M, NEW D, NEW s, NEW R, SortedAs(Q, parents, ticket, M, D, s, R)
  PROVE  Placed(Q, parents, s, R, topological_sort_queue(Q, parents, ticket))
<1> DEFINE t == topological_sort_queue(Q, parents, ticket)
<1> DEFINE w == InQueueOrder(R, ticket)
<1>1. /\ s \in Seq(Q) /\ R \in SUBSET Q /\ EntriesOf(s) = Q \ R
      /\ \A i, j \in 1 .. Len(s) : s[i] = s[j] => i = j
  BY DEF Sorts, SortedAs
<1>2. /\ w \in Seq(Q) /\ EntriesOf(w) = R /\ \A i, j \in 1 .. Len(w) : w[i] = w[j] => i = j
  BY <1>1, InOrder
<1>3. t = s \o w
  BY DEF SortedAs
<1> HIDE DEF t, w
<1>4. /\ s \o w \in Seq(Q) /\ Len(s \o w) = Len(s) + Len(w) /\ Len(s) \in Nat /\ Len(w) \in Nat
      /\ \A i \in 1 .. Len(s) : (s \o w)[i] = s[i]
      /\ \A i \in 1 .. (Len(s) + Len(w)) :
            i > Len(s) => i - Len(s) \in 1 .. Len(w) /\ (s \o w)[i] = w[i - Len(s)]
      /\ EntriesOf(s \o w) = EntriesOf(s) \cup EntriesOf(w)
  BY <1>1, <1>2, JoinedSet
<1>5. /\ t \in Seq(Q) /\ Len(t) = Len(s) + Len(w) /\ EntriesOf(t) = Q
      /\ \A i \in 1 .. Len(s) : t[i] = s[i]
      /\ \A i \in 1 .. Len(t) : i > Len(s) => i - Len(s) \in 1 .. Len(w) /\ t[i] = w[i - Len(s)]
  BY <1>1, <1>2, <1>3, <1>4
<1>6. ASSUME NEW i \in 1 .. Len(t) PROVE t[i] \in R <=> i > Len(s)
  <2>1. CASE i > Len(s)
    BY <1>2, <1>5, <2>1 DEF EntriesOf
  <2>2. CASE i <= Len(s)
    <3>1. i \in 1 .. Len(s)
      BY <1>4, <2>2
    <3>2. t[i] \in EntriesOf(s)
      BY <1>5, <3>1 DEF EntriesOf
    <3> QED BY <1>1, <1>4, <2>2, <3>2
  <2> QED BY <1>4, <2>1, <2>2
<1>7. ASSUME NEW i \in 1 .. Len(t), NEW j \in 1 .. Len(t), t[i] = t[j] PROVE i = j
  <2>1. CASE i > Len(s)
    <3>1. j > Len(s)
      BY <1>6, <1>7, <2>1
    <3>2. i - Len(s) = j - Len(s)
      BY <1>2, <1>5, <1>7, <2>1, <3>1
    <3> QED BY <1>4, <3>2
  <2>2. CASE i <= Len(s)
    <3>1. j <= Len(s)
      BY <1>4, <1>6, <1>7, <2>2
    <3>2. i \in 1 .. Len(s) /\ j \in 1 .. Len(s)
      BY <1>4, <2>2, <3>1
    <3> QED BY <1>1, <1>5, <1>7, <3>2
  <2> QED BY <1>4, <2>1, <2>2
<1>8. Len(t) = Cardinality(Q) /\ Len(s) = Cardinality(Q \ R)
  <2>1. Cardinality(EntriesOf(t)) = Len(t)
    BY <1>5, <1>7, ListWithin
  <2>2. Cardinality(EntriesOf(s)) = Len(s)
    BY <1>1, ListWithin
  <2> QED BY <1>1, <1>5, <2>1, <2>2
<1>9. ASSUME NEW i \in 1 .. Len(t), NEW j \in 1 .. Len(t), t[i] \in parents[t[j]], t[j] \notin R
      PROVE  i < j
  <2>1. j \in 1 .. Len(s) /\ t[j] = s[j]
    BY <1>4, <1>5, <1>6, <1>9
  <2>2. t[i] \in parents[s[j]] \cap Q
    BY <1>5, <1>9, <2>1
  <2>3. PICK k \in 1 .. Len(s) : k < j /\ s[k] = t[i]
    BY <2>1, <2>2 DEF Sorts, SortedAs, KahnCausal
  <2>4. k \in 1 .. Len(t) /\ t[k] = t[i]
    BY <1>4, <1>5, <2>3
  <2>5. k = i
    BY <1>7, <2>4
  <2> QED BY <2>3, <2>5
<1>10. Len(s) \in Nat /\ Len(t) \in Nat /\ Len(s) <= Len(t)
  BY <1>4, <1>5
<1>11. t \in Seq(Q) /\ EntriesOf(t) = Q /\ \A i \in 1 .. Len(s) : t[i] = s[i]
  BY <1>5
<1> QED BY <1>6, <1>7, <1>8, <1>9, <1>10, <1>11 DEF Placed, t

\* No set in which every member has a parent in the set reaches the emitted part.
LEMMA CyclesAreRest ==
  ASSUME NEW Q, NEW parents, NEW M, NEW D, NEW s, NEW R, Sorts(Q, parents, M, D, s, R),
         NEW S \in SUBSET Q, \A d \in S : parents[d] \cap S # {}
  PROVE  S \subseteq R
<1> DEFINE T == {i \in 1 .. Len(s) : s[i] \in S}
<1>1. s \in Seq(Q) /\ EntriesOf(s) = Q \ R /\ Len(s) \in Nat
  BY DEF Sorts
<1>2. ASSUME T # {} PROVE FALSE
  <2>1. T \in SUBSET Nat
    BY <1>1
  <2> HIDE DEF T
  <2>2. PICK i \in T : \A k \in T : i <= k
    BY <1>2, <2>1, LeastNatural
  <2>3. i \in 1 .. Len(s) /\ s[i] \in S
    BY <2>2 DEF T
  <2>4. PICK p : p \in parents[s[i]] \cap S
    BY <2>3
  <2>5. PICK k \in 1 .. Len(s) : k < i /\ s[k] = p
    BY <2>3, <2>4 DEF Sorts, KahnCausal
  <2>6. k \in T
    BY <2>4, <2>5 DEF T
  <2> QED BY <1>1, <2>2, <2>3, <2>5, <2>6
<1>3. ASSUME NEW d \in S, d \notin R PROVE FALSE
  <2>1. d \in EntriesOf(s)
    BY <1>1, <1>3
  <2>2. PICK i \in 1 .. Len(s) : s[i] = d
    BY <2>1 DEF EntriesOf
  <2>3. i \in T
    BY <2>2
  <2> QED BY <1>2, <2>3
<1> QED BY <1>3

\* The rest has no finite number of generations.
LEMMA RestHasNoLayer ==
  ASSUME NEW Q, NEW parents, NEW M \in Nat, NEW D, Layers(Q, parents, M, D),
         NEW R \in SUBSET Q, \A c \in R : parents[c] \cap R # {}
  PROVE  \A n \in 0 .. M : D[n] \cap R = {}
<1> DEFINE P == {n \in Nat : n <= M => D[n] \cap R = {}}
<1>1. 0 \in P
  <2>1. \A d \in R : d \notin D[0]
    BY DEF Layers
  <2> QED BY <2>1
<1>2. ASSUME NEW n \in P PROVE n + 1 \in P
  <2>1. n \in Nat
    OBVIOUS
  <2>2. ASSUME n + 1 <= M, NEW d \in R, d \in D[n + 1] PROVE FALSE
    <3>1. n + 1 \in 1 .. M /\ (n + 1) - 1 = n /\ n <= M
      BY <2>1, <2>2
    <3>2. parents[d] \cap Q \subseteq D[n]
      BY <2>2, <3>1 DEF Layers
    <3>3. PICK p : p \in parents[d] \cap R
      BY <2>2
    <3>4. p \in D[n] \cap R
      BY <3>2, <3>3
    <3> QED BY <3>1, <3>4
  <2> QED BY <2>1, <2>2
<1>3. P \in SUBSET Nat
  OBVIOUS
<1> HIDE DEF P
<1>4. P = Nat
  BY <1>1, <1>2, <1>3, SetInduction
<1>5. ASSUME NEW n \in 0 .. M PROVE D[n] \cap R = {}
  <2>1. n \in Nat /\ n <= M
    OBVIOUS
  <2> QED BY <1>4, <2>1 DEF P
<1> QED BY <1>5

\* Where no set of entries is cyclic, every parent comes first.
LEMMA FoundedSort ==
  ASSUME NEW Q, IsFiniteSet(Q), NEW parents, NEW ticket, DistinctKeys(Q, ticket),
         \A S \in SUBSET Q : S # {} => \E d \in S : parents[d] \cap S = {}
  PROVE  LET order == topological_sort_queue(Q, parents, ticket)
         IN  /\ order \in Seq(Q)
             /\ \A i, j \in 1 .. Len(order) : order[i] \in parents[order[j]] => i < j
<1> DEFINE D == [n \in 0 .. 0 |-> {d \in Q : parents[d] \cap Q = {}}]
           order == topological_sort_queue(Q, parents, ticket)
<1>1. Layers(Q, parents, 0, D)
  BY DEF Layers
<1> HIDE DEF D
<1>2. PICK s, R : SortedAs(Q, parents, ticket, 0, D, s, R)
  BY <1>1, SortResult
<1>3. R = {}
  BY <1>2 DEF SortedAs, Sorts
<1>4. Placed(Q, parents, s, R, order)
  BY <1>2, SortPlaces
<1> HIDE DEF order
<1>5. /\ order \in Seq(Q)
      /\ \A i, j \in 1 .. Len(order) : order[i] \in parents[order[j]] => i < j
  BY <1>3, <1>4 DEF Placed
<1> QED BY <1>5 DEF order

\* The entries of s at the places P, for sequences in which what lies behind
\* stays behind.
LEMMA KeptCausal ==
  ASSUME NEW A, NEW s \in Seq(A), NEW P \in SUBSET (1 .. Len(s)), NEW parents,
         \A i, j \in 1 .. Len(s) : s[i] \in parents[s[j]] => i < j
  PROVE  /\ Kept(s, P) \in Seq(A)
         /\ \A i, j \in DOMAIN Kept(s, P) : Kept(s, P)[i] \in parents[Kept(s, P)[j]] => i < j
<1> DEFINE q == Kept(s, P)
           N == Cardinality(P)
<1>1. PICK f : /\ N \in Nat
               /\ q \in Seq(A) /\ Len(q) = N
               /\ DOMAIN q = 1 .. N
               /\ \A k \in 1 .. N : f[k] \in P /\ q[k] = s[f[k]]
               /\ \A j, k \in 1 .. N : j < k => f[j] < f[k]
               /\ \A i \in P : \E k \in 1 .. N : f[k] = i
  BY KeptInOrder
<1> HIDE DEF q, N
<1>2. Len(s) \in Nat
  OBVIOUS
<1>3. ASSUME NEW i \in 1 .. N, NEW j \in 1 .. N, q[i] \in parents[q[j]]
      PROVE  i < j
  <2>1. /\ f[i] \in 1 .. Len(s) /\ f[j] \in 1 .. Len(s) /\ q[i] = s[f[i]] /\ q[j] = s[f[j]]
    BY <1>1
  <2>2. f[i] < f[j]
    BY <1>3, <2>1
  <2>3. i = j => f[i] = f[j]
    OBVIOUS
  <2>4. j < i => f[j] < f[i]
    BY <1>1
  <2> QED BY <1>1, <1>2, <2>1, <2>2, <2>3, <2>4
<1> QED BY <1>1, <1>3 DEF q
=============================================================================
