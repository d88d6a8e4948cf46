-------------------------- MODULE NodeQueueLemmas --------------------------
(***************************************************************************)
(* Facts about the queues of node IDs, and about sequences, sets and       *)
(* numbers, that the proofs of the other modules share.                    *)
(***************************************************************************)
EXTENDS NodeQueue, FiniteSetTheorems, SequenceTheorems, WellFoundedInduction, TLAPS

(* A non-empty set of natural numbers has a least element, which Min       *)
(* returns: the first entry that the loops over the packet store come to.  *)
LEMMA MinIsLeast ==
  ASSUME NEW S, S \subseteq Nat, S # {}
  PROVE  /\ Min(S) \in S
         /\ \A x \in S : Min(S) <= x
<1>1. PICK x \in S : \A y \in S : ~(<<y, x>> \in OpToRel(<, Nat))
  BY WFMin, NatLessThanWellFounded
<1>2. \A y \in S : x <= y
  <2> SUFFICES ASSUME NEW y \in S, y < x PROVE FALSE
    OBVIOUS
  <2>1. <<y, x>> \in Nat \X Nat /\ <<y, x>>[1] < <<y, x>>[2]
    OBVIOUS
  <2>2. <<y, x>> \in OpToRel(<, Nat)
    BY <2>1, Zenon DEF OpToRel
  <2> QED
    BY <2>2, <1>1
<1> QED
  BY <1>2 DEF Min

(* Different elements of a finite set can be numbered up to its            *)
(* cardinality only.                                                       *)
LEMMA Pigeonhole ==
  ASSUME NEW n \in Nat, NEW T, IsFiniteSet(T), NEW f \in [1 .. n -> T],
         \A j, k \in 1 .. n : f[j] = f[k] => j = k
  PROVE  n <= Cardinality(T)
<1> DEFINE S == 1 .. n
<1>1. IsFiniteSet(S) /\ Cardinality(S) = n
  BY FS_Interval
<1>2. Cardinality(T) \in Nat
  BY FS_CardinalityType
<1>3. f \in [S -> T]
  OBVIOUS
<1>4. \A j, k \in S : f[j] = f[k] => j = k
  OBVIOUS
<1> HIDE DEF S
<1>5. ~(Cardinality(T) < Cardinality(S))
  BY <1>1, <1>3, <1>4, FS_PigeonHole
<1> QED
  BY <1>1, <1>2, <1>5

(* The index of a circular queue, wrapped with %, lies inside the queue. *)
LEMMA ModRange ==
  ASSUME NEW a \in Nat, NEW n \in Nat \ {0}
  PROVE  a % n \in 0 .. n - 1
OBVIOUS

(* Stepping around a circle of n places, once at most. *)
LEMMA ModStep ==
  ASSUME NEW a \in Nat, NEW n \in Nat \ {0}, a < n + n
  PROVE  a % n = IF a < n THEN a ELSE a - n
<1>1. CASE a < n
  <2>1. a = n * 0 + a /\ a \in 0 .. n - 1
    BY <1>1
  <2> QED
    BY <2>1
<1>2. CASE a >= n
  <2>1. a = n * 1 + (a - n) /\ a - n \in 0 .. n - 1
    BY <1>2
  <2> QED
    BY <2>1
<1> QED
  BY <1>1, <1>2

LEMMA RoundStep ==
  ASSUME NEW n \in Nat \ {0}, NEW i \in Nat, NEW k \in Nat, i < n, k < n
  PROVE  /\ (i + k) % n = IF i + k < n THEN i + k ELSE i + k - n
         /\ (i + k) % n \in 0 .. n - 1
<1> DEFINE a == i + k
<1>1. a \in Nat /\ a < n + n
  OBVIOUS
<1> HIDE DEF a
<1>2. a % n = IF a < n THEN a ELSE a - n
  BY <1>1, ModStep
<1> QED
  BY <1>1, <1>2 DEF a

LEMMA NextPlace ==
  ASSUME NEW n \in Nat \ {0}, NEW i \in Nat, i < n
  PROVE  (i + 1) % n = IF i + 1 < n THEN i + 1 ELSE i + 1 - n
<1> DEFINE a == i + 1
<1>1. a \in Nat /\ a < n + n
  OBVIOUS
<1> HIDE DEF a
<1>2. a % n = IF a < n THEN a ELSE a - n
  BY <1>1, ModStep
<1> QED
  BY <1>1, <1>2 DEF a

(* A product grows by one factor when the other grows by one. *)
LEMMA ProductStep ==
  ASSUME NEW k \in Nat, NEW a \in Nat, NEW b \in Nat, a < b
  PROVE  k * a \in Nat /\ k * b \in Nat /\ k * a + k <= k * b
<1>1. PICK c \in Nat : b = a + 1 + c
  <2>1. b - a - 1 \in Nat /\ b = a + 1 + (b - a - 1)
    OBVIOUS
  <2> QED
    BY <2>1
<1>2. k * (a + 1 + c) = k * a + k + k * c
  OBVIOUS
<1>3. k * a \in Nat /\ k * c \in Nat
  OBVIOUS
<1> QED
  BY <1>1, <1>2, <1>3

(* nodeQueueAdd of an ID that is not queued keeps the IDs distinct. *)
LEMMA AppendDistinct ==
  ASSUME NEW T, NEW seq \in Seq(T), NEW e \in T, ~Contains(seq, e),
         \A j, k \in 1 .. Len(seq) : seq[j] = seq[k] => j = k
  PROVE  LET r == Append(seq, e)
         IN  /\ \A x : Contains(r, x) <=> Contains(seq, x) \/ x = e
             /\ \A j, k \in 1 .. Len(r) : r[j] = r[k] => j = k
<1> DEFINE r == Append(seq, e)
<1>1. /\ Len(r) = Len(seq) + 1 /\ Len(seq) \in Nat
      /\ \A k \in 1 .. Len(seq) : r[k] = seq[k]
      /\ r[Len(seq) + 1] = e
  OBVIOUS
<1> HIDE DEF r
<1>2. \A x : Contains(r, x) <=> \E k \in 1 .. Len(r) : r[k] = x
  BY DEF Contains
<1>3. \A x : Contains(seq, x) <=> \E k \in 1 .. Len(seq) : seq[k] = x
  BY DEF Contains
<1>4. \A x : Contains(r, x) <=> Contains(seq, x) \/ x = e
  BY <1>1, <1>2, <1>3
<1>5. \A j, k \in 1 .. Len(r) : r[j] = r[k] => j = k
  BY <1>1, <1>3
<1> QED
  BY <1>4, <1>5 DEF r

(***************************************************************************)
(* The operations of common.c                                              *)
(***************************************************************************)
(* Taking one entry out shifts those behind it down, as the loops of       *)
(* nodeQueueRemoveIfExists and networkManagerRemoveNewNodeRequest do.      *)
LEMMA RemoveAtFacts ==
  ASSUME NEW T, NEW seq \in Seq(T), NEW i \in 1 .. Len(seq)
  PROVE  LET r == RemoveAt(seq, i)
         IN  /\ r \in Seq(T)
             /\ Len(r) = Len(seq) - 1
             /\ \A k \in 1 .. Len(r) : r[k] = IF k < i THEN seq[k] ELSE seq[k + 1]
<1> DEFINE A == SubSeq(seq, 1, i - 1)
           B == SubSeq(seq, i + 1, Len(seq))
           r == RemoveAt(seq, i)
<1>1. A \in Seq(T) /\ Len(A) = i - 1 /\ \A k \in 1 .. i - 1 : A[k] = seq[k]
  OBVIOUS
<1>2. B \in Seq(T) /\ Len(B) = Len(seq) - i /\ \A k \in 1 .. Len(seq) - i : B[k] = seq[i + k]
  OBVIOUS
<1>3. r = A \o B
  BY DEF RemoveAt
<1>4. i \in Nat /\ Len(seq) \in Nat
  OBVIOUS
<1> HIDE DEF A, B, r
<1>5. r \in Seq(T) /\ Len(r) = Len(seq) - 1
  <2>1. A \o B \in Seq(T) /\ Len(A \o B) = Len(A) + Len(B)
    BY <1>1, <1>2, ConcatProperties
  <2> QED
    BY <1>1, <1>2, <1>3, <1>4, <2>1
<1>6. ASSUME NEW k \in 1 .. Len(r) PROVE r[k] = IF k < i THEN seq[k] ELSE seq[k + 1]
  <2>1. r[k] = IF k <= Len(A) THEN A[k] ELSE B[k - Len(A)]
    <3>1. \A j \in 1 .. Len(A) + Len(B) :
            (A \o B)[j] = IF j <= Len(A) THEN A[j] ELSE B[j - Len(A)]
      BY <1>1, <1>2, ConcatProperties
    <3>2. k \in 1 .. Len(A) + Len(B)
      BY <1>1, <1>2, <1>4, <1>5
    <3> QED
      BY <3>1, <3>2, <1>3
  <2>2. CASE k < i
    BY <2>1, <2>2, <1>1, <1>4
  <2>3. CASE k >= i
    <3>1. k - Len(A) \in 1 .. Len(seq) - i /\ r[k] = B[k - Len(A)]
      BY <2>1, <2>3, <1>1, <1>4, <1>5
    <3>2. B[k - Len(A)] = seq[i + (k - Len(A))] /\ i + (k - Len(A)) = k + 1
      BY <3>1, <1>1, <1>2, <1>4
    <3> QED
      BY <3>1, <3>2, <2>3, <1>4
  <2> QED
    BY <2>2, <2>3, <1>4
<1> QED
  BY <1>5, <1>6 DEF r

LEMMA RemoveFirstFacts ==
  ASSUME NEW T, NEW seq \in Seq(T), NEW e, Contains(seq, e)
  PROVE  LET r == RemoveFirst(seq, e)
         IN  \E i \in 1 .. Len(seq) :
               /\ seq[i] = e
               /\ r \in Seq(T)
               /\ Len(r) = Len(seq) - 1
               /\ \A k \in 1 .. Len(r) : r[k] = IF k < i THEN seq[k] ELSE seq[k + 1]
<1> DEFINE I == {k \in 1 .. Len(seq) : seq[k] = e}
           i == Min(I)
           r == RemoveAt(seq, i)
<1>1. I # {} /\ I \subseteq Nat
  BY DEF Contains
<1>2. i \in I
  BY <1>1, MinIsLeast
<1>3. RemoveFirst(seq, e) = r
  BY <1>1 DEF RemoveFirst, SelectInSeq, Contains
<1> HIDE DEF i
<1>4. i \in 1 .. Len(seq) /\ seq[i] = e
  BY <1>2
<1>5. /\ r \in Seq(T)
      /\ Len(r) = Len(seq) - 1
      /\ \A k \in 1 .. Len(r) : r[k] = IF k < i THEN seq[k] ELSE seq[k + 1]
  BY <1>4, RemoveAtFacts
<1> HIDE DEF r
<1> QED
  BY <1>3, <1>4, <1>5

(* Of a queue of node IDs without duplicates, everything but the removed   *)
(* ID remains, still without duplicates.                                   *)
LEMMA RemoveFirstDistinct ==
  ASSUME NEW T, NEW seq \in Seq(T), NEW e, Contains(seq, e),
         \A j, k \in 1 .. Len(seq) : seq[j] = seq[k] => j = k
  PROVE  LET r == RemoveFirst(seq, e)
         IN  /\ \A j, k \in 1 .. Len(r) : r[j] = r[k] => j = k
             /\ \A x : Contains(r, x) <=> Contains(seq, x) /\ x # e
<1> DEFINE r == RemoveFirst(seq, e)
<1>1. PICK i \in 1 .. Len(seq) :
             /\ seq[i] = e
             /\ r \in Seq(T)
             /\ Len(r) = Len(seq) - 1
             /\ \A k \in 1 .. Len(r) : r[k] = IF k < i THEN seq[k] ELSE seq[k + 1]
  BY RemoveFirstFacts
<1>2. Len(seq) \in Nat
  OBVIOUS
<1> DEFINE at(k) == IF k < i THEN k ELSE k + 1
<1>3. \A k \in 1 .. Len(r) : at(k) \in 1 .. Len(seq) /\ r[k] = seq[at(k)] /\ at(k) # i
  BY <1>1, <1>2
<1>4. \A k \in 1 .. Len(seq) : k # i => \E j \in 1 .. Len(r) : at(j) = k
  <2> SUFFICES ASSUME NEW k \in 1 .. Len(seq), k # i
               PROVE  \E j \in 1 .. Len(r) : at(j) = k
    OBVIOUS
  <2>1. CASE k < i
    BY <1>1, <1>2, <2>1
  <2>2. CASE k > i
    <3>1. k - 1 \in 1 .. Len(r) /\ at(k - 1) = k
      BY <1>1, <1>2, <2>2
    <3> QED
      BY <3>1
  <2> QED
    BY <1>1, <1>2, <2>1, <2>2
<1>5. \A j, k \in 1 .. Len(r) : at(j) = at(k) => j = k
  BY <1>1, <1>2
<1> HIDE DEF r, at
<1>6. \A j, k \in 1 .. Len(r) : r[j] = r[k] => j = k
  BY <1>3, <1>5
<1>7. ASSUME NEW x PROVE Contains(r, x) <=> Contains(seq, x) /\ x # e
  <2>1. ASSUME NEW k \in 1 .. Len(r), r[k] = x PROVE Contains(seq, x) /\ x # e
    <3>1. at(k) \in 1 .. Len(seq) /\ seq[at(k)] = x /\ at(k) # i
      BY <1>3, <2>1
    <3> QED
      BY <3>1, <1>1 DEF Contains
  <2>2. ASSUME NEW k \in 1 .. Len(seq), seq[k] = x, x # e PROVE Contains(r, x)
    <3>1. PICK j \in 1 .. Len(r) : at(j) = k
      BY <1>1, <1>4, <2>2
    <3>2. r[j] = x
      BY <1>3, <2>2, <3>1
    <3> QED
      BY <3>2 DEF Contains
  <2> QED
    BY <2>1, <2>2 DEF Contains
<1> QED
  BY <1>6, <1>7 DEF r

(* nodeQueueAdd keeps the type of a queue. *)
LEMMA nodeQueueAddType ==
  ASSUME NEW T, NEW q \in [nodeIds : Seq(T), lastIndex : Nat], NEW e \in T
  PROVE  nodeQueueAdd(q, e) \in [nodeIds : Seq(T), lastIndex : Nat]
BY DEF nodeQueueAdd

(* nodeQueueRemoveIfExists keeps the type of a queue, and takes exactly    *)
(* the given ID out of a queue without duplicates.                         *)
LEMMA nodeQueueRemoveFacts ==
  ASSUME NEW T, NEW q \in [nodeIds : Seq(T), lastIndex : Nat], NEW e
  PROVE  LET r == nodeQueueRemoveIfExists(q, e)
         IN  /\ r \in [nodeIds : Seq(T), lastIndex : Nat]
             /\ r.lastIndex = 0 \/ r.lastIndex < numNodes(r) \/ r = q
             /\ (\A j, k \in 1 .. numNodes(q) : q.nodeIds[j] = q.nodeIds[k] => j = k) =>
                  /\ \A j, k \in 1 .. numNodes(r) : r.nodeIds[j] = r.nodeIds[k] => j = k
                  /\ \A x : Contains(r.nodeIds, x) <=> Contains(q.nodeIds, x) /\ x # e
<1> DEFINE r == nodeQueueRemoveIfExists(q, e)
           s == q.nodeIds
           ids == RemoveFirst(s, e)
<1>1. s \in Seq(T) /\ q.lastIndex \in Nat
  OBVIOUS
<1>2. CASE ~Contains(s, e)
  <2>1. r = q
    BY <1>2 DEF nodeQueueRemoveIfExists
  <2>2. \A x : Contains(s, x) => x # e
    BY <1>2
  <2> QED
    BY <2>1, <2>2
<1>3. CASE Contains(s, e)
  <2>1. r = [nodeIds |-> ids, lastIndex |-> IF q.lastIndex >= Len(ids) THEN 0 ELSE q.lastIndex]
    BY <1>3 DEF nodeQueueRemoveIfExists
  <2>2. ids \in Seq(T)
    BY <1>1, <1>3, RemoveFirstFacts
  <2>3. /\ r.nodeIds = ids /\ r \in [nodeIds : Seq(T), lastIndex : Nat]
        /\ r.lastIndex = 0 \/ r.lastIndex < Len(r.nodeIds)
    BY <2>1, <2>2, <1>1
  <2>4. ASSUME \A j, k \in 1 .. Len(s) : s[j] = s[k] => j = k
        PROVE  /\ \A j, k \in 1 .. Len(ids) : ids[j] = ids[k] => j = k
               /\ \A x : Contains(ids, x) <=> Contains(s, x) /\ x # e
    BY <1>1, <1>3, <2>4, RemoveFirstDistinct
  <2> HIDE DEF r, ids
  <2> QED
    BY <2>3, <2>4 DEF numNodes, r
<1> QED
  BY <1>2, <1>3

(* The places of a sequence are counted from the first that is left. *)
LEMMA PlaceCount ==
  ASSUME NEW n \in Nat, NEW P \in SUBSET (1 .. n), NEW i \in P
  PROVE  LET upTo(j) == {k \in P : k <= j}
         IN  /\ Cardinality(upTo(i)) \in 1 .. Cardinality(P)
             /\ \A j \in P : i < j => Cardinality(upTo(i)) < Cardinality(upTo(j))
<1> DEFINE upTo(j) == {k \in P : k <= j}
<1>1. IsFiniteSet(P) /\ Cardinality(P) \in Nat
  <2>1. IsFiniteSet(1 .. n)
    BY FS_Interval
  <2>2. IsFiniteSet(P)
    BY <2>1, FS_Subset
  <2> QED
    BY <2>2, FS_CardinalityType
<1>2. \A j \in P : /\ upTo(j) \in SUBSET P /\ IsFiniteSet(upTo(j))
                   /\ Cardinality(upTo(j)) \in Nat /\ Cardinality(upTo(j)) <= Cardinality(P)
  <2> SUFFICES ASSUME NEW j \in P
               PROVE  /\ upTo(j) \in SUBSET P /\ IsFiniteSet(upTo(j))
                      /\ Cardinality(upTo(j)) \in Nat /\ Cardinality(upTo(j)) <= Cardinality(P)
    OBVIOUS
  <2>1. upTo(j) \in SUBSET P
    OBVIOUS
  <2> DEFINE U == upTo(j)
  <2> HIDE DEF U
  <2>2. U \in SUBSET P
    BY <2>1 DEF U
  <2>3. IsFiniteSet(U) /\ Cardinality(U) <= Cardinality(P)
    BY <1>1, <2>2, FS_Subset
  <2>4. Cardinality(U) \in Nat
    BY <2>3, FS_CardinalityType
  <2> QED
    BY <2>2, <2>3, <2>4 DEF U
<1>3. Cardinality(upTo(i)) # 0
  <2>1. i \in upTo(i)
    OBVIOUS
  <2> DEFINE U == upTo(i)
  <2>2. IsFiniteSet(U) /\ U # {}
    BY <1>2, <2>1
  <2> HIDE DEF U
  <2>3. Cardinality(U) # 0
    BY <2>2, FS_EmptySet
  <2> QED
    BY <2>3 DEF U
<1>4. ASSUME NEW j \in P, i < j PROVE Cardinality(upTo(i)) < Cardinality(upTo(j))
  <2> DEFINE U == upTo(i)
             V == upTo(j)
  <2>1. U \in SUBSET V /\ U # V
    <3>1. j \in V /\ j \notin U
      BY <1>4
    <3>2. \A k \in U : k \in V
      BY <1>4
    <3> QED
      BY <3>1, <3>2
  <2>2. IsFiniteSet(V) /\ Cardinality(V) \in Nat /\ Cardinality(U) \in Nat
    BY <1>2
  <2> HIDE DEF U, V
  <2>3. Cardinality(U) <= Cardinality(V) /\ Cardinality(U) # Cardinality(V)
    BY <2>1, <2>2, FS_Subset
  <2>4. Cardinality(U) < Cardinality(V)
    BY <2>2, <2>3
  <2> QED
    BY <2>4 DEF U, V
<1> QED
  BY <1>1, <1>2, <1>3, <1>4

(* What EntriesAt picks: every one of the places once. *)
Picks(r, seq, P, at) ==
  /\ at \in [1 .. Len(r) -> P]
  /\ \A k \in 1 .. Len(r) : r[k] = seq[at[k]]
  /\ \A j, k \in 1 .. Len(r) : at[j] = at[k] => j = k
  /\ \A i \in P : \E k \in 1 .. Len(r) : at[k] = i

LEMMA EntriesAtFacts ==
  ASSUME NEW T, NEW seq \in Seq(T), NEW P \in SUBSET DOMAIN seq
  PROVE  LET r == EntriesAt(seq, P)
         IN  /\ r \in Seq(T) /\ Len(r) = Cardinality(P) /\ Len(r) \in Nat
             /\ Len(r) <= Len(seq)
             /\ \E at : Picks(r, seq, P, at)
<1> DEFINE n == Len(seq)
           c == Cardinality(P)
           count(i) == Cardinality({j \in P : j <= i})
           f == [i \in P |-> count(i)]
           at == [k \in 1 .. c |-> CHOOSE i \in P : count(i) = k]
           r == EntriesAt(seq, P)
<1>1. n \in Nat /\ P \in SUBSET (1 .. n) /\ \A i \in P : seq[i] \in T
  OBVIOUS
<1>2. IsFiniteSet(P) /\ c \in Nat /\ c <= n
  <2> HIDE DEF n
  <2>1. IsFiniteSet(1 .. n) /\ Cardinality(1 .. n) = n
    BY <1>1, FS_Interval
  <2>2. IsFiniteSet(P) /\ Cardinality(P) <= n
    BY <1>1, <2>1, FS_Subset
  <2> QED
    BY <2>2, FS_CardinalityType
<1>3. \A i \in P : count(i) \in 1 .. c /\ \A j \in P : i < j => count(i) < count(j)
  BY <1>1, PlaceCount
<1> HIDE DEF c, count
<1>4. f \in Injection(P, 1 .. c)
  <2>1. f \in [P -> 1 .. c]
    BY <1>3
  <2>2. ASSUME NEW i \in P, NEW j \in P, f[i] = f[j] PROVE i = j
    <3>1. i \in Nat /\ j \in Nat
      BY <1>1
    <3>2. count(i) = count(j) /\ count(i) \in Nat /\ count(j) \in Nat
      BY <1>2, <1>3, <2>2
    <3>3. ~(i < j) /\ ~(j < i)
      BY <1>3, <3>2
    <3> QED
      BY <3>1, <3>3
  <2> QED
    BY <2>1, <2>2 DEF Injection, IsInjective
<1>5. IsFiniteSet(1 .. c) /\ Cardinality(1 .. c) = c
  BY <1>2, FS_Interval
<1>6. f \in Surjection(P, 1 .. c)
  <2> HIDE DEF f
  <2> QED
    BY <1>4, <1>5, FS_Injection DEF c
<1>7. \A k \in 1 .. c : at[k] \in P /\ count(at[k]) = k
  <2> SUFFICES ASSUME NEW k \in 1 .. c PROVE at[k] \in P /\ count(at[k]) = k
    OBVIOUS
  <2>1. \E i \in P : f[i] = k
    BY <1>6 DEF Surjection
  <2>2. \E i \in P : count(i) = k
    BY <2>1
  <2> QED
    BY <2>2
<1>8. \A j, k \in 1 .. c : at[j] = at[k] => j = k
  BY <1>7
<1>9. \A i \in P : \E k \in 1 .. c : at[k] = i
  <2> SUFFICES ASSUME NEW i \in P PROVE at[count(i)] = i /\ count(i) \in 1 .. c
    OBVIOUS
  <2> DEFINE k == count(i)
  <2>1. k \in 1 .. c /\ at[k] \in P /\ count(at[k]) = k
    BY <1>3, <1>7
  <2>2. at[k] \in Nat /\ i \in Nat
    BY <1>1, <2>1
  <2>3. ~(at[k] < i) /\ ~(i < at[k])
    <3> HIDE DEF at
    <3>1. count(i) = k /\ k \in Nat
      BY <1>2, <2>1
    <3> HIDE DEF k
    <3> QED
      BY <1>3, <2>1, <3>1
  <2> QED
    BY <2>1, <2>2, <2>3
<1>10. r = [k \in 1 .. c |-> seq[at[k]]]
  BY DEF EntriesAt, c, count
<1> HIDE DEF at, r
<1>11. r \in [1 .. c -> T]
  BY <1>1, <1>7, <1>10
<1>12. r \in Seq(T) /\ Len(r) = c
  <2>1. r \in Seq(T)
    BY <1>2, <1>11
  <2> QED
    BY <1>2, <1>11, <2>1, LenProperties
<1>13. at \in [1 .. c -> P]
  BY <1>7 DEF at
<1>14. Picks(r, seq, P, at)
  BY <1>7, <1>8, <1>9, <1>10, <1>12, <1>13 DEF Picks
<1> QED
  BY <1>2, <1>12, <1>14 DEF r, c

(***************************************************************************)
(* The round robin                                                         *)
(***************************************************************************)
(* The position of a queue, and its k nodes in turn, when the position     *)
(* lies inside the queue.                                                  *)
LEMMA NodeAfterFacts ==
  ASSUME NEW T, NEW q \in [nodeIds : Seq(T), lastIndex : Nat],
         q.lastIndex < numNodes(q), NEW k \in Nat, k < numNodes(q)
  PROVE  LET at == IF q.lastIndex + k < numNodes(q) THEN q.lastIndex + k
                   ELSE q.lastIndex + k - numNodes(q)
         IN  /\ at \in 0 .. numNodes(q) - 1
             /\ NodeAfter(q, k) = q.nodeIds[at + 1]
             /\ NodeAfter(q, k) \in T
<1> DEFINE n == numNodes(q)
           i == q.lastIndex
           at == IF i + k < n THEN i + k ELSE i + k - n
<1>1. n \in Nat \ {0} /\ i \in Nat /\ i < n /\ k < n
  BY DEF numNodes
<1>2. NodeAfter(q, k) = q.nodeIds[((i + k) % n) + 1]
  BY DEF NodeAfter
<1>3. n = Len(q.nodeIds) /\ q.nodeIds \in Seq(T)
  BY DEF numNodes
<1> HIDE DEF n, i
<1>4. (i + k) % n = at /\ at \in 0 .. n - 1
  BY <1>1, RoundStep
<1> HIDE DEF at
<1>5. at + 1 \in 1 .. Len(q.nodeIds)
  BY <1>1, <1>3, <1>4
<1>6. q.nodeIds[at + 1] \in T
  BY <1>3, <1>5
<1> QED
  BY <1>2, <1>4, <1>6 DEF at, n, i

(* The next numNodes turns go to different nodes. *)
LEMMA NodeAfterDistinct ==
  ASSUME NEW T, NEW q \in [nodeIds : Seq(T), lastIndex : Nat],
         q.lastIndex < numNodes(q),
         \A j, k \in 1 .. numNodes(q) : q.nodeIds[j] = q.nodeIds[k] => j = k,
         NEW j \in 0 .. numNodes(q) - 1, NEW k \in 0 .. numNodes(q) - 1,
         NodeAfter(q, j) = NodeAfter(q, k)
  PROVE  j = k
<1> DEFINE n == numNodes(q)
           i == q.lastIndex
           at(m) == IF i + m < n THEN i + m ELSE i + m - n
<1>1. n \in Nat /\ i \in Nat /\ i < n
  BY DEF numNodes
<1>2. ASSUME NEW m \in Nat, m < n
      PROVE  at(m) \in 0 .. n - 1 /\ NodeAfter(q, m) = q.nodeIds[at(m) + 1]
  BY <1>2, NodeAfterFacts
<1> HIDE DEF n, i
<1>3. j \in Nat /\ j < n /\ k \in Nat /\ k < n
  BY <1>1 DEF n
<1>4. at(j) \in 0 .. n - 1 /\ at(k) \in 0 .. n - 1 /\ q.nodeIds[at(j) + 1] = q.nodeIds[at(k) + 1]
  BY <1>2, <1>3
<1>5. at(j) + 1 = at(k) + 1
  <2> HIDE DEF at
  <2>1. at(j) + 1 \in 1 .. n /\ at(k) + 1 \in 1 .. n
    BY <1>1, <1>4
  <2> QED
    BY <1>4, <2>1 DEF n
<1> QED
  BY <1>1, <1>3, <1>4, <1>5

(* getNextNodeInQueue moves the position on, around the queue. *)
LEMMA getNextNodesFacts ==
  ASSUME NEW T, NEW q \in [nodeIds : Seq(T), lastIndex : Nat], numNodes(q) > 0, NEW k \in Nat
  PROVE  LET r == getNextNodesInQueue(q, k)
         IN  /\ r \in [nodeIds : Seq(T), lastIndex : Nat]
             /\ r.nodeIds = q.nodeIds
             /\ r.lastIndex = (q.lastIndex + k) % numNodes(q)
             /\ r.lastIndex < numNodes(r)
<1>1. numNodes(q) \in Nat \ {0}
  BY DEF numNodes
<1>2. (q.lastIndex + k) % numNodes(q) \in 0 .. numNodes(q) - 1
  <2> DEFINE a == q.lastIndex + k
             n == numNodes(q)
  <2>1. a \in Nat /\ n \in Nat \ {0}
    BY <1>1
  <2> HIDE DEF a, n
  <2>2. a % n \in 0 .. n - 1
    BY <2>1, ModRange
  <2> QED
    BY <2>2 DEF a, n
<1> QED
  BY <1>1, <1>2 DEF getNextNodesInQueue, numNodes
=============================================================================
