--------------------------- MODULE SequenceCounts ---------------------------
(***************************************************************************)
(* The proofs of the laws of counting: how many elements of a queue, or of *)
(* the queues of several workers, are in a set, and what appending and     *)
(* removing elements does to the number.  The counters of the scheduler    *)
(* and of the lock tables are compared with such numbers.                  *)
(***************************************************************************)
EXTENDS Counting, FiniteSetTheorems, TLAPS

(***************************************************************************)
(* A sequence has finitely many elements of a set; none when the number is *)
(* zero.                                                                   *)
(***************************************************************************)
LEMMA CountType ==
    ASSUME NEW S, NEW s \in Seq(S), NEW X
    PROVE  /\ IsFiniteSet(Positions(s, X)) /\ Count(s, X) \in Nat
           /\ Count(s, X) = 0 <=> \A i \in DOMAIN s : s[i] \notin X
<1>1. DOMAIN s = 1 .. Len(s) /\ Len(s) \in Nat
  OBVIOUS
<1>2. IsFiniteSet(1 .. Len(s))
  BY <1>1, FS_Interval
<1>3. IsFiniteSet(Positions(s, X))
  BY <1>1, <1>2, FS_Subset DEF Positions
<1>4. Count(s, X) \in Nat
  BY <1>3, FS_CardinalityType DEF Count
<1>5. Count(s, X) = 0 <=> Positions(s, X) = {}
  BY <1>3, FS_EmptySet DEF Count
<1>6. QED BY <1>3, <1>4, <1>5 DEF Positions

(***************************************************************************)
(* Nothing is counted in the empty sequence.                               *)
(***************************************************************************)
LEMMA CountEmpty ==
    ASSUME NEW X
    PROVE  Count(<< >>, X) = 0
<1>1. Positions(<< >>, X) = {}
  BY DEF Positions
<1>2. QED BY <1>1, FS_EmptySet DEF Count

(***************************************************************************)
(* Moving all positions by a fixed distance does not change their number.  *)
(***************************************************************************)
LEMMA Shifted ==
    ASSUME NEW A \in SUBSET Int, NEW B \in SUBSET Int, NEW d \in Int, IsFiniteSet(A),
           \A i \in Int : i \in A <=> i + d \in B
    PROVE  IsFiniteSet(B) /\ Cardinality(B) = Cardinality(A)
<1> DEFINE f == [i \in A |-> i + d]
<1>1. f \in [A -> B]
  OBVIOUS
<1>2. \A i, j \in A : f[i] = f[j] => i = j
  OBVIOUS
<1>3. \A b \in B : \E i \in A : f[i] = b
  <2> TAKE b \in B
  <2>1. b - d \in A /\ f[b - d] = b
    OBVIOUS
  <2>2. QED BY <2>1
<1>4. f \in Bijection(A, B)
  BY <1>1, <1>2, <1>3 DEF Bijection, Injection, Surjection, IsInjective
<1>5. ExistsBijection(A, B)
  BY <1>4 DEF ExistsBijection
<1>6. QED BY <1>5, FS_Bijection

(***************************************************************************)
(* Appending an element, and removing the first one.                       *)
(***************************************************************************)
LEMMA CountAppend ==
    ASSUME NEW S, NEW s \in Seq(S), NEW e \in S, NEW X
    PROVE  Count(Append(s, e), X) = Count(s, X) + One(e, X)
<1> DEFINE n == Len(s) + 1
<1>1. /\ DOMAIN s = 1 .. Len(s) /\ DOMAIN Append(s, e) = 1 .. n /\ n \notin DOMAIN s
      /\ \A i \in DOMAIN s : Append(s, e)[i] = s[i]
      /\ Append(s, e)[n] = e
  OBVIOUS
<1>2. IsFiniteSet(Positions(s, X)) /\ Count(s, X) \in Nat
  BY CountType
<1>3. CASE e \in X
  <2>1. Positions(Append(s, e), X) = Positions(s, X) \cup {n} /\ n \notin Positions(s, X)
    BY <1>1, <1>3 DEF Positions
  <2>2. Cardinality(Positions(Append(s, e), X)) = Cardinality(Positions(s, X)) + 1
    BY <1>2, <2>1, FS_AddElement, Zenon
  <2>3. QED BY <1>3, <2>2 DEF Count, One
<1>4. CASE e \notin X
  <2>1. Positions(Append(s, e), X) = Positions(s, X)
    BY <1>1, <1>4 DEF Positions
  <2>2. QED BY <1>2, <1>4, <2>1 DEF Count, One
<1>5. QED BY <1>3, <1>4

(***************************************************************************)
(* Taking the head away takes one from the counts it belongs to.           *)
(***************************************************************************)
LEMMA CountTail ==
    ASSUME NEW S, NEW s \in Seq(S), s # << >>, NEW X
    PROVE  Count(s, X) = Count(Tail(s), X) + One(Head(s), X)
<1>1. /\ DOMAIN s = 1 .. Len(s) /\ DOMAIN Tail(s) = 1 .. Len(s) - 1 /\ Len(s) \in Nat \ {0}
      /\ \A i \in DOMAIN Tail(s) : Tail(s)[i] = s[i + 1]
      /\ Head(s) = s[1] /\ Tail(s) \in Seq(S)
  OBVIOUS
<1>2. IsFiniteSet(Positions(s, X)) /\ Count(s, X) \in Nat
  BY CountType
<1> DEFINE A == Positions(s, X) \ {1}
<1>4. Cardinality(A) = Count(Tail(s), X)
  <2>1. A \in SUBSET Int /\ Positions(Tail(s), X) \in SUBSET Int
    BY <1>1 DEF Positions
  <2>2. \A i \in Int : i \in Positions(Tail(s), X) <=> i + 1 \in A
    BY <1>1 DEF Positions
  <2>3. IsFiniteSet(Positions(Tail(s), X))
    BY <1>1, CountType
  <2>4. 1 \in Int
    OBVIOUS
  <2> HIDE DEF A
  <2>5. QED BY <2>1, <2>2, <2>3, <2>4, Shifted, Zenon DEF Count
<1>5. CASE Head(s) \in X
  <2>1. 1 \in Positions(s, X)
    BY <1>1, <1>5 DEF Positions
  <2>2. Cardinality(A) = Cardinality(Positions(s, X)) - 1
    BY <1>2, <2>1, FS_RemoveElement, Zenon
  <2>3. QED BY <1>2, <1>4, <1>5, <2>2 DEF Count, One
<1>6. CASE Head(s) \notin X
  <2>1. A = Positions(s, X)
    BY <1>1, <1>6 DEF Positions
  <2> HIDE DEF A
  <2>2. QED BY <1>2, <1>4, <1>6, <2>1 DEF Count, One
<1>7. QED BY <1>5, <1>6

(***************************************************************************)
(* Two sequences one after the other.                                      *)
(***************************************************************************)
LEMMA CountConcat ==
    ASSUME NEW S, NEW s \in Seq(S), NEW t \in Seq(S), NEW X
    PROVE  Count(s \o t, X) = Count(s, X) + Count(t, X)
<1>1. /\ DOMAIN s = 1 .. Len(s) /\ DOMAIN t = 1 .. Len(t)
      /\ s \o t \in Seq(S) /\ DOMAIN (s \o t) = 1 .. Len(s) + Len(t)
      /\ \A i \in 1 .. Len(s) : (s \o t)[i] = s[i]
      /\ \A i \in Len(s) + 1 .. Len(s) + Len(t) : (s \o t)[i] = t[i - Len(s)]
      /\ Len(s) \in Nat /\ Len(t) \in Nat
  OBVIOUS
<1> DEFINE A == Positions(s, X)
           B == {i \in Positions(s \o t, X) : i > Len(s)}
<1>2. IsFiniteSet(A) /\ IsFiniteSet(Positions(t, X)) /\ Count(s, X) \in Nat /\ Count(t, X) \in Nat
  BY CountType
<1>3. IsFiniteSet(B) /\ Cardinality(B) = Count(t, X)
  <2>1. B \in SUBSET Int /\ Positions(t, X) \in SUBSET Int
    BY <1>1 DEF Positions
  <2>2. \A i \in Int : i \in Positions(t, X) <=> i + Len(s) \in B
    BY <1>1 DEF Positions
  <2>3. Len(s) \in Int
    BY <1>1
  <2> HIDE DEF B
  <2>4. QED BY <1>2, <2>1, <2>2, <2>3, Shifted, Zenon DEF Count
<1>4. Positions(s \o t, X) = A \cup B /\ A \cap B = {}
  BY <1>1 DEF Positions
<1>5. Cardinality(A \cup B) = Cardinality(A) + Cardinality(B) - Cardinality(A \cap B)
  BY <1>2, <1>3, FS_Union
<1>6. Cardinality(A \cap B) = 0
  BY <1>4, FS_EmptySet
<1> HIDE DEF A, B
<1>7. QED BY <1>2, <1>3, <1>4, <1>5, <1>6 DEF Count, A

(***************************************************************************)
(* One of several queues changes: the total changes by as much.            *)
(***************************************************************************)
LEMMA TotalExcept ==
    ASSUME NEW W, NEW S, NEW f \in Queues(W, S), NEW g \in Queues(W, S), NEW w \in W, NEW X,
           \A v \in W \ {w} : g[v] = f[v], IsFiniteSet(Places(f, X))
    PROVE  /\ IsFiniteSet(Places(g, X)) /\ Total(f, X) \in Nat /\ Total(g, X) \in Nat
           /\ Total(g, X) + Count(f[w], X) = Total(f, X) + Count(g[w], X)
<1> USE DEF Queues
<1> DEFINE A == {p \in Places(f, X) : p[1] # w}
           At(s) == {w} \X Positions(s, X)
<1>2. IsFiniteSet(A)
  BY FS_Subset
<1>3. ASSUME NEW s \in Seq(S) PROVE IsFiniteSet(At(s)) /\ Cardinality(At(s)) = Count(s, X)
  <2>1. IsFiniteSet(Positions(s, X)) /\ Count(s, X) \in Nat
    BY CountType
  <2>2. IsFiniteSet({w}) /\ Cardinality({w}) = 1
    BY FS_Singleton
  <2>3. IsFiniteSet(At(s)) /\ Cardinality(At(s)) = Cardinality({w}) * Cardinality(Positions(s, X))
    BY <2>1, <2>2, FS_Product
  <2>4. QED BY <2>1, <2>2, <2>3 DEF Count
<1>4. ASSUME NEW h \in [W -> Seq(S)], \A v \in W \ {w} : h[v] = f[v]
      PROVE  /\ IsFiniteSet(Places(h, X))
             /\ Total(h, X) = Cardinality(A) + Count(h[w], X)
  <2>1. \A v \in W : h[v] \in Seq(S) /\ DOMAIN h[v] \subseteq Nat
    BY <1>4
  <2>2. Places(h, X) = A \cup At(h[w])
    <3>1. ASSUME NEW p \in Places(h, X) PROVE p \in A \cup At(h[w])
      BY <1>4, <3>1 DEF Places, Positions
    <3>2. ASSUME NEW p \in A PROVE p \in Places(h, X)
      BY <1>4, <3>2 DEF Places
    <3>3. ASSUME NEW p \in At(h[w]) PROVE p \in Places(h, X)
      BY <1>4, <2>1, <3>3 DEF Places, Positions
    <3>4. QED BY <3>1, <3>2, <3>3
  <2>3. A \cap At(h[w]) = {}
    OBVIOUS
  <2>4. IsFiniteSet(At(h[w])) /\ Cardinality(At(h[w])) = Count(h[w], X)
    BY <1>3, <2>1
  <2> HIDE DEF A, At
  <2>5. /\ IsFiniteSet(A \cup At(h[w]))
        /\ Cardinality(A \cup At(h[w]))
             = Cardinality(A) + Cardinality(At(h[w])) - Cardinality(A \cap At(h[w]))
    BY <1>2, <2>4, FS_Union
  <2>6. Cardinality(A \cap At(h[w])) = 0
    BY <2>3, FS_EmptySet
  <2>7. Cardinality(A) \in Nat /\ Cardinality(At(h[w])) \in Nat
    BY <1>2, <2>4, FS_CardinalityType
  <2>8. QED BY <2>2, <2>4, <2>5, <2>6, <2>7 DEF Total
<1>5. Cardinality(A) \in Nat /\ Count(f[w], X) \in Nat /\ Count(g[w], X) \in Nat
  BY <1>2, FS_CardinalityType, CountType
<1> HIDE DEF A
<1>6. Total(f, X) = Cardinality(A) + Count(f[w], X)
  BY <1>4
<1>7. IsFiniteSet(Places(g, X)) /\ Total(g, X) = Cardinality(A) + Count(g[w], X)
  BY <1>4
<1>8. QED BY <1>5, <1>6, <1>7

(***************************************************************************)
(* Nothing is in the queues when the total is zero.                        *)
(***************************************************************************)
LEMMA TotalZero ==
    ASSUME NEW W, NEW S, NEW f \in [W -> Seq(S)], NEW X, IsFiniteSet(Places(f, X))
    PROVE  /\ Total(f, X) \in Nat
           /\ Total(f, X) = 0 <=> \A w \in W : \A i \in DOMAIN f[w] : f[w][i] \notin X
<1>1. Total(f, X) = 0 <=> Places(f, X) = {}
  BY FS_EmptySet DEF Total
<1>2. ASSUME NEW w \in W, NEW i \in DOMAIN f[w], f[w][i] \in X PROVE <<w, i>> \in Places(f, X)
  <2>1. f[w] \in Seq(S) /\ i \in Nat
    OBVIOUS
  <2>2. QED BY <1>2, <2>1 DEF Places
<1>3. (\A w \in W : \A i \in DOMAIN f[w] : f[w][i] \notin X) => Places(f, X) = {}
  BY DEF Places
<1>4. QED BY <1>1, <1>2, <1>3, FS_CardinalityType DEF Total

(***************************************************************************)
(* All the laws of Counting hold.                                          *)
(***************************************************************************)
LEMMA CountingLawsHold == CountingLaws
<1>1. CountTypes /\ EmptyCounts
  BY CountType, CountEmpty DEF CountTypes, EmptyCounts
<1>2. AppendCounts /\ TailCounts /\ ConcatCounts
  BY CountAppend, CountTail, CountConcat DEF AppendCounts, TailCounts, ConcatCounts
<1>3. TotalChanges
  BY TotalExcept DEF TotalChanges
<1>4. TotalZeros
  BY TotalZero DEF TotalZeros
<1>5. SetSizes
  BY FS_EmptySet, FS_Singleton, FS_CardinalityType DEF SetSizes
<1>6. PartSizes
  BY FS_Subset DEF PartSizes
<1>7. AddedSizes
  BY FS_AddElement DEF AddedSizes
<1>8. IntervalSizes
  <2>1. ASSUME NEW n \in Nat PROVE IsFiniteSet(1 .. n) /\ Cardinality(1 .. n) = n
    BY FS_Interval
  <2>2. QED BY <2>1 DEF IntervalSizes
<1>9. QED BY <1>1, <1>2, <1>3, <1>4, <1>5, <1>6, <1>7, <1>8 DEF CountingLaws

=============================================================================
