------------------------------ MODULE Counting ------------------------------
(***************************************************************************)
(* How many elements of a queue, or of the queues of several workers, are  *)
(* in a set, and the laws of these numbers: what appending and removing    *)
(* elements does to them.  The laws are stated here, as definitions, and   *)
(* proved in SequenceCounts; a module that assumes CountingLaws needs none *)
(* of the theorems about finite sets that their proofs rest on.            *)
(***************************************************************************)
EXTENDS Integers, Sequences, FiniteSets

Positions(s, X) == {i \in DOMAIN s : s[i] \in X}
Count(s, X) == Cardinality(Positions(s, X))

\* one queue of elements of S for each member of W
Queues(W, S) == [W -> Seq(S)]

Places(f, X) == {p \in (DOMAIN f) \X Nat : p[2] \in DOMAIN f[p[1]] /\ f[p[1]][p[2]] \in X}
Total(f, X) == Cardinality(Places(f, X))

One(e, X) == IF e \in X THEN 1 ELSE 0

-----------------------------------------------------------------------------

\* a sequence has finitely many elements of a set; none when the number is zero
CountTypes ==
  \A S, X : \A s \in Seq(S) :
    /\ IsFiniteSet(Positions(s, X)) /\ Count(s, X) \in Nat
    /\ Count(s, X) = 0 <=> \A i \in DOMAIN s : s[i] \notin X

EmptyCounts == \A X : Count(<< >>, X) = 0

AppendCounts ==
  \A S, X : \A s \in Seq(S), e \in S : Count(Append(s, e), X) = Count(s, X) + One(e, X)

TailCounts ==
  \A S, X : \A s \in Seq(S) :
    s # << >> => Count(s, X) = Count(Tail(s), X) + One(Head(s), X)

ConcatCounts ==
  \A S, X : \A s, t \in Seq(S) : Count(s \o t, X) = Count(s, X) + Count(t, X)

\* one of several queues changes: the total changes by as much
TotalChanges ==
  \A W, S, X : \A f, g \in Queues(W, S), w \in W :
    (\A v \in W \ {w} : g[v] = f[v]) /\ IsFiniteSet(Places(f, X)) =>
      /\ IsFiniteSet(Places(g, X)) /\ Total(f, X) \in Nat /\ Total(g, X) \in Nat
      /\ Total(g, X) + Count(f[w], X) = Total(f, X) + Count(g[w], X)

\* nothing is in the queues when the total is zero
TotalZeros ==
  \A W, S, X : \A f \in [W -> Seq(S)] :
    IsFiniteSet(Places(f, X)) =>
      /\ Total(f, X) \in Nat
      /\ Total(f, X) = 0 <=> \A w \in W : \A i \in DOMAIN f[w] : f[w][i] \notin X

\* finite sets: the size of the empty set, of a part, of a set with one more element
SetSizes ==
  /\ IsFiniteSet({}) /\ Cardinality({}) = 0
  /\ \A x : IsFiniteSet({x}) /\ Cardinality({x}) = 1
  /\ \A P : IsFiniteSet(P) => Cardinality(P) \in Nat /\ (Cardinality(P) = 0 <=> P = {})

PartSizes ==
  \A P, Q : IsFiniteSet(P) /\ Q \subseteq P =>
    /\ IsFiniteSet(Q) /\ Cardinality(Q) <= Cardinality(P)
    /\ Cardinality(Q) = Cardinality(P) => Q = P

AddedSizes ==
  \A P, x : IsFiniteSet(P) /\ x \notin P =>
    IsFiniteSet(P \cup {x}) /\ Cardinality(P \cup {x}) = Cardinality(P) + 1

IntervalSizes == \A n \in Nat : IsFiniteSet(1 .. n) /\ Cardinality(1 .. n) = n

CountingLaws ==
  /\ CountTypes /\ EmptyCounts /\ AppendCounts /\ TailCounts /\ ConcatCounts
  /\ TotalChanges /\ TotalZeros
  /\ SetSizes /\ PartSizes /\ AddedSizes /\ IntervalSizes

=============================================================================
