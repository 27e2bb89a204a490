----------------------------- MODULE QueueCounts -----------------------------
(* How often an element waits in a queue: what appending to the queue, and  *)
(* taking its head, do to that number.                                      *)
EXTENDS Naturals, Sequences, FiniteSets, FiniteSetTheorems, TLAPS

Positions(s, x) == {i \in 1..Len(s) : s[i] = x}

Count(s, x) == Cardinality(Positions(s, x))

LEMMA PositionsFinite ==
    ASSUME NEW S, NEW s \in Seq(S), NEW x
    PROVE  IsFiniteSet(Positions(s, x))
<1>1. IsFiniteSet(1..Len(s))
  BY FS_Interval
<1> QED BY <1>1, FS_Subset DEF Positions

LEMMA CountType ==
    ASSUME NEW S, NEW s \in Seq(S), NEW x PROVE Count(s, x) \in Nat
BY PositionsFinite, FS_CardinalityType DEF Count

LEMMA CountEmpty == ASSUME NEW x PROVE Count(<<>>, x) = 0
<1>1. Positions(<<>>, x) = {}
  BY DEF Positions
<1> QED BY <1>1, FS_EmptySet DEF Count

LEMMA CountAppend ==
    ASSUME NEW S, NEW s \in Seq(S), NEW e \in S, NEW x
    PROVE  Count(Append(s, e), x) = Count(s, x) + (IF e = x THEN 1 ELSE 0)
<1> DEFINE n == Len(s) + 1
<1>1. /\ Len(Append(s, e)) = n /\ Append(s, e)[n] = e
      /\ \A i \in 1..Len(s) : Append(s, e)[i] = s[i]
      /\ Len(s) \in Nat
  OBVIOUS
<1>2. CASE e = x
  <2>1. Positions(Append(s, e), x) = Positions(s, x) \cup {n}
    BY <1>1, <1>2 DEF Positions
  <2>2. n \notin Positions(s, x)
    BY <1>1 DEF Positions
  <2> QED BY <1>2, <2>1, <2>2, PositionsFinite, FS_AddElement DEF Count
<1>3. CASE e # x
  <2>1. Positions(Append(s, e), x) = Positions(s, x)
    BY <1>1, <1>3 DEF Positions
  <2>2. Count(s, x) \in Nat
    BY CountType
  <2> QED BY <1>3, <2>1, <2>2 DEF Count
<1> QED BY <1>2, <1>3

LEMMA CountTail ==
    ASSUME NEW S, NEW s \in Seq(S), s # <<>>, NEW x
    PROVE  Count(s, x) = Count(Tail(s), x) + (IF Head(s) = x THEN 1 ELSE 0)
<1> DEFINE P == Positions(Tail(s), x)
           Q == Positions(s, x) \ {1}
           f == [i \in P |-> i + 1]
<1>1. /\ Len(s) \in Nat \ {0} /\ Head(s) = s[1] /\ Len(Tail(s)) = Len(s) - 1
      /\ Tail(s) \in Seq(S) /\ \A i \in 1..(Len(s) - 1) : Tail(s)[i] = s[i + 1]
  OBVIOUS
<1>2. IsFiniteSet(P) /\ IsFiniteSet(Positions(s, x))
  BY <1>1, PositionsFinite
<1>3. f \in Bijection(P, Q)
  <2>1. f \in [P -> Q]
    BY <1>1 DEF Positions
  <2>2. \A i, j \in P : f[i] = f[j] => i = j
    BY <1>1 DEF Positions
  <2>3. \A k \in Q : \E i \in P : f[i] = k
    <3> TAKE k \in Q
    <3>1. k - 1 \in P /\ (k - 1) + 1 = k
      BY <1>1 DEF Positions
    <3> QED BY <3>1
  <2> QED BY <2>1, <2>2, <2>3 DEF Bijection, Injection, Surjection, IsInjective
<1>4. Cardinality(Q) = Cardinality(P) /\ IsFiniteSet(Q)
  BY <1>2, <1>3, FS_Bijection DEF ExistsBijection
<1>5. CASE Head(s) = x
  <2>1. 1 \in Positions(s, x)
    BY <1>1, <1>5 DEF Positions
  <2>2. Cardinality(Q) = Cardinality(Positions(s, x)) - 1
    BY <1>2, <2>1, FS_RemoveElement
  <2>3. Cardinality(Positions(s, x)) \in Nat
    BY <1>2, FS_CardinalityType
  <2> QED BY <1>4, <1>5, <2>2, <2>3 DEF Count
<1>6. CASE Head(s) # x
  <2>1. Q = Positions(s, x)
    BY <1>1, <1>6 DEF Positions
  <2>2. Cardinality(P) \in Nat
    BY <1>2, FS_CardinalityType
  <2>3. Cardinality(Positions(s, x)) = Cardinality(Positions(Tail(s), x))
    BY <1>4, <2>1
  <2> HIDE DEF P, Q
  <2> QED BY <1>6, <2>2, <2>3 DEF Count, P
<1> QED BY <1>5, <1>6

(* An element that waits is counted. *)
LEMMA CountHead ==
    ASSUME NEW S, NEW s \in Seq(S), s # <<>>
    PROVE  Count(s, Head(s)) > 0
<1>1. Tail(s) \in Seq(S)
  OBVIOUS
<1>2. Count(Tail(s), Head(s)) \in Nat
  BY <1>1, CountType
<1> QED BY <1>2, CountTail
=============================================================================
