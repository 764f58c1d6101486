------------------------------- MODULE Queues -------------------------------
(***************************************************************************)
(* What is in a queue, and where: the pending writes of the write actor    *)
(* and of a session, the commands an agent has received.                   *)
(***************************************************************************)
EXTENDS Naturals, Sequences, FiniteSets, Functions, FiniteSetTheorems,
        WellFoundedInduction, TLAPS

(* x is in q; x is there at most once. *)
In(q, x) == \E i \in 1..Len(q) : q[i] = x

Once(q, x) == \A i, j \in 1..Len(q) : q[i] = x /\ q[j] = x => i = j

(* What is appended is in the queue, at one place if it was not there. *)
LEMMA AppendToQueue ==
  ASSUME NEW S, NEW q \in Seq(S), NEW x \in S
  PROVE  /\ \A y : In(Append(q, x), y) <=> In(q, y) \/ y = x
         /\ \A y : y # x /\ Once(q, y) => Once(Append(q, x), y)
         /\ ~In(q, x) => Once(Append(q, x), x)
<1> DEFINE r == Append(q, x)
<1>1. /\ Len(r) = Len(q) + 1 /\ Len(q) \in Nat
      /\ \A i \in 1..Len(q) : r[i] = q[i]
      /\ r[Len(q) + 1] = x
  OBVIOUS
<1> HIDE DEF r
<1>2. \A y : In(r, y) <=> In(q, y) \/ y = x
  BY <1>1 DEF In
<1>3. \A y : y # x /\ Once(q, y) => Once(r, y)
  BY <1>1 DEF Once
<1>4. ~In(q, x) => Once(r, x)
  BY <1>1 DEF In, Once
<1> QED BY <1>2, <1>3, <1>4 DEF r

(* What is taken from the front is gone if it was there once. *)
LEMMA TailOfQueue ==
  ASSUME NEW S, NEW q \in Seq(S), q # <<>>
  PROVE  /\ In(q, Head(q)) /\ Head(q) \in S
         /\ \A y : In(Tail(q), y) => In(q, y)
         /\ \A y : In(q, y) /\ y # Head(q) => In(Tail(q), y)
         /\ \A y : Once(q, y) => Once(Tail(q), y)
         /\ Once(q, Head(q)) => ~In(Tail(q), Head(q))
<1> DEFINE r == Tail(q)
<1>1. /\ Len(q) \in Nat \ {0} /\ Head(q) = q[1] /\ q[1] \in S
      /\ Len(r) = Len(q) - 1
      /\ \A i \in 1..Len(r) : r[i] = q[i + 1] /\ i + 1 \in 1..Len(q)
  OBVIOUS
<1> HIDE DEF r
<1>2. In(q, q[1])
  BY <1>1 DEF In
<1>3. \A y : In(r, y) => In(q, y)
  BY <1>1 DEF In
<1>4. ASSUME NEW y, In(q, y), y # q[1]
      PROVE  In(r, y)
  <2>1. PICK i \in 1..Len(q) : q[i] = y
    BY <1>4 DEF In
  <2>2. i - 1 \in 1..Len(r) /\ r[i - 1] = q[i]
    BY <1>1, <1>4, <2>1
  <2> QED BY <2>1, <2>2 DEF In
<1>5. \A y : Once(q, y) => Once(r, y)
  BY <1>1 DEF Once
<1>6. Once(q, q[1]) => ~In(r, q[1])
  BY <1>1 DEF Once, In
<1> QED BY <1>1, <1>2, <1>3, <1>4, <1>5, <1>6 DEF r

(* A set whose members are all equal has at most one. *)
LEMMA AtMostOne ==
  ASSUME NEW S, \A x, y \in S : x = y
  PROVE  Cardinality(S) = IF S = {} THEN 0 ELSE 1
<1>1. CASE S = {}
  BY <1>1, FS_EmptySet
<1>2. CASE S # {}
  <2>1. PICK x \in S : TRUE
    BY <1>2
  <2>2. S = {x}
    BY <2>1
  <2> QED BY <1>2, <2>2, FS_Singleton
<1> QED BY <1>1, <1>2

(* How many members of R are in q. *)
CountIn(q, R) == Cardinality({i \in 1..Len(q) : q[i] \in R})

(* One more, or one less, when such a one is appended or taken. *)
LEMMA CountAppend ==
  ASSUME NEW S, NEW q \in Seq(S), NEW x \in S, NEW R
  PROVE  /\ CountIn(q, R) \in Nat
         /\ x \in R => CountIn(Append(q, x), R) = CountIn(q, R) + 1
         /\ x \notin R => CountIn(Append(q, x), R) = CountIn(q, R)
<1> DEFINE r == Append(q, x)
           A == {i \in 1..Len(q) : q[i] \in R}
           B == {i \in 1..Len(r) : r[i] \in R}
           n == Len(q) + 1
<1>1. /\ Len(r) = n /\ Len(q) \in Nat /\ r[n] = x
      /\ \A i \in 1..Len(q) : r[i] = q[i]
  OBVIOUS
<1>2. IsFiniteSet(A) /\ Cardinality(A) \in Nat
  <2>1. IsFiniteSet(1..Len(q))
    <3>1. 1 \in Int /\ Len(q) \in Int
      BY <1>1
    <3> QED BY <3>1, FS_Interval
  <2>2. A \in SUBSET (1..Len(q))
    OBVIOUS
  <2> HIDE DEF A
  <2> QED BY <2>1, <2>2, FS_Subset, FS_CardinalityType
<1>3. n \notin A /\ (x \in R => B = A \cup {n}) /\ (x \notin R => B = A)
  <2> HIDE DEF r
  <2>1. \A i \in 1..n : i = n \/ i \in 1..Len(q)
    BY <1>1
  <2>2. n \in 1..n /\ n \notin 1..Len(q) /\ 1..Len(q) \subseteq 1..n
    BY <1>1
  <2> HIDE DEF n
  <2> QED BY <1>1, <2>1, <2>2
<1>4. CountIn(q, R) = Cardinality(A) /\ CountIn(r, R) = Cardinality(B)
  BY DEF CountIn
<1> HIDE DEF A, B, n, r
<1>5. x \in R => Cardinality(B) = Cardinality(A) + 1
  BY <1>2, <1>3, FS_AddElement
<1> QED BY <1>2, <1>3, <1>4, <1>5 DEF r

(* See above. *)
LEMMA CountTail ==
  ASSUME NEW S, NEW q \in Seq(S), q # <<>>, NEW R
  PROVE  /\ CountIn(Tail(q), R) \in Nat
         /\ Head(q) \in R => CountIn(q, R) = CountIn(Tail(q), R) + 1
         /\ Head(q) \notin R => CountIn(q, R) = CountIn(Tail(q), R)
<1> DEFINE r == Tail(q)
           A == {i \in 1..Len(r) : r[i] \in R}
           B == {i \in 1..Len(q) : q[i] \in R}
           C == B \ {1}
           f == [i \in A |-> i + 1]
<1>1. /\ Len(q) \in Nat \ {0} /\ Head(q) = q[1] /\ Len(r) = Len(q) - 1
      /\ \A i \in 1..Len(r) : r[i] = q[i + 1] /\ i + 1 \in 1..Len(q)
  OBVIOUS
<1>2. IsFiniteSet(A) /\ IsFiniteSet(B) /\ Cardinality(A) \in Nat /\ Cardinality(B) \in Nat
  <2>1. IsFiniteSet(1..Len(q)) /\ IsFiniteSet(1..Len(r))
    <3>1. 1 \in Int /\ Len(q) \in Int /\ Len(r) \in Int
      BY <1>1
    <3> QED BY <3>1, FS_Interval
  <2>2. A \in SUBSET (1..Len(r)) /\ B \in SUBSET (1..Len(q))
    OBVIOUS
  <2> HIDE DEF A, B, r
  <2> QED BY <2>1, <2>2, FS_Subset, FS_CardinalityType
<1>3. f \in Bijection(A, C)
  <2> HIDE DEF r
  <2>1. \A i \in A : i \in Nat /\ f[i] = i + 1 /\ i + 1 \in C
    BY <1>1
  <2>2. \A k \in C : k - 1 \in A /\ f[k - 1] = k
    <3> TAKE k \in C
    <3>1. k \in 2..Len(q) /\ q[k] \in R
      BY <1>1
    <3>2. k - 1 \in 1..Len(r) /\ r[k - 1] = q[k]
      BY <1>1, <3>1
    <3>3. k - 1 \in A
      BY <3>1, <3>2
    <3> QED BY <3>1, <3>3
  <2>3. f \in [A -> C]
    BY <2>1
  <2> HIDE DEF A, C, f
  <2>4. \A i, j \in A : f[i] = f[j] => i = j
    BY <2>1
  <2> QED BY <2>2, <2>3, <2>4 DEF Bijection, Injection, Surjection, IsInjective
<1>4. Cardinality(C) = Cardinality(A)
  <2>1. ExistsBijection(A, C)
    BY <1>3 DEF ExistsBijection
  <2> HIDE DEF A, B, C, f, r
  <2> QED BY <1>2, <2>1, FS_Bijection
<1>5. CountIn(q, R) = Cardinality(B) /\ CountIn(r, R) = Cardinality(A)
  BY DEF CountIn
<1>6. q[1] \in R => B = C \cup {1} /\ 1 \notin C
  <2> HIDE DEF r
  <2> QED BY <1>1
<1>7. q[1] \notin R => B = C
  <2> HIDE DEF r
  <2> QED BY <1>1
<1>8. IsFiniteSet(C)
  <2> HIDE DEF A, B, f, r
  <2> QED BY <1>2, FS_RemoveElement
<1> HIDE DEF A, B, C, f, r
<1>9. q[1] \in R => Cardinality(B) = Cardinality(C) + 1
  BY <1>6, <1>8, FS_AddElement
<1> QED BY <1>1, <1>2, <1>4, <1>5, <1>7, <1>9 DEF r

(* A set of numbers that is not empty has a least one. *)
LEMMA LeastNumber ==
  ASSUME NEW S \in SUBSET Nat, S # {}
  PROVE  \E v \in S : \A u \in S : v <= u
<1> DEFINE R == {ss \in Nat \X Nat : ss[1] < ss[2]}
<1>1. IsWellFoundedOn(R, Nat)
  BY NatLessThanWellFounded DEF OpToRel
<1>2. PICK x \in S : \A y \in S : <<y, x>> \notin R
  <2> HIDE DEF R
  <2> QED BY <1>1, WFMin
<1>3. \A y \in S : y \in Nat /\ x \in Nat /\ ~(y < x)
  BY <1>2
<1> QED BY <1>3
=============================================================================
