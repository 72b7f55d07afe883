-------------------------------- MODULE Counting --------------------------------
(***************************************************************************)
(* What the proofs need of numbers: sets of them have least elements, which *)
(* is how they argue by induction, and counting the smaller members of a    *)
(* finite set puts it in order.                                             *)
(***************************************************************************)
EXTENDS Integers, FiniteSetTheorems, WellFoundedInduction, TLAPS

-----------------------------------------------------------------------------
(* Least elements.                                                          *)

(* A set of numbers that is not empty has a least one.                     *)
LEMMA LeastElement ==
    ASSUME NEW S \in SUBSET Nat, S # {}
    PROVE  \E x \in S : \A y \in S : x <= y
  <1> DEFINE R == OpToRel(<, Nat)
  <1>1. IsWellFoundedOn(R, Nat)
    BY NatLessThanWellFounded
  <1> HIDE DEF R
  <1>2. \E x \in S : \A y \in S : ~(<<y, x>> \in R)
    BY <1>1, WFMin
  <1>3. PICK x \in S : \A y \in S : ~(<<y, x>> \in R)
    BY <1>2
  <1>4. ASSUME NEW y \in S, y < x PROVE <<y, x>> \in R
    BY <1>4 DEF R, OpToRel
  <1>5. \A y \in S : ~(y < x)
    BY <1>3, <1>4
  <1>6. \A y \in S : x <= y
    BY <1>5
  <1> QED BY <1>6

(* A set that holds 0 and is closed under successor holds every number.    *)
LEMMA InductionSet ==
    ASSUME NEW S, 0 \in S, \A n \in Nat : n \in S => n + 1 \in S
    PROVE  Nat \subseteq S
  <1> SUFFICES ASSUME Nat \ S # {} PROVE FALSE
    OBVIOUS
  <1>1. PICK x \in Nat \ S : \A y \in Nat \ S : x <= y
    BY LeastElement
  <1>2. x # 0 /\ x - 1 \in Nat
    BY <1>1
  <1>3. x - 1 \in S
    BY <1>1, <1>2
  <1> QED BY <1>1, <1>2, <1>3

-----------------------------------------------------------------------------
(* Sorting: the place of a number in a finite set is how many are smaller.  *)

CountBelow(S, i) == Cardinality({j \in S : j < i})

(* The place of a member is below the size of the set, and grows with it.   *)
LEMMA RanksGrow ==
    ASSUME NEW S \in SUBSET Nat, IsFiniteSet(S), NEW i \in S
    PROVE  /\ CountBelow(S, i) \in 0..(Cardinality(S) - 1)
           /\ \A j \in S : i < j => CountBelow(S, i) < CountBelow(S, j)
  <1> DEFINE Below(k) == {j \in S : j < k}
  <1>1. \A k \in S : Below(k) \in SUBSET S
    OBVIOUS
  <1>2. \A k \in S : /\ IsFiniteSet(Below(k)) /\ Cardinality(Below(k)) \in Nat
                     /\ CountBelow(S, k) = Cardinality(Below(k))
                     /\ Cardinality(Below(k)) <= Cardinality(S)
                     /\ Cardinality(S) = Cardinality(Below(k)) => S = Below(k)
    <2> TAKE k \in S
    <2>1. PICK B : B = Below(k)
      OBVIOUS
    <2>2. B \in SUBSET S
      BY <2>1
    <2>3. IsFiniteSet(B) /\ Cardinality(B) <= Cardinality(S) /\ (Cardinality(S) = Cardinality(B) => S = B)
      BY <2>2, FS_Subset, Zenon
    <2>4. Cardinality(B) \in Nat
      BY <2>3, FS_CardinalityType, Zenon
    <2> QED BY <2>1, <2>3, <2>4 DEF CountBelow
  <1>3. Cardinality(S) \in Nat
    BY FS_CardinalityType
  <1>4. CountBelow(S, i) \in 0..(Cardinality(S) - 1)
    <2>1. i \notin Below(i)
      OBVIOUS
    <2> HIDE DEF Below
    <2>2. Cardinality(S) # Cardinality(Below(i)) /\ Cardinality(Below(i)) <= Cardinality(S)
      BY <1>2, <2>1
    <2>3. CountBelow(S, i) = Cardinality(Below(i)) /\ Cardinality(Below(i)) \in Nat
      BY <1>2
    <2> QED BY <1>3, <2>2, <2>3
  <1>5. ASSUME NEW j \in S, i < j
        PROVE  CountBelow(S, i) < CountBelow(S, j)
    <2>1. PICK A, B : A = Below(i) /\ B = Below(j)
      OBVIOUS
    <2>2. A \in SUBSET B /\ i \in B /\ i \notin A
      <3>1. \A k \in S : k \in Nat
        OBVIOUS
      <3>2. \A k \in S : (k \in A <=> k < i) /\ (k \in B <=> k < j)
        BY <2>1
      <3>3. A \subseteq S /\ B \subseteq S
        BY <2>1
      <3>4. \A k \in S : k < i => k < j
        BY <1>5, <3>1
      <3>5. ~(i < i)
        BY <3>1
      <3> QED BY <1>5, <3>2, <3>3, <3>4, <3>5
    <2>3. IsFiniteSet(B)
      BY <1>2, <2>1
    <2>4. Cardinality(A) <= Cardinality(B) /\ (Cardinality(B) = Cardinality(A) => B = A)
      BY <2>2, <2>3, FS_Subset, Zenon
    <2>5. CountBelow(S, i) = Cardinality(A) /\ CountBelow(S, j) = Cardinality(B)
      BY <2>1 DEF CountBelow
    <2>6. CountBelow(S, i) \in Nat /\ CountBelow(S, j) \in Nat
      BY <1>2
    <2>7. Cardinality(A) # Cardinality(B)
      BY <2>2, <2>4
    <2> QED BY <2>4, <2>5, <2>6, <2>7
  <1> QED BY <1>4, <1>5

(* Every place below the size of the set is the place of one member.        *)
LEMMA RanksFill ==
    ASSUME NEW S \in SUBSET Nat, IsFiniteSet(S), NEW n \in 1..Cardinality(S)
    PROVE  \E i \in S : CountBelow(S, i) = n - 1 /\ \A j \in S : CountBelow(S, j) = n - 1 => j = i
  <1>1. Cardinality(S) \in Nat
    BY FS_CardinalityType
  <1>2. \A i, j \in S : CountBelow(S, i) = CountBelow(S, j) => i = j
    <2> SUFFICES ASSUME NEW i \in S, NEW j \in S, i # j
                 PROVE  CountBelow(S, i) # CountBelow(S, j)
      OBVIOUS
    <2>1. i < j \/ j < i
      OBVIOUS
    <2>2. i < j => CountBelow(S, i) < CountBelow(S, j)
      BY RanksGrow
    <2>3. j < i => CountBelow(S, j) < CountBelow(S, i)
      BY RanksGrow
    <2>4. CountBelow(S, i) \in Nat /\ CountBelow(S, j) \in Nat
      <3>1. \A k \in S : CountBelow(S, k) \in 0..(Cardinality(S) - 1)
        BY RanksGrow
      <3> QED BY <3>1
    <2> QED BY <2>1, <2>2, <2>3, <2>4
  <1>3. \E i \in S : CountBelow(S, i) = n - 1
    <2> SUFFICES ASSUME \A i \in S : CountBelow(S, i) # n - 1
                 PROVE  FALSE
      OBVIOUS
    <2> DEFINE T == (0..(Cardinality(S) - 1)) \ {n - 1}
    <2>1. IsFiniteSet(0..(Cardinality(S) - 1)) /\ Cardinality(0..(Cardinality(S) - 1)) = Cardinality(S)
      <3>1. PICK m \in Int : m = Cardinality(S) - 1
        BY <1>1
      <3>2. IsFiniteSet(0..m) /\ Cardinality(0..m) = IF 0 > m THEN 0 ELSE m - 0 + 1
        BY FS_Interval
      <3> QED BY <1>1, <3>1, <3>2
    <2>2. IsFiniteSet(T) /\ Cardinality(T) = Cardinality(S) - 1
      <3>1. n - 1 \in 0..(Cardinality(S) - 1)
        BY <1>1
      <3>2. PICK U : U = 0..(Cardinality(S) - 1)
        OBVIOUS
      <3>3. PICK x \in U : x = n - 1
        BY <3>1, <3>2
      <3>4. IsFiniteSet(U)
        BY <2>1, <3>2
      <3>5. IsFiniteSet(U \ {x}) /\ Cardinality(U \ {x}) = Cardinality(U) - 1
        BY <3>4, FS_RemoveElement
      <3> QED BY <2>1, <3>2, <3>3, <3>5
    <2>3. [i \in S |-> CountBelow(S, i)] \in [S -> T]
      BY RanksGrow
    <2>4. \E i, j \in S : i # j /\ CountBelow(S, i) = CountBelow(S, j)
      <3> HIDE DEF T
      <3>1. Cardinality(T) < Cardinality(S)
        BY <1>1, <2>2
      <3>2. PICK f \in [S -> T] : f = [i \in S |-> CountBelow(S, i)]
        BY <2>3
      <3>3. \E i, j \in S : i # j /\ f[i] = f[j]
        BY <2>2, <3>1, FS_PigeonHole, Zenon
      <3> QED BY <3>2, <3>3
    <2> QED BY <1>2, <2>4
  <1> QED BY <1>2, <1>3

=============================================================================
