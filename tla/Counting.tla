------------------------------ MODULE Counting ------------------------------
(***************************************************************************)
(* How the size of a finite set changes with one element, for the          *)
(* invariants that relate a counter to the size of a set of threads, and   *)
(* the least of a set of numbers, for the search of a free slot.           *)
(***************************************************************************)
EXTENDS Integers, FiniteSets, FiniteSetTheorems, TLAPS

\* Adding an element to a finite set, or removing one, changes the size of the
\* set by the difference this makes.
LEMMA CardinalityStep ==
  ASSUME NEW S, IsFiniteSet(S), NEW x
  PROVE  /\ Cardinality(S) \in Nat
         /\ Cardinality(S \union {x}) =
              IF x \in S THEN Cardinality(S) ELSE Cardinality(S) + 1
         /\ Cardinality(S \ {x}) =
              IF x \in S THEN Cardinality(S) - 1 ELSE Cardinality(S)
         /\ x \in S => Cardinality(S) > 0
  <1>1. /\ Cardinality(S) \in Nat
        /\ IsFiniteSet(S \ {x})
        /\ Cardinality(S \ {x}) =
             IF x \in S THEN Cardinality(S) - 1 ELSE Cardinality(S)
    BY FS_CardinalityType, FS_RemoveElement
  <1>2. Cardinality(S \ {x}) \in Nat
    BY <1>1, FS_CardinalityType
  <1>3. Cardinality(S \union {x}) =
          IF x \in S THEN Cardinality(S) ELSE Cardinality(S) + 1
    BY FS_AddElement
  <1> QED
    BY <1>1, <1>2, <1>3

\* A set of natural numbers that is not empty has a least element: of its finite
\* subsets of the form "at most x", one is included in all the others.
LEMMA LeastNatural ==
  ASSUME NEW S \in SUBSET Nat, S # {}
  PROVE  \E x \in S : \A y \in S : x <= y
  <1> DEFINE Below(x) == {y \in S : y <= x}
             R == StrictSubsetOrdering(S)
             F == FiniteSubsetsOf(S)
             T == {Below(x) : x \in S}
  <1>1. \A x \in S : x \in Nat
    OBVIOUS
  <1>2. \A x \in S : Below(x) \in F
    <2> SUFFICES ASSUME NEW x \in S
                 PROVE  Below(x) \in F
      OBVIOUS
    <2>1. x \in Nat /\ Below(x) \in SUBSET Nat /\ \A y \in Below(x) : y <= x
      BY <1>1
    <2>2. IsFiniteSet(Below(x))
      BY <2>1, FS_BoundedSetOfNaturals
    <2> QED
      BY <2>2 DEF FiniteSubsetsOf
  <1>3. PICK t \in T : \A u \in T : <<u, t>> \notin R
    <2>1. IsWellFoundedOn(R, F)
      BY FS_StrictSubsetOrderingWellFounded
    <2>2. T \subseteq F /\ T # {}
      BY <1>2
    <2> HIDE DEF R, F, T
    <2> QED
      BY <2>1, <2>2, WFMin
  <1>4. PICK x \in S : t = Below(x)
    OBVIOUS
  <1>5. ASSUME NEW y \in S, ~ (x <= y)
        PROVE  FALSE
    <2>1. x \in Nat /\ y \in Nat /\ y < x /\ x <= x
      BY <1>1, <1>5
    <2>2. \A z \in S : z <= y => z <= x
      BY <1>1, <2>1
    <2>3. Below(y) \subseteq Below(x) /\ x \in Below(x) /\ x \notin Below(y)
      BY <1>5, <2>1, <2>2
    <2>4. <<Below(y), Below(x)>> \in R
      BY <2>3 DEF StrictSubsetOrdering
    <2> QED
      BY <1>3, <1>4, <2>4
  <1> QED
    BY <1>5
=============================================================================
