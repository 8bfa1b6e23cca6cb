------------------------------ MODULE Counting ------------------------------
(***************************************************************************)
(* The sum of a function's values over a finite set, as the number of the  *)
(* units they stand for: what the quotas and the buffer budget add up.     *)
(***************************************************************************)
EXTENDS Integers, FiniteSets, FiniteSetTheorems, TLAPS

Units(S, f) == UNION {{x} \X (1..f[x]) : x \in S}

Tally(S, f) == Cardinality(Units(S, f))

\* A value stands for as many units.
LEMMA UnitsOfOne ==
    ASSUME NEW x, NEW n \in Nat
    PROVE  IsFiniteSet({x} \X (1..n)) /\ Cardinality({x} \X (1..n)) = n
  <1> DEFINE one == {x}
             upTo == 1..n
  <1>1. IsFiniteSet(one) /\ Cardinality(one) = 1
    BY FS_Singleton
  <1>2. IsFiniteSet(upTo) /\ Cardinality(upTo) = n
    BY FS_Interval
  <1> HIDE DEF one, upTo
  <1>3. IsFiniteSet(one \X upTo) /\ Cardinality(one \X upTo) = Cardinality(one) * Cardinality(upTo)
    BY <1>1, <1>2, FS_Product
  <1>4. Cardinality(one \X upTo) = n
    BY <1>1, <1>2, <1>3
  <1> QED
    BY <1>3, <1>4 DEF one, upTo

\* The units of the values are those of one and those of the others.
LEMMA UnitsSplit ==
    ASSUME NEW S, NEW f, NEW c \in S
    PROVE  /\ Units(S, f) = Units(S \ {c}, f) \cup ({c} \X (1..f[c]))
           /\ Units(S \ {c}, f) \cap ({c} \X (1..f[c])) = {}
  BY DEF Units

\* Units only depend on the values that are counted.
LEMMA UnitsSame ==
    ASSUME NEW S, NEW f, NEW g, \A x \in S : f[x] = g[x]
    PROVE  Units(S, f) = Units(S, g)
  BY DEF Units

LEMMA UnitsFinite ==
    ASSUME NEW S, IsFiniteSet(S), NEW f, \A x \in S : f[x] \in Nat
    PROVE  IsFiniteSet(Units(S, f))
  <1> DEFINE parts == {{x} \X (1..f[x]) : x \in S}
             part == [x \in S |-> {x} \X (1..f[x])]
  <1>1. part \in Surjection(S, parts)
    BY DEF Surjection
  <1>2. IsFiniteSet(parts)
    BY <1>1, FS_Surjection
  <1>3. \A p \in parts : IsFiniteSet(p)
    <2> SUFFICES ASSUME NEW x \in S PROVE IsFiniteSet({x} \X (1..f[x]))
      OBVIOUS
    <2>1. f[x] \in Nat
      OBVIOUS
    <2> QED
      BY <2>1, UnitsOfOne
  <1>4. IsFiniteSet(UNION parts)
    BY <1>2, <1>3, FS_UNION
  <1> QED
    BY <1>4 DEF Units

\* A sum is a number, and no less than any of its parts.
LEMMA TallyType ==
    ASSUME NEW S, IsFiniteSet(S), NEW f, \A x \in S : f[x] \in Nat
    PROVE  Tally(S, f) \in Nat
  BY UnitsFinite, FS_CardinalityType DEF Tally

LEMMA TallySplit ==
    ASSUME NEW S, IsFiniteSet(S), NEW f, \A x \in S : f[x] \in Nat, NEW c \in S
    PROVE  Tally(S \ {c}, f) \in Nat /\ Tally(S, f) = Tally(S \ {c}, f) + f[c]
  <1> DEFINE one == {c} \X (1..f[c])
             others == Units(S \ {c}, f)
  <1>1. IsFiniteSet(one) /\ Cardinality(one) = f[c]
    BY UnitsOfOne
  <1>2. IsFiniteSet(Units(S, f)) /\ others \subseteq Units(S, f)
    BY UnitsFinite, UnitsSplit
  <1>3. IsFiniteSet(others)
    BY <1>2, FS_Subset
  <1>4. Units(S, f) = others \cup one /\ others \cap one = {}
    BY UnitsSplit
  <1>5. Cardinality(others) \in Nat
    BY <1>3, FS_CardinalityType
  <1>6. Cardinality(others \cup one) = Cardinality(others) + Cardinality(one) - Cardinality(others \cap one)
    BY <1>1, <1>3, FS_Union
  <1>7. Cardinality(others \cap one) = 0
    BY <1>4, FS_EmptySet
  <1> HIDE DEF one, others
  <1>8. Cardinality(Units(S, f)) = Cardinality(others) + f[c]
    BY <1>1, <1>4, <1>5, <1>6, <1>7
  <1> QED
    BY <1>5, <1>8 DEF Tally, others

\* One value changes: the sum changes by as much.
LEMMA TallyChange ==
    ASSUME NEW S, IsFiniteSet(S), NEW f, NEW g, NEW c \in S,
           \A x \in S : f[x] \in Nat /\ g[x] \in Nat, \A x \in S \ {c} : g[x] = f[x]
    PROVE  Tally(S, g) = Tally(S, f) + g[c] - f[c]
  <1>1. Tally(S \ {c}, g) = Tally(S \ {c}, f)
    BY UnitsSame DEF Tally
  <1>2. Tally(S \ {c}, f) \in Nat /\ Tally(S, f) = Tally(S \ {c}, f) + f[c]
    BY TallySplit
  <1>3. Tally(S, g) = Tally(S \ {c}, g) + g[c]
    BY TallySplit
  <1> QED
    BY <1>1, <1>2, <1>3

\* The sum of nothing.
LEMMA TallyZero ==
    ASSUME NEW S, NEW f, \A x \in S : f[x] = 0
    PROVE  Tally(S, f) = 0
  <1>1. Units(S, f) = {}
    BY DEF Units
  <1> QED
    BY <1>1, FS_EmptySet DEF Tally
==============================================================================
