------------------------------ MODULE UnitSums ------------------------------
(***************************************************************************)
(* Sums as cardinalities.  What several holders hold together is counted as *)
(* a set of units, one pair <<holder, number>> for each unit, so that a sum *)
(* over the holders follows their changes by the laws of finite sets.       *)
(***************************************************************************)
EXTENDS Integers, FiniteSets, FiniteSetTheorems, TLAPS

\* The units held by the members of S, of which each holds as many as f says.
Units(S, f) == UNION {{x} \X (1 .. f[x]) : x \in S}

\* A single holder has as many units as it counts.
LEMMA UnitsOfOne ==
    ASSUME NEW x, NEW n \in Nat
    PROVE  IsFiniteSet({x} \X (1 .. n)) /\ Cardinality({x} \X (1 .. n)) = n
<1>1. IsFiniteSet({x}) /\ Cardinality({x}) = 1
  BY FS_Singleton
<1>2. IsFiniteSet(1 .. n) /\ Cardinality(1 .. n) = n
  BY FS_Interval
<1>3. /\ IsFiniteSet({x} \X (1 .. n))
      /\ Cardinality({x} \X (1 .. n)) = Cardinality({x}) * Cardinality(1 .. n)
  BY <1>1, <1>2, FS_Product
<1> QED BY <1>1, <1>2, <1>3

\* Finitely many holders hold finitely many units.
LEMMA UnitsAreFinite ==
    ASSUME NEW S, IsFiniteSet(S), NEW f, \A x \in S : f[x] \in Nat
    PROVE  IsFiniteSet(Units(S, f)) /\ Cardinality(Units(S, f)) \in Nat
<1> DEFINE T == {{x} \X (1 .. f[x]) : x \in S}
           g == [x \in S |-> {x} \X (1 .. f[x])]
<1>1. g \in Surjection(S, T)
  BY DEF Surjection
<1>2. IsFiniteSet(T)
  BY <1>1, FS_Surjection
<1>3. ASSUME NEW x \in S PROVE IsFiniteSet({x} \X (1 .. f[x]))
  BY UnitsOfOne
<1>4. IsFiniteSet(Units(S, f))
  BY <1>2, <1>3, FS_UNION DEF Units
<1> QED BY <1>4, FS_CardinalityType

\* Who counts nothing has no unit.
LEMMA NoUnits ==
    ASSUME NEW S, NEW f, \A x \in S : f[x] = 0
    PROVE  Units(S, f) = {} /\ Cardinality(Units(S, f)) = 0
<1>1. \A x \in S : {x} \X (1 .. f[x]) = {}
  OBVIOUS
<1>2. Units(S, f) = {}
  BY <1>1 DEF Units
<1> QED BY <1>2, FS_EmptySet

\* The units are those of the counts of the members, and of nothing else.
LEMMA UnitsAgree ==
    ASSUME NEW S, NEW f, NEW g, \A x \in S : f[x] = g[x]
    PROVE  Units(S, f) = Units(S, g)
  BY DEF Units

\* One more holder adds what it holds.
LEMMA UnitsOfOneMore ==
    ASSUME NEW S, IsFiniteSet(S), NEW x, x \notin S, NEW f, \A y \in S \cup {x} : f[y] \in Nat
    PROVE  Cardinality(Units(S \cup {x}, f)) = Cardinality(Units(S, f)) + f[x]
<1> DEFINE less == Units(S, f)
           own == {x} \X (1 .. f[x])
<1>1. IsFiniteSet(less) /\ Cardinality(less) \in Nat
  BY UnitsAreFinite
<1>2. IsFiniteSet(own) /\ Cardinality(own) = f[x] /\ f[x] \in Nat
  BY UnitsOfOne
<1>3. Units(S \cup {x}, f) = less \cup own /\ less \cap own = {}
  BY DEF Units
<1> HIDE DEF less, own
<1>4. Cardinality(less \cup own) = Cardinality(less) + Cardinality(own) - Cardinality({})
  BY <1>1, <1>2, <1>3, FS_Union
<1>5. Cardinality({}) = 0
  BY FS_EmptySet
<1>6. Cardinality(less \cup own) = Cardinality(less) + f[x]
  BY <1>1, <1>2, <1>4, <1>5
<1>7. Cardinality(Units(S \cup {x}, f)) = Cardinality(less) + f[x]
  BY <1>3, <1>6
<1> QED BY <1>7 DEF less

\* A holder that takes more adds what it takes.
LEMMA UnitsOfMore ==
    ASSUME NEW S, IsFiniteSet(S), NEW x \in S, NEW f, NEW g,
           \A y \in S : f[y] \in Nat /\ g[y] \in Nat,
           \A y \in S \ {x} : g[y] = f[y]
    PROVE  Cardinality(Units(S, g)) + f[x] = Cardinality(Units(S, f)) + g[x]
<1> DEFINE R == S \ {x}
<1>1. IsFiniteSet(R) /\ x \notin R /\ S = R \cup {x}
  BY FS_Subset
<1>2. Units(R, f) = Units(R, g)
  BY UnitsAgree
<1>3. /\ \A y \in R \cup {x} : f[y] \in Nat /\ g[y] \in Nat
      /\ \A y \in R : f[y] \in Nat
  BY <1>1
<1> HIDE DEF R
<1>4. /\ Cardinality(Units(S, f)) = Cardinality(Units(R, f)) + f[x]
      /\ Cardinality(Units(S, g)) = Cardinality(Units(R, g)) + g[x]
  BY <1>1, <1>3, UnitsOfOneMore
<1>5. Cardinality(Units(R, f)) \in Nat
  BY <1>1, <1>3, UnitsAreFinite
<1> QED BY <1>2, <1>3, <1>4, <1>5

=============================================================================
