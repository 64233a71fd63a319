---------------------------- MODULE SumTheorems ----------------------------
(***************************************************************************)
(* What the sums of the models compute.  A sum is a fold over a finite set, *)
(* defined by a recursive function of its subsets.  Here it is shown to be  *)
(* the number of units that its terms have together: the function that maps *)
(* each subset to that number meets the recursion, and nothing else does.   *)
(* From there on everything follows from facts about cardinalities.         *)
(***************************************************************************)
EXTENDS Integers, FiniteSets, FiniteSetsExt, Functions, FiniteSetTheorems,
        WellFoundedInduction, TLAPS

\* The units of the terms f[x], one pair for each.
Units(f, S) == UNION {{x} \X (1 .. f[x]) : x \in S}

IsNatural(f, S) == \A x \in S : f[x] \in Nat

LEMMA UnitsFinite ==
    ASSUME NEW S, IsFiniteSet(S), NEW f, IsNatural(f, S)
    PROVE  IsFiniteSet(Units(f, S)) /\ Cardinality(Units(f, S)) \in Nat
<1> DEFINE g == [x \in S |-> {x} \X (1 .. f[x])]
           T == {{x} \X (1 .. f[x]) : x \in S}
<1>1. g \in Surjection(S, T)
    BY DEF Surjection
<1>2. IsFiniteSet(T)
    BY <1>1, FS_Surjection
<1>3. ASSUME NEW x \in S PROVE IsFiniteSet({x} \X (1 .. f[x]))
    <2>1. f[x] \in Int
        BY DEF IsNatural
    <2>2. IsFiniteSet({x})
        BY FS_Singleton
    <2>3. IsFiniteSet(1 .. f[x])
        BY <2>1, FS_Interval
    <2>4. QED
        BY <2>2, <2>3, FS_Product
<1>4. IsFiniteSet(UNION T)
    BY <1>2, <1>3, FS_UNION
<1>5. QED
    BY <1>4, FS_CardinalityType DEF Units

\* The units of one element apart.
LEMMA UnitsOfOne ==
    ASSUME NEW S, IsFiniteSet(S), NEW f, IsNatural(f, S), NEW x \in S
    PROVE  Cardinality(Units(f, S)) = f[x] + Cardinality(Units(f, S \ {x}))
<1> DEFINE one == {x} \X (1 .. f[x])
           rest == Units(f, S \ {x})
<1>1. IsFiniteSet(S \ {x}) /\ IsNatural(f, S \ {x}) /\ f[x] \in Nat
    BY FS_RemoveElement DEF IsNatural
<1>2. IsFiniteSet(rest) /\ Cardinality(rest) \in Nat
    BY <1>1, UnitsFinite
<1>3. IsFiniteSet(one) /\ Cardinality(one) = f[x]
    <2>1. IsFiniteSet({x}) /\ Cardinality({x}) = 1
        BY FS_Singleton
    <2>2. IsFiniteSet(1 .. f[x]) /\ Cardinality(1 .. f[x]) = f[x]
        BY <1>1, FS_Interval
    <2>3. IsFiniteSet(one) /\ Cardinality(one) = Cardinality({x}) * Cardinality(1 .. f[x])
        BY <2>1, <2>2, FS_Product
    <2> HIDE DEF one
    <2>4. QED
        BY <1>1, <2>1, <2>2, <2>3
<1>4. Units(f, S) = one \cup rest
    BY DEF Units
<1>5. one \cap rest = {}
    BY DEF Units
<1> HIDE DEF one, rest
<1>6. Cardinality(one \cup rest)
        = Cardinality(one) + Cardinality(rest) - Cardinality(one \cap rest)
    BY <1>2, <1>3, FS_Union
<1>7. Cardinality(one \cap rest) = 0
    BY <1>5, FS_EmptySet
<1>8. QED
    BY <1>1, <1>2, <1>3, <1>4, <1>6, <1>7 DEF rest

LEMMA UnitsOfNone ==
    ASSUME NEW f PROVE Cardinality(Units(f, {})) = 0
BY FS_EmptySet DEF Units

\* The recursion of the fold.
Recurs(g, f, S) ==
    g = [s \in SUBSET S |->
            IF s = {} THEN 0
            ELSE f[CHOOSE x \in s : TRUE] + g[s \ {CHOOSE x \in s : TRUE}]]

\* Counting units meets the recursion.
LEMMA CountingRecurs ==
    ASSUME NEW S, IsFiniteSet(S), NEW f, IsNatural(f, S)
    PROVE  Recurs([s \in SUBSET S |-> Cardinality(Units(f, s))], f, S)
<1> DEFINE g == [s \in SUBSET S |-> Cardinality(Units(f, s))]
           h == [s \in SUBSET S |->
                    IF s = {} THEN 0
                    ELSE f[CHOOSE x \in s : TRUE] + g[s \ {CHOOSE x \in s : TRUE}]]
<1>1. ASSUME NEW s \in SUBSET S PROVE g[s] = h[s]
    <2>1. CASE s = {}
        BY <2>1, UnitsOfNone
    <2>2. CASE s # {}
        <3> DEFINE x == CHOOSE x \in s : TRUE
        <3>1. x \in s
            BY <2>2
        <3>2. IsFiniteSet(s) /\ IsNatural(f, s)
            BY FS_Subset DEF IsNatural
        <3> HIDE DEF x
        <3>3. Cardinality(Units(f, s)) = f[x] + Cardinality(Units(f, s \ {x}))
            BY <3>1, <3>2, UnitsOfOne
        <3>4. g[s \ {x}] = Cardinality(Units(f, s \ {x}))
            OBVIOUS
        <3>5. h[s] = f[x] + g[s \ {x}]
            BY <2>2 DEF x
        <3>6. QED
            BY <3>3, <3>4, <3>5
    <2>3. QED
        BY <2>1, <2>2
<1>2. g = h
    BY <1>1
<1>3. QED
    BY <1>2 DEF Recurs

\* Nothing else does: a smallest set on which two solutions differ is neither
\* empty nor not.
LEMMA RecursionIsUnique ==
    ASSUME NEW S, IsFiniteSet(S), NEW f, NEW g, NEW h, Recurs(g, f, S), Recurs(h, f, S)
    PROVE  g[S] = h[S]
<1> DEFINE bad == {s \in SUBSET S : g[s] # h[s]}
<1>1. SUFFICES ASSUME bad # {} PROVE FALSE
    OBVIOUS
<1>2. bad \subseteq FiniteSubsetsOf(S)
    BY FS_Subset DEF FiniteSubsetsOf
<1>3. IsWellFoundedOn(StrictSubsetOrdering(S), FiniteSubsetsOf(S))
    BY FS_StrictSubsetOrderingWellFounded
<1>4. PICK s \in bad : \A t \in bad : <<t, s>> \notin StrictSubsetOrdering(S)
    BY <1>1, <1>2, <1>3, WFMin
<1> DEFINE x == CHOOSE x \in s : TRUE
<1>5. s # {}
    BY DEF Recurs
<1>6. x \in s /\ s \ {x} \in SUBSET S
    BY <1>5
<1>7. g[s] = f[x] + g[s \ {x}] /\ h[s] = f[x] + h[s \ {x}]
    BY <1>5 DEF Recurs
<1> HIDE DEF x
<1>8. g[s \ {x}] # h[s \ {x}]
    BY <1>7
<1>9. <<s \ {x}, s>> \in StrictSubsetOrdering(S)
    BY <1>6 DEF StrictSubsetOrdering
<1>10. QED
    BY <1>4, <1>6, <1>8, <1>9

\* The sum of f over S is the number of units of its terms.
LEMMA SumIsCount ==
    ASSUME NEW S, IsFiniteSet(S), NEW f, IsNatural(f, S)
    PROVE  SumFunctionOnSet(f, S) = Cardinality(Units(f, S))
<1> DEFINE g == CHOOSE g : Recurs(g, f, S)
           h == [s \in SUBSET S |-> Cardinality(Units(f, s))]
<1>1. Recurs(h, f, S)
    BY CountingRecurs
<1>2. Recurs(g, f, S)
    BY <1>1
<1>3. SumFunctionOnSet(f, S) = g[S]
    BY DEF SumFunctionOnSet, FoldFunctionOnSet, MapThenFoldSet, Recurs
<1> HIDE DEF g
<1>4. g[S] = h[S]
    BY <1>1, <1>2, RecursionIsUnique
<1>5. QED
    BY <1>3, <1>4

-----------------------------------------------------------------------------
(* How sums are computed with                                               *)

LEMMA SumType ==
    ASSUME NEW S, IsFiniteSet(S), NEW f, IsNatural(f, S)
    PROVE  SumFunctionOnSet(f, S) \in Nat
BY SumIsCount, UnitsFinite

LEMMA SumOfNone ==
    ASSUME NEW f PROVE SumFunctionOnSet(f, {}) = 0
<1>1. IsFiniteSet({}) /\ IsNatural(f, {})
    BY FS_EmptySet DEF IsNatural
<1>2. QED
    BY <1>1, SumIsCount, UnitsOfNone

LEMMA SumOfOne ==
    ASSUME NEW S, IsFiniteSet(S), NEW f, IsNatural(f, S), NEW x \in S
    PROVE  SumFunctionOnSet(f, S) = f[x] + SumFunctionOnSet(f, S \ {x})
<1>1. IsFiniteSet(S \ {x}) /\ IsNatural(f, S \ {x})
    BY FS_RemoveElement DEF IsNatural
<1>2. QED
    BY <1>1, SumIsCount, UnitsOfOne

\* A sum depends on the terms that are added, and on nothing else.
LEMMA SumOfSame ==
    ASSUME NEW S, IsFiniteSet(S), NEW f, NEW g, IsNatural(f, S), \A x \in S : g[x] = f[x]
    PROVE  SumFunctionOnSet(g, S) = SumFunctionOnSet(f, S)
<1>1. IsNatural(g, S)
    BY DEF IsNatural
<1>2. Units(g, S) = Units(f, S)
    BY DEF Units
<1>3. QED
    BY <1>1, <1>2, SumIsCount

LEMMA SumOfUnion ==
    ASSUME NEW S, NEW T, IsFiniteSet(S), IsFiniteSet(T), S \cap T = {},
           NEW f, IsNatural(f, S \cup T)
    PROVE  SumFunctionOnSet(f, S \cup T) = SumFunctionOnSet(f, S) + SumFunctionOnSet(f, T)
<1>1. IsNatural(f, S) /\ IsNatural(f, T) /\ IsFiniteSet(S \cup T)
    BY FS_Union DEF IsNatural
<1>2. Units(f, S \cup T) = Units(f, S) \cup Units(f, T)
    BY DEF Units
<1>3. Units(f, S) \cap Units(f, T) = {}
    BY DEF Units
<1>4. /\ IsFiniteSet(Units(f, S)) /\ Cardinality(Units(f, S)) \in Nat
      /\ IsFiniteSet(Units(f, T)) /\ Cardinality(Units(f, T)) \in Nat
    BY <1>1, UnitsFinite
<1>5. Cardinality(Units(f, S) \cup Units(f, T))
        = Cardinality(Units(f, S)) + Cardinality(Units(f, T))
            - Cardinality(Units(f, S) \cap Units(f, T))
    BY <1>4, FS_Union
<1>6. Cardinality(Units(f, S) \cap Units(f, T)) = 0
    BY <1>3, FS_EmptySet
<1>7. SumFunctionOnSet(f, S \cup T) = Cardinality(Units(f, S) \cup Units(f, T))
    BY <1>1, <1>2, SumIsCount
<1>8. /\ SumFunctionOnSet(f, S) = Cardinality(Units(f, S))
      /\ SumFunctionOnSet(f, T) = Cardinality(Units(f, T))
    BY <1>1, SumIsCount
<1>9. QED
    BY <1>4, <1>5, <1>6, <1>7, <1>8

\* A property of sums that holds of the empty set and of a set whenever it
\* holds without one of its elements: no smallest set lacks it.
LEMMA SmallestSet ==
    ASSUME NEW S, IsFiniteSet(S), NEW bad, bad \subseteq SUBSET S, {} \notin bad,
           \A s \in bad : s # {} => \E x \in s : s \ {x} \in bad
    PROVE  bad = {}
<1>1. SUFFICES ASSUME bad # {} PROVE FALSE
    OBVIOUS
<1>2. bad \subseteq FiniteSubsetsOf(S)
    BY FS_Subset DEF FiniteSubsetsOf
<1>3. IsWellFoundedOn(StrictSubsetOrdering(S), FiniteSubsetsOf(S))
    BY FS_StrictSubsetOrderingWellFounded
<1>4. PICK s \in bad : \A t \in bad : <<t, s>> \notin StrictSubsetOrdering(S)
    BY <1>1, <1>2, <1>3, WFMin
<1>5. PICK x \in s : s \ {x} \in bad
    OBVIOUS
<1>6. <<s \ {x}, s>> \in StrictSubsetOrdering(S)
    BY <1>5 DEF StrictSubsetOrdering
<1>7. QED
    BY <1>4, <1>5, <1>6

\* Cardinality is the sum of ones.
LEMMA SumOfOnes ==
    ASSUME NEW S, IsFiniteSet(S), NEW f, \A x \in S : f[x] = 1
    PROVE  SumFunctionOnSet(f, S) = Cardinality(S)
<1> DEFINE bad == {s \in SUBSET S : SumFunctionOnSet(f, s) # Cardinality(s)}
<1>1. {} \notin bad
    BY SumOfNone, FS_EmptySet
<1>2. ASSUME NEW s \in bad, s # {} PROVE \E x \in s : s \ {x} \in bad
    <2>1. PICK x \in s : TRUE
        BY <1>2
    <2>2. IsFiniteSet(s) /\ IsNatural(f, s) /\ f[x] = 1
        BY FS_Subset DEF IsNatural
    <2>3. SumFunctionOnSet(f, s) = f[x] + SumFunctionOnSet(f, s \ {x})
        BY <2>2, SumOfOne
    <2>4. Cardinality(s \ {x}) = Cardinality(s) - 1 /\ Cardinality(s) \in Nat
        BY <2>2, FS_RemoveElement, FS_CardinalityType
    <2>5. SumFunctionOnSet(f, s \ {x}) \in Nat
        <3>1. IsFiniteSet(s \ {x}) /\ IsNatural(f, s \ {x})
            BY <2>2, FS_RemoveElement DEF IsNatural
        <3>2. QED
            BY <3>1, SumType
    <2>6. SumFunctionOnSet(f, s \ {x}) # Cardinality(s \ {x})
        BY <2>2, <2>3, <2>4, <2>5
    <2>7. QED
        BY <2>6
<1> HIDE DEF bad
<1>3. bad = {}
    <2>1. bad \subseteq SUBSET S
        BY DEF bad
    <2>2. QED
        BY <1>1, <1>2, <2>1, SmallestSet
<1>4. QED
    BY <1>3 DEF bad

LEMMA SumOfSingle ==
    ASSUME NEW x, NEW f, f[x] \in Nat
    PROVE  SumFunctionOnSet(f, {x}) = f[x]
<1>1. IsFiniteSet({x}) /\ IsNatural(f, {x}) /\ {x} \ {x} = {}
    BY FS_Singleton DEF IsNatural
<1>2. SumFunctionOnSet(f, {x}) = f[x] + SumFunctionOnSet(f, {})
    BY <1>1, SumOfOne
<1>3. QED
    BY <1>2, SumOfNone

\* A sum by groups: the elements of S that have the same key in K are added up
\* first, and their sums F[k] afterwards.
AddsGroups(F, K, f, S, key) ==
    /\ \A x \in S : key[x] \in K
    /\ \A k \in K : F[k] = SumFunctionOnSet(f, {x \in S : key[x] = k})

LEMMA SumOfGroups ==
    ASSUME NEW S, IsFiniteSet(S), NEW f, IsNatural(f, S), NEW K, IsFiniteSet(K),
           NEW F, NEW key, AddsGroups(F, K, f, S, key)
    PROVE  SumFunctionOnSet(F, K) = SumFunctionOnSet(f, S)
<1> DEFINE Of(t) == {x \in S : key[x] \in t}
           One(k) == {x \in S : key[x] = k}
           bad == {t \in SUBSET K : SumFunctionOnSet(F, t) # SumFunctionOnSet(f, Of(t))}
<1>1. ASSUME NEW t \in SUBSET S PROVE IsFiniteSet(t) /\ IsNatural(f, t)
    BY FS_Subset DEF IsNatural
<1>2. IsNatural(F, K)
    <2>1. ASSUME NEW k \in K PROVE F[k] \in Nat
        <3>1. One(k) \in SUBSET S /\ F[k] = SumFunctionOnSet(f, One(k))
            BY DEF AddsGroups
        <3> HIDE DEF One
        <3>2. QED
            BY <3>1, <1>1, SumType
    <2>2. QED
        BY <2>1 DEF IsNatural
<1>3. {} \notin bad
    <2>1. Of({}) = {}
        OBVIOUS
    <2>2. QED
        BY <2>1, SumOfNone
<1>4. ASSUME NEW t \in bad, t # {} PROVE \E k \in t : t \ {k} \in bad
    <2>1. PICK k \in t : TRUE
        BY <1>4
    <2>2. IsFiniteSet(t) /\ IsNatural(F, t)
        BY <1>2, FS_Subset DEF IsNatural
    <2>3. SumFunctionOnSet(F, t) = F[k] + SumFunctionOnSet(F, t \ {k})
        BY <2>2, SumOfOne
    <2>4. F[k] = SumFunctionOnSet(f, One(k))
        BY DEF AddsGroups
    <2>5. Of(t) = One(k) \cup Of(t \ {k}) /\ One(k) \cap Of(t \ {k}) = {}
        OBVIOUS
    <2>6. One(k) \in SUBSET S /\ Of(t \ {k}) \in SUBSET S /\ Of(t) \in SUBSET S
        OBVIOUS
    <2>7. t \in SUBSET K /\ SumFunctionOnSet(F, t) # SumFunctionOnSet(f, Of(t))
        OBVIOUS
    <2> HIDE DEF Of, One
    <2>8. SumFunctionOnSet(f, One(k) \cup Of(t \ {k}))
            = SumFunctionOnSet(f, One(k)) + SumFunctionOnSet(f, Of(t \ {k}))
        <3>1. /\ IsFiniteSet(One(k)) /\ IsFiniteSet(Of(t \ {k}))
              /\ IsNatural(f, One(k) \cup Of(t \ {k}))
            BY <1>1, <2>5, <2>6
        <3>2. QED
            BY <2>5, <3>1, SumOfUnion
    <2>9. SumFunctionOnSet(F, t \ {k}) # SumFunctionOnSet(f, Of(t \ {k}))
        BY <2>3, <2>4, <2>5, <2>7, <2>8
    <2>10. t \ {k} \in bad
        BY <2>7, <2>9
    <2>11. QED
        BY <2>10
<1>5. bad \subseteq SUBSET K
    OBVIOUS
<1> HIDE DEF bad
<1>6. bad = {}
    BY <1>3, <1>4, <1>5, SmallestSet
<1>7. SumFunctionOnSet(F, K) = SumFunctionOnSet(f, Of(K))
    BY <1>6 DEF bad
<1>8. Of(K) = S
    BY DEF AddsGroups
<1>9. QED
    BY <1>7, <1>8

\* A sum over renamed elements.
LEMMA SumOfRenamed ==
    ASSUME NEW S, IsFiniteSet(S), NEW T, IsFiniteSet(T), NEW b, NEW f, NEW g,
           \A x \in S : b[x] \in T /\ g[x] = f[b[x]],
           \A y \in T : f[y] \in Nat /\ \E x \in S : b[x] = y,
           \A x, y \in S : b[x] = b[y] => x = y
    PROVE  SumFunctionOnSet(g, S) = SumFunctionOnSet(f, T)
<1>1. IsNatural(g, S)
    BY DEF IsNatural
<1>2. ASSUME NEW y \in T PROVE f[y] = SumFunctionOnSet(g, {x \in S : b[x] = y})
    <2>1. PICK x \in S : b[x] = y
        OBVIOUS
    <2>2. {z \in S : b[z] = y} = {x} /\ g[x] = f[y] /\ g[x] \in Nat
        BY <2>1
    <2>3. QED
        BY <2>2, SumOfSingle
<1>3. AddsGroups(f, T, g, S, b)
    BY <1>2 DEF AddsGroups
<1>4. QED
    BY <1>1, <1>3, SumOfGroups

LEMMA SumScaled ==
    ASSUME NEW S, IsFiniteSet(S), NEW f, IsNatural(f, S), NEW c \in Nat,
           NEW g, \A x \in S : g[x] = c * f[x]
    PROVE  SumFunctionOnSet(g, S) = c * SumFunctionOnSet(f, S)
<1> DEFINE bad == {s \in SUBSET S : SumFunctionOnSet(g, s) # c * SumFunctionOnSet(f, s)}
<1>1. {} \notin bad
    BY SumOfNone
<1>2. ASSUME NEW s \in bad, s # {} PROVE \E x \in s : s \ {x} \in bad
    <2>1. PICK x \in s : TRUE
        BY <1>2
    <2>2. /\ IsFiniteSet(s) /\ IsNatural(f, s) /\ IsNatural(g, s)
          /\ f[x] \in Nat /\ g[x] = c * f[x]
        BY FS_Subset DEF IsNatural
    <2>3. IsFiniteSet(s \ {x}) /\ IsNatural(f, s \ {x})
        BY <2>2, FS_RemoveElement DEF IsNatural
    <2> DEFINE F == SumFunctionOnSet(f, s \ {x})
               G == SumFunctionOnSet(g, s \ {x})
    <2>4. F \in Nat
        BY <2>3, SumType
    <2>5. SumFunctionOnSet(f, s) = f[x] + F /\ SumFunctionOnSet(g, s) = c * f[x] + G
        BY <2>2, SumOfOne
    <2>6. SumFunctionOnSet(g, s) # c * SumFunctionOnSet(f, s)
        OBVIOUS
    <2>7. c * f[x] + G # c * (f[x] + F)
        BY <2>5, <2>6
    <2> HIDE DEF F, G
    <2>8. c * (f[x] + F) = c * f[x] + c * F
        BY <2>2, <2>4
    <2>9. G # c * F
        BY <2>7, <2>8
    <2>10. s \ {x} \in bad
        BY <2>9 DEF F, G
    <2>11. QED
        BY <2>10
<1>3. bad \subseteq SUBSET S
    OBVIOUS
<1> HIDE DEF bad
<1>4. bad = {}
    BY <1>1, <1>2, <1>3, SmallestSet
<1>5. QED
    BY <1>4 DEF bad

\* Nothing but zeros adds up to zero.
LEMMA SumOfZeros ==
    ASSUME NEW S, IsFiniteSet(S), NEW f, \A x \in S : f[x] = 0
    PROVE  SumFunctionOnSet(f, S) = 0
<1>1. IsNatural(f, S)
    BY DEF IsNatural
<1>2. Units(f, S) = {}
    BY DEF Units
<1> QED
    BY <1>1, <1>2, SumIsCount, FS_EmptySet

-----------------------------------------------------------------------------
(* Products.  A product has no set to count, so the function that the fold   *)
(* recurs to is built up one element at a time.                              *)

Product(f) == FoldFunction(LAMBDA x, y : x * y, 1, f)

\* h[s] is the product over s, whichever element is taken first.
Multiplies(h, f, S) ==
    /\ h \in [SUBSET S -> Nat]
    /\ h[{}] = 1
    /\ \A s \in SUBSET S : \A x \in s : h[s] = f[x] * h[s \ {x}]

\* The recursion of the fold.
ProductRecurs(g, f, S) ==
    g = [s \in SUBSET S |->
            IF s = {} THEN 1
            ELSE f[CHOOSE x \in s : TRUE] * g[s \ {CHOOSE x \in s : TRUE}]]

\* One more element.
LEMMA MultipliesMore ==
    ASSUME NEW S, NEW f, NEW x \in S, f[x] \in Nat, \A y \in S : f[y] \in Nat,
           NEW h, Multiplies(h, f, S \ {x})
    PROVE  \E g : Multiplies(g, f, S)
<1> DEFINE g == [s \in SUBSET S |-> IF x \in s THEN f[x] * h[s \ {x}] ELSE h[s]]
<1>1. h \in [SUBSET (S \ {x}) -> Nat] /\ h[{}] = 1
    BY DEF Multiplies
<1>2. \A s \in SUBSET S : s \ {x} \in SUBSET (S \ {x}) /\ (x \notin s => s \in SUBSET (S \ {x}))
    OBVIOUS
<1>3. g \in [SUBSET S -> Nat]
    <2>1. \A s \in SUBSET S : h[s \ {x}] \in Nat /\ (x \notin s => h[s] \in Nat)
        BY <1>1, <1>2
    <2>2. \A n \in Nat : f[x] * n \in Nat
        OBVIOUS
    <2>3. QED
        BY <2>1, <2>2
<1>4. g[{}] = 1
    BY <1>1
<1>5. ASSUME NEW s \in SUBSET S, NEW y \in s PROVE g[s] = f[y] * g[s \ {y}]
    <2>1. CASE y = x
        <3>1. g[s] = f[x] * h[s \ {x}] /\ g[s \ {x}] = h[s \ {x}]
            BY <2>1, <1>5
        <3>2. QED
            BY <2>1, <3>1
    <2>2. CASE y # x /\ x \notin s
        <3>1. g[s] = h[s] /\ g[s \ {y}] = h[s \ {y}]
            BY <1>5, <2>2
        <3>2. h[s] = f[y] * h[s \ {y}]
            BY <1>2, <1>5, <2>2 DEF Multiplies
        <3>3. QED
            BY <3>1, <3>2
    <2>3. CASE y # x /\ x \in s
        <3> DEFINE t == s \ {x}
        <3>1. t \in SUBSET (S \ {x}) /\ y \in t /\ (s \ {y}) \ {x} = t \ {y} /\ x \in s \ {y}
              /\ s \ {y} \in SUBSET S
            BY <1>5, <2>3
        <3>2. g[s] = f[x] * h[t] /\ g[s \ {y}] = f[x] * h[t \ {y}]
            BY <2>3, <3>1
        <3>3. h[t] = f[y] * h[t \ {y}] /\ h[t \ {y}] \in Nat
            BY <1>1, <3>1 DEF Multiplies
        <3>4. f[y] \in Nat
            BY <1>5
        <3> HIDE DEF t, g
        <3>5. \A a, b, c \in Nat : a * (b * c) = b * (a * c)
            OBVIOUS
        <3>6. QED
            BY <3>2, <3>3, <3>4, <3>5
    <2>4. QED
        BY <2>1, <2>2, <2>3
<1> HIDE DEF g
<1>6. \A s \in SUBSET S : \A y \in s : g[s] = f[y] * g[s \ {y}]
    BY <1>5
<1>7. Multiplies(g, f, S)
    BY <1>3, <1>4, <1>6 DEF Multiplies
<1>8. QED
    BY <1>7

LEMMA MultipliesExists ==
    ASSUME NEW S, IsFiniteSet(S), NEW f, IsNatural(f, S)
    PROVE  \E h : Multiplies(h, f, S)
<1> DEFINE bad == {s \in SUBSET S : ~ \E h : Multiplies(h, f, s)}
<1>1. {} \notin bad
    <2> DEFINE h == [s \in SUBSET {} |-> 1]
    <2>1. Multiplies(h, f, {})
        BY DEF Multiplies
    <2> HIDE DEF h
    <2>2. QED
        BY <2>1
<1>2. ASSUME NEW s \in bad, s # {} PROVE \E x \in s : s \ {x} \in bad
    <2>1. PICK x \in s : TRUE
        BY <1>2
    <2>2. f[x] \in Nat /\ \A y \in s : f[y] \in Nat
        BY DEF IsNatural
    <2>3. ~ \E h : Multiplies(h, f, s \ {x})
        BY <2>2, MultipliesMore
    <2>4. QED
        BY <2>3
<1>3. bad \subseteq SUBSET S
    OBVIOUS
<1> HIDE DEF bad
<1>4. bad = {}
    BY <1>1, <1>2, <1>3, SmallestSet
<1>5. QED
    BY <1>4 DEF bad

LEMMA ProductIsUnique ==
    ASSUME NEW S, IsFiniteSet(S), NEW f, NEW g, NEW h,
           ProductRecurs(g, f, S), ProductRecurs(h, f, S)
    PROVE  g[S] = h[S]
<1> DEFINE bad == {s \in SUBSET S : g[s] # h[s]}
<1>1. {} \notin bad
    BY DEF ProductRecurs
<1>2. ASSUME NEW s \in bad, s # {} PROVE \E x \in s : s \ {x} \in bad
    <2> DEFINE x == CHOOSE x \in s : TRUE
    <2>1. x \in s /\ s \ {x} \in SUBSET S
        BY <1>2
    <2>2. g[s] = f[x] * g[s \ {x}] /\ h[s] = f[x] * h[s \ {x}]
        BY <1>2 DEF ProductRecurs
    <2> HIDE DEF x
    <2>3. g[s \ {x}] # h[s \ {x}]
        BY <2>2
    <2>4. QED
        BY <2>1, <2>3
<1>3. bad \subseteq SUBSET S
    OBVIOUS
<1>4. bad = {}
    <2> HIDE DEF bad
    <2>1. QED
        BY <1>1, <1>2, <1>3, SmallestSet
<1>5. QED
    BY <1>4

\* Every factor divides the product.
LEMMA FactorDivides ==
    ASSUME NEW S, IsFiniteSet(S), NEW f, DOMAIN f = S, IsNatural(f, S), NEW x \in S
    PROVE  \E m \in Nat : Product(f) = f[x] * m
<1>1. PICK h : Multiplies(h, f, S)
    BY MultipliesExists
<1>2. ProductRecurs(h, f, S)
    <2> DEFINE k == [s \in SUBSET S |->
                        IF s = {} THEN 1
                        ELSE f[CHOOSE y \in s : TRUE] * h[s \ {CHOOSE y \in s : TRUE}]]
    <2>1. ASSUME NEW s \in SUBSET S PROVE h[s] = k[s]
        <3>1. CASE s = {}
            BY <1>1, <3>1 DEF Multiplies
        <3>2. CASE s # {}
            <4> DEFINE y == CHOOSE y \in s : TRUE
            <4>1. y \in s
                BY <3>2
            <4>2. h[s] = f[y] * h[s \ {y}]
                BY <1>1, <4>1 DEF Multiplies
            <4>3. QED
                BY <3>2, <4>2
        <3>3. QED
            BY <3>1, <3>2
    <2>2. h \in [SUBSET S -> Nat]
        BY <1>1 DEF Multiplies
    <2>3. h = k
        <3> HIDE DEF k
        <3>1. DOMAIN k = SUBSET S /\ k = [s \in SUBSET S |-> k[s]]
            BY DEF k
        <3>2. QED
            BY <2>1, <2>2, <3>1
    <2>4. QED
        BY <2>3 DEF ProductRecurs
<1> DEFINE g == CHOOSE g : ProductRecurs(g, f, S)
<1>3. ProductRecurs(g, f, S)
    BY <1>2
<1>4. Product(f) = g[S]
    BY DEF Product, FoldFunction, FoldFunctionOnSet, MapThenFoldSet, ProductRecurs
<1> HIDE DEF g
<1>5. g[S] = h[S]
    BY <1>2, <1>3, ProductIsUnique
<1>6. h[S] = f[x] * h[S \ {x}] /\ h[S \ {x}] \in Nat
    BY <1>1 DEF Multiplies
<1>7. QED
    BY <1>4, <1>5, <1>6
=============================================================================
