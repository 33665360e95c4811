-------------------------------- MODULE Sums --------------------------------
(***************************************************************************)
(* Sums over finite sets, as the fold operators of the library define them:*)
(* a chosen element's value and the sum of the others.  Which element is   *)
(* chosen makes no difference, so a sum gains what a new element adds, and *)
(* changes by what one element changes.                                    *)
(***************************************************************************)
EXTENDS Integers, FiniteSetsExt, FiniteSetTheorems, TLAPS

OneOf(S) == CHOOSE x \in S : TRUE

\* The partial sums of f over the subsets of S.
IsTally(tally, f, S) ==
  tally = [T \in SUBSET S |->
             IF T = {} THEN 0 ELSE f[OneOf(T)] + tally[T \ {OneOf(T)}]]

SumOn(f, S) == FoldFunctionOnSet(+, 0, f, S)

-----------------------------------------------------------------------------

\* A set of naturals has a least element.
LEMMA LeastNumber ==
  ASSUME NEW S \in SUBSET Nat, S # {}
  PROVE  \E m \in S : \A n \in S : m <= n
<1>1. \E m \in S : \A n \in S : <<n, m>> \notin OpToRel(<, Nat)
  BY NatLessThanWellFounded, WFMin
<1>2. PICK m \in S : \A n \in S : <<n, m>> \notin OpToRel(<, Nat)
  BY <1>1
<1>3. ASSUME NEW n \in S PROVE m <= n
  <2>1. m \in Nat /\ n \in Nat
    OBVIOUS
  <2>2. ~ n < m
    BY <1>2, <2>1 DEF OpToRel
  <2> QED BY <2>1, <2>2
<1> QED BY <1>3

\* What holds of some subset of a finite set holds of a smallest one.
LEMMA SmallestSubset ==
  ASSUME NEW S, IsFiniteSet(S), NEW family \in SUBSET (SUBSET S), family # {}
  PROVE  \E T \in family : \A x \in T : T \ {x} \notin family
<1> DEFINE sizes == {Cardinality(T) : T \in family}
<1>1. \A T \in family : IsFiniteSet(T) /\ Cardinality(T) \in Nat
  BY FS_Subset, FS_CardinalityType
<1>2. sizes \in SUBSET Nat /\ sizes # {}
  BY <1>1
<1>3. PICK m \in sizes : \A n \in sizes : m <= n
  BY <1>2, LeastNumber
<1>4. PICK T \in family : m = Cardinality(T)
  BY <1>3
<1>5. ASSUME NEW x \in T, T \ {x} \in family PROVE FALSE
  <2>1. Cardinality(T \ {x}) = Cardinality(T) - 1
    BY <1>1, FS_RemoveElement
  <2>2. Cardinality(T) <= Cardinality(T \ {x})
    BY <1>3, <1>4, <1>5
  <2> QED BY <1>1, <2>1, <2>2
<1> QED BY <1>5

\* The element that the fold takes first is one of the set.
LEMMA OneOfIsElement ==
  ASSUME NEW S, S # {}
  PROVE  OneOf(S) \in S
BY DEF OneOf

\* A tally of S gives the value of each of its subsets.
LEMMA TallyStep ==
  ASSUME NEW f, NEW S, NEW tally, IsTally(tally, f, S), NEW T \in SUBSET S
  PROVE  /\ T = {} => tally[T] = 0
         /\ T # {} => /\ OneOf(T) \in T
                      /\ tally[T] = f[OneOf(T)] + tally[T \ {OneOf(T)}]
<1>1. tally[T] = IF T = {} THEN 0 ELSE f[OneOf(T)] + tally[T \ {OneOf(T)}]
  BY DEF IsTally
<1> QED BY <1>1, OneOfIsElement

\* The empty set counts zero.
LEMMA TallyEmpty ==
  ASSUME NEW f, NEW S, NEW tally, IsTally(tally, f, S)
  PROVE  tally[{}] = 0
<1>1. {} \in SUBSET S
  OBVIOUS
<1> QED BY <1>1, TallyStep

\* Two sums of the same values agree.
LEMMA TalliesAgree ==
  ASSUME NEW f, NEW g, NEW R, NEW S, NEW tally, NEW other,
         IsTally(tally, f, R), IsTally(other, g, S),
         NEW T, IsFiniteSet(T), T \subseteq R, T \subseteq S,
         \A x \in T : f[x] = g[x]
  PROVE  tally[T] = other[T]
<1> DEFINE family == {U \in SUBSET T : tally[U] # other[U]}
<1> SUFFICES ASSUME family # {} PROVE FALSE
  OBVIOUS
<1>1. PICK U \in family : \A x \in U : U \ {x} \notin family
  <2>1. family \in SUBSET (SUBSET T)
    OBVIOUS
  <2> HIDE DEF family
  <2> QED BY <2>1, SmallestSubset
<1>2. U \in SUBSET T /\ U \in SUBSET R /\ U \in SUBSET S /\ tally[U] # other[U]
  OBVIOUS
<1> HIDE DEF family
<1>3. U # {}
  <2>1. {} \in SUBSET R /\ {} \in SUBSET S
    OBVIOUS
  <2>2. tally[{}] = 0
    BY <2>1, TallyEmpty
  <2>3. other[{}] = 0
    BY <2>1, TallyEmpty
  <2> QED BY <1>2, <2>2, <2>3
<1>4. /\ OneOf(U) \in U
      /\ tally[U] = f[OneOf(U)] + tally[U \ {OneOf(U)}]
      /\ other[U] = g[OneOf(U)] + other[U \ {OneOf(U)}]
  <2>1. OneOf(U) \in U /\ tally[U] = f[OneOf(U)] + tally[U \ {OneOf(U)}]
    BY <1>2, <1>3, TallyStep
  <2>2. other[U] = g[OneOf(U)] + other[U \ {OneOf(U)}]
    BY <1>2, <1>3, TallyStep
  <2> QED BY <2>1, <2>2
<1>5. tally[U \ {OneOf(U)}] = other[U \ {OneOf(U)}]
  BY <1>1, <1>2, <1>4 DEF family
<1>6. f[OneOf(U)] = g[OneOf(U)]
  BY <1>2, <1>4
<1> QED BY <1>2, <1>4, <1>5, <1>6

\* Every finite set has a tally: of the smallest without one, the tallies of its
\* parts make one.
LEMMA TallyExists ==
  ASSUME NEW f, NEW S, IsFiniteSet(S)
  PROVE  \E tally : IsTally(tally, f, S)
<1> DEFINE family == {T \in SUBSET S : ~ \E tally : IsTally(tally, f, T)}
<1> SUFFICES ASSUME family # {} PROVE FALSE
  OBVIOUS
<1>1. PICK T \in family : \A x \in T : T \ {x} \notin family
  <2>1. family \in SUBSET (SUBSET S)
    OBVIOUS
  <2> HIDE DEF family
  <2> QED BY <2>1, SmallestSubset
<1>2. T \in SUBSET S /\ IsFiniteSet(T) /\ ~ \E tally : IsTally(tally, f, T)
  BY FS_Subset
<1>3. ASSUME NEW x \in T PROVE \E tally : IsTally(tally, f, T \ {x})
  BY <1>1, <1>2
<1>4. CASE T = {}
  <2>1. IsTally([U \in SUBSET {} |-> 0], f, {})
    BY DEF IsTally
  <2> QED BY <1>2, <1>4, <2>1
<1>5. CASE T # {}
  <2> DEFINE c == OneOf(T)
             rest == CHOOSE tally : IsTally(tally, f, T \ {c})
  <2>1. c \in T
    BY <1>5, OneOfIsElement
  <2>2. IsTally(rest, f, T \ {c})
    BY <1>3, <2>1
  <2> DEFINE own(U) == CHOOSE tally : IsTally(tally, f, U)
             value(U) == IF U = T THEN f[c] + rest[T \ {c}] ELSE own(U)[U]
             whole == [U \in SUBSET T |-> value(U)]
  <2>3. ASSUME NEW U \in SUBSET T, U # T
        PROVE  IsTally(own(U), f, U)
    <3>1. PICK x \in T : x \notin U
      BY <2>3
    <3>2. PICK tally : IsTally(tally, f, T \ {x})
      BY <1>3
    <3> DEFINE part == [V \in SUBSET U |-> tally[V]]
    <3>3. ASSUME NEW V \in SUBSET U
          PROVE  part[V] = IF V = {} THEN 0 ELSE f[OneOf(V)] + part[V \ {OneOf(V)}]
      <4>1. V \in SUBSET (T \ {x}) /\ part[V] = tally[V] /\ part[V \ {OneOf(V)}] = tally[V \ {OneOf(V)}]
        BY <3>1
      <4>2. V = {} => tally[V] = 0
        BY <3>2, <4>1, TallyStep
      <4>3. V # {} => tally[V] = f[OneOf(V)] + tally[V \ {OneOf(V)}]
        BY <3>2, <4>1, TallyStep
      <4> HIDE DEF part
      <4> QED BY <4>1, <4>2, <4>3
    <3>4. IsTally(part, f, U)
      BY <3>3 DEF IsTally
    <3> QED BY <3>4
  <2>4. ASSUME NEW U \in SUBSET T, U # T, U # {}
        PROVE  own(U)[U] = f[OneOf(U)] + own(U \ {OneOf(U)})[U \ {OneOf(U)}]
    <3> DEFINE V == U \ {OneOf(U)}
    <3>1. OneOf(U) \in U /\ V \in SUBSET T /\ V # T /\ IsFiniteSet(V)
      BY <1>2, <2>4, OneOfIsElement, FS_Subset
    <3>2. IsTally(own(U), f, U) /\ IsTally(own(V), f, V)
      BY <2>3, <2>4, <3>1
    <3> HIDE DEF own
    <3>3. own(U)[U] = f[OneOf(U)] + own(U)[V]
      BY <2>4, <3>2, TallyStep
    <3>4. own(U)[V] = own(V)[V]
      <4>1. V \subseteq U /\ V \subseteq V /\ \A x \in V : f[x] = f[x]
        OBVIOUS
      <4> HIDE DEF V
      <4> QED BY <3>1, <3>2, <4>1, TalliesAgree
    <3> QED BY <3>3, <3>4
  <2>5. own({})[{}] = 0
    <3>1. {} \in SUBSET T /\ {} # T
      BY <1>5
    <3>2. IsTally(own({}), f, {})
      BY <2>3, <3>1
    <3> HIDE DEF own
    <3> QED BY <3>2, TallyStep
  <2>6. rest[T \ {c}] = own(T \ {c})[T \ {c}]
    OBVIOUS
  <2>7. ASSUME NEW U \in SUBSET T
        PROVE  value(U) = IF U = {} THEN 0 ELSE f[OneOf(U)] + value(U \ {OneOf(U)})
    <3>1. CASE U = T
      <4>1. value(U) = f[c] + own(T \ {c})[T \ {c}]
        BY <2>6, <3>1
      <4>2. T \ {c} # T
        BY <2>1
      <4> QED BY <1>5, <3>1, <4>1, <4>2
    <3>2. CASE U # T /\ U = {}
      BY <2>5, <3>2
    <3>3. CASE U # T /\ U # {}
      <4>1. U \ {OneOf(U)} # T
        BY <3>3
      <4>2. value(U) = own(U)[U] /\ value(U \ {OneOf(U)}) = own(U \ {OneOf(U)})[U \ {OneOf(U)}]
        BY <3>3, <4>1
      <4> HIDE DEF value, own
      <4> QED BY <2>4, <3>3, <4>2
    <3> QED BY <3>1, <3>2, <3>3
  <2>8. IsTally(whole, f, T)
    <3> HIDE DEF value
    <3>1. \A U \in SUBSET T : whole[U] = IF U = {} THEN 0 ELSE f[OneOf(U)] + whole[U \ {OneOf(U)}]
      BY <2>7
    <3>2. whole = [U \in SUBSET T |-> whole[U]]
      OBVIOUS
    <3> HIDE DEF whole
    <3>3. whole = [U \in SUBSET T |-> IF U = {} THEN 0 ELSE f[OneOf(U)] + whole[U \ {OneOf(U)}]]
      BY <3>1, <3>2
    <3> QED BY <3>3 DEF IsTally
  <2> QED BY <1>2, <2>8
<1> QED BY <1>4, <1>5
-----------------------------------------------------------------------------

\* The fold is the value of a tally.
LEMMA SumIsTally ==
  ASSUME NEW f, NEW S, IsFiniteSet(S)
  PROVE  \E tally : IsTally(tally, f, S) /\ SumOn(f, S) = tally[S]
<1> DEFINE made == CHOOSE tally : IsTally(tally, f, S)
<1>1. IsTally(made, f, S)
  BY TallyExists
<1>2. SumOn(f, S) = made[S]
  BY DEF SumOn, FoldFunctionOnSet, MapThenFoldSet, IsTally, OneOf
<1> QED BY <1>1, <1>2

\* What the library calls the fold of a function.
LEMMA SumOfFunction ==
  ASSUME NEW f
  PROVE  FoldFunction(+, 0, f) = SumOn(f, DOMAIN f)
BY DEF FoldFunction, SumOn

\* The sum over no elements.
LEMMA SumEmpty ==
  ASSUME NEW f
  PROVE  SumOn(f, {}) = 0
BY FS_EmptySet, SumIsTally, TallyEmpty

\* The sum, with the element that the fold takes first taken apart.
LEMMA SumOneOf ==
  ASSUME NEW f, NEW S, IsFiniteSet(S), S # {}
  PROVE  /\ OneOf(S) \in S
         /\ SumOn(f, S) = f[OneOf(S)] + SumOn(f, S \ {OneOf(S)})
<1> DEFINE R == S \ {OneOf(S)}
<1>1. PICK tally : IsTally(tally, f, S) /\ SumOn(f, S) = tally[S]
  BY SumIsTally
<1>2. IsFiniteSet(R)
  BY FS_Subset
<1>3. PICK rest : IsTally(rest, f, R) /\ SumOn(f, R) = rest[R]
  BY <1>2, SumIsTally
<1>4. S \in SUBSET S
  OBVIOUS
<1>5. OneOf(S) \in S /\ tally[S] = f[OneOf(S)] + tally[R]
  BY <1>1, <1>4, TallyStep
<1>6. tally[R] = rest[R]
  <2>1. R \subseteq S /\ R \subseteq R /\ \A x \in R : f[x] = f[x]
    OBVIOUS
  <2> HIDE DEF R
  <2> QED BY <1>1, <1>2, <1>3, <2>1, TalliesAgree
<1> QED BY <1>1, <1>3, <1>5, <1>6

\* A sum of integers is one.
LEMMA SumInt ==
  ASSUME NEW f, NEW S, IsFiniteSet(S), \A x \in S : f[x] \in Int
  PROVE  SumOn(f, S) \in Int
<1> DEFINE family == {T \in SUBSET S : SumOn(f, T) \notin Int}
<1> SUFFICES ASSUME family # {} PROVE FALSE
  OBVIOUS
<1>1. PICK T \in family : \A x \in T : T \ {x} \notin family
  <2>1. family \in SUBSET (SUBSET S)
    OBVIOUS
  <2> HIDE DEF family
  <2> QED BY <2>1, SmallestSubset
<1>2. T \in SUBSET S /\ IsFiniteSet(T) /\ T # {}
  <2>1. T \in SUBSET S /\ IsFiniteSet(T)
    BY FS_Subset
  <2>2. {} \notin family
    BY SumEmpty
  <2> HIDE DEF family
  <2> QED BY <2>1, <2>2
<1>3. OneOf(T) \in T /\ SumOn(f, T) = f[OneOf(T)] + SumOn(f, T \ {OneOf(T)})
  BY <1>2, SumOneOf
<1>4. SumOn(f, T \ {OneOf(T)}) \in Int
  BY <1>1, <1>2, <1>3
<1> QED BY <1>2, <1>3, <1>4

\* Any element of the set can be taken out of its sum, not only the chosen one.
LEMMA SumRemove ==
  ASSUME NEW f, NEW S, IsFiniteSet(S), NEW y \in S, \A x \in S : f[x] \in Int
  PROVE  SumOn(f, S) = f[y] + SumOn(f, S \ {y})
<1> DEFINE family == {T \in SUBSET S : \E x \in T : SumOn(f, T) # f[x] + SumOn(f, T \ {x})}
<1> SUFFICES ASSUME family # {} PROVE FALSE
  OBVIOUS
<1>1. PICK T \in family : \A x \in T : T \ {x} \notin family
  <2>1. family \in SUBSET (SUBSET S)
    OBVIOUS
  <2> HIDE DEF family
  <2> QED BY <2>1, SmallestSubset
<1>2. T \in SUBSET S /\ IsFiniteSet(T)
  BY FS_Subset
<1>3. PICK z \in T : SumOn(f, T) # f[z] + SumOn(f, T \ {z})
  OBVIOUS
<1> DEFINE c == OneOf(T)
<1>4. c \in T /\ SumOn(f, T) = f[c] + SumOn(f, T \ {c})
  BY <1>2, <1>3, SumOneOf
<1> HIDE DEF c
<1>5. c # z
  BY <1>3, <1>4
<1>6. SumOn(f, T \ {c}) = f[z] + SumOn(f, (T \ {c}) \ {z})
  <2>1. T \ {c} \notin family /\ T \ {c} \in SUBSET S /\ z \in T \ {c}
    BY <1>1, <1>2, <1>3, <1>4, <1>5
  <2> QED BY <2>1
<1>7. SumOn(f, T \ {z}) = f[c] + SumOn(f, (T \ {z}) \ {c})
  <2>1. T \ {z} \notin family /\ T \ {z} \in SUBSET S /\ c \in T \ {z}
    BY <1>1, <1>2, <1>3, <1>4, <1>5
  <2> QED BY <2>1
<1>8. (T \ {c}) \ {z} = (T \ {z}) \ {c}
  OBVIOUS
<1>9. SumOn(f, (T \ {z}) \ {c}) \in Int /\ f[c] \in Int /\ f[z] \in Int
  BY <1>2, <1>3, <1>4, SumInt, FS_Subset
<1> HIDE DEF family
<1>10. SumOn(f, T) = f[c] + (f[z] + SumOn(f, (T \ {z}) \ {c}))
  BY <1>4, <1>6, <1>8
<1>11. SumOn(f, T) # f[z] + (f[c] + SumOn(f, (T \ {z}) \ {c}))
  BY <1>3, <1>7
<1> QED BY <1>9, <1>10, <1>11

\* An element that joins the set adds its value.
LEMMA SumAdd ==
  ASSUME NEW f, NEW S, IsFiniteSet(S), NEW y, y \notin S, f[y] \in Int, \A x \in S : f[x] \in Int
  PROVE  SumOn(f, S \cup {y}) = f[y] + SumOn(f, S)
<1>1. IsFiniteSet(S \cup {y}) /\ y \in S \cup {y} /\ (S \cup {y}) \ {y} = S
  BY FS_AddElement
<1> QED BY <1>1, SumRemove

\* Functions with the same values have the same sum.
LEMMA SumAgree ==
  ASSUME NEW f, NEW g, NEW S, IsFiniteSet(S), \A x \in S : f[x] = g[x]
  PROVE  SumOn(f, S) = SumOn(g, S)
<1>1. PICK tally : IsTally(tally, f, S) /\ SumOn(f, S) = tally[S]
  BY SumIsTally
<1>2. PICK other : IsTally(other, g, S) /\ SumOn(g, S) = other[S]
  BY SumIsTally
<1>3. S \subseteq S
  OBVIOUS
<1>4. tally[S] = other[S]
  BY <1>1, <1>2, <1>3, TalliesAgree
<1> QED BY <1>1, <1>2, <1>4

\* A change of one value changes the sum by as much.
LEMMA SumChange ==
  ASSUME NEW f, NEW g, NEW S, IsFiniteSet(S), NEW y \in S,
         \A x \in S : f[x] \in Int, g[y] \in Int, \A x \in S \ {y} : g[x] = f[x]
  PROVE  SumOn(g, S) = SumOn(f, S) - f[y] + g[y]
<1>1. IsFiniteSet(S \ {y}) /\ \A x \in S : g[x] \in Int
  BY FS_Subset
<1>2. SumOn(f, S) = f[y] + SumOn(f, S \ {y})
  BY SumRemove
<1>3. SumOn(g, S) = g[y] + SumOn(g, S \ {y})
  BY <1>1, SumRemove
<1>4. SumOn(g, S \ {y}) = SumOn(f, S \ {y})
  BY <1>1, SumAgree
<1>5. SumOn(f, S \ {y}) \in Int
  BY <1>1, SumInt
<1> QED BY <1>2, <1>3, <1>4, <1>5

\* The sum of sums.
LEMMA SumPlus ==
  ASSUME NEW f, NEW g, NEW h, NEW S, IsFiniteSet(S),
         \A x \in S : f[x] \in Int /\ g[x] \in Int /\ h[x] = f[x] + g[x]
  PROVE  SumOn(h, S) = SumOn(f, S) + SumOn(g, S)
<1> DEFINE family == {T \in SUBSET S : SumOn(h, T) # SumOn(f, T) + SumOn(g, T)}
<1> SUFFICES ASSUME family # {} PROVE FALSE
  OBVIOUS
<1>1. PICK T \in family : \A x \in T : T \ {x} \notin family
  <2>1. family \in SUBSET (SUBSET S)
    OBVIOUS
  <2> HIDE DEF family
  <2> QED BY <2>1, SmallestSubset
<1>2. T \in SUBSET S /\ IsFiniteSet(T) /\ T # {}
  <2>1. T \in SUBSET S /\ IsFiniteSet(T)
    BY FS_Subset
  <2>2. {} \notin family
    BY SumEmpty
  <2> HIDE DEF family
  <2> QED BY <2>1, <2>2
<1> DEFINE c == OneOf(T)
<1>3. /\ c \in T
      /\ SumOn(f, T) = f[c] + SumOn(f, T \ {c})
      /\ SumOn(g, T) = g[c] + SumOn(g, T \ {c})
      /\ SumOn(h, T) = h[c] + SumOn(h, T \ {c})
  BY <1>2, SumOneOf
<1> HIDE DEF c
<1>4. SumOn(h, T \ {c}) = SumOn(f, T \ {c}) + SumOn(g, T \ {c})
  BY <1>1, <1>2, <1>3
<1>5. SumOn(f, T \ {c}) \in Int /\ SumOn(g, T \ {c}) \in Int
  <2>1. IsFiniteSet(T \ {c}) /\ \A x \in T \ {c} : f[x] \in Int /\ g[x] \in Int
    BY <1>2, FS_Subset
  <2> QED BY <2>1, SumInt
<1>6. SumOn(h, T) # SumOn(f, T) + SumOn(g, T)
  OBVIOUS
<1> HIDE DEF family
<1>7. f[c] \in Int /\ g[c] \in Int /\ h[c] = f[c] + g[c]
  BY <1>2, <1>3
<1> QED BY <1>3, <1>4, <1>5, <1>6, <1>7

\* A sum of natural numbers is one, and no less than any of them.
LEMMA SumNat ==
  ASSUME NEW f, NEW S, IsFiniteSet(S), \A x \in S : f[x] \in Nat
  PROVE  /\ SumOn(f, S) \in Nat
         /\ \A x \in S : f[x] <= SumOn(f, S)
<1> DEFINE family == {T \in SUBSET S : SumOn(f, T) \notin Nat}
<1>1. \A x \in S : f[x] \in Int
  OBVIOUS
<1>2. family = {}
  <2> SUFFICES ASSUME family # {} PROVE FALSE
    OBVIOUS
  <2>1. PICK T \in family : \A x \in T : T \ {x} \notin family
    <3>1. family \in SUBSET (SUBSET S)
      OBVIOUS
    <3> HIDE DEF family
    <3> QED BY <3>1, SmallestSubset
  <2>2. T \in SUBSET S /\ IsFiniteSet(T) /\ T # {}
    <3>1. T \in SUBSET S /\ IsFiniteSet(T)
      BY FS_Subset
    <3>2. {} \notin family
      BY SumEmpty
    <3> HIDE DEF family
    <3> QED BY <2>1, <3>1, <3>2
  <2>3. OneOf(T) \in T /\ SumOn(f, T) = f[OneOf(T)] + SumOn(f, T \ {OneOf(T)})
    BY <2>2, SumOneOf
  <2>4. SumOn(f, T \ {OneOf(T)}) \in Nat
    BY <2>1, <2>2, <2>3
  <2> QED BY <2>2, <2>3, <2>4
<1>3. SumOn(f, S) \in Nat
  BY <1>2
<1>4. ASSUME NEW x \in S PROVE f[x] <= SumOn(f, S)
  <2>1. SumOn(f, S) = f[x] + SumOn(f, S \ {x})
    BY <1>1, SumRemove
  <2>2. SumOn(f, S \ {x}) \in Nat
    BY <1>2
  <2> QED BY <2>1, <2>2
<1> QED BY <1>3, <1>4

\* The sum over a set is that over a part of it and over the rest.
LEMMA SumSplit ==
  ASSUME NEW f, NEW S, IsFiniteSet(S), \A x \in S : f[x] \in Int, NEW T \in SUBSET S
  PROVE  SumOn(f, S) = SumOn(f, T) + SumOn(f, S \ T)
<1> DEFINE family == {U \in SUBSET S : SumOn(f, S) # SumOn(f, U) + SumOn(f, S \ U)}
<1> SUFFICES ASSUME family # {} PROVE FALSE
  OBVIOUS
<1>1. PICK U \in family : \A x \in U : U \ {x} \notin family
  <2>1. family \in SUBSET (SUBSET S)
    OBVIOUS
  <2> HIDE DEF family
  <2> QED BY <2>1, SmallestSubset
<1>2. U \in SUBSET S /\ IsFiniteSet(U) /\ IsFiniteSet(S \ U)
  BY FS_Subset
<1>3. U # {}
  <2>1. S \ {} = S /\ SumOn(f, {}) = 0 /\ SumOn(f, S) \in Int
    BY SumEmpty, SumInt
  <2>2. {} \notin family
    BY <2>1
  <2> HIDE DEF family
  <2> QED BY <1>1, <2>2
<1>4. PICK c \in U : TRUE
  BY <1>3
<1>5. SumOn(f, S) = SumOn(f, U \ {c}) + SumOn(f, S \ (U \ {c}))
  BY <1>1, <1>2, <1>4
<1>6. SumOn(f, U) = f[c] + SumOn(f, U \ {c})
  BY <1>2, <1>4, SumRemove
<1>7. SumOn(f, S \ (U \ {c})) = f[c] + SumOn(f, S \ U)
  <2>1. S \ (U \ {c}) = (S \ U) \cup {c} /\ c \notin S \ U /\ f[c] \in Int
    BY <1>2, <1>4
  <2>2. SumOn(f, (S \ U) \cup {c}) = f[c] + SumOn(f, S \ U)
    BY <1>2, <2>1, SumAdd
  <2> QED BY <2>1, <2>2
<1>8. /\ f[c] \in Int
      /\ SumOn(f, U \ {c}) \in Int
      /\ SumOn(f, S \ U) \in Int
  <2>1. IsFiniteSet(U \ {c})
    BY <1>2, FS_Subset
  <2> QED BY <1>2, <1>4, <2>1, SumInt
<1>9. SumOn(f, S) # SumOn(f, U) + SumOn(f, S \ U)
  OBVIOUS
<1> HIDE DEF family
<1> QED BY <1>5, <1>6, <1>7, <1>8, <1>9

\* A part of natural numbers adds up to no more than all of them.
LEMMA SumOfPart ==
  ASSUME NEW f, NEW S, IsFiniteSet(S), \A x \in S : f[x] \in Nat, NEW T \in SUBSET S
  PROVE  SumOn(f, T) \in Nat /\ SumOn(f, T) <= SumOn(f, S)
<1>1. IsFiniteSet(T) /\ IsFiniteSet(S \ T)
  BY FS_Subset
<1>2. SumOn(f, T) \in Nat /\ SumOn(f, S \ T) \in Nat
  BY <1>1, SumNat
<1>3. SumOn(f, S) = SumOn(f, T) + SumOn(f, S \ T)
  BY SumSplit
<1> QED BY <1>2, <1>3

\* A sum of zeros.
LEMMA SumZero ==
  ASSUME NEW f, NEW S, IsFiniteSet(S), \A x \in S : f[x] = 0
  PROVE  SumOn(f, S) = 0
<1> DEFINE total == SumOn(f, S)
<1>1. \A x \in S : f[x] \in Int /\ f[x] = f[x] + f[x]
  <2>1. TAKE x \in S
  <2>2. f[x] = 0
    OBVIOUS
  <2>3. QED BY <2>2
<1>2. total = total + total
  BY <1>1, SumPlus
<1>3. total \in Int
  BY <1>1, SumInt
<1> HIDE DEF total
<1>4. total = 0
  BY <1>2, <1>3
<1> QED BY <1>4 DEF total

\* What is moved from one element to another leaves the sum as it was.
LEMMA SumMove ==
  ASSUME NEW f, NEW g, NEW S, IsFiniteSet(S), NEW from \in S, NEW to \in S, from # to,
         \A x \in S : f[x] \in Int, NEW amount \in Int,
         g[from] = f[from] - amount, g[to] = f[to] + amount,
         \A x \in S \ {from, to} : g[x] = f[x]
  PROVE  SumOn(g, S) = SumOn(f, S)
<1> DEFINE R == S \ {from}
<1>1. IsFiniteSet(R) /\ to \in R /\ R \subseteq S
  BY FS_Subset
<1>2. g[from] \in Int /\ g[to] \in Int
  OBVIOUS
<1>3. \A x \in S : g[x] \in Int
  BY <1>2
<1>4. SumOn(f, S) = f[from] + SumOn(f, R)
  BY SumRemove
<1>5. SumOn(g, S) = g[from] + SumOn(g, R)
  BY <1>3, SumRemove
<1>6. SumOn(g, R) = SumOn(f, R) - f[to] + g[to]
  <2>1. \A x \in R : f[x] \in Int
    BY <1>1
  <2>2. \A x \in R \ {to} : g[x] = f[x]
    OBVIOUS
  <2> HIDE DEF R
  <2>3. QED BY <1>1, <1>2, <2>1, <2>2, SumChange
<1>7. SumOn(f, R) \in Int
  <2>1. \A x \in R : f[x] \in Int
    BY <1>1
  <2> HIDE DEF R
  <2>2. QED BY <1>1, <2>1, SumInt
<1> HIDE DEF R
<1> QED BY <1>4, <1>5, <1>6, <1>7
=============================================================================
