-------------------------------- MODULE Sums --------------------------------
(***************************************************************************)
(* Facts about finite sums: SumFunctionOnSet(f, S) adds f[x] over the      *)
(* elements x of the finite set S.  The library defines it by recursion    *)
(* over the subsets of S and states nothing about it.                      *)
(***************************************************************************)
EXTENDS Functions, FiniteSetTheorems, TLAPS

-----------------------------------------------------------------------------
(* Induction over a finite set, with the induction hypothesis as a set. *)

\* A set of subsets of S that has the empty set and, with a set, that set and
\* one element more, has them all.
LEMMA SubsetInduction ==
    ASSUME NEW S, IsFiniteSet(S), NEW G, {} \in G,
           \A T \in SUBSET S : T \in G => \A x \in S \ T : T \cup {x} \in G
    PROVE  \A T \in SUBSET S : T \in G
<1> DEFINE Bad == {T \in SUBSET S : T \notin G}
<1> SUFFICES ASSUME Bad # {} PROVE FALSE
  OBVIOUS
<1>1. PICK T \in Bad : \A U \in Bad : <<U, T>> \notin StrictSubsetOrdering(S)
  <2>1. Bad \subseteq FiniteSubsetsOf(S)
    BY FS_Subset DEF FiniteSubsetsOf
  <2> HIDE DEF Bad
  <2> QED
    BY <2>1, FS_StrictSubsetOrderingWellFounded, WFMin
<1>2. PICK x \in T : TRUE
  OBVIOUS
<1>3. T \ {x} \in SUBSET S /\ <<T \ {x}, T>> \in StrictSubsetOrdering(S)
  BY DEF StrictSubsetOrdering
<1>4. T \ {x} \in G
  BY <1>1, <1>3
<1>5. (T \ {x}) \cup {x} = T /\ x \in S \ (T \ {x})
  BY <1>1, <1>2
<1> QED
  BY <1>1, <1>3, <1>4, <1>5

\* A set of subsets of S that has a set whenever it has its proper subsets has
\* them all.
LEMMA SmallerSubsets ==
    ASSUME NEW S, IsFiniteSet(S), NEW G,
           \A T \in SUBSET S : (\A U \in SUBSET T : U # T => U \in G) => T \in G
    PROVE  \A T \in SUBSET S : T \in G
<1> DEFINE Bad == {T \in SUBSET S : T \notin G}
<1> SUFFICES ASSUME Bad # {} PROVE FALSE
  OBVIOUS
<1>1. PICK T \in Bad : \A U \in Bad : <<U, T>> \notin StrictSubsetOrdering(S)
  <2>1. Bad \subseteq FiniteSubsetsOf(S)
    BY FS_Subset DEF FiniteSubsetsOf
  <2> HIDE DEF Bad
  <2> QED
    BY <2>1, FS_StrictSubsetOrderingWellFounded, WFMin
<1>2. ASSUME NEW U \in SUBSET T, U # T
      PROVE  U \in G
  <2>1. <<U, T>> \in StrictSubsetOrdering(S)
    BY <1>2 DEF StrictSubsetOrdering
  <2> QED
    BY <1>1, <2>1
<1> QED
  BY <1>1, <1>2

-----------------------------------------------------------------------------
(* The recursion.  Pick is the element the library takes out next. *)

Pick(s) == CHOOSE x \in s : TRUE

IsSum(f, D, g) ==
    g = [s \in D |-> IF s = {} THEN 0 ELSE f[Pick(s)] + g[s \ {Pick(s)}]]

\* The subsets of at most n elements.
UpTo(S, n) == {s \in SUBSET S : Cardinality(s) <= n}

LEMMA PickIsIn ==
    ASSUME NEW s, s # {}
    PROVE  Pick(s) \in s
  BY DEF Pick

LEMMA SumIsChosen ==
    ASSUME NEW f, NEW S
    PROVE  SumFunctionOnSet(f, S) = (CHOOSE g : IsSum(f, SUBSET S, g))[S]
  BY DEF SumFunctionOnSet, FoldFunctionOnSet, MapThenFoldSet, IsSum, Pick

LEMMA RecursionStep ==
    ASSUME NEW S, IsFiniteSet(S), NEW f, NEW n \in Nat, NEW g, IsSum(f, UpTo(S, n), g)
    PROVE  \E h : IsSum(f, UpTo(S, n + 1), h)
<1> DEFINE h == [s \in UpTo(S, n + 1) |->
                    IF s = {} THEN 0 ELSE f[Pick(s)] + g[s \ {Pick(s)}]]
<1>1. ASSUME NEW s \in UpTo(S, n + 1), s # {}
      PROVE  s \ {Pick(s)} \in UpTo(S, n)
  <2>1. s \in SUBSET S /\ IsFiniteSet(s) /\ Cardinality(s) <= n + 1
    BY FS_Subset DEF UpTo
  <2>2. Cardinality(s \ {Pick(s)}) = Cardinality(s) - 1 /\ Cardinality(s) \in Nat
    BY <1>1, <2>1, PickIsIn, FS_RemoveElement, FS_CardinalityType
  <2> QED
    BY <2>1, <2>2 DEF UpTo
<1>2. ASSUME NEW s \in UpTo(S, n)
      PROVE  s \in UpTo(S, n + 1) /\ h[s] = g[s]
  <2>1. s \in UpTo(S, n + 1)
    <3>1. Cardinality(s) \in Nat /\ Cardinality(s) <= n /\ s \in SUBSET S
      BY FS_Subset, FS_CardinalityType DEF UpTo
    <3> QED
      BY <3>1 DEF UpTo
  <2> QED
    BY <2>1 DEF IsSum
<1>3. \A s \in UpTo(S, n + 1) : s # {} => h[s \ {Pick(s)}] = g[s \ {Pick(s)}]
  BY <1>1, <1>2
<1>4. IsSum(f, UpTo(S, n + 1), h)
  BY <1>3 DEF IsSum
<1> QED
  BY <1>4

\* The recursion defines a function on the subsets of a finite set.
LEMMA RecursionExists ==
    ASSUME NEW S, IsFiniteSet(S), NEW f
    PROVE  \E g : IsSum(f, SUBSET S, g)
<1> DEFINE G == {T \in SUBSET S : \E g : IsSum(f, UpTo(S, Cardinality(T)), g)}
<1>1. {} \in G
  <2> DEFINE g == [s \in UpTo(S, 0) |-> 0]
  <2>1. \A s \in UpTo(S, 0) : s = {}
    <3> SUFFICES ASSUME NEW s \in UpTo(S, 0) PROVE s = {}
      OBVIOUS
    <3>1. IsFiniteSet(s) /\ Cardinality(s) <= 0 /\ Cardinality(s) \in Nat
      BY FS_Subset, FS_CardinalityType DEF UpTo
    <3> QED
      BY <3>1, FS_EmptySet
  <2>2. IsSum(f, UpTo(S, 0), g)
    BY <2>1 DEF IsSum
  <2> QED
    BY <2>2, FS_EmptySet
<1>2. ASSUME NEW T \in SUBSET S, T \in G, NEW x \in S \ T
      PROVE  T \cup {x} \in G
  <2>1. /\ IsFiniteSet(T) /\ Cardinality(T) \in Nat
        /\ Cardinality(T \cup {x}) = Cardinality(T) + 1
    BY FS_Subset, FS_CardinalityType, FS_AddElement
  <2>2. PICK g : IsSum(f, UpTo(S, Cardinality(T)), g)
    BY <1>2
  <2>3. \E h : IsSum(f, UpTo(S, Cardinality(T) + 1), h)
    BY <2>1, <2>2, RecursionStep
  <2> QED
    BY <1>2, <2>1, <2>3
<1>3. S \in G
  <2> HIDE DEF G
  <2> QED
    BY <1>1, <1>2, SubsetInduction
<1>4. UpTo(S, Cardinality(S)) = SUBSET S
  BY FS_Subset DEF UpTo
<1> QED
  BY <1>3, <1>4

\* Two such functions agree on the sets both are defined for.
LEMMA RecursionIsUnique ==
    ASSUME NEW S, IsFiniteSet(S), NEW T \in SUBSET S, NEW f, NEW g, NEW h,
           IsSum(f, SUBSET S, g), IsSum(f, SUBSET T, h)
    PROVE  \A U \in SUBSET T : g[U] = h[U]
<1> DEFINE G == {U \in SUBSET T : g[U] = h[U]}
<1>0. IsFiniteSet(T)
  BY FS_Subset
<1>1. ASSUME NEW U \in SUBSET T, \A V \in SUBSET U : V # U => V \in G
      PROVE  U \in G
  <2>1. CASE U = {}
    BY <2>1 DEF IsSum
  <2>2. CASE U # {}
    <3> DEFINE V == U \ {Pick(U)}
    <3>1. V \in SUBSET T /\ V \in SUBSET S /\ V \in G
      BY <1>1, <2>2, PickIsIn
    <3>2. U \in SUBSET S /\ g[U] = f[Pick(U)] + g[V]
      BY <2>2, <3>1 DEF IsSum
    <3>3. h[U] = f[Pick(U)] + h[V]
      BY <2>2, <3>1 DEF IsSum
    <3> QED
      BY <3>1, <3>2, <3>3
  <2> QED
    BY <2>1, <2>2
<1>2. \A U \in SUBSET T : U \in G
  <2> HIDE DEF G
  <2> QED
    BY <1>0, <1>1, SmallerSubsets
<1> QED
  BY <1>2

LEMMA SumRecursion ==
    ASSUME NEW S, IsFiniteSet(S), NEW f
    PROVE  SumFunctionOnSet(f, S) =
               IF S = {} THEN 0
               ELSE f[Pick(S)] + SumFunctionOnSet(f, S \ {Pick(S)})
<1> DEFINE T == S \ {Pick(S)}
           g == CHOOSE g : IsSum(f, SUBSET S, g)
           h == CHOOSE h : IsSum(f, SUBSET T, h)
<1>1. IsFiniteSet(T) /\ T \in SUBSET S
  BY FS_Subset
<1>2. IsSum(f, SUBSET S, g)
  BY RecursionExists
<1>3. IsSum(f, SUBSET T, h)
  BY <1>1, RecursionExists
<1>4. SumFunctionOnSet(f, S) = g[S] /\ SumFunctionOnSet(f, T) = h[T]
  BY SumIsChosen
<1> HIDE DEF g, h
<1>5. g[T] = h[T]
  <2> HIDE DEF T
  <2>1. \A U \in SUBSET T : g[U] = h[U]
    BY <1>1, <1>2, <1>3, RecursionIsUnique
  <2> QED
    BY <2>1
<1>6. g[S] = IF S = {} THEN 0 ELSE f[Pick(S)] + g[T]
  BY <1>2 DEF IsSum
<1> QED
  BY <1>4, <1>5, <1>6

-----------------------------------------------------------------------------
(* Sums. *)

LEMMA SumEmpty ==
    ASSUME NEW f
    PROVE  SumFunctionOnSet(f, {}) = 0
  BY SumRecursion, FS_EmptySet

\* A sum of integers is an integer, and any element may be taken out.
LEMMA SumTakesOut ==
    ASSUME NEW S, IsFiniteSet(S), NEW f, \A x \in S : f[x] \in Int
    PROVE  /\ SumFunctionOnSet(f, S) \in Int
           /\ \A x \in S : SumFunctionOnSet(f, S) = f[x] + SumFunctionOnSet(f, S \ {x})
<1> DEFINE Sum(T) == SumFunctionOnSet(f, T)
           G == {T \in SUBSET S : /\ Sum(T) \in Int
                                  /\ \A x \in T : Sum(T) = f[x] + Sum(T \ {x})}
<1>1. ASSUME NEW T \in SUBSET S, T # {}
      PROVE  Pick(T) \in T /\ Sum(T) = f[Pick(T)] + Sum(T \ {Pick(T)})
  BY <1>1, PickIsIn, SumRecursion, FS_Subset
<1>2. Sum({}) = 0
  BY SumEmpty
<1> HIDE DEF Sum
<1>3. ASSUME NEW T \in SUBSET S, \A U \in SUBSET T : U # T => U \in G
      PROVE  T \in G
  <2>1. CASE T = {}
    BY <1>2, <2>1
  <2>2. CASE T # {}
    <3> DEFINE p == Pick(T)
    <3>1. p \in T /\ Sum(T) = f[p] + Sum(T \ {p}) /\ T \ {p} \in G
      BY <1>1, <1>3, <2>2
    <3>2. Sum(T) \in Int
      BY <3>1
    <3>3. ASSUME NEW x \in T, x # p
          PROVE  Sum(T) = f[x] + Sum(T \ {x})
      <4>1. T \ {x} \in G /\ p \in T \ {x} /\ x \in T \ {p}
        BY <1>3, <3>1, <3>3
      <4>2. (T \ {x}) \ {p} = (T \ {p}) \ {x} /\ (T \ {p}) \ {x} \in SUBSET T
            /\ (T \ {p}) \ {x} # T
        BY <3>1
      <4> HIDE DEF p
      <4>3. (T \ {p}) \ {x} \in G
        BY <1>3, <4>2
      <4>4. /\ Sum(T \ {p}) = f[x] + Sum((T \ {p}) \ {x})
            /\ Sum(T \ {x}) = f[p] + Sum((T \ {p}) \ {x})
            /\ Sum((T \ {p}) \ {x}) \in Int /\ f[x] \in Int /\ f[p] \in Int
        BY <3>1, <4>1, <4>2, <4>3
      <4> QED
        BY <3>1, <4>4
    <3> QED
      BY <3>1, <3>2, <3>3
  <2> QED
    BY <2>1, <2>2
<1>4. S \in G
  <2> HIDE DEF G
  <2> QED
    BY <1>3, SmallerSubsets
<1> QED
  BY <1>4 DEF Sum

\* A sum with one element more.
LEMMA SumAddElement ==
    ASSUME NEW S, IsFiniteSet(S), NEW x, x \notin S, NEW f, \A y \in S \cup {x} : f[y] \in Int
    PROVE  SumFunctionOnSet(f, S \cup {x}) = f[x] + SumFunctionOnSet(f, S)
<1>1. IsFiniteSet(S \cup {x}) /\ (S \cup {x}) \ {x} = S
  BY FS_AddElement
<1> QED
  BY <1>1, SumTakesOut

LEMMA SumIsInt ==
    ASSUME NEW S, IsFiniteSet(S), NEW f, \A x \in S : f[x] \in Int
    PROVE  SumFunctionOnSet(f, S) \in Int
  BY SumTakesOut

\* Sums of functions that add up add up.
LEMMA SumPlus ==
    ASSUME NEW S, IsFiniteSet(S), NEW f, NEW g, NEW h,
           \A x \in S : f[x] \in Int /\ g[x] \in Int /\ h[x] = f[x] + g[x]
    PROVE  SumFunctionOnSet(h, S) = SumFunctionOnSet(f, S) + SumFunctionOnSet(g, S)
<1> DEFINE Sum(k, T) == SumFunctionOnSet(k, T)
           G == {T \in SUBSET S : Sum(h, T) = Sum(f, T) + Sum(g, T)}
<1>1. {} \in G
  BY SumEmpty
<1>2. ASSUME NEW T \in SUBSET S, T \in G, NEW x \in S \ T
      PROVE  T \cup {x} \in G
  <2>1. IsFiniteSet(T) /\ x \notin T /\ \A y \in T \cup {x} : y \in S
    BY FS_Subset
  <2>2. /\ Sum(f, T \cup {x}) = f[x] + Sum(f, T) /\ Sum(f, T) \in Int
        /\ Sum(g, T \cup {x}) = g[x] + Sum(g, T) /\ Sum(g, T) \in Int
    BY <2>1, SumAddElement, SumIsInt
  <2>3. Sum(h, T \cup {x}) = h[x] + Sum(h, T)
    <3>1. \A y \in T \cup {x} : h[y] \in Int
      BY <2>1
    <3> QED
      BY <2>1, <3>1, SumAddElement
  <2> HIDE DEF Sum
  <2>4. Sum(h, T \cup {x}) = Sum(f, T \cup {x}) + Sum(g, T \cup {x})
    BY <1>2, <2>2, <2>3
  <2> QED
    BY <1>2, <2>4
<1>3. S \in G
  <2> HIDE DEF G
  <2> QED
    BY <1>1, <1>2, SubsetInduction
<1> QED
  BY <1>3

\* Two sets that do not meet.
LEMMA SumUnion ==
    ASSUME NEW S, IsFiniteSet(S), NEW U, IsFiniteSet(U), S \cap U = {}, NEW f,
           \A x \in S \cup U : f[x] \in Int
    PROVE  SumFunctionOnSet(f, S \cup U) = SumFunctionOnSet(f, S) + SumFunctionOnSet(f, U)
<1> DEFINE Sum(T) == SumFunctionOnSet(f, T)
           G == {T \in SUBSET U : Sum(S \cup T) = Sum(S) + Sum(T)}
<1>0. Sum(S) \in Int
  BY SumIsInt
<1>1. {} \in G
  <2>1. S \cup {} = S /\ Sum({}) = 0
    BY SumEmpty
  <2> QED
    BY <1>0, <2>1
<1>2. ASSUME NEW T \in SUBSET U, T \in G, NEW x \in U \ T
      PROVE  T \cup {x} \in G
  <2>1. /\ IsFiniteSet(T) /\ x \notin T /\ \A y \in T \cup {x} : f[y] \in Int
        /\ IsFiniteSet(S \cup T) /\ x \notin S \cup T
        /\ \A y \in (S \cup T) \cup {x} : f[y] \in Int
        /\ S \cup (T \cup {x}) = (S \cup T) \cup {x}
    BY FS_Subset, FS_Union
  <2>2. /\ Sum(T \cup {x}) = f[x] + Sum(T) /\ Sum(T) \in Int /\ f[x] \in Int
        /\ Sum((S \cup T) \cup {x}) = f[x] + Sum(S \cup T)
    BY <2>1, SumAddElement, SumIsInt
  <2>3. Sum(S \cup (T \cup {x})) = f[x] + Sum(S \cup T)
    BY <2>1, <2>2
  <2>4. Sum(S \cup T) = Sum(S) + Sum(T)
    BY <1>2
  <2> HIDE DEF Sum
  <2>5. Sum(S \cup (T \cup {x})) = Sum(S) + Sum(T \cup {x})
    BY <1>0, <2>2, <2>3, <2>4
  <2> QED
    BY <1>2, <2>5
<1>3. U \in G
  <2> HIDE DEF G
  <2> QED
    BY <1>1, <1>2, SubsetInduction
<1> QED
  BY <1>3

\* A sum depends on the values it adds.
LEMMA SumSame ==
    ASSUME NEW S, IsFiniteSet(S), NEW f, NEW g, \A x \in S : f[x] \in Int /\ g[x] = f[x]
    PROVE  SumFunctionOnSet(g, S) = SumFunctionOnSet(f, S)
<1> DEFINE Sum(k, T) == SumFunctionOnSet(k, T)
           G == {T \in SUBSET S : Sum(g, T) = Sum(f, T)}
<1>1. {} \in G
  BY SumEmpty
<1>2. ASSUME NEW T \in SUBSET S, T \in G, NEW x \in S \ T
      PROVE  T \cup {x} \in G
  <2>1. IsFiniteSet(T) /\ x \notin T /\ \A y \in T \cup {x} : f[y] \in Int /\ g[y] \in Int
    BY FS_Subset
  <2>2. /\ Sum(f, T \cup {x}) = f[x] + Sum(f, T)
        /\ Sum(g, T \cup {x}) = g[x] + Sum(g, T)
    BY <2>1, SumAddElement
  <2> QED
    BY <1>2, <2>2
<1>3. S \in G
  <2> HIDE DEF G
  <2> QED
    BY <1>1, <1>2, SubsetInduction
<1> QED
  BY <1>3

LEMMA SumZero ==
    ASSUME NEW S, IsFiniteSet(S), NEW f, \A x \in S : f[x] = 0
    PROVE  SumFunctionOnSet(f, S) = 0
<1> DEFINE Sum(T) == SumFunctionOnSet(f, T)
           G == {T \in SUBSET S : Sum(T) = 0}
<1>1. {} \in G
  BY SumEmpty
<1>2. ASSUME NEW T \in SUBSET S, T \in G, NEW x \in S \ T
      PROVE  T \cup {x} \in G
  <2>1. IsFiniteSet(T) /\ x \notin T /\ f[x] = 0 /\ \A y \in T \cup {x} : f[y] \in Int
    BY FS_Subset
  <2>2. Sum(T \cup {x}) = f[x] + Sum(T)
    BY <2>1, SumAddElement
  <2> QED
    BY <1>2, <2>1, <2>2
<1>3. S \in G
  <2> HIDE DEF G
  <2> QED
    BY <1>1, <1>2, SubsetInduction
<1> QED
  BY <1>3

\* What is left out counts as nothing.
LEMMA SumOverMore ==
    ASSUME NEW S, IsFiniteSet(S), NEW T \in SUBSET S, NEW f, NEW g,
           \A x \in T : f[x] \in Int /\ g[x] = f[x], \A x \in S \ T : g[x] = 0
    PROVE  SumFunctionOnSet(g, S) = SumFunctionOnSet(f, T)
<1>1. IsFiniteSet(T) /\ IsFiniteSet(S \ T) /\ T \cap (S \ T) = {} /\ S = T \cup (S \ T)
      /\ \A x \in T \cup (S \ T) : g[x] \in Int
  BY FS_Subset
<1>2. SumFunctionOnSet(g, S) = SumFunctionOnSet(g, T) + SumFunctionOnSet(g, S \ T)
  BY <1>1, SumUnion
<1>3. SumFunctionOnSet(g, T) = SumFunctionOnSet(f, T) /\ SumFunctionOnSet(g, S \ T) = 0
  BY <1>1, SumSame, SumZero
<1>4. SumFunctionOnSet(f, T) \in Int
  BY <1>1, SumIsInt
<1> QED
  BY <1>2, <1>3, <1>4

\* A sum may be taken part by part: those of the elements a key sends to each
\* of its values add up to the sum of all.
LEMMA SumByKey ==
    ASSUME NEW S, IsFiniteSet(S), NEW A, IsFiniteSet(A), NEW key, \A x \in S : key[x] \in A,
           NEW part, \A a \in A : \A x : x \in part[a] <=> x \in S /\ key[x] = a,
           NEW f, \A x \in S : f[x] \in Int,
           NEW g, \A a \in A : g[a] = SumFunctionOnSet(f, part[a])
    PROVE  SumFunctionOnSet(g, A) = SumFunctionOnSet(f, S)
<1> DEFINE In(B) == {x \in S : key[x] \in B}
           Sum(T) == SumFunctionOnSet(f, T)
           G == {B \in SUBSET A : SumFunctionOnSet(g, B) = Sum(In(B))}
<1>1. {} \in G
  <2>1. In({}) = {}
    OBVIOUS
  <2> QED
    BY <2>1, SumEmpty
<1>2. ASSUME NEW B \in SUBSET A, B \in G, NEW a \in A \ B
      PROVE  B \cup {a} \in G
  <2> DEFINE Of == {x \in S : key[x] = a}
  <2>0. part[a] = Of
    OBVIOUS
  <2>1. /\ IsFiniteSet(In(B)) /\ IsFiniteSet(Of) /\ IsFiniteSet(B)
        /\ In(B) \cap Of = {} /\ In(B \cup {a}) = In(B) \cup Of
    BY FS_Subset
  <2>2. Sum(In(B \cup {a})) = Sum(In(B)) + Sum(Of)
    BY <2>1, SumUnion
  <2>3. SumFunctionOnSet(g, B \cup {a}) = g[a] + SumFunctionOnSet(g, B)
    <3>1. \A b \in A : g[b] \in Int
      <4> SUFFICES ASSUME NEW b \in A PROVE g[b] \in Int
        OBVIOUS
      <4>1. part[b] \in SUBSET S
        OBVIOUS
      <4>2. IsFiniteSet(part[b]) /\ \A x \in part[b] : f[x] \in Int
        BY <4>1, FS_Subset
      <4> QED
        BY <4>2, SumIsInt
    <3> QED
      BY <2>1, <3>1, SumAddElement
  <2>4. g[a] = Sum(Of) /\ SumFunctionOnSet(g, B) = Sum(In(B))
    BY <1>2, <2>0
  <2>5. Sum(In(B)) \in Int /\ Sum(Of) \in Int
    BY <2>1, SumIsInt
  <2> HIDE DEF Sum, Of, In
  <2>6. SumFunctionOnSet(g, B \cup {a}) = Sum(In(B \cup {a}))
    BY <2>2, <2>3, <2>4, <2>5
  <2> QED
    BY <1>2, <2>6
<1>3. A \in G
  <2> HIDE DEF G
  <2>1. \A B \in SUBSET A : B \in G => \A a \in A \ B : B \cup {a} \in G
    BY <1>2
  <2>2. \A B \in SUBSET A : B \in G
    BY <1>1, <2>1, SubsetInduction
  <2> QED
    BY <2>2
<1>4. In(A) = S
  OBVIOUS
<1> QED
  BY <1>3, <1>4

LEMMA OneMore ==
    ASSUME NEW c \in Int, NEW n \in Nat
    PROVE  c * (n + 1) = c + c * n
  OBVIOUS

\* A sum of equal terms, and one of equal terms but one.
LEMMA SumOfEqual ==
    ASSUME NEW S, IsFiniteSet(S), NEW c \in Int, NEW f, \A x \in S : f[x] = c
    PROVE  SumFunctionOnSet(f, S) = c * Cardinality(S)
<1> DEFINE Sum(T) == SumFunctionOnSet(f, T)
           G == {T \in SUBSET S : Sum(T) = c * Cardinality(T)}
<1>1. {} \in G
  BY SumEmpty, FS_EmptySet
<1>2. ASSUME NEW T \in SUBSET S, T \in G, NEW x \in S \ T
      PROVE  T \cup {x} \in G
  <2>1. IsFiniteSet(T) /\ x \notin T /\ f[x] = c /\ \A y \in T \cup {x} : f[y] \in Int
    BY FS_Subset
  <2>2. Sum(T \cup {x}) = c + Sum(T)
    BY <2>1, SumAddElement
  <2>3. Cardinality(T) \in Nat /\ Cardinality(T \cup {x}) = Cardinality(T) + 1
    BY <2>1, FS_AddElement, FS_CardinalityType
  <2>4. c * (Cardinality(T) + 1) = c + c * Cardinality(T)
    BY <2>3, OneMore
  <2> HIDE DEF Sum
  <2>5. Sum(T \cup {x}) = c * Cardinality(T \cup {x})
    BY <1>2, <2>2, <2>3, <2>4
  <2> QED
    BY <1>2, <2>5
<1> HIDE DEF G
<1>3. \A T \in SUBSET S : T \in G => \A x \in S \ T : T \cup {x} \in G
  BY <1>2
<1>4. \A T \in SUBSET S : T \in G
  BY <1>1, <1>3, SubsetInduction
<1> QED
  BY <1>4 DEF G

LEMMA SumOfEqualButOne ==
    ASSUME NEW S, IsFiniteSet(S), NEW x \in S, NEW c \in Int, NEW f, f[x] \in Int,
           \A y \in S \ {x} : f[y] = c
    PROVE  SumFunctionOnSet(f, S) = f[x] + c * (Cardinality(S) - 1)
<1>1. IsFiniteSet(S \ {x}) /\ Cardinality(S \ {x}) = Cardinality(S) - 1
  BY FS_RemoveElement
<1>2. SumFunctionOnSet(f, S) = f[x] + SumFunctionOnSet(f, S \ {x})
  BY SumTakesOut
<1>3. SumFunctionOnSet(f, S \ {x}) = c * Cardinality(S \ {x})
  BY <1>1, SumOfEqual
<1> QED
  BY <1>1, <1>2, <1>3
=============================================================================
