---------------------------- MODULE SumTheorems ----------------------------
(***************************************************************************)
(* Sums over finite sets, as the ledger and the adjustments of payments    *)
(* use them (MapThenSumSet and FoldFunction of the community modules).     *)
(* Both are folds that take out one chosen element after the other; the    *)
(* lemmas show that the fold is defined and that the order does not        *)
(* matter. The library's induction theorems take the property as an        *)
(* operator; here each fact is proved of a smallest set that refutes it.   *)
(***************************************************************************)
EXTENDS Integers, FiniteSetsExt, FiniteSetTheorems, TLAPS

SumOver(f, S) == MapThenSumSet(LAMBDA k : f[k], S)

\* The element a fold takes out of s, and the sums of f over the subsets of S
\* that it thereby computes.
First(s)      == CHOOSE x \in s : TRUE
Rest(s)       == s \ {First(s)}
Sums(f, g, S) == g = [s \in SUBSET S |-> IF s = {} THEN 0 ELSE f[First(s)] + g[Rest(s)]]

LEMMA FirstIn == ASSUME NEW s, s # {} PROVE First(s) \in s /\ Rest(s) \subseteq s /\ Rest(s) # s
<1>1. First(s) \in s
      BY DEF First
<1> QED BY <1>1 DEF Rest

\* Among subsets of a finite set there is always a smallest one.
LEMMA Smallest ==
    ASSUME NEW S, IsFiniteSet(S), NEW Bad, Bad \subseteq SUBSET S, Bad # {}
    PROVE  \E T \in Bad : \A U \in Bad : U \subseteq T => U = T
<1>1. IsWellFoundedOn(StrictSubsetOrdering(S), SUBSET S)
      BY FS_StrictSubsetOrderingWellFounded, FS_FiniteSubsetsOfFinite
<1>2. \E T \in Bad : \A U \in Bad : <<U, T>> \notin StrictSubsetOrdering(S)
      BY <1>1, WFMin
<1> QED BY <1>2 DEF StrictSubsetOrdering

LEMMA SumsAgree ==
    ASSUME NEW f, NEW S, IsFiniteSet(S), NEW A \in SUBSET S, NEW B \in SUBSET S,
           NEW g, NEW h, Sums(f, g, A), Sums(f, h, B)
    PROVE  \A s \in SUBSET (A \cap B) : g[s] = h[s]
<1> DEFINE Bad == {s \in SUBSET (A \cap B) : g[s] # h[s]}
<1> SUFFICES ASSUME Bad # {} PROVE FALSE
    OBVIOUS
<1>1. PICK s \in Bad : \A u \in Bad : u \subseteq s => u = s
  <2>1. Bad \subseteq SUBSET S
        OBVIOUS
  <2> HIDE DEF Bad
  <2> QED BY <2>1, Smallest
<1>2. s # {}
      BY <1>1 DEF Sums
<1>3. Rest(s) \notin Bad /\ Rest(s) \in SUBSET (A \cap B)
      BY <1>1, <1>2, FirstIn
<1>4. g[s] = f[First(s)] + g[Rest(s)] /\ h[s] = f[First(s)] + h[Rest(s)]
      BY <1>1, <1>2 DEF Sums
<1> QED BY <1>1, <1>3, <1>4

LEMMA SumsExist ==
    ASSUME NEW f, NEW S, IsFiniteSet(S)
    PROVE  \E g : Sums(f, g, S)
<1> DEFINE Bad == {T \in SUBSET S : ~\E g : Sums(f, g, T)}
<1> SUFFICES ASSUME Bad # {} PROVE FALSE
    OBVIOUS
<1>1. PICK T \in Bad : \A U \in Bad : U \subseteq T => U = T
  <2>1. Bad \subseteq SUBSET S
        OBVIOUS
  <2> HIDE DEF Bad
  <2> QED BY <2>1, Smallest
<1> DEFINE Sol(U) == CHOOSE g : Sums(f, g, U)
<1>2. \A U \in SUBSET T : U # T => Sums(f, Sol(U), U)
      BY <1>1
<1> HIDE DEF Sol
<1> DEFINE g == [s \in SUBSET T |-> IF s = {} THEN 0 ELSE f[First(s)] + Sol(Rest(s))[Rest(s)]]
<1>3. ASSUME NEW s \in SUBSET T, s # T
      PROVE  g[s] = Sol(s)[s]
  <2>1. CASE s = {}
        BY <1>2, <1>3, <2>1 DEF Sums
  <2>2. CASE s # {}
    <3>1. Rest(s) \in SUBSET s /\ Rest(s) # T
          BY <1>3, <2>2, FirstIn
    <3>2. Sums(f, Sol(s), s) /\ Sums(f, Sol(Rest(s)), Rest(s))
          BY <1>2, <1>3, <3>1
    <3>3. Sol(s)[s] = f[First(s)] + Sol(s)[Rest(s)]
          BY <2>2, <3>2 DEF Sums
    <3>4. Sol(s)[Rest(s)] = Sol(Rest(s))[Rest(s)]
      <4>1. s \in SUBSET S /\ Rest(s) \in SUBSET S /\ Rest(s) \in SUBSET (s \cap Rest(s))
            BY <1>3, <3>1
      <4> QED BY <3>2, <4>1, SumsAgree
    <3> QED BY <1>3, <2>2, <3>3, <3>4
  <2> QED BY <2>1, <2>2
<1>4. \A s \in SUBSET T : s # {} => Rest(s) \in SUBSET T /\ Rest(s) # T
      BY FirstIn
<1>5. \A s \in SUBSET T : g[s] = IF s = {} THEN 0 ELSE f[First(s)] + g[Rest(s)]
      BY <1>3, <1>4
<1>6. g = [s \in SUBSET T |-> IF s = {} THEN 0 ELSE f[First(s)] + g[Rest(s)]]
      BY <1>5
<1>7. Sums(f, g, T)
      BY <1>6 DEF Sums
<1> QED BY <1>1, <1>7

(***************************************************************************)
(* The fold of the community modules is this sum.                          *)
(***************************************************************************)
LEMMA SumIs ==
    ASSUME NEW f, NEW S, IsFiniteSet(S), NEW g, Sums(f, g, S), NEW T \in SUBSET S
    PROVE  SumOver(f, T) = g[T]
<1> DEFINE h == CHOOSE h : Sums(f, h, T)
<1>1. SumOver(f, T) = h[T]
      BY DEF SumOver, MapThenSumSet, MapThenFoldSet, Sums, First, Rest
<1>2. Sums(f, h, T)
      BY SumsExist, FS_Subset
<1> HIDE DEF h
<1>3. T \in SUBSET (S \cap T)
      OBVIOUS
<1> QED BY <1>1, <1>2, <1>3, SumsAgree
-----------------------------------------------------------------------------
LEMMA SumEmpty == ASSUME NEW f PROVE SumOver(f, {}) = 0
<1>1. PICK g : Sums(f, g, {})
      BY SumsExist, FS_EmptySet
<1>2. g[{}] = 0
      BY <1>1 DEF Sums
<1> QED BY <1>1, <1>2, SumIs, FS_EmptySet

\* What the fold does with a set that is not empty.
LEMMA SumFirst ==
    ASSUME NEW f, NEW S, IsFiniteSet(S), S # {}
    PROVE  SumOver(f, S) = f[First(S)] + SumOver(f, Rest(S))
<1>1. PICK g : Sums(f, g, S)
      BY SumsExist
<1>2. g[S] = f[First(S)] + g[Rest(S)]
      BY <1>1 DEF Sums
<1> QED BY <1>1, <1>2, SumIs, FirstIn

LEMMA SumType ==
    ASSUME NEW N, N \in {Nat, Int}, NEW f, NEW S, IsFiniteSet(S), \A x \in S : f[x] \in N
    PROVE  SumOver(f, S) \in N
<1> DEFINE Bad == {T \in SUBSET S : SumOver(f, T) \notin N}
<1> SUFFICES ASSUME Bad # {} PROVE FALSE
    OBVIOUS
<1>1. PICK T \in Bad : \A U \in Bad : U \subseteq T => U = T
  <2>1. Bad \subseteq SUBSET S
        OBVIOUS
  <2> HIDE DEF Bad
  <2> QED BY <2>1, Smallest
<1>2. IsFiniteSet(T) /\ T # {}
  <2>1. 0 \in N /\ SumOver(f, T) \notin N /\ T \in SUBSET S
        BY <1>1
  <2> QED BY <2>1, FS_Subset, SumEmpty
<1>3. SumOver(f, T) = f[First(T)] + SumOver(f, Rest(T))
      BY <1>2, SumFirst
<1>4. First(T) \in S /\ Rest(T) \in SUBSET S /\ Rest(T) \notin Bad
      BY <1>1, <1>2, FirstIn
<1>5. f[First(T)] \in N /\ SumOver(f, Rest(T)) \in N
      BY <1>4
<1>6. \A x, y \in N : x + y \in N
      OBVIOUS
<1> QED BY <1>1, <1>3, <1>5, <1>6

(***************************************************************************)
(* Any element can be taken out first.                                     *)
(***************************************************************************)
LEMMA SumRemove ==
    ASSUME NEW f, NEW S, IsFiniteSet(S), \A x \in S : f[x] \in Int, NEW a \in S
    PROVE  SumOver(f, S) = f[a] + SumOver(f, S \ {a})
<1> DEFINE Off(T, x) == SumOver(f, T) # f[x] + SumOver(f, T \ {x})
           Bad == {T \in SUBSET S : \E x \in T : Off(T, x)}
<1> SUFFICES ASSUME Bad # {} PROVE FALSE
    OBVIOUS
<1>1. PICK T \in Bad : \A U \in Bad : U \subseteq T => U = T
  <2>1. Bad \subseteq SUBSET S
        OBVIOUS
  <2> HIDE DEF Bad
  <2> QED BY <2>1, Smallest
<1>2. PICK x \in T : Off(T, x)
      BY <1>1
<1>3. \A U \in SUBSET T : U # T => \A y \in U : ~Off(U, y)
      BY <1>1
<1> HIDE DEF Bad
<1> DEFINE c == First(T)
<1>4. IsFiniteSet(T) /\ T \subseteq S
      BY <1>1, FS_Subset DEF Bad
<1>5. /\ c \in T
      /\ SumOver(f, T) = f[c] + SumOver(f, T \ {c})
      BY <1>2, <1>4, SumFirst, FirstIn DEF Rest
<1> HIDE DEF c
<1>6. c # x
      BY <1>2, <1>5
<1> DEFINE U == (T \ {c}) \ {x}
<1>7. SumOver(f, T \ {c}) = f[x] + SumOver(f, U)
      BY <1>2, <1>3, <1>5, <1>6
<1>8. SumOver(f, T \ {x}) = f[c] + SumOver(f, U)
  <2>1. ~Off(T \ {x}, c)
        BY <1>2, <1>3, <1>5, <1>6
  <2>2. (T \ {x}) \ {c} = U
        OBVIOUS
  <2> QED BY <2>1, <2>2
<1>9. SumOver(f, U) \in Int /\ f[c] \in Int /\ f[x] \in Int
  <2>1. IsFiniteSet(U) /\ \A y \in U : f[y] \in Int
        BY <1>4, FS_Subset
  <2> QED BY <1>2, <1>4, <1>5, <2>1, SumType
<1> HIDE DEF U
<1> QED BY <1>2, <1>5, <1>7, <1>8, <1>9

LEMMA SumAdd ==
    ASSUME NEW f, NEW S, IsFiniteSet(S), \A x \in S : f[x] \in Int,
           NEW a, a \notin S, f[a] \in Int
    PROVE  SumOver(f, S \cup {a}) = SumOver(f, S) + f[a]
<1>1. IsFiniteSet(S \cup {a})
      BY FS_AddElement
<1>2. SumOver(f, S \cup {a}) = f[a] + SumOver(f, (S \cup {a}) \ {a})
      BY <1>1, SumRemove
<1>3. (S \cup {a}) \ {a} = S
      OBVIOUS
<1> QED BY <1>2, <1>3, SumType

LEMMA SumMonotone ==
    ASSUME NEW f, NEW S, IsFiniteSet(S), \A x \in S : f[x] \in Nat, NEW T \in SUBSET S
    PROVE  SumOver(f, T) <= SumOver(f, S)
<1> DEFINE Bad == {U \in SUBSET S : T \subseteq U /\ ~(SumOver(f, T) <= SumOver(f, U))}
<1> SUFFICES ASSUME Bad # {} PROVE FALSE
    OBVIOUS
<1>1. PICK U \in Bad : \A V \in Bad : V \subseteq U => V = U
  <2>1. Bad \subseteq SUBSET S
        OBVIOUS
  <2> HIDE DEF Bad
  <2> QED BY <2>1, Smallest
<1>2. \A V \in SUBSET S : IsFiniteSet(V) /\ SumOver(f, V) \in Nat
      BY FS_Subset, SumType
<1>3. PICK x \in U : x \notin T
  <2>1. SumOver(f, T) <= SumOver(f, T)
        BY <1>2
  <2>2. U # T /\ T \subseteq U
        BY <1>1, <2>1
  <2> QED BY <2>2
<1>4. U \ {x} \in SUBSET S /\ U \ {x} \notin Bad /\ T \subseteq U \ {x}
      BY <1>1, <1>3
<1>5. SumOver(f, U) = f[x] + SumOver(f, U \ {x})
      BY <1>1, <1>2, <1>3, SumRemove
<1> QED BY <1>1, <1>2, <1>3, <1>4, <1>5

LEMMA SumDisjoint ==
    ASSUME NEW f, NEW S, IsFiniteSet(S), NEW T, IsFiniteSet(T), S \cap T = {},
           \A x \in S \cup T : f[x] \in Int
    PROVE  SumOver(f, S \cup T) = SumOver(f, S) + SumOver(f, T)
<1> DEFINE Bad == {U \in SUBSET T : SumOver(f, S \cup U) # SumOver(f, S) + SumOver(f, U)}
<1> SUFFICES ASSUME Bad # {} PROVE FALSE
    OBVIOUS
<1>1. PICK U \in Bad : \A V \in Bad : V \subseteq U => V = U
  <2>1. Bad \subseteq SUBSET T
        OBVIOUS
  <2> HIDE DEF Bad
  <2> QED BY <2>1, Smallest
<1>2. \A V \in SUBSET T : IsFiniteSet(S \cup V) /\ IsFiniteSet(V)
      BY FS_Subset, FS_Union
<1>3. SumOver(f, S) \in Int /\ \A V \in SUBSET T : SumOver(f, V) \in Int
      BY <1>2, SumType
<1>4. U # {}
  <2>1. SumOver(f, S \cup U) # SumOver(f, S) + SumOver(f, U)
        OBVIOUS
  <2>2. S \cup {} = S
        OBVIOUS
  <2>3. SumOver(f, S \cup {}) = SumOver(f, S) + SumOver(f, {})
        BY <1>3, <2>2, SumEmpty
  <2> HIDE DEF Bad
  <2> QED BY <2>1, <2>3
<1>5. PICK x \in U : TRUE
      BY <1>4
<1>6. (S \cup U) \ {x} = S \cup (U \ {x}) /\ x \in S \cup U /\ f[x] \in Int
      BY <1>1, <1>5
<1>7. SumOver(f, S \cup U) = f[x] + SumOver(f, S \cup (U \ {x}))
  <2>1. IsFiniteSet(S \cup U) /\ \A y \in S \cup U : f[y] \in Int
        BY <1>1, <1>2
  <2> QED BY <1>6, <2>1, SumRemove
<1>8. SumOver(f, U) = f[x] + SumOver(f, U \ {x})
  <2>1. IsFiniteSet(U) /\ \A y \in U : f[y] \in Int
        BY <1>1, <1>2
  <2> QED BY <1>5, <2>1, SumRemove
<1>9. SumOver(f, S \cup (U \ {x})) = SumOver(f, S) + SumOver(f, U \ {x})
  <2>1. U \ {x} \in SUBSET T /\ U \ {x} # U
        BY <1>1, <1>5
  <2> QED BY <1>1, <2>1
<1>10. SumOver(f, U \ {x}) \in Int
      BY <1>1, <1>3
<1> QED BY <1>1, <1>3, <1>6, <1>7, <1>8, <1>9, <1>10

LEMMA SumCongruent ==
    ASSUME NEW f, NEW g, NEW S, IsFiniteSet(S), \A x \in S : f[x] = g[x]
    PROVE  SumOver(f, S) = SumOver(g, S)
<1>1. PICK h : Sums(f, h, S)
      BY SumsExist
<1>2. Sums(g, h, S)
  <2>1. \A s \in SUBSET S : s # {} => f[First(s)] = g[First(s)]
        BY FirstIn
  <2> QED BY <1>1, <2>1 DEF Sums
<1> QED BY <1>1, <1>2, SumIs

LEMMA SumSingle == ASSUME NEW f, NEW a, f[a] \in Int PROVE SumOver(f, {a}) = f[a]
<1>1. IsFiniteSet({a})
      BY FS_Singleton
<1>2. SumOver(f, {a}) = f[a] + SumOver(f, {a} \ {a})
      BY <1>1, SumRemove
<1>3. {a} \ {a} = {}
      OBVIOUS
<1> QED BY <1>2, <1>3, SumEmpty

\* A sum can be taken along a bijection.
LEMMA SumReindex ==
    ASSUME NEW f, NEW g, NEW S, NEW T, IsFiniteSet(S), IsFiniteSet(T),
           NEW b \in [S -> T], \A x, y \in S : b[x] = b[y] => x = y,
           \A y \in T : \E x \in S : b[x] = y,
           \A x \in S : f[x] = g[b[x]], \A y \in T : g[y] \in Int
    PROVE  SumOver(f, S) = SumOver(g, T)
<1> DEFINE Image(U) == {b[x] : x \in U}
           Bad == {U \in SUBSET S : SumOver(f, U) # SumOver(g, Image(U))}
<1>1. Image(S) = T
      OBVIOUS
<1> SUFFICES ASSUME Bad # {} PROVE FALSE
    BY <1>1
<1>2. PICK U \in Bad : \A V \in Bad : V \subseteq U => V = U
  <2>1. Bad \subseteq SUBSET S
        OBVIOUS
  <2> HIDE DEF Bad
  <2> QED BY <2>1, Smallest
<1>3. IsFiniteSet(U) /\ IsFiniteSet(Image(U)) /\ U \subseteq S /\ Image(U) \subseteq T
  <2>1. U \subseteq S /\ Image(U) \subseteq T
        BY <1>2
  <2> QED BY <2>1, FS_Subset
<1>4. PICK x : x \in U
  <2>1. CASE U = {}
    <3>1. Image(U) = {}
          BY <2>1
    <3>2. SumOver(f, U) = SumOver(g, Image(U))
          BY <2>1, <3>1, SumEmpty
    <3> QED BY <1>2, <3>2
  <2> QED BY <2>1
<1>5. U \ {x} \in SUBSET S /\ U \ {x} \notin Bad
      BY <1>2, <1>3, <1>4
<1>6. SumOver(f, U \ {x}) = SumOver(g, Image(U \ {x}))
      BY <1>5
<1>7. Image(U) \ {b[x]} = Image(U \ {x}) /\ b[x] \in Image(U)
      BY <1>3, <1>4
<1>8. SumOver(f, U) = f[x] + SumOver(f, U \ {x})
  <2>1. \A y \in U : f[y] \in Int
        BY <1>3
  <2> HIDE DEF Bad, Image
  <2> QED BY <1>3, <1>4, <2>1, SumRemove
<1>9. SumOver(g, Image(U)) = g[b[x]] + SumOver(g, Image(U \ {x}))
  <2>1. \A y \in Image(U) : g[y] \in Int
        BY <1>3
  <2> HIDE DEF Bad, Image
  <2>2. SumOver(g, Image(U)) = g[b[x]] + SumOver(g, Image(U) \ {b[x]})
        BY <1>3, <1>7, <2>1, SumRemove
  <2> QED BY <1>7, <2>2
<1> QED BY <1>2, <1>3, <1>4, <1>6, <1>8, <1>9
=============================================================================
