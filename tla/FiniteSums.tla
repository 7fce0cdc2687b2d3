----------------------------- MODULE FiniteSums -----------------------------
(***************************************************************************)
(* Facts about finite sets and the sums over them, which the proofs about  *)
(* the pure functions rest on: induction over subsets, and from it what    *)
(* the sum of the community modules is, which its recursive definition     *)
(* does not say to a prover by itself; counting, and what has a maximum.   *)
(***************************************************************************)
EXTENDS Integers, FiniteSets, Folds, Functions, FiniteSetsExt, FiniteSetTheorems,
        NaturalsInduction, WellFoundedInduction, TLAPS

-----------------------------------------------------------------------------
(* Finite sets, by induction.                                              *)

\* A set of numbers that is not empty has a least one.
LEMMA LeastNat ==
    ASSUME NEW U \in SUBSET Nat, U # {}
    PROVE  \E x \in U : \A y \in U : x <= y
<1>. DEFINE R == OpToRel(<, Nat)
<1>. HIDE DEF R
<1>1. IsWellFoundedOn(R, Nat)
  BY NatLessThanWellFounded DEF R
<1>2. PICK x \in U : \A y \in U : ~(<<y, x>> \in R)
  BY <1>1, WFMin
<1>3. \A y \in U : ~(y < x)
  BY <1>2 DEF OpToRel, R
<1>. QED  BY <1>3

\* What holds of a subset whenever it holds of every smaller one holds of a finite set.
LEMMA SubsetInduction ==
    ASSUME NEW S, IsFiniteSet(S), NEW G,
           \A T \in SUBSET S : (\A U \in SUBSET T : U # T => U \in G) => T \in G
    PROVE  S \in G
<1>. SUFFICES ASSUME S \notin G PROVE FALSE
  OBVIOUS
<1>. DEFINE Bad == {Cardinality(T) : T \in {V \in SUBSET S : V \notin G}}
<1>1. \A T \in SUBSET S : IsFiniteSet(T) /\ Cardinality(T) \in Nat
  BY FS_Subset, FS_CardinalityType
<1>2. Bad \in SUBSET Nat /\ Bad # {}
  BY <1>1
<1>. HIDE DEF Bad
<1>3. PICK n \in Bad : \A m \in Bad : n <= m
  BY <1>2, LeastNat
<1>4. PICK T \in SUBSET S : T \notin G /\ Cardinality(T) = n
  BY <1>3 DEF Bad
<1>5. \A U \in SUBSET T : U # T => U \in G
  <2>. SUFFICES ASSUME NEW U \in SUBSET T, U # T, U \notin G PROVE FALSE
    OBVIOUS
  <2>1. Cardinality(U) \in Bad
    BY DEF Bad
  <2>2. Cardinality(U) <= Cardinality(T) /\ Cardinality(U) # Cardinality(T)
    BY <1>1, FS_Subset
  <2>. QED  BY <1>1, <1>3, <1>4, <2>1, <2>2
<1>. QED  BY <1>4, <1>5

\* What holds of no elements, and of one more whenever it holds of some, holds of all.
LEMMA FiniteInduction ==
    ASSUME NEW S, IsFiniteSet(S), NEW G, {} \in G,
           \A T \in SUBSET S : \A x \in S \ T : T \in G => T \cup {x} \in G
    PROVE  S \in G
<1>1. ASSUME NEW T \in SUBSET S, \A U \in SUBSET T : U # T => U \in G
      PROVE  T \in G
  <2>1. CASE T = {}
    BY <2>1
  <2>2. CASE T # {}
    <3>1. PICK x \in T : TRUE
      BY <2>2
    <3>2. T \ {x} \in SUBSET T /\ T \ {x} # T /\ x \in S \ (T \ {x}) /\ (T \ {x}) \cup {x} = T
      OBVIOUS
    <3>3. T \ {x} \in G /\ T \ {x} \in SUBSET S
      BY <1>1, <3>2
    <3>4. (T \ {x}) \cup {x} \in G
      BY <3>2, <3>3
    <3>. QED  BY <3>2, <3>4
  <2>. QED  BY <2>1, <2>2
<1>. QED  BY <1>1, SubsetInduction

\* The image of a finite set is finite, and no larger.
LEMMA ImageFinite ==
  ASSUME NEW S, IsFiniteSet(S), NEW g
  PROVE  /\ IsFiniteSet({g[x] : x \in S})
         /\ Cardinality({g[x] : x \in S}) <= Cardinality(S)
<1>. DEFINE h == [x \in S |-> g[x]]
            T == {g[x] : x \in S}
<1>1. h \in Surjection(S, T)
  BY DEF Surjection
<1>. QED  BY <1>1, FS_Surjection

-----------------------------------------------------------------------------
(* Sums of a function over a finite set.                                   *)

\* The function the sum over a set is the last value of, given the sums over less.
Rec(f, S) == [T \in SUBSET S |-> IF T = {} THEN 0
              ELSE LET x == CHOOSE x \in T : TRUE IN f[x] + SumFunctionOnSet(f, T \ {x})]

IsRec(h, f, S) == h = [T \in SUBSET S |-> IF T = {} THEN 0
              ELSE LET x == CHOOSE x \in T : TRUE IN f[x] + h[T \ {x}]]

\* What the sum is by its definition: the value of a recursive function that is chosen.
LEMMA SumChosen ==
  ASSUME NEW f, NEW S
  PROVE  SumFunctionOnSet(f, S) = (CHOOSE h : IsRec(h, f, S))[S]
BY Zenon DEF SumFunctionOnSet, FoldFunctionOnSet, MapThenFoldSet, IsRec

\* There is one such function over a finite set.
LEMMA SumUnique ==
  ASSUME NEW f, NEW S, IsFiniteSet(S)
  PROVE  /\ IsRec(Rec(f, S), f, S)
         /\ \A h : IsRec(h, f, S) => h = Rec(f, S)
<1>. DEFINE G == {T \in SUBSET S : /\ IsRec(Rec(f, T), f, T)
                                   /\ \A h : IsRec(h, f, T) => h = Rec(f, T)}
<1>1. ASSUME NEW T \in SUBSET S, \A U \in SUBSET T : U # T => U \in G
      PROVE  T \in G
  <2>1. \A U \in SUBSET T : U # T => SumFunctionOnSet(f, U) = Rec(f, U)[U]
    <3>. SUFFICES ASSUME NEW U \in SUBSET T, U # T PROVE SumFunctionOnSet(f, U) = Rec(f, U)[U]
      OBVIOUS
    <3>1. IsRec(Rec(f, U), f, U) /\ \A h : IsRec(h, f, U) => h = Rec(f, U)
      BY <1>1
    <3>2. (CHOOSE h : IsRec(h, f, U)) = Rec(f, U)
      BY <3>1
    <3>. QED  BY <3>2, SumChosen
  <2>2. \A U \in SUBSET T : U # T => SumFunctionOnSet(f, U) = Rec(f, T)[U]
    BY <2>1 DEF Rec
  <2>3. \A U \in SUBSET T : U # {} => LET x == CHOOSE x \in U : TRUE IN
           U \ {x} \in SUBSET T /\ U \ {x} # T
    <3>. SUFFICES ASSUME NEW U \in SUBSET T, U # {}
                  PROVE  LET x == CHOOSE x \in U : TRUE IN U \ {x} \in SUBSET T /\ U \ {x} # T
      OBVIOUS
    <3>1. (CHOOSE x \in U : TRUE) \in U
      OBVIOUS
    <3>. QED  BY <3>1
  <2>4. IsRec(Rec(f, T), f, T)
    <3>1. \A U \in SUBSET T : U # {} => LET x == CHOOSE x \in U : TRUE IN
             Rec(f, T)[U \ {x}] = SumFunctionOnSet(f, U \ {x})
      BY <2>2, <2>3
    <3>. DEFINE g == Rec(f, T)
    <3>2. \A U \in SUBSET T : U # {} => LET x == CHOOSE x \in U : TRUE IN
             g[U] = f[x] + g[U \ {x}]
      BY <3>1 DEF Rec
    <3>3. g = [U \in SUBSET T |-> g[U]] /\ g[{}] = 0
      BY DEF Rec
    <3>4. \A U \in SUBSET T : g[U] = IF U = {} THEN 0
              ELSE LET x == CHOOSE x \in U : TRUE IN f[x] + g[U \ {x}]
      BY <3>2, <3>3
    <3>. HIDE DEF g
    <3>5. IsRec(g, f, T)
      BY <3>3, <3>4, Zenon DEF IsRec
    <3>. QED  BY <3>5 DEF g
  <2>5. ASSUME NEW h, IsRec(h, f, T) PROVE h = Rec(f, T)
    <3>1. ASSUME NEW U \in SUBSET T, U # T PROVE h[U] = SumFunctionOnSet(f, U)
      <4>. DEFINE k == [V \in SUBSET U |-> h[V]]
      <4>1. \A V \in SUBSET U : V # {} => V \ {CHOOSE x \in V : TRUE} \in SUBSET U
        OBVIOUS
      <4>2. \A V \in SUBSET U : h[V] = IF V = {} THEN 0
              ELSE LET x == CHOOSE x \in V : TRUE IN f[x] + h[V \ {x}]
        BY <2>5 DEF IsRec
      <4>3. IsRec(k, f, U)
        BY <4>1, <4>2 DEF IsRec
      <4>4. k = Rec(f, U)
        BY <1>1, <3>1, <4>3
      <4>. QED  BY <2>1, <3>1, <4>4
    <3>2. \A U \in SUBSET T : U # {} => LET x == CHOOSE x \in U : TRUE IN
             h[U \ {x}] = SumFunctionOnSet(f, U \ {x})
      BY <2>3, <3>1
    <3>. QED  BY <2>5, <3>2 DEF Rec, IsRec
  <2>. QED  BY <2>4, <2>5
<1>2. S \in G
  <2>. HIDE DEF G
  <2>. QED  BY <1>1, SubsetInduction
<1>. QED  BY <1>2

\* The sum over a finite set takes one element away.
LEMMA SumIs ==
  ASSUME NEW f, NEW S, IsFiniteSet(S)
  PROVE  SumFunctionOnSet(f, S) =
           IF S = {} THEN 0
           ELSE LET x == CHOOSE x \in S : TRUE IN f[x] + SumFunctionOnSet(f, S \ {x})
<1>1. (CHOOSE h : IsRec(h, f, S)) = Rec(f, S)
  BY SumUnique
<1>. QED  BY <1>1, SumChosen DEF Rec

\* The sum over nothing.
LEMMA SumEmpty ==
  ASSUME NEW f PROVE SumFunctionOnSet(f, {}) = 0
BY SumIs, FS_EmptySet

\* A sum of whole numbers is one.
LEMMA SumType ==
  ASSUME NEW S, IsFiniteSet(S), NEW f, \A x \in S : f[x] \in Int
  PROVE  SumFunctionOnSet(f, S) \in Int
<1>. DEFINE G == {T \in SUBSET S : SumFunctionOnSet(f, T) \in Int}
<1>1. ASSUME NEW T \in SUBSET S, \A U \in SUBSET T : U # T => U \in G
      PROVE  T \in G
  <2>1. IsFiniteSet(T)
    BY FS_Subset
  <2>2. CASE T = {}
    BY <2>2, SumEmpty
  <2>3. CASE T # {}
    <3>. DEFINE x == CHOOSE x \in T : TRUE
    <3>1. x \in T /\ T \ {x} \in SUBSET T /\ T \ {x} # T
      BY <2>3
    <3>2. SumFunctionOnSet(f, T) = f[x] + SumFunctionOnSet(f, T \ {x})
      BY <2>1, <2>3, SumIs
    <3>. HIDE DEF x
    <3>3. SumFunctionOnSet(f, T \ {x}) \in Int
      BY <1>1, <3>1
    <3>. QED  BY <3>1, <3>2, <3>3
  <2>. QED  BY <2>2, <2>3
<1>2. S \in G
  <2>. HIDE DEF G
  <2>. QED  BY <1>1, SubsetInduction
<1>. QED  BY <1>2

\* The sum takes any element away: it does not depend on the one that was chosen.
LEMMA SumPick ==
  ASSUME NEW S, IsFiniteSet(S), NEW f, \A x \in S : f[x] \in Int, NEW a \in S
  PROVE  SumFunctionOnSet(f, S) = f[a] + SumFunctionOnSet(f, S \ {a})
<1>. DEFINE G == {T \in SUBSET S : \A x \in T :
                     SumFunctionOnSet(f, T) = f[x] + SumFunctionOnSet(f, T \ {x})}
<1>1. ASSUME NEW T \in SUBSET S, \A U \in SUBSET T : U # T => U \in G
      PROVE  T \in G
  <2>. SUFFICES ASSUME NEW x \in T
                PROVE  SumFunctionOnSet(f, T) = f[x] + SumFunctionOnSet(f, T \ {x})
    OBVIOUS
  <2>. DEFINE c == CHOOSE y \in T : TRUE
  <2>1. c \in T
    OBVIOUS
  <2>2. SumFunctionOnSet(f, T) = f[c] + SumFunctionOnSet(f, T \ {c})
    BY FS_Subset, SumIs
  <2>. HIDE DEF c
  <2>3. CASE c = x
    BY <2>2, <2>3
  <2>4. CASE c # x
    <3>1. /\ T \ {c} \in SUBSET T /\ T \ {c} # T /\ x \in T \ {c}
          /\ T \ {x} \in SUBSET T /\ T \ {x} # T /\ c \in T \ {x}
      BY <2>1, <2>4
    <3>2. SumFunctionOnSet(f, T \ {c}) = f[x] + SumFunctionOnSet(f, (T \ {c}) \ {x})
      BY <1>1, <3>1
    <3>3. SumFunctionOnSet(f, T \ {x}) = f[c] + SumFunctionOnSet(f, (T \ {x}) \ {c})
      BY <1>1, <3>1
    <3>4. (T \ {c}) \ {x} = (T \ {x}) \ {c}
      OBVIOUS
    <3>5. SumFunctionOnSet(f, (T \ {c}) \ {x}) \in Int
      <4>1. (T \ {c}) \ {x} \in SUBSET S
        OBVIOUS
      <4>. QED  BY <4>1, SumType, FS_Subset
    <3>6. f[c] \in Int /\ f[x] \in Int
      BY <2>1
    <3>. HIDE DEF G
    <3>. DEFINE rest == SumFunctionOnSet(f, (T \ {c}) \ {x})
    <3>7. /\ SumFunctionOnSet(f, T) = f[c] + (f[x] + rest)
          /\ SumFunctionOnSet(f, T \ {x}) = f[c] + rest
      BY <2>2, <3>2, <3>3, <3>4
    <3>8. rest \in Int
      BY <3>5
    <3>. HIDE DEF rest
    <3>. QED  BY <3>6, <3>7, <3>8
  <2>. QED  BY <2>3, <2>4
<1>2. S \in G
  <2>. HIDE DEF G
  <2>. QED  BY <1>1, SubsetInduction
<1>. QED  BY <1>2

\* The sum over one more.
LEMMA SumAdd ==
  ASSUME NEW S, IsFiniteSet(S), NEW f, NEW a, a \notin S, f[a] \in Int,
         \A x \in S : f[x] \in Int
  PROVE  /\ SumFunctionOnSet(f, S \cup {a}) = f[a] + SumFunctionOnSet(f, S)
         /\ SumFunctionOnSet(f, S) \in Int
<1>1. IsFiniteSet(S \cup {a}) /\ a \in S \cup {a} /\ (S \cup {a}) \ {a} = S
  BY FS_AddElement
<1>2. \A x \in S \cup {a} : f[x] \in Int
  OBVIOUS
<1>. QED  BY <1>1, <1>2, SumPick, SumType

\* The sum over one.
LEMMA SumOne ==
  ASSUME NEW f, NEW a, f[a] \in Int
  PROVE  SumFunctionOnSet(f, {a}) = f[a]
<1>1. IsFiniteSet({}) /\ a \notin {} /\ {a} = {} \cup {a}
  BY FS_EmptySet
<1>2. SumFunctionOnSet(f, {} \cup {a}) = f[a] + SumFunctionOnSet(f, {})
  BY <1>1, SumAdd
<1>. QED  BY <1>1, <1>2, SumEmpty

\* Functions that agree have one sum.
LEMMA SumSame ==
  ASSUME NEW S, IsFiniteSet(S), NEW f, NEW g, \A x \in S : f[x] = g[x] /\ f[x] \in Int
  PROVE  SumFunctionOnSet(f, S) = SumFunctionOnSet(g, S)
<1>. DEFINE G == {T \in SUBSET S : SumFunctionOnSet(f, T) = SumFunctionOnSet(g, T)}
<1>1. {} \in G
  BY SumEmpty
<1>2. ASSUME NEW T \in SUBSET S, NEW x \in S \ T, T \in G PROVE T \cup {x} \in G
  <2>1. IsFiniteSet(T) /\ \A y \in S : g[y] \in Int
    BY FS_Subset
  <2>2. SumFunctionOnSet(f, T \cup {x}) = f[x] + SumFunctionOnSet(f, T)
    BY <2>1, SumAdd
  <2>3. SumFunctionOnSet(g, T \cup {x}) = g[x] + SumFunctionOnSet(g, T)
    BY <2>1, SumAdd
  <2>. QED  BY <1>2, <2>2, <2>3
<1>3. S \in G
  <2>. HIDE DEF G
  <2>. QED  BY <1>1, <1>2, FiniteInduction
<1>. QED  BY <1>3

\* A function that is nowhere more has no larger sum.
LEMMA SumAtMost ==
  ASSUME NEW S, IsFiniteSet(S), NEW f, NEW g,
         \A x \in S : f[x] \in Int /\ g[x] \in Int /\ f[x] <= g[x]
  PROVE  SumFunctionOnSet(f, S) <= SumFunctionOnSet(g, S)
<1>. DEFINE G == {T \in SUBSET S : SumFunctionOnSet(f, T) <= SumFunctionOnSet(g, T)}
<1>1. {} \in G
  BY SumEmpty
<1>2. ASSUME NEW T \in SUBSET S, NEW x \in S \ T, T \in G PROVE T \cup {x} \in G
  <2>1. IsFiniteSet(T)
    BY FS_Subset
  <2>2. /\ SumFunctionOnSet(f, T \cup {x}) = f[x] + SumFunctionOnSet(f, T)
        /\ SumFunctionOnSet(f, T) \in Int
    BY <2>1, SumAdd
  <2>3. /\ SumFunctionOnSet(g, T \cup {x}) = g[x] + SumFunctionOnSet(g, T)
        /\ SumFunctionOnSet(g, T) \in Int
    BY <2>1, SumAdd
  <2>. QED  BY <1>2, <2>2, <2>3
<1>3. S \in G
  <2>. HIDE DEF G
  <2>. QED  BY <1>1, <1>2, FiniteInduction
<1>. QED  BY <1>3

\* The sum of a sum.
LEMMA SumPlus ==
  ASSUME NEW S, IsFiniteSet(S), NEW f, NEW g, NEW h,
         \A x \in S : f[x] \in Int /\ g[x] \in Int /\ h[x] = f[x] + g[x]
  PROVE  SumFunctionOnSet(h, S) = SumFunctionOnSet(f, S) + SumFunctionOnSet(g, S)
<1>. DEFINE G == {T \in SUBSET S :
                    SumFunctionOnSet(h, T) = SumFunctionOnSet(f, T) + SumFunctionOnSet(g, T)}
<1>1. {} \in G
  BY SumEmpty
<1>2. ASSUME NEW T \in SUBSET S, NEW x \in S \ T, T \in G PROVE T \cup {x} \in G
  <2>1. IsFiniteSet(T) /\ \A y \in S : h[y] \in Int
    BY FS_Subset
  <2>2. /\ SumFunctionOnSet(f, T \cup {x}) = f[x] + SumFunctionOnSet(f, T)
        /\ SumFunctionOnSet(f, T) \in Int
    BY <2>1, SumAdd
  <2>3. /\ SumFunctionOnSet(g, T \cup {x}) = g[x] + SumFunctionOnSet(g, T)
        /\ SumFunctionOnSet(g, T) \in Int
    BY <2>1, SumAdd
  <2>4. /\ SumFunctionOnSet(h, T \cup {x}) = h[x] + SumFunctionOnSet(h, T)
        /\ SumFunctionOnSet(h, T) \in Int
    BY <2>1, SumAdd
  <2>. QED  BY <1>2, <2>2, <2>3, <2>4
<1>3. S \in G
  <2>. HIDE DEF G
  <2>. QED  BY <1>1, <1>2, FiniteInduction
<1>. QED  BY <1>3

\* The sum of a multiple.
LEMMA SumTimes ==
  ASSUME NEW S, IsFiniteSet(S), NEW k \in Int, NEW f, NEW g,
         \A x \in S : f[x] \in Int /\ g[x] = k * f[x]
  PROVE  SumFunctionOnSet(g, S) = k * SumFunctionOnSet(f, S)
<1>. DEFINE G == {T \in SUBSET S : SumFunctionOnSet(g, T) = k * SumFunctionOnSet(f, T)}
<1>1. {} \in G
  BY SumEmpty
<1>2. ASSUME NEW T \in SUBSET S, NEW x \in S \ T, T \in G PROVE T \cup {x} \in G
  <2>1. IsFiniteSet(T) /\ \A y \in S : g[y] \in Int
    BY FS_Subset
  <2>2. /\ SumFunctionOnSet(f, T \cup {x}) = f[x] + SumFunctionOnSet(f, T)
        /\ SumFunctionOnSet(f, T) \in Int
    BY <2>1, SumAdd
  <2>3. /\ SumFunctionOnSet(g, T \cup {x}) = g[x] + SumFunctionOnSet(g, T)
        /\ SumFunctionOnSet(g, T) \in Int
    BY <2>1, SumAdd
  <2>. QED  BY <1>2, <2>2, <2>3
<1>3. S \in G
  <2>. HIDE DEF G
  <2>. QED  BY <1>1, <1>2, FiniteInduction
<1>. QED  BY <1>3

\* The sum over two sets that have nothing in common.
LEMMA SumUnion ==
  ASSUME NEW S, IsFiniteSet(S), NEW V, IsFiniteSet(V), S \cap V = {},
         NEW f, \A x \in S \cup V : f[x] \in Int
  PROVE  SumFunctionOnSet(f, S \cup V) = SumFunctionOnSet(f, S) + SumFunctionOnSet(f, V)
<1>. DEFINE G == {T \in SUBSET S :
                    SumFunctionOnSet(f, T \cup V) = SumFunctionOnSet(f, T) + SumFunctionOnSet(f, V)}
<1>0. SumFunctionOnSet(f, V) \in Int
  BY SumType
<1>1. {} \in G
  BY <1>0, SumEmpty
<1>2. ASSUME NEW T \in SUBSET S, NEW x \in S \ T, T \in G PROVE T \cup {x} \in G
  <2>1. IsFiniteSet(T) /\ IsFiniteSet(T \cup V)
    BY FS_Subset, FS_Union
  <2>2. /\ SumFunctionOnSet(f, T \cup {x}) = f[x] + SumFunctionOnSet(f, T)
        /\ SumFunctionOnSet(f, T) \in Int
    BY <2>1, SumAdd
  <2>3. x \notin T \cup V
    OBVIOUS
  <2>4. SumFunctionOnSet(f, (T \cup V) \cup {x}) = f[x] + SumFunctionOnSet(f, T \cup V)
    <3>1. \A y \in T \cup V : f[y] \in Int
      OBVIOUS
    <3>. QED  BY <2>1, <2>3, <3>1, SumAdd
  <2>5. (T \cup V) \cup {x} = (T \cup {x}) \cup V
    OBVIOUS
  <2>6. f[x] \in Int /\ SumFunctionOnSet(f, T \cup V) = SumFunctionOnSet(f, T) + SumFunctionOnSet(f, V)
    BY <1>2
  <2>. HIDE DEF G
  <2>7. SumFunctionOnSet(f, (T \cup {x}) \cup V) = SumFunctionOnSet(f, T \cup {x}) + SumFunctionOnSet(f, V)
    <3>. HIDE DEF G
    <3>. DEFINE t == SumFunctionOnSet(f, T)
                v == SumFunctionOnSet(f, V)
    <3>1. /\ SumFunctionOnSet(f, (T \cup {x}) \cup V) = f[x] + (t + v)
          /\ SumFunctionOnSet(f, T \cup {x}) + v = (f[x] + t) + v
          /\ t \in Int /\ v \in Int /\ f[x] \in Int
      BY <1>0, <2>2, <2>4, <2>5, <2>6
    <3>. HIDE DEF t, v
    <3>2. f[x] + (t + v) = (f[x] + t) + v
      BY <3>1
    <3>. QED  BY <3>1, <3>2 DEF v
  <2>. QED  BY <2>7 DEF G
<1>3. S \in G
  <2>. HIDE DEF G
  <2>. QED  BY <1>1, <1>2, FiniteInduction
<1>. QED  BY <1>3

\* A sum of counts is a count, no less than any of them or than the sum of a part,
\* and zero when all of them are.
LEMMA SumNat ==
  ASSUME NEW S, IsFiniteSet(S), NEW f, \A x \in S : f[x] \in Nat
  PROVE  /\ SumFunctionOnSet(f, S) \in Nat
         /\ \A x \in S : f[x] <= SumFunctionOnSet(f, S)
         /\ \A T \in SUBSET S : SumFunctionOnSet(f, T) <= SumFunctionOnSet(f, S)
         /\ SumFunctionOnSet(f, S) = 0 <=> \A x \in S : f[x] = 0
<1>. DEFINE G == {T \in SUBSET S : SumFunctionOnSet(f, T) \in Nat}
<1>0. \A T \in SUBSET S : \A x \in T : f[x] \in Int
  OBVIOUS
<1>1. {} \in G
  BY SumEmpty
<1>2. ASSUME NEW T \in SUBSET S, NEW x \in S \ T, T \in G PROVE T \cup {x} \in G
  <2>1. IsFiniteSet(T)
    BY FS_Subset
  <2>2. SumFunctionOnSet(f, T \cup {x}) = f[x] + SumFunctionOnSet(f, T)
    BY <1>0, <2>1, SumAdd
  <2>. QED  BY <1>2, <2>2
<1>. HIDE DEF G
<1>3. ASSUME NEW T \in SUBSET S PROVE T \in G
  BY <1>1, <1>2, FiniteInduction, FS_Subset
<1>4. \A T \in SUBSET S : SumFunctionOnSet(f, T) \in Nat
  BY <1>3 DEF G
<1>5. ASSUME NEW T \in SUBSET S PROVE SumFunctionOnSet(f, T) <= SumFunctionOnSet(f, S)
  <2>1. /\ IsFiniteSet(T) /\ IsFiniteSet(S \ T) /\ T \cap (S \ T) = {}
        /\ T \cup (S \ T) = S /\ S \ T \in SUBSET S
    BY FS_Subset
  <2>2. \A x \in T \cup (S \ T) : f[x] \in Int
    OBVIOUS
  <2>3. SumFunctionOnSet(f, S) = SumFunctionOnSet(f, T) + SumFunctionOnSet(f, S \ T)
    BY <2>1, <2>2, SumUnion
  <2>. QED  BY <1>4, <2>1, <2>3
<1>6. ASSUME NEW x \in S PROVE f[x] <= SumFunctionOnSet(f, S)
  <2>1. S \ {x} \in SUBSET S
    OBVIOUS
  <2>2. SumFunctionOnSet(f, S) = f[x] + SumFunctionOnSet(f, S \ {x})
    BY SumPick
  <2>. QED  BY <1>4, <2>1, <2>2
<1>7. ASSUME \A x \in S : f[x] = 0 PROVE SumFunctionOnSet(f, S) = 0
  <2>. DEFINE H == {T \in SUBSET S : SumFunctionOnSet(f, T) = 0}
  <2>1. {} \in H
    BY SumEmpty
  <2>2. ASSUME NEW T \in SUBSET S, NEW x \in S \ T, T \in H PROVE T \cup {x} \in H
    <3>1. IsFiniteSet(T)
      BY FS_Subset
    <3>2. SumFunctionOnSet(f, T \cup {x}) = f[x] + SumFunctionOnSet(f, T)
      BY <1>0, <3>1, SumAdd
    <3>. QED  BY <1>7, <2>2, <3>2
  <2>. HIDE DEF H
  <2>3. S \in H
    BY <2>1, <2>2, FiniteInduction
  <2>. QED  BY <2>3 DEF H
<1>. QED  BY <1>4, <1>5, <1>6, <1>7

\* What is zero may be left out.
LEMMA SumRest ==
  ASSUME NEW S, IsFiniteSet(S), NEW f, \A x \in S : f[x] \in Int,
         NEW T \in SUBSET S, \A x \in S \ T : f[x] = 0
  PROVE  SumFunctionOnSet(f, S) = SumFunctionOnSet(f, T)
<1>1. IsFiniteSet(T) /\ IsFiniteSet(S \ T) /\ T \cap (S \ T) = {} /\ T \cup (S \ T) = S
  BY FS_Subset
<1>2. SumFunctionOnSet(f, T \cup (S \ T)) = SumFunctionOnSet(f, T) + SumFunctionOnSet(f, S \ T)
  BY <1>1, SumUnion
<1>3. SumFunctionOnSet(f, S \ T) = 0
  <2>1. \A x \in S \ T : f[x] \in Nat
    OBVIOUS
  <2>. QED  BY <1>1, <2>1, SumNat
<1>4. SumFunctionOnSet(f, T) \in Int
  BY <1>1, SumType
<1>5. SumFunctionOnSet(f, S) = SumFunctionOnSet(f, T) + SumFunctionOnSet(f, S \ T)
  BY <1>1, <1>2
<1>. QED  BY <1>3, <1>4, <1>5

\* A sum may be taken group by group.
LEMMA SumByGroup ==
  ASSUME NEW S, IsFiniteSet(S), NEW f, \A x \in S : f[x] \in Int, NEW g
  PROVE  SumFunctionOnSet(f, S) =
           SumFunctionOnSet([k \in {g[x] : x \in S} |-> SumFunctionOnSet(f, {x \in S : g[x] = k})],
                            {g[x] : x \in S})
<1>. DEFINE K == {g[x] : x \in S}
            of(T, k) == {x \in T : g[x] = k}
            part(T) == [k \in K |-> SumFunctionOnSet(f, of(T, k))]
            G == {T \in SUBSET S : SumFunctionOnSet(f, T) = SumFunctionOnSet(part(T), K)}
<1>0. /\ IsFiniteSet(K)
      /\ \A T \in SUBSET S : \A k : IsFiniteSet(of(T, k)) /\ SumFunctionOnSet(f, of(T, k)) \in Int
  <2>1. \A T \in SUBSET S : \A k : of(T, k) \in SUBSET S
    OBVIOUS
  <2>2. \A V \in SUBSET S : IsFiniteSet(V) /\ SumFunctionOnSet(f, V) \in Int
    BY FS_Subset, SumType
  <2>3. IsFiniteSet(K)
    BY ImageFinite
  <2>. HIDE DEF of
  <2>. QED  BY <2>1, <2>2, <2>3
<1>1. {} \in G
  <2>1. \A k \in K : part({})[k] \in Nat /\ part({})[k] = 0
    <3>1. \A k : of({}, k) = {}
      OBVIOUS
    <3>. QED  BY <3>1, SumEmpty
  <2>. HIDE DEF part
  <2>2. SumFunctionOnSet(part({}), K) = 0
    BY <1>0, <2>1, SumNat
  <2>. QED  BY <2>2, SumEmpty
<1>2. ASSUME NEW T \in SUBSET S, NEW x \in S \ T, T \in G PROVE T \cup {x} \in G
  <2>. DEFINE U == T \cup {x}
              k == g[x]
  <2>1. IsFiniteSet(T) /\ U \in SUBSET S /\ k \in K
    BY FS_Subset
  <2>2. SumFunctionOnSet(f, U) = f[x] + SumFunctionOnSet(f, T)
    BY <2>1, SumAdd
  <2>3. SumFunctionOnSet(f, of(U, k)) = f[x] + SumFunctionOnSet(f, of(T, k))
    <3>1. of(U, k) = of(T, k) \cup {x} /\ x \notin of(T, k)
      OBVIOUS
    <3>2. IsFiniteSet(of(T, k)) /\ \A y \in of(T, k) : f[y] \in Int
      BY <1>0
    <3>. QED  BY <3>1, <3>2, SumAdd
  <2>4. \A l \in K \ {k} : part(U)[l] = part(T)[l] /\ part(U)[l] \in Int
    <3>1. \A l \in K \ {k} : of(U, l) = of(T, l)
      OBVIOUS
    <3>. QED  BY <1>0, <3>1
  <2>5. \A l \in K : part(U)[l] \in Int /\ part(T)[l] \in Int
    BY <1>0, <2>1
  <2>6. part(U)[k] = f[x] + part(T)[k]
    BY <2>1, <2>3
  <2>. HIDE DEF part
  <2>7. SumFunctionOnSet(part(U), K) = part(U)[k] + SumFunctionOnSet(part(U), K \ {k})
    BY <1>0, <2>1, <2>5, SumPick
  <2>8. SumFunctionOnSet(part(T), K) = part(T)[k] + SumFunctionOnSet(part(T), K \ {k})
    BY <1>0, <2>1, <2>5, SumPick
  <2>9. SumFunctionOnSet(part(U), K \ {k}) = SumFunctionOnSet(part(T), K \ {k})
    BY <1>0, <2>4, SumSame, FS_Subset
  <2>10. SumFunctionOnSet(part(T), K \ {k}) \in Int
    <3>1. IsFiniteSet(K \ {k}) /\ \A l \in K \ {k} : part(T)[l] \in Int
      BY <1>0, <2>5, FS_RemoveElement
    <3>. QED  BY <3>1, SumType
  <2>. HIDE DEF K, k
  <2>11. SumFunctionOnSet(part(U), K) = f[x] + SumFunctionOnSet(part(T), K)
    BY <2>1, <2>5, <2>6, <2>7, <2>8, <2>9, <2>10
  <2>. QED  BY <1>2, <2>1, <2>2, <2>11
<1>3. S \in G
  <2>. HIDE DEF G
  <2>. QED  BY <1>1, <1>2, FiniteInduction
<1>4. part(S) = [k \in K |-> SumFunctionOnSet(f, {x \in S : g[x] = k})]
  OBVIOUS
<1>. QED  BY <1>3, <1>4

\* The sum over an image that gives every element its own.
LEMMA SumImage ==
  ASSUME NEW S, IsFiniteSet(S), NEW h, \A i, j \in S : h[i] = h[j] => i = j,
         NEW f, NEW k, \A i \in S : k[i] = f[h[i]] /\ k[i] \in Int
  PROVE  SumFunctionOnSet(f, {h[i] : i \in S}) = SumFunctionOnSet(k, S)
<1>. DEFINE G == {T \in SUBSET S : SumFunctionOnSet(f, {h[i] : i \in T}) = SumFunctionOnSet(k, T)}
<1>1. {} \in G
  BY SumEmpty
<1>2. ASSUME NEW T \in SUBSET S, NEW x \in S \ T, T \in G PROVE T \cup {x} \in G
  <2>. DEFINE V == {h[i] : i \in T}
  <2>1. IsFiniteSet(T)
    BY FS_Subset
  <2>2. IsFiniteSet(V) /\ h[x] \notin V /\ {h[i] : i \in T \cup {x}} = V \cup {h[x]}
    BY <2>1, ImageFinite
  <2>3. f[h[x]] \in Int /\ (\A v \in V : f[v] \in Int) /\ k[x] \in Int /\ \A i \in T : k[i] \in Int
    OBVIOUS
  <2>. HIDE DEF V
  <2>4. SumFunctionOnSet(f, V \cup {h[x]}) = f[h[x]] + SumFunctionOnSet(f, V)
    BY <2>2, <2>3, SumAdd
  <2>5. SumFunctionOnSet(k, T \cup {x}) = k[x] + SumFunctionOnSet(k, T)
    BY <2>1, <2>3, SumAdd
  <2>6. SumFunctionOnSet(f, V) = SumFunctionOnSet(k, T)
    BY <1>2 DEF V
  <2>. QED  BY <2>2, <2>4, <2>5, <2>6
<1>. HIDE DEF G
<1>3. S \in G
  BY <1>1, <1>2, FiniteInduction
<1>. QED  BY <1>3 DEF G

\* The sum over what four sets of rows give, when no row is in two of them.
LEMMA FourParts ==
  ASSUME NEW A, NEW B, NEW C, NEW D,
         IsFiniteSet(A), IsFiniteSet(B), IsFiniteSet(C), IsFiniteSet(D),
         A \cap B = {}, A \cap C = {}, A \cap D = {}, B \cap C = {}, B \cap D = {}, C \cap D = {},
         NEW f, \A x \in A \cup B \cup C \cup D : f[x] \in Int
  PROVE  SumFunctionOnSet(f, A \cup B \cup C \cup D)
           = SumFunctionOnSet(f, A) + SumFunctionOnSet(f, B) + SumFunctionOnSet(f, C)
               + SumFunctionOnSet(f, D)
<1>1. SumFunctionOnSet(f, A \cup B) = SumFunctionOnSet(f, A) + SumFunctionOnSet(f, B)
  BY SumUnion
<1>2. SumFunctionOnSet(f, (A \cup B) \cup C) = SumFunctionOnSet(f, A \cup B) + SumFunctionOnSet(f, C)
  <2>1. IsFiniteSet(A \cup B) /\ (A \cup B) \cap C = {}
    BY FS_Union
  <2>. QED  BY <2>1, SumUnion
<1>3. SumFunctionOnSet(f, (A \cup B \cup C) \cup D)
        = SumFunctionOnSet(f, A \cup B \cup C) + SumFunctionOnSet(f, D)
  <2>1. IsFiniteSet(A \cup B \cup C) /\ (A \cup B \cup C) \cap D = {}
    BY FS_Union
  <2>. QED  BY <2>1, SumUnion
<1>. QED  BY <1>1, <1>2, <1>3

\* Numbers compare as their multiples do.
LEMMA TimesMonotone ==
  ASSUME NEW a \in Nat, NEW b \in Nat, NEW d \in Nat, d > 0
  PROVE  a * d <= b * d <=> a <= b
<1>1. ASSUME a <= b PROVE a * d <= b * d
  <2>1. PICK e \in Nat : b = a + e
    <3>1. b - a \in Nat /\ b = a + (b - a)
      BY <1>1
    <3>. QED  BY <3>1
  <2>2. b * d = a * d + e * d /\ e * d \in Nat /\ a * d \in Nat
    BY <2>1
  <2>. QED  BY <2>2
<1>2. ASSUME b < a PROVE b * d < a * d
  <2>1. PICK e \in Nat : a = b + 1 + e
    <3>1. a - b - 1 \in Nat /\ a = b + 1 + (a - b - 1)
      BY <1>2
    <3>. QED  BY <3>1
  <2>2. a * d = b * d + d + e * d /\ e * d \in Nat /\ b * d \in Nat
    BY <2>1
  <2>. QED  BY <2>2
<1>3. a * d \in Nat /\ b * d \in Nat
  OBVIOUS
<1>. QED  BY <1>1, <1>2, <1>3

-----------------------------------------------------------------------------
(* Counting, and the order of what can be counted.                         *)

\* The sum of ones counts.
LEMMA SumOnes ==
  ASSUME NEW S, IsFiniteSet(S), NEW f, \A x \in S : f[x] = 1
  PROVE  SumFunctionOnSet(f, S) = Cardinality(S)
<1>. DEFINE G == {T \in SUBSET S : SumFunctionOnSet(f, T) = Cardinality(T)}
<1>1. {} \in G
  BY SumEmpty, FS_EmptySet
<1>2. ASSUME NEW T \in SUBSET S, NEW x \in S \ T, T \in G PROVE T \cup {x} \in G
  <2>1. IsFiniteSet(T) /\ Cardinality(T) \in Nat
    BY FS_Subset, FS_CardinalityType
  <2>2. Cardinality(T \cup {x}) = Cardinality(T) + 1
    BY <2>1, FS_AddElement
  <2>3. f[x] \in Int /\ \A y \in T : f[y] \in Int
    OBVIOUS
  <2>4. SumFunctionOnSet(f, T \cup {x}) = f[x] + SumFunctionOnSet(f, T)
    BY <2>1, <2>3, SumAdd
  <2>. QED  BY <1>2, <2>1, <2>2, <2>4
<1>. HIDE DEF G
<1>3. S \in G
  BY <1>1, <1>2, FiniteInduction
<1>. QED  BY <1>3 DEF G

\* A set may be counted group by group.
LEMMA CountByGroup ==
  ASSUME NEW S, IsFiniteSet(S), NEW g
  PROVE  LET K == {g[x] : x \in S} IN
         /\ IsFiniteSet(K)
         /\ Cardinality(S) = SumFunctionOnSet([k \in K |-> Cardinality({x \in S : g[x] = k})], K)
<1>. DEFINE K == {g[x] : x \in S}
            f == [x \in S |-> 1]
            counts == [k \in K |-> Cardinality({x \in S : g[x] = k})]
            sums == [k \in K |-> SumFunctionOnSet(f, {x \in S : g[x] = k})]
<1>1. IsFiniteSet(K)
  BY ImageFinite
<1>2. ASSUME NEW k \in K PROVE counts[k] = sums[k]
  <2>. DEFINE T == {x \in S : g[x] = k}
  <2>1. IsFiniteSet(T) /\ \A x \in T : f[x] = 1
    BY FS_Subset
  <2>. HIDE DEF T, f
  <2>2. SumFunctionOnSet(f, T) = Cardinality(T)
    BY <2>1, SumOnes
  <2>. QED  BY <2>2 DEF T
<1>3. counts = sums
  BY <1>2
<1>4. \A x \in S : f[x] = 1 /\ f[x] \in Int
  OBVIOUS
<1>. HIDE DEF f
<1>5. SumFunctionOnSet(f, S) = Cardinality(S)
  BY <1>4, SumOnes
<1>6. SumFunctionOnSet(f, S) = SumFunctionOnSet(sums, K)
  BY <1>4, SumByGroup
<1>. QED  BY <1>1, <1>3, <1>5, <1>6

\* A finite set that is not empty has an element that is before no other, in any
\* transitive and irreflexive relation.
LEMMA FiniteHasMaximal ==
  ASSUME NEW S, IsFiniteSet(S), S # {}, NEW R,
         \A x, y, z \in S : <<x, y>> \in R /\ <<y, z>> \in R => <<x, z>> \in R,
         \A x \in S : <<x, x>> \notin R
  PROVE  \E m \in S : \A x \in S : <<m, x>> \notin R
<1>. DEFINE G == {T \in SUBSET S : T # {} => \E m \in T : \A x \in T : <<m, x>> \notin R}
<1>1. {} \in G
  OBVIOUS
<1>2. ASSUME NEW T \in SUBSET S, NEW a \in S \ T, T \in G PROVE T \cup {a} \in G
  <2>1. CASE T = {}
    BY <2>1
  <2>2. CASE T # {}
    <3>1. PICK m \in T : \A x \in T : <<m, x>> \notin R
      BY <1>2, <2>2
    <3>2. CASE <<m, a>> \in R
      <4>1. \A x \in T \cup {a} : <<a, x>> \notin R
        BY <3>1, <3>2
      <4>. QED  BY <4>1
    <3>3. CASE <<m, a>> \notin R
      <4>1. \A x \in T \cup {a} : <<m, x>> \notin R
        BY <3>1, <3>3
      <4>. QED  BY <4>1
    <3>. QED  BY <3>2, <3>3
  <2>. QED  BY <2>1, <2>2
<1>. HIDE DEF G
<1>3. S \in G
  BY <1>1, <1>2, FiniteInduction
<1>. QED  BY <1>3 DEF G

\* A function on a finite set is least somewhere.
LEMMA LeastOfFinite ==
  ASSUME NEW S, IsFiniteSet(S), S # {}, NEW f, \A x \in S : f[x] \in Int
  PROVE  \E m \in S : \A x \in S : f[m] <= f[x]
<1>. DEFINE R == {p \in S \X S : f[p[2]] < f[p[1]]}
<1>1. \A x, y \in S : <<x, y>> \in R <=> f[y] < f[x]
  OBVIOUS
<1>. HIDE DEF R
<1>2. PICK m \in S : \A x \in S : <<m, x>> \notin R
  <2>1. \A x, y, z \in S : <<x, y>> \in R /\ <<y, z>> \in R => <<x, z>> \in R
    BY <1>1
  <2>2. \A x \in S : <<x, x>> \notin R
    BY <1>1
  <2>. QED  BY <2>1, <2>2, FiniteHasMaximal
<1>3. \A x \in S : f[m] <= f[x]
  <2>. SUFFICES ASSUME NEW x \in S PROVE f[m] <= f[x]
    OBVIOUS
  <2>1. ~(f[x] < f[m])
    BY <1>1, <1>2
  <2>. QED  BY <2>1
<1>. QED  BY <1>3

\* And it is most somewhere.
LEMMA MostOfFinite ==
  ASSUME NEW S, IsFiniteSet(S), S # {}, NEW f, \A x \in S : f[x] \in Int
  PROVE  \E m \in S : \A x \in S : f[x] <= f[m]
<1>. DEFINE g == [x \in S |-> -f[x]]
<1>1. \A x \in S : g[x] \in Int /\ g[x] = -f[x]
  OBVIOUS
<1>. HIDE DEF g
<1>2. PICK m \in S : \A x \in S : g[m] <= g[x]
  BY <1>1, LeastOfFinite
<1>3. \A x \in S : f[x] <= f[m]
  BY <1>1, <1>2
<1>. QED  BY <1>3

\* Numbers with a lower bound have a least one, and Min is it.
LEMMA BoundedMin ==
  ASSUME NEW U \in SUBSET Int, U # {}, NEW b \in Int, \A x \in U : b <= x
  PROVE  Min(U) \in U /\ \A x \in U : Min(U) <= x
<1>. DEFINE V == {x - b : x \in U}
<1>0. \A x \in U : x - b \in Nat
  OBVIOUS
<1>1. V \in SUBSET Nat /\ V # {}
  BY <1>0
<1>. HIDE DEF V
<1>2. PICK v \in V : \A y \in V : v <= y
  BY <1>1, LeastNat
<1>3. PICK x \in U : v = x - b
  BY DEF V
<1>4. \A y \in U : x <= y
  <2>. SUFFICES ASSUME NEW y \in U PROVE x <= y
    OBVIOUS
  <2>1. y - b \in V
    BY DEF V
  <2>. QED  BY <1>2, <1>3, <2>1
<1>. QED  BY <1>4 DEF Min

\* Numbers with an upper bound have a largest one, and Max is it.
LEMMA BoundedMax ==
  ASSUME NEW U \in SUBSET Int, U # {}, NEW b \in Int, \A x \in U : x <= b
  PROVE  Max(U) \in U /\ \A x \in U : x <= Max(U)
<1>. DEFINE V == {b - x : x \in U}
<1>0. \A x \in U : b - x \in Nat
  OBVIOUS
<1>1. V \in SUBSET Nat /\ V # {}
  BY <1>0
<1>. HIDE DEF V
<1>2. PICK v \in V : \A y \in V : v <= y
  BY <1>1, LeastNat
<1>3. PICK x \in U : v = b - x
  BY DEF V
<1>4. \A y \in U : x >= y
  <2>. SUFFICES ASSUME NEW y \in U PROVE x >= y
    OBVIOUS
  <2>1. b - y \in V
    BY DEF V
  <2>. QED  BY <1>2, <1>3, <2>1
<1>5. Max(U) \in U /\ \A y \in U : Max(U) >= y
  BY <1>4 DEF Max
<1>. QED  BY <1>5

\* The image of a finite set is as large when no two elements share one.
LEMMA CardinalityOfDistinct ==
  ASSUME NEW S, IsFiniteSet(S), NEW f, \A x, y \in S : f[x] = f[y] => x = y
  PROVE  Cardinality({f[x] : x \in S}) = Cardinality(S)
<1>. DEFINE T == {f[x] : x \in S}
            g == [x \in S |-> f[x]]
<1>1. g \in [S -> T] /\ (\A x, y \in S : g[x] = g[y] => x = y) /\ \A t \in T : \E x \in S : g[x] = t
  OBVIOUS
<1>2. g \in Bijection(S, T)
  BY <1>1 DEF Bijection, Injection, Surjection, IsInjective
<1>3. ExistsBijection(S, T)
  BY <1>2 DEF ExistsBijection
<1>. QED  BY <1>3, FS_Bijection

\* And only then: an image as large as the set gives every element its own.
LEMMA SameCountIsInjective ==
  ASSUME NEW S, IsFiniteSet(S), NEW g, Cardinality({g[x] : x \in S}) = Cardinality(S)
  PROVE  \A x, y \in S : g[x] = g[y] => x = y
<1>. DEFINE T == {g[x] : x \in S}
            h == [x \in S |-> g[x]]
<1>1. h \in Surjection(S, T)
  BY DEF Surjection
<1>2. h \in Injection(S, T)
  BY <1>1, FS_Surjection
<1>. QED  BY <1>2 DEF Injection, IsInjective

\* A set with two elements counts more than one.
LEMMA SomeAreTwo ==
  ASSUME NEW S, IsFiniteSet(S), NEW a \in S, NEW b \in S, a # b
  PROVE  Cardinality(S) > 1
<1>1. Cardinality({a, b}) = 2 /\ {a, b} \subseteq S
  <2>1. IsFiniteSet({a}) /\ Cardinality({a}) = 1 /\ b \notin {a} /\ {a, b} = {a} \cup {b}
    BY FS_Singleton
  <2>. QED  BY <2>1, FS_AddElement
<1>2. Cardinality({a, b}) <= Cardinality(S) /\ Cardinality(S) \in Nat
  BY <1>1, FS_Subset, FS_CardinalityType
<1>. QED  BY <1>1, <1>2

\* A set with an element counts at least one.
LEMMA SomeIsCounted ==
  ASSUME NEW S, IsFiniteSet(S), NEW x \in S
  PROVE  Cardinality(S) >= 1
BY FS_EmptySet, FS_CardinalityType
=============================================================================
