--------------------------- MODULE AggregateProofs ---------------------------
(***************************************************************************)
(* Facts about sums over finite sets, subsequences and flattened           *)
(* sequences.  The sum of f over S is the fold of the community modules,   *)
(* which takes one element after the other out of S in an order nobody     *)
(* knows.  What it amounts to is shown here by induction, for functions    *)
(* (first-order, so that the facts can be cited) and with induction stated *)
(* over a set of numbers instead of a predicate.  The same induction gives *)
(* the elements of Picked and of FlattenSeq.                               *)
(***************************************************************************)
EXTENDS Aggregates, FiniteSets, SequencesExt, Functions, FiniteSetTheorems, SequenceTheorems,
        WellFoundedInduction, NaturalsInduction, TLAPS

\* A set of numbers that has zero and each successor has all of them.
LEMMA AllNumbers ==
  ASSUME NEW N, N \subseteq Nat, 0 \in N, \A n \in N : n + 1 \in N
  PROVE  N = Nat
<1> DEFINE T == Nat \ N
<1>1. SUFFICES ASSUME T # {} PROVE FALSE
  OBVIOUS
<1>2. PICK x \in T : \A y \in T : ~ (<<y, x>> \in OpToRel(<, Nat))
  <2> HIDE DEF T
  <2>1. T \subseteq Nat
    BY DEF T
  <2> QED BY <1>1, <2>1, NatLessThanWellFounded, WFMin
<1>3. x # 0 /\ x - 1 \in Nat
  OBVIOUS
<1>4. x - 1 \in T
  BY <1>3
<1>5. <<x - 1, x>> \in OpToRel(<, Nat)
  BY <1>3 DEF OpToRel
<1> QED BY <1>2, <1>4, <1>5

\* A collection of subsets of a finite set that has the empty one, and with each
\* subset what it becomes by one more element, has the whole set.
LEMMA AllSubsets ==
  ASSUME NEW S, IsFiniteSet(S), NEW X, {} \in X,
         \A T \in SUBSET S : \A x \in S \ T : T \in X => T \cup {x} \in X
  PROVE  S \in X
<1> DEFINE N == {n \in Nat : \A T \in SUBSET S : Cardinality(T) = n => T \in X}
<1>1. 0 \in N
  BY FS_Subset, FS_EmptySet
<1>2. ASSUME NEW n \in N PROVE n + 1 \in N
  <2> SUFFICES ASSUME NEW T \in SUBSET S, Cardinality(T) = n + 1 PROVE T \in X
    OBVIOUS
  <2>1. IsFiniteSet(T) /\ T # {}
    BY FS_Subset, FS_EmptySet
  <2>2. PICK x : x \in T
    BY <2>1
  <2>3. Cardinality(T \ {x}) = n
    <3>1. Cardinality(T \ {x}) = Cardinality(T) - 1
      BY <2>1, <2>2, FS_RemoveElement
    <3>2. n \in Nat
      OBVIOUS
    <3> HIDE DEF N
    <3> QED BY <3>1, <3>2
  <2>4. T \ {x} \in X
    BY <2>3
  <2> QED BY <2>2, <2>4, (T \ {x}) \cup {x} = T
<1>3. N = Nat
  <2> HIDE DEF N
  <2>1. N \subseteq Nat
    BY DEF N
  <2> QED BY <1>1, <1>2, <2>1, AllNumbers
<1> QED BY <1>3, FS_CardinalityType

----------------------------------------------------------------------------
(* The fold is the function its definition describes.                      *)

\* The element that is taken out of s.
Taken(s) == CHOOSE x \in s : TRUE

\* What the fold makes of s, given what it makes of smaller sets.
Body(f, h, s) == IF s = {} THEN 0 ELSE f[Taken(s)] + h[s \ {Taken(s)}]

\* h is the fold on the subsets of S with at most n elements.
FoldsUpTo(f, S, h, n) ==
  /\ h = [s \in SUBSET S |-> h[s]]
  /\ \A s \in SUBSET S : Cardinality(s) <= n => h[s] = Body(f, h, s)

IsFold(f, S, h) == h = [s \in SUBSET S |-> Body(f, h, s)]

LEMMA TakenIsIn == ASSUME NEW s, s # {} PROVE Taken(s) \in s
BY DEF Taken

LEMMA SumIsFold ==
  ASSUME NEW f, NEW S
  PROVE  SumFunctionOnSet(f, S) = (CHOOSE h : IsFold(f, S, h))[S]
BY Zenon DEF SumFunctionOnSet, FoldFunctionOnSet, MapThenFoldSet, IsFold, Body, Taken

LEMMA FoldExtends ==
  ASSUME NEW f, NEW S, IsFiniteSet(S), NEW n \in Nat, NEW h, FoldsUpTo(f, S, h, n)
  PROVE  FoldsUpTo(f, S, [s \in SUBSET S |-> Body(f, h, s)], n + 1)
<1> DEFINE g == [s \in SUBSET S |-> Body(f, h, s)]
<1> SUFFICES ASSUME NEW s \in SUBSET S, Cardinality(s) <= n + 1 PROVE g[s] = Body(f, g, s)
  BY DEF FoldsUpTo
<1>1. CASE s = {}
  BY <1>1 DEF Body
<1>2. CASE s # {}
  <2> DEFINE t == s \ {Taken(s)}
  <2>1. Taken(s) \in s /\ t \in SUBSET S
    BY <1>2, TakenIsIn
  <2>2. Cardinality(t) <= n
    BY <2>1, FS_Subset, FS_RemoveElement, FS_CardinalityType
  <2>3. h[t] = Body(f, h, t)
    BY <2>1, <2>2 DEF FoldsUpTo
  <2>4. g[t] = h[t]
    BY <2>1, <2>3
  <2> QED BY <1>2, <2>4 DEF Body
<1> QED BY <1>1, <1>2

LEMMA FoldExists ==
  ASSUME NEW f, NEW S, IsFiniteSet(S)
  PROVE  \E h : IsFold(f, S, h)
<1> DEFINE N == {n \in Nat : \E h : FoldsUpTo(f, S, h, n)}
<1>1. 0 \in N
  <2> DEFINE h == [s \in SUBSET S |-> 0]
  <2>1. ASSUME NEW s \in SUBSET S, Cardinality(s) <= 0 PROVE h[s] = Body(f, h, s)
    <3>1. s = {}
      BY <2>1, FS_Subset, FS_EmptySet, FS_CardinalityType
    <3> QED BY <3>1 DEF Body
  <2>2. FoldsUpTo(f, S, h, 0)
    BY <2>1 DEF FoldsUpTo
  <2> QED BY <2>2
<1>2. ASSUME NEW n \in N PROVE n + 1 \in N
  <2>1. PICK h : FoldsUpTo(f, S, h, n)
    OBVIOUS
  <2>2. n \in Nat
    OBVIOUS
  <2>3. FoldsUpTo(f, S, [s \in SUBSET S |-> Body(f, h, s)], n + 1)
    BY <2>1, <2>2, FoldExtends
  <2> QED BY <2>2, <2>3
<1>3. N = Nat
  <2> HIDE DEF N
  <2>1. N \subseteq Nat
    BY DEF N
  <2> QED BY <1>1, <1>2, <2>1, AllNumbers
<1>4. PICK h : FoldsUpTo(f, S, h, Cardinality(S))
  BY <1>3, FS_CardinalityType
<1>5. \A s \in SUBSET S : h[s] = Body(f, h, s)
  BY <1>4, FS_Subset DEF FoldsUpTo
<1> QED BY <1>4, <1>5 DEF FoldsUpTo, IsFold

\* The folds over two sets agree on their common subsets.
LEMMA FoldsAgree ==
  ASSUME NEW f, NEW S, NEW U, NEW g, NEW h, IsFiniteSet(U), U \subseteq S,
         IsFold(f, S, g), IsFold(f, U, h)
  PROVE  g[U] = h[U]
<1> DEFINE N == {n \in Nat : \A s \in SUBSET U : Cardinality(s) = n => g[s] = h[s]}
<1>0. ASSUME NEW s \in SUBSET U PROVE g[s] = Body(f, g, s) /\ h[s] = Body(f, h, s)
  <2>1. s \in SUBSET S
    OBVIOUS
  <2> QED BY <2>1 DEF IsFold
<1>1. 0 \in N
  BY <1>0, FS_Subset, FS_EmptySet DEF Body
<1>2. ASSUME NEW n \in N PROVE n + 1 \in N
  <2> SUFFICES ASSUME NEW s \in SUBSET U, Cardinality(s) = n + 1 PROVE g[s] = h[s]
    OBVIOUS
  <2>1. IsFiniteSet(s) /\ s # {}
    BY FS_Subset, FS_EmptySet
  <2>2. Taken(s) \in s
    BY <2>1, TakenIsIn
  <2>3. Cardinality(s \ {Taken(s)}) = n
    <3>1. Cardinality(s \ {Taken(s)}) = Cardinality(s) - 1
      BY <2>1, <2>2, FS_RemoveElement
    <3>2. n \in Nat
      OBVIOUS
    <3> HIDE DEF N
    <3> QED BY <3>1, <3>2
  <2>4. g[s \ {Taken(s)}] = h[s \ {Taken(s)}]
    BY <2>3
  <2> QED BY <1>0, <2>1, <2>4 DEF Body
<1>3. N = Nat
  <2> HIDE DEF N
  <2>1. N \subseteq Nat
    BY DEF N
  <2> QED BY <1>1, <1>2, <2>1, AllNumbers
<1> QED BY <1>3, FS_CardinalityType

\* The fold is one.
LEMMA FoldChosen ==
  ASSUME NEW f, NEW S, IsFiniteSet(S)
  PROVE  IsFold(f, S, CHOOSE h : IsFold(f, S, h))
BY FoldExists

LEMMA SumEmpty == ASSUME NEW f PROVE SumFunctionOnSet(f, {}) = 0
<1> DEFINE h == CHOOSE h : IsFold(f, {}, h)
<1>1. IsFold(f, {}, h)
  BY FoldChosen, FS_EmptySet
<1>2. h[{}] = 0
  BY <1>1 DEF IsFold, Body
<1> QED BY <1>2, SumIsFold

LEMMA SumTaken ==
  ASSUME NEW f, NEW S, IsFiniteSet(S), S # {}
  PROVE  SumFunctionOnSet(f, S) = f[Taken(S)] + SumFunctionOnSet(f, S \ {Taken(S)})
<1> DEFINE U == S \ {Taken(S)}
           g == CHOOSE h : IsFold(f, S, h)
           h == CHOOSE h : IsFold(f, U, h)
<1>1. IsFiniteSet(U)
  BY FS_Subset
<1>2. IsFold(f, S, g) /\ IsFold(f, U, h)
  BY <1>1, FoldChosen
<1>3. SumFunctionOnSet(f, S) = g[S] /\ SumFunctionOnSet(f, U) = h[U]
  BY SumIsFold
<1> HIDE DEF g, h
<1>4. g[U] = h[U]
  BY <1>1, <1>2, FoldsAgree
<1>5. g[S] = Body(f, g, S)
  BY <1>2 DEF IsFold
<1> QED BY <1>3, <1>4, <1>5 DEF Body

----------------------------------------------------------------------------
(* What a sum of numbers is worth.                                         *)

Ints(f, S) == \A x \in S : f[x] \in Int
Nats(f, S) == \A x \in S : f[x] \in Nat

\* A property of sums is shown by the size of the set.
LEMMA SumInt ==
  ASSUME NEW f, NEW S, IsFiniteSet(S), Ints(f, S)
  PROVE  SumFunctionOnSet(f, S) \in Int
<1> DEFINE N == {n \in Nat : \A T \in SUBSET S : Cardinality(T) = n => SumFunctionOnSet(f, T) \in Int}
<1>1. 0 \in N
  BY SumEmpty, FS_Subset, FS_EmptySet
<1>2. ASSUME NEW n \in N PROVE n + 1 \in N
  <2> SUFFICES ASSUME NEW T \in SUBSET S, Cardinality(T) = n + 1
               PROVE  SumFunctionOnSet(f, T) \in Int
    OBVIOUS
  <2>1. IsFiniteSet(T) /\ T # {} /\ n \in Nat
    BY FS_Subset, FS_EmptySet
  <2>2. Taken(T) \in T
    BY <2>1, TakenIsIn
  <2>3. Cardinality(T \ {Taken(T)}) = n
    <3>1. Cardinality(T \ {Taken(T)}) = Cardinality(T) - 1
      BY <2>1, <2>2, FS_RemoveElement
    <3> HIDE DEF N
    <3> QED BY <2>1, <3>1
  <2>4. SumFunctionOnSet(f, T \ {Taken(T)}) \in Int
    BY <2>3
  <2>5. f[Taken(T)] \in Int
    BY <2>2 DEF Ints
  <2> QED BY <2>1, <2>4, <2>5, SumTaken
<1>3. N = Nat
  <2> HIDE DEF N
  <2>1. N \subseteq Nat
    BY DEF N
  <2> QED BY <1>1, <1>2, <2>1, AllNumbers
<1> QED BY <1>3, FS_CardinalityType

\* Any element may be taken out first.
LEMMA SumRemove ==
  ASSUME NEW f, NEW S, IsFiniteSet(S), Ints(f, S), NEW x \in S
  PROVE  SumFunctionOnSet(f, S) = f[x] + SumFunctionOnSet(f, S \ {x})
<1> DEFINE N == {n \in Nat : \A T \in SUBSET S : Cardinality(T) = n =>
                   \A y \in T : SumFunctionOnSet(f, T) = f[y] + SumFunctionOnSet(f, T \ {y})}
<1>1. 0 \in N
  BY FS_Subset, FS_EmptySet
<1>2. ASSUME NEW n \in N PROVE n + 1 \in N
  <2> SUFFICES ASSUME NEW T \in SUBSET S, Cardinality(T) = n + 1, NEW y \in T
               PROVE  SumFunctionOnSet(f, T) = f[y] + SumFunctionOnSet(f, T \ {y})
    OBVIOUS
  <2> DEFINE c == Taken(T)
  <2>1. IsFiniteSet(T) /\ T # {} /\ n \in Nat
    BY FS_Subset, FS_EmptySet
  <2>2. c \in T
    BY <2>1, TakenIsIn
  <2>3. SumFunctionOnSet(f, T) = f[c] + SumFunctionOnSet(f, T \ {c})
    BY <2>1, SumTaken
  <2>4. CASE y = c
    BY <2>3, <2>4
  <2>5. CASE y # c
    <3>1. Cardinality(T \ {c}) = Cardinality(T) - 1 /\ Cardinality(T \ {y}) = Cardinality(T) - 1
      BY <2>1, <2>2, FS_RemoveElement
    <3>2. Cardinality(T \ {c}) = n /\ Cardinality(T \ {y}) = n
      <4> HIDE DEF N, c
      <4> QED BY <2>1, <3>1
    <3>3. SumFunctionOnSet(f, T \ {c}) = f[y] + SumFunctionOnSet(f, (T \ {c}) \ {y})
      BY <2>5, <3>2
    <3>4. SumFunctionOnSet(f, T \ {y}) = f[c] + SumFunctionOnSet(f, (T \ {y}) \ {c})
      BY <2>2, <2>5, <3>2
    <3>5. (T \ {y}) \ {c} = (T \ {c}) \ {y}
      OBVIOUS
    <3>6. IsFiniteSet((T \ {c}) \ {y}) /\ Ints(f, (T \ {c}) \ {y})
      BY FS_Subset DEF Ints
    <3>7. SumFunctionOnSet(f, (T \ {c}) \ {y}) \in Int
      BY <3>6, SumInt
    <3>8. f[c] \in Int /\ f[y] \in Int
      BY <2>2 DEF Ints
    <3>9. SumFunctionOnSet(f, (T \ {y}) \ {c}) = SumFunctionOnSet(f, (T \ {c}) \ {y})
      BY Zenon, <3>5
    <3> DEFINE rest == SumFunctionOnSet(f, (T \ {c}) \ {y})
               withoutC == SumFunctionOnSet(f, T \ {c})
               withoutY == SumFunctionOnSet(f, T \ {y})
    <3>10. /\ SumFunctionOnSet(f, T) = f[c] + withoutC
           /\ withoutC = f[y] + rest /\ withoutY = f[c] + rest
           /\ rest \in Int
      BY <2>3, <3>3, <3>4, <3>7, <3>9
    <3> HIDE DEF N, c, rest, withoutC, withoutY
    <3>11. SumFunctionOnSet(f, T) = f[y] + withoutY
      BY <3>8, <3>10
    <3> QED BY <3>11 DEF withoutY
  <2> QED BY <2>4, <2>5
<1>3. N = Nat
  <2> HIDE DEF N
  <2>1. N \subseteq Nat
    BY DEF N
  <2> QED BY <1>1, <1>2, <2>1, AllNumbers
<1> QED BY <1>3, FS_CardinalityType

\* One element more.
LEMMA SumInsert ==
  ASSUME NEW f, NEW S, IsFiniteSet(S), NEW x, x \notin S, Ints(f, S), f[x] \in Int
  PROVE  SumFunctionOnSet(f, S \cup {x}) = f[x] + SumFunctionOnSet(f, S)
<1>1. IsFiniteSet(S \cup {x}) /\ Ints(f, S \cup {x})
  BY FS_AddElement DEF Ints
<1>2. (S \cup {x}) \ {x} = S
  OBVIOUS
<1> QED BY <1>1, <1>2, SumRemove

LEMMA SumNat ==
  ASSUME NEW f, NEW S, IsFiniteSet(S), Nats(f, S)
  PROVE  SumFunctionOnSet(f, S) \in Nat
<1> DEFINE X == {T \in SUBSET S : SumFunctionOnSet(f, T) \in Nat}
<1>1. {} \in X
  BY SumEmpty
<1>2. ASSUME NEW T \in SUBSET S, NEW x \in S \ T, T \in X PROVE T \cup {x} \in X
  <2>1. IsFiniteSet(T) /\ Ints(f, T) /\ f[x] \in Nat
    BY FS_Subset DEF Nats, Ints
  <2>2. SumFunctionOnSet(f, T \cup {x}) = f[x] + SumFunctionOnSet(f, T)
    BY <2>1, SumInsert
  <2> QED BY <1>2, <2>1, <2>2
<1> HIDE DEF X
<1>3. S \in X
  BY <1>1, <1>2, AllSubsets
<1> QED BY <1>3 DEF X

\* A sum depends on the values on the set only.
LEMMA SumSame ==
  ASSUME NEW f, NEW g, NEW S, IsFiniteSet(S), Ints(f, S), \A x \in S : g[x] = f[x]
  PROVE  SumFunctionOnSet(g, S) = SumFunctionOnSet(f, S)
<1> DEFINE X == {T \in SUBSET S : SumFunctionOnSet(g, T) = SumFunctionOnSet(f, T)}
<1>1. {} \in X
  BY SumEmpty
<1>2. ASSUME NEW T \in SUBSET S, NEW x \in S \ T, T \in X PROVE T \cup {x} \in X
  <2>1. IsFiniteSet(T) /\ Ints(f, T) /\ f[x] \in Int /\ Ints(g, T) /\ g[x] = f[x]
    BY FS_Subset DEF Ints
  <2>2. SumFunctionOnSet(f, T \cup {x}) = f[x] + SumFunctionOnSet(f, T)
    BY <2>1, SumInsert
  <2>3. SumFunctionOnSet(g, T \cup {x}) = g[x] + SumFunctionOnSet(g, T)
    BY <2>1, SumInsert
  <2> QED BY <1>2, <2>1, <2>2, <2>3
<1> HIDE DEF X
<1>3. S \in X
  BY <1>1, <1>2, AllSubsets
<1> QED BY <1>3 DEF X

LEMMA SumZero ==
  ASSUME NEW f, NEW S, IsFiniteSet(S), \A x \in S : f[x] = 0
  PROVE  SumFunctionOnSet(f, S) = 0
<1> DEFINE X == {T \in SUBSET S : SumFunctionOnSet(f, T) = 0}
<1>1. {} \in X
  BY SumEmpty
<1>2. ASSUME NEW T \in SUBSET S, NEW x \in S \ T, T \in X PROVE T \cup {x} \in X
  <2>1. IsFiniteSet(T) /\ Ints(f, T) /\ f[x] = 0
    BY FS_Subset DEF Ints
  <2>2. SumFunctionOnSet(f, T \cup {x}) = f[x] + SumFunctionOnSet(f, T)
    BY <2>1, SumInsert
  <2> QED BY <1>2, <2>1, <2>2
<1> HIDE DEF X
<1>3. S \in X
  BY <1>1, <1>2, AllSubsets
<1> QED BY <1>3 DEF X

\* Sums of two functions add up.
LEMMA SumPlus ==
  ASSUME NEW f, NEW g, NEW h, NEW S, IsFiniteSet(S), Ints(f, S), Ints(g, S),
         \A x \in S : h[x] = f[x] + g[x]
  PROVE  SumFunctionOnSet(h, S) = SumFunctionOnSet(f, S) + SumFunctionOnSet(g, S)
<1> DEFINE X == {T \in SUBSET S :
                   SumFunctionOnSet(h, T) = SumFunctionOnSet(f, T) + SumFunctionOnSet(g, T)}
<1>1. {} \in X
  BY SumEmpty
<1>2. ASSUME NEW T \in SUBSET S, NEW x \in S \ T, T \in X PROVE T \cup {x} \in X
  <2>1. IsFiniteSet(T) /\ Ints(f, T) /\ Ints(g, T) /\ Ints(h, T)
    BY FS_Subset DEF Ints
  <2>2. f[x] \in Int /\ g[x] \in Int /\ h[x] \in Int /\ h[x] = f[x] + g[x]
    BY DEF Ints
  <2>3. SumFunctionOnSet(f, T \cup {x}) = f[x] + SumFunctionOnSet(f, T)
    BY <2>1, <2>2, SumInsert
  <2>4. SumFunctionOnSet(g, T \cup {x}) = g[x] + SumFunctionOnSet(g, T)
    BY <2>1, <2>2, SumInsert
  <2>5. SumFunctionOnSet(h, T \cup {x}) = h[x] + SumFunctionOnSet(h, T)
    BY <2>1, <2>2, SumInsert
  <2>6. SumFunctionOnSet(f, T) \in Int /\ SumFunctionOnSet(g, T) \in Int
    BY <2>1, SumInt
  <2> QED BY <1>2, <2>2, <2>3, <2>4, <2>5, <2>6
<1> HIDE DEF X
<1>3. S \in X
  BY <1>1, <1>2, AllSubsets
<1> QED BY <1>3 DEF X

LEMMA SumAtMost ==
  ASSUME NEW f, NEW g, NEW S, IsFiniteSet(S), Ints(f, S), Ints(g, S),
         \A x \in S : f[x] <= g[x]
  PROVE  SumFunctionOnSet(f, S) <= SumFunctionOnSet(g, S)
<1> DEFINE X == {T \in SUBSET S : SumFunctionOnSet(f, T) <= SumFunctionOnSet(g, T)}
<1>1. {} \in X
  BY SumEmpty
<1>2. ASSUME NEW T \in SUBSET S, NEW x \in S \ T, T \in X PROVE T \cup {x} \in X
  <2>1. IsFiniteSet(T) /\ Ints(f, T) /\ Ints(g, T)
    BY FS_Subset DEF Ints
  <2>2. f[x] \in Int /\ g[x] \in Int /\ f[x] <= g[x]
    BY DEF Ints
  <2>3. SumFunctionOnSet(f, T \cup {x}) = f[x] + SumFunctionOnSet(f, T)
    BY <2>1, <2>2, SumInsert
  <2>4. SumFunctionOnSet(g, T \cup {x}) = g[x] + SumFunctionOnSet(g, T)
    BY <2>1, <2>2, SumInsert
  <2>6. SumFunctionOnSet(f, T) \in Int /\ SumFunctionOnSet(g, T) \in Int
    BY <2>1, SumInt
  <2> QED BY <1>2, <2>2, <2>3, <2>4, <2>6
<1> HIDE DEF X
<1>3. S \in X
  BY <1>1, <1>2, AllSubsets
<1> QED BY <1>3 DEF X

LEMMA SumUnion ==
  ASSUME NEW f, NEW S, NEW U, IsFiniteSet(S), IsFiniteSet(U), S \cap U = {},
         Ints(f, S), Ints(f, U)
  PROVE  SumFunctionOnSet(f, S \cup U) = SumFunctionOnSet(f, S) + SumFunctionOnSet(f, U)
<1> DEFINE X == {T \in SUBSET U :
                   SumFunctionOnSet(f, S \cup T) = SumFunctionOnSet(f, S) + SumFunctionOnSet(f, T)}
<1>0. SumFunctionOnSet(f, S) \in Int
  BY SumInt
<1>1. {} \in X
  <2>1. S \cup {} = S
    OBVIOUS
  <2> QED BY <1>0, <2>1, SumEmpty
<1>2. ASSUME NEW T \in SUBSET U, NEW x \in U \ T, T \in X PROVE T \cup {x} \in X
  <2>1. IsFiniteSet(T) /\ Ints(f, T) /\ f[x] \in Int /\ IsFiniteSet(S \cup T) /\ Ints(f, S \cup T)
    BY FS_Subset, FS_Union DEF Ints
  <2>2. SumFunctionOnSet(f, T \cup {x}) = f[x] + SumFunctionOnSet(f, T)
    BY <2>1, SumInsert
  <2>3. SumFunctionOnSet(f, (S \cup T) \cup {x}) = f[x] + SumFunctionOnSet(f, S \cup T)
    BY <2>1, SumInsert
  <2>4. (S \cup T) \cup {x} = S \cup (T \cup {x})
    OBVIOUS
  <2>5. SumFunctionOnSet(f, T) \in Int
    BY <2>1, SumInt
  <2>6. SumFunctionOnSet(f, S \cup (T \cup {x})) = f[x] + SumFunctionOnSet(f, S \cup T)
    BY Zenon, <2>3, <2>4
  <2>7. SumFunctionOnSet(f, S \cup T) = SumFunctionOnSet(f, S) + SumFunctionOnSet(f, T)
    BY <1>2
  <2>8. T \cup {x} \in SUBSET U
    OBVIOUS
  <2>9. SumFunctionOnSet(f, S \cup (T \cup {x}))
          = SumFunctionOnSet(f, S) + SumFunctionOnSet(f, T \cup {x})
    BY <1>0, <2>1, <2>2, <2>5, <2>6, <2>7
  <2> QED BY <2>8, <2>9
<1> HIDE DEF X
<1>3. U \in X
  BY <1>1, <1>2, AllSubsets
<1> QED BY <1>3 DEF X

\* A part of a sum of natural numbers is no more than the whole.
LEMMA SumPart ==
  ASSUME NEW f, NEW S, NEW U, IsFiniteSet(S), U \subseteq S, Nats(f, S)
  PROVE  SumFunctionOnSet(f, U) <= SumFunctionOnSet(f, S)
<1>1. IsFiniteSet(U) /\ IsFiniteSet(S \ U) /\ U \cup (S \ U) = S
  BY FS_Subset
<1>2. Nats(f, U) /\ Nats(f, S \ U) /\ Ints(f, U) /\ Ints(f, S \ U)
  BY DEF Nats, Ints
<1>3. SumFunctionOnSet(f, S) = SumFunctionOnSet(f, U) + SumFunctionOnSet(f, S \ U)
  BY <1>1, <1>2, SumUnion
<1>4. SumFunctionOnSet(f, U) \in Nat /\ SumFunctionOnSet(f, S \ U) \in Nat
  BY <1>1, <1>2, SumNat
<1> QED BY <1>3, <1>4

\* Elements that count for nothing may be left out.
LEMMA SumSupport ==
  ASSUME NEW f, NEW S, NEW U, IsFiniteSet(S), U \subseteq S, Ints(f, S),
         \A x \in S \ U : f[x] = 0
  PROVE  SumFunctionOnSet(f, S) = SumFunctionOnSet(f, U)
<1>1. IsFiniteSet(U) /\ IsFiniteSet(S \ U) /\ U \cup (S \ U) = S
  BY FS_Subset
<1>2. Ints(f, U) /\ Ints(f, S \ U)
  BY DEF Ints
<1>3. SumFunctionOnSet(f, S) = SumFunctionOnSet(f, U) + SumFunctionOnSet(f, S \ U)
  BY <1>1, <1>2, SumUnion
<1>4. SumFunctionOnSet(f, U) \in Int /\ SumFunctionOnSet(f, S \ U) = 0
  BY <1>1, <1>2, SumInt, SumZero
<1> QED BY <1>3, <1>4

\* A sum does not depend on the names of the elements: g renamed by m is f.
LEMMA SumRenamed ==
  ASSUME NEW f, NEW g, NEW S, NEW U, NEW m \in [S -> U], IsFiniteSet(S), Ints(f, S),
         \A x, y \in S : m[x] = m[y] => x = y,
         \A z \in U : \E x \in S : m[x] = z,
         \A x \in S : g[m[x]] = f[x]
  PROVE  SumFunctionOnSet(g, U) = SumFunctionOnSet(f, S)
<1> DEFINE X == {T \in SUBSET S : /\ IsFiniteSet({m[x] : x \in T})
                                 /\ SumFunctionOnSet(g, {m[x] : x \in T}) = SumFunctionOnSet(f, T)}
<1>1. {} \in X
  <2>1. {m[x] : x \in {}} = {}
    OBVIOUS
  <2> QED BY <2>1, SumEmpty, FS_EmptySet
<1>2. ASSUME NEW T \in SUBSET S, NEW x \in S \ T, T \in X PROVE T \cup {x} \in X
  <2> DEFINE I == {m[y] : y \in T}
  <2>1. IsFiniteSet(T) /\ Ints(f, T) /\ f[x] \in Int
    BY FS_Subset DEF Ints
  <2>2. SumFunctionOnSet(f, T \cup {x}) = f[x] + SumFunctionOnSet(f, T)
    BY <2>1, SumInsert
  <2>3. {m[y] : y \in T \cup {x}} = I \cup {m[x]}
    OBVIOUS
  <2>4. m[x] \notin I /\ Ints(g, I) /\ g[m[x]] = f[x]
    BY DEF Ints
  <2>5. IsFiniteSet(I) /\ SumFunctionOnSet(g, I) = SumFunctionOnSet(f, T)
    BY <1>2
  <2>6. SumFunctionOnSet(g, I \cup {m[x]}) = g[m[x]] + SumFunctionOnSet(g, I)
    BY <2>1, <2>4, <2>5, SumInsert
  <2>7. IsFiniteSet(I \cup {m[x]})
    BY <2>5, FS_AddElement
  <2> QED BY <2>2, <2>3, <2>4, <2>5, <2>6, <2>7
<1>3. S \in X
  <2> HIDE DEF X
  <2> QED BY <1>1, <1>2, AllSubsets
<1>4. {m[x] : x \in S} = U
  OBVIOUS
<1> QED BY <1>3, <1>4

\* One value is replaced by another.
LEMMA SumUpdate ==
  ASSUME NEW f, NEW g, NEW S, IsFiniteSet(S), Ints(f, S), NEW x \in S, g[x] \in Int,
         \A y \in S \ {x} : g[y] = f[y]
  PROVE  SumFunctionOnSet(g, S) = SumFunctionOnSet(f, S) - f[x] + g[x]
<1>1. Ints(g, S) /\ Ints(f, S \ {x}) /\ IsFiniteSet(S \ {x}) /\ f[x] \in Int
  BY FS_Subset DEF Ints
<1>2. SumFunctionOnSet(f, S) = f[x] + SumFunctionOnSet(f, S \ {x})
  BY SumRemove
<1>3. SumFunctionOnSet(g, S) = g[x] + SumFunctionOnSet(g, S \ {x})
  BY <1>1, SumRemove
<1>4. SumFunctionOnSet(g, S \ {x}) = SumFunctionOnSet(f, S \ {x})
  BY <1>1, SumSame
<1>5. SumFunctionOnSet(f, S \ {x}) \in Int
  BY <1>1, SumInt
<1> QED BY <1>1, <1>2, <1>3, <1>4, <1>5

----------------------------------------------------------------------------
(* Subsequences.                                                           *)

PickBody(s, K, h, n) ==
  IF n = 0 THEN <<>>
  ELSE IF n \in K THEN Append(h[n - 1], s[n]) ELSE h[n - 1]

IsPick(s, K, h) == h = [n \in 0..Len(s) |-> PickBody(s, K, h, n)]

PicksUpTo(s, K, h, n) ==
  /\ h = [k \in 0..Len(s) |-> h[k]]
  /\ \A k \in 0..Len(s) : k <= n => h[k] = PickBody(s, K, h, k)

LEMMA PickExists ==
  ASSUME NEW R, NEW s \in Seq(R), NEW K
  PROVE  \E h : IsPick(s, K, h)
<1> DEFINE N == {n \in Nat : \E h : PicksUpTo(s, K, h, n)}
<1>0. Len(s) \in Nat
  OBVIOUS
<1>1. 0 \in N
  <2> DEFINE h == [k \in 0..Len(s) |-> <<>>]
  <2>1. PicksUpTo(s, K, h, 0)
    BY <1>0 DEF PicksUpTo, PickBody
  <2> QED BY <2>1
<1>2. ASSUME NEW n \in N PROVE n + 1 \in N
  <2>1. PICK h : PicksUpTo(s, K, h, n)
    OBVIOUS
  <2>2. n \in Nat
    OBVIOUS
  <2> DEFINE g == [k \in 0..Len(s) |-> PickBody(s, K, h, k)]
  <2>3. ASSUME NEW k \in 0..Len(s), k <= n + 1 PROVE g[k] = PickBody(s, K, g, k)
    <3>1. CASE k = 0
      BY <3>1 DEF PickBody
    <3>2. CASE k # 0
      <4>1. k - 1 \in 0..Len(s) /\ k - 1 <= n
        BY <1>0, <2>2, <2>3, <3>2
      <4>2. g[k - 1] = h[k - 1]
        BY <2>1, <4>1 DEF PicksUpTo
      <4> QED BY <4>2 DEF PickBody
    <3> QED BY <3>1, <3>2
  <2>4. PicksUpTo(s, K, g, n + 1)
    BY <2>3 DEF PicksUpTo
  <2> QED BY <2>2, <2>4
<1>3. N = Nat
  <2> HIDE DEF N
  <2>1. N \subseteq Nat
    BY DEF N
  <2> QED BY <1>1, <1>2, <2>1, AllNumbers
<1>4. PICK h : PicksUpTo(s, K, h, Len(s))
  BY <1>0, <1>3
<1> QED BY <1>4, <1>0 DEF PicksUpTo, IsPick

\* The recursive function that Picked is defined with.
LEMMA PickedIs ==
  ASSUME NEW R, NEW s \in Seq(R), NEW K
  PROVE  \E h : IsPick(s, K, h) /\ Picked(s, K) = h[Len(s)]
<1> DEFINE h == CHOOSE h : IsPick(s, K, h)
<1>1. IsPick(s, K, h)
  BY PickExists
<1>2. Picked(s, K) = h[Len(s)]
  BY Zenon DEF Picked, IsPick, PickBody
<1> QED BY <1>1, <1>2

\* What is picked of s \o t is what is picked of s, then what is picked of t.
LEMMA PickedConcat ==
  ASSUME NEW R, NEW s \in Seq(R), NEW t \in Seq(R), NEW I, NEW J, NEW K,
         \A i \in DOMAIN s : i \in I <=> i \in K,
         \A i \in DOMAIN t : i \in J <=> Len(s) + i \in K
  PROVE  /\ Picked(s \o t, K) = Picked(s, I) \o Picked(t, J)
         /\ Picked(s, I) \in Seq(R)
<1>0. s \o t \in Seq(R) /\ Len(s \o t) = Len(s) + Len(t) /\ Len(s) \in Nat /\ Len(t) \in Nat
  OBVIOUS
<1>1. PICK f : IsPick(s, I, f) /\ Picked(s, I) = f[Len(s)]
  BY PickedIs
<1>2. PICK g : IsPick(t, J, g) /\ Picked(t, J) = g[Len(t)]
  BY PickedIs
<1>3. PICK h : IsPick(s \o t, K, h) /\ Picked(s \o t, K) = h[Len(s \o t)]
  BY <1>0, PickedIs
<1>4. \A n \in 0..Len(s) : f[n] = PickBody(s, I, f, n)
  BY <1>1 DEF IsPick
<1>5. \A n \in 0..Len(t) : g[n] = PickBody(t, J, g, n)
  BY <1>2 DEF IsPick
<1>6. \A n \in 0..(Len(s) + Len(t)) : h[n] = PickBody(s \o t, K, h, n)
  BY <1>0, <1>3 DEF IsPick
<1> DEFINE N == {n \in Nat : n <= Len(s) => h[n] = f[n] /\ f[n] \in Seq(R)}
           Joined(n) == h[Len(s) + n] = f[Len(s)] \o g[n] /\ g[n] \in Seq(R)
           M == {n \in Nat : n <= Len(t) => Joined(n)}
<1>7. N = Nat
  <2>1. 0 \in N
    <3>1. 0 \in 0..Len(s) /\ 0 \in 0..(Len(s) + Len(t))
      BY <1>0
    <3>2. h[0] = <<>> /\ f[0] = <<>>
      BY <1>4, <1>6, <3>1 DEF PickBody
    <3>3. f[0] \in Seq(R)
      BY <3>2
    <3> QED BY <3>2, <3>3, Zenon
  <2>2. ASSUME NEW n \in N PROVE n + 1 \in N
    <3> SUFFICES ASSUME n + 1 <= Len(s) PROVE h[n + 1] = f[n + 1] /\ f[n + 1] \in Seq(R)
      OBVIOUS
    <3>1. n \in Nat /\ n + 1 \in 0..Len(s) /\ n + 1 \in 0..(Len(s) + Len(t)) /\ n + 1 # 0
          /\ (n + 1) - 1 = n /\ n + 1 \in DOMAIN s /\ n <= Len(s)
      BY <1>0
    <3>2. h[n] = f[n] /\ f[n] \in Seq(R)
      BY <3>1
    <3>3. (s \o t)[n + 1] = s[n + 1] /\ s[n + 1] \in R
      BY <3>1, <1>0
    <3>4. h[n + 1] = PickBody(s \o t, K, h, n + 1) /\ f[n + 1] = PickBody(s, I, f, n + 1)
      BY <1>4, <1>6, <3>1
    <3> HIDE DEF N
    <3>5. h[n + 1] = IF n + 1 \in K THEN Append(f[n], s[n + 1]) ELSE f[n]
      BY <3>1, <3>2, <3>3, <3>4 DEF PickBody
    <3>6. f[n + 1] = IF n + 1 \in K THEN Append(f[n], s[n + 1]) ELSE f[n]
      BY <3>1, <3>4 DEF PickBody
    <3> QED BY <3>2, <3>3, <3>5, <3>6
  <2> HIDE DEF N
  <2>3. N \subseteq Nat
    BY DEF N
  <2> QED BY <2>1, <2>2, <2>3, AllNumbers
<1>8. h[Len(s)] = f[Len(s)] /\ f[Len(s)] \in Seq(R)
  BY <1>0, <1>7
<1>9. M = Nat
  <2>1. 0 \in M
    <3>1. g[0] = <<>> /\ Len(s) + 0 = Len(s)
      BY <1>0, <1>5 DEF PickBody
    <3>2. f[Len(s)] \o <<>> = f[Len(s)]
      BY <1>8
    <3>3. Joined(0)
      BY <1>8, <3>1, <3>2
    <3> QED BY <3>3
  <2>2. ASSUME NEW n \in M PROVE n + 1 \in M
    <3> SUFFICES ASSUME n + 1 <= Len(t)
                 PROVE  Joined(n + 1)
      <4> HIDE DEF Joined
      <4> QED OBVIOUS
    <3> DEFINE k == Len(s) + (n + 1)
    <3>1. /\ n \in Nat /\ n + 1 \in 0..Len(t) /\ n + 1 # 0 /\ (n + 1) - 1 = n
          /\ n + 1 \in DOMAIN t /\ n <= Len(t)
      BY <1>0
    <3>2. k \in 0..(Len(s) + Len(t)) /\ k # 0 /\ k - 1 = Len(s) + n
      BY <1>0, <3>1
    <3>3. h[Len(s) + n] = f[Len(s)] \o g[n] /\ g[n] \in Seq(R)
      <4>1. Joined(n)
        <5> HIDE DEF Joined
        <5> QED BY <3>1
      <4> QED BY <4>1
    <3>4. (s \o t)[k] = t[n + 1] /\ t[n + 1] \in R
      BY <3>1, <1>0
    <3>5. h[k] = PickBody(s \o t, K, h, k) /\ g[n + 1] = PickBody(t, J, g, n + 1)
      BY <1>5, <1>6, <3>1, <3>2
    <3>6. k \in K <=> n + 1 \in J
      BY <3>1
    <3> HIDE DEF M, k
    <3>7. h[k] = IF n + 1 \in J THEN Append(f[Len(s)] \o g[n], t[n + 1]) ELSE f[Len(s)] \o g[n]
      BY <3>2, <3>3, <3>4, <3>5, <3>6 DEF PickBody
    <3>8. g[n + 1] = IF n + 1 \in J THEN Append(g[n], t[n + 1]) ELSE g[n]
      BY <3>1, <3>5 DEF PickBody
    <3>9. Append(f[Len(s)] \o g[n], t[n + 1]) = f[Len(s)] \o Append(g[n], t[n + 1])
      <4> DEFINE a == f[Len(s)]
                 b == g[n]
                 x == t[n + 1]
      <4>1. a \in Seq(R) /\ b \in Seq(R) /\ x \in R
        BY <1>8, <3>3, <3>4
      <4> HIDE DEF a, b, x
      <4>2. Append(a \o b, x) = a \o Append(b, x)
        <5>1. a \o b \in Seq(R) /\ <<x>> \in Seq(R)
          BY <4>1
        <5>2. Append(a \o b, x) = (a \o b) \o <<x>> /\ Append(b, x) = b \o <<x>>
          BY <4>1, <5>1, AppendIsConcat
        <5>3. (a \o b) \o <<x>> = a \o (b \o <<x>>)
          BY <4>1, <5>1, ConcatAssociative
        <5> QED BY <5>2, <5>3
      <4> QED BY <4>2 DEF a, b, x
    <3>10. h[k] = f[Len(s)] \o g[n + 1]
      BY <3>7, <3>8, <3>9, Zenon
    <3>11. g[n + 1] \in Seq(R)
      BY <3>3, <3>4, <3>8
    <3> QED BY <3>10, <3>11 DEF k
  <2> HIDE DEF M
  <2>3. M \subseteq Nat
    BY DEF M
  <2> QED BY <2>1, <2>2, <2>3, AllNumbers
<1>10. Joined(Len(t))
  <2> HIDE DEF Joined
  <2> QED BY <1>0, <1>9
<1> QED BY <1>0, <1>1, <1>2, <1>3, <1>8, <1>10

LEMMA PickedEmpty == ASSUME NEW K PROVE Picked(<<>>, K) = <<>>
<1>1. <<>> \in Seq({}) /\ Len(<<>>) = 0
  OBVIOUS
<1>2. PICK h : IsPick(<<>>, K, h) /\ Picked(<<>>, K) = h[Len(<<>>)]
  BY <1>1, PickedIs
<1> QED BY <1>1, <1>2 DEF IsPick, PickBody

LEMMA PickedOne ==
  ASSUME NEW x, NEW K
  PROVE  Picked(<<x>>, K) = IF 1 \in K THEN <<x>> ELSE <<>>
<1>1. <<x>> \in Seq({x}) /\ Len(<<x>>) = 1 /\ <<x>>[1] = x
  OBVIOUS
<1>2. PICK h : IsPick(<<x>>, K, h) /\ Picked(<<x>>, K) = h[Len(<<x>>)]
  BY <1>1, PickedIs
<1>3. h[0] = <<>>
  BY <1>1, <1>2 DEF IsPick, PickBody
<1>4. h[1] = IF 1 \in K THEN Append(h[0], x) ELSE h[0]
  BY <1>1, <1>2, SMTT(30) DEF IsPick, PickBody
<1> QED BY <1>1, <1>2, <1>3, <1>4

\* p is made of the elements of s at the indices in L, in their order: m tells
\* where each comes from.
Enumerates(p, s, m, L) ==
  /\ m \in [1..Len(p) -> L]
  /\ \A j, k \in 1..Len(p) : j < k => m[j] < m[k]
  /\ \A i \in L : \E k \in 1..Len(p) : m[k] = i
  /\ \A k \in 1..Len(p) : p[k] = s[m[k]]

LEMMA EnumerateOneMore ==
  ASSUME NEW R, NEW s \in Seq(R), NEW L, NEW n \in Nat, L \subseteq 1..n, n + 1 \in DOMAIN s,
         NEW p \in Seq(R), NEW m, Enumerates(p, s, m, L)
  PROVE  \E g : Enumerates(Append(p, s[n + 1]), s, g, L \cup {n + 1})
<1> DEFINE q == Append(p, s[n + 1])
           g == [k \in 1..(Len(p) + 1) |-> IF k = Len(p) + 1 THEN n + 1 ELSE m[k]]
<1>1. /\ Len(p) \in Nat /\ Len(q) = Len(p) + 1 /\ q[Len(p) + 1] = s[n + 1]
      /\ \A k \in 1..Len(p) : q[k] = p[k]
  OBVIOUS
<1>2. /\ \A k \in 1..Len(p) : g[k] = m[k] /\ m[k] \in L /\ m[k] \in 1..n
      /\ g[Len(p) + 1] = n + 1
      /\ \A k \in 1..(Len(p) + 1) : k \in 1..Len(p) \/ k = Len(p) + 1
  <2> DEFINE l == Len(p)
  <2>1. m \in [1..l -> L] /\ l \in Nat
    BY <1>1 DEF Enumerates
  <2> HIDE DEF l
  <2>2. \A k \in 1..l : m[k] \in L /\ m[k] \in 1..n
    BY <2>1
  <2>3. \A k \in 1..l : k \in 1..(l + 1) /\ k # l + 1
    BY <2>1
  <2>4. \A k \in 1..(l + 1) : k \in 1..l \/ k = l + 1
    BY <2>1
  <2>5. l + 1 \in 1..(l + 1)
    BY <2>1
  <2> QED BY <2>2, <2>3, <2>4, <2>5 DEF l
<1>3. g \in [1..Len(q) -> L \cup {n + 1}]
  BY <1>1, <1>2
<1> HIDE DEF g, q
<1>4. ASSUME NEW j \in 1..Len(q), NEW k \in 1..Len(q), j < k PROVE g[j] < g[k]
  <2>1. j \in 1..Len(p)
    BY <1>1, <1>4
  <2>2. CASE k \in 1..Len(p)
    BY <1>2, <1>4, <2>1, <2>2 DEF Enumerates
  <2>3. CASE k = Len(p) + 1
    <3>1. g[j] \in 1..n /\ g[k] = n + 1
      BY <1>2, <2>1, <2>3
    <3> QED BY <3>1
  <2> QED BY <1>1, <1>2, <2>2, <2>3
<1>5. ASSUME NEW i \in L \cup {n + 1} PROVE \E k \in 1..Len(q) : g[k] = i
  <2>1. CASE i \in L
    <3>1. PICK k \in 1..Len(p) : m[k] = i
      BY <2>1 DEF Enumerates
    <3>2. k \in 1..Len(q)
      BY <1>1
    <3> QED BY <1>2, <3>1, <3>2
  <2>2. CASE i = n + 1
    BY <1>1, <1>2, <2>2
  <2> QED BY <2>1, <2>2
<1>6. ASSUME NEW k \in 1..Len(q) PROVE q[k] = s[g[k]]
  <2>1. CASE k \in 1..Len(p)
    BY <1>1, <1>2, <2>1 DEF Enumerates
  <2>2. CASE k = Len(p) + 1
    BY <1>1, <1>2, <2>2
  <2> QED BY <1>1, <1>2, <2>1, <2>2
<1>7. Enumerates(q, s, g, L \cup {n + 1})
  BY <1>3, <1>4, <1>5, <1>6 DEF Enumerates
<1> QED BY <1>7 DEF q

LEMMA PickedEnumerates ==
  ASSUME NEW R, NEW s \in Seq(R), NEW K, K \subseteq DOMAIN s
  PROVE  Picked(s, K) \in Seq(R) /\ \E m : Enumerates(Picked(s, K), s, m, K)
<1>0. Len(s) \in Nat /\ DOMAIN s = 1..Len(s)
  OBVIOUS
<1>1. PICK h : IsPick(s, K, h) /\ Picked(s, K) = h[Len(s)]
  BY PickedIs
<1>2. \A n \in 0..Len(s) : h[n] = PickBody(s, K, h, n)
  BY <1>1 DEF IsPick
<1> DEFINE Upto(n) == {i \in K : i <= n}
           Good(n) == h[n] \in Seq(R) /\ \E m : Enumerates(h[n], s, m, Upto(n))
           N == {n \in Nat : n <= Len(s) => Good(n)}
<1>3. 0 \in N
  <2>1. h[0] = <<>>
    BY <1>0, <1>2 DEF PickBody
  <2>2. Upto(0) = {}
    BY <1>0
  <2>3. Enumerates(h[0], s, <<>>, Upto(0))
    <3> HIDE DEF Upto
    <3> QED BY <2>1, <2>2 DEF Enumerates
  <2>4. h[0] \in Seq(R)
    BY <2>1
  <2> HIDE DEF Upto
  <2> QED BY <2>3, <2>4, Zenon
<1>4. ASSUME NEW n \in N PROVE n + 1 \in N
  <2> SUFFICES ASSUME n + 1 <= Len(s) PROVE Good(n + 1)
    <3> HIDE DEF Good
    <3> QED OBVIOUS
  <2>1. n \in Nat /\ n <= Len(s) /\ n + 1 \in DOMAIN s /\ n + 1 \in 0..Len(s) /\ n + 1 # 0
        /\ (n + 1) - 1 = n
    BY <1>0
  <2>2. Good(n)
    <3> HIDE DEF Good
    <3> QED BY <2>1
  <2>3. h[n + 1] = IF n + 1 \in K THEN Append(h[n], s[n + 1]) ELSE h[n]
    <3>1. h[n + 1] = PickBody(s, K, h, n + 1)
      BY <1>2, <2>1
    <3> HIDE DEF N
    <3> QED BY <2>1, <3>1 DEF PickBody
  <2>4. Upto(n + 1) = IF n + 1 \in K THEN Upto(n) \cup {n + 1} ELSE Upto(n)
    <3> HIDE DEF N
    <3> QED BY <1>0, <2>1
  <2>5. Upto(n) \subseteq 1..n
    <3> HIDE DEF N
    <3> QED BY <1>0, <2>1
  <2>6. PICK m : Enumerates(h[n], s, m, Upto(n))
    BY <2>2
  <2> HIDE DEF Upto, N
  <2>7. CASE n + 1 \in K
    <3>1. \E g : Enumerates(Append(h[n], s[n + 1]), s, g, Upto(n) \cup {n + 1})
      BY <2>1, <2>2, <2>5, <2>6, EnumerateOneMore
    <3>2. h[n + 1] \in Seq(R)
      <4>1. s[n + 1] \in R
        BY <2>1
      <4> QED BY <2>2, <2>3, <2>7, <4>1
    <3> QED BY <2>3, <2>4, <2>7, <3>1, <3>2, Zenon
  <2>8. CASE n + 1 \notin K
    BY <2>2, <2>3, <2>4, <2>8, Zenon
  <2> QED BY <2>7, <2>8
<1>5. N = Nat
  <2> HIDE DEF N
  <2>1. N \subseteq Nat
    BY DEF N
  <2> QED BY <1>3, <1>4, <2>1, AllNumbers
<1>6. Good(Len(s))
  <2> HIDE DEF Good
  <2> QED BY <1>0, <1>5
<1>7. Upto(Len(s)) = K
  BY <1>0
<1> HIDE DEF Upto
<1> QED BY <1>1, <1>6, <1>7, Zenon

\* p has the elements of s at the indices in L, each once, in some order.
Places(p, s, m, L) ==
  /\ m \in [1..Len(p) -> L]
  /\ \A j, k \in 1..Len(p) : m[j] = m[k] => j = k
  /\ \A i \in L : \E k \in 1..Len(p) : m[k] = i
  /\ \A k \in 1..Len(p) : p[k] = s[m[k]]

LEMMA PickedPlaces ==
  ASSUME NEW R, NEW s \in Seq(R), NEW K, K \subseteq DOMAIN s
  PROVE  Picked(s, K) \in Seq(R) /\ \E m : Places(Picked(s, K), s, m, K)
<1> DEFINE p == Picked(s, K)
<1>1. p \in Seq(R)
  BY PickedEnumerates
<1>2. PICK m : Enumerates(p, s, m, K)
  BY PickedEnumerates
<1> HIDE DEF p
<1>3. ASSUME NEW j \in 1..Len(p), NEW k \in 1..Len(p), m[j] = m[k] PROVE j = k
  <2>1. j \in Int /\ k \in Int /\ m[j] \in Int /\ m[k] \in Int
    <3>1. Len(p) \in Nat /\ DOMAIN s = 1..Len(s) /\ Len(s) \in Nat
      BY <1>1
    <3>2. m[j] \in K /\ m[k] \in K
      BY <1>2, Zenon DEF Enumerates
    <3> QED BY <3>1, <3>2
  <2>2. (j < k => m[j] < m[k]) /\ (k < j => m[k] < m[j])
    BY <1>2 DEF Enumerates
  <2> QED BY <1>3, <2>1, <2>2
<1>4. Places(p, s, m, K)
  BY <1>2, <1>3 DEF Enumerates, Places
<1> QED BY <1>1, <1>4 DEF p

LEMMA ConcatPlaces ==
  ASSUME NEW R, NEW s, NEW p \in Seq(R), NEW q \in Seq(R), NEW K, NEW L, K \cap L = {},
         \E m : Places(p, s, m, K), \E m : Places(q, s, m, L)
  PROVE  \E m : Places(p \o q, s, m, K \cup L)
<1>1. PICK f : Places(p, s, f, K)
  OBVIOUS
<1>2. PICK g : Places(q, s, g, L)
  OBVIOUS
<1> DEFINE a == Len(p)
           b == Len(q)
           c == p \o q
           m == [k \in 1..(a + b) |-> IF k <= a THEN f[k] ELSE g[k - a]]
<1>3. /\ a \in Nat /\ b \in Nat /\ Len(c) = a + b
      /\ \A k \in 1..(a + b) : c[k] = IF k <= a THEN p[k] ELSE q[k - a]
  BY ConcatProperties
<1>4. /\ f \in [1..a -> K] /\ g \in [1..b -> L]
      /\ \A j, k \in 1..a : f[j] = f[k] => j = k
      /\ \A j, k \in 1..b : g[j] = g[k] => j = k
      /\ \A i \in K : \E k \in 1..a : f[k] = i
      /\ \A i \in L : \E k \in 1..b : g[k] = i
      /\ \A k \in 1..a : p[k] = s[f[k]]
      /\ \A k \in 1..b : q[k] = s[g[k]]
  BY <1>1, <1>2 DEF Places
<1> HIDE DEF a, b, c
<1>5. \A k \in 1..(a + b) : (k <= a => k \in 1..a) /\ (~(k <= a) => k - a \in 1..b)
  BY <1>3
<1>6. ASSUME NEW k \in 1..(a + b)
      PROVE  /\ k <= a => m[k] = f[k] /\ f[k] \in K
             /\ ~(k <= a) => m[k] = g[k - a] /\ g[k - a] \in L
  BY <1>4, <1>5
<1>7. m \in [1..(a + b) -> K \cup L]
  BY <1>6
<1>8. ASSUME NEW j \in 1..(a + b), NEW k \in 1..(a + b), m[j] = m[k] PROVE j = k
  <2> HIDE DEF m
  <2>1. CASE j <= a /\ k <= a
    BY <1>4, <1>5, <1>6, <1>8, <2>1
  <2>2. CASE ~(j <= a) /\ ~(k <= a)
    <3>1. j - a \in 1..b /\ k - a \in 1..b /\ g[j - a] = g[k - a]
      BY <1>5, <1>6, <1>8, <2>2
    <3>2. j - a = k - a
      BY <1>4, <3>1
    <3> QED BY <1>3, <3>2
  <2>3. CASE (j <= a) # (k <= a)
    BY <1>6, <1>8, <2>3
  <2> QED BY <2>1, <2>2, <2>3
<1>9. ASSUME NEW i \in K \cup L PROVE \E k \in 1..(a + b) : m[k] = i
  <2>1. CASE i \in K
    <3>1. PICK k \in 1..a : f[k] = i
      BY <1>4, <2>1
    <3>2. k \in 1..(a + b) /\ k <= a
      BY <1>3
    <3> QED BY <1>6, <3>1, <3>2
  <2>2. CASE i \in L
    <3>1. PICK k \in 1..b : g[k] = i
      BY <1>4, <2>2
    <3>2. a + k \in 1..(a + b) /\ ~(a + k <= a) /\ (a + k) - a = k
      BY <1>3
    <3>3. m[a + k] = i
      BY <1>6, <3>1, <3>2
    <3> QED BY <3>2, <3>3
  <2> QED BY <2>1, <2>2
<1>10. ASSUME NEW k \in 1..(a + b) PROVE c[k] = s[m[k]]
  <2> HIDE DEF m
  <2>1. CASE k <= a
    BY <1>3, <1>4, <1>5, <1>6, <2>1
  <2>2. CASE ~(k <= a)
    <3>1. k - a \in 1..b /\ m[k] = g[k - a] /\ c[k] = q[k - a]
      BY <1>3, <1>5, <1>6, <2>2
    <3>2. q[k - a] = s[g[k - a]]
      BY <1>4, <3>1
    <3> QED BY <3>1, <3>2
  <2> QED BY <2>1, <2>2
<1> HIDE DEF m
<1>11. Places(c, s, m, K \cup L)
  BY <1>3, <1>7, <1>8, <1>9, <1>10 DEF Places
<1> QED BY <1>11 DEF c

----------------------------------------------------------------------------
(* Sums over the indices of a sequence.                                    *)

LEMMA SumLast ==
  ASSUME NEW f, NEW n \in Nat, Ints(f, 1..(n + 1))
  PROVE  SumFunctionOnSet(f, 1..(n + 1)) = SumFunctionOnSet(f, 1..n) + f[n + 1]
<1>1. 1..(n + 1) = (1..n) \cup {n + 1} /\ n + 1 \notin 1..n
  OBVIOUS
<1>2. IsFiniteSet(1..n) /\ Ints(f, 1..n) /\ f[n + 1] \in Int
  BY FS_Interval DEF Ints
<1>3. SumFunctionOnSet(f, (1..n) \cup {n + 1}) = f[n + 1] + SumFunctionOnSet(f, 1..n)
  BY <1>1, <1>2, SumInsert
<1>4. SumFunctionOnSet(f, 1..n) \in Int
  BY <1>2, SumInt
<1>5. SumFunctionOnSet(f, 1..(n + 1)) = SumFunctionOnSet(f, (1..n) \cup {n + 1})
  BY <1>1, Zenon
<1> QED BY <1>2, <1>3, <1>4, <1>5

\* A sum over an interval that is moved by k.
LEMMA SumShifted ==
  ASSUME NEW k \in Nat, NEW u \in Nat, NEW f, NEW g, Ints(f, 1..u), \A i \in 1..u : g[k + i] = f[i]
  PROVE  SumFunctionOnSet(g, (k + 1)..(k + u)) = SumFunctionOnSet(f, 1..u)
<1> DEFINE T == 1..u
           K == (k + 1)..(k + u)
           r == [i \in T |-> k + i]
<1>1. IsFiniteSet(T)
  BY FS_Interval
<1>2. \A i \in T : r[i] = k + i /\ r[i] \in K
  OBVIOUS
<1>3. \A j \in K : \E i \in T : r[i] = j
  <2> SUFFICES ASSUME NEW j \in K PROVE \E i \in T : r[i] = j
    OBVIOUS
  <2>1. j - k \in T /\ k + (j - k) = j
    OBVIOUS
  <2>2. r[j - k] = j
    BY <2>1
  <2> QED BY <2>1, <2>2
<1>4. \A i, j \in T : r[i] = r[j] => i = j
  <2> SUFFICES ASSUME NEW i \in T, NEW j \in T, r[i] = r[j] PROVE i = j
    OBVIOUS
  <2>1. k + i = k + j
    BY <1>2
  <2> QED BY <2>1
<1>5. r \in [T -> K]
  <2> HIDE DEF K, T
  <2> QED BY <1>2
<1>6. \A i \in T : g[r[i]] = f[i]
  BY <1>2
<1>7. Ints(f, T)
  OBVIOUS
<1> HIDE DEF K, T, r
<1>8. SumFunctionOnSet(g, K) = SumFunctionOnSet(f, T)
  BY <1>1, <1>3, <1>4, <1>5, <1>6, <1>7, SumRenamed
<1> QED BY <1>8 DEF K, T

LEMMA SumHead ==
  ASSUME NEW f, NEW g, NEW n \in Nat, Ints(f, 1..(n + 1)), \A i \in 1..n : g[i] = f[i + 1]
  PROVE  SumFunctionOnSet(f, 1..(n + 1)) = f[1] + SumFunctionOnSet(g, 1..n)
<1> DEFINE S == (1..(n + 1)) \ {1}
<1>1. 1 \in 1..(n + 1) /\ IsFiniteSet(1..(n + 1)) /\ IsFiniteSet(1..n)
  BY FS_Interval
<1>2. SumFunctionOnSet(f, 1..(n + 1)) = f[1] + SumFunctionOnSet(f, S)
  <2> DEFINE U == 1..(n + 1)
  <2>1. 1 \in U /\ IsFiniteSet(U) /\ Ints(f, U)
    BY <1>1
  <2> HIDE DEF U
  <2>2. SumFunctionOnSet(f, U) = f[1] + SumFunctionOnSet(f, U \ {1})
    BY <2>1, SumRemove
  <2> QED BY <2>2 DEF U
<1>3. S = (1 + 1)..(1 + n)
  OBVIOUS
<1>4. 1 \in Nat /\ \A i \in 1..n : f[1 + i] = g[i]
  <2> SUFFICES ASSUME NEW i \in 1..n PROVE f[1 + i] = g[i]
    OBVIOUS
  <2>1. 1 + i = i + 1
    OBVIOUS
  <2> QED BY <2>1
<1>5. Ints(g, 1..n)
  BY DEF Ints
<1> HIDE DEF S
<1>6. SumFunctionOnSet(f, S) = SumFunctionOnSet(g, 1..n)
  <2>1. SumFunctionOnSet(f, (1 + 1)..(1 + n)) = SumFunctionOnSet(g, 1..n)
    BY <1>4, <1>5, SumShifted, ZenonT(30)
  <2> QED BY <1>3, <2>1
<1> QED BY <1>2, <1>6

----------------------------------------------------------------------------
(* Sequences of sequences.                                                 *)

FlatBody(q, h, i) == IF i = 1 THEN q[i] ELSE h[i - 1] \o q[i]

IsFlat(q, h) == h = [i \in 1..Len(q) |-> FlatBody(q, h, i)]

FlatUpTo(q, h, n) ==
  /\ h = [i \in 1..Len(q) |-> h[i]]
  /\ \A i \in 1..Len(q) : i <= n => h[i] = FlatBody(q, h, i)

LEMMA FlatExists ==
  ASSUME NEW R, NEW q \in Seq(Seq(R))
  PROVE  \E h : IsFlat(q, h)
<1> DEFINE N == {n \in Nat : \E h : FlatUpTo(q, h, n)}
<1>0. Len(q) \in Nat
  OBVIOUS
<1>1. 0 \in N
  <2> DEFINE h == [i \in 1..Len(q) |-> <<>>]
  <2>1. FlatUpTo(q, h, 0)
    BY <1>0 DEF FlatUpTo
  <2> QED BY <2>1
<1>2. ASSUME NEW n \in N PROVE n + 1 \in N
  <2>1. PICK h : FlatUpTo(q, h, n)
    OBVIOUS
  <2>2. n \in Nat
    OBVIOUS
  <2> DEFINE g == [i \in 1..Len(q) |-> FlatBody(q, h, i)]
  <2>3. ASSUME NEW i \in 1..Len(q), i <= n + 1 PROVE g[i] = FlatBody(q, g, i)
    <3>1. CASE i = 1
      BY <3>1 DEF FlatBody
    <3>2. CASE i # 1
      <4>1. i - 1 \in 1..Len(q) /\ i - 1 <= n
        BY <1>0, <2>2, <2>3, <3>2
      <4>2. g[i - 1] = h[i - 1]
        BY <2>1, <4>1 DEF FlatUpTo
      <4> QED BY <4>2 DEF FlatBody
    <3> QED BY <3>1, <3>2
  <2>4. FlatUpTo(q, g, n + 1)
    BY <2>3 DEF FlatUpTo
  <2> QED BY <2>2, <2>4
<1>3. N = Nat
  <2> HIDE DEF N
  <2>1. N \subseteq Nat
    BY DEF N
  <2> QED BY <1>1, <1>2, <2>1, AllNumbers
<1>4. PICK h : FlatUpTo(q, h, Len(q))
  BY <1>0, <1>3
<1> QED BY <1>4, <1>0 DEF FlatUpTo, IsFlat

\* The recursive function that FlattenSeq is defined with.
LEMMA FlattenIs ==
  ASSUME NEW R, NEW q \in Seq(Seq(R)), Len(q) # 0
  PROVE  \E h : IsFlat(q, h) /\ FlattenSeq(q) = h[Len(q)]
<1> DEFINE h == CHOOSE h : IsFlat(q, h)
<1>1. IsFlat(q, h)
  BY FlatExists
<1>2. FlattenSeq(q) = h[Len(q)]
  BY Zenon DEF FlattenSeq, IsFlat, FlatBody
<1> QED BY <1>1, <1>2

LEMMA FlattenEmpty == FlattenSeq(<<>>) = <<>>
<1>1. Len(<<>>) = 0
  OBVIOUS
<1> QED BY <1>1, Zenon DEF FlattenSeq

\* The values of the function, as far as two sequences agree.
LEMMA FlatAgree ==
  ASSUME NEW R, NEW q \in Seq(Seq(R)), NEW p \in Seq(Seq(R)), Len(q) <= Len(p),
         \A i \in 1..Len(q) : p[i] = q[i],
         NEW f, IsFlat(q, f), NEW g, IsFlat(p, g)
  PROVE  \A i \in 1..Len(q) : g[i] = f[i] /\ f[i] \in Seq(R)
<1> DEFINE n == Len(q)
           N == {k \in Nat : k + 1 <= n => g[k + 1] = f[k + 1] /\ f[k + 1] \in Seq(R)}
<1>0. n \in Nat /\ Len(p) \in Nat
  OBVIOUS
<1>1. \A i \in 1..n : f[i] = FlatBody(q, f, i) /\ g[i] = FlatBody(p, g, i) /\ q[i] \in Seq(R)
  <2>1. \A i \in 1..n : f[i] = FlatBody(q, f, i)
    BY DEF IsFlat
  <2>2. \A i \in 1..Len(p) : g[i] = FlatBody(p, g, i)
    BY DEF IsFlat
  <2>3. \A i \in 1..n : i \in 1..Len(p) /\ q[i] \in Seq(R)
    BY <1>0
  <2> QED BY <2>1, <2>2, <2>3
<1>2. 0 \in N
  BY <1>0, <1>1 DEF FlatBody
<1>3. ASSUME NEW k \in N PROVE k + 1 \in N
  <2>1. k \in Nat
    OBVIOUS
  <2>2. ASSUME (k + 1) + 1 <= n
        PROVE  g[(k + 1) + 1] = f[(k + 1) + 1] /\ f[(k + 1) + 1] \in Seq(R)
    <3> DEFINE i == (k + 1) + 1
    <3>1. i \in 1..n /\ i # 1 /\ i - 1 = k + 1 /\ k + 1 <= n
      BY <1>0, <2>1, <2>2
    <3>2. g[k + 1] = f[k + 1] /\ f[k + 1] \in Seq(R)
      BY <3>1
    <3> HIDE DEF i
    <3>3. f[i] = f[k + 1] \o q[i] /\ g[i] = g[k + 1] \o p[i] /\ q[i] \in Seq(R) /\ p[i] = q[i]
      BY <1>1, <3>1 DEF FlatBody
    <3>4. f[i] \in Seq(R) /\ g[i] = f[i]
      BY <3>2, <3>3
    <3> QED BY <3>4 DEF i
  <2>3. k + 1 \in Nat
    BY <2>1
  <2> QED BY <2>2, <2>3
<1>4. N = Nat
  <2> HIDE DEF N
  <2>1. N \subseteq Nat
    BY DEF N
  <2> QED BY <1>2, <1>3, <2>1, AllNumbers
<1>5. ASSUME NEW i \in 1..n PROVE g[i] = f[i] /\ f[i] \in Seq(R)
  <2>1. i - 1 \in N /\ (i - 1) + 1 = i /\ i <= n
    <3>1. i - 1 \in Nat /\ (i - 1) + 1 = i /\ i <= n
      BY <1>0, <1>5
    <3> HIDE DEF N
    <3> QED BY <1>4, <3>1
  <2> QED BY <2>1
<1> QED BY <1>5

LEMMA FlattenSeqs ==
  ASSUME NEW R, NEW q \in Seq(Seq(R))
  PROVE  FlattenSeq(q) \in Seq(R)
<1>1. CASE Len(q) = 0
  <2>1. q = <<>>
    BY <1>1
  <2>2. <<>> \in Seq(R)
    OBVIOUS
  <2> QED BY <2>1, <2>2, FlattenEmpty
<1>2. CASE Len(q) # 0
  <2>1. PICK h : IsFlat(q, h) /\ FlattenSeq(q) = h[Len(q)]
    BY <1>2, FlattenIs
  <2>2. Len(q) \in 1..Len(q) /\ Len(q) <= Len(q)
    BY <1>2
  <2>3. \A i \in 1..Len(q) : h[i] \in Seq(R)
    BY <2>1, <2>2, FlatAgree
  <2> QED BY <2>1, <2>2, <2>3
<1> QED BY <1>1, <1>2

\* One more sequence is added at the end.
LEMMA FlattenAppend ==
  ASSUME NEW R, NEW q \in Seq(Seq(R)), NEW x \in Seq(R)
  PROVE  FlattenSeq(Append(q, x)) = FlattenSeq(q) \o x
<1> DEFINE p == Append(q, x)
           n == Len(q)
<1>1. /\ p \in Seq(Seq(R)) /\ Len(p) = n + 1 /\ n \in Nat /\ p[n + 1] = x
      /\ \A i \in 1..n : p[i] = q[i]
  OBVIOUS
<1> HIDE DEF p
<1>2. PICK g : IsFlat(p, g) /\ FlattenSeq(p) = g[n + 1]
  <2>1. Len(p) # 0
    BY <1>1
  <2>2. \E g : IsFlat(p, g) /\ FlattenSeq(p) = g[Len(p)]
    BY <1>1, <2>1, FlattenIs
  <2> QED BY <1>1, <2>2
<1>3. g[n + 1] = IF n + 1 = 1 THEN x ELSE g[(n + 1) - 1] \o x
  <2>1. n + 1 \in 1..Len(p)
    BY <1>1
  <2>2. \A i \in 1..Len(p) : g[i] = FlatBody(p, g, i)
    BY <1>2 DEF IsFlat
  <2>3. g[n + 1] = FlatBody(p, g, n + 1)
    BY <2>1, <2>2
  <2> QED BY <1>1, <2>3 DEF FlatBody
<1>4. CASE n = 0
  <2>1. q = <<>>
    BY <1>4
  <2>2. FlattenSeq(q) = <<>>
    BY <2>1, FlattenEmpty
  <2>3. <<>> \o x = x
    OBVIOUS
  <2>4. FlattenSeq(p) = x
    BY <1>2, <1>3, <1>4
  <2> QED BY <2>2, <2>3, <2>4 DEF p
<1>5. CASE n # 0
  <2>1. PICK f : IsFlat(q, f) /\ FlattenSeq(q) = f[n]
    BY <1>5, FlattenIs
  <2>2. n <= Len(p) /\ n \in 1..n /\ (n + 1) - 1 = n /\ n + 1 # 1
    BY <1>1, <1>5
  <2>3. \A i \in 1..n : g[i] = f[i] /\ f[i] \in Seq(R)
    BY <1>1, <1>2, <2>1, <2>2, FlatAgree, Zenon
  <2>4. g[n + 1] = f[n] \o x
    BY <1>3, <2>2, <2>3
  <2> QED BY <1>2, <2>1, <2>4 DEF p
<1> QED BY <1>4, <1>5

----------------------------------------------------------------------------
(* Products and quotients.                                                 *)

LEMMA Distributes == ASSUME NEW c \in Int, NEW x \in Int, NEW y \in Int PROVE c * (x + y) = c * x + c * y
OBVIOUS

LEMMA ProductInt == ASSUME NEW x \in Int, NEW y \in Int PROVE x * y \in Int /\ x * y = y * x
OBVIOUS

LEMMA ProductNat == ASSUME NEW x \in Nat, NEW y \in Nat PROVE x * y \in Nat
OBVIOUS

\* A quotient is rounded down by less than one.
LEMMA Quotient ==
  ASSUME NEW x \in Int, NEW p \in Int, p > 0
  PROVE  x \div p \in Int /\ p * (x \div p) <= x /\ x < p * (x \div p) + p
OBVIOUS

\* Less than one below: no negative number is.
LEMMA NotNegative ==
  ASSUME NEW x \in Int, NEW p \in Int, p > 0, p * x > 0 - p
  PROVE  x >= 0
<1> SUFFICES ASSUME x <= -1 PROVE FALSE
  OBVIOUS
<1>1. p * x <= p * (-1)
  OBVIOUS
<1> QED BY <1>1

LEMMA SumTimes ==
  ASSUME NEW f, NEW g, NEW S, IsFiniteSet(S), Ints(f, S), NEW c \in Int, \A x \in S : g[x] = c * f[x]
  PROVE  SumFunctionOnSet(g, S) = c * SumFunctionOnSet(f, S)
<1> DEFINE X == {T \in SUBSET S : SumFunctionOnSet(g, T) = c * SumFunctionOnSet(f, T)}
<1>1. {} \in X
  <2>1. c * 0 = 0
    OBVIOUS
  <2> QED BY <2>1, SumEmpty
<1>2. ASSUME NEW T \in SUBSET S, NEW x \in S \ T, T \in X PROVE T \cup {x} \in X
  <2>1. IsFiniteSet(T) /\ Ints(f, T) /\ f[x] \in Int
    BY FS_Subset DEF Ints
  <2>2. \A y \in S : g[y] \in Int
    <3> SUFFICES ASSUME NEW y \in S PROVE g[y] \in Int
      OBVIOUS
    <3>1. f[y] \in Int
      BY DEF Ints
    <3> QED BY <3>1, ProductInt
  <2>3. Ints(g, T) /\ g[x] \in Int /\ g[x] = c * f[x]
    BY <2>2 DEF Ints
  <2>4. SumFunctionOnSet(f, T \cup {x}) = f[x] + SumFunctionOnSet(f, T)
    BY <2>1, SumInsert
  <2>5. SumFunctionOnSet(g, T \cup {x}) = g[x] + SumFunctionOnSet(g, T)
    BY <2>1, <2>3, SumInsert
  <2>6. SumFunctionOnSet(f, T) \in Int
    BY <2>1, SumInt
  <2>7. SumFunctionOnSet(g, T) = c * SumFunctionOnSet(f, T)
    BY <1>2
  <2>8. c * (f[x] + SumFunctionOnSet(f, T)) = c * f[x] + c * SumFunctionOnSet(f, T)
    BY <2>1, <2>6, Distributes
  <2> HIDE DEF X
  <2>9. SumFunctionOnSet(g, T \cup {x}) = c * SumFunctionOnSet(f, T \cup {x})
    BY <2>3, <2>4, <2>5, <2>7, <2>8
  <2> QED BY <2>9 DEF X
<1> HIDE DEF X
<1>3. S \in X
  BY <1>1, <1>2, AllSubsets
<1> QED BY <1>3 DEF X

\* Nothing is left out when everything is picked.
LEMMA PickedAll ==
  ASSUME NEW R, NEW s \in Seq(R)
  PROVE  Picked(s, DOMAIN s) = s
<1> DEFINE K == DOMAIN s
<1>0. Len(s) \in Nat /\ K = 1..Len(s)
  OBVIOUS
<1>1. PICK h : IsPick(s, K, h) /\ Picked(s, K) = h[Len(s)]
  BY PickedIs
<1>2. \A n \in 0..Len(s) : h[n] = PickBody(s, K, h, n)
  BY <1>1 DEF IsPick
<1> DEFINE Good(n) == h[n] \in Seq(R) /\ Len(h[n]) = n /\ \A i \in 1..n : h[n][i] = s[i]
           N == {n \in Nat : n <= Len(s) => Good(n)}
<1>3. 0 \in N
  <2>1. h[0] = <<>>
    BY <1>0, <1>2 DEF PickBody
  <2>2. <<>> \in Seq(R) /\ Len(<<>>) = 0
    OBVIOUS
  <2>3. Good(0)
    BY <2>1, <2>2
  <2> HIDE DEF Good
  <2> QED BY <2>3
<1>4. ASSUME NEW n \in N PROVE n + 1 \in N
  <2> SUFFICES ASSUME n + 1 <= Len(s) PROVE Good(n + 1)
    <3> HIDE DEF Good
    <3> QED OBVIOUS
  <2>1. n \in Nat /\ n <= Len(s) /\ n + 1 \in K /\ n + 1 \in 0..Len(s) /\ n + 1 # 0 /\ (n + 1) - 1 = n
    BY <1>0
  <2>2. Good(n)
    <3> HIDE DEF Good
    <3> QED BY <2>1
  <2> HIDE DEF N
  <2>3. h[n + 1] = Append(h[n], s[n + 1]) /\ s[n + 1] \in R
    <3>1. h[n + 1] = PickBody(s, K, h, n + 1)
      BY <1>2, <2>1
    <3>2. s[n + 1] \in R
      BY <2>1
    <3> HIDE DEF K
    <3> QED BY <2>1, <3>1, <3>2 DEF PickBody
  <2> DEFINE p == h[n]
             y == s[n + 1]
             q == Append(p, y)
  <2>4. p \in Seq(R) /\ Len(p) = n /\ y \in R /\ h[n + 1] = q
    BY <2>2, <2>3
  <2> HIDE DEF p, y
  <2>5. q \in Seq(R) /\ Len(q) = n + 1 /\ q[n + 1] = y /\ \A i \in 1..n : q[i] = p[i]
    BY <2>4
  <2>6. \A i \in 1..(n + 1) : i \in 1..n \/ i = n + 1
    BY <2>1
  <2>7. \A i \in 1..n : p[i] = s[i]
    BY <2>2 DEF p
  <2> HIDE DEF q
  <2>8. \A i \in 1..(n + 1) : q[i] = s[i]
    BY <2>5, <2>6, <2>7 DEF y
  <2> QED BY <2>4, <2>5, <2>8
<1>5. N = Nat
  <2> HIDE DEF N
  <2>1. N \subseteq Nat
    BY DEF N
  <2> QED BY <1>3, <1>4, <2>1, AllNumbers
<1>6. Good(Len(s))
  <2> HIDE DEF Good
  <2> QED BY <1>0, <1>5
<1>7. h[Len(s)] = s
  BY <1>0, <1>6, SeqEqual
<1> QED BY <1>1, <1>7
=============================================================================
