---------------------------- MODULE SumTheorems ----------------------------
(***************************************************************************)
(* Facts about SumFunctionOnSet, in which every balance of the kernel is   *)
(* written.  Each is proved by induction over the subsets of a finite set, *)
(* stated of a set of subsets and not of a predicate so that it can be     *)
(* used like any other fact.                                               *)
(***************************************************************************)
EXTENDS Integers, FiniteSets, Functions, FiniteSetTheorems,
        WellFoundedInduction, TLAPS

\* If a subset is good whenever the smaller ones are, then every subset is.
LEMMA SubsetInduction ==
  ASSUME NEW S, IsFiniteSet(S), NEW Good,
         \A T \in SUBSET S :
           (\A U \in SUBSET T : U # T => U \in Good) => T \in Good
  PROVE  S \in Good
<1> DEFINE Bad == {T \in SUBSET S : T \notin Good}
<1> SUFFICES ASSUME Bad # {} PROVE FALSE
  OBVIOUS
<1>1. IsWellFoundedOn(StrictSubsetOrdering(S), FiniteSubsetsOf(S))
  BY FS_StrictSubsetOrderingWellFounded
<1>2. Bad \subseteq FiniteSubsetsOf(S)
  BY FS_FiniteSubsetsOfFinite
<1>3. PICK T \in Bad : \A U \in Bad : ~(<<U, T>> \in StrictSubsetOrdering(S))
  <2> HIDE DEF Bad
  <2>1. QED
    BY <1>1, <1>2, WFMin
<1>4. \A U \in SUBSET T : U # T => <<U, T>> \in StrictSubsetOrdering(S)
  BY DEF StrictSubsetOrdering
<1>5. ASSUME NEW U \in SUBSET T, U # T PROVE U \in Good
  <2>1. U \notin Bad
    BY <1>3, <1>4, <1>5
  <2>2. QED
    BY <2>1
<1>6. QED
  BY <1>5

-----------------------------------------------------------------------------
(* The recursion behind the sum has a solution.                            *)

\* The element the definition of the sum takes first.
Pick(S) == CHOOSE x \in S : TRUE

\* One step of the definition, from the sums of smaller sets.
SumStep(f, g, T) == IF T = {} THEN 0 ELSE f[Pick(T)] + g[T \ {Pick(T)}]

\* g is the table of the sums of S's subsets.
IsSumTable(f, S, g) == g = [T \in SUBSET S |-> SumStep(f, g, T)]

\* A set that is not empty has the element picked from it.
LEMMA PickIn == \A S : S # {} => Pick(S) \in S
  BY DEF Pick

\* Two tables agree wherever both are defined.
LEMMA TablesAgree ==
  ASSUME NEW f, NEW S, IsFiniteSet(S), NEW R, S \subseteq R, NEW g, NEW h,
         IsSumTable(f, S, g), IsSumTable(f, R, h)
  PROVE  g[S] = h[S]
<1> DEFINE Good == {T \in SUBSET S : g[T] = h[T]}
<1>1. ASSUME NEW T \in SUBSET S, \A U \in SUBSET T : U # T => U \in Good
      PROVE  T \in Good
  <2>1. g[T] = SumStep(f, g, T) /\ h[T] = SumStep(f, h, T)
    BY DEF IsSumTable
  <2>2. T # {} => T \ {Pick(T)} \in Good
    BY <1>1, PickIn
  <2>3. QED
    BY <2>1, <2>2 DEF SumStep
<1>2. S \in Good
  <2> HIDE DEF Good
  <2>1. QED
    BY <1>1, SubsetInduction
<1>3. QED
  BY <1>2

\* Every finite set has a table of sums.
LEMMA TableExists ==
  ASSUME NEW f, NEW S, IsFiniteSet(S)
  PROVE  \E g : IsSumTable(f, S, g)
<1> DEFINE Good == {T \in SUBSET S : \E g : IsSumTable(f, T, g)}
<1>1. ASSUME NEW T \in SUBSET S, \A U \in SUBSET T : U # T => U \in Good
      PROVE  T \in Good
  <2> DEFINE Table(U) == CHOOSE g : IsSumTable(f, U, g)
             h == [U \in SUBSET T |-> Table(U)[U]]
             g == [U \in SUBSET T |-> SumStep(f, h, U)]
  <2>1. ASSUME NEW U \in SUBSET T, U # T PROVE IsSumTable(f, U, Table(U))
    <3>1. U \in Good
      BY <1>1, <2>1
    <3>2. QED
      BY <3>1
  <2>2. ASSUME NEW U \in SUBSET T, U # T PROVE g[U] = h[U]
    <3> DEFINE V == U \ {Pick(U)}
    <3>1. Table(U)[U] = SumStep(f, Table(U), U)
      <4>1. IsSumTable(f, U, Table(U))
        BY <2>1, <2>2
      <4>2. QED
        BY <4>1 DEF IsSumTable
    <3>2. U # {} => Table(V)[V] = Table(U)[V]
      <4>1. V \in SUBSET T /\ V # T /\ V \subseteq U /\ IsFiniteSet(V)
        BY <2>2, FS_Subset
      <4>2. IsSumTable(f, V, Table(V)) /\ IsSumTable(f, U, Table(U))
        BY <2>1, <2>2, <4>1
      <4> HIDE DEF V, Table
      <4>3. QED
        BY <4>1, <4>2, TablesAgree
    <3>3. h[U] = Table(U)[U] /\ h[V] = Table(V)[V] /\ g[U] = SumStep(f, h, U)
      OBVIOUS
    <3> HIDE DEF g, h, Table
    <3>4. QED
      BY <3>1, <3>2, <3>3 DEF SumStep
  <2>3. \A U \in SUBSET T : SumStep(f, h, U) = SumStep(f, g, U)
    <3>1. ASSUME NEW U \in SUBSET T, U # {} PROVE h[U \ {Pick(U)}] = g[U \ {Pick(U)}]
      <4>1. U \ {Pick(U)} \in SUBSET T /\ U \ {Pick(U)} # T
        BY <3>1, PickIn
      <4> HIDE DEF g, h
      <4>2. QED
        BY <2>2, <4>1
    <3> HIDE DEF g, h
    <3>2. QED
      BY <3>1 DEF SumStep
  <2>4. IsSumTable(f, T, g)
    BY <2>3 DEF IsSumTable
  <2>5. QED
    BY <2>4
<1>2. S \in Good
  <2> HIDE DEF Good
  <2>1. QED
    BY <1>1, SubsetInduction
<1>3. QED
  BY <1>2

\* The sum is what the table of any larger set says.
LEMMA SumIsTabled ==
  ASSUME NEW f, NEW S, IsFiniteSet(S), NEW R, S \subseteq R, NEW g,
         IsSumTable(f, R, g)
  PROVE  SumFunctionOnSet(f, S) = g[S]
<1> DEFINE t == CHOOSE h : IsSumTable(f, S, h)
<1>1. SumFunctionOnSet(f, S) = t[S]
  BY DEF SumFunctionOnSet, FoldFunctionOnSet, MapThenFoldSet, IsSumTable, SumStep, Pick
<1>2. IsSumTable(f, S, t)
  BY TableExists
<1>3. t[S] = g[S]
  <2> HIDE DEF t
  <2>1. QED
    BY <1>2, TablesAgree
<1>4. QED
  BY <1>1, <1>3

\* The definition, unfolded once.
LEMMA SumUnfolds ==
  ASSUME NEW f, NEW S, IsFiniteSet(S)
  PROVE  SumFunctionOnSet(f, S) =
           IF S = {} THEN 0 ELSE f[Pick(S)] + SumFunctionOnSet(f, S \ {Pick(S)})
<1>1. PICK g : IsSumTable(f, S, g)
  BY TableExists
<1>2. g[S] = SumStep(f, g, S)
  BY <1>1 DEF IsSumTable
<1>3. SumFunctionOnSet(f, S) = g[S]
  BY <1>1, SumIsTabled
<1>4. SumFunctionOnSet(f, S \ {Pick(S)}) = g[S \ {Pick(S)}]
  <2>1. IsFiniteSet(S \ {Pick(S)}) /\ S \ {Pick(S)} \subseteq S
    BY FS_RemoveElement
  <2>2. QED
    BY <1>1, <2>1, SumIsTabled
<1>5. QED
  BY <1>2, <1>3, <1>4 DEF SumStep

-----------------------------------------------------------------------------
(* What a sum is. *)

\* Nothing sums to 0,
LEMMA SumEmpty == \A f : SumFunctionOnSet(f, {}) = 0
  BY SumUnfolds, FS_EmptySet

\* A sum of integers is one, and a natural number if they are.
LEMMA SumInt ==
  ASSUME NEW S, IsFiniteSet(S), NEW f, NEW Number \in {Int, Nat},
         \A x \in S : f[x] \in Number
  PROVE  SumFunctionOnSet(f, S) \in Number
<1> DEFINE Good == {T \in SUBSET S : SumFunctionOnSet(f, T) \in Number}
<1>1. ASSUME NEW T \in SUBSET S, \A U \in SUBSET T : U # T => U \in Good
      PROVE  T \in Good
  <2>1. SumFunctionOnSet(f, T) =
          IF T = {} THEN 0 ELSE f[Pick(T)] + SumFunctionOnSet(f, T \ {Pick(T)})
    BY SumUnfolds, FS_Subset
  <2>2. T # {} => Pick(T) \in T /\ T \ {Pick(T)} \in Good
    BY <1>1, PickIn
  <2>3. QED
    BY <2>1, <2>2
<1>2. S \in Good
  <2> HIDE DEF Good
  <2>1. QED
    BY <1>1, SubsetInduction
<1>3. QED
  BY <1>2

\* Any element may be taken out first.
LEMMA SumTakesOut ==
  ASSUME NEW S, IsFiniteSet(S), NEW f, \A x \in S : f[x] \in Int, NEW x0 \in S
  PROVE  SumFunctionOnSet(f, S) = f[x0] + SumFunctionOnSet(f, S \ {x0})
<1> DEFINE Good == {T \in SUBSET S : \A x \in T :
                      SumFunctionOnSet(f, T) = f[x] + SumFunctionOnSet(f, T \ {x})}
<1>1. ASSUME NEW T \in SUBSET S, \A U \in SUBSET T : U # T => U \in Good
      PROVE  T \in Good
  <2> SUFFICES ASSUME NEW x \in T
               PROVE  SumFunctionOnSet(f, T) = f[x] + SumFunctionOnSet(f, T \ {x})
    OBVIOUS
  <2> DEFINE p == Pick(T)
  <2>1. p \in T
    BY PickIn
  <2>2. \A U \in SUBSET T : IsFiniteSet(U) /\ SumFunctionOnSet(f, U) \in Int
    BY FS_Subset, SumInt
  <2>3. SumFunctionOnSet(f, T) = f[p] + SumFunctionOnSet(f, T \ {p})
    BY <2>2, SumUnfolds
  <2>4. CASE x = p
    BY <2>3, <2>4
  <2>5. CASE x # p
    <3>1. T \ {p} \in Good /\ T \ {x} \in Good
      BY <1>1, <2>1
    <3> DEFINE rest == SumFunctionOnSet(f, (T \ {x}) \ {p})
    <3>2. (T \ {p}) \ {x} = (T \ {x}) \ {p} /\ (T \ {x}) \ {p} \in SUBSET T
      OBVIOUS
    <3>3. SumFunctionOnSet(f, T \ {p}) = f[x] + rest
      BY <2>5, <3>1, <3>2
    <3>4. SumFunctionOnSet(f, T \ {x}) = f[p] + rest
      BY <2>1, <2>5, <3>1
    <3>5. f[x] \in Int /\ f[p] \in Int /\ rest \in Int
      BY <2>1, <2>2, <3>2
    <3> HIDE DEF p, rest
    <3>6. QED
      BY <2>3, <3>3, <3>4, <3>5
  <2>6. QED
    BY <2>4, <2>5
<1>2. S \in Good
  <2> HIDE DEF Good
  <2>1. QED
    BY <1>1, SubsetInduction
<1>3. QED
  BY <1>2

\* The sum depends on the summands only.
LEMMA SumAgrees ==
  ASSUME NEW S, IsFiniteSet(S), NEW f, NEW g, \A x \in S : f[x] = g[x]
  PROVE  SumFunctionOnSet(f, S) = SumFunctionOnSet(g, S)
<1> DEFINE Good == {T \in SUBSET S : SumFunctionOnSet(f, T) = SumFunctionOnSet(g, T)}
<1>1. ASSUME NEW T \in SUBSET S, \A U \in SUBSET T : U # T => U \in Good
      PROVE  T \in Good
  <2>1. \A h : SumFunctionOnSet(h, T) =
          IF T = {} THEN 0 ELSE h[Pick(T)] + SumFunctionOnSet(h, T \ {Pick(T)})
    BY SumUnfolds, FS_Subset
  <2>2. T # {} => Pick(T) \in T /\ T \ {Pick(T)} \in Good
    BY <1>1, PickIn
  <2>3. QED
    BY <2>1, <2>2
<1>2. S \in Good
  <2> HIDE DEF Good
  <2>1. QED
    BY <1>1, SubsetInduction
<1>3. QED
  BY <1>2

-----------------------------------------------------------------------------
(* How sums change and compare. *)

\* Changing one summand changes the sum by as much.
LEMMA SumMoves ==
  ASSUME NEW S, IsFiniteSet(S), NEW f, NEW g, NEW x \in S,
         \A y \in S : f[y] \in Int, g[x] \in Int,
         \A y \in S \ {x} : g[y] = f[y]
  PROVE  SumFunctionOnSet(g, S) = SumFunctionOnSet(f, S) + g[x] - f[x]
<1>1. IsFiniteSet(S \ {x})
  BY FS_RemoveElement
<1>2. \A y \in S : g[y] \in Int
  OBVIOUS
<1>3. SumFunctionOnSet(f, S) = f[x] + SumFunctionOnSet(f, S \ {x})
  BY SumTakesOut
<1>4. SumFunctionOnSet(g, S) = g[x] + SumFunctionOnSet(g, S \ {x})
  BY <1>2, SumTakesOut
<1>5. SumFunctionOnSet(g, S \ {x}) = SumFunctionOnSet(f, S \ {x})
  BY <1>1, SumAgrees
<1>6. SumFunctionOnSet(f, S \ {x}) \in Int
  BY <1>1, SumInt
<1>7. QED
  BY <1>3, <1>4, <1>5, <1>6

\* A sum of sums is the sum of both.
LEMMA SumAdds ==
  ASSUME NEW S, IsFiniteSet(S), NEW f, NEW g, NEW h,
         \A x \in S : f[x] \in Int /\ g[x] \in Int /\ h[x] = f[x] + g[x]
  PROVE  SumFunctionOnSet(h, S) = SumFunctionOnSet(f, S) + SumFunctionOnSet(g, S)
<1> DEFINE Good == {T \in SUBSET S : SumFunctionOnSet(h, T) =
                      SumFunctionOnSet(f, T) + SumFunctionOnSet(g, T)}
<1>1. ASSUME NEW T \in SUBSET S, \A U \in SUBSET T : U # T => U \in Good
      PROVE  T \in Good
  <2> DEFINE p == Pick(T)
             R == T \ {p}
  <2>1. \A k : SumFunctionOnSet(k, T) =
          IF T = {} THEN 0 ELSE k[p] + SumFunctionOnSet(k, R)
    BY SumUnfolds, FS_Subset
  <2>2. CASE T = {}
    BY <2>1, <2>2
  <2>3. CASE T # {}
    <3>1. p \in T /\ R \in Good
      BY <1>1, <2>3, PickIn
    <3>2. SumFunctionOnSet(h, R) = SumFunctionOnSet(f, R) + SumFunctionOnSet(g, R)
      BY <3>1
    <3>3. SumFunctionOnSet(f, R) \in Int /\ SumFunctionOnSet(g, R) \in Int
      <4>1. IsFiniteSet(R) /\ \A x \in R : f[x] \in Int /\ g[x] \in Int
        BY FS_Subset
      <4> HIDE DEF R
      <4>2. QED
        BY <4>1, SumInt
    <3>4. f[p] \in Int /\ g[p] \in Int /\ h[p] = f[p] + g[p]
      BY <3>1
    <3> HIDE DEF p, R
    <3>5. SumFunctionOnSet(h, T) = SumFunctionOnSet(f, T) + SumFunctionOnSet(g, T)
      BY <2>1, <2>3, <3>2, <3>3, <3>4
    <3>6. QED
      BY <3>5
  <2>4. QED
    BY <2>2, <2>3
<1>2. S \in Good
  <2> HIDE DEF Good
  <2>1. QED
    BY <1>1, SubsetInduction
<1>3. QED
  BY <1>2

\* Summands that do not shrink make a sum that does not.
LEMMA SumGrows ==
  ASSUME NEW S, IsFiniteSet(S), NEW f, NEW g,
         \A x \in S : f[x] \in Int /\ g[x] \in Int /\ f[x] <= g[x]
  PROVE  SumFunctionOnSet(f, S) <= SumFunctionOnSet(g, S)
<1> DEFINE more == [x \in S |-> g[x] - f[x]]
<1>1. \A x \in S : f[x] \in Int /\ more[x] \in Nat /\ more[x] \in Int
                   /\ g[x] = f[x] + more[x]
  OBVIOUS
<1> HIDE DEF more
<1>2. SumFunctionOnSet(more, S) \in Nat
  BY <1>1, SumInt
<1>3. SumFunctionOnSet(g, S) = SumFunctionOnSet(f, S) + SumFunctionOnSet(more, S)
  BY <1>1, SumAdds
<1>4. SumFunctionOnSet(f, S) \in Int
  BY SumInt
<1>5. QED
  BY <1>2, <1>3, <1>4

\* Summing over part of a set is summing over all of it what is zero elsewhere.
LEMMA SumWithin ==
  ASSUME NEW S, IsFiniteSet(S), NEW P, P \subseteq S, NEW f, NEW g,
         \A x \in S : f[x] \in Int /\ g[x] = IF x \in P THEN f[x] ELSE 0
  PROVE  SumFunctionOnSet(f, P) = SumFunctionOnSet(g, S)
<1> DEFINE Good == {T \in SUBSET S : SumFunctionOnSet(f, T \cap P) = SumFunctionOnSet(g, T)}
<1>1. ASSUME NEW T \in SUBSET S, \A U \in SUBSET T : U # T => U \in Good
      PROVE  T \in Good
  <2> DEFINE p == Pick(T)
             R == T \ {p}
  <2>1. SumFunctionOnSet(g, T) = IF T = {} THEN 0 ELSE g[p] + SumFunctionOnSet(g, R)
    BY SumUnfolds, FS_Subset
  <2>2. CASE T = {}
    <3>1. T \cap P = {}
      BY <2>2
    <3>2. QED
      BY <2>1, <2>2, <3>1, SumEmpty
  <2>3. CASE T # {}
    <3>1. p \in T /\ R \in Good
      BY <1>1, <2>3, PickIn
    <3>2. SumFunctionOnSet(f, R \cap P) = SumFunctionOnSet(g, R)
      BY <3>1
    <3>3. SumFunctionOnSet(f, R \cap P) \in Int
      <4>1. IsFiniteSet(R \cap P) /\ \A x \in R \cap P : f[x] \in Int
        BY FS_Subset
      <4> HIDE DEF R
      <4>2. QED
        BY <4>1, SumInt
    <3>4. CASE p \in P
      <4> DEFINE Q == T \cap P
      <4>1. IsFiniteSet(Q) /\ p \in Q /\ Q \ {p} = R \cap P /\ \A x \in Q : f[x] \in Int
        BY <3>1, <3>4, FS_Subset
      <4>2. g[p] = f[p]
        BY <3>1, <3>4
      <4> HIDE DEF p, R, Q
      <4>3. SumFunctionOnSet(f, Q) = f[p] + SumFunctionOnSet(f, Q \ {p})
        BY <4>1, SumTakesOut
      <4>4. SumFunctionOnSet(f, Q) = SumFunctionOnSet(g, T)
        BY <2>1, <2>3, <3>2, <4>1, <4>2, <4>3
      <4>5. QED
        BY <4>4 DEF Q
    <3>5. CASE p \notin P
      <4>1. T \cap P = R \cap P /\ g[p] = 0
        BY <3>1, <3>5
      <4> HIDE DEF p, R
      <4>2. SumFunctionOnSet(f, T \cap P) = SumFunctionOnSet(g, T)
        BY <2>1, <2>3, <3>2, <3>3, <4>1
      <4>3. QED
        BY <4>2
    <3>6. QED
      BY <3>4, <3>5
  <2>4. QED
    BY <2>2, <2>3
<1>2. S \in Good
  <2> HIDE DEF Good
  <2>1. QED
    BY <1>1, SubsetInduction
<1>3. S \cap P = P
  OBVIOUS
<1>4. QED
  BY <1>2, <1>3

\* and so do noughts.
LEMMA SumZero ==
  ASSUME NEW S, IsFiniteSet(S), NEW f, \A x \in S : f[x] = 0
  PROVE  SumFunctionOnSet(f, S) = 0
<1>1. \A x \in S : f[x] \in Int /\ f[x] = IF x \in {} THEN f[x] ELSE 0
  OBVIOUS
<1>2. SumFunctionOnSet(f, {}) = SumFunctionOnSet(f, S)
  BY <1>1, SumWithin
<1>3. QED
  BY <1>2, SumEmpty

\* Part of what there is, of things that cost nothing or more, sums to no more.
LEMMA SumOfPart ==
  ASSUME NEW S, IsFiniteSet(S), NEW P, P \subseteq S, NEW f, \A x \in S : f[x] \in Nat
  PROVE  SumFunctionOnSet(f, P) <= SumFunctionOnSet(f, S)
<1> DEFINE g == [x \in S |-> IF x \in P THEN f[x] ELSE 0]
<1>1. \A x \in S : /\ f[x] \in Int /\ g[x] \in Int /\ g[x] <= f[x]
                   /\ g[x] = IF x \in P THEN f[x] ELSE 0
  OBVIOUS
<1> HIDE DEF g
<1>2. SumFunctionOnSet(f, P) = SumFunctionOnSet(g, S)
  BY <1>1, SumWithin
<1>3. SumFunctionOnSet(g, S) <= SumFunctionOnSet(f, S)
  BY <1>1, SumGrows
<1>4. QED
  BY <1>2, <1>3

\* What each owner has adds up to what there is.
LEMMA SumByOwner ==
  ASSUME NEW S, IsFiniteSet(S), NEW C, IsFiniteSet(C), NEW f, NEW owner, NEW own, NEW g,
         \A x \in S : f[x] \in Int /\ owner[x] \in C,
         \A c \in C : /\ g[c] = SumFunctionOnSet(f, own[c]) /\ own[c] \subseteq S
                      /\ \A x \in S : x \in own[c] <=> owner[x] = c
  PROVE  SumFunctionOnSet(g, C) = SumFunctionOnSet(f, S)
<1> DEFINE Own(T, c) == {x \in T : owner[x] = c}
           Shares(T) == [c \in C |-> SumFunctionOnSet(f, Own(T, c))]
           Good == {T \in SUBSET S : SumFunctionOnSet(Shares(T), C) = SumFunctionOnSet(f, T)}
<1>1. ASSUME NEW T \in SUBSET S, NEW c \in C
      PROVE  IsFiniteSet(Own(T, c)) /\ Shares(T)[c] \in Int
  <2>1. IsFiniteSet(Own(T, c)) /\ \A x \in Own(T, c) : f[x] \in Int
    BY FS_Subset
  <2> HIDE DEF Own
  <2>2. QED
    BY <2>1, SumInt
<1>2. ASSUME NEW T \in SUBSET S, \A U \in SUBSET T : U # T => U \in Good
      PROVE  T \in Good
  <2> DEFINE p == Pick(T)
             R == T \ {p}
             o == owner[p]
  <2>1. CASE T = {}
    <3>1. \A c \in C : Own(T, c) = {}
      BY <2>1
    <3>2. \A c \in C : Shares(T)[c] = 0
      BY <3>1, SumEmpty
    <3> HIDE DEF Shares
    <3>3. SumFunctionOnSet(Shares(T), C) = 0
      BY <3>2, SumZero
    <3>4. SumFunctionOnSet(f, T) = 0
      BY <2>1, SumEmpty
    <3>5. QED
      BY <3>3, <3>4
  <2>2. CASE T # {}
    <3>1. p \in T /\ R \in Good /\ R \in SUBSET S /\ o \in C
      BY <1>2, <2>2, PickIn
    <3>2. SumFunctionOnSet(Shares(R), C) = SumFunctionOnSet(f, R)
      BY <3>1
    <3>3. \A c \in C \ {o} : Own(T, c) = Own(R, c)
      OBVIOUS
    <3>4. \A c \in C \ {o} : Shares(T)[c] = Shares(R)[c]
      BY <3>3
    <3>5. Shares(T)[o] = f[p] + Shares(R)[o]
      <4>1. p \in Own(T, o) /\ Own(T, o) \ {p} = Own(R, o)
        BY <3>1
      <4>2. IsFiniteSet(Own(T, o)) /\ \A x \in Own(T, o) : f[x] \in Int
        BY <1>1, <3>1
      <4>3. Shares(T)[o] = SumFunctionOnSet(f, Own(T, o))
            /\ Shares(R)[o] = SumFunctionOnSet(f, Own(R, o))
        BY <3>1
      <4> HIDE DEF p, R, o, Own, Shares
      <4>4. SumFunctionOnSet(f, Own(T, o)) = f[p] + SumFunctionOnSet(f, Own(T, o) \ {p})
        BY <4>1, <4>2, SumTakesOut
      <4>5. QED
        BY <4>1, <4>3, <4>4
    <3>6. /\ \A c \in C : Shares(T)[c] \in Int /\ Shares(R)[c] \in Int
          /\ f[p] \in Int
      <4> HIDE DEF Shares
      <4>1. QED
        BY <1>1, <3>1
    <3>7. SumFunctionOnSet(f, T) = f[p] + SumFunctionOnSet(f, R)
      BY <2>2, FS_Subset, SumUnfolds
    <3> DEFINE big   == Shares(T)
               small == Shares(R)
    <3> HIDE DEF Shares, p, R, o
    <3>8. SumFunctionOnSet(big, C) = SumFunctionOnSet(small, C) + big[o] - small[o]
      <4>1. /\ o \in C /\ big[o] \in Int
            /\ \A c \in C : small[c] \in Int
            /\ \A c \in C \ {o} : big[c] = small[c]
        BY <3>1, <3>4, <3>6
      <4> HIDE DEF big, small
      <4>2. QED
        BY <4>1, SumMoves
    <3>9. SumFunctionOnSet(Shares(R), C) \in Int
      BY <3>6, SumInt
    <3>10. SumFunctionOnSet(Shares(T), C) = SumFunctionOnSet(f, T)
      BY <3>1, <3>2, <3>5, <3>6, <3>7, <3>8, <3>9
    <3>11. QED
      BY <3>10
  <2>3. QED
    BY <2>1, <2>2
<1>3. S \in Good
  <2> HIDE DEF Good
  <2>1. QED
    BY <1>2, SubsetInduction
<1>4. ASSUME NEW c \in C PROVE g[c] = Shares(S)[c]
  <2>1. own[c] = Own(S, c)
    OBVIOUS
  <2>2. QED
    BY <2>1
<1>5. SumFunctionOnSet(g, C) = SumFunctionOnSet(Shares(S), C)
  <2> HIDE DEF Shares
  <2>1. QED
    BY <1>4, SumAgrees
<1>6. QED
  BY <1>3, <1>5
=============================================================================
