---------------------------- MODULE Newsroom_proofs ----------------------------
(***************************************************************************)
(* Theorems about Expenditure, for any number of jobs, workers and         *)
(* requests, whatever a model call may cost; and about MorningCycle, for   *)
(* any number of processes, whichever systems answer, whatever the cap,    *)
(* the sizes of queries and the items of a plan.                           *)
(***************************************************************************)
EXTENDS Expenditure, MorningCycle, FiniteSetTheorems, WellFoundedInduction, TLAPS

--------------------------------------------------------------------------------
(***************************************************************************)
(* Sums: what SumFunctionOnSet of the community modules adds up to.  The   *)
(* induction is over finite sets: a smallest set of which a fact does not  *)
(* hold cannot exist.                                                      *)
(***************************************************************************)

\* The element that a sum adds next.
Picked(T) == CHOOSE x \in T : TRUE

\* g[T] is the sum of f over T, for every part T of S.
AddsUp(f, S, g) ==
  g = [T \in SUBSET S |-> IF T = {} THEN 0 ELSE f[Picked(T)] + g[T \ {Picked(T)}]]

LEMMA PickedIn ==
  ASSUME NEW T, T # {}
  PROVE  Picked(T) \in T
  BY DEF Picked

\* A non-empty set of finite parts of S has one of which no part is in it.
LEMMA HasSmallest ==
  ASSUME NEW S, NEW F, F # {}, \A T \in F : T \in SUBSET S /\ IsFiniteSet(T)
  PROVE  \E T \in F : \A U \in SUBSET T : U # T => U \notin F
  <1>1. F \subseteq FiniteSubsetsOf(S)
    BY DEF FiniteSubsetsOf
  <1>2. IsWellFoundedOn(StrictSubsetOrdering(S), FiniteSubsetsOf(S))
    BY FS_StrictSubsetOrderingWellFounded
  <1>3. PICK T \in F : \A U \in F : ~(<<U, T>> \in StrictSubsetOrdering(S))
    BY <1>1, <1>2, WFMin
  <1>4. \A U \in SUBSET T : U # T => U \notin F
    <2>. SUFFICES ASSUME NEW U \in SUBSET T, U # T, U \in F PROVE FALSE
      OBVIOUS
    <2>1. <<U, T>> \in (SUBSET S) \X (SUBSET S) /\ U \subseteq T
      OBVIOUS
    <2>2. <<U, T>> \in StrictSubsetOrdering(S)
      BY <2>1 DEF StrictSubsetOrdering
    <2>. QED  BY <1>3, <2>2
  <1>. QED  BY <1>4

\* There are such sums: parts of at most n elements have them, for n up to the size of S.
LEMMA SumsExist ==
  ASSUME NEW S, IsFiniteSet(S), NEW f, \A x \in S : f[x] \in Int
  PROVE  \E g \in [SUBSET S -> Int] : AddsUp(f, S, g)
  <1>. DEFINE Small(n) == {T \in SUBSET S : Cardinality(T) <= n}
              Right(g, T) == g[T] = IF T = {} THEN 0 ELSE f[Picked(T)] + g[T \ {Picked(T)}]
              UpTo(n) == \E g \in [Small(n) -> Int] : \A T \in Small(n) : Right(g, T)
              N == Cardinality(S)
              F == {0 .. n : n \in {k \in 0 .. N : ~UpTo(k)}}
  <1>1. /\ N \in Nat /\ Cardinality({}) = 0
        /\ \A T \in SUBSET S : IsFiniteSet(T) /\ Cardinality(T) \in Nat /\ Cardinality(T) <= N
        /\ \A T \in SUBSET S : T # {} => /\ Picked(T) \in T
                                         /\ Cardinality(T \ {Picked(T)}) = Cardinality(T) - 1
        /\ \A T \in SUBSET S : Cardinality(T) = 0 <=> T = {}
    BY FS_Subset, FS_CardinalityType, FS_EmptySet, FS_RemoveElement, PickedIn
  <1>. HIDE DEF N
  <1>2. UpTo(0)
    <2>1. Small(0) = {{}}
      BY <1>1
    <2>. DEFINE g == [T \in Small(0) |-> 0]
    <2>2. g \in [Small(0) -> Int] /\ \A T \in Small(0) : Right(g, T)
      BY <2>1
    <2>. QED  BY <2>2
  <1>3. ASSUME NEW n \in 0 .. N, n # 0, UpTo(n - 1) PROVE UpTo(n)
    <2>1. PICK g \in [Small(n - 1) -> Int] : \A T \in Small(n - 1) : Right(g, T)
      BY <1>3
    <2>. DEFINE h == [T \in Small(n) |-> IF T \in Small(n - 1) THEN g[T]
                                         ELSE f[Picked(T)] + g[T \ {Picked(T)}]]
    <2>2. \A T \in Small(n) : T # {} => T \ {Picked(T)} \in Small(n - 1) /\ Picked(T) \in S
      BY <1>1
    <2>3. Small(n - 1) \subseteq Small(n) /\ {} \in Small(n - 1)
      <3>1. n \in Int /\ 0 <= n - 1
        BY <1>1, <1>3
      <3>2. \A T \in SUBSET S : Cardinality(T) <= n - 1 => Cardinality(T) <= n
        BY <1>1, <3>1
      <3>3. {} \in SUBSET S /\ Cardinality({}) <= n - 1
        BY <1>1, <3>1
      <3>. QED  BY <3>2, <3>3
    <2>. HIDE DEF Small
    <2>4. h \in [Small(n) -> Int]
      <3>1. \A T \in Small(n - 1) : g[T] \in Int
        BY <2>1
      <3>2. \A T \in Small(n) : T \notin Small(n - 1)
                              => f[Picked(T)] + g[T \ {Picked(T)}] \in Int
        <4>. SUFFICES ASSUME NEW T \in Small(n), T \notin Small(n - 1)
                      PROVE  f[Picked(T)] + g[T \ {Picked(T)}] \in Int
          OBVIOUS
        <4>1. T # {}
          BY <2>3
        <4>2. T \ {Picked(T)} \in Small(n - 1) /\ Picked(T) \in S
          BY <2>2, <4>1
        <4>3. f[Picked(T)] \in Int /\ g[T \ {Picked(T)}] \in Int
          BY <3>1, <4>2
        <4>. QED  BY <4>3
      <3>. QED  BY <3>1, <3>2
    <2>5. \A T \in Small(n) : Right(h, T)
      <3>. SUFFICES ASSUME NEW T \in Small(n) PROVE Right(h, T)
        OBVIOUS
      <3>1. \A U \in Small(n - 1) : h[U] = g[U]
        BY <2>3
      <3>2. CASE T \in Small(n - 1)
        BY <2>1, <2>2, <3>1, <3>2
      <3>3. CASE T \notin Small(n - 1)
        BY <2>2, <2>3, <3>1, <3>3
      <3>. QED  BY <3>2, <3>3
    <2>. QED  BY <2>4, <2>5
  <1>4. UpTo(N)
    <2>. SUFFICES ASSUME ~UpTo(N) PROVE FALSE
      OBVIOUS
    <2>. HIDE DEF UpTo
    <2>1. F # {} /\ \A T \in F : T \in SUBSET (0 .. N) /\ IsFiniteSet(T)
      <3>1. N \in 0 .. N /\ \A n \in 0 .. N : IsFiniteSet(0 .. n)
        BY <1>1, FS_Interval
      <3>. QED  BY <3>1
    <2>2. PICK T \in F : \A U \in SUBSET T : U # T => U \notin F
      <3>. HIDE DEF F
      <3>. QED  BY <2>1, HasSmallest
    <2>3. PICK n \in 0 .. N : T = 0 .. n /\ ~UpTo(n)
      OBVIOUS
    <2>4. n # 0 /\ n - 1 \in 0 .. N
      BY <1>1, <1>2, <2>3
    <2>5. ~UpTo(n - 1)
      BY <1>3, <2>3, <2>4
    <2>6. 0 .. n - 1 \in F /\ 0 .. n - 1 \in SUBSET T /\ 0 .. n - 1 # T
      <3>1. n \in 0 .. n /\ n \notin 0 .. n - 1 /\ 0 .. n - 1 \subseteq 0 .. n
        BY <2>3, <2>4
      <3>. QED  BY <2>3, <2>4, <2>5, <3>1
    <2>. QED  BY <2>2, <2>6
  <1>5. Small(N) = SUBSET S
    BY <1>1
  <1>6. PICK g \in [SUBSET S -> Int] : \A T \in SUBSET S : Right(g, T)
    BY <1>4, <1>5
  <1>7. AddsUp(f, S, g)
    BY <1>6 DEF AddsUp
  <1>. QED  BY <1>6, <1>7

LEMMA SumIsOne ==
  ASSUME NEW S, IsFiniteSet(S), NEW f, \A x \in S : f[x] \in Int
  PROVE  \E g : AddsUp(f, S, g) /\ SumFunctionOnSet(f, S) = g[S]
  <1>. DEFINE g == CHOOSE g : AddsUp(f, S, g)
  <1>1. AddsUp(f, S, g)
    BY SumsExist
  <1>2. SumFunctionOnSet(f, S) = g[S]
    BY DEF SumFunctionOnSet, FoldFunctionOnSet, MapThenFoldSet, AddsUp, Picked
  <1>. QED  BY <1>1, <1>2

\* Sums over the parts of T do not depend on the set that T is a part of.
LEMMA SumsAgree ==
  ASSUME NEW S, IsFiniteSet(S), NEW T \in SUBSET S, NEW f, NEW g, NEW h,
         AddsUp(f, S, g), AddsUp(f, T, h)
  PROVE  \A U \in SUBSET T : g[U] = h[U]
  <1>. DEFINE F == {U \in SUBSET T : g[U] # h[U]}
  <1>. SUFFICES ASSUME F # {} PROVE FALSE
    OBVIOUS
  <1>1. \A U \in F : U \in SUBSET S /\ IsFiniteSet(U)
    BY FS_Subset
  <1>2. PICK U \in F : \A V \in SUBSET U : V # U => V \notin F
    <2>. HIDE DEF F
    <2>. QED  BY <1>1, HasSmallest
  <1>3. CASE U = {}
    BY <1>3 DEF AddsUp
  <1>4. CASE U # {}
    <2>. DEFINE V == U \ {Picked(U)}
    <2>1. Picked(U) \in U
      BY <1>4, PickedIn
    <2>2. V \in SUBSET U /\ V # U
      BY <2>1
    <2>3. g[V] = h[V]
      BY <1>2, <2>2
    <2>4. g[U] = f[Picked(U)] + g[V]
      BY <1>4 DEF AddsUp
    <2>5. h[U] = f[Picked(U)] + h[V]
      BY <1>4 DEF AddsUp
    <2>. QED  BY <2>3, <2>4, <2>5
  <1>. QED  BY <1>3, <1>4

LEMMA SumEmpty ==
  ASSUME NEW f
  PROVE  SumFunctionOnSet(f, {}) = 0
  <1>1. IsFiniteSet({})
    BY FS_EmptySet
  <1>2. PICK g : AddsUp(f, {}, g) /\ SumFunctionOnSet(f, {}) = g[{}]
    BY <1>1, SumIsOne
  <1>. QED  BY <1>2 DEF AddsUp

\* A sum is one of its elements, and the sum of the rest.
LEMMA SumPicks ==
  ASSUME NEW S, IsFiniteSet(S), NEW f, \A x \in S : f[x] \in Int, S # {}
  PROVE  SumFunctionOnSet(f, S) = f[Picked(S)] + SumFunctionOnSet(f, S \ {Picked(S)})
  <1>. DEFINE T == S \ {Picked(S)}
  <1>1. T \in SUBSET S /\ IsFiniteSet(T) /\ \A x \in T : f[x] \in Int
    BY FS_Subset
  <1>2. PICK g : AddsUp(f, S, g) /\ SumFunctionOnSet(f, S) = g[S]
    BY SumIsOne
  <1>3. PICK h : AddsUp(f, T, h) /\ SumFunctionOnSet(f, T) = h[T]
    BY <1>1, SumIsOne
  <1>4. g[T] = h[T]
    BY <1>1, <1>2, <1>3, SumsAgree
  <1>5. g[S] = f[Picked(S)] + g[T]
    BY <1>2 DEF AddsUp
  <1>. QED  BY <1>2, <1>3, <1>4, <1>5

LEMMA SumType ==
  ASSUME NEW S, IsFiniteSet(S), NEW f, \A x \in S : f[x] \in Int
  PROVE  SumFunctionOnSet(f, S) \in Int
  <1>1. PICK g \in [SUBSET S -> Int] : AddsUp(f, S, g)
    BY SumsExist
  <1>2. PICK h : AddsUp(f, S, h) /\ SumFunctionOnSet(f, S) = h[S]
    BY SumIsOne
  <1>3. S \in SUBSET S /\ g[S] = h[S]
    BY <1>1, <1>2, SumsAgree
  <1>. QED  BY <1>1, <1>2, <1>3

\* It does not matter which element.
LEMMA SumSplits ==
  ASSUME NEW S, IsFiniteSet(S), NEW f, \A x \in S : f[x] \in Int, NEW x \in S
  PROVE  SumFunctionOnSet(f, S) = f[x] + SumFunctionOnSet(f, S \ {x})
  <1>. DEFINE Total(T) == SumFunctionOnSet(f, T)
              Splits(T) == \A y \in T : Total(T) = f[y] + Total(T \ {y})
              F == {T \in SUBSET S : ~Splits(T)}
  <1>. SUFFICES ASSUME F # {} PROVE FALSE
    OBVIOUS
  <1>1. \A T \in SUBSET S : IsFiniteSet(T) /\ Total(T) \in Int
    BY FS_Subset, SumType
  <1>2. \A T \in SUBSET S : T # {} => /\ Picked(T) \in T
                                      /\ Total(T) = f[Picked(T)] + Total(T \ {Picked(T)})
    BY FS_Subset, SumPicks, PickedIn
  <1>. HIDE DEF Total
  <1>3. PICK T \in F : \A U \in SUBSET T : U # T => U \notin F
    <2>1. \A T \in F : T \in SUBSET S /\ IsFiniteSet(T)
      BY <1>1
    <2>. HIDE DEF F
    <2>. QED  BY <2>1, HasSmallest
  <1>4. PICK y \in T : Total(T) # f[y] + Total(T \ {y})
    BY <1>3
  <1>. DEFINE z == Picked(T)
  <1>5. T \in SUBSET S /\ z \in T /\ Total(T) = f[z] + Total(T \ {z})
    BY <1>2, <1>4
  <1>6. z # y
    BY <1>4, <1>5
  <1>7. Splits(T \ {y}) /\ Splits(T \ {z})
    BY <1>3, <1>4, <1>5
  <1>8. Total(T \ {y}) = f[z] + Total((T \ {y}) \ {z}) /\ Total(T \ {z}) = f[y] + Total((T \ {z}) \ {y})
    BY <1>4, <1>5, <1>6, <1>7
  <1>9. (T \ {y}) \ {z} = (T \ {z}) \ {y}
    OBVIOUS
  <1>10. /\ f[y] \in Int /\ f[z] \in Int /\ Total((T \ {z}) \ {y}) \in Int
         /\ Total(T) \in Int /\ Total(T \ {y}) \in Int /\ Total(T \ {z}) \in Int
    BY <1>1, <1>4, <1>5
  <1>. HIDE DEF z, F, Splits
  <1>11. Total(T \ {y}) = f[z] + Total((T \ {z}) \ {y})
    BY <1>8, <1>9
  <1>. QED  BY <1>4, <1>5, <1>8, <1>10, <1>11

\* Functions that agree on a set have one sum over it.
LEMMA SumAgrees ==
  ASSUME NEW S, IsFiniteSet(S), NEW f, NEW g, \A x \in S : f[x] \in Int /\ g[x] = f[x]
  PROVE  SumFunctionOnSet(g, S) = SumFunctionOnSet(f, S)
  <1>. DEFINE F == {T \in SUBSET S : SumFunctionOnSet(g, T) # SumFunctionOnSet(f, T)}
  <1>. SUFFICES ASSUME F # {} PROVE FALSE
    OBVIOUS
  <1>1. \A T \in F : T \in SUBSET S /\ IsFiniteSet(T)
    BY FS_Subset
  <1>2. PICK T \in F : \A U \in SUBSET T : U # T => U \notin F
    <2>. HIDE DEF F
    <2>. QED  BY <1>1, HasSmallest
  <1>3. CASE T = {}
    BY <1>2, <1>3, SumEmpty
  <1>4. CASE T # {}
    <2>. DEFINE x == Picked(T)
    <2>1. x \in T /\ IsFiniteSet(T) /\ \A y \in T : f[y] \in Int /\ g[y] = f[y]
      BY <1>1, <1>4, PickedIn
    <2>2. SumFunctionOnSet(f, T) = f[x] + SumFunctionOnSet(f, T \ {x})
      BY <1>4, <2>1, SumPicks
    <2>3. SumFunctionOnSet(g, T) = g[x] + SumFunctionOnSet(g, T \ {x})
      BY <1>4, <2>1, SumPicks
    <2>. HIDE DEF x
    <2>4. SumFunctionOnSet(g, T \ {x}) = SumFunctionOnSet(f, T \ {x})
      BY <1>2, <2>1
    <2>. QED  BY <2>1, <2>2, <2>3, <2>4
  <1>. QED  BY <1>3, <1>4

\* What the parts of a set add up to, if nothing is negative, is at most what it adds up to.
LEMMA SumGrows ==
  ASSUME NEW S, IsFiniteSet(S), NEW f, \A x \in S : f[x] \in Nat
  PROVE  /\ SumFunctionOnSet(f, S) \in Nat
         /\ \A T \in SUBSET S : SumFunctionOnSet(f, T) <= SumFunctionOnSet(f, S)
  <1>. DEFINE Total(T) == SumFunctionOnSet(f, T)
              Fine(T) == Total(T) \in Nat /\ \A U \in SUBSET T : Total(U) <= Total(T)
              F == {T \in SUBSET S : ~Fine(T)}
  <1>. SUFFICES ASSUME F # {} PROVE FALSE
    OBVIOUS
  <1>a. \A T \in SUBSET S : IsFiniteSet(T) /\ \A x \in T : f[x] \in Nat /\ f[x] \in Int
    BY FS_Subset
  <1>b. \A T \in SUBSET S : Total(T) \in Int /\ \A x \in T : Total(T) = f[x] + Total(T \ {x})
    BY <1>a, SumType, SumSplits
  <1>1. /\ \A T \in SUBSET S : IsFiniteSet(T) /\ Total(T) \in Int
        /\ \A T \in SUBSET S : \A x \in T : Total(T) = f[x] + Total(T \ {x})
        /\ Total({}) = 0
    BY <1>a, <1>b, SumEmpty
  <1>. HIDE DEF Total
  <1>2. PICK T \in F : \A U \in SUBSET T : U # T => U \notin F
    <2>1. \A T \in F : T \in SUBSET S /\ IsFiniteSet(T)
      BY <1>1
    <2>. HIDE DEF F
    <2>. QED  BY <2>1, HasSmallest
  <1>3. CASE T = {}
    <2>1. \A U \in SUBSET T : U = {}
      BY <1>3
    <2>2. Total(T) = 0 /\ \A U \in SUBSET T : Total(U) = 0
      BY <1>1, <1>3, <2>1
    <2>. QED  BY <1>2, <2>2
  <1>4. CASE T # {}
    <2>1. \A y \in T : /\ f[y] \in Nat /\ Total(T) = f[y] + Total(T \ {y})
                       /\ Fine(T \ {y})
      BY <1>1, <1>2
    <2>2. Total(T) \in Nat
      <3>1. PICK y \in T : TRUE
        BY <1>4
      <3>2. f[y] \in Nat /\ Total(T \ {y}) \in Nat /\ Total(T) = f[y] + Total(T \ {y})
        BY <2>1
      <3>. QED  BY <3>2
    <2>3. ASSUME NEW U \in SUBSET T PROVE Total(U) <= Total(T)
      <3>1. CASE U = T
        BY <2>2, <3>1
      <3>2. CASE U # T
        <4>1. PICK y \in T : y \notin U
          BY <3>2
        <4>2. U \in SUBSET (T \ {y})
          BY <4>1
        <4>3. Total(U) <= Total(T \ {y}) /\ Total(T \ {y}) \in Nat /\ Total(T) = f[y] + Total(T \ {y})
              /\ f[y] \in Nat
          BY <2>1, <4>2
        <4>4. Total(U) \in Int
          BY <1>1
        <4>. QED  BY <4>3, <4>4
      <3>. QED  BY <3>1, <3>2
    <2>. QED  BY <1>2, <2>2, <2>3
  <1>. QED  BY <1>3, <1>4

\* A sum of nothing but zeros.
LEMMA SumIsZero ==
  ASSUME NEW S, IsFiniteSet(S), NEW f, \A x \in S : f[x] = 0
  PROVE  SumFunctionOnSet(f, S) = 0
  <1>. DEFINE F == {T \in SUBSET S : SumFunctionOnSet(f, T) # 0}
  <1>. SUFFICES ASSUME F # {} PROVE FALSE
    OBVIOUS
  <1>1. \A T \in F : T \in SUBSET S /\ IsFiniteSet(T)
    BY FS_Subset
  <1>2. PICK T \in F : \A U \in SUBSET T : U # T => U \notin F
    <2>. HIDE DEF F
    <2>. QED  BY <1>1, HasSmallest
  <1>3. T # {} /\ IsFiniteSet(T) /\ \A x \in T : f[x] \in Int /\ f[x] = 0
    <2>1. T # {}
      BY <1>2, SumEmpty
    <2>2. T \in SUBSET S /\ IsFiniteSet(T)
      BY <1>1
    <2>. QED  BY <2>1, <2>2
  <1>4. Picked(T) \in T
    BY <1>3, PickedIn
  <1>5. SumFunctionOnSet(f, T) = f[Picked(T)] + SumFunctionOnSet(f, T \ {Picked(T)})
    BY <1>3, SumPicks
  <1>6. SumFunctionOnSet(f, T \ {Picked(T)}) = 0
    BY <1>2, <1>4
  <1>. QED  BY <1>2, <1>3, <1>4, <1>5, <1>6

LEMMA SumOfOne ==
  ASSUME NEW f, NEW x, f[x] \in Int
  PROVE  SumFunctionOnSet(f, {x}) = f[x]
  <1>1. IsFiniteSet({x}) /\ {x} \ {x} = {}
    BY FS_Singleton
  <1>2. SumFunctionOnSet(f, {x}) = f[x] + SumFunctionOnSet(f, {x} \ {x})
    BY <1>1, SumSplits
  <1>. QED  BY <1>1, <1>2, SumEmpty

--------------------------------------------------------------------------------
(***************************************************************************)
(* Types                                                                   *)
(***************************************************************************)
Priced == [input : Nat, cached : Nat, output : Nat, searches : Nat]
Known  == [input : Nat, cached : Nat, output : Nat, searches : Nat, words : Nat]

LEMMA MeteredTyped ==
  ASSUME NEW call \in Calls
  PROVE  MeteredMicros(call) \in Nat /\ call.words \in Nat
  <1>. DEFINE U == {"input", "cached", "output", "searches"}
              f == [unit \in DOMAIN Price |-> call[unit] * Price[unit]]
  <1>1. call \in Known /\ Price \in Priced /\ call.words \in Nat
    BY ExpenditureAssumption DEF Known, Priced
  <1>2. IsFiniteSet(U)
    <2>1. IsFiniteSet({"input"})
      BY FS_Singleton
    <2>2. IsFiniteSet({"input"} \cup {"cached"})
      BY <2>1, FS_AddElement
    <2>3. IsFiniteSet(({"input"} \cup {"cached"}) \cup {"output"})
      BY <2>2, FS_AddElement
    <2>4. IsFiniteSet((({"input"} \cup {"cached"}) \cup {"output"}) \cup {"searches"})
      BY <2>3, FS_AddElement
    <2>5. (({"input"} \cup {"cached"}) \cup {"output"}) \cup {"searches"} = U
      OBVIOUS
    <2>. QED  BY <2>4, <2>5
  <1>3. DOMAIN Price = U
    BY <1>1 DEF Priced
  <1>4. \A unit \in U : call[unit] \in Nat /\ Price[unit] \in Nat
    BY <1>1 DEF Known, Priced
  <1>5. \A m, n \in Nat : m * n \in Nat
    OBVIOUS
  <1>6. DOMAIN f = U /\ \A unit \in U : f[unit] \in Nat
    BY <1>3, <1>4, <1>5
  <1>7. MeteredMicros(call) = SumFunctionOnSet(f, U)
    BY <1>6 DEF MeteredMicros, SumFunction
  <1>. HIDE DEF f, U
  <1>. QED  BY <1>1, <1>2, <1>6, <1>7, SumGrows

\* The prices and words of the jobs add up, and only prices matter to the first.
LEMMA MicrosTyped ==
  ASSUME NEW ps \in [Pieces -> Piece]
  PROVE  /\ MicrosOf(ps) \in Nat /\ WordsOf(ps) \in Nat
         /\ \A T \in SUBSET Pieces :
              SumFunctionOnSet([p \in Pieces |-> ps[p].micros], T) <= MicrosOf(ps)
  <1>. DEFINE f == [p \in Pieces |-> ps[p].micros]
              g == [p \in Pieces |-> ps[p].words]
  <1>1. \A p \in Pieces : f[p] \in Nat /\ g[p] \in Nat
    BY DEF Piece
  <1>2. MicrosOf(ps) = SumFunctionOnSet(f, Pieces) /\ WordsOf(ps) = SumFunctionOnSet(g, Pieces)
    BY DEF MicrosOf, WordsOf, SumFunction
  <1>. HIDE DEF f, g
  <1>3. IsFiniteSet(Pieces)
    BY ExpenditureAssumption
  <1>4. SumFunctionOnSet(g, Pieces) \in Nat
    BY <1>1, <1>3, SumGrows
  <1>5. /\ SumFunctionOnSet(f, Pieces) \in Nat
        /\ \A T \in SUBSET Pieces : SumFunctionOnSet(f, T) <= SumFunctionOnSet(f, Pieces)
    BY <1>1, <1>3, SumGrows
  <1>. QED  BY <1>2, <1>4, <1>5 DEF f

LEMMA MicrosAgree ==
  ASSUME NEW ps \in [Pieces -> Piece], NEW qs \in [Pieces -> Piece],
         \A p \in Pieces : qs[p].micros = ps[p].micros
  PROVE  MicrosOf(qs) = MicrosOf(ps)
  <1>1. [p \in Pieces |-> qs[p].micros] = [p \in Pieces |-> ps[p].micros]
    OBVIOUS
  <1>. QED  BY <1>1 DEF MicrosOf

\* Rounding to cents keeps within half a cent.
LEMMA CentsNear ==
  ASSUME NEW amount \in Int, NEW m \in Cents(amount)
  PROVE  m \in Int /\ 2 * (m - amount) \in -Cent .. Cent
  <1>1. amount - Cent \in Int /\ amount + Cent \in Int
    BY ExpenditureAssumption
  <1>2. m \in amount - Cent .. amount + Cent /\ 2 * (m - amount) \in -Cent .. Cent
    BY DEF Cents
  <1>. QED  BY <1>1, <1>2

LEMMA HumanTyped ==
  ASSUME CostTypeOK, NEW ps \in [Pieces -> Piece], NEW human \in HumanEquiv(ps)
  PROVE  human \in Int \cup {Null}
  <1>1. pay.article \in Nat \cup {Null} /\ pay.word \in Nat \cup {Null}
    BY ExpenditureAssumption DEF CostTypeOK, NoPay
  <1>2. WordsOf(ps) \in Nat
    BY MicrosTyped
  <1>3. \A m, n \in Nat : m * n \in Nat
    OBVIOUS
  <1>4. CASE pay.article # Null
    BY <1>1, <1>4, CentsNear DEF HumanEquiv
  <1>5. CASE pay.article = Null /\ pay.word # Null /\ WordsOf(ps) > 0
    <2>1. pay.word * WordsOf(ps) \in Nat
      BY <1>1, <1>2, <1>3, <1>5
    <2>2. human \in Cents(pay.word * WordsOf(ps))
      BY <1>5 DEF HumanEquiv
    <2>. QED  BY <2>1, <2>2, CentsNear
  <1>6. CASE pay.article = Null /\ ~(pay.word # Null /\ WordsOf(ps) > 0)
    BY <1>6 DEF HumanEquiv
  <1>. QED  BY <1>4, <1>5, <1>6

\* What a row says it saves: within half a cent, the human price less the prices of the drafts.
Near(human, micros, savings) ==
  IF human = Null THEN savings = Null
  ELSE savings \in Int /\ 2 * (savings - (human - micros)) \in -Cent .. Cent
Saves(row) == Near(row.human, row.micros, row.savings)

LEMMA SavingsNear ==
  ASSUME NEW human \in Int \cup {Null}, NEW micros \in Nat, NEW savings \in Savings(human, micros)
  PROVE  savings \in Int \cup {Null} /\ Near(human, micros, savings)
  <1>1. CASE human = Null
    BY <1>1 DEF Savings, Near
  <1>2. CASE human # Null
    BY <1>2, CentsNear DEF Savings, Near
  <1>. QED  BY <1>1, <1>2

LEMMA RollupTyped ==
  ASSUME NEW p \in PipelineStatus, NEW S
  PROVE  Rollup(p, S) \in PipelineStatus
  <1>1. PipelineStatus = {"pending_approval", "approved", "generating", "previews_ready",
                          "partially_published", "published", "failed", "declined", "expired",
                          "closed"}
    BY DEF PipelineStatus, PipelineNext
  <1>. QED  BY <1>1 DEF Rollup, Derived

\* Every transaction that is open is about a job, and no two are about the same one.
Slots ==
  /\ \A b \in Bookers : booking[b].step # "idle" => booking[b].piece \in Pieces
  /\ \A b \in Bookers : booking[b].step = "idle" => booking[b] = NoBooking
  /\ \A b \in Bookers : booking[b].step = "working" => booking[b].bill = NoRow
  /\ \A b, c \in Bookers : /\ b # c /\ booking[b].step # "idle" /\ booking[c].step # "idle"
                           => booking[b].piece # booking[c].piece

CostTypeInv == CostTypeOK /\ IsFiniteSet(costRows) /\ Slots

LEMMA BookingFields ==
  ASSUME CostTypeOK, NEW b \in Bookers
  PROVE  /\ booking[b] \in Booking /\ booking[b].mine \in Piece
         /\ booking[b].found \in CostRow \cup {NoRow} /\ booking[b].bill \in CostRow \cup {NoRow}
         /\ booking[b].step \in {"idle", "working", "summed"}
  BY DEF CostTypeOK, Booking

LEMMA NoBookingTyped ==
  /\ NoBooking \in Booking /\ NoBooking.step = "idle" /\ NoBooking.bill = NoRow
  /\ Blank \in Piece
  <1>1. Blank \in Piece
    BY DEF Blank, Piece, JobStatus, JobNext, Absent
  <1>. QED  BY <1>1 DEF NoBooking, Booking

\* What is billed when b sums with its job as row.
Billing(b, row) ==
  LET v == booking'[b]
  IN  \/ /\ Cardinality(costRows) > 1 /\ v.found = NoRow /\ v.bill = NoRow
      \/ /\ Cardinality(costRows) <= 1
         /\ IF costRows = {} THEN v.found = NoRow ELSE v.found \in costRows
         /\ v.bill.id = IF costRows = {} THEN costIds + 1 ELSE v.found.id
         /\ v.bill.micros = MicrosOf([pieces EXCEPT ![booking[b].piece] = row])
         /\ Saves(v.bill) /\ v.bill \in CostRow

\* A bill over the jobs ps.
LEMMA BillFields ==
  ASSUME CostTypeInv, NEW ps \in [Pieces -> Piece], NEW made \in Bills(ps),
         made.bill.id <= MaxCostRows
  PROVE  /\ IF costRows = {} THEN made.found = NoRow ELSE made.found \in costRows
         /\ made.bill.id = IF costRows = {} THEN costIds + 1 ELSE made.found.id
         /\ made.bill.micros = MicrosOf(ps) /\ Saves(made.bill) /\ made.bill \in CostRow
  <1>0. PICK found \in IF costRows = {} THEN {NoRow} ELSE costRows, human \in HumanEquiv(ps) :
          \E savings \in Savings(human, MicrosOf(ps)) :
            made = [found |-> found, bill |-> Bill(ps, found, human, savings)]
    BY DEF Bills
  <1>1. PICK savings \in Savings(human, MicrosOf(ps)) :
          made = [found |-> found, bill |-> Bill(ps, found, human, savings)]
    BY <1>0
  <1>. DEFINE bill == Bill(ps, found, human, savings)
  <1>2. made.found = found /\ made.bill = bill
    BY <1>1
  <1>3. human \in Int \cup {Null} /\ MicrosOf(ps) \in Nat
    BY HumanTyped, MicrosTyped DEF CostTypeInv
  <1>4. savings \in Int \cup {Null} /\ Near(human, MicrosOf(ps), savings)
    BY <1>3, SavingsNear
  <1>5. /\ bill = [id |-> IF found = NoRow THEN costIds + 1 ELSE found.id,
                   micros |-> MicrosOf(ps), human |-> human, savings |-> savings]
        /\ bill.micros = MicrosOf(ps) /\ bill.human = human /\ bill.savings = savings
        /\ bill.id = IF found = NoRow THEN costIds + 1 ELSE found.id
    BY DEF Bill
  <1>. HIDE DEF bill
  <1>6. costIds \in Nat /\ costRows \subseteq CostRow
    BY DEF CostTypeInv, CostTypeOK
  <1>7. IF costRows = {} THEN found = NoRow ELSE found \in costRows /\ found # NoRow
    BY <1>6 DEF CostRow, NoRow
  <1>8. bill.id = (IF costRows = {} THEN costIds + 1 ELSE found.id) /\ bill.id \in 1 .. MaxCostRows
    <2>1. bill.id = IF costRows = {} THEN costIds + 1 ELSE found.id
      BY <1>5, <1>7
    <2>2. bill.id \in Nat /\ bill.id >= 1
      BY <1>6, <1>7, <2>1 DEF CostRow
    <2>. QED  BY <1>2, <2>1, <2>2, ExpenditureAssumption
  <1>9. bill \in CostRow
    BY <1>3, <1>4, <1>5, <1>8 DEF CostRow
  <1>10. Saves(bill)
    BY <1>4, <1>5 DEF Saves
  <1>. QED  BY <1>2, <1>5, <1>7, <1>8, <1>9, <1>10

LEMMA SumFields ==
  ASSUME CostTypeInv, NEW b \in Bookers, NEW row \in Piece, Sum(b, row),
         booking[b].step = "working"
  PROVE  /\ CostTypeInv'
         /\ \A c \in Bookers : c # b => booking'[c] = booking[c]
         /\ booking'[b].step = "summed" /\ booking'[b].mine = row
         /\ booking'[b].piece = booking[b].piece
         /\ Billing(b, row)
  <1>. DEFINE ps == [pieces EXCEPT ![booking[b].piece] = row]
              No == [found |-> NoRow, bill |-> NoRow]
  <1>1. booking[b].piece \in Pieces /\ ps \in [Pieces -> Piece]
    BY DEF CostTypeInv, CostTypeOK, Slots
  <1>2. PICK made \in IF Cardinality(costRows) > 1 THEN {No} ELSE Bills(ps) :
          /\ made.bill.id <= MaxCostRows
          /\ costIds' = IF made.bill.id > costIds THEN made.bill.id ELSE costIds
          /\ booking' = [booking EXCEPT ![b] = [booking[b] EXCEPT !.step = "summed", !.mine = row,
                                                   !.found = made.found, !.bill = made.bill]]
          /\ summedAtOnce' = (summedAtOnce \/ Summed # {})
          /\ UNCHANGED <<pieces, standing, costRows, pay, attempted, spendVars>>
    BY DEF Sum, CostTypeInv, CostTypeOK
  <1>. DEFINE v == [booking[b] EXCEPT !.step = "summed", !.mine = row,
                                      !.found = made.found, !.bill = made.bill]
  <1>. HIDE DEF ps
  <1>3. Cardinality(costRows) \in Nat /\ costIds \in Nat /\ MaxCostRows \in Nat /\ costRows \subseteq CostRow
    BY FS_CardinalityType, ExpenditureAssumption DEF CostTypeInv, CostTypeOK
  <1>4. \/ /\ Cardinality(costRows) > 1 /\ made.found = NoRow /\ made.bill = NoRow
        \/ /\ Cardinality(costRows) <= 1
           /\ IF costRows = {} THEN made.found = NoRow ELSE made.found \in costRows
           /\ made.bill.id = IF costRows = {} THEN costIds + 1 ELSE made.found.id
           /\ made.bill.micros = MicrosOf(ps) /\ Saves(made.bill) /\ made.bill \in CostRow
    <2>1. CASE Cardinality(costRows) > 1
      BY <2>1
    <2>2. CASE ~ Cardinality(costRows) > 1
      <3>1. made \in Bills(ps)
        BY <2>2
      <3>. QED  BY <1>1, <1>2, <1>3, <2>2, <3>1, BillFields
    <2>. QED  BY <2>1, <2>2
  <1>5. /\ made.found \in CostRow \cup {NoRow} /\ made.bill \in CostRow \cup {NoRow}
        /\ made.bill.id \in 0 .. MaxCostRows
    BY <1>2, <1>3, <1>4 DEF CostRow, NoRow
  <1>6. v \in Booking /\ v.step = "summed" /\ v.mine = row /\ v.piece = booking[b].piece
        /\ v.found = made.found /\ v.bill = made.bill
    BY <1>5, BookingFields DEF CostTypeInv, Booking
  <1>7. booking' = [booking EXCEPT ![b] = v]
    BY <1>2
  <1>. HIDE DEF v
  <1>8. booking'[b] = v /\ \A c \in Bookers : c # b => booking'[c] = booking[c]
    BY <1>7 DEF CostTypeInv, CostTypeOK
  <1>9. CostTypeInv'
    <2>1. costIds' \in 0 .. MaxCostRows
      BY <1>2, <1>3, <1>5 DEF CostTypeInv, CostTypeOK
    <2>2. booking' \in [Bookers -> Booking]
      BY <1>6, <1>7 DEF CostTypeInv, CostTypeOK
    <2>3. summedAtOnce' \in BOOLEAN
      BY <1>2 DEF CostTypeInv, CostTypeOK
    <2>4. Slots'
      BY <1>6, <1>8 DEF CostTypeInv, Slots
    <2>. QED  BY <1>2, <2>1, <2>2, <2>3, <2>4 DEF CostTypeInv, CostTypeOK, spendVars
  <1>10. Billing(b, row)
    BY <1>4, <1>6, <1>8 DEF Billing, ps
  <1>. QED  BY <1>6, <1>8, <1>9, <1>10

\* A change of status or words of one job.
LEMMA PieceChanges ==
  ASSUME CostTypeOK, NEW p \in Pieces, NEW st \in JobStatus \ {Absent}, NEW w \in Nat
  PROVE  /\ [pieces EXCEPT ![p].status = st] \in [Pieces -> Piece]
         /\ [pieces EXCEPT ![p].status = st, ![p].words = w] \in [Pieces -> Piece]
         /\ \A q \in Pieces : /\ [pieces EXCEPT ![p].status = st][q].micros = pieces[q].micros
                              /\ [pieces EXCEPT ![p].status = st, ![p].words = w][q].micros
                                   = pieces[q].micros
  BY DEF CostTypeOK, Piece

LEMMA JobStatuses ==
  JobStatus \ {Absent} = {"queued", "running", "preview_ready", "approved", "rejected", "failed",
                          "published", "cancelled"}
  BY DEF JobStatus, JobNext, Absent

\* b has opened its transaction on job p.
LEMMA OpenFields ==
  ASSUME CostTypeInv, NEW b \in Bookers, NEW p \in Pieces, Open(b, p)
  PROVE  /\ booking' \in [Bookers -> Booking] /\ Slots'
         /\ booking[b].step = "idle" /\ booking'[b].step = "working"
         /\ \A c \in Bookers : c # b => booking'[c] = booking[c]
         /\ \A c \in Bookers : booking[c].step # "idle" => booking[c].piece # p
  <1>. DEFINE v == [NoBooking EXCEPT !.piece = p, !.step = "working"]
  <1>1. v \in Booking /\ v.step = "working" /\ v.piece = p
    BY NoBookingTyped DEF Booking, NoBooking
  <1>. HIDE DEF v
  <1>2. booking[b] = NoBooking /\ booking' = [booking EXCEPT ![b] = v]
        /\ \A c \in Bookers : booking[c].piece # p
    BY DEF Open, Held, v
  <1>3. /\ booking \in [Bookers -> Booking] /\ booking' \in [Bookers -> Booking]
        /\ booking'[b] = v /\ booking[b].step = "idle"
        /\ \A c \in Bookers : c # b => booking'[c] = booking[c]
    BY <1>1, <1>2, NoBookingTyped DEF CostTypeInv, CostTypeOK
  <1>4. v.bill = NoRow
    BY DEF v, NoBooking
  <1>5. Slots'
    BY <1>1, <1>2, <1>3, <1>4 DEF CostTypeInv, Slots
  <1>. QED  BY <1>1, <1>2, <1>3, <1>5

\* b has closed its transaction.
LEMMA CloseFields ==
  ASSUME CostTypeInv, NEW b \in Bookers, booking' = [booking EXCEPT ![b] = NoBooking]
  PROVE  /\ booking' \in [Bookers -> Booking] /\ Slots'
         /\ booking'[b].step = "idle"
         /\ \A c \in Bookers : c # b => booking'[c] = booking[c]
  BY NoBookingTyped DEF CostTypeInv, CostTypeOK, Slots

\* The cost row as the commit of b leaves it.
LEMMA RestatedTyped ==
  ASSUME NEW row \in CostRow, NEW b, booking[b].found \in CostRow, booking[b].bill \in CostRow
  PROVE  /\ Restated(row, b) \in CostRow /\ Restated(row, b).id = row.id
         /\ row = booking[b].found /\ booking[b].bill.id = row.id => Restated(row, b) = booking[b].bill
  <1>. DEFINE f == booking[b].found
              g == booking[b].bill
              v == Restated(row, b)
  <1>1. v = [id |-> row.id, micros |-> IF g.micros # f.micros THEN g.micros ELSE row.micros,
             human |-> IF g.human # f.human THEN g.human ELSE row.human,
             savings |-> IF g.savings # f.savings THEN g.savings ELSE row.savings]
    BY DEF Restated, Column
  <1>. HIDE DEF v
  <1>2. v \in CostRow /\ v.id = row.id
    BY <1>1 DEF CostRow
  <1>3. ASSUME row = f, g.id = row.id PROVE v = g
    <2>1. v.id = g.id /\ v.micros = g.micros /\ v.human = g.human /\ v.savings = g.savings
      BY <1>1, <1>3
    <2>. QED  BY <1>2, <2>1 DEF CostRow
  <1>. QED  BY <1>2, <1>3 DEF v

LEMMA MeterTyped ==
  ASSUME CostTypeInv, NEW b \in Bookers, Meter(b)
  PROVE  metered' \in Nat
  <1>1. booking[b].mine.micros \in Nat
    BY BookingFields DEF CostTypeInv, Piece
  <1>. QED  BY <1>1 DEF Meter, CostTypeInv, CostTypeOK

\* What a commit makes of the rows.
LEMMA CommitFields ==
  ASSUME CostTypeInv, NEW b \in Bookers, CommitCost(b)
  PROVE  /\ pieces' = [pieces EXCEPT ![booking[b].piece] = booking[b].mine]
         /\ booking[b].step = "summed" /\ booking[b].piece \in Pieces
         /\ pieces' \in [Pieces -> Piece] /\ standing' \in PipelineStatus
         /\ booking' = [booking EXCEPT ![b] = NoBooking]
         /\ UNCHANGED <<pay, attempted, costIds, summedAtOnce>>
         /\ metered' \in Nat /\ lost' \in BOOLEAN
         /\ costRows' \subseteq CostRow /\ IsFiniteSet(costRows')
         /\ booking[b].bill = NoRow => costRows' = costRows
         /\ booking[b].bill # NoRow /\ booking[b].found = NoRow
              => costRows' = costRows \cup {booking[b].bill}
         /\ booking[b].bill # NoRow /\ booking[b].found # NoRow =>
              costRows' = {IF row.id = booking[b].bill.id THEN Restated(row, b) ELSE row : row \in costRows}
  <1>. DEFINE s == booking[b]
              now == [pieces EXCEPT ![s.piece] = s.mine]
              one(row) == IF row.id = s.bill.id THEN Restated(row, b) ELSE row
  <1>1. /\ s.step = "summed" /\ s.piece \in Pieces /\ s.mine \in Piece
        /\ s.found \in CostRow \cup {NoRow} /\ s.bill \in CostRow \cup {NoRow}
    BY BookingFields DEF CommitCost, CostTypeInv, Slots
  <1>2. /\ pieces' = now /\ booking' = [booking EXCEPT ![b] = NoBooking]
        /\ UNCHANGED <<pay, attempted, costIds, summedAtOnce>>
        /\ standing' = Rollup(standing, Statuses(now))
        /\ metered' \in Nat /\ lost' \in BOOLEAN
    BY MeterTyped DEF CommitCost, Restand
  <1>3. now \in [Pieces -> Piece] /\ standing' \in PipelineStatus
    BY <1>1, <1>2, RollupTyped DEF CostTypeInv, CostTypeOK
  <1>4. /\ s.bill = NoRow => costRows' = costRows
        /\ s.bill # NoRow /\ s.found = NoRow => costRows' = costRows \cup {s.bill}
        /\ s.bill # NoRow /\ s.found # NoRow => costRows' = {one(row) : row \in costRows}
    BY DEF CommitCost
  <1>5. costRows \subseteq CostRow /\ IsFiniteSet(costRows)
    BY DEF CostTypeInv, CostTypeOK
  <1>. HIDE DEF one
  <1>6. costRows' \subseteq CostRow /\ IsFiniteSet(costRows')
    <2>1. CASE s.bill = NoRow
      BY <1>4, <1>5, <2>1
    <2>2. CASE s.bill # NoRow /\ s.found = NoRow
      BY <1>1, <1>4, <1>5, <2>2, FS_AddElement
    <2>3. CASE s.bill # NoRow /\ s.found # NoRow
      <3>1. \A row \in costRows : one(row) \in CostRow
        BY <1>1, <1>5, <2>3, RestatedTyped DEF one
      <3>2. costRows' = {one(row) : row \in costRows}
        BY <1>4, <2>3
      <3>3. IsFiniteSet({one(row) : row \in costRows})
        <4>. DEFINE T == {one(row) : row \in costRows}
                    f == [row \in costRows |-> one(row)]
        <4>1. f \in Surjection(costRows, T)
          BY DEF Surjection
        <4>. HIDE DEF T, f
        <4>2. IsFiniteSet(T)
          BY <1>5, <4>1, FS_Surjection
        <4>. QED  BY <4>2 DEF T
      <3>. QED  BY <3>1, <3>2, <3>3
    <2>. QED  BY <2>1, <2>2, <2>3
  <1>. QED  BY <1>1, <1>2, <1>3, <1>4, <1>6 DEF one

LEMMA CostTypeStep == CostTypeInv /\ [CostNext]_costVars => CostTypeInv'
  <1>. SUFFICES ASSUME CostTypeInv, [CostNext]_costVars PROVE CostTypeInv'
    OBVIOUS
  <1>. USE DEF CostTypeInv, spendVars
  <1>1. CASE UNCHANGED costVars
    BY <1>1 DEF costVars, CostTypeOK, Slots
  <1>2. CASE RefreshPay
    BY <1>2 DEF RefreshPay, CostTypeOK, Slots
  <1>3. ASSUME NEW p \in Pieces, NEW verdict \in {"approved", "rejected", "queued"},
               ReviewPiece(p, verdict)
        PROVE  CostTypeInv'
    <2>1. \E w \in Nat : pieces' = [pieces EXCEPT ![p].status = verdict, ![p].words = w]
      <3>1. pieces[p].words \in Nat
        BY DEF CostTypeOK, Piece
      <3>2. pieces' = [pieces EXCEPT ![p].status = verdict,
                                     ![p].words = IF verdict = "queued" THEN 0 ELSE pieces[p].words]
        BY <1>3 DEF ReviewPiece, CostTypeOK
      <3>. QED  BY <3>1, <3>2
    <2>2. pieces' \in [Pieces -> Piece]
      <3>1. PICK w \in Nat : pieces' = [pieces EXCEPT ![p].status = verdict, ![p].words = w]
        BY <2>1
      <3>2. verdict \in JobStatus \ {Absent}
        BY JobStatuses
      <3>. QED  BY <3>1, <3>2, PieceChanges
    <2>3. standing' \in PipelineStatus
      BY <1>3, RollupTyped DEF ReviewPiece, Restand, CostTypeOK
    <2>. QED  BY <1>3, <2>2, <2>3 DEF ReviewPiece, CostTypeOK, Slots
  <1>4. ASSUME NEW b \in Bookers, NEW p \in Pieces, ClaimPiece(b, p) PROVE CostTypeInv'
    <2>1. pieces' \in [Pieces -> Piece]
      BY <1>4, PieceChanges, JobStatuses DEF ClaimPiece
    <2>2. attempted' \in 0 .. MaxAttempted
      BY <1>4, ExpenditureAssumption DEF ClaimPiece, CostTypeOK
    <2>. QED  BY <1>4, <2>1, <2>2, OpenFields DEF ClaimPiece, CostTypeOK
  <1>5. ASSUME NEW b \in Bookers, NEW p \in Pieces, PublishPiece(b, p) PROVE CostTypeInv'
    BY <1>5, OpenFields DEF PublishPiece, CostTypeOK
  <1>6. ASSUME NEW b \in Bookers, DraftDone(b) PROVE CostTypeInv'
    <2>1. PICK call \in Calls :
            Sum(b, [status |-> "preview_ready", micros |-> MeteredMicros(call), words |-> call.words])
      BY <1>6 DEF DraftDone
    <2>2. [status |-> "preview_ready", micros |-> MeteredMicros(call), words |-> call.words] \in Piece
      BY MeteredTyped, JobStatuses DEF Piece
    <2>. QED  BY <1>6, <2>1, <2>2, SumFields DEF DraftDone
  <1>7. ASSUME NEW b \in Bookers, PublishSums(b) PROVE CostTypeInv'
    <2>1. booking[b].step = "working" /\ booking[b].piece \in Pieces
      BY <1>7 DEF PublishSums, Slots
    <2>2. Pushed(b) \in Piece
      BY <2>1, JobStatuses DEF Pushed, CostTypeOK, Piece
    <2>3. CASE Sum(b, Pushed(b))
      BY <2>1, <2>2, <2>3, SumFields
    <2>4. CASE /\ booking' = [booking EXCEPT ![b] = [@ EXCEPT !.step = "summed", !.mine = Pushed(b)]]
               /\ UNCHANGED <<pieces, standing, costRows, pay, attempted, costIds, spendVars, summedAtOnce>>
      <3>. DEFINE v == [booking[b] EXCEPT !.step = "summed", !.mine = Pushed(b)]
      <3>1. v \in Booking /\ v.step = "summed" /\ v.piece = booking[b].piece
        BY <2>2, BookingFields DEF Booking
      <3>. HIDE DEF v
      <3>2. booking' = [booking EXCEPT ![b] = v]
        BY <2>4 DEF v
      <3>. QED  BY <2>1, <2>4, <3>1, <3>2 DEF CostTypeOK, Slots
    <2>. QED  BY <1>7, <2>3, <2>4 DEF PublishSums
  <1>8. ASSUME NEW b \in Bookers, CommitCost(b) PROVE CostTypeInv'
    <2>1. booking' = [booking EXCEPT ![b] = NoBooking]
      BY <1>8, CommitFields
    <2>2. booking' \in [Bookers -> Booking] /\ Slots'
      BY <2>1, CloseFields
    <2>. QED  BY <1>8, <2>2, CommitFields DEF CostTypeOK
  <1>9. ASSUME NEW b \in Bookers, AbortCost(b) PROVE CostTypeInv'
    <2>1. booking' \in [Bookers -> Booking] /\ Slots'
      BY <1>9, CloseFields DEF AbortCost
    <2>2. booking[b].piece \in Pieces
      BY <1>9 DEF AbortCost, Slots
    <2>3. pieces' \in [Pieces -> Piece]
      BY <1>9, <2>2, PieceChanges, JobStatuses DEF AbortCost, CostTypeOK
    <2>4. standing' \in PipelineStatus
      BY <1>9, RollupTyped DEF AbortCost, Restand, CostTypeOK
    <2>5. metered' \in Nat /\ lost' \in BOOLEAN
      BY <1>9, MeterTyped DEF AbortCost
    <2>. QED  BY <1>9, <2>1, <2>3, <2>4, <2>5 DEF AbortCost, CostTypeOK
  <1>. QED  BY <1>1, <1>2, <1>3, <1>4, <1>5, <1>6, <1>7, <1>8, <1>9 DEF CostNext

LEMMA CostTypeInitially == CostInit => CostTypeInv
  <1>. SUFFICES ASSUME CostInit PROVE CostTypeInv
    OBVIOUS
  <1>1. IsFiniteSet(costRows)
    BY FS_EmptySet DEF CostInit
  <1>2. "generating" \in PipelineStatus
    BY DEF PipelineStatus, PipelineNext
  <1>3. 0 \in 0 .. MaxAttempted /\ 0 \in 0 .. MaxCostRows
    BY ExpenditureAssumption
  <1>4. pieces \in [Pieces -> Piece] /\ booking \in [Bookers -> Booking] /\ Slots
    BY NoBookingTyped DEF CostInit, Slots
  <1>. QED  BY <1>1, <1>2, <1>3, <1>4 DEF CostInit, CostTypeInv, CostTypeOK

LEMMA CostTypeInvariant == CostSpec => []CostTypeInv
  BY CostTypeInitially, CostTypeStep, PTL DEF CostSpec

\* Jobs, cost rows and the transactions that sum them keep their types.
THEOREM CostTypeCorrect == CostSpec => []CostTypeOK
  BY CostTypeInvariant, PTL DEF CostTypeInv

--------------------------------------------------------------------------------
(***************************************************************************)
(* The pipeline's row                                                      *)
(***************************************************************************)
Billed(b) == booking[b].step = "summed" /\ booking[b].bill # NoRow

\* The jobs as b will leave them.
With(b) == [pieces EXCEPT ![booking[b].piece] = booking[b].mine]

\* There is one row at most, and it says what the jobs cost.
RowRight ==
  /\ \A q, r \in costRows : q = r
  /\ \A r \in costRows : r.micros = MicrosOf(pieces) /\ Saves(r)
  /\ costRows = {} => MicrosOf(pieces) = 0

\* One transaction at most has a bill.  It says what the jobs will have cost once that has
\* committed, and was made from the row as it still is.
BillRight ==
  /\ \A b, c \in Bookers : Billed(b) /\ Billed(c) => b = c
  /\ \A b \in Bookers : Billed(b) =>
       /\ booking[b].bill.micros = MicrosOf(With(b)) /\ Saves(booking[b].bill)
       /\ IF costRows = {} THEN booking[b].found = NoRow
          ELSE costRows = {booking[b].found} /\ booking[b].bill.id = booking[b].found.id

\* The others change no price.
OthersCheap ==
  \A b \in Bookers : booking[b].step = "summed" /\ ~Billed(b)
                       => booking[b].mine.micros = pieces[booking[b].piece].micros

CostInv == ~summedAtOnce => RowRight /\ BillRight /\ OthersCheap

LEMMA NoMicros == CostInit => MicrosOf(pieces) = 0
  <1>. SUFFICES ASSUME CostInit PROVE MicrosOf(pieces) = 0
    OBVIOUS
  <1>. DEFINE f == [p \in Pieces |-> pieces[p].micros]
  <1>1. \A p \in Pieces : f[p] = 0
    BY DEF CostInit, Blank
  <1>2. SumFunctionOnSet(f, Pieces) = 0
    <2>. HIDE DEF f
    <2>. QED  BY <1>1, SumIsZero, ExpenditureAssumption
  <1>3. MicrosOf(pieces) = SumFunctionOnSet(f, Pieces)
    BY DEF MicrosOf, SumFunction
  <1>. QED  BY <1>2, <1>3

LEMMA CostInitially == CostInit => CostInv
  <1>. SUFFICES ASSUME CostInit PROVE CostInv
    OBVIOUS
  <1>1. costRows = {} /\ \A b \in Bookers : booking[b].step = "idle"
    BY NoBookingTyped DEF CostInit
  <1>2. MicrosOf(pieces) = 0
    BY NoMicros
  <1>. QED  BY <1>1, <1>2 DEF CostInv, RowRight, BillRight, OthersCheap, Billed

\* A step that changes no price and no row, and closes transactions or opens some.
LEMMA PricesStay ==
  ASSUME CostTypeInv, CostTypeInv', CostInv, summedAtOnce' = summedAtOnce, costRows' = costRows,
         \A p \in Pieces : pieces'[p].micros = pieces[p].micros,
         \A b \in Bookers : \/ booking'[b].step # "summed"
                            \/ booking'[b] = booking[b]
                            \/ /\ booking'[b].bill = NoRow
                               /\ booking'[b].mine.micros = pieces[booking'[b].piece].micros
  PROVE  CostInv'
  <1>. SUFFICES ASSUME ~summedAtOnce PROVE RowRight' /\ BillRight' /\ OthersCheap'
    BY DEF CostInv
  <1>1. pieces \in [Pieces -> Piece] /\ pieces' \in [Pieces -> Piece]
    BY DEF CostTypeInv, CostTypeOK
  <1>2. MicrosOf(pieces') = MicrosOf(pieces)
    BY <1>1, MicrosAgree
  <1>3. RowRight'
    BY <1>2 DEF CostInv, RowRight, Saves, Near, MicrosOf
  <1>4. \A b \in Bookers : Billed(b)' => Billed(b) /\ booking'[b] = booking[b]
    BY DEF Billed
  <1>5. ASSUME NEW b \in Bookers, Billed(b)'
        PROVE  MicrosOf(With(b))' = MicrosOf(With(b))
    <2>1. booking[b].piece \in Pieces /\ booking[b].mine \in Piece /\ booking'[b] = booking[b]
      BY <1>4, <1>5, BookingFields DEF CostTypeInv, Slots, Billed
    <2>2. With(b) \in [Pieces -> Piece] /\ With(b)' \in [Pieces -> Piece]
      BY <1>1, <2>1 DEF With
    <2>3. \A p \in Pieces : With(b)'[p].micros = With(b)[p].micros
      BY <1>1, <2>1 DEF With
    <2>4. MicrosOf(With(b)') = MicrosOf(With(b))
      BY <2>2, <2>3, MicrosAgree
    <2>. QED  BY <2>4 DEF MicrosOf
  <1>6. BillRight'
    <2>1. \A b, c \in Bookers : Billed(b)' /\ Billed(c)' => b = c
      BY <1>4 DEF CostInv, BillRight
    <2>2. ASSUME NEW b \in Bookers, Billed(b)'
          PROVE  /\ booking'[b].bill.micros = MicrosOf(With(b))' /\ Saves(booking[b].bill)'
                 /\ IF costRows' = {} THEN booking'[b].found = NoRow
                    ELSE costRows' = {booking'[b].found} /\ booking'[b].bill.id = booking'[b].found.id
      BY <1>4, <1>5, <2>2 DEF CostInv, BillRight, Saves, Near
    <2>. QED  BY <2>1, <2>2 DEF BillRight
  <1>7. OthersCheap'
    <2>. SUFFICES ASSUME NEW b \in Bookers, booking'[b].step = "summed", ~Billed(b)'
                  PROVE  booking'[b].mine.micros = pieces'[booking'[b].piece].micros
      BY DEF OthersCheap
    <2>1. booking'[b].piece \in Pieces
      BY DEF CostTypeInv, Slots
    <2>2. CASE booking'[b] = booking[b]
      BY <2>1, <2>2 DEF CostInv, OthersCheap, Billed
    <2>3. CASE booking'[b].mine.micros = pieces[booking'[b].piece].micros
      BY <2>1, <2>3
    <2>. QED  BY <2>2, <2>3
  <1>. QED  BY <1>3, <1>6, <1>7

\* A transaction sums.
LEMMA SumKeeps ==
  ASSUME CostTypeInv, CostInv, NEW b \in Bookers, NEW row \in Piece, Sum(b, row),
         booking[b].step = "working"
  PROVE  CostInv'
  <1>. SUFFICES ASSUME ~summedAtOnce' PROVE RowRight' /\ BillRight' /\ OthersCheap'
    BY DEF CostInv
  <1>1. /\ ~summedAtOnce /\ UNCHANGED <<pieces, costRows>>
        /\ \A c \in Bookers : booking[c].step # "summed"
    BY DEF Sum, Summed
  <1>2. RowRight /\ BillRight /\ OthersCheap
    BY <1>1 DEF CostInv
  <1>3. RowRight'
    BY <1>1, <1>2 DEF RowRight, Saves, Near, MicrosOf
  <1>4. \A c \in Bookers : booking'[c].step = "summed" => c = b
    BY <1>1, SumFields
  <1>5. Cardinality(costRows) <= 1
    <2>1. CASE costRows = {}
      BY <2>1, FS_EmptySet
    <2>2. CASE costRows # {}
      <3>1. PICK q \in costRows : costRows = {q}
        BY <1>2, <2>2 DEF RowRight
      <3>. QED  BY <3>1, FS_Singleton
    <2>. QED  BY <2>1, <2>2
  <1>6. Billing(b, row) /\ booking'[b].mine = row /\ booking'[b].piece = booking[b].piece
    BY SumFields
  <1>7. /\ IF costRows = {} THEN booking'[b].found = NoRow ELSE costRows = {booking'[b].found}
        /\ costRows # {} => booking'[b].bill.id = booking'[b].found.id
        /\ booking'[b].bill.micros = MicrosOf([pieces EXCEPT ![booking[b].piece] = row])
        /\ Saves(booking'[b].bill) /\ booking'[b].bill # NoRow
    <2>1. \A v \in CostRow : v # NoRow
      BY DEF CostRow, NoRow
    <2>2. Cardinality(costRows) \in Nat
      BY FS_CardinalityType DEF CostTypeInv
    <2>. QED  BY <1>2, <1>5, <1>6, <2>1, <2>2 DEF Billing, RowRight
  <1>8. With(b)' = [pieces EXCEPT ![booking[b].piece] = row]
    BY <1>1, <1>6 DEF With
  <1>9. BillRight'
    <2>1. \A c, d \in Bookers : Billed(c)' /\ Billed(d)' => c = d
      BY <1>4 DEF Billed
    <2>2. booking'[b].bill.micros = MicrosOf(With(b))'
      BY <1>7, <1>8 DEF MicrosOf
    <2>3. \A c \in Bookers : Billed(c)' => c = b
      BY <1>4 DEF Billed
    <2>4. Saves(booking[b].bill)'
      BY <1>7 DEF Saves, Near
    <2>5. IF costRows' = {} THEN booking'[b].found = NoRow
          ELSE costRows' = {booking'[b].found} /\ booking'[b].bill.id = booking'[b].found.id
      BY <1>1, <1>7
    <2>. QED  BY <2>1, <2>2, <2>3, <2>4, <2>5 DEF BillRight
  <1>10. OthersCheap'
    BY <1>4, <1>7 DEF OthersCheap, Billed
  <1>. QED  BY <1>3, <1>9, <1>10

\* A transaction with a bill commits: what it billed is what the jobs now cost.
LEMMA BillCommits ==
  ASSUME CostTypeInv, CostTypeInv', CostInv, NEW b \in Bookers, CommitCost(b), Billed(b)
  PROVE  CostInv'
  <1>. SUFFICES ASSUME ~summedAtOnce PROVE RowRight' /\ BillRight' /\ OthersCheap'
    BY CommitFields DEF CostInv
  <1>1. RowRight /\ BillRight /\ OthersCheap
    BY DEF CostInv
  <1>. DEFINE s == booking[b]
  <1>2. /\ pieces' = With(b) /\ booking' = [booking EXCEPT ![b] = NoBooking]
        /\ s.bill # NoRow /\ s.bill.micros = MicrosOf(With(b)) /\ Saves(s.bill)
        /\ s.bill \in CostRow /\ s.piece \in Pieces
    BY <1>1, CommitFields, BookingFields DEF BillRight, Billed, With, CostTypeInv
  <1>3. costRows' = {s.bill}
    <2>1. CASE costRows = {}
      <3>1. s.found = NoRow
        BY <1>1, <2>1 DEF BillRight
      <3>. QED  BY <1>2, <2>1, <3>1, CommitFields
    <2>2. CASE costRows # {}
      <3>1. costRows = {s.found} /\ s.bill.id = s.found.id
        BY <1>1, <2>2 DEF BillRight
      <3>2. s.found \in CostRow
        BY <3>1 DEF CostTypeInv, CostTypeOK
      <3>3. s.found # NoRow
        BY <3>2 DEF CostRow, NoRow
      <3>4. Restated(s.found, b) = s.bill
        BY <1>2, <3>1, <3>2, RestatedTyped
      <3>5. costRows' = {IF row.id = s.bill.id THEN Restated(row, b) ELSE row : row \in costRows}
        BY <1>2, <3>3, CommitFields
      <3>. QED  BY <3>1, <3>4, <3>5
    <2>. QED  BY <2>1, <2>2
  <1>4. \A c \in Bookers : /\ c # b => booking'[c] = booking[c]
                           /\ booking'[b].step = "idle"
    BY <1>2, NoBookingTyped DEF CostTypeInv, CostTypeOK
  <1>5. \A c \in Bookers : ~Billed(c)'
    BY <1>1, <1>4 DEF BillRight, Billed
  <1>6. RowRight'
    <2>1. MicrosOf(pieces)' = MicrosOf(With(b))
      BY <1>2 DEF MicrosOf
    <2>. QED  BY <1>2, <1>3, <2>1 DEF RowRight, Saves, Near
  <1>7. BillRight'
    BY <1>5 DEF BillRight
  <1>8. OthersCheap'
    <2>. SUFFICES ASSUME NEW c \in Bookers, booking'[c].step = "summed"
                  PROVE  booking'[c].mine.micros = pieces'[booking'[c].piece].micros
      BY DEF OthersCheap
    <2>1. c # b /\ booking'[c] = booking[c] /\ ~Billed(c)
      BY <1>4, <1>5 DEF Billed
    <2>2. booking[c].piece # s.piece /\ booking[c].piece \in Pieces
      BY <2>1, CommitFields DEF CostTypeInv, Slots
    <2>3. pieces'[booking[c].piece] = pieces[booking[c].piece]
      BY <1>2, <2>2 DEF With, CostTypeInv, CostTypeOK
    <2>. QED  BY <1>1, <2>1, <2>3 DEF OthersCheap
  <1>. QED  BY <1>6, <1>7, <1>8

LEMMA CostStep == CostTypeInv /\ CostTypeInv' /\ CostInv /\ [CostNext]_costVars => CostInv'
  <1>. SUFFICES ASSUME CostTypeInv, CostTypeInv', CostInv, [CostNext]_costVars PROVE CostInv'
    OBVIOUS
  <1>1. CASE UNCHANGED costVars \/ RefreshPay
    <2>1. UNCHANGED <<pieces, costRows, booking, summedAtOnce>>
      BY <1>1 DEF costVars, RefreshPay
    <2>. QED  BY <2>1, PricesStay
  <1>2. ASSUME NEW p \in Pieces, NEW verdict \in {"approved", "rejected", "queued"},
               ReviewPiece(p, verdict)
        PROVE  CostInv'
    <2>1. UNCHANGED <<costRows, booking, summedAtOnce>>
      BY <1>2 DEF ReviewPiece
    <2>2. \A q \in Pieces : pieces'[q].micros = pieces[q].micros
      BY <1>2 DEF ReviewPiece, CostTypeInv, CostTypeOK, Piece
    <2>. QED  BY <2>1, <2>2, PricesStay
  <1>3. ASSUME NEW b \in Bookers, NEW p \in Pieces, ClaimPiece(b, p) \/ PublishPiece(b, p)
        PROVE  CostInv'
    <2>1. Open(b, p) /\ UNCHANGED <<costRows, summedAtOnce>>
      BY <1>3 DEF ClaimPiece, PublishPiece
    <2>2. \A c \in Bookers : booking'[c].step # "summed" \/ booking'[c] = booking[c]
      BY <2>1, OpenFields
    <2>3. \A q \in Pieces : pieces'[q].micros = pieces[q].micros
      BY <1>3 DEF ClaimPiece, PublishPiece, CostTypeInv, CostTypeOK, Piece
    <2>. QED  BY <2>1, <2>2, <2>3, PricesStay
  <1>4. ASSUME NEW b \in Bookers, DraftDone(b) PROVE CostInv'
    <2>1. PICK call \in Calls :
            Sum(b, [status |-> "preview_ready", micros |-> MeteredMicros(call), words |-> call.words])
      BY <1>4 DEF DraftDone
    <2>2. [status |-> "preview_ready", micros |-> MeteredMicros(call), words |-> call.words] \in Piece
      BY MeteredTyped, JobStatuses DEF Piece
    <2>. QED  BY <1>4, <2>1, <2>2, SumKeeps DEF DraftDone
  <1>5. ASSUME NEW b \in Bookers, PublishSums(b) PROVE CostInv'
    <2>1. booking[b].step = "working" /\ booking[b].piece \in Pieces
      BY <1>5 DEF PublishSums, CostTypeInv, Slots
    <2>2. Pushed(b) \in Piece /\ Pushed(b).micros = pieces[booking[b].piece].micros
      <3>1. pieces[booking[b].piece] \in Piece /\ "published" \in JobStatus \ {Absent}
        BY <2>1, JobStatuses DEF CostTypeInv, CostTypeOK
      <3>2. \A q \in Piece, st \in JobStatus \ {Absent} :
              [q EXCEPT !.status = st] \in Piece /\ [q EXCEPT !.status = st].micros = q.micros
        BY DEF Piece
      <3>. QED  BY <3>1, <3>2 DEF Pushed
    <2>3. CASE Sum(b, Pushed(b))
      BY <2>1, <2>2, <2>3, SumKeeps
    <2>4. CASE /\ booking' = [booking EXCEPT ![b] = [@ EXCEPT !.step = "summed", !.mine = Pushed(b)]]
               /\ UNCHANGED <<pieces, standing, costRows, pay, attempted, costIds, spendVars, summedAtOnce>>
      <3>. DEFINE v == [booking[b] EXCEPT !.step = "summed", !.mine = Pushed(b)]
      <3>1. v.mine = Pushed(b) /\ v.piece = booking[b].piece /\ v.bill = booking[b].bill
        BY <2>2, BookingFields DEF Booking, CostTypeInv
      <3>. HIDE DEF v
      <3>2. booking'[b] = v /\ \A c \in Bookers : c # b => booking'[c] = booking[c]
        BY <2>4 DEF v, CostTypeInv, CostTypeOK
      <3>3. booking[b].bill = NoRow
        BY <2>1 DEF CostTypeInv, Slots
      <3>4. \A c \in Bookers : \/ booking'[c] = booking[c]
                               \/ /\ booking'[c].bill = NoRow
                                  /\ booking'[c].mine.micros = pieces[booking'[c].piece].micros
        BY <2>2, <3>1, <3>2, <3>3
      <3>. QED  BY <2>4, <3>4, PricesStay
    <2>. QED  BY <1>5, <2>3, <2>4 DEF PublishSums
  <1>6. ASSUME NEW b \in Bookers, CommitCost(b) PROVE CostInv'
    <2>1. CASE Billed(b)
      BY <1>6, <2>1, BillCommits
    <2>2. CASE ~Billed(b) /\ ~summedAtOnce
      <3>1. /\ costRows' = costRows /\ summedAtOnce' = summedAtOnce
            /\ booking' = [booking EXCEPT ![b] = NoBooking]
            /\ booking[b].mine.micros = pieces[booking[b].piece].micros
            /\ pieces' = [pieces EXCEPT ![booking[b].piece] = booking[b].mine]
        BY <1>6, <2>2, CommitFields DEF CostInv, OthersCheap, Billed
      <3>2. \A p \in Pieces : pieces'[p].micros = pieces[p].micros
        BY <3>1 DEF CostTypeInv, CostTypeOK
      <3>3. \A c \in Bookers : booking'[c].step # "summed" \/ booking'[c] = booking[c]
        BY <3>1, CloseFields
      <3>. QED  BY <3>1, <3>2, <3>3, PricesStay
    <2>3. CASE summedAtOnce
      BY <1>6, <2>3, CommitFields DEF CostInv
    <2>. QED  BY <2>1, <2>2, <2>3
  <1>7. ASSUME NEW b \in Bookers, AbortCost(b) PROVE CostInv'
    <2>1. UNCHANGED <<costRows, summedAtOnce>> /\ booking' = [booking EXCEPT ![b] = NoBooking]
      BY <1>7 DEF AbortCost
    <2>2. \A c \in Bookers : booking'[c].step # "summed" \/ booking'[c] = booking[c]
      BY <2>1, CloseFields
    <2>3. \A q \in Pieces : pieces'[q].micros = pieces[q].micros
      BY <1>7 DEF AbortCost, CostTypeInv, CostTypeOK, Piece
    <2>. QED  BY <2>1, <2>2, <2>3, PricesStay
  <1>. QED  BY <1>1, <1>2, <1>3, <1>4, <1>5, <1>6, <1>7 DEF CostNext

\* A transaction that is no draft's leaves its job's price; and the prices of all drafts are
\* those that the jobs keep, unless one was lost.
PushCheap ==
  \A b \in Bookers : booking[b].step = "summed" /\ ~Drafted(b)
                       => booking[b].mine.micros = pieces[booking[b].piece].micros
SpendInv ==
  /\ PushCheap
  /\ MicrosOf(pieces) <= metered
  /\ lost \/ MicrosOf(pieces) = metered

\* One price replaced.
LEMMA OnePriceChanges ==
  ASSUME NEW ps \in [Pieces -> Piece], NEW p \in Pieces, NEW row \in Piece
  PROVE  MicrosOf([ps EXCEPT ![p] = row]) = MicrosOf(ps) - ps[p].micros + row.micros
  <1>. DEFINE qs == [ps EXCEPT ![p] = row]
              f == [q \in Pieces |-> ps[q].micros]
              g == [q \in Pieces |-> qs[q].micros]
  <1>1. qs \in [Pieces -> Piece] /\ IsFiniteSet(Pieces) /\ IsFiniteSet(Pieces \ {p})
    BY ExpenditureAssumption, FS_Subset
  <1>2. \A q \in Pieces : f[q] \in Int /\ g[q] \in Int /\ (q # p => g[q] = f[q])
    BY <1>1 DEF Piece
  <1>3. f[p] = ps[p].micros /\ g[p] = row.micros
    OBVIOUS
  <1>4. MicrosOf(ps) = SumFunctionOnSet(f, Pieces) /\ MicrosOf(qs) = SumFunctionOnSet(g, Pieces)
    BY DEF MicrosOf, SumFunction
  <1>. HIDE DEF f, g, qs
  <1>5. SumFunctionOnSet(f, Pieces) = f[p] + SumFunctionOnSet(f, Pieces \ {p})
    BY <1>1, <1>2, SumSplits
  <1>6. SumFunctionOnSet(g, Pieces) = g[p] + SumFunctionOnSet(g, Pieces \ {p})
    BY <1>1, <1>2, SumSplits
  <1>7. SumFunctionOnSet(g, Pieces \ {p}) = SumFunctionOnSet(f, Pieces \ {p})
    BY <1>1, <1>2, SumAgrees
  <1>8. SumFunctionOnSet(f, Pieces \ {p}) \in Int /\ f[p] \in Int /\ g[p] \in Int
    BY <1>1, <1>2, SumType
  <1>9. MicrosOf(qs) = MicrosOf(ps) - ps[p].micros + row.micros
    BY <1>3, <1>4, <1>5, <1>6, <1>7, <1>8
  <1>. QED  BY <1>9 DEF qs

\* A step that changes no price and meters none, and no job of a transaction that has summed.
LEMMA SpendStays ==
  ASSUME CostTypeInv, CostTypeInv', SpendInv, UNCHANGED spendVars,
         \A p \in Pieces : pieces'[p].micros = pieces[p].micros,
         \A b \in Bookers : booking'[b].step = "summed" =>
           LET q == booking'[b].piece
           IN  \/ booking'[b] = booking[b] /\ pieces'[q].status = pieces[q].status
               \/ pieces'[q].status = "running"
               \/ booking'[b].mine.micros = pieces[q].micros
  PROVE  SpendInv'
  <1>1. MicrosOf(pieces') = MicrosOf(pieces)
    BY MicrosAgree DEF CostTypeInv, CostTypeOK
  <1>2. PushCheap'
    <2>. SUFFICES ASSUME NEW b \in Bookers, booking'[b].step = "summed", ~Drafted(b)'
                  PROVE  booking'[b].mine.micros = pieces'[booking'[b].piece].micros
      BY DEF PushCheap
    <2>1. booking'[b].piece \in Pieces /\ pieces'[booking'[b].piece].status # "running"
      BY DEF CostTypeInv, Slots, Drafted
    <2>2. CASE booking'[b] = booking[b] /\ pieces'[booking'[b].piece].status = pieces[booking'[b].piece].status
      BY <2>1, <2>2 DEF SpendInv, PushCheap, Drafted
    <2>3. CASE booking'[b].mine.micros = pieces[booking'[b].piece].micros
      BY <2>1, <2>3
    <2>. QED  BY <2>1, <2>2, <2>3
  <1>3. MicrosOf(pieces)' = MicrosOf(pieces)
    BY <1>1 DEF MicrosOf
  <1>. QED  BY <1>2, <1>3 DEF SpendInv, spendVars

\* A transaction ends, leaving ps: no other one is about its job.
LEMMA OthersPush ==
  ASSUME CostTypeInv, SpendInv, NEW b \in Bookers, booking[b].step # "idle",
         booking' = [booking EXCEPT ![b] = NoBooking],
         \A p \in Pieces \ {booking[b].piece} : pieces'[p] = pieces[p]
  PROVE  PushCheap'
  <1>. SUFFICES ASSUME NEW c \in Bookers, booking'[c].step = "summed", ~Drafted(c)'
                PROVE  booking'[c].mine.micros = pieces'[booking'[c].piece].micros
    BY DEF PushCheap
  <1>1. c # b /\ booking'[c] = booking[c]
    BY CloseFields
  <1>2. booking[c].piece \in Pieces \ {booking[b].piece}
    BY <1>1 DEF CostTypeInv, Slots
  <1>. QED  BY <1>1, <1>2 DEF SpendInv, PushCheap, Drafted

LEMMA SpendInitially == CostInit => SpendInv
  <1>. SUFFICES ASSUME CostInit PROVE SpendInv
    OBVIOUS
  <1>1. MicrosOf(pieces) = 0
    BY NoMicros
  <1>2. \A b \in Bookers : booking[b].step = "idle"
    BY NoBookingTyped DEF CostInit
  <1>. QED  BY <1>1, <1>2 DEF SpendInv, PushCheap, CostInit

LEMMA SpendStep == CostTypeInv /\ CostTypeInv' /\ SpendInv /\ [CostNext]_costVars => SpendInv'
  <1>. SUFFICES ASSUME CostTypeInv, CostTypeInv', SpendInv, [CostNext]_costVars PROVE SpendInv'
    OBVIOUS
  <1>1. CASE UNCHANGED costVars \/ RefreshPay
    <2>1. UNCHANGED <<pieces, booking, spendVars>>
      BY <1>1 DEF costVars, spendVars, RefreshPay
    <2>. QED  BY <2>1, SpendStays
  <1>2. ASSUME NEW p \in Pieces, NEW verdict \in {"approved", "rejected", "queued"},
               ReviewPiece(p, verdict)
        PROVE  SpendInv'
    <2>1. UNCHANGED <<booking, spendVars>> /\ \A b \in Bookers : booking[b].piece # p
      BY <1>2 DEF ReviewPiece, Held
    <2>2. /\ \A q \in Pieces : pieces'[q].micros = pieces[q].micros
          /\ \A q \in Pieces : q # p => pieces'[q].status = pieces[q].status
      BY <1>2 DEF ReviewPiece, CostTypeInv, CostTypeOK, Piece
    <2>3. \A b \in Bookers : booking[b].step = "summed" => booking[b].piece \in Pieces
      BY DEF CostTypeInv, Slots
    <2>. QED  BY <2>1, <2>2, <2>3, SpendStays
  <1>3. ASSUME NEW b \in Bookers, NEW p \in Pieces, ClaimPiece(b, p) \/ PublishPiece(b, p)
        PROVE  SpendInv'
    <2>1. Open(b, p) /\ UNCHANGED spendVars
      BY <1>3 DEF ClaimPiece, PublishPiece
    <2>2. /\ \A q \in Pieces : pieces'[q].micros = pieces[q].micros
          /\ \A q \in Pieces : q # p => pieces'[q].status = pieces[q].status
      BY <1>3 DEF ClaimPiece, PublishPiece, CostTypeInv, CostTypeOK, Piece
    <2>3. \A c \in Bookers : booking'[c].step = "summed" =>
            booking'[c] = booking[c] /\ booking[c].piece \in Pieces /\ booking[c].piece # p
      BY <2>1, OpenFields DEF CostTypeInv, Slots
    <2>. QED  BY <2>1, <2>2, <2>3, SpendStays
  <1>4. ASSUME NEW b \in Bookers, DraftDone(b) PROVE SpendInv'
    <2>1. PICK call \in Calls :
            Sum(b, [status |-> "preview_ready", micros |-> MeteredMicros(call), words |-> call.words])
      BY <1>4 DEF DraftDone
    <2>2. [status |-> "preview_ready", micros |-> MeteredMicros(call), words |-> call.words] \in Piece
      BY MeteredTyped, JobStatuses DEF Piece
    <2>3. /\ booking'[b].piece = booking[b].piece /\ pieces[booking[b].piece].status = "running"
          /\ \A c \in Bookers : c # b => booking'[c] = booking[c]
      BY <1>4, <2>1, <2>2, SumFields DEF DraftDone
    <2>4. UNCHANGED <<pieces, spendVars>>
      BY <2>1 DEF Sum
    <2>. QED  BY <2>3, <2>4, SpendStays
  <1>5. ASSUME NEW b \in Bookers, PublishSums(b) PROVE SpendInv'
    <2>1. booking[b].step = "working" /\ booking[b].piece \in Pieces
      BY <1>5 DEF PublishSums, CostTypeInv, Slots
    <2>2. Pushed(b) \in Piece /\ Pushed(b).micros = pieces[booking[b].piece].micros
      <3>1. pieces[booking[b].piece] \in Piece /\ "published" \in JobStatus \ {Absent}
        BY <2>1, JobStatuses DEF CostTypeInv, CostTypeOK
      <3>2. \A q \in Piece, st \in JobStatus \ {Absent} :
              [q EXCEPT !.status = st] \in Piece /\ [q EXCEPT !.status = st].micros = q.micros
        BY DEF Piece
      <3>. QED  BY <3>1, <3>2 DEF Pushed
    <2>3. /\ booking'[b].mine = Pushed(b) /\ booking'[b].piece = booking[b].piece
          /\ \A c \in Bookers : c # b => booking'[c] = booking[c]
      <3>1. CASE Sum(b, Pushed(b))
        BY <2>1, <2>2, <3>1, SumFields
      <3>2. CASE booking' = [booking EXCEPT ![b] = [@ EXCEPT !.step = "summed", !.mine = Pushed(b)]]
        <4>. DEFINE v == [booking[b] EXCEPT !.step = "summed", !.mine = Pushed(b)]
        <4>1. v.mine = Pushed(b) /\ v.piece = booking[b].piece
          BY <2>2, BookingFields DEF Booking, CostTypeInv
        <4>. HIDE DEF v
        <4>2. booking'[b] = v /\ \A c \in Bookers : c # b => booking'[c] = booking[c]
          BY <3>2 DEF v, CostTypeInv, CostTypeOK
        <4>. QED  BY <4>1, <4>2
      <3>. QED  BY <1>5, <3>1, <3>2 DEF PublishSums
    <2>4. UNCHANGED <<pieces, spendVars>>
      BY <1>5 DEF PublishSums, Sum
    <2>. QED  BY <2>2, <2>3, <2>4, SpendStays
  <1>6. ASSUME NEW b \in Bookers, CommitCost(b) PROVE SpendInv'
    <2>. DEFINE p == booking[b].piece
                mine == booking[b].mine
    <2>1. /\ pieces' = [pieces EXCEPT ![p] = mine] /\ booking[b].step = "summed" /\ p \in Pieces
          /\ booking' = [booking EXCEPT ![b] = NoBooking] /\ mine \in Piece
          /\ pieces \in [Pieces -> Piece] /\ metered \in Nat /\ lost \in BOOLEAN
      BY <1>6, CommitFields, BookingFields DEF CostTypeInv, CostTypeOK
    <2>2. PushCheap'
      BY <2>1, OthersPush
    <2>3. MicrosOf(pieces') = MicrosOf(pieces) - pieces[p].micros + mine.micros
      BY <2>1, OnePriceChanges
    <2>4. /\ MicrosOf(pieces) \in Nat /\ mine.micros \in Nat /\ pieces[p].micros \in Nat
          /\ MicrosOf(pieces)' = MicrosOf(pieces')
      <3>1. MicrosOf(pieces)' = MicrosOf(pieces')
        BY DEF MicrosOf
      <3>. QED  BY <2>1, <3>1, MicrosTyped DEF Piece
    <2>5. /\ metered' = metered + (IF Drafted(b) THEN mine.micros ELSE 0)
          /\ lost' = (lost \/ (Drafted(b) /\ pieces[p].micros > 0))
      BY <1>6 DEF CommitCost, Meter
    <2>6. ~Drafted(b) => mine.micros = pieces[p].micros
      BY <2>1 DEF SpendInv, PushCheap
    <2>7. MicrosOf(pieces)' <= metered' /\ (lost' \/ MicrosOf(pieces)' = metered')
      <3>. HIDE DEF p, mine
      <3>1. CASE Drafted(b)
        <4>1. /\ metered' = metered + mine.micros
              /\ MicrosOf(pieces)' = MicrosOf(pieces) - pieces[p].micros + mine.micros
          BY <2>3, <2>4, <2>5, <3>1
        <4>2. MicrosOf(pieces)' <= metered'
          BY <2>1, <2>4, <4>1 DEF SpendInv
        <4>3. CASE pieces[p].micros > 0
          BY <2>5, <3>1, <4>2, <4>3
        <4>4. CASE pieces[p].micros = 0 /\ lost
          BY <2>5, <4>2, <4>4
        <4>5. CASE pieces[p].micros = 0 /\ ~lost
          <5>1. MicrosOf(pieces) = metered
            BY <4>5 DEF SpendInv
          <5>. QED  BY <2>1, <2>4, <4>1, <4>2, <4>5, <5>1
        <4>. QED  BY <2>4, <4>3, <4>4, <4>5
      <3>2. CASE ~Drafted(b)
        BY <2>1, <2>3, <2>4, <2>5, <2>6, <3>2 DEF SpendInv
      <3>. QED  BY <3>1, <3>2
    <2>. QED  BY <2>2, <2>7 DEF SpendInv
  <1>7. ASSUME NEW b \in Bookers, AbortCost(b) PROVE SpendInv'
    <2>1. /\ booking' = [booking EXCEPT ![b] = NoBooking] /\ booking[b].step # "idle"
          /\ booking[b].piece \in Pieces
      BY <1>7 DEF AbortCost, CostTypeInv, Slots
    <2>2. /\ \A q \in Pieces : pieces'[q].micros = pieces[q].micros
          /\ \A q \in Pieces \ {booking[b].piece} : pieces'[q] = pieces[q]
      BY <1>7 DEF AbortCost, CostTypeInv, CostTypeOK, Piece
    <2>3. PushCheap'
      BY <2>1, <2>2, OthersPush
    <2>4. MicrosOf(pieces)' = MicrosOf(pieces) /\ MicrosOf(pieces) \in Nat
      <3>1. MicrosOf(pieces') = MicrosOf(pieces)
        BY <2>2, MicrosAgree DEF CostTypeInv, CostTypeOK
      <3>2. MicrosOf(pieces)' = MicrosOf(pieces')
        BY DEF MicrosOf
      <3>. QED  BY <3>1, <3>2, MicrosTyped DEF CostTypeInv, CostTypeOK
    <2>5. metered \in Nat /\ metered' >= metered
      <3>1. booking[b].mine.micros \in Nat /\ metered \in Nat
        BY BookingFields DEF CostTypeInv, CostTypeOK, Piece
      <3>2. metered' = metered + (IF Drafted(b) THEN booking[b].mine.micros ELSE 0)
        BY <1>7 DEF AbortCost, Meter
      <3>. QED  BY <3>1, <3>2
    <2>6. lost' = (lost \/ metered' # metered)
      BY <1>7 DEF AbortCost
    <2>7. lost' \/ MicrosOf(pieces)' = metered'
      BY <2>4, <2>6 DEF SpendInv
    <2>. QED  BY <1>7, <2>3, <2>4, <2>5, <2>7, MeterTyped DEF SpendInv, AbortCost
  <1>. QED  BY <1>1, <1>2, <1>3, <1>4, <1>5, <1>6, <1>7 DEF CostNext

LEMMA CostInvariant == CostSpec => [](CostTypeInv /\ CostInv /\ SpendInv)
  BY CostInitially, CostStep, SpendInitially, SpendStep, CostTypeInvariant, PTL DEF CostSpec

\* Unless two transactions have summed at the same moment, the pipeline has one cost row,
\* which says what the last drafts of its jobs cost and what that saves, within half a cent.
\* It is all that was metered, unless a draft was rolled back or generated again.
THEOREM CostsAddUpCorrect == CostSpec => []CostsAddUp
  <1>1. CostTypeInv /\ CostInv /\ SpendInv => CostsAddUp
    <2>. SUFFICES ASSUME CostTypeInv, CostInv, SpendInv, ~summedAtOnce
                  PROVE  /\ Totals.count <= 1
                         /\ Reported = MicrosOf(pieces)
                         /\ Reported <= metered /\ (~lost => Reported = metered)
                         /\ Totals.count = Totals.with_baseline
                              => 2 * (Totals.savings - (Totals.human - Totals.ai)) \in -Cent .. Cent
                         /\ LedgerCost <= Reported
      BY DEF CostsAddUp, MicrosOf
    <2>. DEFINE a == [row \in costRows |-> row.micros]
                Saved == {row \in costRows : row.savings # Null}
                h == [row \in WithBaseline |-> row.human]
                v == [row \in Saved |-> row.savings]
    <2>1. RowRight /\ Cent \in Nat /\ Null \notin Int
      BY ExpenditureAssumption DEF CostInv
    <2>2. LedgerCost <= MicrosOf(pieces) /\ MicrosOf(pieces) \in Nat
      BY MicrosTyped DEF LedgerCost, LedgerRecords, CostTypeInv, CostTypeOK
    <2>3. /\ Reported = SumFunctionOnSet(a, costRows)
          /\ Totals.ai = SumFunctionOnSet(a, costRows)
          /\ Totals.human = SumFunctionOnSet(h, WithBaseline)
          /\ Totals.savings = SumFunctionOnSet(v, Saved)
          /\ Totals.count = Cardinality(costRows)
          /\ Totals.with_baseline = Cardinality(WithBaseline)
      BY DEF Totals, Reported, SumFunction
    <2>4. MicrosOf(pieces) <= metered /\ (~lost => MicrosOf(pieces) = metered)
      BY DEF SpendInv
    <2>5. CASE costRows = {}
      <3>1. WithBaseline = {} /\ Saved = {}
        BY <2>5 DEF WithBaseline
      <3>2. /\ Cardinality(costRows) = 0
            /\ SumFunctionOnSet(a, costRows) = 0 /\ SumFunctionOnSet(h, WithBaseline) = 0
            /\ SumFunctionOnSet(v, Saved) = 0
        BY <2>5, <3>1, FS_EmptySet, SumEmpty
      <3>3. MicrosOf(pieces) = 0
        BY <2>1, <2>5 DEF RowRight
      <3>. HIDE DEF a, h, v, Saved
      <3>. QED  BY <2>1, <2>2, <2>3, <2>4, <3>2, <3>3
    <2>6. CASE costRows # {}
      <3>1. PICK r \in costRows : costRows = {r}
        BY <2>1, <2>6 DEF RowRight
      <3>2. r.micros \in Nat /\ r.human \in Int \cup {Null} /\ r.savings \in Int \cup {Null}
        BY DEF CostTypeInv, CostTypeOK, CostRow
      <3>3. r.micros = MicrosOf(pieces) /\ Saves(r)
        BY <2>1 DEF RowRight
      <3>4. Cardinality(costRows) = 1
        <4>. HIDE DEF a, h, v, Saved
        <4>1. \E x : costRows = {x}
          BY <3>1
        <4>2. IsFiniteSet(costRows)
          BY DEF CostTypeInv
        <4>. QED  BY <4>1, <4>2, FS_Singleton
      <3>5. Cardinality(costRows) = 1 /\ SumFunctionOnSet(a, costRows) = r.micros
        <4>1. a[r] = r.micros
          OBVIOUS
        <4>. HIDE DEF a, h, v, Saved
        <4>2. a[r] \in Int
          BY <3>2, <4>1
        <4>3. SumFunctionOnSet(a, {r}) = a[r]
          BY <4>2, SumOfOne
        <4>. QED  BY <3>4, <3>1, <4>1, <4>3
      <3>6. CASE r.human = Null
        <4>1. WithBaseline = {}
          BY <3>1, <3>6 DEF WithBaseline
        <4>2. Cardinality(WithBaseline) = 0
          BY <4>1, FS_EmptySet
        <4>. HIDE DEF a, h, v, Saved
        <4>. QED  BY <2>2, <2>3, <2>4, <3>3, <3>5, <4>2
      <3>7. CASE r.human # Null
        <4>1. /\ r.savings \in Int /\ r.human \in Int
              /\ 2 * (r.savings - (r.human - r.micros)) \in -Cent .. Cent
          BY <3>2, <3>3, <3>7 DEF Saves, Near
        <4>2. WithBaseline = {r} /\ Saved = {r}
          BY <2>1, <3>1, <3>7, <4>1 DEF WithBaseline
        <4>3. h[r] = r.human /\ v[r] = r.savings
          BY <4>2
        <4>. HIDE DEF a, h, v, Saved
        <4>4. SumFunctionOnSet(h, WithBaseline) = r.human /\ SumFunctionOnSet(v, Saved) = r.savings
          BY <4>1, <4>2, <4>3, SumOfOne
        <4>. QED  BY <2>2, <2>3, <2>4, <3>3, <3>5, <4>1, <4>4
      <3>. QED  BY <3>6, <3>7
    <2>. QED  BY <2>5, <2>6
  <1>. QED  BY <1>1, CostInvariant, PTL

--------------------------------------------------------------------------------
(***************************************************************************)
(* The morning cycle: agents and their steps                               *)
(***************************************************************************)
LEMMA LeastOfFew ==
  ASSUME NEW S \in SUBSET (1 .. 9), S # {}
  PROVE  Min(S) \in S /\ \A y \in S : Min(S) <= y
  <1>1. \E x \in S : \A y \in S : x =< y
    <2>. SUFFICES ASSUME \A x \in S : \E y \in S : ~ x <= y PROVE FALSE
      OBVIOUS
    <2>1. \A x \in S : \E y \in S : y < x /\ x \in 1 .. 9 /\ y \in 1 .. 9
      OBVIOUS
    <2>2. 1 \notin S
      BY <2>1
    <2>3. 2 \notin S
      BY <2>1, <2>2
    <2>4. 3 \notin S
      BY <2>1, <2>2, <2>3
    <2>5. 4 \notin S
      BY <2>1, <2>2, <2>3, <2>4
    <2>6. 5 \notin S
      BY <2>1, <2>2, <2>3, <2>4, <2>5
    <2>7. 6 \notin S
      BY <2>1, <2>2, <2>3, <2>4, <2>5, <2>6
    <2>8. 7 \notin S /\ 8 \notin S
      BY <2>1, <2>2, <2>3, <2>4, <2>5, <2>6, <2>7
    <2>9. 9 \notin S
      BY <2>1, <2>2, <2>3, <2>4, <2>5, <2>6, <2>7, <2>8
    <2>10. \E x \in S : x \in 1 .. 9
      OBVIOUS
    <2>. QED  BY <2>2, <2>3, <2>4, <2>5, <2>6, <2>7, <2>8, <2>9, <2>10
  <1>. QED  BY <1>1 DEF Min

LEMMA SixAgents ==
  /\ Len(AgentOrder) = 6 /\ DOMAIN AgentOrder = 1 .. 6 /\ Planning = 7
  BY DEF AgentOrder, Planning

LEMMA StopsOf ==
  /\ \A k : k \notin 1 .. 6 => DOMAIN Stops(k) = {}
  /\ DOMAIN Stops(6) = {1} /\ Stops(6)[1] = "reporting"
  /\ \A k : DOMAIN Stops(k) \subseteq 1 .. 9
  /\ \A k \in 1 .. 5 : \A i \in DOMAIN Stops(k) : Stops(k)[i] # "reporting"
  <1>1. \A k : k \notin 1 .. 6 => DOMAIN Stops(k) = {}
    <2>1. \A k : k \notin 1 .. 6 => Stops(k) = <<>>
      BY SixAgents DEF Stops
    <2>. QED  BY <2>1
  <1>2. /\ Stops(1) = Owned.research /\ Stops(2) = Owned.analytics
        /\ Stops(3) = Owned.opportunity /\ Stops(4) = Owned.production
        /\ Stops(5) = Owned.paid_media /\ Stops(6) = Owned.reporting
    BY SixAgents DEF Stops, AgentOrder, Owned
  <1>3. /\ DOMAIN Stops(1) = 1 .. 2 /\ DOMAIN Stops(2) = 1 .. 9 /\ DOMAIN Stops(3) = 1 .. 6
        /\ DOMAIN Stops(4) = 1 .. 4 /\ DOMAIN Stops(5) = 1 .. 6 /\ DOMAIN Stops(6) = 1 .. 1
    BY <1>2 DEF Owned
  <1>4. DOMAIN Stops(6) = {1} /\ Stops(6)[1] = "reporting"
    BY <1>2, <1>3 DEF Owned
  <1>5. \A k : DOMAIN Stops(k) \subseteq 1 .. 9
    <2>. TAKE k
    <2>1. CASE k \in 1 .. 6
      <3>1. k = 1 \/ k = 2 \/ k = 3 \/ k = 4 \/ k = 5 \/ k = 6
        BY <2>1
      <3>. QED  BY <1>3, <3>1
    <2>2. CASE k \notin 1 .. 6
      BY <1>1, <2>2
    <2>. QED  BY <2>1, <2>2
  <1>6. \A k \in 1 .. 5 : \A i \in DOMAIN Stops(k) : Stops(k)[i] # "reporting"
    <2>1. \A i \in DOMAIN Stops(1) : Stops(1)[i] # "reporting"
      BY <1>2, <1>3 DEF Owned
    <2>2. \A i \in DOMAIN Stops(2) : Stops(2)[i] # "reporting"
      BY <1>2, <1>3 DEF Owned
    <2>3. \A i \in DOMAIN Stops(3) : Stops(3)[i] # "reporting"
      BY <1>2, <1>3 DEF Owned
    <2>4. \A i \in DOMAIN Stops(4) : Stops(4)[i] # "reporting"
      BY <1>2, <1>3 DEF Owned
    <2>5. \A i \in DOMAIN Stops(5) : Stops(5)[i] # "reporting"
      BY <1>2, <1>3 DEF Owned
    <2>6. ASSUME NEW k \in 1 .. 5
          PROVE  k = 1 \/ k = 2 \/ k = 3 \/ k = 4 \/ k = 5
      OBVIOUS
    <2>. QED  BY <2>1, <2>2, <2>3, <2>4, <2>5, <2>6
  <1>. QED  BY <1>1, <1>4, <1>5, <1>6

LEMMA FollowingIsLater ==
  ASSUME NEW k \in 0 .. 6
  PROVE  /\ Following(k) \in k + 1 .. 7
         /\ Trip(Following(k)) \subseteq DOMAIN Stops(Following(k))
  <1>. DEFINE S == {j \in k + 1 .. Planning : j = Planning \/ Trip(j) # {}}
  <1>1. S \in SUBSET (1 .. 9) /\ 7 \in S /\ S \subseteq k + 1 .. 7
    BY SixAgents
  <1>2. Min(S) \in S
    <2>. HIDE DEF S
    <2>. QED  BY <1>1, LeastOfFew
  <1>3. Following(k) = Min(S)
    BY DEF Following
  <1>4. \A j : Trip(j) \subseteq DOMAIN Stops(j)
    BY DEF Trip
  <1>. HIDE DEF S
  <1>. QED  BY <1>1, <1>2, <1>3, <1>4

--------------------------------------------------------------------------------
(***************************************************************************)
(* The morning cycle: what its steps write                                 *)
(***************************************************************************)
LEMMA CycleFields ==
  ASSUME CycleTypeOK, NEW c \in CycleRuns
  PROVE  /\ cyc[c] \in Cycle
         /\ cyc[c].run \in 0 .. MaxRuns /\ cyc[c].at \in 0 .. 7
         /\ cyc[c].todo \subseteq DOMAIN Stops(cyc[c].at) /\ cyc[c].found \in SUBSET Note
         /\ cyc[c].charged \in Nat /\ cyc[c].free \in Nat /\ cyc[c].free <= cyc[c].charged
         /\ cyc[c].refreshing \in BOOLEAN
         /\ cyc[c].seen \in SUBSET Row /\ cyc[c].gone \in SUBSET Row /\ cyc[c].made \in SUBSET Row
         /\ cyc[c].kept \in SUBSET NoteKinds
  BY SixAgents DEF CycleTypeOK, Cycle

LEMMA NoCycleFields ==
  /\ NoCycle \in Cycle /\ NoCycle.at = 0 /\ NoCycle.run = 0 /\ NoCycle.todo = {}
  /\ NoCycle.found = {} /\ NoCycle.charged = 0 /\ NoCycle.free = 0 /\ NoCycle.refreshing = FALSE
  /\ NoCycle.seen = {} /\ NoCycle.gone = {} /\ NoCycle.made = {} /\ NoCycle.kept = {}
  BY SixAgents, CycleAssumption DEF NoCycle, Cycle

\* The notes of a step.
Noted(c, kinds) == {[kind |-> k, day |-> today, by |-> cyc[c].run] : k \in kinds}

\* Of the runs only that of c changes, and nothing else.
OnlyRun(c) ==
  /\ cyc' = [cyc EXCEPT ![c] = cyc'[c]] /\ cyc'[c] \in Cycle
  /\ \A d \in CycleRuns : d # c => cyc'[d] = cyc[d]
  /\ UNCHANGED Rest

Persisted(c, kinds, n, f) ==
  /\ OnlyRun(c)
  /\ cyc'[c].run = cyc[c].run /\ cyc'[c].at = cyc[c].at
  /\ cyc'[c].todo = cyc[c].todo \ {Min(cyc[c].todo)}
  /\ cyc'[c].found = cyc[c].found \cup Noted(c, kinds)
  /\ cyc'[c].charged = cyc[c].charged + n /\ cyc'[c].free = cyc[c].free + f
  /\ cyc'[c].refreshing = cyc[c].refreshing
  /\ cyc'[c].seen = cyc[c].seen /\ cyc'[c].gone = cyc[c].gone /\ cyc'[c].made = cyc[c].made
  /\ cyc'[c].kept = cyc[c].kept

RefreshStarted(c, table, n) ==
  /\ WithinCaps(c, n) /\ ~cyc[c].refreshing
  /\ cyc[c].todo # {} /\ table = Stops(cyc[c].at)[Min(cyc[c].todo)]
  /\ OnlyRun(c)
  /\ cyc'[c].run = cyc[c].run /\ cyc'[c].at = cyc[c].at
  /\ cyc'[c].todo = cyc[c].todo /\ cyc'[c].found = cyc[c].found
  /\ cyc'[c].charged = cyc[c].charged + n /\ cyc'[c].free = cyc[c].free
  /\ cyc'[c].refreshing = TRUE
  /\ cyc'[c].seen = Replaced(table) /\ cyc'[c].gone = cyc[c].gone
  /\ cyc'[c].made = cyc[c].made /\ cyc'[c].kept = cyc[c].kept

\* What a refresh that inserts must not meet.
Met(c) == (UNION {cyc[d].made : d \in CycleRuns \ {c}}) \cup (snapshots \ cyc[c].seen)

RefreshFinished(c, table, C) ==
  /\ ~ \E q \in Inserted(c, table, C), r \in Met(c) : SameKey(q, r)
  /\ cyc[c].refreshing /\ table = Stops(cyc[c].at)[Min(cyc[c].todo)]
  /\ OnlyRun(c)
  /\ cyc'[c].run = cyc[c].run /\ cyc'[c].at = cyc[c].at
  /\ cyc'[c].todo = cyc[c].todo \ {Min(cyc[c].todo)} /\ cyc'[c].found = cyc[c].found
  /\ cyc'[c].charged = cyc[c].charged /\ cyc'[c].free = cyc[c].free
  /\ cyc'[c].refreshing = FALSE
  /\ cyc'[c].seen = {} /\ cyc'[c].gone = cyc[c].gone \cup cyc[c].seen
  /\ cyc'[c].made = cyc[c].made \cup Inserted(c, table, C) /\ cyc'[c].kept = cyc[c].kept

LEMMA PersistWrites ==
  ASSUME CycleTypeOK, NEW c \in CycleRuns, NEW kinds \in SUBSET NoteKinds,
         NEW n \in Nat, NEW f \in Nat, Persist(c, kinds, n, f)
  PROVE  Persisted(c, kinds, n, f)
  <1>1. cyc \in [CycleRuns -> Cycle] /\ cyc[c] \in Cycle
    BY DEF CycleTypeOK
  <1>. DEFINE T == cyc[c].todo \ {Min(cyc[c].todo)}
              F == cyc[c].found \cup Noted(c, kinds)
              p == cyc[c].charged + n
              q == cyc[c].free + f
              W == [cyc[c] EXCEPT !.todo = T, !.found = F, !.charged = p, !.free = q]
  <1>2. cyc' = [cyc EXCEPT ![c] = W]
    BY <1>1 DEF Persist, Noted, Cycle
  <1>3. T \in SUBSET Nat /\ p \in Nat /\ q \in Nat
    BY <1>1 DEF Cycle
  <1>4. F \in SUBSET Note
    <2>1. today \in Days /\ cyc[c].run \in 0 .. MaxRuns /\ cyc[c].found \in SUBSET Note
      BY CycleFields DEF CycleTypeOK
    <2>. QED  BY <2>1 DEF Noted, Note
  <1>5. UNCHANGED Rest
    BY DEF Persist
  <1>6. /\ W \in Cycle /\ W.run = cyc[c].run /\ W.at = cyc[c].at
        /\ W.todo = T /\ W.found = F /\ W.charged = p /\ W.free = q
        /\ W.refreshing = cyc[c].refreshing
        /\ W.seen = cyc[c].seen /\ W.gone = cyc[c].gone /\ W.made = cyc[c].made
        /\ W.kept = cyc[c].kept
    <2>. HIDE DEF T, F, p, q
    <2>. QED  BY <1>1, <1>3, <1>4 DEF Cycle
  <1>7. cyc'[c] = W /\ (\A d \in CycleRuns : d # c => cyc'[d] = cyc[d])
        /\ cyc' = [cyc EXCEPT ![c] = cyc'[c]]
    <2>. HIDE DEF W
    <2>. QED  BY <1>1, <1>2
  <1>. HIDE DEF W
  <1>. QED  BY <1>5, <1>6, <1>7 DEF Persisted, OnlyRun

LEMMA StartRefreshWrites ==
  ASSUME CycleTypeOK, NEW c \in CycleRuns, NEW table \in Tables, StartRefresh(c, table)
  PROVE  \E n \in Sizes : RefreshStarted(c, table, n)
  <1>1. cyc \in [CycleRuns -> Cycle] /\ cyc[c] \in Cycle
    BY DEF CycleTypeOK
  <1>2. PICK n \in Sizes :
          /\ WithinCaps(c, n)
          /\ cyc' = [cyc EXCEPT ![c].charged = @ + n, ![c].refreshing = TRUE,
                                ![c].seen = Replaced(table)]
    BY DEF StartRefresh
  <1>. DEFINE p == cyc[c].charged + n
              S == Replaced(table)
              W == [cyc[c] EXCEPT !.charged = p, !.refreshing = TRUE, !.seen = S]
  <1>3. cyc' = [cyc EXCEPT ![c] = W]
    BY <1>1, <1>2 DEF Cycle
  <1>4. p \in Nat /\ S \in SUBSET Row
    BY <1>1, CycleAssumption DEF Cycle, Replaced, CycleTypeOK
  <1>5. UNCHANGED Rest /\ AtStep(c, table)
    BY DEF StartRefresh
  <1>6. /\ W \in Cycle /\ W.run = cyc[c].run /\ W.at = cyc[c].at
        /\ W.todo = cyc[c].todo /\ W.found = cyc[c].found
        /\ W.charged = p /\ W.free = cyc[c].free
        /\ W.refreshing = TRUE
        /\ W.seen = S /\ W.gone = cyc[c].gone /\ W.made = cyc[c].made /\ W.kept = cyc[c].kept
    <2>. HIDE DEF p, S
    <2>. QED  BY <1>1, <1>4 DEF Cycle
  <1>7. cyc'[c] = W /\ (\A d \in CycleRuns : d # c => cyc'[d] = cyc[d])
        /\ cyc' = [cyc EXCEPT ![c] = cyc'[c]]
    <2>. HIDE DEF W
    <2>. QED  BY <1>1, <1>3
  <1>. HIDE DEF W
  <1>8. RefreshStarted(c, table, n)
    BY <1>2, <1>5, <1>6, <1>7 DEF RefreshStarted, OnlyRun, AtStep
  <1>. QED  BY <1>8

LEMMA FinishRefreshWrites ==
  ASSUME CycleTypeOK, NEW c \in CycleRuns, NEW table \in Tables, FinishRefresh(c, table),
         cyc[c].run # 0
  PROVE  \E C \in SUBSET Categories : RefreshFinished(c, table, C)
  <1>1. cyc \in [CycleRuns -> Cycle] /\ cyc[c] \in Cycle
    BY DEF CycleTypeOK
  <1>2. PICK C \in SUBSET Categories :
          /\ ~ \E q \in Inserted(c, table, C), r \in Met(c) : SameKey(q, r)
          /\ cyc' = [cyc EXCEPT ![c].todo = @ \ {Min(@)}, ![c].refreshing = FALSE,
                                ![c].seen = {}, ![c].gone = @ \cup cyc[c].seen,
                                ![c].made = @ \cup Inserted(c, table, C)]
    BY DEF FinishRefresh, Met
  <1>. DEFINE T == cyc[c].todo \ {Min(cyc[c].todo)}
              G == cyc[c].gone \cup cyc[c].seen
              M == cyc[c].made \cup Inserted(c, table, C)
              W == [cyc[c] EXCEPT !.todo = T, !.refreshing = FALSE, !.seen = {}, !.gone = G,
                                  !.made = M]
  <1>3. cyc' = [cyc EXCEPT ![c] = W]
    BY <1>1, <1>2 DEF Cycle
  <1>4. T \in SUBSET Nat /\ G \in SUBSET Row
    BY <1>1 DEF Cycle
  <1>5. M \in SUBSET Row
    <2>1. /\ today \in Days /\ cyc[c].run \in 1 .. MaxRuns /\ cyc[c].made \in SUBSET Row
      BY CycleFields, CycleAssumption DEF CycleTypeOK
    <2>. QED  BY <2>1 DEF Inserted, Row
  <1>6. UNCHANGED Rest /\ cyc[c].refreshing /\ table = Stops(cyc[c].at)[Min(cyc[c].todo)]
    BY DEF FinishRefresh
  <1>7. /\ W \in Cycle /\ W.run = cyc[c].run /\ W.at = cyc[c].at
        /\ W.todo = T /\ W.found = cyc[c].found
        /\ W.charged = cyc[c].charged /\ W.free = cyc[c].free
        /\ W.refreshing = FALSE
        /\ W.seen = {} /\ W.gone = G /\ W.made = M /\ W.kept = cyc[c].kept
    <2>. HIDE DEF T, G, M
    <2>. QED  BY <1>1, <1>4, <1>5 DEF Cycle
  <1>8. cyc'[c] = W /\ (\A d \in CycleRuns : d # c => cyc'[d] = cyc[d])
        /\ cyc' = [cyc EXCEPT ![c] = cyc'[c]]
    <2>. HIDE DEF W
    <2>. QED  BY <1>1, <1>3
  <1>. HIDE DEF W
  <1>9. RefreshFinished(c, table, C)
    BY <1>2, <1>6, <1>7, <1>8 DEF RefreshFinished, OnlyRun
  <1>. QED  BY <1>9

\* A run whose agent has just begun.
Begun(w, k, run, kept) ==
  /\ w \in Cycle /\ w.run = run /\ w.at = k /\ w.todo = Trip(k) /\ w.kept = kept
  /\ w.found = {} /\ w.charged = 0 /\ w.free = 0 /\ w.refreshing = FALSE
  /\ w.seen = {} /\ w.gone = {} /\ w.made = {}

LEMMA TripTyped ==
  ASSUME NEW k
  PROVE  Trip(k) \subseteq DOMAIN Stops(k) /\ Trip(k) \in SUBSET Nat
  <1>1. Trip(k) \subseteq DOMAIN Stops(k) /\ DOMAIN Stops(k) \subseteq 1 .. 9
    BY StopsOf DEF Trip
  <1>. QED  BY <1>1

\* Such a run.
Beginning(run, k, T, K) ==
  [run |-> run, at |-> k, todo |-> T, found |-> {}, charged |-> 0, free |-> 0,
   refreshing |-> FALSE, seen |-> {}, gone |-> {}, made |-> {}, kept |-> K]

LEMMA RunBegins ==
  ASSUME NEW run \in 0 .. MaxRuns, NEW k \in 0 .. 7, NEW T \in SUBSET Nat, NEW K \in SUBSET NoteKinds,
         T = Trip(k)
  PROVE  Begun(Beginning(run, k, T, K), k, run, K)
  <1>1. Beginning(run, k, T, K) \in Cycle
    BY SixAgents DEF Cycle, Beginning
  <1>. QED  BY <1>1 DEF Begun, Beginning

LEMMA NextAgentBegins ==
  ASSUME CycleTypeOK, NEW c \in CycleRuns, AtWork(c), NEW kinds \in SUBSET NoteKinds
  PROVE  /\ Following(cyc[c].at) \in cyc[c].at + 1 .. 7 /\ cyc[c].at \in 1 .. 6
         /\ Begun(NextAgent(c, kinds), Following(cyc[c].at), cyc[c].run, cyc[c].kept \cup kinds)
  <1>1. cyc[c].at \in 1 .. 6
    BY SixAgents DEF AtWork
  <1>2. Following(cyc[c].at) \in cyc[c].at + 1 .. 7
    BY <1>1, FollowingIsLater
  <1>. DEFINE k == Following(cyc[c].at)
              T == Trip(k)
  <1>3. k \in 0 .. Planning /\ T \in SUBSET Nat
    BY <1>1, <1>2, SixAgents, TripTyped
  <1>4. NextAgent(c, kinds) = Beginning(cyc[c].run, k, T, cyc[c].kept \cup kinds)
    <2>1. NextAgent(c, kinds) = [NoCycle EXCEPT !.run = cyc[c].run, !.at = k, !.todo = T,
                                                !.kept = cyc[c].kept \cup kinds]
      BY DEF NextAgent
    <2>. DEFINE r == cyc[c].run
                K == cyc[c].kept \cup kinds
    <2>2. NextAgent(c, kinds) = [NoCycle EXCEPT !.run = r, !.at = k, !.todo = T, !.kept = K]
      BY <2>1
    <2>. HIDE DEF k, T, r, K
    <2>3. NextAgent(c, kinds) = Beginning(r, k, T, K)
      BY <2>2 DEF NoCycle, Beginning
    <2>. QED  BY <2>3 DEF r, K
  <1>5. T = Trip(k)
    OBVIOUS
  <1>. HIDE DEF k, T
  <1>6. cyc[c].run \in 0 .. MaxRuns /\ cyc[c].kept \cup kinds \in SUBSET NoteKinds
    BY CycleFields
  <1>7. Begun(NextAgent(c, kinds), k, cyc[c].run, cyc[c].kept \cup kinds)
    BY <1>3, <1>4, <1>5, <1>6, SixAgents, RunBegins
  <1>. QED  BY <1>1, <1>2, <1>7 DEF k

LEMMA BeginCycleBegins ==
  ASSUME CycleTypeOK, NEW c \in CycleRuns, BeginCycle(c)
  PROVE  /\ cyc[c].at = 0 /\ runs' = runs + 1 /\ runs + 1 \in 1 .. MaxRuns
         /\ \A d \in CycleRuns : d # c => cyc'[d] = cyc[d]
         /\ cyc' = [cyc EXCEPT ![c] = cyc'[c]]
         /\ Following(0) \in 1 .. 7 /\ Begun(cyc'[c], Following(0), runs + 1, {})
         /\ notes' \in SUBSET notes
         /\ cycOverlapped' = (cycOverlapped \/ Running # {})
         /\ UNCHANGED <<snapshots, spent, loose, today, wired, traffic, latestPlan>>
  <1>1. cyc \in [CycleRuns -> Cycle]
    BY DEF CycleTypeOK
  <1>2. Following(0) \in 1 .. 7
    BY FollowingIsLater
  <1>3. wired.runs \in 0 .. MaxRuns
    BY WiringAssumption DEF CycleTypeOK, Wiring
  <1>4. runs' = runs + 1 /\ runs + 1 \in 1 .. MaxRuns /\ cyc[c].at = 0
    BY <1>3, CycleAssumption DEF BeginCycle, CycleTypeOK
  <1>. DEFINE k == Following(0)
              T == Trip(k)
              W == [NoCycle EXCEPT !.run = runs + 1, !.at = k, !.todo = T]
  <1>5. cyc' = [cyc EXCEPT ![c] = W]
    BY DEF BeginCycle
  <1>6. k \in 0 .. Planning /\ T \in SUBSET Nat /\ T = Trip(k)
    BY <1>2, SixAgents, TripTyped
  <1>7. Begun(W, k, runs + 1, {})
    <2>. HIDE DEF k, T
    <2>0. W = [NoCycle EXCEPT !.run = runs + 1, !.at = k, !.todo = T]
      OBVIOUS
    <2>. HIDE DEF W
    <2>1. W = Beginning(runs + 1, k, T, {})
      BY <2>0 DEF NoCycle, Beginning
    <2>. QED  BY <1>4, <1>6, <2>1, SixAgents, RunBegins
  <1>8. cyc'[c] = W /\ \A d \in CycleRuns : d # c => cyc'[d] = cyc[d]
    <2>. HIDE DEF W
    <2>. QED  BY <1>1, <1>5
  <1>9. notes' \in SUBSET notes
    BY DEF BeginCycle
  <1>10. /\ cycOverlapped' = (cycOverlapped \/ Running # {})
         /\ UNCHANGED <<snapshots, spent, loose, today, wired, traffic, latestPlan>>
    BY DEF BeginCycle
  <1>. HIDE DEF W
  <1>11. cyc' = [cyc EXCEPT ![c] = cyc'[c]]
    BY <1>5, <1>8
  <1>. QED  BY <1>2, <1>4, <1>7, <1>8, <1>9, <1>10, <1>11 DEF k

--------------------------------------------------------------------------------
(***************************************************************************)
(* Notes of a step that reads                                              *)
(***************************************************************************)
LEMMA FewAreFinite ==
  ASSUME NEW x, NEW y, NEW z, NEW S \in SUBSET {x, y, z}
  PROVE  IsFiniteSet(S)
  <1>1. IsFiniteSet({x})
    BY FS_Singleton
  <1>2. IsFiniteSet({x} \cup {y})
    BY <1>1, FS_AddElement
  <1>3. IsFiniteSet(({x} \cup {y}) \cup {z})
    BY <1>2, FS_AddElement
  <1>4. S \in SUBSET (({x} \cup {y}) \cup {z})
    OBVIOUS
  <1>. QED  BY <1>3, <1>4, FS_Subset

LEMMA FewFinite ==
  ASSUME NEW S, \E x, y, z : S \subseteq {x, y, z}
  PROVE  IsFiniteSet(S)
  BY FewAreFinite

\* Topics are told from what else the planner reads.
LEMMA TopicsApart ==
  ASSUME NEW k \in Topics
  PROVE  /\ k \notin FlagKinds /\ k \notin Digests /\ k \notin Drafts
         /\ k \notin {"ahrefs_cache", "sessions_daily"}
  <1>1. k \notin NamedKinds
    BY TopicAssumption
  <1>. QED  BY <1>1 DEF NamedKinds

\* What a free read may find: finitely many kinds, and of those that count below only sessions.
LEMMA FreeKinds ==
  ASSUME NEW step \in DOMAIN Free, NEW kinds \in Free[step] \cup {{}}
  PROVE  /\ kinds \in SUBSET NoteKinds
         /\ IsFiniteSet(kinds)
         /\ kinds \cap Digests = {} /\ "ahrefs_cache" \notin kinds
         /\ step # "reporting"
  <1>1. CASE kinds = {}
    BY <1>1, FS_EmptySet DEF Free
  <1>2. CASE kinds # {}
    <2>0. kinds \in Free[step]
      BY <1>2
    <2>1. kinds \in SUBSET NoteKinds
      <3>1. kinds \in SUBSET FreeFindings
        BY <2>0 DEF FreeFindings
      <3>. QED  BY <3>1 DEF NoteKinds
    <2>. DEFINE Few(K)   == \E x, y, z : K \subseteq {x, y, z}
                Apart(K) == K \cap Digests = {} /\ "ahrefs_cache" \notin K
                Fine(K)  == IsFiniteSet(K) /\ Apart(K)
    <2>1a. ASSUME NEW K, Few(K), Apart(K) PROVE Fine(K)
      BY <2>1a, FewFinite
    <2>. HIDE DEF Few
    <2>2. \A K \in SimilarwebAdapter \cup CompetitorNewsAdapter : Few(K) /\ Apart(K)
      BY DEF SimilarwebAdapter, CompetitorNewsAdapter, Digests, Few
    <2>3. \A K \in SentinelTrafficAdapter \cup SheetsQuotaAdapter : Few(K) /\ Apart(K)
      BY DEF SentinelTrafficAdapter, SheetsQuotaAdapter, Digests, Few
    <2>4. \A K \in SessionTrends \cup AsanaAdapter : Few(K) /\ Apart(K)
      BY DEF SessionTrends, AsanaAdapter, Digests, Maybe, Few
    <2>5. \A K \in HCViralIdeationAdapter \cup IdeationStatusAdapter : Fine(K)
      <3>. SUFFICES ASSUME NEW K \in HCViralIdeationAdapter \cup IdeationStatusAdapter PROVE Fine(K)
        OBVIOUS
      <3>1. K \in SUBSET ViralTopics \/ K \in SUBSET OrdinaryTopics
        BY DEF HCViralIdeationAdapter, IdeationStatusAdapter
      <3>2. IsFiniteSet(K)
        BY <3>1, CycleAssumption, FS_Subset
      <3>3. \A k \in K : k \in Topics
        BY <3>1 DEF Topics
      <3>. QED  BY <3>2, <3>3, TopicsApart
    <2>6. \A K \in HCViralDraftQueueAdapter : Few(K) /\ Apart(K)
      BY DEF HCViralDraftQueueAdapter, Digests, Few
    <2>7. \A K \in AlbertWriterQueueAdapter \cup OutlineReviewAdapter : Few(K) /\ Apart(K)
      BY DEF AlbertWriterQueueAdapter, OutlineReviewAdapter, Digests, Maybe, Few
    <2>8. \A K \in PaidMediaSheetAdapter \cup GoogleAdsAdapter : Few(K) /\ Apart(K)
      BY DEF PaidMediaSheetAdapter, GoogleAdsAdapter, Digests, Maybe, Few
    <2>9. \A K \in MetaAdsAdapter \cup BingAdsAdapter \cup SentinelEventsAdapter \cup LeadFeedsAdapter :
            Few(K) /\ Apart(K)
      BY DEF MetaAdsAdapter, BingAdsAdapter, SentinelEventsAdapter, LeadFeedsAdapter, Digests, Few
    <2>10. Free[step] \in {SimilarwebAdapter, CompetitorNewsAdapter, SentinelTrafficAdapter,
                 SheetsQuotaAdapter, SessionTrends, IdeationStatusAdapter, HCViralIdeationAdapter,
                 AsanaAdapter, HCViralDraftQueueAdapter, AlbertWriterQueueAdapter,
                 OutlineReviewAdapter, PaidMediaSheetAdapter, GoogleAdsAdapter, MetaAdsAdapter,
                 BingAdsAdapter, SentinelEventsAdapter, LeadFeedsAdapter}
           /\ step # "reporting"
      BY DEF Free
    <2>. HIDE DEF Apart, Fine
    <2>11. Fine(kinds)
      BY <2>0, <2>1a, <2>2, <2>3, <2>4, <2>5, <2>6, <2>7, <2>8, <2>9, <2>10
    <2>. QED  BY <2>1, <2>10, <2>11 DEF Fine, Apart
  <1>. QED  BY <1>1, <1>2

\* A run at a step is at an agent that takes steps; the report is all that the last one does.
LEMMA AtAgent ==
  ASSUME CycleTypeOK, NEW c \in CycleRuns, cyc[c].todo # {}
  PROVE  /\ cyc[c].at \in 1 .. 6 /\ Min(cyc[c].todo) \in cyc[c].todo
         /\ cyc[c].at = 6 <=> Stops(cyc[c].at)[Min(cyc[c].todo)] = "reporting"
  <1>. DEFINE todo == cyc[c].todo
              at == cyc[c].at
  <1>1. todo \subseteq DOMAIN Stops(at) /\ todo # {} /\ at \in 0 .. 7
    BY CycleFields
  <1>2. at \in 1 .. 6
    <2>. HIDE DEF todo, at
    <2>. QED  BY <1>1, StopsOf
  <1>3. todo \in SUBSET (1 .. 9)
    <2>. HIDE DEF todo, at
    <2>. QED  BY <1>1, StopsOf
  <1>4. Min(todo) \in todo
    <2>. HIDE DEF todo, at
    <2>. QED  BY <1>1, <1>3, LeastOfFew
  <1>5. at = 6 <=> Stops(at)[Min(todo)] = "reporting"
    <2>. HIDE DEF todo, at
    <2>1. CASE at = 6
      BY <1>1, <1>4, <2>1, StopsOf
    <2>2. CASE at \in 1 .. 5
      BY <1>1, <1>4, <2>2, StopsOf
    <2>. QED  BY <1>2, <2>1, <2>2
  <1>. QED  BY <1>2, <1>4, <1>5

\* What a step that reads may write.
ReadsWell(c, kinds) ==
  /\ kinds \cap Digests # {} =>
       /\ cyc[c].at = 6
       /\ \E late \in BOOLEAN :
            "digest_ready" \in kinds <=> Fresh(Visible(c), {"sessions_daily"}, 2, late) # {}
  /\ "sessions_daily" \in kinds => cyc[c].at # 6
  /\ "ahrefs_cache" \in kinds =>
       \E late \in BOOLEAN : Fresh(Visible(c), {"ahrefs_cache"}, 7, late) = {}

\* What it costs: no more than the cap allows, but for a query, unless it is not asked about.
CostsWell(c, n, f) ==
  /\ n \in Nat /\ f \in 0 .. n
  /\ n = f \/ \E m \in Sizes : spent + cyc[c].charged + n <= ByteCap + m

Gathers(c, kinds, n, f) ==
  /\ Persist(c, kinds, n, f)
  /\ cyc[c].at \in 1 .. 6 /\ ~cyc[c].refreshing /\ Min(cyc[c].todo) \in cyc[c].todo
  /\ kinds \in SUBSET NoteKinds /\ IsFiniteSet(kinds)
  /\ ReadsWell(c, kinds) /\ CostsWell(c, n, f)

LEMMA StepGathers ==
  ASSUME CycleTypeOK, NEW c \in CycleRuns, NEW step, AtStep(c, step),
         NEW kinds, NEW n, NEW f, Persist(c, kinds, n, f),
         kinds \in SUBSET NoteKinds, IsFiniteSet(kinds),
         kinds \cap Digests = {}, "ahrefs_cache" \notin kinds, step # "reporting",
         CostsWell(c, n, f)
  PROVE  \E k, p, q : Gathers(c, k, p, q)
  <1>1. cyc[c].todo # {} /\ ~cyc[c].refreshing /\ step = Stops(cyc[c].at)[Min(cyc[c].todo)]
    BY DEF AtStep
  <1>2. cyc[c].at \in 1 .. 6 /\ Min(cyc[c].todo) \in cyc[c].todo /\ cyc[c].at # 6
    BY <1>1, AtAgent
  <1>3. ReadsWell(c, kinds)
    BY <1>2 DEF ReadsWell
  <1>. QED  BY <1>1, <1>2, <1>3 DEF Gathers

LEMMA NoCost ==
  ASSUME NEW c
  PROVE  CostsWell(c, 0, 0)
  BY DEF CostsWell

LEMMA ACapped ==
  ASSUME CycleTypeOK, NEW c \in CycleRuns, NEW n \in Sizes, WithinCaps(c, n)
  PROVE  CostsWell(c, n, 0)
  <1>1. /\ n \in Nat /\ spent \in Nat /\ cyc[c].charged \in Nat
        /\ spent + cyc[c].charged + n <= ByteCap /\ ByteCap \in Nat
    BY CycleFields, CycleAssumption DEF CycleTypeOK, WithinCaps
  <1>. QED  BY <1>1 DEF CostsWell

LEMMA SomeAreKinds ==
  /\ {"ahrefs_overview"} \in SUBSET NoteKinds
  /\ {"ahrefs_cache", "ahrefs_overview"} \in SUBSET NoteKinds
  /\ {"analytics_summary"} \in SUBSET NoteKinds /\ {"shortlist"} \in SUBSET NoteKinds
  /\ {"gsc_unavailable"} \in SUBSET NoteKinds
  /\ Digests \cup Drafts \in SUBSET NoteKinds
  /\ \A kinds \in BigQueryConsumAdapter \cup BigQueryDiscoverAdapter \cup GSCAdapter :
       kinds \in SUBSET NoteKinds
  /\ {} \in SUBSET NoteKinds /\ IsFiniteSet({})
  <1>1. /\ MeteredFindings \subseteq NoteKinds /\ Digests \cup Drafts \subseteq NoteKinds
        /\ {"ahrefs_cache", "ahrefs_overview", "shortlist", "analytics_summary",
            "gsc_unavailable"} \subseteq NoteKinds
    BY DEF NoteKinds, NamedKinds, FlagKinds
  <1>2. \A kinds \in BigQueryConsumAdapter \cup BigQueryDiscoverAdapter \cup GSCAdapter :
          kinds \subseteq MeteredFindings
    BY DEF MeteredFindings
  <1>. QED  BY <1>1, <1>2, FS_EmptySet

LEMMA ReadsGather ==
  ASSUME CycleTypeOK, NEW c \in CycleRuns,
         \/ \E step \in Steps : Observes(c, step)
         \/ Unavailable(c)
         \/ ReadConsum(c) \/ ReadDiscover(c) \/ ReadPayBaseline(c) \/ ReadGSC(c) \/ NoDemand(c)
  PROVE  \E k, p, q : Gathers(c, k, p, q)
  <1>1. ASSUME NEW step \in Steps, Observes(c, step) PROVE \E k, p, q : Gathers(c, k, p, q)
    <2>1. AtStep(c, step) /\ step \in DOMAIN Free
      BY <1>1 DEF Observes
    <2>2. PICK kinds \in Free[step] \cup {{}} : Persist(c, kinds, 0, 0)
      BY <1>1 DEF Observes
    <2>. QED  BY <2>1, <2>2, FreeKinds, NoCost, StepGathers
  <1>2. CASE Unavailable(c)
    <2>1. PICK step \in Metered : AtStep(c, step) /\ Persist(c, {}, 0, 0)
      BY <1>2 DEF Unavailable
    <2>2. step # "reporting"
      BY DEF Metered, Tables
    <2>. QED  BY <2>1, <2>2, NoCost, SomeAreKinds, StepGathers
  <1>3. CASE ReadConsum(c)
    <2>1. PICK m \in Sizes, n \in Sizes, kinds \in BigQueryConsumAdapter :
            WithinCaps(c, m) /\ WithinCaps(c, n) /\ Persist(c, kinds, m + n, 0)
      BY <1>3 DEF ReadConsum
    <2>2. AtStep(c, "bigquery_consum")
      BY <1>3 DEF ReadConsum
    <2>3. /\ \E x, y, z : kinds \subseteq {x, y, z}
          /\ kinds \cap Digests = {} /\ "ahrefs_cache" \notin kinds
      BY DEF BigQueryConsumAdapter, Maybe, Digests
    <2>4. CostsWell(c, m + n, 0)
      <3>1. /\ m \in Nat /\ n \in Nat /\ spent \in Nat /\ cyc[c].charged \in Nat
            /\ spent + cyc[c].charged + m <= ByteCap /\ ByteCap \in Nat
        BY <2>1, CycleFields, CycleAssumption DEF CycleTypeOK, WithinCaps
      <3>2. spent + cyc[c].charged + (m + n) <= ByteCap + n /\ m + n \in Nat /\ 0 \in 0 .. m + n
        BY <3>1
      <3>. QED  BY <3>2 DEF CostsWell
    <2>5. kinds \in SUBSET NoteKinds
      BY SomeAreKinds
    <2>6. IsFiniteSet(kinds)
      BY <2>3, FewFinite
    <2>. QED  BY <2>1, <2>2, <2>3, <2>4, <2>5, <2>6, StepGathers
  <1>4. CASE ReadDiscover(c)
    <2>1. PICK n \in Sizes, kinds \in BigQueryDiscoverAdapter :
            WithinCaps(c, n) /\ Persist(c, kinds, n, 0)
      BY <1>4 DEF ReadDiscover
    <2>2. AtStep(c, "bigquery_discover")
      BY <1>4 DEF ReadDiscover
    <2>3. /\ \E x, y, z : kinds \subseteq {x, y, z}
          /\ kinds \cap Digests = {} /\ "ahrefs_cache" \notin kinds
      BY DEF BigQueryDiscoverAdapter, Digests
    <2>4. kinds \in SUBSET NoteKinds /\ CostsWell(c, n, 0)
      BY <2>1, SomeAreKinds, ACapped
    <2>5. IsFiniteSet(kinds)
      BY <2>3, FewFinite
    <2>. QED  BY <2>1, <2>2, <2>3, <2>4, <2>5, StepGathers
  <1>5. CASE ReadPayBaseline(c)
    <2>1. PICK n \in Sizes : WithinCaps(c, n) /\ Persist(c, {}, n, 0)
      BY <1>5 DEF ReadPayBaseline
    <2>2. AtStep(c, "pay_baseline") /\ CostsWell(c, n, 0)
      BY <1>5, <2>1, ACapped DEF ReadPayBaseline
    <2>. QED  BY <2>1, <2>2, SomeAreKinds, StepGathers
  <1>6. CASE ReadGSC(c)
    <2>1. AtStep(c, "gsc")
      BY <1>6 DEF ReadGSC
    <2>2. ASSUME NEW n \in Sizes, NEW kinds \in GSCAdapter, Persist(c, kinds, n, n)
          PROVE  \E k, p, q : Gathers(c, k, p, q)
      <3>1. /\ \E x, y, z : kinds \subseteq {x, y, z}
            /\ kinds \cap Digests = {} /\ "ahrefs_cache" \notin kinds
        BY DEF GSCAdapter, Digests
      <3>2. kinds \in SUBSET NoteKinds /\ CostsWell(c, n, n)
        BY SomeAreKinds, CycleAssumption DEF CostsWell
      <3>. QED  BY <2>1, <2>2, <3>1, <3>2, FewFinite, StepGathers
    <2>3. CASE Persist(c, {"gsc_unavailable"}, 0, 0)
      <3>1. {"gsc_unavailable"} \cap Digests = {} /\ \E x, y, z : {"gsc_unavailable"} \subseteq {x, y, z}
        BY DEF Digests
      <3>. QED  BY <2>1, <2>3, <3>1, SomeAreKinds, NoCost, FewFinite, StepGathers
    <2>. QED  BY <1>6, <2>2, <2>3 DEF ReadGSC
  <1>7. CASE NoDemand(c)
    <2>1. PICK n \in Sizes : WithinCaps(c, n) /\ Persist(c, {}, n, 0)
      BY <1>7 DEF NoDemand
    <2>2. AtStep(c, "topic_demand") /\ CostsWell(c, n, 0)
      BY <1>7, <2>1, ACapped DEF NoDemand
    <2>. QED  BY <2>1, <2>2, SomeAreKinds, StepGathers
  <1>. QED  BY <1>1, <1>2, <1>3, <1>4, <1>5, <1>6, <1>7

LEMMA MemoryReadsGather ==
  ASSUME CycleTypeOK, NEW c \in CycleRuns,
         ReadAhrefs(c) \/ AnalyticsRollup(c) \/ Shortlist(c) \/ Report(c)
  PROVE  \E k, p, q : Gathers(c, k, p, q)
  <1>1. CASE ReadAhrefs(c)
    <2>1. PICK late \in BOOLEAN :
            IF Fresh(Visible(c), {"ahrefs_cache"}, 7, late) # {}
            THEN Persist(c, {"ahrefs_overview"}, 0, 0)
            ELSE Persist(c, {"ahrefs_cache", "ahrefs_overview"}, 0, 0)
      BY <1>1 DEF ReadAhrefs, Visible
    <2>2. AtStep(c, "ahrefs")
      BY <1>1 DEF ReadAhrefs
    <2>3. CASE Persist(c, {"ahrefs_overview"}, 0, 0)
      <3>1. {"ahrefs_overview"} \cap Digests = {}
        BY DEF Digests
      <3>2. \E x, y, z : {"ahrefs_overview"} \subseteq {x, y, z}
        OBVIOUS
      <3>. QED  BY <2>2, <2>3, <3>1, <3>2, SomeAreKinds, NoCost, FewFinite, StepGathers
    <2>4. CASE /\ Persist(c, {"ahrefs_cache", "ahrefs_overview"}, 0, 0)
               /\ Fresh(Visible(c), {"ahrefs_cache"}, 7, late) = {}
      <3>. DEFINE K == {"ahrefs_cache", "ahrefs_overview"}
      <3>1. K \cap Digests = {} /\ "sessions_daily" \notin K
        BY DEF Digests
      <3>2. IsFiniteSet(K)
        BY FewAreFinite
      <3>3. ReadsWell(c, K)
        BY <2>4, <3>1 DEF ReadsWell
      <3>4. cyc[c].todo # {} /\ ~cyc[c].refreshing
        BY <2>2 DEF AtStep
      <3>5. Gathers(c, K, 0, 0)
        BY <2>4, <3>2, <3>3, <3>4, AtAgent, SomeAreKinds, NoCost DEF Gathers
      <3>. QED  BY <3>5
    <2>. QED  BY <2>1, <2>3, <2>4
  <1>2. CASE AnalyticsRollup(c)
    <2>1. AtStep(c, "rollup") /\ Persist(c, {"analytics_summary"}, 0, 0)
      BY <1>2 DEF AnalyticsRollup
    <2>2. {"analytics_summary"} \cap Digests = {} /\ \E x, y, z : {"analytics_summary"} \subseteq {x, y, z}
      BY DEF Digests
    <2>. QED  BY <2>1, <2>2, SomeAreKinds, NoCost, FewFinite, StepGathers
  <1>3. CASE Shortlist(c)
    <2>1. PICK kinds \in {{}, {"shortlist"}} : Persist(c, kinds, 0, 0)
      BY <1>3 DEF Shortlist
    <2>2. kinds \cap Digests = {} /\ "ahrefs_cache" \notin kinds
      BY DEF Digests
    <2>3. AtStep(c, "shortlist") /\ \E x, y, z : kinds \subseteq {x, y, z}
      BY <1>3 DEF Shortlist
    <2>. QED  BY <2>1, <2>2, <2>3, SomeAreKinds, NoCost, FewFinite, StepGathers
  <1>4. CASE Report(c)
    <2>1. PICK late \in BOOLEAN :
            Persist(c, {IF Fresh(Visible(c), {"sessions_daily"}, 2, late) = {}
                        THEN "digest_waiting" ELSE "digest_ready", "social_draft"}
                       \cup (IF "newsletter" \in wired.steps THEN {"newsletter_draft"} ELSE {}),
                    0, 0)
      BY <1>4 DEF Report
    <2>. DEFINE d == IF Fresh(Visible(c), {"sessions_daily"}, 2, late) = {}
                     THEN "digest_waiting" ELSE "digest_ready"
                K == {d, "social_draft"}
                     \cup (IF "newsletter" \in wired.steps THEN {"newsletter_draft"} ELSE {})
    <2>2. d \in Digests /\ K \subseteq {d, "social_draft", "newsletter_draft"}
      BY DEF Digests
    <2>3. K \in SUBSET NoteKinds
      BY <2>2, SomeAreKinds DEF Drafts
    <2>4. IsFiniteSet(K)
      BY <2>2, FewAreFinite
    <2>5. cyc[c].todo # {} /\ ~cyc[c].refreshing /\ cyc[c].at = 6
      BY <1>4, AtAgent DEF Report, AtStep
    <2>6. /\ "digest_ready" \in K <=> Fresh(Visible(c), {"sessions_daily"}, 2, late) # {}
          /\ "sessions_daily" \notin K /\ "ahrefs_cache" \notin K
      OBVIOUS
    <2>7. Persist(c, K, 0, 0)
      BY <2>1
    <2>. HIDE DEF K, d
    <2>8. ReadsWell(c, K)
      BY <2>5, <2>6 DEF ReadsWell
    <2>9. Gathers(c, K, 0, 0)
      BY <2>3, <2>4, <2>5, <2>7, <2>8, AtAgent, NoCost DEF Gathers
    <2>. QED  BY <2>9
  <1>. QED  BY <1>1, <1>2, <1>3, <1>4

\* The steps of the cycle, those that only read in one.
CycleSteps ==
  \/ \E c \in CycleRuns :
       \/ BeginCycle(c)
       \/ \E kinds, n, f : Gathers(c, kinds, n, f)
       \/ \E table \in Tables : StartRefresh(c, table) \/ FinishRefresh(c, table)
       \/ CommitAgent(c) \/ FailAgent(c)
       \/ MakePlan(c) \/ AbandonCycle(c)
  \/ TopArticles
  \/ \E kind \in Feeders : Feed(kind)
  \/ Tomorrow

LEMMA StepsOfCycle ==
  ASSUME CycleTypeOK, CycleNext
  PROVE  CycleSteps
  <1>1. ASSUME NEW c \in CycleRuns,
               \/ \E step \in Steps : Observes(c, step)
               \/ Unavailable(c)
               \/ ReadConsum(c) \/ ReadDiscover(c) \/ ReadPayBaseline(c) \/ ReadGSC(c)
               \/ NoDemand(c)
               \/ ReadAhrefs(c) \/ AnalyticsRollup(c) \/ Shortlist(c) \/ Report(c)
        PROVE  \E k, p, q : Gathers(c, k, p, q)
    BY <1>1, ReadsGather, MemoryReadsGather
  <1>2. DecayScan \/ ContentAudit \/ TrendScan \/ Dispatched \/ Previewed
          => \E kind \in Feeders : Feed(kind)
    BY DEF DecayScan, ContentAudit, TrendScan, Dispatched, Previewed, Feeders, FeederFlags
  <1>. QED  BY <1>1, <1>2 DEF CycleNext, CycleSteps

--------------------------------------------------------------------------------
(***************************************************************************)
(* The morning cycle: types                                                *)
(***************************************************************************)
LEMMA ImageIsFinite ==
  ASSUME NEW S, IsFiniteSet(S), NEW f, f = [x \in S |-> f[x]]
  PROVE  IsFiniteSet({f[x] : x \in S})
  <1>. DEFINE T == {f[x] : x \in S}
  <1>1. f \in Surjection(S, T)
    <2>1. f \in [S -> T]
      OBVIOUS
    <2>2. \A t \in T : \E x \in S : f[x] = t
      OBVIOUS
    <2>. HIDE DEF T
    <2>. QED  BY <2>1, <2>2 DEF Surjection
  <1>. HIDE DEF T
  <1>2. IsFiniteSet(T)
    BY <1>1, FS_Surjection
  <1>. QED  BY <1>2 DEF T

Runs ==
  /\ cyc \in [CycleRuns -> Cycle]
  /\ \A c \in CycleRuns :
       /\ cyc[c].todo \subseteq DOMAIN Stops(cyc[c].at) /\ cyc[c].free <= cyc[c].charged
       /\ IsFiniteSet(cyc[c].found)
       /\ cyc[c].at = 0 => cyc[c] = NoCycle
       /\ cyc[c].at # 0 => cyc[c].run # 0

Shared ==
  /\ notes \subseteq Note /\ IsFiniteSet(notes) /\ snapshots \subseteq Row
  /\ spent \in Nat /\ loose \in 0 .. spent
  /\ today \in Days /\ wired \in Wirings
  /\ runs \in 0 .. MaxRuns /\ traffic \in 0 .. today /\ latestPlan.day \in 0 .. today
  /\ cycOverlapped \in BOOLEAN

CycleTypeInv == Runs /\ Shared

LEMMA CycleTyped ==
  ASSUME CycleTypeInv
  PROVE  CycleTypeOK
  BY DEF CycleTypeInv, Runs, Shared, CycleTypeOK

LEMMA IdleIsNoCycle ==
  ASSUME CycleTypeInv, NEW c \in CycleRuns, cyc[c].at = 0
  PROVE  cyc[c] = NoCycle
  BY DEF CycleTypeInv, Runs

\* One run becomes W.
RunOK(W) ==
  /\ W \in Cycle /\ W.todo \subseteq DOMAIN Stops(W.at) /\ W.free <= W.charged
  /\ IsFiniteSet(W.found) /\ (W.at = 0 => W = NoCycle) /\ (W.at # 0 => W.run # 0)

LEMMA RunsStay ==
  ASSUME Runs, NEW c \in CycleRuns, NEW W, RunOK(W), cyc' = [cyc EXCEPT ![c] = W]
  PROVE  Runs'
  <1>1. \A d \in CycleRuns : cyc'[d] = IF d = c THEN W ELSE cyc[d]
    BY DEF Runs
  <1>2. cyc' \in [CycleRuns -> Cycle]
    BY DEF Runs, RunOK
  <1>3. ASSUME NEW d \in CycleRuns
        PROVE  /\ cyc'[d].todo \subseteq DOMAIN Stops(cyc'[d].at) /\ cyc'[d].free <= cyc'[d].charged
               /\ IsFiniteSet(cyc'[d].found)
               /\ cyc'[d].at = 0 => cyc'[d] = NoCycle
               /\ cyc'[d].at # 0 => cyc'[d].run # 0
    <2>1. CASE d = c
      BY <1>1, <2>1 DEF RunOK
    <2>2. CASE d # c
      BY <1>1, <2>2 DEF Runs
    <2>. QED  BY <2>1, <2>2
  <1>. QED  BY <1>2, <1>3 DEF Runs

LEMMA NotedFinite ==
  ASSUME NEW c, NEW kinds, IsFiniteSet(kinds)
  PROVE  IsFiniteSet(Noted(c, kinds))
  <1>. DEFINE f == [k \in kinds |-> [kind |-> k, day |-> today, by |-> cyc[c].run]]
  <1>1. f = [x \in kinds |-> f[x]] /\ {f[x] : x \in kinds} = Noted(c, kinds)
    BY DEF Noted
  <1>2. IsFiniteSet({f[x] : x \in kinds})
    <2>. HIDE DEF f
    <2>. QED  BY <1>1, ImageIsFinite
  <1>. HIDE DEF f
  <1>. QED  BY <1>1, <1>2

LEMMA BegunIsOK ==
  ASSUME NEW W, NEW k \in 1 .. 7, NEW run \in 1 .. MaxRuns, NEW kept, Begun(W, k, run, kept)
  PROVE  RunOK(W)
  <1>1. IsFiniteSet({})
    BY FS_EmptySet
  <1>. QED  BY <1>1, TripTyped DEF Begun, RunOK

LEMMA NoCycleIsOK == RunOK(NoCycle)
  <1>1. IsFiniteSet({})
    BY FS_EmptySet
  <1>. QED  BY <1>1, NoCycleFields DEF RunOK

LEMMA CycleTypeInitially == CycleInit => CycleTypeInv
  <1>. SUFFICES ASSUME CycleInit PROVE CycleTypeInv
    OBVIOUS
  <1>1. Runs
    BY NoCycleIsOK DEF CycleInit, Runs, RunOK
  <1>2. Shared
    <2>1. IsFiniteSet({})
      BY FS_EmptySet
    <2>2. latestPlan.day = 0
      BY DEF CycleInit, NoPlan
    <2>3. notes = {} /\ snapshots = {} /\ spent = 0 /\ loose = 0 /\ today = 1 /\ wired \in Wirings
      BY DEF CycleInit
    <2>4. runs = 0 /\ traffic = 0 /\ cycOverlapped \in BOOLEAN
      BY DEF CycleInit
    <2>5. today \in Days
      BY <2>3 DEF Days
    <2>. QED  BY <2>1, <2>2, <2>3, <2>4, <2>5, CycleAssumption DEF Shared
  <1>. QED  BY <1>1, <1>2 DEF CycleTypeInv

\* The end of an agent.
LEMMA AgentEnds ==
  ASSUME CycleTypeInv, NEW c \in CycleRuns, NEW kinds, AtWork(c), kinds \in SUBSET NoteKinds,
         cyc' = [cyc EXCEPT ![c] = NextAgent(c, kinds)]
  PROVE  /\ cyc[c].at \in 1 .. 6 /\ Following(cyc[c].at) \in cyc[c].at + 1 .. 7
         /\ Begun(cyc'[c], Following(cyc[c].at), cyc[c].run, cyc[c].kept \cup kinds)
         /\ RunOK(cyc'[c]) /\ cyc' = [cyc EXCEPT ![c] = cyc'[c]]
         /\ \A d \in CycleRuns : d # c => cyc'[d] = cyc[d]
  <1>1. CycleTypeOK /\ cyc \in [CycleRuns -> Cycle]
    BY CycleTyped DEF CycleTypeInv, Runs
  <1>2. /\ Following(cyc[c].at) \in cyc[c].at + 1 .. 7 /\ cyc[c].at \in 1 .. 6
        /\ Begun(NextAgent(c, kinds), Following(cyc[c].at), cyc[c].run, cyc[c].kept \cup kinds)
    BY <1>1, NextAgentBegins
  <1>3. cyc[c].run \in 1 .. MaxRuns
    <2>1. cyc[c].run # 0 /\ cyc[c].run \in 0 .. MaxRuns
      BY <1>1, <1>2, CycleFields DEF CycleTypeInv, Runs
    <2>. QED  BY <2>1, CycleAssumption
  <1>4. cyc'[c] = NextAgent(c, kinds) /\ \A d \in CycleRuns : d # c => cyc'[d] = cyc[d]
    BY <1>1
  <1>5. Following(cyc[c].at) \in 1 .. 7
    BY <1>2
  <1>6. RunOK(NextAgent(c, kinds))
    BY <1>2, <1>3, <1>5, BegunIsOK
  <1>. QED  BY <1>2, <1>4, <1>6

LEMMA KindsOfFound ==
  ASSUME CycleTypeInv, NEW c \in CycleRuns
  PROVE  {n.kind : n \in cyc[c].found} \in SUBSET NoteKinds
  <1>1. cyc[c].found \in SUBSET Note
    BY CycleTyped, CycleFields
  <1>. QED  BY <1>1 DEF Note

LEMMA RunEnds ==
  ASSUME CycleTypeInv, NEW c \in CycleRuns, cyc' = [cyc EXCEPT ![c] = NoCycle]
  PROVE  cyc'[c] = NoCycle /\ \A d \in CycleRuns : d # c => cyc'[d] = cyc[d]
  BY DEF CycleTypeInv, Runs

LEMMA GatherStaysTyped ==
  ASSUME CycleTypeInv, NEW c \in CycleRuns, NEW kinds, NEW n, NEW f, Gathers(c, kinds, n, f)
  PROVE  CycleTypeInv'
  <1>1. CycleTypeOK /\ Runs /\ Shared /\ RunOK(cyc[c])
    BY CycleTyped DEF CycleTypeInv, Runs, RunOK
  <1>2. /\ Persist(c, kinds, n, f) /\ kinds \in SUBSET NoteKinds /\ IsFiniteSet(kinds)
        /\ n \in Nat /\ f \in Nat /\ f <= n /\ cyc[c].at # 0
    BY DEF Gathers, CostsWell
  <1>3. Persisted(c, kinds, n, f)
    BY <1>1, <1>2, PersistWrites
  <1>4. IsFiniteSet(cyc[c].found \cup Noted(c, kinds))
    BY <1>1, <1>2, NotedFinite, FS_Union DEF RunOK
  <1>5. RunOK(cyc'[c])
    BY <1>1, <1>2, <1>3, <1>4, CycleFields DEF RunOK, Persisted, OnlyRun
  <1>6. Runs'
    BY <1>1, <1>3, <1>5, RunsStay DEF Persisted, OnlyRun
  <1>7. Shared'
    BY <1>1, <1>3 DEF Shared, Rest, Persisted, OnlyRun
  <1>. QED  BY <1>6, <1>7 DEF CycleTypeInv

LEMMA RefreshStaysTyped ==
  ASSUME CycleTypeInv, NEW c \in CycleRuns, NEW table \in Tables,
         StartRefresh(c, table) \/ FinishRefresh(c, table)
  PROVE  CycleTypeInv' /\ cyc[c].at # 0 /\ cyc[c].run # 0
  <1>1. CycleTypeOK /\ Runs /\ Shared /\ RunOK(cyc[c])
    BY CycleTyped DEF CycleTypeInv, Runs, RunOK
  <1>2. CASE StartRefresh(c, table)
    <2>1. PICK n \in Sizes : RefreshStarted(c, table, n)
      BY <1>1, <1>2, StartRefreshWrites
    <2>2. cyc[c].at \in 1 .. 6
      BY <1>1, <2>1, AtAgent DEF RefreshStarted
    <2>3. RunOK(cyc'[c])
      BY <1>1, <2>1, <2>2, CycleFields, CycleAssumption DEF RunOK, RefreshStarted, OnlyRun
    <2>4. Runs'
      BY <1>1, <2>1, <2>3, RunsStay DEF RefreshStarted, OnlyRun
    <2>5. Shared'
      BY <1>1, <2>1 DEF Shared, Rest, RefreshStarted, OnlyRun
    <2>. QED  BY <1>1, <2>2, <2>4, <2>5 DEF CycleTypeInv, RunOK
  <1>3. CASE FinishRefresh(c, table)
    <2>1. cyc[c].refreshing
      BY <1>3 DEF FinishRefresh
    <2>2. cyc[c].at # 0 /\ cyc[c].run # 0
      BY <1>1, <2>1, NoCycleFields DEF RunOK
    <2>3. PICK C \in SUBSET Categories : RefreshFinished(c, table, C)
      BY <1>1, <1>3, <2>2, FinishRefreshWrites
    <2>4. RunOK(cyc'[c])
      BY <1>1, <2>2, <2>3, CycleFields DEF RunOK, RefreshFinished, OnlyRun
    <2>5. Runs'
      BY <1>1, <2>3, <2>4, RunsStay DEF RefreshFinished, OnlyRun
    <2>6. Shared'
      BY <1>1, <2>3 DEF Shared, Rest, RefreshFinished, OnlyRun
    <2>. QED  BY <2>2, <2>5, <2>6 DEF CycleTypeInv
  <1>. QED  BY <1>2, <1>3

LEMMA CycleTypeStep == CycleTypeInv /\ [CycleNext]_cycleVars => CycleTypeInv'
  <1>. SUFFICES ASSUME CycleTypeInv, [CycleNext]_cycleVars PROVE CycleTypeInv'
    OBVIOUS
  <1>0. CycleTypeOK /\ Runs /\ Shared
    BY CycleTyped DEF CycleTypeInv
  <1>1. CASE UNCHANGED cycleVars
    <2>1. Runs'
      BY <1>0, <1>1 DEF cycleVars, Runs
    <2>2. Shared'
      BY <1>0, <1>1 DEF cycleVars, Shared
    <2>. QED  BY <2>1, <2>2 DEF CycleTypeInv
  <1>2. ASSUME NEW c \in CycleRuns, BeginCycle(c) PROVE CycleTypeInv'
    <2>1. /\ runs' = runs + 1 /\ runs + 1 \in 1 .. MaxRuns
          /\ cyc' = [cyc EXCEPT ![c] = cyc'[c]]
          /\ Following(0) \in 1 .. 7 /\ Begun(cyc'[c], Following(0), runs + 1, {})
          /\ notes' \in SUBSET notes
          /\ cycOverlapped' = (cycOverlapped \/ Running # {})
          /\ UNCHANGED <<snapshots, spent, loose, today, wired, traffic, latestPlan>>
      BY <1>0, <1>2, BeginCycleBegins
    <2>2. Runs'
      <3>1. RunOK(cyc'[c])
        BY <2>1, BegunIsOK
      <3>. QED  BY <1>0, <2>1, <3>1, RunsStay
    <2>3. notes' \subseteq Note /\ IsFiniteSet(notes')
      BY <1>0, <2>1, FS_Subset DEF Shared
    <2>4. cycOverlapped' \in BOOLEAN
      BY <2>1, Zenon
    <2>5. runs' \in 0 .. MaxRuns
      BY <2>1, CycleAssumption
    <2>. QED  BY <1>0, <2>1, <2>2, <2>3, <2>4, <2>5 DEF CycleTypeInv, Shared
  <1>3. ASSUME NEW c \in CycleRuns, NEW kinds, NEW n, NEW f, Gathers(c, kinds, n, f)
        PROVE  CycleTypeInv'
    BY <1>3, GatherStaysTyped
  <1>4. ASSUME NEW c \in CycleRuns, NEW table \in Tables,
               StartRefresh(c, table) \/ FinishRefresh(c, table)
        PROVE  CycleTypeInv'
    BY <1>4, RefreshStaysTyped
  <1>5. ASSUME NEW c \in CycleRuns, CommitAgent(c) PROVE CycleTypeInv'
    <2>. DEFINE kinds == {n.kind : n \in cyc[c].found}
    <2>1. AtWork(c) /\ kinds \in SUBSET NoteKinds /\ cyc' = [cyc EXCEPT ![c] = NextAgent(c, kinds)]
      BY <1>5, KindsOfFound DEF CommitAgent
    <2>. HIDE DEF kinds
    <2>2. RunOK(cyc'[c]) /\ cyc' = [cyc EXCEPT ![c] = cyc'[c]]
      BY <2>1, AgentEnds
    <2>3. Runs'
      BY <1>0, <2>2, RunsStay
    <2>4. /\ cyc[c].found \in SUBSET Note /\ IsFiniteSet(cyc[c].found)
          /\ cyc[c].made \in SUBSET Row
          /\ cyc[c].charged \in Nat /\ cyc[c].free \in Nat /\ cyc[c].free <= cyc[c].charged
      BY <1>0, CycleFields DEF Runs
    <2>5. notes' \subseteq Note /\ IsFiniteSet(notes') /\ snapshots' \subseteq Row
      BY <1>0, <1>5, <2>4, FS_Union DEF CommitAgent, Shared
    <2>6. spent' \in Nat /\ loose' \in 0 .. spent'
      <3>1. spent' = spent + cyc[c].charged /\ loose' = loose + cyc[c].free
        BY <1>5 DEF CommitAgent
      <3>. QED  BY <1>0, <2>4, <3>1 DEF Shared
    <2>7. traffic' \in {today, traffic} /\ UNCHANGED <<today, wired, runs, latestPlan, cycOverlapped>>
      BY <1>5 DEF CommitAgent
    <2>8. traffic' \in 0 .. today'
      BY <1>0, <2>7 DEF Shared, Days
    <2>. QED  BY <1>0, <2>3, <2>5, <2>6, <2>7, <2>8 DEF CycleTypeInv, Shared
  <1>6. ASSUME NEW c \in CycleRuns, FailAgent(c) PROVE CycleTypeInv'
    <2>1. AtWork(c) /\ {} \in SUBSET NoteKinds /\ cyc' = [cyc EXCEPT ![c] = NextAgent(c, {})]
          /\ UNCHANGED Rest
      BY <1>6 DEF FailAgent
    <2>2. RunOK(cyc'[c]) /\ cyc' = [cyc EXCEPT ![c] = cyc'[c]]
      BY <2>1, AgentEnds
    <2>3. Runs'
      BY <1>0, <2>2, RunsStay
    <2>. QED  BY <1>0, <2>1, <2>3 DEF CycleTypeInv, Shared, Rest
  <1>7. ASSUME NEW c \in CycleRuns, MakePlan(c) \/ AbandonCycle(c) PROVE CycleTypeInv'
    <2>1. /\ cyc' = [cyc EXCEPT ![c] = NoCycle]
          /\ UNCHANGED <<notes, snapshots, spent, loose, today, wired, runs, traffic, cycOverlapped>>
      BY <1>7 DEF MakePlan, AbandonCycle, Rest
    <2>2. Runs'
      BY <1>0, <2>1, NoCycleIsOK, RunsStay
    <2>3. latestPlan'.day \in {today, latestPlan.day}
      <3>1. CASE MakePlan(c)
        BY <3>1 DEF MakePlan
      <3>2. CASE AbandonCycle(c)
        BY <3>2 DEF AbandonCycle, Rest
      <3>. QED  BY <1>7, <3>1, <3>2
    <2>4. latestPlan'.day \in 0 .. today'
      BY <1>0, <2>1, <2>3 DEF Shared, Days
    <2>. QED  BY <1>0, <2>1, <2>2, <2>4 DEF CycleTypeInv, Shared
  <1>8. CASE TopArticles
    <2>1. Runs'
      BY <1>0, <1>8 DEF TopArticles, Runs
    <2>2. PICK n \in Sizes : spent' = spent + n
      BY <1>8 DEF TopArticles
    <2>3. spent' \in Nat /\ loose' \in 0 .. spent'
      BY <1>0, <1>8, <2>2, CycleAssumption DEF TopArticles, Shared
    <2>4. cycOverlapped' \in BOOLEAN
      BY <1>8, Zenon DEF TopArticles
    <2>. QED  BY <1>0, <1>8, <2>1, <2>3, <2>4 DEF CycleTypeInv, Shared, TopArticles
  <1>9. ASSUME NEW kind \in Feeders, Feed(kind) PROVE CycleTypeInv'
    <2>1. Runs'
      BY <1>0, <1>9 DEF Feed, Runs
    <2>. DEFINE n == [kind |-> kind, day |-> today, by |-> 0]
    <2>2. n \in Note
      BY <1>0, CycleAssumption DEF Shared, Note, NoteKinds, NamedKinds
    <2>3. notes' = notes \cup {n}
      BY <1>9 DEF Feed
    <2>. HIDE DEF n
    <2>4. notes' \subseteq Note /\ IsFiniteSet(notes')
      BY <1>0, <2>2, <2>3, FS_AddElement DEF Shared
    <2>. QED  BY <1>0, <1>9, <2>1, <2>4 DEF CycleTypeInv, Shared, Feed
  <1>10. CASE Tomorrow
    <2>1. Runs'
      BY <1>0, <1>10 DEF Tomorrow, Runs
    <2>2. notes' \in SUBSET notes
      BY <1>10 DEF Tomorrow
    <2>3. notes' \subseteq Note /\ IsFiniteSet(notes')
      BY <1>0, <2>2, FS_Subset DEF Shared
    <2>4. today' = today + 1 /\ today < wired.days /\ today \in Days
      BY <1>0, <1>10 DEF Tomorrow, Shared
    <2>5. wired.days \in Days
      BY <1>0, WiringAssumption DEF Shared, Wiring
    <2>6. today' \in Days /\ traffic \in 0 .. today' /\ latestPlan.day \in 0 .. today'
      BY <1>0, <2>4, <2>5 DEF Days, Shared
    <2>. QED  BY <1>0, <1>10, <2>1, <2>3, <2>6 DEF CycleTypeInv, Shared, Tomorrow
  <1>11. CASE CycleNext
    BY <1>0, <1>2, <1>3, <1>4, <1>5, <1>6, <1>7, <1>8, <1>9, <1>10, <1>11, StepsOfCycle DEF CycleSteps
  <1>. QED  BY <1>1, <1>11

LEMMA CycleTypeInvariant == CycleSpec => []CycleTypeInv
  BY CycleTypeInitially, CycleTypeStep, PTL DEF CycleSpec

\* Notes, rows and the runs that write them keep their types.
THEOREM CycleTypeCorrect == CycleSpec => []CycleTypeOK
  BY CycleTypeInvariant, CycleTyped, PTL

--------------------------------------------------------------------------------
(***************************************************************************)
(* The morning cycle: what a run has yet to commit                         *)
(***************************************************************************)

\* What an agent finds is of today and of its run; sessions come before the report on them.
Tidy ==
  \A c \in CycleRuns :
    /\ \A n \in cyc[c].found : /\ n.day = today /\ n.by = cyc[c].run
                               /\ n.kind \in Digests => cyc[c].at = 6
                               /\ n.kind = "sessions_daily" => cyc[c].at # 6
    /\ \A r \in cyc[c].made : r.window = today /\ r.by = cyc[c].run

TidyAt(c) ==
  /\ \A n \in cyc[c].found : /\ n.day = today /\ n.by = cyc[c].run
                             /\ n.kind \in Digests => cyc[c].at = 6
                             /\ n.kind = "sessions_daily" => cyc[c].at # 6
  /\ \A r \in cyc[c].made : r.window = today /\ r.by = cyc[c].run

LEMMA TidyIsAt == Tidy <=> \A c \in CycleRuns : TidyAt(c)
  BY DEF Tidy, TidyAt

\* Whatever becomes of a run that has written nothing.
LEMMA TidyMoves ==
  ASSUME Tidy, NEW c \in CycleRuns, \A d \in CycleRuns : d # c => cyc'[d] = cyc[d],
         UNCHANGED today, TidyAt(c)'
  PROVE  Tidy'
  <1>1. ASSUME NEW d \in CycleRuns, d # c PROVE TidyAt(d)'
    BY <1>1 DEF Tidy, TidyAt
  <1>2. \A d \in CycleRuns : TidyAt(d)'
    BY <1>1
  <1>. QED  BY <1>2 DEF Tidy, TidyAt

LEMMA CleanIsTidy ==
  ASSUME NEW c, cyc'[c].found = {}, cyc'[c].made = {}
  PROVE  TidyAt(c)'
  BY DEF TidyAt

LEMMA GatherIsTidy ==
  ASSUME CycleTypeInv, Tidy, NEW c \in CycleRuns, NEW kinds, NEW n, NEW f, Gathers(c, kinds, n, f)
  PROVE  TidyAt(c)' /\ Persisted(c, kinds, n, f)
  <1>1. CycleTypeOK
    BY CycleTyped
  <1>2. Persisted(c, kinds, n, f)
    BY <1>1, PersistWrites DEF Gathers, CostsWell
  <1>3. ASSUME NEW m \in Noted(c, kinds)
        PROVE  /\ m.day = today /\ m.by = cyc[c].run
               /\ m.kind \in Digests => cyc[c].at = 6
               /\ m.kind = "sessions_daily" => cyc[c].at # 6
    <2>1. m.kind \in kinds /\ m.day = today /\ m.by = cyc[c].run
      BY <1>3 DEF Noted
    <2>. QED  BY <2>1 DEF Gathers, ReadsWell
  <1>4. TidyAt(c)'
    BY <1>2, <1>3 DEF Tidy, TidyAt, Persisted, OnlyRun, Rest
  <1>. QED  BY <1>2, <1>4

LEMMA TidyInitially == CycleInit => Tidy
  BY NoCycleFields DEF CycleInit, Tidy

LEMMA TidyStep == CycleTypeInv /\ Tidy /\ [CycleNext]_cycleVars => Tidy'
  <1>. SUFFICES ASSUME CycleTypeInv, Tidy, [CycleNext]_cycleVars PROVE Tidy'
    OBVIOUS
  <1>0. CycleTypeOK
    BY CycleTyped
  <1>1. CASE UNCHANGED cycleVars
    BY <1>1 DEF cycleVars, Tidy
  <1>2. ASSUME NEW c \in CycleRuns, BeginCycle(c) PROVE Tidy'
    <2>1. /\ \A d \in CycleRuns : d # c => cyc'[d] = cyc[d]
          /\ Begun(cyc'[c], Following(0), runs + 1, {}) /\ UNCHANGED today
      BY <1>0, <1>2, BeginCycleBegins
    <2>. QED  BY <2>1, CleanIsTidy, TidyMoves DEF Begun
  <1>3. ASSUME NEW c \in CycleRuns, NEW kinds, NEW n, NEW f, Gathers(c, kinds, n, f) PROVE Tidy'
    BY <1>3, GatherIsTidy, TidyMoves DEF Persisted, OnlyRun, Rest
  <1>4. ASSUME NEW c \in CycleRuns, NEW table \in Tables, StartRefresh(c, table) PROVE Tidy'
    <2>1. PICK n \in Sizes : RefreshStarted(c, table, n)
      BY <1>0, <1>4, StartRefreshWrites
    <2>2. TidyAt(c)'
      BY <2>1 DEF RefreshStarted, OnlyRun, Rest, Tidy, TidyAt
    <2>. QED  BY <2>1, <2>2, TidyMoves DEF RefreshStarted, OnlyRun, Rest
  <1>5. ASSUME NEW c \in CycleRuns, NEW table \in Tables, FinishRefresh(c, table) PROVE Tidy'
    <2>1. cyc[c].run # 0
      BY <1>5, RefreshStaysTyped
    <2>2. PICK C \in SUBSET Categories : RefreshFinished(c, table, C)
      BY <1>0, <1>5, <2>1, FinishRefreshWrites
    <2>3. \A r \in Inserted(c, table, C) : r.window = today /\ r.by = cyc[c].run
      BY DEF Inserted
    <2>4. TidyAt(c)'
      BY <2>2, <2>3 DEF RefreshFinished, OnlyRun, Rest, Tidy, TidyAt
    <2>. QED  BY <2>2, <2>4, TidyMoves DEF RefreshFinished, OnlyRun, Rest
  <1>6. ASSUME NEW c \in CycleRuns, CommitAgent(c) \/ FailAgent(c) PROVE Tidy'
    <2>1. PICK kinds \in SUBSET NoteKinds :
            AtWork(c) /\ cyc' = [cyc EXCEPT ![c] = NextAgent(c, kinds)] /\ UNCHANGED today
      BY <1>6, KindsOfFound DEF CommitAgent, FailAgent, Rest
    <2>2. /\ Begun(cyc'[c], Following(cyc[c].at), cyc[c].run, cyc[c].kept \cup kinds)
          /\ \A d \in CycleRuns : d # c => cyc'[d] = cyc[d]
      BY <2>1, AgentEnds
    <2>. QED  BY <2>1, <2>2, CleanIsTidy, TidyMoves DEF Begun
  <1>7. ASSUME NEW c \in CycleRuns, MakePlan(c) \/ AbandonCycle(c) PROVE Tidy'
    <2>1. cyc' = [cyc EXCEPT ![c] = NoCycle] /\ UNCHANGED today
      BY <1>7 DEF MakePlan, AbandonCycle, Rest
    <2>2. cyc'[c] = NoCycle /\ \A d \in CycleRuns : d # c => cyc'[d] = cyc[d]
      BY <2>1, RunEnds
    <2>. QED  BY <2>1, <2>2, NoCycleFields, CleanIsTidy, TidyMoves
  <1>8. CASE TopArticles
    BY <1>8 DEF TopArticles, Tidy
  <1>9. ASSUME NEW kind \in Feeders, Feed(kind) PROVE Tidy'
    BY <1>9 DEF Feed, Tidy
  <1>10. CASE Tomorrow
    <2>1. \A c \in CycleRuns : cyc[c] = NoCycle /\ cyc' = cyc
      BY <1>10, IdleIsNoCycle DEF Tomorrow, Running
    <2>. QED  BY <2>1, NoCycleFields DEF Tidy
  <1>11. CASE CycleNext
    BY <1>0, <1>2, <1>3, <1>4, <1>5, <1>6, <1>7, <1>8, <1>9, <1>10, <1>11, StepsOfCycle DEF CycleSteps
  <1>. QED  BY <1>1, <1>11

LEMMA TidyInvariant == CycleSpec => []Tidy
  BY CycleTypeInvariant, TidyInitially, TidyStep, PTL DEF CycleSpec

--------------------------------------------------------------------------------
(***************************************************************************)
(* The morning cycle: one row for a writer and a window, at any overlap    *)
(***************************************************************************)

\* A run's rows are of its making alone, and replace those of their keys.
RowsOf(c) ==
  /\ \A q, r \in cyc[c].made : SameKey(q, r) => q = r
  /\ \A q \in cyc[c].made, r \in snapshots : SameKey(q, r) => r \in cyc[c].gone

Apart(c, d) == \A q \in cyc[c].made, r \in cyc[d].made : ~SameKey(q, r)

KeysOnce ==
  /\ \A q, r \in snapshots : SameKey(q, r) => q = r
  /\ \A c \in CycleRuns : RowsOf(c)
  /\ \A c, d \in CycleRuns : c # d => Apart(c, d)

LEMMA KeyIsMutual ==
  ASSUME NEW q, NEW r, SameKey(q, r)
  PROVE  SameKey(r, q)
  BY DEF SameKey

\* What does not touch rows.
LEMMA KeysStay ==
  ASSUME KeysOnce, NEW c \in CycleRuns, \A d \in CycleRuns : d # c => cyc'[d] = cyc[d],
         UNCHANGED snapshots,
         \/ cyc'[c].made = {}
         \/ cyc'[c].made = cyc[c].made /\ cyc'[c].gone = cyc[c].gone
  PROVE  KeysOnce'
  <1>1. \A d \in CycleRuns : RowsOf(d)'
    BY DEF KeysOnce, RowsOf
  <1>2. \A d, e \in CycleRuns : d # e => Apart(d, e)'
    BY DEF KeysOnce, Apart
  <1>. QED  BY <1>1, <1>2 DEF KeysOnce

LEMMA KeysInitially == CycleInit => KeysOnce
  BY NoCycleFields DEF CycleInit, KeysOnce, RowsOf, Apart

LEMMA KeysFinish ==
  ASSUME CycleTypeInv, Tidy, KeysOnce, NEW c \in CycleRuns, NEW table \in Tables,
         NEW C, RefreshFinished(c, table, C)
  PROVE  KeysOnce'
  <1>. DEFINE new == Inserted(c, table, C)
  <1>1. /\ \A d \in CycleRuns : d # c => cyc'[d] = cyc[d]
        /\ cyc'[c].gone = cyc[c].gone \cup cyc[c].seen /\ cyc'[c].made = cyc[c].made \cup new
        /\ UNCHANGED snapshots
    BY DEF RefreshFinished, OnlyRun, Rest
  <1>2. \A q \in new, r \in Met(c) : ~SameKey(q, r)
    BY DEF RefreshFinished
  <1>3. \A q \in new : q.window = today /\ q.by = cyc[c].run
    BY DEF Inserted
  <1>4. \A q, r \in new \cup cyc[c].made : SameKey(q, r) => q = r
    <2>1. \A q \in new \cup cyc[c].made : q.window = today /\ q.by = cyc[c].run
      BY <1>3 DEF Tidy
    <2>2. \A q \in new \cup cyc[c].made :
            q = [table |-> q.table, category |-> q.category, window |-> q.window, by |-> q.by]
      <3>1. \A q \in cyc[c].made :
              q = [table |-> q.table, category |-> q.category, window |-> q.window, by |-> q.by]
        <4>1. cyc[c].made \in SUBSET Row
          BY CycleTyped, CycleFields
        <4>. QED  BY <4>1 DEF Row
      <3>2. \A q \in new :
              q = [table |-> q.table, category |-> q.category, window |-> q.window, by |-> q.by]
        BY DEF Inserted
      <3>. QED  BY <3>1, <3>2
    <2>. HIDE DEF new
    <2>3. ASSUME NEW q \in new \cup cyc[c].made, NEW r \in new \cup cyc[c].made, SameKey(q, r)
          PROVE  q = r
      <3>1. q.table = r.table /\ q.category = r.category /\ q.window = r.window /\ q.by = r.by
        BY <2>1, <2>3 DEF SameKey
      <3>. QED  BY <2>2, <3>1
    <2>. QED  BY <2>3
  <1>. HIDE DEF new
  <1>5. RowsOf(c)'
    <2>1. ASSUME NEW q \in cyc'[c].made, NEW r \in snapshots', SameKey(q, r)
          PROVE  r \in cyc'[c].gone
      <3>1. CASE q \in cyc[c].made
        BY <1>1, <2>1, <3>1 DEF KeysOnce, RowsOf
      <3>2. CASE q \in new
        <4>1. r \notin Met(c)
          BY <1>2, <2>1, <3>2
        <4>2. \A A, B : B \subseteq A \cup B
          OBVIOUS
        <4>5. snapshots \ cyc[c].seen \subseteq Met(c)
          BY <4>2, Zenon DEF Met
        <4>3. r \in snapshots
          BY <1>1, <2>1
        <4>4. r \in cyc[c].seen
          BY <4>1, <4>5, <4>3
        <4>. QED  BY <1>1, <4>4
      <3>. QED  BY <1>1, <2>1, <3>1, <3>2
    <2>2. \A q, r \in cyc'[c].made : SameKey(q, r) => q = r
      BY <1>1, <1>4
    <2>. QED  BY <2>1, <2>2 DEF RowsOf
  <1>6. ASSUME NEW d \in CycleRuns, d # c PROVE RowsOf(d)' /\ Apart(c, d)' /\ Apart(d, c)'
    <2>1. RowsOf(d)'
      BY <1>1, <1>6 DEF KeysOnce, RowsOf
    <2>2. cyc'[d].made = cyc[d].made
      BY <1>1, <1>6
    <2>3. ASSUME NEW q \in cyc'[c].made, NEW r \in cyc'[d].made PROVE ~SameKey(q, r) /\ ~SameKey(r, q)
      <3>1. CASE q \in cyc[c].made
        BY <1>6, <2>2, <2>3, <3>1 DEF KeysOnce, Apart
      <3>2. CASE q \in new
        <4>1. r \in Met(c)
          BY <1>6, <2>2, <2>3 DEF Met
        <4>. QED  BY <1>2, <3>2, <4>1, KeyIsMutual
      <3>. QED  BY <1>1, <2>3, <3>1, <3>2
    <2>. QED  BY <2>1, <2>3 DEF Apart
  <1>7. ASSUME NEW d \in CycleRuns, NEW e \in CycleRuns, d # e, d # c, e # c PROVE Apart(d, e)'
    BY <1>1, <1>7 DEF KeysOnce, Apart
  <1>8. \A d \in CycleRuns : RowsOf(d)'
    BY <1>5, <1>6
  <1>9. \A d, e \in CycleRuns : d # e => Apart(d, e)'
    BY <1>6, <1>7
  <1>. QED  BY <1>1, <1>8, <1>9 DEF KeysOnce

LEMMA KeysCommit ==
  ASSUME CycleTypeInv, KeysOnce, NEW c \in CycleRuns, CommitAgent(c)
  PROVE  KeysOnce'
  <1>1. /\ cyc'[c].made = {} /\ \A d \in CycleRuns : d # c => cyc'[d] = cyc[d]
    <2>1. AtWork(c) /\ cyc' = [cyc EXCEPT ![c] = NextAgent(c, {n.kind : n \in cyc[c].found})]
      BY DEF CommitAgent
    <2>. QED  BY <2>1, KindsOfFound, AgentEnds DEF Begun
  <1>2. snapshots' = (snapshots \ cyc[c].gone) \cup cyc[c].made
    BY DEF CommitAgent
  <1>3. ASSUME NEW q \in snapshots', NEW r \in snapshots', SameKey(q, r) PROVE q = r
    BY <1>2, <1>3, KeyIsMutual DEF KeysOnce, RowsOf
  <1>4. ASSUME NEW d \in CycleRuns PROVE RowsOf(d)'
    <2>1. CASE d = c
      BY <1>1, <2>1 DEF RowsOf
    <2>2. CASE d # c
      <3>1. ASSUME NEW q \in cyc[d].made, NEW r \in snapshots', SameKey(q, r) PROVE r \in cyc[d].gone
        <4>1. r \notin cyc[c].made
          BY <2>2, <3>1 DEF KeysOnce, Apart
        <4>. QED  BY <1>2, <3>1, <4>1 DEF KeysOnce, RowsOf
      <3>. QED  BY <1>1, <2>2, <3>1 DEF KeysOnce, RowsOf
    <2>. QED  BY <2>1, <2>2
  <1>5. \A d, e \in CycleRuns : d # e => Apart(d, e)'
    BY <1>1 DEF KeysOnce, Apart
  <1>. QED  BY <1>3, <1>4, <1>5 DEF KeysOnce

LEMMA KeysStep == CycleTypeInv /\ Tidy /\ KeysOnce /\ [CycleNext]_cycleVars => KeysOnce'
  <1>. SUFFICES ASSUME CycleTypeInv, Tidy, KeysOnce, [CycleNext]_cycleVars PROVE KeysOnce'
    OBVIOUS
  <1>0. CycleTypeOK
    BY CycleTyped
  <1>1. CASE UNCHANGED <<cyc, snapshots>>
    BY <1>1 DEF KeysOnce, RowsOf, Apart
  <1>2. ASSUME NEW c \in CycleRuns, BeginCycle(c) PROVE KeysOnce'
    <2>1. /\ \A d \in CycleRuns : d # c => cyc'[d] = cyc[d]
          /\ Begun(cyc'[c], Following(0), runs + 1, {}) /\ UNCHANGED snapshots
      BY <1>0, <1>2, BeginCycleBegins
    <2>. QED  BY <2>1, KeysStay DEF Begun
  <1>3. ASSUME NEW c \in CycleRuns, NEW kinds, NEW n, NEW f, Gathers(c, kinds, n, f) PROVE KeysOnce'
    BY <1>3, GatherIsTidy, KeysStay DEF Persisted, OnlyRun, Rest
  <1>4. ASSUME NEW c \in CycleRuns, NEW table \in Tables, StartRefresh(c, table) PROVE KeysOnce'
    <2>1. PICK n \in Sizes : RefreshStarted(c, table, n)
      BY <1>0, <1>4, StartRefreshWrites
    <2>. QED  BY <2>1, KeysStay DEF RefreshStarted, OnlyRun, Rest
  <1>5. ASSUME NEW c \in CycleRuns, NEW table \in Tables, FinishRefresh(c, table) PROVE KeysOnce'
    <2>1. PICK C \in SUBSET Categories : RefreshFinished(c, table, C)
      BY <1>0, <1>5, RefreshStaysTyped, FinishRefreshWrites
    <2>. QED  BY <2>1, KeysFinish
  <1>6. ASSUME NEW c \in CycleRuns, FailAgent(c) PROVE KeysOnce'
    <2>1. AtWork(c) /\ {} \in SUBSET NoteKinds /\ cyc' = [cyc EXCEPT ![c] = NextAgent(c, {})]
          /\ UNCHANGED snapshots
      BY <1>6 DEF FailAgent, Rest
    <2>2. /\ Begun(cyc'[c], Following(cyc[c].at), cyc[c].run, cyc[c].kept \cup {})
          /\ \A d \in CycleRuns : d # c => cyc'[d] = cyc[d]
      BY <2>1, AgentEnds
    <2>. QED  BY <2>1, <2>2, KeysStay DEF Begun
  <1>7. ASSUME NEW c \in CycleRuns, MakePlan(c) \/ AbandonCycle(c) PROVE KeysOnce'
    <2>1. cyc' = [cyc EXCEPT ![c] = NoCycle] /\ UNCHANGED snapshots
      BY <1>7 DEF MakePlan, AbandonCycle, Rest
    <2>2. cyc'[c] = NoCycle /\ \A d \in CycleRuns : d # c => cyc'[d] = cyc[d]
      BY <2>1, RunEnds
    <2>. QED  BY <2>1, <2>2, NoCycleFields, KeysStay
  <1>8. TopArticles \/ (\E kind \in Feeders : Feed(kind)) \/ Tomorrow \/ UNCHANGED cycleVars
          => UNCHANGED <<cyc, snapshots>>
    BY DEF TopArticles, Feed, Tomorrow, cycleVars
  <1>9. CASE CycleNext
    BY <1>0, <1>1, <1>2, <1>3, <1>4, <1>5, <1>6, <1>7, <1>8, <1>9, KeysCommit, StepsOfCycle
    DEF CycleSteps
  <1>. QED  BY <1>1, <1>8, <1>9

LEMMA KeysInvariant == CycleSpec => []KeysOnce
  BY CycleTypeInvariant, TidyInvariant, KeysInitially, KeysStep, PTL DEF CycleSpec

--------------------------------------------------------------------------------
(***************************************************************************)
(* The morning cycle: one run at a time, unless they have overlapped       *)
(***************************************************************************)
Single == ~cycOverlapped => \A c, d \in CycleRuns : cyc[c].at # 0 /\ cyc[d].at # 0 => c = d

\* A step moves one run, which was under way or begins now, or none.
LEMMA OneMoves ==
  ASSUME CycleTypeInv, [CycleNext]_cycleVars
  PROVE  \/ \E c \in CycleRuns : /\ \A d \in CycleRuns : d # c => cyc'[d] = cyc[d]
                                 /\ \/ cyc[c].at # 0 /\ cycOverlapped' = cycOverlapped
                                    \/ BeginCycle(c)
         \/ UNCHANGED cyc /\ (cycOverlapped => cycOverlapped')
  <1>0. CycleTypeOK /\ cyc \in [CycleRuns -> Cycle]
    BY CycleTyped DEF CycleTypeInv, Runs
  <1>1. CASE UNCHANGED cycleVars
    BY <1>1 DEF cycleVars
  <1>. DEFINE Moved(c) == /\ \A d \in CycleRuns : d # c => cyc'[d] = cyc[d]
                          /\ cyc[c].at # 0 /\ cycOverlapped' = cycOverlapped
  <1>2. ASSUME NEW c \in CycleRuns, BeginCycle(c)
        PROVE  \A d \in CycleRuns : d # c => cyc'[d] = cyc[d]
    BY <1>0, <1>2, BeginCycleBegins
  <1>3. ASSUME NEW c \in CycleRuns, NEW kinds, NEW n, NEW f, Gathers(c, kinds, n, f) PROVE Moved(c)
    <2>1. Persisted(c, kinds, n, f)
      BY <1>0, <1>3, PersistWrites DEF Gathers, CostsWell
    <2>2. cyc[c].at # 0
      BY <1>3 DEF Gathers
    <2>. QED  BY <2>1, <2>2 DEF Persisted, OnlyRun, Rest
  <1>4. ASSUME NEW c \in CycleRuns, NEW table \in Tables,
               StartRefresh(c, table) \/ FinishRefresh(c, table)
        PROVE  Moved(c)
    <2>1. cyc[c].at # 0 /\ cyc[c].run # 0
      BY <1>4, RefreshStaysTyped
    <2>2. OnlyRun(c)
      <3>1. CASE StartRefresh(c, table)
        BY <1>0, <3>1, StartRefreshWrites DEF RefreshStarted
      <3>2. CASE FinishRefresh(c, table)
        BY <1>0, <2>1, <3>2, FinishRefreshWrites DEF RefreshFinished
      <3>. QED  BY <1>4, <3>1, <3>2
    <2>. QED  BY <2>1, <2>2 DEF OnlyRun, Rest
  <1>5. ASSUME NEW c \in CycleRuns, CommitAgent(c) \/ FailAgent(c) PROVE Moved(c)
    <2>1. PICK W : AtWork(c) /\ cyc' = [cyc EXCEPT ![c] = W] /\ cycOverlapped' = cycOverlapped
      BY <1>5 DEF CommitAgent, FailAgent, Rest
    <2>2. cyc[c].at # 0
      BY <2>1 DEF AtWork
    <2>. QED  BY <1>0, <2>1, <2>2
  <1>6. ASSUME NEW c \in CycleRuns, MakePlan(c) \/ AbandonCycle(c) PROVE Moved(c)
    <2>1. cyc' = [cyc EXCEPT ![c] = NoCycle] /\ cycOverlapped' = cycOverlapped
      BY <1>6 DEF MakePlan, AbandonCycle, Rest
    <2>2. cyc[c].at # 0
      BY <1>6, SixAgents DEF MakePlan, AbandonCycle
    <2>. QED  BY <2>1, <2>2, RunEnds
  <1>7. TopArticles \/ (\E kind \in Feeders : Feed(kind)) \/ Tomorrow
          => UNCHANGED cyc /\ (cycOverlapped => cycOverlapped')
    <2>1. TopArticles => UNCHANGED cyc /\ (cycOverlapped => cycOverlapped')
      BY Zenon DEF TopArticles
    <2>2. (\E kind \in Feeders : Feed(kind)) \/ Tomorrow => UNCHANGED cyc /\ cycOverlapped' = cycOverlapped
      BY DEF Feed, Tomorrow
    <2>. QED  BY <2>1, <2>2
  <1>. HIDE DEF Moved
  <1>8. CASE CycleNext
    <2>1. \/ \E c \in CycleRuns : Moved(c) \/ BeginCycle(c)
          \/ UNCHANGED cyc /\ (cycOverlapped => cycOverlapped')
      BY <1>0, <1>3, <1>4, <1>5, <1>6, <1>7, <1>8, StepsOfCycle DEF CycleSteps
    <2>. QED  BY <1>2, <2>1 DEF Moved
  <1>. QED  BY <1>1, <1>8

LEMMA SingleStep == CycleTypeInv /\ Single /\ [CycleNext]_cycleVars => Single'
  <1>. SUFFICES ASSUME CycleTypeInv, Single, [CycleNext]_cycleVars PROVE Single'
    OBVIOUS
  <1>1. CASE UNCHANGED cyc /\ (cycOverlapped => cycOverlapped')
    BY <1>1 DEF Single
  <1>2. ASSUME NEW c \in CycleRuns, \A d \in CycleRuns : d # c => cyc'[d] = cyc[d],
               cyc[c].at # 0, cycOverlapped' = cycOverlapped
        PROVE  Single'
    BY <1>2 DEF Single
  <1>3. ASSUME NEW c \in CycleRuns, \A d \in CycleRuns : d # c => cyc'[d] = cyc[d], BeginCycle(c)
        PROVE  Single'
    <2>1. ~cycOverlapped' => Running = {}
      BY <1>3 DEF BeginCycle
    <2>. QED  BY <1>3, <2>1 DEF Running, Single
  <1>. QED  BY <1>1, <1>2, <1>3, OneMoves

LEMMA SingleInvariant == CycleSpec => []Single
  <1>1. CycleInit => Single
    BY NoCycleFields DEF CycleInit, Single
  <1>. QED  BY <1>1, CycleTypeInvariant, SingleStep, PTL DEF CycleSpec

LEMMA OthersIdle ==
  ASSUME CycleTypeInv, Single, ~cycOverlapped, NEW c \in CycleRuns, cyc[c].at # 0,
         NEW d \in CycleRuns, d # c
  PROVE  cyc[d] = NoCycle
  BY IdleIsNoCycle DEF Single

LEMMA OverlapStays ==
  ASSUME CycleTypeInv, [CycleNext]_cycleVars, ~cycOverlapped'
  PROVE  ~cycOverlapped
  BY OneMoves DEF BeginCycle

--------------------------------------------------------------------------------
(***************************************************************************)
(* The morning cycle: snapshots                                            *)
(***************************************************************************)
Grouped(q, r) == q.table = r.table /\ (q.table = "writer_stats" => q.window = r.window)

\* What a run inserts takes the place of what it deletes.
Replaces(c) ==
  /\ \A q \in cyc[c].made, r \in snapshots : Grouped(q, r) => r \in cyc[c].gone
  /\ cyc[c].refreshing => cyc[c].seen = Replaced(Stops(cyc[c].at)[Min(cyc[c].todo)])

WholeInv ==
  ~cycOverlapped => /\ \A q, r \in snapshots : Grouped(q, r) => q.by = r.by
                    /\ \A c \in CycleRuns : Replaces(c)

LEMMA CleanReplaces ==
  ASSUME NEW c, cyc'[c].made = {}, ~cyc'[c].refreshing
  PROVE  Replaces(c)'
  BY DEF Replaces

\* What touches no rows but those of one run.
LEMMA WholeStays ==
  ASSUME WholeInv, NEW c \in CycleRuns,
         \A d \in CycleRuns : d # c => cyc'[d] = cyc[d],
         UNCHANGED <<snapshots, today>>, Replaces(c) => Replaces(c)',
         ~cycOverlapped' => ~cycOverlapped
  PROVE  WholeInv'
  <1>1. ASSUME ~cycOverlapped', NEW d \in CycleRuns PROVE Replaces(d)'
    <2>1. Replaces(d)
      BY <1>1 DEF WholeInv
    <2>2. CASE d = c
      BY <2>1, <2>2
    <2>3. CASE d # c
      BY <2>1, <2>3 DEF Replaces, Replaced
    <2>. QED  BY <2>2, <2>3
  <1>. QED  BY <1>1 DEF WholeInv

LEMMA WholeCommit ==
  ASSUME CycleTypeInv, Tidy, Single, WholeInv, NEW c \in CycleRuns, CommitAgent(c)
  PROVE  WholeInv'
  <1>. SUFFICES ASSUME ~cycOverlapped
                PROVE  /\ \A q, r \in snapshots' : Grouped(q, r) => q.by = r.by
                       /\ \A d \in CycleRuns : Replaces(d)'
    BY DEF WholeInv, CommitAgent
  <1>1. AtWork(c) /\ cyc' = [cyc EXCEPT ![c] = NextAgent(c, {n.kind : n \in cyc[c].found})]
    BY DEF CommitAgent
  <1>2. /\ cyc'[c].made = {} /\ cyc'[c].refreshing = FALSE /\ cyc[c].at # 0
        /\ \A d \in CycleRuns : d # c => cyc'[d] = cyc[d]
    <2>1. PICK kinds \in SUBSET NoteKinds : cyc' = [cyc EXCEPT ![c] = NextAgent(c, kinds)]
      BY <1>1, KindsOfFound
    <2>2. /\ cyc[c].at \in 1 .. 6 /\ \A d \in CycleRuns : d # c => cyc'[d] = cyc[d]
          /\ Begun(cyc'[c], Following(cyc[c].at), cyc[c].run, cyc[c].kept \cup kinds)
      BY <1>1, <2>1, AgentEnds
    <2>. QED  BY <2>2 DEF Begun
  <1>3. ASSUME NEW d \in CycleRuns PROVE Replaces(d)'
    <2>1. cyc'[d].made = {} /\ ~cyc'[d].refreshing
      BY <1>2, OthersIdle, NoCycleFields
    <2>. QED  BY <2>1, CleanReplaces
  <1>4. snapshots' = (snapshots \ cyc[c].gone) \cup cyc[c].made
    BY DEF CommitAgent
  <1>5. ASSUME NEW q \in snapshots', NEW r \in snapshots', Grouped(q, r) PROVE q.by = r.by
    <2>1. Grouped(r, q)
      BY <1>5 DEF Grouped
    <2>2. CASE q \in cyc[c].made /\ r \in cyc[c].made
      BY <2>2 DEF Tidy
    <2>3. CASE q \in snapshots \ cyc[c].gone /\ r \in cyc[c].made
      BY <2>1, <2>3 DEF WholeInv, Replaces
    <2>4. CASE q \in cyc[c].made /\ r \in snapshots \ cyc[c].gone
      BY <1>5, <2>4 DEF WholeInv, Replaces
    <2>5. CASE q \in snapshots /\ r \in snapshots
      BY <1>5, <2>5 DEF WholeInv
    <2>. QED  BY <1>4, <2>2, <2>3, <2>4, <2>5
  <1>. QED  BY <1>3, <1>5

LEMMA WholeStep == CycleTypeInv /\ Tidy /\ Single /\ WholeInv /\ [CycleNext]_cycleVars => WholeInv'
  <1>. SUFFICES ASSUME CycleTypeInv, Tidy, Single, WholeInv, [CycleNext]_cycleVars PROVE WholeInv'
    OBVIOUS
  <1>0. CycleTypeOK /\ (~cycOverlapped' => ~cycOverlapped)
    BY CycleTyped, OverlapStays
  <1>1. CASE UNCHANGED <<cyc, snapshots, today>>
    BY <1>0, <1>1 DEF WholeInv, Replaces, Replaced
  <1>2. ASSUME NEW c \in CycleRuns, BeginCycle(c) PROVE WholeInv'
    <2>1. /\ \A d \in CycleRuns : d # c => cyc'[d] = cyc[d]
          /\ Begun(cyc'[c], Following(0), runs + 1, {}) /\ UNCHANGED <<snapshots, today>>
      BY <1>0, <1>2, BeginCycleBegins
    <2>. QED  BY <1>0, <2>1, CleanReplaces, WholeStays DEF Begun
  <1>3. ASSUME NEW c \in CycleRuns, NEW kinds, NEW n, NEW f, Gathers(c, kinds, n, f) PROVE WholeInv'
    <2>1. Persisted(c, kinds, n, f) /\ ~cyc[c].refreshing
      BY <1>3, GatherIsTidy DEF Gathers
    <2>2. Replaces(c) => Replaces(c)'
      BY <2>1 DEF Replaces, Persisted, OnlyRun, Rest
    <2>. QED  BY <1>0, <2>1, <2>2, WholeStays DEF Persisted, OnlyRun, Rest
  <1>4. ASSUME NEW c \in CycleRuns, NEW table \in Tables, StartRefresh(c, table) PROVE WholeInv'
    <2>1. PICK n \in Sizes : RefreshStarted(c, table, n)
      BY <1>0, <1>4, StartRefreshWrites
    <2>2. Replaces(c) => Replaces(c)'
      BY <2>1 DEF Replaces, Replaced, RefreshStarted, OnlyRun, Rest
    <2>. QED  BY <1>0, <2>1, <2>2, WholeStays DEF RefreshStarted, OnlyRun, Rest
  <1>5. ASSUME NEW c \in CycleRuns, NEW table \in Tables, FinishRefresh(c, table) PROVE WholeInv'
    <2>1. PICK C \in SUBSET Categories : RefreshFinished(c, table, C)
      BY <1>0, <1>5, RefreshStaysTyped, FinishRefreshWrites
    <2>2. /\ cyc'[c].made = cyc[c].made \cup Inserted(c, table, C)
          /\ cyc'[c].gone = cyc[c].gone \cup cyc[c].seen /\ ~cyc'[c].refreshing
          /\ cyc[c].refreshing /\ table = Stops(cyc[c].at)[Min(cyc[c].todo)]
          /\ UNCHANGED <<snapshots, today>> /\ \A d \in CycleRuns : d # c => cyc'[d] = cyc[d]
      BY <2>1 DEF RefreshFinished, OnlyRun, Rest
    <2>3. ASSUME NEW q \in Inserted(c, table, C), NEW r \in snapshots, Grouped(q, r)
          PROVE  r \in Replaced(table)
      <3>1. q.table = table /\ q.window = today
        BY <2>3 DEF Inserted
      <3>. QED  BY <2>3, <3>1 DEF Grouped, Replaced
    <2>4. Replaces(c) => Replaces(c)'
      BY <2>2, <2>3 DEF Replaces
    <2>. QED  BY <1>0, <2>2, <2>4, WholeStays
  <1>6. ASSUME NEW c \in CycleRuns, FailAgent(c) PROVE WholeInv'
    <2>1. AtWork(c) /\ {} \in SUBSET NoteKinds /\ cyc' = [cyc EXCEPT ![c] = NextAgent(c, {})]
          /\ UNCHANGED <<snapshots, today>>
      BY <1>6 DEF FailAgent, Rest
    <2>2. /\ Begun(cyc'[c], Following(cyc[c].at), cyc[c].run, cyc[c].kept \cup {})
          /\ \A d \in CycleRuns : d # c => cyc'[d] = cyc[d]
      BY <2>1, AgentEnds
    <2>. QED  BY <1>0, <2>1, <2>2, CleanReplaces, WholeStays DEF Begun
  <1>7. ASSUME NEW c \in CycleRuns, MakePlan(c) \/ AbandonCycle(c) PROVE WholeInv'
    <2>1. cyc' = [cyc EXCEPT ![c] = NoCycle] /\ UNCHANGED <<snapshots, today>>
      BY <1>7 DEF MakePlan, AbandonCycle, Rest
    <2>2. cyc'[c] = NoCycle /\ \A d \in CycleRuns : d # c => cyc'[d] = cyc[d]
      BY <2>1, RunEnds
    <2>. QED  BY <1>0, <2>1, <2>2, NoCycleFields, CleanReplaces, WholeStays
  <1>8. TopArticles \/ (\E kind \in Feeders : Feed(kind)) \/ UNCHANGED cycleVars
          => UNCHANGED <<cyc, snapshots, today>>
    BY DEF TopArticles, Feed, cycleVars
  <1>9. CASE Tomorrow
    <2>1. UNCHANGED <<cyc, snapshots>> /\ \A c \in CycleRuns : cyc[c] = NoCycle
      BY <1>9, IdleIsNoCycle DEF Tomorrow, Running
    <2>2. \A c \in CycleRuns : Replaces(c)'
      BY <2>1, NoCycleFields, CleanReplaces
    <2>. QED  BY <1>0, <2>1, <2>2 DEF WholeInv
  <1>10. CASE CycleNext
    BY <1>0, <1>1, <1>2, <1>3, <1>4, <1>5, <1>6, <1>7, <1>8, <1>9, <1>10, WholeCommit, StepsOfCycle
    DEF CycleSteps
  <1>. QED  BY <1>1, <1>8, <1>10

\* The panels show one query's answer as long as cycles do not overlap, and never two rows for
\* a writer in a window, even if they do.
THEOREM SnapshotsWhole == CycleSpec => []SnapshotsAreWhole
  <1>1. CycleInit => WholeInv
    BY NoCycleFields DEF CycleInit, WholeInv, Replaces
  <1>2. WholeInv /\ KeysOnce => SnapshotsAreWhole
    BY DEF WholeInv, KeysOnce, Grouped, SnapshotsAreWhole
  <1>. QED  BY <1>1, <1>2, CycleTypeInvariant, TidyInvariant, SingleInvariant, KeysInvariant,
               WholeStep, PTL DEF CycleSpec

--------------------------------------------------------------------------------
(***************************************************************************)
(* The morning cycle: the digest                                           *)
(***************************************************************************)

\* A report that the digest is ready was made at most two days after a day with sessions.
ReadySoon(N)    == \A n \in N : n.kind = "digest_ready" => traffic > 0 /\ n.day - traffic <= 2
SessionsKnown(N) == \A n \in N : n.kind = "sessions_daily" => n.day \in 1 .. traffic

DigestInv ==
  /\ today >= 1
  /\ SessionsKnown(notes) /\ ReadySoon(notes) /\ \A c \in CycleRuns : ReadySoon(cyc[c].found)
  /\ DigestInputsRecent

LEMMA NoteFields ==
  ASSUME CycleTypeInv
  PROVE  /\ today \in Nat /\ traffic \in Nat /\ traffic <= today
         /\ \A n \in notes : n.day \in Nat /\ n.by \in Nat
         /\ \A c \in CycleRuns : \A n \in cyc[c].found : n.day \in Nat /\ n.by \in Nat
  <1>1. today \in Nat /\ traffic \in Nat /\ traffic <= today
    BY DEF CycleTypeInv, Shared, Days
  <1>2. \A n \in Note : n.day \in Nat /\ n.by \in Nat
    BY CycleAssumption DEF Note, Days
  <1>3. notes \subseteq Note /\ \A c \in CycleRuns : cyc[c].found \in SUBSET Note
    BY CycleTyped, CycleFields DEF CycleTypeInv, Shared
  <1>. QED  BY <1>1, <1>2, <1>3

\* One run's findings change, and no plan, day or record of sessions.
LEMMA DigestStays ==
  ASSUME DigestInv, NEW c \in CycleRuns, \A d \in CycleRuns : d # c => cyc'[d] = cyc[d],
         UNCHANGED <<today, traffic, latestPlan>>, notes' \in SUBSET notes,
         ReadySoon(cyc'[c].found)
  PROVE  DigestInv'
  <1>1. \A d \in CycleRuns : ReadySoon(cyc[d].found)'
    BY DEF DigestInv, ReadySoon
  <1>2. ReadySoon(notes)' /\ SessionsKnown(notes)'
    BY DEF DigestInv, ReadySoon, SessionsKnown
  <1>3. DigestInputsRecent' /\ today' >= 1
    BY DEF DigestInv, DigestInputsRecent
  <1>. QED  BY <1>1, <1>2, <1>3 DEF DigestInv

LEMMA NoneReady == ReadySoon({})
  BY DEF ReadySoon

LEMMA DigestGather ==
  ASSUME CycleTypeInv, Tidy, DigestInv, NEW c \in CycleRuns, NEW kinds, NEW n, NEW f,
         Gathers(c, kinds, n, f)
  PROVE  DigestInv'
  <1>1. Persisted(c, kinds, n, f)
    BY GatherIsTidy
  <1>2. ASSUME NEW m \in Noted(c, kinds), m.kind = "digest_ready"
        PROVE  traffic > 0 /\ m.day - traffic <= 2
    <2>1. m.day = today /\ "digest_ready" \in kinds
      BY <1>2 DEF Noted
    <2>2. PICK late \in BOOLEAN : Fresh(Visible(c), {"sessions_daily"}, 2, late) # {}
      BY <2>1 DEF Gathers, ReadsWell, Digests
    <2>3. PICK s \in Visible(c) : s.kind = "sessions_daily" /\ (today - s.day < 2 \/ today - s.day = 2)
      BY <2>2 DEF Fresh
    <2>4. cyc[c].at = 6
      BY <2>1 DEF Gathers, ReadsWell, Digests
    <2>5. s \in notes
      BY <2>3, <2>4 DEF Tidy, Visible
    <2>6. s.day \in 1 .. traffic
      BY <2>3, <2>5 DEF DigestInv, SessionsKnown
    <2>. QED  BY <2>1, <2>3, <2>6, NoteFields
  <1>3. ReadySoon(cyc'[c].found)
    BY <1>1, <1>2 DEF DigestInv, ReadySoon, Persisted
  <1>. QED  BY <1>1, <1>3, DigestStays DEF Persisted, OnlyRun, Rest

LEMMA DigestCommit ==
  ASSUME CycleTypeInv, Tidy, DigestInv, NEW c \in CycleRuns, CommitAgent(c)
  PROVE  DigestInv'
  <1>1. /\ AtWork(c) /\ cyc' = [cyc EXCEPT ![c] = NextAgent(c, {n.kind : n \in cyc[c].found})]
        /\ notes' = notes \cup cyc[c].found
        /\ traffic' = IF \E n \in cyc[c].found : n.kind = "sessions_daily" THEN today ELSE traffic
        /\ UNCHANGED <<today, latestPlan>>
    BY DEF CommitAgent
  <1>2. cyc'[c].found = {} /\ \A d \in CycleRuns : d # c => cyc'[d] = cyc[d]
    <2>1. PICK kinds \in SUBSET NoteKinds : cyc' = [cyc EXCEPT ![c] = NextAgent(c, kinds)]
      BY <1>1, KindsOfFound
    <2>2. /\ \A d \in CycleRuns : d # c => cyc'[d] = cyc[d]
          /\ Begun(cyc'[c], Following(cyc[c].at), cyc[c].run, cyc[c].kept \cup kinds)
      BY <1>1, <2>1, AgentEnds
    <2>. QED  BY <2>2 DEF Begun
  <1>3. traffic' \in Nat /\ traffic <= traffic' /\ traffic' <= today
    BY <1>1, NoteFields
  <1>4. \A n \in notes \cup cyc[c].found : n.kind = "digest_ready" => traffic > 0 /\ n.day - traffic <= 2
    BY DEF DigestInv, ReadySoon
  <1>5. ReadySoon(notes)'
    BY <1>1, <1>3, <1>4, NoteFields DEF ReadySoon
  <1>6. ASSUME NEW n \in notes', n.kind = "sessions_daily" PROVE n.day \in 1 .. traffic'
    <2>1. CASE n \in notes
      BY <1>3, <1>6, <2>1, NoteFields DEF DigestInv, SessionsKnown
    <2>2. CASE n \in cyc[c].found
      <3>1. n.day = today /\ traffic' = today
        BY <1>1, <1>6, <2>2 DEF Tidy
      <3>. QED  BY <3>1, NoteFields DEF DigestInv
    <2>. QED  BY <1>1, <2>1, <2>2
  <1>7. ASSUME NEW d \in CycleRuns PROVE ReadySoon(cyc[d].found)'
    <2>1. CASE d = c
      BY <1>2, <2>1 DEF ReadySoon
    <2>2. CASE d # c
      BY <1>2, <1>3, <2>2, NoteFields DEF DigestInv, ReadySoon
    <2>. QED  BY <2>1, <2>2
  <1>8. DigestInputsRecent' /\ today' >= 1
    BY <1>1 DEF DigestInv, DigestInputsRecent
  <1>. QED  BY <1>5, <1>6, <1>7, <1>8 DEF DigestInv, SessionsKnown

\* The answers hold notes.
LEMMA AnswersAreNotes ==
  ASSUME NEW three \in BOOLEAN, NEW two \in BOOLEAN, NEW a \in Answers(three, two)
  PROVE  /\ a.flag \in Newest(Fresh(notes, Queried.flag, 3, three), MaxEntries)
         /\ a.context \in Newest(Fresh(notes, Queried.context, 3, three), MaxEntries)
         /\ a.report \in Newest(Fresh(notes, Queried.report, 2, two), MaxReports)
         /\ a.draft \in Newest(Fresh(notes, Queried.draft, 2, two), MaxReports)
         /\ a.report \in SUBSET Fresh(notes, Queried.report, 2, two)
  <1>1. /\ a.flag \in Newest(Fresh(notes, Queried.flag, 3, three), MaxEntries)
        /\ a.context \in Newest(Fresh(notes, Queried.context, 3, three), MaxEntries)
        /\ a.report \in Newest(Fresh(notes, Queried.report, 2, two), MaxReports)
        /\ a.draft \in Newest(Fresh(notes, Queried.draft, 2, two), MaxReports)
    BY DEF Answers
  <1>. QED  BY <1>1 DEF Newest, Some

LEMMA OnlyReadyIsAssembled ==
  ASSUME NEW a, NEW T, NEW i \in Proposals(a, T), i.action = "assemble_digest"
  PROVE  \E n \in a.report : n.kind = "digest_ready" /\ i.day = n.day
  <1>1. i \notin FromFlags(a.flag)
    <2>1. \A k : FlagAction(k) # "assemble_digest"
      BY DEF FlagAction
    <2>. QED  BY <2>1 DEF FromFlags, Proposal
  <1>2. i \notin FromCandidates(T) /\ i \notin FromDrafts(a.draft)
    BY DEF FromCandidates, FromDrafts, Proposal
  <1>. QED  BY <1>1, <1>2 DEF Proposals, FromDistribution, Proposal

\* What a plan is made of.
Planned(c, a, T, K) ==
  /\ K \in Top(Proposals(a, T))
  /\ latestPlan' = [day |-> today, items |-> IF K = {} THEN {NothingToDo} ELSE K,
                    heard |-> cyc[c].kept, traffic |-> traffic,
                    read |-> [type \in Types |-> AsNew(c, a[type])],
                    topics |-> AsNew(c, T)]

LEMMA PlanIsMade ==
  ASSUME NEW c, MakePlan(c)
  PROVE  \E three, two \in BOOLEAN : \E a \in Answers(three, two) :
           \E T \in Newest(Deduped(a.context), MaxTopics) : \E K : Planned(c, a, T, K)
  BY DEF MakePlan, Planned

LEMMA DigestPlan ==
  ASSUME CycleTypeInv, DigestInv, NEW c \in CycleRuns, MakePlan(c)
  PROVE  DigestInv'
  <1>1. PICK three \in BOOLEAN, two \in BOOLEAN : \E a \in Answers(three, two) :
          \E T \in Newest(Deduped(a.context), MaxTopics) : \E K : Planned(c, a, T, K)
    BY PlanIsMade
  <1>2. PICK a \in Answers(three, two) : \E T, K : Planned(c, a, T, K)
    BY <1>1
  <1>2a. PICK T, K : Planned(c, a, T, K)
    BY <1>2
  <1>2b. K \in SUBSET Proposals(a, T)
    BY <1>2a DEF Planned, Top, Some
  <1>3. ASSUME NEW i \in latestPlan'.items, i.action = "assemble_digest"
        PROVE  latestPlan'.traffic > 0 /\ latestPlan'.day - latestPlan'.traffic <= 4
    <2>1. i \in K
      BY <1>2a, <1>3 DEF NothingToDo, Proposal, Planned
    <2>2. PICK n \in a.report : n.kind = "digest_ready" /\ i.day = n.day
      BY <1>2b, <1>3, <2>1, OnlyReadyIsAssembled
    <2>3. n \in notes /\ n.kind = "digest_ready" /\ (today - n.day < 2 \/ today - n.day = 2)
      BY <2>2, AnswersAreNotes DEF Fresh
    <2>4. traffic > 0 /\ n.day - traffic <= 2
      BY <2>3 DEF DigestInv, ReadySoon
    <2>5. today - traffic <= 4
      BY <2>3, <2>4, NoteFields
    <2>. QED  BY <1>2a, <2>4, <2>5 DEF Planned
  <1>4. DigestInputsRecent'
    BY <1>3 DEF DigestInputsRecent
  <1>5. UNCHANGED <<notes, today, traffic>> /\ cyc' = [cyc EXCEPT ![c] = NoCycle]
    BY DEF MakePlan
  <1>6. cyc'[c] = NoCycle /\ \A d \in CycleRuns : d # c => cyc'[d] = cyc[d]
    BY <1>5, RunEnds
  <1>7. \A d \in CycleRuns : ReadySoon(cyc[d].found)'
    BY <1>5, <1>6, NoCycleFields DEF DigestInv, ReadySoon
  <1>. QED  BY <1>4, <1>5, <1>7 DEF DigestInv, ReadySoon, SessionsKnown

LEMMA DigestStep == CycleTypeInv /\ Tidy /\ DigestInv /\ [CycleNext]_cycleVars => DigestInv'
  <1>. SUFFICES ASSUME CycleTypeInv, Tidy, DigestInv, [CycleNext]_cycleVars PROVE DigestInv'
    OBVIOUS
  <1>0. CycleTypeOK
    BY CycleTyped
  <1>1. CASE UNCHANGED <<cyc, notes, today, traffic, latestPlan>>
    <2>1. \A d \in CycleRuns : ReadySoon(cyc[d].found)'
      BY <1>1 DEF DigestInv, ReadySoon
    <2>2. ReadySoon(notes)' /\ SessionsKnown(notes)' /\ DigestInputsRecent' /\ today' >= 1
      BY <1>1 DEF DigestInv, ReadySoon, SessionsKnown, DigestInputsRecent
    <2>. QED  BY <2>1, <2>2 DEF DigestInv
  <1>2. ASSUME NEW c \in CycleRuns, BeginCycle(c) PROVE DigestInv'
    <2>1. /\ \A d \in CycleRuns : d # c => cyc'[d] = cyc[d]
          /\ Begun(cyc'[c], Following(0), runs + 1, {}) /\ UNCHANGED <<today, traffic, latestPlan>>
      BY <1>0, <1>2, BeginCycleBegins
    <2>2. notes' \in SUBSET notes
      BY <1>0, <1>2, BeginCycleBegins
    <2>. QED  BY <2>1, <2>2, NoneReady, DigestStays DEF Begun
  <1>3. ASSUME NEW c \in CycleRuns, NEW table \in Tables, StartRefresh(c, table) PROVE DigestInv'
    <2>1. PICK n \in Sizes : RefreshStarted(c, table, n)
      BY <1>0, <1>3, StartRefreshWrites
    <2>. QED  BY <2>1, DigestStays DEF DigestInv, RefreshStarted, OnlyRun, Rest
  <1>4. ASSUME NEW c \in CycleRuns, NEW table \in Tables, FinishRefresh(c, table) PROVE DigestInv'
    <2>1. PICK C \in SUBSET Categories : RefreshFinished(c, table, C)
      BY <1>0, <1>4, RefreshStaysTyped, FinishRefreshWrites
    <2>. QED  BY <2>1, DigestStays DEF DigestInv, RefreshFinished, OnlyRun, Rest
  <1>5. ASSUME NEW c \in CycleRuns, FailAgent(c) PROVE DigestInv'
    <2>1. AtWork(c) /\ {} \in SUBSET NoteKinds /\ cyc' = [cyc EXCEPT ![c] = NextAgent(c, {})]
          /\ UNCHANGED <<notes, today, traffic, latestPlan>>
      BY <1>5 DEF FailAgent, Rest
    <2>2. /\ Begun(cyc'[c], Following(cyc[c].at), cyc[c].run, cyc[c].kept \cup {})
          /\ \A d \in CycleRuns : d # c => cyc'[d] = cyc[d]
      BY <2>1, AgentEnds
    <2>. QED  BY <2>1, <2>2, NoneReady, DigestStays DEF Begun
  <1>6. ASSUME NEW c \in CycleRuns, AbandonCycle(c) PROVE DigestInv'
    <2>1. cyc' = [cyc EXCEPT ![c] = NoCycle] /\ UNCHANGED <<notes, today, traffic, latestPlan>>
      BY <1>6 DEF AbandonCycle, Rest
    <2>2. cyc'[c] = NoCycle /\ \A d \in CycleRuns : d # c => cyc'[d] = cyc[d]
      BY <2>1, RunEnds
    <2>. QED  BY <2>1, <2>2, NoCycleFields, NoneReady, DigestStays
  <1>7. TopArticles \/ UNCHANGED cycleVars => UNCHANGED <<cyc, notes, today, traffic, latestPlan>>
    BY DEF TopArticles, cycleVars
  <1>8. ASSUME NEW kind \in Feeders, Feed(kind) PROVE DigestInv'
    <2>1. notes' = notes \cup {[kind |-> kind, day |-> today, by |-> 0]}
          /\ UNCHANGED <<cyc, today, traffic, latestPlan>>
      BY <1>8 DEF Feed
    <2>2. kind # "digest_ready" /\ kind # "sessions_daily"
      BY DEF Feeders, FeederFlags
    <2>3. \A d \in CycleRuns : ReadySoon(cyc[d].found)'
      BY <2>1 DEF DigestInv, ReadySoon
    <2>4. ReadySoon(notes)' /\ SessionsKnown(notes)' /\ DigestInputsRecent' /\ today' >= 1
      BY <2>1, <2>2 DEF DigestInv, ReadySoon, SessionsKnown, DigestInputsRecent
    <2>. QED  BY <2>3, <2>4 DEF DigestInv
  <1>9. CASE Tomorrow
    <2>1. UNCHANGED <<cyc, traffic, latestPlan>> /\ notes' \in SUBSET notes /\ today' = today + 1
      BY <1>9 DEF Tomorrow
    <2>2. \A d \in CycleRuns : ReadySoon(cyc[d].found)'
      BY <2>1 DEF DigestInv, ReadySoon
    <2>3. ReadySoon(notes)' /\ SessionsKnown(notes)' /\ DigestInputsRecent'
      BY <2>1 DEF DigestInv, ReadySoon, SessionsKnown, DigestInputsRecent
    <2>4. today' >= 1
      BY <2>1, NoteFields DEF DigestInv
    <2>. QED  BY <2>2, <2>3, <2>4 DEF DigestInv
  <1>10. CASE CycleNext
    BY <1>0, <1>1, <1>2, <1>3, <1>4, <1>5, <1>6, <1>7, <1>8, <1>9, <1>10, DigestGather, DigestCommit,
       DigestPlan, StepsOfCycle
    DEF CycleSteps
  <1>. QED  BY <1>1, <1>7, <1>10

\* A plan proposes to assemble the digest only if sessions were recorded at most four days
\* before, whatever runs at once.
THEOREM DigestIsRecent == CycleSpec => []DigestInputsRecent
  <1>1. CycleInit => DigestInv
    BY NoCycleFields DEF CycleInit, DigestInv, DigestInputsRecent, NoPlan, ReadySoon, SessionsKnown
  <1>2. DigestInv => DigestInputsRecent
    BY DEF DigestInv
  <1>. QED  BY <1>1, <1>2, CycleTypeInvariant, TidyInvariant, DigestStep, PTL DEF CycleSpec

--------------------------------------------------------------------------------
(***************************************************************************)
(* The morning cycle: the scan cap                                         *)
(***************************************************************************)

\* A cap that is exceeded by one query at most, once a run's charges are in.
CapAt(w) == \E n \in Sizes : spent + w.charged - loose - w.free <= ByteCap + n

\* The day's charges, and what each run adds to them.
LEMMA Charges ==
  ASSUME CycleTypeInv
  PROVE  /\ spent \in Nat /\ loose \in Nat /\ loose <= spent /\ ByteCap \in Nat
         /\ \A c \in CycleRuns : /\ cyc[c].charged \in Nat /\ cyc[c].free \in Nat
                                 /\ cyc[c].free <= cyc[c].charged
         /\ \E n \in Sizes : n \in Nat
         /\ \A n \in Sizes : n \in Nat
  <1>1. spent \in Nat /\ loose \in Nat /\ loose <= spent
    BY DEF CycleTypeInv, Shared
  <1>2. \A c \in CycleRuns : /\ cyc[c].charged \in Nat /\ cyc[c].free \in Nat
                             /\ cyc[c].free <= cyc[c].charged
    BY CycleTyped, CycleFields
  <1>3. ByteCap \in Nat /\ (\A n \in Sizes : n \in Nat) /\ \E n \in Sizes : n \in Nat
    BY CycleAssumption
  <1>. QED  BY <1>1, <1>2, <1>3

\* What a run has is its own, and a run that has nothing adds nothing.
LEMMA CapOfIdle ==
  ASSUME CycleTypeInv, NEW c \in CycleRuns, CapAt(cyc[c]),
         UNCHANGED <<spent, loose>>, NEW w, w.charged = 0, w.free = 0
  PROVE  CapAt(w)'
  <1>1. PICK n \in Sizes : spent + cyc[c].charged - loose - cyc[c].free <= ByteCap + n
    BY DEF CapAt
  <1>2. spent + 0 - loose - 0 <= ByteCap + n
    BY <1>1, Charges
  <1>. QED  BY <1>2 DEF CapAt

CapInv == ~cycOverlapped => \A c \in CycleRuns : CapAt(cyc[c])

\* One run moves, and its charges stay within the cap.
LEMMA CapStays ==
  ASSUME CycleTypeInv, CapInv, ~cycOverlapped, NEW c \in CycleRuns,
         \A d \in CycleRuns : d # c => cyc'[d] = cyc[d], UNCHANGED <<spent, loose>>, CapAt(cyc[c])'
  PROVE  CapInv'
  <1>1. ASSUME NEW d \in CycleRuns PROVE CapAt(cyc[d])'
    BY DEF CapInv, CapAt
  <1>. QED  BY <1>1 DEF CapInv

LEMMA CapStep == CycleTypeInv /\ Single /\ CapInv /\ [CycleNext]_cycleVars => CapInv'
  <1>. SUFFICES ASSUME CycleTypeInv, Single, CapInv, [CycleNext]_cycleVars, ~cycOverlapped'
                PROVE  CapInv'
    BY DEF CapInv
  <1>0. CycleTypeOK /\ ~cycOverlapped /\ \A c \in CycleRuns : CapAt(cyc[c])
    BY CycleTyped, OverlapStays DEF CapInv
  <1>1. CASE UNCHANGED <<cyc, spent, loose>>
    BY <1>0, <1>1 DEF CapInv, CapAt
  <1>2. ASSUME NEW c \in CycleRuns, BeginCycle(c) PROVE CapInv'
    <2>1. /\ \A d \in CycleRuns : d # c => cyc'[d] = cyc[d]
          /\ Begun(cyc'[c], Following(0), runs + 1, {}) /\ UNCHANGED <<spent, loose>>
      BY <1>0, <1>2, BeginCycleBegins
    <2>2. CapAt(cyc[c])'
      BY <1>0, <2>1, CapOfIdle DEF Begun, CapAt
    <2>. QED  BY <1>0, <2>1, <2>2, CapStays
  <1>3. ASSUME NEW c \in CycleRuns, NEW kinds, NEW n, NEW f, Gathers(c, kinds, n, f) PROVE CapInv'
    <2>1. Persisted(c, kinds, n, f) /\ CostsWell(c, n, f)
      BY <1>0, <1>3, PersistWrites DEF Gathers, CostsWell
    <2>2. n \in Nat /\ f \in Nat
      BY <2>1 DEF CostsWell
    <2>3. /\ cyc'[c].charged = cyc[c].charged + n /\ cyc'[c].free = cyc[c].free + f
          /\ \A d \in CycleRuns : d # c => cyc'[d] = cyc[d]
      BY <2>1 DEF Persisted, OnlyRun, Rest
    <2>4. UNCHANGED <<spent, loose>>
      BY <2>1 DEF Persisted, OnlyRun, Rest
    <2>5. CASE n = f
      <3>1. PICK m \in Sizes : spent + cyc[c].charged - loose - cyc[c].free <= ByteCap + m
        BY <1>0 DEF CapAt
      <3>2. spent + (cyc[c].charged + n) - loose - (cyc[c].free + f) <= ByteCap + m
        BY <2>2, <2>5, <3>1, Charges
      <3>3. CapAt(cyc[c])'
        BY <2>3, <2>4, <3>2 DEF CapAt
      <3>. QED  BY <1>0, <2>3, <2>4, <3>3, CapStays
    <2>6. CASE n # f
      <3>1. PICK m \in Sizes : spent + cyc[c].charged + n <= ByteCap + m
        BY <2>1, <2>6 DEF CostsWell
      <3>2. spent + (cyc[c].charged + n) - loose - (cyc[c].free + f) <= ByteCap + m
        BY <2>2, <3>1, Charges
      <3>3. CapAt(cyc[c])'
        BY <2>3, <2>4, <3>2 DEF CapAt
      <3>. QED  BY <1>0, <2>3, <2>4, <3>3, CapStays
    <2>. QED  BY <2>5, <2>6
  <1>4. ASSUME NEW c \in CycleRuns, NEW table \in Tables, StartRefresh(c, table) PROVE CapInv'
    <2>1. PICK n \in Sizes : RefreshStarted(c, table, n)
      BY <1>0, <1>4, StartRefreshWrites
    <2>2. /\ cyc'[c].charged = cyc[c].charged + n /\ cyc'[c].free = cyc[c].free
          /\ UNCHANGED <<spent, loose>> /\ spent + cyc[c].charged + n <= ByteCap
      BY <2>1 DEF RefreshStarted, OnlyRun, Rest, WithinCaps
    <2>3. spent + (cyc[c].charged + n) - loose - cyc[c].free <= ByteCap + n
      BY <2>2, Charges
    <2>4. CapAt(cyc[c])'
      BY <2>2, <2>3 DEF CapAt
    <2>. QED  BY <1>0, <2>1, <2>4, CapStays DEF RefreshStarted, OnlyRun, Rest
  <1>5. ASSUME NEW c \in CycleRuns, NEW table \in Tables, FinishRefresh(c, table) PROVE CapInv'
    <2>1. PICK C \in SUBSET Categories : RefreshFinished(c, table, C)
      BY <1>0, <1>5, RefreshStaysTyped, FinishRefreshWrites
    <2>2. CapAt(cyc[c])'
      BY <1>0, <2>1 DEF CapAt, RefreshFinished, OnlyRun, Rest
    <2>. QED  BY <1>0, <2>1, <2>2, CapStays DEF RefreshFinished, OnlyRun, Rest
  <1>6. ASSUME NEW c \in CycleRuns, FailAgent(c) PROVE CapInv'
    <2>1. AtWork(c) /\ {} \in SUBSET NoteKinds /\ cyc' = [cyc EXCEPT ![c] = NextAgent(c, {})]
          /\ UNCHANGED <<spent, loose>>
      BY <1>6 DEF FailAgent, Rest
    <2>2. /\ Begun(cyc'[c], Following(cyc[c].at), cyc[c].run, cyc[c].kept \cup {})
          /\ \A d \in CycleRuns : d # c => cyc'[d] = cyc[d]
      BY <2>1, AgentEnds
    <2>3. CapAt(cyc[c])'
      BY <1>0, <2>1, <2>2, CapOfIdle DEF Begun, CapAt
    <2>. QED  BY <1>0, <2>1, <2>2, <2>3, CapStays
  <1>7. ASSUME NEW c \in CycleRuns, MakePlan(c) \/ AbandonCycle(c) PROVE CapInv'
    <2>1. cyc' = [cyc EXCEPT ![c] = NoCycle] /\ UNCHANGED <<spent, loose>>
      BY <1>7 DEF MakePlan, AbandonCycle, Rest
    <2>2. cyc'[c] = NoCycle /\ \A d \in CycleRuns : d # c => cyc'[d] = cyc[d]
      BY <2>1, RunEnds
    <2>3. CapAt(cyc[c])'
      BY <1>0, <2>1, <2>2, NoCycleFields, CapOfIdle DEF CapAt
    <2>. QED  BY <1>0, <2>1, <2>2, <2>3, CapStays
  <1>8. ASSUME NEW c \in CycleRuns, CommitAgent(c) PROVE CapInv'
    <2>1. /\ AtWork(c) /\ cyc' = [cyc EXCEPT ![c] = NextAgent(c, {n.kind : n \in cyc[c].found})]
          /\ spent' = spent + cyc[c].charged /\ loose' = loose + cyc[c].free
      BY <1>8 DEF CommitAgent
    <2>2. PICK kinds \in SUBSET NoteKinds : cyc' = [cyc EXCEPT ![c] = NextAgent(c, kinds)]
      BY <2>1, KindsOfFound
    <2>3. /\ Begun(cyc'[c], Following(cyc[c].at), cyc[c].run, cyc[c].kept \cup kinds)
          /\ \A d \in CycleRuns : d # c => cyc'[d] = cyc[d]
          /\ cyc[c].at \in 1 .. 6
      BY <2>1, <2>2, AgentEnds
    <2>4. PICK m \in Sizes : spent + cyc[c].charged - loose - cyc[c].free <= ByteCap + m
      BY <1>0 DEF CapAt
    <2>5. spent' + 0 - loose' - 0 <= ByteCap + m
      BY <2>1, <2>4, Charges
    <2>6. ASSUME NEW d \in CycleRuns PROVE cyc'[d].charged = 0 /\ cyc'[d].free = 0
      BY <1>0, <2>3, OthersIdle, NoCycleFields DEF Begun
    <2>. QED  BY <2>5, <2>6 DEF CapInv, CapAt
  <1>9. CASE TopArticles
    <2>1. PICK n \in Sizes : spent + n <= ByteCap /\ spent' = spent + n
      BY <1>9 DEF TopArticles
    <2>2. Running = {} /\ UNCHANGED <<cyc, loose>>
      BY <1>9 DEF TopArticles
    <2>3. \A c \in CycleRuns : cyc'[c].charged = 0 /\ cyc'[c].free = 0
      BY <2>2, IdleIsNoCycle, NoCycleFields DEF Running
    <2>4. spent' + 0 - loose' - 0 <= ByteCap + n
      BY <2>1, <2>2, Charges
    <2>. QED  BY <2>3, <2>4 DEF CapInv, CapAt
  <1>10. CASE Tomorrow
    <2>1. Running = {} /\ UNCHANGED cyc /\ spent' = 0 /\ loose' = 0
      BY <1>10 DEF Tomorrow
    <2>2. \A c \in CycleRuns : cyc'[c].charged = 0 /\ cyc'[c].free = 0
      BY <2>1, IdleIsNoCycle, NoCycleFields DEF Running
    <2>3. \E n \in Sizes : spent' + 0 - loose' - 0 <= ByteCap + n
      BY <2>1, Charges
    <2>. QED  BY <2>2, <2>3 DEF CapInv, CapAt
  <1>11. (\E kind \in Feeders : Feed(kind)) \/ UNCHANGED cycleVars => UNCHANGED <<cyc, spent, loose>>
    BY DEF Feed, cycleVars
  <1>12. CASE CycleNext
    BY <1>0, <1>1, <1>2, <1>3, <1>4, <1>5, <1>6, <1>7, <1>8, <1>9, <1>10, <1>11, <1>12, StepsOfCycle
    DEF CycleSteps
  <1>. QED  BY <1>1, <1>11, <1>12

\* The bytes on record for a day, the uncapped export apart, exceed the cap by one query at
\* most, as long as cycles do not overlap.
THEOREM CapHolds == CycleSpec => []ScanCapHolds
  <1>1. CycleInit => CapInv
    <2>. SUFFICES ASSUME CycleInit PROVE \A c \in CycleRuns : CapAt(cyc[c])
      BY DEF CapInv
    <2>1. \A c \in CycleRuns : cyc[c].charged = 0 /\ cyc[c].free = 0
      BY NoCycleFields DEF CycleInit
    <2>2. \E n \in Sizes : spent + 0 - loose - 0 <= ByteCap + n
      <3>1. spent = 0 /\ loose = 0
        BY DEF CycleInit
      <3>2. PICK n \in Sizes : n \in Nat
        BY CycleAssumption
      <3>3. spent + 0 - loose - 0 <= ByteCap + n
        BY <3>1, <3>2, CycleAssumption
      <3>. QED  BY <3>3
    <2>. QED  BY <2>1, <2>2 DEF CapAt
  <1>2. CapInv => ScanCapHolds
    BY DEF CapInv, CapAt, ScanCapHolds
  <1>. QED  BY <1>1, <1>2, CycleTypeInvariant, SingleInvariant, CapStep, PTL DEF CycleSpec

--------------------------------------------------------------------------------
(***************************************************************************)
(* The morning cycle: the paid answer                                      *)
(***************************************************************************)

\* Paid answers a week apart.
Spaced(N) ==
  \A m, n \in {x \in N : x.kind = "ahrefs_cache"} : m = n \/ m.day - n.day >= 7 \/ n.day - m.day >= 7

PaidInv == ~cycOverlapped => Spaced(notes) /\ \A c \in CycleRuns : Spaced(Visible(c))

LEMMA FewerAreSpaced ==
  ASSUME NEW N, NEW M \in SUBSET N, Spaced(N)
  PROVE  Spaced(M)
  BY DEF Spaced

\* Notes lapse, and the findings of one run change.
LEMMA PaidStays ==
  ASSUME PaidInv, ~cycOverlapped, NEW c \in CycleRuns,
         \A d \in CycleRuns : d # c => cyc'[d] = cyc[d],
         notes' \in SUBSET notes, Spaced(Visible(c)')
  PROVE  PaidInv'
  <1>1. Spaced(notes')
    BY FewerAreSpaced DEF PaidInv
  <1>2. ASSUME NEW d \in CycleRuns PROVE Spaced(Visible(d)')
    <2>1. CASE d # c
      <3>1. Visible(d)' \in SUBSET Visible(d)
        BY <2>1 DEF Visible
      <3>. QED  BY <3>1, FewerAreSpaced DEF PaidInv
    <2>. QED  BY <2>1
  <1>. QED  BY <1>1, <1>2 DEF PaidInv, Spaced

LEMMA PaidGather ==
  ASSUME CycleTypeInv, Tidy, PaidInv, ~cycOverlapped, NEW c \in CycleRuns,
         NEW kinds, NEW n, NEW f, Gathers(c, kinds, n, f)
  PROVE  PaidInv'
  <1>1. Persisted(c, kinds, n, f)
    BY GatherIsTidy
  <1>2. Visible(c)' = Visible(c) \cup Noted(c, kinds) /\ notes' = notes
    BY <1>1 DEF Visible, Persisted, OnlyRun, Rest
  <1>3. Spaced(Visible(c))
    BY DEF PaidInv
  <1>4. Spaced(Visible(c) \cup Noted(c, kinds))
    <2>1. CASE "ahrefs_cache" \in kinds
      <3>1. PICK late \in BOOLEAN : Fresh(Visible(c), {"ahrefs_cache"}, 7, late) = {}
        BY <2>1 DEF Gathers, ReadsWell
      <3>2. ASSUME NEW m \in Visible(c), m.kind = "ahrefs_cache" PROVE today - m.day >= 7
        <4>1. ~(today - m.day < 7)
          BY <3>1, <3>2 DEF Fresh
        <4>. QED  BY <4>1, NoteFields DEF Visible
      <3>3. \A m \in Noted(c, kinds) :
              m.kind = "ahrefs_cache" =>
                m = [kind |-> "ahrefs_cache", day |-> today, by |-> cyc[c].run] /\ m.day = today
        BY DEF Noted
      <3>. QED  BY <1>3, <3>2, <3>3 DEF Spaced
    <2>2. CASE "ahrefs_cache" \notin kinds
      <3>1. \A m \in Noted(c, kinds) : m.kind # "ahrefs_cache"
        BY <2>2 DEF Noted
      <3>. QED  BY <1>3, <3>1 DEF Spaced
    <2>. QED  BY <2>1, <2>2
  <1>. QED  BY <1>1, <1>2, <1>4, PaidStays DEF Persisted, OnlyRun

LEMMA PaidStep == CycleTypeInv /\ Tidy /\ Single /\ PaidInv /\ [CycleNext]_cycleVars => PaidInv'
  <1>. SUFFICES ASSUME CycleTypeInv, Tidy, Single, PaidInv, [CycleNext]_cycleVars, ~cycOverlapped'
                PROVE  PaidInv'
    BY DEF PaidInv
  <1>0. /\ CycleTypeOK /\ ~cycOverlapped /\ Spaced(notes)
        /\ \A c \in CycleRuns : Spaced(Visible(c)) /\ notes \in SUBSET Visible(c)
    BY CycleTyped, OverlapStays DEF PaidInv, Visible
  <1>1. CASE UNCHANGED <<cyc, notes>>
    <2>1. \A d \in CycleRuns : Visible(d)' = Visible(d)
      BY <1>1 DEF Visible
    <2>. QED  BY <1>0, <1>1, <2>1 DEF PaidInv, Spaced
  <1>2. ASSUME NEW c \in CycleRuns, BeginCycle(c) PROVE PaidInv'
    <2>1. /\ \A d \in CycleRuns : d # c => cyc'[d] = cyc[d]
          /\ Begun(cyc'[c], Following(0), runs + 1, {})
      BY <1>0, <1>2, BeginCycleBegins
    <2>2. notes' \in SUBSET notes
      BY <1>0, <1>2, BeginCycleBegins
    <2>3. Visible(c)' = notes'
      BY <2>1 DEF Begun, Visible
    <2>4. Spaced(Visible(c)')
      BY <1>0, <2>2, <2>3, FewerAreSpaced
    <2>. QED  BY <1>0, <2>1, <2>2, <2>4, PaidStays
  <1>3. ASSUME NEW c \in CycleRuns, NEW kinds, NEW n, NEW f, Gathers(c, kinds, n, f) PROVE PaidInv'
    BY <1>0, <1>3, PaidGather
  <1>4. ASSUME NEW c \in CycleRuns, NEW table \in Tables,
               StartRefresh(c, table) \/ FinishRefresh(c, table)
        PROVE  PaidInv'
    <2>1. /\ OnlyRun(c) /\ cyc'[c].found = cyc[c].found
      <3>1. CASE StartRefresh(c, table)
        BY <1>0, <3>1, StartRefreshWrites DEF RefreshStarted
      <3>2. CASE FinishRefresh(c, table)
        BY <1>0, <3>2, RefreshStaysTyped, FinishRefreshWrites DEF RefreshFinished
      <3>. QED  BY <1>4, <3>1, <3>2
    <2>2. Visible(c)' = Visible(c) /\ notes' = notes
      BY <2>1 DEF Visible, OnlyRun, Rest
    <2>. QED  BY <1>0, <2>1, <2>2, PaidStays DEF OnlyRun
  <1>5. ASSUME NEW c \in CycleRuns, FailAgent(c) PROVE PaidInv'
    <2>1. AtWork(c) /\ {} \in SUBSET NoteKinds /\ cyc' = [cyc EXCEPT ![c] = NextAgent(c, {})]
          /\ notes' = notes
      BY <1>5 DEF FailAgent, Rest
    <2>2. /\ Begun(cyc'[c], Following(cyc[c].at), cyc[c].run, cyc[c].kept \cup {})
          /\ \A d \in CycleRuns : d # c => cyc'[d] = cyc[d]
      BY <2>1, AgentEnds
    <2>3. Visible(c)' = notes
      BY <2>1, <2>2 DEF Begun, Visible
    <2>. QED  BY <1>0, <2>1, <2>2, <2>3, PaidStays
  <1>6. ASSUME NEW c \in CycleRuns, MakePlan(c) \/ AbandonCycle(c) PROVE PaidInv'
    <2>1. cyc' = [cyc EXCEPT ![c] = NoCycle] /\ notes' = notes
      BY <1>6 DEF MakePlan, AbandonCycle, Rest
    <2>2. cyc'[c] = NoCycle /\ \A d \in CycleRuns : d # c => cyc'[d] = cyc[d]
      BY <2>1, RunEnds
    <2>3. Visible(c)' = notes
      BY <2>1, <2>2, NoCycleFields DEF Visible
    <2>. QED  BY <1>0, <2>1, <2>2, <2>3, PaidStays
  <1>7. ASSUME NEW c \in CycleRuns, CommitAgent(c) PROVE PaidInv'
    <2>1. /\ AtWork(c) /\ cyc' = [cyc EXCEPT ![c] = NextAgent(c, {n.kind : n \in cyc[c].found})]
          /\ notes' = Visible(c)
      BY <1>7 DEF CommitAgent, Visible
    <2>2. PICK kinds \in SUBSET NoteKinds : cyc' = [cyc EXCEPT ![c] = NextAgent(c, kinds)]
      BY <2>1, KindsOfFound
    <2>3. /\ Begun(cyc'[c], Following(cyc[c].at), cyc[c].run, cyc[c].kept \cup kinds)
          /\ \A d \in CycleRuns : d # c => cyc'[d] = cyc[d]
          /\ cyc[c].at \in 1 .. 6
      BY <2>1, <2>2, AgentEnds
    <2>4. ASSUME NEW d \in CycleRuns PROVE Visible(d)' = Visible(c)
      <3>1. cyc'[d].found = {}
        BY <1>0, <2>3, OthersIdle, NoCycleFields DEF Begun
      <3>. QED  BY <2>1, <3>1 DEF Visible
    <2>5. Spaced(notes') /\ \A d \in CycleRuns : Spaced(Visible(d)')
      BY <1>0, <2>1, <2>4
    <2>. QED  BY <2>5 DEF PaidInv, Spaced
  <1>8. ASSUME NEW kind \in Feeders, Feed(kind) PROVE PaidInv'
    <2>1. notes' = notes \cup {[kind |-> kind, day |-> today, by |-> 0]} /\ UNCHANGED cyc
      BY <1>8 DEF Feed
    <2>2. kind # "ahrefs_cache"
      BY DEF Feeders, FeederFlags
    <2>3. Spaced(notes')
      BY <1>0, <2>1, <2>2 DEF Spaced
    <2>4. ASSUME NEW d \in CycleRuns PROVE Spaced(Visible(d)')
      <3>1. Visible(d)' = Visible(d) \cup {[kind |-> kind, day |-> today, by |-> 0]}
        BY <2>1 DEF Visible
      <3>. QED  BY <1>0, <2>2, <3>1 DEF Spaced
    <2>. QED  BY <2>3, <2>4 DEF PaidInv, Spaced
  <1>9. CASE Tomorrow
    <2>1. UNCHANGED cyc /\ notes' \in SUBSET notes
      BY <1>9 DEF Tomorrow
    <2>2. ASSUME NEW d \in CycleRuns PROVE Spaced(Visible(d)')
      <3>1. Visible(d)' \in SUBSET Visible(d)
        BY <2>1 DEF Visible
      <3>. QED  BY <1>0, <3>1, FewerAreSpaced
    <2>3. Spaced(notes')
      BY <1>0, <2>1, FewerAreSpaced
    <2>. QED  BY <2>2, <2>3 DEF PaidInv, Spaced
  <1>10. TopArticles \/ UNCHANGED cycleVars => UNCHANGED <<cyc, notes>>
    BY DEF TopArticles, cycleVars
  <1>11. CASE CycleNext
    BY <1>0, <1>1, <1>2, <1>3, <1>4, <1>5, <1>6, <1>7, <1>8, <1>9, <1>10, <1>11, StepsOfCycle
    DEF CycleSteps
  <1>. QED  BY <1>1, <1>10, <1>11

\* A paid answer serves for a week, as long as cycles do not overlap.
THEOREM PaidOnce == CycleSpec => []PaidOnceAWeek
  <1>1. CycleInit => PaidInv
    BY NoCycleFields DEF CycleInit, PaidInv, Spaced, Visible
  <1>2. CycleTypeInv /\ PaidInv => PaidOnceAWeek
    <2>. SUFFICES ASSUME CycleTypeInv, PaidInv, ~cycOverlapped,
                         NEW m \in notes, NEW n \in notes,
                         m.kind = "ahrefs_cache", n.kind = "ahrefs_cache",
                         m.day < n.day \/ (m.day = n.day /\ m.by < n.by)
                  PROVE  n.day - m.day >= 7
      BY DEF PaidOnceAWeek
    <2>1. m = n \/ m.day - n.day >= 7 \/ n.day - m.day >= 7
      BY DEF PaidInv, Spaced
    <2>. QED  BY <2>1, NoteFields
  <1>. QED  BY <1>1, <1>2, CycleTypeInvariant, TidyInvariant, SingleInvariant, PaidStep, PTL
            DEF CycleSpec

--------------------------------------------------------------------------------
(***************************************************************************)
(* The morning cycle: the plan sees the day                                *)
(***************************************************************************)
ReadyFound(c) == \E n \in cyc[c].found : n.kind = "digest_ready"

\* What a run's agents have committed is in memory, of today; and if both the sessions and the
\* report on them are, the report is that the digest is ready.
KeptIsSeen(c) ==
  /\ \A k \in cyc[c].kept : \E n \in notes : n.kind = k /\ n.day = today /\ n.by = cyc[c].run
  /\ cyc[c].kept \cap Digests # {} => cyc[c].at = 7
  /\ "sessions_daily" \in cyc[c].kept =>
       /\ cyc[c].kept \cap Digests # {} => "digest_ready" \in cyc[c].kept
       /\ (\E n \in cyc[c].found : n.kind \in Digests) => ReadyFound(c)

\* Nothing in memory is of a later day or run than the run at work.
Latest ==
  /\ \A n \in notes : n.day <= today /\ n.by <= runs
  /\ \A c \in CycleRuns : cyc[c].at # 0 => cyc[c].run = runs

DayInv == ~cycOverlapped => PlanSeesTheDay /\ Latest /\ \A c \in CycleRuns : KeptIsSeen(c)

--------------------------------------------------------------------------------
(* Scores *)

LEMMA ScoreIsNat ==
  ASSUME NEW action, NEW kind
  PROVE  ScoreOf(action, kind) \in Nat
  <1>1. FlagScore(kind) \in Nat
    BY DEF FlagScore
  <1>. QED  BY <1>1 DEF ScoreOf

Heard == FlagKinds \cup Topics \cup Drafts \cup {"digest_ready"}

LEMMA FlagIsUrgent ==
  ASSUME NEW k \in FlagKinds
  PROVE  Urgency(k) <= ScoreOf(FlagAction(k), k)
  <1>1. k \notin Topics /\ k \notin {"digest_ready", "newsletter_draft", "social_draft"}
    BY TopicsApart DEF FlagKinds, FeederFlags
  <1>2. CASE k = "decay_candidate"
    BY <1>1, <1>2 DEF Urgency, ScoreOf, FlagAction
  <1>3. CASE k = "content_audit_finding"
    <2>1. Urgency(k) = FlagScore(k) /\ ScoreOf(FlagAction(k), k) = FlagScore(k)
      BY <1>1, <1>3 DEF Urgency, ScoreOf, FlagAction
    <2>2. FlagScore(k) \in Nat
      BY DEF FlagScore
    <2>. QED  BY <2>1, <2>2
  <1>4. CASE k \notin {"decay_candidate", "content_audit_finding"}
    <2>1. Urgency(k) = FlagScore(k)
      BY <1>1, <1>4 DEF Urgency, ScoreOf
    <2>2. FlagScore(k) \in Nat /\ (k = "emaki_backlog" => FlagScore(k) = 60)
      BY DEF FlagScore
    <2>3. FlagAction(k) = "notify" \/ (FlagAction(k) = "emaki_publish_draft" /\ k = "emaki_backlog")
      BY <1>4 DEF FlagAction
    <2>. QED  BY <2>1, <2>2, <2>3 DEF ScoreOf
  <1>. QED  BY <1>2, <1>3, <1>4

\* What is left out of as many as max allows: there are as many.
LEMMA SomeLeft ==
  ASSUME NEW S, IsFiniteSet(S), NEW max \in Nat, NEW K \in Some(S, max), NEW p \in S, p \notin K
  PROVE  Cardinality(K) = max
  <1>1. K \in SUBSET S /\ Cardinality(K) = IF Cardinality(S) < max THEN Cardinality(S) ELSE max
    BY DEF Some
  <1>2. Cardinality(K) # Cardinality(S)
    BY <1>1, FS_Subset
  <1>. QED  BY <1>1, <1>2

\* A note of the run itself that a query does not return: the answer is full of notes as new.
LEMMA NotRead ==
  ASSUME CycleTypeInv, Latest, NEW c \in CycleRuns, cyc[c].run = runs,
         NEW N \in SUBSET notes, NEW max \in Nat, NEW K \in Newest(N, max),
         NEW n \in N, n \notin K, n.day = today, n.by = cyc[c].run
  PROVE  Cardinality(AsNew(c, K)) = max
  <1>1. K \in Some(N, max) /\ IsFiniteSet(N)
    BY FS_Subset DEF Newest, CycleTypeInv, Shared
  <1>2. Cardinality(K) = max
    BY <1>1, SomeLeft
  <1>3. ASSUME NEW m \in K PROVE m.day = today /\ m.by \in {0, cyc[c].run}
    <2>1. ~Later(n, m) /\ m \in notes
      BY <1>1 DEF Newest, Some
    <2>2. m.day \in Nat /\ m.by \in Nat /\ n.by \in Nat /\ today \in Nat
      BY <2>1, NoteFields
    <2>3. m.day <= today /\ m.by <= cyc[c].run
      BY <2>1 DEF Latest
    <2>. QED  BY <2>1, <2>2, <2>3 DEF Later
  <1>4. AsNew(c, K) = K
    BY <1>3 DEF AsNew
  <1>. QED  BY <1>2, <1>4

\* What a finding of the day comes to: a proposal, or an answer full of others.
Crowded(c, a, T, k) ==
  \/ \E type \in Types : k \in Queried[type] /\ Cardinality(AsNew(c, a[type])) = LimitOf(type)
  \/ k \in Topics /\ Cardinality(AsNew(c, T)) = MaxTopics

LEMMA NewsIsProposed ==
  ASSUME CycleTypeInv, Latest, NEW c \in CycleRuns, cyc[c].run = runs,
         NEW three \in BOOLEAN, NEW two \in BOOLEAN, NEW a \in Answers(three, two),
         NEW T \in Newest(Deduped(a.context), MaxTopics),
         NEW n \in notes, n.day = today, n.by = cyc[c].run, n.kind \in Heard
  PROVE  \/ Crowded(c, a, T, n.kind)
         \/ \E p \in Proposals(a, T) : p.kind = n.kind /\ Urgency(n.kind) <= p.score
  <1>. DEFINE k == n.kind
  <1>0. today - n.day < 3 /\ today - n.day < 2
    BY NoteFields
  <1>a. /\ \A kinds, days, late : Fresh(notes, kinds, days, late) \in SUBSET notes
        /\ MaxEntries \in Nat /\ MaxReports \in Nat /\ MaxTopics \in Nat
    BY CycleAssumption DEF Fresh
  <1>1. CASE k \in FlagKinds
    <2>1. n \in Fresh(notes, Queried.flag, 3, three)
      BY <1>0, <1>1 DEF Fresh, Queried
    <2>2. CASE n \in a.flag
      <3>1. Proposal(FlagAction(k), k, n.day, n.by) \in Proposals(a, T)
        BY <2>2 DEF FromFlags, Proposals
      <3>. QED  BY <1>1, <3>1, FlagIsUrgent DEF Proposal
    <2>3. CASE n \notin a.flag
      <3>1. Cardinality(AsNew(c, a.flag)) = MaxEntries
        BY <1>a, <2>1, <2>3, AnswersAreNotes, NotRead
      <3>. QED  BY <1>1, <3>1 DEF Crowded, Types, Queried, LimitOf
    <2>. QED  BY <2>2, <2>3
  <1>2. CASE k \in Topics
    <2>1. n \in Fresh(notes, Queried.context, 3, three)
      BY <1>0, <1>2 DEF Fresh, Queried, ContextKinds
    <2>2. CASE n \in T
      <3>1. Proposal("route_to_writer", k, 0, 0) \in Proposals(a, T)
        BY <2>2 DEF FromCandidates, Proposals
      <3>2. Urgency(k) = ScoreOf("route_to_writer", k)
        BY <1>2, TopicsApart DEF Urgency, Digests, Drafts, FlagKinds, FeederFlags
      <3>. QED  BY <3>1, <3>2, ScoreIsNat DEF Proposal
    <2>3. CASE n \notin a.context
      <3>1. Cardinality(AsNew(c, a.context)) = MaxEntries
        BY <1>a, <2>1, <2>3, AnswersAreNotes, NotRead
      <3>. QED  BY <1>2, <3>1 DEF Crowded, Types, Queried, LimitOf, ContextKinds
    <2>4. CASE n \in a.context /\ n \notin T
      <3>1. a.context \in SUBSET notes
        BY AnswersAreNotes DEF Newest, Some, Fresh
      <3>2. ASSUME NEW m \in a.context PROVE ~Later(m, n)
        BY <3>1, NoteFields DEF Latest, Later
      <3>3. n \in Deduped(a.context) /\ Deduped(a.context) \in SUBSET notes
        BY <1>2, <2>4, <3>1, <3>2 DEF Deduped
      <3>4. Cardinality(AsNew(c, T)) = MaxTopics
        BY <1>a, <2>4, <3>3, NotRead
      <3>. QED  BY <1>2, <3>4 DEF Crowded
    <2>. QED  BY <2>2, <2>3, <2>4
  <1>3. CASE k = "digest_ready"
    <2>1. n \in Fresh(notes, Queried.report, 2, two)
      BY <1>0, <1>3 DEF Fresh, Queried, Digests
    <2>2. CASE n \in a.report
      <3>1. Proposal("assemble_digest", k, n.day, n.by) \in Proposals(a, T)
        BY <1>3, <2>2 DEF FromDistribution, Proposals
      <3>2. Urgency(k) = ScoreOf("assemble_digest", k)
        BY <1>3, TopicsApart DEF Urgency, Digests
      <3>. QED  BY <3>1, <3>2, ScoreIsNat DEF Proposal
    <2>3. CASE n \notin a.report
      <3>1. Cardinality(AsNew(c, a.report)) = MaxReports
        BY <1>a, <2>1, <2>3, AnswersAreNotes, NotRead
      <3>. QED  BY <1>3, <3>1 DEF Crowded, Types, Queried, LimitOf, Digests
    <2>. QED  BY <2>2, <2>3
  <1>4. CASE k \in Drafts
    <2>1. n \in Fresh(notes, Queried.draft, 2, two)
      BY <1>0, <1>4 DEF Fresh, Queried
    <2>2. CASE n \in a.draft
      <3>. DEFINE act == IF k = "social_draft" THEN "assemble_social_post" ELSE "assemble_newsletter"
      <3>1. Proposal(act, k, n.day, n.by) \in Proposals(a, T)
        BY <1>4, <2>2 DEF FromDrafts, FromDistribution, Proposals
      <3>2. Urgency(k) = ScoreOf(act, k)
        BY <1>4, TopicsApart DEF Urgency, Drafts
      <3>. QED  BY <3>1, <3>2, ScoreIsNat DEF Proposal
    <2>3. CASE n \notin a.draft
      <3>1. Cardinality(AsNew(c, a.draft)) = MaxReports
        BY <1>a, <2>1, <2>3, AnswersAreNotes, NotRead
      <3>. QED  BY <1>4, <3>1 DEF Crowded, Types, Queried, LimitOf
    <2>. QED  BY <2>2, <2>3
  <1>. QED  BY <1>1, <1>2, <1>3, <1>4 DEF Heard

--------------------------------------------------------------------------------
(* As many as a plan holds *)

LEMMA ProposalsAreFinite ==
  ASSUME CycleTypeInv, NEW three \in BOOLEAN, NEW two \in BOOLEAN, NEW a \in Answers(three, two),
         NEW T \in Newest(Deduped(a.context), MaxTopics)
  PROVE  IsFiniteSet(Proposals(a, T)) /\ \A p \in Proposals(a, T) : p.score \in Nat
  <1>1. /\ a.flag \in SUBSET notes /\ T \in SUBSET notes
        /\ a.report \in SUBSET notes /\ a.draft \in SUBSET notes
    BY AnswersAreNotes DEF Newest, Some, Fresh, Deduped
  <1>2. /\ IsFiniteSet(a.flag) /\ IsFiniteSet(T)
        /\ IsFiniteSet({r \in a.report : r.kind = "digest_ready"})
        /\ IsFiniteSet({d \in a.draft : d.kind \in Drafts})
    <2>1. IsFiniteSet(notes)
      BY DEF CycleTypeInv, Shared
    <2>2. /\ {r \in a.report : r.kind = "digest_ready"} \in SUBSET notes
          /\ {d \in a.draft : d.kind \in Drafts} \in SUBSET notes
      BY <1>1
    <2>. QED  BY <1>1, <2>1, <2>2, FS_Subset
  <1>3. IsFiniteSet(FromFlags(a.flag))
    <2>. DEFINE S == a.flag
                f == [n \in S |-> Proposal(FlagAction(n.kind), n.kind, n.day, n.by)]
    <2>1. {f[x] : x \in S} = FromFlags(a.flag) /\ f = [x \in S |-> f[x]] /\ IsFiniteSet(S)
      BY <1>2 DEF FromFlags
    <2>. HIDE DEF f, S
    <2>. QED  BY <2>1, ImageIsFinite
  <1>4. IsFiniteSet(FromCandidates(T))
    <2>. DEFINE f == [n \in T |-> Proposal("route_to_writer", n.kind, 0, 0)]
    <2>1. {f[x] : x \in T} = FromCandidates(T) /\ f = [x \in T |-> f[x]]
      BY DEF FromCandidates
    <2>. HIDE DEF f
    <2>. QED  BY <1>2, <2>1, ImageIsFinite
  <1>5. IsFiniteSet(FromDistribution(a.report, a.draft))
    <2>. DEFINE S == {r \in a.report : r.kind = "digest_ready"}
                f == [n \in S |-> Proposal("assemble_digest", n.kind, n.day, n.by)]
                D == {d \in a.draft : d.kind \in Drafts}
                g == [n \in D |-> Proposal(IF n.kind = "social_draft" THEN "assemble_social_post"
                                           ELSE "assemble_newsletter", n.kind, n.day, n.by)]
                A == {f[x] : x \in S}
                B == {g[x] : x \in D}
    <2>1. /\ FromDistribution(a.report, a.draft) = A \cup B
          /\ f = [x \in S |-> f[x]] /\ g = [x \in D |-> g[x]]
          /\ IsFiniteSet(S) /\ IsFiniteSet(D)
      BY <1>2 DEF FromDistribution, FromDrafts
    <2>. HIDE DEF f, S, g, D
    <2>2. IsFiniteSet(A) /\ IsFiniteSet(B)
      BY <2>1, ImageIsFinite
    <2>. HIDE DEF A, B
    <2>. QED  BY <2>1, <2>2, FS_Union
  <1>6. \A p \in Proposals(a, T) : p.score \in Nat
    BY ScoreIsNat DEF Proposals, FromFlags, FromCandidates, FromDistribution, FromDrafts, Proposal
  <1>7. IsFiniteSet(FromFlags(a.flag) \cup FromCandidates(T))
    BY <1>3, <1>4, FS_Union
  <1>8. IsFiniteSet((FromFlags(a.flag) \cup FromCandidates(T)) \cup FromDistribution(a.report, a.draft))
    BY <1>5, <1>7, FS_Union
  <1>. QED  BY <1>6, <1>8 DEF Proposals

\* What is left out is left out of a full plan.
LEMMA LeftOut ==
  ASSUME NEW P, IsFiniteSet(P), NEW K \in Top(P), NEW p \in P, p \notin K
  PROVE  Cardinality(K) = MaxItems /\ K # {} /\ \A k \in K : p.score <= k.score
  <1>1. K \in Some(P, MaxItems) /\ \A k \in K : p.score <= k.score
    BY DEF Top
  <1>2. Cardinality(K) = MaxItems
    BY <1>1, SomeLeft, CycleAssumption
  <1>3. K # {}
    BY <1>2, FS_EmptySet, CycleAssumption
  <1>. QED  BY <1>1, <1>2, <1>3

LEMMA PlanOfTheDay ==
  ASSUME CycleTypeInv, Latest, NEW c \in CycleRuns, cyc[c].run = runs, KeptIsSeen(c), MakePlan(c)
  PROVE  PlanSeesTheDay'
  <1>1. PICK three \in BOOLEAN, two \in BOOLEAN : \E a \in Answers(three, two) :
          \E T \in Newest(Deduped(a.context), MaxTopics) : \E K : Planned(c, a, T, K)
    BY PlanIsMade
  <1>2. PICK a \in Answers(three, two) : \E T \in Newest(Deduped(a.context), MaxTopics) :
          \E K : Planned(c, a, T, K)
    BY <1>1
  <1>3. PICK T \in Newest(Deduped(a.context), MaxTopics) : \E K : Planned(c, a, T, K)
    BY <1>2
  <1>4. PICK K : Planned(c, a, T, K)
    BY <1>3
  <1>5. IsFiniteSet(Proposals(a, T)) /\ \A p \in Proposals(a, T) : p.score \in Nat
    BY ProposalsAreFinite
  <1>6. K \in Top(Proposals(a, T)) /\ K \in SUBSET Proposals(a, T)
    BY <1>4 DEF Planned, Top, Some
  <1>7. /\ latestPlan'.items = IF K = {} THEN {NothingToDo} ELSE K
        /\ latestPlan'.heard = cyc[c].kept
        /\ \A type \in Types : latestPlan'.read[type] = AsNew(c, a[type])
        /\ latestPlan'.topics = AsNew(c, T)
    BY <1>4 DEF Planned
  <1>8. ASSUME NEW k \in Warranted(cyc[c].kept)
        PROVE  \/ Crowded(c, a, T, k)
               \/ \E p \in Proposals(a, T) : p.kind = k /\ Urgency(k) <= p.score
    <2>1. k \in cyc[c].kept /\ k \in Heard
      BY DEF Warranted, KeptIsSeen, Heard
    <2>2. PICK n \in notes : n.kind = k /\ n.day = today /\ n.by = cyc[c].run
      BY <2>1 DEF KeptIsSeen
    <2>. QED  BY <2>1, <2>2, NewsIsProposed
  <1>9. \A k : Urgency(k) \in Nat
    BY ScoreIsNat DEF Urgency
  <1>10. ASSUME NEW k \in Warranted(cyc[c].kept)
         PROVE  \/ \E i \in latestPlan'.items : i.kind = k
                \/ /\ Cardinality(latestPlan'.items) = MaxItems
                   /\ \A i \in latestPlan'.items : Urgency(k) <= i.score
                \/ \E type \in Types : /\ k \in Queried[type]
                                       /\ Cardinality(latestPlan'.read[type]) = LimitOf(type)
                \/ k \in Topics /\ Cardinality(latestPlan'.topics) = MaxTopics
    <2>1. CASE Crowded(c, a, T, k)
      BY <1>7, <2>1 DEF Crowded
    <2>2. ASSUME NEW p \in Proposals(a, T), p.kind = k, Urgency(k) <= p.score
          PROVE  \/ \E i \in latestPlan'.items : i.kind = k
                 \/ /\ Cardinality(latestPlan'.items) = MaxItems
                    /\ \A i \in latestPlan'.items : Urgency(k) <= i.score
      <3>1. CASE p \in K
        BY <1>7, <2>2, <3>1
      <3>2. CASE p \notin K
        <4>1. Cardinality(K) = MaxItems /\ K # {} /\ \A i \in K : p.score <= i.score
          BY <1>5, <1>6, <3>2, LeftOut
        <4>2. latestPlan'.items = K
          BY <1>7, <4>1
        <4>3. \A i \in K : Urgency(k) <= i.score
          BY <1>5, <1>6, <1>9, <2>2, <4>1
        <4>. QED  BY <4>1, <4>2, <4>3
      <3>. QED  BY <3>1, <3>2
    <2>. QED  BY <1>8, <2>1, <2>2
  <1>11. Warranted(latestPlan.heard)' = Warranted(cyc[c].kept) /\ \A k : Urgency(k)' = Urgency(k)
    BY <1>7 DEF Warranted, Urgency
  <1>. QED  BY <1>7, <1>10, <1>11 DEF PlanSeesTheDay

--------------------------------------------------------------------------------
(* The step *)

LEMMA NothingKept ==
  ASSUME NEW c, cyc'[c].kept = {}
  PROVE  KeptIsSeen(c)'
  BY DEF KeptIsSeen

\* One run moves, the day's notes of it are added.
LEMMA LatestStays ==
  ASSUME Latest, NEW c \in CycleRuns, \A d \in CycleRuns : d # c => cyc'[d] = cyc[d],
         UNCHANGED <<today, runs>>, \A n \in notes' \ notes : n.day <= today /\ n.by <= runs,
         cyc'[c].at # 0 => cyc'[c].run = runs
  PROVE  Latest'
  <1>1. ASSUME NEW d \in CycleRuns, cyc'[d].at # 0 PROVE cyc'[d].run = runs
    BY <1>1 DEF Latest
  <1>. QED  BY <1>1 DEF Latest

\* One run moves, notes are added, and the plan stays.
LEMMA DayStays ==
  ASSUME DayInv, ~cycOverlapped, NEW c \in CycleRuns,
         \A d \in CycleRuns : d # c => cyc'[d] = cyc[d],
         notes \subseteq notes', UNCHANGED <<today, latestPlan>>, KeptIsSeen(c)', Latest'
  PROVE  DayInv'
  <1>1. ASSUME NEW d \in CycleRuns, d # c PROVE KeptIsSeen(d)'
    BY <1>1 DEF DayInv, KeptIsSeen, ReadyFound
  <1>2. PlanSeesTheDay \/ cycOverlapped
    BY DEF DayInv
  <1>3. latestPlan' = latestPlan
    OBVIOUS
  <1>4. Warranted(latestPlan.heard)' = Warranted(latestPlan.heard) /\ \A k : Urgency(k)' = Urgency(k)
    BY <1>3 DEF Warranted, Urgency
  <1>5. PlanSeesTheDay'
    BY <1>2, <1>3, <1>4 DEF PlanSeesTheDay
  <1>. QED  BY <1>1, <1>5 DEF DayInv

LEMMA DayGather ==
  ASSUME CycleTypeInv, Tidy, DayInv, ~cycOverlapped, NEW c \in CycleRuns,
         NEW kinds, NEW n, NEW f, Gathers(c, kinds, n, f)
  PROVE  DayInv'
  <1>1. Persisted(c, kinds, n, f)
    BY GatherIsTidy
  <1>2. /\ cyc'[c].kept = cyc[c].kept /\ cyc'[c].at = cyc[c].at
        /\ cyc'[c].found = cyc[c].found \cup Noted(c, kinds)
        /\ UNCHANGED <<notes, today, latestPlan, runs>> /\ cyc'[c].run = cyc[c].run
    BY <1>1 DEF Persisted, OnlyRun, Rest
  <1>3. KeptIsSeen(c) /\ Latest
    BY DEF DayInv
  <1>4. ASSUME "sessions_daily" \in cyc[c].kept, NEW m \in cyc'[c].found, m.kind \in Digests
        PROVE  ReadyFound(c)'
    <2>1. CASE m \in cyc[c].found
      BY <1>2, <1>3, <1>4, <2>1 DEF KeptIsSeen, ReadyFound
    <2>2. CASE m \in Noted(c, kinds)
      <3>1. m.kind \in kinds
        BY <2>2 DEF Noted
      <3>2. PICK late \in BOOLEAN :
              "digest_ready" \in kinds <=> Fresh(Visible(c), {"sessions_daily"}, 2, late) # {}
        BY <1>4, <3>1 DEF Gathers, ReadsWell
      <3>3. PICK s \in notes : s.kind = "sessions_daily" /\ s.day = today
        BY <1>3, <1>4 DEF KeptIsSeen
      <3>4. s \in Fresh(Visible(c), {"sessions_daily"}, 2, late)
        <4>1. today - s.day < 2
          BY <3>3, NoteFields
        <4>. QED  BY <3>3, <4>1 DEF Fresh, Visible
      <3>5. [kind |-> "digest_ready", day |-> today, by |-> cyc[c].run] \in Noted(c, kinds)
        BY <3>2, <3>4 DEF Noted
      <3>. QED  BY <1>2, <3>5 DEF ReadyFound
    <2>. QED  BY <1>2, <1>4, <2>1, <2>2
  <1>5. KeptIsSeen(c)'
    BY <1>2, <1>3, <1>4 DEF KeptIsSeen
  <1>6. \A d \in CycleRuns : d # c => cyc'[d] = cyc[d]
    BY <1>1 DEF Persisted, OnlyRun
  <1>7. Latest'
    BY <1>2, <1>3, <1>6, LatestStays DEF Latest
  <1>. QED  BY <1>2, <1>5, <1>6, <1>7, DayStays

LEMMA DayCommit ==
  ASSUME CycleTypeInv, Tidy, DayInv, ~cycOverlapped, NEW c \in CycleRuns, CommitAgent(c)
  PROVE  DayInv'
  <1>. DEFINE F == {n.kind : n \in cyc[c].found}
  <1>1. /\ AtWork(c) /\ cyc' = [cyc EXCEPT ![c] = NextAgent(c, F)]
        /\ notes' = notes \cup cyc[c].found /\ UNCHANGED <<today, latestPlan, runs>>
    BY DEF CommitAgent
  <1>2. F \in SUBSET NoteKinds
    BY KindsOfFound
  <1>3. \A k \in F : \E n \in cyc[c].found : n.kind = k
    OBVIOUS
  <1>4. \A n \in cyc[c].found : n.kind \in F
    OBVIOUS
  <1>. HIDE DEF F
  <1>5. /\ cyc[c].at \in 1 .. 6 /\ Following(cyc[c].at) \in cyc[c].at + 1 .. 7
        /\ Begun(cyc'[c], Following(cyc[c].at), cyc[c].run, cyc[c].kept \cup F)
        /\ \A d \in CycleRuns : d # c => cyc'[d] = cyc[d]
    BY <1>1, <1>2, AgentEnds
  <1>6. /\ cyc'[c].kept = cyc[c].kept \cup F /\ cyc'[c].found = {}
        /\ cyc'[c].at = Following(cyc[c].at) /\ cyc'[c].run = cyc[c].run
    BY <1>5 DEF Begun
  <1>7. KeptIsSeen(c) /\ Latest
    BY DEF DayInv
  <1>8. cyc[c].kept \cap Digests = {}
    BY <1>5, <1>7 DEF KeptIsSeen
  <1>9. ASSUME NEW k \in cyc[c].kept \cup F PROVE \E n \in notes' : /\ n.kind = k /\ n.day = today'
                                                                       /\ n.by = cyc'[c].run
    <2>1. CASE k \in cyc[c].kept
      BY <1>1, <1>6, <1>7, <2>1 DEF KeptIsSeen
    <2>2. CASE k \in F
      BY <1>1, <1>3, <1>6, <2>2 DEF Tidy
    <2>. QED  BY <2>1, <2>2
  <1>10. ASSUME (cyc[c].kept \cup F) \cap Digests # {}
         PROVE  /\ cyc[c].at = 6 /\ Following(cyc[c].at) = 7
                /\ "sessions_daily" \notin F
                /\ \E n \in cyc[c].found : n.kind \in Digests
    <2>1. PICK n \in cyc[c].found : n.kind \in Digests
      BY <1>3, <1>8, <1>10
    <2>2. cyc[c].at = 6
      BY <2>1 DEF Tidy
    <2>3. "sessions_daily" \notin F
      BY <1>3, <2>2 DEF Tidy
    <2>4. Following(cyc[c].at) = 7
      BY <1>5, <2>2
    <2>. QED  BY <2>1, <2>2, <2>3, <2>4
  <1>11. ASSUME "sessions_daily" \in cyc[c].kept \cup F, (cyc[c].kept \cup F) \cap Digests # {}
         PROVE  "digest_ready" \in cyc[c].kept \cup F
    <2>1. ReadyFound(c)
      BY <1>7, <1>10, <1>11 DEF KeptIsSeen
    <2>. QED  BY <1>4, <2>1 DEF ReadyFound
  <1>12. KeptIsSeen(c)'
    BY <1>6, <1>9, <1>10, <1>11 DEF KeptIsSeen
  <1>13. cyc[c].run = runs
    BY <1>5, <1>7 DEF Latest
  <1>14. \A n \in notes' \ notes : n.day <= today /\ n.by <= runs
    BY <1>1, <1>13, NoteFields DEF Tidy
  <1>15. Latest'
    BY <1>1, <1>5, <1>6, <1>7, <1>13, <1>14, LatestStays
  <1>. QED  BY <1>1, <1>5, <1>12, <1>15, DayStays

LEMMA DayStep == CycleTypeInv /\ Tidy /\ Single /\ DayInv /\ [CycleNext]_cycleVars => DayInv'
  <1>. SUFFICES ASSUME CycleTypeInv, Tidy, Single, DayInv, [CycleNext]_cycleVars, ~cycOverlapped'
                PROVE  DayInv'
    BY DEF DayInv
  <1>0. /\ CycleTypeOK /\ ~cycOverlapped /\ PlanSeesTheDay /\ Latest
        /\ \A c \in CycleRuns : KeptIsSeen(c)
    BY CycleTyped, OverlapStays DEF DayInv
  <1>p. ASSUME latestPlan' = latestPlan PROVE PlanSeesTheDay'
    <2>1. Warranted(latestPlan.heard)' = Warranted(latestPlan.heard) /\ \A k : Urgency(k)' = Urgency(k)
      BY <1>p DEF Warranted, Urgency
    <2>. QED  BY <1>0, <1>p, <2>1 DEF PlanSeesTheDay
  <1>1. CASE UNCHANGED <<cyc, notes, today, latestPlan, runs>>
    BY <1>0, <1>1, <1>p DEF DayInv, KeptIsSeen, ReadyFound, Latest
  <1>2. ASSUME NEW c \in CycleRuns, BeginCycle(c) PROVE DayInv'
    <2>1. /\ \A d \in CycleRuns : d # c => cyc'[d] = cyc[d]
          /\ Begun(cyc'[c], Following(0), runs + 1, {}) /\ UNCHANGED latestPlan
      BY <1>0, <1>2, BeginCycleBegins
    <2>2. Running = {}
      BY <1>2 DEF BeginCycle
    <2>3. ASSUME NEW d \in CycleRuns PROVE cyc'[d].kept = {}
      BY <2>1, <2>2, IdleIsNoCycle, NoCycleFields DEF Running, Begun
    <2>4. \A d \in CycleRuns : KeptIsSeen(d)'
      BY <2>3, NothingKept
    <2>5. /\ notes' \in SUBSET notes /\ runs' = runs + 1 /\ today' = today
          /\ runs \in Nat /\ \A n \in notes : n.by \in Nat
      BY <1>2, NoteFields, CycleAssumption DEF BeginCycle, CycleTypeInv, Shared
    <2>6. ASSUME NEW d \in CycleRuns, cyc'[d].at # 0 PROVE cyc'[d].run = runs'
      <3>1. d = c
        BY <2>1, <2>2, <2>6 DEF Running
      <3>. QED  BY <2>1, <2>5, <3>1 DEF Begun
    <2>7. Latest'
      BY <1>0, <2>5, <2>6 DEF Latest
    <2>. QED  BY <1>p, <2>1, <2>4, <2>7 DEF DayInv
  <1>3. ASSUME NEW c \in CycleRuns, NEW kinds, NEW n, NEW f, Gathers(c, kinds, n, f) PROVE DayInv'
    BY <1>0, <1>3, DayGather
  <1>4. ASSUME NEW c \in CycleRuns, NEW table \in Tables,
               StartRefresh(c, table) \/ FinishRefresh(c, table)
        PROVE  DayInv'
    <2>1. /\ OnlyRun(c) /\ cyc'[c].found = cyc[c].found /\ cyc'[c].kept = cyc[c].kept
          /\ cyc'[c].at = cyc[c].at /\ cyc'[c].run = cyc[c].run
      <3>1. CASE StartRefresh(c, table)
        BY <1>0, <3>1, StartRefreshWrites DEF RefreshStarted
      <3>2. CASE FinishRefresh(c, table)
        BY <1>0, <3>2, RefreshStaysTyped, FinishRefreshWrites DEF RefreshFinished
      <3>. QED  BY <1>4, <3>1, <3>2
    <2>2. KeptIsSeen(c)'
      BY <1>0, <2>1 DEF KeptIsSeen, ReadyFound, OnlyRun, Rest
    <2>3. /\ UNCHANGED <<notes, today, latestPlan, runs>>
          /\ \A d \in CycleRuns : d # c => cyc'[d] = cyc[d]
      BY <2>1 DEF OnlyRun, Rest
    <2>4. Latest'
      BY <1>0, <2>1, <2>3, LatestStays DEF Latest
    <2>. QED  BY <1>0, <2>2, <2>3, <2>4, DayStays
  <1>5. ASSUME NEW c \in CycleRuns, FailAgent(c) PROVE DayInv'
    <2>1. AtWork(c) /\ {} \in SUBSET NoteKinds /\ cyc' = [cyc EXCEPT ![c] = NextAgent(c, {})]
          /\ UNCHANGED <<notes, today, latestPlan, runs>>
      BY <1>5 DEF FailAgent, Rest
    <2>2. /\ Begun(cyc'[c], Following(cyc[c].at), cyc[c].run, cyc[c].kept \cup {})
          /\ \A d \in CycleRuns : d # c => cyc'[d] = cyc[d]
          /\ cyc[c].at \in 1 .. 6
      BY <2>1, AgentEnds
    <2>3. cyc[c].kept \cap Digests = {}
      BY <1>0, <2>2 DEF KeptIsSeen
    <2>4. cyc'[c].kept = cyc[c].kept /\ cyc'[c].found = {} /\ cyc'[c].run = cyc[c].run
      BY <2>2 DEF Begun
    <2>5. KeptIsSeen(c)'
      BY <1>0, <2>1, <2>3, <2>4 DEF KeptIsSeen
    <2>6. Latest'
      BY <1>0, <2>1, <2>2, <2>4, LatestStays DEF Latest
    <2>. QED  BY <1>0, <2>1, <2>2, <2>5, <2>6, DayStays
  <1>6. ASSUME NEW c \in CycleRuns, AbandonCycle(c) PROVE DayInv'
    <2>1. cyc' = [cyc EXCEPT ![c] = NoCycle] /\ UNCHANGED <<notes, today, latestPlan, runs>>
      BY <1>6 DEF AbandonCycle, Rest
    <2>2. cyc'[c] = NoCycle /\ \A d \in CycleRuns : d # c => cyc'[d] = cyc[d]
      BY <2>1, RunEnds
    <2>3. Latest'
      BY <1>0, <2>1, <2>2, NoCycleFields, LatestStays
    <2>. QED  BY <1>0, <2>1, <2>2, <2>3, NoCycleFields, NothingKept, DayStays
  <1>7. ASSUME NEW c \in CycleRuns, MakePlan(c) PROVE DayInv'
    <2>1. cyc' = [cyc EXCEPT ![c] = NoCycle] /\ UNCHANGED <<notes, today, runs>>
          /\ cyc[c].at # 0
      BY <1>7, SixAgents DEF MakePlan
    <2>2. cyc'[c] = NoCycle /\ \A d \in CycleRuns : d # c => cyc'[d] = cyc[d]
      BY <2>1, RunEnds
    <2>3. ASSUME NEW d \in CycleRuns PROVE KeptIsSeen(d)'
      <3>1. CASE d = c
        BY <2>2, <3>1, NoCycleFields, NothingKept
      <3>2. CASE d # c
        BY <1>0, <2>1, <2>2, <3>2 DEF KeptIsSeen, ReadyFound
      <3>. QED  BY <3>1, <3>2
    <2>4. PlanSeesTheDay'
      BY <1>0, <1>7, <2>1, PlanOfTheDay DEF Latest
    <2>5. Latest'
      BY <1>0, <2>1, <2>2, NoCycleFields, LatestStays
    <2>. QED  BY <2>3, <2>4, <2>5 DEF DayInv
  <1>8. ASSUME NEW c \in CycleRuns, CommitAgent(c) PROVE DayInv'
    BY <1>0, <1>8, DayCommit
  <1>9. ASSUME NEW kind \in Feeders, Feed(kind) PROVE DayInv'
    <2>1. /\ notes' = notes \cup {[kind |-> kind, day |-> today, by |-> 0]}
          /\ UNCHANGED <<cyc, today, latestPlan, runs>>
      BY <1>9 DEF Feed
    <2>2. \A d \in CycleRuns : KeptIsSeen(d)'
      BY <1>0, <2>1 DEF KeptIsSeen, ReadyFound
    <2>3. Latest'
      BY <1>0, <2>1, NoteFields DEF Latest, CycleTypeInv, Shared
    <2>. QED  BY <1>p, <2>1, <2>2, <2>3 DEF DayInv
  <1>10. CASE Tomorrow
    <2>1. Running = {} /\ UNCHANGED <<cyc, latestPlan, runs>>
          /\ notes' \in SUBSET notes /\ today' = today + 1
      BY <1>10 DEF Tomorrow
    <2>2. \A d \in CycleRuns : cyc'[d].kept = {}
      BY <2>1, IdleIsNoCycle, NoCycleFields DEF Running
    <2>3. Latest'
      BY <1>0, <2>1, NoteFields DEF Latest
    <2>. QED  BY <1>p, <2>1, <2>2, <2>3, NothingKept DEF DayInv
  <1>11. TopArticles \/ UNCHANGED cycleVars => UNCHANGED <<cyc, notes, today, latestPlan, runs>>
    BY DEF TopArticles, cycleVars
  <1>12. CASE CycleNext
    BY <1>0, <1>1, <1>2, <1>3, <1>4, <1>5, <1>6, <1>7, <1>8, <1>9, <1>10, <1>11, <1>12, StepsOfCycle
    DEF CycleSteps
  <1>. QED  BY <1>1, <1>11, <1>12

\* What the agents of a cycle found and committed is proposed the same morning, or left out of
\* a full plan for what scores at least as much, or of an answer or of the topics of a plan for
\* what is as new, as long as cycles do not overlap.
THEOREM PlanSeesAll == CycleSpec => []PlanSeesTheDay
  <1>1. CycleInit => DayInv
    <2>. SUFFICES ASSUME CycleInit
                  PROVE  PlanSeesTheDay /\ Latest /\ \A c \in CycleRuns : KeptIsSeen(c)
      BY DEF DayInv
    <2>1. latestPlan.heard = {} /\ notes = {} /\ \A c \in CycleRuns : cyc[c].kept = {} /\ cyc[c].at = 0
      BY NoCycleFields DEF CycleInit, NoPlan
    <2>2. Warranted(latestPlan.heard) = {}
      BY <2>1 DEF Warranted
    <2>. QED  BY <2>1, <2>2 DEF PlanSeesTheDay, KeptIsSeen, Latest
  <1>2. CycleTypeInv /\ DayInv => PlanSeesTheDay
    BY DEF DayInv, PlanSeesTheDay
  <1>. QED  BY <1>1, <1>2, CycleTypeInvariant, TidyInvariant, SingleInvariant, DayStep, PTL
            DEF CycleSpec
================================================================================
