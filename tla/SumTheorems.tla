---------------------------- MODULE SumTheorems ----------------------------
(***************************************************************************)
(* Facts about sums over finite sets (SumFunctionOnSet of module           *)
(* Functions), for the proofs about volumes and money: what is under way   *)
(* or not yet counted is such a sum.  A sum is defined by recursion over   *)
(* subsets; the induction is the existence of a minimal counterexample     *)
(* (WFMin), stated for sets.  The sum over a sequence is that over its     *)
(* places: one more at the end, one less at the front.                     *)
(***************************************************************************)
EXTENDS Integers, Sequences, FiniteSets, Functions, FiniteSetTheorems, TLAPS

(* A set of finite subsets has a minimal member. *)
LEMMA MinimalSubset ==
  ASSUME NEW S, IsFiniteSet(S), NEW D, D \subseteq SUBSET S, D # {}
  PROVE  \E T \in D : \A U \in D : U \subseteq T => U = T
<1>1. IsWellFoundedOn(StrictSubsetOrdering(S), SUBSET S)
  BY FS_StrictSubsetOrderingWellFounded, FS_FiniteSubsetsOfFinite
<1>2. PICK T \in D : \A U \in D : ~(<<U, T>> \in StrictSubsetOrdering(S))
  BY <1>1, WFMin
<1>3. ASSUME NEW U \in D, U \subseteq T
      PROVE  U = T
  <2>1. U \in SUBSET S /\ T \in SUBSET S
    OBVIOUS
  <2> QED
    BY <1>2, <1>3, <2>1 DEF StrictSubsetOrdering
<1> QED
  BY <1>3

-----------------------------------------------------------------------------
(* The recursion of SumFunctionOnSet. *)
One(s) == CHOOSE x \in s : TRUE
Step(f, s, g) == IF s = {} THEN 0 ELSE f[One(s)] + g[s \ {One(s)}]
IsIter(f, S, g) == g = [s \in SUBSET S |-> Step(f, s, g)]

(* A sum is the value of the iteration over the subsets. *)
LEMMA SumDef ==
  ASSUME NEW f, NEW S
  PROVE  SumFunctionOnSet(f, S) = (CHOOSE g : IsIter(f, S, g))[S]
BY DEF SumFunctionOnSet, FoldFunctionOnSet, MapThenFoldSet, IsIter, Step, One

(* A set that is not empty has the element that is chosen. *)
LEMMA OneIn ==
  ASSUME NEW s, s # {}
  PROVE  One(s) \in s
BY DEF One

(* Two functions that follow the recursion agree on the subsets of both. *)
LEMMA IterUnique ==
  ASSUME NEW f, NEW S, IsFiniteSet(S), NEW g, IsIter(f, S, g),
         NEW T, T \subseteq S, NEW h, IsIter(f, T, h)
  PROVE  h[T] = g[T]
<1> DEFINE D == {u \in SUBSET T : h[u] # g[u]}
<1>1. SUFFICES D = {}
  OBVIOUS
<1>2. SUFFICES ASSUME D # {}
               PROVE  FALSE
  OBVIOUS
<1>3. IsFiniteSet(T)
  BY FS_Subset
<1>4. PICK u \in D : \A v \in D : v \subseteq u => v = u
  <2> HIDE DEF D
  <2>1. D \subseteq SUBSET T
    BY DEF D
  <2> QED
    BY <1>2, <1>3, <2>1, MinimalSubset
<1>5. u \in SUBSET T /\ u \in SUBSET S /\ h[u] # g[u]
  OBVIOUS
<1>6. h[u] = Step(f, u, h) /\ g[u] = Step(f, u, g)
  BY <1>5 DEF IsIter
<1>7. u # {}
  BY <1>5, <1>6 DEF Step
<1> DEFINE v == u \ {One(u)}
<1>8. v \subseteq u /\ v # u /\ v \in SUBSET T
  BY <1>5, <1>7, OneIn
<1>9. h[v] = g[v]
  BY <1>4, <1>8
<1> QED
  BY <1>5, <1>6, <1>7, <1>9 DEF Step

(* There is a function that follows the recursion. *)
LEMMA IterExists ==
  ASSUME NEW f, NEW S, IsFiniteSet(S)
  PROVE  \E g : IsIter(f, S, g)
<1> DEFINE D == {T \in SUBSET S : ~ \E g : IsIter(f, T, g)}
<1>1. SUFFICES ASSUME D # {}
               PROVE  FALSE
  OBVIOUS
<1>2. PICK T \in D : \A U \in D : U \subseteq T => U = T
  <2> HIDE DEF D
  <2>1. D \subseteq SUBSET S
    BY DEF D
  <2> QED
    BY <1>1, <2>1, MinimalSubset
<1>3. T \in SUBSET S /\ ~ \E g : IsIter(f, T, g)
  OBVIOUS
<1>4. \A U \in SUBSET T : U # T => \E g : IsIter(f, U, g)
  BY <1>2, <1>3
<1> DEFINE own(U) == (CHOOSE h : IsIter(f, U, h))[U]
           top == IF T = {} THEN 0
                  ELSE f[One(T)] + own(T \ {One(T)})
           g == [U \in SUBSET T |-> IF U = T THEN top ELSE own(U)]
<1>5. \A U \in SUBSET T : IsFiniteSet(U)
  BY <1>3, FS_Subset
<1>6. ASSUME NEW U \in SUBSET T, U # T
      PROVE  own(U) = IF U = {} THEN 0
                      ELSE f[One(U)] + own(U \ {One(U)})
  <2>1. PICK h : IsIter(f, U, h) /\ h = CHOOSE k : IsIter(f, U, k)
    BY <1>4, <1>6
  <2>2. own(U) = Step(f, U, h)
    BY <2>1 DEF IsIter
  <2>3. CASE U = {}
    BY <2>2, <2>3 DEF Step
  <2>4. CASE U # {}
    <3> DEFINE V == U \ {One(U)}
    <3>1. V \in SUBSET T /\ V # T /\ V \subseteq U
      BY <1>6, <2>4, OneIn
    <3>2. PICK k : IsIter(f, V, k) /\ k = CHOOSE j : IsIter(f, V, j)
      BY <1>4, <3>1
    <3>3. k[V] = h[V]
      BY <1>5, <2>1, <3>1, <3>2, IterUnique
    <3> QED
      BY <2>2, <2>4, <3>2, <3>3 DEF Step
  <2> QED
    BY <2>3, <2>4
<1>7. ASSUME NEW U \in SUBSET T
      PROVE  g[U] = Step(f, U, g)
  <2>1. CASE U = {}
    <3>1. g[U] = 0
      BY <1>6, <2>1
    <3> QED
      BY <2>1, <3>1 DEF Step
  <2>2. CASE U # {}
    <3> DEFINE V == U \ {One(U)}
    <3>1. V \in SUBSET T /\ V # T
      BY <2>2, OneIn
    <3>2. g[V] = own(V)
      BY <3>1
    <3>3. g[U] = f[One(U)] + own(V)
      BY <1>6, <2>2
    <3> QED
      BY <2>2, <3>2, <3>3 DEF Step
  <2> QED
    BY <2>1, <2>2
<1>8. IsIter(f, T, g)
  <2> HIDE DEF top, own
  <2>1. g = [U \in SUBSET T |-> g[U]]
    OBVIOUS
  <2> HIDE DEF g
  <2> QED
    BY <1>7, <2>1 DEF IsIter
<1> QED
  BY <1>3, <1>8

(* The sum, one element at a time. *)
LEMMA SumRec ==
  ASSUME NEW f, NEW S, IsFiniteSet(S)
  PROVE  SumFunctionOnSet(f, S) =
           IF S = {} THEN 0
           ELSE f[One(S)] + SumFunctionOnSet(f, S \ {One(S)})
<1>1. PICK g : IsIter(f, S, g) /\ g = CHOOSE h : IsIter(f, S, h)
  BY IterExists
<1>2. SumFunctionOnSet(f, S) = g[S] /\ g[S] = Step(f, S, g)
  BY <1>1, SumDef DEF IsIter
<1>3. CASE S = {}
  BY <1>2, <1>3 DEF Step
<1>4. CASE S # {}
  <2> DEFINE T == S \ {One(S)}
  <2>1. T \subseteq S /\ IsFiniteSet(T)
    BY FS_Subset
  <2>2. PICK k : IsIter(f, T, k) /\ k = CHOOSE h : IsIter(f, T, h)
    BY <2>1, IterExists
  <2>3. SumFunctionOnSet(f, T) = g[T]
    BY <1>1, <2>1, <2>2, IterUnique, SumDef
  <2> QED
    BY <1>2, <1>4, <2>3 DEF Step
<1> QED
  BY <1>3, <1>4

-----------------------------------------------------------------------------
(* What the other modules use: f is summed over a finite set S. *)

(* Nothing is summed up to zero. *)
LEMMA SumEmpty ==
  ASSUME NEW f
  PROVE  SumFunctionOnSet(f, {}) = 0
BY SumRec, FS_EmptySet

(* A sum of integers is an integer. *)
LEMMA SumType ==
  ASSUME NEW S, IsFiniteSet(S), NEW f, \A x \in S : f[x] \in Int
  PROVE  SumFunctionOnSet(f, S) \in Int
<1> DEFINE D == {T \in SUBSET S : SumFunctionOnSet(f, T) \notin Int}
<1>1. SUFFICES ASSUME D # {}
               PROVE  FALSE
  BY DEF D
<1>2. PICK T \in D : \A U \in D : U \subseteq T => U = T
  <2> HIDE DEF D
  <2>1. D \subseteq SUBSET S
    BY DEF D
  <2> QED
    BY <1>1, <2>1, MinimalSubset
<1>3. T \in SUBSET S /\ IsFiniteSet(T) /\ SumFunctionOnSet(f, T) \notin Int
  BY FS_Subset
<1>4. T # {}
  BY <1>3, SumEmpty
<1> DEFINE U == T \ {One(T)}
<1>5. U \subseteq T /\ U # T /\ U \in SUBSET S /\ One(T) \in S
  BY <1>3, <1>4, OneIn
<1>6. SumFunctionOnSet(f, U) \in Int
  BY <1>2, <1>5
<1>7. SumFunctionOnSet(f, T) = f[One(T)] + SumFunctionOnSet(f, U)
  BY <1>3, <1>4, SumRec
<1> QED
  BY <1>3, <1>5, <1>6, <1>7

(* Any element may be the one that is taken out. *)
LEMMA SumTake ==
  ASSUME NEW S, IsFiniteSet(S), NEW f, \A x \in S : f[x] \in Int,
         NEW e \in S
  PROVE  SumFunctionOnSet(f, S) = f[e] + SumFunctionOnSet(f, S \ {e})
<1> DEFINE Sm(T) == SumFunctionOnSet(f, T)
           D == {T \in SUBSET S : \E x \in T : Sm(T) # f[x] + Sm(T \ {x})}
<1>1. SUFFICES ASSUME D # {}
               PROVE  FALSE
  BY DEF D
<1>2. PICK T \in D : \A U \in D : U \subseteq T => U = T
  <2> HIDE DEF D
  <2>1. D \subseteq SUBSET S
    BY DEF D
  <2> QED
    BY <1>1, <2>1, MinimalSubset
<1>3. T \in SUBSET S /\ IsFiniteSet(T)
  BY FS_Subset
<1>4. PICK x \in T : Sm(T) # f[x] + Sm(T \ {x})
  OBVIOUS
<1> DEFINE o == One(T)
           U == T \ {o}
           V == T \ {x}
           W == U \ {x}
<1>5. o \in T /\ Sm(T) = f[o] + Sm(U)
  BY <1>3, OneIn, SumRec
<1>6. x # o
  BY <1>4, <1>5
<1>7. /\ U \in SUBSET S /\ V \in SUBSET S /\ W \in SUBSET S
      /\ U \subseteq T /\ U # T /\ V \subseteq T /\ V # T
      /\ x \in U /\ o \in V /\ V \ {o} = W
  BY <1>3, <1>5, <1>6
<1>8. Sm(U) = f[x] + Sm(W) /\ Sm(V) = f[o] + Sm(W)
  <2> HIDE DEF Sm, W
  <2>1. U \notin D /\ V \notin D
    BY <1>2, <1>7
  <2>2. U \ {x} = W
    BY DEF W
  <2> QED
    BY <1>7, <2>1, <2>2
<1>9. f[x] \in Int /\ f[o] \in Int /\ Sm(W) \in Int
  <2>1. IsFiniteSet(W) /\ \A y \in W : f[y] \in Int
    BY <1>7, FS_Subset
  <2>2. Sm(W) \in Int
    BY <2>1, SumType
  <2> QED
    BY <1>3, <1>5, <2>2
<1> QED
  <2> HIDE DEF Sm, U, V, W, o
  <2>1. Sm(T) = f[o] + (f[x] + Sm(W))
    BY <1>5, <1>8
  <2>2. f[x] + Sm(V) = f[x] + (f[o] + Sm(W))
    BY <1>8
  <2>3. Sm(T) # f[x] + Sm(V)
    BY <1>4 DEF V
  <2> QED
    BY <1>9, <2>1, <2>2, <2>3

(* One more element. *)
LEMMA SumAdd ==
  ASSUME NEW S, IsFiniteSet(S), NEW e, e \notin S,
         NEW f, \A x \in S \cup {e} : f[x] \in Int
  PROVE  SumFunctionOnSet(f, S \cup {e}) = SumFunctionOnSet(f, S) + f[e]
<1>1. IsFiniteSet(S \cup {e}) /\ (S \cup {e}) \ {e} = S
  BY FS_AddElement
<1>2. SumFunctionOnSet(f, S \cup {e}) = f[e] + SumFunctionOnSet(f, S)
  BY <1>1, SumTake
<1>3. SumFunctionOnSet(f, S) \in Int
  BY SumType
<1> QED
  BY <1>2, <1>3

(* Only the values on the set count. *)
LEMMA SumSame ==
  ASSUME NEW S, IsFiniteSet(S), NEW f, NEW g, \A x \in S : f[x] = g[x]
  PROVE  SumFunctionOnSet(f, S) = SumFunctionOnSet(g, S)
<1> DEFINE D == {T \in SUBSET S :
                   SumFunctionOnSet(f, T) # SumFunctionOnSet(g, T)}
<1>1. SUFFICES ASSUME D # {}
               PROVE  FALSE
  BY DEF D
<1>2. PICK T \in D : \A U \in D : U \subseteq T => U = T
  <2> HIDE DEF D
  <2>1. D \subseteq SUBSET S
    BY DEF D
  <2> QED
    BY <1>1, <2>1, MinimalSubset
<1>3. /\ T \in SUBSET S /\ IsFiniteSet(T)
      /\ SumFunctionOnSet(f, T) # SumFunctionOnSet(g, T)
  BY FS_Subset
<1>4. T # {}
  BY <1>3, SumEmpty
<1> DEFINE U == T \ {One(T)}
<1>5. U \subseteq T /\ U # T /\ U \in SUBSET S /\ One(T) \in S
  BY <1>3, <1>4, OneIn
<1>6. SumFunctionOnSet(f, U) = SumFunctionOnSet(g, U)
  BY <1>2, <1>5
<1>7. /\ SumFunctionOnSet(f, T) = f[One(T)] + SumFunctionOnSet(f, U)
      /\ SumFunctionOnSet(g, T) = g[One(T)] + SumFunctionOnSet(g, U)
  BY <1>3, <1>4, SumRec
<1> QED
  BY <1>3, <1>5, <1>6, <1>7

(* One value changes. *)
LEMMA SumChange ==
  ASSUME NEW S, IsFiniteSet(S), NEW e \in S,
         NEW f, \A x \in S : f[x] \in Int,
         NEW g, \A x \in S : x # e => g[x] = f[x], g[e] \in Int
  PROVE  SumFunctionOnSet(g, S) = SumFunctionOnSet(f, S) - f[e] + g[e]
<1> DEFINE R == S \ {e}
<1>1. IsFiniteSet(R)
  BY FS_Subset
<1>2. SumFunctionOnSet(f, S) = f[e] + SumFunctionOnSet(f, R)
  BY SumTake
<1>3. \A x \in S : g[x] \in Int
  OBVIOUS
<1>4. SumFunctionOnSet(g, S) = g[e] + SumFunctionOnSet(g, R)
  BY <1>3, SumTake
<1>5. SumFunctionOnSet(f, R) = SumFunctionOnSet(g, R)
  BY <1>1, SumSame
<1>6. SumFunctionOnSet(f, R) \in Int
  BY <1>1, SumType
<1> QED
  BY <1>2, <1>4, <1>5, <1>6

(* A sum of natural numbers is one, and none of them is larger. *)
LEMMA SumNat ==
  ASSUME NEW S, IsFiniteSet(S), NEW f, \A x \in S : f[x] \in Nat
  PROVE  /\ SumFunctionOnSet(f, S) \in Nat
         /\ \A x \in S : f[x] <= SumFunctionOnSet(f, S)
<1> DEFINE D == {T \in SUBSET S : SumFunctionOnSet(f, T) \notin Nat}
<1>1. D = {}
  <2>1. SUFFICES ASSUME D # {}
                 PROVE  FALSE
    OBVIOUS
  <2>2. PICK T \in D : \A U \in D : U \subseteq T => U = T
    <3> HIDE DEF D
    <3>1. D \subseteq SUBSET S
      BY DEF D
    <3> QED
      BY <2>1, <3>1, MinimalSubset
  <2>3. T \in SUBSET S /\ IsFiniteSet(T) /\ SumFunctionOnSet(f, T) \notin Nat
    BY FS_Subset
  <2>4. T # {}
    BY <2>3, SumEmpty
  <2> DEFINE U == T \ {One(T)}
  <2>5. U \subseteq T /\ U # T /\ U \in SUBSET S /\ One(T) \in S
    BY <2>3, <2>4, OneIn
  <2>6. SumFunctionOnSet(f, U) \in Nat
    BY <2>2, <2>5
  <2>7. SumFunctionOnSet(f, T) = f[One(T)] + SumFunctionOnSet(f, U)
    BY <2>3, <2>4, SumRec
  <2> QED
    BY <2>3, <2>5, <2>6, <2>7
<1>2. \A T \in SUBSET S : SumFunctionOnSet(f, T) \in Nat
  BY <1>1
<1>3. ASSUME NEW x \in S
      PROVE  f[x] <= SumFunctionOnSet(f, S)
  <2>1. SumFunctionOnSet(f, S) = f[x] + SumFunctionOnSet(f, S \ {x})
    BY SumTake
  <2>2. SumFunctionOnSet(f, S \ {x}) \in Nat
    BY <1>2
  <2> QED
    BY <2>1, <2>2
<1> QED
  BY <1>2, <1>3

(* A sum of zeros is zero. *)
LEMMA SumZero ==
  ASSUME NEW S, IsFiniteSet(S), NEW f, \A x \in S : f[x] = 0
  PROVE  SumFunctionOnSet(f, S) = 0
<1> DEFINE D == {T \in SUBSET S : SumFunctionOnSet(f, T) # 0}
<1>1. SUFFICES ASSUME D # {}
               PROVE  FALSE
  BY DEF D
<1>2. PICK T \in D : \A U \in D : U \subseteq T => U = T
  <2> HIDE DEF D
  <2>1. D \subseteq SUBSET S
    BY DEF D
  <2> QED
    BY <1>1, <2>1, MinimalSubset
<1>3. T \in SUBSET S /\ IsFiniteSet(T) /\ SumFunctionOnSet(f, T) # 0
  BY FS_Subset
<1>4. T # {}
  BY <1>3, SumEmpty
<1> DEFINE U == T \ {One(T)}
<1>5. U \subseteq T /\ U # T /\ U \in SUBSET S /\ One(T) \in S
  BY <1>3, <1>4, OneIn
<1>6. SumFunctionOnSet(f, U) = 0
  BY <1>2, <1>5
<1>7. SumFunctionOnSet(f, T) = f[One(T)] + SumFunctionOnSet(f, U)
  BY <1>3, <1>4, SumRec
<1> QED
  BY <1>3, <1>5, <1>6, <1>7

(* The elements of the set are renamed. *)
LEMMA SumRename ==
  ASSUME NEW S, IsFiniteSet(S),
         NEW m, \A x, y \in S : m[x] = m[y] => x = y,
         NEW f, NEW h, \A x \in S : h[x] \in Int /\ h[x] = f[m[x]],
         NEW T, T = {m[x] : x \in S}, IsFiniteSet(T)
  PROVE  SumFunctionOnSet(h, S) = SumFunctionOnSet(f, T)
<1> DEFINE Im(U) == {m[x] : x \in U}
           D == {U \in SUBSET S :
                   SumFunctionOnSet(h, U) # SumFunctionOnSet(f, Im(U))}
<1>1. SUFFICES ASSUME D # {}
               PROVE  FALSE
  BY DEF D
<1>2. PICK U \in D : \A V \in D : V \subseteq U => V = U
  <2> HIDE DEF D
  <2>1. D \subseteq SUBSET S
    BY DEF D
  <2> QED
    BY <1>1, <2>1, MinimalSubset
<1>3. /\ U \in SUBSET S /\ IsFiniteSet(U)
      /\ SumFunctionOnSet(h, U) # SumFunctionOnSet(f, Im(U))
  BY FS_Subset
<1>4. U # {}
  <2>1. Im({}) = {}
    OBVIOUS
  <2> QED
    BY <1>3, <2>1, SumEmpty
<1>5. PICK x \in U : TRUE
  BY <1>4
<1> DEFINE V == U \ {x}
<1>6. V \subseteq U /\ V # U /\ V \in SUBSET S
  BY <1>3
<1>7. SumFunctionOnSet(h, V) = SumFunctionOnSet(f, Im(V))
  BY <1>2, <1>6
<1>8. SumFunctionOnSet(h, U) = h[x] + SumFunctionOnSet(h, V)
  <2>1. \A i \in U : h[i] \in Int
    BY <1>3
  <2> QED
    BY <1>3, <2>1, SumTake
<1>9. SumFunctionOnSet(f, Im(U)) = f[m[x]] + SumFunctionOnSet(f, Im(V))
  <2>1. Im(U) \in SUBSET T /\ m[x] \in Im(U)
    BY <1>3
  <2>2. IsFiniteSet(Im(U))
    BY <2>1, FS_Subset
  <2>3. Im(U) \ {m[x]} = Im(V)
    BY <1>3
  <2>4. \A i \in Im(U) : f[i] \in Int
    BY <1>3
  <2> HIDE DEF Im, V
  <2> QED
    BY <2>1, <2>2, <2>3, <2>4, SumTake
<1>10. h[x] = f[m[x]]
  BY <1>3
<1> QED
  BY <1>3, <1>7, <1>8, <1>9, <1>10

(* The sum over a sequence: the first one, and the others moved up. *)
LEMMA SumShift ==
  ASSUME NEW n \in Nat, NEW f, \A i \in 1 .. n + 1 : f[i] \in Int,
         NEW h, \A i \in 1 .. n : h[i] = f[i + 1]
  PROVE  SumFunctionOnSet(f, 1 .. n + 1) = f[1] + SumFunctionOnSet(h, 1 .. n)
<1>1. IsFiniteSet(1 .. n) /\ IsFiniteSet(1 .. n + 1) /\ IsFiniteSet(2 .. n + 1)
  BY FS_Interval
<1>2. SumFunctionOnSet(h, 1 .. n) = SumFunctionOnSet(f, 2 .. n + 1)
  <2>1. PICK m : m = [i \in 1 .. n |-> i + 1]
    OBVIOUS
  <2>2. \A i, j \in 1 .. n : m[i] = m[j] => i = j
    BY <2>1
  <2>3. \A i \in 1 .. n : h[i] \in Int /\ h[i] = f[m[i]]
    BY <2>1
  <2>4. PICK T : T = {m[i] : i \in 1 .. n}
    OBVIOUS
  <2>5. T = 2 .. n + 1
    <3>1. ASSUME NEW j \in 2 .. n + 1
          PROVE  j \in T
      <4>1. j - 1 \in 1 .. n /\ m[j - 1] = j
        BY <2>1
      <4> QED
        BY <2>4, <4>1
    <3>2. ASSUME NEW j \in T
          PROVE  j \in 2 .. n + 1
      BY <2>1, <2>4
    <3> QED
      BY <3>1, <3>2
  <2>6. SumFunctionOnSet(h, 1 .. n) = SumFunctionOnSet(f, T)
    <3>1. PICK R : R = 1 .. n
      OBVIOUS
    <3>2. IsFiniteSet(R) /\ IsFiniteSet(T) /\ T = {m[i] : i \in R}
      BY <1>1, <2>4, <2>5, <3>1
    <3>3. /\ \A i, j \in R : m[i] = m[j] => i = j
          /\ \A i \in R : h[i] \in Int /\ h[i] = f[m[i]]
      BY <2>2, <2>3, <3>1
    <3>4. SumFunctionOnSet(h, R) = SumFunctionOnSet(f, T)
      BY <3>2, <3>3, SumRename
    <3> QED
      BY <3>1, <3>4
  <2> QED
    BY <2>5, <2>6
<1>3. 1 \in 1 .. n + 1 /\ (1 .. n + 1) \ {1} = 2 .. n + 1
  OBVIOUS
<1>4. SumFunctionOnSet(f, 1 .. n + 1)
        = f[1] + SumFunctionOnSet(f, (1 .. n + 1) \ {1})
  BY <1>1, <1>3, SumTake
<1> QED
  BY <1>2, <1>3, <1>4

(* The sum over a sequence: the last one. *)
LEMMA SumLast ==
  ASSUME NEW n \in Nat, NEW f, \A i \in 1 .. n + 1 : f[i] \in Int
  PROVE  SumFunctionOnSet(f, 1 .. n + 1) = SumFunctionOnSet(f, 1 .. n) + f[n + 1]
<1>1. IsFiniteSet(1 .. n) /\ n + 1 \notin 1 .. n
  BY FS_Interval
<1>2. 1 .. n + 1 = (1 .. n) \cup {n + 1}
  OBVIOUS
<1>3. \A i \in (1 .. n) \cup {n + 1} : f[i] \in Int
  BY <1>2
<1>4. SumFunctionOnSet(f, (1 .. n) \cup {n + 1})
        = SumFunctionOnSet(f, 1 .. n) + f[n + 1]
  BY ZenonT(60), <1>1, <1>3, SumAdd
<1> QED
  BY <1>2, <1>4

-----------------------------------------------------------------------------
(* A finite set of integers that is not empty has a largest element. *)
LEMMA LargestExists ==
  ASSUME NEW S, \A x \in S : x \in Int, IsFiniteSet(S), S # {}
  PROVE  \E m \in S : \A x \in S : x <= m
<1> DEFINE D == {T \in SUBSET S : T # {} /\ ~ \E m \in T : \A x \in T : x <= m}
<1>1. SUFFICES ASSUME D # {}
               PROVE  FALSE
  BY DEF D
<1>2. PICK T \in D : \A U \in D : U \subseteq T => U = T
  <2> HIDE DEF D
  <2>1. D \subseteq SUBSET S
    BY DEF D
  <2> QED
    BY <1>1, <2>1, MinimalSubset
<1>3. T \in SUBSET S /\ T # {} /\ ~ \E m \in T : \A x \in T : x <= m
  OBVIOUS
<1>4. PICK e \in T : TRUE
  BY <1>3
<1> DEFINE U == T \ {e}
<1>5. U \subseteq T /\ U # T /\ U \in SUBSET S
  BY <1>3
<1>6. U # {}
  BY <1>3, <1>4
<1>7. PICK m \in U : \A x \in U : x <= m
  BY <1>2, <1>5, <1>6
<1>8. \A x \in T : x = e \/ x <= m
  BY <1>7
<1> QED
  BY <1>3, <1>8

(* Every position below the size of a set of integers is the rank of one   *)
(* of them.                                                                *)
LEMMA RankExists ==
  ASSUME NEW S, \A x \in S : x \in Int, IsFiniteSet(S), NEW i \in 1 .. Cardinality(S)
  PROVE  \E r \in S : Cardinality({q \in S : q <= r}) = i
<1> DEFINE Has(T) == \A n \in 1 .. Cardinality(T) :
                       \E r \in T : Cardinality({q \in T : q <= r}) = n
           D == {T \in SUBSET S : ~Has(T)}
<1>1. SUFFICES ASSUME D # {}
               PROVE  FALSE
  <2>1. D = {} => Has(S)
    OBVIOUS
  <2> QED
    BY <2>1
<1>2. PICK T \in D : \A U \in D : U \subseteq T => U = T
  <2> HIDE DEF D
  <2>1. D \subseteq SUBSET S
    BY DEF D
  <2> QED
    BY <1>1, <2>1, MinimalSubset
<1>3. T \in SUBSET S /\ ~Has(T) /\ IsFiniteSet(T) /\ Cardinality(T) \in Nat
  BY FS_Subset, FS_CardinalityType
<1>4. T # {}
  <2>1. Cardinality({}) = 0
    BY FS_EmptySet
  <2> QED
    BY <1>3, <2>1
<1>5. PICK m \in T : \A x \in T : x <= m
  BY <1>3, <1>4, LargestExists
<1> DEFINE U == T \ {m}
<1>6. U \subseteq T /\ U # T /\ U \in SUBSET S
  BY <1>3
<1>7. Cardinality(U) = Cardinality(T) - 1
  BY <1>3, FS_RemoveElement
<1>8. Has(U)
  BY <1>2, <1>6
<1>9. ASSUME NEW n \in 1 .. Cardinality(T)
      PROVE  \E r \in T : Cardinality({q \in T : q <= r}) = n
  <2>1. CASE n = Cardinality(T)
    <3>1. {q \in T : q <= m} = T
      BY <1>5
    <3> QED
      BY <2>1, <3>1
  <2>2. CASE n # Cardinality(T)
    <3>1. n \in 1 .. Cardinality(U)
      BY <1>3, <1>7, <2>2
    <3>2. PICK r \in U : Cardinality({q \in U : q <= r}) = n
      BY <1>8, <3>1
    <3>3. r \in T /\ r # m /\ r <= m /\ r \in Int /\ m \in Int
      BY <1>3, <1>5, <3>2
    <3>4. {q \in T : q <= r} = {q \in U : q <= r}
      BY <3>3
    <3> QED
      BY <3>2, <3>3, <3>4
  <2> QED
    BY <2>1, <2>2
<1> QED
  BY <1>3, <1>9

-----------------------------------------------------------------------------
(* Larger values have a larger sum. *)
LEMMA SumMono ==
  ASSUME NEW S, IsFiniteSet(S), NEW f, NEW g,
         \A x \in S : f[x] \in Int /\ g[x] \in Int /\ f[x] <= g[x]
  PROVE  SumFunctionOnSet(f, S) <= SumFunctionOnSet(g, S)
<1> DEFINE D == {T \in SUBSET S :
                   ~(SumFunctionOnSet(f, T) <= SumFunctionOnSet(g, T))}
<1>1. SUFFICES ASSUME D # {}
               PROVE  FALSE
  BY DEF D
<1>2. PICK T \in D : \A U \in D : U \subseteq T => U = T
  <2> HIDE DEF D
  <2>1. D \subseteq SUBSET S
    BY DEF D
  <2> QED
    BY <1>1, <2>1, MinimalSubset
<1>3. /\ T \in SUBSET S /\ IsFiniteSet(T)
      /\ ~(SumFunctionOnSet(f, T) <= SumFunctionOnSet(g, T))
  BY FS_Subset
<1>4. T # {}
  BY <1>3, SumEmpty
<1> DEFINE U == T \ {One(T)}
<1>5. U \subseteq T /\ U # T /\ U \in SUBSET S /\ One(T) \in S
  BY <1>3, <1>4, OneIn
<1>6. PICK a, b : a = SumFunctionOnSet(f, U) /\ b = SumFunctionOnSet(g, U)
  OBVIOUS
<1>7. a <= b /\ a \in Int /\ b \in Int
  <2>1. IsFiniteSet(U) /\ \A x \in U : f[x] \in Int /\ g[x] \in Int
    BY <1>5, FS_Subset
  <2>2. SumFunctionOnSet(f, U) \in Int /\ SumFunctionOnSet(g, U) \in Int
    BY <2>1, SumType
  <2>3. SumFunctionOnSet(f, U) <= SumFunctionOnSet(g, U)
    BY <1>2, <1>5
  <2> QED
    BY <1>6, <2>2, <2>3
<1>8. /\ SumFunctionOnSet(f, T) = f[One(T)] + a
      /\ SumFunctionOnSet(g, T) = g[One(T)] + b
  BY <1>3, <1>4, <1>6, SumRec
<1>9. PICK c, d : c = f[One(T)] /\ d = g[One(T)]
  OBVIOUS
<1>10. c \in Int /\ d \in Int /\ c <= d
  BY <1>5, <1>9
<1>11. c + a <= d + b
  BY <1>7, <1>10
<1> QED
  BY <1>3, <1>8, <1>9, <1>11

(* What is zero need not be summed. *)
LEMMA SumRestrict ==
  ASSUME NEW S, IsFiniteSet(S), NEW T, T \subseteq S,
         NEW f, \A x \in T : f[x] \in Int,
         NEW g, \A x \in S : g[x] = IF x \in T THEN f[x] ELSE 0
  PROVE  SumFunctionOnSet(f, T) = SumFunctionOnSet(g, S)
<1> DEFINE D == {U \in SUBSET S :
                   SumFunctionOnSet(f, U \cap T) # SumFunctionOnSet(g, U)}
<1>1. SUFFICES ASSUME D # {}
               PROVE  FALSE
  <2>1. S \cap T = T
    OBVIOUS
  <2>2. S \notin D => SumFunctionOnSet(f, S \cap T) = SumFunctionOnSet(g, S)
    OBVIOUS
  <2> QED
    BY <2>1, <2>2
<1>2. PICK U \in D : \A V \in D : V \subseteq U => V = U
  <2> HIDE DEF D
  <2>1. D \subseteq SUBSET S
    BY DEF D
  <2> QED
    BY <1>1, <2>1, MinimalSubset
<1>3. /\ U \in SUBSET S /\ IsFiniteSet(U)
      /\ SumFunctionOnSet(f, U \cap T) # SumFunctionOnSet(g, U)
  BY FS_Subset
<1>4. U # {}
  <2>1. {} \cap T = {}
    OBVIOUS
  <2> QED
    BY <1>3, <2>1, SumEmpty
<1>5. PICK x \in U : TRUE
  BY <1>4
<1> DEFINE V == U \ {x}
<1>6. V \subseteq U /\ V # U /\ V \in SUBSET S /\ IsFiniteSet(V)
  BY <1>3, FS_Subset
<1>7. SumFunctionOnSet(f, V \cap T) = SumFunctionOnSet(g, V)
  BY <1>2, <1>6
<1>8. SumFunctionOnSet(g, U) = g[x] + SumFunctionOnSet(g, V)
  <2>1. \A y \in U : g[y] \in Int
    BY <1>3
  <2> QED
    BY <1>3, <2>1, SumTake
<1>9. SumFunctionOnSet(g, V) \in Int
  <2>1. \A y \in V : g[y] \in Int
    BY <1>6
  <2> QED
    BY <1>6, <2>1, SumType
<1>10. CASE x \in T
  <2>1. (U \cap T) \ {x} = V \cap T
    OBVIOUS
  <2>2. x \in U \cap T /\ IsFiniteSet(U \cap T) /\ \A y \in U \cap T : f[y] \in Int
    BY <1>3, <1>10, FS_Subset
  <2>3. SumFunctionOnSet(f, U \cap T) = f[x] + SumFunctionOnSet(f, (U \cap T) \ {x})
    BY <2>2, SumTake
  <2>4. g[x] = f[x]
    BY <1>3, <1>10
  <2> QED
    BY <1>3, <1>7, <1>8, <2>1, <2>3, <2>4
<1>11. CASE x \notin T
  <2>1. U \cap T = V \cap T
    BY <1>11
  <2>2. g[x] = 0
    BY <1>3, <1>11
  <2>3. PICK a, b : a = SumFunctionOnSet(g, U) /\ b = SumFunctionOnSet(g, V)
    OBVIOUS
  <2>4. a = g[x] + b /\ b \in Int
    BY <1>8, <1>9, <2>3
  <2>5. SumFunctionOnSet(f, U \cap T) = b
    BY <1>7, <2>1, <2>3
  <2> QED
    BY <1>3, <2>2, <2>3, <2>4, <2>5
<1> QED
  BY <1>10, <1>11

(* A sum of ones counts. *)
LEMMA SumOnes ==
  ASSUME NEW S, IsFiniteSet(S), NEW f, \A x \in S : f[x] = 1
  PROVE  SumFunctionOnSet(f, S) = Cardinality(S)
<1> DEFINE D == {T \in SUBSET S : SumFunctionOnSet(f, T) # Cardinality(T)}
<1>1. SUFFICES ASSUME D # {}
               PROVE  FALSE
  BY DEF D
<1>2. PICK T \in D : \A U \in D : U \subseteq T => U = T
  <2> HIDE DEF D
  <2>1. D \subseteq SUBSET S
    BY DEF D
  <2> QED
    BY <1>1, <2>1, MinimalSubset
<1>3. T \in SUBSET S /\ IsFiniteSet(T) /\ SumFunctionOnSet(f, T) # Cardinality(T)
  BY FS_Subset
<1>4. T # {}
  BY <1>3, SumEmpty, FS_EmptySet
<1> DEFINE U == T \ {One(T)}
<1>5. U \subseteq T /\ U # T /\ U \in SUBSET S /\ One(T) \in S /\ One(T) \in T
  BY <1>3, <1>4, OneIn
<1>6. SumFunctionOnSet(f, U) = Cardinality(U)
  BY <1>2, <1>5
<1>7. SumFunctionOnSet(f, T) = f[One(T)] + SumFunctionOnSet(f, U)
  BY <1>3, <1>4, SumRec
<1>8. Cardinality(U) = Cardinality(T) - 1 /\ Cardinality(T) \in Nat
  BY <1>3, <1>5, FS_RemoveElement, FS_CardinalityType
<1> QED
  BY <1>3, <1>5, <1>6, <1>7, <1>8

(* The sum of sums is the sum of both. *)
LEMMA SumPlus ==
  ASSUME NEW S, IsFiniteSet(S), NEW f, NEW g, NEW h,
         \A x \in S : f[x] \in Int /\ g[x] \in Int /\ h[x] = f[x] + g[x]
  PROVE  SumFunctionOnSet(h, S) = SumFunctionOnSet(f, S) + SumFunctionOnSet(g, S)
<1> DEFINE Both(T) == SumFunctionOnSet(f, T) + SumFunctionOnSet(g, T)
           D == {T \in SUBSET S : SumFunctionOnSet(h, T) # Both(T)}
<1>1. SUFFICES ASSUME D # {}
               PROVE  FALSE
  BY DEF D
<1>2. PICK T \in D : \A U \in D : U \subseteq T => U = T
  <2> HIDE DEF D
  <2>1. D \subseteq SUBSET S
    BY DEF D
  <2> QED
    BY <1>1, <2>1, MinimalSubset
<1>3. T \in SUBSET S /\ IsFiniteSet(T) /\ SumFunctionOnSet(h, T) # Both(T)
  BY FS_Subset
<1>4. T # {}
  BY <1>3, SumEmpty
<1> DEFINE U == T \ {One(T)}
<1>5. U \subseteq T /\ U # T /\ U \in SUBSET S /\ One(T) \in S
  BY <1>3, <1>4, OneIn
<1>6. PICK a, b, c : /\ a = SumFunctionOnSet(f, U) /\ b = SumFunctionOnSet(g, U)
                     /\ c = SumFunctionOnSet(h, U)
  OBVIOUS
<1>7. a \in Int /\ b \in Int /\ c = a + b
  <2>1. IsFiniteSet(U) /\ \A x \in U : f[x] \in Int /\ g[x] \in Int
    BY <1>5, FS_Subset
  <2>2. SumFunctionOnSet(f, U) \in Int /\ SumFunctionOnSet(g, U) \in Int
    BY <2>1, SumType
  <2>3. SumFunctionOnSet(h, U) = Both(U)
    BY <1>2, <1>5
  <2> QED
    BY <1>6, <2>2, <2>3
<1>8. /\ SumFunctionOnSet(f, T) = f[One(T)] + a
      /\ SumFunctionOnSet(g, T) = g[One(T)] + b
      /\ SumFunctionOnSet(h, T) = h[One(T)] + c
  BY <1>3, <1>4, <1>6, SumRec
<1>9. PICK x, y : x = f[One(T)] /\ y = g[One(T)]
  OBVIOUS
<1>10. x \in Int /\ y \in Int /\ h[One(T)] = x + y
  BY <1>5, <1>9
<1>11. SumFunctionOnSet(h, T) = (x + y) + (a + b) /\ Both(T) = (x + a) + (y + b)
  BY <1>7, <1>8, <1>9, <1>10
<1> QED
  BY <1>3, <1>7, <1>10, <1>11

(* A sum with one term that is not zero *)
LEMMA SumOnly ==
  ASSUME NEW S, IsFiniteSet(S), NEW e \in S, NEW f, f[e] \in Int,
         \A x \in S : x # e => f[x] = 0
  PROVE  SumFunctionOnSet(f, S) = f[e]
<1>1. PICK T : T = {e}
  OBVIOUS
<1>2. /\ T \subseteq S /\ \A x \in T : f[x] \in Int
      /\ \A x \in S : f[x] = IF x \in T THEN f[x] ELSE 0
  BY <1>1
<1>3. SumFunctionOnSet(f, T) = SumFunctionOnSet(f, S)
  BY <1>2, SumRestrict
<1>4. SumFunctionOnSet(f, {} \cup {e}) = SumFunctionOnSet(f, {}) + f[e]
  BY SumAdd, FS_EmptySet
<1>5. {} \cup {e} = T
  BY <1>1
<1> QED
  BY <1>3, <1>4, <1>5, SumEmpty

(* A table m, by rows, and c, by columns, with their sums f and g. *)
IsTable(m, c, f, g, S, R) ==
  /\ \A i \in S, r \in R : m[i][r] \in Int /\ c[r][i] = m[i][r]
  /\ \A i \in S : f[i] = SumFunctionOnSet(m[i], R)
  /\ \A r \in R : g[r] = SumFunctionOnSet(c[r], S)

(* The sum of the rows of a table is the sum of its columns. *)
LEMMA SumSwap ==
  ASSUME NEW S, IsFiniteSet(S), NEW R, IsFiniteSet(R), NEW m, NEW c, NEW f, NEW g,
         IsTable(m, c, f, g, S, R)
  PROVE  SumFunctionOnSet(f, S) = SumFunctionOnSet(g, R)
<1> USE DEF IsTable
<1> DEFINE Cols(T) == [r \in R |-> SumFunctionOnSet(c[r], T)]
           D == {T \in SUBSET S :
                   SumFunctionOnSet(f, T) # SumFunctionOnSet(Cols(T), R)}
<1>1. SUFFICES D = {}
  <2>1. SumFunctionOnSet(f, S) = SumFunctionOnSet(Cols(S), R)
    BY <1>1
  <2>2. \A r \in R : Cols(S)[r] = g[r]
    OBVIOUS
  <2> HIDE DEF Cols
  <2>3. SumFunctionOnSet(Cols(S), R) = SumFunctionOnSet(g, R)
    BY <2>2, SumSame
  <2> QED
    BY <2>1, <2>3
<1>2. SUFFICES ASSUME D # {}
               PROVE  FALSE
  OBVIOUS
<1>3. PICK T \in D : \A U \in D : U \subseteq T => U = T
  <2> HIDE DEF D
  <2>1. D \subseteq SUBSET S
    BY DEF D
  <2> QED
    BY <1>2, <2>1, MinimalSubset
<1>4. /\ T \in SUBSET S /\ IsFiniteSet(T)
      /\ SumFunctionOnSet(f, T) # SumFunctionOnSet(Cols(T), R)
  BY FS_Subset
<1>5. T # {}
  <2>1. SUFFICES ASSUME T = {}
                 PROVE  FALSE
    OBVIOUS
  <2>2. PICK h : h = Cols({})
    OBVIOUS
  <2>3. \A r \in R : h[r] = 0
    BY <2>2, SumEmpty
  <2>4. SumFunctionOnSet(h, R) = 0
    BY <2>3, SumZero
  <2> QED
    BY <1>4, <2>1, <2>2, <2>4, SumEmpty
<1> DEFINE U == T \ {One(T)}
<1>6. U \subseteq T /\ U # T /\ U \in SUBSET S /\ One(T) \in S /\ IsFiniteSet(U)
  BY <1>4, <1>5, OneIn, FS_Subset
<1>7. PICK e : e = One(T)
  OBVIOUS
<1>8. SumFunctionOnSet(f, U) = SumFunctionOnSet(Cols(U), R)
  BY <1>3, <1>6
<1>9. SumFunctionOnSet(f, T) = SumFunctionOnSet(m[e], R) + SumFunctionOnSet(f, U)
  BY <1>4, <1>5, <1>6, <1>7, SumRec
<1>10. PICK h, k : h = Cols(T) /\ k = Cols(U)
  OBVIOUS
<1>11. ASSUME NEW r \in R
       PROVE  m[e][r] \in Int /\ k[r] \in Int /\ h[r] = m[e][r] + k[r]
  <2>1. PICK col : col = c[r]
    OBVIOUS
  <2>2. \A i \in U : col[i] \in Int
    BY <1>6, <2>1
  <2>3. SumFunctionOnSet(col, U) \in Int
    BY <1>6, <2>2, SumType
  <2>4. SumFunctionOnSet(col, T) = col[e] + SumFunctionOnSet(col, U)
    BY <1>4, <1>5, <1>7, SumRec
  <2>5. col[e] = m[e][r] /\ m[e][r] \in Int
    BY <1>6, <1>7, <2>1
  <2> QED
    BY <1>10, <2>1, <2>3, <2>4, <2>5
<1>12. SumFunctionOnSet(h, R) = SumFunctionOnSet(m[e], R) + SumFunctionOnSet(k, R)
  BY <1>11, SumPlus
<1> QED
  BY <1>4, <1>8, <1>9, <1>10, <1>12

-----------------------------------------------------------------------------
(* Sequences, by their positions. *)
LEMMA TailFacts ==
  ASSUME NEW S, NEW s \in Seq(S), s # <<>>
  PROVE  /\ Head(s) \in S /\ Head(s) = s[1] /\ 1 \in DOMAIN s
         /\ Tail(s) \in Seq(S) /\ Len(Tail(s)) = Len(s) - 1
         /\ DOMAIN s = 1 .. Len(s) /\ Len(s) \in Nat \ {0}
         /\ DOMAIN Tail(s) = 1 .. Len(s) - 1
         /\ \A k \in DOMAIN Tail(s) : Tail(s)[k] = s[k + 1] /\ k + 1 \in DOMAIN s
OBVIOUS

(* A sequence with one more element, ... *)
LEMMA AppendFacts ==
  ASSUME NEW S, NEW s \in Seq(S), NEW e \in S
  PROVE  /\ Append(s, e) \in Seq(S) /\ Len(Append(s, e)) = Len(s) + 1
         /\ DOMAIN s = 1 .. Len(s) /\ Len(s) \in Nat
         /\ DOMAIN Append(s, e) = 1 .. Len(s) + 1
         /\ \A k \in DOMAIN s : Append(s, e)[k] = s[k]
         /\ Append(s, e)[Len(s) + 1] = e
OBVIOUS

(* ... and two of them, one behind the other. *)
LEMMA ConcatFacts ==
  ASSUME NEW S, NEW s \in Seq(S), NEW t \in Seq(S)
  PROVE  /\ s \o t \in Seq(S) /\ Len(s \o t) = Len(s) + Len(t)
         /\ DOMAIN s = 1 .. Len(s) /\ DOMAIN t = 1 .. Len(t)
         /\ Len(s) \in Nat /\ Len(t) \in Nat
         /\ DOMAIN (s \o t) = 1 .. Len(s) + Len(t)
         /\ \A k \in DOMAIN s : (s \o t)[k] = s[k]
         /\ \A k \in DOMAIN (s \o t) \ DOMAIN s :
              k - Len(s) \in DOMAIN t /\ (s \o t)[k] = t[k - Len(s)]
OBVIOUS

-----------------------------------------------------------------------------
(* Sums over a queue that loses its first element, or gets one more. *)
LEMMA SumTail ==
  ASSUME NEW n \in Nat, NEW f, NEW g, DOMAIN f = 1 .. n + 1, DOMAIN g = 1 .. n,
         \A i \in 1 .. n + 1 : f[i] \in Int, \A i \in 1 .. n : g[i] = f[i + 1]
  PROVE  SumFunction(f) = f[1] + SumFunction(g)
BY SumShift DEF SumFunction

(* The same sum when an element is added at the end, ... *)
LEMMA SumMore ==
  ASSUME NEW n \in Nat, NEW f, NEW g, DOMAIN f = 1 .. n, DOMAIN g = 1 .. n + 1,
         \A i \in 1 .. n + 1 : g[i] \in Int, \A i \in 1 .. n : g[i] = f[i]
  PROVE  SumFunction(g) = SumFunction(f) + g[n + 1]
<1>1. PICK R : R = 1 .. n
  OBVIOUS
<1>2. IsFiniteSet(R)
  BY <1>1, FS_Interval
<1>3. SumFunctionOnSet(f, R) = SumFunctionOnSet(g, R)
  BY <1>1, <1>2, SumSame
<1> QED
  BY <1>1, <1>3, SumLast DEF SumFunction

(* ... and what a sum of natural numbers is. *)
LEMMA SumSeqNat ==
  ASSUME NEW n \in Nat, NEW f, DOMAIN f = 1 .. n, \A i \in 1 .. n : f[i] \in Nat
  PROVE  /\ SumFunction(f) \in Nat
         /\ (\A i \in 1 .. n : f[i] = 0) => SumFunction(f) = 0
         /\ \A i \in 1 .. n : f[i] <= SumFunction(f)
<1>1. PICK R : R = 1 .. n
  OBVIOUS
<1>2. IsFiniteSet(R) /\ \A i \in R : f[i] \in Nat
  BY <1>1, FS_Interval
<1>3. /\ SumFunctionOnSet(f, R) \in Nat
      /\ \A i \in R : f[i] <= SumFunctionOnSet(f, R)
  BY <1>2, SumNat
<1>4. (\A i \in R : f[i] = 0) => SumFunctionOnSet(f, R) = 0
  BY <1>2, SumZero
<1> QED
  BY <1>1, <1>3, <1>4 DEF SumFunction

-----------------------------------------------------------------------------
(* Products of integers: a volume at a price, and what changes with it. *)
LEMMA AtPrice ==
  ASSUME NEW x \in Int, NEW a \in Int, NEW p \in Int, NEW M \in Int
  PROVE  /\ x * a * M + ((p - a) * M) * x = x * p * M
         /\ x * a * M \in Int /\ (p - a) * M \in Int
OBVIOUS

LEMMA MoreAtPrice ==
  ASSUME NEW x \in Int, NEW v \in Int, NEW p \in Int, NEW M \in Int
  PROVE  /\ x * p * M + p * v * M = (x + v) * p * M
         /\ x * p * M - p * v * M = (x - v) * p * M
         /\ x * p * M \in Int /\ p * v * M \in Int
OBVIOUS

LEMMA ProfitSplit ==
  ASSUME NEW d \in Int, NEW a \in Int, NEW b \in Int, NEW c \in Int, NEW e \in Int
  PROVE  /\ d * (c - e) + d * ((a - c) - (b - e)) = d * a - d * b
         /\ d * a \in Int /\ d * b \in Int
         /\ d * (c - e) \in Int /\ d * ((a - c) - (b - e)) \in Int
OBVIOUS

LEMMA LessAtPrice ==
  ASSUME NEW x \in Int, NEW y \in Int, NEW p \in Int, NEW M \in Int
  PROVE  /\ x * p * M - y * p * M = (x - y) * p * M
         /\ (x - y) * p * M \in Int
OBVIOUS
=============================================================================
