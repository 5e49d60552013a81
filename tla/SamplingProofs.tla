--------------------------- MODULE SamplingProofs ---------------------------
(***************************************************************************)
(* Proofs about Sampling: what the two samples of a collector hold, and    *)
(* what the figures computed from them say about the interval.             *)
(***************************************************************************)
EXTENDS Sampling, FiniteSetTheorems, WellFoundedInduction, TLAPS

-----------------------------------------------------------------------------
(* Sums over finite sets.  SumFunctionOnSet is a fold along an arbitrary   *)
(* order; that the order does not matter is what the lemmas establish.     *)

Pick(s) == CHOOSE x \in s : TRUE

\* A nonempty set of numbers has a least element.
LEMMA LeastNumber ==
    ASSUME NEW N, N \subseteq Nat, N # {}
    PROVE  \E n \in N : \A m \in N : n <= m
<1> DEFINE less == OpToRel(<, Nat)
<1>1. IsWellFoundedOn(less, Nat)
  BY NatLessThanWellFounded
<1>2. \A x, y \in Nat : <<y, x>> \notin less => x <= y
  BY DEF OpToRel
<1> HIDE DEF less
<1>3. PICK n \in N : \A m \in N : <<m, n>> \notin less
  BY <1>1, WFMin
<1> QED
  BY <1>2, <1>3

\* A property of sets that holds of a set when it holds of its proper subsets
\* holds of every finite set: a set without it of least size cannot exist.
LEMMA SetInduction ==
    ASSUME NEW S, IsFiniteSet(S), NEW G,
           \A T \in SUBSET S : (\A U \in SUBSET T : U # T => U \in G) => T \in G
    PROVE  \A T \in SUBSET S : T \in G
<1> DEFINE bad == {T \in SUBSET S : T \notin G}
           size == {Cardinality(T) : T \in bad}
<1> SUFFICES ASSUME bad # {} PROVE FALSE
  OBVIOUS
<1>1. \A T \in SUBSET S : IsFiniteSet(T) /\ Cardinality(T) \in Nat
  BY FS_Subset, FS_CardinalityType
<1>2. size \subseteq Nat /\ size # {}
  BY <1>1
<1> HIDE DEF size
<1>3. PICK n \in size : \A m \in size : n <= m
  BY <1>2, LeastNumber
<1>4. PICK T \in bad : Cardinality(T) = n
  BY DEF size
<1>5. ASSUME NEW U \in SUBSET T, U # T PROVE U \in G
  <2>1. Cardinality(U) <= Cardinality(T) /\ Cardinality(U) # Cardinality(T)
    BY <1>1, <1>5, FS_Subset
  <2>2. Cardinality(U) \in Nat /\ Cardinality(T) \in Nat
    BY <1>1
  <2>3. Cardinality(U) \notin size
    BY <1>3, <1>4, <2>1, <2>2
  <2>4. U \notin bad
    BY <2>3 DEF size
  <2> QED
    BY <2>4
<1> QED
  BY <1>5

\* The recursive function behind SumFunctionOnSet.
Folded(fun, S, iter) ==
    iter = [s \in SUBSET S |-> IF s = {} THEN 0 ELSE fun[Pick(s)] + iter[s \ {Pick(s)}]]

\* SumFunctionOnSet is the value of that function at the whole set.
LEMMA SumFolds ==
    ASSUME NEW fun, NEW S
    PROVE  SumFunctionOnSet(fun, S) = (CHOOSE iter : Folded(fun, S, iter))[S]
BY DEF SumFunctionOnSet, FoldFunctionOnSet, MapThenFoldSet, Folded, Pick

\* What is left of a set without the element picked is smaller.
LEMMA PickIn ==
    ASSUME NEW s, s # {}
    PROVE  Pick(s) \in s /\ s \ {Pick(s)} \in SUBSET s /\ s \ {Pick(s)} # s
BY DEF Pick

\* Two such functions agree wherever both are defined.
LEMMA FoldedAgree ==
    ASSUME NEW fun, NEW S, IsFiniteSet(S), NEW g, NEW A, NEW h, NEW B,
           Folded(fun, A, g), Folded(fun, B, h), S \subseteq A, S \subseteq B
    PROVE  g[S] = h[S]
<1> DEFINE G == {T \in SUBSET S : g[T] = h[T]}
<1>1. ASSUME NEW T \in SUBSET S, \A U \in SUBSET T : U # T => U \in G
      PROVE  T \in G
  <2>1. g[T] = IF T = {} THEN 0 ELSE fun[Pick(T)] + g[T \ {Pick(T)}]
    BY DEF Folded
  <2>2. h[T] = IF T = {} THEN 0 ELSE fun[Pick(T)] + h[T \ {Pick(T)}]
    BY DEF Folded
  <2>3. T # {} => g[T \ {Pick(T)}] = h[T \ {Pick(T)}]
    BY <1>1, PickIn
  <2> QED
    BY <2>1, <2>2, <2>3
<1> HIDE DEF G
<1>2. S \in G
  BY <1>1, SetInduction
<1> QED
  BY <1>2 DEF G

\* On a finite set there is such a function.
LEMMA FoldedExists ==
    ASSUME NEW fun, NEW S, IsFiniteSet(S)
    PROVE  \E iter : Folded(fun, S, iter)
<1> DEFINE G == {T \in SUBSET S : \E iter : Folded(fun, T, iter)}
           it(u) == CHOOSE iter : Folded(fun, u, iter)
           v(u) == it(u)[u]
<1>1. ASSUME NEW T \in SUBSET S, \A U \in SUBSET T : U # T => U \in G
      PROVE  T \in G
  <2> DEFINE g == [s \in SUBSET T |-> IF s = {} THEN 0 ELSE fun[Pick(s)] + v(s \ {Pick(s)})]
  <2>1. \A u \in SUBSET T : u # T => Folded(fun, u, it(u))
    BY <1>1
  <2>2. \A u \in SUBSET T : IsFiniteSet(u)
    BY FS_Subset
  <2> HIDE DEF it
  <2>3. ASSUME NEW u \in SUBSET T, u # T
        PROVE  v(u) = g[u]
    <3>1. v(u) = IF u = {} THEN 0 ELSE fun[Pick(u)] + it(u)[u \ {Pick(u)}]
      BY <2>1, <2>3 DEF Folded
    <3>2. ASSUME u # {} PROVE it(u)[u \ {Pick(u)}] = v(u \ {Pick(u)})
      <4> DEFINE w == u \ {Pick(u)}
      <4>1. w \in SUBSET u /\ w # u /\ w \in SUBSET T /\ w # T
        BY <3>2, PickIn
      <4>2. Folded(fun, u, it(u)) /\ Folded(fun, w, it(w)) /\ IsFiniteSet(w)
        BY <2>1, <2>2, <2>3, <4>1
      <4> HIDE DEF w
      <4>3. it(u)[w] = it(w)[w]
        BY <4>1, <4>2, FoldedAgree
      <4> QED
        BY <4>3 DEF w
    <3> QED
      BY <3>1, <3>2
  <2> HIDE DEF v
  <2>4. \A s \in SUBSET T : s # {} => v(s \ {Pick(s)}) = g[s \ {Pick(s)}]
    <3> SUFFICES ASSUME NEW s \in SUBSET T, s # {} PROVE v(s \ {Pick(s)}) = g[s \ {Pick(s)}]
      OBVIOUS
    <3>1. Pick(s) \in T /\ s \ {Pick(s)} \in SUBSET T /\ s \ {Pick(s)} # T
      BY PickIn
    <3> QED
      BY <2>3, <3>1
  <2>5. g = [s \in SUBSET T |-> IF s = {} THEN 0 ELSE fun[Pick(s)] + g[s \ {Pick(s)}]]
    BY <2>4
  <2> HIDE DEF g
  <2> QED
    BY <2>5 DEF Folded
<1> HIDE DEF G
<1>2. S \in G
  BY <1>1, SetInduction
<1> QED
  BY <1>2 DEF G

\* A sum is the element picked first and the sum of the others.
LEMMA SumStep ==
    ASSUME NEW fun, NEW S, IsFiniteSet(S)
    PROVE  SumFunctionOnSet(fun, S) =
              IF S = {} THEN 0 ELSE fun[Pick(S)] + SumFunctionOnSet(fun, S \ {Pick(S)})
<1> DEFINE it(u) == CHOOSE iter : Folded(fun, u, iter)
           w == S \ {Pick(S)}
<1>1. IsFiniteSet(w)
  BY FS_Subset
<1>2. Folded(fun, S, it(S)) /\ Folded(fun, w, it(w))
  BY <1>1, FoldedExists
<1>3. SumFunctionOnSet(fun, S) = it(S)[S] /\ SumFunctionOnSet(fun, w) = it(w)[w]
  BY SumFolds
<1> HIDE DEF it
<1>4. it(S)[S] = IF S = {} THEN 0 ELSE fun[Pick(S)] + it(S)[w]
  BY <1>2 DEF Folded
<1>5. it(S)[w] = it(w)[w]
  BY <1>1, <1>2, FoldedAgree
<1> QED
  BY <1>3, <1>4, <1>5

\* The sum over nothing.
LEMMA SumEmpty ==
    ASSUME NEW fun
    PROVE  SumFunctionOnSet(fun, {}) = 0
BY FS_EmptySet, SumStep

\* Sums of integers over parts of a finite set are integers.
LEMMA SumInt ==
    ASSUME NEW S, IsFiniteSet(S), NEW fun, \A x \in S : fun[x] \in Int
    PROVE  \A T \in SUBSET S : SumFunctionOnSet(fun, T) \in Int
<1> DEFINE G == {T \in SUBSET S : SumFunctionOnSet(fun, T) \in Int}
<1>1. ASSUME NEW T \in SUBSET S, \A U \in SUBSET T : U # T => U \in G
      PROVE  T \in G
  <2>1. IsFiniteSet(T)
    BY FS_Subset
  <2>2. T # {} => fun[Pick(T)] \in Int /\ SumFunctionOnSet(fun, T \ {Pick(T)}) \in Int
    BY <1>1, PickIn
  <2> QED
    BY <2>1, <2>2, SumStep
<1> HIDE DEF G
<1>2. \A T \in SUBSET S : T \in G
  BY <1>1, SetInduction
<1> QED
  BY <1>2 DEF G

\* Any element may be added last.
LEMMA SumRemove ==
    ASSUME NEW S, IsFiniteSet(S), NEW fun, \A x \in S : fun[x] \in Int
    PROVE  \A T \in SUBSET S : \A x \in T :
              SumFunctionOnSet(fun, T) = fun[x] + SumFunctionOnSet(fun, T \ {x})
<1> DEFINE sum(T) == SumFunctionOnSet(fun, T)
           G == {T \in SUBSET S : \A x \in T : sum(T) = fun[x] + sum(T \ {x})}
<1>1. ASSUME NEW T \in SUBSET S, \A U \in SUBSET T : U # T => U \in G
      PROVE  T \in G
  <2> SUFFICES ASSUME NEW x \in T PROVE sum(T) = fun[x] + sum(T \ {x})
    OBVIOUS
  <2> DEFINE y == Pick(T)
  <2>1. y \in T
    BY PickIn
  <2>2. sum(T) = fun[y] + sum(T \ {y})
    <3>1. IsFiniteSet(T)
      BY FS_Subset
    <3> QED
      BY <3>1, SumStep
  <2>3. CASE x = y
    BY <2>2, <2>3
  <2>4. CASE x # y
    <3>1. T \ {y} \in SUBSET T /\ T \ {y} # T /\ x \in T \ {y}
      BY <2>1, <2>4
    <3>2. T \ {x} \in SUBSET T /\ T \ {x} # T /\ y \in T \ {x}
      BY <2>1, <2>4
    <3> HIDE DEF y
    <3> DEFINE w == (T \ {x}) \ {y}
    <3>3. w = (T \ {y}) \ {x} /\ w \in SUBSET S
      OBVIOUS
    <3> HIDE DEF w
    <3>4. sum(T \ {y}) = fun[x] + sum(w)
      BY <1>1, <3>1, <3>3
    <3>5. sum(T \ {x}) = fun[y] + sum(w)
      BY <1>1, <3>2 DEF w
    <3>6. fun[x] \in Int /\ fun[y] \in Int /\ sum(w) \in Int
      BY <2>1, <3>3, SumInt
    <3>7. sum(T) = fun[y] + (fun[x] + sum(w))
      BY <2>2, <3>4
    <3>8. fun[y] + (fun[x] + sum(w)) = fun[x] + (fun[y] + sum(w))
      BY <3>6
    <3> QED
      BY <3>5, <3>7, <3>8
  <2> QED
    BY <2>3, <2>4
<1> HIDE DEF G
<1>2. \A T \in SUBSET S : T \in G
  BY <1>1, SetInduction
<1> QED
  BY <1>2 DEF G

\* A sum is no larger when no summand is larger.
LEMMA SumMonotone ==
    ASSUME NEW S, IsFiniteSet(S), NEW f, NEW g,
           \A x \in S : f[x] \in Int /\ g[x] \in Int /\ f[x] <= g[x]
    PROVE  SumFunctionOnSet(f, S) <= SumFunctionOnSet(g, S)
<1> DEFINE G == {T \in SUBSET S : SumFunctionOnSet(f, T) <= SumFunctionOnSet(g, T)}
<1>1. ASSUME NEW T \in SUBSET S, \A U \in SUBSET T : U # T => U \in G
      PROVE  T \in G
  <2>1. IsFiniteSet(T)
    BY FS_Subset
  <2>2. CASE T = {}
    BY <2>2, SumEmpty
  <2>3. CASE T # {}
    <3> DEFINE w == T \ {Pick(T)}
    <3>1. Pick(T) \in S /\ w \in SUBSET T /\ w # T /\ w \in SUBSET S
      BY <2>3, PickIn
    <3>2. SumFunctionOnSet(f, T) = f[Pick(T)] + SumFunctionOnSet(f, w)
      BY <2>1, <2>3, SumStep
    <3>3. SumFunctionOnSet(g, T) = g[Pick(T)] + SumFunctionOnSet(g, w)
      BY <2>1, <2>3, SumStep
    <3> HIDE DEF w
    <3>4. SumFunctionOnSet(f, w) \in Int /\ SumFunctionOnSet(g, w) \in Int
      BY <3>1, SumInt
    <3>5. SumFunctionOnSet(f, w) <= SumFunctionOnSet(g, w)
      BY <1>1, <3>1
    <3>6. f[Pick(T)] \in Int /\ g[Pick(T)] \in Int /\ f[Pick(T)] <= g[Pick(T)]
      BY <3>1
    <3> QED
      BY <3>2, <3>3, <3>4, <3>5, <3>6
  <2> QED
    BY <2>2, <2>3
<1> HIDE DEF G
<1>2. S \in G
  BY <1>1, SetInduction
<1> QED
  BY <1>2 DEF G

\* Equal terms have equal sums.
LEMMA SumEqual ==
    ASSUME NEW S, IsFiniteSet(S), NEW f, NEW g,
           \A x \in S : f[x] \in Int /\ f[x] = g[x]
    PROVE  SumFunctionOnSet(f, S) = SumFunctionOnSet(g, S)
<1>1. \A x \in S : f[x] \in Int /\ g[x] \in Int /\ f[x] <= g[x] /\ g[x] <= f[x]
  OBVIOUS
<1>2. SumFunctionOnSet(f, S) <= SumFunctionOnSet(g, S)
  BY <1>1, SumMonotone
<1>3. SumFunctionOnSet(g, S) <= SumFunctionOnSet(f, S)
  BY <1>1, SumMonotone
<1>4. SumFunctionOnSet(f, S) \in Int /\ SumFunctionOnSet(g, S) \in Int
  BY <1>1, SumInt
<1> QED
  BY <1>2, <1>3, <1>4

\* A sum of zeros.
LEMMA SumZero ==
    ASSUME NEW S, IsFiniteSet(S), NEW f, \A x \in S : f[x] = 0
    PROVE  SumFunctionOnSet(f, S) = 0
<1> DEFINE G == {T \in SUBSET S : SumFunctionOnSet(f, T) = 0}
<1>1. ASSUME NEW T \in SUBSET S, \A U \in SUBSET T : U # T => U \in G
      PROVE  T \in G
  <2>1. IsFiniteSet(T)
    BY FS_Subset
  <2>2. T # {} => f[Pick(T)] = 0 /\ SumFunctionOnSet(f, T \ {Pick(T)}) = 0
    BY <1>1, PickIn
  <2> QED
    BY <2>1, <2>2, SumStep
<1> HIDE DEF G
<1>2. S \in G
  BY <1>1, SetInduction
<1> QED
  BY <1>2 DEF G

\* A sum of numbers is a number, and no summand exceeds it.
LEMMA SumNat ==
    ASSUME NEW S, IsFiniteSet(S), NEW f, \A x \in S : f[x] \in Nat
    PROVE  /\ SumFunctionOnSet(f, S) \in Nat
           /\ \A x \in S : f[x] <= SumFunctionOnSet(f, S)
<1>1. ASSUME NEW T \in SUBSET S
      PROVE  SumFunctionOnSet(f, T) \in Nat
  <2> DEFINE z == [x \in T |-> 0]
  <2>1. IsFiniteSet(T)
    BY FS_Subset
  <2>2. \A x \in T : z[x] = 0 /\ z[x] \in Int /\ f[x] \in Int /\ z[x] <= f[x]
    OBVIOUS
  <2> HIDE DEF z
  <2>3. SumFunctionOnSet(z, T) = 0
    BY <2>1, <2>2, SumZero
  <2>4. SumFunctionOnSet(z, T) <= SumFunctionOnSet(f, T)
    BY <2>1, <2>2, SumMonotone
  <2>5. SumFunctionOnSet(f, T) \in Int
    BY SumInt
  <2> QED
    BY <2>3, <2>4, <2>5
<1>2. ASSUME NEW x \in S PROVE f[x] <= SumFunctionOnSet(f, S)
  <2>1. SumFunctionOnSet(f, S) = f[x] + SumFunctionOnSet(f, S \ {x})
    BY SumRemove
  <2>2. SumFunctionOnSet(f, S \ {x}) \in Nat
    BY <1>1
  <2> QED
    BY <2>1, <2>2
<1> QED
  BY <1>1, <1>2

\* The sum of sums, element by element.
LEMMA SumAdd ==
    ASSUME NEW S, IsFiniteSet(S), NEW f, NEW g, NEW h,
           \A x \in S : f[x] \in Int /\ g[x] \in Int /\ h[x] = f[x] + g[x]
    PROVE  SumFunctionOnSet(h, S) = SumFunctionOnSet(f, S) + SumFunctionOnSet(g, S)
<1> DEFINE G == {T \in SUBSET S :
                    SumFunctionOnSet(h, T) = SumFunctionOnSet(f, T) + SumFunctionOnSet(g, T)}
<1>1. ASSUME NEW T \in SUBSET S, \A U \in SUBSET T : U # T => U \in G
      PROVE  T \in G
  <2>1. IsFiniteSet(T)
    BY FS_Subset
  <2>2. CASE T = {}
    BY <2>2, SumEmpty
  <2>3. CASE T # {}
    <3> DEFINE p == Pick(T)
               w == T \ {p}
    <3>1. p \in S /\ w \in SUBSET T /\ w # T /\ w \in SUBSET S
      BY <2>3, PickIn
    <3>2. /\ SumFunctionOnSet(f, T) = f[p] + SumFunctionOnSet(f, w)
          /\ SumFunctionOnSet(g, T) = g[p] + SumFunctionOnSet(g, w)
          /\ SumFunctionOnSet(h, T) = h[p] + SumFunctionOnSet(h, w)
      BY <2>1, <2>3, SumStep
    <3> HIDE DEF p, w
    <3>3. SumFunctionOnSet(f, w) \in Int /\ SumFunctionOnSet(g, w) \in Int
      BY <3>1, SumInt
    <3>4. SumFunctionOnSet(h, w) = SumFunctionOnSet(f, w) + SumFunctionOnSet(g, w)
      BY <1>1, <3>1
    <3>5. f[p] \in Int /\ g[p] \in Int /\ h[p] = f[p] + g[p]
      BY <3>1
    <3> QED
      BY <3>2, <3>3, <3>4, <3>5
  <2> QED
    BY <2>2, <2>3
<1> HIDE DEF G
<1>2. S \in G
  BY <1>1, SetInduction
<1> QED
  BY <1>2 DEF G

\* Elements that count for nothing may be left out.
LEMMA SumSubset ==
    ASSUME NEW S, IsFiniteSet(S), NEW f, \A x \in S : f[x] \in Int,
           NEW T \in SUBSET S, \A x \in S \ T : f[x] = 0
    PROVE  SumFunctionOnSet(f, S) = SumFunctionOnSet(f, T)
<1> DEFINE G == {U \in SUBSET S : SumFunctionOnSet(f, U) = SumFunctionOnSet(f, U \cap T)}
<1>1. ASSUME NEW U \in SUBSET S, \A V \in SUBSET U : V # U => V \in G
      PROVE  U \in G
  <2>1. IsFiniteSet(U)
    BY FS_Subset
  <2>2. CASE U = {}
    <3>1. U \cap T = {}
      BY <2>2
    <3> QED
      BY <2>2, <3>1
  <2>3. CASE U # {}
    <3> DEFINE p == Pick(U)
               w == U \ {p}
    <3>1. p \in U /\ w \in SUBSET U /\ w # U
      BY <2>3, PickIn
    <3>2. SumFunctionOnSet(f, U) = f[p] + SumFunctionOnSet(f, w)
      BY <2>1, <2>3, SumStep
    <3>3. SumFunctionOnSet(f, w) = SumFunctionOnSet(f, w \cap T)
      BY <1>1, <3>1
    <3>4. CASE p \in T
      <4>1. w \cap T = (U \cap T) \ {p} /\ p \in U \cap T
        BY <3>1, <3>4
      <4> HIDE DEF p, w
      <4>2. SumFunctionOnSet(f, U \cap T) = f[p] + SumFunctionOnSet(f, (U \cap T) \ {p})
        BY <4>1, SumRemove
      <4>3. SumFunctionOnSet(f, w) = SumFunctionOnSet(f, (U \cap T) \ {p})
        BY <3>3, <4>1
      <4>4. SumFunctionOnSet(f, U) = SumFunctionOnSet(f, U \cap T)
        BY <3>2, <4>2, <4>3
      <4> QED
        BY <4>4
    <3>5. CASE p \notin T
      <4>1. w \cap T = U \cap T /\ f[p] = 0
        BY <3>1, <3>5
      <4> HIDE DEF p, w
      <4>2. SumFunctionOnSet(f, w) \in Int
        BY <3>1, SumInt
      <4>3. SumFunctionOnSet(f, w) = SumFunctionOnSet(f, U \cap T)
        BY <3>3, <4>1
      <4>4. SumFunctionOnSet(f, U) = SumFunctionOnSet(f, U \cap T)
        BY <3>2, <4>1, <4>2, <4>3
      <4> QED
        BY <4>4
    <3> QED
      BY <3>4, <3>5
  <2> QED
    BY <2>2, <2>3
<1> HIDE DEF G
<1>2. S \in G
  BY <1>1, SetInduction
<1>3. S \cap T = T
  OBVIOUS
<1> QED
  BY <1>2, <1>3 DEF G

\* The summands may be numbered in another way.
LEMMA SumReindex ==
    ASSUME NEW S, IsFiniteSet(S), NEW D, IsFiniteSet(D), NEW h \in [S -> D],
           \A x, y \in S : h[x] = h[y] => x = y,
           NEW f, NEW g, \A x \in S : f[x] = g[h[x]], \A y \in D : g[y] \in Int
    PROVE  SumFunctionOnSet(f, S) = SumFunctionOnSet(g, {h[x] : x \in S})
<1> DEFINE image(T) == {h[x] : x \in T}
           G == {T \in SUBSET S : SumFunctionOnSet(f, T) = SumFunctionOnSet(g, image(T))}
<1>1. ASSUME NEW T \in SUBSET S, \A U \in SUBSET T : U # T => U \in G
      PROVE  T \in G
  <2>1. IsFiniteSet(T)
    BY FS_Subset
  <2>2. CASE T = {}
    <3>1. image(T) = {}
      BY <2>2
    <3> QED
      BY <2>2, <3>1, SumEmpty
  <2>3. CASE T # {}
    <3> DEFINE p == Pick(T)
               w == T \ {p}
    <3>1. p \in T /\ w \in SUBSET T /\ w # T
      BY <2>3, PickIn
    <3>2. SumFunctionOnSet(f, T) = f[p] + SumFunctionOnSet(f, w)
      BY <2>1, <2>3, SumStep
    <3>3. SumFunctionOnSet(f, w) = SumFunctionOnSet(g, image(w))
      BY <1>1, <3>1
    <3>4. image(w) = image(T) \ {h[p]} /\ h[p] \in image(T) /\ image(T) \in SUBSET D
      BY <3>1
    <3> HIDE DEF p, w, image
    <3>5. SumFunctionOnSet(g, image(T)) = g[h[p]] + SumFunctionOnSet(g, image(T) \ {h[p]})
      BY <3>4, SumRemove
    <3>6. f[p] = g[h[p]]
      BY <3>1
    <3> QED
      BY <3>2, <3>3, <3>4, <3>5, <3>6
  <2> QED
    BY <2>2, <2>3
<1> HIDE DEF G
<1>2. S \in G
  BY <1>1, SetInduction
<1> QED
  BY <1>2 DEF G

\* One summand that grows by one.
LEMMA SumBump ==
    ASSUME NEW S, IsFiniteSet(S), NEW f, NEW g, NEW p \in S,
           \A x \in S : f[x] \in Int /\ g[x] = IF x = p THEN f[x] + 1 ELSE f[x]
    PROVE  SumFunctionOnSet(g, S) = SumFunctionOnSet(f, S) + 1
<1>1. \A x \in S : f[x] \in Int /\ g[x] \in Int
  OBVIOUS
<1>2. SumFunctionOnSet(f, S) = f[p] + SumFunctionOnSet(f, S \ {p})
  BY <1>1, SumRemove
<1>3. SumFunctionOnSet(g, S) = g[p] + SumFunctionOnSet(g, S \ {p})
  BY <1>1, SumRemove
<1>4. IsFiniteSet(S \ {p}) /\ \A x \in S \ {p} : f[x] \in Int /\ f[x] = g[x]
  BY FS_Subset
<1>5. SumFunctionOnSet(f, S \ {p}) = SumFunctionOnSet(g, S \ {p})
  BY <1>4, SumEqual
<1>6. SumFunctionOnSet(f, S \ {p}) \in Int
  BY <1>1, SumInt
<1> QED
  BY <1>1, <1>2, <1>3, <1>5, <1>6

-----------------------------------------------------------------------------
(* The inductive invariant.  `start' are the counters at the first read;    *)
(* what the two samples hold is said in terms of them, of the kernel's      *)
(* present state and of the lines the machine had.                          *)

\* How the kernel prints a count.
Shown(c, n) == IF c \in Short THEN n % U32 ELSE n

Shape ==
    /\ coll \in Collectors
    /\ step \in Nat \ {0}
    /\ status \in {"running", "done", "cancelled", "panic"}
    /\ events \in Nat /\ events <= MaxEvents
    /\ counter \in [Keys -> Nat]
    /\ truth \in [Keys -> Nat]
    /\ DOMAIN live = Files

\* A counter never runs ahead of the events, and shows exactly them unless the
\* kernel took some back or the line is another object now.  A line that is
\* absent throughout counts nothing.
CounterOf(start, k) ==
    /\ truth[k] <= events
    /\ counter[k] <= start[k] + truth[k]
    /\ (/\ k[1] = "stat" => k[2] \notin takenBack
        /\ k[1] \in NewObject => <<k[1], k[2]>> \notin replaced)
       => counter[k] = Shown(k[3], start[k] + truth[k])
    /\ k[2] \notin Present[k[1]] /\ <<k[1], k[2]>> \notin replaced => truth[k] = 0
    /\ k[1] \notin DOMAIN first => counter[k] = start[k]

LinesOf(f) ==
    /\ live[f] \subseteq Lines(f)
    /\ f \notin DOMAIN first => live[f] = Present[f]
    /\ \A l \in Lines(f) : <<f, l>> \notin replaced => (l \in live[f] <=> l \in Present[f])

\* The states of a CPU, and the time in all of them.
States == {"user", "nice", "system", "iowait", "idle", "irq"}
InAll(g) == g["user"] + g["nice"] + g["system"] + g["iowait"] + g["idle"] + g["irq"]

\* No two CPUs account for the same event.
TimeBounded == SumFunction([c \in CPUs |-> TrueTime(c)]) <= events

\* Where Collect is: what it has read, by the steps behind it.
Behind(op) == {f \in Files : \E i \in 1 .. step - 1 : Script(coll)[i] = <<op, f>>}

Progress ==
    /\ status = "running" => step \in DOMAIN Script(coll)
    /\ DOMAIN first = Behind("first")
    /\ DOMAIN second = Behind("second")
    /\ status = "done" => DOMAIN first \subseteq DOMAIN second
                          /\ \A i \in DOMAIN Script(coll) : i < step
    /\ status = "panic" => "snmp" \in unread

\* What the samples hold.  The UDP counters of the second one are lost.
FirstOf(start, f) ==
    \E ok \in BOOLEAN : (ok \/ f \in unread) /\ first[f] = Read(f, ok, start, Present)
SecondOf(f) ==
    \E ok \in BOOLEAN :
        /\ ok \/ f \in unread
        /\ \/ second[f] = Read(f, ok, counter, live)
           \/ f = "snmp" /\ second[f] = [parseSNMP(ok, counter) EXCEPT !.UDP = 0]

TopOf ==
    Done("process") =>
        \E byCPU \in SortedBy([p \in Listed |-> CPUPct(p)]),
           byMem \in SortedBy([p \in Listed |-> Rss[p]]) : top = ProcessLists(byCPU, byMem)

Since(start) ==
    /\ Shape
    /\ \A k \in Keys : CounterOf(start, k)
    /\ \A f \in Files : LinesOf(f)
    /\ TimeBounded
    /\ Progress
    /\ \A f \in DOMAIN first : FirstOf(start, f)
    /\ \A f \in DOMAIN second : SecondOf(f)
    /\ TopOf

\* What the two samples of a collector hold, in every reachable state: each was
\* read from the kernel as it was at its time or is empty because the file could
\* not be read, and the counters of a line that stayed differ by its events.
SamplesFaithful == \E start \in Starts : Since(start)

-----------------------------------------------------------------------------
(* Constants, counters and the steps of Collect.                            *)

\* The numbers among the constants.
LEMMA Numbers ==
    /\ U64 \in Nat /\ U32 \in Nat /\ MaxEvents \in Nat /\ MaxFaults \in Nat /\ TopN \in Nat
    /\ 0 < U64 /\ 0 < U32 /\ 0 < TopN /\ 2 * U32 <= U64 /\ MaxEvents < U64 \div 2
BY SamplingAssumption

\* A key is a file, a line of it and a counter of the line.
LEMMA KeyParts ==
    ASSUME NEW k \in Keys
    PROVE  /\ k[1] \in Files /\ k[2] \in Lines(k[1]) /\ k[3] \in Counters(k[1])
           /\ k = <<k[1], k[2], k[3]>>
<1>1. PICK f \in Files : k \in {<<f, l, c>> : l \in Lines(f), c \in Counters(f)}
  BY DEF Keys
<1>2. PICK l \in Lines(f) : \E c \in Counters(f) : k = <<f, l, c>>
  BY <1>1
<1>3. PICK c \in Counters(f) : k = <<f, l, c>>
  BY <1>2
<1> QED
  BY <1>3

\* Every counter of every line of a file has a key.
LEMMA KeyIn ==
    ASSUME NEW f \in Files, NEW l \in Lines(f), NEW c \in Counters(f)
    PROVE  <<f, l, c>> \in Keys
BY DEF Keys

\* The counters at the first read are below the 32-bit wrap.
LEMMA StartBelow ==
    ASSUME NEW start \in Starts
    PROVE  start \in [Keys -> Nat] /\ \A k \in Keys : start[k] < U32
<1>1. start \in [Keys -> 0 .. U32 - 1]
  BY SamplingAssumption
<1> QED
  BY <1>1, Numbers

\* Remainders of numbers within one modulus of the range.
LEMMA ModBelow ==
    ASSUME NEW n \in Nat, n > 0, NEW a \in Int
    PROVE  /\ a % n \in 0 .. n - 1
           /\ 0 <= a => a % n <= a
           /\ 0 <= a /\ a < n => a % n = a
           /\ a < 0 /\ -n <= a => a % n = a + n
  OBVIOUS

\* The remainder is the only one.
LEMMA ModUnique ==
    ASSUME NEW n \in Nat, n > 0, NEW b \in Int, NEW q \in Int, NEW r \in 0 .. n - 1, b = n * q + r
    PROVE  b % n = r
<1> DEFINE p == b \div n
           t == b % n
<1>1. p \in Int /\ t \in 0 .. n - 1 /\ b = n * p + t
  OBVIOUS
<1> HIDE DEF p, t
<1>2. ASSUME NEW x \in Int, NEW y \in Int, x < y PROVE n * x + n <= n * y
  <2>1. PICK d \in Nat : y = x + 1 + d
    <3>1. y - x - 1 \in Nat /\ y = x + 1 + (y - x - 1)
      BY <1>2
    <3> QED
      BY <3>1
  <2>2. n * y = n * x + n + n * d
    BY <2>1
  <2>3. n * d \in Nat
    OBVIOUS
  <2> QED
    BY <2>2, <2>3
<1>3. p \in Int /\ q \in Int /\ n * p \in Int /\ n * q \in Int
  BY <1>1
<1>4. ~(p < q)
  <2>1. p < q => n * p + n <= n * q
    BY <1>2, <1>3
  <2> QED
    BY <1>1, <1>3, <2>1
<1>5. ~(q < p)
  <2>1. q < p => n * q + n <= n * p
    BY <1>2, <1>3
  <2> QED
    BY <1>1, <1>3, <2>1
<1>6. p = q
  BY <1>3, <1>4, <1>5
<1> QED
  BY <1>1, <1>3, <1>6 DEF t

\* A counter with 32 bits that counts one more.
LEMMA ModStep ==
    ASSUME NEW n \in Nat, n > 0, NEW a \in Nat
    PROVE  ((a % n) + 1) % n = (a + 1) % n
<1> DEFINE r == a % n
           q == a \div n
<1>1. q \in Int /\ r \in 0 .. n - 1 /\ a = n * q + r
  OBVIOUS
<1> HIDE DEF q, r
<1>2. CASE r + 1 < n
  <2>1. (r + 1) % n = r + 1
    BY <1>1, <1>2, ModBelow
  <2>2. r + 1 \in 0 .. n - 1 /\ a + 1 = n * q + (r + 1)
    BY <1>1, <1>2
  <2>3. (a + 1) % n = r + 1
    BY <1>1, <2>2, ModUnique
  <2> QED
    BY <2>1, <2>3 DEF r
<1>3. CASE r + 1 = n
  <2>1. (r + 1) % n = 0
    <3>1. n = n * 1 + 0 /\ 0 \in 0 .. n - 1
      OBVIOUS
    <3>2. n % n = 0
      BY <3>1, ModUnique
    <3> QED
      BY <1>3, <3>2
  <2> DEFINE m == q + 1
             b == a + 1
  <2>2. 0 \in 0 .. n - 1 /\ m \in Int /\ b \in Int /\ b = n * m + 0
    BY <1>1, <1>3
  <2> HIDE DEF m, b
  <2>3. b % n = 0
    BY <2>2, ModUnique
  <2> QED
    BY <2>1, <2>3 DEF r, b
<1> QED
  BY <1>1, <1>2, <1>3

\* There are finitely many CPUs, numbered from 1.
LEMMA CPUsFinite == IsFiniteSet(CPUs) /\ DOMAIN CPUSeq = 1 .. Len(CPUSeq) /\ Len(CPUSeq) \in Nat
<1>1. DOMAIN CPUSeq = 1 .. Len(CPUSeq) /\ Len(CPUSeq) \in Nat
  BY SamplingAssumption
<1>2. IsFiniteSet(DOMAIN CPUSeq)
  BY <1>1, FS_Interval
<1>3. CPUSeq \in Surjection(DOMAIN CPUSeq, CPUs)
  BY SamplingAssumption DEF Surjection, CPUs
<1> QED
  BY <1>1, <1>2, <1>3, FS_Surjection

\* What the order of the steps guarantees: a file is read once before the
\* interval and once after it, the output of ss is parsed after /proc/net/snmp
\* was read again, and the call returns at the end, with every file read twice.
InOrder(s) ==
    /\ DOMAIN s = 1 .. Len(s) /\ Len(s) \in Nat /\ 1 \in DOMAIN s
    /\ \A i \in DOMAIN s :
          /\ s[i] = <<s[i][1], s[i][2]>>
          /\ s[i][1] \in {"first", "second"} => s[i][2] \in Files
          /\ s[i][1] = "first" =>
                \A j \in 1 .. i - 1 : s[j] # <<"first", s[i][2]>> /\ s[j] # <<"second", s[i][2]>>
          /\ s[i][1] = "second" =>
                /\ \E j \in 1 .. i - 1 : s[j] = <<"first", s[i][2]>>
                /\ \A j \in 1 .. i - 1 : s[j] # <<"second", s[i][2]>>
          /\ s[i][1] \in {"ss", "substructs"} => \E j \in 1 .. i - 1 : s[j] = <<"second", "snmp">>
          /\ s[i][1] # "return" => i + 1 \in DOMAIN s
          /\ s[i][1] = "return" =>
                /\ \A j \in DOMAIN s : j < i + 1
                /\ \A f \in Files : (\E j \in 1 .. i - 1 : s[j] = <<"first", f>>)
                                       => \E j \in 1 .. i - 1 : s[j] = <<"second", f>>

\* The steps of the four collectors that read one file.
LEMMA TwiceInOrder ==
    ASSUME NEW f \in Files
    PROVE  InOrder(Twice(f))
<1> DEFINE s == Twice(f)
<1>1. /\ DOMAIN s = 1 .. 4 /\ Len(s) = 4
      /\ s[1] = <<"first", f>> /\ s[2] = <<"sleep", "all">>
      /\ s[3] = <<"second", f>> /\ s[4] = <<"return", "all">>
  BY DEF Twice
<1> HIDE DEF s
<1>2. \A i \in DOMAIN s : i = 1 \/ i = 2 \/ i = 3 \/ i = 4
  BY <1>1
<1> QED
  BY <1>1, <1>2 DEF InOrder, s

\* The steps of the network collector.
LEMMA NetworkInOrder == InOrder(NetworkSteps)
<1> DEFINE s == NetworkSteps
<1>1. /\ DOMAIN s = 1 .. 14 /\ Len(s) = 14
      /\ s[1] = <<"first", "netdev">> /\ s[2] = <<"first", "snmp">>
      /\ s[3] = <<"first", "softirqs">> /\ s[4] = <<"first", "softnet">>
      /\ s[5] = <<"first", "netstat">> /\ s[6] = <<"sleep", "all">>
      /\ s[7] = <<"second", "netdev">> /\ s[8] = <<"second", "snmp">>
      /\ s[9] = <<"ss", "all">> /\ s[10] = <<"substructs", "all">>
      /\ s[11] = <<"second", "softnet">> /\ s[12] = <<"second", "softirqs">>
      /\ s[13] = <<"second", "netstat">> /\ s[14] = <<"return", "all">>
  BY DEF NetworkSteps
<1> HIDE DEF s
<1>2. \A i \in 1 .. 14 : \/ i = 1 \/ i = 2 \/ i = 3 \/ i = 4 \/ i = 5 \/ i = 6 \/ i = 7
                          \/ i = 8 \/ i = 9 \/ i = 10 \/ i = 11 \/ i = 12 \/ i = 13 \/ i = 14
  OBVIOUS
<1>3. DOMAIN s = 1 .. Len(s) /\ Len(s) \in Nat /\ 1 \in DOMAIN s
  BY <1>1
<1> SUFFICES ASSUME NEW i \in 1 .. 14
             PROVE  /\ s[i] = <<s[i][1], s[i][2]>>
                    /\ s[i][1] \in {"first", "second"} => s[i][2] \in Files
                    /\ s[i][1] = "first" =>
                          \A j \in 1 .. i - 1 : s[j] # <<"first", s[i][2]>> /\ s[j] # <<"second", s[i][2]>>
                    /\ s[i][1] = "second" =>
                          /\ \E j \in 1 .. i - 1 : s[j] = <<"first", s[i][2]>>
                          /\ \A j \in 1 .. i - 1 : s[j] # <<"second", s[i][2]>>
                    /\ s[i][1] \in {"ss", "substructs"} => \E j \in 1 .. i - 1 : s[j] = <<"second", "snmp">>
                    /\ s[i][1] # "return" => i + 1 \in DOMAIN s
                    /\ s[i][1] = "return" =>
                          /\ \A j \in DOMAIN s : j < i + 1
                          /\ \A f \in Files : (\E j \in 1 .. i - 1 : s[j] = <<"first", f>>)
                                                 => \E j \in 1 .. i - 1 : s[j] = <<"second", f>>
  BY <1>1, <1>3 DEF InOrder, s
<1>4. s[i] = <<s[i][1], s[i][2]>> /\ (s[i][1] \in {"first", "second"} => s[i][2] \in Files)
  BY <1>1, <1>2 DEF Files
<1>5. ASSUME s[i][1] = "first"
      PROVE  \A j \in 1 .. i - 1 : s[j] # <<"first", s[i][2]>> /\ s[j] # <<"second", s[i][2]>>
  <2>1. i \in {1, 2, 3, 4, 5}
    BY <1>1, <1>2, <1>5
  <2> QED
    BY <1>1, <2>1
<1>6. ASSUME s[i][1] = "second"
      PROVE  /\ \E j \in 1 .. i - 1 : s[j] = <<"first", s[i][2]>>
             /\ \A j \in 1 .. i - 1 : s[j] # <<"second", s[i][2]>>
  <2>1. i \in {7, 8, 11, 12, 13}
    BY <1>1, <1>2, <1>6
  <2>2. \E j \in 1 .. 5 : s[j] = <<"first", s[i][2]>>
    BY <1>1, <2>1
  <2>3. \A j \in 1 .. i - 1 : s[j] # <<"second", s[i][2]>>
    BY <1>1, <1>2, <2>1
  <2> QED
    BY <2>1, <2>2, <2>3
<1>7. s[i][1] \in {"ss", "substructs"} => \E j \in 1 .. i - 1 : s[j] = <<"second", "snmp">>
  BY <1>1, <1>2
<1>8. s[i][1] # "return" => i + 1 \in DOMAIN s
  BY <1>1, <1>2
<1>9. ASSUME s[i][1] = "return"
      PROVE  /\ \A j \in DOMAIN s : j < i + 1
             /\ \A f \in Files : (\E j \in 1 .. i - 1 : s[j] = <<"first", f>>)
                                    => \E j \in 1 .. i - 1 : s[j] = <<"second", f>>
  <2>1. i = 14
    BY <1>1, <1>2, <1>9
  <2>2. ASSUME NEW f \in Files, NEW j \in 1 .. 13, s[j] = <<"first", f>>
        PROVE  \E k \in 1 .. 13 : s[k] = <<"second", f>>
    <3>1. j \in {1, 2, 3, 4, 5}
      BY <1>1, <1>2, <2>2
    <3> QED
      BY <1>1, <2>2, <3>1
  <2> QED
    BY <1>1, <2>1, <2>2
<1> QED
  BY <1>4, <1>5, <1>6, <1>7, <1>8, <1>9

\* Every collector reads each file once first and once second, in that order, and returns last.
LEMMA ScriptInOrder ==
    ASSUME NEW c \in Collectors
    PROVE  InOrder(Script(c))
<1>1. {"stat", "diskstats", "vmstat", "pids"} \subseteq Files
  BY DEF Files
<1>2. \/ Script(c) = NetworkSteps
      \/ \E f \in {"stat", "diskstats", "vmstat", "pids"} : Script(c) = Twice(f)
  BY DEF Script, Collectors
<1> QED
  BY <1>1, <1>2, TwiceInOrder, NetworkInOrder

\* Numbering the elements of a set of numbers by counting: every number from 1
\* to the size of the set is the number of one element.
LineNo(A, i) == Cardinality({j \in A : j <= i})
Online(ok, lv) == {i \in DOMAIN CPUSeq : ok /\ CPUSeq[i] \in lv["softnet"]}
OnlineAt(A, n) == CHOOSE i \in A : LineNo(A, i) = n

\* Counting the members up to one numbers a set of numbers without gaps.
LEMMA LinesNumbered ==
    ASSUME NEW N \in Nat, NEW A \in SUBSET (1 .. N)
    PROVE  /\ IsFiniteSet(A) /\ Cardinality(A) \in Nat
           /\ \A i \in A : LineNo(A, i) \in 1 .. Cardinality(A)
           /\ \A i, k \in A : LineNo(A, i) = LineNo(A, k) => i = k
           /\ \A n \in 1 .. Cardinality(A) : OnlineAt(A, n) \in A /\ LineNo(A, OnlineAt(A, n)) = n
<1> DEFINE upto(i) == {j \in A : j <= i}
<1>1. IsFiniteSet(1 .. N)
  BY FS_Interval
<1>2. IsFiniteSet(A) /\ Cardinality(A) \in Nat
  BY <1>1, FS_Subset, FS_CardinalityType
<1>3. \A i : upto(i) \in SUBSET A
  OBVIOUS
<1>4. \A i \in A : i \in upto(i) /\ i \in Nat
  OBVIOUS
<1>5. ASSUME NEW i \in A, NEW k \in A, i < k
      PROVE  upto(i) \subseteq upto(k) /\ k \notin upto(i)
  <2>1. i \in Int /\ k \in Int /\ \A j \in A : j \in Int
    OBVIOUS
  <2>2. ~(k <= i)
    BY <1>5, <2>1
  <2>3. \A j \in A : j <= i => j <= k
    BY <1>5, <2>1
  <2> QED
    BY <2>2, <2>3
<1>6. \A i : LineNo(A, i) = Cardinality(upto(i))
  BY DEF LineNo
<1> HIDE DEF upto
<1>7. \A i : IsFiniteSet(upto(i)) /\ Cardinality(upto(i)) \in Nat /\ Cardinality(upto(i)) <= Cardinality(A)
  BY <1>2, <1>3, FS_Subset, FS_CardinalityType
<1>8. ASSUME NEW i \in A PROVE LineNo(A, i) \in 1 .. Cardinality(A)
  <2>1. Cardinality(upto(i)) # 0
    BY <1>4, <1>7, FS_EmptySet
  <2> QED
    BY <1>2, <1>6, <1>7, <2>1
<1>9. ASSUME NEW i \in A, NEW k \in A, i < k PROVE LineNo(A, i) < LineNo(A, k)
  <2>1. upto(i) \in SUBSET upto(k) /\ upto(i) # upto(k)
    BY <1>4, <1>5, <1>9
  <2>2. Cardinality(upto(i)) <= Cardinality(upto(k)) /\ Cardinality(upto(i)) # Cardinality(upto(k))
    BY <1>7, <2>1, FS_Subset
  <2> QED
    BY <1>6, <1>7, <2>2
<1>10. ASSUME NEW i \in A, NEW k \in A, LineNo(A, i) = LineNo(A, k) PROVE i = k
  <2>1. LineNo(A, i) \in Nat
    BY <1>6, <1>7
  <2>2. i \in Nat /\ k \in Nat
    BY <1>4
  <2>3. ~(i < k) /\ ~(k < i)
    BY <1>9, <1>10, <2>1
  <2> QED
    BY <2>2, <2>3
<1> DEFINE no == [i \in A |-> LineNo(A, i)]
           size == Cardinality(A)
<1>11. no \in Injection(A, 1 .. size)
  BY <1>8, <1>10 DEF Injection, IsInjective
<1> HIDE DEF no
<1>12. IsFiniteSet(1 .. size) /\ Cardinality(1 .. size) = Cardinality(A)
  BY <1>2, FS_Interval
<1>13. no \in Surjection(A, 1 .. size)
  BY <1>11, <1>12, FS_Injection
<1>14. \A n \in 1 .. size : \E i \in A : no[i] = n
  BY <1>13 DEF Surjection
<1>15. \A n \in 1 .. size : \E i \in A : LineNo(A, i) = n
  BY <1>14 DEF no
<1>16. \A n \in 1 .. size : OnlineAt(A, n) \in A /\ LineNo(A, OnlineAt(A, n)) = n
  BY <1>15 DEF OnlineAt
<1> QED
  BY <1>2, <1>8, <1>10, <1>16

\* So the CPUs online are numbered by the lines of softnet_stat.
LEMMA OnlineNumbered ==
    ASSUME NEW ok, NEW lv
    PROVE  LET A == Online(ok, lv) IN
           /\ IsFiniteSet(A) /\ Cardinality(A) \in Nat
           /\ \A i \in A : LineNo(A, i) \in 1 .. Cardinality(A)
           /\ \A i, k \in A : LineNo(A, i) = LineNo(A, k) => i = k
           /\ \A n \in 1 .. Cardinality(A) : OnlineAt(A, n) \in A /\ LineNo(A, OnlineAt(A, n)) = n
<1>1. Online(ok, lv) \in SUBSET (1 .. Len(CPUSeq)) /\ Len(CPUSeq) \in Nat
  BY CPUsFinite DEF Online
<1> QED
  BY <1>1, LinesNumbered

\* A read of softnet_stat in terms of that numbering.
LEMMA SoftnetLines ==
    ASSUME NEW ok, NEW cn, NEW lv
    PROVE  parseSoftnetStat(ok, cn, lv) =
              [n \in 1 .. Cardinality(Online(ok, lv)) |->
                  cn[<<"softnet", CPUSeq[OnlineAt(Online(ok, lv), n)], "dropped">>]]
BY DEF parseSoftnetStat, Value, Online, OnlineAt, LineNo

\* A read returns nothing but the counters and the lines of its own file.
LEMMA ReadDepends ==
    ASSUME NEW f \in Files, NEW ok \in BOOLEAN, NEW cn, NEW dn, NEW lv, NEW mv,
           \A l \in Lines(f), c \in Counters(f) : cn[<<f, l, c>>] = dn[<<f, l, c>>],
           lv[f] = mv[f], lv[f] \subseteq Lines(f)
    PROVE  Read(f, ok, cn, lv) = Read(f, ok, dn, mv)
<1>1. CASE f = "stat"
  <2>1. Lines(f) = CPUs /\ Counters(f) = {"user", "nice", "system", "iowait", "idle", "irq"}
    BY <1>1 DEF Lines, Counters
  <2>2. \A s \in Counters("stat") :
           [c \in CPUs |-> Value(cn, "stat", c, s)] = [c \in CPUs |-> Value(dn, "stat", c, s)]
    BY <1>1, <2>1 DEF Value
  <2>3. \A s \in Counters("stat") :
           SumFunction([c \in CPUs |-> Value(cn, "stat", c, s)]) = SumFunction([c \in CPUs |-> Value(dn, "stat", c, s)])
    BY <2>2
  <2>4. [c \in lv["stat"] |-> [s \in Counters("stat") |-> Value(cn, "stat", c, s)]]
          = [c \in mv["stat"] |-> [s \in Counters("stat") |-> Value(dn, "stat", c, s)]]
    BY <1>1, <2>1 DEF Value
  <2>5. readProcStat(ok, cn, lv) = readProcStat(ok, dn, mv)
    BY <2>3, <2>4 DEF readProcStat
  <2> QED
    BY <1>1, <2>5 DEF Read
<1>2. CASE f = "diskstats"
  <2>1. Counters(f) = {"ops", "ticks"}
    BY <1>2 DEF Counters
  <2> QED
    BY <1>2, <2>1 DEF Read, readDiskStats, Value
<1>3. CASE f = "vmstat"
  BY <1>3 DEF Read, parseVmstat, Value, Lines, Counters
<1>4. CASE f = "pids"
  BY <1>4 DEF Read, readAllPIDs, Value, Lines, Counters
<1>5. CASE f = "netdev"
  BY <1>5 DEF Read, parseNetDev, Value, Lines, Counters
<1>6. CASE f = "snmp"
  BY <1>6 DEF Read, parseSNMP, Value, Lines, Counters
<1>7. CASE f = "softirqs"
  BY <1>7 DEF Read, readNetRxSoftirqs, Value, Lines, Counters, CPUs
<1>8. CASE f = "softnet"
  <2>1. Online(ok, lv) = Online(ok, mv)
    BY <1>8 DEF Online
  <2>2. \A i \in DOMAIN CPUSeq : cn[<<"softnet", CPUSeq[i], "dropped">>] = dn[<<"softnet", CPUSeq[i], "dropped">>]
    BY <1>8 DEF Lines, Counters, CPUs
  <2> DEFINE A == Online(ok, lv)
  <2>3. \A n \in 1 .. Cardinality(A) : OnlineAt(A, n) \in DOMAIN CPUSeq
    <3>1. A \subseteq DOMAIN CPUSeq
      BY DEF Online
    <3> QED
      BY <3>1, OnlineNumbered
  <2>4. parseSoftnetStat(ok, dn, mv) =
           [n \in 1 .. Cardinality(A) |-> dn[<<"softnet", CPUSeq[OnlineAt(A, n)], "dropped">>]]
    BY <2>1, SoftnetLines
  <2>5. parseSoftnetStat(ok, cn, lv) =
           [n \in 1 .. Cardinality(A) |-> cn[<<"softnet", CPUSeq[OnlineAt(A, n)], "dropped">>]]
    BY SoftnetLines
  <2> HIDE DEF A
  <2>6. parseSoftnetStat(ok, cn, lv) = parseSoftnetStat(ok, dn, mv)
    BY <2>2, <2>3, <2>4, <2>5
  <2> QED
    BY <1>8, <2>6 DEF Read
<1>9. CASE f = "netstat"
  BY <1>9 DEF Read, parseNetstat, Value, Lines, Counters
<1> QED
  BY <1>1, <1>2, <1>3, <1>4, <1>5, <1>6, <1>7, <1>8, <1>9 DEF Files

-----------------------------------------------------------------------------
(* The kernel's steps.                                                      *)

\* What every step of the kernel leaves alone: the collector and all files but
\* one, whose second read is still to come.
KernelFrame(f) ==
    /\ UNCHANGED <<coll, filter, step, status, ctxDone, first, second, top, unread>>
    /\ f \in Files /\ Window(f)
    /\ \A k \in Keys : k[1] # f => counter'[k] = counter[k]
    /\ \A g \in Files : g # f => live'[g] = live[g]

\* A step of the kernel on an open file changes no sample that was taken.
LEMMA KernelKeepsSamples ==
    ASSUME NEW start \in Starts, Since(start), NEW f, KernelFrame(f)
    PROVE  /\ Progress'
           /\ \A g \in DOMAIN first' : FirstOf(start, g)'
           /\ \A g \in DOMAIN second' : SecondOf(g)'
           /\ TopOf'
<1>1. Progress'
  BY DEF KernelFrame, Since, Progress, Behind
<1>2. \A g \in DOMAIN first' : FirstOf(start, g)'
  BY DEF KernelFrame, Since, FirstOf
<1>3. ASSUME NEW g \in DOMAIN second PROVE SecondOf(g)'
  <2>1. g # f /\ g \in Files
    BY DEF KernelFrame, Window, Since, Progress, Behind
  <2>2. PICK ok \in BOOLEAN :
           /\ ok \/ g \in unread
           /\ \/ second[g] = Read(g, ok, counter, live)
              \/ g = "snmp" /\ second[g] = [parseSNMP(ok, counter) EXCEPT !.UDP = 0]
    BY DEF Since, SecondOf
  <2>3. \A l \in Lines(g), c \in Counters(g) : counter[<<g, l, c>>] = counter'[<<g, l, c>>]
    BY <2>1, KeyIn DEF KernelFrame
  <2>4. live[g] = live'[g] /\ live[g] \subseteq Lines(g)
    BY <2>1 DEF KernelFrame, Since, LinesOf
  <2>5. Read(g, ok, counter, live) = Read(g, ok, counter', live')
    BY <2>1, <2>3, <2>4, ReadDepends
  <2>6. g = "snmp" => parseSNMP(ok, counter) = parseSNMP(ok, counter')
    BY <2>5 DEF Read
  <2>7. second' = second /\ unread' = unread
    BY DEF KernelFrame
  <2> QED
    BY <2>2, <2>5, <2>6, <2>7 DEF SecondOf
<1>4. status # "done"
  BY DEF KernelFrame, Window, Since, Progress
<1>5. TopOf'
  BY <1>4 DEF KernelFrame, TopOf, Done
<1>6. second' = second
  BY DEF KernelFrame
<1> QED
  BY <1>1, <1>2, <1>3, <1>5, <1>6

\* The counters an event moves: one, or that of a partition and of its disk.
LEMMA CountedKeys ==
    ASSUME NEW f \in Files, NEW l \in Lines(f), NEW c \in Counters(f), NEW k \in Counted(f, l, c)
    PROVE  /\ k \in Keys /\ k[1] = f /\ k[3] = c
           /\ f = "stat" => k = <<f, l, c>>
<1>1. CASE k = <<f, l, c>>
  BY <1>1, KeyIn
<1>2. CASE k # <<f, l, c>>
  <2>1. f = "diskstats" /\ l \in Partitions /\ k = <<f, PartitionOf[l], c>>
    BY <1>2 DEF Counted
  <2>2. PartitionOf[l] \in Lines(f)
    BY <2>1, SamplingAssumption DEF Lines
  <2> QED
    BY <2>1, <2>2, KeyIn
<1> QED
  BY <1>1, <1>2

\* The time of a CPU is the sum of six natural numbers.
LEMMA TimeNat ==
    ASSUME truth \in [Keys -> Nat], NEW c \in CPUs
    PROVE  /\ TrueTime(c) \in Nat
           /\ \A s \in Counters("stat") :
                 <<"stat", c, s>> \in Keys /\ truth[<<"stat", c, s>>] \in Nat
                 /\ truth[<<"stat", c, s>>] <= TrueTime(c)
<1>1. Lines("stat") = CPUs /\ "stat" \in Files
  BY DEF Lines, Files
<1>2. \A s \in Counters("stat") : <<"stat", c, s>> \in Keys /\ truth[<<"stat", c, s>>] \in Nat
  BY <1>1, KeyIn
<1>3. Counters("stat") = {"user", "nice", "system", "iowait", "idle", "irq"}
  BY DEF Counters
<1> QED
  BY <1>2, <1>3 DEF TrueTime, TrueUser, Truth

\* An event of a CPU makes its time, and that of the machine, longer by one.
LEMMA CountKeepsTime ==
    ASSUME truth \in [Keys -> Nat], TimeBounded, events \in Nat,
           NEW f \in Files, NEW l \in Lines(f), NEW c \in Counters(f),
           truth' = [k \in Keys |-> IF k \in Counted(f, l, c) THEN truth[k] + 1 ELSE truth[k]],
           events' = events + 1
    PROVE  TimeBounded'
<1> DEFINE time == [x \in CPUs |-> TrueTime(x)]
           timeN == [x \in CPUs |-> TrueTime(x)']
<1>1. /\ SumFunction(time) = SumFunctionOnSet(time, CPUs)
      /\ SumFunction(timeN) = SumFunctionOnSet(timeN, CPUs)
  BY DEF SumFunction
<1>2. \A x \in CPUs : time[x] \in Int
  BY TimeNat
<1>3. \A x \in CPUs, s \in Counters("stat") :
         truth'[<<"stat", x, s>>] = IF <<"stat", x, s>> \in Counted(f, l, c)
                                    THEN truth[<<"stat", x, s>>] + 1 ELSE truth[<<"stat", x, s>>]
  BY TimeNat
<1>4. Counters("stat") = {"user", "nice", "system", "iowait", "idle", "irq"}
  BY DEF Counters
<1>5. SumFunctionOnSet(time, CPUs) \in Int
  BY <1>2, CPUsFinite, SumInt
<1>6. CASE f # "stat"
  <2>1. \A x \in CPUs, s \in Counters("stat") : truth'[<<"stat", x, s>>] = truth[<<"stat", x, s>>]
    <3>1. \A k \in Counted(f, l, c) : k[1] = f
      BY CountedKeys
    <3>2. \A x, s : <<"stat", x, s>> \notin Counted(f, l, c)
      BY <1>6, <3>1
    <3> QED
      BY <1>3, <3>2
  <2>2. \A x \in CPUs : time[x] = timeN[x]
    BY <1>4, <2>1 DEF TrueTime, TrueUser, Truth
  <2>3. SumFunctionOnSet(time, CPUs) = SumFunctionOnSet(timeN, CPUs)
    BY <1>2, <2>2, CPUsFinite, SumEqual
  <2> QED
    BY <1>1, <1>5, <2>3 DEF TimeBounded
<1>7. CASE f = "stat"
  <2>1. Counted(f, l, c) = {<<"stat", l, c>>}
    BY <1>7 DEF Counted
  <2>2. l \in CPUs /\ c \in Counters("stat")
    BY <1>7 DEF Lines
  <2>3. \A x \in CPUs, s \in Counters("stat") :
           truth'[<<"stat", x, s>>] = IF x = l /\ s = c THEN truth[<<"stat", x, s>>] + 1 ELSE truth[<<"stat", x, s>>]
    BY <1>3, <2>1
  <2>4. \A x \in CPUs, s \in Counters("stat") : truth[<<"stat", x, s>>] \in Nat
    BY TimeNat
  <2>5. ASSUME NEW x \in CPUs
        PROVE  timeN[x] = IF x = l THEN time[x] + 1 ELSE time[x]
    <3> DEFINE old == [s \in States |-> truth[<<"stat", x, s>>]]
               new == [s \in States |-> truth'[<<"stat", x, s>>]]
    <3>1. \A s \in States : old[s] \in Nat /\ new[s] = IF x = l /\ s = c THEN old[s] + 1 ELSE old[s]
      BY <1>4, <2>3, <2>4 DEF States
    <3>2. c \in States
      BY <1>4, <2>2 DEF States
    <3>3. time[x] = InAll(old) /\ timeN[x] = InAll(new)
      BY DEF TrueTime, TrueUser, Truth, InAll, States
    <3> HIDE DEF old, new
    <3>4. InAll(new) = IF x = l THEN InAll(old) + 1 ELSE InAll(old)
      BY <3>1, <3>2 DEF InAll, States
    <3> HIDE DEF time, timeN
    <3> QED
      BY <3>3, <3>4
  <2> HIDE DEF time, timeN
  <2>6. SumFunctionOnSet(timeN, CPUs) = SumFunctionOnSet(time, CPUs) + 1
    BY <1>2, <2>2, <2>5, CPUsFinite, SumBump
  <2> QED
    BY <1>1, <1>5, <2>6 DEF TimeBounded, time, timeN
<1> QED
  BY <1>6, <1>7

\* An event moves counter and truth together.
LEMMA CountKeeps ==
    ASSUME NEW start \in Starts, Since(start),
           NEW f \in Files, NEW l \in Lines(f), NEW c \in Counters(f), Count(f, l, c)
    PROVE  Since(start)'
<1>1. /\ UNCHANGED <<coll, filter, step, status, ctxDone, first, second, top, unread, live, faults, replaced, takenBack>>
      /\ Window(f) /\ events < MaxEvents /\ events' = events + 1
      /\ \A k \in Counted(f, l, c) : k[2] \in live[f]
      /\ counter' = [k \in Keys |-> IF k \in Counted(f, l, c)
                                    THEN IF c \in Short THEN (counter[k] + 1) % U32 ELSE counter[k] + 1
                                    ELSE counter[k]]
      /\ truth' = [k \in Keys |-> IF k \in Counted(f, l, c) THEN truth[k] + 1 ELSE truth[k]]
  BY DEF Count
<1>2. \A k \in Counted(f, l, c) : k \in Keys /\ k[1] = f /\ k[3] = c
  BY CountedKeys
<1>3. Shape /\ TimeBounded /\ (\A k \in Keys : CounterOf(start, k)) /\ (\A g \in Files : LinesOf(g))
  BY DEF Since
<1>4. /\ counter \in [Keys -> Nat] /\ truth \in [Keys -> Nat] /\ events \in Nat
      /\ U32 \in Nat /\ U32 > 0 /\ MaxEvents \in Nat /\ start \in [Keys -> Nat]
  BY <1>3, Numbers, StartBelow DEF Shape
<1>5. Shape'
  <2>1. \A k \in Keys : (counter[k] + 1) % U32 \in Nat
    <3> SUFFICES ASSUME NEW k \in Keys PROVE (counter[k] + 1) % U32 \in Nat
      OBVIOUS
    <3>1. counter[k] + 1 \in Int
      BY <1>4
    <3> QED
      BY <1>4, <3>1, ModBelow
  <2>2. counter' \in [Keys -> Nat]
    BY <1>1, <1>4, <2>1
  <2>3. truth' \in [Keys -> Nat]
    BY <1>1, <1>4
  <2>4. events' \in Nat /\ events' <= MaxEvents
    BY <1>1, <1>4
  <2> QED
    BY <1>1, <1>3, <2>2, <2>3, <2>4 DEF Shape
<1>6. ASSUME NEW k \in Keys PROVE CounterOf(start, k)'
  <2>1. /\ counter[k] \in Nat /\ truth[k] \in Nat /\ start[k] \in Nat
        /\ CounterOf(start, k)
    BY <1>3, <1>4
  <2>2. CASE k \notin Counted(f, l, c)
    <3>1. counter'[k] = counter[k] /\ truth'[k] = truth[k]
      BY <1>1, <2>2
    <3>2. truth[k] <= events + 1
      BY <1>4, <2>1 DEF CounterOf
    <3> QED
      BY <1>1, <2>1, <3>1, <3>2 DEF CounterOf
  <2>3. CASE k \in Counted(f, l, c)
    <3>1. /\ counter'[k] = IF k[3] \in Short THEN (counter[k] + 1) % U32 ELSE counter[k] + 1
          /\ truth'[k] = truth[k] + 1
      BY <1>1, <1>2, <2>3
    <3>2. truth'[k] <= events'
      BY <1>1, <1>4, <2>1, <3>1 DEF CounterOf
    <3>3. counter'[k] <= start[k] + truth'[k]
      <4>1. counter[k] + 1 \in Int /\ 0 <= counter[k] + 1 /\ (counter[k] + 1) % U32 \in Int
        BY <1>4, <2>1
      <4>2. (counter[k] + 1) % U32 <= counter[k] + 1
        BY <1>4, <4>1, ModBelow
      <4>3. counter[k] <= start[k] + truth[k]
        BY <2>1 DEF CounterOf
      <4>4. counter'[k] \in Int /\ counter'[k] <= counter[k] + 1
        BY <2>1, <3>1, <4>1, <4>2
      <4> QED
        BY <2>1, <3>1, <4>3, <4>4
    <3>4. ASSUME counter[k] = Shown(k[3], start[k] + truth[k])
          PROVE  counter'[k] = Shown(k[3], start[k] + truth'[k])
      <4> DEFINE n == start[k] + truth[k]
      <4>1. n \in Nat /\ start[k] + truth'[k] = n + 1
        BY <2>1, <3>1
      <4>2. ((n % U32) + 1) % U32 = (n + 1) % U32
        BY <1>4, <4>1, ModStep
      <4> QED
        BY <3>1, <3>4, <4>1, <4>2 DEF Shown
    <3>5. k[2] \in Present[k[1]] \/ <<k[1], k[2]>> \in replaced
      <4>1. k[1] = f /\ k[2] \in live[f] /\ k[2] \in Lines(f)
        BY <1>1, <1>2, <2>3, KeyParts
      <4> QED
        BY <1>3, <4>1 DEF LinesOf
    <3>6. k[1] \in DOMAIN first
      BY <1>1, <1>2, <2>3 DEF Window
    <3> QED
      BY <1>1, <2>1, <3>2, <3>3, <3>4, <3>5, <3>6 DEF CounterOf
  <2> QED
    BY <2>2, <2>3
<1>7. \A g \in Files : LinesOf(g)'
  BY <1>1, <1>3 DEF LinesOf
<1>8. TimeBounded'
  BY <1>1, <1>3, <1>4, CountKeepsTime
<1>9. KernelFrame(f)
  <2>1. \A k \in Keys : k[1] # f => counter'[k] = counter[k]
    BY <1>1, <1>2
  <2> QED
    BY <1>1, <2>1 DEF KernelFrame
<1> QED
  BY <1>5, <1>6, <1>7, <1>8, <1>9, KernelKeepsSamples DEF Since

\* A line that leaves is replaced from then on.
LEMMA LeaveKeeps ==
    ASSUME NEW start \in Starts, Since(start), NEW f \in Files, NEW l \in Lines(f), Leave(f, l)
    PROVE  Since(start)'
<1>1. /\ UNCHANGED <<coll, filter, step, status, ctxDone, first, second, top, unread, counter, events, truth, takenBack>>
      /\ Window(f)
      /\ live' = [live EXCEPT ![f] = live[f] \ {l}]
      /\ replaced' = replaced \cup {<<f, l>>}
  BY DEF Leave
<1>2. Shape /\ TimeBounded /\ (\A k \in Keys : CounterOf(start, k)) /\ (\A g \in Files : LinesOf(g))
  BY DEF Since
<1>3. Shape'
  BY <1>1, <1>2 DEF Shape
<1>4. \A k \in Keys : CounterOf(start, k)'
  BY <1>1, <1>2 DEF CounterOf
<1>5. \A g \in Files : live'[g] = IF g = f THEN live[f] \ {l} ELSE live[g]
  BY <1>1, <1>2 DEF Shape
<1>6. ASSUME NEW g \in Files PROVE LinesOf(g)'
  BY <1>1, <1>2, <1>5 DEF LinesOf, Window
<1>7. TimeBounded'
  BY <1>1, <1>2 DEF TimeBounded, TrueTime, TrueUser, Truth
<1>8. KernelFrame(f)
  BY <1>1, <1>5 DEF KernelFrame
<1> QED
  BY <1>3, <1>4, <1>6, <1>7, <1>8, KernelKeepsSamples DEF Since

\* A line that joins may start from zero, and is replaced.
LEMMA JoinKeeps ==
    ASSUME NEW start \in Starts, Since(start), NEW f \in Files, NEW l \in Lines(f), Join(f, l)
    PROVE  Since(start)'
<1>1. /\ UNCHANGED <<coll, filter, step, status, ctxDone, first, second, top, unread, events, truth, takenBack>>
      /\ Window(f)
      /\ live' = [live EXCEPT ![f] = live[f] \cup {l}]
      /\ counter' = [k \in Keys |-> IF f \in NewObject /\ k[1] = f /\ k[2] = l THEN 0 ELSE counter[k]]
      /\ replaced' = replaced \cup {<<f, l>>}
  BY DEF Join
<1>2. Shape /\ TimeBounded /\ (\A k \in Keys : CounterOf(start, k)) /\ (\A g \in Files : LinesOf(g))
  BY DEF Since
<1>3. counter \in [Keys -> Nat] /\ truth \in [Keys -> Nat] /\ start \in [Keys -> Nat]
  BY <1>2, StartBelow DEF Shape
<1>4. Shape'
  <2>1. counter' \in [Keys -> Nat]
    BY <1>1, <1>3
  <2> QED
    BY <1>1, <1>2, <2>1 DEF Shape
<1>5. ASSUME NEW k \in Keys PROVE CounterOf(start, k)'
  <2>1. counter[k] \in Nat /\ truth[k] \in Nat /\ start[k] \in Nat /\ CounterOf(start, k)
    BY <1>2, <1>3
  <2>2. CASE f \in NewObject /\ k[1] = f /\ k[2] = l
    <3>1. counter'[k] = 0 /\ truth'[k] = truth[k] /\ <<k[1], k[2]>> \in replaced'
      BY <1>1, <2>2
    <3>2. 0 <= start[k] + truth[k]
      BY <2>1
    <3>3. k[1] \in DOMAIN first
      BY <1>1, <2>2 DEF Window
    <3> QED
      BY <1>1, <2>1, <2>2, <3>1, <3>2, <3>3 DEF CounterOf
  <2>3. CASE ~(f \in NewObject /\ k[1] = f /\ k[2] = l)
    <3>1. counter'[k] = counter[k] /\ truth'[k] = truth[k]
      BY <1>1, <2>3
    <3> QED
      BY <1>1, <2>1, <3>1 DEF CounterOf
  <2> QED
    BY <2>2, <2>3
<1>6. \A g \in Files : live'[g] = IF g = f THEN live[f] \cup {l} ELSE live[g]
  BY <1>1, <1>2 DEF Shape
<1>7. ASSUME NEW g \in Files PROVE LinesOf(g)'
  BY <1>1, <1>2, <1>6 DEF LinesOf, Window
<1>8. TimeBounded'
  BY <1>1, <1>2 DEF TimeBounded, TrueTime, TrueUser, Truth
<1>9. KernelFrame(f)
  <2>1. \A k \in Keys : k[1] # f => counter'[k] = counter[k]
    BY <1>1
  <2> QED
    BY <1>1, <1>6, <2>1 DEF KernelFrame
<1> QED
  BY <1>4, <1>5, <1>7, <1>8, <1>9, KernelKeepsSamples DEF Since

\* A correction by the kernel makes a counter smaller and marks its CPU.
LEMMA TakeBackKeeps ==
    ASSUME NEW start \in Starts, Since(start),
           NEW l \in CPUs, NEW c \in Counters("stat"), TakeBack(l, c)
    PROVE  Since(start)'
<1> DEFINE t == <<"stat", l, c>>
<1>1. /\ UNCHANGED <<coll, filter, step, status, ctxDone, first, second, top, unread, live, events, truth, replaced>>
      /\ Window("stat") /\ counter[t] > 0
      /\ counter' = [counter EXCEPT ![t] = counter[t] - 1]
      /\ takenBack' = takenBack \cup {l}
  BY DEF TakeBack
<1>2. Shape /\ TimeBounded /\ (\A k \in Keys : CounterOf(start, k)) /\ (\A g \in Files : LinesOf(g))
  BY DEF Since
<1>3. counter \in [Keys -> Nat] /\ truth \in [Keys -> Nat] /\ start \in [Keys -> Nat]
  BY <1>2, StartBelow DEF Shape
<1>4. "stat" \in Files /\ t \in Keys
  BY KeyIn DEF Files, Lines
<1>5. t[1] = "stat" /\ t[2] = l
  OBVIOUS
<1> HIDE DEF t
<1>6. Shape'
  <2>1. counter' \in [Keys -> Nat]
    BY <1>1, <1>3, <1>4
  <2> QED
    BY <1>1, <1>2, <2>1 DEF Shape
<1>7. ASSUME NEW k \in Keys PROVE CounterOf(start, k)'
  <2>1. counter[k] \in Nat /\ truth[k] \in Nat /\ start[k] \in Nat /\ CounterOf(start, k)
    BY <1>2, <1>3
  <2>2. CASE k = t
    <3>1. counter'[k] = counter[k] - 1 /\ truth'[k] = truth[k]
      BY <1>1, <1>3, <2>2
    <3>2. k[1] = "stat" /\ k[2] \in takenBack' /\ k[1] \in DOMAIN first
      BY <1>1, <1>5, <2>2 DEF Window
    <3>3. counter[k] - 1 <= start[k] + truth[k]
      BY <2>1 DEF CounterOf
    <3> QED
      BY <1>1, <2>1, <3>1, <3>2, <3>3 DEF CounterOf
  <2>3. CASE k # t
    <3>1. counter'[k] = counter[k] /\ truth'[k] = truth[k]
      BY <1>1, <1>3, <2>3
    <3> QED
      BY <1>1, <2>1, <3>1 DEF CounterOf
  <2> QED
    BY <2>2, <2>3
<1>8. \A g \in Files : LinesOf(g)'
  BY <1>1, <1>2 DEF LinesOf
<1>9. TimeBounded'
  BY <1>1, <1>2 DEF TimeBounded, TrueTime, TrueUser, Truth
<1>10. KernelFrame("stat")
  <2>1. \A k \in Keys : k[1] # "stat" => counter'[k] = counter[k]
    BY <1>1, <1>3, <1>5
  <2> QED
    BY <1>1, <1>4, <2>1 DEF KernelFrame
<1> QED
  BY <1>6, <1>7, <1>8, <1>9, <1>10, KernelKeepsSamples DEF Since

-----------------------------------------------------------------------------
(* The collector's steps.                                                   *)

\* A step of Collect leaves what is known of the kernel.
LEMMA KernelAtRest ==
    ASSUME NEW start, Since(start),
           UNCHANGED <<coll, counter, live, events, truth, replaced, takenBack>>,
           DOMAIN first \subseteq DOMAIN first',
           step' \in Nat \ {0}, status' \in {"running", "done", "cancelled", "panic"}
    PROVE  /\ Shape' /\ TimeBounded'
           /\ \A k \in Keys : CounterOf(start, k)'
           /\ \A f \in Files : LinesOf(f)'
<1>1. Shape /\ TimeBounded /\ (\A k \in Keys : CounterOf(start, k)) /\ (\A f \in Files : LinesOf(f))
  BY DEF Since
<1>2. Shape'
  BY <1>1 DEF Shape
<1>3. TimeBounded'
  BY <1>1 DEF TimeBounded, TrueTime, TrueUser, Truth
<1>4. \A k \in Keys : CounterOf(start, k)'
  BY <1>1 DEF CounterOf
<1>5. \A f \in Files : LinesOf(f)'
  BY <1>1 DEF LinesOf
<1> QED
  BY <1>2, <1>3, <1>4, <1>5

\* A step of the script: where it leads, and what it adds to the steps behind.
LEMMA OneStep ==
    ASSUME NEW start, Since(start), status = "running", step' = step + 1, coll' = coll
    PROVE  LET s == Script(coll)[step] IN
           /\ InOrder(Script(coll)) /\ step \in DOMAIN Script(coll)
           /\ step' \in Nat \ {0}
           /\ s[1] # "return" => step' \in DOMAIN Script(coll)
           /\ \A op : Behind(op)' = IF s[1] = op THEN Behind(op) \cup (Files \cap {s[2]}) ELSE Behind(op)
<1> DEFINE s == Script(coll)[step]
<1>1. InOrder(Script(coll)) /\ step \in DOMAIN Script(coll) /\ step \in Nat \ {0}
  BY ScriptInOrder DEF Since, Shape, Progress
<1>2. s = <<s[1], s[2]>> /\ (s[1] # "return" => step' \in DOMAIN Script(coll))
  BY <1>1 DEF InOrder
<1>3. 1 .. step' - 1 = (1 .. step - 1) \cup {step}
  BY <1>1
<1>4. ASSUME NEW op
      PROVE  Behind(op)' = Behind(op) \cup {f \in Files : s = <<op, f>>}
  BY <1>3 DEF Behind
<1>5. ASSUME NEW op
      PROVE  {f \in Files : s = <<op, f>>} = IF s[1] = op THEN Files \cap {s[2]} ELSE {}
  <2> HIDE DEF s
  <2>1. \A f : s = <<op, f>> <=> s[1] = op /\ s[2] = f
    BY <1>2
  <2> QED
    BY <2>1
<1> HIDE DEF s
<1>6. ASSUME NEW op
      PROVE  Behind(op)' = IF s[1] = op THEN Behind(op) \cup (Files \cap {s[2]}) ELSE Behind(op)
  BY <1>4, <1>5
<1> QED
  BY <1>1, <1>2, <1>6 DEF s

\* A first read finds the kernel as it was at the start.
LEMMA FirstReadKeeps ==
    ASSUME NEW start \in Starts, Since(start), NEW ok \in BOOLEAN, FirstRead(ok)
    PROVE  Since(start)'
<1> DEFINE f == Script(coll)[step][2]
<1>1. /\ status = "running" /\ Script(coll)[step][1] = "first"
      /\ first' = [g \in DOMAIN first \cup {f} |-> IF g = f THEN Read(f, ok, counter, live) ELSE first[g]]
      /\ unread' = IF ok THEN unread ELSE unread \cup {f}
      /\ step' = step + 1
      /\ UNCHANGED <<coll, filter, status, ctxDone, second, top, counter, live, events, truth, replaced, takenBack>>
  BY DEF FirstRead, At, Outcome
<1>2. /\ InOrder(Script(coll)) /\ step \in DOMAIN Script(coll)
      /\ step' \in Nat \ {0} /\ step' \in DOMAIN Script(coll)
      /\ Behind("first")' = Behind("first") \cup (Files \cap {f})
      /\ Behind("second")' = Behind("second")
  BY <1>1, OneStep
<1>3. f \in Files /\ f \notin Behind("first")
  BY <1>1, <1>2 DEF InOrder, Behind
<1> HIDE DEF f
<1>4. Progress
  BY DEF Since
<1>5. DOMAIN first' = DOMAIN first \cup {f}
  BY <1>1
<1>6. Progress'
  BY <1>1, <1>2, <1>3, <1>4, <1>5 DEF Progress
<1>7. ASSUME NEW g \in DOMAIN first' PROVE FirstOf(start, g)'
  <2>1. CASE g = f
    <3>1. \A l \in Lines(f), c \in Counters(f) : counter[<<f, l, c>>] = start[<<f, l, c>>]
      <4>1. f \notin DOMAIN first
        BY <1>3, <1>4 DEF Progress
      <4> SUFFICES ASSUME NEW l \in Lines(f), NEW c \in Counters(f)
                   PROVE  counter[<<f, l, c>>] = start[<<f, l, c>>]
        OBVIOUS
      <4>2. <<f, l, c>> \in Keys /\ <<f, l, c>>[1] = f
        BY <1>3, KeyIn
      <4> QED
        BY <4>1, <4>2 DEF Since, CounterOf
    <3>2. live[f] = Present[f] /\ live[f] \subseteq Lines(f)
      BY <1>3, <1>4 DEF Since, LinesOf, Progress
    <3>3. Read(f, ok, counter, live) = Read(f, ok, start, Present)
      BY <1>3, <3>1, <3>2, ReadDepends
    <3>4. first'[g] = Read(f, ok, start, Present) /\ (ok \/ f \in unread')
      BY <1>1, <2>1, <3>3
    <3> QED
      BY <2>1, <3>4 DEF FirstOf
  <2>2. CASE g # f
    <3>1. g \in DOMAIN first /\ first'[g] = first[g]
      BY <1>1, <1>5, <2>2
    <3>2. unread \subseteq unread'
      BY <1>1
    <3> QED
      BY <3>1, <3>2 DEF Since, FirstOf
  <2> QED
    BY <2>1, <2>2
<1>8. \A g \in DOMAIN second' : SecondOf(g)'
  <2>1. unread \subseteq unread'
    BY <1>1
  <2> QED
    BY <1>1, <2>1 DEF Since, SecondOf
<1>9. TopOf'
  BY <1>1 DEF TopOf, Done
<1>10. /\ Shape' /\ TimeBounded'
       /\ \A k \in Keys : CounterOf(start, k)'
       /\ \A g \in Files : LinesOf(g)'
  BY <1>1, <1>2, <1>5, KernelAtRest
<1> QED
  BY <1>6, <1>7, <1>8, <1>9, <1>10 DEF Since

\* A second read finds the present kernel, which then rests for that file.
LEMMA SecondReadKeeps ==
    ASSUME NEW start \in Starts, Since(start), NEW ok \in BOOLEAN, SecondRead(ok)
    PROVE  Since(start)'
<1> DEFINE f == Script(coll)[step][2]
<1>1. /\ status = "running" /\ Script(coll)[step][1] = "second"
      /\ second' = [g \in DOMAIN second \cup {f} |-> IF g = f THEN Read(f, ok, counter, live) ELSE second[g]]
      /\ unread' = IF ok THEN unread ELSE unread \cup {f}
      /\ step' = step + 1
      /\ UNCHANGED <<coll, filter, status, ctxDone, first, top, counter, live, events, truth, replaced, takenBack>>
  BY DEF SecondRead, At, Outcome
<1>2. /\ InOrder(Script(coll)) /\ step \in DOMAIN Script(coll)
      /\ step' \in Nat \ {0} /\ step' \in DOMAIN Script(coll)
      /\ Behind("second")' = Behind("second") \cup (Files \cap {f})
      /\ Behind("first")' = Behind("first")
  BY <1>1, OneStep
<1>3. f \in Files /\ f \notin Behind("second")
  BY <1>1, <1>2 DEF InOrder, Behind
<1> HIDE DEF f
<1>4. Progress
  BY DEF Since
<1>5. DOMAIN second' = DOMAIN second \cup {f}
  BY <1>1
<1>6. Progress'
  BY <1>1, <1>2, <1>3, <1>4, <1>5 DEF Progress
<1>7. unread \subseteq unread'
  BY <1>1
<1>8. ASSUME NEW g \in DOMAIN second' PROVE SecondOf(g)'
  <2>1. CASE g = f
    <3>1. second'[g] = Read(f, ok, counter', live') /\ (ok \/ f \in unread')
      BY <1>1, <2>1
    <3> QED
      BY <2>1, <3>1 DEF SecondOf
  <2>2. CASE g # f
    <3>1. g \in DOMAIN second /\ second'[g] = second[g]
      BY <1>1, <1>5, <2>2
    <3>2. SecondOf(g)
      BY <3>1 DEF Since
    <3> QED
      BY <1>1, <1>7, <3>1, <3>2 DEF SecondOf
  <2> QED
    BY <2>1, <2>2
<1>9. \A g \in DOMAIN first' : FirstOf(start, g)'
  BY <1>1, <1>7 DEF Since, FirstOf
<1>10. TopOf'
  BY <1>1 DEF TopOf, Done
<1>11. /\ Shape' /\ TimeBounded'
       /\ \A k \in Keys : CounterOf(start, k)'
       /\ \A g \in Files : LinesOf(g)'
  BY <1>1, <1>2, KernelAtRest
<1> QED
  BY <1>6, <1>8, <1>9, <1>10, <1>11 DEF Since

\* The other steps that go on to the next one; second may lose its UDP counters.
LEMMA OtherStepKeeps ==
    ASSUME NEW start \in Starts, Since(start),
           status = "running", Script(coll)[step][1] \in {"sleep", "ss", "substructs"},
           step' = step + 1, status' \in {"running", "panic"}, status' = "panic" => "snmp" \in unread,
           UNCHANGED <<coll, filter, ctxDone, first, top, unread, kernel>>,
           DOMAIN second' = DOMAIN second,
           \A f \in DOMAIN second : SecondOf(f)'
    PROVE  Since(start)'
<1>1. /\ step' \in Nat \ {0} /\ step' \in DOMAIN Script(coll)
      /\ Behind("second")' = Behind("second") /\ Behind("first")' = Behind("first")
  BY OneStep DEF kernel
<1>2. Progress'
  BY <1>1 DEF Since, Progress
<1>3. \A g \in DOMAIN first' : FirstOf(start, g)'
  BY DEF Since, FirstOf
<1>4. TopOf'
  BY DEF TopOf, Done
<1>5. /\ Shape' /\ TimeBounded'
      /\ \A k \in Keys : CounterOf(start, k)'
      /\ \A g \in Files : LinesOf(g)'
  BY <1>1, KernelAtRest DEF kernel
<1> QED
  BY <1>2, <1>3, <1>4, <1>5 DEF Since

\* The sleep takes no sample.
LEMMA SleepKeeps ==
    ASSUME NEW start \in Starts, Since(start), Sleep
    PROVE  Since(start)'
<1>1. /\ status = "running" /\ Script(coll)[step][1] = "sleep" /\ step' = step + 1
      /\ UNCHANGED <<coll, filter, status, ctxDone, first, second, top, unread, kernel>>
  BY DEF Sleep, At
<1>2. \A f \in DOMAIN second : SecondOf(f)'
  BY <1>1 DEF Since, SecondOf, kernel
<1> QED
  BY <1>1, <1>2, OtherStepKeeps

\* The output of ss is parsed after /proc/net/snmp was read again.
LEMMA SNMPRead ==
    ASSUME NEW start, Since(start), status = "running", Script(coll)[step][1] \in {"ss", "substructs"}
    PROVE  "snmp" \in DOMAIN second
<1>1. InOrder(Script(coll)) /\ step \in DOMAIN Script(coll)
  BY ScriptInOrder DEF Since, Shape, Progress
<1>2. \E j \in 1 .. step - 1 : Script(coll)[j] = <<"second", "snmp">>
  BY <1>1 DEF InOrder
<1>3. "snmp" \in Behind("second")
  BY <1>2 DEF Behind, Files
<1> QED
  BY <1>3 DEF Since, Progress

\* The output of ss meets a nil pointer only after a failed read of snmp.
LEMMA SSKeeps ==
    ASSUME NEW start \in Starts, Since(start), NEW ok \in BOOLEAN, parseSSConnections(ok)
    PROVE  Since(start)'
<1>1. /\ status = "running" /\ Script(coll)[step][1] = "ss" /\ step' = step + 1
      /\ status' = IF ok /\ second["snmp"].nil THEN "panic" ELSE status
      /\ UNCHANGED <<coll, filter, ctxDone, first, second, top, unread, kernel>>
  BY DEF parseSSConnections, At
<1>2. \A f \in DOMAIN second : SecondOf(f)'
  BY <1>1 DEF Since, SecondOf, kernel
<1>3. ASSUME second["snmp"].nil PROVE "snmp" \in unread
  <2>1. SecondOf("snmp")
    BY <1>1, SNMPRead DEF Since
  <2>2. PICK b \in BOOLEAN :
           /\ b \/ "snmp" \in unread
           /\ \/ second["snmp"] = parseSNMP(b, counter)
              \/ second["snmp"] = [parseSNMP(b, counter) EXCEPT !.UDP = 0]
    BY <2>1 DEF SecondOf, Read
  <2>3. second["snmp"].nil = ~b
    BY <2>2 DEF parseSNMP
  <2> QED
    BY <1>3, <2>2, <2>3
<1> QED
  BY <1>1, <1>2, <1>3, OtherStepKeeps

\* Replacing the sub-structs costs the UDP counters of the second sample.
LEMMA InitSubStructsKeeps ==
    ASSUME NEW start \in Starts, Since(start), InitSubStructs
    PROVE  Since(start)'
<1>1. /\ status = "running" /\ Script(coll)[step][1] = "substructs" /\ step' = step + 1
      /\ second' = [second EXCEPT !["snmp"] = [second["snmp"] EXCEPT !.UDP = 0]]
      /\ UNCHANGED <<coll, filter, status, ctxDone, first, top, unread, kernel>>
  BY DEF InitSubStructs, At
<1>2. DOMAIN second' = DOMAIN second /\ "snmp" \in DOMAIN second
  BY <1>1, SNMPRead
<1>3. ASSUME NEW f \in DOMAIN second PROVE SecondOf(f)'
  <2>1. SecondOf(f)
    BY DEF Since
  <2>2. CASE f # "snmp"
    <3>1. second'[f] = second[f]
      BY <1>1, <2>2
    <3> QED
      BY <1>1, <2>1, <3>1 DEF SecondOf, kernel
  <2>3. CASE f = "snmp"
    <3>1. PICK b \in BOOLEAN :
             /\ b \/ "snmp" \in unread
             /\ \/ second["snmp"] = parseSNMP(b, counter)
                \/ second["snmp"] = [parseSNMP(b, counter) EXCEPT !.UDP = 0]
      BY <2>1, <2>3 DEF SecondOf, Read
    <3>2. [[parseSNMP(b, counter) EXCEPT !.UDP = 0] EXCEPT !.UDP = 0] = [parseSNMP(b, counter) EXCEPT !.UDP = 0]
      BY DEF parseSNMP
    <3>3. second'["snmp"] = [parseSNMP(b, counter) EXCEPT !.UDP = 0]
      <4>1. second'["snmp"] = [second["snmp"] EXCEPT !.UDP = 0]
        BY <1>1, <1>2
      <4> QED
        BY <3>1, <3>2, <4>1
    <3>4. counter' = counter /\ unread' = unread
      BY <1>1 DEF kernel
    <3> QED
      BY <2>3, <3>1, <3>3, <3>4 DEF SecondOf
  <2> QED
    BY <2>2, <2>3
<1> QED
  BY <1>1, <1>2, <1>3, OtherStepKeeps

\* Return builds the lists from the two samples, all of them taken.
LEMMA ReturnKeeps ==
    ASSUME NEW start \in Starts, Since(start), Return
    PROVE  Since(start)'
<1>1. /\ status = "running" /\ Script(coll)[step][1] = "return" /\ step' = step + 1
      /\ status' = "done"
      /\ UNCHANGED <<coll, filter, ctxDone, first, second, unread, kernel>>
  BY DEF Return, At
<1>2. /\ InOrder(Script(coll)) /\ step \in DOMAIN Script(coll) /\ step' \in Nat \ {0}
      /\ Behind("second")' = Behind("second") /\ Behind("first")' = Behind("first")
  BY <1>1, OneStep
<1>3. /\ \A i \in DOMAIN Script(coll) : i < step'
      /\ Behind("first") \subseteq Behind("second")
  BY <1>1, <1>2 DEF InOrder, Behind
<1>4. Progress'
  BY <1>1, <1>2, <1>3 DEF Since, Progress
<1>5. \A g \in DOMAIN first' : FirstOf(start, g)'
  BY <1>1 DEF Since, FirstOf
<1>6. \A g \in DOMAIN second' : SecondOf(g)'
  BY <1>1 DEF Since, SecondOf, kernel
<1>7. TopOf'
  <2> SUFFICES ASSUME coll = "process"
               PROVE  (\E byCPU \in SortedBy([p \in Listed |-> CPUPct(p)]),
                          byMem \in SortedBy([p \in Listed |-> Rss[p]]) : top = ProcessLists(byCPU, byMem))'
    BY <1>1 DEF TopOf, Done
  <2>1. \E byCPU \in SortedBy([p \in Listed |-> CPUPct(p)]),
           byMem \in SortedBy([p \in Listed |-> Rss[p]]) : top' = ProcessLists(byCPU, byMem)
    BY DEF Return
  <2>2. Listed' = Listed
    BY <1>1 DEF Listed, pidInCgroups, kernel
  <2>3. \A p : CPUPct(p)' = CPUPct(p)
    BY <1>1 DEF CPUPct
  <2> QED
    BY <2>1, <2>2, <2>3 DEF SortedBy, ProcessLists, FirstN
<1>8. /\ Shape' /\ TimeBounded'
      /\ \A k \in Keys : CounterOf(start, k)'
      /\ \A g \in Files : LinesOf(g)'
  BY <1>1, <1>2, KernelAtRest DEF kernel
<1> QED
  BY <1>4, <1>5, <1>6, <1>7, <1>8 DEF Since

\* Steps that touch neither the script nor the samples.
LEMMA RestKeeps ==
    ASSUME NEW start \in Starts, Since(start),
           UNCHANGED <<coll, filter, step, first, second, top, unread, kernel>>,
           status' \in {status, "cancelled"}
    PROVE  Since(start)'
<1>1. step' \in Nat \ {0} /\ status' \in {"running", "done", "cancelled", "panic"}
  BY DEF Since, Shape
<1>2. Progress'
  BY DEF Since, Progress, Behind
<1>3. \A g \in DOMAIN first' : FirstOf(start, g)'
  BY DEF Since, FirstOf
<1>4. \A g \in DOMAIN second' : SecondOf(g)'
  BY DEF Since, SecondOf, kernel
<1>5. TopOf'
  <2> SUFFICES ASSUME status = "done", coll = "process"
               PROVE  (\E byCPU \in SortedBy([p \in Listed |-> CPUPct(p)]),
                          byMem \in SortedBy([p \in Listed |-> Rss[p]]) : top = ProcessLists(byCPU, byMem))'
    BY DEF TopOf, Done
  <2>1. \E byCPU \in SortedBy([p \in Listed |-> CPUPct(p)]),
           byMem \in SortedBy([p \in Listed |-> Rss[p]]) : top = ProcessLists(byCPU, byMem)
    BY DEF Since, TopOf, Done
  <2>2. Listed' = Listed
    BY DEF Listed, pidInCgroups, kernel
  <2>3. \A p : CPUPct(p)' = CPUPct(p)
    BY DEF CPUPct
  <2> QED
    BY <2>1, <2>2, <2>3 DEF SortedBy, ProcessLists, FirstN
<1>6. /\ Shape' /\ TimeBounded'
      /\ \A k \in Keys : CounterOf(start, k)'
      /\ \A g \in Files : LinesOf(g)'
  BY <1>1, KernelAtRest DEF kernel
<1> QED
  BY <1>2, <1>3, <1>4, <1>5, <1>6 DEF Since

\* The counters of the initial state are the start.
LEMMA InitSince ==
    ASSUME Init, NEW start \in Starts, counter = start
    PROVE  Since(start)
<1>1. /\ coll \in Collectors /\ step = 1 /\ status = "running" /\ live = Present
      /\ first = << >> /\ second = << >> /\ events = 0 /\ truth = [k \in Keys |-> 0]
      /\ replaced = {} /\ takenBack = {} /\ unread = {}
  BY DEF Init
<1>2. DOMAIN first = {} /\ DOMAIN second = {}
  BY <1>1
<1>3. start \in [Keys -> Nat] /\ (\A k \in Keys : start[k] < U32) /\ U32 \in Nat /\ U32 > 0 /\ MaxEvents \in Nat
  BY StartBelow, Numbers
<1>4. Shape
  BY <1>1, <1>3, SamplingAssumption DEF Shape
<1>5. ASSUME NEW k \in Keys PROVE CounterOf(start, k)
  <2>1. truth[k] = 0 /\ start[k] \in Nat /\ start[k] < U32
    BY <1>1, <1>3
  <2>2. start[k] + 0 = start[k] /\ start[k] % U32 = start[k]
    BY <1>3, <2>1, ModBelow
  <2> QED
    BY <1>1, <2>1, <2>2 DEF CounterOf, Shown
<1>6. \A f \in Files : LinesOf(f)
  BY <1>1, SamplingAssumption DEF LinesOf
<1>7. TimeBounded
  <2> DEFINE time == [c \in CPUs |-> TrueTime(c)]
  <2>1. \A c \in CPUs : time[c] = 0
    <3> SUFFICES ASSUME NEW c \in CPUs PROVE TrueTime(c) = 0
      OBVIOUS
    <3>1. \A s \in Counters("stat") : <<"stat", c, s>> \in Keys
      BY <1>4, TimeNat DEF Shape
    <3>2. \A s \in {"user", "nice", "system", "iowait", "idle", "irq"} : truth[<<"stat", c, s>>] = 0
      BY <1>1, <3>1 DEF Counters
    <3> QED
      BY <3>2 DEF TrueTime, TrueUser, Truth
  <2>2. DOMAIN time = CPUs
    OBVIOUS
  <2> HIDE DEF time
  <2>3. SumFunction(time) = 0
    BY <2>1, <2>2, CPUsFinite, SumZero DEF SumFunction
  <2> QED
    BY <1>1, <2>3 DEF TimeBounded, time
<1>8. Progress
  <2>1. InOrder(Script(coll))
    BY <1>1, ScriptInOrder
  <2>2. \A op : Behind(op) = {}
    BY <1>1 DEF Behind
  <2> QED
    BY <1>1, <1>2, <2>1, <2>2 DEF Progress, InOrder
<1>9. TopOf
  BY <1>1 DEF TopOf, Done
<1> QED
  BY <1>2, <1>4, <1>5, <1>6, <1>7, <1>8, <1>9 DEF Since

\* Every step keeps the invariant for the same start.
LEMMA NextKeeps ==
    ASSUME NEW start \in Starts, Since(start), [Next]_vars
    PROVE  Since(start)'
<1>1. CASE UNCHANGED vars
  BY <1>1, RestKeeps DEF vars
<1>2. CASE Kernel
  <2>1. ASSUME NEW f \in Files, NEW l \in Lines(f), NEW c \in Counters(f), Count(f, l, c)
        PROVE  Since(start)'
    BY <2>1, CountKeeps
  <2>2. ASSUME NEW f \in Files, NEW l \in Lines(f), Leave(f, l) PROVE Since(start)'
    BY <2>2, LeaveKeeps
  <2>3. ASSUME NEW f \in Files, NEW l \in Lines(f), Join(f, l) PROVE Since(start)'
    BY <2>3, JoinKeeps
  <2>4. ASSUME NEW l \in CPUs, NEW c \in Counters("stat"), TakeBack(l, c) PROVE Since(start)'
    BY <2>4, TakeBackKeeps
  <2> QED
    BY <1>2, <2>1, <2>2, <2>3, <2>4 DEF Kernel
<1>3. CASE Collect
  <2>1. ASSUME NEW ok \in BOOLEAN, FirstRead(ok) PROVE Since(start)'
    BY <2>1, FirstReadKeeps
  <2>2. ASSUME NEW ok \in BOOLEAN, SecondRead(ok) PROVE Since(start)'
    BY <2>2, SecondReadKeeps
  <2>3. ASSUME NEW ok \in BOOLEAN, parseSSConnections(ok) PROVE Since(start)'
    BY <2>3, SSKeeps
  <2>4. CASE Cancel
    BY <2>4, RestKeeps DEF Cancel
  <2> QED
    BY <1>3, <2>1, <2>2, <2>3, <2>4, SleepKeeps, InitSubStructsKeeps, ReturnKeeps DEF Collect
<1>4. CASE Expire
  BY <1>4, RestKeeps DEF Expire
<1> QED
  BY <1>1, <1>2, <1>3, <1>4 DEF Next

\* Whatever the kernel does between the reads of cpu.go, disk.go, memory.go,
\* process.go and network.go, and whichever reads fail, the samples hold what
\* SamplesFaithful says of them.
THEOREM SamplesFaithfulHolds == Spec => []SamplesFaithful
<1>1. Init => SamplesFaithful
  <2> SUFFICES ASSUME Init PROVE SamplesFaithful
    OBVIOUS
  <2>1. counter \in Starts
    BY DEF Init
  <2>2. PICK start \in Starts : counter = start
    BY <2>1
  <2> QED
    BY <2>2, InitSince DEF SamplesFaithful
<1>2. SamplesFaithful /\ [Next]_vars => SamplesFaithful'
  <2> SUFFICES ASSUME SamplesFaithful, [Next]_vars PROVE SamplesFaithful'
    OBVIOUS
  <2>1. PICK start \in Starts : Since(start)
    BY DEF SamplesFaithful
  <2>2. Since(start)'
    BY <2>1, NextKeeps
  <2> QED
    BY <2>2 DEF SamplesFaithful
<1> QED
  BY <1>1, <1>2, PTL DEF Spec

-----------------------------------------------------------------------------
(* What the figures say.                                                    *)

\* A call that returned has read each of its files twice.
LEMMA DoneReads ==
    ASSUME NEW start, Since(start), status = "done",
           NEW f \in Files, NEW i \in DOMAIN Script(coll), Script(coll)[i] = <<"first", f>>
    PROVE  f \in DOMAIN first /\ f \in DOMAIN second /\ FirstOf(start, f) /\ SecondOf(f)
<1>1. InOrder(Script(coll)) /\ step \in Nat /\ i < step
  BY ScriptInOrder DEF Since, Shape, Progress
<1>2. i \in 1 .. step - 1
  BY <1>1 DEF InOrder
<1>3. f \in Behind("first")
  BY <1>2 DEF Behind
<1> QED
  BY <1>3 DEF Since, Progress

\* A collector of one file that is done has both of its samples.
LEMMA DoneTwice ==
    ASSUME NEW start, Since(start), status = "done"
    PROVE  /\ coll = "cpu" => FirstOf(start, "stat") /\ SecondOf("stat")
           /\ coll = "disk" => FirstOf(start, "diskstats") /\ SecondOf("diskstats")
           /\ coll = "memory" => FirstOf(start, "vmstat") /\ SecondOf("vmstat")
           /\ coll = "process" => FirstOf(start, "pids") /\ SecondOf("pids")
<1>1. ASSUME NEW f \in Files, Script(coll) = Twice(f) PROVE FirstOf(start, f) /\ SecondOf(f)
  <2>1. 1 \in DOMAIN Script(coll) /\ Script(coll)[1] = <<"first", f>>
    BY <1>1 DEF Twice
  <2> QED
    BY <2>1, DoneReads
<1>2. {"stat", "diskstats", "vmstat", "pids"} \subseteq Files
  BY DEF Files
<1>3. coll = "cpu" => Script(coll) = Twice("stat")
  BY DEF Script
<1>4. coll = "disk" => Script(coll) = Twice("diskstats")
  BY DEF Script
<1>5. coll = "memory" => Script(coll) = Twice("vmstat")
  BY DEF Script
<1>6. coll = "process" => Script(coll) = Twice("pids")
  BY DEF Script
<1> QED
  BY <1>1, <1>2, <1>3, <1>4, <1>5, <1>6

\* So has the network collector, of each of its files.
LEMMA DoneNetwork ==
    ASSUME NEW start, Since(start), status = "done", coll = "network",
           NEW f \in {"netdev", "snmp", "softirqs", "softnet", "netstat"}
    PROVE  f \in Files /\ FirstOf(start, f) /\ SecondOf(f)
<1>1. f \in Files
  BY DEF Files
<1>2. \E i \in DOMAIN Script(coll) : Script(coll)[i] = <<"first", f>>
  <2>1. Script(coll) = NetworkSteps
    BY DEF Script
  <2>2. /\ {1, 2, 3, 4, 5} \subseteq DOMAIN NetworkSteps
        /\ NetworkSteps[1] = <<"first", "netdev">> /\ NetworkSteps[2] = <<"first", "snmp">>
        /\ NetworkSteps[3] = <<"first", "softirqs">> /\ NetworkSteps[4] = <<"first", "softnet">>
        /\ NetworkSteps[5] = <<"first", "netstat">>
    BY DEF NetworkSteps
  <2> HIDE DEF NetworkSteps
  <2> QED
    BY <2>1, <2>2
<1> QED
  BY <1>1, <1>2, DoneReads

\* Unsigned subtraction of counters that did not run backwards.
LEMMA SubExact ==
    ASSUME NEW a \in Int, NEW b \in Int, a - b \in Nat, a - b < U64
    PROVE  Sub64(a, b) = a - b
BY Numbers, ModBelow DEF Sub64

\* What a line none of whose counters ran backwards has grown by.
Grown(before, after, g) ==
    \A s \in States : before[s] \in Int /\ g[s] \in Nat /\ after[s] = before[s] + g[s]

\* The differences cpu.go takes of two such lines are what the counters grew by.
LEMMA DeltaExact ==
    ASSUME NEW before, NEW after, NEW g, Grown(before, after, g), InAll(g) < U64
    PROVE  /\ totalDelta(before, after) = InAll(g) /\ InAll(g) \in Nat
           /\ userDelta(before, after) = g["user"] + g["nice"]
           /\ \A s \in States : Sub64(after[s], before[s]) = g[s]
<1>1. U64 \in Nat /\ 0 < U64
  BY Numbers
<1>2. /\ g["user"] \in Nat /\ g["nice"] \in Nat /\ g["system"] \in Nat
      /\ g["iowait"] \in Nat /\ g["idle"] \in Nat /\ g["irq"] \in Nat
  BY DEF Grown, States
<1>3. InAll(g) \in Nat
  BY <1>2 DEF InAll
<1>4. \A s \in States : g[s] < U64
  BY <1>1, <1>2 DEF InAll, States
<1>5. \A s \in States : Sub64(after[s], before[s]) = g[s]
  <2> SUFFICES ASSUME NEW s \in States PROVE Sub64(after[s], before[s]) = g[s]
    OBVIOUS
  <2>1. before[s] \in Int /\ g[s] \in Nat /\ after[s] = before[s] + g[s] /\ g[s] < U64
    BY <1>4 DEF Grown
  <2>2. after[s] \in Int /\ after[s] - before[s] = g[s]
    BY <2>1
  <2> QED
    BY <2>1, <2>2, SubExact
<1>6. totalDelta(before, after) = InAll(g)
  <2>1. cpuTotal(after) \in Int /\ cpuTotal(before) \in Int /\ cpuTotal(after) - cpuTotal(before) = InAll(g)
    BY DEF cpuTotal, Grown, States, InAll
  <2> QED
    BY <1>3, <2>1, SubExact DEF totalDelta
<1>7. userDelta(before, after) = g["user"] + g["nice"]
  <2>1. Sub64(after["user"], before["user"]) = g["user"] /\ Sub64(after["nice"], before["nice"]) = g["nice"]
    BY <1>5 DEF States
  <2>2. g["user"] + g["nice"] \in Int /\ 0 <= g["user"] + g["nice"] /\ g["user"] + g["nice"] < U64
    BY <1>1, <1>2 DEF InAll
  <2> QED
    BY <1>1, <2>1, <2>2, ModBelow DEF userDelta
<1> QED
  BY <1>3, <1>5, <1>6, <1>7

\* The shares of the machine are shares of one whole.
LEMMA MachineShares ==
    ASSUME NEW before, NEW after, NEW g, Grown(before, after, g), InAll(g) < U64
    PROVE  AddUp(computeDelta(before, after)) /\ computeDelta(before, after).total = InAll(g)
<1> DEFINE d == computeDelta(before, after)
<1>1. /\ totalDelta(before, after) = InAll(g)
      /\ userDelta(before, after) = g["user"] + g["nice"]
      /\ Sub64(after["system"], before["system"]) = g["system"]
      /\ Sub64(after["iowait"], before["iowait"]) = g["iowait"]
      /\ Sub64(after["idle"], before["idle"]) = g["idle"]
      /\ Sub64(after["irq"], before["irq"]) = g["irq"]
  BY DeltaExact DEF States
<1>2. CASE InAll(g) = 0
  <2>1. d = NoShares
    BY <1>1, <1>2 DEF computeDelta
  <2> QED
    BY <1>2, <2>1 DEF NoShares, AddUp
<1>3. CASE InAll(g) # 0
  <2>1. d = [total |-> InAll(g), UserPct |-> g["user"] + g["nice"], SystemPct |-> g["system"],
             IOWaitPct |-> g["iowait"], IdlePct |-> g["idle"], IRQPct |-> g["irq"]]
    BY <1>1, <1>3 DEF computeDelta
  <2> HIDE DEF d
  <2>2. /\ d.total = InAll(g) /\ d.UserPct = g["user"] + g["nice"] /\ d.SystemPct = g["system"]
        /\ d.IOWaitPct = g["iowait"] /\ d.IdlePct = g["idle"] /\ d.IRQPct = g["irq"]
    BY <2>1
  <2> QED
    BY <2>2 DEF AddUp, InAll, d
<1> QED
  BY <1>2, <1>3

\* The entry of one CPU.
LEMMA CPUEntry ==
    ASSUME NEW before, NEW after, NEW g, Grown(before, after, g), InAll(g) < U64
    PROVE  perCPUDelta(before, after) =
              [total |-> InAll(g), UserPct |-> g["user"] + g["nice"], SystemPct |-> g["system"],
               IOWaitPct |-> g["iowait"], IdlePct |-> g["idle"]]
<1>1. /\ totalDelta(before, after) = InAll(g)
      /\ userDelta(before, after) = g["user"] + g["nice"]
      /\ Sub64(after["system"], before["system"]) = g["system"]
      /\ Sub64(after["iowait"], before["iowait"]) = g["iowait"]
      /\ Sub64(after["idle"], before["idle"]) = g["idle"]
  BY DeltaExact DEF States
<1> QED
  BY <1>1 DEF perCPUDelta

\* The events of an interval fit a signed 64-bit number.
LEMMA EventsFit ==
    ASSUME NEW start, Since(start)
    PROVE  events \in Nat /\ events < U64 \div 2 /\ events < U64 /\ U64 \div 2 \in Nat /\ U64 \div 2 < U64
<1>1. events \in Nat /\ events <= MaxEvents
  BY DEF Since, Shape
<1>2. U64 \div 2 \in Nat /\ U64 \div 2 < U64
  BY Numbers
<1> HIDE DEF Since
<1> QED
  BY <1>1, <1>2, Numbers

\* The time of a CPU, and of the machine, is what its counters have grown by.
LEMMA StatGrowth ==
    ASSUME NEW start \in Starts, Since(start), NEW c \in CPUs, c \notin takenBack,
           NEW s \in {"user", "nice", "system", "iowait", "idle", "irq"}
    PROVE  /\ start[<<"stat", c, s>>] \in Nat /\ truth[<<"stat", c, s>>] \in Nat
           /\ counter[<<"stat", c, s>>] = start[<<"stat", c, s>>] + truth[<<"stat", c, s>>]
<1> DEFINE k == <<"stat", c, s>>
<1>1. k \in Keys /\ k[1] = "stat" /\ k[2] = c /\ k[3] = s
  BY KeyIn DEF Files, Lines, Counters
<1> HIDE DEF k
<1>2. start[k] \in Nat /\ truth[k] \in Nat /\ CounterOf(start, k)
  BY <1>1, StartBelow DEF Since, Shape
<1>3. k[1] \notin NewObject /\ k[3] \notin Short
  BY <1>1 DEF NewObject, Short
<1>4. counter[k] = start[k] + truth[k]
  BY <1>1, <1>2, <1>3 DEF CounterOf, Shown
<1> QED
  BY <1>2, <1>4 DEF k

\* The time of all CPUs fits the width of the counters.
LEMMA TimeFits ==
    ASSUME NEW start, Since(start)
    PROVE  LET time == [c \in CPUs |-> TrueTime(c)] IN
           /\ SumFunction(time) = SumFunctionOnSet(time, CPUs)
           /\ SumFunction(time) \in Nat /\ SumFunction(time) < U64
           /\ \A c \in CPUs : TrueTime(c) \in Nat /\ TrueTime(c) < U64
<1> DEFINE time == [c \in CPUs |-> TrueTime(c)]
<1>1. \A c \in CPUs : TrueTime(c) \in Nat
  BY TimeNat DEF Since, Shape
<1>2. \A c \in CPUs : time[c] = TrueTime(c)
  OBVIOUS
<1>3. SumFunction(time) = SumFunctionOnSet(time, CPUs)
  BY DEF SumFunction
<1>4. SumFunction(time) <= events
  BY DEF Since, TimeBounded
<1> HIDE DEF time
<1>5. SumFunctionOnSet(time, CPUs) \in Nat /\ \A c \in CPUs : time[c] <= SumFunctionOnSet(time, CPUs)
  BY <1>1, <1>2, CPUsFinite, SumNat
<1>6. events \in Nat /\ events < U64 /\ U64 \in Nat
  BY EventsFit, Numbers
<1>7. SumFunction(time) < U64
  BY <1>3, <1>4, <1>5, <1>6
<1>8. \A c \in CPUs : TrueTime(c) < U64
  BY <1>1, <1>2, <1>3, <1>5, <1>6, <1>7
<1> QED
  BY <1>1, <1>3, <1>5, <1>7, <1>8 DEF time

\* The first line of /proc/stat grows by the time of all CPUs.
LEMMA MachineGrowth ==
    ASSUME NEW start \in Starts, Since(start), takenBack = {}
    PROVE  LET all(cn, s) == SumFunction([c \in CPUs |-> Value(cn, "stat", c, s)]) IN
           /\ \A s \in {"user", "nice", "system", "iowait", "idle", "irq"} :
                 /\ all(start, s) \in Nat /\ all(truth, s) \in Nat
                 /\ all(counter, s) = all(start, s) + all(truth, s)
           /\ InAll([s \in States |-> all(truth, s)]) = SumFunction([c \in CPUs |-> TrueTime(c)])
<1> DEFINE fn(cn, s) == [c \in CPUs |-> Value(cn, "stat", c, s)]
           sum(cn, s) == SumFunctionOnSet(fn(cn, s), CPUs)
           S == States
<1>1. \A cn, s : SumFunction(fn(cn, s)) = sum(cn, s)
  BY DEF SumFunction
<1>2. \A c \in CPUs, s \in S :
         fn(start, s)[c] \in Nat /\ fn(truth, s)[c] \in Nat /\ fn(counter, s)[c] = fn(start, s)[c] + fn(truth, s)[c]
  BY StatGrowth DEF Value, States
<1> DEFINE time == [c \in CPUs |-> TrueTime(c)]
<1>3. \A c \in CPUs : time[c] = fn(truth, "user")[c] + fn(truth, "nice")[c] + fn(truth, "system")[c]
                                + fn(truth, "iowait")[c] + fn(truth, "idle")[c] + fn(truth, "irq")[c]
  BY DEF Value, TrueTime, TrueUser, Truth
<1>4. SumFunction(time) = SumFunctionOnSet(time, CPUs)
  BY DEF SumFunction
<1> HIDE DEF fn, time
<1>5. ASSUME NEW s \in S
      PROVE  sum(start, s) \in Nat /\ sum(truth, s) \in Nat /\ sum(counter, s) = sum(start, s) + sum(truth, s)
  <2>1. sum(start, s) \in Nat /\ sum(truth, s) \in Nat
    BY <1>2, CPUsFinite, SumNat
  <2>2. sum(counter, s) = sum(start, s) + sum(truth, s)
    <3>1. \A c \in CPUs : /\ fn(start, s)[c] \in Int /\ fn(truth, s)[c] \in Int
                           /\ fn(counter, s)[c] = fn(start, s)[c] + fn(truth, s)[c]
      BY <1>2
    <3> QED
      BY <3>1, CPUsFinite, SumAdd
  <2> QED
    BY <2>1, <2>2
<1>6. sum(truth, "user") + sum(truth, "nice") + sum(truth, "system") + sum(truth, "iowait")
         + sum(truth, "idle") + sum(truth, "irq") = SumFunctionOnSet(time, CPUs)
  <2> DEFINE f1 == [c \in CPUs |-> fn(truth, "user")[c] + fn(truth, "nice")[c]]
             f2 == [c \in CPUs |-> f1[c] + fn(truth, "system")[c]]
             f3 == [c \in CPUs |-> f2[c] + fn(truth, "iowait")[c]]
             f4 == [c \in CPUs |-> f3[c] + fn(truth, "idle")[c]]
  <2>1. \A c \in CPUs : /\ fn(truth, "user")[c] \in Int /\ fn(truth, "nice")[c] \in Int
                         /\ fn(truth, "system")[c] \in Int /\ fn(truth, "iowait")[c] \in Int
                         /\ fn(truth, "idle")[c] \in Int /\ fn(truth, "irq")[c] \in Int
    BY <1>2 DEF States
  <2>2. \A c \in CPUs : f1[c] \in Int /\ f1[c] = fn(truth, "user")[c] + fn(truth, "nice")[c]
    BY <2>1
  <2>3. \A c \in CPUs : f2[c] \in Int /\ f2[c] = f1[c] + fn(truth, "system")[c]
    BY <2>1, <2>2
  <2>4. \A c \in CPUs : f3[c] \in Int /\ f3[c] = f2[c] + fn(truth, "iowait")[c]
    BY <2>1, <2>3
  <2>5. \A c \in CPUs : f4[c] \in Int /\ f4[c] = f3[c] + fn(truth, "idle")[c]
    BY <2>1, <2>4
  <2> HIDE DEF f1, f2, f3, f4
  <2>6. \A c \in CPUs : time[c] = f4[c] + fn(truth, "irq")[c]
    BY <1>3, <2>1, <2>2, <2>3, <2>4, <2>5
  <2>7. SumFunctionOnSet(f1, CPUs) = sum(truth, "user") + sum(truth, "nice")
    BY <2>1, <2>2, CPUsFinite, SumAdd
  <2>8. SumFunctionOnSet(f2, CPUs) = SumFunctionOnSet(f1, CPUs) + sum(truth, "system")
    BY <2>1, <2>2, <2>3, CPUsFinite, SumAdd
  <2>9. SumFunctionOnSet(f3, CPUs) = SumFunctionOnSet(f2, CPUs) + sum(truth, "iowait")
    BY <2>1, <2>3, <2>4, CPUsFinite, SumAdd
  <2>10. SumFunctionOnSet(f4, CPUs) = SumFunctionOnSet(f3, CPUs) + sum(truth, "idle")
    BY <2>1, <2>4, <2>5, CPUsFinite, SumAdd
  <2>11. SumFunctionOnSet(time, CPUs) = SumFunctionOnSet(f4, CPUs) + sum(truth, "irq")
    BY <2>1, <2>5, <2>6, CPUsFinite, SumAdd
  <2> QED
    BY <2>7, <2>8, <2>9, <2>10, <2>11
<1> HIDE DEF sum
<1>7. \A s \in S : /\ SumFunction(fn(start, s)) \in Nat /\ SumFunction(fn(truth, s)) \in Nat
                    /\ SumFunction(fn(counter, s)) = SumFunction(fn(start, s)) + SumFunction(fn(truth, s))
  BY <1>1, <1>5
<1> DEFINE g == [s \in States |-> SumFunction(fn(truth, s))]
<1>8. InAll(g) = SumFunction(time)
  <2>1. \A s \in States : g[s] = sum(truth, s)
    BY <1>1
  <2> HIDE DEF g
  <2> QED
    BY <1>4, <1>6, <2>1 DEF InAll, States
<1> QED
  BY <1>7, <1>8 DEF fn, time, g, States

\* The invariant implies that the shares of cpu.go are right.
LEMMA SharesFromSamples == SamplesFaithful => CPUSharesExact
<1> SUFFICES ASSUME SamplesFaithful, status = "done", coll = "cpu", "stat" \notin unread
             PROVE  LET all == computeDelta(first["stat"].cpu, second["stat"].cpu)
                        per == computePerCPUDeltas(first["stat"].perCPU, second["stat"].perCPU)
                    IN  /\ takenBack = {} => AddUp(all) /\ all.total = SumFunction([c \in CPUs |-> TrueTime(c)])
                        /\ \A c \in DOMAIN per \ takenBack :
                              per[c] = [total |-> TrueTime(c), UserPct |-> TrueUser(c),
                                        SystemPct |-> Truth("stat", c, "system"),
                                        IOWaitPct |-> Truth("stat", c, "iowait"),
                                        IdlePct |-> Truth("stat", c, "idle")]
  BY DEF CPUSharesExact, Done
<1>1. PICK start \in Starts : Since(start)
  BY DEF SamplesFaithful
<1>2. FirstOf(start, "stat") /\ SecondOf("stat")
  BY <1>1, DoneTwice
<1>3. first["stat"] = readProcStat(TRUE, start, Present) /\ second["stat"] = readProcStat(TRUE, counter, live)
  BY <1>2 DEF FirstOf, SecondOf, Read
<1> DEFINE C == Counters("stat")
<1>4. C = {"user", "nice", "system", "iowait", "idle", "irq"}
  BY DEF Counters
<1>5. /\ first["stat"].cpu = [s \in C |-> SumFunction([c \in CPUs |-> Value(start, "stat", c, s)])]
      /\ second["stat"].cpu = [s \in C |-> SumFunction([c \in CPUs |-> Value(counter, "stat", c, s)])]
      /\ first["stat"].perCPU = [c \in Present["stat"] |-> [s \in C |-> Value(start, "stat", c, s)]]
      /\ second["stat"].perCPU = [c \in live["stat"] |-> [s \in C |-> Value(counter, "stat", c, s)]]
  BY <1>3 DEF readProcStat
<1> HIDE DEF C
<1>6. ASSUME takenBack = {}
      PROVE  LET all == computeDelta(first["stat"].cpu, second["stat"].cpu) IN
             AddUp(all) /\ all.total = SumFunction([c \in CPUs |-> TrueTime(c)])
  <2> DEFINE all(cn, s) == SumFunction([c \in CPUs |-> Value(cn, "stat", c, s)])
             time == SumFunction([c \in CPUs |-> TrueTime(c)])
  <2>1. /\ \A s \in States :
              /\ all(start, s) \in Nat /\ all(truth, s) \in Nat
              /\ all(counter, s) = all(start, s) + all(truth, s)
        /\ InAll([s \in States |-> all(truth, s)]) = time
    BY <1>1, <1>6, MachineGrowth DEF States
  <2>2. time < U64
    BY <1>1, TimeFits
  <2>3. \A s \in States : first["stat"].cpu[s] = all(start, s) /\ second["stat"].cpu[s] = all(counter, s)
    BY <1>4, <1>5 DEF States
  <2> HIDE DEF all, time
  <2> DEFINE before == first["stat"].cpu
             after == second["stat"].cpu
             g == [s \in States |-> all(truth, s)]
  <2>4. Grown(before, after, g) /\ InAll(g) = time
    BY <2>1, <2>3 DEF Grown
  <2> HIDE DEF before, after, g
  <2>5. AddUp(computeDelta(before, after)) /\ computeDelta(before, after).total = time
    BY <2>2, <2>4, MachineShares
  <2> QED
    BY <2>5 DEF time, before, after
<1>7. ASSUME NEW c \in DOMAIN computePerCPUDeltas(first["stat"].perCPU, second["stat"].perCPU), c \notin takenBack
      PROVE  LET per == computePerCPUDeltas(first["stat"].perCPU, second["stat"].perCPU) IN
             per[c] = [total |-> TrueTime(c), UserPct |-> TrueUser(c),
                       SystemPct |-> Truth("stat", c, "system"),
                       IOWaitPct |-> Truth("stat", c, "iowait"),
                       IdlePct |-> Truth("stat", c, "idle")]
  <2> DEFINE before == first["stat"].perCPU
             after == second["stat"].perCPU
             g == [s \in States |-> truth[<<"stat", c, s>>]]
  <2>1. c \in DOMAIN before \cap DOMAIN after /\ computePerCPUDeltas(before, after)[c] = perCPUDelta(before[c], after[c])
    BY DEF computePerCPUDeltas, RestrictDomain, Restrict
  <2>2. c \in Present["stat"] /\ c \in live["stat"] /\ c \in CPUs
    <3>1. c \in Present["stat"] /\ c \in live["stat"]
      BY <1>5, <2>1
    <3>2. Present["stat"] \subseteq CPUs
      BY SamplingAssumption DEF Files, Lines
    <3> QED
      BY <3>1, <3>2
  <2>3. \A s \in States : before[c][s] = start[<<"stat", c, s>>] /\ after[c][s] = counter[<<"stat", c, s>>]
    BY <1>4, <1>5, <2>2 DEF Value, States
  <2>4. \A s \in States : g[s] \in Nat /\ before[c][s] \in Int /\ after[c][s] = before[c][s] + g[s]
    <3> SUFFICES ASSUME NEW s \in States
                 PROVE  g[s] \in Nat /\ before[c][s] \in Int /\ after[c][s] = before[c][s] + g[s]
      OBVIOUS
    <3>1. /\ start[<<"stat", c, s>>] \in Nat /\ truth[<<"stat", c, s>>] \in Nat
          /\ counter[<<"stat", c, s>>] = start[<<"stat", c, s>>] + truth[<<"stat", c, s>>]
      BY <1>1, <1>7, <2>2, StatGrowth DEF States
    <3>2. g[s] = truth[<<"stat", c, s>>]
      OBVIOUS
    <3> HIDE DEF before, after, g
    <3> QED
      BY <2>3, <3>1, <3>2
  <2>5. /\ InAll(g) = TrueTime(c) /\ g["user"] + g["nice"] = TrueUser(c)
        /\ g["system"] = Truth("stat", c, "system") /\ g["iowait"] = Truth("stat", c, "iowait")
        /\ g["idle"] = Truth("stat", c, "idle")
    BY DEF TrueTime, TrueUser, Truth, InAll, States
  <2>6. TrueTime(c) < U64
    BY <1>1, <2>2, TimeFits
  <2> HIDE DEF before, after, g
  <2>7. Grown(before[c], after[c], g)
    BY <2>4 DEF Grown
  <2>8. perCPUDelta(before[c], after[c]) =
           [total |-> InAll(g), UserPct |-> g["user"] + g["nice"], SystemPct |-> g["system"],
            IOWaitPct |-> g["iowait"], IdlePct |-> g["idle"]]
    BY <2>5, <2>6, <2>7, CPUEntry
  <2> QED
    BY <2>1, <2>5, <2>8 DEF before, after
<1> QED
  BY <1>6, <1>7

\* The percentages of cpu.go are right for any number of CPUs, whichever of them come
\* and go: those of the machine add up to the time that passed, and those of a CPU are
\* its user, system, iowait and idle time as shares of all its time, irq, softirq and
\* steal included.
THEOREM CPUSharesExactHolds == Spec => []CPUSharesExact
BY SamplesFaithfulHolds, SharesFromSamples, PTL

-----------------------------------------------------------------------------
(* Rates.                                                                   *)

\* A counter is never ahead of its start and its events.
LEMMA CounterBounds ==
    ASSUME NEW start \in Starts, Since(start), NEW f \in Files, NEW l \in Lines(f), NEW c \in Counters(f)
    PROVE  /\ start[<<f, l, c>>] \in Nat /\ start[<<f, l, c>>] < U32
           /\ counter[<<f, l, c>>] \in Nat
           /\ Truth(f, l, c) \in Nat /\ Truth(f, l, c) < U64 \div 2
           /\ counter[<<f, l, c>>] <= start[<<f, l, c>>] + Truth(f, l, c)
<1> DEFINE k == <<f, l, c>>
<1>1. k \in Keys
  BY KeyIn
<1>2. Truth(f, l, c) = truth[k]
  BY DEF Truth
<1> HIDE DEF k
<1>3. /\ start[k] \in Nat /\ start[k] < U32 /\ counter[k] \in Nat /\ truth[k] \in Nat
      /\ truth[k] <= events /\ counter[k] <= start[k] + truth[k]
  BY <1>1, StartBelow DEF Since, Shape, CounterOf
<1>4. events \in Nat /\ events < U64 \div 2 /\ U64 \div 2 \in Nat
  BY EventsFit
<1>5. truth[k] < U64 \div 2
  BY <1>3, <1>4
<1> QED
  BY <1>2, <1>3, <1>5 DEF k

\* A line that is no other object shows its events.
LEMMA CounterExact ==
    ASSUME NEW start \in Starts, Since(start), NEW f \in Files, NEW l \in Lines(f), NEW c \in Counters(f),
           f # "stat", f \in NewObject => <<f, l>> \notin replaced
    PROVE  counter[<<f, l, c>>] = Shown(c, start[<<f, l, c>>] + Truth(f, l, c))
<1> DEFINE k == <<f, l, c>>
<1>1. k \in Keys /\ k[1] = f /\ k[2] = l /\ k[3] = c
  BY KeyIn
<1>2. Truth(f, l, c) = truth[k]
  BY DEF Truth
<1> HIDE DEF k
<1>3. counter[k] = Shown(c, start[k] + truth[k])
  BY <1>1 DEF Since, CounterOf
<1> QED
  BY <1>2, <1>3 DEF k

\* A clamped difference of two counters is at most the events between them.
LEMMA ClampBound ==
    ASSUME NEW a \in Int, NEW b \in Int, NEW t \in Nat, a <= b + t
    PROVE  Clamp(a - b) \in Nat /\ Clamp(a - b) <= t /\ (a = b + t => Clamp(a - b) = t)
BY DEF Clamp

\* The difference of two unsigned counters, read as a signed number.
LEMMA SignedDifference ==
    ASSUME NEW a \in Nat, NEW b \in Nat, b < U32, NEW t \in Nat, t < U64 \div 2, a <= b + t
    PROVE  /\ Int64(Sub64(a, b)) \in Int /\ Int64(Sub64(a, b)) <= t
           /\ a = b + t => Int64(Sub64(a, b)) = t
<1> DEFINE d == a - b
           h == U64 \div 2
<1>1. /\ U64 \in Nat /\ 0 < U64 /\ U32 \in Nat /\ 2 * U32 <= U64
      /\ h \in Nat /\ 2 * h <= U64 /\ U64 <= 2 * h + 1
  BY Numbers
<1>2. d \in Int /\ d <= t /\ -U32 < d /\ (a = b + t => d = t)
  BY <1>1
<1>3. Sub64(a, b) = d % U64 /\ Int64(Sub64(a, b)) = IF d % U64 >= h THEN (d % U64) - U64 ELSE d % U64
  BY DEF Sub64, Int64
<1>4. t \in Nat /\ t < h
  OBVIOUS
<1> HIDE DEF d, h
<1>5. CASE d >= 0
  <2>1. d % U64 = d
    BY <1>1, <1>2, <1>4, <1>5, ModBelow
  <2> QED
    BY <1>1, <1>2, <1>3, <1>4, <1>5, <2>1
<1>6. CASE d < 0
  <2>1. d % U64 = d + U64
    BY <1>1, <1>2, <1>6, ModBelow
  <2>2. d + U64 >= h
    BY <1>1, <1>2
  <2>3. Int64(Sub64(a, b)) = d
    BY <1>1, <1>2, <1>3, <2>1, <2>2
  <2> QED
    BY <1>2, <1>4, <1>6, <2>3
<1> QED
  BY <1>2, <1>5, <1>6

\* What a device, an interface or a process has in both samples.
LEMMA DiskSamples ==
    ASSUME NEW start \in Starts, Since(start), FirstOf(start, "diskstats"), SecondOf("diskstats")
    PROVE  /\ DOMAIN diskDevices \subseteq Kept \cap Present["diskstats"] \cap live["diskstats"]
           /\ "diskstats" \notin unread => DOMAIN diskDevices = Kept \cap Present["diskstats"] \cap live["diskstats"]
           /\ \A d \in DOMAIN diskDevices, c \in {"ops", "ticks"} :
                 /\ first["diskstats"][d][c] = start[<<"diskstats", d, c>>]
                 /\ diskDevices[d][c] = Int64(Sub64(counter[<<"diskstats", d, c>>], start[<<"diskstats", d, c>>]))
<1>1. Counters("diskstats") = {"ops", "ticks"} /\ "diskstats" \in Files /\ Lines("diskstats") = Disks \cup Partitions
  BY DEF Counters, Files, Lines
<1> DEFINE kept(ok, lv) == {l \in lv["diskstats"] : ok /\ l \notin Partitions \ Unmatched}
           read(ok, cn, lv) == [d \in kept(ok, lv) |-> [c \in {"ops", "ticks"} |-> cn[<<"diskstats", d, c>>]]]
<1>2. \A ok, cn, lv : readDiskStats(ok, cn, lv) = read(ok, cn, lv)
  BY <1>1 DEF readDiskStats, isVirtualOrPartition, Value
<1>3. PICK ok1 \in BOOLEAN : (ok1 \/ "diskstats" \in unread) /\ first["diskstats"] = read(ok1, start, Present)
  BY <1>2 DEF FirstOf, Read
<1>4. PICK ok2 \in BOOLEAN : (ok2 \/ "diskstats" \in unread) /\ second["diskstats"] = read(ok2, counter, live)
  BY <1>2 DEF SecondOf, Read
<1>5. Present["diskstats"] \subseteq Disks \cup Partitions /\ live["diskstats"] \subseteq Disks \cup Partitions
  BY <1>1, SamplingAssumption DEF Since, LinesOf
<1>6. Disks \cap Partitions = {} /\ Unmatched \subseteq Partitions
  BY SamplingAssumption
<1>7. DOMAIN diskDevices = kept(ok1, Present) \cap kept(ok2, live)
  BY <1>3, <1>4 DEF diskDevices
<1>8. ASSUME NEW d \in DOMAIN diskDevices, NEW c \in {"ops", "ticks"}
      PROVE  /\ first["diskstats"][d][c] = start[<<"diskstats", d, c>>]
             /\ diskDevices[d][c] = Int64(Sub64(counter[<<"diskstats", d, c>>], start[<<"diskstats", d, c>>]))
  <2>1. d \in kept(ok1, Present) /\ d \in kept(ok2, live)
    BY <1>7
  <2> HIDE DEF kept
  <2>2. first["diskstats"][d][c] = start[<<"diskstats", d, c>>] /\ second["diskstats"][d][c] = counter[<<"diskstats", d, c>>]
    BY <1>3, <1>4, <2>1
  <2>3. diskDevices[d][c] = Int64(Sub64(second["diskstats"][d][c], first["diskstats"][d][c]))
    BY <1>1 DEF diskDevices
  <2> QED
    BY <2>2, <2>3
<1> QED
  BY <1>3, <1>4, <1>5, <1>6, <1>7, <1>8 DEF Kept

\* What readDiskStats keeps are lines of the file.
LEMMA KeptLines == Kept \subseteq Lines("diskstats") /\ IsFiniteSet(Kept)
<1>1. Unmatched \subseteq Partitions /\ IsFiniteSet(Disks) /\ IsFiniteSet(Partitions)
  BY SamplingAssumption
<1>2. IsFiniteSet(Unmatched)
  BY <1>1, FS_Subset
<1>3. IsFiniteSet(Kept)
  BY <1>1, <1>2, FS_Union DEF Kept
<1> QED
  BY <1>1, <1>3 DEF Kept, Lines

\* The rates of interfaces in terms of the counters at both reads.
LEMMA NetdevSamples ==
    ASSUME NEW start \in Starts, Since(start), FirstOf(start, "netdev"), SecondOf("netdev")
    PROVE  /\ \A i \in DOMAIN ErrorsPerSec : i \in Ifaces
           /\ \A i \in DOMAIN ErrorsPerSec :
                 ErrorsPerSec[i] \in {0, counter[<<"netdev", i, "errors">>] - start[<<"netdev", i, "errors">>]}
           /\ "netdev" \notin unread => \A i \in Present["netdev"] \cap live["netdev"] :
                 ErrorsPerSec[i] = counter[<<"netdev", i, "errors">>] - start[<<"netdev", i, "errors">>]
<1>1. "netdev" \in Files /\ Lines("netdev") = Ifaces
  BY DEF Files, Lines
<1> DEFINE kept(ok, lv) == {l \in lv["netdev"] : ok}
           read(ok, cn, lv) == [i \in kept(ok, lv) |-> cn[<<"netdev", i, "errors">>]]
<1>2. \A ok, cn, lv : parseNetDev(ok, cn, lv) = read(ok, cn, lv)
  BY DEF parseNetDev, Value
<1>3. PICK ok1 \in BOOLEAN : (ok1 \/ "netdev" \in unread) /\ first["netdev"] = read(ok1, start, Present)
  BY <1>2 DEF FirstOf, Read
<1>4. PICK ok2 \in BOOLEAN : (ok2 \/ "netdev" \in unread) /\ second["netdev"] = read(ok2, counter, live)
  BY <1>2 DEF SecondOf, Read
<1>5. live["netdev"] \subseteq Ifaces
  BY <1>1 DEF Since, LinesOf
<1>6. DOMAIN ErrorsPerSec = kept(ok2, live)
  BY <1>4 DEF ErrorsPerSec
<1>7. ASSUME NEW i \in kept(ok2, live)
      PROVE  ErrorsPerSec[i] = IF i \in kept(ok1, Present)
                               THEN counter[<<"netdev", i, "errors">>] - start[<<"netdev", i, "errors">>] ELSE 0
  BY <1>3, <1>4 DEF ErrorsPerSec
<1> QED
  BY <1>3, <1>4, <1>5, <1>6, <1>7

\* The files with one line: a rate is the difference, cut off at zero, or zero.
LEMMA VmstatRate ==
    ASSUME NEW start, FirstOf(start, "vmstat"), SecondOf("vmstat")
    PROVE  LET k == <<"vmstat", "host", "pgscan_direct">>
               r == computeReclaimRates(first["vmstat"], second["vmstat"])
           IN  /\ r \in {0, Clamp(counter[k] - start[k])}
               /\ "vmstat" \notin unread => r = Clamp(counter[k] - start[k])
<1> DEFINE k == <<"vmstat", "host", "pgscan_direct">>
<1>1. PICK ok1 \in BOOLEAN : (ok1 \/ "vmstat" \in unread) /\ first["vmstat"] = parseVmstat(ok1, start)
  BY DEF FirstOf, Read
<1>2. PICK ok2 \in BOOLEAN : (ok2 \/ "vmstat" \in unread) /\ second["vmstat"] = parseVmstat(ok2, counter)
  BY DEF SecondOf, Read
<1>3. \A x : [pgscan_direct |-> x] # Nil
  BY DEF Nil
<1>4. /\ ok1 => first["vmstat"] # Nil /\ first["vmstat"].pgscan_direct = start[k]
      /\ ~ok1 => first["vmstat"] = Nil
  BY <1>1, <1>3 DEF parseVmstat, Value
<1>5. /\ ok2 => second["vmstat"] # Nil /\ second["vmstat"].pgscan_direct = counter[k]
      /\ ~ok2 => second["vmstat"] = Nil
  BY <1>2, <1>3 DEF parseVmstat, Value
<1> QED
  BY <1>1, <1>2, <1>4, <1>5 DEF computeReclaimRates

\* The TCP rate is zero or the clamped difference; the UDP rate is what the replaced
\* struct makes of it.
LEMMA SNMPRates ==
    ASSUME NEW start, FirstOf(start, "snmp"), SecondOf("snmp")
    PROVE  LET k == <<"snmp", "host", "RetransSegs">>
               u == <<"snmp", "host", "RcvbufErrors">>
           IN  /\ RetransRate \in {0, Clamp(counter[k] - start[k])}
               /\ "snmp" \notin unread => RetransRate = Clamp(counter[k] - start[k])
               /\ RcvbufErrRate \in {0, Clamp(second["snmp"].UDP - start[u])}
<1> DEFINE k == <<"snmp", "host", "RetransSegs">>
           u == <<"snmp", "host", "RcvbufErrors">>
<1>1. PICK ok1 \in BOOLEAN : (ok1 \/ "snmp" \in unread) /\ first["snmp"] = parseSNMP(ok1, start)
  BY DEF FirstOf, Read
<1>2. PICK ok2 \in BOOLEAN :
         /\ ok2 \/ "snmp" \in unread
         /\ \/ second["snmp"] = parseSNMP(ok2, counter)
            \/ second["snmp"] = [parseSNMP(ok2, counter) EXCEPT !.UDP = 0]
  BY DEF SecondOf, Read
<1>3. /\ first["snmp"].nil = ~ok1
      /\ ok1 => first["snmp"].TCP = start[k] /\ first["snmp"].UDP = start[u]
  BY <1>1 DEF parseSNMP, Value
<1>4. second["snmp"].nil = ~ok2 /\ (ok2 => second["snmp"].TCP = counter[k])
  BY <1>2 DEF parseSNMP, Value
<1> HIDE DEF k, u
<1>5. /\ RetransRate = IF ok1 /\ ok2 THEN Clamp(counter[k] - start[k]) ELSE 0
      /\ RcvbufErrRate = IF ok1 THEN Clamp(second["snmp"].UDP - start[u]) ELSE 0
  BY <1>3, <1>4 DEF RetransRate, RcvbufErrRate
<1> QED
  BY <1>1, <1>2, <1>5 DEF k, u

\* The listen overflow rate is zero or the clamped difference.
LEMMA NetstatRate ==
    ASSUME NEW start, FirstOf(start, "netstat"), SecondOf("netstat")
    PROVE  LET k == <<"netstat", "host", "ListenOverflows">>
           IN  /\ ListenOverflowRate \in {0, Clamp(0 - start[k]), Clamp(counter[k] - start[k])}
               /\ "netstat" \notin unread => ListenOverflowRate = Clamp(counter[k] - start[k])
<1> DEFINE k == <<"netstat", "host", "ListenOverflows">>
<1>1. PICK ok1 \in BOOLEAN : (ok1 \/ "netstat" \in unread) /\ first["netstat"] = parseNetstat(ok1, start)
  BY DEF FirstOf, Read
<1>2. PICK ok2 \in BOOLEAN : (ok2 \/ "netstat" \in unread) /\ second["netstat"] = parseNetstat(ok2, counter)
  BY DEF SecondOf, Read
<1>3. \A x : [ListenOverflows |-> x] # Nil
  BY DEF Nil
<1>4. /\ ok1 => first["netstat"] # Nil /\ first["netstat"].ListenOverflows = start[k]
      /\ ~ok1 => first["netstat"] = Nil
  BY <1>1, <1>3 DEF parseNetstat, Value
<1>5. /\ ok2 => second["netstat"] # Nil /\ second["netstat"].ListenOverflows = counter[k]
      /\ ~ok2 => second["netstat"] = Nil
  BY <1>2, <1>3 DEF parseNetstat, Value
<1> QED
  BY <1>1, <1>2, <1>4, <1>5 DEF ListenOverflowRate

\* The distribution over CPUs in terms of the counters at both reads.
LEMMA IRQSamples ==
    ASSUME NEW start, FirstOf(start, "softirqs"), SecondOf("softirqs")
    PROVE  LET dist == computeIRQDistribution(first["softirqs"], second["softirqs"])
               k(i) == <<"softirqs", CPUSeq[i], "NET_RX">>
           IN  /\ \A i \in DOMAIN dist : i \in DOMAIN CPUSeq /\ dist[i] = Clamp(counter[k(i)] - start[k(i)])
               /\ "softirqs" \notin unread => DOMAIN dist = DOMAIN CPUSeq
<1> DEFINE k(i) == <<"softirqs", CPUSeq[i], "NET_RX">>
           N == Len(CPUSeq)
           dist == computeIRQDistribution(first["softirqs"], second["softirqs"])
<1>1. DOMAIN CPUSeq = 1 .. N /\ N \in Nat
  BY CPUsFinite
<1>2. PICK ok1 \in BOOLEAN : (ok1 \/ "softirqs" \in unread) /\ first["softirqs"] = readNetRxSoftirqs(ok1, start)
  BY DEF FirstOf, Read
<1>3. PICK ok2 \in BOOLEAN : (ok2 \/ "softirqs" \in unread) /\ second["softirqs"] = readNetRxSoftirqs(ok2, counter)
  BY DEF SecondOf, Read
<1>4. /\ ok1 => first["softirqs"] = [i \in 1 .. N |-> start[k(i)]]
      /\ ~ok1 => first["softirqs"] = << >>
  BY <1>1, <1>2 DEF readNetRxSoftirqs, Value
<1>5. /\ ok2 => second["softirqs"] = [i \in 1 .. N |-> counter[k(i)]]
      /\ ~ok2 => second["softirqs"] = << >>
  BY <1>1, <1>3 DEF readNetRxSoftirqs, Value
<1> HIDE DEF k, N
<1>6. /\ Len([i \in 1 .. N |-> start[k(i)]]) = N /\ Len([i \in 1 .. N |-> counter[k(i)]]) = N
      /\ Len(<< >>) = 0 /\ DOMAIN << >> = {}
  BY <1>1
<1>7. CASE ok1 /\ ok2
  <2>1. dist = [i \in 1 .. N |-> Clamp(counter[k(i)] - start[k(i)])]
    BY <1>4, <1>5, <1>6, <1>7 DEF computeIRQDistribution
  <2> HIDE DEF dist
  <2> QED
    BY <1>1, <2>1 DEF dist, k
<1>8. CASE ~(ok1 /\ ok2)
  <2>1. DOMAIN dist = {}
    <3>1. CASE ok1
      <4>1. Len(first["softirqs"]) = N /\ Len(second["softirqs"]) = 0 /\ DOMAIN first["softirqs"] = 1 .. N
        BY <1>4, <1>5, <1>6, <1>8, <3>1
      <4> QED
        BY <1>1, <4>1 DEF computeIRQDistribution
    <3>2. CASE ~ok1
      <4>1. DOMAIN first["softirqs"] = {}
        BY <1>4, <3>2
      <4> QED
        BY <4>1 DEF computeIRQDistribution
    <3> QED
      BY <3>1, <3>2
  <2> QED
    BY <1>2, <1>3, <1>8, <2>1
<1> QED
  BY <1>7, <1>8

\* softnet_stat has one line for each online CPU.
LEMMA OnlineCount ==
    ASSUME NEW lv, lv["softnet"] \subseteq CPUs
    PROVE  Cardinality(Online(TRUE, lv)) = Cardinality(lv["softnet"])
<1> DEFINE A == Online(TRUE, lv)
           h == [i \in A |-> CPUSeq[i]]
<1>1. A = {i \in DOMAIN CPUSeq : CPUSeq[i] \in lv["softnet"]}
  BY DEF Online
<1>2. IsFiniteSet(A)
  BY OnlineNumbered
<1>3. \A i, j \in DOMAIN CPUSeq : CPUSeq[i] = CPUSeq[j] => i = j
  BY SamplingAssumption
<1>4. \A c \in lv["softnet"] : \E i \in A : CPUSeq[i] = c
  BY <1>1 DEF CPUs
<1> HIDE DEF A
<1>5. h \in [A -> lv["softnet"]]
  BY <1>1
<1>6. \A i, j \in A : h[i] = h[j] => i = j
  BY <1>1, <1>3
<1>7. \A c \in lv["softnet"] : \E i \in A : h[i] = c
  BY <1>4
<1> HIDE DEF h
<1>8. h \in Bijection(A, lv["softnet"])
  BY <1>5, <1>6, <1>7 DEF Bijection, Injection, IsInjective, Surjection
<1>9. ExistsBijection(A, lv["softnet"])
  BY <1>8 DEF ExistsBijection
<1> QED
  BY <1>2, <1>9, FS_Bijection DEF A

\* The CPUs online, their lines, and how a line number is turned into a CPU.
OnlineCPUs(A) == {CPUSeq[i] : i \in A}

\* Dropped packets of the same CPUs, added up line by line or CPU by CPU.
LEMMA LinesToCPUs ==
    ASSUME NEW ok, NEW lv, NEW g, \A c \in CPUs : g[c] \in Int,
           NEW f, \A n \in 1 .. Cardinality(Online(ok, lv)) : f[n] = g[CPUSeq[OnlineAt(Online(ok, lv), n)]]
    PROVE  /\ OnlineCPUs(Online(ok, lv)) \subseteq CPUs
           /\ SumFunctionOnSet(f, 1 .. Cardinality(Online(ok, lv))) = SumFunctionOnSet(g, OnlineCPUs(Online(ok, lv)))
<1> DEFINE A == Online(ok, lv)
           D == 1 .. Cardinality(A)
           h == [n \in D |-> CPUSeq[OnlineAt(A, n)]]
<1>1. /\ Cardinality(A) \in Nat
      /\ \A i \in A : LineNo(A, i) \in D
      /\ \A i, k \in A : LineNo(A, i) = LineNo(A, k) => i = k
      /\ \A n \in D : OnlineAt(A, n) \in A /\ LineNo(A, OnlineAt(A, n)) = n
  BY OnlineNumbered
<1>2. A \subseteq DOMAIN CPUSeq
  BY DEF Online
<1>3. \A i, j \in DOMAIN CPUSeq : CPUSeq[i] = CPUSeq[j] => i = j
  BY SamplingAssumption
<1>4. \A i \in A : CPUSeq[i] \in CPUs
  BY <1>2 DEF CPUs
<1>5. \A n \in D : f[n] = g[CPUSeq[OnlineAt(A, n)]]
  OBVIOUS
<1>6. IsFiniteSet(D)
  BY <1>1, FS_Interval
<1> HIDE DEF A, D
<1>7. h \in [D -> CPUs]
  BY <1>1, <1>4
<1>8. \A n, m \in D : h[n] = h[m] => n = m
  BY <1>1, <1>2, <1>3
<1>9. {h[n] : n \in D} = OnlineCPUs(A)
  <2>1. \A i \in A : OnlineAt(A, LineNo(A, i)) = i
    BY <1>1
  <2>2. \A i \in A : \E n \in D : h[n] = CPUSeq[i]
    BY <1>1, <2>1
  <2>3. \A n \in D : \E i \in A : h[n] = CPUSeq[i]
    BY <1>1
  <2> QED
    BY <2>2, <2>3 DEF OnlineCPUs
<1>10. \A n \in D : f[n] = g[h[n]]
  BY <1>5
<1> HIDE DEF h
<1>11. SumFunctionOnSet(f, D) = SumFunctionOnSet(g, {h[n] : n \in D})
  BY <1>6, <1>7, <1>8, <1>10, CPUsFinite, SumReindex
<1>12. OnlineCPUs(A) \subseteq CPUs
  BY <1>4 DEF OnlineCPUs
<1> QED
  BY <1>9, <1>11, <1>12 DEF A, D

\* The drop rate: zero when the numbers of lines differ, and what the online CPUs
\* dropped when the same CPUs are online.
LEMMA SoftnetRate ==
    ASSUME NEW start \in Starts, Since(start), FirstOf(start, "softnet"), SecondOf("softnet"),
           \/ live["softnet"] = Present["softnet"]
           \/ Cardinality(live["softnet"]) # Cardinality(Present["softnet"])
    PROVE  \/ DropRate = 0 /\ ("softnet" \in unread \/ live["softnet"] # Present["softnet"])
           \/ \E ok \in BOOLEAN :
                 LET g == [c \in CPUs |-> Clamp(counter[<<"softnet", c, "dropped">>] - start[<<"softnet", c, "dropped">>])]
                 IN  /\ ok \/ "softnet" \in unread
                     /\ DropRate = SumFunctionOnSet(g, OnlineCPUs(Online(ok, Present)))
                     /\ OnlineCPUs(Online(ok, Present)) \subseteq CPUs
<1> DEFINE k(c) == <<"softnet", c, "dropped">>
           g == [c \in CPUs |-> Clamp(counter[k(c)] - start[k(c)])]
<1>1. PICK ok1 \in BOOLEAN : (ok1 \/ "softnet" \in unread) /\ first["softnet"] = parseSoftnetStat(ok1, start, Present)
  BY DEF FirstOf, Read
<1>2. PICK ok2 \in BOOLEAN : (ok2 \/ "softnet" \in unread) /\ second["softnet"] = parseSoftnetStat(ok2, counter, live)
  BY DEF SecondOf, Read
<1> DEFINE A == Online(ok1, Present)
           B == Online(ok2, live)
<1>3. /\ first["softnet"] = [n \in 1 .. Cardinality(A) |-> start[k(CPUSeq[OnlineAt(A, n)])]]
      /\ second["softnet"] = [n \in 1 .. Cardinality(B) |-> counter[k(CPUSeq[OnlineAt(B, n)])]]
  BY <1>1, <1>2, SoftnetLines
<1>4. Cardinality(A) \in Nat /\ Cardinality(B) \in Nat /\ IsFiniteSet(A) /\ IsFiniteSet(B)
  BY OnlineNumbered
<1>5. "softnet" \in Files /\ Lines("softnet") = CPUs /\ "dropped" \in Counters("softnet")
  BY DEF Files, Lines, Counters
<1>6. Present["softnet"] \subseteq CPUs /\ live["softnet"] \subseteq CPUs
  BY <1>5, SamplingAssumption DEF Since, LinesOf
<1>7. /\ ok1 = TRUE => Cardinality(A) = Cardinality(Present["softnet"])
      /\ ok2 = TRUE => Cardinality(B) = Cardinality(live["softnet"])
  BY <1>6, OnlineCount
<1>8. (ok1 = FALSE => A = {}) /\ (ok2 = FALSE => B = {})
  BY DEF Online
<1>9. ok1 = TRUE /\ ok2 = TRUE /\ live["softnet"] = Present["softnet"] => A = B
  BY DEF Online
<1>10. \A c \in CPUs : g[c] \in Int
  <2> SUFFICES ASSUME NEW c \in CPUs PROVE Clamp(counter[k(c)] - start[k(c)]) \in Int
    OBVIOUS
  <2>1. counter[k(c)] \in Nat /\ start[k(c)] \in Nat
    BY <1>5, CounterBounds
  <2> QED
    BY <2>1 DEF Clamp
<1>11. \A i \in A : CPUSeq[i] \in CPUs
  BY DEF Online, CPUs
<1> HIDE DEF A, B, k
<1>12. Len(first["softnet"]) = Cardinality(A) /\ Len(second["softnet"]) = Cardinality(B) /\ DOMAIN first["softnet"] = 1 .. Cardinality(A)
  BY <1>3, <1>4
<1>13. CASE Cardinality(A) # Cardinality(B)
  <2>1. DropRate = 0
    BY <1>12, <1>13 DEF DropRate
  <2>2. "softnet" \in unread \/ live["softnet"] # Present["softnet"]
    BY <1>1, <1>2, <1>7, <1>13
  <2> QED
    BY <2>1, <2>2
<1>14. CASE Cardinality(A) = Cardinality(B)
  <2>1. A = B
    <3>1. CASE ok1 = TRUE /\ ok2 = TRUE
      BY <1>7, <1>9, <1>14, <3>1
    <3>2. CASE ok1 = FALSE \/ ok2 = FALSE
      BY <1>4, <1>8, <1>14, <3>2, FS_EmptySet
    <3> QED
      BY <3>1, <3>2
  <2> DEFINE f == [n \in 1 .. Cardinality(A) |-> Clamp(second["softnet"][n] - first["softnet"][n])]
  <2>2. DropRate = SumFunctionOnSet(f, 1 .. Cardinality(A))
    BY <1>12, <1>14 DEF DropRate, SumFunction
  <2>3. \A n \in 1 .. Cardinality(A) : OnlineAt(A, n) \in A
    BY OnlineNumbered DEF A
  <2>4. \A n \in 1 .. Cardinality(A) : f[n] = g[CPUSeq[OnlineAt(A, n)]]
    BY <1>3, <1>11, <2>1, <2>3
  <2> HIDE DEF f, g
  <2>5. /\ OnlineCPUs(A) \subseteq CPUs
        /\ SumFunctionOnSet(f, 1 .. Cardinality(A)) = SumFunctionOnSet(g, OnlineCPUs(A))
    BY <1>10, <2>4, LinesToCPUs DEF A
  <2>6. DropRate = SumFunctionOnSet(g, OnlineCPUs(A))
    BY <2>2, <2>5
  <2> QED
    BY <1>1, <2>5, <2>6 DEF g, k, A
<1> QED
  BY <1>13, <1>14

\* A part of the summands, each no larger, gives no larger sum.
LEMMA SumPart ==
    ASSUME NEW S, IsFiniteSet(S), NEW T \in SUBSET S, NEW g, NEW t,
           \A x \in S : g[x] \in Nat /\ t[x] \in Nat /\ g[x] <= t[x]
    PROVE  SumFunctionOnSet(g, T) <= SumFunctionOnSet(t, S)
<1> DEFINE z == [x \in S |-> IF x \in T THEN g[x] ELSE 0]
<1>1. \A x \in S : z[x] \in Int /\ t[x] \in Int /\ z[x] <= t[x] /\ (x \in S \ T => z[x] = 0)
  OBVIOUS
<1>2. \A x \in T : z[x] \in Int /\ z[x] = g[x]
  OBVIOUS
<1>3. IsFiniteSet(T)
  BY FS_Subset
<1> HIDE DEF z
<1>4. SumFunctionOnSet(z, S) <= SumFunctionOnSet(t, S)
  BY <1>1, SumMonotone
<1>5. SumFunctionOnSet(z, S) = SumFunctionOnSet(z, T)
  BY <1>1, SumSubset
<1>6. SumFunctionOnSet(z, T) = SumFunctionOnSet(g, T)
  BY <1>2, <1>3, SumEqual
<1> QED
  BY <1>4, <1>5, <1>6

\* With the same CPUs, or another number of them, the drop rate is not inflated.
LEMMA SoftnetBound ==
    ASSUME NEW start \in Starts, Since(start), FirstOf(start, "softnet"), SecondOf("softnet"),
           \/ live["softnet"] = Present["softnet"]
           \/ Cardinality(live["softnet"]) # Cardinality(Present["softnet"])
    PROVE  DropRate <= TrueTotal("softnet", "dropped", CPUs)
<1> DEFINE t == [c \in CPUs |-> Truth("softnet", c, "dropped")]
           g == [c \in CPUs |-> Clamp(counter[<<"softnet", c, "dropped">>] - start[<<"softnet", c, "dropped">>])]
<1>1. "softnet" \in Files /\ Lines("softnet") = CPUs /\ "dropped" \in Counters("softnet")
  BY DEF Files, Lines, Counters
<1>2. \A c \in CPUs : g[c] \in Nat /\ t[c] \in Nat /\ g[c] <= t[c]
  <2> SUFFICES ASSUME NEW c \in CPUs PROVE g[c] \in Nat /\ t[c] \in Nat /\ g[c] <= t[c]
    OBVIOUS
  <2> DEFINE k == <<"softnet", c, "dropped">>
  <2>1. counter[k] \in Nat /\ start[k] \in Nat /\ t[c] \in Nat /\ counter[k] <= start[k] + t[c]
    BY <1>1, CounterBounds
  <2>2. g[c] = Clamp(counter[k] - start[k])
    OBVIOUS
  <2> HIDE DEF k, t, g
  <2> QED
    BY <2>1, <2>2, ClampBound
<1>3. TrueTotal("softnet", "dropped", CPUs) = SumFunctionOnSet(t, CPUs)
  BY DEF TrueTotal, SumFunction
<1> HIDE DEF t
<1>4. SumFunctionOnSet(t, CPUs) \in Nat
  BY <1>2, CPUsFinite, SumNat
<1>5. \/ DropRate = 0
      \/ \E T \in SUBSET CPUs : DropRate = SumFunctionOnSet(g, T)
  BY SoftnetRate
<1> HIDE DEF g
<1> QED
  BY <1>2, <1>3, <1>4, <1>5, CPUsFinite, SumPart

\* The invariant implies that no rate is inflated.
LEMMA RatesFromSamples == SamplesFaithful => NeverInflated
<1> SUFFICES ASSUME SamplesFaithful, status = "done" PROVE NeverInflated
  BY DEF NeverInflated, Done
<1>1. PICK start \in Starts : Since(start)
  BY DEF SamplesFaithful
<1>2. ASSUME NEW f \in Files, NEW l \in Lines(f), NEW c \in Counters(f), NEW r,
             r \in {0, Clamp(0 - start[<<f, l, c>>]), Clamp(counter[<<f, l, c>>] - start[<<f, l, c>>])}
      PROVE  r <= Truth(f, l, c)
  <2> DEFINE a == counter[<<f, l, c>>]
             b == start[<<f, l, c>>]
             t == Truth(f, l, c)
  <2>1. a \in Nat /\ b \in Nat /\ t \in Nat /\ a <= b + t
    BY <1>1, CounterBounds
  <2>2. r \in {0, Clamp(0 - b), Clamp(a - b)}
    BY <1>2
  <2> HIDE DEF a, b, t
  <2>3. 0 <= t /\ Clamp(0 - b) <= t /\ Clamp(a - b) <= t
    BY <2>1, ClampBound
  <2>4. r <= t
    BY <2>2, <2>3
  <2> QED
    BY <2>4 DEF t
<1>3. /\ {"diskstats", "vmstat", "snmp", "netdev", "netstat", "softirqs"} \subseteq Files
      /\ Lines("diskstats") = Disks \cup Partitions /\ Lines("vmstat") = {"host"} /\ Lines("snmp") = {"host"}
      /\ Lines("netdev") = Ifaces /\ Lines("netstat") = {"host"} /\ Lines("softirqs") = CPUs
      /\ Counters("diskstats") = {"ops", "ticks"} /\ Counters("vmstat") = {"pgscan_direct"}
      /\ Counters("snmp") = {"RetransSegs", "RcvbufErrors"} /\ Counters("netdev") = {"errors"}
      /\ Counters("netstat") = {"ListenOverflows"} /\ Counters("softirqs") = {"NET_RX"}
  BY DEF Files, Lines, Counters
<1>4. ASSUME coll = "disk", NEW d \in DOMAIN diskDevices, NEW c \in {"ops", "ticks"}
      PROVE  diskDevices[d][c] <= Truth("diskstats", d, c)
  <2>1. FirstOf(start, "diskstats") /\ SecondOf("diskstats")
    BY <1>1, <1>4, DoneTwice
  <2> DEFINE a == counter[<<"diskstats", d, c>>]
             b == start[<<"diskstats", d, c>>]
             t == Truth("diskstats", d, c)
  <2>2. d \in Kept /\ diskDevices[d][c] = Int64(Sub64(a, b))
    BY <1>1, <2>1, DiskSamples
  <2>3. a \in Nat /\ b \in Nat /\ b < U32 /\ t \in Nat /\ t < U64 \div 2 /\ a <= b + t
    BY <1>1, <1>3, <2>2, KeptLines, CounterBounds
  <2> HIDE DEF a, b, t
  <2>4. diskDevices[d][c] <= t
    BY <2>2, <2>3, SignedDifference
  <2> QED
    BY <2>4 DEF t
<1>5. ASSUME coll = "memory"
      PROVE  computeReclaimRates(first["vmstat"], second["vmstat"]) <= Truth("vmstat", "host", "pgscan_direct")
  <2>1. FirstOf(start, "vmstat") /\ SecondOf("vmstat")
    BY <1>1, <1>5, DoneTwice
  <2> QED
    BY <1>2, <1>3, <2>1, VmstatRate
<1>6. ASSUME coll = "network"
      PROVE  RetransRate <= Truth("snmp", "host", "RetransSegs")
  <2>1. FirstOf(start, "snmp") /\ SecondOf("snmp")
    BY <1>1, <1>6, DoneNetwork
  <2> QED
    BY <1>2, <1>3, <2>1, SNMPRates
<1>7. ASSUME coll = "network", NEW i \in DOMAIN ErrorsPerSec
      PROVE  ErrorsPerSec[i] <= Truth("netdev", i, "errors")
  <2>1. FirstOf(start, "netdev") /\ SecondOf("netdev")
    BY <1>1, <1>7, DoneNetwork
  <2> DEFINE a == counter[<<"netdev", i, "errors">>]
             b == start[<<"netdev", i, "errors">>]
             t == Truth("netdev", i, "errors")
  <2>2. i \in Ifaces /\ ErrorsPerSec[i] \in {0, a - b}
    BY <1>1, <2>1, NetdevSamples
  <2>3. a \in Nat /\ b \in Nat /\ t \in Nat /\ a <= b + t
    BY <1>1, <1>3, <2>2, CounterBounds
  <2> HIDE DEF a, b, t
  <2>4. ErrorsPerSec[i] <= t
    BY <2>2, <2>3
  <2> QED
    BY <2>4 DEF t
<1>8. ASSUME coll = "network"
      PROVE  ListenOverflowRate <= Truth("netstat", "host", "ListenOverflows")
  <2>1. FirstOf(start, "netstat") /\ SecondOf("netstat")
    BY <1>1, <1>8, DoneNetwork
  <2> QED
    BY <1>2, <1>3, <2>1, NetstatRate
<1>9. ASSUME coll = "network",
             NEW i \in DOMAIN computeIRQDistribution(first["softirqs"], second["softirqs"])
      PROVE  computeIRQDistribution(first["softirqs"], second["softirqs"])[i] <= Truth("softirqs", CPUSeq[i], "NET_RX")
  <2>1. FirstOf(start, "softirqs") /\ SecondOf("softirqs")
    BY <1>1, <1>9, DoneNetwork
  <2> DEFINE r == computeIRQDistribution(first["softirqs"], second["softirqs"])[i]
  <2>2. /\ i \in DOMAIN CPUSeq
        /\ r = Clamp(counter[<<"softirqs", CPUSeq[i], "NET_RX">>] - start[<<"softirqs", CPUSeq[i], "NET_RX">>])
    BY <2>1, IRQSamples
  <2> HIDE DEF r
  <2>3. CPUSeq[i] \in Lines("softirqs") /\ "softirqs" \in Files /\ "NET_RX" \in Counters("softirqs")
    BY <1>3, <2>2 DEF CPUs
  <2>4. r <= Truth("softirqs", CPUSeq[i], "NET_RX")
    BY <1>2, <2>2, <2>3
  <2> QED
    BY <2>4 DEF r
<1>10. ASSUME coll = "network",
              \/ live["softnet"] = Present["softnet"]
              \/ Cardinality(live["softnet"]) # Cardinality(Present["softnet"])
       PROVE  DropRate <= TrueTotal("softnet", "dropped", CPUs)
  <2>1. FirstOf(start, "softnet") /\ SecondOf("softnet")
    BY <1>1, <1>10, DoneNetwork
  <2> QED
    BY <1>1, <1>10, <2>1, SoftnetBound
<1> QED
  BY <1>3, <1>4, <1>5, <1>6, <1>7, <1>8, <1>9, <1>10 DEF NeverInflated, Done

\* No rate of disk.go, memory.go and network.go claims more events than happened,
\* through wrapped counters, replaced devices and failed reads, on any machine.
THEOREM NeverInflatedHolds == Spec => []NeverInflated
BY SamplesFaithfulHolds, RatesFromSamples, PTL

\* A counter that wrapped shows less than it counted since.
LEMMA WrapShows ==
    ASSUME NEW n \in Nat, n > 0, NEW a \in Nat, a < n, NEW t \in Nat, (a + t) % n >= t
    PROVE  (a + t) % n = a + t
<1> DEFINE x == a + t
           q == x \div n
           r == x % n
<1>1. x \in Nat /\ q \in Int /\ r \in 0 .. n - 1 /\ x = n * q + r /\ (x < n => r = x) /\ (x >= n => q >= 1)
  OBVIOUS
<1>2. x = a + t /\ r >= t
  OBVIOUS
<1> HIDE DEF x, q, r
<1>3. CASE x >= n
  <2>1. n * q >= n
    BY <1>1, <1>3
  <2>2. n * q \in Int
    BY <1>1
  <2> QED
    BY <1>1, <1>2, <2>1, <2>2
<1>4. CASE x < n
  BY <1>1, <1>4 DEF x, r
<1> QED
  BY <1>1, <1>3, <1>4

\* A line that stayed is in both samples, and one that was never there is idle.
LEMMA SteadyLine ==
    ASSUME NEW start \in Starts, Since(start), NEW f \in Files, NEW l \in Lines(f), <<f, l>> \notin replaced
    PROVE  /\ l \in live[f] <=> l \in Present[f]
           /\ l \notin Present[f] => \A c \in Counters(f) : Truth(f, l, c) = 0
<1>1. l \in live[f] <=> l \in Present[f]
  BY DEF Since, LinesOf
<1>2. ASSUME l \notin Present[f], NEW c \in Counters(f) PROVE Truth(f, l, c) = 0
  <2> DEFINE k == <<f, l, c>>
  <2>1. k \in Keys /\ k[1] = f /\ k[2] = l
    BY KeyIn
  <2>2. Truth(f, l, c) = truth[k]
    BY DEF Truth
  <2> HIDE DEF k
  <2> QED
    BY <1>2, <2>1, <2>2 DEF Since, CounterOf
<1> QED
  BY <1>1, <1>2

\* A disk that stayed is reported, exactly unless its counter wrapped.
LEMMA DiskExact ==
    ASSUME NEW start \in Starts, Since(start), FirstOf(start, "diskstats"), SecondOf("diskstats"),
           NEW d \in Kept \cap Present["diskstats"], Steady("diskstats", d)
    PROVE  /\ d \in DOMAIN diskDevices
           /\ diskDevices[d]["ops"] = Truth("diskstats", d, "ops")
           /\ \A c \in {"ops", "ticks"} : DiskSteady(d, c) => diskDevices[d][c] = Truth("diskstats", d, c)
<1>1. /\ "diskstats" \in Files /\ d \in Lines("diskstats") /\ "diskstats" # "stat"
      /\ Counters("diskstats") = {"ops", "ticks"}
  BY KeptLines DEF Files, Counters
<1>2. "diskstats" \notin unread /\ <<"diskstats", d>> \notin replaced
  BY DEF Steady
<1>3. d \in live["diskstats"]
  BY <1>1, <1>2, SteadyLine
<1>4. d \in DOMAIN diskDevices
  BY <1>2, <1>3, DiskSamples
<1>5. ASSUME NEW c \in {"ops", "ticks"}, c = "ops" \/ DiskSteady(d, c)
      PROVE  diskDevices[d][c] = Truth("diskstats", d, c)
  <2> DEFINE a == counter[<<"diskstats", d, c>>]
             b == start[<<"diskstats", d, c>>]
             t == Truth("diskstats", d, c)
  <2>1. first["diskstats"][d][c] = b /\ diskDevices[d][c] = Int64(Sub64(a, b))
    BY <1>4, DiskSamples
  <2>2. a \in Nat /\ b \in Nat /\ b < U32 /\ t \in Nat /\ t < U64 \div 2 /\ a <= b + t
    BY <1>1, CounterBounds
  <2>3. a = Shown(c, b + t)
    BY <1>1, <1>2, CounterExact
  <2>4. c = "ops" \/ b + t < U32
    BY <1>5, <2>1 DEF DiskSteady
  <2> HIDE DEF a, b, t
  <2>5. a = b + t
    <3>1. CASE c = "ops"
      BY <2>3, <3>1 DEF Shown, Short
    <3>2. CASE b + t < U32
      <4>1. (b + t) % U32 = b + t
        BY <2>2, <3>2, Numbers, ModBelow
      <4> QED
        BY <2>3, <4>1 DEF Shown
    <3> QED
      BY <2>4, <3>1, <3>2
  <2>6. diskDevices[d][c] = t
    BY <2>1, <2>2, <2>5, SignedDifference
  <2> QED
    BY <2>6 DEF t
<1> QED
  BY <1>4, <1>5

\* The operations of disks that stayed add up to those that happened.
LEMMA TotalOpsExact ==
    ASSUME NEW start \in Starts, Since(start), FirstOf(start, "diskstats"), SecondOf("diskstats"),
           \A d \in Kept : Steady("diskstats", d)
    PROVE  TotalOps = TrueTotal("diskstats", "ops", Kept)
<1> DEFINE D == DOMAIN diskDevices
           f == [d \in D |-> diskDevices[d]["ops"]]
           t == [d \in Kept |-> Truth("diskstats", d, "ops")]
<1>1. TotalOps = SumFunctionOnSet(f, D) /\ TrueTotal("diskstats", "ops", Kept) = SumFunctionOnSet(t, Kept)
  BY DEF TotalOps, TrueTotal, SumFunction
<1>2. /\ "diskstats" \in Files /\ Kept \subseteq Lines("diskstats") /\ "ops" \in Counters("diskstats")
  BY KeptLines DEF Files, Counters
<1>3. D \subseteq Kept \cap Present["diskstats"] /\ IsFiniteSet(Kept)
  BY DiskSamples, KeptLines
<1>4. \A d \in Kept : t[d] \in Int
  <2> SUFFICES ASSUME NEW d \in Kept PROVE Truth("diskstats", d, "ops") \in Int
    OBVIOUS
  <2>1. d \in Lines("diskstats")
    BY <1>2
  <2>2. Truth("diskstats", d, "ops") \in Nat
    BY <1>2, <2>1, CounterBounds
  <2> QED
    BY <2>2
<1>5. \A d \in D : t[d] = f[d]
  BY <1>3, DiskExact
<1>6. ASSUME NEW d \in Kept \ D PROVE t[d] = 0
  <2>1. d \in Lines("diskstats") /\ <<"diskstats", d>> \notin replaced /\ "diskstats" \notin unread
    BY <1>2 DEF Steady
  <2>2. d \notin Present["diskstats"]
    BY <1>6, DiskExact
  <2> QED
    BY <1>2, <2>1, <2>2, SteadyLine
<1> HIDE DEF f, t, D
<1>7. SumFunctionOnSet(t, Kept) = SumFunctionOnSet(t, D)
  BY <1>3, <1>4, <1>6, SumSubset
<1>8. IsFiniteSet(D)
  BY <1>3, FS_Subset
<1>9. SumFunctionOnSet(t, D) = SumFunctionOnSet(f, D)
  BY <1>3, <1>4, <1>5, <1>8, SumEqual
<1> QED
  BY <1>1, <1>7, <1>9

\* With the same CPUs and no wrap the drop rate is exact.
LEMMA SoftnetExact ==
    ASSUME NEW start \in Starts, Since(start), FirstOf(start, "softnet"), SecondOf("softnet"),
           \A c \in CPUs : Steady("softnet", c) /\ counter[<<"softnet", c, "dropped">>] >= Truth("softnet", c, "dropped")
    PROVE  DropRate = TrueTotal("softnet", "dropped", CPUs)
<1> DEFINE t == [c \in CPUs |-> Truth("softnet", c, "dropped")]
           g == [c \in CPUs |-> Clamp(counter[<<"softnet", c, "dropped">>] - start[<<"softnet", c, "dropped">>])]
<1>1. /\ "softnet" \in Files /\ Lines("softnet") = CPUs /\ "dropped" \in Counters("softnet")
      /\ "softnet" # "stat" /\ "dropped" \in Short /\ "softnet" \notin NewObject
  BY DEF Files, Lines, Counters, Short, NewObject
<1>2. \A c \in CPUs : g[c] = t[c] /\ t[c] \in Int
  <2> SUFFICES ASSUME NEW c \in CPUs PROVE g[c] = t[c] /\ t[c] \in Int
    OBVIOUS
  <2> DEFINE k == <<"softnet", c, "dropped">>
  <2>1. counter[k] \in Nat /\ start[k] \in Nat /\ start[k] < U32 /\ t[c] \in Nat /\ counter[k] <= start[k] + t[c]
    BY <1>1, CounterBounds
  <2>2. counter[k] = (start[k] + t[c]) % U32
    BY <1>1, CounterExact DEF Shown
  <2>3. counter[k] >= t[c] /\ g[c] = Clamp(counter[k] - start[k])
    OBVIOUS
  <2> HIDE DEF k, t, g
  <2>4. counter[k] = start[k] + t[c]
    BY <2>1, <2>2, <2>3, Numbers, WrapShows
  <2>5. Clamp(counter[k] - start[k]) = t[c]
    BY <2>1, <2>4 DEF Clamp
  <2> QED
    BY <2>1, <2>3, <2>5
<1>3. live["softnet"] = Present["softnet"]
  <2>1. live["softnet"] \subseteq CPUs /\ Present["softnet"] \subseteq CPUs
    BY <1>1, SamplingAssumption DEF Since, LinesOf
  <2>2. \A c \in CPUs : c \in live["softnet"] <=> c \in Present["softnet"]
    BY <1>1, SteadyLine DEF Steady
  <2> QED
    BY <2>1, <2>2
<1>4. TrueTotal("softnet", "dropped", CPUs) = SumFunctionOnSet(t, CPUs)
  BY DEF TrueTotal, SumFunction
<1>5. \A c \in CPUs : "softnet" \notin unread
  BY DEF Steady
<1>6. CASE "softnet" \in unread
  <2>1. CPUs = {}
    BY <1>5, <1>6
  <2>2. DropRate = 0 \/ \E T \in SUBSET CPUs : DropRate = SumFunctionOnSet(g, T)
    BY <1>3, SoftnetRate
  <2>3. DropRate = 0
    BY <2>1, <2>2, SumEmpty
  <2> QED
    BY <1>4, <2>1, <2>3, SumEmpty
<1>7. CASE "softnet" \notin unread
  <2> DEFINE T == OnlineCPUs(Online(TRUE, Present))
  <2>1. DropRate = SumFunctionOnSet(g, T) /\ T \subseteq CPUs
    BY <1>3, <1>7, SoftnetRate
  <2>2. ASSUME NEW c \in CPUs \ T PROVE g[c] = 0
    <3>1. c \notin Present["softnet"]
      BY <2>2 DEF OnlineCPUs, Online, CPUs
    <3>2. t[c] = 0
      BY <1>1, <3>1, SteadyLine DEF Steady
    <3> QED
      BY <1>2, <3>2
  <2> HIDE DEF g, t, T
  <2>3. SumFunctionOnSet(g, CPUs) = SumFunctionOnSet(g, T)
    BY <1>2, <2>1, <2>2, CPUsFinite, SumSubset
  <2>4. SumFunctionOnSet(t, CPUs) = SumFunctionOnSet(g, CPUs)
    BY <1>2, CPUsFinite, SumEqual
  <2> QED
    BY <1>4, <2>1, <2>3, <2>4
<1> QED
  BY <1>6, <1>7

\* From the step after InitSubStructs on, the second sample has no UDP counter.
UDPReplaced == coll = "network" /\ step > 10 => second["snmp"].UDP = 0

\* Only InitSubStructs passes step 10, and no later read is one of /proc/net/snmp.
LEMMA UDPStays ==
    ASSUME SamplesFaithful, UDPReplaced, [Next]_vars
    PROVE  UDPReplaced'
<1>1. PICK start \in Starts : Since(start)
  BY DEF SamplesFaithful
<1>2. CASE UNCHANGED <<coll, step, second>>
  BY <1>2 DEF UDPReplaced
<1>3. ASSUME NEW op \in {"first", "sleep", "second", "ss", "return"}, At(op), coll' = coll, step' = step + 1,
             coll = "network" /\ step > 10 => second'["snmp"].UDP = 0
      PROVE  UDPReplaced'
  <2>1. coll = "network" => step # 10
    BY <1>3 DEF At, Script, NetworkSteps
  <2>2. step \in Nat
    BY <1>1 DEF Since, Shape
  <2> QED
    BY <1>3, <2>1, <2>2 DEF UDPReplaced
<1>4. ASSUME NEW ok \in BOOLEAN, SecondRead(ok) PROVE UDPReplaced'
  <2>1. /\ At("second") /\ coll' = coll /\ step' = step + 1
        /\ second' = LET f == Script(coll)[step][2] IN
              [g \in DOMAIN second \cup {f} |-> IF g = f THEN Read(f, ok, counter, live) ELSE second[g]]
    BY <1>4 DEF SecondRead
  <2>2. ASSUME coll = "network", step > 10 PROVE second'["snmp"].UDP = 0
    <3>1. step \in Nat /\ step \in DOMAIN NetworkSteps /\ Script(coll) = NetworkSteps
      BY <1>1, <2>1, <2>2 DEF At, Since, Shape, Progress, Script
    <3>2. step \in 11 .. 14
      BY <2>2, <3>1 DEF NetworkSteps
    <3>3. NetworkSteps[step][2] # "snmp"
      BY <3>2 DEF NetworkSteps
    <3>4. "snmp" \in DOMAIN second
      <4>1. NetworkSteps[8] = <<"second", "snmp">> /\ 8 \in 1 .. step - 1 /\ "snmp" \in Files
        BY <3>2 DEF NetworkSteps, Files
      <4> QED
        BY <1>1, <3>1, <4>1 DEF Since, Progress, Behind
    <3>5. second'["snmp"] = second["snmp"]
      BY <2>1, <3>1, <3>3, <3>4
    <3> QED
      BY <2>2, <3>5 DEF UDPReplaced
  <2> QED
    BY <1>3, <2>1, <2>2
<1>5. CASE InitSubStructs
  <2>1. /\ status = "running" /\ Script(coll)[step][1] = "substructs"
        /\ second' = [second EXCEPT !["snmp"] = [second["snmp"] EXCEPT !.UDP = 0]]
    BY <1>5 DEF InitSubStructs, At
  <2>2. "snmp" \in DOMAIN second
    BY <1>1, <2>1, SNMPRead
  <2>3. SecondOf("snmp")
    BY <1>1, <2>2 DEF Since
  <2>4. [second["snmp"] EXCEPT !.UDP = 0].UDP = 0
    BY <2>3 DEF SecondOf, Read, parseSNMP
  <2>5. second'["snmp"].UDP = 0
    BY <2>1, <2>2, <2>4
  <2> QED
    BY <2>5 DEF UDPReplaced
<1>6. CASE Collect
  <2>1. ASSUME NEW ok \in BOOLEAN, FirstRead(ok) PROVE UDPReplaced'
    BY <1>3, <2>1 DEF FirstRead, UDPReplaced
  <2>2. ASSUME NEW ok \in BOOLEAN, parseSSConnections(ok) PROVE UDPReplaced'
    BY <1>3, <2>2 DEF parseSSConnections, UDPReplaced
  <2>3. CASE Sleep
    BY <1>3, <2>3 DEF Sleep, UDPReplaced
  <2>4. CASE Return
    BY <1>3, <2>4 DEF Return, UDPReplaced
  <2>5. CASE Cancel
    BY <1>2, <2>5 DEF Cancel
  <2> QED
    BY <1>4, <1>5, <1>6, <2>1, <2>2, <2>3, <2>4, <2>5 DEF Collect
<1>7. CASE Kernel
  BY <1>2, <1>7 DEF Kernel, Count, Leave, Join, TakeBack
<1> QED
  BY <1>2, <1>6, <1>7 DEF Next, Expire, vars

\* The UDP rate is computed from the replaced struct.
LEMMA UDPRate ==
    ASSUME SamplesFaithful, UDPReplaced, Done("network")
    PROVE  RcvbufErrRate = 0
<1>1. PICK start \in Starts : Since(start)
  BY DEF SamplesFaithful
<1>2. FirstOf(start, "snmp") /\ SecondOf("snmp")
  BY <1>1, DoneNetwork DEF Done
<1>3. step \in Nat /\ 14 < step
  BY <1>1 DEF Done, Since, Shape, Progress, Script, NetworkSteps
<1>4. second["snmp"].UDP = 0
  BY <1>3 DEF UDPReplaced, Done
<1> DEFINE u == <<"snmp", "host", "RcvbufErrors">>
<1>5. "snmp" \in Files /\ "host" \in Lines("snmp") /\ "RcvbufErrors" \in Counters("snmp")
  BY DEF Files, Lines, Counters
<1>6. start[u] \in Nat
  BY <1>1, <1>5, CounterBounds
<1>7. RcvbufErrRate \in {0, Clamp(second["snmp"].UDP - start[u])}
  BY <1>2, SNMPRates
<1> HIDE DEF u
<1>8. Clamp(0 - start[u]) = 0
  BY <1>6 DEF Clamp
<1> QED
  BY <1>4, <1>7, <1>8

\* The invariants imply that nothing else is lost.
LEMMA EventsFromSamples == SamplesFaithful /\ UDPReplaced => LossesKnown
<1> SUFFICES ASSUME SamplesFaithful, UDPReplaced PROVE LossesKnown
  OBVIOUS
<1>1. PICK start \in Starts : Since(start)
  BY DEF SamplesFaithful
<1>2. status = "panic" => "snmp" \in unread
  BY <1>1 DEF Since, Progress
<1>3. /\ {"diskstats", "vmstat", "snmp", "netdev", "netstat", "softirqs"} \subseteq Files
      /\ Lines("vmstat") = {"host"} /\ Lines("snmp") = {"host"}
      /\ Lines("netdev") = Ifaces /\ Lines("netstat") = {"host"} /\ Lines("softirqs") = CPUs
      /\ Counters("diskstats") = {"ops", "ticks"} /\ Counters("vmstat") = {"pgscan_direct"}
      /\ Counters("snmp") = {"RetransSegs", "RcvbufErrors"} /\ Counters("netdev") = {"errors"}
      /\ Counters("netstat") = {"ListenOverflows"} /\ Counters("softirqs") = {"NET_RX"}
  BY DEF Files, Lines, Counters
<1>4. ASSUME NEW f \in Files, NEW l \in Lines(f), NEW c \in Counters(f),
             f \notin {"stat", "diskstats", "softnet"}, f \in NewObject => <<f, l>> \notin replaced
      PROVE  /\ counter[<<f, l, c>>] - start[<<f, l, c>>] = Truth(f, l, c)
             /\ Clamp(counter[<<f, l, c>>] - start[<<f, l, c>>]) = Truth(f, l, c)
  <2> DEFINE a == counter[<<f, l, c>>]
             b == start[<<f, l, c>>]
             t == Truth(f, l, c)
  <2>1. a \in Nat /\ b \in Nat /\ t \in Nat
    BY <1>1, CounterBounds
  <2>2. c \notin Short
    BY <1>4 DEF Files, Counters, Short
  <2>3. a = Shown(c, b + t)
    BY <1>1, <1>4, CounterExact
  <2> HIDE DEF a, b, t
  <2>4. a = b + t
    BY <2>2, <2>3 DEF Shown
  <2>5. a - b = t /\ a <= b + t
    BY <2>1, <2>4
  <2>6. Clamp(a - b) = t
    BY <2>1, <2>5 DEF Clamp
  <2> QED
    BY <2>5, <2>6 DEF a, b, t
<1>5. ASSUME status = "done", coll = "disk"
      PROVE  /\ \A d \in Kept \cap Present["diskstats"] : \A c \in {"ops", "ticks"} :
                   Steady("diskstats", d) =>
                      /\ d \in DOMAIN diskDevices
                      /\ DiskSteady(d, c) => diskDevices[d][c] = Truth("diskstats", d, c)
             /\ (\A d \in Kept : Steady("diskstats", d)) => TotalOps = TrueTotal("diskstats", "ops", Kept)
  <2>1. FirstOf(start, "diskstats") /\ SecondOf("diskstats")
    BY <1>1, <1>5, DoneTwice
  <2>2. ASSUME NEW d \in Kept \cap Present["diskstats"], Steady("diskstats", d), NEW c \in {"ops", "ticks"}
        PROVE  d \in DOMAIN diskDevices /\ (DiskSteady(d, c) => diskDevices[d][c] = Truth("diskstats", d, c))
    BY <1>1, <2>1, <2>2, DiskExact
  <2>3. (\A d \in Kept : Steady("diskstats", d)) => TotalOps = TrueTotal("diskstats", "ops", Kept)
    BY <1>1, <2>1, TotalOpsExact
  <2> QED
    BY <2>2, <2>3
<1>6. ASSUME status = "done", coll = "memory", Steady("vmstat", "host")
      PROVE  computeReclaimRates(first["vmstat"], second["vmstat"]) = Truth("vmstat", "host", "pgscan_direct")
  <2>1. FirstOf(start, "vmstat") /\ SecondOf("vmstat")
    BY <1>1, <1>6, DoneTwice
  <2>2. "vmstat" \notin unread /\ "vmstat" \notin NewObject
    BY <1>6 DEF Steady, NewObject
  <2> QED
    BY <1>3, <1>4, <2>1, <2>2, VmstatRate
<1>7. ASSUME status = "done", coll = "network", Steady("snmp", "host")
      PROVE  RetransRate = Truth("snmp", "host", "RetransSegs")
  <2>1. FirstOf(start, "snmp") /\ SecondOf("snmp")
    BY <1>1, <1>7, DoneNetwork
  <2>2. "snmp" \notin unread /\ "snmp" \notin NewObject
    BY <1>7 DEF Steady, NewObject
  <2> DEFINE k == <<"snmp", "host", "RetransSegs">>
  <2>3. RetransRate = Clamp(counter[k] - start[k])
    BY <2>1, <2>2, SNMPRates
  <2>4. "snmp" \in Files /\ "host" \in Lines("snmp") /\ "RetransSegs" \in Counters("snmp")
    BY <1>3
  <2> QED
    BY <1>4, <2>2, <2>3, <2>4
<1>8. ASSUME status = "done", coll = "network", Steady("netstat", "host")
      PROVE  ListenOverflowRate = Truth("netstat", "host", "ListenOverflows")
  <2>1. FirstOf(start, "netstat") /\ SecondOf("netstat")
    BY <1>1, <1>8, DoneNetwork
  <2>2. "netstat" \notin unread /\ "netstat" \notin NewObject
    BY <1>8 DEF Steady, NewObject
  <2> QED
    BY <1>3, <1>4, <2>1, <2>2, NetstatRate
<1>9. ASSUME status = "done", coll = "network", NEW i \in Ifaces \cap Present["netdev"], Steady("netdev", i)
      PROVE  ErrorsPerSec[i] = Truth("netdev", i, "errors")
  <2>1. FirstOf(start, "netdev") /\ SecondOf("netdev")
    BY <1>1, <1>9, DoneNetwork
  <2>2. "netdev" \notin unread /\ <<"netdev", i>> \notin replaced
    BY <1>9 DEF Steady
  <2>3. "netdev" \in Files /\ i \in Lines("netdev") /\ "errors" \in Counters("netdev")
    BY <1>3
  <2>4. i \in live["netdev"]
    BY <1>1, <2>2, <2>3, SteadyLine
  <2>5. ErrorsPerSec[i] = counter[<<"netdev", i, "errors">>] - start[<<"netdev", i, "errors">>]
    BY <1>1, <2>1, <2>2, <2>4, NetdevSamples
  <2> QED
    BY <1>4, <2>2, <2>3, <2>5
<1>10. ASSUME status = "done", coll = "network", "softirqs" \notin unread, NEW i \in DOMAIN CPUSeq
       PROVE  computeIRQDistribution(first["softirqs"], second["softirqs"])[i] = Truth("softirqs", CPUSeq[i], "NET_RX")
  <2>1. FirstOf(start, "softirqs") /\ SecondOf("softirqs")
    BY <1>1, <1>10, DoneNetwork
  <2> DEFINE r == computeIRQDistribution(first["softirqs"], second["softirqs"])[i]
  <2>2. r = Clamp(counter[<<"softirqs", CPUSeq[i], "NET_RX">>] - start[<<"softirqs", CPUSeq[i], "NET_RX">>])
    BY <1>10, <2>1, IRQSamples
  <2> HIDE DEF r
  <2>3. /\ CPUSeq[i] \in Lines("softirqs") /\ "softirqs" \in Files /\ "NET_RX" \in Counters("softirqs")
        /\ "softirqs" \notin NewObject
    BY <1>3 DEF CPUs, NewObject
  <2>4. r = Truth("softirqs", CPUSeq[i], "NET_RX")
    BY <1>4, <2>2, <2>3
  <2> QED
    BY <2>4 DEF r
<1>11. ASSUME status = "done", coll = "network",
              \A c \in CPUs : Steady("softnet", c)
                              /\ counter[<<"softnet", c, "dropped">>] >= Truth("softnet", c, "dropped")
       PROVE  DropRate = TrueTotal("softnet", "dropped", CPUs)
  <2>1. FirstOf(start, "softnet") /\ SecondOf("softnet")
    BY <1>1, <1>11, DoneNetwork
  <2> QED
    BY <1>1, <1>11, <2>1, SoftnetExact
<1> QED
  BY <1>2, <1>3, <1>5, <1>6, <1>7, <1>8, <1>9, <1>10, <1>11, UDPRate DEF LossesKnown, Done

\* What a line that stays counts is reported exactly, whatever becomes of the other
\* lines and files, for any number of CPUs, disks, partitions and interfaces.  Two
\* losses are stated with it: UDP receive buffer errors are always reported as 0, and a
\* whole result is lost only through /proc/net/snmp.  A partition whose name the filter
\* of disk.go does not know is counted like a disk.
THEOREM LossesKnownHolds == Spec => []LossesKnown
<1>1. Init => UDPReplaced
  BY DEF Init, UDPReplaced
<1>2. SamplesFaithful /\ UDPReplaced /\ [Next]_vars => UDPReplaced'
  BY UDPStays
<1> QED
  BY <1>1, <1>2, SamplesFaithfulHolds, EventsFromSamples, PTL DEF Spec

-----------------------------------------------------------------------------
(* The lists of the process collector.                                      *)

\* The first TopN of a sorted slice hold nothing smaller than what is left out.
LEMMA FirstNTop ==
    ASSUME NEW L, IsFiniteSet(L), NEW s \in SetToSeqs(L), NEW key,
           \A i, j \in DOMAIN s : i < j => key[s[i]] >= key[s[j]]
    PROVE  /\ Range(FirstN(s)) \subseteq L
           /\ \A p \in L \ Range(FirstN(s)), q \in Range(FirstN(s)) : key[q] >= key[p]
<1> DEFINE N == Cardinality(L)
           m == IF N < TopN THEN N ELSE TopN
<1>1. N \in Nat /\ TopN \in Nat
  BY FS_CardinalityType, Numbers
<1>2. s \in [1 .. N -> L] /\ \A i, j \in 1 .. N : i # j => s[i] # s[j]
  BY DEF SetToSeqs
<1>3. Len(s) = N /\ DOMAIN s = 1 .. N /\ s \in Seq(L)
  BY <1>1, <1>2
<1> HIDE DEF N
<1>4. m \in Nat /\ m <= N
  BY <1>1
<1>5. FirstN(s) = [i \in 1 .. m |-> s[i]]
  <2>1. FirstN(s) = SubSeq(s, 1, m)
    BY <1>3 DEF FirstN
  <2> HIDE DEF m
  <2>2. SubSeq(s, 1, m) = [i \in 1 .. m |-> s[i]]
    BY <1>3, <1>4
  <2> QED
    BY <2>1, <2>2
<1>6. Range(FirstN(s)) = {s[i] : i \in 1 .. m}
  BY <1>5 DEF Range
<1> HIDE DEF m
<1>7. \A p \in L : \E j \in 1 .. N : s[j] = p
  <2>1. s \in Injection(1 .. N, L)
    BY <1>2 DEF Injection, IsInjective
  <2>2. IsFiniteSet(1 .. N) /\ Cardinality(1 .. N) = Cardinality(L)
    BY <1>1, FS_Interval DEF N
  <2>3. s \in Surjection(1 .. N, L)
    BY <2>1, <2>2, FS_Injection
  <2> QED
    BY <2>3 DEF Surjection
<1>8. ASSUME NEW p \in L \ Range(FirstN(s)), NEW q \in Range(FirstN(s)) PROVE key[q] >= key[p]
  <2>1. PICK i \in 1 .. m : s[i] = q
    BY <1>6
  <2>2. PICK j \in 1 .. N : s[j] = p
    BY <1>7
  <2>3. j \notin 1 .. m
    BY <1>6, <2>2
  <2>4. i \in 1 .. N /\ i < j
    BY <1>1, <1>4, <2>3
  <2> QED
    BY <1>3, <2>1, <2>2, <2>4
<1>9. Range(FirstN(s)) \subseteq L
  BY <1>1, <1>2, <1>4, <1>6
<1> QED
  BY <1>8, <1>9

\* The CPU time of a process that lived through the interval is its own.
LEMMA PidSamples ==
    ASSUME NEW start \in Starts, Since(start), FirstOf(start, "pids"), SecondOf("pids")
    PROVE  /\ Listed \subseteq Pids
           /\ \A p \in Listed : Steady("pids", p) => CPUPct(p) = Truth("pids", p, "time")
                                                     /\ Truth("pids", p, "time") \in Nat
<1>1. /\ "pids" \in Files /\ Lines("pids") = Pids /\ "time" \in Counters("pids")
      /\ "pids" # "stat" /\ "time" \notin Short
  BY DEF Files, Lines, Counters, Short
<1> DEFINE kept(ok, lv) == {l \in lv["pids"] : ok}
           read(ok, cn, lv) == [p \in kept(ok, lv) |-> cn[<<"pids", p, "time">>]]
<1>2. \A ok, cn, lv : readAllPIDs(ok, cn, lv) = read(ok, cn, lv)
  BY DEF readAllPIDs, Value
<1>3. PICK ok1 \in BOOLEAN : (ok1 \/ "pids" \in unread) /\ first["pids"] = read(ok1, start, Present)
  BY <1>2 DEF FirstOf, Read
<1>4. PICK ok2 \in BOOLEAN : (ok2 \/ "pids" \in unread) /\ second["pids"] = read(ok2, counter, live)
  BY <1>2 DEF SecondOf, Read
<1>5. live["pids"] \subseteq Pids
  BY <1>1 DEF Since, LinesOf
<1>6. \A p \in Listed : p \in DOMAIN second["pids"]
  BY DEF Listed
<1>7. DOMAIN second["pids"] \subseteq live["pids"]
  BY <1>4
<1>8. ASSUME NEW p \in Listed, Steady("pids", p)
      PROVE  CPUPct(p) = Truth("pids", p, "time") /\ Truth("pids", p, "time") \in Nat
  <2> DEFINE a == counter[<<"pids", p, "time">>]
             b == start[<<"pids", p, "time">>]
             t == Truth("pids", p, "time")
  <2>1. p \in Lines("pids") /\ "pids" \notin unread /\ <<"pids", p>> \notin replaced /\ p \in live["pids"]
    BY <1>1, <1>5, <1>6, <1>7, <1>8 DEF Steady
  <2>2. p \in Present["pids"]
    BY <1>1, <2>1, SteadyLine
  <2>3. p \in DOMAIN first["pids"] /\ first["pids"][p] = b /\ second["pids"][p] = a
    BY <1>3, <1>4, <2>1, <2>2
  <2>4. CPUPct(p) = Sub64(a, b)
    BY <2>3 DEF CPUPct
  <2>5. a \in Nat /\ b \in Nat /\ t \in Nat /\ t < U64 \div 2
    BY <1>1, <2>1, CounterBounds
  <2>6. a = b + t
    BY <1>1, <2>1, CounterExact DEF Shown
  <2>7. U64 \div 2 \in Nat /\ U64 \div 2 < U64 /\ U64 \in Nat
    BY EventsFit, Numbers
  <2> HIDE DEF a, b, t
  <2>8. a - b = t /\ t < U64
    BY <2>5, <2>6, <2>7
  <2>9. Sub64(a, b) = t
    BY <2>5, <2>8, SubExact
  <2> QED
    BY <2>4, <2>5, <2>9 DEF t
<1> QED
  BY <1>5, <1>6, <1>7, <1>8

\* The invariant implies that the lists are the top ones.
LEMMA ListsFromSamples == SamplesFaithful => TopListsCorrect
<1> SUFFICES ASSUME SamplesFaithful, status = "done", coll = "process"
             PROVE  /\ Range(top.TopByCPU) \cup Range(top.TopByMem) \subseteq Listed
                    /\ \A p \in Listed \ Range(top.TopByCPU), q \in Range(top.TopByCPU) :
                          Steady("pids", p) /\ Steady("pids", q) => Truth("pids", p, "time") <= Truth("pids", q, "time")
                    /\ \A p \in Listed \ Range(top.TopByMem), q \in Range(top.TopByMem) : Rss[p] <= Rss[q]
  BY DEF TopListsCorrect, Done
<1>1. PICK start \in Starts : Since(start)
  BY DEF SamplesFaithful
<1>2. FirstOf(start, "pids") /\ SecondOf("pids")
  BY <1>1, DoneTwice
<1> DEFINE cpu == [p \in Listed |-> CPUPct(p)]
           mem == [p \in Listed |-> Rss[p]]
<1>3. PICK byCPU \in SortedBy(cpu) : \E byMem \in SortedBy(mem) : top = ProcessLists(byCPU, byMem)
  BY <1>1 DEF Since, TopOf, Done
<1>4. PICK byMem \in SortedBy(mem) : top = ProcessLists(byCPU, byMem)
  BY <1>3
<1>5. top.TopByCPU = FirstN(byCPU) /\ top.TopByMem = FirstN(byMem)
  BY <1>4 DEF ProcessLists
<1>6. Listed \subseteq Pids
  BY <1>1, <1>2, PidSamples
<1>7. IsFiniteSet(Listed)
  BY <1>6, SamplingAssumption, FS_Subset
<1>8. /\ byCPU \in SetToSeqs(Listed) /\ \A i, j \in DOMAIN byCPU : i < j => cpu[byCPU[i]] >= cpu[byCPU[j]]
      /\ byMem \in SetToSeqs(Listed) /\ \A i, j \in DOMAIN byMem : i < j => mem[byMem[i]] >= mem[byMem[j]]
  BY DEF SortedBy
<1>9. (\A p \in Listed : cpu[p] = CPUPct(p)) /\ (\A p \in Listed : mem[p] = Rss[p])
  OBVIOUS
<1> HIDE DEF cpu, mem
<1>10. /\ Range(FirstN(byCPU)) \subseteq Listed
       /\ \A p \in Listed \ Range(FirstN(byCPU)), q \in Range(FirstN(byCPU)) : cpu[q] >= cpu[p]
  BY <1>7, <1>8, FirstNTop
<1>11. /\ Range(FirstN(byMem)) \subseteq Listed
       /\ \A p \in Listed \ Range(FirstN(byMem)), q \in Range(FirstN(byMem)) : mem[q] >= mem[p]
  BY <1>7, <1>8, FirstNTop
<1>12. ASSUME NEW p \in Listed \ Range(top.TopByCPU), NEW q \in Range(top.TopByCPU),
              Steady("pids", p), Steady("pids", q)
       PROVE  Truth("pids", p, "time") <= Truth("pids", q, "time")
  <2>1. q \in Listed /\ cpu[q] >= cpu[p]
    BY <1>5, <1>10
  <2>2. cpu[p] = Truth("pids", p, "time") /\ cpu[q] = Truth("pids", q, "time")
    BY <1>1, <1>2, <1>9, <1>12, <2>1, PidSamples
  <2>3. Truth("pids", p, "time") \in Nat /\ Truth("pids", q, "time") \in Nat
    BY <1>1, <1>2, <1>12, <2>1, PidSamples
  <2> QED
    BY <2>1, <2>2, <2>3
<1>13. ASSUME NEW p \in Listed \ Range(top.TopByMem), NEW q \in Range(top.TopByMem)
       PROVE  Rss[p] <= Rss[q]
  <2>1. q \in Listed /\ mem[q] >= mem[p]
    BY <1>5, <1>11
  <2>2. Rss[p] \in Nat /\ Rss[q] \in Nat
    BY <1>6, <2>1, SamplingAssumption
  <2> QED
    BY <1>9, <2>1, <2>2
<1> QED
  BY <1>5, <1>10, <1>11, <1>12, <1>13

\* Of two processes that lived through the interval, one that process.go leaves
\* out of a list has no more than one that it lists, for any number of processes.
THEOREM TopListsCorrectHolds == Spec => []TopListsCorrect
BY SamplesFaithfulHolds, ListsFromSamples, PTL
=============================================================================
