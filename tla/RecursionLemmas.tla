-------------------------- MODULE RecursionLemmas --------------------------
(***************************************************************************)
(* Induction and recursion over the naturals, and folds over finite sets,  *)
(* in a form the provers can use: what holds of a recursive definition is  *)
(* shown by a least counterexample.                                        *)
(***************************************************************************)
EXTENDS Integers, TLAPS, WellFoundedInduction, FiniteSetTheorems

\* A non-empty set of naturals has a least element.
LEMMA LeastElement ==
  ASSUME NEW T \in SUBSET Nat, T # {}
  PROVE  \E m \in T : \A k \in T : m <= k
<1> DEFINE R == {ss \in Nat \X Nat : ss[1] < ss[2]}
<1>1. IsWellFoundedOn(R, Nat)
  BY NatLessThanWellFounded DEF OpToRel
<1> HIDE DEF R
<1>2. PICK m \in T : \A k \in T : ~(<<k, m>> \in R)
  BY <1>1, WFMin
<1>3. ASSUME NEW k \in T, k < m PROVE FALSE
  <2>1. <<k, m>> \in R
    BY <1>3 DEF R
  <2> QED BY <1>2, <2>1
<1>4. \A k \in T : m <= k
  BY <1>3
<1> QED BY <1>4

-----------------------------------------------------------------------------
(***************************************************************************)
(* Recursion over 0..N.  The step is given as a function on values and     *)
(* positions, so that the lemma can be used for any of them.               *)
(***************************************************************************)
\* f takes N steps G from b.
Follows(f, N, b, G) ==
  /\ DOMAIN f = 0..N
  /\ f[0] = b
  /\ \A n \in 1..N : f[n] = G[<<f[n - 1], n>>]

\* A function defined by recursion over 0..N exists, and has its type.
LEMMA RecursionExists ==
  ASSUME NEW N \in Nat, NEW A, NEW b \in A, NEW G \in [A \X (1..N) -> A]
  PROVE  \E f \in [0..N -> A] : Follows(f, N, b, G)
<1> DEFINE T == {m \in Nat : m <= N /\ ~\E f \in [0..m -> A] : Follows(f, m, b, G)}
<1>1. ASSUME T # {} PROVE FALSE
  <2>1. PICK m \in T : \A k \in T : m <= k
    BY <1>1, LeastElement
  <2>2. m # 0
    <3>1. [n \in 0..0 |-> b] \in [0..0 -> A]
      OBVIOUS
    <3>2. Follows([n \in 0..0 |-> b], 0, b, G)
      BY DEF Follows
    <3> QED BY <2>1, <3>1, <3>2
  <2>3. m - 1 \in Nat /\ m - 1 <= N /\ m - 1 \notin T
    BY <2>1, <2>2
  <2>4. PICK f \in [0..m - 1 -> A] : Follows(f, m - 1, b, G)
    BY <2>3
  <2> DEFINE g == [n \in 0..m |-> IF n = m THEN G[<<f[m - 1], m>>] ELSE f[n]]
  <2>5. m \in 1..N /\ f[m - 1] \in A
    BY <2>1, <2>2, <2>4
  <2>6. G[<<f[m - 1], m>>] \in A
    BY <2>5
  <2>7. g \in [0..m -> A]
    BY <2>1, <2>4, <2>6
  <2>8. Follows(g, m, b, G)
    <3>1. DOMAIN g = 0..m /\ g[0] = b
      BY <2>1, <2>2, <2>4 DEF Follows
    <3>2. ASSUME NEW n \in 1..m
          PROVE  g[n] = G[<<g[n - 1], n>>]
      <4>1. CASE n = m
        <5>1. m - 1 \in 0..m /\ m - 1 # m /\ m \in 0..m
          BY <2>3
        <5>2. g[m] = G[<<f[m - 1], m>>] /\ g[m - 1] = f[m - 1]
          BY <5>1
        <5> QED BY <4>1, <5>2
      <4>2. CASE n # m
        <5>1. n \in 1..m - 1 /\ n - 1 \in 0..m - 1 /\ n \in 0..m /\ n - 1 \in 0..m /\ n - 1 # m
          BY <2>3, <4>2
        <5>2. g[n] = f[n] /\ g[n - 1] = f[n - 1]
          BY <4>2, <5>1
        <5>3. f[n] = G[<<f[n - 1], n>>]
          BY <2>4, <5>1 DEF Follows
        <5> QED BY <5>2, <5>3
      <4> QED BY <4>1, <4>2
    <3> QED BY <3>1, <3>2 DEF Follows
  <2> HIDE DEF g
  <2> QED BY <2>1, <2>7, <2>8
<1>2. N \notin T
  BY <1>1
<1> QED BY <1>2

\* There is only one: two that begin alike and take the same steps agree.
LEMMA RecursionUnique ==
  ASSUME NEW N \in Nat, NEW b, NEW G, NEW f, NEW g, NEW M \in Nat, M <= N,
         Follows(f, N, b, G), Follows(g, M, b, G)
  PROVE  \A n \in 0..M : f[n] = g[n]
<1> DEFINE T == {n \in 0..M : f[n] # g[n]}
<1>1. ASSUME T # {} PROVE FALSE
  <2>1. T \in SUBSET Nat
    OBVIOUS
  <2>2. PICK m \in T : \A k \in T : m <= k
    BY <1>1, <2>1, LeastElement
  <2>3. m # 0
    BY <2>2 DEF Follows
  <2>4. m - 1 \in 0..M /\ m - 1 \notin T /\ m \in 1..M /\ m \in 1..N
    BY <2>2, <2>3
  <2> QED BY <2>2, <2>4 DEF Follows
<1> QED BY <1>1

-----------------------------------------------------------------------------
(***************************************************************************)
(* Recursion over the subsets of a finite set, one element at a time: what *)
(* the folds of the community modules do.  c names the element to take     *)
(* next, H is the step.                                                    *)
(***************************************************************************)
Folded(g, W, b, c, H) ==
  /\ DOMAIN g = SUBSET W
  /\ g[{}] = b
  /\ \A T \in SUBSET W : T # {} => g[T] = H[<<g[T \ {c[T]}], c[T]>>]

\* A subset without one of its elements is smaller.
LEMMA OneLess ==
  ASSUME NEW W, IsFiniteSet(W), NEW T \in SUBSET W, NEW x \in T
  PROVE  /\ IsFiniteSet(T) /\ T \ {x} \in SUBSET W
         /\ Cardinality(T) \in Nat /\ Cardinality(T) <= Cardinality(W)
         /\ Cardinality(T \ {x}) = Cardinality(T) - 1
<1>1. IsFiniteSet(T) /\ Cardinality(T) <= Cardinality(W)
  BY FS_Subset
<1>2. Cardinality(T) \in Nat
  BY <1>1, FS_CardinalityType
<1>3. Cardinality(T \ {x}) = Cardinality(T) - 1
  BY <1>1, FS_RemoveElement
<1> QED BY <1>1, <1>2, <1>3

\* Such a function exists, and has its type.
LEMMA FoldExists ==
  ASSUME NEW W, IsFiniteSet(W), NEW A, NEW b \in A, NEW c, NEW H \in [A \X W -> A],
         \A T \in SUBSET W : T # {} => c[T] \in T
  PROVE  \E g \in [SUBSET W -> A] : Folded(g, W, b, c, H)
<1> DEFINE D(k) == {T \in SUBSET W : Cardinality(T) <= k}
           Good(g, k) == /\ g[{}] = b
                         /\ \A T \in D(k) : T # {} => g[T] = H[<<g[T \ {c[T]}], c[T]>>]
           F == {k \in Nat : ~\E g \in [D(k) -> A] : Good(g, k)}
<1>1. ASSUME F # {} PROVE FALSE
  <2>1. PICK m \in F : \A k \in F : m <= k
    BY <1>1, LeastElement
  <2>2. m # 0
    <3>1. ASSUME NEW T \in D(0) PROVE T = {}
      <4>1. IsFiniteSet(T)
        BY FS_Subset
      <4>2. Cardinality(T) = 0
        BY <4>1, FS_CardinalityType
      <4> QED BY <4>1, <4>2, FS_EmptySet
    <3>2. {} \in D(0)
      BY FS_EmptySet
    <3>3. [T \in D(0) |-> b] \in [D(0) -> A] /\ Good([T \in D(0) |-> b], 0)
      BY <3>1, <3>2
    <3>4. \E g \in [D(0) -> A] : Good(g, 0)
      <4> HIDE DEF Good
      <4> QED BY <3>3
    <3>5. 0 \notin F
      <4> HIDE DEF Good, D
      <4> QED BY <3>4
    <3> QED BY <3>5
  <2>3. m - 1 \in Nat /\ m \in Nat /\ m - 1 \notin F
    <3>1. m \in Nat
      <4> HIDE DEF Good, D
      <4> QED OBVIOUS
    <3> HIDE DEF F
    <3> QED BY <2>1, <2>2, <3>1
  <2>4. PICK g \in [D(m - 1) -> A] : Good(g, m - 1)
    BY <2>3
  <2> DEFINE h == [T \in D(m) |-> IF T \in D(m - 1) THEN g[T] ELSE H[<<g[T \ {c[T]}], c[T]>>]]
  <2>5. ASSUME NEW T \in D(m), T # {}
        PROVE  c[T] \in W /\ T \ {c[T]} \in D(m - 1) /\ T \ {c[T]} \in D(m)
    <3>1. c[T] \in T /\ T \in SUBSET W
      BY <2>5
    <3>2. T \ {c[T]} \in SUBSET W /\ Cardinality(T \ {c[T]}) = Cardinality(T) - 1
          /\ Cardinality(T) \in Nat
      BY <3>1, OneLess
    <3> QED BY <2>3, <3>1, <3>2
  <2>6. {} \in D(m - 1) /\ {} \in D(m)
    BY <2>3, FS_EmptySet
  <2>7. ASSUME NEW T \in D(m) PROVE h[T] \in A
    <3>1. CASE T \in D(m - 1)
      BY <2>4, <3>1
    <3>2. CASE T \notin D(m - 1)
      <4>1. T # {}
        BY <2>6, <3>2
      <4>2. g[T \ {c[T]}] \in A /\ c[T] \in W
        BY <2>4, <2>5, <4>1
      <4> QED BY <3>2, <4>2
    <3> QED BY <3>1, <3>2
  <2>8. h \in [D(m) -> A]
    BY <2>7
  <2>9. ASSUME NEW T \in D(m), T # {} PROVE h[T] = H[<<h[T \ {c[T]}], c[T]>>]
    <3>1. h[T \ {c[T]}] = g[T \ {c[T]}]
      BY <2>5, <2>9
    <3>2. CASE T \in D(m - 1)
      BY <2>4, <2>9, <3>1, <3>2
    <3>3. CASE T \notin D(m - 1)
      BY <3>1, <3>3
    <3> QED BY <3>2, <3>3
  <2>10. h[{}] = b
    BY <2>4, <2>6
  <2> HIDE DEF h
  <2> QED BY <2>1, <2>8, <2>9, <2>10
<1>2. Cardinality(W) \in Nat
  BY FS_CardinalityType
<1>3. PICK g \in [D(Cardinality(W)) -> A] : Good(g, Cardinality(W))
  BY <1>1, <1>2
<1>4. D(Cardinality(W)) = SUBSET W
  BY FS_Subset
<1> QED BY <1>3, <1>4 DEF Folded

\* Induction: G holds every subset of W when it holds the empty one and, for every
\* other, one that lacks a single element of it only if it holds the subset too.
LEMMA SubsetInduction ==
  ASSUME NEW W, IsFiniteSet(W), NEW G, {} \in G,
         \A T \in SUBSET W : T # {} => \E x \in T : T \ {x} \in G => T \in G
  PROVE  \A T \in SUBSET W : T \in G
<1> DEFINE F == {k \in Nat : \E T \in SUBSET W : Cardinality(T) = k /\ T \notin G}
<1>1. ASSUME F # {} PROVE FALSE
  <2>1. PICK m \in F : \A k \in F : m <= k
    BY <1>1, LeastElement
  <2>2. PICK T \in SUBSET W : Cardinality(T) = m /\ T \notin G
    BY <2>1
  <2>3. PICK x \in T : T \ {x} \notin G
    BY <2>2
  <2>4. /\ T \ {x} \in SUBSET W /\ m \in Nat
        /\ Cardinality(T \ {x}) = m - 1 /\ Cardinality(T \ {x}) \in Nat
    <3>1. IsFiniteSet(T \ {x})
      BY FS_Subset
    <3> QED BY <2>2, <3>1, OneLess, FS_CardinalityType
  <2>5. m - 1 \notin F
    <3> HIDE DEF F
    <3> QED BY <2>1, <2>4
  <2> QED BY <2>3, <2>4, <2>5
<1>2. ASSUME NEW T \in SUBSET W PROVE T \in G
  <2>1. IsFiniteSet(T)
    BY FS_Subset
  <2>2. Cardinality(T) \in Nat /\ Cardinality(T) \notin F
    BY <1>1, <2>1, FS_CardinalityType
  <2> QED BY <2>2
<1> QED BY <1>2

\* A sum does not depend on the order in which the elements are taken.
Adding(q, W) == [p \in Int \X W |-> p[1] + q[p[2]]]

\* g[T] is the sum of q over T, for every part T of W.
SumsOver(g, W, q, c) ==
  /\ IsFiniteSet(W) /\ q \in [W -> Int] /\ g \in [SUBSET W -> Int]
  /\ \A T \in SUBSET W : T # {} => c[T] \in T
  /\ Folded(g, W, 0, c, Adding(q, W))

LEMMA SumRemove ==
  ASSUME NEW W, NEW q, NEW c, NEW g, SumsOver(g, W, q, c), NEW S \in SUBSET W, NEW z \in S
  PROVE  g[S] = g[S \ {z}] + q[z]
<1> DEFINE F == {k \in Nat : \E T \in SUBSET W : \E x \in T :
                               Cardinality(T) = k /\ g[T] # g[T \ {x}] + q[x]}
<1> USE DEF SumsOver
<1>0. ASSUME NEW T \in SUBSET W, T # {}
      PROVE  g[T] = g[T \ {c[T]}] + q[c[T]] /\ c[T] \in T
  <2>1. c[T] \in T /\ c[T] \in W /\ T \ {c[T]} \in SUBSET W
    BY <1>0
  <2>2. g[T \ {c[T]}] \in Int
    BY <2>1
  <2>3. g[T] = Adding(q, W)[<<g[T \ {c[T]}], c[T]>>]
    BY <1>0 DEF Folded
  <2> QED BY <2>1, <2>2, <2>3 DEF Adding
<1>1. ASSUME F # {} PROVE FALSE
  <2>1. PICK m \in F : \A k \in F : m <= k
    BY <1>1, LeastElement
  <2>a. PICK T \in SUBSET W : \E x \in T : Cardinality(T) = m /\ g[T] # g[T \ {x}] + q[x]
    BY <2>1
  <2>2. PICK x \in T : Cardinality(T) = m /\ g[T] # g[T \ {x}] + q[x]
    BY <2>a
  <2> DEFINE y == c[T]
             U == T \ {x, y}
  <2>3. y \in T /\ g[T] = g[T \ {y}] + q[y]
    BY <1>0, <2>2
  <2>4. x # y
    BY <2>2, <2>3
  <2> HIDE DEF y
  <2>5. /\ m \in Nat
        /\ Cardinality(T \ {y}) = m - 1 /\ Cardinality(T \ {x}) = m - 1
        /\ Cardinality(T \ {x}) \in Nat
    <3>1. IsFiniteSet(T \ {x})
      BY <2>2, FS_Subset
    <3> QED BY <2>2, <2>3, <3>1, OneLess, FS_CardinalityType
  <2>6. m - 1 \in Nat /\ m - 1 \notin F
    <3> HIDE DEF F
    <3> QED BY <2>1, <2>5
  <2>7. ASSUME NEW V \in SUBSET W, NEW v \in V, Cardinality(V) = m - 1
        PROVE  g[V] = g[V \ {v}] + q[v]
    BY <2>6, <2>7
  <2>8. g[T \ {y}] = g[U] + q[x]
    <3>1. T \ {y} \in SUBSET W /\ x \in T \ {y} /\ (T \ {y}) \ {x} = U
      BY <2>4
    <3>2. g[T \ {y}] = g[(T \ {y}) \ {x}] + q[x]
      BY <2>5, <2>7, <3>1
    <3> QED BY <3>1, <3>2
  <2>9. g[T \ {x}] = g[U] + q[y]
    <3>1. T \ {x} \in SUBSET W /\ y \in T \ {x} /\ (T \ {x}) \ {y} = U
      BY <2>3, <2>4
    <3>2. g[T \ {x}] = g[(T \ {x}) \ {y}] + q[y]
      BY <2>5, <2>7, <3>1
    <3> QED BY <3>1, <3>2
  <2>10. g[U] \in Int /\ q[x] \in Int /\ q[y] \in Int
    BY <2>2, <2>3
  <2> QED BY <2>2, <2>3, <2>8, <2>9, <2>10
<1>2. ASSUME NEW T \in SUBSET W, NEW x \in T PROVE g[T] = g[T \ {x}] + q[x]
  <2>1. IsFiniteSet(T)
    BY FS_Subset
  <2>2. Cardinality(T) \in Nat /\ Cardinality(T) \notin F
    <3> HIDE DEF F
    <3> QED BY <1>1, <2>1, FS_CardinalityType
  <2> QED BY <2>2
<1> QED BY <1>2

\* n different values are n values.
LEMMA CountValues ==
  ASSUME NEW n \in Nat, NEW f, NEW V, V = {f[j] : j \in 1..n},
         \A i, j \in 1..n : f[i] = f[j] => i = j
  PROVE  IsFiniteSet(V) /\ Cardinality(V) = n
<1> DEFINE g == [j \in 1..n |-> f[j]]
<1>1. g \in Bijection(1..n, V)
  BY DEF Bijection, Injection, Surjection, IsInjective
<1>2. ExistsBijection(1..n, V)
  BY <1>1 DEF ExistsBijection
<1>3. IsFiniteSet(1..n) /\ Cardinality(1..n) = n
  BY FS_Interval
<1> QED BY <1>2, <1>3, FS_Bijection

=============================================================================
