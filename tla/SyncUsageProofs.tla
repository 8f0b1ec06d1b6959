------------------------- MODULE SyncUsageProofs ---------------------------
(***************************************************************************)
(* Proofs about the usage counters of SyncObjects: that the counters kept  *)
(* incrementally are exactly what the rows add up to, and that the storage *)
(* limits hold.                                                            *)
(*                                                                         *)
(* The first section is about sums over finite sets.  The fold they are    *)
(* defined by is a recursive function; what it computes is shown with      *)
(* smallest counterexamples among the subsets of a finite set.             *)
(***************************************************************************)
EXTENDS SyncObjectsProofs, Integers, FiniteSetTheorems

-----------------------------------------------------------------------------
(* Sums over finite sets *)

\* The element the community fold takes next, and the equation its recursive
\* function satisfies.
Pick(s) == CHOOSE x \in s : TRUE

IsIter(g, f, S) ==
    g = [s \in SUBSET S |-> IF s = {} THEN 0 ELSE f[Pick(s)] + g[s \ {Pick(s)}]]

\* A sum, as RecalculateSyncUsageWorkspace and RecalculateSyncUsageAccount compute
\* it, is that recursive function applied to the whole set.
LEMMA SumUnfold ==
    ASSUME NEW f, NEW S
    PROVE  SumFunctionOnSet(f, S) = (CHOOSE g : IsIter(g, f, S))[S]
BY Zenon DEF SumFunctionOnSet, FoldFunctionOnSet, MapThenFoldSet, IsIter, Pick

\* The element taken next is one of the set.
LEMMA PickIsIn == ASSUME NEW s, s # {} PROVE Pick(s) \in s
BY DEF Pick

\* Induction over a finite set: a family of its subsets has a minimal member, so a
\* counterexample among the subsets can be taken to be the smallest one.
LEMMA SmallestSet ==
    ASSUME NEW S, IsFiniteSet(S), NEW B, B \subseteq SUBSET S, B # {}
    PROVE  \E x \in B : \A y \in B : y \subseteq x => y = x
<1>1. IsWellFoundedOn(StrictSubsetOrdering(S), FiniteSubsetsOf(S))
  BY FS_StrictSubsetOrderingWellFounded
<1>2. B \subseteq FiniteSubsetsOf(S)
  BY FS_FiniteSubsetsOfFinite
<1>3. PICK x \in B : \A y \in B : ~(<<y, x>> \in StrictSubsetOrdering(S))
  BY <1>1, <1>2, WFMin
<1> QED
  BY <1>3 DEF StrictSubsetOrdering

\* The recursion has one solution: by the smallest subset two solutions differ on.
LEMMA IterUnique ==
    ASSUME NEW f, NEW g, NEW h, NEW S, NEW T, IsIter(g, f, S), IsIter(h, f, T),
           NEW U, U \subseteq S, U \subseteq T, IsFiniteSet(U)
    PROVE  g[U] = h[U]
<1> DEFINE B == {u \in SUBSET U : g[u] # h[u]}
<1>1. SUFFICES ASSUME B # {} PROVE FALSE
  OBVIOUS
<1>2. PICK u \in B : \A y \in B : y \subseteq u => y = u
  <2>1. B \subseteq SUBSET U
    OBVIOUS
  <2> HIDE DEF B
  <2> QED
    BY <1>1, <2>1, SmallestSet
<1>3. u # {}
  BY <1>2 DEF IsIter
<1>4. Pick(u) \in u
  BY <1>3, PickIsIn
<1>5. g[u \ {Pick(u)}] = h[u \ {Pick(u)}]
  BY <1>2, <1>4
<1>6. g[u] = f[Pick(u)] + g[u \ {Pick(u)}] /\ h[u] = f[Pick(u)] + h[u \ {Pick(u)}]
  BY <1>2, <1>3 DEF IsIter
<1> QED
  BY <1>2, <1>5, <1>6

\* The recursion has a solution on every finite set: by the smallest set without one.
LEMMA IterExists ==
    ASSUME NEW f, NEW S, IsFiniteSet(S)
    PROVE  \E g : IsIter(g, f, S)
<1> DEFINE B == {T \in SUBSET S : ~ \E g : IsIter(g, f, T)}
<1>1. SUFFICES ASSUME B # {} PROVE FALSE
  OBVIOUS
<1>2. PICK T \in B : \A y \in B : y \subseteq T => y = T
  <2>1. B \subseteq SUBSET S
    OBVIOUS
  <2> HIDE DEF B
  <2> QED
    BY <1>1, <2>1, SmallestSet
<1> DEFINE val(u) == (CHOOSE g : IsIter(g, f, u))[u]
           G == [s \in SUBSET T |-> IF s = {} THEN 0 ELSE f[Pick(s)] + val(s \ {Pick(s)})]
<1>3. ASSUME NEW u \in SUBSET T, u # T PROVE IsIter(CHOOSE g : IsIter(g, f, u), f, u)
  <2>1. \E g : IsIter(g, f, u)
    BY <1>2, <1>3
  <2> QED
    BY Zenon, <2>1
<1>4. ASSUME NEW u \in SUBSET T, u # T PROVE G[u] = val(u)
  <2> DEFINE g == CHOOSE g : IsIter(g, f, u)
             v == u \ {Pick(u)}
             h == CHOOSE h : IsIter(h, f, v)
  <2>1. IsIter(g, f, u)
    BY <1>4, <1>3
  <2>2. CASE u = {}
    BY <2>1, <2>2 DEF IsIter
  <2>3. CASE u # {}
    <3>1. Pick(u) \in u
      BY <2>3, PickIsIn
    <3>2. v \in SUBSET T /\ v # T /\ v \subseteq u
      BY <3>1
    <3>3. IsIter(h, f, v)
      BY <3>2, <1>3
    <3>4. IsFiniteSet(v)
      BY <1>2, FS_Subset
    <3>5. g[v] = h[v]
      BY <2>1, <3>2, <3>3, <3>4, IterUnique
    <3>6. g[u] = f[Pick(u)] + g[v]
      BY <2>1, <2>3 DEF IsIter
    <3>7. G[u] = f[Pick(u)] + h[v]
      BY <2>3
    <3> QED
      BY <3>5, <3>6, <3>7
  <2> QED
    BY <2>2, <2>3
<1>5. ASSUME NEW s \in SUBSET T, s # {} PROVE val(s \ {Pick(s)}) = G[s \ {Pick(s)}]
  <2>1. Pick(s) \in s
    BY <1>5, PickIsIn
  <2> QED
    BY <2>1, <1>4
<1>6. G = [s \in SUBSET T |-> IF s = {} THEN 0 ELSE f[Pick(s)] + G[s \ {Pick(s)}]]
  <2>1. ASSUME NEW s \in SUBSET T
        PROVE  G[s] = IF s = {} THEN 0 ELSE f[Pick(s)] + G[s \ {Pick(s)}]
    <3>1. G[s] = IF s = {} THEN 0 ELSE f[Pick(s)] + val(s \ {Pick(s)})
      BY Zenon
    <3> HIDE DEF G, val
    <3> QED
      BY <3>1, <1>5
  <2> HIDE DEF val
  <2> QED
    BY Zenon, <2>1
<1>7. IsIter(G, f, T)
  BY <1>6 DEF IsIter
<1> QED
  BY <1>2, <1>7

\* Nothing costs nothing: the sum a workspace without objects is charged.
LEMMA SumEmpty == \A f : SumFunctionOnSet(f, {}) = 0
<1> SUFFICES ASSUME NEW f PROVE SumFunctionOnSet(f, {}) = 0
  OBVIOUS
<1>1. IsIter(CHOOSE g : IsIter(g, f, {}), f, {})
  BY IterExists, FS_EmptySet
<1> QED
  BY <1>1, SumUnfold DEF IsIter

\* The recursion, as an equation between sums.
LEMMA SumPick ==
    ASSUME NEW f, NEW S, IsFiniteSet(S), S # {}
    PROVE  SumFunctionOnSet(f, S) = f[Pick(S)] + SumFunctionOnSet(f, S \ {Pick(S)})
<1> DEFINE g == CHOOSE g : IsIter(g, f, S)
           T == S \ {Pick(S)}
           h == CHOOSE h : IsIter(h, f, T)
<1>0. IsFiniteSet(T)
  BY FS_RemoveElement
<1>1. IsIter(g, f, S)
  BY IterExists
<1>2. IsIter(h, f, T)
  BY <1>0, IterExists
<1>3. g[T] = h[T]
  BY <1>0, <1>1, <1>2, IterUnique
<1>4. g[S] = f[Pick(S)] + g[T]
  BY <1>1 DEF IsIter
<1>5. SumFunctionOnSet(f, S) = g[S] /\ SumFunctionOnSet(f, T) = h[T]
  BY SumUnfold
<1> QED
  BY <1>3, <1>4, <1>5

\* A sum of natural numbers is one: usage counters do not fall below zero.
LEMMA SumNat ==
    ASSUME NEW f, NEW S, IsFiniteSet(S), \A x \in S : f[x] \in Nat
    PROVE  SumFunctionOnSet(f, S) \in Nat
<1> DEFINE B == {T \in SUBSET S : SumFunctionOnSet(f, T) \notin Nat}
<1>1. SUFFICES ASSUME B # {} PROVE FALSE
  OBVIOUS
<1>2. PICK T \in B : \A y \in B : y \subseteq T => y = T
  <2>1. B \subseteq SUBSET S
    OBVIOUS
  <2> HIDE DEF B
  <2> QED
    BY <1>1, <2>1, SmallestSet
<1>3. T # {} /\ IsFiniteSet(T)
  <2>1. SumFunctionOnSet(f, {}) = 0
    BY SumEmpty
  <2>2. IsFiniteSet(T)
    BY <1>2, FS_Subset
  <2>3. T # {}
    <3>1. SumFunctionOnSet(f, T) \notin Nat
      BY Zenon, <1>2
    <3>2. SumFunctionOnSet(f, {}) \in Nat
      BY <2>1
    <3> QED
      BY Zenon, <3>1, <3>2
  <2> QED
    BY <2>2, <2>3
<1>4. Pick(T) \in T
  BY <1>3, PickIsIn
<1>5. SumFunctionOnSet(f, T \ {Pick(T)}) \in Nat
  BY <1>2, <1>4
<1>6. f[Pick(T)] \in Nat
  BY <1>2, <1>4
<1>7. SumFunctionOnSet(f, T) = f[Pick(T)] + SumFunctionOnSet(f, T \ {Pick(T)})
  BY <1>3, SumPick
<1> QED
  BY <1>2, <1>5, <1>6, <1>7

\* Any element may be taken out first: the order in which the database adds up
\* the rows does not matter.
LEMMA SumRemove ==
    ASSUME NEW f, NEW S, IsFiniteSet(S), \A x \in S : f[x] \in Nat, NEW z \in S
    PROVE  SumFunctionOnSet(f, S) = f[z] + SumFunctionOnSet(f, S \ {z})
<1> DEFINE B == {T \in SUBSET S : \E x \in T : SumFunctionOnSet(f, T) # f[x] + SumFunctionOnSet(f, T \ {x})}
<1>1. SUFFICES ASSUME B # {} PROVE FALSE
  OBVIOUS
<1>2. PICK T \in B : \A y \in B : y \subseteq T => y = T
  <2>1. B \subseteq SUBSET S
    OBVIOUS
  <2> HIDE DEF B
  <2> QED
    BY <1>1, <2>1, SmallestSet
<1>3. PICK x \in T : SumFunctionOnSet(f, T) # f[x] + SumFunctionOnSet(f, T \ {x})
  BY <1>2
<1> DEFINE c == Pick(T)
           U == T \ {c}
           V == T \ {x}
           W == (T \ {c}) \ {x}
<1>4. c \in T /\ T \in SUBSET S
  BY <1>2, <1>3, PickIsIn
<1>5. IsFiniteSet(T) /\ IsFiniteSet(W)
  BY <1>4, FS_Subset, W \in SUBSET S
<1>6. SumFunctionOnSet(f, T) = f[c] + SumFunctionOnSet(f, U)
  BY <1>3, <1>5, SumPick
<1>7. c # x
  BY <1>3, <1>6
<1>8. SumFunctionOnSet(f, U) = f[x] + SumFunctionOnSet(f, W)
  <2>1. U \in SUBSET S /\ U \subseteq T /\ U # T /\ x \in U /\ U \ {x} = W
    BY <1>3, <1>4, <1>7
  <2> QED
    BY <1>2, <2>1
<1>9. SumFunctionOnSet(f, V) = f[c] + SumFunctionOnSet(f, W)
  <2>1. V \in SUBSET S /\ V \subseteq T /\ V # T /\ c \in V /\ V \ {c} = W
    BY <1>3, <1>4, <1>7
  <2> QED
    BY <1>2, <2>1
<1>10. f[c] \in Nat /\ f[x] \in Nat /\ SumFunctionOnSet(f, W) \in Nat
  BY <1>3, <1>4, <1>5, SumNat
<1> QED
  <2> HIDE DEF U, V, W, c
  <2> QED
    BY <1>3, <1>6, <1>8, <1>9, <1>10 DEF V

\* Sums of functions that agree on the set are equal.
LEMMA SumAgree ==
    ASSUME NEW f, NEW g, NEW S, IsFiniteSet(S), \A x \in S : f[x] = g[x]
    PROVE  SumFunctionOnSet(f, S) = SumFunctionOnSet(g, S)
<1> DEFINE B == {T \in SUBSET S : SumFunctionOnSet(f, T) # SumFunctionOnSet(g, T)}
<1>1. SUFFICES ASSUME B # {} PROVE FALSE
  OBVIOUS
<1>2. PICK T \in B : \A y \in B : y \subseteq T => y = T
  <2>1. B \subseteq SUBSET S
    OBVIOUS
  <2> HIDE DEF B
  <2> QED
    BY <1>1, <2>1, SmallestSet
<1>3. T # {} /\ IsFiniteSet(T)
  <2>1. SumFunctionOnSet(f, {}) = 0 /\ SumFunctionOnSet(g, {}) = 0
    BY SumEmpty
  <2>2. IsFiniteSet(T)
    BY <1>2, FS_Subset
  <2> QED
    BY <1>2, <2>1, <2>2
<1>4. Pick(T) \in T
  BY <1>3, PickIsIn
<1>5. SumFunctionOnSet(f, T \ {Pick(T)}) = SumFunctionOnSet(g, T \ {Pick(T)})
  BY <1>2, <1>4
<1>6. f[Pick(T)] = g[Pick(T)]
  BY <1>2, <1>4
<1>7. /\ SumFunctionOnSet(f, T) = f[Pick(T)] + SumFunctionOnSet(f, T \ {Pick(T)})
      /\ SumFunctionOnSet(g, T) = g[Pick(T)] + SumFunctionOnSet(g, T \ {Pick(T)})
  BY <1>3, SumPick
<1> QED
  BY <1>2, <1>5, <1>6, <1>7

\* Sums are monotonic in their terms.
LEMMA SumAtMost ==
    ASSUME NEW f, NEW g, NEW S, IsFiniteSet(S),
           \A x \in S : f[x] \in Nat /\ g[x] \in Nat /\ f[x] <= g[x]
    PROVE  SumFunctionOnSet(f, S) <= SumFunctionOnSet(g, S)
<1> DEFINE B == {T \in SUBSET S : ~(SumFunctionOnSet(f, T) <= SumFunctionOnSet(g, T))}
<1>1. SUFFICES ASSUME B # {} PROVE FALSE
  OBVIOUS
<1>2. PICK T \in B : \A y \in B : y \subseteq T => y = T
  <2>1. B \subseteq SUBSET S
    OBVIOUS
  <2> HIDE DEF B
  <2> QED
    BY <1>1, <2>1, SmallestSet
<1>3. T # {} /\ IsFiniteSet(T)
  <2>1. SumFunctionOnSet(f, {}) = 0 /\ SumFunctionOnSet(g, {}) = 0
    BY SumEmpty
  <2>2. IsFiniteSet(T)
    BY <1>2, FS_Subset
  <2>3. T # {}
    <3>1. ~(SumFunctionOnSet(f, T) <= SumFunctionOnSet(g, T))
      BY Zenon, <1>2
    <3>2. SumFunctionOnSet(f, {}) <= SumFunctionOnSet(g, {})
      BY <2>1
    <3> QED
      BY Zenon, <3>1, <3>2
  <2> QED
    BY <2>2, <2>3
<1>4. Pick(T) \in T
  BY <1>3, PickIsIn
<1> DEFINE U == T \ {Pick(T)}
<1>5. SumFunctionOnSet(f, U) <= SumFunctionOnSet(g, U)
  BY <1>2, <1>4
<1>6. f[Pick(T)] \in Nat /\ g[Pick(T)] \in Nat /\ f[Pick(T)] <= g[Pick(T)]
  BY <1>2, <1>4
<1>7. SumFunctionOnSet(f, U) \in Nat /\ SumFunctionOnSet(g, U) \in Nat
  BY <1>2, <1>3, FS_RemoveElement, SumNat
<1>8. /\ SumFunctionOnSet(f, T) = f[Pick(T)] + SumFunctionOnSet(f, U)
      /\ SumFunctionOnSet(g, T) = g[Pick(T)] + SumFunctionOnSet(g, U)
  BY <1>3, SumPick
<1> QED
  BY <1>2, <1>5, <1>6, <1>7, <1>8

\* The sum over a disjoint union: what a batch adds to what was charged before.
LEMMA SumUnion ==
    ASSUME NEW f, NEW R, NEW S, IsFiniteSet(R), IsFiniteSet(S), R \cap S = {},
           \A x \in R \cup S : f[x] \in Nat
    PROVE  SumFunctionOnSet(f, R \cup S) = SumFunctionOnSet(f, R) + SumFunctionOnSet(f, S)
<1> DEFINE Adds(T) == SumFunctionOnSet(f, R \cup T) = SumFunctionOnSet(f, R) + SumFunctionOnSet(f, T)
           B == {T \in SUBSET S : ~Adds(T)}
<1>1. SUFFICES ASSUME B # {} PROVE FALSE
  OBVIOUS
<1>2. PICK T \in B : \A y \in B : y \subseteq T => y = T
  <2>1. B \subseteq SUBSET S
    OBVIOUS
  <2> HIDE DEF B
  <2> QED
    BY <1>1, <2>1, SmallestSet
<1>0. SumFunctionOnSet(f, R) \in Nat
  BY SumNat
<1>3. T # {}
  <2>1. R \cup {} = R
    OBVIOUS
  <2>2. SumFunctionOnSet(f, {}) = 0
    BY SumEmpty
  <2>3. Adds({})
    BY <1>0, <2>1, <2>2
  <2>4. ~Adds(T)
    BY Zenon, <1>2
  <2> QED
    BY Zenon, <2>3, <2>4
<1>4. PICK c \in T : TRUE
  BY <1>3
<1> DEFINE U == T \ {c}
<1>5. Adds(U)
  BY <1>2, <1>4
<1>6. IsFiniteSet(T) /\ IsFiniteSet(U) /\ IsFiniteSet(R \cup T)
  BY <1>2, FS_Subset, FS_RemoveElement, FS_Union
<1>7. SumFunctionOnSet(f, T) = f[c] + SumFunctionOnSet(f, U)
  BY <1>2, <1>4, <1>6, SumRemove
<1>8. SumFunctionOnSet(f, R \cup T) = f[c] + SumFunctionOnSet(f, R \cup U)
  <2>1. (R \cup T) \ {c} = R \cup U /\ c \in R \cup T
    BY <1>2, <1>4
  <2>2. \A x \in R \cup T : f[x] \in Nat
    BY <1>2
  <2>3. SumFunctionOnSet(f, R \cup T) = f[c] + SumFunctionOnSet(f, (R \cup T) \ {c})
    BY <1>6, <2>1, <2>2, SumRemove
  <2> QED
    BY <2>1, <2>3
<1>9. f[c] \in Nat /\ SumFunctionOnSet(f, U) \in Nat
  BY <1>2, <1>4, <1>6, SumNat
<1> QED
  <2> HIDE DEF U
  <2> QED
    BY <1>0, <1>2, <1>5, <1>7, <1>8, <1>9

\* A sum of zeros is zero.
LEMMA SumZero ==
    ASSUME NEW f, NEW S, IsFiniteSet(S), \A x \in S : f[x] = 0
    PROVE  SumFunctionOnSet(f, S) = 0
<1> DEFINE B == {T \in SUBSET S : SumFunctionOnSet(f, T) # 0}
<1>1. SUFFICES ASSUME B # {} PROVE FALSE
  OBVIOUS
<1>2. PICK T \in B : \A y \in B : y \subseteq T => y = T
  <2>1. B \subseteq SUBSET S
    OBVIOUS
  <2> HIDE DEF B
  <2> QED
    BY <1>1, <2>1, SmallestSet
<1>3. T # {} /\ IsFiniteSet(T)
  <2>1. SumFunctionOnSet(f, {}) = 0
    BY SumEmpty
  <2>2. IsFiniteSet(T)
    BY <1>2, FS_Subset
  <2> QED
    BY Zenon, <1>2, <2>1, <2>2
<1>4. Pick(T) \in T
  BY <1>3, PickIsIn
<1>5. SumFunctionOnSet(f, T \ {Pick(T)}) = 0
  BY <1>2, <1>4
<1>6. SumFunctionOnSet(f, T) = f[Pick(T)] + SumFunctionOnSet(f, T \ {Pick(T)})
  BY <1>3, SumPick
<1>7. f[Pick(T)] = 0
  BY <1>2, <1>4
<1> QED
  BY <1>2, <1>5, <1>6, <1>7

\* One term changes: so does the sum, by as much.
LEMMA SumChange ==
    ASSUME NEW f, NEW g, NEW S, IsFiniteSet(S), NEW z \in S,
           \A x \in S : f[x] \in Nat /\ g[x] \in Nat,
           \A x \in S : x # z => f[x] = g[x]
    PROVE  SumFunctionOnSet(g, S) + f[z] = SumFunctionOnSet(f, S) + g[z]
<1> DEFINE T == S \ {z}
<1>1. IsFiniteSet(T)
  BY FS_RemoveElement
<1>2. SumFunctionOnSet(f, T) = SumFunctionOnSet(g, T)
  BY <1>1, SumAgree
<1>3. SumFunctionOnSet(f, T) \in Nat
  BY <1>1, SumNat
<1>4. /\ SumFunctionOnSet(f, S) = f[z] + SumFunctionOnSet(f, T)
      /\ SumFunctionOnSet(g, S) = g[z] + SumFunctionOnSet(g, T)
  BY SumRemove
<1> QED
  BY <1>2, <1>3, <1>4

\* Fewer terms cost no more.
LEMMA SumSubset ==
    ASSUME NEW f, NEW S, IsFiniteSet(S), \A x \in S : f[x] \in Nat, NEW T \in SUBSET S
    PROVE  SumFunctionOnSet(f, T) <= SumFunctionOnSet(f, S)
<1>1. IsFiniteSet(T) /\ IsFiniteSet(S \ T)
  BY FS_Subset, FS_Difference
<1>2. SumFunctionOnSet(f, T \cup (S \ T)) = SumFunctionOnSet(f, T) + SumFunctionOnSet(f, S \ T)
  BY <1>1, SumUnion
<1>3. T \cup (S \ T) = S
  OBVIOUS
<1>4. SumFunctionOnSet(f, T) \in Nat /\ SumFunctionOnSet(f, S \ T) \in Nat
  BY <1>1, SumNat
<1>5. SumFunctionOnSet(f, S) = SumFunctionOnSet(f, T) + SumFunctionOnSet(f, S \ T)
  BY Zenon, <1>2, <1>3
<1> QED
  BY <1>4, <1>5

-----------------------------------------------------------------------------
\* A term of zero changes no sum.
LEMMA SumGainsZero ==
    ASSUME NEW f, NEW g, NEW S, NEW T, IsFiniteSet(T), NEW z \in T, T \ {z} = S, g[z] = 0,
           \A x \in T : g[x] \in Nat, \A x \in S : f[x] = g[x]
    PROVE  SumFunctionOnSet(g, T) = SumFunctionOnSet(f, S)
<1>1. IsFiniteSet(S)
  BY Zenon, FS_RemoveElement
<1>2. SumFunctionOnSet(g, T) = g[z] + SumFunctionOnSet(g, S)
  BY SumRemove
<1>3. SumFunctionOnSet(f, S) = SumFunctionOnSet(g, S)
  BY Zenon, <1>1, SumAgree
<1>4. SumFunctionOnSet(g, S) \in Nat
  <2>1. \A x \in S : g[x] \in Nat
    OBVIOUS
  <2> QED
    BY <1>1, <2>1, SumNat
<1>5. SumFunctionOnSet(g, T) = SumFunctionOnSet(g, S)
  <2>1. SumFunctionOnSet(g, T) = 0 + SumFunctionOnSet(g, S)
    BY Zenon, <1>2
  <2> QED
    BY <1>4, <2>1
<1> QED
  BY Zenon, <1>3, <1>5

-----------------------------------------------------------------------------
(* Charges and usage *)

\* Every set of rows is finite.
LEMMA SubsetFinite == \A S \in SUBSET Objects : IsFiniteSet(S)
  BY ObjectsAssumption, FS_Subset

\* Sizes of a set of rows, over the whole table.
Sizes(r) == [o \in Objects |-> Size[r[o].content]]

\* What a set of rows is charged, as a sum over the whole table.
LEMMA ChargeSum ==
    ASSUME NEW r, NEW S \in SUBSET Objects
    PROVE  Charge(r, S) = SumFunctionOnSet(Sizes(r), S)
<1>1. \A o \in S : [o2 \in S |-> Size[r[o2].content]][o] = Sizes(r)[o]
  BY DEF Sizes
<1> QED
  BY <1>1, SubsetFinite, SumAgree DEF Charge

\* The charge depends on the size_bytes of the rows only.
LEMMA ChargeSame ==
    ASSUME NEW q, NEW r, NEW S \in SUBSET Objects, \A o \in S : q[o].content = r[o].content
    PROVE  Charge(q, S) = Charge(r, S)
<1>1. \A o \in S : Sizes(q)[o] = Sizes(r)[o]
  BY DEF Sizes
<1> QED
  BY <1>1, SubsetFinite, SumAgree, ChargeSum

\* A charge is a natural number.
LEMMA ChargeNat ==
    ASSUME NEW r, NEW S \in SUBSET Objects, \A o \in S : r[o].content \in Contents
    PROVE  /\ Charge(r, S) \in Nat
           /\ \A o \in S : Sizes(r)[o] \in Nat
<1>1. \A o \in S : Sizes(r)[o] \in Nat
  BY ObjectsAssumption DEF Sizes
<1>2. SumFunctionOnSet(Sizes(r), S) \in Nat
  BY <1>1, SubsetFinite, SumNat
<1> QED
  BY <1>1, <1>2, ChargeSum

\* The charges of two sets of rows without a common row add up.
LEMMA ChargeUnion ==
    ASSUME NEW r, NEW S \in SUBSET Objects, NEW T \in SUBSET Objects, S \cap T = {},
           \A o \in S \cup T : r[o].content \in Contents
    PROVE  Charge(r, S \cup T) = Charge(r, S) + Charge(r, T)
<1>1. \A o \in S \cup T : Sizes(r)[o] \in Nat
  BY Zenon, ChargeNat
<1>2. SumFunctionOnSet(Sizes(r), S \cup T)
        = SumFunctionOnSet(Sizes(r), S) + SumFunctionOnSet(Sizes(r), T)
  BY <1>1, SubsetFinite, SumUnion
<1>3. S \cup T \in SUBSET Objects
  OBVIOUS
<1> QED
  BY <1>2, <1>3, ChargeSum

\* One row is charged its size_bytes.
LEMMA ChargeOne ==
    ASSUME NEW r, NEW o \in Objects, r[o].content \in Contents
    PROVE  Charge(r, {o}) = Size[r[o].content]
<1>1. Sizes(r)[o] = Size[r[o].content] /\ Size[r[o].content] \in Nat
  BY ObjectsAssumption DEF Sizes
<1>2. {o} \ {o} = {} /\ IsFiniteSet({o})
  BY Zenon, FS_Singleton
<1>3. SumFunctionOnSet(Sizes(r), {o}) = Sizes(r)[o] + SumFunctionOnSet(Sizes(r), {o} \ {o})
  BY <1>1, <1>2, SumRemove
<1>4. SumFunctionOnSet(Sizes(r), {}) = 0
  BY SumEmpty
<1>5. Charge(r, {o}) = SumFunctionOnSet(Sizes(r), {o})
  BY ChargeSum
<1> QED
  BY <1>1, <1>2, <1>3, <1>4, <1>5

\* No rows, no charge.
LEMMA ChargeEmpty == \A r : Charge(r, {}) = 0
  BY SumEmpty DEF Charge

\* Some of the rows are charged no more than all of them.
LEMMA ChargeSubset ==
    ASSUME NEW r, NEW S \in SUBSET Objects, NEW T \in SUBSET S,
           \A o \in S : r[o].content \in Contents
    PROVE  Charge(r, T) <= Charge(r, S)
<1>1. \A o \in S : Sizes(r)[o] \in Nat
  BY Zenon, ChargeNat
<1>2. SumFunctionOnSet(Sizes(r), T) <= SumFunctionOnSet(Sizes(r), S)
  BY <1>1, SubsetFinite, SumSubset
<1>3. T \in SUBSET Objects
  OBVIOUS
<1> QED
  BY <1>2, <1>3, ChargeSum

\* A row of sync_usage_workspaces, and the row of sync_usage_accounts.
Usage   == [storage : Nat, count : Nat, pending : Nat]
Account == [workspaces : Nat, storage : Nat, pending : Nat]

\* No counter is negative.
UsageTyped ==
    /\ wsUse \in [Workspaces -> Usage]
    /\ acct \in Account

\* The counters of a workspace are what RecalculateSyncUsageWorkspace would
\* compute, in whatever state the workspace is; those of the account what
\* RecalculateSyncUsageAccount would, unless a request outlived its workspace.
UsageTracked ==
    /\ \A w \in Workspaces : wsUse[w] = WorkspaceUsage(row, w)
    /\ raced \/ acct = AccountUsage(ws, wsUse)

\* What the counters say is within the limits checkUploadBatchQuota and
\* UploadObjectBytesDev enforce.
WithinLimits ==
    /\ \A w \in Workspaces :
          /\ wsUse[w].pending <= SyncMaxPendingUploadBytes
          /\ wsUse[w].storage + wsUse[w].pending <= SyncMaxStorageBytesPerWorkspace
    /\ ~raced => /\ acct.storage + acct.pending <= SyncMaxTotalStorageBytesPerUser
                 /\ acct.workspaces <= SyncMaxWorkspacesPerUser

\* The inductive invariant of the usage counters, on top of the one of the rows.
UseInv == UsageTyped /\ UsageTracked /\ WithinLimits

\* The usage of a workspace depends on its available and pending rows only.
LEMMA UsageSame ==
    ASSUME NEW q, NEW r, NEW w,
           InState(q, w, "available") = InState(r, w, "available"),
           InState(q, w, "pending") = InState(r, w, "pending"),
           \A o \in InState(r, w, "available") \cup InState(r, w, "pending") :
              q[o].content = r[o].content
    PROVE  WorkspaceUsage(q, w) = WorkspaceUsage(r, w)
<1>1. InState(r, w, "available") \in SUBSET Objects /\ InState(r, w, "pending") \in SUBSET Objects
  BY DEF InState
<1>2. /\ Charge(q, InState(r, w, "available")) = Charge(r, InState(r, w, "available"))
      /\ Charge(q, InState(r, w, "pending")) = Charge(r, InState(r, w, "pending"))
  BY <1>1, ChargeSame
<1> QED
  BY Zenon, <1>2 DEF WorkspaceUsage

\* The fields of a recalculated workspace usage, and their types.
LEMMA UsageFields ==
    ASSUME NEW r, NEW w,
           \A o \in Objects : r[o].state \in {"pending", "available"} => r[o].content \in Contents
    PROVE  /\ WorkspaceUsage(r, w) \in Usage
           /\ WorkspaceUsage(r, w).storage = Charge(r, InState(r, w, "available"))
           /\ WorkspaceUsage(r, w).count = Cardinality(InState(r, w, "available"))
           /\ WorkspaceUsage(r, w).pending = Charge(r, InState(r, w, "pending"))
<1>1. InState(r, w, "available") \in SUBSET Objects /\ InState(r, w, "pending") \in SUBSET Objects
  BY DEF InState
<1>2. Charge(r, InState(r, w, "available")) \in Nat /\ Charge(r, InState(r, w, "pending")) \in Nat
  <2>1. \A o \in InState(r, w, "available") \cup InState(r, w, "pending") : r[o].content \in Contents
    BY DEF InState
  <2> QED
    BY <1>1, <2>1, ChargeNat
<1>3. Cardinality(InState(r, w, "available")) \in Nat
  BY <1>1, SubsetFinite, FS_CardinalityType
<1> QED
  BY Zenon, <1>2, <1>3 DEF WorkspaceUsage, Usage

\* The workspaces RecalculateSyncUsageAccount adds up.
Live(state) == {w \in Workspaces : state[w] = "live"}

\* They are finitely many.
LEMMA LiveFinite == \A state : IsFiniteSet(Live(state))
  BY ObjectsAssumption, FS_Subset DEF Live

\* The fields of a recalculated account usage, and their types.
LEMMA AccountFields ==
    ASSUME NEW state, NEW use \in [Workspaces -> Usage]
    PROVE  /\ AccountUsage(state, use) \in Account
           /\ AccountUsage(state, use).workspaces = Cardinality(Live(state))
           /\ AccountUsage(state, use).storage =
                 SumFunctionOnSet([w \in Live(state) |-> use[w].storage], Live(state))
           /\ AccountUsage(state, use).pending =
                 SumFunctionOnSet([w \in Live(state) |-> use[w].pending], Live(state))
<1> DEFINE L == Live(state)
           f == [w \in L |-> use[w].storage]
           g == [w \in L |-> use[w].pending]
<1>0. IsFiniteSet(L)
  BY LiveFinite
<1>1. \A w \in L : use[w].storage \in Nat /\ use[w].pending \in Nat
  BY DEF Usage, Live
<1>2. \A w \in L : f[w] \in Nat /\ g[w] \in Nat
  BY <1>1
<1>3. SumFunctionOnSet(f, L) \in Nat /\ SumFunctionOnSet(g, L) \in Nat
  <2> HIDE DEF f, g, L
  <2> QED
    BY <1>0, <1>2, SumNat
<1>4. Cardinality(L) \in Nat
  BY <1>0, FS_CardinalityType
<1> QED
  BY Zenon, <1>3, <1>4 DEF AccountUsage, Account, Live

\* One live workspace changes: the account changes by as much.
LEMMA AccountChange ==
    ASSUME NEW state, NEW use \in [Workspaces -> Usage], NEW new \in [Workspaces -> Usage],
           NEW w \in Workspaces, state[w] = "live",
           \A v \in Workspaces : v # w => new[v] = use[v]
    PROVE  LET a == AccountUsage(state, use)
               b == AccountUsage(state, new)
           IN  /\ b.workspaces = a.workspaces
               /\ b.storage + use[w].storage = a.storage + new[w].storage
               /\ b.pending + use[w].pending = a.pending + new[w].pending
<1> DEFINE L == Live(state)
           f == [v \in L |-> use[v].storage]
           g == [v \in L |-> new[v].storage]
           h == [v \in L |-> use[v].pending]
           k == [v \in L |-> new[v].pending]
<1>0. IsFiniteSet(L) /\ w \in L
  BY LiveFinite DEF Live
<1>1. \A v \in L : /\ f[v] \in Nat /\ g[v] \in Nat /\ h[v] \in Nat /\ k[v] \in Nat
                   /\ v # w => f[v] = g[v] /\ h[v] = k[v]
  BY DEF Usage, Live
<1>2. f[w] = use[w].storage /\ g[w] = new[w].storage /\ h[w] = use[w].pending /\ k[w] = new[w].pending
  BY <1>0
<1>3. /\ AccountUsage(state, use).workspaces = AccountUsage(state, new).workspaces
      /\ AccountUsage(state, use).storage = SumFunctionOnSet(f, L)
      /\ AccountUsage(state, new).storage = SumFunctionOnSet(g, L)
      /\ AccountUsage(state, use).pending = SumFunctionOnSet(h, L)
      /\ AccountUsage(state, new).pending = SumFunctionOnSet(k, L)
  BY Zenon, AccountFields
<1> HIDE DEF L, f, g, h, k
<1>4. SumFunctionOnSet(g, L) + f[w] = SumFunctionOnSet(f, L) + g[w]
  BY <1>0, <1>1, SumChange
<1>5. SumFunctionOnSet(k, L) + h[w] = SumFunctionOnSet(h, L) + k[w]
  BY <1>0, <1>1, SumChange
<1> QED
  BY Zenon, <1>2, <1>3, <1>4, <1>5

\* The account is charged no more when no workspace is.
LEMMA AccountAtMost ==
    ASSUME NEW state, NEW use \in [Workspaces -> Usage], NEW new \in [Workspaces -> Usage],
           \A w \in Workspaces : /\ new[w].storage <= use[w].storage
                                 /\ new[w].pending <= use[w].pending
    PROVE  /\ AccountUsage(state, new).workspaces = AccountUsage(state, use).workspaces
           /\ AccountUsage(state, new).storage <= AccountUsage(state, use).storage
           /\ AccountUsage(state, new).pending <= AccountUsage(state, use).pending
<1> DEFINE L == Live(state)
           f == [v \in L |-> use[v].storage]
           g == [v \in L |-> new[v].storage]
           h == [v \in L |-> use[v].pending]
           k == [v \in L |-> new[v].pending]
<1>0. IsFiniteSet(L)
  BY LiveFinite
<1>1. \A v \in L : /\ f[v] \in Nat /\ g[v] \in Nat /\ h[v] \in Nat /\ k[v] \in Nat
                   /\ g[v] <= f[v] /\ k[v] <= h[v]
  BY DEF Usage, Live
<1>3. /\ AccountUsage(state, use).workspaces = AccountUsage(state, new).workspaces
      /\ AccountUsage(state, use).storage = SumFunctionOnSet(f, L)
      /\ AccountUsage(state, new).storage = SumFunctionOnSet(g, L)
      /\ AccountUsage(state, use).pending = SumFunctionOnSet(h, L)
      /\ AccountUsage(state, new).pending = SumFunctionOnSet(k, L)
  BY Zenon, AccountFields
<1> HIDE DEF L, f, g, h, k
<1>4. SumFunctionOnSet(g, L) <= SumFunctionOnSet(f, L) /\ SumFunctionOnSet(k, L) <= SumFunctionOnSet(h, L)
  BY <1>0, <1>1, SumAtMost
<1> QED
  BY Zenon, <1>3, <1>4

\* Deleting a workspace can only lower what the account is charged for.
LEMMA AccountFewer ==
    ASSUME NEW state, NEW next, NEW use \in [Workspaces -> Usage], Live(next) \subseteq Live(state)
    PROVE  /\ AccountUsage(next, use).workspaces <= AccountUsage(state, use).workspaces
           /\ AccountUsage(next, use).storage <= AccountUsage(state, use).storage
           /\ AccountUsage(next, use).pending <= AccountUsage(state, use).pending
<1> DEFINE L == Live(state)
           M == Live(next)
           f == [v \in L |-> use[v].storage]
           g == [v \in M |-> use[v].storage]
           h == [v \in L |-> use[v].pending]
           k == [v \in M |-> use[v].pending]
<1>0. IsFiniteSet(L) /\ IsFiniteSet(M) /\ M \in SUBSET L /\ Cardinality(M) <= Cardinality(L)
  BY LiveFinite, FS_Subset
<1>1. \A v \in L : f[v] \in Nat /\ h[v] \in Nat
  BY DEF Usage, Live
<1>2. \A v \in M : f[v] = g[v] /\ h[v] = k[v]
  BY <1>0
<1>3. /\ AccountUsage(state, use).workspaces = Cardinality(L)
      /\ AccountUsage(next, use).workspaces = Cardinality(M)
      /\ AccountUsage(state, use).storage = SumFunctionOnSet(f, L)
      /\ AccountUsage(next, use).storage = SumFunctionOnSet(g, M)
      /\ AccountUsage(state, use).pending = SumFunctionOnSet(h, L)
      /\ AccountUsage(next, use).pending = SumFunctionOnSet(k, M)
  BY Zenon, AccountFields
<1> HIDE DEF L, M, f, g, h, k
<1>4. SumFunctionOnSet(f, M) = SumFunctionOnSet(g, M) /\ SumFunctionOnSet(h, M) = SumFunctionOnSet(k, M)
  BY <1>0, <1>2, SumAgree
<1>5. SumFunctionOnSet(f, M) <= SumFunctionOnSet(f, L) /\ SumFunctionOnSet(h, M) <= SumFunctionOnSet(h, L)
  BY <1>0, <1>1, SumSubset
<1> QED
  BY Zenon, <1>0, <1>3, <1>4, <1>5

\* The account usage depends on the live workspaces only.
LEMMA AccountSame ==
    ASSUME NEW state, NEW use \in [Workspaces -> Usage], NEW new \in [Workspaces -> Usage],
           \A w \in Live(state) : new[w] = use[w]
    PROVE  AccountUsage(state, new) = AccountUsage(state, use)
<1>1. /\ [v \in Live(state) |-> use[v].storage] = [v \in Live(state) |-> new[v].storage]
      /\ [v \in Live(state) |-> use[v].pending] = [v \in Live(state) |-> new[v].pending]
  BY Zenon
<1> QED
  BY Zenon, <1>1 DEF AccountUsage, Live

-----------------------------------------------------------------------------
(* Steps and usage *)

\* The rows of one workspace change, and its counters become what they add up
\* to: the counters of the others still do.
LEMMA UsageFollows ==
    ASSUME RowInv', UseInv, NEW w \in Workspaces,
           wsUse' = [wsUse EXCEPT ![w] = WorkspaceUsage(row', w)],
           \A o \in Objects : row'[o] = row[o] \/ (row[o].ws = w /\ row'[o].ws = w)
    PROVE  /\ wsUse' \in [Workspaces -> Usage]
           /\ \A v \in Workspaces : wsUse'[v] = WorkspaceUsage(row', v)
           /\ \A v \in Workspaces : v # w => wsUse'[v] = wsUse[v]
<1>1. WorkspaceUsage(row', w) \in Usage
  <2>1. \A o \in Objects : row'[o].state \in {"pending", "available"} => row'[o].content \in Contents
    BY DEF RowInv, RowsOwned
  <2> QED
    BY <2>1, UsageFields
<1>2. /\ wsUse \in [Workspaces -> Usage]
      /\ \A v \in Workspaces : wsUse[v] = WorkspaceUsage(row, v)
  BY DEF UseInv, UsageTyped, UsageTracked
<1>3. wsUse' \in [Workspaces -> Usage]
  BY <1>1, <1>2
<1>4. ASSUME NEW v \in Workspaces, v # w PROVE WorkspaceUsage(row', v) = WorkspaceUsage(row, v)
  <2>1. \A state : InState(row', v, state) = InState(row, v, state)
    BY <1>4 DEF InState
  <2>2. \A o \in InState(row, v, "available") \cup InState(row, v, "pending") :
           row'[o].content = row[o].content
    BY <1>4 DEF InState
  <2> QED
    BY <2>1, <2>2, UsageSame
<1> QED
  BY <1>2, <1>3, <1>4

\* The steps that change neither what is available nor what is pending.
LEMMA UsageKept ==
    ASSUME UseInv, UNCHANGED wsUse,
           \A o \in Objects :
              /\ row'[o].state \in {"available", "pending"} <=> row[o].state \in {"available", "pending"}
              /\ row[o].state \in {"available", "pending"} =>
                   /\ row'[o].state = row[o].state
                   /\ row'[o].content = row[o].content
                   /\ row'[o].ws = row[o].ws
    PROVE  \A w \in Workspaces : wsUse'[w] = WorkspaceUsage(row', w)
<1> SUFFICES ASSUME NEW w \in Workspaces PROVE wsUse'[w] = WorkspaceUsage(row', w)
  OBVIOUS
<1>1. /\ InState(row', w, "available") = InState(row, w, "available")
      /\ InState(row', w, "pending") = InState(row, w, "pending")
  BY DEF InState
<1>2. \A o \in InState(row, w, "available") \cup InState(row, w, "pending") :
         row'[o].content = row[o].content
  BY DEF InState
<1>3. WorkspaceUsage(row', w) = WorkspaceUsage(row, w)
  BY <1>1, <1>2, UsageSame
<1> QED
  BY <1>3 DEF UseInv, UsageTracked

\* The account is charged for what one live workspace was charged for.
LEMMA AccountFollows ==
    ASSUME UseInv, ~raced, NEW w \in Workspaces, ws[w] = "live", UNCHANGED ws,
           wsUse' \in [Workspaces -> Usage],
           \A v \in Workspaces : v # w => wsUse'[v] = wsUse[v],
           acct' \in Account,
           acct'.workspaces = acct.workspaces,
           acct'.storage + wsUse[w].storage = acct.storage + wsUse'[w].storage,
           acct'.pending + wsUse[w].pending = acct.pending + wsUse'[w].pending
    PROVE  acct' = AccountUsage(ws', wsUse')
<1> DEFINE b == AccountUsage(ws, wsUse')
<1>1. wsUse \in [Workspaces -> Usage] /\ acct \in Account /\ acct = AccountUsage(ws, wsUse)
  BY DEF UseInv, UsageTyped, UsageTracked
<1>2. /\ b.workspaces = acct.workspaces
      /\ b.storage + wsUse[w].storage = acct.storage + wsUse'[w].storage
      /\ b.pending + wsUse[w].pending = acct.pending + wsUse'[w].pending
  BY <1>1, AccountChange
<1>3. b \in Account
  BY Zenon, AccountFields
<1> HIDE DEF b
<1>4. /\ \A x \in {wsUse[w], wsUse'[w], acct, acct', b} : x.storage \in Nat /\ x.pending \in Nat
  <2>1. wsUse[w] \in Usage /\ wsUse'[w] \in Usage
    BY <1>1
  <2> QED
    BY <1>1, <1>3, <2>1 DEF Usage, Account
<1>5. acct'.workspaces = b.workspaces /\ acct'.storage = b.storage /\ acct'.pending = b.pending
  BY <1>2, <1>4
<1>6. acct' = b
  BY <1>3, <1>5 DEF Account
<1> QED
  BY <1>6 DEF b

\* A request that raced with no deletion ran on a live workspace.
LEMMA FinishFacts ==
    ASSUME RowInv, NEW t \in Txs, Finish(t), tx[t] # Idle
    PROVE  /\ tx[t].ws \in Workspaces
           /\ ~raced' => ~raced /\ ws[tx[t].ws] = "live"
BY FinishTyped DEF Finish

\* The configured limits are natural numbers.
LEMMA LimitsTyped ==
    /\ SyncMaxPendingUploadBytes \in Nat /\ SyncMaxStorageBytesPerWorkspace \in Nat
    /\ SyncMaxTotalStorageBytesPerUser \in Nat /\ SyncMaxWorkspacesPerUser \in Nat
BY ObjectsAssumption

\* One request charges its workspace and the account for the same change.
LEMMA ChargedStep ==
    ASSUME RowInv', UseInv, NEW w \in Workspaces, UNCHANGED ws,
           ~raced' => ~raced /\ ws[w] = "live",
           wsUse' = [wsUse EXCEPT ![w] = WorkspaceUsage(row', w)],
           \A o \in Objects : row'[o] = row[o] \/ (row[o].ws = w /\ row'[o].ws = w),
           acct' \in Account, acct'.workspaces = acct.workspaces,
           acct'.storage + wsUse[w].storage = acct.storage + wsUse'[w].storage,
           acct'.pending + wsUse[w].pending = acct.pending + wsUse'[w].pending,
           wsUse'[w].pending <= SyncMaxPendingUploadBytes,
           wsUse'[w].storage + wsUse'[w].pending <= SyncMaxStorageBytesPerWorkspace,
           ~raced' => acct'.storage + acct'.pending <= SyncMaxTotalStorageBytesPerUser
    PROVE  UseInv'
<1>1. /\ wsUse' \in [Workspaces -> Usage]
      /\ \A v \in Workspaces : wsUse'[v] = WorkspaceUsage(row', v)
      /\ \A v \in Workspaces : v # w => wsUse'[v] = wsUse[v]
  BY Zenon, UsageFollows
<1>2. ~raced' => acct' = AccountUsage(ws', wsUse')
  BY Zenon, <1>1, AccountFollows
<1>3. \A v \in Workspaces :
         /\ wsUse'[v].pending <= SyncMaxPendingUploadBytes
         /\ wsUse'[v].storage + wsUse'[v].pending <= SyncMaxStorageBytesPerWorkspace
  BY Zenon, <1>1 DEF WithinLimits, UseInv
<1>4. ~raced' => acct'.workspaces <= SyncMaxWorkspacesPerUser
  BY Zenon DEF WithinLimits, UseInv
<1> QED
  BY Zenon, <1>1, <1>2, <1>3, <1>4 DEF UseInv, UsageTyped, UsageTracked, WithinLimits

\* CreateObjectUploadBatch charges the bytes of the reserved objects of the batch
\* only: those already pending were charged before.
LEMMA CreateBatchPreservesUse ==
    ASSUME RowInv, RowInv', UseInv, NEW t \in Txs, NEW batch \in Batches,
           CreateObjectUploadBatch(t, batch)
    PROVE  UseInv'
<1> DEFINE S == DOMAIN batch
           w == tx[t].ws
           new == {o \in S : row[o].state = "reserved"}
           extra == Bytes(batch, new)
           avail == InState(row, w, "available")
           pend == InState(row, w, "pending")
<1>0. batch \in [S -> Contents] /\ S \subseteq Objects
  BY DEF Batches
<1>1. w \in Workspaces /\ (~raced' => ~raced /\ ws[w] = "live")
  BY FinishFacts, Zenon DEF CreateObjectUploadBatch
<1>2. /\ row' = [o \in Objects |->
                 IF o \in S THEN [row[o] EXCEPT !.state = "pending", !.content = batch[o],
                                                !.expired = FALSE]
                            ELSE row[o]]
      /\ \A o \in S : CanUpload(o, batch[o]) /\ row[o].ws = w
      /\ UNCHANGED ws
      /\ wsUse' = [wsUse EXCEPT ![w].pending = @ + extra]
      /\ acct' = [acct EXCEPT !.pending = @ + extra]
      /\ checkUploadBatchQuota(w, extra)
  BY Zenon DEF CreateObjectUploadBatch, Found
<1>3. ASSUME NEW o \in S
      PROVE  /\ row'[o].state = "pending" /\ row'[o].content = batch[o] /\ row'[o].ws = w
             /\ row[o].ws = w
             /\ row[o].state \in {"reserved", "pending"}
             /\ row[o].state = "pending" => row[o].content = batch[o]
  <2>1. row'[o] = [row[o] EXCEPT !.state = "pending", !.content = batch[o], !.expired = FALSE]
    BY <1>0, <1>2
  <2>2. row[o] \in Row
    BY <1>0 DEF RowInv, RowsTyped
  <2>3. row'[o].state = "pending" /\ row'[o].content = batch[o] /\ row'[o].ws = row[o].ws
    BY Zenon, <2>1, <2>2 DEF Row
  <2> QED
    BY <1>2, <2>3 DEF CanUpload
<1>4. \A o \in Objects : o \notin S => row'[o] = row[o]
  BY <1>2
<1>5. /\ InState(row', w, "available") = avail
      /\ InState(row', w, "pending") = pend \cup new
      /\ pend \cap new = {}
      /\ avail \in SUBSET Objects /\ pend \in SUBSET Objects /\ new \in SUBSET Objects
  BY <1>0, <1>3, <1>4 DEF InState
<1>6. /\ \A o \in avail \cup pend : row'[o].content = row[o].content /\ row[o].content \in Contents
      /\ \A o \in new : row'[o].content = batch[o] /\ batch[o] \in Contents
  BY <1>0, <1>3, <1>4 DEF InState, RowInv, RowsOwned
<1> HIDE DEF avail, pend, new, S, w
<1>7. Charge(row', avail) = Charge(row, avail) /\ Charge(row', pend) = Charge(row, pend)
  BY <1>5, <1>6, ChargeSame
<1>8. Charge(row', new) = extra
  <2>1. [o \in new |-> Size[row'[o].content]] = [o \in new |-> Size[batch[o]]]
    BY <1>6
  <2> QED
    BY Zenon, <2>1 DEF Charge, Bytes
<1>9. Charge(row', pend \cup new) = Charge(row, pend) + extra /\ extra \in Nat
  <2>1. \A o \in pend \cup new : row'[o].content \in Contents
    BY <1>6
  <2>2. Charge(row', pend \cup new) = Charge(row', pend) + Charge(row', new)
    BY <1>5, <2>1, ChargeUnion
  <2>3. Charge(row', new) \in Nat
    BY <1>5, <2>1, ChargeNat
  <2> QED
    BY <1>7, <1>8, <2>2, <2>3
<1> HIDE DEF extra
<1>10. wsUse \in [Workspaces -> Usage] /\ wsUse[w] = WorkspaceUsage(row, w) /\ acct \in Account
  BY <1>1 DEF UseInv, UsageTyped, UsageTracked
<1>11. WorkspaceUsage(row', w) = [wsUse[w] EXCEPT !.pending = @ + extra]
  <2>1. WorkspaceUsage(row, w) = [storage |-> Charge(row, avail), count |-> Cardinality(avail),
                                  pending |-> Charge(row, pend)]
    BY DEF WorkspaceUsage, avail, pend
  <2>2. WorkspaceUsage(row', w) = [storage |-> Charge(row, avail), count |-> Cardinality(avail),
                                   pending |-> Charge(row, pend) + extra]
    BY <1>5, <1>7, <1>9 DEF WorkspaceUsage
  <2> QED
    BY <1>10, <2>1, <2>2
<1>12. wsUse' = [wsUse EXCEPT ![w] = WorkspaceUsage(row', w)]
  BY Zenon, <1>2, <1>11
<1>13. /\ wsUse'[w].storage = wsUse[w].storage
       /\ wsUse'[w].pending = wsUse[w].pending + extra
       /\ acct' \in Account
       /\ acct'.workspaces = acct.workspaces /\ acct'.storage = acct.storage
       /\ acct'.pending = acct.pending + extra
       /\ wsUse[w].storage \in Nat /\ wsUse[w].pending \in Nat
       /\ acct.storage \in Nat /\ acct.pending \in Nat
  <2>1. wsUse'[w] = [wsUse[w] EXCEPT !.pending = @ + extra] /\ wsUse[w] \in Usage
    BY <1>1, <1>10, <1>11, <1>12
  <2>2. acct' = [acct EXCEPT !.pending = @ + extra]
    BY <1>2
  <2> QED
    BY <1>9, <1>10, <2>1, <2>2 DEF Usage, Account
<1>14. /\ acct'.storage + wsUse[w].storage = acct.storage + wsUse'[w].storage
       /\ acct'.pending + wsUse[w].pending = acct.pending + wsUse'[w].pending
  BY <1>9, <1>13
<1>15. /\ wsUse'[w].pending <= SyncMaxPendingUploadBytes
       /\ wsUse'[w].storage + wsUse'[w].pending <= SyncMaxStorageBytesPerWorkspace
       /\ acct'.storage + acct'.pending <= SyncMaxTotalStorageBytesPerUser
  <2>1. checkUploadBatchQuota(w, extra) /\ extra \in Nat
    BY <1>2, <1>9
  <2> QED
    BY <1>13, <2>1, LimitsTyped DEF checkUploadBatchQuota
<1>16. \A o \in Objects : row'[o] = row[o] \/ (row[o].ws = w /\ row'[o].ws = w)
  BY <1>3, <1>4
<1> QED
  BY Zenon, <1>1, <1>2, <1>12, <1>13, <1>14, <1>15, <1>16, ChargedStep

\* CompleteObjectUploadBatch turns pending bytes into stored ones, and
\* failPendingObject releases those of the failed objects.
LEMMA CompleteBatchPreservesUse ==
    ASSUME RowInv, RowInv', UseInv, NEW t \in Txs, NEW batch \in Batches,
           CompleteObjectUploadBatch(t, batch)
    PROVE  UseInv'
<1> DEFINE S == DOMAIN batch
           w == tx[t].ws
           pending == {o \in S : row[o].state = "pending"}
           done == {o \in pending : UploadIsComplete(o, batch[o])}
           failed == pending \ done
           added == Charge(row, done)
           avail == InState(row, w, "available")
           pend == InState(row, w, "pending")
           rest == pend \ (done \cup failed)
<1>0. S \subseteq Objects
  BY DEF Batches
<1>1. w \in Workspaces /\ (~raced' => ~raced /\ ws[w] = "live")
  BY FinishFacts, Zenon DEF CompleteObjectUploadBatch
<1>2. /\ row' = [o \in Objects |->
                 CASE o \in done   -> [row[o] EXCEPT !.state = "available", !.expired = FALSE]
                   [] o \in failed -> [row[o] EXCEPT !.state = "failed"]
                   [] OTHER        -> row[o]]
      /\ \A o \in S : row[o].ws = w
      /\ UNCHANGED ws
  BY Zenon DEF CompleteObjectUploadBatch, Found
<1>3. /\ wsUse' = [wsUse EXCEPT ![w] = [storage |-> @.storage + added,
                                        count   |-> @.count + Cardinality(done),
                                        pending |-> @.pending - (added + Charge(row, failed))]]
      /\ acct' = [acct EXCEPT !.storage = @ + added,
                              !.pending = @ - (added + Charge(row, failed))]
      /\ acct.pending >= added + Charge(row, failed)
  BY Zenon DEF CompleteObjectUploadBatch, Released, AccountReleased
<1>4. ASSUME NEW o \in Objects
      PROVE  /\ o \in done => row'[o].state = "available"
             /\ o \in failed => row'[o].state = "failed"
             /\ o \in S => row[o].ws = w
             /\ row'[o].ws = row[o].ws /\ row'[o].content = row[o].content
             /\ o \notin done \cup failed => row'[o] = row[o]
  <2>1. row[o] \in Row
    BY DEF RowInv, RowsTyped
  <2>2. CASE o \in done
    <3>1. row'[o] = [row[o] EXCEPT !.state = "available", !.expired = FALSE]
      BY <1>2, <2>2
    <3>2. /\ row'[o].state = "available" /\ row'[o].ws = row[o].ws
          /\ row'[o].content = row[o].content
      BY Zenon, <2>1, <3>1 DEF Row
    <3> QED
      BY <1>2, <2>2, <3>2
  <2>3. CASE o \in failed
    <3>1. row'[o] = [row[o] EXCEPT !.state = "failed"]
      BY <1>2, <2>3
    <3>2. /\ row'[o].state = "failed" /\ row'[o].ws = row[o].ws
          /\ row'[o].content = row[o].content
      BY Zenon, <2>1, <3>1 DEF Row
    <3> QED
      BY <1>2, <2>3, <3>2
  <2>4. CASE o \notin done \cup failed
    BY <1>2, <2>4
  <2> QED
    BY <2>2, <2>3, <2>4
<1>5. /\ done \cap failed = {}
      /\ done \cup failed \subseteq pend
      /\ pend = rest \cup (done \cup failed) /\ rest \cap (done \cup failed) = {}
      /\ \A o \in done \cup failed : o \in Objects /\ row[o].ws = w /\ row[o].state = "pending"
  BY <1>0, <1>2 DEF InState
<1>6. /\ InState(row', w, "available") = avail \cup done
      /\ InState(row', w, "pending") = rest
      /\ avail \cap done = {}
  <2>1. \A o \in Objects : row'[o].ws = w /\ row'[o].state = "available" <=> o \in avail \cup done
    BY <1>4, <1>5 DEF InState
  <2>2. \A o \in Objects : row'[o].ws = w /\ row'[o].state = "pending" <=> o \in rest
    BY <1>4, <1>5 DEF InState
  <2> QED
    BY <1>5, <2>1, <2>2 DEF InState
<1>7. /\ avail \in SUBSET Objects /\ pend \in SUBSET Objects
      /\ rest \in SUBSET Objects /\ done \in SUBSET Objects /\ failed \in SUBSET Objects
      /\ \A o \in avail \cup pend : row[o].content \in Contents
  BY <1>5 DEF InState, RowInv, RowsOwned
<1>8. WorkspaceUsage(row, w) = [storage |-> Charge(row, avail), count |-> Cardinality(avail),
                                pending |-> Charge(row, pend)]
  BY DEF WorkspaceUsage
<1>9. WorkspaceUsage(row', w) = [storage |-> Charge(row', avail \cup done),
                                 count |-> Cardinality(avail \cup done),
                                 pending |-> Charge(row', rest)]
  BY Zenon, <1>6 DEF WorkspaceUsage
<1> HIDE DEF S, w, pending, done, failed, avail, pend, rest
<1>10. /\ Charge(row', avail \cup done) = Charge(row, avail) + added
       /\ Charge(row, pend) = Charge(row', rest) + (added + Charge(row, failed))
       /\ added \in Nat /\ Charge(row, failed) \in Nat /\ Charge(row, avail) \in Nat
       /\ Charge(row', rest) \in Nat
  <2>1. Charge(row', avail \cup done) = Charge(row, avail \cup done)
    BY <1>4, <1>7, ChargeSame
  <2>2. Charge(row', rest) = Charge(row, rest)
    BY <1>4, <1>7, ChargeSame
  <2>3. \A o \in avail \cup done : row[o].content \in Contents
    BY <1>5, <1>7
  <2>4. Charge(row, avail \cup done) = Charge(row, avail) + Charge(row, done)
    BY <1>6, <1>7, <2>3, ChargeUnion
  <2>5. \A o \in done \cup failed : row[o].content \in Contents
    BY <1>5, <1>7
  <2>6. Charge(row, done \cup failed) = Charge(row, done) + Charge(row, failed)
    BY <1>5, <1>7, <2>5, ChargeUnion
  <2>7. Charge(row, pend) = Charge(row, rest) + Charge(row, done \cup failed)
    <3>1. done \cup failed \in SUBSET Objects /\ \A o \in rest \cup (done \cup failed) : row[o].content \in Contents
      BY <1>5, <1>7
    <3> QED
      BY <1>5, <1>7, <3>1, ChargeUnion
  <2>8. Charge(row, done) \in Nat /\ Charge(row, failed) \in Nat /\ Charge(row, avail) \in Nat
    BY <1>7, <2>3, <2>5, ChargeNat
  <2>9. Charge(row, rest) \in Nat
    <3>1. \A o \in rest : row[o].content \in Contents
      BY <1>5, <1>7
    <3> QED
      BY <1>7, <3>1, ChargeNat
  <2> QED
    BY <2>1, <2>2, <2>4, <2>6, <2>7, <2>8, <2>9
<1>11. Cardinality(avail \cup done) = Cardinality(avail) + Cardinality(done)
  <2>1. IsFiniteSet(avail) /\ IsFiniteSet(done)
    BY <1>7, SubsetFinite
  <2> QED
    <3>1. Cardinality(avail \cup done)
            = Cardinality(avail) + Cardinality(done) - Cardinality(avail \cap done)
      BY Zenon, <2>1, FS_Union
    <3>2. Cardinality(avail \cap done) = 0
      BY Zenon, <1>6, FS_EmptySet
    <3>3. Cardinality(avail) \in Nat /\ Cardinality(done) \in Nat
      BY Zenon, <2>1, FS_CardinalityType
    <3> QED
      BY <3>1, <3>2, <3>3
<1>12. wsUse \in [Workspaces -> Usage] /\ wsUse[w] = WorkspaceUsage(row, w) /\ acct \in Account
  BY <1>1 DEF UseInv, UsageTyped, UsageTracked
<1> DEFINE lost == Charge(row, failed)
<1>13. WorkspaceUsage(row', w) = [storage |-> wsUse[w].storage + added,
                                  count   |-> wsUse[w].count + Cardinality(done),
                                  pending |-> wsUse[w].pending - (added + lost)]
  <2>1. Charge(row', rest) = Charge(row, pend) - (added + lost)
    BY <1>10
  <2> QED
    BY <1>8, <1>9, <1>10, <1>11, <1>12, <2>1
<1>14. wsUse' = [wsUse EXCEPT ![w] = WorkspaceUsage(row', w)]
  BY Zenon, <1>3, <1>13
<1> HIDE DEF added, lost
<1>15. /\ wsUse'[w].storage = wsUse[w].storage + added
       /\ wsUse'[w].pending = wsUse[w].pending - (added + lost)
       /\ wsUse[w].pending >= added + lost
  <2>1. wsUse'[w] = WorkspaceUsage(row', w)
    BY <1>1, <1>12, <1>14
  <2>2. wsUse[w].pending = Charge(row, pend)
    BY <1>8, <1>12
  <2> QED
    BY <1>10, <1>13, <2>1, <2>2 DEF lost
<1>16. /\ acct' \in Account
       /\ acct'.workspaces = acct.workspaces
       /\ acct'.storage = acct.storage + added
       /\ acct'.pending = acct.pending - (added + lost)
       /\ acct.pending >= added + lost
       /\ acct.storage \in Nat /\ acct.pending \in Nat
  <2>1. acct' = [acct EXCEPT !.storage = @ + added, !.pending = @ - (added + lost)]
    BY <1>3 DEF lost
  <2>2. added \in Nat /\ lost \in Nat /\ acct.pending >= added + lost
    BY <1>3, <1>10 DEF lost
  <2> QED
    <3>1. acct' = [workspaces |-> acct.workspaces, storage |-> acct.storage + added,
                   pending |-> acct.pending - (added + lost)]
      BY Zenon, <1>12, <2>1 DEF Account
    <3>2. acct.storage \in Nat /\ acct.pending \in Nat /\ acct.workspaces \in Nat
      BY <1>12 DEF Account
    <3>3. acct.storage + added \in Nat /\ acct.pending - (added + lost) \in Nat
      BY <2>2, <3>2
    <3> QED
      BY <2>2, <3>1, <3>2, <3>3 DEF Account
<1>17. added \in Nat /\ lost \in Nat /\ wsUse[w].storage \in Nat /\ wsUse[w].pending \in Nat
  BY <1>1, <1>10, <1>12 DEF Usage, lost
<1>18. /\ acct'.storage + wsUse[w].storage = acct.storage + wsUse'[w].storage
       /\ acct'.pending + wsUse[w].pending = acct.pending + wsUse'[w].pending
  BY <1>15, <1>16, <1>17
<1>19. /\ wsUse'[w].pending <= SyncMaxPendingUploadBytes
       /\ wsUse'[w].storage + wsUse'[w].pending <= SyncMaxStorageBytesPerWorkspace
       /\ ~raced' => acct'.storage + acct'.pending <= SyncMaxTotalStorageBytesPerUser
  <2>1. /\ wsUse[w].pending <= SyncMaxPendingUploadBytes
        /\ wsUse[w].storage + wsUse[w].pending <= SyncMaxStorageBytesPerWorkspace
        /\ ~raced' => acct.storage + acct.pending <= SyncMaxTotalStorageBytesPerUser
    BY Zenon, <1>1 DEF UseInv, WithinLimits
  <2> QED
    BY <1>15, <1>16, <1>17, <2>1, LimitsTyped
<1>20. \A o \in Objects : row'[o] = row[o] \/ (row[o].ws = w /\ row'[o].ws = w)
  BY <1>4, <1>5
<1> QED
  BY Zenon, <1>1, <1>2, <1>14, <1>16, <1>18, <1>19, <1>20, ChargedStep

\* The steps that change no counter and no row that counts.
LEMMA KeptStep ==
    ASSUME UseInv, UNCHANGED <<ws, wsUse, acct>>, raced => raced',
           \A o \in Objects :
              /\ row'[o].state \in {"available", "pending"} <=> row[o].state \in {"available", "pending"}
              /\ row[o].state \in {"available", "pending"} =>
                   /\ row'[o].state = row[o].state
                   /\ row'[o].content = row[o].content
                   /\ row'[o].ws = row[o].ws
    PROVE  UseInv'
<1>1. \A w \in Workspaces : wsUse'[w] = WorkspaceUsage(row', w)
  BY UsageKept
<1>2. UsageTyped' /\ WithinLimits'
  BY Zenon DEF UseInv, UsageTyped, WithinLimits
<1>3. raced' \/ acct' = AccountUsage(ws', wsUse')
  BY Zenon DEF UseInv, UsageTracked
<1> QED
  BY <1>1, <1>2, <1>3 DEF UseInv, UsageTracked

\* What AddSyncUsageAvailableObjectBytes does to a row of sync_usage_workspaces.
LEMMA WithObjectFields ==
    ASSUME NEW u \in Usage, NEW c
    PROVE  WithObject(u, c) =
             [storage |-> u.storage + Size[c], count |-> u.count + 1, pending |-> u.pending]
<1>1. PICK v : v = WithObject(u, c)
  OBVIOUS
<1>2. v = [storage |-> u.storage + Size[c], count |-> u.count + 1, pending |-> u.pending]
  BY Zenon, <1>1 DEF WithObject, Usage
<1> QED
  BY Zenon, <1>1, <1>2

\* UploadObjectBytesDev checks only the stored bytes: enough, for the local store
\* never has pending ones.
LEMMA UploadPreservesUse ==
    ASSUME RowInv, RowInv', UseInv, NEW t \in Txs, NEW o \in Objects, NEW c \in Contents,
           UploadObjectBytesDev(t, o, c)
    PROVE  UseInv'
<1> DEFINE w == tx[t].ws
           avail == InState(row, w, "available")
<1>1. w \in Workspaces /\ (~raced' => ~raced /\ ws[w] = "live")
  BY FinishFacts, Zenon DEF UploadObjectBytesDev
<1>2. /\ store = "local" /\ UNCHANGED ws /\ row[o].ws = w
      /\ row[o].state \in {"reserved", "pending"}
      /\ DirectQuota(w, c)
  BY Zenon DEF UploadObjectBytesDev, Found
<1>3. CASE UNCHANGED <<row, wsUse, acct>>
  BY Zenon, <1>1, <1>2, <1>3, KeptStep
<1>4. CASE /\ row' = [row EXCEPT ![o].state = "available", ![o].content = c, ![o].expired = FALSE]
           /\ wsUse' = [wsUse EXCEPT ![w] = WithObject(@, c)]
           /\ acct' = [acct EXCEPT !.storage = @ + Size[c]]
  <2>1. row \in [Objects -> Row]
    BY DEF RowInv, RowsTyped
  <2>2. row'[o].state = "available" /\ row'[o].content = c /\ row'[o].ws = w
    <3>1. row'[o] = [row[o] EXCEPT !.state = "available", !.content = c, !.expired = FALSE]
      BY <1>4, <2>1
    <3>2. row[o] \in Row
      BY <2>1
    <3> QED
      BY Zenon, <1>2, <3>1, <3>2 DEF Row
  <2>3. \A p \in Objects : p # o => row'[p] = row[p]
    BY <1>4, <2>1
  <2>4. /\ \A p \in Objects : row[p].state # "pending" /\ row'[p].state # "pending"
        /\ \A p \in Objects : row'[p].state \in {"pending", "available"} => row'[p].content \in Contents
    <3>1. \A p \in Objects : row[p].state # "pending"
      BY <1>2 DEF RowInv, UrlsMatch
    <3> QED
      BY <2>2, <2>3, <3>1 DEF RowInv, RowsOwned
  <2>5. /\ InState(row', w, "available") = avail \cup {o}
        /\ InState(row', w, "pending") = {} /\ InState(row, w, "pending") = {}
        /\ o \notin avail
        /\ avail \in SUBSET Objects
        /\ \A p \in avail \cup {o} : row'[p].content \in Contents
        /\ \A p \in avail : row'[p].content = row[p].content
    BY <1>2, <2>2, <2>3, <2>4 DEF InState
  <2> DEFINE n == Size[c]
  <2>6. n \in Nat
    BY ObjectsAssumption
  <2>7. WorkspaceUsage(row, w) = [storage |-> Charge(row, avail), count |-> Cardinality(avail),
                                  pending |-> 0]
    BY <2>5, ChargeEmpty DEF WorkspaceUsage
  <2>8. WorkspaceUsage(row', w) = [storage |-> Charge(row', avail \cup {o}),
                                   count |-> Cardinality(avail \cup {o}), pending |-> 0]
    BY Zenon, <2>5, ChargeEmpty DEF WorkspaceUsage
  <2> HIDE DEF avail, w
  <2>9. Charge(row', avail \cup {o}) = Charge(row, avail) + n
    <3>1. Charge(row', avail) = Charge(row, avail)
      BY <2>5, ChargeSame
    <3>2. Charge(row', {o}) = n
      BY <2>2, ChargeOne
    <3>3. {o} \in SUBSET Objects /\ avail \cap {o} = {}
      BY <2>5
    <3>4. Charge(row', avail \cup {o}) = Charge(row', avail) + Charge(row', {o})
      BY Zenon, <2>5, <3>3, ChargeUnion
    <3> QED
      BY Zenon, <3>1, <3>2, <3>4
  <2>10. Cardinality(avail \cup {o}) = Cardinality(avail) + 1
    BY <2>5, SubsetFinite, FS_AddElement
  <2>11. wsUse \in [Workspaces -> Usage] /\ wsUse[w] = WorkspaceUsage(row, w) /\ acct \in Account
    BY <1>1 DEF UseInv, UsageTyped, UsageTracked
  <2>12. WorkspaceUsage(row', w) = WithObject(wsUse[w], c)
    <3>1. /\ wsUse[w].storage = Charge(row, avail) /\ wsUse[w].count = Cardinality(avail)
          /\ wsUse[w].pending = 0 /\ wsUse[w] \in Usage
      BY <1>1, <2>7, <2>11
    <3>2. WithObject(wsUse[w], c) = [storage |-> wsUse[w].storage + n, count |-> wsUse[w].count + 1,
                                     pending |-> wsUse[w].pending]
      BY Zenon, <3>1, WithObjectFields
    <3> QED
      BY Zenon, <2>8, <2>9, <2>10, <3>1, <3>2
  <2>13. wsUse' = [wsUse EXCEPT ![w] = WorkspaceUsage(row', w)]
    BY Zenon, <1>4, <2>12
  <2> HIDE DEF n
  <2>14. /\ wsUse'[w].storage = wsUse[w].storage + n
         /\ wsUse'[w].pending = 0 /\ wsUse[w].pending = 0
         /\ wsUse[w].storage \in Nat
    <3>1. wsUse'[w] = WorkspaceUsage(row', w)
      BY <1>1, <2>11, <2>13
    <3>2. wsUse[w] \in Usage
      BY <1>1, <2>11
    <3>3. wsUse'[w].storage = Charge(row', avail \cup {o}) /\ wsUse'[w].pending = 0
      BY <2>8, <3>1
    <3>4. wsUse[w].storage = Charge(row, avail) /\ wsUse[w].pending = 0
      BY <2>7, <2>11
    <3>5. wsUse[w].storage \in Nat
      BY <3>2 DEF Usage
    <3> QED
      BY Zenon, <2>9, <3>3, <3>4, <3>5
  <2>15. /\ acct' \in Account /\ acct'.workspaces = acct.workspaces
         /\ acct'.storage = acct.storage + n /\ acct'.pending = acct.pending
         /\ acct.storage \in Nat /\ acct.pending \in Nat
    <3>1. acct' = [acct EXCEPT !.storage = @ + n]
      BY <1>4 DEF n
    <3> QED
      BY <2>6, <2>11, <3>1 DEF Account
  <2>16. /\ acct'.storage + wsUse[w].storage = acct.storage + wsUse'[w].storage
         /\ acct'.pending + wsUse[w].pending = acct.pending + wsUse'[w].pending
    BY <2>6, <2>14, <2>15
  <2>17. ~raced => acct.pending = 0
    <3>1. \A v \in Workspaces : wsUse[v].pending = 0
      <4> SUFFICES ASSUME NEW v \in Workspaces PROVE wsUse[v].pending = 0
        OBVIOUS
      <4>1. InState(row, v, "pending") = {}
        BY <2>4 DEF InState
      <4>2. WorkspaceUsage(row, v).pending = 0
        BY <4>1, ChargeEmpty DEF WorkspaceUsage
      <4> QED
        BY <4>2 DEF UseInv, UsageTracked
    <3>2. \A state : AccountUsage(state, wsUse).pending = 0
      <4> SUFFICES ASSUME NEW state PROVE AccountUsage(state, wsUse).pending = 0
        OBVIOUS
      <4> DEFINE f == [v \in Live(state) |-> wsUse[v].pending]
      <4>1. \A v \in Live(state) : f[v] = 0
        BY <3>1 DEF Live
      <4> HIDE DEF f
      <4>2. SumFunctionOnSet(f, Live(state)) = 0
        BY <4>1, LiveFinite, SumZero
      <4> QED
        BY Zenon, <2>11, <4>2, AccountFields DEF f
    <3> QED
      BY <3>2 DEF UseInv, UsageTracked
  <2>18. /\ wsUse'[w].pending <= SyncMaxPendingUploadBytes
         /\ wsUse'[w].storage + wsUse'[w].pending <= SyncMaxStorageBytesPerWorkspace
         /\ ~raced' => acct'.storage + acct'.pending <= SyncMaxTotalStorageBytesPerUser
    <3>1. /\ acct.storage + n <= SyncMaxTotalStorageBytesPerUser
          /\ wsUse[w].storage + n <= SyncMaxStorageBytesPerWorkspace
      BY <1>2 DEF DirectQuota, n
    <3> QED
      BY <1>1, <2>6, <2>14, <2>15, <2>17, <3>1, LimitsTyped
  <2>19. \A p \in Objects : row'[p] = row[p] \/ (row[p].ws = w /\ row'[p].ws = w)
    BY <1>2, <2>2, <2>3
  <2> QED
    BY Zenon, <1>1, <1>2, <2>13, <2>15, <2>16, <2>18, <2>19, ChargedStep
<1> QED
  BY <1>3, <1>4, Zenon DEF UploadObjectBytesDev

\* A recalculation: the counters are what the rows add up to, and have not grown.
LEMMA RecordedStep ==
    ASSUME RowInv', UseInv, NEW w \in Workspaces, UNCHANGED ws, raced => raced',
           wsUse' = [wsUse EXCEPT ![w] = WorkspaceUsage(row', w)],
           acct' = AccountUsage(ws, wsUse'),
           \A o \in Objects : row'[o] = row[o] \/ (row[o].ws = w /\ row'[o].ws = w),
           WorkspaceUsage(row', w).storage <= wsUse[w].storage,
           WorkspaceUsage(row', w).pending <= wsUse[w].pending
    PROVE  UseInv'
<1>1. /\ wsUse' \in [Workspaces -> Usage]
      /\ \A v \in Workspaces : wsUse'[v] = WorkspaceUsage(row', v)
      /\ \A v \in Workspaces : v # w => wsUse'[v] = wsUse[v]
  BY Zenon, UsageFollows
<1>2. wsUse \in [Workspaces -> Usage]
  BY DEF UseInv, UsageTyped
<1>3. \A v \in Workspaces : /\ wsUse'[v].storage <= wsUse[v].storage
                            /\ wsUse'[v].pending <= wsUse[v].pending
  <2> SUFFICES ASSUME NEW v \in Workspaces
               PROVE  wsUse'[v].storage <= wsUse[v].storage /\ wsUse'[v].pending <= wsUse[v].pending
    OBVIOUS
  <2>1. CASE v = w
    BY Zenon, <1>1, <2>1
  <2>2. CASE v # w
    <3>1. wsUse[v].storage \in Nat /\ wsUse[v].pending \in Nat
      BY <1>2 DEF Usage
    <3> QED
      BY <1>1, <2>2, <3>1
  <2> QED
    BY <2>1, <2>2
<1>4. acct' \in Account
  BY Zenon, <1>1, AccountFields
<1>5. \A v \in Workspaces :
         /\ wsUse'[v].pending <= SyncMaxPendingUploadBytes
         /\ wsUse'[v].storage + wsUse'[v].pending <= SyncMaxStorageBytesPerWorkspace
  <2> SUFFICES ASSUME NEW v \in Workspaces
               PROVE /\ wsUse'[v].pending <= SyncMaxPendingUploadBytes
                     /\ wsUse'[v].storage + wsUse'[v].pending <= SyncMaxStorageBytesPerWorkspace
    OBVIOUS
  <2>1. \A x \in {wsUse[v], wsUse'[v]} : x.storage \in Nat /\ x.pending \in Nat
    BY <1>1, <1>2 DEF Usage
  <2>2. /\ wsUse[v].pending <= SyncMaxPendingUploadBytes
        /\ wsUse[v].storage + wsUse[v].pending <= SyncMaxStorageBytesPerWorkspace
    BY Zenon DEF UseInv, WithinLimits
  <2> QED
    BY <1>3, <2>1, <2>2, LimitsTyped
<1>6. ~raced' => /\ acct'.storage + acct'.pending <= SyncMaxTotalStorageBytesPerUser
                 /\ acct'.workspaces <= SyncMaxWorkspacesPerUser
  <2> SUFFICES ASSUME ~raced'
               PROVE /\ acct'.storage + acct'.pending <= SyncMaxTotalStorageBytesPerUser
                     /\ acct'.workspaces <= SyncMaxWorkspacesPerUser
    OBVIOUS
  <2>1. /\ acct = AccountUsage(ws, wsUse) /\ acct \in Account
        /\ acct.storage + acct.pending <= SyncMaxTotalStorageBytesPerUser
        /\ acct.workspaces <= SyncMaxWorkspacesPerUser
    BY Zenon DEF UseInv, UsageTyped, UsageTracked, WithinLimits
  <2>2. /\ acct'.workspaces = acct.workspaces
        /\ acct'.storage <= acct.storage /\ acct'.pending <= acct.pending
    <3>1. /\ AccountUsage(ws, wsUse').workspaces = AccountUsage(ws, wsUse).workspaces
          /\ AccountUsage(ws, wsUse').storage <= AccountUsage(ws, wsUse).storage
          /\ AccountUsage(ws, wsUse').pending <= AccountUsage(ws, wsUse).pending
      <4> DEFINE next == wsUse'
      <4>1. /\ next \in [Workspaces -> Usage]
            /\ \A v \in Workspaces : /\ next[v].storage <= wsUse[v].storage
                                     /\ next[v].pending <= wsUse[v].pending
        BY <1>1, <1>3
      <4> HIDE DEF next
      <4>2. /\ AccountUsage(ws, next).workspaces = AccountUsage(ws, wsUse).workspaces
            /\ AccountUsage(ws, next).storage <= AccountUsage(ws, wsUse).storage
            /\ AccountUsage(ws, next).pending <= AccountUsage(ws, wsUse).pending
        BY <1>2, <4>1, AccountAtMost
      <4> QED
        BY Zenon, <4>2 DEF next
    <3> QED
      BY Zenon, <2>1, <3>1
  <2>3. \A x \in {acct, acct'} : x.storage \in Nat /\ x.pending \in Nat
    BY <1>4, <2>1 DEF Account
  <2> QED
    BY <2>1, <2>2, <2>3, LimitsTyped
<1> QED
  BY Zenon, <1>1, <1>4, <1>5, <1>6 DEF UseInv, UsageTyped, UsageTracked, WithinLimits

\* Recalculating changes no counter of the workspace.
LEMMA RecalculatePreservesUse ==
    ASSUME RowInv, RowInv', UseInv, NEW t \in Txs, RecalculateSyncUsage(t)
    PROVE  UseInv'
<1> DEFINE w == tx[t].ws
<1>1. w \in Workspaces /\ (raced => raced')
  BY FinishFacts, Zenon DEF RecalculateSyncUsage
<1>2. /\ UNCHANGED <<ws, row>>
      /\ wsUse' = [wsUse EXCEPT ![w] = WorkspaceUsage(row, w)]
      /\ acct' = AccountUsage(ws, wsUse')
  BY Zenon DEF RecalculateSyncUsage
<1> HIDE DEF w
<1>3. wsUse[w] = WorkspaceUsage(row, w) /\ wsUse[w] \in Usage
  BY <1>1 DEF UseInv, UsageTracked, UsageTyped
<1>4. wsUse[w].storage <= wsUse[w].storage /\ wsUse[w].pending <= wsUse[w].pending
  BY <1>3 DEF Usage
<1>5. \A o \in Objects : row'[o] = row[o]
  BY Zenon, <1>2
<1>6. wsUse' = [wsUse EXCEPT ![w] = WorkspaceUsage(row', w)]
  BY Zenon, <1>2
<1>7. /\ WorkspaceUsage(row', w).storage <= wsUse[w].storage
      /\ WorkspaceUsage(row', w).pending <= wsUse[w].pending
  BY Zenon, <1>2, <1>3, <1>4
<1> QED
  BY Zenon, <1>1, <1>2, <1>5, <1>6, <1>7, RecordedStep

\* RunWorkspaceGC frees the bytes of the expired pending objects it deletes.
LEMMA CollectPreservesUse ==
    ASSUME RowInv, RowInv', UseInv, NEW t \in Txs, NEW S \in SUBSET Objects, RunWorkspaceGC(t, S)
    PROVE  UseInv'
<1> DEFINE w == tx[t].ws
           avail == InState(row, w, "available")
           pend == InState(row, w, "pending")
<1>1. w \in Workspaces /\ (raced => raced')
  BY FinishFacts, Zenon DEF RunWorkspaceGC
<1>2. UNCHANGED ws /\ S \subseteq Orphans(w)
  BY Zenon DEF RunWorkspaceGC
<1>3. CASE UNCHANGED <<row, wsUse, acct>>
  BY Zenon, <1>1, <1>2, <1>3, KeptStep
<1>4. CASE /\ row' = [o \in Objects |->
                       IF o \in S THEN [row[o] EXCEPT !.state = "deleted", !.expired = FALSE]
                                  ELSE row[o]]
           /\ wsUse' = [wsUse EXCEPT ![w] = WorkspaceUsage(row', w)]
           /\ acct' = AccountUsage(ws, wsUse')
  <2>1. ASSUME NEW o \in S
        PROVE  /\ row'[o].state = "deleted" /\ row'[o].ws = w /\ row[o].ws = w
               /\ row[o].state # "available"
    <3>1. row'[o] = [row[o] EXCEPT !.state = "deleted", !.expired = FALSE]
      BY <1>4
    <3>2. row[o] \in Row
      BY DEF RowInv, RowsTyped
    <3>3. row'[o].state = "deleted" /\ row'[o].ws = row[o].ws
      BY Zenon, <3>1, <3>2 DEF Row
    <3> QED
      BY <1>2, <3>3 DEF Orphans
  <2>2. \A o \in Objects : o \notin S => row'[o] = row[o]
    BY <1>4
  <2>3. /\ InState(row', w, "available") = avail
        /\ InState(row', w, "pending") = pend \ S
        /\ avail \in SUBSET Objects /\ pend \in SUBSET Objects
        /\ \A o \in avail \cup (pend \ S) : row'[o].content = row[o].content
        /\ \A o \in avail \cup pend : row[o].content \in Contents
    BY <2>1, <2>2 DEF InState, RowInv, RowsOwned
  <2>4. wsUse[w].storage = Charge(row, avail) /\ wsUse[w].pending = Charge(row, pend)
    <3>1. wsUse[w] = WorkspaceUsage(row, w)
      BY <1>1 DEF UseInv, UsageTracked
    <3> QED
      BY <3>1 DEF WorkspaceUsage
  <2>5. /\ WorkspaceUsage(row', w).storage = Charge(row', avail)
        /\ WorkspaceUsage(row', w).pending = Charge(row', pend \ S)
    BY Zenon, <2>3 DEF WorkspaceUsage
  <2> HIDE DEF w, avail, pend
  <2>6. /\ Charge(row', avail) = Charge(row, avail)
        /\ Charge(row', pend \ S) = Charge(row, pend \ S)
    BY <2>3, ChargeSame
  <2>7. Charge(row, pend \ S) <= Charge(row, pend)
    <3>1. pend \ S \in SUBSET pend /\ \A o \in pend : row[o].content \in Contents
      BY <2>3
    <3> QED
      BY <2>3, <3>1, ChargeSubset
  <2>8. Charge(row, avail) \in Nat
    BY <2>3, ChargeNat
  <2>9. /\ WorkspaceUsage(row', w).storage <= wsUse[w].storage
        /\ WorkspaceUsage(row', w).pending <= wsUse[w].pending
    BY <2>4, <2>5, <2>6, <2>7, <2>8
  <2>10. \A o \in Objects : row'[o] = row[o] \/ (row[o].ws = w /\ row'[o].ws = w)
    BY <2>1, <2>2
  <2> QED
    BY Zenon, <1>1, <1>2, <1>4, <2>9, <2>10, RecordedStep
<1> QED
  BY Zenon, <1>3, <1>4 DEF RunWorkspaceGC

\* ReserveObjectIDs charges nothing.
LEMMA ReservePreservesUse ==
    ASSUME RowInv, UseInv, NEW t \in Txs, NEW o \in Objects, ReserveObjectIDs(t, o)
    PROVE  UseInv'
<1>1. /\ UNCHANGED <<ws, wsUse, acct>> /\ row[o].state = "none"
      /\ row' = [row EXCEPT ![o] = [state |-> "reserved", ws |-> tx[t].ws, by |-> tx[t].dev,
                                    content |-> NoContent, expired |-> FALSE]]
  BY Zenon DEF ReserveObjectIDs
<1>2. raced => raced'
  BY Zenon DEF ReserveObjectIDs, Finish
<1>3. row \in [Objects -> Row]
  BY DEF RowInv, RowsTyped
<1>4. row'[o].state = "reserved" /\ \A p \in Objects : p # o => row'[p] = row[p]
  BY <1>1, <1>3
<1>5. \A p \in Objects :
        /\ row'[p].state \in {"available", "pending"} <=> row[p].state \in {"available", "pending"}
        /\ row[p].state \in {"available", "pending"} =>
              /\ row'[p].state = row[p].state
              /\ row'[p].content = row[p].content
              /\ row'[p].ws = row[p].ws
  BY <1>1, <1>4
<1> QED
  BY Zenon, <1>1, <1>2, <1>5, KeptStep

\* The passing of expires_at releases nothing by itself.
LEMMA ExpirePreservesUse ==
    ASSUME RowInv, UseInv, NEW o \in Objects, Expire(o)
    PROVE  UseInv'
<1>1. /\ UNCHANGED <<ws, wsUse, acct, raced>>
      /\ row' = [row EXCEPT ![o].expired = TRUE]
  BY Zenon DEF Expire
<1>2. row \in [Objects -> Row]
  BY DEF RowInv, RowsTyped
<1>3. /\ row'[o].state = row[o].state /\ row'[o].ws = row[o].ws /\ row'[o].content = row[o].content
      /\ \A p \in Objects : p # o => row'[p] = row[p]
  BY <1>1, <1>2 DEF Row
<1>4. \A p \in Objects :
        /\ row'[p].state \in {"available", "pending"} <=> row[p].state \in {"available", "pending"}
        /\ row[p].state \in {"available", "pending"} =>
              /\ row'[p].state = row[p].state
              /\ row'[p].content = row[p].content
              /\ row'[p].ws = row[p].ws
  BY <1>3
<1> QED
  BY Zenon, <1>1, <1>4, KeptStep

\* Authorizing, rolling back and a PUT to the store change no row and no counter.
LEMMA QuietPreservesUse ==
    ASSUME UseInv, UNCHANGED <<ws, row, wsUse, acct, raced>>
    PROVE  UseInv'
BY Zenon, KeptStep

\* CreateWorkspace adds a workspace that has no objects.
LEMMA CreateWorkspacePreservesUse ==
    ASSUME RowInv, UseInv, NEW w \in Workspaces, CreateWorkspace(w)
    PROVE  UseInv'
<1>1. /\ ws[w] = "none" /\ acct.workspaces < SyncMaxWorkspacesPerUser
      /\ ws' = [ws EXCEPT ![w] = "live"]
      /\ acct' = [acct EXCEPT !.workspaces = @ + 1]
      /\ UNCHANGED <<row, wsUse, raced>>
  BY Zenon DEF CreateWorkspace
<1>2. wsUse \in [Workspaces -> Usage] /\ acct \in Account
  BY DEF UseInv, UsageTyped
<1>3. /\ acct' = [workspaces |-> acct.workspaces + 1, storage |-> acct.storage,
                  pending |-> acct.pending]
      /\ acct.workspaces \in Nat /\ acct.storage \in Nat /\ acct.pending \in Nat
  BY Zenon, <1>1, <1>2 DEF Account
<1>4. acct' \in Account /\ acct'.workspaces <= SyncMaxWorkspacesPerUser
  <2>1. acct'.workspaces = acct.workspaces + 1 /\ acct.workspaces + 1 \in Nat
    BY <1>3
  <2>2. acct.workspaces + 1 <= SyncMaxWorkspacesPerUser
    BY <1>1, <1>3, LimitsTyped
  <2> QED
    BY <1>3, <2>1, <2>2 DEF Account
<1>5. UsageTyped'
  BY <1>1, <1>2, <1>4 DEF UsageTyped
<1>6. \A v \in Workspaces : wsUse'[v] = WorkspaceUsage(row', v)
  BY Zenon, <1>1 DEF UseInv, UsageTracked
<1>7. wsUse[w].storage = 0 /\ wsUse[w].pending = 0
  <2>1. InState(row, w, "available") = {} /\ InState(row, w, "pending") = {}
    BY <1>1 DEF RowInv, RowsOwned, InState
  <2>2. wsUse[w] = WorkspaceUsage(row, w)
    BY DEF UseInv, UsageTracked
  <2> QED
    BY <2>1, <2>2, ChargeEmpty DEF WorkspaceUsage
<1>8. ASSUME ~raced PROVE acct' = AccountUsage(ws', wsUse')
  <2> DEFINE L == Live(ws)
             M == Live(ws')
  <2>1. M = L \cup {w} /\ w \notin L
    <3>1. ws \in [Workspaces -> {"none", "live", "deleted", "gone"}]
      BY DEF RowInv, RowsTyped
    <3> QED
      BY <1>1, <3>1 DEF Live
  <2>2. IsFiniteSet(L) /\ IsFiniteSet(M)
    BY LiveFinite
  <2>3. acct = AccountUsage(ws, wsUse)
    BY <1>8 DEF UseInv, UsageTracked
  <2>4. L \subseteq Workspaces
    BY DEF Live
  <2>5. /\ acct.workspaces = Cardinality(L)
        /\ acct.storage = SumFunctionOnSet([v \in L |-> wsUse[v].storage], L)
        /\ acct.pending = SumFunctionOnSet([v \in L |-> wsUse[v].pending], L)
    BY Zenon, <1>2, <2>3, AccountFields
  <2>6. AccountUsage(ws', wsUse') =
          [workspaces |-> Cardinality(M),
           storage |-> SumFunctionOnSet([v \in M |-> wsUse[v].storage], M),
           pending |-> SumFunctionOnSet([v \in M |-> wsUse[v].pending], M)]
    BY Zenon, <1>1 DEF AccountUsage, Live
  <2> HIDE DEF L, M
  <2>7. Cardinality(M) = acct.workspaces + 1
    BY <2>1, <2>2, <2>5, FS_AddElement
  <2>8. SumFunctionOnSet([v \in M |-> wsUse[v].storage], M) = acct.storage
    <3> DEFINE f == [v \in L |-> wsUse[v].storage]
               g == [v \in M |-> wsUse[v].storage]
    <3>1. /\ \A v \in M : g[v] \in Nat
          /\ \A v \in L : f[v] = g[v]
          /\ g[w] = 0
      BY <1>2, <1>7, <2>1, <2>4 DEF Usage
    <3>2. M \ {w} = L /\ w \in M
      BY <2>1
    <3> HIDE DEF f, g
    <3>3. SumFunctionOnSet(g, M) = SumFunctionOnSet(f, L)
      BY <2>2, <3>1, <3>2, SumGainsZero
    <3> QED
      BY Zenon, <2>5, <3>3 DEF f, g
  <2>9. SumFunctionOnSet([v \in M |-> wsUse[v].pending], M) = acct.pending
    <3> DEFINE f == [v \in L |-> wsUse[v].pending]
               g == [v \in M |-> wsUse[v].pending]
    <3>1. /\ \A v \in M : g[v] \in Nat
          /\ \A v \in L : f[v] = g[v]
          /\ g[w] = 0
      BY <1>2, <1>7, <2>1, <2>4 DEF Usage
    <3>2. M \ {w} = L /\ w \in M
      BY <2>1
    <3> HIDE DEF f, g
    <3>3. SumFunctionOnSet(g, M) = SumFunctionOnSet(f, L)
      BY <2>2, <3>1, <3>2, SumGainsZero
    <3> QED
      BY Zenon, <2>5, <3>3 DEF f, g
  <2> QED
    BY Zenon, <1>3, <2>6, <2>7, <2>8, <2>9
<1>9. UsageTracked'
  BY Zenon, <1>1, <1>6, <1>8 DEF UsageTracked
<1>10. WithinLimits'
  <2>1. acct'.storage = acct.storage /\ acct'.pending = acct.pending
    BY <1>3
  <2> QED
    BY Zenon, <1>1, <1>4, <2>1 DEF UseInv, WithinLimits
<1> QED
  BY <1>5, <1>9, <1>10 DEF UseInv

\* DeleteWorkspace takes a workspace out of the account.
LEMMA DeletePreservesUse ==
    ASSUME RowInv, UseInv, NEW w \in Workspaces, DeleteWorkspace(w)
    PROVE  UseInv'
<1>1. /\ ws' = [ws EXCEPT ![w] = "deleted"]
      /\ acct' = AccountUsage(ws', wsUse)
      /\ UNCHANGED <<row, wsUse, raced>>
  BY Zenon DEF DeleteWorkspace
<1>2. wsUse \in [Workspaces -> Usage] /\ acct \in Account
  BY DEF UseInv, UsageTyped
<1>3. acct' \in Account
  BY Zenon, <1>1, <1>2, AccountFields
<1>4. Live(ws') \subseteq Live(ws)
  <2>1. ws \in [Workspaces -> {"none", "live", "deleted", "gone"}]
    BY DEF RowInv, RowsTyped
  <2> QED
    BY <1>1, <2>1 DEF Live
<1>5. ~raced => /\ acct'.storage + acct'.pending <= SyncMaxTotalStorageBytesPerUser
                /\ acct'.workspaces <= SyncMaxWorkspacesPerUser
  <2> SUFFICES ASSUME ~raced
               PROVE /\ acct'.storage + acct'.pending <= SyncMaxTotalStorageBytesPerUser
                     /\ acct'.workspaces <= SyncMaxWorkspacesPerUser
    OBVIOUS
  <2>1. /\ acct = AccountUsage(ws, wsUse)
        /\ acct.storage + acct.pending <= SyncMaxTotalStorageBytesPerUser
        /\ acct.workspaces <= SyncMaxWorkspacesPerUser
    BY Zenon DEF UseInv, UsageTracked, WithinLimits
  <2>2. /\ acct'.workspaces <= acct.workspaces
        /\ acct'.storage <= acct.storage /\ acct'.pending <= acct.pending
    BY Zenon, <1>1, <1>2, <1>4, <2>1, AccountFewer
  <2>3. \A x \in {acct, acct'} : x.workspaces \in Nat /\ x.storage \in Nat /\ x.pending \in Nat
    BY <1>2, <1>3 DEF Account
  <2> QED
    BY <2>1, <2>2, <2>3, LimitsTyped
<1> QED
  BY Zenon, <1>1, <1>2, <1>3, <1>5 DEF UseInv, UsageTyped, UsageTracked, WithinLimits

\* RunDeletedWorkspaceCleanup removes the rows and the counters of a workspace that
\* the account no longer counts.
LEMMA CleanupPreservesUse ==
    ASSUME RowInv, RowInv', UseInv, NEW w \in Workspaces, RunDeletedWorkspaceCleanup(w)
    PROVE  UseInv'
<1> DEFINE mine == {o \in Objects : row[o].ws = w /\ row[o].state # "none"}
           none == [storage |-> 0, count |-> 0, pending |-> 0]
<1>1. UNCHANGED <<acct, raced>> /\ ws[w] = "deleted"
  BY Zenon DEF RunDeletedWorkspaceCleanup
<1>2. CASE UNCHANGED <<ws, row, wsUse>>
  BY Zenon, <1>1, <1>2, QuietPreservesUse
<1>3. CASE /\ ws' = [ws EXCEPT ![w] = "gone"]
           /\ row' = [o \in Objects |->
                       IF o \in mine THEN [row[o] EXCEPT !.state = "deleted", !.expired = FALSE]
                                     ELSE row[o]]
           /\ wsUse' = [wsUse EXCEPT ![w] = none]
  <2>1. ASSUME NEW o \in mine
        PROVE  row'[o].state = "deleted" /\ row'[o].ws = w /\ row[o].ws = w
    <3>1. row'[o] = [row[o] EXCEPT !.state = "deleted", !.expired = FALSE]
      BY <1>3
    <3>2. row[o] \in Row
      BY DEF RowInv, RowsTyped
    <3>3. row'[o].state = "deleted" /\ row'[o].ws = row[o].ws
      BY Zenon, <3>1, <3>2 DEF Row
    <3> QED
      BY <3>3
  <2>2. \A o \in Objects : o \notin mine => row'[o] = row[o]
    BY <1>3
  <2>3. InState(row', w, "available") = {} /\ InState(row', w, "pending") = {}
    BY <2>1, <2>2 DEF InState
  <2>4. WorkspaceUsage(row', w) = none
    BY Zenon, <2>3, ChargeEmpty, FS_EmptySet DEF WorkspaceUsage
  <2>5. \A o \in Objects : row'[o] = row[o] \/ (row[o].ws = w /\ row'[o].ws = w)
    BY <2>1, <2>2
  <2>6. wsUse' = [wsUse EXCEPT ![w] = WorkspaceUsage(row', w)]
    BY Zenon, <1>3, <2>4
  <2>7. /\ wsUse' \in [Workspaces -> Usage]
        /\ \A v \in Workspaces : wsUse'[v] = WorkspaceUsage(row', v)
        /\ \A v \in Workspaces : v # w => wsUse'[v] = wsUse[v]
    BY Zenon, <2>5, <2>6, UsageFollows
  <2>8. wsUse \in [Workspaces -> Usage]
    BY DEF UseInv, UsageTyped
  <2>9. Live(ws') = Live(ws) /\ w \notin Live(ws)
    <3>1. ws \in [Workspaces -> {"none", "live", "deleted", "gone"}]
      BY DEF RowInv, RowsTyped
    <3> QED
      BY <1>1, <1>3, <3>1 DEF Live
  <2>10. AccountUsage(ws', wsUse') = AccountUsage(ws, wsUse)
    <3>1. \A v \in Live(ws) : wsUse'[v] = wsUse[v]
      BY <2>7, <2>9 DEF Live
    <3>2. AccountUsage(ws, wsUse') = AccountUsage(ws, wsUse)
      BY Zenon, <2>7, <2>8, <3>1, AccountSame
    <3>3. AccountUsage(ws', wsUse') = AccountUsage(ws, wsUse')
      BY Zenon, <2>9 DEF AccountUsage, Live
    <3> QED
      BY Zenon, <3>2, <3>3
  <2>11. wsUse'[w].pending = 0 /\ wsUse'[w].storage + wsUse'[w].pending = 0
    BY <2>4, <2>7
  <2>12. \A v \in Workspaces :
           /\ wsUse'[v].pending <= SyncMaxPendingUploadBytes
           /\ wsUse'[v].storage + wsUse'[v].pending <= SyncMaxStorageBytesPerWorkspace
    <3> SUFFICES ASSUME NEW v \in Workspaces
                 PROVE /\ wsUse'[v].pending <= SyncMaxPendingUploadBytes
                       /\ wsUse'[v].storage + wsUse'[v].pending <= SyncMaxStorageBytesPerWorkspace
      OBVIOUS
    <3>1. CASE v = w
      <4>1. 0 <= SyncMaxPendingUploadBytes /\ 0 <= SyncMaxStorageBytesPerWorkspace
        BY LimitsTyped
      <4> QED
        BY Zenon, <2>11, <3>1, <4>1
    <3>2. CASE v # w
      BY Zenon, <2>7, <3>2 DEF UseInv, WithinLimits
    <3> QED
      BY <3>1, <3>2
  <2>13. UsageTyped' /\ UsageTracked'
    BY Zenon, <1>1, <2>7, <2>10 DEF UseInv, UsageTyped, UsageTracked
  <2>14. WithinLimits'
    BY Zenon, <1>1, <2>12 DEF UseInv, WithinLimits
  <2> QED
    BY <2>13, <2>14 DEF UseInv
<1> QED
  BY Zenon, <1>2, <1>3 DEF RunDeletedWorkspaceCleanup

\* A user without workspaces satisfies the invariant of the counters.
LEMMA UseInit == Init => UseInv
<1> SUFFICES ASSUME Init PROVE UseInv
  OBVIOUS
<1>1. \A o \in Objects : row[o].state = "none"
  BY DEF Init
<1>2. \A w \in Workspaces : ws[w] # "live"
  BY DEF Init
<1>3. /\ wsUse = [w \in Workspaces |-> [storage |-> 0, count |-> 0, pending |-> 0]]
      /\ acct = [workspaces |-> 0, storage |-> 0, pending |-> 0]
  BY Zenon DEF Init
<1>4. \A w \in Workspaces : WorkspaceUsage(row, w) = [storage |-> 0, count |-> 0, pending |-> 0]
  <2> SUFFICES ASSUME NEW w \in Workspaces
               PROVE  WorkspaceUsage(row, w) = [storage |-> 0, count |-> 0, pending |-> 0]
    OBVIOUS
  <2>1. InState(row, w, "available") = {} /\ InState(row, w, "pending") = {}
    BY <1>1 DEF InState
  <2> QED
    BY Zenon, <2>1, ChargeEmpty, FS_EmptySet DEF WorkspaceUsage
<1>5. AccountUsage(ws, wsUse) = acct
  <2>1. Live(ws) = {}
    BY <1>2 DEF Live
  <2>2. Cardinality(Live(ws)) = 0 /\ \A f : SumFunctionOnSet(f, Live(ws)) = 0
    BY Zenon, <2>1, FS_EmptySet, SumEmpty
  <2>3. AccountUsage(ws, wsUse) =
          [workspaces |-> Cardinality(Live(ws)),
           storage |-> SumFunctionOnSet([w \in Live(ws) |-> wsUse[w].storage], Live(ws)),
           pending |-> SumFunctionOnSet([w \in Live(ws) |-> wsUse[w].pending], Live(ws))]
    BY Zenon DEF AccountUsage, Live
  <2> QED
    BY Zenon, <1>3, <2>2, <2>3
<1>6. UsageTyped
  BY <1>3 DEF UsageTyped, Usage, Account
<1>7. UsageTracked
  BY Zenon, <1>3, <1>4, <1>5 DEF UsageTracked
<1>8. WithinLimits
  BY <1>3, LimitsTyped DEF WithinLimits
<1> QED
  BY <1>6, <1>7, <1>8 DEF UseInv

\* Every step preserves the invariant of the counters.
LEMMA UseInductive == RowInv /\ RowInv' /\ UseInv /\ [Next]_vars => UseInv'
<1> SUFFICES ASSUME RowInv, RowInv', UseInv, [Next]_vars PROVE UseInv'
  OBVIOUS
<1>1. ASSUME NEW t \in Txs, Request(t) PROVE UseInv'
  <2>1. ASSUME NEW w \in Workspaces, NEW d \in Devices, Authorize(t, w, d) PROVE UseInv'
    BY Zenon, <2>1, QuietPreservesUse DEF Authorize
  <2>2. ASSUME Rollback(t) PROVE UseInv'
    BY Zenon, <2>2, QuietPreservesUse DEF Rollback
  <2> QED
    BY Zenon, <1>1, <2>1, <2>2, ReservePreservesUse, CreateBatchPreservesUse,
       CompleteBatchPreservesUse, UploadPreservesUse, CollectPreservesUse,
       RecalculatePreservesUse DEF Request
<1>2. ASSUME NEW o \in Objects, NEW c \in Contents, PutObject(o, c) PROVE UseInv'
  BY Zenon, <1>2, QuietPreservesUse DEF PutObject
<1>3. ASSUME UNCHANGED vars PROVE UseInv'
  BY Zenon, <1>3, QuietPreservesUse DEF vars
<1> QED
  BY Zenon, <1>1, <1>2, <1>3, CreateWorkspacePreservesUse, DeletePreservesUse,
     CleanupPreservesUse, ExpirePreservesUse DEF Next

\* Rows and counters satisfy their invariants in every reachable state.
THEOREM UseInvariance == Spec => [](RowInv /\ UseInv)
<1>1. Init => RowInv /\ UseInv
  BY RowInit, UseInit
<1>2. RowInv /\ UseInv /\ [Next]_vars => (RowInv /\ UseInv)'
  BY RowsInductive, UseInductive
<1> QED
  BY <1>1, <1>2, PTL DEF Spec

\* Rows, blobs, requests and counters always have their types; in particular
\* no usage counter of quota.go becomes negative.
THEOREM ObjectsTyped == Spec => []TypeOK
<1>1. RowInv /\ UseInv => TypeOK
  BY Zenon DEF RowInv, RowsTyped, UseInv, UsageTyped, Usage, Account, TypeOK
<1> QED
  BY <1>1, UseInvariance, PTL

\* The incremental bookkeeping of quota.go never drifts from what the
\* recalculation would find: the counters of a workspace always, those of the account
\* unless a request went on after its workspace was deleted.
THEOREM UsageIsExact == Spec => []UsageExact
<1>1. UseInv => UsageExact
  BY Zenon DEF UseInv, UsageTracked, UsageExact
<1> QED
  BY <1>1, UseInvariance, PTL

\* What the live workspaces really store and have pending stays within the
\* limits, per workspace and for the account, however the admissions of upload
\* batches interleave with completions, failures and collections.
THEOREM QuotaIsKept == Spec => []QuotaKept
<1>1. UseInv => QuotaKept
  <2> SUFFICES ASSUME UseInv PROVE QuotaKept
    OBVIOUS
  <2>1. wsUse = [w \in Workspaces |-> WorkspaceUsage(row, w)]
    BY Zenon DEF UseInv, UsageTyped, UsageTracked
  <2>2. /\ \A w \in Workspaces : ws[w] = "live" =>
             /\ wsUse[w].pending <= SyncMaxPendingUploadBytes
             /\ wsUse[w].storage + wsUse[w].pending <= SyncMaxStorageBytesPerWorkspace
        /\ ~raced => /\ AccountUsage(ws, wsUse).storage + AccountUsage(ws, wsUse).pending
                          <= SyncMaxTotalStorageBytesPerUser
                     /\ AccountUsage(ws, wsUse).workspaces <= SyncMaxWorkspacesPerUser
    BY Zenon DEF UseInv, UsageTracked, WithinLimits
  <2> QED
    BY Zenon, <2>1, <2>2 DEF QuotaKept
<1> QED
  BY <1>1, UseInvariance, PTL
=============================================================================
