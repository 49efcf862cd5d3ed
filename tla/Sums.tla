-------------------------------- MODULE Sums --------------------------------
(***************************************************************************)
(* Sums of integers over a finite set, for the proofs about the accounts'  *)
(* ether: that the library's fold is well defined, and what one changed    *)
(* number changes in it.  Induction is by a smallest counterexample.       *)
(***************************************************************************)
EXTENDS Integers, FiniteSetsExt, FiniteSetTheorems, WellFoundedInduction, TLAPS

Sum(f, S) == MapThenSumSet(LAMBDA x : f[x], S)

\* The element the fold takes next, and the functions that satisfy its recursion.
chosen(s) == CHOOSE x \in s : TRUE
Recursion(f, S, it) ==
  it = [s \in SUBSET S |-> IF s = {} THEN 0 ELSE f[chosen(s)] + it[s \ {chosen(s)}]]

\* A set of naturals has a least one.
LEMMA LeastNat ==
  ASSUME NEW T \in SUBSET Nat, T # {}
  PROVE  \E n \in T : \A m \in T : n <= m
<1>1. IsWellFoundedOn(OpToRel(<, Nat), Nat)
  BY NatLessThanWellFounded
<1>2. PICK n \in T : \A m \in T : ~(<<m, n>> \in OpToRel(<, Nat))
  BY <1>1, WFMin
<1>3. \A m \in T : ~(m < n)
  BY <1>2 DEF OpToRel
<1> QED BY <1>3

\* Among the subsets of a finite set that have a property, one has it and loses it
\* with each of its elements.
LEMMA SmallestSubset ==
  ASSUME NEW S, IsFiniteSet(S), NEW T \in SUBSET (SUBSET S), T # {}
  PROVE  \E s \in T : \A x \in s : s \ {x} \notin T
<1> DEFINE N == {Cardinality(s) : s \in T}
<1>1. \A s \in SUBSET S : IsFiniteSet(s) /\ Cardinality(s) \in Nat
  BY FS_Subset, FS_CardinalityType
<1>2. N \in SUBSET Nat /\ N # {}
  BY <1>1
<1>3. PICK n \in N : \A m \in N : n <= m
  BY <1>2, LeastNat
<1>4. PICK s \in T : Cardinality(s) = n
  BY <1>3
<1>5. ASSUME NEW x \in s, s \ {x} \in T
      PROVE  FALSE
  <2>1. Cardinality(s \ {x}) = Cardinality(s) - 1
    BY <1>1, FS_RemoveElement
  <2>2. Cardinality(s) <= Cardinality(s \ {x})
    BY <1>3, <1>4, <1>5
  <2> QED BY <1>1, <2>1, <2>2
<1> QED BY <1>5

\* Two functions that satisfy the recursion agree wherever both are defined.
LEMMA RecursionAgrees ==
  ASSUME NEW f, NEW A, IsFiniteSet(A), NEW B, NEW i, NEW j,
         Recursion(f, A, i), Recursion(f, B, j)
  PROVE  \A s \in SUBSET (A \cap B) : i[s] = j[s]
<1> DEFINE T == {s \in SUBSET (A \cap B) : i[s] # j[s]}
<1> SUFFICES ASSUME T # {} PROVE FALSE
  OBVIOUS
<1>1. T \in SUBSET (SUBSET A)
  OBVIOUS
<1>2. PICK s \in T : \A x \in s : s \ {x} \notin T
  <2> HIDE DEF T
  <2> QED BY <1>1, SmallestSubset
<1>3. s \in SUBSET A /\ s \in SUBSET B
  BY <1>2
<1>4. /\ i[s] = IF s = {} THEN 0 ELSE f[chosen(s)] + i[s \ {chosen(s)}]
      /\ j[s] = IF s = {} THEN 0 ELSE f[chosen(s)] + j[s \ {chosen(s)}]
  BY <1>3 DEF Recursion
<1>5. CASE s = {}
  BY <1>2, <1>4, <1>5
<1>6. CASE s # {}
  <2>1. chosen(s) \in s
    BY <1>6 DEF chosen
  <2>2. i[s \ {chosen(s)}] = j[s \ {chosen(s)}]
    BY <1>2, <2>1
  <2> QED BY <1>2, <1>4, <1>6, <2>2
<1> QED BY <1>5, <1>6

\* Over a finite set there is a function that satisfies the recursion.
LEMMA RecursionHasSolution ==
  ASSUME NEW f, NEW S, IsFiniteSet(S)
  PROVE  \E it : Recursion(f, S, it)
<1> DEFINE T == {s \in SUBSET S : ~\E it : Recursion(f, s, it)}
<1> SUFFICES ASSUME T # {} PROVE FALSE
  OBVIOUS
<1>1. T \in SUBSET (SUBSET S)
  OBVIOUS
<1>2. PICK s \in T : \A x \in s : s \ {x} \notin T
  <2> HIDE DEF T
  <2> QED BY <1>1, SmallestSubset
<1> DEFINE It(x) == CHOOSE it : Recursion(f, s \ {x}, it)
           Out(t) == CHOOSE x \in s : x \notin t
           V(t) == It(Out(t))[t]
           next == chosen(s)
           g == [t \in SUBSET s |->
                   IF t = s THEN (IF s = {} THEN 0 ELSE f[next] + V(s \ {next})) ELSE V(t)]
<1>3. IsFiniteSet(s)
  BY <1>2, FS_Subset
<1>4. \A x \in s : Recursion(f, s \ {x}, It(x)) /\ IsFiniteSet(s \ {x})
  <2> TAKE x \in s
  <2>1. \E it : Recursion(f, s \ {x}, it)
    BY <1>2
  <2>2. IsFiniteSet(s \ {x})
    BY <1>3, FS_RemoveElement
  <2> QED BY <2>1, <2>2
<1>5. \A t \in SUBSET s : t # s => Out(t) \in s /\ Out(t) \notin t
  OBVIOUS
<1>6. \A x \in s : \A t \in SUBSET (s \ {x}) : V(t) = It(x)[t]
  <2> TAKE x \in s
  <2> TAKE t \in SUBSET (s \ {x})
  <2>1. Out(t) \in s /\ Out(t) \notin t
    BY <1>5
  <2>2. Recursion(f, s \ {x}, It(x)) /\ Recursion(f, s \ {Out(t)}, It(Out(t)))
        /\ IsFiniteSet(s \ {x})
    BY <1>4, <2>1
  <2>3. t \in SUBSET ((s \ {x}) \cap (s \ {Out(t)}))
    BY <2>1
  <2> HIDE DEF It, Out
  <2>4. It(x)[t] = It(Out(t))[t]
    BY <2>2, <2>3, RecursionAgrees
  <2> QED BY <2>4
<1>7. ASSUME NEW t \in SUBSET s
      PROVE  g[t] = IF t = {} THEN 0 ELSE f[chosen(t)] + g[t \ {chosen(t)}]
  <2>1. t # {} => chosen(t) \in t
    BY DEF chosen
  <2>2. CASE t = s
    <3>1. t # {} => s \ {next} \in SUBSET s /\ s \ {next} # s
      BY <2>1, <2>2
    <3> HIDE DEF V
    <3> QED BY <2>2, <3>1
  <2>3. CASE t # s
    <3> DEFINE x == Out(t)
    <3>1. x \in s /\ t \in SUBSET (s \ {x}) /\ t \ {chosen(t)} \in SUBSET (s \ {x})
      BY <1>5, <2>3
    <3>2. t \ {chosen(t)} # s /\ t \ {chosen(t)} \in SUBSET s
      BY <3>1
    <3>3. Recursion(f, s \ {x}, It(x))
      BY <1>4, <3>1
    <3> HIDE DEF x, It
    <3>4. It(x)[t] = IF t = {} THEN 0 ELSE f[chosen(t)] + It(x)[t \ {chosen(t)}]
      BY <3>1, <3>3 DEF Recursion
    <3>5. V(t) = It(x)[t] /\ V(t \ {chosen(t)}) = It(x)[t \ {chosen(t)}]
      BY <1>6, <3>1
    <3> HIDE DEF V
    <3>6. g[t] = V(t) /\ g[t \ {chosen(t)}] = V(t \ {chosen(t)})
      BY <2>3, <3>2
    <3> QED BY <3>4, <3>5, <3>6
  <2> QED BY <2>2, <2>3
<1>8. Recursion(f, s, g)
  <2>1. g = [t \in SUBSET s |-> g[t]]
    OBVIOUS
  <2> HIDE DEF g
  <2> QED BY <1>7, <2>1 DEF Recursion
<1> HIDE DEF g
<1> QED BY <1>2, <1>8

\* The fold satisfies its recursion.
LEMMA SumRecursion ==
  ASSUME NEW f, NEW S, IsFiniteSet(S)
  PROVE  \E it : Recursion(f, S, it) /\ Sum(f, S) = it[S]
<1> DEFINE it == CHOOSE i : Recursion(f, S, i)
<1>1. Recursion(f, S, it)
  BY RecursionHasSolution
<1>2. Sum(f, S) = it[S]
  BY DEF Sum, MapThenSumSet, MapThenFoldSet, Recursion, chosen
<1> HIDE DEF it
<1> QED BY <1>1, <1>2

\* A sum of naturals is a natural.
LEMMA SumNat ==
  ASSUME NEW S, IsFiniteSet(S), NEW f \in [S -> Nat]
  PROVE  Sum(f, S) \in Nat
<1>1. PICK it : Recursion(f, S, it) /\ Sum(f, S) = it[S]
  BY SumRecursion
<1> DEFINE T == {s \in SUBSET S : it[s] \notin Nat}
<1> SUFFICES ASSUME T # {} PROVE FALSE
  BY <1>1
<1>2. T \in SUBSET (SUBSET S)
  OBVIOUS
<1>3. PICK s \in T : \A x \in s : s \ {x} \notin T
  <2> HIDE DEF T
  <2> QED BY <1>2, SmallestSubset
<1>4. it[s] = IF s = {} THEN 0 ELSE f[chosen(s)] + it[s \ {chosen(s)}]
  BY <1>1, <1>3 DEF Recursion
<1>5. s # {} => chosen(s) \in s
  BY DEF chosen
<1>6. s # {} => f[chosen(s)] \in Nat /\ it[s \ {chosen(s)}] \in Nat
  BY <1>3, <1>5
<1> QED BY <1>3, <1>4, <1>6

\* Changing one number changes the sum by the difference.
LEMMA SumChanged ==
  ASSUME NEW S, IsFiniteSet(S), NEW f \in [S -> Nat], NEW g \in [S -> Nat], NEW a \in S,
         \A b \in S : b # a => g[b] = f[b]
  PROVE  Sum(g, S) = Sum(f, S) - f[a] + g[a]
<1>0. PICK v \in Nat : v = g[a]
  OBVIOUS
<1>1. PICK i : Recursion(f, S, i) /\ Sum(f, S) = i[S]
  BY SumRecursion
<1>2. PICK j : Recursion(g, S, j) /\ Sum(g, S) = j[S]
  BY SumRecursion
<1> DEFINE diff(s) == IF a \in s THEN v - f[a] ELSE 0
           T == {s \in SUBSET S : ~(i[s] \in Int /\ j[s] = i[s] + diff(s))}
<1>3. T = {}
  <2> SUFFICES ASSUME T # {} PROVE FALSE
    OBVIOUS
  <2>1. T \in SUBSET (SUBSET S)
    OBVIOUS
  <2>2. PICK s \in T : \A x \in s : s \ {x} \notin T
    <3> HIDE DEF T
    <3> QED BY <2>1, SmallestSubset
  <2> DEFINE x == chosen(s)
             t == s \ {x}
  <2>3. /\ i[s] = IF s = {} THEN 0 ELSE f[x] + i[t]
        /\ j[s] = IF s = {} THEN 0 ELSE g[x] + j[t]
    BY <1>1, <1>2, <2>2 DEF Recursion
  <2>4. CASE s = {}
    BY <2>2, <2>3, <2>4
  <2>5. CASE s # {}
    <3>1. x \in s /\ x \in S /\ t \in SUBSET S
      BY <2>2, <2>5 DEF chosen
    <3>2. i[t] \in Int /\ j[t] = i[t] + diff(t)
      BY <2>2, <3>1
    <3>3. g[x] = (IF x = a THEN v ELSE f[x]) /\ f[x] \in Nat /\ f[a] \in Nat
      BY <1>0, <3>1
    <3>4. diff(s) = diff(t) + (IF x = a THEN v - f[a] ELSE 0)
      BY <3>1
    <3>5. diff(t) \in Int
      BY <3>3
    <3> HIDE DEF t, x, diff
    <3>6. i[s] \in Int /\ j[s] = i[s] + diff(s)
      BY <2>3, <2>5, <3>2, <3>3, <3>4, <3>5
    <3> QED BY <2>2, <3>6
  <2> QED BY <2>4, <2>5
<1>4. i[S] \in Int /\ j[S] = i[S] + (v - f[a])
  BY <1>3
<1> QED BY <1>0, <1>1, <1>2, <1>4

LEMMA SumExcept ==
  ASSUME NEW S, IsFiniteSet(S), NEW f \in [S -> Nat], NEW a \in S, NEW v \in Nat
  PROVE  Sum([f EXCEPT ![a] = v], S) = Sum(f, S) - f[a] + v
<1>1. PICK g \in [S -> Nat] : g = [f EXCEPT ![a] = v]
  OBVIOUS
<1>2. g[a] = v /\ \A b \in S : b # a => g[b] = f[b]
  BY <1>1
<1>3. Sum(g, S) = Sum(f, S) - f[a] + g[a]
  BY <1>2, SumChanged
<1> QED BY <1>1, <1>2, <1>3

\* A term is at most the sum.
LEMMA SumTerm ==
  ASSUME NEW S, IsFiniteSet(S), NEW f \in [S -> Nat], NEW a \in S
  PROVE  f[a] <= Sum(f, S)
<1>1. PICK it : Recursion(f, S, it) /\ Sum(f, S) = it[S]
  BY SumRecursion
<1> DEFINE T == {s \in SUBSET S : ~(it[s] \in Nat /\ (a \in s => f[a] <= it[s]))}
<1> SUFFICES ASSUME T # {} PROVE FALSE
  BY <1>1
<1>2. T \in SUBSET (SUBSET S)
  OBVIOUS
<1>3. PICK s \in T : \A x \in s : s \ {x} \notin T
  <2> HIDE DEF T
  <2> QED BY <1>2, SmallestSubset
<1> DEFINE x == chosen(s)
<1>4. it[s] = IF s = {} THEN 0 ELSE f[x] + it[s \ {x}]
  BY <1>1, <1>3 DEF Recursion
<1>5. s # {} => x \in s
  BY DEF chosen
<1>6. s # {} => /\ f[x] \in Nat /\ it[s \ {x}] \in Nat /\ f[a] \in Nat
                /\ a \in s /\ a # x => f[a] <= it[s \ {x}]
  BY <1>3, <1>5
<1> HIDE DEF x
<1>7. it[s] \in Nat /\ (a \in s => f[a] <= it[s])
  BY <1>4, <1>6
<1> QED BY <1>3, <1>7

\* Smaller terms have a smaller sum.
LEMMA SumMono ==
  ASSUME NEW S, IsFiniteSet(S), NEW f \in [S -> Nat], NEW g \in [S -> Nat],
         \A a \in S : f[a] <= g[a]
  PROVE  Sum(f, S) <= Sum(g, S)
<1>1. PICK i : Recursion(f, S, i) /\ Sum(f, S) = i[S]
  BY SumRecursion
<1>2. PICK j : Recursion(g, S, j) /\ Sum(g, S) = j[S]
  BY SumRecursion
<1> DEFINE T == {s \in SUBSET S : ~(i[s] \in Int /\ j[s] \in Int /\ i[s] <= j[s])}
<1> SUFFICES ASSUME T # {} PROVE FALSE
  BY <1>1, <1>2
<1>3. T \in SUBSET (SUBSET S)
  OBVIOUS
<1>4. PICK s \in T : \A x \in s : s \ {x} \notin T
  <2> HIDE DEF T
  <2> QED BY <1>3, SmallestSubset
<1> DEFINE x == chosen(s)
           t == s \ {x}
<1>5. /\ i[s] = IF s = {} THEN 0 ELSE f[x] + i[t]
      /\ j[s] = IF s = {} THEN 0 ELSE g[x] + j[t]
  BY <1>1, <1>2, <1>4 DEF Recursion
<1>6. CASE s = {}
  BY <1>4, <1>5, <1>6
<1>7. CASE s # {}
  <2>1. x \in s /\ x \in S
    BY <1>4, <1>7 DEF chosen
  <2>2. i[t] \in Int /\ j[t] \in Int /\ i[t] <= j[t]
    BY <1>4, <2>1
  <2>3. f[x] \in Nat /\ g[x] \in Nat /\ f[x] <= g[x]
    BY <2>1
  <2> HIDE DEF t, x
  <2>4. i[s] \in Int /\ j[s] \in Int /\ i[s] <= j[s]
    BY <1>5, <1>7, <2>2, <2>3
  <2> QED BY <1>4, <2>4
<1> QED BY <1>6, <1>7

\* A sum of zeros is zero.
LEMMA SumZero ==
  ASSUME NEW S, IsFiniteSet(S), NEW f, \A a \in S : f[a] = 0
  PROVE  Sum(f, S) = 0
<1>1. PICK it : Recursion(f, S, it) /\ Sum(f, S) = it[S]
  BY SumRecursion
<1> DEFINE T == {s \in SUBSET S : it[s] # 0}
<1> SUFFICES ASSUME T # {} PROVE FALSE
  BY <1>1
<1>2. T \in SUBSET (SUBSET S)
  OBVIOUS
<1>3. PICK s \in T : \A x \in s : s \ {x} \notin T
  <2> HIDE DEF T
  <2> QED BY <1>2, SmallestSubset
<1>4. it[s] = IF s = {} THEN 0 ELSE f[chosen(s)] + it[s \ {chosen(s)}]
  BY <1>1, <1>3 DEF Recursion
<1>5. s # {} => chosen(s) \in s
  BY DEF chosen
<1>6. s # {} => f[chosen(s)] = 0 /\ it[s \ {chosen(s)}] = 0
  BY <1>3, <1>5
<1> QED BY <1>3, <1>4, <1>6
=============================================================================
