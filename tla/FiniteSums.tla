----------------------------- MODULE FiniteSums -----------------------------
(***************************************************************************)
(* Sums over finite sets: what SumFunctionOnSet of the community modules   *)
(* computes, by the smallest counterexample.                               *)
(***************************************************************************)
EXTENDS Integers, FiniteSets, Functions, FiniteSetTheorems, WellFoundedInduction, TLAPS

\* A set of numbers has a smallest one.
LEMMA NatMinimum ==
    ASSUME NEW T, T \subseteq Nat, T # {}
    PROVE  \E n \in T : \A k \in T : n <= k
<1>1. PICK n \in T : \A k \in T : <<k, n>> \notin OpToRel(<, Nat)
  BY NatLessThanWellFounded, WFMin
<1>2. \A k \in T : <<k, n>> \notin {ss \in Nat \X Nat : ss[1] < ss[2]}  BY <1>1 DEF OpToRel
<1>3. \A k \in T : k \in Nat /\ n \in Nat  OBVIOUS
<1>4. \A k \in T : ~(k < n)  BY <1>2, <1>3
<1> QED  BY <1>3, <1>4

\* Of some finite sets one is smallest: it is in, and nothing that lacks one of its elements is.
LEMMA SmallestSet ==
    ASSUME NEW C, C # {}, \A s \in C : IsFiniteSet(s)
    PROVE  \E m \in C : \A x \in m : m \ {x} \notin C
<1> DEFINE T == {Cardinality(s) : s \in C}
<1>1. T \subseteq Nat /\ T # {}  BY FS_CardinalityType
<1>2. PICK n \in T : \A k \in T : n <= k  BY <1>1, NatMinimum
<1>3. PICK m \in C : n = Cardinality(m)  OBVIOUS
<1>4. ASSUME NEW x \in m, m \ {x} \in C PROVE FALSE
  <2>1. Cardinality(m \ {x}) = Cardinality(m) - 1 /\ Cardinality(m) \in Nat
    BY <1>3, FS_RemoveElement, FS_CardinalityType
  <2>2. Cardinality(m) <= Cardinality(m \ {x})  BY <1>2, <1>3, <1>4
  <2> QED  BY <2>1, <2>2
<1> QED  BY <1>4

-----------------------------------------------------------------------------
\* The recursion of MapThenFoldSet.
Pick(s) == CHOOSE x \in s : TRUE
SumStep(f, s, g) == IF s = {} THEN 0 ELSE f[Pick(s)] + g[s \ {Pick(s)}]
Sums(f, T, g) == g = [s \in SUBSET T |-> SumStep(f, s, g)]

LEMMA SumIsChosen ==
    ASSUME NEW f, NEW T PROVE SumFunctionOnSet(f, T) = (CHOOSE g : Sums(f, T, g))[T]
BY DEF SumFunctionOnSet, FoldFunctionOnSet, MapThenFoldSet, Sums, SumStep, Pick

LEMMA PickIn == ASSUME NEW s, s # {} PROVE Pick(s) \in s
BY DEF Pick

LEMMA SumsAgree ==
    ASSUME NEW f, NEW T, NEW g, Sums(f, T, g), NEW U, NEW h, Sums(f, U, h),
           NEW s, s \subseteq T, s \subseteq U, IsFiniteSet(s)
    PROVE  g[s] = h[s]
<1> DEFINE Bad == {r \in SUBSET s : g[r] # h[r]}
<1>1. \A r \in Bad : IsFiniteSet(r)  BY FS_Subset
<1>2. \A r \in SUBSET s : g[r] = SumStep(f, r, g) /\ h[r] = SumStep(f, r, h)  BY DEF Sums
<1>3. CASE Bad # {}
  <2>1. PICK m \in Bad : \A x \in m : m \ {x} \notin Bad  BY <1>1, <1>3, SmallestSet
  <2>2. m \in SUBSET s /\ g[m] # h[m]  OBVIOUS
  <2>3. m # {}  BY <1>2, <2>2 DEF SumStep
  <2>4. g[m \ {Pick(m)}] = h[m \ {Pick(m)}]  BY <2>1, <2>2, <2>3, PickIn
  <2> QED  BY <1>2, <2>2, <2>3, <2>4 DEF SumStep
<1> QED  BY <1>3

LEMMA SumsExist ==
    ASSUME NEW f, NEW T, IsFiniteSet(T) PROVE \E g : Sums(f, T, g)
<1> DEFINE Bad == {s \in SUBSET T : \E r \in SUBSET s : ~ \E g : Sums(f, r, g)}
<1>1. CASE Bad # {}
  <2>1. \A s \in SUBSET T : IsFiniteSet(s)  BY FS_Subset
  <2>2. PICK m \in Bad : \A x \in m : m \ {x} \notin Bad  BY <1>1, <2>1, SmallestSet
  <2>3. m \in SUBSET T  OBVIOUS
  <2>4. ASSUME NEW s \in SUBSET m, s # {} PROVE \E g : Sums(f, s \ {Pick(s)}, g)
    <3>1. Pick(s) \in m /\ m \ {Pick(s)} \notin Bad /\ m \ {Pick(s)} \in SUBSET T
      BY <2>2, <2>3, <2>4, PickIn
    <3>2. s \ {Pick(s)} \in SUBSET (m \ {Pick(s)})  OBVIOUS
    <3> QED  BY <3>1, <3>2
  <2> DEFINE chosen(s) == CHOOSE g : Sums(f, s, g)
             less(s) == s \ {Pick(s)}
             G == [s \in SUBSET m |-> IF s = {} THEN 0 ELSE f[Pick(s)] + chosen(less(s))[less(s)]]
  <2>5. \A s \in SUBSET m : s # {} => Sums(f, less(s), chosen(less(s)))  BY <2>4
  <2> HIDE DEF chosen
  <2>6. ASSUME NEW s \in SUBSET m PROVE G[s] = SumStep(f, s, G)
    <3>1. CASE s = {}  BY <3>1 DEF SumStep
    <3>2. CASE s # {} /\ less(s) = {}
      <4>1. {} \in SUBSET less(s)  OBVIOUS
      <4>2. chosen(less(s))[less(s)] = 0  BY <2>5, <3>2, <4>1 DEF Sums, SumStep
      <4> QED  BY <3>2, <4>2 DEF SumStep
    <3>3. CASE s # {} /\ less(s) # {}
      <4> DEFINE t == less(s)
                 u == less(t)
      <4>1. t \in SUBSET m /\ u \in SUBSET t /\ u \in SUBSET m /\ IsFiniteSet(u)  BY <2>1, <2>3
      <4>2. Sums(f, t, chosen(t)) /\ Sums(f, u, chosen(u))  BY <2>5, <3>3, <4>1
      <4>3. chosen(t)[u] = chosen(u)[u]
        <5> HIDE DEF t, u
        <5>1. u \subseteq t /\ u \subseteq u /\ IsFiniteSet(u)  BY <4>1
        <5> QED  BY <4>2, <5>1, SumsAgree
      <4>4. chosen(t)[t] = f[Pick(t)] + chosen(t)[u]  BY <3>3, <4>1, <4>2 DEF Sums, SumStep
      <4>5. G[t] = f[Pick(t)] + chosen(u)[u]  BY <3>3, <4>1
      <4>6. G[s] = f[Pick(s)] + chosen(t)[t]  BY <3>3
      <4> HIDE DEF G, u
      <4> QED  BY <3>3, <4>3, <4>4, <4>5, <4>6 DEF SumStep
    <3> QED  BY <3>1, <3>2, <3>3
  <2>7. Sums(f, m, G)
    <3>1. G = [s \in SUBSET m |-> G[s]]  OBVIOUS
    <3> HIDE DEF G
    <3> QED  BY <2>6, <3>1 DEF Sums
  <2>8. \A r \in SUBSET m : \E g : Sums(f, r, g)
    <3> SUFFICES ASSUME NEW r \in SUBSET m PROVE \E g : Sums(f, r, g)  OBVIOUS
    <3>1. CASE r = m  BY <2>7, <3>1
    <3>2. CASE r # m
      <4>1. PICK x \in m : x \notin r  BY <3>2
      <4>2. r \in SUBSET (m \ {x}) /\ m \ {x} \in SUBSET T /\ m \ {x} \notin Bad  BY <2>2, <2>3, <4>1
      <4> QED  BY <4>2
    <3> QED  BY <3>1, <3>2
  <2> QED  BY <2>8
<1> QED  BY <1>1

-----------------------------------------------------------------------------
\* The sum over nothing, and over a set with one element picked.
LEMMA SumUnfolds ==
    ASSUME NEW f, NEW T, IsFiniteSet(T)
    PROVE  SumFunctionOnSet(f, T) = IF T = {} THEN 0 ELSE f[Pick(T)] + SumFunctionOnSet(f, T \ {Pick(T)})
<1> DEFINE g == CHOOSE g : Sums(f, T, g)
           U == T \ {Pick(T)}
           h == CHOOSE h : Sums(f, U, h)
<1>1. IsFiniteSet(U) /\ U \in SUBSET T /\ U \in SUBSET U  BY FS_Subset
<1>2. Sums(f, T, g)  BY SumsExist
<1>3. Sums(f, U, h)  BY <1>1, SumsExist
<1>4. SumFunctionOnSet(f, T) = g[T] /\ SumFunctionOnSet(f, U) = h[U]  BY SumIsChosen
<1> HIDE DEF g, h
<1>5. g[U] = h[U]  BY <1>1, <1>2, <1>3, SumsAgree
<1>6. g[T] = SumStep(f, T, g)  BY <1>2 DEF Sums
<1> QED  BY <1>4, <1>5, <1>6 DEF SumStep

\* A sum of numbers is a number.
LEMMA SumType ==
    ASSUME NEW f, NEW T, IsFiniteSet(T), \A x \in T : f[x] \in Nat
    PROVE  SumFunctionOnSet(f, T) \in Nat
<1> DEFINE Bad == {s \in SUBSET T : SumFunctionOnSet(f, s) \notin Nat}
<1>1. \A s \in SUBSET T : IsFiniteSet(s)  BY FS_Subset
<1>2. CASE Bad # {}
  <2>1. PICK m \in Bad : \A x \in m : m \ {x} \notin Bad  BY <1>1, <1>2, SmallestSet
  <2>2. m \in SUBSET T /\ SumFunctionOnSet(f, m) \notin Nat  OBVIOUS
  <2>3. SumFunctionOnSet(f, m) = IF m = {} THEN 0 ELSE f[Pick(m)] + SumFunctionOnSet(f, m \ {Pick(m)})
    BY <1>1, <2>2, SumUnfolds
  <2>4. m # {}  BY <2>2, <2>3
  <2>5. Pick(m) \in m /\ SumFunctionOnSet(f, m \ {Pick(m)}) \in Nat  BY <2>1, <2>2, <2>4, PickIn
  <2> QED  BY <2>2, <2>3, <2>4, <2>5
<1> QED  BY <1>2

\* Whichever element is taken out first.
LEMMA SumRemove ==
    ASSUME NEW f, NEW T, IsFiniteSet(T), \A x \in T : f[x] \in Nat, NEW x \in T
    PROVE  SumFunctionOnSet(f, T) = f[x] + SumFunctionOnSet(f, T \ {x})
<1> DEFINE sum(s) == SumFunctionOnSet(f, s)
           Bad == {s \in SUBSET T : \E y \in s : sum(s) # f[y] + sum(s \ {y})}
<1>1. \A s \in SUBSET T : IsFiniteSet(s)  BY FS_Subset
<1>2. CASE Bad # {}
  <2>1. PICK m \in Bad : \A y \in m : m \ {y} \notin Bad  BY <1>1, <1>2, SmallestSet
  <2>2. PICK y \in m : sum(m) # f[y] + sum(m \ {y})  OBVIOUS
  <2>3. m \in SUBSET T /\ m # {}  OBVIOUS
  <2> DEFINE p == Pick(m)
  <2>4. p \in m /\ sum(m) = f[p] + sum(m \ {p})  BY <1>1, <2>3, PickIn, SumUnfolds
  <2>5. p # y  BY <2>2, <2>4
  <2>6. sum(m \ {p}) = f[y] + sum((m \ {p}) \ {y})  BY <2>1, <2>3, <2>4, <2>5
  <2>7. sum(m \ {y}) = f[p] + sum((m \ {y}) \ {p})  BY <2>1, <2>3, <2>4, <2>5
  <2>8. (m \ {p}) \ {y} = (m \ {y}) \ {p}  OBVIOUS
  <2>9. f[p] \in Nat /\ f[y] \in Nat /\ sum((m \ {p}) \ {y}) \in Nat
    <3>1. (m \ {p}) \ {y} \in SUBSET T  BY <2>3
    <3> QED  BY <1>1, <2>3, <2>4, <3>1, SumType
  <2> HIDE DEF sum, p
  <2> QED  BY <2>2, <2>4, <2>6, <2>7, <2>8, <2>9
<1> QED  BY <1>2

\* A sum only depends on the values summed.
LEMMA SumSame ==
    ASSUME NEW f, NEW g, NEW T, IsFiniteSet(T), \A x \in T : f[x] \in Nat /\ g[x] = f[x]
    PROVE  SumFunctionOnSet(g, T) = SumFunctionOnSet(f, T)
<1> DEFINE Bad == {s \in SUBSET T : SumFunctionOnSet(g, s) # SumFunctionOnSet(f, s)}
<1>1. \A s \in SUBSET T : IsFiniteSet(s)  BY FS_Subset
<1>2. CASE Bad # {}
  <2>1. PICK m \in Bad : \A x \in m : m \ {x} \notin Bad  BY <1>1, <1>2, SmallestSet
  <2>2. m \in SUBSET T /\ SumFunctionOnSet(g, m) # SumFunctionOnSet(f, m)  OBVIOUS
  <2>3. \A k \in {f, g} : SumFunctionOnSet(k, m) = IF m = {} THEN 0 ELSE k[Pick(m)] + SumFunctionOnSet(k, m \ {Pick(m)})
    BY <1>1, <2>2, SumUnfolds
  <2>4. m # {}  BY <2>2, <2>3
  <2>5. Pick(m) \in m /\ SumFunctionOnSet(g, m \ {Pick(m)}) = SumFunctionOnSet(f, m \ {Pick(m)})
    BY <2>1, <2>2, <2>4, PickIn
  <2> QED  BY <2>2, <2>3, <2>4, <2>5
<1> QED  BY <1>2

\* The sum over two sets with nothing in common.
LEMMA SumUnion ==
    ASSUME NEW f, NEW A, IsFiniteSet(A), NEW B, IsFiniteSet(B), A \cap B = {}, \A x \in A \cup B : f[x] \in Nat
    PROVE  SumFunctionOnSet(f, A \cup B) = SumFunctionOnSet(f, A) + SumFunctionOnSet(f, B)
<1> DEFINE sum(s) == SumFunctionOnSet(f, s)
           Bad == {s \in SUBSET B : sum(A \cup s) # sum(A) + sum(s)}
<1>1. \A s \in SUBSET B : IsFiniteSet(s) /\ IsFiniteSet(A \cup s)  BY FS_Subset, FS_Union
<1>2. sum(A) \in Nat /\ \A s \in SUBSET B : sum(s) \in Nat /\ sum(A \cup s) \in Nat
  <2>1. sum(A) \in Nat  BY SumType
  <2>2. ASSUME NEW s \in SUBSET B PROVE sum(s) \in Nat /\ sum(A \cup s) \in Nat
    <3>1. (\A x \in s : f[x] \in Nat) /\ \A x \in A \cup s : f[x] \in Nat  OBVIOUS
    <3> QED  BY <1>1, <3>1, SumType
  <2> QED  BY <2>1, <2>2
<1>3. CASE Bad # {}
  <2>1. PICK m \in Bad : \A x \in m : m \ {x} \notin Bad  BY <1>1, <1>3, SmallestSet
  <2>2. m \in SUBSET B /\ sum(A \cup m) # sum(A) + sum(m)  OBVIOUS
  <2>3. m # {}
    <3> SUFFICES ASSUME m = {} PROVE FALSE  OBVIOUS
    <3>1. sum({}) = 0  BY FS_EmptySet, SumUnfolds
    <3>2. A \cup m = A  OBVIOUS
    <3> HIDE DEF sum, Bad
    <3> QED  BY <1>2, <2>2, <3>1, <3>2
  <2>4. PICK p \in m : TRUE  BY <2>3
  <2>5. m \ {p} \in SUBSET B /\ sum(A \cup (m \ {p})) = sum(A) + sum(m \ {p})  BY <2>1, <2>2, <2>4
  <2>6. sum(m) = f[p] + sum(m \ {p})  BY <1>1, <2>2, <2>4, SumRemove
  <2>7. sum(A \cup m) = f[p] + sum(A \cup (m \ {p}))
    <3>1. (A \cup m) \ {p} = A \cup (m \ {p})  BY <2>2
    <3>2. p \in A \cup m /\ \A x \in A \cup m : f[x] \in Nat  BY <2>2
    <3>3. sum(A \cup m) = f[p] + sum((A \cup m) \ {p})  BY <1>1, <2>2, <3>2, SumRemove
    <3> QED  BY <3>1, <3>3
  <2>8. f[p] \in Nat  BY <2>2
  <2> HIDE DEF sum
  <2> QED  BY <1>2, <2>2, <2>5, <2>6, <2>7, <2>8
<1>4. B \notin Bad  BY <1>3
<1> QED  BY <1>4

\* g on U has the values of f on T, n further on.
Shifts(n, f, T, g, U) ==
    /\ n \in Int /\ T \subseteq Int /\ U \subseteq Int
    /\ \A x \in T : f[x] \in Nat /\ x + n \in U /\ g[x + n] = f[x]
    /\ \A u \in U : u - n \in T

\* Moved values have the same sum.
LEMMA SumShift ==
    ASSUME NEW n, NEW f, NEW T, NEW g, NEW U, Shifts(n, f, T, g, U), IsFiniteSet(T)
    PROVE  SumFunctionOnSet(g, U) = SumFunctionOnSet(f, T)
<1> USE DEF Shifts
<1> DEFINE moved(s) == {x + n : x \in s}
           Bad == {s \in SUBSET T : ~(IsFiniteSet(moved(s)) /\ SumFunctionOnSet(g, moved(s)) = SumFunctionOnSet(f, s))}
<1>1. \A s \in SUBSET T : IsFiniteSet(s)  BY FS_Subset
<1>2. ASSUME Bad # {} PROVE FALSE
  <2>1. PICK m \in Bad : \A x \in m : m \ {x} \notin Bad  BY <1>1, <1>2, SmallestSet
  <2>2. m \in SUBSET T /\ ~(IsFiniteSet(moved(m)) /\ SumFunctionOnSet(g, moved(m)) = SumFunctionOnSet(f, m))  OBVIOUS
  <2>3. m # {}
    <3>1. moved({}) = {}  OBVIOUS
    <3>2. IsFiniteSet({}) /\ SumFunctionOnSet(g, {}) = 0 /\ SumFunctionOnSet(f, {}) = 0  BY FS_EmptySet, SumUnfolds
    <3> HIDE DEF moved
    <3> QED  BY <2>2, <3>1, <3>2
  <2>4. PICK p \in m : TRUE  BY <2>3
  <2>5. m \ {p} \in SUBSET T /\ IsFiniteSet(moved(m \ {p}))
        /\ SumFunctionOnSet(g, moved(m \ {p})) = SumFunctionOnSet(f, m \ {p})
    BY <2>1, <2>2, <2>4
  <2>6. SumFunctionOnSet(f, m) = f[p] + SumFunctionOnSet(f, m \ {p})
    <3>1. IsFiniteSet(m) /\ \A x \in m : f[x] \in Nat  BY <1>1, <2>2
    <3> HIDE DEF Bad, moved
    <3> QED  BY <3>1, SumRemove
  <2> DEFINE q == p + n
             M == moved(m)
             N == moved(m \ {p})
  <2>7. M = N \cup {q} /\ M \ {q} = N /\ q \in M
    <3>1. p \in Int /\ m \subseteq Int  BY <2>2
    <3>2. \A x \in m : x + n = p + n => x = p  BY <3>1
    <3> QED  BY <3>1, <3>2
  <2>8. \A y \in M : g[y] \in Nat
    <3> SUFFICES ASSUME NEW x \in m PROVE g[x + n] \in Nat  OBVIOUS
    <3> QED  BY <2>2
  <2>9. g[q] = f[p]  BY <2>2
  <2> HIDE DEF q, M, N
  <2>10. IsFiniteSet(M)
    <3>1. IsFiniteSet(N)  BY <2>5 DEF N
    <3>2. IsFiniteSet(N \cup {q})  BY <3>1, FS_AddElement
    <3> QED  BY <2>7, <3>2
  <2>11. SumFunctionOnSet(g, M) = g[q] + SumFunctionOnSet(g, M \ {q})  BY <2>7, <2>8, <2>10, SumRemove
  <2>12. SumFunctionOnSet(g, N) = SumFunctionOnSet(f, m \ {p})  BY <2>5 DEF N
  <2>13. ~(IsFiniteSet(M) /\ SumFunctionOnSet(g, M) = SumFunctionOnSet(f, m))  BY <2>2 DEF M
  <2> HIDE DEF Bad
  <2> QED  BY <2>6, <2>7, <2>9, <2>10, <2>11, <2>12, <2>13
<1>3. Bad = {}  BY <1>2
<1>4. SumFunctionOnSet(g, moved(T)) = SumFunctionOnSet(f, T)
  <2>1. T \notin Bad  BY <1>3
  <2> QED  BY <2>1
<1>5. moved(T) = U
  <2>1. \A u \in U : u - n \in T /\ u = (u - n) + n  OBVIOUS
  <2> QED  BY <2>1
<1> HIDE DEF moved, Bad
<1> QED  BY <1>4, <1>5

\* Nothing but zeros.
LEMMA SumZero ==
    ASSUME NEW f, NEW T, IsFiniteSet(T), \A x \in T : f[x] = 0
    PROVE  SumFunctionOnSet(f, T) = 0
<1> DEFINE Bad == {s \in SUBSET T : SumFunctionOnSet(f, s) # 0}
<1>1. \A s \in SUBSET T : IsFiniteSet(s)  BY FS_Subset
<1>2. ASSUME Bad # {} PROVE FALSE
  <2>1. PICK m \in Bad : \A x \in m : m \ {x} \notin Bad  BY <1>1, <1>2, SmallestSet
  <2>2. m \in SUBSET T /\ SumFunctionOnSet(f, m) # 0  OBVIOUS
  <2>3. SumFunctionOnSet(f, m) = IF m = {} THEN 0 ELSE f[Pick(m)] + SumFunctionOnSet(f, m \ {Pick(m)})
    BY <1>1, <2>2, SumUnfolds
  <2>4. m # {} /\ Pick(m) \in m  BY <2>2, <2>3, PickIn
  <2>5. SumFunctionOnSet(f, m \ {Pick(m)}) = 0 /\ f[Pick(m)] = 0  BY <2>1, <2>2, <2>4
  <2> QED  BY <2>2, <2>3, <2>4, <2>5
<1> QED  BY <1>2

\* Values that have only grown: so has their sum, and where it is the same so are they.
LEMMA SumGrows ==
    ASSUME NEW f, NEW g, NEW T, IsFiniteSet(T), \A x \in T : f[x] \in Nat /\ g[x] \in Nat /\ f[x] <= g[x]
    PROVE  /\ SumFunctionOnSet(f, T) <= SumFunctionOnSet(g, T)
           /\ SumFunctionOnSet(f, T) = SumFunctionOnSet(g, T) => \A x \in T : f[x] = g[x]
<1> DEFINE Fine(s) == /\ SumFunctionOnSet(f, s) <= SumFunctionOnSet(g, s)
                      /\ SumFunctionOnSet(f, s) = SumFunctionOnSet(g, s) => \A x \in s : f[x] = g[x]
           Bad == {s \in SUBSET T : ~Fine(s)}
<1>1. \A s \in SUBSET T : IsFiniteSet(s)  BY FS_Subset
<1>2. \A s \in SUBSET T : SumFunctionOnSet(f, s) \in Nat /\ SumFunctionOnSet(g, s) \in Nat  BY <1>1, SumType
<1>3. CASE Bad # {}
  <2>1. PICK m \in Bad : \A x \in m : m \ {x} \notin Bad  BY <1>1, <1>3, SmallestSet
  <2>2. m \in SUBSET T /\ ~Fine(m)  OBVIOUS
  <2>3. \A k \in {f, g} : SumFunctionOnSet(k, m) = IF m = {} THEN 0 ELSE k[Pick(m)] + SumFunctionOnSet(k, m \ {Pick(m)})
    BY <1>1, <2>2, SumUnfolds
  <2>4. m # {}
    <3> SUFFICES ASSUME m = {} PROVE FALSE  OBVIOUS
    <3>1. SumFunctionOnSet(f, m) = 0 /\ SumFunctionOnSet(g, m) = 0  BY <2>3
    <3> QED  BY <2>2, <3>1
  <2>5. Pick(m) \in m /\ m \ {Pick(m)} \in SUBSET T /\ Fine(m \ {Pick(m)})  BY <2>1, <2>2, <2>4, PickIn
  <2>6. f[Pick(m)] \in Nat /\ g[Pick(m)] \in Nat /\ f[Pick(m)] <= g[Pick(m)]  BY <2>2, <2>5
  <2>7. SumFunctionOnSet(f, m) = f[Pick(m)] + SumFunctionOnSet(f, m \ {Pick(m)})
        /\ SumFunctionOnSet(g, m) = g[Pick(m)] + SumFunctionOnSet(g, m \ {Pick(m)})
    BY <2>3, <2>4
  <2>8. SumFunctionOnSet(f, m) <= SumFunctionOnSet(g, m)  BY <1>2, <2>5, <2>6, <2>7
  <2>9. ASSUME SumFunctionOnSet(f, m) = SumFunctionOnSet(g, m) PROVE \A x \in m : f[x] = g[x]
    <3>1. f[Pick(m)] = g[Pick(m)] /\ SumFunctionOnSet(f, m \ {Pick(m)}) = SumFunctionOnSet(g, m \ {Pick(m)})
      BY <1>2, <2>5, <2>6, <2>7, <2>9
    <3> QED  BY <2>5, <3>1
  <2> QED  BY <2>2, <2>8, <2>9
<1>4. T \notin Bad  BY <1>3
<1> QED  BY <1>4

\* A part of the set has a part of the sum.
LEMMA SumSubset ==
    ASSUME NEW f, NEW S, NEW T, IsFiniteSet(T), S \subseteq T, \A x \in T : f[x] \in Nat
    PROVE  SumFunctionOnSet(f, S) <= SumFunctionOnSet(f, T)
<1>1. PICK R : R = T \ S  OBVIOUS
<1>2. S \cup R = T /\ S \cap R = {} /\ IsFiniteSet(S) /\ IsFiniteSet(R)  BY <1>1, FS_Subset
<1>3. (\A x \in S : f[x] \in Nat) /\ (\A x \in R : f[x] \in Nat) /\ \A x \in S \cup R : f[x] \in Nat  BY <1>1
<1>4. SumFunctionOnSet(f, S) \in Nat /\ SumFunctionOnSet(f, R) \in Nat  BY <1>2, <1>3, SumType
<1>5. SumFunctionOnSet(f, S \cup R) = SumFunctionOnSet(f, S) + SumFunctionOnSet(f, R)  BY <1>2, <1>3, SumUnion
<1>6. SumFunctionOnSet(f, S \cup R) = SumFunctionOnSet(f, T)  BY <1>2
<1> QED  BY <1>4, <1>5, <1>6

\* One value raised.
LEMMA SumBump ==
    ASSUME NEW f, NEW g, NEW T, IsFiniteSet(T), NEW h, NEW n \in Nat,
           \A x \in T : f[x] \in Nat /\ g[x] = f[x] + IF x = h THEN n ELSE 0
    PROVE  SumFunctionOnSet(g, T) = SumFunctionOnSet(f, T) + IF h \in T THEN n ELSE 0
<1>1. \A x \in T : g[x] \in Nat  OBVIOUS
<1>2. SumFunctionOnSet(f, T) \in Nat  BY SumType
<1>3. CASE h \in T
  <2>1. SumFunctionOnSet(f, T) = f[h] + SumFunctionOnSet(f, T \ {h})  BY <1>3, SumRemove
  <2>2. SumFunctionOnSet(g, T) = g[h] + SumFunctionOnSet(g, T \ {h})  BY <1>1, <1>3, SumRemove
  <2>3. IsFiniteSet(T \ {h})  BY FS_Subset
  <2>4. \A x \in T \ {h} : f[x] \in Nat /\ g[x] = f[x]  OBVIOUS
  <2>5. SumFunctionOnSet(g, T \ {h}) = SumFunctionOnSet(f, T \ {h})  BY <2>3, <2>4, SumSame
  <2>6. SumFunctionOnSet(f, T \ {h}) \in Nat  BY <2>3, <2>4, SumType
  <2>7. g[h] = f[h] + n /\ f[h] \in Nat  BY <1>3
  <2> QED  BY <1>3, <2>1, <2>2, <2>5, <2>6, <2>7
<1>4. CASE h \notin T
  <2>1. \A x \in T : f[x] \in Nat /\ g[x] = f[x]  BY <1>4
  <2>2. SumFunctionOnSet(g, T) = SumFunctionOnSet(f, T)  BY <2>1, SumSame
  <2> QED  BY <1>2, <1>4, <2>2
<1> QED  BY <1>3, <1>4

\* Values added place by place.
LEMMA SumPlus ==
    ASSUME NEW f, NEW g, NEW k, NEW T, IsFiniteSet(T),
           \A x \in T : f[x] \in Nat /\ g[x] \in Nat /\ k[x] = f[x] + g[x]
    PROVE  SumFunctionOnSet(k, T) = SumFunctionOnSet(f, T) + SumFunctionOnSet(g, T)
<1> DEFINE sum(r, s) == SumFunctionOnSet(r, s)
           Bad == {s \in SUBSET T : sum(k, s) # sum(f, s) + sum(g, s)}
<1>1. \A s \in SUBSET T : IsFiniteSet(s)  BY FS_Subset
<1>2. ASSUME Bad # {} PROVE FALSE
  <2>1. PICK m \in Bad : \A x \in m : m \ {x} \notin Bad  BY <1>1, <1>2, SmallestSet
  <2>2. m \in SUBSET T /\ sum(k, m) # sum(f, m) + sum(g, m)  OBVIOUS
  <2>3. \A r \in {f, g, k} : sum(r, m) = IF m = {} THEN 0 ELSE r[Pick(m)] + sum(r, m \ {Pick(m)})
    BY <1>1, <2>2, SumUnfolds
  <2>4. m # {}
    <3> SUFFICES ASSUME m = {} PROVE FALSE  OBVIOUS
    <3>1. sum(f, m) = 0 /\ sum(g, m) = 0 /\ sum(k, m) = 0  BY <2>3
    <3> HIDE DEF sum
    <3> QED  BY <2>2, <3>1
  <2> DEFINE p == Pick(m)
             l == m \ {p}
  <2>5. p \in m  BY <2>4, PickIn
  <2>6. l \in SUBSET T /\ sum(k, l) = sum(f, l) + sum(g, l)  BY <2>1, <2>2, <2>5
  <2>7. f[p] \in Nat /\ g[p] \in Nat /\ k[p] = f[p] + g[p]  BY <2>2, <2>5
  <2>8. sum(f, m) = f[p] + sum(f, l) /\ sum(g, m) = g[p] + sum(g, l) /\ sum(k, m) = k[p] + sum(k, l)  BY <2>3, <2>4
  <2>9. sum(f, l) \in Nat /\ sum(g, l) \in Nat  BY <1>1, <2>6, SumType
  <2> HIDE DEF sum, p, l, Bad
  <2> QED  BY <2>2, <2>6, <2>7, <2>8, <2>9
<1>3. T \notin Bad  BY <1>2
<1> QED  BY <1>3

\* The sums d of f over parts of T, the parts named by the elements of S.
Parts(f, T, share, d, S) ==
    /\ \A x \in T : f[x] \in Nat
    /\ \A b \in S : share[b] \subseteq T /\ d[b] = SumFunctionOnSet(f, share[b])
    /\ \A b, c \in S : b # c => share[b] \cap share[c] = {}

\* Summed part by part, or all at once.
LEMMA SumParts ==
    ASSUME NEW f, NEW T, NEW share, NEW d, NEW S, Parts(f, T, share, d, S), IsFiniteSet(T), IsFiniteSet(S),
           NEW U, U = {x \in T : \E b \in S : x \in share[b]}
    PROVE  SumFunctionOnSet(d, S) = SumFunctionOnSet(f, U)
<1> USE DEF Parts
<1> DEFINE cover(s) == {x \in T : \E b \in s : x \in share[b]}
           Bad == {s \in SUBSET S : SumFunctionOnSet(d, s) # SumFunctionOnSet(f, cover(s))}
<1>1. (\A s \in SUBSET S : IsFiniteSet(s)) /\ \A s \in SUBSET T : IsFiniteSet(s)  BY FS_Subset
<1>2. \A b \in S : d[b] \in Nat  BY <1>1, SumType
<1>3. ASSUME Bad # {} PROVE FALSE
  <2>1. PICK m \in Bad : \A x \in m : m \ {x} \notin Bad  BY <1>1, <1>3, SmallestSet
  <2>2. m \in SUBSET S /\ SumFunctionOnSet(d, m) # SumFunctionOnSet(f, cover(m))  OBVIOUS
  <2>3. m # {}
    <3>1. cover({}) = {}  OBVIOUS
    <3>2. SumFunctionOnSet(f, {}) = 0 /\ SumFunctionOnSet(d, {}) = 0  BY FS_EmptySet, SumUnfolds
    <3> HIDE DEF cover
    <3> QED  BY <2>2, <3>1, <3>2
  <2>4. PICK p \in m : TRUE  BY <2>3
  <2>5. SumFunctionOnSet(d, m \ {p}) = SumFunctionOnSet(f, cover(m \ {p}))  BY <2>1, <2>2, <2>4
  <2>6. SumFunctionOnSet(d, m) = d[p] + SumFunctionOnSet(d, m \ {p})
    <3>1. IsFiniteSet(m) /\ \A x \in m : d[x] \in Nat  BY <1>1, <1>2, <2>2
    <3> HIDE DEF Bad, cover
    <3> QED  BY <3>1, SumRemove
  <2> DEFINE A == cover(m \ {p})
             B == share[p]
  <2>7. A \subseteq T /\ B \subseteq T /\ A \cap B = {} /\ cover(m) = A \cup B
    <3>1. A \subseteq T /\ B \subseteq T  BY <2>2
    <3>2. A \cap B = {}  BY <2>2
    <3>3. cover(m) = A \cup B  BY <2>2
    <3> QED  BY <3>1, <3>2, <3>3
  <2>8. d[p] = SumFunctionOnSet(f, B)  BY <2>2
  <2> HIDE DEF A, B, cover
  <2>9. SumFunctionOnSet(f, A \cup B) = SumFunctionOnSet(f, A) + SumFunctionOnSet(f, B)
    <3>1. IsFiniteSet(A) /\ IsFiniteSet(B) /\ \A x \in A \cup B : f[x] \in Nat  BY <1>1, <2>7
    <3> QED  BY <2>7, <3>1, SumUnion
  <2>10. SumFunctionOnSet(f, A) \in Nat /\ SumFunctionOnSet(f, B) \in Nat
    <3>1. IsFiniteSet(A) /\ IsFiniteSet(B) /\ (\A x \in A : f[x] \in Nat) /\ \A x \in B : f[x] \in Nat  BY <1>1, <2>7
    <3> QED  BY <3>1, SumType
  <2>11. SumFunctionOnSet(d, m \ {p}) = SumFunctionOnSet(f, A)  BY <2>5 DEF A
  <2>12. SumFunctionOnSet(d, m) # SumFunctionOnSet(f, A \cup B)  BY <2>2, <2>7
  <2> HIDE DEF Bad
  <2> QED  BY <2>6, <2>8, <2>9, <2>10, <2>11, <2>12
<1>4. S \notin Bad  BY <1>3
<1>5. cover(S) = U  OBVIOUS
<1> QED  BY <1>4, <1>5
=============================================================================
