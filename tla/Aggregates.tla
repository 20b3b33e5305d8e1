------------------------------ MODULE Aggregates ------------------------------
(***************************************************************************)
(* Facts about sums over finite sets and about putting a finite set in     *)
(* order, for the budgets of Admission and the figures of Figures.         *)
(***************************************************************************)
EXTENDS Integers, FiniteSets, Functions, FiniteSetTheorems, WellFoundedInduction, TLAPS

-----------------------------------------------------------------------------
(* Sums *)

(* What SumFunction computes, whatever the order it takes the elements in: *)
(* the library folds over a finite set by picking one element after        *)
(* another.  Each fact is the induction on the size of the set, told as    *)
(* the absence of a smallest exception.                                    *)
Pick(s) == CHOOSE x \in s : TRUE
(* g sums f over every set of D. *)
Adds(f, g, D) ==
  g = [s \in D |-> IF s = {} THEN 0 ELSE f[Pick(s)] + g[s \ {Pick(s)}]]

LEMMA LeastNat ==
  ASSUME NEW B \in SUBSET Nat, B # {}
  PROVE  \E b \in B : \A c \in B : b <= c
<1>1. PICK b \in B : \A c \in B : ~(<<c, b>> \in OpToRel(<, Nat))
  BY NatLessThanWellFounded, WFMin, Zenon
<1>2. \A c \in B : ~(c < b)
  BY <1>1 DEF OpToRel
<1> QED BY <1>2

LEMMA LeastSet ==
  ASSUME NEW B, B # {}, \A S \in B : IsFiniteSet(S)
  PROVE  \E S \in B : \A T \in B : Cardinality(S) <= Cardinality(T)
<1> DEFINE Sizes == {Cardinality(S) : S \in B}
<1>1. Sizes \in SUBSET Nat /\ Sizes # {}
  BY FS_CardinalityType
<1>2. PICK n \in Sizes : \A m \in Sizes : n <= m
  <2> HIDE DEF Sizes
  <2> QED BY <1>1, LeastNat
<1> QED BY <1>2

LEMMA SumIs ==
  ASSUME NEW f, NEW S
  PROVE  SumFunctionOnSet(f, S) = (CHOOSE g : Adds(f, g, SUBSET S))[S]
BY DEF SumFunctionOnSet, FoldFunctionOnSet, MapThenFoldSet, Adds, Pick

LEMMA Picked ==
  ASSUME NEW s, s # {}, IsFiniteSet(s)
  PROVE  /\ Pick(s) \in s /\ IsFiniteSet(s \ {Pick(s)})
         /\ Cardinality(s) \in Nat /\ Cardinality(s \ {Pick(s)}) = Cardinality(s) - 1
<1>1. Pick(s) \in s
  BY DEF Pick
<1> QED BY <1>1, FS_RemoveElement, FS_CardinalityType

LEMMA AdderExists ==
  ASSUME NEW f, NEW S, IsFiniteSet(S)
  PROVE  \E g : Adds(f, g, SUBSET S)
<1> DEFINE Upto(n) == {s \in SUBSET S : Cardinality(s) <= n}
           Bad == {n \in Nat : ~\E g : Adds(f, g, Upto(n))}
<1>0. \A s \in SUBSET S : IsFiniteSet(s) /\ Cardinality(s) \in Nat
  BY FS_Subset, FS_CardinalityType
<1>1. Bad = {}
  <2> SUFFICES ASSUME Bad # {} PROVE FALSE
    OBVIOUS
  <2>1. PICK n \in Bad : \A m \in Bad : n <= m
    <3>1. Bad \in SUBSET Nat
      OBVIOUS
    <3> HIDE DEF Bad
    <3> QED BY <3>1, LeastNat
  <2>2. n \in Nat /\ ~\E g : Adds(f, g, Upto(n))
    BY <2>1
  <2>3. CASE n = 0
    <3>1. Upto(n) = {{}}
      <4>1. \A s \in SUBSET S : Cardinality(s) <= 0 <=> s = {}
        BY <1>0, FS_EmptySet
      <4> QED BY <4>1, <2>3
    <3>2. Adds(f, [s \in {{}} |-> 0], {{}})
      BY DEF Adds
    <3> QED BY <2>2, <3>1, <3>2
  <2>4. CASE n # 0
    <3>1. n - 1 \in Nat /\ n - 1 \notin Bad
      <4>1. n \in Nat
        BY <2>2
      <4> HIDE DEF Bad
      <4> QED BY <2>1, <4>1, <2>4
    <3>2. PICK g : Adds(f, g, Upto(n - 1))
      BY <3>1
    <3> DEFINE h == [s \in Upto(n) |-> IF s = {} THEN 0 ELSE f[Pick(s)] + g[s \ {Pick(s)}]]
    <3>3. ASSUME NEW s \in Upto(n), s # {}
          PROVE  h[s \ {Pick(s)}] = g[s \ {Pick(s)}]
      <4>1. PICK t : t = s \ {Pick(s)}
        OBVIOUS
      <4>2. t \in Upto(n - 1) /\ t \in Upto(n)
        BY <1>0, <3>3, <2>2, <4>1, Picked
      <4> HIDE DEF Upto
      <4>3. h[t] = IF t = {} THEN 0 ELSE f[Pick(t)] + g[t \ {Pick(t)}]
        BY <4>2
      <4>4. g[t] = IF t = {} THEN 0 ELSE f[Pick(t)] + g[t \ {Pick(t)}]
        BY <4>2, <3>2 DEF Adds
      <4> QED BY <4>1, <4>3, <4>4
    <3>4. Adds(f, h, Upto(n))
      <4> HIDE DEF Upto
      <4>1. h = [s \in Upto(n) |-> IF s = {} THEN 0 ELSE f[Pick(s)] + g[s \ {Pick(s)}]]
        OBVIOUS
      <4> HIDE DEF h
      <4>2. [s \in Upto(n) |-> IF s = {} THEN 0 ELSE f[Pick(s)] + g[s \ {Pick(s)}]]
              = [s \in Upto(n) |-> IF s = {} THEN 0 ELSE f[Pick(s)] + h[s \ {Pick(s)}]]
        BY <3>3
      <4> QED BY <4>1, <4>2 DEF Adds
    <3> QED BY <2>2, <3>4
  <2> QED BY <2>3, <2>4
<1>2. Cardinality(S) \in Nat /\ Upto(Cardinality(S)) = SUBSET S
  BY FS_CardinalityType, FS_Subset
<1>3. \E g : Adds(f, g, Upto(Cardinality(S)))
  BY <1>1, <1>2
<1> QED BY <1>2, <1>3

LEMMA SumAdds ==
  ASSUME NEW f, NEW S, IsFiniteSet(S)
  PROVE  \E g : Adds(f, g, SUBSET S) /\ SumFunctionOnSet(f, S) = g[S]
<1> DEFINE g == CHOOSE h : Adds(f, h, SUBSET S)
<1>1. Adds(f, g, SUBSET S)
  BY AdderExists
<1>2. SumFunctionOnSet(f, S) = g[S]
  BY SumIs
<1> QED BY <1>1, <1>2

(* g sums f over the sets within S, whatever else it is. *)
AddsWithin(f, g, S) ==
  \A s \in SUBSET S : g[s] = IF s = {} THEN 0 ELSE f[Pick(s)] + g[s \ {Pick(s)}]

LEMMA AddsEachWithin ==
  ASSUME NEW f, NEW g, NEW S, Adds(f, g, SUBSET S), NEW T \in SUBSET S
  PROVE  AddsWithin(f, g, T)
<1>1. \A s \in SUBSET S : g[s] = IF s = {} THEN 0 ELSE f[Pick(s)] + g[s \ {Pick(s)}]
  BY DEF Adds
<1> QED BY <1>1 DEF AddsWithin

(* Two functions that agree add up to the same on every set they agree on. *)
LEMMA AddersAgree ==
  ASSUME NEW T, IsFiniteSet(T), NEW f, NEW e, \A x \in T : f[x] = e[x],
         NEW g, AddsWithin(f, g, T), NEW h, AddsWithin(e, h, T)
  PROVE  g[T] = h[T]
<1> SUFFICES \A s \in SUBSET T : g[s] = h[s]
  OBVIOUS
<1> DEFINE Bad == {s \in SUBSET T : g[s] # h[s]}
<1> SUFFICES ASSUME Bad # {} PROVE FALSE
  OBVIOUS
<1>1. \A s \in Bad : IsFiniteSet(s) /\ s \in SUBSET T
  BY FS_Subset
<1>2. PICK s \in Bad : \A t \in Bad : Cardinality(s) <= Cardinality(t)
  <2> HIDE DEF Bad
  <2> QED BY <1>1, LeastSet
<1>3. g[s] = (IF s = {} THEN 0 ELSE f[Pick(s)] + g[s \ {Pick(s)}])
  BY <1>1, <1>2 DEF AddsWithin
<1>4. h[s] = (IF s = {} THEN 0 ELSE e[Pick(s)] + h[s \ {Pick(s)}])
  BY <1>1, <1>2 DEF AddsWithin
<1>5. s # {} /\ g[s] # h[s]
  BY <1>2, <1>3, <1>4
<1>6. Pick(s) \in T /\ s \ {Pick(s)} \in SUBSET T
  BY <1>1, <1>2, <1>5, Picked
<1>7. s \ {Pick(s)} \notin Bad
  <2> HIDE DEF Bad
  <2>1. Cardinality(s) \in Nat /\ Cardinality(s \ {Pick(s)}) = Cardinality(s) - 1
    BY <1>1, <1>2, <1>5, Picked
  <2> QED BY <1>2, <2>1
<1>8. g[s \ {Pick(s)}] = h[s \ {Pick(s)}]
  BY <1>6, <1>7
<1> QED BY <1>3, <1>4, <1>5, <1>6, <1>8

LEMMA SumsAgree ==
  ASSUME NEW S, IsFiniteSet(S), NEW f, NEW e, \A x \in S : f[x] = e[x]
  PROVE  SumFunctionOnSet(f, S) = SumFunctionOnSet(e, S)
<1>1. PICK g : Adds(f, g, SUBSET S) /\ SumFunctionOnSet(f, S) = g[S]
  BY SumAdds
<1>2. PICK h : Adds(e, h, SUBSET S) /\ SumFunctionOnSet(e, S) = h[S]
  BY SumAdds
<1>3. AddsWithin(f, g, S) /\ AddsWithin(e, h, S)
  BY <1>1, <1>2, AddsEachWithin
<1>4. g[S] = h[S]
  BY <1>3, AddersAgree
<1> QED BY <1>1, <1>2, <1>4

(* What the sum computes: nothing of nothing, and the element picked with  *)
(* the sum of the others.                                                  *)
LEMMA SumPicked ==
  ASSUME NEW S, IsFiniteSet(S), NEW f
  PROVE  SumFunctionOnSet(f, S) =
           IF S = {} THEN 0 ELSE f[Pick(S)] + SumFunctionOnSet(f, S \ {Pick(S)})
<1>1. PICK g : Adds(f, g, SUBSET S) /\ SumFunctionOnSet(f, S) = g[S]
  BY SumAdds
<1>2. g[S] = IF S = {} THEN 0 ELSE f[Pick(S)] + g[S \ {Pick(S)}]
  BY <1>1 DEF Adds
<1>3. ASSUME S # {} PROVE g[S \ {Pick(S)}] = SumFunctionOnSet(f, S \ {Pick(S)})
  <2>1. PICK T : T = S \ {Pick(S)}
    OBVIOUS
  <2>2. IsFiniteSet(T) /\ T \in SUBSET S
    BY <1>3, <2>1, Picked
  <2>3. PICK h : Adds(f, h, SUBSET T) /\ SumFunctionOnSet(f, T) = h[T]
    BY <2>2, SumAdds
  <2>4. AddsWithin(f, g, T)
    BY <1>1, <2>2, AddsEachWithin
  <2>5. AddsWithin(f, h, T)
    <3>1. T \in SUBSET T
      OBVIOUS
    <3> QED BY <2>3, <3>1, AddsEachWithin
  <2>6. g[T] = h[T]
    <3>1. IsFiniteSet(T)
      BY <2>2
    <3> QED BY <2>4, <2>5, <3>1, AddersAgree
  <2> QED BY <2>1, <2>3, <2>6
<1> QED BY <1>1, <1>2, <1>3

LEMMA SumType ==
  ASSUME NEW S, IsFiniteSet(S), NEW f, \A x \in S : f[x] \in Nat
  PROVE  SumFunctionOnSet(f, S) \in Nat
<1> DEFINE Bad == {s \in SUBSET S : SumFunctionOnSet(f, s) \notin Nat}
<1> SUFFICES ASSUME Bad # {} PROVE FALSE
  OBVIOUS
<1>1. \A s \in Bad : IsFiniteSet(s) /\ s \in SUBSET S
  BY FS_Subset
<1>2. PICK s \in Bad : \A t \in Bad : Cardinality(s) <= Cardinality(t)
  <2> HIDE DEF Bad
  <2> QED BY <1>1, LeastSet
<1>3. SumFunctionOnSet(f, s) = IF s = {} THEN 0 ELSE f[Pick(s)] + SumFunctionOnSet(f, s \ {Pick(s)})
  BY <1>1, <1>2, SumPicked
<1>4. s # {} /\ SumFunctionOnSet(f, s) \notin Nat
  BY <1>2, <1>3
<1>5. Pick(s) \in S /\ s \ {Pick(s)} \in SUBSET S
  BY <1>1, <1>2, <1>4, Picked
<1>6. s \ {Pick(s)} \notin Bad
  <2> HIDE DEF Bad
  <2>1. Cardinality(s) \in Nat /\ Cardinality(s \ {Pick(s)}) = Cardinality(s) - 1
    BY <1>1, <1>2, <1>4, Picked
  <2> QED BY <1>2, <2>1
<1>7. SumFunctionOnSet(f, s \ {Pick(s)}) \in Nat /\ f[Pick(s)] \in Nat
  BY <1>5, <1>6
<1> QED BY <1>3, <1>4, <1>7

(* The sum does not depend on which element is taken out first. *)
LEMMA SumTakesOut ==
  ASSUME NEW S, IsFiniteSet(S), NEW f, \A x \in S : f[x] \in Nat, NEW a \in S
  PROVE  SumFunctionOnSet(f, S) = f[a] + SumFunctionOnSet(f, S \ {a})
<1> DEFINE Bad == {s \in SUBSET S : \E x \in s : SumFunctionOnSet(f, s) # f[x] + SumFunctionOnSet(f, s \ {x})}
<1> SUFFICES ASSUME Bad # {} PROVE FALSE
  OBVIOUS
<1>1. \A s \in Bad : IsFiniteSet(s) /\ s \in SUBSET S
  BY FS_Subset
<1>2. PICK s \in Bad : \A t \in Bad : Cardinality(s) <= Cardinality(t)
  <2> HIDE DEF Bad
  <2> QED BY <1>1, LeastSet
<1>3. PICK x \in s : SumFunctionOnSet(f, s) # f[x] + SumFunctionOnSet(f, s \ {x})
  BY <1>2
<1>4. PICK c : c = Pick(s)
  OBVIOUS
<1>5. IsFiniteSet(s) /\ s \subseteq S /\ c \in s
  BY <1>1, <1>2, <1>3, <1>4, Picked
<1>6. SumFunctionOnSet(f, s) = f[c] + SumFunctionOnSet(f, s \ {c})
  BY <1>3, <1>4, <1>5, SumPicked
<1>7. x # c
  BY <1>3, <1>6
<1>8. ASSUME NEW y \in s PROVE s \ {y} \notin Bad
  <2> HIDE DEF Bad
  <2>1. Cardinality(s) \in Nat /\ Cardinality(s \ {y}) = Cardinality(s) - 1
    BY <1>5, FS_RemoveElement, FS_CardinalityType
  <2> QED BY <1>2, <2>1
<1>9. SumFunctionOnSet(f, s \ {c}) = f[x] + SumFunctionOnSet(f, (s \ {c}) \ {x})
  BY <1>3, <1>5, <1>7, <1>8
<1>10. SumFunctionOnSet(f, s \ {x}) = f[c] + SumFunctionOnSet(f, (s \ {x}) \ {c})
  BY <1>3, <1>5, <1>7, <1>8
<1>11. PICK r : r = (s \ {c}) \ {x}
  OBVIOUS
<1>12. (s \ {x}) \ {c} = r /\ r \in SUBSET S
  BY <1>5, <1>11
<1>13. SumFunctionOnSet(f, r) \in Nat /\ f[x] \in Nat /\ f[c] \in Nat
  <2>1. IsFiniteSet(r)
    BY <1>12, FS_Subset
  <2>2. SumFunctionOnSet(f, r) \in Nat
    BY <1>12, <2>1, SumType
  <2> QED BY <2>2, <1>3, <1>5
<1>14. SumFunctionOnSet(f, s \ {c}) = f[x] + SumFunctionOnSet(f, r)
  BY <1>9, <1>11
<1>15. SumFunctionOnSet(f, s \ {x}) = f[c] + SumFunctionOnSet(f, r)
  BY <1>10, <1>12
<1>16. PICK i \in Nat, j \in Nat, k \in Nat : i = SumFunctionOnSet(f, r) /\ j = f[x] /\ k = f[c]
  BY <1>13
<1>17. SumFunctionOnSet(f, s) # j + (k + i) /\ SumFunctionOnSet(f, s) = k + (j + i)
  BY <1>3, <1>6, <1>14, <1>15, <1>16
<1> HIDE DEF Bad
<1> QED BY <1>17

LEMMA SumOfNone == ASSUME NEW f PROVE SumFunctionOnSet(f, {}) = 0
<1>1. IsFiniteSet({})
  BY FS_EmptySet
<1> QED BY <1>1, SumPicked

LEMMA SumOfZeros ==
  ASSUME NEW S, IsFiniteSet(S), NEW f, \A x \in S : f[x] = 0
  PROVE  SumFunctionOnSet(f, S) = 0
<1> DEFINE Bad == {s \in SUBSET S : SumFunctionOnSet(f, s) # 0}
<1> SUFFICES ASSUME Bad # {} PROVE FALSE
  OBVIOUS
<1>1. \A s \in Bad : IsFiniteSet(s) /\ s \in SUBSET S
  BY FS_Subset
<1>2. PICK s \in Bad : \A t \in Bad : Cardinality(s) <= Cardinality(t)
  <2> HIDE DEF Bad
  <2> QED BY <1>1, LeastSet
<1>3. SumFunctionOnSet(f, s) = IF s = {} THEN 0 ELSE f[Pick(s)] + SumFunctionOnSet(f, s \ {Pick(s)})
  BY <1>1, <1>2, SumPicked
<1>4. s # {}
  BY <1>2, <1>3
<1>5. Pick(s) \in S /\ s \ {Pick(s)} \in SUBSET S
  BY <1>1, <1>2, <1>4, Picked
<1>6. s \ {Pick(s)} \notin Bad
  <2> HIDE DEF Bad
  <2>1. Cardinality(s) \in Nat /\ Cardinality(s \ {Pick(s)}) = Cardinality(s) - 1
    BY <1>1, <1>2, <1>4, Picked
  <2> QED BY <1>2, <2>1
<1>7. SumFunctionOnSet(f, s \ {Pick(s)}) = 0 /\ f[Pick(s)] = 0
  BY <1>5, <1>6
<1> QED BY <1>2, <1>3, <1>4, <1>7

LEMMA SumOfOnes ==
  ASSUME NEW S, IsFiniteSet(S), NEW f, \A x \in S : f[x] = 1
  PROVE  SumFunctionOnSet(f, S) = Cardinality(S)
<1> DEFINE Bad == {s \in SUBSET S : SumFunctionOnSet(f, s) # Cardinality(s)}
<1> SUFFICES ASSUME Bad # {} PROVE FALSE
  OBVIOUS
<1>1. \A s \in Bad : IsFiniteSet(s) /\ s \in SUBSET S
  BY FS_Subset
<1>2. PICK s \in Bad : \A t \in Bad : Cardinality(s) <= Cardinality(t)
  <2> HIDE DEF Bad
  <2> QED BY <1>1, LeastSet
<1>3. SumFunctionOnSet(f, s) = IF s = {} THEN 0 ELSE f[Pick(s)] + SumFunctionOnSet(f, s \ {Pick(s)})
  BY <1>1, <1>2, SumPicked
<1>4. s # {}
  BY <1>2, <1>3, FS_EmptySet
<1>5. Pick(s) \in S /\ s \ {Pick(s)} \in SUBSET S
  BY <1>1, <1>2, <1>4, Picked
<1>6. Cardinality(s) \in Nat /\ Cardinality(s \ {Pick(s)}) = Cardinality(s) - 1
  BY <1>1, <1>2, <1>4, Picked
<1>7. s \ {Pick(s)} \notin Bad
  <2> HIDE DEF Bad
  <2> QED BY <1>2, <1>6
<1>8. SumFunctionOnSet(f, s \ {Pick(s)}) = Cardinality(s) - 1 /\ f[Pick(s)] = 1
  BY <1>5, <1>6, <1>7
<1> QED BY <1>2, <1>3, <1>4, <1>6, <1>8

(* The parts of a set by what key says of each element add up to the whole. *)
Part(key, S, g) == {x \in S : key[x] = g}
Parts(f, key, S, N) == [g \in N |-> SumFunctionOnSet(f, Part(key, S, g))]

LEMMA PartsType ==
  ASSUME NEW S, IsFiniteSet(S), NEW f, \A x \in S : f[x] \in Nat, NEW key, NEW N
  PROVE  \A g \in N : IsFiniteSet(Part(key, S, g)) /\ Parts(f, key, S, N)[g] \in Nat
<1> TAKE g \in N
<1>1. IsFiniteSet(Part(key, S, g)) /\ Part(key, S, g) \subseteq S
  BY FS_Subset DEF Part
<1>2. SumFunctionOnSet(f, Part(key, S, g)) \in Nat
  BY <1>1, SumType
<1> QED BY <1>1, <1>2 DEF Parts

(* One element more is in the part its key names and in no other. *)
LEMMA PartsGrow ==
  ASSUME NEW S, IsFiniteSet(S), NEW f, \A x \in S : f[x] \in Nat, NEW key, NEW N, NEW a \in S, key[a] \in N
  PROVE  \A g \in N : Parts(f, key, S, N)[g] = IF g = key[a] THEN f[a] + Parts(f, key, S \ {a}, N)[g]
                                                ELSE Parts(f, key, S \ {a}, N)[g]
<1> TAKE g \in N
<1>1. PICK P : P = Part(key, S, g)
  OBVIOUS
<1>2. IsFiniteSet(P) /\ \A x \in P : f[x] \in Nat
  BY <1>1, FS_Subset DEF Part
<1>3. Parts(f, key, S, N)[g] = SumFunctionOnSet(f, P)
  BY <1>1 DEF Parts
<1>4. Part(key, S \ {a}, g) = P \ {a} /\ (a \in P <=> g = key[a])
  BY <1>1 DEF Part
<1>5. Parts(f, key, S \ {a}, N)[g] = SumFunctionOnSet(f, P \ {a})
  BY <1>4 DEF Parts
<1>6. CASE g = key[a]
  <2>1. SumFunctionOnSet(f, P) = f[a] + SumFunctionOnSet(f, P \ {a})
    BY <1>2, <1>4, <1>6, SumTakesOut
  <2> QED BY <1>3, <1>5, <1>6, <2>1
<1>7. CASE g # key[a]
  <2>1. P \ {a} = P
    BY <1>4, <1>7
  <2> QED BY <1>3, <1>5, <1>7, <2>1
<1> QED BY <1>6, <1>7

LEMMA SumOfParts ==
  ASSUME NEW I, IsFiniteSet(I), NEW f, \A x \in I : f[x] \in Nat,
         NEW N, IsFiniteSet(N), NEW key, \A x \in I : key[x] \in N
  PROVE  SumFunctionOnSet(Parts(f, key, I, N), N) = SumFunctionOnSet(f, I)
<1> DEFINE Bad == {s \in SUBSET I : SumFunctionOnSet(Parts(f, key, s, N), N) # SumFunctionOnSet(f, s)}
<1> SUFFICES ASSUME Bad # {} PROVE FALSE
  OBVIOUS
<1>1. \A s \in Bad : IsFiniteSet(s) /\ s \in SUBSET I
  BY FS_Subset
<1>2. PICK s \in Bad : \A t \in Bad : Cardinality(s) <= Cardinality(t)
  <2> HIDE DEF Bad
  <2> QED BY <1>1, LeastSet
<1>3. IsFiniteSet(s) /\ s \in SUBSET I /\ SumFunctionOnSet(Parts(f, key, s, N), N) # SumFunctionOnSet(f, s)
  BY <1>1, <1>2
<1>4. s # {}
  <2> SUFFICES ASSUME s = {} PROVE FALSE
    OBVIOUS
  <2>1. \A g \in N : Parts(f, key, s, N)[g] = 0
    BY SumOfNone DEF Parts, Part
  <2>2. SumFunctionOnSet(Parts(f, key, s, N), N) = 0
    BY <2>1, SumOfZeros
  <2> QED BY <1>3, <2>2, SumOfNone
<1>5. PICK a : a \in s
  BY <1>4
<1>6. PICK t : t = s \ {a}
  OBVIOUS
<1>7. IsFiniteSet(t) /\ t \in SUBSET I /\ t \notin Bad
  <2>1. Cardinality(s) \in Nat /\ Cardinality(t) = Cardinality(s) - 1 /\ IsFiniteSet(t)
    BY <1>3, <1>5, <1>6, FS_RemoveElement, FS_CardinalityType
  <2>2. t \in SUBSET I
    BY <1>3, <1>6
  <2> HIDE DEF Bad
  <2> QED BY <1>2, <2>1, <2>2
<1>8. SumFunctionOnSet(Parts(f, key, t, N), N) = SumFunctionOnSet(f, t)
  BY <1>7
<1> HIDE DEF Bad
<1>9. PICK k : k = key[a]
  OBVIOUS
<1>10. PICK P, Q : P = Parts(f, key, s, N) /\ Q = Parts(f, key, t, N)
  OBVIOUS
<1>11. \A x \in s : f[x] \in Nat
  BY <1>3
<1>12. k \in N
  BY <1>3, <1>5, <1>9
<1>13. \A g \in N : P[g] = IF g = k THEN f[a] + Q[g] ELSE Q[g]
  <2>1. key[a] \in N
    BY <1>9, <1>12
  <2>2. \A g \in N : Parts(f, key, s, N)[g] = IF g = key[a] THEN f[a] + Parts(f, key, s \ {a}, N)[g]
                                               ELSE Parts(f, key, s \ {a}, N)[g]
    BY <1>3, <1>5, <1>11, <2>1, PartsGrow
  <2> QED BY <2>2, <1>6, <1>9, <1>10
<1>14. \A g \in N : P[g] \in Nat
  BY <1>3, <1>10, <1>11, PartsType
<1>15. \A x \in t : f[x] \in Nat
  BY <1>6, <1>11
<1>16. \A g \in N : Q[g] \in Nat
  BY <1>7, <1>10, <1>15, PartsType
<1>17. SumFunctionOnSet(P, N) = P[k] + SumFunctionOnSet(P, N \ {k})
  BY <1>12, <1>14, SumTakesOut
<1>18. SumFunctionOnSet(Q, N) = Q[k] + SumFunctionOnSet(Q, N \ {k})
  BY <1>12, <1>16, SumTakesOut
<1>19. PICK M : M = N \ {k}
  OBVIOUS
<1>20. IsFiniteSet(M)
  BY <1>19, FS_Subset
<1>21. \A g \in M : P[g] = Q[g]
  BY <1>13, <1>19
<1>22. SumFunctionOnSet(P, M) = SumFunctionOnSet(Q, M)
  BY <1>20, <1>21, SumsAgree
<1>23. SumFunctionOnSet(Q, M) \in Nat
  BY <1>16, <1>19, <1>20, SumType
<1>24. SumFunctionOnSet(f, s) = f[a] + SumFunctionOnSet(f, t)
  BY <1>3, <1>5, <1>6, <1>11, SumTakesOut
<1>25. P[k] = f[a] + Q[k] /\ Q[k] \in Nat /\ f[a] \in Nat
  BY <1>5, <1>11, <1>12, <1>13, <1>16
<1>26. PICK x \in Nat, y \in Nat, z \in Nat : x = f[a] /\ y = Q[k] /\ z = SumFunctionOnSet(Q, M)
  BY <1>23, <1>25
<1>27. SumFunctionOnSet(P, N) = (x + y) + z
  BY <1>17, <1>19, <1>22, <1>25, <1>26
<1>28. SumFunctionOnSet(f, s) = x + (y + z)
  BY <1>8, <1>10, <1>18, <1>19, <1>24, <1>26
<1>29. SumFunctionOnSet(P, N) # SumFunctionOnSet(f, s)
  BY <1>3, <1>10
<1> QED BY <1>27, <1>28, <1>29


(* The sum of the sums of three functions. *)
LEMMA SumOfThree ==
  ASSUME NEW S, IsFiniteSet(S), NEW f, NEW a, NEW b, NEW c,
         \A x \in S : a[x] \in Nat /\ b[x] \in Nat /\ c[x] \in Nat /\ f[x] = a[x] + b[x] + c[x]
  PROVE  SumFunctionOnSet(f, S) = SumFunctionOnSet(a, S) + SumFunctionOnSet(b, S) + SumFunctionOnSet(c, S)
<1> DEFINE Bad == {s \in SUBSET S : SumFunctionOnSet(f, s) #
                     SumFunctionOnSet(a, s) + SumFunctionOnSet(b, s) + SumFunctionOnSet(c, s)}
<1> SUFFICES ASSUME Bad # {} PROVE FALSE
  OBVIOUS
<1>1. \A s \in Bad : IsFiniteSet(s) /\ s \in SUBSET S
  BY FS_Subset
<1>2. PICK s \in Bad : \A t \in Bad : Cardinality(s) <= Cardinality(t)
  <2> HIDE DEF Bad
  <2> QED BY <1>1, LeastSet
<1>3. IsFiniteSet(s) /\ s \in SUBSET S /\ SumFunctionOnSet(f, s) #
        SumFunctionOnSet(a, s) + SumFunctionOnSet(b, s) + SumFunctionOnSet(c, s)
  BY <1>1, <1>2
<1>4. s # {}
  <2> SUFFICES ASSUME s = {} PROVE FALSE
    OBVIOUS
  <2>1. /\ SumFunctionOnSet(f, s) = 0 /\ SumFunctionOnSet(a, s) = 0
        /\ SumFunctionOnSet(b, s) = 0 /\ SumFunctionOnSet(c, s) = 0
    BY SumOfNone
  <2> QED BY <1>3, <2>1
<1>5. PICK e, t : e = Pick(s) /\ t = s \ {e}
  OBVIOUS
<1>6. e \in s /\ IsFiniteSet(t) /\ t \in SUBSET S /\ t \notin Bad
  <2>1. e \in s /\ Cardinality(s) \in Nat /\ Cardinality(t) = Cardinality(s) - 1 /\ IsFiniteSet(t)
    BY <1>3, <1>4, <1>5, Picked
  <2>2. t \in SUBSET S
    BY <1>3, <1>5
  <2> HIDE DEF Bad
  <2> QED BY <1>2, <2>1, <2>2
<1>7. SumFunctionOnSet(f, t) = SumFunctionOnSet(a, t) + SumFunctionOnSet(b, t) + SumFunctionOnSet(c, t)
  BY <1>6
<1> HIDE DEF Bad
<1>8. \A h : SumFunctionOnSet(h, s) = h[e] + SumFunctionOnSet(h, t)
  BY <1>3, <1>4, <1>5, SumPicked
<1>9. SumFunctionOnSet(a, t) \in Nat
  BY <1>6, SumType
<1>10. SumFunctionOnSet(b, t) \in Nat
  BY <1>6, SumType
<1>11. SumFunctionOnSet(c, t) \in Nat
  BY <1>6, SumType
<1>12. a[e] \in Nat /\ b[e] \in Nat /\ c[e] \in Nat /\ f[e] = a[e] + b[e] + c[e]
  BY <1>3, <1>6
<1>13. PICK u \in Nat, v \in Nat, w \in Nat : u = a[e] /\ v = b[e] /\ w = c[e]
  BY <1>12
<1>14. PICK x \in Nat, y \in Nat, z \in Nat :
         x = SumFunctionOnSet(a, t) /\ y = SumFunctionOnSet(b, t) /\ z = SumFunctionOnSet(c, t)
  BY <1>9, <1>10, <1>11
<1>15. SumFunctionOnSet(f, s) = (u + v + w) + (x + y + z)
  BY <1>7, <1>8, <1>12, <1>13, <1>14
<1>16. SumFunctionOnSet(a, s) = u + x /\ SumFunctionOnSet(b, s) = v + y /\ SumFunctionOnSet(c, s) = w + z
  BY <1>8, <1>13, <1>14
<1> QED BY <1>3, <1>15, <1>16

(* Factors that order two functions everywhere order their sums. *)
LEMMA SumsCompare ==
  ASSUME NEW S, IsFiniteSet(S), NEW f, NEW h, NEW a \in Nat, NEW b \in Nat,
         \A x \in S : f[x] \in Nat /\ h[x] \in Nat /\ a * f[x] <= b * h[x]
  PROVE  a * SumFunctionOnSet(f, S) <= b * SumFunctionOnSet(h, S)
<1> DEFINE Bad == {s \in SUBSET S : ~(a * SumFunctionOnSet(f, s) <= b * SumFunctionOnSet(h, s))}
<1> SUFFICES ASSUME Bad # {} PROVE FALSE
  OBVIOUS
<1>1. \A s \in Bad : IsFiniteSet(s) /\ s \in SUBSET S
  BY FS_Subset
<1>2. PICK s \in Bad : \A t \in Bad : Cardinality(s) <= Cardinality(t)
  <2> HIDE DEF Bad
  <2> QED BY <1>1, LeastSet
<1>3. IsFiniteSet(s) /\ s \in SUBSET S /\ ~(a * SumFunctionOnSet(f, s) <= b * SumFunctionOnSet(h, s))
  BY <1>1, <1>2
<1>4. s # {}
  <2> SUFFICES ASSUME s = {} PROVE FALSE
    OBVIOUS
  <2>1. SumFunctionOnSet(f, s) = 0 /\ SumFunctionOnSet(h, s) = 0
    BY SumOfNone
  <2>2. a * 0 <= b * 0
    OBVIOUS
  <2> QED BY <1>3, <2>1, <2>2
<1>5. PICK t : t = s \ {Pick(s)}
  OBVIOUS
<1>6. Pick(s) \in s /\ IsFiniteSet(t) /\ t \in SUBSET S /\ t \notin Bad
  <2>1. Pick(s) \in s /\ Cardinality(s) \in Nat /\ Cardinality(t) = Cardinality(s) - 1 /\ IsFiniteSet(t)
    BY <1>3, <1>4, <1>5, Picked
  <2>2. t \in SUBSET S
    BY <1>3, <1>5
  <2> HIDE DEF Bad
  <2> QED BY <1>2, <2>1, <2>2
<1>7. a * SumFunctionOnSet(f, t) <= b * SumFunctionOnSet(h, t)
  BY <1>6
<1> HIDE DEF Bad
<1>8. SumFunctionOnSet(f, s) = f[Pick(s)] + SumFunctionOnSet(f, t)
  BY <1>3, <1>4, <1>5, SumPicked
<1>9. SumFunctionOnSet(h, s) = h[Pick(s)] + SumFunctionOnSet(h, t)
  BY <1>3, <1>4, <1>5, SumPicked
<1>10. SumFunctionOnSet(f, t) \in Nat
  BY <1>6, SumType
<1>11. SumFunctionOnSet(h, t) \in Nat
  BY <1>6, SumType
<1>12. f[Pick(s)] \in Nat /\ h[Pick(s)] \in Nat /\ a * f[Pick(s)] <= b * h[Pick(s)]
  BY <1>3, <1>6
<1>13. PICK u \in Nat, v \in Nat, x \in Nat, y \in Nat :
         u = f[Pick(s)] /\ v = SumFunctionOnSet(f, t) /\ x = h[Pick(s)] /\ y = SumFunctionOnSet(h, t)
  BY <1>10, <1>11, <1>12
<1>14. a * u <= b * x /\ a * v <= b * y
  BY <1>7, <1>12, <1>13
<1>15. a * (u + v) = a * u + a * v /\ b * (x + y) = b * x + b * y
  OBVIOUS
<1>16. {a * u, a * v, b * x, b * y} \subseteq Nat
  OBVIOUS
<1>17. a * (u + v) <= b * (x + y)
  BY <1>14, <1>15, <1>16
<1> QED BY <1>3, <1>8, <1>9, <1>13, <1>17

-----------------------------------------------------------------------------
(* Orders *)

(* R puts any two elements of S in an order. *)
Orders(R, S) ==
  /\ \A x, y \in S : <<x, y>> \in R \/ <<y, x>> \in R
  /\ \A x, y, z \in S : <<x, y>> \in R /\ <<y, z>> \in R => <<x, z>> \in R
(* p goes through S, each element once, along R. *)
InOrder(p, R, S) ==
  /\ p \in [1..Cardinality(S) -> S]
  /\ \A j, k \in 1..Cardinality(S) : j < k => p[j] # p[k] /\ <<p[j], p[k]>> \in R

LEMMA LastExists ==
  ASSUME NEW S, IsFiniteSet(S), S # {}, NEW R, Orders(R, S)
  PROVE  \E m \in S : \A x \in S : <<x, m>> \in R
<1> DEFINE Bad == {s \in SUBSET S : s # {} /\ ~\E m \in s : \A x \in s : <<x, m>> \in R}
<1> SUFFICES ASSUME Bad # {} PROVE FALSE
  OBVIOUS
<1>1. \A s \in Bad : IsFiniteSet(s) /\ s \in SUBSET S
  BY FS_Subset
<1>2. PICK s \in Bad : \A t \in Bad : Cardinality(s) <= Cardinality(t)
  <2> HIDE DEF Bad
  <2> QED BY <1>1, LeastSet
<1>3. s \in SUBSET S /\ s # {} /\ ~\E m \in s : \A x \in s : <<x, m>> \in R
  BY <1>1, <1>2
<1>4. PICK a : a \in s
  BY <1>3
<1>5. PICK t : t = s \ {a}
  OBVIOUS
<1>6. t \in SUBSET S /\ t \notin Bad
  <2>1. Cardinality(s) \in Nat /\ Cardinality(t) = Cardinality(s) - 1
    BY <1>1, <1>2, <1>4, <1>5, FS_RemoveElement, FS_CardinalityType
  <2>2. t \in SUBSET S
    BY <1>3, <1>5
  <2> HIDE DEF Bad
  <2> QED BY <1>2, <2>1, <2>2
<1>7. t = {} \/ \E m \in t : \A x \in t : <<x, m>> \in R
  BY <1>6
<1> HIDE DEF Bad
<1>8. CASE t = {}
  <2>1. s = {a} /\ <<a, a>> \in R
    BY <1>3, <1>4, <1>5, <1>8 DEF Orders
  <2> QED BY <1>3, <2>1
<1>9. CASE t # {}
  <2>1. PICK m \in t : \A x \in t : <<x, m>> \in R
    BY <1>7, <1>9
  <2>2. m \in s /\ a \in S /\ m \in S /\ \A x \in s : x \in S /\ (x = a \/ x \in t)
    BY <1>3, <1>4, <1>5, <2>1
  <2>3. CASE <<a, m>> \in R
    BY <1>3, <2>1, <2>2, <2>3
  <2>4. CASE <<m, a>> \in R
    <3>1. \A x \in s : <<x, a>> \in R
      BY <2>1, <2>2, <2>4 DEF Orders
    <3> QED BY <1>3, <1>4, <3>1
  <2> QED BY <2>2, <2>3, <2>4 DEF Orders
<1> QED BY <1>8, <1>9

(* A finite set can be gone through along any order of its elements. *)
LEMMA InOrderExists ==
  ASSUME NEW S, IsFiniteSet(S), NEW R, Orders(R, S)
  PROVE  \E p : InOrder(p, R, S)
<1> DEFINE Bad == {s \in SUBSET S : ~\E p : InOrder(p, R, s)}
<1> SUFFICES ASSUME Bad # {} PROVE FALSE
  OBVIOUS
<1>1. \A s \in Bad : IsFiniteSet(s) /\ s \in SUBSET S
  BY FS_Subset
<1>2. PICK s \in Bad : \A t \in Bad : Cardinality(s) <= Cardinality(t)
  <2> HIDE DEF Bad
  <2> QED BY <1>1, LeastSet
<1>3. IsFiniteSet(s) /\ s \in SUBSET S /\ ~\E p : InOrder(p, R, s)
  BY <1>1, <1>2
<1>4. s # {}
  <2> SUFFICES ASSUME s = {} PROVE FALSE
    OBVIOUS
  <2>1. Cardinality(s) = 0 /\ 1..0 = {}
    BY FS_EmptySet
  <2>2. [i \in 1..0 |-> 0] \in [1..0 -> s]
    BY <2>1
  <2>3. InOrder([i \in 1..0 |-> 0], R, s)
    BY <2>1, <2>2 DEF InOrder
  <2> QED BY <1>3, <2>3
<1>5. Orders(R, s)
  BY <1>3 DEF Orders
<1>6. PICK m \in s : \A x \in s : <<x, m>> \in R
  BY <1>3, <1>4, <1>5, LastExists
<1>7. PICK t : t = s \ {m}
  OBVIOUS
<1>8. PICK n : n = Cardinality(s)
  OBVIOUS
<1>9. n \in Nat /\ n # 0 /\ Cardinality(t) = n - 1 /\ t \in SUBSET S /\ t \notin Bad
  <2>1. n \in Nat /\ Cardinality(t) = n - 1 /\ IsFiniteSet(t)
    BY <1>3, <1>6, <1>7, <1>8, FS_RemoveElement, FS_CardinalityType
  <2>2. t \in SUBSET S
    BY <1>3, <1>7
  <2>3. Cardinality(t) \in Nat
    BY <2>1, FS_CardinalityType
  <2> HIDE DEF Bad
  <2> QED BY <1>2, <1>8, <2>1, <2>2, <2>3
<1>10. PICK q : InOrder(q, R, t)
  BY <1>9
<1> HIDE DEF Bad
<1>11. q \in [1..(n - 1) -> t] /\ \A j, k \in 1..(n - 1) : j < k => q[j] # q[k] /\ <<q[j], q[k]>> \in R
  BY <1>9, <1>10 DEF InOrder
<1> DEFINE p == [i \in 1..n |-> IF i = n THEN m ELSE q[i]]
<1>12. \A i \in 1..n : i = n \/ i \in 1..(n - 1)
  BY <1>9
<1>13. p \in [1..n -> s]
  BY <1>7, <1>11, <1>12
<1>14. ASSUME NEW j \in 1..n, NEW k \in 1..n, j < k PROVE p[j] # p[k] /\ <<p[j], p[k]>> \in R
  <2>1. j \in 1..(n - 1) /\ p[j] = q[j] /\ q[j] \in t
    BY <1>9, <1>11, <1>14
  <2>2. CASE k = n
    <3>1. p[k] = m
      BY <2>2
    <3> QED BY <1>6, <1>7, <2>1, <3>1
  <2>3. CASE k # n
    <3>1. k \in 1..(n - 1) /\ p[k] = q[k]
      BY <1>12, <2>3
    <3> QED BY <1>11, <1>14, <2>1, <3>1
  <2> QED BY <2>2, <2>3
<1>15. InOrder(p, R, s)
  <2> HIDE DEF p
  <2> QED BY <1>8, <1>13, <1>14 DEF InOrder
<1> QED BY <1>3, <1>15

(* It then meets every element. *)
LEMMA InOrderCovers ==
  ASSUME NEW S, IsFiniteSet(S), NEW R, NEW p, InOrder(p, R, S), NEW x \in S
  PROVE  \E k \in 1..Cardinality(S) : p[k] = x
<1> DEFINE n == Cardinality(S)
           Met == {p[k] : k \in 1..n}
<1>1. n \in Nat
  BY FS_CardinalityType
<1>2. IsFiniteSet(1..n) /\ Cardinality(1..n) = n
  BY <1>1, FS_Interval
<1>3. p \in [1..n -> S] /\ \A j, k \in 1..n : j < k => p[j] # p[k]
  BY DEF InOrder
<1>4. p \in Bijection(1..n, Met)
  <2>1. \A j, k \in 1..n : p[j] = p[k] => j = k
    BY <1>1, <1>3
  <2> QED BY <1>3, <2>1 DEF Bijection, Injection, Surjection, IsInjective
<1>5. Cardinality(Met) = n
  <2>1. ExistsBijection(1..n, Met)
    BY <1>4 DEF ExistsBijection
  <2> HIDE DEF Met
  <2>2. Cardinality(Met) = Cardinality(1..n)
    BY <1>2, <2>1, FS_Bijection
  <2> QED BY <1>2, <2>2
<1>6. Met \subseteq S
  BY <1>3
<1>7. Met = S
  BY <1>5, <1>6, FS_Subset
<1> QED BY <1>7
=============================================================================
