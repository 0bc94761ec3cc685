---------------------------- MODULE SumTheorems -----------------------------
(***************************************************************************)
(* Facts about sums over finite sets (SumFunctionOnSet of the community    *)
(* modules), on which the proofs about lamports, token supplies and block  *)
(* costs rest.                                                             *)
(*                                                                         *)
(* The library defines a sum by a recursive function on sets.  Induction   *)
(* is used in the form that a set of numbers that contains 0 and is closed *)
(* under successor contains every natural number; it follows from the      *)
(* well-foundedness of < and makes the recursive equation available.       *)
(***************************************************************************)
EXTENDS Integers, FiniteSets, Functions, FiniteSetTheorems, WellFoundedInduction, TLAPS

-----------------------------------------------------------------------------
(* Induction on the natural numbers, for a set of numbers. *)
LEMMA Induction ==
    ASSUME NEW Q, 0 \in Q, \A n \in Nat : n \in Q => n + 1 \in Q
    PROVE  Nat \subseteq Q
<1> SUFFICES ASSUME Nat \ Q # {} PROVE FALSE
  OBVIOUS
<1> DEFINE R == OpToRel(<, Nat)
<1>1. IsWellFoundedOn(R, Nat)
  BY NatLessThanWellFounded
<1>2. \A x, y \in Nat : x < y => <<x, y>> \in R
  BY DEF OpToRel
<1> HIDE DEF R
<1>3. PICK x \in Nat \ Q : \A y \in Nat \ Q : ~ (<<y, x>> \in R)
  BY <1>1, WFMin
<1>4. x # 0 /\ x - 1 \in Nat /\ x - 1 < x
  BY <1>3
<1>5. x - 1 \in Q
  BY <1>2, <1>3, <1>4
<1> QED BY <1>3, <1>4, <1>5

(* The function by which the library defines a sum: g[s] is the sum of the *)
(* values of f on s.                                                       *)
Pick(s) == CHOOSE x \in s : TRUE

Adds(f, S, g) ==
    g = [s \in SUBSET S |-> IF s = {} THEN 0 ELSE f[Pick(s)] + g[s \ {Pick(s)}]]

(* The community module's sum is the value of that function at the set. *)
LEMMA SumDef ==
    ASSUME NEW f, NEW S
    PROVE  SumFunctionOnSet(f, S) = (CHOOSE g : Adds(f, S, g))[S]
BY DEF SumFunctionOnSet, FoldFunctionOnSet, MapThenFoldSet, Adds, Pick

(* Induction on finite sets, for a set of sets: it is enough to add one    *)
(* element at a time.                                                      *)
LEMMA SetInduction ==
    ASSUME NEW S, IsFiniteSet(S), NEW Q, {} \in Q,
           \A s \in SUBSET S : s # {} /\ s \ {Pick(s)} \in Q => s \in Q
    PROVE  SUBSET S \subseteq Q
<1> DEFINE N == {n \in Nat : \A s \in SUBSET S : Cardinality(s) = n => s \in Q}
<1>1. \A s \in SUBSET S : IsFiniteSet(s) /\ Cardinality(s) \in Nat
  BY FS_Subset, FS_CardinalityType
<1>2. 0 \in N
  <2>1. \A s \in SUBSET S : Cardinality(s) = 0 => s = {}
    BY <1>1, FS_EmptySet
  <2> QED BY <2>1
<1>3. ASSUME NEW n \in Nat, n \in N
      PROVE  n + 1 \in N
  <2> SUFFICES ASSUME NEW s \in SUBSET S, Cardinality(s) = n + 1
               PROVE  s \in Q
    OBVIOUS
  <2>1. s # {}
    BY <1>1, FS_EmptySet
  <2>2. Pick(s) \in s
    BY <2>1 DEF Pick
  <2>3. Cardinality(s \ {Pick(s)}) = n
    BY <1>1, <2>2, FS_RemoveElement
  <2>4. s \ {Pick(s)} \in SUBSET S
    OBVIOUS
  <2>5. s \ {Pick(s)} \in Q
    BY <1>3, <2>3, <2>4
  <2> QED BY <2>1, <2>5
<1> HIDE DEF N
<1>4. Nat \subseteq N
  BY <1>2, <1>3, Induction
<1> QED BY <1>1, <1>4 DEF N

(* The function that the definition chooses exists for every finite set. *)
LEMMA AddsExists ==
    ASSUME NEW f, NEW S, IsFiniteSet(S)
    PROVE  \E g : Adds(f, S, g)
<1> DEFINE Small(n) == {s \in SUBSET S : Cardinality(s) <= n}
           Up(n, g) == g = [s \in Small(n) |->
                              IF s = {} THEN 0 ELSE f[Pick(s)] + g[s \ {Pick(s)}]]
           N == {n \in Nat : \E g : Up(n, g)}
<1>1. \A s \in SUBSET S : IsFiniteSet(s) /\ Cardinality(s) \in Nat
  BY FS_Subset, FS_CardinalityType
<1>2. 0 \in N
  <2> DEFINE g == [s \in Small(0) |-> 0]
  <2>1. \A s \in Small(0) : s = {}
    BY <1>1, FS_EmptySet
  <2>2. Up(0, g)
    BY <2>1
  <2> QED BY <2>2
<1>3. ASSUME NEW n \in Nat, n \in N
      PROVE  n + 1 \in N
  <2>1. PICK g : Up(n, g)
    BY <1>3
  <2> DEFINE h == [s \in Small(n + 1) |->
                     IF s = {} THEN 0 ELSE f[Pick(s)] + g[s \ {Pick(s)}]]
  <2>2. Small(n) \subseteq Small(n + 1)
    BY <1>1
  <2>3. \A s \in Small(n) : h[s] = g[s]
    BY <2>1, <2>2
  <2>4. ASSUME NEW s \in Small(n + 1), s # {}
        PROVE  s \ {Pick(s)} \in Small(n)
    <3>1. Pick(s) \in s
      BY <2>4 DEF Pick
    <3>2. Cardinality(s \ {Pick(s)}) = Cardinality(s) - 1
      BY <1>1, <3>1, FS_RemoveElement
    <3> QED BY <1>1, <3>2
  <2>5. Up(n + 1, h)
    BY <2>3, <2>4
  <2> HIDE DEF h, Up
  <2>6. \E k : Up(n + 1, k)
    BY <2>5
  <2> QED BY <2>6
<1> HIDE DEF N
<1>4. Cardinality(S) \in N
  BY <1>1, <1>2, <1>3, Induction
<1>5. PICK g : Up(Cardinality(S), g)
  BY <1>4 DEF N
<1>6. Small(Cardinality(S)) = SUBSET S
  BY FS_Subset
<1> QED BY <1>5, <1>6 DEF Adds

(* Such a function is determined on every set it is defined on. *)
LEMMA AddsUnique ==
    ASSUME NEW f, NEW S, IsFiniteSet(S), NEW T \in SUBSET S,
           NEW g, NEW h, Adds(f, S, g), Adds(f, T, h)
    PROVE  g[T] = h[T]
<1> DEFINE Q == {s \in SUBSET T : g[s] = h[s]}
<1>1. \A s \in SUBSET T :
        /\ g[s] = IF s = {} THEN 0 ELSE f[Pick(s)] + g[s \ {Pick(s)}]
        /\ h[s] = IF s = {} THEN 0 ELSE f[Pick(s)] + h[s \ {Pick(s)}]
  BY DEF Adds
<1>2. {} \in Q
  BY <1>1
<1>3. \A s \in SUBSET T : s # {} /\ s \ {Pick(s)} \in Q => s \in Q
  BY <1>1
<1> HIDE DEF Q
<1>4. SUBSET T \subseteq Q
  BY <1>2, <1>3, FS_Subset, SetInduction
<1> QED BY <1>4 DEF Q

(* The empty sum, and a sum as the definition takes it apart. *)
LEMMA SumStep ==
    ASSUME NEW f, NEW S, IsFiniteSet(S)
    PROVE  SumFunctionOnSet(f, S) =
             IF S = {} THEN 0
             ELSE f[Pick(S)] + SumFunctionOnSet(f, S \ {Pick(S)})
<1> DEFINE T == S \ {Pick(S)}
           g == CHOOSE g : Adds(f, S, g)
           h == CHOOSE h : Adds(f, T, h)
<1>1. IsFiniteSet(T) /\ T \in SUBSET S
  BY FS_Subset
<1>2. Adds(f, S, g)
  BY AddsExists
<1>3. Adds(f, T, h)
  BY <1>1, AddsExists
<1>4. SumFunctionOnSet(f, S) = g[S] /\ SumFunctionOnSet(f, T) = h[T]
  BY SumDef
<1> HIDE DEF g, h
<1>5. g[T] = h[T]
  BY <1>1, <1>2, <1>3, AddsUnique
<1>6. g[S] = IF S = {} THEN 0 ELSE f[Pick(S)] + g[T]
  BY <1>2 DEF Adds
<1> QED BY <1>4, <1>5, <1>6

-----------------------------------------------------------------------------
(* The empty sum. *)
LEMMA SumEmpty ==
    ASSUME NEW f
    PROVE  SumFunctionOnSet(f, {}) = 0
BY FS_EmptySet, SumStep

(* A sum of natural numbers is a natural number. *)
LEMMA SumType ==
    ASSUME NEW f, NEW S, IsFiniteSet(S), \A x \in S : f[x] \in Nat
    PROVE  SumFunctionOnSet(f, S) \in Nat
<1> DEFINE Q == {s \in SUBSET S : SumFunctionOnSet(f, s) \in Nat}
<1>1. \A s \in SUBSET S : IsFiniteSet(s)
  BY FS_Subset
<1>2. {} \in Q
  BY SumEmpty
<1>3. ASSUME NEW s \in SUBSET S, s # {}, s \ {Pick(s)} \in Q
      PROVE  s \in Q
  <2>1. f[Pick(s)] \in Nat
    BY <1>3 DEF Pick
  <2>2. SumFunctionOnSet(f, s) = f[Pick(s)] + SumFunctionOnSet(f, s \ {Pick(s)})
    BY <1>1, <1>3, SumStep
  <2> QED BY <1>3, <2>1, <2>2
<1> HIDE DEF Q
<1>4. SUBSET S \subseteq Q
  BY <1>2, <1>3, SetInduction
<1> QED BY <1>4 DEF Q

(* The order of the summands does not matter: any of them can be taken out *)
(* first.                                                                  *)
LEMMA SumRemove ==
    ASSUME NEW f, NEW S, IsFiniteSet(S), \A x \in S : f[x] \in Nat, NEW x \in S
    PROVE  SumFunctionOnSet(f, S) = f[x] + SumFunctionOnSet(f, S \ {x})
<1> DEFINE Sum(s) == SumFunctionOnSet(f, s)
           N == {n \in Nat : \A s \in SUBSET S : Cardinality(s) = n =>
                                \A y \in s : Sum(s) = f[y] + Sum(s \ {y})}
<1>1. \A s \in SUBSET S : IsFiniteSet(s) /\ Cardinality(s) \in Nat
  BY FS_Subset, FS_CardinalityType
<1>2. \A s \in SUBSET S : Sum(s) \in Nat
  BY <1>1, SumType
<1>3. \A s \in SUBSET S : s # {} => Sum(s) = f[Pick(s)] + Sum(s \ {Pick(s)})
  BY <1>1, SumStep
<1> HIDE DEF Sum
<1>4. 0 \in N
  <2>1. \A s \in SUBSET S : Cardinality(s) = 0 => s = {}
    BY <1>1, FS_EmptySet
  <2> QED BY <2>1
<1>5. ASSUME NEW n \in Nat, n \in N
      PROVE  n + 1 \in N
  <2> SUFFICES ASSUME NEW s \in SUBSET S, Cardinality(s) = n + 1, NEW y \in s
               PROVE  Sum(s) = f[y] + Sum(s \ {y})
    OBVIOUS
  <2> DEFINE c == Pick(s)
  <2>1. c \in s
    BY DEF Pick
  <2>2. Sum(s) = f[c] + Sum(s \ {c})
    BY <1>3
  <2> HIDE DEF c
  <2>3. CASE y = c
    BY <2>2, <2>3
  <2>4. CASE y # c
    <3>1. Cardinality(s \ {c}) = n /\ Cardinality(s \ {y}) = n
      BY <1>1, <2>1, FS_RemoveElement
    <3>2. s \ {c} \in SUBSET S /\ s \ {y} \in SUBSET S
      OBVIOUS
    <3>3. y \in s \ {c} /\ c \in s \ {y}
      BY <2>1, <2>4
    <3>4. Sum(s \ {c}) = f[y] + Sum((s \ {c}) \ {y})
      BY <1>5, <3>1, <3>2, <3>3
    <3>5. Sum(s \ {y}) = f[c] + Sum((s \ {y}) \ {c})
      BY <1>5, <3>1, <3>2, <3>3
    <3>6. (s \ {c}) \ {y} = (s \ {y}) \ {c}
      OBVIOUS
    <3>7. f[c] \in Nat /\ f[y] \in Nat /\ Sum((s \ {y}) \ {c}) \in Nat
      BY <1>2, <2>1
    <3> DEFINE rest == Sum((s \ {y}) \ {c})
    <3>8. Sum(s \ {c}) = f[y] + rest
      BY <3>4, <3>6, Zenon
    <3>9. f[c] + (f[y] + rest) = f[y] + (f[c] + rest)
      <4> HIDE DEF rest
      <4>1. rest \in Nat
        BY <3>7 DEF rest
      <4> QED BY <3>7, <4>1, SMTT(30)
    <3> QED BY <2>2, <3>5, <3>8, <3>9, Zenon
  <2> QED BY <2>3, <2>4
<1> HIDE DEF N
<1>6. Nat \subseteq N
  BY <1>4, <1>5, Induction
<1>7. Sum(S) = f[x] + Sum(S \ {x})
  BY <1>1, <1>6 DEF N
<1> QED BY <1>7 DEF Sum

(* A sum depends on the values of its summands only. *)
LEMMA SumEqual ==
    ASSUME NEW f, NEW g, NEW S, IsFiniteSet(S), \A x \in S : f[x] = g[x]
    PROVE  SumFunctionOnSet(f, S) = SumFunctionOnSet(g, S)
<1> DEFINE Q == {s \in SUBSET S : SumFunctionOnSet(f, s) = SumFunctionOnSet(g, s)}
<1>1. \A s \in SUBSET S : IsFiniteSet(s)
  BY FS_Subset
<1>2. {} \in Q
  BY SumEmpty
<1>3. ASSUME NEW s \in SUBSET S, s # {}, s \ {Pick(s)} \in Q
      PROVE  s \in Q
  <2>1. f[Pick(s)] = g[Pick(s)]
    BY <1>3 DEF Pick
  <2>2. SumFunctionOnSet(f, s) = f[Pick(s)] + SumFunctionOnSet(f, s \ {Pick(s)})
    BY <1>1, <1>3, SumStep
  <2>3. SumFunctionOnSet(g, s) = g[Pick(s)] + SumFunctionOnSet(g, s \ {Pick(s)})
    BY <1>1, <1>3, SumStep
  <2> QED BY <1>3, <2>1, <2>2, <2>3
<1> HIDE DEF Q
<1>4. SUBSET S \subseteq Q
  BY <1>2, <1>3, SetInduction
<1> QED BY <1>4 DEF Q

(* Changing one summand changes the sum by as much. *)
LEMMA SumChange ==
    ASSUME NEW f, NEW g, NEW S, IsFiniteSet(S),
           \A x \in S : f[x] \in Nat /\ g[x] \in Nat,
           NEW k \in S, \A x \in S \ {k} : g[x] = f[x]
    PROVE  SumFunctionOnSet(g, S) + f[k] = SumFunctionOnSet(f, S) + g[k]
<1>1. IsFiniteSet(S \ {k})
  BY FS_Subset
<1>2. SumFunctionOnSet(f, S) = f[k] + SumFunctionOnSet(f, S \ {k})
  BY SumRemove
<1>3. SumFunctionOnSet(g, S) = g[k] + SumFunctionOnSet(g, S \ {k})
  BY SumRemove
<1>4. SumFunctionOnSet(g, S \ {k}) = SumFunctionOnSet(f, S \ {k})
  BY <1>1, SumEqual
<1>5. SumFunctionOnSet(f, S \ {k}) \in Nat
  BY <1>1, SumType
<1> QED BY <1>2, <1>3, <1>4, <1>5

(* Moving an amount from one summand to another leaves the sum as it was. *)
LEMMA SumMove ==
    ASSUME NEW f, NEW g, NEW S, IsFiniteSet(S),
           \A x \in S : f[x] \in Nat /\ g[x] \in Nat,
           NEW j \in S, NEW k \in S, j # k,
           \A x \in S \ {j, k} : g[x] = f[x],
           f[j] + f[k] = g[j] + g[k]
    PROVE  SumFunctionOnSet(g, S) = SumFunctionOnSet(f, S)
<1> DEFINE T == S \ {k}
           U == T \ {j}
<1>1. IsFiniteSet(T) /\ IsFiniteSet(U) /\ j \in T
  BY FS_Subset
<1>2. SumFunctionOnSet(f, S) = f[k] + SumFunctionOnSet(f, T)
  BY SumRemove
<1>3. SumFunctionOnSet(g, S) = g[k] + SumFunctionOnSet(g, T)
  BY SumRemove
<1>4. SumFunctionOnSet(f, T) = f[j] + SumFunctionOnSet(f, U)
  BY <1>1, SumRemove
<1>5. SumFunctionOnSet(g, T) = g[j] + SumFunctionOnSet(g, U)
  BY <1>1, SumRemove
<1>6. SumFunctionOnSet(g, U) = SumFunctionOnSet(f, U)
  BY <1>1, SumEqual
<1>7. SumFunctionOnSet(f, U) \in Nat
  BY <1>1, SumType
<1> QED BY <1>2, <1>3, <1>4, <1>5, <1>6, <1>7

(* No two summands exceed the sum. *)
LEMMA SumBound ==
    ASSUME NEW f, NEW S, IsFiniteSet(S), \A x \in S : f[x] \in Nat
    PROVE  /\ \A j \in S : f[j] <= SumFunctionOnSet(f, S)
           /\ \A j, k \in S : j # k => f[j] + f[k] <= SumFunctionOnSet(f, S)
<1>1. ASSUME NEW j \in S
      PROVE  /\ SumFunctionOnSet(f, S) = f[j] + SumFunctionOnSet(f, S \ {j})
             /\ SumFunctionOnSet(f, S \ {j}) \in Nat
  <2>1. IsFiniteSet(S \ {j})
    BY FS_Subset
  <2> QED BY <2>1, SumRemove, SumType
<1>2. ASSUME NEW j \in S, NEW k \in S, j # k
      PROVE  /\ SumFunctionOnSet(f, S \ {j}) = f[k] + SumFunctionOnSet(f, (S \ {j}) \ {k})
             /\ SumFunctionOnSet(f, (S \ {j}) \ {k}) \in Nat
  <2>1. IsFiniteSet(S \ {j}) /\ IsFiniteSet((S \ {j}) \ {k}) /\ k \in S \ {j}
    BY <1>2, FS_Subset
  <2> QED BY <2>1, SumRemove, SumType
<1>3. ASSUME NEW j \in S
      PROVE  f[j] <= SumFunctionOnSet(f, S)
  <2>1. f[j] \in Nat
    OBVIOUS
  <2>2. /\ SumFunctionOnSet(f, S) = f[j] + SumFunctionOnSet(f, S \ {j})
        /\ SumFunctionOnSet(f, S \ {j}) \in Nat
    BY <1>1
  <2> QED BY <2>1, <2>2
<1>4. ASSUME NEW j \in S, NEW k \in S, j # k
      PROVE  f[j] + f[k] <= SumFunctionOnSet(f, S)
  <2>1. f[j] \in Nat /\ f[k] \in Nat
    OBVIOUS
  <2>2. SumFunctionOnSet(f, S) = f[j] + SumFunctionOnSet(f, S \ {j})
    BY <1>1
  <2>3. /\ SumFunctionOnSet(f, S \ {j}) = f[k] + SumFunctionOnSet(f, (S \ {j}) \ {k})
        /\ SumFunctionOnSet(f, (S \ {j}) \ {k}) \in Nat
    BY <1>2, <1>4
  <2> QED BY <2>1, <2>2, <2>3
<1> QED BY <1>3, <1>4

(* The sum over two sets that have nothing in common is the sum of sums. *)
LEMMA SumUnion ==
    ASSUME NEW f, NEW S, NEW T, IsFiniteSet(S), IsFiniteSet(T), S \cap T = {},
           \A x \in S \cup T : f[x] \in Nat
    PROVE  SumFunctionOnSet(f, S \cup T) = SumFunctionOnSet(f, S) + SumFunctionOnSet(f, T)
<1> DEFINE Sum(s) == SumFunctionOnSet(f, s)
           Q == {s \in SUBSET T : Sum(S \cup s) = Sum(S) + Sum(s)}
<1>1. \A s \in SUBSET T : /\ IsFiniteSet(s) /\ IsFiniteSet(S \cup s)
                          /\ Sum(s) \in Nat /\ Sum(S \cup s) \in Nat
  <2> TAKE s \in SUBSET T
  <2>1. IsFiniteSet(s)
    BY FS_Subset
  <2>2. IsFiniteSet(S \cup s)
    BY <2>1, FS_Union
  <2> QED BY <2>1, <2>2, SumType
<1>2. {} \in Q
  <2>1. Sum({}) = 0 /\ S \cup {} = S /\ Sum(S) \in Nat
    BY SumEmpty, SumType
  <2> HIDE DEF Sum
  <2> QED BY <2>1
<1>3. ASSUME NEW s \in SUBSET T, s # {}, s \ {Pick(s)} \in Q
      PROVE  s \in Q
  <2>1. PICK p \in s : p = Pick(s)
    BY <1>3 DEF Pick
  <2>a. /\ s \ {p} \in SUBSET T /\ p \in S \cup s /\ f[p] \in Nat
        /\ IsFiniteSet(s) /\ IsFiniteSet(S \cup s)
        /\ \A x \in s : f[x] \in Nat
        /\ \A x \in S \cup s : f[x] \in Nat
    BY <1>1
  <2>2. Sum(s) = f[p] + Sum(s \ {p})
    BY <2>a, SumRemove
  <2>3. Sum(S \cup s) = f[p] + Sum((S \cup s) \ {p})
    BY <2>a, SumRemove
  <2>4. (S \cup s) \ {p} = S \cup (s \ {p})
    OBVIOUS
  <2>5. Sum(S \cup (s \ {p})) = Sum(S) + Sum(s \ {p})
    BY <1>3, <2>1
  <2>6. Sum(S) \in Nat /\ Sum(s \ {p}) \in Nat
    <3>1. Sum(S) \in Nat
      BY SumType
    <3> HIDE DEF Sum
    <3> QED BY <1>1, <2>a, <3>1
  <2> HIDE DEF Sum
  <2>7. Sum(S \cup s) = Sum(S) + Sum(s)
    BY <2>a, <2>2, <2>3, <2>4, <2>5, <2>6
  <2> QED BY <2>7 DEF Sum
<1>4. SUBSET T \subseteq Q
  <2> HIDE DEF Q
  <2> QED BY <1>2, <1>3, SetInduction
<1> QED BY <1>4

=============================================================================
