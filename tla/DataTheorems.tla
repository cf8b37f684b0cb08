---------------------------- MODULE DataTheorems ----------------------------
(***************************************************************************)
(* Facts about numbers, recursive functions and orders that the proofs     *)
(* about data share.  The induction theorems of the library take an        *)
(* operator, which no installed prover instantiates; these take sets and   *)
(* functions.                                                              *)
(***************************************************************************)
EXTENDS Integers, FiniteSetTheorems, WellFoundedInduction, TLAPS

(* Induction: a set that begins at 0 and is closed under successor.        *)
LEMMA Climb ==
  ASSUME NEW S, 0 \in S, \A n \in Nat : n \in S => n + 1 \in S
  PROVE  Nat \subseteq S
<1> DEFINE T == {n \in Nat : n \notin S}
           R == OpToRel(<, Nat)
<1>1. IsWellFoundedOn(R, Nat)
  BY NatLessThanWellFounded
<1>2. SUFFICES ASSUME T # {} PROVE FALSE
  OBVIOUS
<1>3. PICK x \in T : \A y \in T : ~ (<<y, x>> \in R)
  <2> HIDE DEF T, R
  <2>1. T \subseteq Nat
    BY DEF T
  <2> QED
    BY <1>1, <1>2, <2>1, WFMin
<1>4. x # 0 /\ x \in Nat /\ x - 1 \in Nat
  OBVIOUS
<1>5. x - 1 \in T
  BY <1>4
<1>6. <<x - 1, x>> \in R
  BY <1>4 DEF OpToRel
<1> QED
  BY <1>3, <1>5, <1>6

(* Every set of numbers that is not empty has a least one.                 *)
LEMMA LeastNumber ==
  ASSUME NEW T \in SUBSET Nat, T # {}
  PROVE  \E x \in T : \A y \in T : x <= y
<1> DEFINE R == OpToRel(<, Nat)
<1>1. IsWellFoundedOn(R, Nat)
  BY NatLessThanWellFounded
<1>2. PICK x \in T : \A y \in T : ~ (<<y, x>> \in R)
  <2> HIDE DEF R
  <2> QED
    BY <1>1, WFMin
<1>3. \A y \in T : ~ (y < x)
  BY <1>2 DEF OpToRel
<1> QED
  BY <1>3

(* A recursion over an interval has a solution.                            *)
Steps(V, n) == [(1..n) \X V -> V]
Solves(f, V, base, n, next) ==
  f \in [0..n -> V] /\ f[0] = base /\ \A i \in 1..n : f[i] = next[<<i, f[i - 1]>>]

LEMMA Recursion ==
  ASSUME NEW V, NEW base, base \in V, NEW n, n \in Nat, NEW next, next \in Steps(V, n)
  PROVE  \E f : Solves(f, V, base, n, next)
<1> USE DEF Steps, Solves
<1> DEFINE S == {k \in Nat : k <= n => \E f \in [0..k -> V] : Solves(f, V, base, k, next)}
<1>1. 0 \in S
  <2>1. Solves([i \in 0..0 |-> base], V, base, 0, next)
    OBVIOUS
  <2> QED
    BY <2>1
<1>2. ASSUME NEW k \in Nat, k \in S PROVE k + 1 \in S
  <2> SUFFICES ASSUME k + 1 <= n PROVE \E f \in [0..(k + 1) -> V] : Solves(f, V, base, k + 1, next)
    OBVIOUS
  <2>1. PICK f \in [0..k -> V] : Solves(f, V, base, k, next)
    BY <1>2
  <2> DEFINE last == next[<<k + 1, f[k]>>]
             g == [i \in 0..(k + 1) |-> IF i <= k THEN f[i] ELSE last]
  <2>2. f[k] \in V /\ k + 1 \in 1..n
    BY <2>1
  <2>3. last \in V
    BY <2>2
  <2>4. g \in [0..(k + 1) -> V] /\ g[0] = base
    BY <2>1, <2>3
  <2>5. \A i \in 1..(k + 1) : g[i] = next[<<i, g[i - 1]>>]
    <3> TAKE i \in 1..(k + 1)
    <3>1. CASE i <= k
      <4>1. i \in 1..k /\ i - 1 \in 0..k
        BY <3>1
      <4>2. g[i] = f[i] /\ g[i - 1] = f[i - 1]
        BY <4>1
      <4> HIDE DEF g
      <4> QED
        BY <4>1, <4>2, <2>1
    <3>2. CASE i = k + 1
      <4>1. g[i] = last /\ g[i - 1] = f[k] /\ i - 1 = k
        BY <3>2
      <4> HIDE DEF g
      <4> QED
        BY <3>2, <4>1
    <3> QED
      BY <3>1, <3>2
  <2> HIDE DEF g
  <2> QED
    BY <2>4, <2>5
<1>3. n \in S
  <2> HIDE DEF S
  <2> QED
    BY <1>1, <1>2, Climb
<1> QED
  BY <1>3

(* A function has no more values than arguments, and as many when no two   *)
(* arguments share one.                                                    *)
LEMMA Values ==
  ASSUME NEW S, IsFiniteSet(S), NEW f, DOMAIN f = S, f = [x \in S |-> f[x]]
  PROVE  /\ IsFiniteSet({f[x] : x \in S})
         /\ Cardinality({f[x] : x \in S}) <= Cardinality(S)
         /\ (\A x, y \in S : f[x] = f[y] => x = y) => Cardinality({f[x] : x \in S}) = Cardinality(S)
<1> DEFINE T == {f[x] : x \in S}
<1>1. f \in [S -> T] /\ \A t \in T : \E x \in S : f[x] = t
  OBVIOUS
<1>2. f \in Surjection(S, T)
  <2> HIDE DEF T
  <2> QED
    BY <1>1 DEF Surjection
<1>3. (\A x, y \in S : f[x] = f[y] => x = y) => f \in Injection(S, T)
  <2> HIDE DEF T
  <2> QED
    BY <1>1 DEF Injection, IsInjective
<1> HIDE DEF T
<1>4. IsFiniteSet(T) /\ Cardinality(T) <= Cardinality(S)
        /\ (Cardinality(T) = Cardinality(S) <=> f \in Injection(S, T))
  BY <1>2, FS_Surjection
<1> QED
  BY <1>3, <1>4 DEF T

-----------------------------------------------------------------------------
(* Strict linear orders of a finite set S: behind[x] is what comes before  *)
(* x.  The number of elements before one is its place.                     *)

LinearOn(S, behind) ==
  /\ behind \in [S -> SUBSET S]
  /\ \A x \in S : x \notin behind[x]
  /\ \A x, y \in S : x # y => x \in behind[y] \/ y \in behind[x]
  /\ \A x, y \in S : x \in behind[y] => behind[x] \subseteq behind[y]

(* A proper part of a finite set is smaller.                               *)
LEMMA ProperPart ==
  ASSUME NEW S, IsFiniteSet(S), NEW T \in SUBSET S, NEW x \in S, x \notin T
  PROVE  Cardinality(T) \in Nat /\ Cardinality(S) \in Nat /\ Cardinality(T) < Cardinality(S)
<1>1. IsFiniteSet(T) /\ Cardinality(T) <= Cardinality(S) /\ (Cardinality(S) = Cardinality(T) => S = T)
  BY FS_Subset
<1>2. Cardinality(T) \in Nat /\ Cardinality(S) \in Nat
  BY <1>1, FS_CardinalityType
<1> QED
  BY <1>1, <1>2

(* Fewer come before what comes first, and no two have as many before them. *)
LEMMA PlacesDiffer ==
  ASSUME NEW S, IsFiniteSet(S), NEW behind, LinearOn(S, behind)
  PROVE  /\ \A x \in S : IsFiniteSet(behind[x]) /\ Cardinality(behind[x]) \in 0..(Cardinality(S) - 1)
         /\ \A x, y \in S : x \in behind[y] <=> Cardinality(behind[x]) < Cardinality(behind[y])
         /\ \A x, y \in S : Cardinality(behind[x]) = Cardinality(behind[y]) => x = y
<1> USE DEF LinearOn
<1>1. ASSUME NEW x \in S
      PROVE  IsFiniteSet(behind[x]) /\ Cardinality(behind[x]) \in 0..(Cardinality(S) - 1)
  <2>1. Cardinality(behind[x]) \in Nat /\ Cardinality(S) \in Nat /\ Cardinality(behind[x]) < Cardinality(S)
    BY ProperPart
  <2> QED
    BY <2>1, FS_Subset
<1>2. ASSUME NEW x \in S, NEW y \in S, x \in behind[y]
      PROVE  Cardinality(behind[x]) < Cardinality(behind[y])
  BY <1>1, <1>2, ProperPart
<1>3. ASSUME NEW x \in S, NEW y \in S, Cardinality(behind[x]) < Cardinality(behind[y])
      PROVE  x \in behind[y]
  <2>1. CASE y \in behind[x]
    <3>1. Cardinality(behind[y]) < Cardinality(behind[x])
      BY <2>1, <1>2
    <3> QED
      BY <3>1, <1>3, <1>1
  <2>2. CASE x = y
    BY <2>2, <1>3, <1>1
  <2> QED
    BY <2>1, <2>2
<1>4. ASSUME NEW x \in S, NEW y \in S, Cardinality(behind[x]) = Cardinality(behind[y])
      PROVE  x = y
  <2>1. ~(Cardinality(behind[x]) < Cardinality(behind[y])) /\ ~(Cardinality(behind[y]) < Cardinality(behind[x]))
    BY <1>4, <1>1
  <2> QED
    BY <2>1, <1>2
<1> QED
  BY <1>1, <1>2, <1>3, <1>4

(* Every place is taken.                                                   *)
LEMMA PlacesTaken ==
  ASSUME NEW S, IsFiniteSet(S), NEW behind, LinearOn(S, behind),
         NEW n \in 0..(Cardinality(S) - 1)
  PROVE  \E x \in S : Cardinality(behind[x]) = n
<1> DEFINE N == Cardinality(S)
           T == 0..(N - 1)
           f == [x \in S |-> Cardinality(behind[x])]
<1>1. N \in Nat
  BY FS_CardinalityType
<1>2. IsFiniteSet(T) /\ Cardinality(T) = N
  <2> HIDE DEF N
  <2> QED
    BY <1>1, FS_Interval
<1>3. f \in Injection(S, T)
  <2>1. f \in [S -> T]
    BY PlacesDiffer
  <2>2. \A x, y \in S : f[x] = f[y] => x = y
    BY PlacesDiffer
  <2> HIDE DEF f, T
  <2> QED
    BY <2>1, <2>2 DEF Injection, IsInjective
<1>4. f \in Surjection(S, T)
  <2> HIDE DEF f, T
  <2> QED
    BY <1>2, <1>3, FS_Injection
<1>5. \A t \in T : \E x \in S : f[x] = t
  <2> HIDE DEF f, T
  <2> QED
    BY <1>4 DEF Surjection
<1>6. PICK x \in S : f[x] = n
  BY <1>5
<1> QED
  BY <1>6

Lists(order, S, behind) ==
  /\ DOMAIN order = 1..Cardinality(S)
  /\ \A i \in DOMAIN order : order[i] \in S /\ Cardinality(behind[order[i]]) = i - 1

(* A list of the elements by their places has each of them once.           *)
LEMMA Listed ==
  ASSUME NEW S, IsFiniteSet(S), NEW behind, LinearOn(S, behind), NEW order, Lists(order, S, behind)
  PROVE  /\ Cardinality(S) \in Nat
         /\ \A x \in S : \E i \in DOMAIN order : order[i] = x
         /\ \A i, j \in DOMAIN order : order[i] = order[j] => i = j
<1> DEFINE N == Cardinality(S)
<1>1. N \in Nat
  BY FS_CardinalityType
<1>2. \A i \in 1..N : order[i] \in S /\ Cardinality(behind[order[i]]) = i - 1
  BY DEF Lists
<1>3. ASSUME NEW x \in S PROVE \E i \in 1..N : order[i] = x
  <2> DEFINE i == Cardinality(behind[x]) + 1
  <2>1. Cardinality(behind[x]) \in 0..(N - 1)
    BY PlacesDiffer
  <2> HIDE DEF N
  <2>2. i \in 1..N /\ i - 1 = Cardinality(behind[x])
    BY <1>1, <2>1
  <2> HIDE DEF i
  <2>3. order[i] \in S /\ Cardinality(behind[order[i]]) = Cardinality(behind[x])
    BY <1>2, <2>2
  <2>4. order[i] = x
    BY <2>3, PlacesDiffer
  <2> QED
    BY <2>2, <2>4
<1> HIDE DEF N
<1>4. \A i, j \in 1..N : order[i] = order[j] => i = j
  BY <1>2
<1> QED
  BY <1>1, <1>3, <1>4 DEF N, Lists

-----------------------------------------------------------------------------

(* A sum over a finite set is the one function on its subsets that takes   *)
(* away an element after the other.                                        *)
Adding(f, O, g) ==
  [s \in SUBSET O |-> IF s = {} THEN 0 ELSE f[CHOOSE x \in s : TRUE] + g[s \ {CHOOSE x \in s : TRUE}]]
Sums(f, O) == CHOOSE g : g = Adding(f, O, g)

LEMMA SumExists ==
  ASSUME NEW f, NEW O, IsFiniteSet(O)
  PROVE  Sums(f, O) = Adding(f, O, Sums(f, O))
<1> DEFINE one(s) == CHOOSE x \in s : TRUE
           small(k) == {s \in SUBSET O : Cardinality(s) <= k}
           Level2(g, k) == \A s \in small(k) : g[s] = IF s = {} THEN 0 ELSE f[one(s)] + g[s \ {one(s)}]
           T == {k \in Nat : \E g : Level2(g, k)}
<1>1. \A s \in SUBSET O : IsFiniteSet(s) /\ Cardinality(s) \in Nat /\ Cardinality(s) <= Cardinality(O)
  BY FS_Subset, FS_CardinalityType
<1>2. \A s \in SUBSET O : s # {} => one(s) \in s
  OBVIOUS
<1>3. \A s \in SUBSET O : s # {} => s \ {one(s)} \in SUBSET O /\ Cardinality(s \ {one(s)}) = Cardinality(s) - 1
  BY <1>1, <1>2, FS_RemoveElement
<1>4. 0 \in T
  <2> DEFINE g == [s \in SUBSET O |-> 0]
  <2>1. \A s \in small(0) : s = {}
    BY <1>1, FS_EmptySet
  <2>2. Level2(g, 0)
    BY <2>1
  <2> QED
    BY <2>2
<1> HIDE DEF one
<1>5. ASSUME NEW k \in Nat, k \in T PROVE k + 1 \in T
  <2>1. PICK g : Level2(g, k)
    BY <1>5
  <2> DEFINE h == [s \in SUBSET O |-> IF Cardinality(s) <= k THEN g[s] ELSE f[one(s)] + g[s \ {one(s)}]]
  <2>2. ASSUME NEW s \in small(k + 1)
        PROVE  h[s] = IF s = {} THEN 0 ELSE f[one(s)] + h[s \ {one(s)}]
    <3>1. CASE s = {}
      <4>1. Cardinality(s) <= k /\ s \in small(k)
        BY <3>1, FS_EmptySet
      <4>2. g[s] = 0
        BY <2>1, <3>1, <4>1
      <4> QED
        BY <3>1, <4>1, <4>2
    <3>2. CASE s # {}
      <4> DEFINE r == s \ {one(s)}
      <4>1. r \in SUBSET O /\ Cardinality(r) = Cardinality(s) - 1 /\ Cardinality(s) \in Nat /\ Cardinality(s) <= k + 1
        BY <1>1, <1>3, <3>2
      <4>2. h[r] = g[r]
        BY <4>1
      <4>3. h[s] = f[one(s)] + g[r]
        <5>1. CASE Cardinality(s) <= k
          BY <2>1, <3>2, <5>1
        <5>2. CASE ~(Cardinality(s) <= k)
          BY <5>2
        <5> QED
          BY <5>1, <5>2
      <4> HIDE DEF h
      <4> QED
        BY <3>2, <4>2, <4>3
    <3> QED
      BY <3>1, <3>2
  <2>3. Level2(h, k + 1)
    <3> HIDE DEF h
    <3> QED
      BY <2>2
  <2> HIDE DEF Level2, h
  <2> QED
    BY <2>3
<1>6. Cardinality(O) \in T
  <2>1. Cardinality(O) \in Nat
    BY FS_CardinalityType
  <2> HIDE DEF T
  <2> QED
    BY <1>4, <1>5, <2>1, Climb
<1>7. PICK g : Level2(g, Cardinality(O))
  BY <1>6
<1>8. \A s \in SUBSET O : g[s] = IF s = {} THEN 0 ELSE f[one(s)] + g[s \ {one(s)}]
  BY <1>1, <1>7
<1> DEFINE h == [s \in SUBSET O |-> g[s]]
<1>9. h = Adding(f, O, h)
  <2>1. \A s \in SUBSET O : h[s] = IF s = {} THEN 0 ELSE f[one(s)] + h[s \ {one(s)}]
    BY <1>3, <1>8
  <2>2. h = [s \in SUBSET O |-> h[s]]
    OBVIOUS
  <2> HIDE DEF h
  <2>3. h = [s \in SUBSET O |-> IF s = {} THEN 0 ELSE f[one(s)] + h[s \ {one(s)}]]
    BY <2>1, <2>2
  <2> QED
    BY <2>3 DEF Adding, one
<1> HIDE DEF h
<1> QED
  BY <1>9 DEF Sums

(* Two of them agree on a set when what they add agrees there.             *)
LEMMA OneSum ==
  ASSUME NEW O, IsFiniteSet(O), NEW f, NEW g, g = Adding(f, O, g),
         NEW P, NEW e, NEW h, h = Adding(e, P, h),
         NEW s \in SUBSET O, s \subseteq P, \A x \in s : e[x] = f[x]
  PROVE  g[s] = h[s]
<1> DEFINE T == {n \in Nat : \A r \in SUBSET s : Cardinality(r) = n => g[r] = h[r]}
<1>1. \A r \in SUBSET s : IsFiniteSet(r) /\ Cardinality(r) \in Nat
  <2>1. IsFiniteSet(s)
    BY FS_Subset
  <2> QED
    BY <2>1, FS_Subset, FS_CardinalityType
<1>2. 0 \in T
  <2>1. \A r \in SUBSET s : Cardinality(r) = 0 => r = {}
    BY <1>1, FS_EmptySet
  <2>2. g[{}] = 0 /\ h[{}] = 0
    BY DEF Adding
  <2> QED
    BY <2>1, <2>2
<1>3. ASSUME NEW n \in Nat, n \in T PROVE n + 1 \in T
  <2> SUFFICES ASSUME NEW r \in SUBSET s, Cardinality(r) = n + 1 PROVE g[r] = h[r]
    OBVIOUS
  <2> DEFINE x == CHOOSE x \in r : TRUE
  <2>1. r # {}
    BY FS_EmptySet
  <2>2. x \in r
    BY <2>1
  <2>3. g[r] = f[x] + g[r \ {x}] /\ h[r] = e[x] + h[r \ {x}]
    BY <2>1 DEF Adding
  <2> HIDE DEF x
  <2>4. Cardinality(r \ {x}) = Cardinality(r) - 1 /\ r \ {x} \in SUBSET s
    BY <1>1, <2>2, FS_RemoveElement
  <2>5. g[r \ {x}] = h[r \ {x}] /\ e[x] = f[x]
    BY <1>3, <2>2, <2>4
  <2> QED
    BY <2>3, <2>5
<1> HIDE DEF T
<1>4. Nat \subseteq T
  BY <1>2, <1>3, Climb
<1> QED
  BY <1>1, <1>4 DEF T

(* The order of summation does not matter.                                 *)
OneByOne(g, f, O) == \A s \in SUBSET O : \A x \in O \ s : g[s \cup {x}] = g[s] + f[x]

LEMMA SumAdds ==
  ASSUME NEW O, IsFiniteSet(O), NEW f, \A x \in O : f[x] \in Int, NEW g, g = Adding(f, O, g)
  PROVE  /\ g[{}] = 0
         /\ \A s \in SUBSET O : g[s] \in Int
         /\ OneByOne(g, f, O)
<1> DEFINE one(s) == CHOOSE x \in s : TRUE
           P(r) == g[r] \in Int /\ \A x \in r : g[r] = g[r \ {x}] + f[x]
           T == {n \in Nat : \A r \in SUBSET O : Cardinality(r) <= n => P(r)}
<1>1. \A s \in SUBSET O : IsFiniteSet(s) /\ Cardinality(s) \in Nat
  BY FS_Subset, FS_CardinalityType
<1>2. \A s \in SUBSET O : g[s] = IF s = {} THEN 0 ELSE f[one(s)] + g[s \ {one(s)}]
  BY DEF Adding
<1> HIDE DEF one
<1>2a. {} \in SUBSET O
  OBVIOUS
<1>2b. g[{}] = 0
  BY <1>2, <1>2a
<1> USE DEF one
<1>3. 0 \in T
  <2>1. \A r \in SUBSET O : Cardinality(r) <= 0 => r = {}
    BY <1>1, FS_EmptySet
  <2>2. P({})
    BY <1>2b
  <2> HIDE DEF P
  <2> QED
    BY <2>1, <2>2
<1>4. \A s \in SUBSET O : s # {} => one(s) \in s
  OBVIOUS
<1> HIDE DEF one
<1>6. ASSUME NEW r \in SUBSET O, \A s \in SUBSET r : s # r => P(s)
      PROVE  P(r)
  <2>1. CASE r = {}
    BY <1>2b, <2>1
  <2>2. CASE r # {}
    <3> DEFINE c == one(r)
    <3>1. c \in r /\ g[r] = f[c] + g[r \ {c}]
      BY <1>2, <1>4, <2>2
    <3> HIDE DEF c
    <3>2. g[r \ {c}] \in Int /\ f[c] \in Int
      <4>1. r \ {c} \in SUBSET r /\ r \ {c} # r
        BY <3>1
      <4> QED
        BY <1>6, <3>1, <4>1
    <3>3. ASSUME NEW x \in r, x # c
          PROVE  g[r] = g[r \ {x}] + f[x]
      <4> DEFINE q == (r \ {x}) \ {c}
      <4>1. x \in r \ {c} /\ c \in r \ {x} /\ q = (r \ {c}) \ {x}
        BY <3>1, <3>3
      <4> HIDE DEF q
      <4>2. P(r \ {c}) /\ P(r \ {x})
        <5>1. r \ {c} \in SUBSET r /\ r \ {c} # r /\ r \ {x} \in SUBSET r /\ r \ {x} # r
          BY <3>1, <3>3
        <5> QED
          BY <1>6, <5>1
      <4>3. g[r \ {c}] = g[q] + f[x]
        BY <4>1, <4>2
      <4>4. g[r \ {x}] = g[q] + f[c]
        BY <4>1, <4>2 DEF q
      <4>5. f[x] \in Int /\ g[r \ {x}] \in Int
        BY <4>2
      <4>6. g[q] \in Int
        <5>1. q \in SUBSET r /\ q # r
          BY <3>1 DEF q
        <5> QED
          BY <1>6, <5>1
      <4> QED
        BY <3>1, <3>2, <4>3, <4>4, <4>5, <4>6
    <3>4. g[r] \in Int
      BY <3>1, <3>2
    <3>5. g[r] = g[r \ {c}] + f[c]
      BY <3>1, <3>2
    <3> QED
      BY <3>3, <3>4, <3>5
  <2> QED
    BY <2>1, <2>2
<1> HIDE DEF P
<1>7. ASSUME NEW n \in Nat, n \in T PROVE n + 1 \in T
  <2> SUFFICES ASSUME NEW r \in SUBSET O, Cardinality(r) <= n + 1 PROVE P(r)
    OBVIOUS
  <2>1. IsFiniteSet(r) /\ Cardinality(r) \in Nat
    BY <1>1
  <2>2. ASSUME NEW s \in SUBSET r, s # r PROVE P(s)
    <3>1. PICK x \in r : x \notin s
      BY <2>2
    <3>2. Cardinality(s) < Cardinality(r) /\ Cardinality(s) \in Nat
      BY <2>1, <3>1, ProperPart
    <3> QED
      BY <1>7, <2>1, <3>2
  <2> QED
    BY <1>6, <2>2
<1>8. Nat \subseteq T
  <2> HIDE DEF T
  <2> QED
    BY <1>3, <1>7, Climb
<1>9. \A r \in SUBSET O : P(r)
  BY <1>1, <1>8
<1>10. ASSUME NEW s \in SUBSET O, NEW x \in O \ s PROVE g[s \cup {x}] = g[s] + f[x]
  <2>1. (s \cup {x}) \ {x} = s /\ s \cup {x} \in SUBSET O /\ x \in s \cup {x}
    OBVIOUS
  <2> QED
    BY <1>9, <2>1 DEF P
<1>11. OneByOne(g, f, O)
  BY <1>10 DEF OneByOne
<1> QED
  BY <1>9, <1>11, <1>2b DEF P

(* Adding what is not negative never takes anything away.                  *)
LEMMA SumGrows ==
  ASSUME NEW O, IsFiniteSet(O), NEW f, \A x \in O : f[x] \in Nat, NEW g, g = Adding(f, O, g),
         NEW t \in SUBSET O, NEW s \in SUBSET t
  PROVE  g[s] <= g[t]
<1> DEFINE T == {n \in Nat : \A r \in SUBSET O : s \subseteq r /\ Cardinality(r) = n => g[s] <= g[r]}
<1>0. \A x \in O : f[x] \in Int
  OBVIOUS
<1>1. (\A r \in SUBSET O : g[r] \in Int) /\ OneByOne(g, f, O)
  BY <1>0, SumAdds
<1>2. \A r \in SUBSET O : IsFiniteSet(r) /\ Cardinality(r) \in Nat
  BY FS_Subset, FS_CardinalityType
<1>3. 0 \in T
  <2>1. \A r \in SUBSET O : Cardinality(r) = 0 => r = {}
    BY <1>2, FS_EmptySet
  <2> SUFFICES ASSUME NEW r \in SUBSET O, s \subseteq r, Cardinality(r) = 0 PROVE g[s] <= g[r]
    OBVIOUS
  <2>2. r = {} /\ s = r
    BY <2>1
  <2>3. g[r] \in Int
    BY <1>1
  <2> QED
    BY <2>2, <2>3
<1>4. ASSUME NEW n \in Nat, n \in T PROVE n + 1 \in T
  <2> SUFFICES ASSUME NEW r \in SUBSET O, s \subseteq r, Cardinality(r) = n + 1 PROVE g[s] <= g[r]
    OBVIOUS
  <2>1. CASE s = r
    BY <1>1, <2>1
  <2>2. CASE s # r
    <3>1. PICK x \in r : x \notin s
      BY <2>2
    <3> DEFINE q == r \ {x}
    <3>2. q \in SUBSET O /\ s \subseteq q /\ x \in O \ q /\ r = q \cup {x}
      BY <3>1
    <3>3. Cardinality(q) = n
      <4>1. IsFiniteSet(r)
        BY <1>2
      <4>2. Cardinality(r \ {x}) = Cardinality(r) - 1
        BY <3>1, <4>1, FS_RemoveElement
      <4> QED
        BY <4>2
    <3> HIDE DEF q
    <3>4. g[r] = g[q] + f[x]
      BY <1>1, <3>2 DEF OneByOne
    <3>5. g[s] <= g[q] /\ g[q] \in Int /\ f[x] \in Nat /\ g[s] \in Int
      BY <1>1, <1>4, <3>2, <3>3
    <3> QED
      BY <3>4, <3>5
  <2> QED
    BY <2>1, <2>2
<1>5. Nat \subseteq T
  <2> HIDE DEF T
  <2> QED
    BY <1>3, <1>4, Climb
<1> QED
  BY <1>2, <1>5
=============================================================================
