---------------------------- MODULE RecursionLemmas ----------------------------
(***************************************************************************)
(* What the proofs about the parsers need to know of data of any size:     *)
(* least and greatest numbers, induction over an interval, functions that  *)
(* are defined by recursion, and sums over finite sets.  The induction     *)
(* theorems of the library take an operator as a parameter; here a         *)
(* property is the set of the numbers that have it.                        *)
(***************************************************************************)
EXTENDS Integers, FiniteSetsExt, FiniteSetTheorems, WellFoundedInduction, TLAPS

(* A set of natural numbers that is not empty has a least element: among  *)
(* the sets of the numbers below each there is one that includes no other. *)
LEMMA LeastExists ==
    ASSUME NEW S \in SUBSET Nat, S # {}
    PROVE  \E x \in S : \A y \in S : x <= y
<1> DEFINE Below(n) == 0 .. (n - 1)
           T == {Below(n) : n \in S}
<1>1. T \subseteq FiniteSubsetsOf(Nat) /\ T # {}
  <2>1. \A n \in S : Below(n) \in SUBSET Nat /\ IsFiniteSet(Below(n))
    BY FS_Interval
  <2> QED
    BY <2>1 DEF FiniteSubsetsOf
<1>2. PICK X \in T : \A Y \in T : ~ (<<Y, X>> \in StrictSubsetOrdering(Nat))
  BY <1>1, FS_StrictSubsetOrderingWellFounded, WFMin, Zenon
<1>3. PICK x \in S : X = Below(x)
  OBVIOUS
<1>4. ASSUME NEW y \in S, ~ (x <= y)
      PROVE  FALSE
  <2>1. x \in Nat /\ y \in Nat /\ y < x
    BY <1>4
  <2>2. Below(y) \subseteq Below(x) /\ Below(y) \subseteq Nat /\ Below(x) \subseteq Nat
    BY <2>1
  <2>3. y \in Below(x) /\ y \notin Below(y)
    BY <2>1
  <2>4. <<Below(y), Below(x)>> \in StrictSubsetOrdering(Nat)
    BY <2>2, <2>3 DEF StrictSubsetOrdering
  <2> QED
    BY <1>2, <1>3, <2>4
<1> QED
  BY <1>4

(* Min, which the library defines by CHOOSE, is that element. *)
LEMMA MinIsLeast ==
    ASSUME NEW S \in SUBSET Nat, S # {}
    PROVE  Min(S) \in S /\ \A y \in S : Min(S) <= y
<1> QED
  BY LeastExists DEF Min

(* A bounded set of natural numbers that is not empty has a greatest       *)
(* element, which Max is.                                                  *)
LEMMA MaxIsGreatest ==
    ASSUME NEW S \in SUBSET Nat, S # {}, NEW n \in Nat, \A x \in S : x <= n
    PROVE  Max(S) \in S /\ \A y \in S : Max(S) >= y
<1> DEFINE T == {n - x : x \in S}
<1>1. T \in SUBSET Nat /\ T # {}
  <2>1. \A x \in S : n - x \in Nat
    OBVIOUS
  <2> QED
    BY <2>1
<1>2. PICK t \in T : \A u \in T : t <= u
  BY <1>1, LeastExists
<1>3. PICK x \in S : t = n - x
  OBVIOUS
<1>4. ASSUME NEW y \in S PROVE x >= y
  <2>1. n - x <= n - y
    BY <1>2, <1>3
  <2> QED
    BY <2>1
<1> QED
  BY <1>4 DEF Max

-----------------------------------------------------------------------------
(* Induction over an interval: the least number without the property is   *)
(* not 0, and the number before it has the property.                       *)
LEMMA IntervalInduction ==
    ASSUME NEW n \in Nat, NEW T, 0 \in T,
           \A i \in 1..n : i - 1 \in T => i \in T
    PROVE  \A i \in 0..n : i \in T
<1> DEFINE Without == {i \in 0..n : i \notin T}
<1> SUFFICES ASSUME Without # {} PROVE FALSE
  OBVIOUS
<1>1. PICK i \in Without : \A j \in Without : i <= j
  <2>1. Without \in SUBSET Nat
    OBVIOUS
  <2> QED
    BY <2>1, LeastExists, Zenon
<1>2. i \in 1..n /\ i - 1 \in 0..n /\ i - 1 \notin Without
  BY <1>1
<1> QED
  BY <1>2

(* The same of the values of a function. *)
LEMMA ValuesInduction ==
    ASSUME NEW n \in Nat, NEW f, NEW S, f[0] \in S,
           \A i \in 1..n : f[i - 1] \in S => f[i] \in S
    PROVE  \A i \in 0..n : f[i] \in S
<1> DEFINE T == {i \in 0..n : f[i] \in S}
<1>1. 0 \in T /\ \A i \in 1..n : i - 1 \in T => i \in T
  OBVIOUS
<1>2. \A i \in 0..n : i \in T
  <2> HIDE DEF T
  <2> QED
    BY <1>1, IntervalInduction
<1> QED
  BY <1>2

(* A recursion over an interval defines a function. *)
IsDefined(n, S, base, step) ==
    \E f \in [0..n -> S] : f = [i \in 0..n |-> IF i = 0 THEN base ELSE step[i][f[i - 1]]]

(* By induction over how far it is defined. *)
LEMMA RecursionDefines ==
    ASSUME NEW n \in Nat, NEW S, NEW base \in S, NEW step \in [1..n -> [S -> S]]
    PROVE  IsDefined(n, S, base, step)
<1> DEFINE IsUpTo(f, m) == \A i \in 0..m : f[i] = IF i = 0 THEN base ELSE step[i][f[i - 1]]
           Defined == {m \in 0..n : \E f \in [0..m -> S] : IsUpTo(f, m)}
<1>1. 0 \in Defined
  <2> DEFINE g == [i \in 0..0 |-> base]
  <2>1. g \in [0..0 -> S] /\ IsUpTo(g, 0)
    OBVIOUS
  <2>2. \E f \in [0..0 -> S] : IsUpTo(f, 0)
    BY <2>1, Zenon
  <2> QED
    BY <2>2
<1>2. ASSUME NEW m \in 1..n, m - 1 \in Defined
      PROVE  m \in Defined
  <2>1. PICK f \in [0..(m - 1) -> S] : IsUpTo(f, m - 1)
    BY <1>2
  <2> DEFINE g == [i \in 0..m |-> IF i = m THEN step[m][f[m - 1]] ELSE f[i]]
  <2>2. m - 1 \in 0..(m - 1) /\ m \in 1..n
    OBVIOUS
  <2>3. step[m][f[m - 1]] \in S
    BY <2>2
  <2>4. g \in [0..m -> S]
    BY <2>3
  <2>5. ASSUME NEW i \in 0..m
        PROVE  g[i] = IF i = 0 THEN base ELSE step[i][g[i - 1]]
    <3>1. CASE i = m
      BY <3>1
    <3>2. CASE i # m
      <4>1. i \in 0..(m - 1) /\ (i # 0 => i - 1 \in 0..m /\ i - 1 # m)
        BY <3>2
      <4> QED
        BY <2>1, <4>1
    <3> QED
      BY <3>1, <3>2
  <2>6. \E h \in [0..m -> S] : IsUpTo(h, m)
    <3> HIDE DEF g
    <3> QED
      BY <2>4, <2>5, Zenon
  <2> QED
    BY <2>6
<1>3. n \in Defined
  <2> HIDE DEF Defined
  <2>1. \A i \in 0..n : i \in Defined
    BY <1>1, <1>2, IntervalInduction
  <2> QED
    BY <2>1
<1>4. PICK f \in [0..n -> S] : IsUpTo(f, n)
  BY <1>3
<1>5. f = [i \in 0..n |-> IF i = 0 THEN base ELSE step[i][f[i - 1]]]
  BY <1>4
<1> QED
  BY <1>5 DEF IsDefined
-----------------------------------------------------------------------------
(* Induction over the subsets of a finite set: what holds of a set when it *)
(* holds of the set without any one of its elements holds of all.          *)
LEMMA SubsetInduction ==
    ASSUME NEW S, IsFiniteSet(S), NEW T,
           \A s \in SUBSET S : (\A x \in s : s \ {x} \in T) => s \in T
    PROVE  \A s \in SUBSET S : s \in T
<1> DEFINE Without == {s \in SUBSET S : s \notin T}
<1> SUFFICES ASSUME Without # {} PROVE FALSE
  OBVIOUS
<1>1. Without \subseteq FiniteSubsetsOf(S)
  BY FS_FiniteSubsetsOfFinite
<1>2. PICK s \in Without : \A t \in Without : ~ (<<t, s>> \in StrictSubsetOrdering(S))
  BY <1>1, FS_StrictSubsetOrderingWellFounded, WFMin, Zenon
<1>3. ASSUME NEW x \in s PROVE s \ {x} \in T
  <2>1. <<s \ {x}, s>> \in StrictSubsetOrdering(S)
    BY DEF StrictSubsetOrdering
  <2> QED
    BY <1>2, <2>1
<1> QED
  BY <1>3

(* What the library's sum over a set takes next, and the equation of its   *)
(* recursion.                                                              *)
Pick(s) == CHOOSE x \in s : TRUE

SumStep(f, w, s) == IF s = {} THEN 0 ELSE w[Pick(s)] + f[s \ {Pick(s)}]

IsSum(f, w, S) == \A s \in SUBSET S : f[s] = SumStep(f, w, s)

(* It takes an element as long as there is one. *)
LEMMA PickIsElement ==
    ASSUME NEW s, s # {}
    PROVE  Pick(s) \in s
<1> QED
  BY DEF Pick

(* The equation has one solution: two agree wherever both are defined.     *)
LEMMA SumIsUnique ==
    ASSUME NEW S, IsFiniteSet(S), NEW w, NEW f, NEW g, IsSum(f, w, S), IsSum(g, w, S)
    PROVE  f[S] = g[S]
<1> DEFINE T == {s \in SUBSET S : f[s] = g[s]}
<1>1. ASSUME NEW s \in SUBSET S, \A x \in s : s \ {x} \in T
      PROVE  s \in T
  <2>1. s # {} => f[s \ {Pick(s)}] = g[s \ {Pick(s)}]
    BY <1>1, PickIsElement
  <2>2. f[s] = SumStep(f, w, s) /\ g[s] = SumStep(g, w, s)
    BY DEF IsSum
  <2>3. SumStep(f, w, s) = SumStep(g, w, s)
    BY <2>1 DEF SumStep
  <2> QED
    BY <2>2, <2>3
<1>2. \A s \in SUBSET S : s \in T
  <2> HIDE DEF T
  <2> QED
    BY <1>1, SubsetInduction
<1> QED
  BY <1>2

(* And it has one.  For a set S without x there is a solution F[x] by      *)
(* induction; a subset of S other than S is a subset of some S \ {x}.      *)
LEMMA SumExists ==
    ASSUME NEW S, IsFiniteSet(S), NEW w \in [S -> Nat]
    PROVE  \E f \in [SUBSET S -> Nat] : IsSum(f, w, S)
<1> DEFINE T == {s \in SUBSET S : \E f \in [SUBSET s -> Nat] : IsSum(f, w, s)}
<1>1. ASSUME NEW s \in SUBSET S, \A x \in s : s \ {x} \in T
      PROVE  s \in T
  <2> DEFINE F == [x \in s |-> CHOOSE f \in [SUBSET (s \ {x}) -> Nat] : IsSum(f, w, s \ {x})]
             Rest(t) == Pick(s \ t)
             h == [t \in SUBSET s |-> IF t = {} THEN 0
                                      ELSE IF t = s THEN w[Pick(s)] + F[Pick(s)][s \ {Pick(s)}]
                                      ELSE F[Rest(t)][t]]
  <2>1. ASSUME NEW x \in s
        PROVE  F[x] \in [SUBSET (s \ {x}) -> Nat] /\ IsSum(F[x], w, s \ {x})
    <3>1. \E f \in [SUBSET (s \ {x}) -> Nat] : IsSum(f, w, s \ {x})
      BY <1>1
    <3>2. F[x] = CHOOSE f \in [SUBSET (s \ {x}) -> Nat] : IsSum(f, w, s \ {x})
      OBVIOUS
    <3> HIDE DEF F
    <3> QED
      BY <3>1, <3>2, Zenon
  <2>2. ASSUME NEW x \in s, NEW y \in s, NEW t \in SUBSET s, x \notin t, y \notin t
        PROVE  F[x][t] = F[y][t]
    <3>1. IsFiniteSet(t)
      BY FS_Subset
    <3>2. IsSum(F[x], w, t) /\ IsSum(F[y], w, t)
      <4>1. SUBSET t \subseteq SUBSET (s \ {x}) /\ SUBSET t \subseteq SUBSET (s \ {y})
        BY <2>2
      <4> HIDE DEF F
      <4>2. IsSum(F[x], w, s \ {x}) /\ IsSum(F[y], w, s \ {y})
        BY <2>1
      <4> QED
        BY <4>1, <4>2 DEF IsSum
    <3> HIDE DEF F
    <3> QED
      BY <3>1, <3>2, SumIsUnique
  <2>3. \A t \in SUBSET s : t # s => Rest(t) \in s /\ Rest(t) \notin t
    <3>1. \A t \in SUBSET s : t # s => s \ t # {}
      OBVIOUS
    <3> QED
      BY <3>1, PickIsElement
  <2>4. \A t \in SUBSET s : t # {} => Pick(t) \in t
    BY PickIsElement
  <2>5. h \in [SUBSET s -> Nat]
    <3> HIDE DEF F
    <3>1. ASSUME NEW t \in SUBSET s PROVE h[t] \in Nat
      <4>1. CASE t = {}
        BY <4>1
      <4>2. CASE t # {} /\ t = s
        <5>1. Pick(s) \in s /\ s \ {Pick(s)} \in SUBSET (s \ {Pick(s)})
          BY <4>2, <2>4
        <5>2. w[Pick(s)] \in Nat /\ F[Pick(s)][s \ {Pick(s)}] \in Nat
          BY <5>1, <2>1
        <5> QED
          BY <4>2, <5>2
      <4>3. CASE t # {} /\ t # s
        <5>1. Rest(t) \in s /\ t \in SUBSET (s \ {Rest(t)})
          BY <4>3, <2>3
        <5>2. F[Rest(t)][t] \in Nat
          <6> HIDE DEF Rest
          <6>1. F[Rest(t)] \in [SUBSET (s \ {Rest(t)}) -> Nat]
            BY <5>1, <2>1
          <6> QED
            BY <5>1, <6>1
        <5> QED
          BY <4>3, <5>2
      <4> QED
        BY <4>1, <4>2, <4>3
    <3> QED
      BY <3>1
  <2>6. IsSum(h, w, s)
    <3>e. h[{}] = 0
      OBVIOUS
    <3> SUFFICES ASSUME NEW t \in SUBSET s, t # {}
                 PROVE  h[t] = w[Pick(t)] + h[t \ {Pick(t)}]
      <4> HIDE DEF h
      <4> QED
        BY <3>e DEF IsSum, SumStep
    <3> DEFINE u == t \ {Pick(t)}
    <3>1. Pick(t) \in t /\ u \in SUBSET s /\ u # s
      BY <2>4
    <3>2. u # {} => h[u] = F[Rest(u)][u]
      BY <3>1
    <3>3. Rest(u) \in s /\ Rest(u) \notin u
      BY <3>1, <2>3
    <3>4. \A x \in s : x \notin u => F[x][u] = h[u]
      <4>1. CASE u = {}
        <5>1. h[u] = 0
          BY <3>1, <4>1
        <5>2. \A x \in s : F[x][u] = 0
          <6> HIDE DEF F
          <6> QED
            BY <2>1, <4>1 DEF IsSum, SumStep
        <5> QED
          BY <5>1, <5>2
      <4>2. CASE u # {}
        <5> HIDE DEF F, h, u
        <5> QED
          BY <4>2, <2>2, <3>1, <3>2, <3>3
      <4> QED
        BY <4>1, <4>2
    <3>5. CASE t = s
      <4>1. h[t] = w[Pick(s)] + F[Pick(s)][s \ {Pick(s)}]
        BY <3>5
      <4>2. F[Pick(s)][u] = h[u]
        BY <3>1, <3>4, <3>5
      <4> HIDE DEF F, h
      <4> QED
        BY <4>1, <4>2, <3>5
    <3>6. CASE t # s
      <4>1. h[t] = F[Rest(t)][t]
        BY <3>6
      <4>2. Rest(t) \in s /\ Rest(t) \notin t
        BY <3>6, <2>3
      <4>3. F[Rest(t)][t] = w[Pick(t)] + F[Rest(t)][u]
        <5> HIDE DEF F
        <5> QED
          BY <4>2, <2>1 DEF IsSum, SumStep
      <4>4. F[Rest(t)][u] = h[u]
        BY <4>2, <3>1, <3>4
      <4> HIDE DEF F, h
      <4> QED
        BY <4>1, <4>3, <4>4
    <3> QED
      BY <3>5, <3>6
  <2>7. \E f \in [SUBSET s -> Nat] : IsSum(f, w, s)
    <3> HIDE DEF h
    <3> QED
      BY <2>5, <2>6, Zenon
  <2> QED
    BY <2>7
<1>2. \A s \in SUBSET S : s \in T
  <2> HIDE DEF T
  <2> QED
    BY <1>1, SubsetInduction
<1>3. S \in T
  BY <1>2
<1> QED
  BY <1>3

(* A solution adds the weight of any element to the sum of the others, not *)
(* only that of the element it takes next.                                 *)
LEMMA SumTakesAny ==
    ASSUME NEW S, IsFiniteSet(S), NEW w \in [S -> Nat],
           NEW f \in [SUBSET S -> Nat], IsSum(f, w, S), NEW y \in S
    PROVE  f[S] = w[y] + f[S \ {y}]
<1> DEFINE T == {s \in SUBSET S : \A x \in s : f[s] = w[x] + f[s \ {x}]}
<1>1. ASSUME NEW s \in SUBSET S, \A x \in s : s \ {x} \in T
      PROVE  s \in T
  <2> SUFFICES ASSUME NEW x \in s PROVE f[s] = w[x] + f[s \ {x}]
    OBVIOUS
  <2> DEFINE c == Pick(s)
             rest == (s \ {c}) \ {x}
  <2>1. c \in s /\ f[s] = w[c] + f[s \ {c}]
    BY PickIsElement DEF IsSum, SumStep
  <2>2. CASE x = c
    BY <2>1, <2>2
  <2>3. CASE x # c
    <3>1. s \ {c} \in T /\ x \in s \ {c} /\ s \ {x} \in T /\ c \in s \ {x}
      BY <1>1, <2>1, <2>3
    <3>2. (s \ {x}) \ {c} = rest
      OBVIOUS
    <3>3. f[s \ {c}] = w[x] + f[rest] /\ f[s \ {x}] = w[c] + f[rest]
      BY <3>1, <3>2
    <3>4. w[x] \in Nat /\ w[c] \in Nat /\ f[rest] \in Nat
      BY <2>1
    <3> HIDE DEF c, rest
    <3> QED
      BY <2>1, <3>3, <3>4
  <2> QED
    BY <2>2, <2>3
<1>2. \A s \in SUBSET S : s \in T
  <2> HIDE DEF T
  <2> QED
    BY <1>1, SubsetInduction
<1>3. S \in T
  BY <1>2
<1> QED
  BY <1>3

(* More elements, no smaller sum. *)
LEMMA SumGrows ==
    ASSUME NEW S, IsFiniteSet(S), NEW w \in [S -> Nat], NEW f, IsSum(f, w, S),
           NEW R, IsFiniteSet(R), NEW v \in [R -> Nat], NEW g, IsSum(g, v, R),
           S \subseteq R, \A x \in S : v[x] = w[x],
           NEW y, R \subseteq S \cup {y}
    PROVE  f[S] <= g[R]
<1>1. PICK h \in [SUBSET R -> Nat] : IsSum(h, v, R)
  BY SumExists
<1>2. g[R] = h[R]
  BY <1>1, SumIsUnique
<1>3. IsSum(h, w, S)
  <2>1. \A s \in SUBSET S : s # {} => Pick(s) \in S
    BY PickIsElement
  <2>2. \A s \in SUBSET S : s \in SUBSET R
    OBVIOUS
  <2>3. ASSUME NEW s \in SUBSET S PROVE h[s] = SumStep(h, w, s)
    <3>1. h[s] = SumStep(h, v, s)
      BY <1>1, <2>2 DEF IsSum
    <3>2. SumStep(h, v, s) = SumStep(h, w, s)
      BY <2>1 DEF SumStep
    <3> QED
      BY <3>1, <3>2
  <2> QED
    BY <2>3 DEF IsSum
<1>4. f[S] = h[S]
  BY <1>3, SumIsUnique
<1>5. \A x \in R : h[R] = v[x] + h[R \ {x}]
  <2>1. IsFiniteSet(R) /\ v \in [R -> Nat] /\ h \in [SUBSET R -> Nat] /\ IsSum(h, v, R)
    BY <1>1
  <2> QED
    BY <2>1, SumTakesAny, SMTT(30)
<1>6. h[S] <= h[R]
  <2>1. CASE y \in R /\ y \notin S
    <3>1. R \ {y} = S
      BY <2>1
    <3>2. h[R] = v[y] + h[S]
      <4>1. y \in R
        BY <2>1
      <4>2. h[R] = v[y] + h[R \ {y}]
        BY <1>5, <4>1
      <4> QED
        BY <3>1, <4>2
    <3>3. v[y] \in Nat /\ h[S] \in Nat
      BY <2>1
    <3> QED
      BY <3>2, <3>3
  <2>2. CASE ~ (y \in R /\ y \notin S)
    <3>1. R = S
      BY <2>2
    <3>2. h[R] \in Nat
      OBVIOUS
    <3> QED
      BY <3>1, <3>2
  <2> QED
    BY <2>1, <2>2
<1> QED
  BY <1>2, <1>4, <1>6
=============================================================================
