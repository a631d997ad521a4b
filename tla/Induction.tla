------------------------------- MODULE Induction -------------------------------
(***************************************************************************)
(* Induction on the natural numbers, stated of sets: what a recursive      *)
(* definition, or a fold of the community modules, computes for every      *)
(* input is proved from these lemmas.                                      *)
(*                                                                         *)
(* The set of the numbers that are not in S has a least member, because    *)
(* inclusion of finite sets is well-founded.                               *)
(***************************************************************************)
EXTENDS Integers, Sequences, SequencesExt, TLAPS, FiniteSetTheorems

(* Every set of natural numbers has a least member.                        *)
LEMMA LeastNumber ==
  ASSUME NEW T \in SUBSET Nat, T # {}
  PROVE  \E x \in T : \A y \in T : x <= y
<1> DEFINE R == StrictSubsetOrdering(Nat)
           U == {1 .. n : n \in T}
<1>1. IsWellFoundedOn(R, FiniteSubsetsOf(Nat))
  BY FS_StrictSubsetOrderingWellFounded
<1>2. U # {}
  <2>1. PICK n \in T : TRUE
    OBVIOUS
  <2>2. 1 .. n \in U
    BY <2>1
  <2> QED
    BY <2>2
<1>3. U \subseteq FiniteSubsetsOf(Nat)
  <2> SUFFICES ASSUME NEW n \in T
               PROVE  1 .. n \in FiniteSubsetsOf(Nat)
    OBVIOUS
  <2>2. IsFiniteSet(1 .. n)
    BY FS_Interval
  <2>3. 1 .. n \subseteq Nat
    OBVIOUS
  <2> QED
    BY <2>2, <2>3 DEF FiniteSubsetsOf
<1>4. \E x \in U : \A y \in U : ~ (<<y, x>> \in R)
  <2> HIDE DEF R, U
  <2> QED
    BY <1>1, <1>2, <1>3, WFMin
<1>5. PICK n \in T : \A m \in T : <<1 .. m, 1 .. n>> \notin R
  BY <1>4
<1>6. \A m \in T : ~(m < n)
  <2> SUFFICES ASSUME NEW m \in T, m < n
               PROVE  FALSE
    OBVIOUS
  <2>1. 1 .. m \subseteq 1 .. n /\ 1 .. m # 1 .. n
    OBVIOUS
  <2>2. 1 .. m \in SUBSET Nat /\ 1 .. n \in SUBSET Nat
    OBVIOUS
  <2>3. <<1 .. m, 1 .. n>> \in R
    BY <2>1, <2>2, Zenon DEF StrictSubsetOrdering
  <2> QED
    BY <1>5, <2>3
<1> QED
  BY <1>6

(* Induction: what holds of 0 and of a number's successor holds of all.    *)
LEMMA NatInduct ==
  ASSUME NEW S, 0 \in S, \A n \in Nat : n \in S => n + 1 \in S
  PROVE  Nat \subseteq S
<1> DEFINE T == Nat \ S
<1> SUFFICES ASSUME T # {} PROVE FALSE
  OBVIOUS
<1>1. PICK x \in T : \A y \in T : x <= y
  BY LeastNumber
<1>2. x # 0 /\ x - 1 \in Nat /\ x - 1 \notin T
  BY <1>1
<1> QED
  BY <1>2

(* Induction up to a bound.                                                *)
LEMMA UpTo ==
  ASSUME NEW n \in Nat, NEW S, 0 \in S,
         \A k \in Nat : k < n /\ k \in S => k + 1 \in S
  PROVE  \A k \in 0 .. n : k \in S
<1> DEFINE T == {k \in Nat : k <= n => k \in S}
<1>1. 0 \in T
  OBVIOUS
<1>2. \A k \in Nat : k \in T => k + 1 \in T
  OBVIOUS
<1>3. Nat \subseteq T
  <2> HIDE DEF T
  <2> QED
    BY <1>1, <1>2, NatInduct
<1> QED
  BY <1>3

(* The greatest member of a set of numbers is the one that is found.       *)
LEMMA MaxIs ==
  ASSUME NEW s \in SUBSET Int, NEW m \in s, \A x \in s : m >= x
  PROVE  Max(s) = m
<1>1. \A y \in s : (\A x \in s : y >= x) => y = m
  OBVIOUS
<1> DEFINE Top(y) == \A x \in s : y >= x
<1>2. Top(m) /\ \A y \in s : Top(y) => y = m
  BY <1>1
<1>3. (CHOOSE y \in s : Top(y)) = m
  <2> HIDE DEF Top
  <2> QED
    BY <1>2
<1> QED
  BY <1>3 DEF Max

(* There is one in every non-empty set below a bound.                      *)
LEMMA MaxIsMember ==
  ASSUME NEW n \in Nat, NEW s \in SUBSET (1 .. n), s # {}
  PROVE  Max(s) \in s /\ \A x \in s : Max(s) >= x
<1> DEFINE T == {k \in Nat : \A x \in s : x <= k}
<1>1. n \in T
  OBVIOUS
<1>2. PICK m \in T : \A k \in T : m <= k
  <2> HIDE DEF T
  <2>1. T \in SUBSET Nat
    BY DEF T
  <2> QED
    BY <1>1, <2>1, LeastNumber
<1>3. m \in s
  <2> SUFFICES ASSUME m \notin s
               PROVE  FALSE
    OBVIOUS
  <2>1. PICK x \in s : TRUE
    OBVIOUS
  <2>2. m >= 1 /\ m - 1 \in Nat
    BY <1>2, <2>1
  <2>3. \A y \in s : y <= m - 1
    BY <1>2, <2>2
  <2> QED
    BY <1>2, <2>2, <2>3
<1>4. Max(s) = m
  <2>1. s \in SUBSET Int /\ \A x \in s : m >= x
    BY <1>2
  <2> QED
    BY <1>3, <2>1, MaxIs
<1> QED
  BY <1>2, <1>3, <1>4

LEMMA MinIsMember ==
  ASSUME NEW s \in SUBSET Nat, s # {}
  PROVE  Min(s) \in s /\ \A x \in s : Min(s) <= x
BY LeastNumber DEF Min

(* A strict order of the numbers up to n, and the first of any of them.    *)
OrdersAll(R, n) ==
    /\ \A i, j \in 1 .. n : i # j => <<i, j>> \in R \/ <<j, i>> \in R
    /\ \A i, j, k \in 1 .. n : <<i, j>> \in R /\ <<j, k>> \in R => <<i, k>> \in R
    /\ \A i \in 1 .. n : <<i, i>> \notin R

LEMMA FirstOfAll ==
  ASSUME NEW n \in Nat, NEW R, OrdersAll(R, n), NEW s \in SUBSET (1 .. n), s # {}
  PROVE  \E i \in s : \A j \in s \ {i} : <<i, j>> \in R
<1> DEFINE First(u, i) == i \in u /\ \A j \in u \ {i} : <<i, j>> \in R
           Some(k) == \A u \in SUBSET (1 .. k) : u # {} => \E i : First(u, i)
           T == {k \in Nat : k <= n => Some(k)}
<1>1. 0 \in T
  <2>1. \A u \in SUBSET (1 .. 0) : u = {}
    OBVIOUS
  <2> QED
    BY <2>1
<1>2. ASSUME NEW k \in Nat, k < n, k \in T, NEW u \in SUBSET (1 .. k + 1), u # {}
      PROVE  \E i : First(u, i)
  <2> DEFINE v == u \ {k + 1}
  <2>1. v \in SUBSET (1 .. k) /\ u \in SUBSET (1 .. n) /\ k + 1 \in 1 .. n
    BY <1>2
  <2>2. CASE v = {}
    <3>1. u = {k + 1}
      BY <1>2, <2>2
    <3> QED
      BY <3>1
  <2>3. CASE v # {}
    <3>1. PICK i : First(v, i)
      <4>1. Some(k)
        BY <1>2
      <4> HIDE DEF First, v
      <4> QED
        BY <2>1, <2>3, <4>1
    <3>2. i \in 1 .. n /\ i \in u /\ i # k + 1
      BY <2>1, <3>1
    <3>3. CASE k + 1 \notin u \/ <<i, k + 1>> \in R
      <4>1. \A j \in u \ {i} : j \in v \ {i} \/ (j = k + 1 /\ k + 1 \in u)
        OBVIOUS
      <4>2. First(u, i)
        BY <3>1, <3>2, <3>3, <4>1
      <4> QED
        BY <4>2
    <3>4. CASE k + 1 \in u /\ <<i, k + 1>> \notin R
      <4>1. <<k + 1, i>> \in R
        BY <2>1, <3>2, <3>4 DEF OrdersAll
      <4>2. \A j \in u \ {k + 1} : j = i \/ (<<i, j>> \in R /\ j \in 1 .. n)
        BY <2>1, <3>1
      <4>3. \A j \in u \ {k + 1} : <<k + 1, j>> \in R
        BY <2>1, <3>2, <4>1, <4>2 DEF OrdersAll
      <4>4. First(u, k + 1)
        BY <3>4, <4>3
      <4> QED
        BY <4>4
    <3> QED
      BY <3>3, <3>4
  <2> QED
    BY <2>2, <2>3
<1>3. n \in T
  <2>1. \A k \in Nat : k < n /\ k \in T => k + 1 \in T
    <3> HIDE DEF First
    <3> QED
      BY <1>2
  <2> HIDE DEF T
  <2>2. \A k \in 0 .. n : k \in T
    BY <1>1, <2>1, UpTo
  <2> QED
    BY <2>2
<1>4. Some(n)
  BY <1>3
<1> QED
  BY <1>4

-----------------------------------------------------------------------------
(* Folds *)

(* FoldLeft over a sequence of length n is a function on the sets of its   *)
(* indices, defined by the greatest index; F is the step made at each      *)
(* index.                                                                  *)
IsFold(g, n, A, base, F) ==
    /\ g \in [SUBSET (1 .. n) -> A]
    /\ \A s \in SUBSET (1 .. n) :
         g[s] = IF s = {} THEN base ELSE F[Max(s)][g[s \ {Max(s)}]]

(* A fold over 1 .. n exists as a function of how much has been folded.    *)
LEMMA FoldExists ==
  ASSUME NEW n \in Nat, NEW A, NEW base \in A, NEW F \in [1 .. n -> [A -> A]]
  PROVE  \E g : IsFold(g, n, A, base, F)
<1> DEFINE Step(g, s) == IF s = {} THEN base ELSE F[Max(s)][g[s \ {Max(s)}]]
           Good(k) == \E g : IsFold(g, k, A, base, F)
           S == {k \in 0 .. n : Good(k)}
<1>1. Good(0)
  <2> DEFINE g == [s \in SUBSET (1 .. 0) |-> base]
  <2>1. \A s \in SUBSET (1 .. 0) : s = {}
    OBVIOUS
  <2>2. g \in [SUBSET (1 .. 0) -> A]
    OBVIOUS
  <2>3. \A s \in SUBSET (1 .. 0) : g[s] = Step(g, s)
    BY <2>1
  <2>4. IsFold(g, 0, A, base, F)
    BY <2>2, <2>3 DEF IsFold
  <2> QED
    BY <2>4
<1>2. ASSUME NEW k \in Nat, k < n, Good(k)
      PROVE  Good(k + 1)
  <2> PICK g : IsFold(g, k, A, base, F)
    BY <1>2
  <2>1. /\ g \in [SUBSET (1 .. k) -> A]
        /\ \A s \in SUBSET (1 .. k) : g[s] = Step(g, s)
    BY DEF IsFold
  <2> DEFINE h == [s \in SUBSET (1 .. k + 1) |->
                    IF k + 1 \in s THEN F[k + 1][g[s \ {k + 1}]] ELSE g[s]]
  <2>2. \A s \in SUBSET (1 .. k + 1) : s \ {k + 1} \in SUBSET (1 .. k)
    OBVIOUS
  <2>3. h \in [SUBSET (1 .. k + 1) -> A]
    BY <1>2, <2>1, <2>2
  <2>4. ASSUME NEW s \in SUBSET (1 .. k + 1)
        PROVE  h[s] = Step(h, s)
    <3>1. CASE k + 1 \in s
      <4>1. Max(s) = k + 1
        <5>1. s \in SUBSET Int /\ \A x \in s : k + 1 >= x
          OBVIOUS
        <5> QED
          BY <3>1, <5>1, MaxIs
      <4>2. h[s \ {k + 1}] = g[s \ {k + 1}]
        BY <2>2
      <4> QED
        BY <3>1, <4>1, <4>2
    <3>2. CASE k + 1 \notin s
      <4>1. s \in SUBSET (1 .. k)
        BY <2>2, <3>2
      <4>2. h[s] = g[s] /\ g[s] = Step(g, s)
        BY <2>1, <3>2, <4>1
      <4>3. h[s \ {Max(s)}] = g[s \ {Max(s)}]
        BY <3>2
      <4> QED
        BY <4>2, <4>3
    <3> QED
      BY <3>1, <3>2
  <2>5. IsFold(h, k + 1, A, base, F)
    BY <2>3, <2>4 DEF IsFold
  <2> QED
    BY <2>5
<1>3. Good(n)
  <2> HIDE DEF Good
  <2>1. 0 \in S
    BY <1>1
  <2>2. \A k \in Nat : k < n /\ k \in S => k + 1 \in S
    BY <1>2
  <2> HIDE DEF S
  <2>3. \A k \in 0 .. n : k \in S
    BY <2>1, <2>2, UpTo
  <2> QED
    BY <2>3 DEF S
<1> QED
  BY <1>3

(* The sets of indices a fold goes through, from left to right.            *)
LEMMA FoldPath ==
  ASSUME NEW n \in Nat, NEW i \in 1 .. n
  PROVE  /\ 1 .. i \in SUBSET (1 .. n) /\ 1 .. i # {}
         /\ Max(1 .. i) = i
         /\ (1 .. i) \ {Max(1 .. i)} = 1 .. i - 1
<1>1. 1 .. i \in SUBSET Int /\ i \in 1 .. i /\ \A x \in 1 .. i : i >= x
  OBVIOUS
<1>2. Max(1 .. i) = i
  BY <1>1, MaxIs
<1>3. (1 .. i) \ {i} = 1 .. i - 1
  OBVIOUS
<1> QED
  BY <1>2, <1>3

-----------------------------------------------------------------------------
(* Recursion up a tree *)

(* In a tree whose nodes are numbered after their parents, a function that *)
(* is given at the root, and at every other node from its value at the     *)
(* parent, exists.                                                         *)
IsTreeFold(f, n, A, base, up, F) ==
    /\ f \in [0 .. n -> A]
    /\ f[0] = base
    /\ \A k \in 1 .. n : f[k] = F[k][f[up[k]]]

(* A recursion up a tree whose nodes are younger than their parents        *)
(* defines a function on all of them.                                      *)
LEMMA TreeFoldExists ==
  ASSUME NEW n \in Nat, NEW A, NEW base \in A, NEW up, NEW F \in [1 .. n -> [A -> A]],
         \A k \in 1 .. n : up[k] \in 0 .. k - 1
  PROVE  \E f : IsTreeFold(f, n, A, base, up, F)
<1> DEFINE Good(k) == \E f : IsTreeFold(f, k, A, base, up, F)
           S == {k \in 0 .. n : Good(k)}
<1>1. Good(0)
  <2>1. IsTreeFold([k \in 0 .. 0 |-> base], 0, A, base, up, F)
    BY DEF IsTreeFold
  <2> QED
    BY <2>1
<1>2. ASSUME NEW k \in Nat, k < n, Good(k)
      PROVE  Good(k + 1)
  <2> PICK f : IsTreeFold(f, k, A, base, up, F)
    BY <1>2
  <2>1. f \in [0 .. k -> A] /\ f[0] = base /\ \A j \in 1 .. k : f[j] = F[j][f[up[j]]]
    BY DEF IsTreeFold
  <2>2. up[k + 1] \in 0 .. k /\ \A j \in 1 .. k : up[j] \in 0 .. k
    BY <1>2
  <2> DEFINE h == [j \in 0 .. k + 1 |-> IF j = k + 1 THEN F[k + 1][f[up[k + 1]]] ELSE f[j]]
  <2>3. F[k + 1][f[up[k + 1]]] \in A
    BY <1>2, <2>1, <2>2
  <2>4. h \in [0 .. k + 1 -> A] /\ h[0] = base
    BY <2>1, <2>3
  <2>5. \A j \in 0 .. k : h[j] = f[j]
    OBVIOUS
  <2>6. ASSUME NEW j \in 1 .. k + 1
        PROVE  h[j] = F[j][h[up[j]]]
    <3>1. CASE j = k + 1
      BY <2>2, <2>5, <3>1
    <3>2. CASE j # k + 1
      <4>1. j \in 1 .. k
        BY <3>2
      <4> QED
        BY <2>1, <2>2, <2>5, <4>1
    <3> QED
      BY <3>1, <3>2
  <2>7. IsTreeFold(h, k + 1, A, base, up, F)
    <3> HIDE DEF h
    <3> QED
      BY <2>4, <2>6 DEF IsTreeFold
  <2> QED
    BY <2>7
<1>3. Good(n)
  <2> HIDE DEF Good
  <2>1. 0 \in S
    BY <1>1
  <2>2. \A k \in Nat : k < n /\ k \in S => k + 1 \in S
    BY <1>2
  <2> HIDE DEF S
  <2>3. \A k \in 0 .. n : k \in S
    BY <2>1, <2>2, UpTo
  <2> QED
    BY <2>3 DEF S
<1> QED
  BY <1>3
===============================================================================
