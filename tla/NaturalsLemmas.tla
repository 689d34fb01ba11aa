--------------------------- MODULE NaturalsLemmas ---------------------------
(***************************************************************************)
(* Least and greatest elements of sets of naturals, induction, and folds   *)
(* over sets: what the proofs about scans, folds and linked nodes rest on. *)
(***************************************************************************)
EXTENDS Integers, FiniteSetsExt, FiniteSetTheorems, TLAPS

(* Min picks a least element of any non-empty set of naturals: among the   *)
(* intervals 1..x, finite sets all, there is one that is minimal.          *)
LEMMA MinOfNats ==
  ASSUME NEW S \in SUBSET Nat, S # {}
  PROVE  Min(S) \in S /\ \A y \in S : Min(S) <= y
<1> DEFINE T == {1..x : x \in S}
           R == StrictSubsetOrdering(Nat)
<1>1. \A x \in S : 1..x \in FiniteSubsetsOf(Nat)
  <2> TAKE x \in S
  <2>1. IsFiniteSet(1..x)
    BY FS_Interval
  <2> QED
    BY <2>1 DEF FiniteSubsetsOf
<1>2. T \subseteq FiniteSubsetsOf(Nat) /\ T # {}
  BY <1>1
<1>3. IsWellFoundedOn(R, FiniteSubsetsOf(Nat))
  BY FS_StrictSubsetOrderingWellFounded
<1>4. \E X \in T : \A Y \in T : ~(<<Y, X>> \in R)
  <2> HIDE DEF T, R
  <2> QED
    BY <1>2, <1>3, WFMin
<1>5. PICK x \in S : \A y \in S : ~(<<1..y, 1..x>> \in R)
  BY <1>4
<1>6. \A y \in S : x <= y
  <2> SUFFICES ASSUME NEW y \in S, y < x PROVE FALSE
    OBVIOUS
  <2>1. 1..y \subseteq 1..x /\ x \in 1..x /\ x \notin 1..y
    OBVIOUS
  <2>2. 1..x \in SUBSET Nat /\ 1..y \in SUBSET Nat
    OBVIOUS
  <2>3. 1..y # 1..x
    BY <2>1
  <2> QED
    BY <1>5, <2>1, <2>2, <2>3, Zenon DEF StrictSubsetOrdering
<1> QED
  BY <1>6 DEF Min

(* Max picks a greatest element of any non-empty bounded set of naturals.  *)
LEMMA MaxOfNats ==
  ASSUME NEW n \in Nat, NEW S \in SUBSET (0..n), S # {}
  PROVE  Max(S) \in S /\ \A y \in S : y <= Max(S)
<1> DEFINE R == {n - x : x \in S}
<1>1. R \in SUBSET Nat
  <2> SUFFICES ASSUME NEW x \in S PROVE n - x \in Nat
    OBVIOUS
  <2> QED
    OBVIOUS
<1>2. R # {}
  OBVIOUS
<1>3. Min(R) \in R /\ \A y \in R : Min(R) <= y
  <2> HIDE DEF R
  <2> QED
    BY <1>1, <1>2, MinOfNats
<1>4. PICK x \in S : Min(R) = n - x
  BY <1>3
<1>5. \A y \in S : x >= y
  <2> SUFFICES ASSUME NEW y \in S PROVE x >= y
    OBVIOUS
  <2>1. n - x <= n - y
    BY <1>3, <1>4
  <2> QED
    BY <2>1
<1> QED
  BY <1>5 DEF Max

(* Induction: a set of naturals that holds 0 and every successor of its    *)
(* elements holds them all.                                                *)
LEMMA NatsByInduction ==
  ASSUME NEW S, 0 \in S, \A n \in Nat : n \in S => n + 1 \in S
  PROVE  Nat \subseteq S
<1> DEFINE T == Nat \ S
<1> SUFFICES ASSUME T # {} PROVE FALSE
  OBVIOUS
<1>1. T \in SUBSET Nat
  OBVIOUS
<1>2. Min(T) \in T /\ \A y \in T : Min(T) <= y
  <2> HIDE DEF T
  <2> QED
    BY <1>1, MinOfNats
<1>3. Min(T) \in Nat /\ Min(T) # 0
  BY <1>2
<1>4. Min(T) - 1 \in Nat /\ Min(T) - 1 \notin T
  <2> HIDE DEF T
  <2> QED
    BY <1>2, <1>3
<1>5. Min(T) - 1 \in S
  BY <1>4
<1>6. Min(T) - 1 + 1 \in S
  BY <1>4, <1>5
<1>7. Min(T) \in S
  BY <1>3, <1>6
<1> QED
  BY <1>2, <1>7
-----------------------------------------------------------------------------
(* Folding a set, from its least element to its greatest.                  *)

(* iter folds every subset of S, the greatest element last.                *)
Folds(iter, S, base, step) ==
  \A s \in SUBSET S :
    iter[s] = IF s = {} THEN base ELSE step[<<Max(s), iter[s \ {Max(s)}]>>]

(* Such a fold exists: it is extended to sets with one more number.        *)
LEMMA FoldExists ==
  ASSUME NEW n \in Nat, NEW S \in SUBSET (1..n), NEW V, NEW base \in V,
         NEW step \in [S \X V -> V]
  PROVE  \E iter \in [SUBSET S -> V] : Folds(iter, S, base, step)
<1> DEFINE HasFold(U) == \E iter \in [SUBSET U -> V] : Folds(iter, U, base, step)
           K == {k \in Nat : \A U \in SUBSET S : (\A x \in U : x <= k) => HasFold(U)}
<1> HIDE DEF HasFold
<1>0. \A x \in S : x \in Nat /\ 1 <= x /\ x <= n
  OBVIOUS
<1>1. 0 \in K
  <2> SUFFICES ASSUME NEW U \in SUBSET S, \A x \in U : x <= 0
               PROVE  HasFold(U)
    OBVIOUS
  <2>1. U = {}
    BY <1>0
  <2>2. Folds([s \in SUBSET {} |-> base], {}, base, step)
    BY DEF Folds
  <2>3. [s \in SUBSET {} |-> base] \in [SUBSET {} -> V]
    OBVIOUS
  <2> QED
    BY <2>1, <2>2, <2>3 DEF HasFold
<1>2. ASSUME NEW k \in Nat, k \in K
      PROVE  k + 1 \in K
  <2> SUFFICES ASSUME NEW W \in SUBSET S, \A x \in W : x <= k + 1
               PROVE  HasFold(W)
    <3>1. k + 1 \in Nat
      OBVIOUS
    <3> QED
      BY <3>1
  <2> DEFINE U == W \ {k + 1}
  <2>2. /\ U \subseteq S /\ W \subseteq S /\ W \subseteq U \cup {k + 1}
        /\ k + 1 \notin U /\ \A x \in U : x \in Nat /\ x <= k
    <3>1. ASSUME NEW x \in U PROVE x \in Nat /\ x <= k
      <4>1. x \in Nat /\ x <= k + 1 /\ x # k + 1
        BY <1>0
      <4> QED
        BY <4>1
    <3> QED
      BY <3>1
  <2> HIDE DEF U
  <2>1. PICK iter \in [SUBSET U -> V] : Folds(iter, U, base, step)
    BY <1>2, <2>2 DEF HasFold
  <2> DEFINE longer == [s \in SUBSET W |->
                          IF k + 1 \in s
                          THEN step[<<k + 1, iter[s \ {k + 1}]>>]
                          ELSE iter[s]]
  <2>3. ASSUME NEW s \in SUBSET W, k + 1 \in s
        PROVE  /\ Max(s) = k + 1
               /\ s \ {k + 1} \in SUBSET U
               /\ s \ {k + 1} \in SUBSET W /\ k + 1 \notin s \ {k + 1}
               /\ k + 1 \in S
    <3>1. s \in SUBSET (0..(k + 1)) /\ s # {} /\ \A x \in s : x <= k + 1
      BY <2>2, <2>3
    <3> DEFINE m == Max(s)
    <3>2. m \in s /\ \A x \in s : x <= m
      <4>1. k + 1 \in Nat
        OBVIOUS
      <4> QED
        BY <3>1, <4>1, MaxOfNats
    <3> HIDE DEF m
    <3>3. m = k + 1
      <4>1. k + 1 <= m /\ m <= k + 1 /\ m \in Nat
        BY <2>3, <3>1, <3>2
      <4> QED
        BY <4>1
    <3> QED
      BY <2>2, <2>3, <3>3 DEF m
  <2>4. ASSUME NEW s \in SUBSET W, k + 1 \notin s
        PROVE  /\ s \in SUBSET U
               /\ s # {} => /\ Max(s) \in s /\ s \ {Max(s)} \in SUBSET W
                            /\ k + 1 \notin s \ {Max(s)}
    <3>1. s \in SUBSET U
      BY <2>2, <2>4
    <3>2. s \in SUBSET (0..k)
      BY <2>2, <3>1
    <3>3. s # {} => Max(s) \in s
      BY <3>2, MaxOfNats
    <3> QED
      BY <2>4, <3>1, <3>3
  <2>5. ASSUME NEW s \in SUBSET W
        PROVE  longer[s] \in V
    <3>1. CASE k + 1 \in s
      <4>1. iter[s \ {k + 1}] \in V /\ k + 1 \in S
        BY <2>3, <3>1
      <4> QED
        BY <3>1, <4>1
    <3>2. CASE k + 1 \notin s
      BY <2>4, <3>2
    <3> QED
      BY <3>1, <3>2
  <2>6. longer \in [SUBSET W -> V]
    BY <2>5
  <2>7. ASSUME NEW s \in SUBSET W
        PROVE  longer[s] = IF s = {} THEN base
                           ELSE step[<<Max(s), longer[s \ {Max(s)}]>>]
    <3>1. CASE k + 1 \in s
      <4>1. /\ Max(s) = k + 1 /\ s \ {k + 1} \in SUBSET W
            /\ k + 1 \notin s \ {k + 1}
        BY <2>3, <3>1
      <4>2. longer[s \ {k + 1}] = iter[s \ {k + 1}]
        BY <4>1
      <4>3. longer[s] = step[<<k + 1, iter[s \ {k + 1}]>>]
        BY <3>1
      <4> QED
        BY <3>1, <4>1, <4>2, <4>3
    <3>2. CASE k + 1 \notin s
      <4>1. longer[s] = iter[s] /\ s \in SUBSET U
        BY <2>4, <3>2
      <4>2. iter[s] = IF s = {} THEN base
                      ELSE step[<<Max(s), iter[s \ {Max(s)}]>>]
        BY <2>1, <4>1, Zenon DEF Folds
      <4>3. s # {} => longer[s \ {Max(s)}] = iter[s \ {Max(s)}]
        BY <2>4, <3>2
      <4> QED
        BY <4>1, <4>2, <4>3
    <3> QED
      BY <3>1, <3>2
  <2>8. Folds(longer, W, base, step)
    <3> HIDE DEF longer
    <3> QED
      BY <2>7 DEF Folds
  <2> HIDE DEF longer
  <2> QED
    BY <2>6, <2>8 DEF HasFold
<1>3. n \in K
  <2> HIDE DEF K
  <2> QED
    BY <1>1, <1>2, NatsByInduction
<1> QED
  BY <1>0, <1>3 DEF HasFold

(* Induction over the subsets of S, each reached from the one without its  *)
(* greatest element.                                                       *)
LEMMA SubsetsByInduction ==
  ASSUME NEW n \in Nat, NEW S \in SUBSET (1..n), NEW T, {} \in T,
         \A s \in SUBSET S : s # {} /\ s \ {Max(s)} \in T => s \in T
  PROVE  SUBSET S \subseteq T
<1> DEFINE K == {k \in Nat : \A s \in SUBSET S :
                              (\A x \in s : x <= k) => s \in T}
<1>0. \A x \in S : x \in Nat /\ 1 <= x /\ x <= n
  OBVIOUS
<1>1. 0 \in K
  <2> SUFFICES ASSUME NEW s \in SUBSET S, \A x \in s : x <= 0
               PROVE  s \in T
    OBVIOUS
  <2>1. s = {}
    BY <1>0
  <2> QED
    BY <2>1
<1>2. ASSUME NEW k \in Nat, k \in K
      PROVE  k + 1 \in K
  <2> SUFFICES ASSUME NEW s \in SUBSET S, \A x \in s : x <= k + 1, s # {}
               PROVE  s \in T
    <3>1. k + 1 \in Nat
      OBVIOUS
    <3> QED
      BY <3>1
  <2> DEFINE m == Max(s)
             r == s \ {m}
  <2>1. m \in s /\ \A x \in s : x <= m
    <3>1. s \in SUBSET (0..n)
      OBVIOUS
    <3> QED
      BY <3>1, MaxOfNats
  <2> HIDE DEF m
  <2>2. \A x \in r : x <= k
    <3> SUFFICES ASSUME NEW x \in r PROVE x <= k
      OBVIOUS
    <3>1. x \in Nat /\ m \in Nat /\ x <= m /\ x # m /\ m <= k + 1
      BY <1>0, <2>1
    <3> QED
      BY <3>1
  <2>3. r \in SUBSET S
    OBVIOUS
  <2> HIDE DEF r
  <2>4. r \in T
    BY <1>2, <2>2, <2>3
  <2> QED
    BY <2>4 DEF r, m
<1>3. n \in K
  <2> HIDE DEF K
  <2> QED
    BY <1>1, <1>2, NatsByInduction
<1> QED
  BY <1>0, <1>3

(* There is only one fold.                                                 *)
LEMMA FoldIsUnique ==
  ASSUME NEW n \in Nat, NEW S \in SUBSET (1..n), NEW base, NEW step,
         NEW iter, NEW other,
         Folds(iter, S, base, step), Folds(other, S, base, step)
  PROVE  iter[S] = other[S]
<1> DEFINE T == {s \in SUBSET S : iter[s] = other[s]}
<1>1. {} \in T
  BY DEF Folds
<1>2. ASSUME NEW s \in SUBSET S, s # {}, s \ {Max(s)} \in T
      PROVE  s \in T
  <2> DEFINE m == Max(s)
             r == s \ {m}
  <2>1. iter[s] = step[<<m, iter[r]>>] /\ other[s] = step[<<m, other[r]>>]
    BY <1>2, Zenon DEF Folds
  <2>2. iter[r] = other[r]
    BY <1>2
  <2> HIDE DEF m, r
  <2> QED
    BY <2>1, <2>2
<1>3. SUBSET S \subseteq T
  <2> HIDE DEF T
  <2> QED
    BY <1>1, <1>2, SubsetsByInduction
<1>4. S \in SUBSET S
  OBVIOUS
<1> QED
  BY <1>3, <1>4

=============================================================================
