----------------------------- MODULE LoopLemmas -----------------------------
(***************************************************************************)
(* Lemmas about the loops of the kernel: a loop that looks for the first   *)
(* entry of a table that satisfies a condition is modelled as Min of the   *)
(* set of the indices that do; one that goes through memory in pages,      *)
(* sectors or clusters divides by their size; and what holds before its    *)
(* first turn and is kept by every turn holds after the last.              *)
(***************************************************************************)
EXTENDS Integers, FiniteSetsExt, WellFoundedInduction, TLAPS

(* The first index that such a loop finds satisfies the condition, and no  *)
(* smaller one does.                                                       *)
LEMMA MinMember ==
  ASSUME NEW S \in SUBSET Nat, S # {}
  PROVE  Min(S) \in S /\ \A y \in S : Min(S) <= y
<1> DEFINE Below == {p \in Nat \X Nat : p[1] < p[2]}
<1>1. IsWellFoundedOn(Below, Nat)
  BY NatLessThanWellFounded, Zenon DEF OpToRel
<1> HIDE DEF Below
<1>2. PICK x \in S : \A y \in S : <<y, x>> \notin Below
  BY <1>1, WFMin
<1>3. ASSUME NEW y \in S PROVE x <= y
  <2>1. <<y, x>> \in Nat \X Nat /\ <<y, x>>[1] = y /\ <<y, x>>[2] = x
    OBVIOUS
  <2>2. ~(y < x)
    BY <1>2, <2>1, Zenon DEF Below
  <2> QED
    BY <2>2
<1> QED
  BY <1>3 DEF Min

(* A set that has 0 and the successor of each of its numbers below n has   *)
(* all numbers up to n.                                                    *)
LEMMA Turns ==
  ASSUME NEW n \in Nat, NEW S, 0 \in S, \A k \in 0 .. n - 1 : k \in S => k + 1 \in S
  PROVE  \A k \in 0 .. n : k \in S
<1> DEFINE Missed == {k \in 0 .. n : k \notin S}
<1> SUFFICES ASSUME Missed # {} PROVE FALSE
  OBVIOUS
<1>1. Missed \in SUBSET Nat
  OBVIOUS
<1>2. Min(Missed) \in Missed /\ \A y \in Missed : Min(Missed) <= y
  BY <1>1, MinMember
<1> DEFINE m == Min(Missed)
<1>3. m \in 1 .. n /\ m \notin S
  BY <1>2
<1> HIDE DEF m
<1>4. m - 1 \in 0 .. n - 1 /\ (m - 1) + 1 = m
  BY <1>3
<1>5. m - 1 \notin S
  BY <1>3, <1>4
<1>6. m - 1 \in Missed /\ m <= m - 1
  BY <1>2, <1>4, <1>5 DEF m
<1> QED
  BY <1>3, <1>6

(* A quotient and a remainder are unique.                                  *)
LEMMA SameRest ==
  ASSUME NEW P \in Nat, NEW a \in 0 .. P - 1, NEW b \in 0 .. P - 1,
         NEW p \in Nat, NEW q \in Nat, a + P * p = b + P * q
  PROVE  a = b
<1>1. CASE p = q
  BY <1>1
<1>2. ASSUME p < q PROVE FALSE
  <2>1. P * q >= P * (p + 1)
    BY <1>2
  <2>2. P * (p + 1) = P * p + P
    OBVIOUS
  <2> QED
    BY <2>1, <2>2
<1>3. ASSUME q < p PROVE FALSE
  <2>1. P * p >= P * (q + 1)
    BY <1>3
  <2>2. P * (q + 1) = P * q + P
    OBVIOUS
  <2> QED
    BY <2>1, <2>2
<1> QED
  BY <1>1, <1>2, <1>3

(* The place w in the part s of what is cut into parts of W.               *)
LEMMA PartAndPlace ==
  ASSUME NEW W \in Nat, NEW s \in Nat, NEW w \in 0 .. W - 1
  PROVE  /\ s * W + w \in Nat
         /\ (s * W + w) \div W = s
         /\ (s * W + w) % W = w
<1> DEFINE n == s * W + w
<1>1. n \in Nat /\ W > 0 /\ n = w + W * s
  OBVIOUS
<1> HIDE DEF n
<1> DEFINE q == n \div W
           r == n % W
<1>2. q \in Nat /\ r \in 0 .. W - 1 /\ n = r + W * q
  BY <1>1
<1> HIDE DEF q, r
<1>3. r = w
  BY <1>1, <1>2, SameRest
<1>4. W * q = W * s
  BY <1>1, <1>2, <1>3
<1>5. q = s
  BY <1>1, <1>2, <1>4
<1> QED
  BY <1>1, <1>3, <1>5 DEF n, q, r
=============================================================================
