---------------------------- MODULE CommonLemmas ----------------------------
(***************************************************************************)
(* Facts that the proofs about several parts of the project rest on: the   *)
(* arithmetic of indices that wrap around, induction over the natural      *)
(* numbers, and functions defined by recursion on them.  Induction is      *)
(* stated with sets of numbers, recursion with the function that makes the *)
(* next value, so that neither has an operator for a parameter.            *)
(***************************************************************************)
EXTENDS Integers, Sequences, WellFoundedInduction, TLAPS

-----------------------------------------------------------------------------
(* Numbers modulo m.                                                        *)

(* A number reduced modulo m lies below m.                                  *)
LEMMA ModRange ==
  ASSUME NEW m \in Nat \ {0}, NEW x \in Int
  PROVE  x % m \in 0 .. m - 1
OBVIOUS

(* Reducing gives back what is already reduced, and undoes one overflow in  *)
(* either direction.                                                        *)
LEMMA ModOnce ==
  ASSUME NEW m \in Nat \ {0}, NEW x \in 0 .. m - 1
  PROVE  x % m = x /\ (x + m) % m = x /\ (x - m) % m = x
OBVIOUS

(* A difference of two reduced numbers overflows at most once.              *)
LEMMA ModDifference ==
  ASSUME NEW m \in Nat \ {0}, NEW a \in 0 .. m - 1, NEW b \in 0 .. m - 1
  PROVE  (a - b) % m = IF a >= b THEN a - b ELSE a - b + m
<1>1. CASE a >= b
  BY <1>1, ModOnce
<1>2. CASE a < b
  <2>1. a - b + m \in 0 .. m - 1 /\ a - b = (a - b + m) - m
    BY <1>2
  <2>2. ((a - b + m) - m) % m = a - b + m
    BY <2>1, ModOnce
  <2>. QED
    BY <1>2, <2>1, <2>2
<1>. QED
  BY <1>1, <1>2

(* So does a sum.                                                           *)
LEMMA ModSum ==
  ASSUME NEW m \in Nat \ {0}, NEW a \in 0 .. m - 1, NEW b \in 0 .. m - 1
  PROVE  (a + b) % m = IF a + b < m THEN a + b ELSE a + b - m
<1>1. CASE a + b < m
  BY <1>1, ModOnce
<1>2. CASE a + b >= m
  <2>1. a + b - m \in 0 .. m - 1 /\ a + b = (a + b - m) + m
    BY <1>2
  <2>2. ((a + b - m) + m) % m = a + b - m
    BY <2>1, ModOnce
  <2>. QED
    BY <1>2, <2>1, <2>2
<1>. QED
  BY <1>1, <1>2

(* Every number is a multiple of m and its remainder, and in one way only.  *)
LEMMA ModUnique ==
  ASSUME NEW m \in Nat \ {0}, NEW q \in Int, NEW r \in 0 .. m - 1
  PROVE  (q * m + r) % m = r
<1>. DEFINE x == q * m + r
            d == x \div m
            s == x % m
<1>1. x \in Int /\ d \in Int /\ s \in 0 .. m - 1 /\ x = m * d + s
  OBVIOUS
<1>. HIDE DEF x, d, s
<1>2. x = q * m + r
  BY DEF x
<1>3. m * (d - q) = r - s
  BY <1>1, <1>2
<1>4. d - q = 0
  <2>1. CASE d - q >= 1
    <3>1. m * (d - q) >= m
      BY <1>1, <2>1
    <3>. QED
      BY <1>1, <1>3, <3>1
  <2>2. CASE d - q <= -1
    <3>1. m * (d - q) <= - m
      BY <1>1, <2>2
    <3>. QED
      BY <1>1, <1>3, <3>1
  <2>. QED
    BY <1>1, <2>1, <2>2
<1>5. m * (d - q) = 0
  BY <1>1, <1>4
<1>. QED
  BY <1>1, <1>3, <1>5 DEF x, s

(* Taking the remainder before adding 1 makes no difference, nor does it    *)
(* before subtracting.                                                      *)
LEMMA ModNext ==
  ASSUME NEW m \in Nat \ {0}, NEW a \in Int
  PROVE  ((a % m) + 1) % m = (a + 1) % m
<1>. DEFINE q == a \div m
            r == a % m
<1>1. q \in Int /\ r \in 0 .. m - 1 /\ a = q * m + r
  OBVIOUS
<1>. HIDE DEF q, r
<1>2. CASE r + 1 < m
  <2>1. r + 1 \in 0 .. m - 1 /\ a + 1 = q * m + (r + 1)
    BY <1>1, <1>2
  <2>2. (q * m + (r + 1)) % m = r + 1 /\ (0 * m + (r + 1)) % m = r + 1
    BY <1>1, <2>1, ModUnique
  <2>. QED
    BY <1>1, <2>1, <2>2 DEF r
<1>3. CASE r + 1 = m
  <2>1. a + 1 = (q + 1) * m + 0 /\ q + 1 \in Int /\ r + 1 = 1 * m + 0
    BY <1>1, <1>3
  <2>2. ((q + 1) * m + 0) % m = 0 /\ (1 * m + 0) % m = 0
    BY <1>1, <2>1, ModUnique
  <2>. QED
    BY <2>1, <2>2 DEF r
<1>. QED
  BY <1>1, <1>2, <1>3

(* Reducing before or after a subtraction makes no difference.              *)
LEMMA ModMinus ==
  ASSUME NEW m \in Nat \ {0}, NEW a \in Int, NEW b \in Int
  PROVE  ((a % m) - (b % m)) % m = (a - b) % m
<1>. DEFINE q == a \div m
            r == a % m
            t == b \div m
            s == b % m
<1>1. /\ q \in Int /\ r \in 0 .. m - 1 /\ a = q * m + r
      /\ t \in Int /\ s \in 0 .. m - 1 /\ b = t * m + s
  OBVIOUS
<1>. HIDE DEF q, r, t, s
<1>2. (r - s) % m = IF r >= s THEN r - s ELSE r - s + m
  BY <1>1, ModDifference
<1>3. CASE r >= s
  <2>1. a - b = (q - t) * m + (r - s) /\ q - t \in Int /\ r - s \in 0 .. m - 1
    BY <1>1, <1>3
  <2>2. ((q - t) * m + (r - s)) % m = r - s
    BY <2>1, ModUnique
  <2>. QED
    BY <1>2, <1>3, <2>1, <2>2 DEF r, s
<1>4. CASE r < s
  <2>1. /\ a - b = (q - t - 1) * m + (r - s + m) /\ q - t - 1 \in Int
        /\ r - s + m \in 0 .. m - 1
    BY <1>1, <1>4
  <2>2. ((q - t - 1) * m + (r - s + m)) % m = r - s + m
    BY <2>1, ModUnique
  <2>. QED
    BY <1>1, <1>2, <1>4, <2>1, <2>2 DEF r, s
<1>. QED
  BY <1>1, <1>3, <1>4

(* A remainder is at most the number, and less than m steps change it.      *)
LEMMA ModAtMost ==
  ASSUME NEW m \in Nat \ {0}, NEW a \in Nat
  PROVE  a % m <= a
<1>. DEFINE q == a \div m
            r == a % m
<1>1. q \in Int /\ r \in 0 .. m - 1 /\ a = q * m + r
  OBVIOUS
<1>. HIDE DEF q, r
<1>2. q >= 0
  <2>1. CASE q <= -1
    <3>1. q * m <= - m
      BY <1>1, <2>1
    <3>. QED
      BY <1>1, <3>1
  <2>. QED
    BY <1>1, <2>1
<1>3. q * m >= 0
  BY <1>1, <1>2
<1>4. r <= a
  BY <1>1, <1>3
<1>. QED
  BY <1>4 DEF r

(* Two numbers less than m apart have different remainders.                 *)
LEMMA ModDistinct ==
  ASSUME NEW m \in Nat \ {0}, NEW a \in Int, NEW b \in Int, a < b, b - a < m
  PROVE  a % m # b % m
<1>1. (b - a) % m = b - a
  BY ModOnce
<1>2. ((b % m) - (a % m)) % m = b - a
  BY <1>1, ModMinus
<1>3. ASSUME a % m = b % m PROVE FALSE
  <2>1. (b % m) - (a % m) = 0
    BY <1>3
  <2>2. 0 % m = 0
    BY ModOnce
  <2>. QED
    BY <1>2, <2>1, <2>2
<1>. QED
  BY <1>3

-----------------------------------------------------------------------------
(* Induction.  A set of natural numbers that is not empty has a least one.  *)
LEMMA LeastNumber ==
  ASSUME NEW S \in SUBSET Nat, S # {}
  PROVE  \E n \in S : \A m \in S : n <= m
<1>. DEFINE R == {ss \in Nat \X Nat : ss[1] < ss[2]}
<1>1. IsWellFoundedOn(R, Nat)
  BY NatLessThanWellFounded DEF OpToRel
<1>2. \E x \in S : \A y \in S : <<y, x>> \notin R
  <2>. HIDE DEF R
  <2>. QED
    BY <1>1, WFMin
<1>3. \A x, y \in S : <<y, x>> \notin R => x <= y
  OBVIOUS
<1>. QED
  BY <1>2, <1>3

(* What holds of 0 and goes on from each number to the next holds of all    *)
(* numbers up to N.                                                         *)
LEMMA UpTo ==
  ASSUME NEW N \in Nat, NEW S, 0 \in S, \A n \in 0 .. N - 1 : n \in S => n + 1 \in S
  PROVE  \A n \in 0 .. N : n \in S
<1>. SUFFICES ASSUME NEW n \in 0 .. N, n \notin S PROVE FALSE
  OBVIOUS
<1>1. PICK m \in (0 .. N) \ S : \A k \in (0 .. N) \ S : m <= k
  <2>1. (0 .. N) \ S \in SUBSET Nat /\ (0 .. N) \ S # {}
    OBVIOUS
  <2>. QED
    BY <2>1, LeastNumber
<1>2. m # 0 /\ m - 1 \in 0 .. N - 1 /\ m - 1 \in 0 .. N
  OBVIOUS
<1>3. m - 1 \in S
  BY <1>1, <1>2
<1>4. (m - 1) + 1 \in S
  BY <1>2, <1>3
<1>. QED
  BY <1>4

(* Induction over Nat, for a set instead of a predicate.                    *)
LEMMA ForAll ==
  ASSUME NEW S, 0 \in S, \A n \in Nat : n \in S => n + 1 \in S
  PROVE  \A n \in Nat : n \in S
<1>. TAKE n \in Nat
<1>1. \A m \in 0 .. n : m \in S
  BY UpTo
<1>. QED
  BY <1>1

-----------------------------------------------------------------------------
(* Recursion.  step[k] makes the k-th value of the one before it.           *)
Recurs(f, N, D, base, step) ==
  /\ f \in [0 .. N -> D]
  /\ f[0] = base
  /\ \A k \in 1 .. N : f[k] = step[k][f[k - 1]]

(* A recursive function on 0 .. N exists: the induction that the library    *)
(* theorems would need an operator for is done on sets.                     *)
LEMMA RecursionExists ==
  ASSUME NEW N \in Nat, NEW D, NEW base \in D, NEW step \in [1 .. N -> [D -> D]]
  PROVE  \E f : Recurs(f, N, D, base, step)
<1>. DEFINE S == {n \in 0 .. N : \E f \in [0 .. n -> D] :
                     f[0] = base /\ \A k \in 1 .. n : f[k] = step[k][f[k - 1]]}
<1>1. 0 \in S
  <2>. DEFINE f == [k \in 0 .. 0 |-> base]
  <2>1. f \in [0 .. 0 -> D] /\ f[0] = base /\ \A k \in 1 .. 0 : f[k] = step[k][f[k - 1]]
    OBVIOUS
  <2>. HIDE DEF f
  <2>. QED
    BY <2>1
<1>2. ASSUME NEW n \in 0 .. N - 1, n \in S PROVE n + 1 \in S
  <2>1. PICK f \in [0 .. n -> D] :
          f[0] = base /\ \A k \in 1 .. n : f[k] = step[k][f[k - 1]]
    BY <1>2
  <2>. DEFINE g == [k \in 0 .. n + 1 |-> IF k = n + 1 THEN step[n + 1][f[n]] ELSE f[k]]
  <2>2. step[n + 1][f[n]] \in D
    OBVIOUS
  <2>3. g \in [0 .. n + 1 -> D] /\ g[0] = base
    BY <2>1, <2>2
  <2>4. ASSUME NEW k \in 1 .. n + 1 PROVE g[k] = step[k][g[k - 1]]
    <3>1. CASE k = n + 1
      BY <3>1
    <3>2. CASE k # n + 1
      <4>1. k \in 1 .. n /\ g[k] = f[k] /\ g[k - 1] = f[k - 1]
        BY <3>2
      <4>. QED
        BY <2>1, <4>1
    <3>. QED
      BY <3>1, <3>2
  <2>. HIDE DEF g
  <2>5. n + 1 \in 0 .. N
    OBVIOUS
  <2>. QED
    BY <2>3, <2>4, <2>5
<1>. HIDE DEF S
<1>3. \A n \in 0 .. N : n \in S
  BY <1>1, <1>2, UpTo
<1>4. N \in S
  BY <1>3
<1>. QED
  BY <1>4 DEF S, Recurs
=============================================================================
