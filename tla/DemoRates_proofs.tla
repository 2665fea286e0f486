-------------------------- MODULE DemoRates_proofs --------------------------
(***************************************************************************)
(* Lemmas about the rate arithmetic, for every rate and every platform     *)
(* limit: the ladder is searched right, and the clamp and the rounding     *)
(* leave a rate that they made.                                            *)
(***************************************************************************)
EXTENDS DemoRates, FiniteSetTheorems, TLAPS

-----------------------------------------------------------------------------
(* A set of rates that is not empty and finite has a highest one: otherwise
   there would be a smallest set without, and taking a rate out of it would
   leave a smaller one. *)
LEMMA HighestRate ==
  ASSUME NEW S \in SUBSET Nat, IsFiniteSet(S), S # {}
  PROVE  \E x \in S: \A y \in S: y <= x
<1> DEFINE HasMax(X) == \E x \in X: \A y \in X: y <= x
           T == {X \in SUBSET S: X # {} /\ ~ HasMax(X)}
           R == StrictSubsetOrdering(S)
<1> SUFFICES ASSUME T # {} PROVE FALSE
  OBVIOUS
<1>1. IsWellFoundedOn(R, SUBSET S)
  BY FS_StrictSubsetOrderingWellFounded, FS_FiniteSubsetsOfFinite
<1>2. T \subseteq SUBSET S
  OBVIOUS
<1> HIDE DEF T, R
<1>3. PICK X \in T: \A Y \in T: ~ (<<Y, X>> \in R)
  BY <1>1, <1>2, WFMin
<1> USE DEF T
<1>4. PICK x \in X: TRUE
  OBVIOUS
<1> DEFINE Y == X \ {x}
<1>5. CASE Y = {}
  BY <1>3, <1>5
<1>6. CASE Y # {}
  <2>1. <<Y, X>> \in R
    BY <1>4 DEF R, StrictSubsetOrdering
  <2>2. PICK m \in Y: \A y \in Y: y <= m
    BY <1>3, <1>6, <2>1
  <2>3. X \subseteq Nat
    BY <1>3
  <2>4. CASE m <= x
    BY <1>3, <2>2, <2>3, <2>4
  <2>5. CASE x <= m
    BY <1>3, <2>2, <2>3, <2>5
  <2> QED
    BY <2>3, <2>4, <2>5
<1> QED
  BY <1>5, <1>6

(* MaxOf of a finite set of numbers is the highest of them.                 *)
LEMMA MaxOfIsHighest ==
  ASSUME NEW S \in SUBSET Nat, IsFiniteSet(S)
  PROVE  /\ MaxOf(S) \in Nat
         /\ S # {} => MaxOf(S) \in S /\ \A y \in S: y <= MaxOf(S)
  BY HighestRate DEF MaxOf

-----------------------------------------------------------------------------
(* Hertz and their parts: the cast keeps the whole hertz of a rate, and
   counting hertz in parts keeps their order, with a hertz between any two. *)
LEMMA WholeHertz ==
  ASSUME NEW rate \in Nat
  PROVE  whole(rate) \in Nat /\ whole(rate) * Hz <= rate /\ rate < whole(rate) * Hz + Hz
<1>1. Hz \in Nat /\ Hz > 0
  BY HzAssumption
<1>2. rate \div Hz \in Nat /\ rate % Hz \in 0..(Hz - 1)
  BY <1>1
<1>3. rate = Hz * (rate \div Hz) + (rate % Hz)
  BY <1>1
<1> DEFINE q == rate \div Hz
<1>4. q \in Nat /\ rate = Hz * q + (rate % Hz)
  BY <1>2, <1>3
<1> HIDE DEF q
<1>5. Hz * q = q * Hz /\ q * Hz \in Nat
  BY <1>1, <1>4
<1>6. q * Hz <= rate /\ rate < q * Hz + Hz
  <2> DEFINE m == q * Hz
             e == rate % Hz
  <2>1. m \in Nat /\ e \in 0..(Hz - 1) /\ rate = m + e
    BY <1>2, <1>4, <1>5
  <2> HIDE DEF m, e
  <2>2. m <= rate /\ rate < m + Hz
    BY <1>1, <2>1
  <2> QED
    BY <2>2 DEF m
<1>7. whole(rate) = q
  BY DEF whole, q
<1> QED
  BY <1>4, <1>6, <1>7

LEMMA PartsOrdered ==
  ASSUME NEW a \in Nat, NEW b \in Nat
  PROVE  /\ a * Hz \in Nat /\ b * Hz \in Nat
         /\ a <= b <=> a * Hz <= b * Hz
         /\ a <= b <=> a * Hz < b * Hz + Hz
<1>1. Hz \in Nat /\ Hz > 0
  BY HzAssumption
<1>2. a * Hz \in Nat /\ b * Hz \in Nat
  BY <1>1
<1>3. ASSUME a <= b PROVE a * Hz <= b * Hz
  <2>1. PICK d \in Nat: b = a + d
    <3>1. b - a \in Nat /\ b = a + (b - a)
      BY <1>3
    <3> QED
      BY <3>1
  <2>2. (a + d) * Hz = a * Hz + d * Hz /\ d * Hz \in Nat
    BY <1>1
  <2> QED
    BY <1>2, <2>1, <2>2
<1>4. ASSUME b < a PROVE b * Hz + Hz <= a * Hz
  <2>1. PICK d \in Nat: a = (b + 1) + d
    <3>1. a - (b + 1) \in Nat /\ a = (b + 1) + (a - (b + 1))
      BY <1>4
    <3> QED
      BY <3>1
  <2>2. ((b + 1) + d) * Hz = (b * Hz + Hz) + d * Hz /\ d * Hz \in Nat
    BY <1>1
  <2> QED
    BY <1>1, <1>2, <2>1, <2>2
<1>5. a <= b \/ b < a
  OBVIOUS
<1> DEFINE A == a * Hz
           B == b * Hz
<1>6. A \in Nat /\ B \in Nat /\ (a <= b => A <= B) /\ (b < a => B + Hz <= A)
  BY <1>2, <1>3, <1>4
<1> HIDE DEF A, B
<1>7. (a <= b <=> A <= B) /\ (a <= b <=> A < B + Hz)
  BY <1>1, <1>5, <1>6
<1> QED
  BY <1>2, <1>7 DEF A, B

(* A step of the ladder is passed when the request is a hertz or more above
   it: dropping a part of a hertz from the request does not pass a step. *)
LEMMA WholeExceeds ==
  ASSUME NEW rate \in Nat, NEW step \in Nat
  PROVE  step * Hz \in Nat /\ (whole(rate) > step <=> step * Hz + Hz <= rate)
<1> DEFINE w == whole(rate)
<1>1. w \in Nat /\ w * Hz <= rate /\ rate < w * Hz + Hz
  BY WholeHertz
<1> HIDE DEF w
<1>2. /\ step * Hz \in Nat /\ w * Hz \in Nat
      /\ (w <= step => w * Hz <= step * Hz)
      /\ (w > step => ~ (w * Hz < step * Hz + Hz))
  BY <1>1, PartsOrdered
<1>3. Hz \in Nat
  BY HzAssumption
<1> DEFINE W == w * Hz
           S == step * Hz
<1>4. /\ S \in Nat /\ W \in Nat /\ W <= rate /\ rate < W + Hz
      /\ (w <= step => W <= S) /\ (w > step => ~ (W < S + Hz))
  BY <1>1, <1>2
<1> HIDE DEF W, S
<1>5. w > step <=> S + Hz <= rate
  BY <1>1, <1>3, <1>4
<1> QED
  BY <1>2, <1>5 DEF w, S

-----------------------------------------------------------------------------
LEMMA StepsRise ==
  /\ OdrSteps \in [1..13 -> Nat] /\ Len(OdrSteps) = 13
  /\ \A i, j \in 1..13: i < j => OdrSteps[i] < OdrSteps[j]
  /\ OdrSteps[1] = 0 /\ OdrSteps[13] = 3200
<1>1. OdrSteps \in [1..13 -> Nat] /\ Len(OdrSteps) = 13
  BY DEF OdrSteps
<1>2. \A i \in 1..12: OdrSteps[i] < OdrSteps[i + 1]
  BY DEF OdrSteps
<1>3. \A i, j \in 1..13: i < j => OdrSteps[i] < OdrSteps[j]
  <2> SUFFICES ASSUME NEW i \in 1..13, NEW j \in 1..13, i < j
               PROVE  OdrSteps[i] < OdrSteps[j]
    OBVIOUS
  <2> QED
    BY DEF OdrSteps
<1> QED
  BY <1>1, <1>3 DEF OdrSteps

(* demo_compute_odr ends between two steps: the request is a hertz or more
   above the one below and not above the one taken, unless that is the last. *)
LEMMA CodeIsBetween ==
  ASSUME NEW rate \in Nat
  PROVE  LET k == odr_code(rate)
         IN  /\ k \in 1..13
             /\ k > 1 => rate >= OdrSteps[k - 1] * Hz + Hz
             /\ k < 13 => rate < OdrSteps[k] * Hz + Hz
<1> DEFINE E == exceeded(rate)
<1>1. E = {i \in 1..12: whole(rate) > OdrSteps[i]}
  BY StepsRise DEF exceeded
<1>2. IsFiniteSet(E) /\ E \in SUBSET Nat
  <2>1. IsFiniteSet(1..12)
    <3>1. 1 \in Int /\ 12 \in Int
      OBVIOUS
    <3> QED
      BY <3>1, FS_Interval, Zenon
  <2> QED
    BY <1>1, <2>1, FS_Subset
<1>3. \A i \in 1..12: /\ OdrSteps[i] \in Nat /\ OdrSteps[i] * Hz \in Nat
                      /\ i \in E <=> OdrSteps[i] * Hz + Hz <= rate
  BY <1>1, StepsRise, WholeExceeds
<1>4. Hz \in Nat
  BY HzAssumption
<1> HIDE DEF E
<1>5. ASSUME NEW i \in 1..12, i \notin E PROVE rate < OdrSteps[i] * Hz + Hz
  <2> DEFINE S == OdrSteps[i] * Hz
  <2>1. S \in Nat /\ ~ (S + Hz <= rate)
    BY <1>3, <1>5
  <2> HIDE DEF S
  <2>2. rate < S + Hz
    BY <1>4, <2>1
  <2> QED
    BY <2>2 DEF S
<1>6. CASE E = {}
  <2>1. odr_code(rate) = 1
    BY <1>6 DEF odr_code, MaxOf, E
  <2>2. rate < OdrSteps[1] * Hz + Hz
    BY <1>5, <1>6
  <2> QED
    BY <2>1, <2>2
<1>7. CASE E # {}
  <2> DEFINE m == MaxOf(E)
  <2>1. m \in E /\ \A y \in E: y <= m
    BY <1>2, <1>7, MaxOfIsHighest
  <2>2. odr_code(rate) = m + 1
    BY DEF odr_code, E
  <2> HIDE DEF m
  <2>3. m \in 1..12
    BY <1>1, <2>1 DEF E
  <2>4. rate >= OdrSteps[m] * Hz + Hz
    <3> DEFINE S == OdrSteps[m] * Hz
    <3>1. S \in Nat /\ S + Hz <= rate
      BY <1>3, <2>1, <2>3
    <3> HIDE DEF S
    <3>2. rate >= S + Hz
      BY <1>4, <3>1
    <3> QED
      BY <3>2 DEF S
  <2>5. ASSUME m < 12 PROVE rate < OdrSteps[m + 1] * Hz + Hz
    <3>1. m + 1 \notin E /\ m + 1 \in 1..12
      BY <2>1, <2>3, <2>5
    <3> QED
      BY <1>5, <3>1
  <2>6. m + 1 \in 1..13 /\ (m + 1) - 1 = m /\ (m + 1 < 13 => m < 12)
    BY <2>3
  <2> QED
    BY <2>2, <2>4, <2>5, <2>6
<1> QED
  BY <1>6, <1>7

(* No output data rate is above 3200 Hz.                                    *)
LEMMA RatesAreNumbers == \A t \in OdrRates: t \in Nat /\ t <= 3200 * Hz
<1> SUFFICES ASSUME NEW i \in 1..13
             PROVE OdrSteps[i] * Hz \in Nat /\ OdrSteps[i] * Hz <= 3200 * Hz
  BY StepsRise DEF OdrRates
<1>1. OdrSteps[i] \in Nat /\ OdrSteps[i] <= 3200
  <2>1. CASE i = 13
    BY <2>1, StepsRise
  <2>2. CASE i < 13
    BY <2>2, StepsRise
  <2> QED
    BY <2>1, <2>2
<1>2. 3200 \in Nat
  OBVIOUS
<1> QED
  BY <1>1, <1>2, PartsOrdered

(* The rate that is set is a step, a hertz or more below the request only if
   no step is that high, and no step between the two is left out. *)
LEMMA OdrBounds ==
  ASSUME NEW rate \in Nat
  PROVE  LET r == compute_odr(rate)
         IN  /\ r \in OdrRates /\ r \in Nat /\ r <= 3200 * Hz
             /\ r + Hz > rate \/ r = 3200 * Hz
             /\ \A t \in OdrRates: t + Hz > rate => r <= t
<1> DEFINE k == odr_code(rate)
           r == OdrSteps[k] * Hz
<1>1. /\ k \in 1..13
      /\ k > 1 => rate >= OdrSteps[k - 1] * Hz + Hz
      /\ k < 13 => rate < r + Hz
  BY CodeIsBetween
<1>2. compute_odr(rate) = r
  BY DEF compute_odr
<1> HIDE DEF k
<1>3. r \in OdrRates
  BY <1>1, StepsRise DEF OdrRates
<1>4. r \in Nat /\ r <= 3200 * Hz
  BY <1>3, RatesAreNumbers
<1>5. r + Hz > rate \/ r = 3200 * Hz
  <2>1. CASE k = 13
    BY <2>1, StepsRise
  <2>2. CASE k < 13
    <3>1. rate < r + Hz /\ r \in Nat /\ Hz \in Nat
      BY <1>1, <1>4, <2>2, HzAssumption
    <3> HIDE DEF r
    <3> QED
      BY <3>1
  <2> QED
    BY <1>1, <2>1, <2>2
<1>6. ASSUME NEW t \in OdrRates, t + Hz > rate PROVE r <= t
  <2>1. PICK i \in 1..13: t = OdrSteps[i] * Hz
    BY StepsRise DEF OdrRates
  <2>2. OdrSteps[i] \in Nat /\ OdrSteps[k] \in Nat
    BY <1>1, StepsRise
  <2>3. CASE i >= k
    <3>1. OdrSteps[k] <= OdrSteps[i]
      BY <1>1, <2>3, StepsRise
    <3> QED
      BY <2>1, <2>2, <3>1, PartsOrdered
  <2>4. CASE i < k
    <3>1. k - 1 \in 1..13 /\ (i < k - 1 \/ i = k - 1) /\ k > 1
      BY <1>1, <2>4
    <3>2. OdrSteps[i] <= OdrSteps[k - 1] /\ OdrSteps[k - 1] \in Nat
      BY <3>1, StepsRise
    <3> DEFINE u == OdrSteps[k - 1] * Hz
    <3>3. t \in Nat /\ u \in Nat /\ t <= u
      BY <2>1, <2>2, <3>2, PartsOrdered
    <3>4. rate >= u + Hz
      BY <1>1, <3>1
    <3> HIDE DEF u
    <3> QED
      BY <1>6, <3>3, <3>4, HzAssumption
  <2> QED
    BY <1>1, <2>3, <2>4
<1> QED
  BY <1>2, <1>3, <1>4, <1>5, <1>6

-----------------------------------------------------------------------------
LEMMA ClampFacts ==
  ASSUME NEW rate \in Nat
  PROVE  /\ clamp(rate) \in Nat
         /\ min_odr * Hz \in Nat /\ max_odr * Hz \in Nat /\ min_odr * Hz <= max_odr * Hz
         /\ Hz <= min_odr * Hz
         /\ clamp(rate) = 0 <=> rate = 0
         /\ rate > 0 => clamp(rate) \in (min_odr * Hz)..(max_odr * Hz)
         /\ rate \in (min_odr * Hz)..(max_odr * Hz) => clamp(rate) = rate
         /\ rate > max_odr * Hz => clamp(rate) = max_odr * Hz
         /\ rate > 0 /\ rate < min_odr * Hz => clamp(rate) = min_odr * Hz
<1> DEFINE lo == min_odr * Hz
           hi == max_odr * Hz
<1>1. lo \in Nat /\ hi \in Nat /\ lo <= hi
  BY OdrRangeAssumption, PartsOrdered
<1>2. Hz \in Nat /\ Hz > 0 /\ Hz <= lo
  <2>1. 1 \in Nat /\ 1 <= min_odr /\ min_odr \in Nat
    BY OdrRangeAssumption
  <2>2. 1 * Hz <= lo
    BY <2>1, PartsOrdered
  <2> QED
    BY <2>2, HzAssumption
<1>3. clamp(rate) = IF rate = 0 THEN 0
                    ELSE IF (IF rate < lo THEN lo ELSE rate) > hi THEN hi
                    ELSE (IF rate < lo THEN lo ELSE rate)
  BY DEF clamp
<1> HIDE DEF lo, hi
<1> DEFINE c == clamp(rate)
<1>4. c = IF rate = 0 THEN 0
          ELSE IF (IF rate < lo THEN lo ELSE rate) > hi THEN hi
          ELSE (IF rate < lo THEN lo ELSE rate)
  BY <1>3
<1> HIDE DEF c
<1>5. /\ c \in Nat
      /\ c = 0 <=> rate = 0
      /\ rate > 0 => c \in lo..hi
      /\ rate \in lo..hi => c = rate
      /\ rate > hi => c = hi
      /\ rate > 0 /\ rate < lo => c = lo
  BY <1>1, <1>2, <1>4
<1> QED
  BY <1>1, <1>2, <1>5 DEF lo, hi, c

(* Only the rate zero is clamped and rounded to the rate zero: the clamp
   leaves no request a part of a hertz that the cast would drop to nothing. *)
LEMMA ChipRateOfZero ==
  ASSUME NEW rate \in Nat
  PROVE  chip_rate(rate) \in Nat /\ (chip_rate(rate) = 0 <=> rate = 0)
<1> DEFINE c == clamp(rate)
           r == compute_odr(c)
           lo == min_odr * Hz
           hi == max_odr * Hz
<1>1. /\ c \in Nat /\ (c = 0 <=> rate = 0) /\ (rate > 0 => c \in lo..hi)
      /\ lo \in Nat /\ hi \in Nat /\ Hz <= lo
  BY ClampFacts
<1>2. 0 \in OdrRates
  <2>1. OdrSteps[1] * Hz \in OdrRates /\ OdrSteps[1] = 0
    BY StepsRise DEF OdrRates
  <2>2. 0 * Hz = 0
    BY HzAssumption
  <2> QED
    BY <2>1, <2>2
<1> HIDE DEF c, lo, hi
<1>3. /\ r \in Nat
      /\ r + Hz > c \/ r = 3200 * Hz
      /\ 0 + Hz > c => r <= 0
  BY <1>1, <1>2, OdrBounds
<1>4. 3200 * Hz > 0 /\ Hz \in Nat /\ Hz > 0
  BY HzAssumption
<1> DEFINE top == 3200 * Hz
<1>5. (r + Hz > c \/ r = top) /\ top > 0
  BY <1>3, <1>4
<1>6. chip_rate(rate) = r
  BY DEF chip_rate, c
<1> HIDE DEF r, top
<1> QED
  BY <1>1, <1>3, <1>4, <1>5, <1>6

(* A rate of the chip is reached by no lower one.                           *)
LEMMA RatesAreApart ==
  ASSUME NEW s \in OdrRates, NEW n \in Nat
  PROVE  /\ s + Hz > n * Hz => s >= n * Hz
         /\ n * Hz + Hz > s => n * Hz >= s
<1>1. PICK i \in 1..13: s = OdrSteps[i] * Hz
  BY StepsRise DEF OdrRates
<1>2. OdrSteps[i] \in Nat
  BY StepsRise
<1>3. /\ (n <= OdrSteps[i] <=> n * Hz <= s) /\ (n <= OdrSteps[i] <=> n * Hz < s + Hz)
      /\ (OdrSteps[i] <= n <=> s <= n * Hz) /\ (OdrSteps[i] <= n <=> s < n * Hz + Hz)
      /\ s \in Nat /\ n * Hz \in Nat
  BY <1>1, <1>2, PartsOrdered
<1>4. Hz \in Nat
  BY HzAssumption
<1> DEFINE N == n * Hz
<1>5. (N < s + Hz => N <= s) /\ (s < N + Hz => s <= N) /\ s \in Nat /\ N \in Nat
  BY <1>3
<1> HIDE DEF N
<1>6. (s + Hz > N => s >= N) /\ (N + Hz > s => N >= s)
  BY <1>4, <1>5
<1> QED
  BY <1>6 DEF N

(* What the chip has made of a rate it leaves as it is.                     *)
LEMMA ChipRateStable ==
  ASSUME NEW rate \in Nat
  PROVE  chip_rate(chip_rate(rate)) = chip_rate(rate)
<1> DEFINE c == clamp(rate)
           r == compute_odr(c)
           d == clamp(r)
           s == compute_odr(d)
           lo == min_odr * Hz
           hi == max_odr * Hz
           top == 3200 * Hz
<1>1. /\ c \in Nat /\ (c = 0 <=> rate = 0) /\ (rate > 0 => c \in lo..hi)
      /\ lo \in Nat /\ hi \in Nat /\ lo <= hi
  BY ClampFacts
<1> HIDE DEF c
<1>2. /\ r \in OdrRates /\ r \in Nat /\ r <= top /\ (r + Hz > c \/ r = top)
      /\ \A t \in OdrRates: t + Hz > c => r <= t
  BY <1>1, OdrBounds
<1> HIDE DEF r
<1>3. /\ d \in Nat /\ (d = 0 <=> r = 0)
      /\ r \in lo..hi => d = r
      /\ r > hi => d = hi
      /\ r > 0 /\ r < lo => d = lo
  <2>1. r \in Nat
    BY <1>2
  <2> QED
    BY <2>1, ClampFacts
<1> HIDE DEF d
<1>4. /\ s \in OdrRates /\ s \in Nat /\ s <= top /\ (s + Hz > d \/ s = top)
      /\ \A t \in OdrRates: t + Hz > d => s <= t
  BY <1>3, OdrBounds
<1>5. chip_rate(rate) = r /\ chip_rate(r) = s
  BY DEF chip_rate, c, r, d, s
<1>6. r = 0 <=> rate = 0
  BY <1>5, ChipRateOfZero
<1>7. /\ (s + Hz > lo => s >= lo) /\ (r + Hz > lo => r >= lo)
      /\ (s + Hz > r => s >= r)
  <2>1. min_odr \in Nat
    BY OdrRangeAssumption
  <2>2. PICK i \in 1..13: r = OdrSteps[i] * Hz /\ OdrSteps[i] \in Nat
    BY <1>2, StepsRise DEF OdrRates
  <2> QED
    BY <1>2, <1>4, <2>1, <2>2, RatesAreApart
<1>8. Hz \in Nat /\ Hz > 0
  BY HzAssumption
<1>9. (s = 0 <=> r = 0) /\ s = chip_rate(r)
  BY <1>2, <1>5, ChipRateOfZero
<1> HIDE DEF s, lo, hi, top
<1> SUFFICES s = r
  BY <1>5
<1>10. CASE rate = 0
  BY <1>6, <1>9, <1>10
<1>11. CASE rate > 0
  <2>1. c \in lo..hi /\ r > 0
    BY <1>1, <1>2, <1>6, <1>11
  <2>2. CASE r \in lo..hi
    <3>1. d = r /\ s <= r
      BY <1>2, <1>3, <1>4, <1>8, <2>2
    <3> QED
      BY <1>2, <1>4, <1>7, <3>1
  <2>3. CASE r > hi
    \* No step reaches from c up to the platform's maximum.
    <3>1. d = hi /\ c <= d
      BY <1>1, <1>3, <2>1, <2>3
    <3>2. s <= r
      BY <1>1, <1>2, <1>4, <1>8, <2>3, <3>1
    <3>3. r <= s
      <4>1. CASE s + Hz > d
        BY <1>1, <1>2, <1>4, <1>8, <3>1, <4>1
      <4>2. CASE s = top
        BY <1>2, <4>2
      <4> QED
        BY <1>4, <4>1, <4>2
    <3> QED
      BY <1>2, <1>4, <3>2, <3>3
  <2>4. CASE r < lo
    <3>1. r = top
      <4>1. ~ (r + Hz > c)
        BY <1>1, <1>2, <1>7, <1>8, <2>1, <2>4
      <4> QED
        BY <1>2, <4>1
    <3>2. d = lo
      BY <1>3, <2>1, <2>4
    <3>3. s = top
      BY <1>1, <1>2, <1>4, <1>7, <2>4, <3>1, <3>2
    <3> QED
      BY <3>1, <3>3
  <2> QED
    BY <1>1, <1>2, <2>2, <2>3, <2>4
<1> QED
  BY <1>10, <1>11

(* A chip that reaches the platform's maximum reaches every request up to it. *)
LEMMA ChipIsFastEnough ==
  ASSUME max_odr <= 3200, NEW rate \in 0..(max_odr * Hz)
  PROVE  chip_rate(rate) \in Nat /\ chip_rate(rate) + Hz > rate
<1> DEFINE hi == max_odr * Hz
           top == 3200 * Hz
           c == clamp(rate)
           r == compute_odr(c)
<1>1. rate \in Nat
  <2>1. hi \in Nat
    BY OdrRangeAssumption, PartsOrdered
  <2> HIDE DEF hi
  <2>2. rate \in 0..hi
    BY DEF hi
  <2> QED
    BY <2>1, <2>2
<1>2. hi \in Nat /\ hi <= top /\ top \in Nat
  <2>1. max_odr \in Nat /\ 3200 \in Nat
    BY OdrRangeAssumption
  <2> QED
    BY <2>1, PartsOrdered
<1> DEFINE lo == min_odr * Hz
<1>3. /\ c \in Nat /\ lo \in Nat /\ lo <= hi
      /\ c = 0 <=> rate = 0
      /\ rate > 0 => c \in lo..hi
      /\ rate \in lo..hi => c = rate
      /\ rate > 0 /\ rate < lo => c = lo
  BY <1>1, ClampFacts
<1>4. rate <= hi
  <2>1. rate \in 0..hi
    OBVIOUS
  <2> HIDE DEF hi
  <2> QED
    BY <1>2, <2>1
<1> HIDE DEF c
<1>5. r \in Nat /\ (r + Hz > c \/ r = top)
  BY <1>3, OdrBounds
<1>6. chip_rate(rate) = r
  BY DEF chip_rate, c
<1>7. Hz \in Nat /\ Hz > 0
  BY HzAssumption
<1> HIDE DEF r, hi, top, lo
<1>8. c >= rate /\ c <= hi
  BY <1>1, <1>2, <1>3, <1>4
<1>9. r + Hz > rate
  BY <1>1, <1>2, <1>3, <1>5, <1>7, <1>8
<1> QED
  BY <1>5, <1>6, <1>9
=============================================================================
