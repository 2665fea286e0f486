------------------------- MODULE MCDemoRates_proofs -------------------------
(***************************************************************************)
(* The properties of the rate arithmetic for every platform limit and      *)
(* every number of clients: what the clamp and the rounding do to a        *)
(* request is what a client may rely on.                                   *)
(***************************************************************************)
EXTENDS MCDemoRates, DemoRates_proofs

(* The fall-through of demo_compute_odr is the least step of the ladder.    *)
LEMMA LeastStepIsOdr ==
  ASSUME NEW rate \in Nat
  PROVE  LeastStep(rate) = compute_odr(rate)
<1> DEFINE P(s) == /\ Reaches(s, rate) \/ s = 3200 * Hz
                   /\ \A t \in OdrRates: Reaches(t, rate) => s <= t
<1>1. compute_odr(rate) \in OdrRates /\ P(compute_odr(rate))
  BY OdrBounds DEF Reaches
<1>2. ASSUME NEW s \in OdrRates, P(s) PROVE s = compute_odr(rate)
  <2> DEFINE r == compute_odr(rate)
             top == 3200 * Hz
  <2>1. s \in Nat /\ s <= top /\ r \in Nat /\ r <= top
    BY <1>1, RatesAreNumbers
  <2>2. Reaches(s, rate) \/ s = top
    BY <1>2
  <2>3. Reaches(r, rate) \/ r = top
    BY <1>1
  <2>4. (Reaches(r, rate) => s <= r) /\ (Reaches(s, rate) => r <= s)
    BY <1>1, <1>2
  <2>5. top \in Nat
    BY HzAssumption
  <2> HIDE DEF r, top
  <2>6. s = r
    BY <2>1, <2>2, <2>3, <2>4, <2>5
  <2> QED
    BY <2>6 DEF r
<1>3. LeastStep(rate) = CHOOSE s \in OdrRates: P(s)
  BY DEF LeastStep
<1> HIDE DEF P
<1> QED
  BY <1>1, <1>2, <1>3

-----------------------------------------------------------------------------
(* What is known of the wishes: the merged rates are the highest of a finite
   set, and a client that is reported to is sampled at least as often. *)
WishesInv ==
  /\ wish \in [Clients -> Wishes]
  /\ \A c \in Clients: Sensible(wish[c])

LEMMA WishesInductive == Spec => []WishesInv
<1>1. Init => WishesInv
  <2> SUFFICES ASSUME Init PROVE WishesInv
    OBVIOUS
  <2>1. wish \in [Clients -> {w \in Wishes: w.sample = 0 /\ w.report = 0}]
    BY DEF Init
  <2> QED
    BY <2>1 DEF WishesInv, Sensible
<1>2. WishesInv /\ [Next]_wish => WishesInv'
  <2> SUFFICES ASSUME WishesInv, [Next]_wish PROVE WishesInv'
    OBVIOUS
  <2>1. CASE Next
    <3>1. PICK c \in Clients, w \in Wishes: Ask(c, w)
      BY <2>1 DEF Next
    <3> QED
      BY <3>1 DEF WishesInv, Ask
  <2>2. CASE UNCHANGED wish
    BY <2>2 DEF WishesInv
  <2> QED
    BY <2>1, <2>2
<1> QED
  BY <1>1, <1>2, PTL DEF Spec

LEMMA MergedRates ==
  ASSUME WishesInv
  PROVE  /\ sample \in Nat /\ report \in Nat
         /\ report <= sample
         /\ sample > 0 => report > 0
<1> DEFINE Samples == {w.sample: w \in {wish[c]: c \in Clients}}
           Reports == {w.report: w \in {wish[c]: c \in Clients}}
<1>1. \A c \in Clients: /\ wish[c] \in Wishes
                        /\ wish[c].sample \in Samples
                        /\ wish[c].report \in Reports
  BY DEF WishesInv
<1>2. /\ \A x \in Samples: \E c \in Clients: x = wish[c].sample
      /\ \A x \in Reports: \E c \in Clients: x = wish[c].report
  OBVIOUS
<1>3. sample = MaxOf(Samples) /\ report = MaxOf(Reports)
  BY DEF sample, report, chosen_sample_rate, chosen_report_rate
<1>4. Samples \subseteq WishedRates /\ Reports \subseteq WishedRates \cup ReportRates
  BY <1>1 DEF Wishes
<1>5. /\ Samples \in SUBSET Nat /\ IsFiniteSet(Samples)
      /\ Reports \in SUBSET Nat /\ IsFiniteSet(Reports)
  <2>1. Samples \subseteq WishedRates \cup ReportRates
    BY <1>4
  <2>2. IsFiniteSet(Samples) /\ IsFiniteSet(Reports)
    BY <1>4, <2>1, FS_Subset, WishesAssumption
  <2> QED
    BY <1>4, <2>1, <2>2, WishesAssumption
<1>6. /\ MaxOf(Samples) \in Nat /\ MaxOf(Reports) \in Nat
      /\ Samples # {} => MaxOf(Samples) \in Samples /\ \A y \in Samples: y <= MaxOf(Samples)
      /\ Reports # {} => MaxOf(Reports) \in Reports /\ \A y \in Reports: y <= MaxOf(Reports)
  BY <1>5, MaxOfIsHighest
<1>7. /\ Samples = {} => MaxOf(Samples) = 0
      /\ Reports = {} => MaxOf(Reports) = 0
  BY DEF MaxOf
<1> HIDE DEF Samples, Reports
<1>8. report <= sample
  <2>1. CASE Reports = {}
    BY <1>3, <1>6, <1>7, <2>1
  <2>2. CASE Reports # {}
    <3>1. PICK c \in Clients: report = wish[c].report
      BY <1>2, <1>3, <1>6, <2>2
    <3>2. wish[c].report <= wish[c].sample /\ wish[c].sample \in Samples
      BY <1>1 DEF WishesInv, Sensible
    <3>3. wish[c].sample <= sample /\ wish[c].sample \in Nat
      BY <1>3, <1>5, <1>6, <3>2
    <3> QED
      BY <1>3, <1>6, <3>1, <3>2, <3>3
  <2> QED
    BY <2>1, <2>2
<1>9. ASSUME sample > 0 PROVE report > 0
  <2>1. PICK c \in Clients: sample = wish[c].sample
    BY <1>2, <1>3, <1>6, <1>7, <1>9
  <2>2. wish[c].report > 0 /\ wish[c].report \in Reports
    BY <1>1, <1>9, <2>1 DEF WishesInv, Sensible
  <2>3. wish[c].report <= report /\ wish[c].report \in Nat
    BY <1>3, <1>5, <1>6, <2>2
  <2> QED
    BY <1>3, <1>6, <2>2, <2>3
<1> QED
  BY <1>3, <1>6, <1>8, <1>9

-----------------------------------------------------------------------------
(* demo_compute_odr always sets the lowest rate of the chip that falls short
   of the highest wish of the clients by less than 1 Hz, and writes its code:
   the wishes may be fractions of a hertz, and the cast drops the fraction. *)
THEOREM OdrAlwaysLeastStep == Spec => []OdrIsLeastStep
<1>1. WishesInv => OdrIsLeastStep
  BY MergedRates, LeastStepIsOdr DEF OdrIsLeastStep, compute_odr
<1> QED
  BY <1>1, WishesInductive, PTL

(* Whatever the clients ask for, demo_config_hw may be run again on the rate
   it has stored: the clamp and the rounding leave it as it is. *)
THEOREM ReconfigurationAlwaysStable == Spec => []ReconfigurationIsStable
<1>1. WishesInv => ReconfigurationIsStable
  BY MergedRates, ChipRateStable DEF ReconfigurationIsStable, configured
<1> QED
  BY <1>1, WishesInductive, PTL

(* A request in the platform's range gets a chip that is behind it by less
   than 1 Hz, if the platform's maximum is not above the ladder's end. *)
THEOREM RequestAlwaysHonoured ==
  ASSUME max_odr <= 3200
  PROVE  Spec => []RequestHonoured
<1>1. ASSUME WishesInv, sample <= max_odr * Hz
      PROVE  Reaches(configured, sample)
  <2>1. sample \in 0..(max_odr * Hz)
    BY <1>1, MergedRates, OdrRangeAssumption, HzAssumption
  <2> QED
    BY <2>1, ChipIsFastEnough DEF configured, Reaches
<1>2. WishesInv => RequestHonoured
  BY <1>1 DEF RequestHonoured
<1> QED
  BY <1>2, WishesInductive, PTL

(* acc_conf[1] and gyr_conf[1] switch the chip off when no client wants
   samples, and never while one does. *)
THEOREM AlwaysOffWhenIdle == Spec => []OffExactlyWhenIdle
<1>1. ASSUME WishesInv PROVE OffExactlyWhenIdle
  <2>1. configured \in Nat /\ (configured = 0 <=> sample = 0)
    BY <1>1, MergedRates, ChipRateOfZero DEF configured
  <2> DEFINE a == 15 * Hz
             b == 400 * Hz
  <2>2. a \in Nat /\ b \in Nat /\ a > 0 /\ b > 0
    BY HzAssumption
  <2>3. power_mode(configured) =
          CASE configured = 0                             -> "off"
            [] configured > 0 /\ configured < a           -> "low_power"
            [] configured >= a /\ configured < b          -> "normal"
            [] configured >= b                            -> "high_performance"
    BY DEF power_mode
  <2> HIDE DEF a, b
  <2>4. CASE configured = 0
    BY <2>1, <2>2, <2>3, <2>4 DEF OffExactlyWhenIdle
  <2>5. CASE configured > 0
    <3>1. power_mode(configured) \in {"low_power", "normal", "high_performance"}
      BY <2>1, <2>2, <2>3, <2>5
    <3> QED
      BY <2>1, <2>5, <3>1 DEF OffExactlyWhenIdle
  <2> QED
    BY <2>1, <2>4, <2>5
<1> QED
  BY <1>1, WishesInductive, PTL

(* While a client wants samples the FIFO is given a watermark of no frames
   only if the cast has left the chip behind the merged report rate, and then
   by less than 1 Hz. *)
THEOREM WatermarkAlwaysPositive ==
  ASSUME max_odr <= 3200
  PROVE  Spec => []WatermarkIsPositive
<1>1. ASSUME WishesInv, sample > 0, sample <= max_odr * Hz, ~ (configured < report)
      PROVE  watermark(configured, report) >= 1
  <2>1. /\ sample \in Nat /\ report \in Nat /\ report > 0
        /\ configured \in Nat
    BY <1>1, MergedRates, ChipRateOfZero DEF configured
  <2>2. \A a, b \in Nat: a >= b /\ b > 0 => a \div b >= 1
    OBVIOUS
  <2>3. configured >= report
    BY <1>1, <2>1
  <2> QED
    BY <2>1, <2>2, <2>3 DEF watermark
<1>2. ASSUME WishesInv, sample > 0, sample <= max_odr * Hz
      PROVE  Reaches(configured, report)
  <2>1. /\ sample \in Nat /\ report \in Nat /\ report <= sample
        /\ configured \in Nat
    BY <1>2, MergedRates, ChipRateOfZero DEF configured
  <2>2. sample \in 0..(max_odr * Hz)
    BY <1>2, <2>1, OdrRangeAssumption, HzAssumption
  <2>3. configured + Hz > sample
    BY <2>2, ChipIsFastEnough DEF configured
  <2> QED
    BY <2>1, <2>3, HzAssumption DEF Reaches
<1>3. WishesInv => WatermarkIsPositive
  BY <1>1, <1>2 DEF WatermarkIsPositive
<1> QED
  BY <1>3, WishesInductive, PTL
=============================================================================
