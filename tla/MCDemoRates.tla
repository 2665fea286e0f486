----------------------------- MODULE MCDemoRates -----------------------------
(***************************************************************************)
(* Checks the rate arithmetic of DemoRates over every pair of wishes that  *)
(* two clients of one sensor can hold.                                     *)
(***************************************************************************)
EXTENDS DemoRates

CONSTANTS
  Clients,      \* the clients of one sensor
  WishedRates,  \* the sample rates they ask for
  ReportRates   \* the rates they ask to be reported at when they batch

ASSUME WishesAssumption ==
  /\ WishedRates \cup ReportRates \subseteq Nat
  /\ IsFiniteSet(WishedRates \cup ReportRates)

VARIABLE wish   \* wish[c]: what client c asks for

Wishes == [sample : WishedRates, report : ReportRates \cup WishedRates]

(* A client that batches is reported to less often than it is sampled.      *)
Sensible(w) == w.report <= w.sample /\ (w.sample > 0 => w.report > 0)

Init == wish \in [Clients -> {w \in Wishes : w.sample = 0 /\ w.report = 0}]
Ask(c, w) == Sensible(w) /\ wish' = [wish EXCEPT ![c] = w]
Next == \E c \in Clients, w \in Wishes : Ask(c, w)
Spec == Init /\ [][Next]_wish

-----------------------------------------------------------------------------
sample == chosen_sample_rate({wish[c] : c \in Clients})
report == chosen_report_rate({wish[c] : c \in Clients})
configured == chip_rate(sample)

(* A rate of the chip reaches a request if it falls short of it by less     *)
(* than the hertz that the cast to uint32_t can drop.                       *)
Reaches(step, rate) == step + Hz > rate

LeastStep(rate) ==
  CHOOSE s \in OdrRates :
    /\ Reaches(s, rate) \/ s = 3200 * Hz
    /\ \A t \in OdrRates : Reaches(t, rate) => s <= t

(* The cast, the thresholds and the fall-through of demo_compute_odr pick   *)
(* the lowest rate the chip has that reaches the request, and the code      *)
(* written to acc_conf[0] is that rate's place in the chip's table.  The    *)
(* step may be below a request that lies less than 1 Hz above it (25.5 Hz   *)
(* gets 25 Hz) and below no other, except at the end of the ladder.         *)
OdrIsLeastStep ==
  /\ compute_odr(sample) = LeastStep(sample)
  /\ OdrSteps[odr_code(sample)] * Hz = LeastStep(sample)

(* The step is never below the request.  TLC refutes it (no listed run      *)
(* does): demo_compute_odr drops the part of a hertz before the ladder.     *)
OdrSatisfiesRequest == sample <= 3200 * Hz => compute_odr(sample) >= sample

(* demo_config_hw re-applies the clamp and the rounding to the stored rate  *)
(* of every enabled sensor each time any of them is configured: doing it    *)
(* again must not move a rate that was already configured.                  *)
ReconfigurationIsStable == chip_rate(configured) = configured

(* A request inside the platform's range is never answered with a chip that *)
(* is slower by a hertz or more, however the clamp, the cast and the        *)
(* rounding interact.                                                       *)
RequestHonoured ==
  (sample >= min_odr * Hz /\ sample <= max_odr * Hz) => Reaches(configured, sample)

(* The chip is switched off exactly when no client wants samples.           *)
OffExactlyWhenIdle == (power_mode(configured) = "off") <=> (sample = 0)

(* The FIFO watermark computed from the merged sample and report rates of   *)
(* several clients is at least one frame, as long as nobody asks for more   *)
(* than the platform's maximum.  The one exception is the fraction of a     *)
(* hertz that the cast took from the sample rate and not from the report    *)
(* rate: it is then the chip that is behind, by less than 1 Hz.             *)
WatermarkIsPositive ==
  (sample > 0 /\ sample <= max_odr * Hz) =>
    \/ watermark(configured, report) >= 1
    \/ configured < report /\ Reaches(configured, report)

(* The watermark is at least one frame without exception.  TLC refutes it   *)
(* (no listed run does): one client that does not batch and asks for        *)
(* 25.5 Hz gets a chip at 25 Hz and wtm = (uint16_t)(25 / 25.5) = 0.        *)
WatermarkIsNeverZero ==
  (sample > 0 /\ sample <= max_odr * Hz) => watermark(configured, report) >= 1

(* The watermark register holds the three words per frame that              *)
(* demo_config_fifo computes, split by GET_LSB and GET_MSB.  TLC refutes it *)
(* (no listed run does): GET_MSB masks the high byte and does not shift it. *)
WatermarkRegisterHoldsFrames ==
  (sample > 0 /\ watermark(configured, report) * 3 < 65536) =>
    fifo_wtm_register(watermark(configured, report))
      = watermark(configured, report) * 3
=============================================================================
