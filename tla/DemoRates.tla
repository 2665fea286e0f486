------------------------------ MODULE DemoRates ------------------------------
(***************************************************************************)
(* The rate arithmetic of the SEE demo IMU driver: how the rates that the  *)
(* clients ask for become the output data rate (ODR), the power mode and   *)
(* the FIFO watermark written to the chip.  The code's rates are floats: a *)
(* rate here is a number of parts of a hertz, Hz parts to one hertz, so    *)
(* that a finite set of float rates is a set of numbers for some Hz.  A    *)
(* rate of 0 means that no client wants samples.  The interval a timer is  *)
(* given is the inverse of a rate, so the rate itself stands for it.       *)
(*                                                                         *)
(* Here and in the modules that extend this one, a definition with a       *)
(* suffix, right before the one it is named after, is that one with a      *)
(* plausible mistake: the checks use it to show that a property notices.   *)
(***************************************************************************)
EXTENDS Naturals, FiniteSets, Sequences

CONSTANTS
  Hz,        \* the parts of a hertz that rates are counted in
  min_odr,   \* pf_cfg.min_odr: the lowest rate, in hertz, the registry allows
  max_odr    \* pf_cfg.max_odr: the highest one

ASSUME HzAssumption == Hz \in Nat \ {0}

ASSUME OdrRangeAssumption ==
  /\ min_odr \in Nat \ {0}
  /\ max_odr \in Nat
  /\ min_odr <= max_odr

-----------------------------------------------------------------------------
(* The rates the chip can run at, in hertz, SENSOR_HZ(25/32) up to          *)
(* SENSOR_HZ(3200); SENSOR_HZ truncates, so the lowest are 0, 1 and 3 Hz.   *)
OdrSteps == <<0, 1, 3, 6, 12, 25, 50, 100, 200, 400, 800, 1600, 3200>>

OdrRates == {OdrSteps[i] * Hz : i \in DOMAIN OdrSteps}

MaxOf(S) == IF S = {} THEN 0 ELSE CHOOSE x \in S : \A y \in S : y <= x

(* demo_compute_odr casts the float to uint32_t first: the part of a hertz  *)
(* is dropped before the ladder is searched.                                *)
whole(rate) == rate \div Hz

(* It tests the thresholds from the highest down and takes the step after   *)
(* the first one that the whole hertz exceed.  The register code is the     *)
(* place of that step: the switch falls through once for every step at or   *)
(* below it.                                                                *)
exceeded_inclusive(rate) == {i \in 1 .. (Len(OdrSteps) - 1) : whole(rate) >= OdrSteps[i]}
exceeded(rate) == {i \in 1 .. (Len(OdrSteps) - 1) : whole(rate) > OdrSteps[i]}
odr_code(rate) == MaxOf(exceeded(rate)) + 1

compute_odr_down(rate) == OdrSteps[MaxOf(exceeded(rate) \cup {1})] * Hz
compute_odr(rate) == OdrSteps[odr_code(rate)] * Hz

(* The clamp of demo_config_hw: a rate of 0 stays 0.                        *)
clamp(rate) ==
  LET raised == IF rate < min_odr * Hz THEN min_odr * Hz ELSE rate
  IN  IF rate = 0 THEN 0
      ELSE IF raised > max_odr * Hz THEN max_odr * Hz ELSE raised

chip_rate(rate) == compute_odr(clamp(rate))

(* acc_conf[1] and gyr_conf[1]: the power mode for a configured rate.       *)
power_mode(rate) ==
  CASE rate = 0                               -> "off"
    [] rate > 0 /\ rate < 15 * Hz             -> "low_power"
    [] rate >= 15 * Hz /\ rate < 400 * Hz     -> "normal"
    [] rate >= 400 * Hz                       -> "high_performance"

(* wtm = sample_rate / report_rate, a quotient of floats cast to uint16_t:  *)
(* the whole frames; 0/0 has no value.  sample is the rate that the chip    *)
(* was left with, report the rate that was asked for, its fraction kept, so *)
(* the quotient of two unbatched rates may be below one.                    *)
watermark(sample, report) == sample \div report

(* demo_config_fifo writes three words per frame as GET_LSB, GET_MSB of     *)
(* wtm * 3.  GET_MSB masks the high byte but does not shift it down before  *)
(* the cast to uint8_t, so the byte written is always 0.                    *)
GET_LSB(var) == var % 256
GET_MSB(var) == ((var \div 256) * 256) % 256
fifo_wtm_register(wtm) == GET_LSB(wtm * 3) + 256 * GET_MSB(wtm * 3)

-----------------------------------------------------------------------------
(* A client's request: the rate it wants to be sampled at and the rate it   *)
(* wants to be reported to at (1e6 / batch_period, or the sample rate when  *)
(* it does not batch).  The highest wish of all clients wins.               *)
chosen_sample_rate(wishes) == MaxOf({w.sample : w \in wishes})
chosen_report_rate(wishes) == MaxOf({w.report : w \in wishes})
=============================================================================
