---------------------------- MODULE TouchScreen ----------------------------
(***************************************************************************)
(* The resistive touch screen (TouchScreen/s3c_tp4.c).  The pen's          *)
(* interrupt starts a chain of four conversions, each handler starting the *)
(* next one; a timer starts another chain while the pen is held.  The chip *)
(* has one processor: a handler is one step.  Of the registers the mode in *)
(* adctsc and the start bit of adccon are kept.                            *)
(***************************************************************************)
EXTENDS Integers, Sequences, SequencesExt

CONSTANT Volts     \* what a conversion can give, 0..1023 on the chip

ASSUME TouchAssumption == Volts \subseteq 0..1023

VARIABLES
    phase,      \* of the module: "out", "probing" (the timer runs already) or "in"
    pen,        \* is the pen on the screen?
    adctsc,     \* what the controller does: "wait down", "wait up", "measure"
    adccon,     \* a conversion runs
    x,          \* the samples stored; cnt is their number
    ts_timer,   \* the timer is pending
    events      \* BTN_TOUCH and ABS_X as reported last

touchVars == <<phase, pen, adctsc, adccon, x, ts_timer, events>>
cnt == Len(x)

TouchInit ==
    /\ phase = "out" /\ pen = FALSE /\ adctsc = "wait down" /\ adccon = FALSE
    /\ x = <<>> /\ ts_timer = FALSE
    /\ events = [touch |-> 0, at |-> 0]

\* The module's memory is fresh.  The timer is added without an expiry time:
\* it is due at once.
s3c_ts_init ==
    /\ phase = "out"
    /\ phase' = "probing"
    /\ x' = <<>> /\ events' = [touch |-> 0, at |-> 0]
    /\ ts_timer' = TRUE
    /\ UNCHANGED <<pen, adctsc, adccon>>

InitReturns ==
    /\ phase = "probing"
    /\ phase' = "in"
    /\ adctsc' = "wait down"
    /\ UNCHANGED <<pen, adccon, x, ts_timer, events>>

\* Interrupts and timer are gone; a conversion ends unheard.
s3c_ts_exit ==
    /\ phase = "in"
    /\ phase' = "out"
    /\ ts_timer' = FALSE /\ adccon' = FALSE
    /\ UNCHANGED <<pen, adctsc, x, events>>

Pen ==
    /\ pen' = ~ pen
    /\ UNCHANGED <<phase, adctsc, adccon, x, ts_timer, events>>

Measure == adctsc' = "measure" /\ adccon' = TRUE

\* What the timer and the pen's interrupt do: a pen that is up is reported
\* with the same 1 as one that is down; a conversion that runs goes on, and
\* the samples stored so far stay.
MeasureOrRelease ==
    IF pen THEN Measure /\ UNCHANGED events
    ELSE /\ events' = [events EXCEPT !.touch = 1]
         /\ adctsc' = "wait down"
         /\ UNCHANGED adccon

s3c_ts_timer_function ==
    /\ ts_timer /\ ts_timer' = FALSE
    /\ MeasureOrRelease
    /\ UNCHANGED <<phase, pen, x>>

\* The controller interrupts while the pen is as it waits for it to be.
pen_down_up_irq ==
    /\ phase # "out"
    /\ adctsc = IF pen THEN "wait down" ELSE "wait up"
    /\ MeasureOrRelease
    /\ UNCHANGED <<phase, pen, x, ts_timer>>

\* The second half is of y, to which nothing is ever stored.
filter_ts(s) ==
    LET far(a, b, c) == LET d == c - (a + b) \div 2 IN d > 10 \/ d < -10
    IN  ~ far(s[1], s[2], s[3]) /\ ~ far(s[2], s[3], s[4])

\* MUTANT: a pen that is up ends the chain with its samples kept.
Released_kept ==
    /\ events' = [events EXCEPT !.touch = 0]
    /\ adctsc' = "wait down" /\ adccon' = FALSE
    /\ UNCHANGED <<x, ts_timer>>

Released ==
    /\ x' = <<>>
    /\ events' = [events EXCEPT !.touch = 0]
    /\ adctsc' = "wait down" /\ adccon' = FALSE
    /\ UNCHANGED ts_timer

\* MUTANT: a chain the filter refuses does not set the timer.
Fourth_strict(s) ==
    /\ x' = <<>>
    /\ events' = IF filter_ts(s) THEN [touch |-> 1, at |-> (s[1] + s[2] + s[3] + s[4]) \div 4]
                                 ELSE events
    /\ adctsc' = "wait up" /\ adccon' = FALSE
    /\ ts_timer' = (ts_timer \/ filter_ts(s))

Fourth(s) ==
    /\ x' = <<>>
    /\ events' = IF filter_ts(s) THEN [touch |-> 1, at |-> (s[1] + s[2] + s[3] + s[4]) \div 4]
                                 ELSE events
    /\ adctsc' = "wait up" /\ adccon' = FALSE
    /\ ts_timer' = TRUE

adc_irq ==
    /\ adccon
    /\ IF ~ pen THEN Released
       ELSE \E v \in Volts:
                IF cnt = 3 THEN Fourth(Append(x, v))
                ELSE x' = Append(x, v) /\ Measure /\ UNCHANGED <<ts_timer, events>>
    /\ UNCHANGED <<phase, pen>>

TouchNext ==
    \/ s3c_ts_init \/ InitReturns \/ s3c_ts_exit
    \/ Pen
    \/ s3c_ts_timer_function \/ pen_down_up_irq \/ adc_irq

TouchSpec == TouchInit /\ [][TouchNext]_touchVars

(* The hardware delivers its interrupts and the kernel runs its timers; the
   loading goes on to its end. *)
TouchFairness ==
    /\ WF_touchVars(adc_irq)
    /\ WF_touchVars(pen_down_up_irq)
    /\ WF_touchVars(s3c_ts_timer_function)
    /\ WF_touchVars(InitReturns)
-----------------------------------------------------------------------------
(* The driver is never deaf: a conversion runs, or the timer does, or the
   controller waits for the change the pen has yet to make.  Each handler
   sees to that alone, whatever the others left. *)
NeverDeaf == phase = "in" => adccon \/ ts_timer \/ adctsc # "measure"

(* With no conversion running there are no samples: samples outlive what the
   timer and the pen's interrupt report only in a series of conversions that
   still runs, and one that starts from rest starts with none. *)
RestsEmpty == ~ adccon /\ phase # "out" => x = <<>>

(* Timer, pen and conversion interrupts may come in any order: between any
   two of them the driver can still learn of the pen, and a series of
   conversions leaves nothing behind when it ends. *)
ReadyForTouch == NeverDeaf /\ RestsEmpty

(* A touch that is reported as released leaves no samples to the next one.
   TLC refutes it: the pen bounces within one conversion, and the timer
   reports the release, waits for the pen and leaves cnt as it is; when the
   pen is back before the conversion ends, the next touch is averaged with
   the samples of the last one. *)
TouchesApart == [][(s3c_ts_timer_function \/ pen_down_up_irq) /\ ~ pen => x = <<>>]_touchVars

(* A pen that stays on the screen of a loaded driver is measured over and
   over, also after chains that the filter refused. *)
HeldPenIsMeasured == <>[](pen /\ phase = "in") => []<>(cnt = 3)
=============================================================================
