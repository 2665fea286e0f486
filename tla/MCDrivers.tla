------------------------------ MODULE MCDrivers ------------------------------
(***************************************************************************)
(* The drivers that stand between a device and processes, each with its    *)
(* interrupts, timers and work items, and the demo driver's FIFO reader.   *)
(* A behaviour is one of them, chosen at the start; the others stay in     *)
(* their initial state.                                                    *)
(***************************************************************************)
EXTENDS Buttons, I2cBus, TouchScreen, MultiTouch, DmaCopy, MouseKeys, MsgLog, DemoFifo

VARIABLE driven

\* Transfers of up to three messages of up to two bytes, among them the
\* address probe (one empty message) and a register's number before a read.
SmallMessages == [rd: BOOLEAN, len: 0..2]
SmallTransfers == UNION {[1..n -> SmallMessages]: n \in 1..3}

\* Words that look like a sensor's dummy or like the end, and one that does not.
firsts == {"0001", "7f01", "7f02", "8000"}
rests == {<<"8000", "0002">>, <<"7f02", "7f01">>}

allVars == <<driven, vars, busVars, touchVars, mtpVars, dmaVars, mouseVars, logVars, fifoVars>>

AllInit ==
    /\ driven \in {"buttons", "i2c", "touch", "panel", "dma", "mouse", "log", "fifo"}
    /\ Init /\ BusInit /\ TouchInit /\ PanelInit /\ DmaInit /\ MouseInit /\ LogInit
    /\ driven # "buttons" => variant = "atomic"
    /\ driven # "log" => file = "plain"
    /\ IF driven = "fifo" THEN FifoInit ELSE Burst(<<"ACC">>, <<>>, <<>>)

AllNext ==
    \/ /\ driven = "buttons" /\ Next
       /\ UNCHANGED <<driven, busVars, touchVars, mtpVars, dmaVars, mouseVars, logVars, fifoVars>>
    \/ /\ driven = "i2c" /\ BusNext
       /\ UNCHANGED <<driven, vars, touchVars, mtpVars, dmaVars, mouseVars, logVars, fifoVars>>
    \/ /\ driven = "touch" /\ TouchNext
       /\ UNCHANGED <<driven, vars, busVars, mtpVars, dmaVars, mouseVars, logVars, fifoVars>>
    \/ /\ driven = "panel" /\ PanelNext
       /\ UNCHANGED <<driven, vars, busVars, touchVars, dmaVars, mouseVars, logVars, fifoVars>>
    \/ /\ driven = "dma" /\ DmaNext
       /\ UNCHANGED <<driven, vars, busVars, touchVars, mtpVars, mouseVars, logVars, fifoVars>>
    \/ /\ driven = "mouse" /\ MouseNext
       /\ UNCHANGED <<driven, vars, busVars, touchVars, mtpVars, dmaVars, logVars, fifoVars>>
    \/ /\ driven = "log" /\ LogNext
       /\ UNCHANGED <<driven, vars, busVars, touchVars, mtpVars, dmaVars, mouseVars, fifoVars>>
    \/ /\ driven = "fifo" /\ FifoNext
       /\ UNCHANGED <<driven, vars, busVars, touchVars, mtpVars, dmaVars, mouseVars, logVars>>

\* The actions of a driver that stays in its initial state are not enabled, so
\* its fairness asks for nothing.
AllSpec == AllInit /\ [][AllNext]_allVars /\ BusFairness /\ TouchFairness /\ MouseFairness

(* What a driver has scheduled, holds or has reported goes with it: a panel's
   work item; what the DMA driver took, after a loading that reports its
   failure and after an unloading that gets through; and the left key that
   is down when the mouse is pulled out. *)
UnloadsCleanly == WorkEndsBeforeDevice /\ HeldWhileNeeded /\ LeftKeyNeverStuck

(* A pen that stays on the screen is measured again and again; a mouse whose
   urb is never refused is heard until it has nothing more to report. *)
InputsKeepComing == HeldPenIsMeasured /\ UrbGoesRound
==============================================================================
