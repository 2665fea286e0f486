----------------------------- MODULE MultiTouch -----------------------------
(***************************************************************************)
(* The multi-touch panel (MultiTouchPanle/multitp2.c).  The panel's edge   *)
(* schedules a work item; a kernel thread reads the panel over I2C, which  *)
(* sleeps, and reports the contacts.  A contact is an id and the low byte  *)
(* of its position; the high byte is right for each and left out.          *)
(***************************************************************************)
EXTENDS Integers, Sequences, SequencesExt

CONSTANTS
    Slots,      \* contacts the panel has registers for (5)
    Ids         \* the ids of contacts

ASSUME PanelAssumption == Slots \in Nat \ {0}

Contact == [id: Ids, lo: {0, 1}]
Frames == {f \in UNION {[1..k -> Contact]: k \in 0..Slots}:
              \A i, j \in DOMAIN f: f[i].id = f[j].id => i = j}

VARIABLES
    bound,      \* "out", "in", then "leaving", "cancelled" while mtp_remove runs
    panel,      \* the contacts on the panel
    edge,       \* the panel has signalled a change that no handler took
    mtp_work,   \* the work item is scheduled
    work,       \* where its function is: "idle", "reading", "reporting"
    mtp_events, \* what it read
    reported,   \* the last complete report
    stale      \* a read failed since the last report

mtpVars == <<bound, panel, edge, mtp_work, work, mtp_events, reported, stale>>

PanelInit ==
    /\ bound = "out" /\ panel = <<>> /\ edge = FALSE /\ mtp_work = FALSE /\ work = "idle"
    /\ mtp_events = <<>> /\ reported = <<>> /\ stale = FALSE

\* An edge from before the interrupt is requested is not seen.
mtp_probe ==
    /\ bound = "out"
    /\ bound' = "in"
    /\ edge' = FALSE
    /\ mtp_events' = <<>> /\ reported' = <<>> /\ stale' = (panel # <<>>)
    /\ UNCHANGED <<panel, mtp_work, work>>

Touch ==
    /\ \E f \in Frames \ {panel}: panel' = f
    /\ edge' = TRUE
    /\ UNCHANGED <<bound, mtp_work, work, mtp_events, reported, stale>>

mtp_interrupt ==
    /\ bound = "in" /\ edge
    /\ edge' = FALSE
    /\ mtp_work' = TRUE
    /\ UNCHANGED <<bound, panel, work, mtp_events, reported, stale>>

\* The item may be scheduled again from here on.
WorkStarts ==
    /\ mtp_work /\ work = "idle"
    /\ mtp_work' = FALSE
    /\ work' = "reading"
    /\ UNCHANGED <<bound, panel, edge, mtp_events, reported, stale>>

(* mtp_ft5x0x_read_data.  The low byte of the first contact is taken from
   the last contact's register, whatever stands there. *)
Parsed(f, last) ==
    IF f = <<>> THEN <<>>
    ELSE [f EXCEPT ![1].lo = IF Len(f) = Slots THEN f[Slots].lo ELSE last]

ReadData ==
    /\ work = "reading"
    /\ \/ \E last \in {0, 1}: mtp_events' = Parsed(panel, last)
          /\ work' = "reporting" /\ UNCHANGED stale
       \/ work' = "idle" /\ stale' = TRUE /\ UNCHANGED mtp_events
    /\ UNCHANGED <<bound, panel, edge, mtp_work, reported>>

\* MUTANT: nothing is reported when no contact is left.
ReportContacts_touched ==
    /\ work = "reporting"
    /\ reported' = IF mtp_events = <<>> THEN reported ELSE mtp_events
    /\ work' = "idle" /\ stale' = FALSE
    /\ UNCHANGED <<bound, panel, edge, mtp_work, mtp_events>>

\* mtp_work_func after the read; an empty report says that all contacts are gone.
ReportContacts ==
    /\ work = "reporting"
    /\ reported' = mtp_events
    /\ work' = "idle" /\ stale' = FALSE
    /\ UNCHANGED <<bound, panel, edge, mtp_work, mtp_events>>

\* mtp_remove: free_irq, cancel_work_sync, the input device.
FreeIrqLine ==
    /\ bound = "in"
    /\ bound' = "leaving"
    /\ UNCHANGED <<panel, edge, mtp_work, work, mtp_events, reported, stale>>

\* MUTANT: the work is cancelled without waiting for its function.
CancelWork_nowait ==
    /\ bound = "leaving"
    /\ mtp_work' = FALSE
    /\ bound' = "cancelled"
    /\ UNCHANGED <<panel, edge, work, mtp_events, reported, stale>>

\* cancel_work_sync also waits for the function.
CancelWork ==
    /\ bound = "leaving" /\ work = "idle"
    /\ mtp_work' = FALSE
    /\ bound' = "cancelled"
    /\ UNCHANGED <<panel, edge, work, mtp_events, reported, stale>>

FreeDevice ==
    /\ bound = "cancelled"
    /\ bound' = "out"
    /\ UNCHANGED <<panel, edge, mtp_work, work, mtp_events, reported, stale>>

PanelNext ==
    \/ mtp_probe \/ Touch
    \/ mtp_interrupt \/ WorkStarts \/ ReadData \/ ReportContacts
    \/ FreeIrqLine \/ CancelWork \/ FreeDevice

PanelSpec == PanelInit /\ [][PanelNext]_mtpVars
-----------------------------------------------------------------------------
(* When all is quiet the last report shows the contacts on the panel: an
   edge that comes while the panel is read or reported is not forgotten.
   The exceptions are a read that failed, which nobody repeats, contacts
   from before the probe, and the low byte of the first contact. *)
QuietShowsPanel ==
    bound = "in" /\ ~ edge /\ ~ mtp_work /\ work = "idle" /\ ~ stale =>
        /\ Len(reported) = Len(panel)
        /\ \A i \in DOMAIN panel: /\ reported[i].id = panel[i].id
                                  /\ i > 1 => reported[i].lo = panel[i].lo

(* The work function never runs, nor is it scheduled, once mtp_remove goes
   on to give back the input device it reports to. *)
WorkEndsBeforeDevice == bound \in {"cancelled", "out"} => work = "idle" /\ ~ mtp_work
=============================================================================
