------------------------------- MODULE MsgLog -------------------------------
(***************************************************************************)
(* The message log in /proc: debug/my_proc_mymsg.c, and _full.c, where     *)
(* each open starts to read from the beginning.  Interrupts print while a  *)
(* process reads, or while a process or another interrupt prints; there is *)
(* no lock, and processes do not preempt each other in this kernel.  A     *)
(* print that is interrupted by none is one step.  A character is known by *)
(* its turn to be stored (what the caller passes is always the terminator  *)
(* of its string, tmp_buf[i] instead of tmp_buf[j]).                       *)
(***************************************************************************)
EXTENDS Integers, Sequences, SequencesExt, FiniteSetsExt

CONSTANTS
    MYLOG_BUF_LEN,
    MaxPut,         \* bound: characters that are printed
    MaxCount        \* the longest read

ASSUME LogAssumption == MYLOG_BUF_LEN \in Nat \ {0, 1}

VARIABLES
    file,               \* "plain" or "full": the source that is built
    mylog_buf, mylog_r, mylog_w, mylog_r_for_read,
    put,                \* how many characters were printed
    printer, kept,      \* where the print is that others interrupt, "none" if there is
                        \* not one, and the index it has read
    nested,             \* a print was interrupted by a print
    reader,             \* where the reading process is
    c, seen,            \* the character it took, and the index it took it at
    room,               \* what is left of its count
    given               \* the characters its buffers got

logVars == <<file, mylog_buf, mylog_r, mylog_w, mylog_r_for_read, put, printer, kept, nested,
             reader, c, seen, room, given>>
log == <<mylog_buf, mylog_r, mylog_w, mylog_r_for_read, put>>

Slot(k) == k % MYLOG_BUF_LEN
Valid == Slot(mylog_w - mylog_r)
is_mylog_full == Slot(mylog_w + 1) = mylog_r
\* Of the file that is built: is_mylog_empty or is_mylog_empty_for_read.
is_mylog_empty == IF file = "full" THEN mylog_r_for_read = mylog_r ELSE mylog_w = mylog_r

LogInit ==
    /\ file \in {"plain", "full"}
    /\ mylog_buf = [k \in 0..(MYLOG_BUF_LEN - 1) |-> 0]
    /\ mylog_r = 0 /\ mylog_w = 0 /\ mylog_r_for_read = 0 /\ put = 0
    /\ printer = "none" /\ kept = 0 /\ nested = FALSE
    /\ reader = "closed" /\ c = 0 /\ seen = 0 /\ room = 0 /\ given = <<>>

\* MUTANT: a full log is not noticed.
Dropped_none == UNCHANGED <<mylog_r, mylog_r_for_read>>

\* A full log loses its oldest character, and the reader's index is moved along.
Dropped ==
    IF ~ is_mylog_full THEN UNCHANGED <<mylog_r, mylog_r_for_read>>
    ELSE /\ mylog_r' = Slot(mylog_r + 1)
         /\ mylog_r_for_read' = IF file = "full" /\ Slot(mylog_r_for_read + 1) = mylog_r'
                                  THEN mylog_r' ELSE mylog_r_for_read

\* From beginning to end, also within the print of another.
mylog_putc ==
    /\ put < MaxPut
    /\ put' = put + 1
    /\ Dropped
    /\ mylog_buf' = [mylog_buf EXCEPT ![mylog_w] = put + 1]
    /\ mylog_w' = Slot(mylog_w + 1)
    /\ UNCHANGED <<file, printer, kept, nested, reader, c, seen, room, given>>

\* The statements of a mylog_putc that prints interrupt.  The build may have kept
\* the index from one statement to the next.
PutChecks ==
    /\ printer = "none" /\ printer' = "checked"
    /\ nested' = TRUE
    /\ Dropped
    /\ kept' = mylog_w
    /\ UNCHANGED <<file, mylog_buf, mylog_w, put, reader, c, seen, room, given>>

PutStores ==
    /\ printer = "checked" /\ printer' = "stored"
    /\ put < MaxPut
    /\ put' = put + 1
    /\ \E k \in {mylog_w, kept}: mylog_buf' = [mylog_buf EXCEPT ![k] = put + 1] /\ kept' = k
    /\ UNCHANGED <<file, mylog_r, mylog_w, mylog_r_for_read, nested, reader, c, seen, room, given>>

PutAdvances ==
    /\ printer = "stored" /\ printer' = "none"
    /\ \E k \in {mylog_w, kept}: mylog_w' = Slot(k + 1)
    /\ kept' = 0
    /\ UNCHANGED <<file, mylog_buf, mylog_r, mylog_r_for_read, put, nested,
                   reader, c, seen, room, given>>

\* The reader is a process: it does not run within a print.
Goes(from, to) ==
    /\ reader = from /\ reader' = to
    /\ printer = "none" /\ UNCHANGED <<printer, kept, nested>>

mymsg_open ==
    /\ Goes("closed", "open")
    /\ mylog_r_for_read' = IF file = "full" THEN mylog_r ELSE mylog_r_for_read
    /\ UNCHANGED <<file, mylog_buf, mylog_r, mylog_w, put, c, seen, room, given>>

\* A non-blocking read of an empty log returns at once and changes nothing.
mymsg_read ==
    /\ Goes("open", "asleep")
    /\ room' \in 1..MaxCount
    /\ UNCHANGED <<file, log, c, seen, given>>

Wakes ==
    /\ ~ is_mylog_empty
    /\ Goes("asleep", "getting")
    /\ UNCHANGED <<file, log, c, seen, room, given>>

SignalReader == Goes("asleep", "open") /\ UNCHANGED <<file, log, c, seen, room, given>>

NothingLeft ==
    /\ is_mylog_empty
    /\ Goes("getting", "open")
    /\ UNCHANGED <<file, log, c, seen, room, given>>

ReadIndex == IF file = "full" THEN mylog_r_for_read ELSE mylog_r

TakeChar ==
    /\ ~ is_mylog_empty
    /\ Goes("getting", "taken")
    /\ c' = mylog_buf[ReadIndex] /\ seen' = ReadIndex
    /\ UNCHANGED <<file, log, room, given>>

\* The index may have moved since; the build may have kept the one it had read.
\* In _full.c the reader's index is computed from the log's.
StepOn ==
    /\ Goes("taken", "got")
    /\ IF file = "full"
         THEN mylog_r_for_read' = Slot(mylog_r + 1) /\ UNCHANGED mylog_r
         ELSE (\E k \in {mylog_r, seen}: mylog_r' = Slot(k + 1)) /\ UNCHANGED mylog_r_for_read
    /\ UNCHANGED <<file, mylog_buf, mylog_w, put, c, seen, room, given>>

\* The count is looked at after the character was taken: the one too many is lost.
Gives ==
    /\ room > 0
    /\ Goes("got", "getting")
    /\ given' = Append(given, c) /\ room' = room - 1
    /\ UNCHANGED <<file, log, c, seen>>

CountReached ==
    /\ room = 0
    /\ Goes("got", "open")
    /\ UNCHANGED <<file, log, c, seen, room, given>>

\* __put_user fails.
BadBuffer ==
    /\ room > 0
    /\ Goes("got", "open")
    /\ UNCHANGED <<file, log, c, seen, room, given>>

LogNext ==
    \/ mylog_putc \/ PutChecks \/ PutStores \/ PutAdvances
    \/ mymsg_open \/ mymsg_read \/ Wakes \/ SignalReader
    \/ NothingLeft \/ TakeChar \/ StepOn \/ Gives \/ CountReached \/ BadBuffer

LogSpec == LogInit /\ [][LogNext]_logVars
-----------------------------------------------------------------------------
(* Characters may be lost to the reader, but those it gets come in the order
   they were printed and none comes twice, although interrupts print, and
   move the index, between any two of its steps.  TLC refutes it once a
   print has interrupted another one: the index passes a place where an
   older character still lies. *)
ReadInOrder == \A i, j \in DOMAIN given: i < j => given[i] < given[j]

(* Printing costs the log at most its oldest character, and none while there
   is room: the indices that meet at the end of the buffer mean an empty log
   and never a full one.  TLC refutes it, too, of a print within a print:
   the place that the outer one has seen free is filled by the inner one, and
   with its own character the log is empty. *)
PrintKeepsLog ==
    [][Valid' = Min({Valid + 1, MYLOG_BUF_LEN - 1})]_mylog_w

(* What the unlocked log promises its printers and its reader as long as no
   print has interrupted another one, wherever prints interrupt the reader. *)
LogKeepsOrder ==
    /\ [](~ nested => ReadInOrder)
    /\ [][~ nested => Valid' = Min({Valid + 1, MYLOG_BUF_LEN - 1})]_mylog_w

(* A reader sleeps only if there is no log to read.  It does not hold of
   _full.c, whose open is to make every cat output the whole log: there the
   reader's index always equals the log's, which the read takes for empty. *)
CatGetsTheLog == reader = "asleep" /\ Valid > 0 => ~ is_mylog_empty
=============================================================================
