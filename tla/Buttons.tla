------------------------------- MODULE Buttons -------------------------------
(***************************************************************************)
(* The button drivers (buttons/buttons_atomic.c, _sem.c, _noblock.c and    *)
(* _noshake.c): a character device that one application at a time may      *)
(* open, whose read sleeps until the interrupt handler, or in _noshake.c   *)
(* the timer the handler starts, has seen a key.                           *)
(*                                                                         *)
(* The chip has one processor: a handler and a timer function are one      *)
(* step.  A process may be preempted, or sleep in request_irq, between any *)
(* two statements that touch what others see.                              *)
(***************************************************************************)
EXTENDS Integers, FiniteSets

CONSTANTS
  Apps,      \* processes that use the device
  NKeys,     \* the number of keys, entries of pins_desc
  Variants   \* which of the drivers are looked at

ASSUME ButtonsAssumption ==
  /\ IsFiniteSet(Apps)
  /\ NKeys \in Nat \ {0}
  /\ Variants \subseteq {"atomic", "noblock", "noshake"}

Keys == 1 .. NKeys

VARIABLES
  variant,    \* the driver that is loaded
  count,      \* flag (atomic), or the count of button_lock
  pc,         \* where each process is
  nonblock,   \* O_NONBLOCK of its file
  line,       \* the next key whose interrupt it requests or frees
  irqs,       \* keys whose interrupt is requested
  level,      \* whether each key is down
  key_val,    \* the key and the position that were seen last
  ev_press,   \* the handler has seen a key, read has not cleared it
  timer,      \* buttons_timer is pending
  irq_pd,     \* a handler has run since the driver was loaded
  \* for the properties
  unread,     \* key_val was set after it was last copied to a reader
  signalled   \* the process was woken by a signal

vars == <<variant, count, pc, nonblock, line, irqs, level, key_val, ev_press,
          timer, irq_pd, unread, signalled>>

device == <<key_val, ev_press, unread>>
debounce == <<timer, irq_pd>>

Positions == {"out", "failing", "locking", "requesting", "open", "waiting",
              "sleeping", "copying", "clearing", "freeing", "unlocking"}

(* init_timer and add_timer at 0 in button_drv_init of _noshake.c: the      *)
(* timer runs once before any interrupt.                                    *)
Init ==
  /\ variant \in Variants
  /\ count = 1
  /\ pc = [a \in Apps |-> "out"]
  /\ nonblock = [a \in Apps |-> FALSE]
  /\ line = [a \in Apps |-> 1]
  /\ irqs = {}
  /\ level = [k \in Keys |-> FALSE]
  /\ key_val = [key |-> 0, down |-> FALSE]
  /\ ev_press = FALSE
  /\ timer = (variant = "noshake")
  /\ irq_pd = FALSE
  /\ unread = FALSE
  /\ signalled = [a \in Apps |-> FALSE]

Goto(a, from, to) == pc[a] = from /\ pc' = [pc EXCEPT ![a] = to]

-----------------------------------------------------------------------------
(* button_open.  With the flag it is decremented, and incremented again in  *)
(* a step of its own when it was not 1.                                     *)
OpenFlag(a) ==
  /\ variant = "atomic"
  /\ count' = count - 1
  /\ \/ count = 1 /\ Goto(a, "out", "requesting")
     \/ count # 1 /\ Goto(a, "out", "failing")
  /\ UNCHANGED nonblock

FailFlag_kept(a) ==
  /\ Goto(a, "failing", "out")
  /\ UNCHANGED <<count, nonblock>>
FailFlag(a) ==
  /\ Goto(a, "failing", "out")
  /\ count' = count + 1
  /\ UNCHANGED nonblock

(* With the semaphore: down_trylock or down.                                *)
TryLock_ignored(a) ==
  /\ variant # "atomic"
  /\ nonblock' = [nonblock EXCEPT ![a] = TRUE]
  /\ Goto(a, "out", "requesting")
  /\ count' = IF count > 0 THEN count - 1 ELSE 0
TryLock(a) ==
  /\ variant # "atomic"
  /\ nonblock' = [nonblock EXCEPT ![a] = TRUE]
  /\ \/ count > 0 /\ Goto(a, "out", "requesting") /\ count' = count - 1
     \/ count = 0 /\ pc[a] = "out" /\ UNCHANGED <<pc, count>>

Lock(a) ==
  /\ variant # "atomic"
  /\ Goto(a, "out", "locking")
  /\ nonblock' = [nonblock EXCEPT ![a] = FALSE]
  /\ UNCHANGED count

Locked(a) ==
  /\ Goto(a, "locking", "requesting")
  /\ count > 0
  /\ count' = count - 1
  /\ UNCHANGED nonblock

(* request_irq, whose result button_open ignores: of a line that is in use  *)
(* it fails.                                                                *)
RequestIrq(a) ==
  /\ pc[a] = "requesting"
  /\ irqs' = irqs \union {line[a]}
  /\ IF line[a] + 1 \in Keys
     THEN /\ line' = [line EXCEPT ![a] = @ + 1]
          /\ UNCHANGED pc
     ELSE /\ line' = [line EXCEPT ![a] = 1]
          /\ Goto(a, "requesting", "open")

button_open(a) ==
  \/ /\ OpenFlag(a) \/ FailFlag(a) \/ TryLock(a) \/ Lock(a) \/ Locked(a)
     /\ UNCHANGED <<line, irqs>>
  \/ RequestIrq(a) /\ UNCHANGED <<count, nonblock>>

(* button_close.  The flag is given back first, the semaphore last.         *)
StartClose(a) ==
  /\ Goto(a, "open", "freeing")
  /\ count' = IF variant = "atomic" THEN count + 1 ELSE count
  /\ UNCHANGED <<line, irqs>>

FreeIrq_last_left(a) ==
  /\ pc[a] = "freeing"
  /\ irqs' = IF line[a] = NKeys THEN irqs ELSE irqs \ {line[a]}
  /\ IF line[a] + 1 \in Keys
     THEN /\ line' = [line EXCEPT ![a] = @ + 1]
          /\ UNCHANGED pc
     ELSE /\ line' = [line EXCEPT ![a] = 1]
          /\ Goto(a, "freeing", IF variant = "atomic" THEN "out" ELSE "unlocking")
  /\ UNCHANGED count
FreeIrq(a) ==
  /\ pc[a] = "freeing"
  /\ irqs' = irqs \ {line[a]}
  /\ IF line[a] + 1 \in Keys
     THEN /\ line' = [line EXCEPT ![a] = @ + 1]
          /\ UNCHANGED pc
     ELSE /\ line' = [line EXCEPT ![a] = 1]
          /\ Goto(a, "freeing", IF variant = "atomic" THEN "out" ELSE "unlocking")
  /\ UNCHANGED count

Unlock(a) ==
  /\ Goto(a, "unlocking", "out")
  /\ count' = count + 1
  /\ UNCHANGED <<line, irqs>>

button_close(a) ==
  /\ StartClose(a) \/ FreeIrq(a) \/ Unlock(a)
  /\ UNCHANGED nonblock

-----------------------------------------------------------------------------
(* button_read of one byte.  wait_event_interruptible puts the process on   *)
(* the queue before it looks at ev_press, and its result is ignored.        *)
StartRead(a) ==
  /\ \/ Goto(a, "open", "waiting") /\ ~nonblock[a]
     \/ Goto(a, "open", "copying") /\ nonblock[a] /\ ev_press
     \/ pc[a] = "open" /\ nonblock[a] /\ ~ev_press /\ UNCHANGED pc
  /\ signalled' = [signalled EXCEPT ![a] = FALSE]
  /\ UNCHANGED device

Wait(a) ==
  /\ \/ Goto(a, "waiting", "copying") /\ ev_press
     \/ Goto(a, "waiting", "sleeping") /\ ~ev_press
  /\ UNCHANGED <<device, signalled>>

Signal(a) ==
  /\ pc[a] \in {"waiting", "sleeping"}
  /\ ~ev_press
  /\ pc' = [pc EXCEPT ![a] = "copying"]
  /\ signalled' = [signalled EXCEPT ![a] = TRUE]
  /\ UNCHANGED device

(* copy_to_user and, a step later, ev_press = 0.                            *)
Copy_cleared_first(a) ==
  \/ Goto(a, "copying", "clearing") /\ ev_press' = FALSE
     /\ UNCHANGED <<key_val, unread, signalled>>
  \/ Goto(a, "clearing", "open") /\ unread' = FALSE
     /\ UNCHANGED <<key_val, ev_press, signalled>>
Copy(a) ==
  \/ Goto(a, "copying", "clearing") /\ unread' = FALSE
     /\ UNCHANGED <<key_val, ev_press, signalled>>
  \/ Goto(a, "clearing", "open") /\ ev_press' = FALSE
     /\ UNCHANGED <<key_val, unread, signalled>>

button_read(a) == StartRead(a) \/ Wait(a) \/ Signal(a) \/ Copy(a)

-----------------------------------------------------------------------------
(* Every request_irq passes the whole table as dev_id, so the handler takes *)
(* its first entry for the key.                                             *)
pindesc(k) == 1

(* wake_up_interruptible                                                    *)
Woken == [a \in Apps |-> IF pc[a] = "sleeping" THEN "waiting" ELSE pc[a]]

(* The body of buttons_irq, and of buttons_timer_function in _noshake.c.    *)
Report_unwoken(k, down) ==
  /\ key_val' = [key |-> k, down |-> down]
  /\ ev_press' = TRUE
  /\ UNCHANGED pc
  /\ unread' = TRUE
Report(k, down) ==
  /\ key_val' = [key |-> k, down |-> down]
  /\ pc' = Woken
  /\ ev_press' = TRUE
  /\ unread' = TRUE

(* buttons_irq                                                              *)
buttons_irq(k) ==
  \/ /\ variant # "noshake"
     /\ Report(pindesc(k), level'[pindesc(k)])
     /\ UNCHANGED debounce
  \/ /\ variant = "noshake"
     /\ irq_pd' = TRUE
     /\ timer' = TRUE
     /\ UNCHANGED <<pc, device>>

(* A key goes down or up.                                                   *)
Edge(k) ==
  /\ level' = [level EXCEPT ![k] = ~@]
  /\ \/ k \in irqs /\ buttons_irq(k)
     \/ k \notin irqs /\ UNCHANGED <<pc, device, debounce>>

(* buttons_timer_function                                                   *)
buttons_timer_function ==
  /\ timer
  /\ timer' = FALSE
  /\ UNCHANGED irq_pd
  /\ \/ irq_pd /\ Report(pindesc(1), level[pindesc(1)])
     \/ ~irq_pd /\ UNCHANGED <<pc, device>>

Next ==
  \/ \E a \in Apps :
       \/ /\ button_open(a)
          /\ UNCHANGED <<variant, level, device, debounce, signalled>>
       \/ /\ button_close(a)
          /\ UNCHANGED <<variant, level, device, debounce, signalled>>
       \/ /\ button_read(a)
          /\ UNCHANGED <<variant, count, nonblock, line, irqs, level, debounce>>
  \/ /\ \E k \in Keys : Edge(k)
     /\ UNCHANGED <<variant, count, nonblock, line, irqs, signalled>>
  \/ /\ buttons_timer_function
     /\ UNCHANGED <<variant, count, nonblock, line, irqs, level, signalled>>

Spec == Init /\ [][Next]_vars

-----------------------------------------------------------------------------
Reading == {"waiting", "sleeping", "copying", "clearing"}
Inside == {a \in Apps : pc[a] \in {"requesting", "open"} \union Reading}
Holders == IF variant = "atomic" THEN Inside
           ELSE {a \in Apps : a \in Inside \/ pc[a] \in {"freeing", "unlocking"}}

TypeOK ==
  /\ variant \in Variants
  /\ count \in Int /\ (variant # "atomic" => count \in Nat)
  /\ pc \in [Apps -> Positions]
  /\ nonblock \in [Apps -> BOOLEAN]
  /\ line \in [Apps -> Keys]
  /\ irqs \subseteq Keys
  /\ level \in [Keys -> BOOLEAN]
  /\ key_val \in [key : {0} \union Keys, down : BOOLEAN]
  /\ ev_press \in BOOLEAN /\ unread \in BOOLEAN
  /\ timer \in BOOLEAN /\ irq_pd \in BOOLEAN
  /\ signalled \in [Apps -> BOOLEAN]

(* "At the same time only one app can open the driver"                      *)
(* (buttons_atomic.c:3 and the same in _sem.c): also while others fail to.  *)
OneAppInside == \A a, b \in Inside : a = b

(* Every way through open and close gives the lock back exactly once: with  *)
(* nobody inside or on the way, the next open succeeds.                     *)
LockIsGivenBack ==
  (\A a \in Apps : pc[a] \in {"out", "locking"}) => count = 1

(* An application whose open returned 0 has the interrupt of every key, so  *)
(* that its reads return when a key moves.                                  *)
OpenAppHasInterrupts ==
  \A a \in Apps : pc[a] \in {"open"} \union Reading => irqs = Keys

(* It has them in the drivers that give the lock back after free_irq; and   *)
(* nobody leaves a handler behind.                                          *)
SemaphoreGuardsInterrupts ==
  variant # "atomic" =>
    /\ OpenAppHasInterrupts
    /\ (\A a \in Apps : pc[a] \in {"out", "locking"}) => irqs = {}

(* No process sleeps in read while ev_press says that there is a key: the   *)
(* handler may come between any two steps of read.                          *)
NoLostWakeup == \A a \in Apps : pc[a] = "sleeping" => ~ev_press

(* read clears ev_press after the copy: it may lose a key that moves in     *)
(* between, but returns none twice, unless a signal ended the sleep.        *)
KeyReadOnce ==
  \A a \in Apps : pc[a] = "copying" /\ ~signalled[a] => unread
==============================================================================
