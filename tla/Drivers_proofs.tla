--------------------------- MODULE Drivers_proofs ---------------------------
(***************************************************************************)
(* What TLAPS proves of the drivers between a device and processes: the    *)
(* buttons, the I2C adapter, the touch screen, the touch panel, the DMA    *)
(* copy, the USB mouse, the message log and the demo driver's FIFO parser. *)
(* For any number of applications and keys, transfers of any number of     *)
(* messages of any length, any voltages, any number of contacts and of     *)
(* calling processes, a log and a burst of any length.                     *)
(***************************************************************************)
EXTENDS MCDrivers, CommonLemmas, FiniteSetTheorems, SequenceTheorems, TLAPS

-----------------------------------------------------------------------------
(* The buttons, for each of the drivers with a lock.                        *)

(* A process at q is counted: it took the flag or the semaphore, or         *)
(* decremented the flag in vain, and has not given it back.                 *)
IsUser(q) ==
  \/ q \in {"failing", "requesting", "open"} \union Reading
  \/ variant # "atomic" /\ q \in {"freeing", "unlocking"}
Users == {a \in Apps : IsUser(pc[a])}

LockInv ==
  /\ count = 1 - Cardinality(Users)
  /\ \A a \in Apps : /\ pc[a] = "failing" => variant = "atomic"
                     /\ pc[a] \in {"locking", "unlocking"} => variant # "atomic"
  /\ OneAppInside

(* How far a process is with its lines shows in irqs.                       *)
IrqInv ==
  /\ \A a \in Apps : pc[a] \notin {"requesting", "freeing"} => line[a] = 1
  /\ variant # "atomic" =>
       /\ Users = {} => irqs = {}
       /\ \A a \in Apps :
            /\ pc[a] = "requesting" => irqs = 1 .. line[a] - 1
            /\ pc[a] \in {"open"} \union Reading => irqs = Keys
            /\ pc[a] = "freeing" => irqs = line[a] .. NKeys
            /\ pc[a] = "unlocking" => irqs = {}

(* A key that ev_press tells of is unread, unless its reader is about to    *)
(* clear ev_press.                                                          *)
ReadInv ==
  /\ ev_press => unread \/ \E a \in Apps : pc[a] = "clearing"
  /\ KeyReadOnce

ButtonsInv == TypeOK /\ LockInv /\ IrqInv /\ NoLostWakeup /\ ReadInv

-----------------------------------------------------------------------------
(* With the driver just loaded nobody is inside and the lock is free.      *)
LEMMA InitButtonsInv == Init => ButtonsInv
<1>. SUFFICES ASSUME Init PROVE ButtonsInv
  OBVIOUS
<1>1. 1 \in Keys
  BY ButtonsAssumption DEF Keys
<1>2. TypeOK
  <2>1. timer \in BOOLEAN
    BY Zenon DEF Init
  <2>2. key_val \in [key : {0} \union Keys, down : BOOLEAN]
    BY DEF Init
  <2>3. pc \in [Apps -> Positions] /\ count \in Nat
    BY DEF Init, Positions
  <2>4. line \in [Apps -> Keys] /\ irqs \subseteq Keys
    BY <1>1 DEF Init
  <2>5. /\ nonblock \in [Apps -> BOOLEAN] /\ level \in [Keys -> BOOLEAN]
        /\ signalled \in [Apps -> BOOLEAN]
    BY Zenon DEF Init
  <2>6. /\ ev_press \in BOOLEAN /\ unread \in BOOLEAN /\ irq_pd \in BOOLEAN
        /\ variant \in Variants
    BY DEF Init
  <2>. QED
    BY <2>1, <2>2, <2>3, <2>4, <2>5, <2>6 DEF TypeOK
<1>3. \A a \in Apps : pc[a] = "out"
  BY DEF Init
<1>4. Users = {}
  BY <1>3 DEF Users, IsUser, Reading
<1>5. LockInv
  BY <1>3, <1>4, FS_EmptySet DEF Init, LockInv, OneAppInside, Inside, Reading
<1>6. IrqInv
  BY <1>3 DEF Init, IrqInv, Reading
<1>7. NoLostWakeup /\ ReadInv
  BY <1>3 DEF Init, NoLostWakeup, ReadInv, KeyReadOnce
<1>. QED
  BY <1>2, <1>5, <1>6, <1>7 DEF ButtonsInv

-----------------------------------------------------------------------------
(* Where a process may be after a step that it takes itself.                *)
LEMMA GotoStep ==
  ASSUME TypeOK, NEW a \in Apps, NEW p, NEW q \in Positions, Goto(a, p, q)
  PROVE  /\ pc[a] = p /\ pc'[a] = q
         /\ pc' \in [Apps -> Positions]
         /\ \A b \in Apps : b # a => pc'[b] = pc[b]
BY DEF TypeOK, Goto

(* The count of users follows the process that moves.                       *)
LEMMA UsersStep ==
  ASSUME UNCHANGED variant, NEW a \in Apps,
         \A b \in Apps : b # a => pc'[b] = pc[b]
  PROVE  /\ IsFiniteSet(Users) /\ Cardinality(Users) \in Nat
         /\ Cardinality(Users') = Cardinality(Users)
              + (IF IsUser(pc'[a]) THEN 1 ELSE 0)
              - (IF IsUser(pc[a]) THEN 1 ELSE 0)
<1>1. IsFiniteSet(Users) /\ Cardinality(Users) \in Nat
  BY ButtonsAssumption, FS_Subset, FS_CardinalityType DEF Users
<1>2. \A q : IsUser(q)' <=> IsUser(q')
  BY DEF IsUser
<1>3. Users' = IF IsUser(pc'[a]) THEN Users \union {a} ELSE Users \ {a}
  BY DEF Users, IsUser
<1>4. a \in Users <=> IsUser(pc[a])
  BY DEF Users
<1>5. Cardinality(Users \union {a}) =
        IF a \in Users THEN Cardinality(Users) ELSE Cardinality(Users) + 1
  BY <1>1, FS_AddElement
<1>6. Cardinality(Users \ {a}) =
        IF a \in Users THEN Cardinality(Users) - 1 ELSE Cardinality(Users)
  BY <1>1, FS_RemoveElement
<1>. QED
  BY <1>1, <1>3, <1>4, <1>5, <1>6

-----------------------------------------------------------------------------
(* The steps of button_open keep the types: the semaphore is taken only    *)
(* when its count is positive.                                             *)
LEMMA OpenTypeOK ==
  ASSUME TypeOK, NEW a \in Apps, button_open(a),
         UNCHANGED <<variant, level, device, debounce, signalled>>
  PROVE  TypeOK'
<1>. USE DEF TypeOK
<1>1. CASE OpenFlag(a) /\ UNCHANGED <<line, irqs>>
  <2>1. pc' \in [Apps -> Positions]
    BY <1>1 DEF OpenFlag, Goto, Positions
  <2>. QED
    BY <1>1, <2>1 DEF OpenFlag, device, debounce
<1>2. CASE FailFlag(a) /\ UNCHANGED <<line, irqs>>
  <2>1. pc' \in [Apps -> Positions] /\ count' = count + 1
    BY <1>2 DEF FailFlag, Goto, Positions
  <2>. QED
    BY <1>2, <2>1 DEF FailFlag, device, debounce
<1>3. CASE TryLock(a) /\ UNCHANGED <<line, irqs>>
  <2>1. pc' \in [Apps -> Positions]
    BY <1>3 DEF TryLock, Goto, Positions
  <2>2. nonblock' \in [Apps -> BOOLEAN]
    BY <1>3 DEF TryLock
  <2>. QED
    BY <1>3, <2>1, <2>2 DEF TryLock, device, debounce
<1>4. CASE Lock(a) /\ UNCHANGED <<line, irqs>>
  <2>1. pc' \in [Apps -> Positions]
    BY <1>4 DEF Lock, Goto, Positions
  <2>. QED
    BY <1>4, <2>1 DEF Lock, device, debounce
<1>5. CASE Locked(a) /\ UNCHANGED <<line, irqs>>
  <2>1. pc' \in [Apps -> Positions]
    BY <1>5 DEF Locked, Goto, Positions
  <2>. QED
    BY <1>5, <2>1 DEF Locked, device, debounce
<1>6. CASE RequestIrq(a) /\ UNCHANGED <<count, nonblock>>
  <2>1. pc' \in [Apps -> Positions]
    BY <1>6 DEF RequestIrq, Goto, Positions
  <2>2. line[a] \in Keys /\ 1 \in Keys
    BY ButtonsAssumption DEF Keys
  <2>3. line' \in [Apps -> Keys]
    BY <1>6, <2>2 DEF RequestIrq
  <2>4. irqs' \subseteq Keys
    BY <1>6, <2>2 DEF RequestIrq
  <2>. QED
    BY <1>6, <2>1, <2>3, <2>4 DEF device, debounce
<1>. QED
  BY <1>1, <1>2, <1>3, <1>4, <1>5, <1>6 DEF button_open

(* The steps of button_close keep the types.                               *)
LEMMA CloseTypeOK ==
  ASSUME TypeOK, NEW a \in Apps, button_close(a),
         UNCHANGED <<variant, level, device, debounce, signalled>>
  PROVE  TypeOK'
<1>. USE DEF TypeOK
<1>1. CASE StartClose(a)
  <2>1. pc' \in [Apps -> Positions]
    BY <1>1 DEF StartClose, Goto, Positions
  <2>. QED
    BY <1>1, <2>1 DEF StartClose, button_close, device, debounce
<1>2. CASE FreeIrq(a)
  <2>1. pc' \in [Apps -> Positions]
    BY <1>2 DEF FreeIrq, Goto, Positions
  <2>2. line[a] \in Keys /\ 1 \in Keys
    BY ButtonsAssumption DEF Keys
  <2>3. line' \in [Apps -> Keys]
    BY <1>2, <2>2 DEF FreeIrq
  <2>4. irqs' \subseteq Keys /\ count' = count
    BY <1>2 DEF FreeIrq
  <2>. QED
    BY <2>1, <2>3, <2>4 DEF button_close, device, debounce
<1>3. CASE Unlock(a)
  <2>1. pc' \in [Apps -> Positions]
    BY <1>3 DEF Unlock, Goto, Positions
  <2>. QED
    BY <1>3, <2>1 DEF Unlock, button_close, device, debounce
<1>. QED
  BY <1>1, <1>2, <1>3 DEF button_close

(* The steps of button_read keep the types.                                *)
LEMMA ReadTypeOK ==
  ASSUME TypeOK, NEW a \in Apps, button_read(a),
         UNCHANGED <<variant, count, nonblock, line, irqs, level, debounce>>
  PROVE  TypeOK'
<1>. USE DEF TypeOK, device
<1>1. CASE StartRead(a)
  <2>1. pc' \in [Apps -> Positions]
    BY <1>1 DEF StartRead, Goto, Positions
  <2>. QED
    BY <1>1, <2>1 DEF StartRead, debounce
<1>2. CASE Wait(a)
  <2>1. pc' \in [Apps -> Positions]
    BY <1>2 DEF Wait, Goto, Positions
  <2>. QED
    BY <1>2, <2>1 DEF Wait, debounce
<1>3. CASE Signal(a)
  BY <1>3 DEF Signal, Positions, debounce
<1>4. CASE Copy(a)
  <2>1. pc' \in [Apps -> Positions]
    BY <1>4 DEF Copy, Goto, Positions
  <2>. QED
    BY <1>4, <2>1 DEF Copy, debounce
<1>. QED
  BY <1>1, <1>2, <1>3, <1>4 DEF button_read

(* What the handler and the timer function report.                          *)
LEMMA ReportTypeOK ==
  ASSUME TypeOK, NEW k \in Keys, NEW down \in BOOLEAN, Report(k, down)
  PROVE  /\ pc' \in [Apps -> Positions]
         /\ key_val' \in [key : {0} \union Keys, down : BOOLEAN]
         /\ ev_press' \in BOOLEAN /\ unread' \in BOOLEAN
BY DEF TypeOK, Report, Woken, Positions

(* A key that moves, with its handler, keeps the types.                    *)
LEMMA EdgeTypeOK ==
  ASSUME TypeOK, NEW k \in Keys, Edge(k),
         UNCHANGED <<variant, count, nonblock, line, irqs, signalled>>
  PROVE  TypeOK'
<1>1. level' \in [Keys -> BOOLEAN]
  <2>1. level \in [Keys -> BOOLEAN] /\ (~level[k]) \in BOOLEAN
    BY DEF TypeOK
  <2>2. level' = [level EXCEPT ![k] = ~level[k]]
    BY DEF Edge
  <2>. QED
    BY <2>1, <2>2, Zenon
<1>2. 1 \in Keys /\ level'[1] \in BOOLEAN
  BY <1>1, ButtonsAssumption DEF Keys
<1>3. CASE Report(pindesc(k), level'[pindesc(k)]) /\ UNCHANGED debounce
  <2>1. /\ pc' \in [Apps -> Positions]
        /\ key_val' \in [key : {0} \union Keys, down : BOOLEAN]
        /\ ev_press' \in BOOLEAN /\ unread' \in BOOLEAN
    BY <1>2, <1>3, ReportTypeOK DEF pindesc
  <2>. QED
    BY <1>1, <1>3, <2>1 DEF TypeOK, debounce
<1>4. CASE /\ irq_pd' \in BOOLEAN /\ timer' \in BOOLEAN
           /\ UNCHANGED <<pc, device>>
  BY <1>1, <1>4 DEF TypeOK, device
<1>. QED
  BY <1>3, <1>4 DEF Edge, buttons_irq, TypeOK, debounce

(* The debouncing timer keeps the types.                                   *)
LEMMA TimerTypeOK ==
  ASSUME TypeOK, buttons_timer_function,
         UNCHANGED <<variant, count, nonblock, line, irqs, level, signalled>>
  PROVE  TypeOK'
<1>1. 1 \in Keys /\ level[1] \in BOOLEAN
  BY ButtonsAssumption DEF TypeOK, Keys
<1>2. CASE Report(pindesc(1), level[pindesc(1)])
  <2>1. /\ pc' \in [Apps -> Positions]
        /\ key_val' \in [key : {0} \union Keys, down : BOOLEAN]
        /\ ev_press' \in BOOLEAN /\ unread' \in BOOLEAN
    BY <1>1, <1>2, ReportTypeOK DEF pindesc
  <2>. QED
    BY <2>1 DEF TypeOK, buttons_timer_function
<1>3. CASE UNCHANGED <<pc, device>>
  BY <1>3 DEF TypeOK, device, buttons_timer_function
<1>. QED
  BY <1>2, <1>3 DEF buttons_timer_function

(* Every step keeps the types.                                             *)
LEMMA StepTypeOK ==
  ASSUME TypeOK, [Next]_vars
  PROVE  TypeOK'
<1>1. CASE UNCHANGED vars
  BY <1>1 DEF TypeOK, vars
<1>. QED
  BY <1>1, OpenTypeOK, CloseTypeOK, ReadTypeOK, EdgeTypeOK, TimerTypeOK
     DEF Next

-----------------------------------------------------------------------------
InsideAt == {"requesting", "open"} \union Reading

(* A move of one process keeps LockInv if the count follows it and it gets  *)
(* inside only when nobody is counted.                                      *)
LEMMA MoveLockInv ==
  ASSUME TypeOK, LockInv, UNCHANGED variant, NEW a \in Apps,
         \A b \in Apps : b # a => pc'[b] = pc[b],
         count' = count + (IF IsUser(pc[a]) THEN 1 ELSE 0)
                        - (IF IsUser(pc'[a]) THEN 1 ELSE 0),
         pc'[a] = "failing" => variant = "atomic",
         pc'[a] \in {"locking", "unlocking"} => variant # "atomic",
         pc'[a] \in InsideAt => pc[a] \in InsideAt \/ count >= 1
  PROVE  LockInv'
<1>1. /\ IsFiniteSet(Users) /\ Cardinality(Users) \in Nat
      /\ Cardinality(Users') = Cardinality(Users)
           + (IF IsUser(pc'[a]) THEN 1 ELSE 0)
           - (IF IsUser(pc[a]) THEN 1 ELSE 0)
  BY UsersStep
<1>2. count' = 1 - Cardinality(Users')
  <2>1. count = 1 - Cardinality(Users) /\ count \in Int
    BY DEF LockInv, TypeOK
  <2>. QED
    BY <1>1, <2>1
<1>3. OneAppInside'
  <2>1. CASE pc[a] \in InsideAt
    BY <2>1 DEF LockInv, OneAppInside, Inside, InsideAt, Reading
  <2>2. CASE pc'[a] \notin InsideAt
    BY <2>2 DEF LockInv, OneAppInside, Inside, InsideAt, Reading
  <2>3. CASE pc'[a] \in InsideAt /\ count >= 1
    <3>1. Cardinality(Users) = 0
      BY <1>1, <2>3 DEF LockInv
    <3>2. Users = {}
      BY <1>1, <3>1, FS_EmptySet
    <3>3. \A b \in Apps : pc[b] \notin InsideAt
      BY <3>2 DEF Users, IsUser, InsideAt, Reading
    <3>. QED
      BY <3>3 DEF OneAppInside, Inside, InsideAt, Reading
  <2>. QED
    BY <2>1, <2>2, <2>3
<1>4. \A b \in Apps :
        /\ pc'[b] = "failing" => variant' = "atomic"
        /\ pc'[b] \in {"locking", "unlocking"} => variant' # "atomic"
  BY DEF LockInv
<1>. QED
  BY <1>2, <1>3, <1>4 DEF LockInv

(* Waking the sleepers moves nobody in or out.                              *)
LEMMA WokenLockInv ==
  ASSUME TypeOK, LockInv, UNCHANGED <<variant, count>>,
         pc' = Woken \/ UNCHANGED pc
  PROVE  LockInv'
<1>1. \A a \in Apps :
        \/ pc'[a] = pc[a]
        \/ pc[a] = "sleeping" /\ pc'[a] = "waiting"
  BY DEF Woken
<1>2. Users' = Users
  BY <1>1 DEF Users, IsUser, Reading
<1>3. OneAppInside'
  BY <1>1 DEF LockInv, OneAppInside, Inside, Reading
<1>. QED
  BY <1>1, <1>2, <1>3 DEF LockInv

(* Each step of button_open moves the count and the set of those who hold  *)
(* or try the lock together.                                               *)
LEMMA OpenLockInv ==
  ASSUME TypeOK, LockInv, UNCHANGED variant, NEW a \in Apps, button_open(a)
  PROVE  LockInv'
<1>. USE DEF IsUser, InsideAt, Reading
<1>1. count \in Int /\ pc[a] \in Positions /\ (pc[a] = "failing" => variant = "atomic")
  BY DEF TypeOK, LockInv
<1>2. UNCHANGED pc => \A b \in Apps : pc'[b] = pc[b]
  OBVIOUS
<1>3. CASE OpenFlag(a)
  <2>1. ASSUME NEW q \in {"requesting", "failing"}, Goto(a, "out", q),
               q = "requesting" => count = 1
        PROVE  LockInv'
    <3>1. /\ pc[a] = "out" /\ pc'[a] = q
          /\ \A b \in Apps : b # a => pc'[b] = pc[b]
      BY <2>1, GotoStep DEF Positions
    <3>. QED
      BY <1>1, <1>3, <2>1, <3>1, MoveLockInv DEF OpenFlag
  <2>. QED
    BY <1>3, <2>1 DEF OpenFlag
<1>4. CASE FailFlag(a)
  <2>1. /\ pc[a] = "failing" /\ pc'[a] = "out"
        /\ \A b \in Apps : b # a => pc'[b] = pc[b]
    BY <1>4, GotoStep DEF FailFlag, Positions
  <2>. QED
    BY <1>1, <1>4, <2>1, MoveLockInv DEF FailFlag
<1>5. CASE TryLock(a)
  <2>1. CASE Goto(a, "out", "requesting") /\ count' = count - 1 /\ count > 0
    <3>1. /\ pc[a] = "out" /\ pc'[a] = "requesting"
          /\ \A b \in Apps : b # a => pc'[b] = pc[b]
      BY <2>1, GotoStep DEF Positions
    <3>. QED
      BY <1>1, <2>1, <3>1, MoveLockInv
  <2>2. CASE UNCHANGED <<pc, count>>
    BY <2>2, WokenLockInv
  <2>. QED
    BY <1>5, <2>1, <2>2 DEF TryLock
<1>6. CASE Lock(a)
  <2>1. /\ pc[a] = "out" /\ pc'[a] = "locking"
        /\ \A b \in Apps : b # a => pc'[b] = pc[b]
    BY <1>6, GotoStep DEF Lock, Positions
  <2>. QED
    BY <1>1, <1>6, <2>1, MoveLockInv DEF Lock
<1>7. CASE Locked(a)
  <2>1. /\ pc[a] = "locking" /\ pc'[a] = "requesting"
        /\ \A b \in Apps : b # a => pc'[b] = pc[b]
    BY <1>7, GotoStep DEF Locked, Positions
  <2>. QED
    BY <1>1, <1>7, <2>1, MoveLockInv DEF Locked
<1>8. CASE RequestIrq(a) /\ UNCHANGED count
  <2>1. CASE Goto(a, "requesting", "open")
    <3>1. /\ pc[a] = "requesting" /\ pc'[a] = "open"
          /\ \A b \in Apps : b # a => pc'[b] = pc[b]
      BY <2>1, GotoStep DEF Positions
    <3>. QED
      BY <1>1, <1>8, <3>1, MoveLockInv
  <2>2. CASE UNCHANGED pc
    BY <1>8, <2>2, WokenLockInv
  <2>. QED
    BY <1>8, <2>1, <2>2 DEF RequestIrq
<1>. QED
  BY <1>3, <1>4, <1>5, <1>6, <1>7, <1>8 DEF button_open

(* So does each step of button_close: the flag goes with StartClose, the   *)
(* semaphore with Unlock.                                                  *)
LEMMA CloseLockInv ==
  ASSUME TypeOK, LockInv, UNCHANGED variant, NEW a \in Apps, button_close(a)
  PROVE  LockInv'
<1>. USE DEF IsUser, InsideAt, Reading
<1>1. /\ count \in Int
      /\ pc[a] \in {"locking", "unlocking"} => variant # "atomic"
  BY DEF TypeOK, LockInv
<1>2. CASE StartClose(a)
  <2>1. /\ pc[a] = "open" /\ pc'[a] = "freeing"
        /\ \A b \in Apps : b # a => pc'[b] = pc[b]
    BY <1>2, GotoStep DEF StartClose, Positions
  <2>. QED
    BY <1>1, <1>2, <2>1, MoveLockInv DEF StartClose
<1>3. CASE FreeIrq(a)
  <2>1. CASE UNCHANGED pc
    BY <1>3, <2>1, WokenLockInv DEF FreeIrq
  <2>2. CASE Goto(a, "freeing", "out") /\ variant = "atomic"
    <3>1. /\ pc[a] = "freeing" /\ pc'[a] = "out"
          /\ \A b \in Apps : b # a => pc'[b] = pc[b]
      BY <2>2, GotoStep DEF Positions
    <3>. QED
      BY <1>1, <1>3, <2>2, <3>1, MoveLockInv DEF FreeIrq
  <2>3. CASE Goto(a, "freeing", "unlocking") /\ variant # "atomic"
    <3>1. /\ pc[a] = "freeing" /\ pc'[a] = "unlocking"
          /\ \A b \in Apps : b # a => pc'[b] = pc[b]
      BY <2>3, GotoStep DEF Positions
    <3>. QED
      BY <1>1, <1>3, <2>3, <3>1, MoveLockInv DEF FreeIrq
  <2>. QED
    BY <1>3, <2>1, <2>2, <2>3 DEF FreeIrq
<1>4. CASE Unlock(a)
  <2>1. /\ pc[a] = "unlocking" /\ pc'[a] = "out"
        /\ \A b \in Apps : b # a => pc'[b] = pc[b]
    BY <1>4, GotoStep DEF Unlock, Positions
  <2>. QED
    BY <1>1, <1>4, <2>1, MoveLockInv DEF Unlock
<1>. QED
  BY <1>2, <1>3, <1>4 DEF button_close

(* A step of read moves its process between the positions of a reader.      *)
LEMMA ReadMoves ==
  ASSUME TypeOK, NEW a \in Apps, button_read(a)
  PROVE  /\ pc[a] \in {"open"} \union Reading
         /\ pc'[a] \in {"open"} \union Reading
         /\ \A b \in Apps : b # a => pc'[b] = pc[b]
<1>1. ASSUME NEW p \in {"open"} \union Reading, NEW q \in {"open"} \union Reading,
             Goto(a, p, q)
      PROVE  /\ pc[a] \in {"open"} \union Reading
             /\ pc'[a] \in {"open"} \union Reading
             /\ \A b \in Apps : b # a => pc'[b] = pc[b]
  <2>1. q \in Positions
    BY DEF Reading, Positions
  <2>. QED
    BY <1>1, <2>1, GotoStep
<1>. USE DEF Reading
<1>2. CASE StartRead(a)
  BY <1>1, <1>2 DEF StartRead
<1>3. CASE Wait(a)
  BY <1>1, <1>3 DEF Wait
<1>4. CASE Signal(a)
  BY <1>4 DEF Signal, TypeOK
<1>5. CASE Copy(a)
  BY <1>1, <1>5 DEF Copy
<1>. QED
  BY <1>2, <1>3, <1>4, <1>5 DEF button_read

(* button_read moves a process only among the positions inside.            *)
LEMMA ReadLockInv ==
  ASSUME TypeOK, LockInv, UNCHANGED <<variant, count>>, NEW a \in Apps,
         button_read(a)
  PROVE  LockInv'
<1>1. count \in Int
  BY DEF TypeOK
<1>2. IsUser(pc[a]) /\ IsUser(pc'[a]) /\ pc[a] \in InsideAt /\ pc'[a] \in InsideAt
  BY ReadMoves DEF IsUser, InsideAt
<1>3. /\ pc'[a] # "failing" /\ pc'[a] \notin {"locking", "unlocking"}
      /\ \A b \in Apps : b # a => pc'[b] = pc[b]
  BY ReadMoves DEF Reading
<1>. QED
  BY <1>1, <1>2, <1>3, MoveLockInv

(* Every step keeps the count right.                                       *)
LEMMA StepLockInv ==
  ASSUME TypeOK, LockInv, [Next]_vars
  PROVE  LockInv'
<1>1. CASE UNCHANGED vars
  BY <1>1, WokenLockInv DEF vars
<1>2. ASSUME NEW k \in Keys, Edge(k), UNCHANGED <<variant, count>>
      PROVE  LockInv'
  BY <1>2, WokenLockInv DEF Edge, buttons_irq, Report
<1>3. ASSUME buttons_timer_function, UNCHANGED <<variant, count>>
      PROVE  LockInv'
  BY <1>3, WokenLockInv DEF buttons_timer_function, Report
<1>. QED
  BY <1>1, <1>2, <1>3, OpenLockInv, CloseLockInv, ReadLockInv DEF Next

-----------------------------------------------------------------------------
(* With a semaphore the holder is alone, from down to up.                   *)
LEMMA OneUser ==
  ASSUME TypeOK, LockInv, variant # "atomic",
         NEW a \in Apps, NEW b \in Apps, IsUser(pc[a]), IsUser(pc[b])
  PROVE  a = b
<1>1. IsFiniteSet(Users) /\ Cardinality(Users) \in Nat
  BY ButtonsAssumption, FS_Subset, FS_CardinalityType DEF Users
<1>2. Cardinality(Users) <= 1
  BY <1>1 DEF TypeOK, LockInv
<1>3. {a, b} \subseteq Users
  BY DEF Users
<1>4. IsFiniteSet({a, b}) /\ Cardinality({a, b}) <= Cardinality(Users)
  BY <1>1, <1>3, FS_Subset
<1>5. SUFFICES ASSUME a # b PROVE FALSE
  OBVIOUS
<1>6. Cardinality({a, b}) = 2
  <2>1. IsFiniteSet({a}) /\ Cardinality({a}) = 1
    BY FS_Singleton
  <2>2. {a, b} = {a} \union {b} /\ b \notin {a}
    BY <1>5
  <2>3. Cardinality({a} \union {b}) = Cardinality({a}) + 1
    BY <2>1, <2>2, FS_AddElement
  <2>. QED
    BY <2>1, <2>2, <2>3
<1>. QED
  BY <1>1, <1>2, <1>4, <1>6

(* Who takes the semaphore finds nobody counted.                            *)
LEMMA NoUser ==
  ASSUME TypeOK, LockInv, count > 0
  PROVE  Users = {}
<1>1. IsFiniteSet(Users) /\ Cardinality(Users) \in Nat
  BY ButtonsAssumption, FS_Subset, FS_CardinalityType DEF Users
<1>2. Cardinality(Users) = 0
  BY <1>1 DEF TypeOK, LockInv
<1>. QED
  BY <1>1, <1>2, FS_EmptySet

(* A move that leaves the lines alone keeps IrqInv, if the new position     *)
(* claims no more of irqs than the old one gave.                            *)
LEMMA MoveIrqInv ==
  ASSUME TypeOK, LockInv, IrqInv, UNCHANGED <<variant, line, irqs>>,
         NEW a \in Apps,
         \A b \in Apps : b # a => pc'[b] = pc[b],
         \/ /\ pc[a] \in {"open"} \union Reading
            /\ pc'[a] \in {"open", "freeing"} \union Reading
         \/ /\ pc[a] \in {"out", "locking"} /\ pc'[a] = "requesting"
            /\ variant # "atomic" => Users = {}
         \/ ~IsUser(pc[a]) /\ pc'[a] \in {"locking", "failing"} /\ pc[a] = "out"
         \/ pc[a] \in {"failing", "unlocking"} /\ pc'[a] = "out"
  PROVE  IrqInv'
<1>. USE DEF Reading
<1>1. line[a] = 1 /\ line \in [Apps -> Keys]
  BY DEF IrqInv, TypeOK
<1>2. \A b \in Apps : pc'[b] \notin {"requesting", "freeing"} => line'[b] = 1
  BY <1>1 DEF IrqInv
<1>3. ASSUME variant # "atomic"
      PROVE  /\ Users' = {} => irqs' = {}
             /\ \A b \in Apps :
                  /\ pc'[b] = "requesting" => irqs' = 1 .. line'[b] - 1
                  /\ pc'[b] \in {"open"} \union Reading => irqs' = Keys
                  /\ pc'[b] = "freeing" => irqs' = line'[b] .. NKeys
                  /\ pc'[b] = "unlocking" => irqs' = {}
  <2>1. \A b \in Apps : b # a =>
          /\ pc'[b] = "requesting" => irqs' = 1 .. line'[b] - 1
          /\ pc'[b] \in {"open"} \union Reading => irqs' = Keys
          /\ pc'[b] = "freeing" => irqs' = line'[b] .. NKeys
          /\ pc'[b] = "unlocking" => irqs' = {}
    BY <1>3 DEF IrqInv
  <2>2. /\ pc'[a] = "requesting" => irqs' = 1 .. line'[a] - 1
        /\ pc'[a] \in {"open"} \union Reading => irqs' = Keys
        /\ pc'[a] = "freeing" => irqs' = line'[a] .. NKeys
        /\ pc'[a] = "unlocking" => irqs' = {}
    BY <1>1, <1>3 DEF IrqInv, Keys
  <2>3. Users' = {} => irqs' = {}
    <3>1. CASE pc[a] = "unlocking"
      BY <1>3, <3>1 DEF IrqInv
    <3>2. CASE pc[a] = "failing"
      BY <1>3, <3>2 DEF LockInv
    <3>3. CASE IsUser(pc'[a])
      BY <3>3 DEF Users, IsUser
    <3>4. CASE ~IsUser(pc[a]) /\ ~IsUser(pc'[a])
      <4>1. Users' = Users
        BY <3>4 DEF Users, IsUser
      <4>. QED
        BY <1>3, <4>1 DEF IrqInv
    <3>. QED
      BY <1>3, <3>1, <3>2, <3>3, <3>4 DEF IsUser
  <2>. QED
    BY <2>1, <2>2, <2>3
<1>. QED
  BY <1>2, <1>3 DEF IrqInv

(* Neither does a step after which all are where they were.                 *)
LEMMA StayIrqInv ==
  ASSUME TypeOK, IrqInv, UNCHANGED <<variant, line, irqs>>,
         pc' = Woken \/ UNCHANGED pc
  PROVE  IrqInv'
<1>1. \A a \in Apps :
        \/ pc'[a] = pc[a]
        \/ pc[a] = "sleeping" /\ pc'[a] = "waiting"
  BY DEF Woken
<1>2. Users' = Users
  BY <1>1 DEF Users, IsUser, Reading
<1>. QED
  BY <1>1, <1>2 DEF IrqInv, Reading

(* A step of request_irq or free_irq for one line: with a semaphore nobody  *)
(* else claims anything of irqs.                                            *)
LEMMA LineIrqInv ==
  ASSUME TypeOK, LockInv, IrqInv, UNCHANGED variant, NEW a \in Apps,
         pc[a] \in {"requesting", "freeing"},
         \A b \in Apps : b # a => pc'[b] = pc[b] /\ line'[b] = line[b],
         \/ pc'[a] = pc[a]
         \/ line'[a] = 1 /\ pc'[a] \in {"open", "out", "unlocking"},
         variant # "atomic" =>
           /\ IsUser(pc'[a])
           /\ pc'[a] = "requesting" => irqs' = 1 .. line'[a] - 1
           /\ pc'[a] = "open" => irqs' = Keys
           /\ pc'[a] = "freeing" => irqs' = line'[a] .. NKeys
           /\ pc'[a] = "unlocking" => irqs' = {}
  PROVE  IrqInv'
<1>1. \A b \in Apps : pc'[b] \notin {"requesting", "freeing"} => line'[b] = 1
  BY DEF IrqInv
<1>2. ASSUME variant # "atomic"
      PROVE  /\ Users' # {}
             /\ \A b \in Apps :
                  /\ pc'[b] = "requesting" => irqs' = 1 .. line'[b] - 1
                  /\ pc'[b] \in {"open"} \union Reading => irqs' = Keys
                  /\ pc'[b] = "freeing" => irqs' = line'[b] .. NKeys
                  /\ pc'[b] = "unlocking" => irqs' = {}
  <2>1. a \in Users'
    BY <1>2 DEF Users, IsUser
  <2>2. \A b \in Apps : b # a => ~IsUser(pc[b])
    BY <1>2, OneUser DEF IsUser
  <2>3. \A b \in Apps : b # a =>
          pc'[b] \notin {"requesting", "open", "freeing", "unlocking"}
                          \union Reading
    BY <1>2, <2>2 DEF IsUser
  <2>4. /\ pc'[a] = "requesting" => irqs' = 1 .. line'[a] - 1
        /\ pc'[a] \in {"open"} \union Reading => irqs' = Keys
        /\ pc'[a] = "freeing" => irqs' = line'[a] .. NKeys
        /\ pc'[a] = "unlocking" => irqs' = {}
    BY <1>2 DEF Reading
  <2>. QED
    BY <2>1, <2>3, <2>4
<1>. QED
  BY <1>1, <1>2 DEF IrqInv

(* The one process that requests lines has requested those below its next  *)
(* one.                                                                    *)
LEMMA RequestIrqInv ==
  ASSUME TypeOK, LockInv, IrqInv, UNCHANGED variant, NEW a \in Apps,
         RequestIrq(a)
  PROVE  IrqInv'
<1>1. /\ line[a] \in Nat /\ line[a] >= 1 /\ line[a] <= NKeys /\ NKeys \in Nat
      /\ pc[a] = "requesting" /\ irqs' = irqs \union {line[a]}
      /\ variant # "atomic" => irqs = 1 .. line[a] - 1
  BY ButtonsAssumption DEF TypeOK, Keys, RequestIrq, IrqInv
<1>2. CASE /\ line[a] + 1 \in Keys
           /\ line' = [line EXCEPT ![a] = line[a] + 1]
           /\ UNCHANGED pc
  <2>1. line'[a] = line[a] + 1 /\ \A b \in Apps : b # a => line'[b] = line[b]
    BY <1>2 DEF TypeOK
  <2>2. variant # "atomic" => irqs' = 1 .. line'[a] - 1
    BY <1>1, <2>1
  <2>. QED
    BY <1>1, <1>2, <2>1, <2>2, LineIrqInv DEF IsUser
<1>3. CASE /\ line[a] + 1 \notin Keys
           /\ line' = [line EXCEPT ![a] = 1]
           /\ Goto(a, "requesting", "open")
  <2>1. line'[a] = 1 /\ \A b \in Apps : b # a => line'[b] = line[b]
    BY <1>3 DEF TypeOK
  <2>2. pc'[a] = "open" /\ \A b \in Apps : b # a => pc'[b] = pc[b]
    BY <1>3, GotoStep DEF Positions
  <2>3. line[a] = NKeys
    BY <1>1, <1>3 DEF Keys
  <2>4. variant # "atomic" => irqs' = Keys
    BY <1>1, <2>3 DEF Keys
  <2>. QED
    BY <1>1, <2>1, <2>2, <2>4, LineIrqInv DEF IsUser
<1>. QED
  BY <1>2, <1>3 DEF RequestIrq

(* The one process that frees lines has freed those below its next one.    *)
LEMMA FreeIrqInv ==
  ASSUME TypeOK, LockInv, IrqInv, UNCHANGED variant, NEW a \in Apps,
         FreeIrq(a)
  PROVE  IrqInv'
<1>1. /\ line[a] \in Nat /\ line[a] >= 1 /\ line[a] <= NKeys /\ NKeys \in Nat
      /\ pc[a] = "freeing" /\ irqs' = irqs \ {line[a]}
      /\ variant # "atomic" => irqs = line[a] .. NKeys
  BY ButtonsAssumption DEF TypeOK, Keys, FreeIrq, IrqInv
<1>2. CASE /\ line[a] + 1 \in Keys
           /\ line' = [line EXCEPT ![a] = line[a] + 1]
           /\ UNCHANGED pc
  <2>1. line'[a] = line[a] + 1 /\ \A b \in Apps : b # a => line'[b] = line[b]
    BY <1>2 DEF TypeOK
  <2>2. variant # "atomic" => irqs' = line'[a] .. NKeys
    BY <1>1, <2>1
  <2>. QED
    BY <1>1, <1>2, <2>1, <2>2, LineIrqInv DEF IsUser
<1>3. CASE /\ line[a] + 1 \notin Keys
           /\ line' = [line EXCEPT ![a] = 1]
           /\ Goto(a, "freeing",
                   IF variant = "atomic" THEN "out" ELSE "unlocking")
  <2>1. line'[a] = 1 /\ \A b \in Apps : b # a => line'[b] = line[b]
    BY <1>3 DEF TypeOK
  <2>2. /\ pc'[a] = IF variant = "atomic" THEN "out" ELSE "unlocking"
        /\ \A b \in Apps : b # a => pc'[b] = pc[b]
    BY <1>3, GotoStep DEF Positions
  <2>3. line[a] = NKeys
    BY <1>1, <1>3 DEF Keys
  <2>4. variant # "atomic" => irqs' = {}
    BY <1>1, <2>3
  <2>. QED
    BY <1>1, <2>1, <2>2, <2>4, LineIrqInv DEF IsUser
<1>. QED
  BY <1>2, <1>3 DEF FreeIrq

(* button_open keeps the lines right, in the variants with the semaphore.  *)
LEMMA OpenIrqInv ==
  ASSUME TypeOK, LockInv, IrqInv, UNCHANGED variant, NEW a \in Apps,
         button_open(a)
  PROVE  IrqInv'
<1>1. ASSUME UNCHANGED <<line, irqs>>, NEW q, Goto(a, "out", q),
             \/ q = "requesting" /\ (variant # "atomic" => count > 0)
             \/ q \in {"locking", "failing"}
      PROVE  IrqInv'
  <2>1. /\ pc[a] = "out" /\ pc'[a] = q
        /\ \A b \in Apps : b # a => pc'[b] = pc[b]
    BY <1>1, GotoStep DEF Positions
  <2>. QED
    BY <1>1, <2>1, MoveIrqInv, NoUser DEF IsUser, Reading
<1>2. CASE OpenFlag(a) /\ UNCHANGED <<line, irqs>>
  BY <1>1, <1>2 DEF OpenFlag
<1>3. CASE FailFlag(a) /\ UNCHANGED <<line, irqs>>
  <2>1. /\ pc[a] = "failing" /\ pc'[a] = "out"
        /\ \A b \in Apps : b # a => pc'[b] = pc[b]
    BY <1>3, GotoStep DEF FailFlag, Positions
  <2>. QED
    BY <1>3, <2>1, MoveIrqInv
<1>4. CASE TryLock(a) /\ UNCHANGED <<line, irqs>>
  BY <1>1, <1>4, StayIrqInv DEF TryLock
<1>5. CASE Lock(a) /\ UNCHANGED <<line, irqs>>
  BY <1>1, <1>5 DEF Lock
<1>6. CASE Locked(a) /\ UNCHANGED <<line, irqs>>
  <2>1. /\ pc[a] = "locking" /\ pc'[a] = "requesting"
        /\ \A b \in Apps : b # a => pc'[b] = pc[b]
    BY <1>6, GotoStep DEF Locked, Positions
  <2>2. Users = {}
    BY <1>6, NoUser DEF Locked
  <2>. QED
    BY <1>6, <2>1, <2>2, MoveIrqInv
<1>. QED
  BY <1>2, <1>3, <1>4, <1>5, <1>6, RequestIrqInv DEF button_open

(* So does button_close.                                                   *)
LEMMA CloseIrqInv ==
  ASSUME TypeOK, LockInv, IrqInv, UNCHANGED variant, NEW a \in Apps,
         button_close(a)
  PROVE  IrqInv'
<1>1. CASE StartClose(a)
  <2>1. /\ pc[a] = "open" /\ pc'[a] = "freeing"
        /\ \A b \in Apps : b # a => pc'[b] = pc[b]
    BY <1>1, GotoStep DEF StartClose, Positions
  <2>. QED
    BY <1>1, <2>1, MoveIrqInv DEF StartClose
<1>2. CASE Unlock(a)
  <2>1. /\ pc[a] = "unlocking" /\ pc'[a] = "out"
        /\ \A b \in Apps : b # a => pc'[b] = pc[b]
    BY <1>2, GotoStep DEF Unlock, Positions
  <2>. QED
    BY <1>2, <2>1, MoveIrqInv DEF Unlock
<1>. QED
  BY <1>1, <1>2, FreeIrqInv DEF button_close

(* Every step keeps the lines right.                                       *)
LEMMA StepIrqInv ==
  ASSUME TypeOK, LockInv, IrqInv, [Next]_vars
  PROVE  IrqInv'
<1>1. CASE UNCHANGED vars
  BY <1>1, StayIrqInv DEF vars
<1>2. ASSUME NEW a \in Apps, button_read(a), UNCHANGED <<variant, line, irqs>>
      PROVE  IrqInv'
  BY <1>2, ReadMoves, MoveIrqInv DEF Reading
<1>3. ASSUME NEW k \in Keys, Edge(k), UNCHANGED <<variant, line, irqs>>
      PROVE  IrqInv'
  BY <1>3, StayIrqInv DEF Edge, buttons_irq, Report
<1>4. ASSUME buttons_timer_function, UNCHANGED <<variant, line, irqs>>
      PROVE  IrqInv'
  BY <1>4, StayIrqInv DEF buttons_timer_function, Report
<1>. QED
  BY <1>1, <1>2, <1>3, <1>4, OpenIrqInv, CloseIrqInv DEF Next

-----------------------------------------------------------------------------
(* open and close move nobody into or within read.                          *)
LEMMA OpenCloseMoves ==
  ASSUME TypeOK, NEW a \in Apps, button_open(a) \/ button_close(a)
  PROVE  \A b \in Apps :
           \/ pc'[b] = pc[b]
           \/ pc[b] \notin Reading /\ pc'[b] \notin Reading
<1>1. ASSUME NEW p \in Positions \ Reading, NEW q \in Positions \ Reading,
             Goto(a, p, q)
      PROVE  \A b \in Apps :
               pc'[b] = pc[b] \/ (pc[b] \notin Reading /\ pc'[b] \notin Reading)
  BY <1>1, GotoStep
<1>. USE DEF Reading, Positions
<1>2. CASE button_open(a)
  BY <1>1, <1>2 DEF button_open, OpenFlag, FailFlag, TryLock, Lock, Locked,
                    RequestIrq
<1>3. CASE button_close(a)
  BY <1>1, <1>3 DEF button_close, StartClose, FreeIrq, Unlock
<1>. QED
  BY <1>2, <1>3

(* What read and the reports say about sleepers and copies is not touched   *)
(* by open, close and a handler that only starts the timer.                 *)
LEMMA QuietReadInv ==
  ASSUME NoLostWakeup, ReadInv, UNCHANGED <<device, signalled>>,
         \A b \in Apps :
           \/ pc'[b] = pc[b]
           \/ pc[b] \notin Reading /\ pc'[b] \notin Reading
  PROVE  NoLostWakeup' /\ ReadInv'
BY DEF NoLostWakeup, ReadInv, KeyReadOnce, Reading, device

(* What the handler reports wakes every sleeper and is unread.             *)
LEMMA ReportReadInv ==
  ASSUME TypeOK, NEW k, NEW down, Report(k, down)
  PROVE  NoLostWakeup' /\ ReadInv'
BY DEF TypeOK, Report, Woken, NoLostWakeup, ReadInv, KeyReadOnce

(* The steps of button_read go to sleep without a key only, and copy one   *)
(* that is unread.                                                         *)
LEMMA ReadReadInv ==
  ASSUME TypeOK, LockInv, NoLostWakeup, ReadInv, NEW a \in Apps, button_read(a)
  PROVE  NoLostWakeup' /\ ReadInv'
<1>1. /\ pc[a] \in {"open"} \union Reading
      /\ \A b \in Apps : b # a => pc'[b] = pc[b]
  BY ReadMoves
<1>2. \A b \in Apps : b # a => pc[b] \notin Reading
  BY <1>1 DEF LockInv, OneAppInside, Inside
<1>3. \A b \in Apps : b # a => pc'[b] \notin Reading
  BY <1>1, <1>2
<1>. USE DEF NoLostWakeup, ReadInv, KeyReadOnce, Reading, device
<1>4. CASE StartRead(a)
  <2>1. UNCHANGED device
    BY <1>4 DEF StartRead
  <2>2. pc[a] = "open"
    BY <1>4 DEF StartRead, Goto
  <2>3. ev_press => unread
    BY <1>2, <2>2
  <2>4. pc'[a] \in {"open", "waiting"} \/ (pc'[a] = "copying" /\ ev_press)
    BY <1>4 DEF StartRead, Goto, TypeOK
  <2>. QED
    BY <1>3, <2>1, <2>3, <2>4
<1>5. CASE Wait(a)
  <2>1. UNCHANGED <<device, signalled>>
    BY <1>5 DEF Wait
  <2>2. pc[a] = "waiting"
    BY <1>5 DEF Wait, Goto
  <2>3. ev_press => unread
    BY <1>2, <2>2
  <2>4. \/ pc'[a] = "sleeping" /\ ~ev_press
        \/ pc'[a] = "copying" /\ ev_press
    BY <1>5 DEF Wait, Goto, TypeOK
  <2>. QED
    BY <1>3, <2>1, <2>3, <2>4
<1>6. CASE Signal(a)
  <2>1. /\ UNCHANGED device /\ ~ev_press
        /\ pc'[a] = "copying" /\ signalled'[a]
    BY <1>6 DEF Signal, TypeOK
  <2>. QED
    BY <1>3, <2>1
<1>7. CASE Copy(a)
  <2>1. CASE /\ pc[a] = "copying" /\ pc'[a] = "clearing" /\ unread' = FALSE
    BY <1>3, <2>1
  <2>2. CASE /\ pc[a] = "clearing" /\ pc'[a] = "open" /\ ev_press' = FALSE
    BY <1>3, <2>2
  <2>. QED
    BY <1>7, <2>1, <2>2 DEF Copy, Goto, TypeOK
<1>. QED
  BY <1>4, <1>5, <1>6, <1>7 DEF button_read

(* Every step keeps the readers right: only the process inside reads, and  *)
(* the handler wakes it.                                                   *)
LEMMA StepReadInv ==
  ASSUME TypeOK, LockInv, NoLostWakeup, ReadInv, [Next]_vars
  PROVE  NoLostWakeup' /\ ReadInv'
<1>1. CASE UNCHANGED vars
  BY <1>1, QuietReadInv DEF vars, device
<1>2. ASSUME NEW a \in Apps, button_open(a) \/ button_close(a),
             UNCHANGED <<device, signalled>>
      PROVE  NoLostWakeup' /\ ReadInv'
  BY <1>2, OpenCloseMoves, QuietReadInv
<1>3. ASSUME NEW k \in Keys, Edge(k), UNCHANGED signalled
      PROVE  NoLostWakeup' /\ ReadInv'
  BY <1>3, ReportReadInv, QuietReadInv DEF Edge, buttons_irq
<1>4. ASSUME buttons_timer_function, UNCHANGED signalled
      PROVE  NoLostWakeup' /\ ReadInv'
  BY <1>4, ReportReadInv, QuietReadInv DEF buttons_timer_function
<1>. QED
  BY <1>1, <1>2, <1>3, <1>4, ReadReadInv DEF Next

-----------------------------------------------------------------------------
(* The inductive invariant of open, read and close under interrupts, timer  *)
(* and signals.                                                             *)
THEOREM ButtonsInvariant == Spec => []ButtonsInv
<1>1. ASSUME ButtonsInv, [Next]_vars PROVE ButtonsInv'
  BY <1>1, StepTypeOK, StepLockInv, StepIrqInv, StepReadInv DEF ButtonsInv
<1>. QED
  BY <1>1, InitButtonsInv, PTL DEF Spec

(* Every variable of the drivers keeps its type, button_lock never below 0. *)
THEOREM ButtonsTypeCorrect == Spec => []TypeOK
<1>1. ButtonsInv => TypeOK
  BY DEF ButtonsInv
<1>. QED
  BY <1>1, ButtonsInvariant, PTL

(* One application at a time is inside button_open .. button_close, in each *)
(* of the drivers, however many try.                                        *)
THEOREM OpenIsExclusive == Spec => []OneAppInside
<1>1. ButtonsInv => OneAppInside
  BY DEF ButtonsInv, LockInv
<1>. QED
  BY <1>1, ButtonsInvariant, PTL

(* The flag, or the semaphore, is at 1 again when nobody is inside.         *)
THEOREM LockReturns == Spec => []LockIsGivenBack
<1>1. ButtonsInv => LockIsGivenBack
  <2>. SUFFICES ASSUME ButtonsInv, \A a \in Apps : pc[a] \in {"out", "locking"}
                PROVE  count = 1
    BY DEF LockIsGivenBack
  <2>1. Users = {}
    BY DEF Users, IsUser, Reading
  <2>. QED
    BY <2>1, FS_EmptySet DEF ButtonsInv, LockInv
<1>. QED
  BY <1>1, ButtonsInvariant, PTL

(* With a semaphore an application that has the device open has the         *)
(* interrupts of all keys, and none is left requested after the last close. *)
THEOREM InterruptsAreGuarded == Spec => []SemaphoreGuardsInterrupts
<1>1. ButtonsInv => SemaphoreGuardsInterrupts
  <2>. SUFFICES ASSUME ButtonsInv, variant # "atomic"
                PROVE  /\ OpenAppHasInterrupts
                       /\ (\A a \in Apps : pc[a] \in {"out", "locking"})
                             => irqs = {}
    BY DEF SemaphoreGuardsInterrupts
  <2>1. OpenAppHasInterrupts
    BY DEF ButtonsInv, IrqInv, OpenAppHasInterrupts
  <2>2. (\A a \in Apps : pc[a] \in {"out", "locking"}) => Users = {}
    BY DEF Users, IsUser, Reading
  <2>. QED
    BY <2>1, <2>2 DEF ButtonsInv, IrqInv
<1>. QED
  BY <1>1, ButtonsInvariant, PTL

(* A reader never sleeps over a key: the handler, or the timer function,    *)
(* wakes it whatever step of button_read it is at.                          *)
THEOREM ReadersAreWoken == Spec => []NoLostWakeup
<1>1. ButtonsInv => NoLostWakeup
  BY DEF ButtonsInv
<1>. QED
  BY <1>1, ButtonsInvariant, PTL

(* No key is read twice, because ev_press is cleared after the copy and     *)
(* only the one application inside reads.                                   *)
THEOREM KeysAreReadOnce == Spec => []KeyReadOnce
<1>1. ButtonsInv => KeyReadOnce
  BY DEF ButtonsInv, ReadInv
<1>. QED
  BY <1>1, ButtonsInvariant, PTL

-----------------------------------------------------------------------------
(* The I2C adapter.  The inductive invariant BusInv ties the handler's      *)
(* position in the messages to what the controller clocks out next          *)
(* (Position), and that to the wire (Continues).                            *)

Events ==
  [op : {"S", "W", "R", "P"}, msg : Nat, ptr : Int, ack : BOOLEAN]

(* Where the handler is in the messages.                                    *)
Position ==
  /\ bus = "idle" <=> state \in {"IDLE", "STOP"}
  /\ bus = "address" <=> state = "START"
  /\ bus = "write" <=> state = "WRITE"
  /\ bus = "read" <=> state = "READ"
  /\ bus # "idle" => cur_msg < Len(msgs)
  /\ state = "START" => cur_ptr = 0
  /\ state = "WRITE" => ~msg.rd /\ cur_ptr \in 1 .. msg.len
  /\ state = "READ" => /\ msg.rd
                       /\ cur_ptr < msg.len
                       /\ ack_next = (cur_ptr + 1 < msg.len)

FirstEvents == {Event("S", 0, -1, ack) : ack \in BOOLEAN}

(* A sequence of events that obeys the protocol of the bus.                 *)
Legal(s) ==
  /\ s \in Seq(Events)
  /\ s # <<>> => s[1] \in FirstEvents
  /\ \A k \in 1 .. Len(s) - 1 :
       s[k].op # "P" /\ s[k + 1] \in FollowsOnWire(s[k])

(* e may come after s.                                                      *)
Continues(e, s) ==
  IF s = <<>> THEN e \in FirstEvents
  ELSE s[Len(s)].op # "P" /\ e \in FollowsOnWire(s[Len(s)])

BusInv ==
  /\ BusTypeOK
  /\ Position
  /\ Legal(wire)
  /\ bus # "idle" => \A ack \in BOOLEAN : Continues(ClockedOut(ack), wire)
  /\ ResultMatchesWire

(* The first byte of the current message that is not transferred yet.       *)
NextPtr == IF state = "READ" THEN cur_ptr + 1 ELSE cur_ptr

-----------------------------------------------------------------------------
(* A legal wire stays one when what continues it is appended.               *)
LEMMA AppendIsLegal ==
  ASSUME NEW s, Legal(s), NEW e \in Events, Continues(e, s)
  PROVE  /\ Legal(Append(s, e))
         /\ Len(Append(s, e)) = Len(s) + 1
         /\ Append(s, e)[Len(s) + 1] = e
         /\ s # <<>> => Append(s, e)[Len(s)] = s[Len(s)]
         /\ Append(s, e) # <<>>
<1>. DEFINE w == Append(s, e)
<1>0. s \in Seq(Events)
  BY DEF Legal
<1>1. /\ w \in Seq(Events) /\ Len(w) = Len(s) + 1 /\ w[Len(s) + 1] = e
      /\ \A k \in 1 .. Len(s) : w[k] = s[k]
      /\ Len(s) \in Nat
      /\ w # <<>>
  BY <1>0
<1>2. CASE s = <<>>
  <2>1. Len(s) = 0
    BY <1>2
  <2>2. w[1] \in FirstEvents
    BY <1>1, <1>2, <2>1 DEF Continues
  <2>. HIDE DEF w
  <2>3. Legal(w)
    BY <1>1, <2>1, <2>2 DEF Legal
  <2>. QED
    BY <1>1, <1>2, <2>3 DEF w
<1>3. CASE s # <<>>
  <2>. HIDE DEF w
  <2>1. Len(s) > 0
    BY <1>0, <1>3
  <2>2. w[1] \in FirstEvents
    BY <1>1, <1>3, <2>1 DEF Legal
  <2>3. ASSUME NEW k \in 1 .. Len(w) - 1
        PROVE  w[k].op # "P" /\ w[k + 1] \in FollowsOnWire(w[k])
    <3>1. CASE k < Len(s)
      BY <3>1, <1>1, <2>1 DEF Legal
    <3>2. CASE k = Len(s)
      BY <3>2, <1>1, <1>3, <2>1 DEF Continues
    <3>. QED
      BY <1>1, <2>1, <3>1, <3>2
  <2>4. Legal(w)
    BY <1>1, <2>2, <2>3 DEF Legal
  <2>. QED
    BY <1>1, <1>3, <2>1, <2>4 DEF w
<1>. QED
  BY <1>2, <1>3

(* The first byte, address or data, that an interrupt finds clocked out.    *)
LEMMA Clocks ==
  ASSUME BusInv, bus # "idle", NEW ack \in BOOLEAN,
         NEW e, e = ClockedOut(ack)
  PROVE  /\ e \in Events
         /\ e.op \in {"S", "W", "R"}
         /\ e.op = "R" <=> state = "READ"
         /\ e.msg = cur_msg
         /\ e.ptr + 1 = NextPtr
         /\ state # "READ" => e.ack = ack
         /\ NextPtr \in Nat
         /\ cur_msg \in Nat /\ cur_msg < Len(msgs) /\ Len(msgs) \in Nat
         /\ msg \in Messages
         /\ Legal(Append(wire, e))
         /\ Append(wire, e) # <<>>
         /\ Len(Append(wire, e)) \in Nat
         /\ Len(Append(wire, e)) > 0
         /\ Append(wire, e)[Len(Append(wire, e))] = e
<1>1. /\ state \in {"START", "READ", "WRITE"}
      /\ cur_msg \in Nat /\ cur_msg < Len(msgs) /\ Len(msgs) \in Nat
      /\ cur_ptr \in Nat /\ ack_next \in BOOLEAN
      /\ msgs \in Seq(Messages)
  BY DEF BusInv, BusTypeOK, Position, States
<1>2. msg \in Messages
  BY <1>1 DEF msg
<1>3. /\ e \in Events
      /\ e.op \in {"S", "W", "R"}
      /\ e.op = "R" <=> state = "READ"
      /\ e.msg = cur_msg
      /\ e.ptr + 1 = NextPtr
      /\ state # "READ" => e.ack = ack
      /\ NextPtr \in Nat
  BY <1>1 DEF BusInv, Position, ClockedOut, Event, Events, NextPtr
<1>4. Legal(wire) /\ Continues(e, wire) /\ Len(wire) \in Nat
  <2>1. Continues(ClockedOut(ack), wire)
    BY DEF BusInv
  <2>2. Continues(e, wire)
    BY ONLY <2>1, e = ClockedOut(ack)
  <2>3. Legal(wire)
    BY DEF BusInv
  <2>4. Len(wire) \in Nat
    BY <2>3 DEF Legal
  <2>. QED
    BY <2>2, <2>3, <2>4
<1>5. /\ Legal(Append(wire, e))
      /\ Len(Append(wire, e)) = Len(wire) + 1
      /\ Append(wire, e)[Len(wire) + 1] = e
      /\ Append(wire, e) # <<>>
  BY <1>3, <1>4, AppendIsLegal
<1>. QED
  BY <1>1, <1>2, <1>3, <1>4, <1>5

(* A wire of the same messages is as legal after a step as before it.       *)
LEMMA LegalAfter ==
  ASSUME UNCHANGED msgs, Legal(wire')
  PROVE  Legal(wire)'
<1>1. ASSUME NEW e PROVE FollowsOnWire(e)' = FollowsOnWire(e)
  BY DEF FollowsOnWire
<1>. QED
  BY <1>1 DEF Legal, FollowsOnWire

-----------------------------------------------------------------------------
(* The adapter starts in the invariant.                                    *)
LEMMA InitBusInv == BusInit => BusInv
<1>. SUFFICES ASSUME BusInit PROVE BusInv
  OBVIOUS
<1>1. msgs \in Seq(Messages) /\ wire \in Seq(Events) /\ Len(wire) = 0
  BY DEF BusInit
<1>2. BusTypeOK
  BY <1>1 DEF BusInit, BusTypeOK, States, Results
<1>3. Position
  BY DEF BusInit, Position
<1>4. Legal(wire)
  BY <1>1 DEF BusInit, Legal
<1>5. ResultMatchesWire
  BY DEF BusInit, ResultMatchesWire
<1>. QED
  BY <1>2, <1>3, <1>4, <1>5 DEF BusInv, BusInit

(* A transfer starts with an empty wire and its first address.             *)
LEMMA MasterXferBusInv ==
  ASSUME BusInv, NEW transfer \in Transfers, master_xfer(transfer)
  PROVE  BusInv'
<1>1. /\ transfer \in Seq(Messages) /\ transfer # <<>>
      /\ Len(transfer) > 0
  BY TransfersAssumption
<1>2. BusTypeOK'
  BY <1>1 DEF BusInv, BusTypeOK, master_xfer, i2c_start, States
<1>3. Position'
  BY <1>1 DEF Position, master_xfer, i2c_start
<1>4. Legal(wire)'
  <2>1. wire' \in Seq(Events) /\ Len(wire') = 0 /\ wire' = <<>>
    BY DEF master_xfer
  <2>. QED
    BY <2>1 DEF Legal
<1>5. \A ack \in BOOLEAN : Continues(ClockedOut(ack), wire)'
  BY DEF master_xfer, i2c_start, Continues, ClockedOut, FirstEvents
<1>6. ResultMatchesWire'
  BY DEF master_xfer, i2c_start, ResultMatchesWire
<1>. QED
  BY <1>2, <1>3, <1>4, <1>5, <1>6 DEF BusInv

(* The stop follows a refusal or the end of the last message.               *)
LEMMA StopBusInv ==
  ASSUME BusInv, bus # "idle", NEW ack \in BOOLEAN, NEW error,
         i2c_stop(error, Append(wire, ClockedOut(ack))),
         UNCHANGED <<msgs, caller, result, stalled>>,
         \/ state # "READ" /\ ~ack /\ error = "ENODEV"
         \/ /\ state # "READ" => ack
            /\ isLastMsg /\ NextPtr >= msg.len
            /\ error = "0"
  PROVE  BusInv'
<1>. DEFINE e == ClockedOut(ack)
            w == Append(wire, e)
<1>1. /\ e \in Events
      /\ e.op \in {"S", "W", "R"}
      /\ e.op = "R" <=> state = "READ"
      /\ e.msg = cur_msg
      /\ e.ptr + 1 = NextPtr
      /\ state # "READ" => e.ack = ack
      /\ NextPtr \in Nat
      /\ cur_msg \in Nat /\ cur_msg < Len(msgs) /\ Len(msgs) \in Nat
      /\ msg \in Messages
      /\ Legal(w) /\ w # <<>> /\ Len(w) \in Nat /\ Len(w) > 0
      /\ w[Len(w)] = e
  BY Clocks
<1>. HIDE DEF e
<1>2. P \in Events
  BY DEF P, Event, Events
<1>3. P \in FollowsOnWire(e)
  <2>1. CASE state # "READ" /\ ~ack
    BY <2>1, <1>1 DEF FollowsOnWire
  <2>2. CASE (state # "READ" => ack) /\ isLastMsg /\ NextPtr >= msg.len
    <3>1. msgs[e.msg + 1] = msg /\ msg.len \in Nat
      BY <1>1 DEF msg, Messages
    <3>2. /\ ~(e.op # "R" /\ ~e.ack)
          /\ ~(e.ptr + 1 < msg.len)
          /\ ~(e.msg + 1 < Len(msgs))
      BY <2>2, <1>1, <3>1 DEF isLastMsg
    <3>. QED
      BY <3>1, <3>2 DEF FollowsOnWire
  <2>. QED
    BY <2>1, <2>2
<1>. HIDE DEF w
<1>4. Continues(P, w)
  BY <1>1, <1>3 DEF Continues
<1>5. /\ wire' = Append(w, P) /\ state' = "STOP" /\ bus' = "idle"
      /\ err' = error /\ ack_next' = TRUE
      /\ UNCHANGED <<cur_msg, cur_ptr>>
  BY DEF i2c_stop, w, e
<1>6. /\ Legal(wire') /\ Len(wire') = Len(w) + 1
      /\ wire'[Len(w) + 1] = P /\ wire'[Len(w)] = e
  BY <1>1, <1>2, <1>4, <1>5, AppendIsLegal
<1>7. BusTypeOK'
  BY <1>5 DEF BusInv, BusTypeOK, States
<1>8. Position'
  BY <1>5 DEF Position
<1>9. ResultMatchesWire'
  <2>1. (error = "ENODEV") <=> (e.op # "R" /\ ~e.ack)
    BY <1>1
  <2>2. Len(wire') > 1 /\ wire'[Len(wire')] = P /\ wire'[Len(wire') - 1] = e
    BY <1>1, <1>6
  <2>. QED
    BY <1>5, <2>1, <2>2 DEF ResultMatchesWire, P
<1>. QED
  BY <1>5, <1>6, <1>7, <1>8, <1>9, LegalAfter DEF BusInv

(* What is common to the steps after which the controller goes on.          *)
LEMMA GoesOn ==
  ASSUME BusInv, bus # "idle", NEW ack \in BOOLEAN,
         wire' = Append(wire, ClockedOut(ack)),
         UNCHANGED <<msgs, caller, result, stalled>>,
         state' \in {"START", "READ", "WRITE"},
         BusTypeOK', Position',
         \A a \in BOOLEAN :
           ClockedOut(a)' \in FollowsOnWire(ClockedOut(ack))
  PROVE  BusInv'
<1>. DEFINE e == ClockedOut(ack)
<1>1. /\ e.op \in {"S", "W", "R"}
      /\ Legal(wire') /\ wire' # <<>> /\ wire'[Len(wire')] = e
  BY Clocks
<1>. HIDE DEF e
<1>2. \A a \in BOOLEAN : Continues(ClockedOut(a), wire)'
  BY <1>1 DEF Continues, FollowsOnWire, e
<1>3. ResultMatchesWire'
  BY DEF ResultMatchesWire
<1>. QED
  BY <1>1, <1>2, <1>3, LegalAfter DEF BusInv

(* A repeated start puts the next message's address after the last byte of *)
(* this one.                                                               *)
LEMMA NextMsgBusInv ==
  ASSUME BusInv, bus # "idle", NEW ack \in BOOLEAN,
         next_msg(Append(wire, ClockedOut(ack))),
         UNCHANGED <<msgs, caller, result, stalled>>,
         state # "READ" => ack,
         ~isLastMsg, NextPtr >= msg.len
  PROVE  BusInv'
<1>. DEFINE e == ClockedOut(ack)
<1>1. /\ e.op = "R" <=> state = "READ"
      /\ e.msg = cur_msg
      /\ e.ptr + 1 = NextPtr
      /\ state # "READ" => e.ack = ack
      /\ NextPtr \in Nat
      /\ cur_msg \in Nat /\ cur_msg < Len(msgs) /\ Len(msgs) \in Nat
      /\ msg \in Messages
  BY Clocks
<1>2. /\ cur_msg' = cur_msg + 1 /\ cur_ptr' = 0
      /\ state' = "START" /\ bus' = "address"
      /\ wire' = Append(wire, e)
      /\ UNCHANGED <<err, ack_next>>
  BY DEF next_msg, i2c_start
<1>. HIDE DEF e
<1>3. BusTypeOK'
  BY <1>1, <1>2 DEF BusInv, BusTypeOK, States
<1>4. Position'
  BY <1>1, <1>2 DEF Position, isLastMsg
<1>5. \A a \in BOOLEAN : ClockedOut(a)' \in FollowsOnWire(e)
  <2>1. msgs[e.msg + 1] = msg /\ msg.len \in Nat
    BY <1>1 DEF msg, Messages
  <2>2. /\ ~(e.op # "R" /\ ~e.ack)
        /\ ~(e.ptr + 1 < msg.len)
        /\ e.msg + 1 < Len(msgs)
    BY <1>1, <2>1 DEF isLastMsg
  <2>3. \A a \in BOOLEAN : ClockedOut(a)' = Event("S", e.msg + 1, -1, a)
    BY <1>1, <1>2 DEF ClockedOut, Event
  <2>. QED
    BY <2>1, <2>2, <2>3 DEF FollowsOnWire
<1>. QED
  BY <1>2, <1>3, <1>4, <1>5, GoesOn DEF e

(* The next byte is sent.                                                   *)
LEMMA NextWriteBusInv ==
  ASSUME BusInv, bus # "idle", state \in {"START", "WRITE"}, ~msg.rd,
         ~isEndData(cur_ptr),
         write_step(TRUE, Append(wire, ClockedOut(TRUE))),
         UNCHANGED <<msgs, caller, result, stalled>>
  PROVE  BusInv'
<1>. DEFINE e == ClockedOut(TRUE)
<1>1. /\ e.op = "R" <=> state = "READ"
      /\ e.msg = cur_msg
      /\ e.ptr + 1 = NextPtr
      /\ state # "READ" => e.ack = TRUE
      /\ cur_msg \in Nat /\ cur_msg < Len(msgs) /\ Len(msgs) \in Nat
      /\ msg \in Messages
  BY Clocks
<1>2. /\ state' = "WRITE" /\ cur_ptr' = cur_ptr + 1
      /\ ack_next' = TRUE /\ bus' = "write"
      /\ wire' = Append(wire, e)
      /\ UNCHANGED <<cur_msg, err>>
  BY DEF write_step
<1>. HIDE DEF e
<1>3. cur_ptr \in Nat /\ msg.len \in Nat /\ cur_ptr < msg.len /\ msg' = msg
  BY <1>1, <1>2 DEF BusInv, BusTypeOK, Messages, isEndData, msg
<1>4. BusTypeOK'
  BY <1>2, <1>3 DEF BusInv, BusTypeOK, States
<1>5. Position'
  BY <1>1, <1>2, <1>3 DEF Position
<1>6. \A a \in BOOLEAN : ClockedOut(a)' \in FollowsOnWire(e)
  <2>1. msgs[e.msg + 1] = msg
    BY <1>1 DEF msg
  <2>2. e.ptr + 1 = cur_ptr
    BY <1>1 DEF NextPtr
  <2>3. \A a \in BOOLEAN : ClockedOut(a)' = Event("W", e.msg, e.ptr + 1, a)
    BY <1>1, <1>2, <1>3, <2>2 DEF ClockedOut, Event
  <2>. QED
    BY <1>1, <1>3, <2>1, <2>2, <2>3 DEF FollowsOnWire
<1>. QED
  BY <1>2, <1>4, <1>5, <1>6, GoesOn DEF e

(* One byte more is received.                                               *)
LEMMA NextReadBusInv ==
  ASSUME BusInv, bus # "idle", NEW ack \in BOOLEAN,
         state \in {"START", "READ"}, msg.rd, state # "READ" => ack,
         ~isEndData(NextPtr),
         next_read(NextPtr, Append(wire, ClockedOut(ack))),
         UNCHANGED <<msgs, caller, result, stalled>>
  PROVE  BusInv'
<1>. DEFINE e == ClockedOut(ack)
<1>1. /\ e \in Events
      /\ e.op = "R" <=> state = "READ"
      /\ e.msg = cur_msg
      /\ e.ptr + 1 = NextPtr
      /\ state # "READ" => e.ack = ack
      /\ NextPtr \in Nat
      /\ cur_msg \in Nat /\ cur_msg < Len(msgs) /\ Len(msgs) \in Nat
      /\ msg \in Messages
  BY Clocks
<1>2. /\ state' = "READ" /\ cur_ptr' = NextPtr
      /\ ack_next' = (NextPtr # msg.len - 1) /\ bus' = "read"
      /\ wire' = Append(wire, e)
      /\ UNCHANGED <<cur_msg, err>>
  BY DEF next_read, isLastData
<1>. HIDE DEF e
<1>3. msg.len \in Nat /\ NextPtr < msg.len /\ msg' = msg
  BY <1>1, <1>2 DEF Messages, isEndData, msg
<1>4. ack_next' = (NextPtr + 1 < msg.len)
  BY <1>1, <1>2, <1>3
<1>5. BusTypeOK'
  BY <1>1, <1>2, <1>4 DEF BusInv, BusTypeOK, States
<1>6. Position'
  BY <1>1, <1>2, <1>3, <1>4 DEF Position
<1>7. \A a \in BOOLEAN : ClockedOut(a)' \in FollowsOnWire(e)
  <2>1. msgs[e.msg + 1] = msg
    BY <1>1 DEF msg
  <2>2. \A a \in BOOLEAN : ClockedOut(a)' =
                           Event("R", e.msg, e.ptr + 1, e.ptr + 2 < msg.len)
    <3>1. e.ptr \in Int
      BY <1>1 DEF Events
    <3>2. e.ptr + 2 = NextPtr + 1
      BY <1>1, <3>1
    <3>. QED
      BY <1>1, <1>2, <1>4, <3>2 DEF ClockedOut, Event
  <2>. QED
    BY <1>1, <1>3, <2>1, <2>2 DEF FollowsOnWire
<1>. QED
  BY <1>2, <1>5, <1>6, <1>7, GoesOn DEF e

-----------------------------------------------------------------------------
(* The end of a message, from any of the three states.                      *)
LEMMA MsgDoneBusInv ==
  ASSUME BusInv, bus # "idle", NEW ack \in BOOLEAN,
         msg_done(Append(wire, ClockedOut(ack))),
         UNCHANGED <<msgs, caller, result, stalled>>,
         state # "READ" => ack, isEndData(NextPtr)
  PROVE  BusInv'
<1>1. CASE isLastMsg
  BY <1>1, StopBusInv DEF msg_done, isEndData
<1>2. CASE ~isLastMsg
  BY <1>2, NextMsgBusInv DEF msg_done, isEndData
<1>. QED
  BY <1>1, <1>2

(* The write case of the handler preserves the invariant, also when it is  *)
(* entered from the start case.                                            *)
LEMMA WriteStepBusInv ==
  ASSUME BusInv, bus # "idle", NEW ack \in BOOLEAN,
         state \in {"START", "WRITE"}, ~msg.rd,
         write_step(ack, Append(wire, ClockedOut(ack))),
         UNCHANGED <<msgs, caller, result, stalled>>
  PROVE  BusInv'
<1>1. NextPtr = cur_ptr
  BY DEF NextPtr
<1>2. CASE ~ack
  BY <1>2, StopBusInv DEF write_step
<1>3. CASE ack /\ isEndData(cur_ptr)
  BY <1>1, <1>3, MsgDoneBusInv DEF write_step
<1>4. CASE ack /\ ~isEndData(cur_ptr)
  <2>1. ack = TRUE
    BY <1>4
  <2>. QED
    BY <1>4, <2>1, NextWriteBusInv
<1>. QED
  BY <1>2, <1>3, <1>4

(* The read case of the handler preserves the invariant.                   *)
LEMMA NextReadStepBusInv ==
  ASSUME BusInv, bus # "idle", NEW ack \in BOOLEAN,
         state \in {"START", "READ"}, msg.rd, state # "READ" => ack,
         next_read(NextPtr, Append(wire, ClockedOut(ack))),
         UNCHANGED <<msgs, caller, result, stalled>>
  PROVE  BusInv'
<1>1. CASE isEndData(NextPtr)
  BY <1>1, MsgDoneBusInv DEF next_read
<1>2. CASE ~isEndData(NextPtr)
  BY <1>2, NextReadBusInv
<1>. QED
  BY <1>1, <1>2

(* The interrupt handler preserves the invariant in each of its states.    *)
LEMMA IrqBusInv ==
  ASSUME BusInv, NEW ack \in BOOLEAN, xfer_irq(ack)
  PROVE  BusInv'
<1>. DEFINE w == Append(wire, ClockedOut(ack))
<1>1. bus # "idle" /\ UNCHANGED <<msgs, caller, result, stalled>>
  BY DEF xfer_irq
<1>2. CASE state = "START" /\ start_step(ack, w)
  <2>1. NextPtr = cur_ptr
    BY <1>2 DEF NextPtr
  <2>2. CASE ~ack
    BY <1>1, <1>2, <2>2, StopBusInv DEF start_step, write_step
  <2>3. CASE ack /\ isLastMsg /\ isEndData(cur_ptr)
    <3>1. i2c_stop("0", w)
      BY <1>2, <2>3 DEF start_step
    <3>. QED
      BY <1>1, <2>1, <2>3, <3>1, StopBusInv DEF isEndData
  <2>4. CASE ack /\ ~(isLastMsg /\ isEndData(cur_ptr)) /\ msg.rd
    <3>1. next_read(NextPtr, w)
      BY <1>2, <2>1, <2>4 DEF start_step
    <3>. QED
      BY <1>1, <1>2, <2>4, <3>1, NextReadStepBusInv
  <2>5. CASE ack /\ ~(isLastMsg /\ isEndData(cur_ptr)) /\ ~msg.rd
    <3>1. write_step(ack, w)
      BY <1>2, <2>5 DEF start_step
    <3>. QED
      BY <1>1, <1>2, <2>5, <3>1, WriteStepBusInv
  <2>. QED
    BY <2>2, <2>3, <2>4, <2>5
<1>3. CASE state = "WRITE" /\ write_step(ack, w)
  <2>1. ~msg.rd
    BY <1>3 DEF BusInv, Position
  <2>. QED
    BY <1>1, <1>3, <2>1, WriteStepBusInv
<1>4. CASE state = "READ" /\ next_read(cur_ptr + 1, w)
  <2>1. msg.rd /\ NextPtr = cur_ptr + 1
    BY <1>4 DEF BusInv, Position, NextPtr
  <2>. QED
    BY <1>1, <1>4, <2>1, NextReadStepBusInv
<1>. QED
  BY <1>2, <1>3, <1>4 DEF xfer_irq

(* The steps that leave the handler and the wire alone.                     *)
LEMMA QuietBusInv ==
  ASSUME BusInv,
         UNCHANGED <<msgs, cur_msg, cur_ptr, state, err, bus, ack_next, wire>>,
         caller' \in {"out", "waiting"}, result' \in Results,
         stalled' \in BOOLEAN
  PROVE  BusInv'
<1>1. BusTypeOK'
  BY DEF BusInv, BusTypeOK
<1>2. Position'
  BY DEF BusInv, Position, msg
<1>3. Legal(wire)'
  BY LegalAfter DEF BusInv
<1>4. bus' # "idle" =>
        \A ack \in BOOLEAN : Continues(ClockedOut(ack), wire)'
  BY DEF BusInv, Continues, ClockedOut, FollowsOnWire, FirstEvents
<1>5. ResultMatchesWire'
  BY DEF BusInv, ResultMatchesWire
<1>. QED
  BY <1>1, <1>2, <1>3, <1>4, <1>5 DEF BusInv

(* Every step preserves the invariant.                                     *)
LEMMA NextBusInv ==
  ASSUME BusInv, [BusNext]_busVars
  PROVE  BusInv'
<1>1. ASSUME NEW transfer \in Transfers, master_xfer(transfer)
      PROVE  BusInv'
  BY <1>1, MasterXferBusInv
<1>2. ASSUME NEW ack \in BOOLEAN, xfer_irq(ack)
      PROVE  BusInv'
  BY <1>2, IrqBusInv
<1>. USE DEF BusInv, BusTypeOK
<1>3. CASE Stall
  BY <1>3, QuietBusInv DEF Stall
<1>4. CASE XferReturns
  BY <1>4, QuietBusInv DEF XferReturns, Results
<1>5. CASE XferTimesOut
  BY <1>5, QuietBusInv DEF XferTimesOut, Results
<1>6. CASE UNCHANGED busVars
  BY <1>6, QuietBusInv DEF busVars
<1>. QED
  BY <1>1, <1>2, <1>3, <1>4, <1>5, <1>6 DEF BusNext

-----------------------------------------------------------------------------
(* The handler's position always fits the messages and the wire, whatever   *)
(* the devices answer and whenever they hold the clock.                     *)
THEOREM BusInvariant == BusSpec => []BusInv
BY InitBusInv, NextBusInv, PTL DEF BusSpec

(* Every variable of the adapter keeps its type: the pointer never becomes  *)
(* negative and the controller is never left in an unnamed mode.            *)
THEOREM BusTypeCorrect == BusSpec => []BusTypeOK
<1>1. BusInv => BusTypeOK
  BY DEF BusInv
<1>. QED
  BY <1>1, BusInvariant, PTL

(* The handler reads and writes only bytes of the current message           *)
(* (buf[cur_ptr] in STATE_READ and STATE_WRITE).                            *)
THEOREM BuffersRespected == BusSpec => []BufferInBounds
<1>1. BusInv => BufferInBounds
  BY DEF BusInv, Position, BufferInBounds
<1>. QED
  BY <1>1, BusInvariant, PTL

(* What goes over the bus is the transfer that was asked for: for any       *)
(* number of messages, each with its address, all its bytes in order and    *)
(* the last one that is read not acknowledged.                              *)
THEOREM WireIsTheTransfer == BusSpec => []WireFollowsProtocol
<1>1. BusInv => WireFollowsProtocol
  BY DEF BusInv, Legal, WireFollowsProtocol, FirstEvents
<1>. QED
  BY <1>1, BusInvariant, PTL

(* The error that the caller is given is the one the wire shows, after the  *)
(* stop.                                                                    *)
THEOREM ResultIsTrue == BusSpec => []ResultMatchesWire
<1>1. BusInv => ResultMatchesWire
  BY DEF BusInv
<1>. QED
  BY <1>1, BusInvariant, PTL

-----------------------------------------------------------------------------
(* The touch screen.  What is to be shown is inductive as it stands. *)
TouchInv == NeverDeaf /\ RestsEmpty

LEMMA TouchStarts == TouchInit => TouchInv
  BY DEF TouchInit, TouchInv, NeverDeaf, RestsEmpty

LEMMA TouchStep == TouchInv /\ [TouchNext]_touchVars => TouchInv'
<1> SUFFICES ASSUME TouchInv, [TouchNext]_touchVars PROVE TouchInv'
  OBVIOUS
<1>1. CASE s3c_ts_init
  BY <1>1 DEF TouchInv, NeverDeaf, RestsEmpty, s3c_ts_init
<1>2. CASE InitReturns
  BY <1>2 DEF TouchInv, NeverDeaf, RestsEmpty, InitReturns
<1>3. CASE s3c_ts_exit
  BY <1>3 DEF TouchInv, NeverDeaf, RestsEmpty, s3c_ts_exit
<1>4. CASE Pen
  BY <1>4 DEF TouchInv, NeverDeaf, RestsEmpty, Pen
<1>5. CASE s3c_ts_timer_function
  BY <1>5 DEF TouchInv, NeverDeaf, RestsEmpty, s3c_ts_timer_function, MeasureOrRelease, Measure
<1>6. CASE pen_down_up_irq
  BY <1>6 DEF TouchInv, NeverDeaf, RestsEmpty, pen_down_up_irq, MeasureOrRelease, Measure
<1>7. CASE adc_irq
  <2>1. CASE Released
    BY <1>7, <2>1 DEF TouchInv, NeverDeaf, RestsEmpty, Released, adc_irq
  <2>2. CASE \E s: Fourth(s)
    BY <1>7, <2>2 DEF TouchInv, NeverDeaf, RestsEmpty, Fourth, adc_irq
  <2>3. CASE Measure
    BY <1>7, <2>3 DEF TouchInv, NeverDeaf, RestsEmpty, Measure, adc_irq
  <2>4. Released \/ (\E s: Fourth(s)) \/ Measure
    BY <1>7 DEF adc_irq
  <2> QED
    BY <2>1, <2>2, <2>3, <2>4
<1>8. CASE UNCHANGED touchVars
  BY <1>8 DEF TouchInv, NeverDeaf, RestsEmpty, touchVars
<1> QED
  BY <1>1, <1>2, <1>3, <1>4, <1>5, <1>6, <1>7, <1>8 DEF TouchNext

(* However the interrupts of pen and conversion and the timer interleave,
   with each other and with the loading of the module, the driver always
   has something that will call it again, and has no samples stored unless
   a conversion runs.  A touch that begins while the last conversion of the
   one before still runs goes on with its samples. *)
THEOREM TouchIsReady == TouchSpec => []ReadyForTouch
<1>1. TouchInv => ReadyForTouch
  BY DEF TouchInv, ReadyForTouch
<1> QED
  BY TouchStarts, TouchStep, <1>1, PTL DEF TouchSpec

-----------------------------------------------------------------------------
(* The touch panel.  What the work function holds while it is about to
   report is as good as what it has reported. *)
Shows(s) ==
    /\ Len(s) = Len(panel)
    /\ \A i \in DOMAIN panel: s[i].id = panel[i].id /\ (i > 1 => s[i].lo = panel[i].lo)

Quiet == bound = "in" /\ ~ edge /\ ~ mtp_work

PanelInv ==
    /\ panel \in Frames
    /\ Quiet /\ work = "idle" /\ ~ stale => Shows(reported)
    /\ Quiet /\ work = "reporting" => Shows(mtp_events)
    /\ WorkEndsBeforeDevice

LEMMA FrameIsSequence ==
  ASSUME NEW f \in Frames
  PROVE  f \in Seq(Contact) /\ Len(f) \in Nat /\ DOMAIN f = 1..Len(f)
  BY PanelAssumption DEF Frames

LEMMA NoContacts == <<>> \in Frames
<1>1. <<>> \in [1..0 -> Contact]
  OBVIOUS
<1> QED
  BY <1>1, PanelAssumption DEF Frames

(* Reading changes the low byte of the first contact and nothing else. *)
LEMMA ParsedShows ==
  ASSUME NEW last \in {0, 1}, panel \in Frames
  PROVE  Shows(Parsed(panel, last))
<1>1. CASE panel = <<>>
  BY <1>1 DEF Parsed, Shows
<1>2. CASE panel # <<>>
  <2> DEFINE lo == IF Len(panel) = Slots THEN panel[Slots].lo ELSE last
             p  == [panel EXCEPT ![1].lo = lo]
  <2>1. Parsed(panel, last) = p
    BY <1>2 DEF Parsed
  <2>2. panel \in Seq(Contact) /\ Len(panel) \in Nat /\ DOMAIN panel = 1..Len(panel)
    BY FrameIsSequence
  <2>3. DOMAIN p = DOMAIN panel /\ Len(p) = Len(panel)
    BY <2>2
  <2>4. ASSUME NEW i \in DOMAIN panel PROVE p[i].id = panel[i].id /\ (i > 1 => p[i] = panel[i])
    BY <2>2 DEF Contact
  <2> QED
    BY <2>1, <2>3, <2>4 DEF Shows
<1> QED
  BY <1>1, <1>2

LEMMA PanelStarts == PanelInit => PanelInv
  BY NoContacts DEF PanelInit, PanelInv, Quiet, WorkEndsBeforeDevice

LEMMA PanelStep == PanelInv /\ [PanelNext]_mtpVars => PanelInv'
<1> SUFFICES ASSUME PanelInv, [PanelNext]_mtpVars PROVE PanelInv'
  OBVIOUS
<1> USE DEF PanelInv, Quiet, WorkEndsBeforeDevice
<1>1. CASE mtp_probe
  <2>1. panel' = panel /\ reported' = <<>> /\ stale' = (panel # <<>>) /\ work = "idle" /\ work' = work
    BY <1>1 DEF mtp_probe
  <2>2. panel = <<>> => Shows(reported)'
    BY <2>1 DEF Shows
  <2> QED
    BY <1>1, <2>1, <2>2 DEF mtp_probe
<1>2. CASE Touch
  BY <1>2 DEF Touch
<1>3. CASE mtp_interrupt
  BY <1>3 DEF mtp_interrupt
<1>4. CASE WorkStarts
  BY <1>4 DEF WorkStarts
<1>5. CASE ReadData
  <2>1. CASE work' = "idle" /\ stale'
    BY <1>5, <2>1 DEF ReadData
  <2>2. CASE \E last \in {0, 1}: mtp_events' = Parsed(panel, last) /\ work' = "reporting"
    <3>1. PICK last \in {0, 1}: mtp_events' = Parsed(panel, last) /\ work' = "reporting"
      BY <2>2
    <3>2. Shows(mtp_events)'
      BY <1>5, <3>1, ParsedShows DEF ReadData, Shows
    <3> QED
      BY <1>5, <3>1, <3>2 DEF ReadData
  <2> QED
    BY <1>5, <2>1, <2>2 DEF ReadData
<1>6. CASE ReportContacts
  <2>1. Shows(mtp_events) => Shows(reported)'
    BY <1>6 DEF ReportContacts, Shows
  <2> QED
    BY <1>6, <2>1 DEF ReportContacts
<1>7. CASE FreeIrqLine
  BY <1>7 DEF FreeIrqLine
<1>8. CASE CancelWork
  BY <1>8 DEF CancelWork
<1>9. CASE FreeDevice
  BY <1>9 DEF FreeDevice
<1>10. CASE UNCHANGED mtpVars
  BY <1>10 DEF mtpVars, Shows
<1> QED
  BY <1>1, <1>2, <1>3, <1>4, <1>5, <1>6, <1>7, <1>8, <1>9, <1>10 DEF PanelNext

(* No edge is lost to a work item that already runs: for every number of
   contacts and every order of edges, work and removal, a driver with
   nothing left to do has reported what is on the panel. *)
THEOREM QuietPanelIsShown == PanelSpec => []QuietShowsPanel
<1>1. PanelInv => QuietShowsPanel
  BY DEF PanelInv, Quiet, QuietShowsPanel, Shows
<1> QED
  BY PanelStarts, PanelStep, <1>1, PTL DEF PanelSpec

-----------------------------------------------------------------------------
(* The DMA copy.  The loading holds what its completed steps have taken, and a
   process is in ioctl only while the module is in. *)
DmaInv ==
    /\ at \in [Callers -> {"user", "programming", "waiting"}]
    /\ SleeperWillBeWoken
    /\ HeldWhileNeeded
    /\ driver = "src" => held = {"irq"}
    /\ driver = "dst" => held = {"irq", "src"}
    /\ driver = "in" => {"irq", "src", "dst"} \subseteq held
    /\ driver # "in" => \A p \in Callers: at[p] = "user"

LEMMA DmaStarts == DmaInit => DmaInv
  BY DEF DmaInit, DmaInv, SleeperWillBeWoken, HeldWhileNeeded

LEMMA LoadStep ==
  ASSUME DmaInv, request_irq \/ AllocSrc \/ AllocDst
  PROVE  DmaInv'
<1>1. SleeperWillBeWoken' /\ at' = at
  BY DEF DmaInv, request_irq, AllocSrc, AllocDst, dmaRuntime, SleeperWillBeWoken
<1>2. CASE request_irq
  BY <1>1, <1>2 DEF DmaInv, request_irq, HeldWhileNeeded
<1>3. CASE AllocSrc
  BY <1>1, <1>3 DEF DmaInv, AllocSrc, HeldWhileNeeded
<1>4. CASE AllocDst
  BY <1>1, <1>4 DEF DmaInv, AllocDst, HeldWhileNeeded
<1> QED
  BY <1>2, <1>3, <1>4

LEMMA IoctlStep ==
  ASSUME DmaInv, NEW p \in Callers, s3c_dma_ioctl(p) \/ SignalDma(p)
  PROVE  DmaInv'
<1> USE DEF DmaInv
<1>1. driver' = driver /\ held' = held /\ driver = "in"
  BY DEF s3c_dma_ioctl, SignalDma, IoctlStarts, DiesUnmapped, StartChannel, IoctlReturns
<1>2. CASE IoctlStarts(p)
  BY <1>1, <1>2 DEF IoctlStarts, SleeperWillBeWoken, HeldWhileNeeded
<1>3. CASE StartChannel(p)
  BY <1>1, <1>3 DEF StartChannel, SleeperWillBeWoken, HeldWhileNeeded
<1>4. CASE IoctlReturns(p)
  BY <1>1, <1>4 DEF IoctlReturns, SleeperWillBeWoken, HeldWhileNeeded
<1>5. CASE DiesUnmapped(p)
  <2>1. \A q \in Callers: at[q] # "waiting"
    BY <1>5 DEF DiesUnmapped, HeldWhileNeeded
  <2> QED
    BY <1>1, <1>5, <2>1 DEF DiesUnmapped, SleeperWillBeWoken, HeldWhileNeeded
<1> QED
  BY <1>2, <1>3, <1>4, <1>5 DEF s3c_dma_ioctl, SignalDma

LEMMA DmaStep == DmaInv /\ [DmaNext]_dmaVars => DmaInv'
<1> SUFFICES ASSUME DmaInv, [DmaNext]_dmaVars PROVE DmaInv'
  OBVIOUS
<1>1. CASE request_irq \/ AllocSrc \/ AllocDst
  BY <1>1, LoadStep
<1>2. CASE s3c_dma_exit
  BY <1>2 DEF DmaInv, s3c_dma_exit, SleeperWillBeWoken, HeldWhileNeeded
<1>3. CASE \E p \in Callers: s3c_dma_ioctl(p) \/ SignalDma(p)
  BY <1>3, IoctlStep
<1>4. CASE TransferEnds
  BY <1>4 DEF DmaInv, TransferEnds, SleeperWillBeWoken, HeldWhileNeeded
<1>5. CASE s3c_dma_irq
  BY <1>5 DEF DmaInv, s3c_dma_irq, SleeperWillBeWoken, HeldWhileNeeded
<1>6. CASE UNCHANGED dmaVars
  BY <1>6 DEF DmaInv, dmaVars, SleeperWillBeWoken, HeldWhileNeeded
<1> QED
  BY <1>1, <1>2, <1>3, <1>4, <1>5, <1>6 DEF DmaNext

(* No caller of the unlocked ioctl sleeps for ever because another one has
   cleared the flag: for every number of callers something that will set it
   is on its way. *)
THEOREM DmaSleepersAreWoken == DmaSpec => []SleeperWillBeWoken
<1>1. DmaInv => SleeperWillBeWoken
  BY DEF DmaInv
<1> QED
  BY DmaStarts, DmaStep, <1>1, PTL DEF DmaSpec

-----------------------------------------------------------------------------
LEMMA MouseStarts == MouseInit => LeftKeyNeverStuck
  BY DEF MouseInit, LeftKeyNeverStuck

LEMMA MouseStep == LeftKeyNeverStuck /\ [MouseNext]_mouseVars => LeftKeyNeverStuck'
  BY DEF LeftKeyNeverStuck, MouseNext, probe, Press, Complete, usbmouse_as_key_irq, Disconnect,
         FreeUrb, mouseVars

UnloadInv == PanelInv /\ DmaInv /\ LeftKeyNeverStuck

(* The panel's work item does not outlive its device; a loading of the DMA
   driver that reports its failure, and an unloading that gets through,
   leave nothing held, for every number of callers; and the key of the left
   button is down only as long as the handler saw the button down last. *)
THEOREM DriversUnloadCleanly == AllSpec => []UnloadsCleanly
<1>1. AllInit => UnloadInv
  BY PanelStarts, DmaStarts, MouseStarts DEF AllInit, UnloadInv
<1>2. UnloadInv /\ [AllNext]_allVars => UnloadInv'
  <2> SUFFICES ASSUME UnloadInv, [AllNext]_allVars PROVE UnloadInv'
    OBVIOUS
  <2>1. [PanelNext]_mtpVars
    BY DEF AllNext, allVars
  <2>2. [DmaNext]_dmaVars
    BY DEF AllNext, allVars
  <2>3. [MouseNext]_mouseVars
    BY DEF AllNext, allVars
  <2> QED
    BY <2>1, <2>2, <2>3, PanelStep, DmaStep, MouseStep DEF UnloadInv
<1>3. UnloadInv => UnloadsCleanly
  BY DEF UnloadInv, PanelInv, DmaInv, UnloadsCleanly
<1> QED
  BY <1>1, <1>2, <1>3, PTL DEF AllSpec
-----------------------------------------------------------------------------
(* The message log, for a buffer of any length.                             *)

(* How many characters left the log, lost to printing or taken.             *)
Gone == put - Valid

LogTypes ==
  /\ mylog_r \in 0 .. MYLOG_BUF_LEN - 1
  /\ mylog_w \in 0 .. MYLOG_BUF_LEN - 1
  /\ mylog_r_for_read \in 0 .. MYLOG_BUF_LEN - 1
  /\ mylog_buf \in [0 .. MYLOG_BUF_LEN - 1 -> Nat]
  /\ put \in Nat /\ c \in Nat
  /\ given \in Seq(Nat)

(* The buffer holds the last characters that were printed.                  *)
LogContent ==
  /\ mylog_w = Slot(put)
  /\ Valid <= put
  /\ \A q \in 1 .. put : put - q < MYLOG_BUF_LEN => mylog_buf[Slot(q - 1)] = q

(* What the reader gave away has left the log before the character it       *)
(* holds, which is the oldest of the log when it is taken and may have been *)
(* overwritten since.  The reader of _full.c never gets so far.             *)
LogReader ==
  /\ ReadInOrder
  /\ \A i \in DOMAIN given : given[i] <= Gone
  /\ file = "full" =>
       mylog_r_for_read = mylog_r /\ reader \in {"closed", "open", "asleep"}
  /\ reader = "taken" =>
       /\ Valid >= 1
       /\ c \in 1 .. Gone + 1
       /\ seen = Slot(c - 1)
       /\ \A i \in DOMAIN given : given[i] < c
  /\ reader = "got" =>
       c <= Gone /\ \A i \in DOMAIN given : given[i] < c

LogInv == LogTypes /\ LogContent /\ LogReader

(* Until a print interrupts another one: then all of it may be lost.         *)
LogHolds == ~ nested => LogInv /\ printer = "none"

(* Indices of the log's buffer.                                             *)
LEMMA SlotIsIndex ==
  ASSUME NEW k \in Int
  PROVE  Slot(k) \in 0 .. MYLOG_BUF_LEN - 1
BY LogAssumption, ModRange DEF Slot

LEMMA SlotOnce ==
  ASSUME NEW k \in 0 .. MYLOG_BUF_LEN - 1
  PROVE  Slot(k) = k /\ Slot(k - MYLOG_BUF_LEN) = k /\ Slot(k + MYLOG_BUF_LEN) = k
BY LogAssumption, ModOnce DEF Slot

LEMMA SlotNext ==
  ASSUME NEW a \in Int
  PROVE  Slot(Slot(a) + 1) = Slot(a + 1)
BY LogAssumption, ModNext DEF Slot

LEMMA SlotMinus ==
  ASSUME NEW a \in Int, NEW b \in Int
  PROVE  Slot(Slot(a) - Slot(b)) = Slot(a - b)
BY LogAssumption, ModMinus DEF Slot

LEMMA SlotDistinct ==
  ASSUME NEW a \in Int, NEW b \in Int, a < b, b - a < MYLOG_BUF_LEN
  PROVE  Slot(a) # Slot(b)
BY LogAssumption, ModDistinct DEF Slot

LEMMA SlotAtMost ==
  ASSUME NEW a \in Nat
  PROVE  Slot(a) <= a
BY LogAssumption, ModAtMost DEF Slot
(* The indices tell how long the log is, and the index of the reader is the *)
(* place of the next character to leave.                                    *)
LEMMA LogLength ==
  ASSUME LogInv
  PROVE  /\ Valid \in 0 .. MYLOG_BUF_LEN - 1
         /\ Gone \in Nat /\ Gone = put - Valid
         /\ mylog_r = Slot(Gone)
         /\ is_mylog_full <=> Valid = MYLOG_BUF_LEN - 1
         /\ mylog_w = mylog_r <=> Valid = 0
<1>. DEFINE N == MYLOG_BUF_LEN
<1>1. N \in Nat /\ N > 1 /\ mylog_r \in 0 .. N - 1 /\ mylog_w \in 0 .. N - 1 /\ put \in Nat
  BY LogAssumption DEF LogInv, LogTypes
<1>2. Valid = IF mylog_w >= mylog_r THEN mylog_w - mylog_r ELSE mylog_w - mylog_r + N
  <2>1. CASE mylog_w >= mylog_r
    BY <1>1, <2>1, SlotOnce DEF Valid
  <2>2. CASE mylog_w < mylog_r
    <3>1. /\ mylog_w - mylog_r + N \in 0 .. N - 1
          /\ (mylog_w - mylog_r + N) - N = mylog_w - mylog_r
      BY <1>1, <2>2
    <3>. QED
      BY <1>1, <2>2, <3>1, SlotOnce DEF Valid
  <2>. QED
    BY <1>1, <2>1, <2>2
<1>3. Valid \in 0 .. N - 1 /\ Valid <= put /\ mylog_w = Slot(put)
  BY <1>1, <1>2 DEF LogInv, LogContent
<1>4. mylog_r = Slot(Gone)
  <2>1. Slot(Slot(put) - Slot(Valid)) = Slot(put - Valid)
    BY <1>1, <1>3, SlotMinus
  <2>2. Slot(Valid) = Valid
    BY <1>3, SlotOnce
  <2>3. Slot(mylog_w - Valid) = mylog_r
    <3>1. mylog_w - Valid = mylog_r \/ mylog_w - Valid = mylog_r - N
      BY <1>1, <1>2
    <3>. QED
      BY <1>1, <3>1, SlotOnce
  <2>. QED
    BY <1>3, <2>1, <2>2, <2>3 DEF Gone
<1>5. is_mylog_full <=> Valid = N - 1
  <2>1. CASE mylog_w + 1 < N
    <3>1. Slot(mylog_w + 1) = mylog_w + 1
      BY <1>1, <2>1, SlotOnce
    <3>. QED
      BY <1>1, <1>2, <2>1, <3>1 DEF is_mylog_full
  <2>2. CASE mylog_w + 1 = N
    <3>1. Slot(mylog_w + 1) = 0
      <4>1. Slot(0 + N) = 0 /\ mylog_w + 1 = 0 + N
        BY <1>1, <2>2, SlotOnce
      <4>. QED
        BY <4>1
    <3>. QED
      BY <1>1, <1>2, <2>2, <3>1 DEF is_mylog_full
  <2>. QED
    BY <1>1, <2>1, <2>2
<1>. QED
  BY <1>1, <1>2, <1>3, <1>4, <1>5 DEF Gone

LEMMA LogStarts == LogInit => LogInv
<1>. SUFFICES ASSUME LogInit PROVE LogInv
  OBVIOUS
<1>1. LogTypes
  BY LogAssumption DEF LogInit, LogTypes
<1>2. Valid = 0 /\ Slot(put) = 0
  BY LogAssumption, SlotOnce DEF LogInit, Valid
<1>3. LogContent
  BY <1>2 DEF LogInit, LogContent
<1>4. LogReader
  BY DEF LogInit, LogReader, ReadInOrder
<1>. QED
  BY <1>1, <1>3, <1>4 DEF LogInv

(* A step that changes no index and nothing the reader holds.               *)
LEMMA LogUndisturbed ==
  ASSUME LogInv, UNCHANGED <<file, mylog_buf, mylog_r, mylog_w, put, c, given>>,
         mylog_r_for_read' = mylog_r_for_read \/ mylog_r_for_read' = mylog_r,
         reader' \notin {"taken", "got"},
         file = "full" => reader' \in {"closed", "open", "asleep"}
  PROVE  LogInv'
<1>1. Valid' = Valid /\ Gone' = Gone /\ ReadInOrder' = ReadInOrder /\ Slot(put)' = Slot(put)
  BY DEF Valid, Gone, Slot, ReadInOrder
<1>2. LogTypes'
  BY DEF LogInv, LogTypes
<1>3. LogContent'
  BY <1>1 DEF LogInv, LogContent, Slot
<1>4. LogReader'
  BY <1>1 DEF LogInv, LogReader, LogTypes
<1>. QED
  BY <1>2, <1>3, <1>4 DEF LogInv

(* A character more in the log, and the oldest less if the log was full.    *)
LEMMA PrintsOne ==
  ASSUME LogInv, mylog_putc
  PROVE  /\ LogInv'
         /\ Valid' = IF Valid = MYLOG_BUF_LEN - 1 THEN Valid ELSE Valid + 1
<1>. DEFINE N == MYLOG_BUF_LEN
<1>1. /\ N \in Nat \ {0} /\ N > 1 /\ mylog_r \in 0 .. N - 1 /\ mylog_w \in 0 .. N - 1
      /\ put \in Nat /\ put + 1 \in Nat /\ mylog_buf \in [0 .. N - 1 -> Nat]
  BY LogAssumption DEF LogInv, LogTypes
<1>2. /\ Valid \in 0 .. N - 1 /\ Gone \in Nat /\ Gone = put - Valid
      /\ mylog_r = Slot(Gone) /\ mylog_w = Slot(put)
      /\ is_mylog_full <=> Valid = N - 1
  BY LogLength DEF LogInv, LogContent
<1>3. /\ put' = put + 1 /\ mylog_w' = Slot(mylog_w + 1)
      /\ mylog_r' = IF Valid = N - 1 THEN Slot(mylog_r + 1) ELSE mylog_r
      /\ mylog_r_for_read' \in {mylog_r_for_read, mylog_r'}
      /\ mylog_buf' = [mylog_buf EXCEPT ![mylog_w] = put + 1]
      /\ UNCHANGED <<file, reader, c, seen, given>>
  BY <1>2 DEF mylog_putc, Dropped
<1>4. mylog_w' \in 0 .. N - 1 /\ mylog_r' \in 0 .. N - 1
  <2>1. mylog_w + 1 \in Int /\ mylog_r + 1 \in Int
    BY <1>1
  <2>2. Slot(mylog_w + 1) \in 0 .. N - 1 /\ Slot(mylog_r + 1) \in 0 .. N - 1
    BY <2>1, SlotIsIndex
  <2>. QED
    BY <1>1, <1>3, <2>2
<1>5. LogTypes'
  <2>1. mylog_buf' \in [0 .. N - 1 -> Nat]
    BY <1>1, <1>3
  <2>. QED
    BY <1>1, <1>3, <1>4, <2>1 DEF LogInv, LogTypes
<1>6. mylog_w' = Slot(put')
  BY <1>1, <1>2, <1>3, SlotNext
<1>7. Valid' = IF Valid = N - 1 THEN Valid ELSE Valid + 1
  <2>1. Valid' = Slot(mylog_w' - mylog_r')
    BY DEF Valid, Slot
  <2>2. CASE Valid = N - 1
    <3>1. mylog_r' = Slot(Gone + 1)
      BY <1>1, <1>2, <1>3, <2>2, SlotNext
    <3>2. Valid' = Slot((put + 1) - (Gone + 1))
      <4>1. put + 1 \in Int /\ Gone + 1 \in Int
        BY <1>1, <1>2
      <4>2. Slot(Slot(put + 1) - Slot(Gone + 1)) = Slot((put + 1) - (Gone + 1))
        BY <4>1, SlotMinus
      <4>. QED
        BY <1>3, <1>6, <2>1, <3>1, <4>2
    <3>3. (put + 1) - (Gone + 1) = Valid
      BY <1>1, <1>2
    <3>. QED
      BY <1>1, <1>2, <2>2, <3>2, <3>3, SlotOnce
  <2>3. CASE Valid # N - 1
    <3>1. Valid' = Slot((put + 1) - Gone)
      BY <1>1, <1>2, <1>3, <1>6, <2>1, <2>3, SlotMinus
    <3>2. (put + 1) - Gone = Valid + 1 /\ Valid + 1 \in 0 .. N - 1
      BY <1>1, <1>2, <2>3
    <3>. QED
      BY <1>1, <2>3, <3>1, <3>2, SlotOnce
  <2>. QED
    BY <2>2, <2>3
<1>8. Valid' <= put' /\ Gone' = put' - Valid' /\ Gone' \in {Gone, Gone + 1}
  BY <1>1, <1>2, <1>3, <1>7 DEF Gone, LogInv, LogContent
<1>9. ASSUME NEW q \in 1 .. put', put' - q < N PROVE mylog_buf'[Slot(q - 1)] = q
  <2>1. CASE q = put + 1
    BY <1>1, <1>2, <1>3, <2>1
  <2>2. CASE q # put + 1
    <3>1. q \in 1 .. put /\ put - q < N /\ q - 1 < put /\ put - (q - 1) < N
      BY <1>1, <1>3, <1>9, <2>2
    <3>2. mylog_buf[Slot(q - 1)] = q
      BY <3>1 DEF LogInv, LogContent
    <3>3. Slot(q - 1) # Slot(put)
      BY <1>1, <3>1, SlotDistinct
    <3>4. Slot(q - 1) \in 0 .. N - 1
      <4>. q - 1 \in Int
        BY <3>1
      <4>. QED
        BY SlotIsIndex
    <3>. QED
      BY <1>1, <1>2, <1>3, <3>2, <3>3, <3>4
  <2>. QED
    BY <2>1, <2>2
<1>10. LogContent'
  BY <1>6, <1>8, <1>9 DEF LogContent, Slot
<1>11. LogReader'
  <2>1. ReadInOrder' = ReadInOrder
    BY <1>3 DEF ReadInOrder
  <2>2. ASSUME file = "full" PROVE mylog_r_for_read' = mylog_r'
    BY <2>2 DEF mylog_putc, Dropped, LogInv, LogReader
  <2>3. \A i \in DOMAIN given : given[i] \in Nat
    BY DEF LogInv, LogTypes
  <2>4. Valid >= 1 => Valid' >= 1
    BY <1>1, <1>2, <1>7
  <2>5. \A i \in DOMAIN given' : given'[i] <= Gone'
    BY <1>2, <1>3, <1>8, <2>3 DEF LogInv, LogReader
  <2>6. reader' = "taken" =>
          /\ Valid' >= 1 /\ c' \in 1 .. Gone' + 1 /\ seen' = Slot(c - 1)'
          /\ \A i \in DOMAIN given' : given'[i] < c'
    BY <1>2, <1>3, <1>8, <2>4 DEF LogInv, LogReader, Slot
  <2>7. reader' = "got" => c' <= Gone' /\ \A i \in DOMAIN given' : given'[i] < c'
    BY <1>2, <1>3, <1>8 DEF LogInv, LogReader, LogTypes
  <2>8. file' = "full" =>
          mylog_r_for_read' = mylog_r' /\ reader' \in {"closed", "open", "asleep"}
    BY <1>3, <2>2 DEF LogInv, LogReader
  <2>. QED
    BY <2>1, <2>5, <2>6, <2>7, <2>8 DEF LogInv, LogReader
<1>. QED
  BY <1>5, <1>7, <1>10, <1>11 DEF LogInv

(* The character at the index is the oldest of the log.                     *)
LEMMA TakesOldest ==
  ASSUME LogInv, TakeChar
  PROVE  LogInv'
<1>. DEFINE N == MYLOG_BUF_LEN
<1>1. N \in Nat \ {0} /\ put \in Nat /\ file # "full"
  BY LogAssumption DEF LogInv, LogTypes, LogReader, TakeChar, Goes
<1>2. /\ Valid \in 0 .. N - 1 /\ Gone \in Nat /\ Gone = put - Valid
      /\ mylog_r = Slot(Gone) /\ Valid # 0
  BY <1>1, LogLength DEF Slot, TakeChar, is_mylog_empty
<1>3. /\ c' = mylog_buf[mylog_r] /\ seen' = mylog_r /\ reader' = "taken"
      /\ UNCHANGED <<file, log, given>>
  BY <1>1 DEF TakeChar, ReadIndex, Goes
<1>4. c' = Gone + 1
  <2>1. Gone + 1 \in 1 .. put /\ put - (Gone + 1) < N /\ (Gone + 1) - 1 = Gone
    BY <1>1, <1>2
  <2>. QED
    BY <1>2, <1>3, <2>1 DEF LogInv, LogContent, Slot
<1>5. Valid' = Valid /\ Gone' = Gone /\ ReadInOrder' = ReadInOrder /\ Slot(put)' = Slot(put)
  BY <1>3 DEF Valid, Gone, Slot, ReadInOrder, log
<1>6. LogTypes'
  BY <1>2, <1>3, <1>4 DEF LogInv, LogTypes, log
<1>7. LogContent'
  BY <1>3, <1>5 DEF LogInv, LogContent, Slot, log
<1>8. LogReader'
  <2>1. \A i \in DOMAIN given' : given'[i] \in Nat /\ given'[i] <= Gone'
    BY <1>3, <1>5 DEF LogInv, LogTypes, LogReader
  <2>2. seen' = Slot(c - 1)'
    BY <1>2, <1>3, <1>4 DEF Slot
  <2>. QED
    BY <1>1, <1>2, <1>3, <1>4, <1>5, <2>1, <2>2 DEF LogInv, LogReader
<1>. QED
  BY <1>6, <1>7, <1>8 DEF LogInv

(* The index moves past the character that was taken, whichever value of it *)
(* the build steps on from: the old one puts the characters that printing   *)
(* has dropped since back into the log, never the one that was taken.       *)
LEMMA StepsPast ==
  ASSUME LogInv, StepOn
  PROVE  LogInv'
<1>. DEFINE N == MYLOG_BUF_LEN
<1>1. /\ N \in Nat \ {0} /\ N > 1 /\ put \in Nat /\ c \in Nat /\ file # "full"
      /\ mylog_w = Slot(put) /\ mylog_w \in 0 .. N - 1
  BY LogAssumption DEF LogInv, LogTypes, LogReader, LogContent, StepOn, Goes, Slot
<1>2. /\ Valid \in 1 .. N - 1 /\ Gone \in Nat /\ Gone = put - Valid
      /\ mylog_r = Slot(Gone)
      /\ c \in 1 .. Gone + 1 /\ seen = Slot(c - 1)
      /\ \A i \in DOMAIN given : given[i] < c
  BY <1>1, LogLength DEF LogInv, LogReader, StepOn, Goes
<1>3. PICK g \in {Gone, c - 1} : mylog_r' = Slot(Slot(g) + 1)
  BY <1>1, <1>2 DEF StepOn
<1>4. /\ reader' = "got"
      /\ UNCHANGED <<file, mylog_buf, mylog_w, mylog_r_for_read, put, c, seen, given>>
  BY <1>1 DEF StepOn, Goes
<1>5. g \in Nat /\ g + 1 \in Nat /\ g + 1 >= c /\ g + 1 <= put
  BY <1>1, <1>2
<1>6. mylog_r' = Slot(g + 1) /\ mylog_r' \in 0 .. N - 1
  BY <1>1, <1>3, <1>5, SlotNext, SlotIsIndex
<1>7. Valid' = Slot(put - (g + 1))
  <2>1. Slot(Slot(put) - Slot(g + 1)) = Slot(put - (g + 1))
    BY <1>1, <1>5, SlotMinus
  <2>2. Valid' = Slot(mylog_w' - mylog_r')
    BY DEF Valid, Slot
  <2>. QED
    BY <1>1, <1>4, <1>6, <2>1, <2>2
<1>8. Valid' \in 0 .. N - 1 /\ Valid' <= put - (g + 1)
  BY <1>1, <1>5, <1>7, SlotAtMost, SlotIsIndex
<1>9. Gone' = put - Valid' /\ Gone' \in Nat /\ Gone' >= c
  <2>1. Gone' = put' - Valid'
    BY DEF Gone
  <2>2. put' = put /\ Valid' \in Nat /\ Valid' <= put - (g + 1)
    BY <1>1, <1>4, <1>8
  <2>3. ASSUME NEW v \in Nat, NEW h \in Nat, v <= put - h, h >= c
        PROVE  put - v \in Nat /\ put - v >= c
    BY <1>1, <2>3
  <2>4. put - Valid' \in Nat /\ put - Valid' >= c
    BY <1>5, <2>2, <2>3
  <2>. QED
    BY <2>1, <2>2, <2>4
<1>10. LogTypes'
  BY <1>4, <1>6 DEF LogInv, LogTypes
<1>11. LogContent'
  BY <1>1, <1>4, <1>5, <1>8 DEF LogInv, LogContent, Slot
<1>12. LogReader'
  <2>1. ReadInOrder' = ReadInOrder
    BY <1>4 DEF ReadInOrder
  <2>2. \A i \in DOMAIN given' : given'[i] \in Nat /\ given'[i] < c' /\ given'[i] <= Gone'
    <3>1. \A i \in DOMAIN given : given[i] \in Nat
      BY DEF LogInv, LogTypes
    <3>. QED
      BY <1>1, <1>2, <1>4, <1>9, <3>1
  <2>. QED
    BY <1>1, <1>4, <1>9, <2>1, <2>2 DEF LogInv, LogReader
<1>. QED
  BY <1>10, <1>11, <1>12 DEF LogInv

(* What is given is the last character that left the log with the reader.   *)
LEMMA GivesInOrder ==
  ASSUME LogInv, Gives
  PROVE  LogInv'
<1>1. /\ given \in Seq(Nat) /\ c \in Nat /\ file # "full" /\ c <= Gone
      /\ \A i \in DOMAIN given : given[i] < c
  BY DEF LogInv, LogTypes, LogReader, Gives, Goes
<1>2. given' = Append(given, c) /\ reader' = "getting" /\ UNCHANGED <<file, log, c, seen>>
  BY DEF Gives, Goes
<1>3. /\ given' \in Seq(Nat) /\ Len(given') = Len(given) + 1 /\ Len(given) \in Nat
      /\ given'[Len(given) + 1] = c
      /\ \A i \in 1 .. Len(given) : given'[i] = given[i]
  BY <1>1, <1>2
<1>4. DOMAIN given = 1 .. Len(given) /\ DOMAIN given' = 1 .. Len(given) + 1
  BY <1>1, <1>3
<1>5. Valid' = Valid /\ Gone' = Gone /\ Slot(put)' = Slot(put)
  BY <1>2 DEF Valid, Gone, Slot, log
<1>6. LogTypes'
  BY <1>2, <1>3 DEF LogInv, LogTypes, log
<1>7. LogContent'
  BY <1>2, <1>5 DEF LogInv, LogContent, Slot, log
<1>8. ReadInOrder'
  <2>1. SUFFICES ASSUME NEW i \in DOMAIN given', NEW j \in DOMAIN given', i < j
                 PROVE  given'[i] < given'[j]
    BY DEF ReadInOrder
  <2>2. CASE j = Len(given) + 1
    BY <1>1, <1>3, <1>4, <2>1, <2>2
  <2>3. CASE j # Len(given) + 1
    BY <1>3, <1>4, <2>1, <2>3 DEF LogInv, LogReader, ReadInOrder
  <2>. QED
    BY <2>2, <2>3
<1>9. \A i \in DOMAIN given' : given'[i] <= Gone'
  BY <1>1, <1>3, <1>4, <1>5 DEF LogInv, LogReader
<1>10. LogReader'
  BY <1>1, <1>2, <1>8, <1>9 DEF LogReader
<1>. QED
  BY <1>6, <1>7, <1>10 DEF LogInv

LEMMA LogStep ==
  ASSUME LogInv, printer = "none", [LogNext]_logVars
  PROVE  PutChecks \/ (LogInv' /\ printer' = "none")
<1>. SUFFICES ASSUME ~ PutChecks PROVE LogInv' /\ printer' = "none"
  OBVIOUS
<1>9. printer' = "none" /\ ~ PutStores /\ ~ PutAdvances
  BY DEF LogNext, logVars, mylog_putc, PutStores, PutAdvances, mymsg_open, mymsg_read, Wakes,
         SignalReader, NothingLeft, TakeChar, StepOn, Gives, CountReached, BadBuffer, Goes
<1>. SUFFICES LogInv'
  BY <1>9
<1>1. CASE mylog_putc
  BY <1>1, PrintsOne
<1>2. CASE mymsg_open
  BY <1>2, LogUndisturbed DEF mymsg_open, Goes, LogInv, LogReader
<1>3. CASE mymsg_read \/ SignalReader
  BY <1>3, LogUndisturbed DEF mymsg_read, SignalReader, Goes, log, LogInv, LogReader
<1>4. CASE Wakes \/ NothingLeft \/ CountReached \/ BadBuffer
  BY <1>4, LogUndisturbed
     DEF Wakes, NothingLeft, CountReached, BadBuffer, is_mylog_empty, Goes, log,
         LogInv, LogReader
<1>5. CASE TakeChar
  BY <1>5, TakesOldest
<1>6. CASE StepOn
  BY <1>6, StepsPast
<1>7. CASE Gives
  BY <1>7, GivesInOrder
<1>8. CASE UNCHANGED logVars
  <2>1. Valid' = Valid /\ Gone' = Gone /\ ReadInOrder' = ReadInOrder /\ Slot(put)' = Slot(put)
    BY <1>8 DEF Valid, Gone, Slot, ReadInOrder, logVars
  <2>. QED
    BY <1>8, <2>1 DEF logVars, LogInv, LogTypes, LogContent, LogReader, Slot
<1>. QED
  BY <1>1, <1>2, <1>3, <1>4, <1>5, <1>6, <1>7, <1>8, <1>9 DEF LogNext

LEMMA LogHoldsOn == LogHolds /\ [LogNext]_logVars => LogHolds'
<1>. SUFFICES ASSUME LogHolds, [LogNext]_logVars, ~ nested' PROVE LogHolds'
  BY DEF LogHolds
<1>1. ~ nested /\ ~ PutChecks
  BY DEF LogNext, logVars, mylog_putc, PutChecks, PutStores, PutAdvances, mymsg_open, mymsg_read,
         Wakes, SignalReader, NothingLeft, TakeChar, StepOn, Gives, CountReached, BadBuffer, Goes
<1>. QED
  BY <1>1, LogStep DEF LogHolds

(* Only a character that is printed moves the index of the printers.        *)
LEMMA PrintStep ==
  ASSUME LogHolds, [LogNext]_logVars
  PROVE  [~ nested => Valid' = Min({Valid + 1, MYLOG_BUF_LEN - 1})]_mylog_w
<1>. SUFFICES ASSUME ~ nested
              PROVE  [Valid' = Min({Valid + 1, MYLOG_BUF_LEN - 1})]_mylog_w
  OBVIOUS
<1>3. LogInv /\ printer = "none"
  BY DEF LogHolds
<1>1. CASE mylog_putc
  <2>. DEFINE N == MYLOG_BUF_LEN
  <2>1. Valid \in 0 .. N - 1 /\ N \in Nat
    BY <1>3, LogLength, LogAssumption
  <2>2. Valid' = IF Valid = N - 1 THEN Valid ELSE Valid + 1
    BY <1>1, <1>3, PrintsOne
  <2>3. /\ Valid' \in {Valid + 1, N - 1}
        /\ \A y \in {Valid + 1, N - 1} : Valid' <= y
        /\ \A y \in {Valid + 1, N - 1} : (\A z \in {Valid + 1, N - 1} : y <= z) => y = Valid'
    BY <2>1, <2>2
  <2>. QED
    BY <2>3 DEF Min
<1>2. CASE ~ mylog_putc
  BY <1>2, <1>3 DEF LogNext, logVars, PutChecks, PutStores, PutAdvances, mymsg_open, mymsg_read,
              Wakes, SignalReader, NothingLeft, TakeChar, StepOn, Gives, CountReached, BadBuffer,
              log
<1>. QED
  BY <1>1, <1>2

(* What LogInv says of the ring of /proc/mymsg holds after any calls of     *)
(* myprintk and read, with interrupts that print between the steps of the   *)
(* reader, until one prints within a print: nothing is said from then on.   *)
THEOREM LogInvariant == LogSpec => []LogHolds
<1>1. LogInit => LogHolds
  BY LogStarts DEF LogInit, LogHolds
<1>. QED
  BY <1>1, LogHoldsOn, PTL DEF LogSpec

(* LogKeepsOrder: as long as no print has interrupted another one, what the *)
(* reader gets comes in the order of printing, none twice, and a character  *)
(* that is printed costs the log at most its oldest.                        *)
THEOREM LogAlwaysKeepsOrder == LogSpec => LogKeepsOrder
<1>1. LogHolds => (~ nested => ReadInOrder)
  BY DEF LogHolds, LogInv, LogReader
<1>2. LogHolds /\ [LogNext]_logVars
        => [~ nested => Valid' = Min({Valid + 1, MYLOG_BUF_LEN - 1})]_mylog_w
  BY PrintStep
<1>. QED
  BY <1>1, <1>2, LogInvariant, PTL DEF LogSpec, LogKeepsOrder

-----------------------------------------------------------------------------
(* The parser of the demo driver's FIFO.                                    *)

(* The sensors take turns; the k-th frame is this one's.                    *)
Turn == Len(fifo_enabled)
SensorOf(k) == fifo_enabled[1 + ((k - 1) % Turn)]

AllFrames == UNION {Storable(s, fifo_enabled) : s \in {"ACC", "GYR"}}

(* What a burst is.                                                         *)
FifoShape ==
  /\ fifo_enabled \in {<<"ACC">>, <<"GYR">>, <<"ACC", "GYR">>}
  /\ stored \in Seq(AllFrames)
  /\ \A k \in 1 .. Len(stored) : stored[k] \in Storable(SensorOf(k), fifo_enabled)
  /\ Len(buf) \in Nat /\ buf = [k \in 1 .. Len(buf) |-> WordOf(stored, k)]
  /\ Len(buf) > 3 * Len(stored) => Len(stored) % Turn = 0

(* The parser is at the start of a turn and has taken k frames.             *)
AtTurn(k) ==
  /\ reading /\ 3 * k <= Len(buf) /\ k % Turn = 0
  /\ word = 3 * k + 1 /\ fifo_len = Len(buf) - 3 * k

(* The frames that were read whole.                                         *)
WholeFrames == Min({Len(stored), Len(buf) \div 3})

FifoInv ==
  /\ FifoShape
  /\ \E k \in 0 .. Len(stored) :
       /\ published = Samples[k]
       /\ AtTurn(k) \/ (k = WholeFrames /\ (reading => fifo_len = 0))

(* A stored frame has three words; the first one tells a dummy, and at the  *)
(* start of a turn also from the end.                                       *)
LEMMA FrameIs ==
  ASSUME FifoShape, NEW k \in 1 .. Len(stored)
  PROVE  /\ SensorOf(k) \in {"ACC", "GYR"}
         /\ stored[k].sensor = SensorOf(k)
         /\ stored[k].words = <<stored[k].words[1], stored[k].words[2], stored[k].words[3]>>
         /\ stored[k] = Frame(SensorOf(k), stored[k].words)
         /\ stored[k].words[1] = DUMMY[SensorOf(k)] <=> stored[k] = NoSample(SensorOf(k))
         /\ SensorOf(k) = fifo_enabled[1] => stored[k].words[1] # EMPTY
<1>. DEFINE s == SensorOf(k)
            f == stored[k]
<1>1. Len(stored) \in Nat /\ f \in Storable(s, fifo_enabled)
  BY DEF FifoShape
<1>2. s \in {"ACC", "GYR"}
  <2>1. k - 1 \in Int /\ (k - 1) % 1 = 0 /\ (k - 1) % 2 \in {0, 1}
    BY <1>1
  <2>2. CASE fifo_enabled \in {<<"ACC">>, <<"GYR">>}
    BY <2>1, <2>2 DEF SensorOf, Turn
  <2>3. CASE fifo_enabled = <<"ACC", "GYR">>
    BY <2>1, <2>3 DEF SensorOf, Turn
  <2>. QED
    BY <2>2, <2>3 DEF FifoShape
<1>3. DUMMY[s] # EMPTY
  BY <1>2 DEF DUMMY, EMPTY
<1>. HIDE DEF s, f
<1>4. CASE f = NoSample(s)
  BY <1>2, <1>3, <1>4 DEF NoSample, Frame, s, f
<1>5. CASE f # NoSample(s)
  <2>1. PICK w \in Firsts \ {DUMMY[s], IF s = fifo_enabled[1] THEN EMPTY ELSE DUMMY[s]},
             r \in Rests : f = Frame(s, <<w, r[1], r[2]>>)
    BY <1>1, <1>5 DEF Storable
  <2>. QED
    BY <1>2, <1>3, <1>5, <2>1 DEF Frame, s, f
<1>. QED
  BY <1>4, <1>5

(* Where the words of a frame are in the burst.                             *)
LEMMA BurstWords ==
  ASSUME FifoShape, NEW g \in 0 .. Len(stored) - 1
  PROVE  /\ 3 * g + 1 <= Len(buf) => buf[3 * g + 1] = stored[g + 1].words[1]
         /\ 3 * g + 3 <= Len(buf)
              => SubSeq(buf, 3 * g + 1, 3 * g + 1 + 2) = stored[g + 1].words
<1>1. Len(stored) \in Nat /\ Len(buf) \in Nat
  BY DEF FifoShape
<1>2. ASSUME NEW j \in 1 .. 3, 3 * g + j <= Len(buf)
      PROVE  buf[3 * g + j] = stored[g + 1].words[j]
  <2>. DEFINE k == 3 * g + j
              q == (k - 1) \div 3
              r == (k - 1) % 3
  <2>1. k \in 1 .. Len(buf) /\ ~(k > 3 * Len(stored)) /\ k - 1 = 3 * g + (j - 1)
    BY <1>1, <1>2
  <2>2. q = g /\ r = j - 1
    BY ONLY g \in Nat, j \in 1 .. 3, <2>1, <1>1
  <2>. HIDE DEF k, q, r
  <2>3. buf[k] = WordOf(stored, k)
    BY <2>1 DEF FifoShape
  <2>4. WordOf(stored, k) = stored[1 + q].words[1 + r]
    BY ONLY <2>1 DEF WordOf, q, r
  <2>5. 1 + q = g + 1 /\ 1 + r = j
    BY <1>1, <2>2
  <2>. QED
    BY ONLY <2>3, <2>4, <2>5 DEF k
<1>3. 3 * g + 1 <= Len(buf) => buf[3 * g + 1] = stored[g + 1].words[1]
  BY <1>2
<1>4. ASSUME 3 * g + 3 <= Len(buf)
      PROVE  SubSeq(buf, 3 * g + 1, 3 * g + 1 + 2) = stored[g + 1].words
  <2>. DEFINE w == stored[g + 1].words
              S == {w[1], w[2], w[3]}
              m == 3 * g + 1
              u == SubSeq(buf, m, m + 2)
  <2>1. w = <<w[1], w[2], w[3]>>
    <3>1. g + 1 \in 1 .. Len(stored)
      BY <1>1
    <3>. QED
      BY <3>1, FrameIs
  <2>2. buf[m] = w[1] /\ buf[m + 1] = w[2] /\ buf[m + 2] = w[3]
    <3>1. buf[3 * g + 1] = w[1] /\ buf[3 * g + 2] = w[2] /\ buf[3 * g + 3] = w[3]
      BY <1>1, <1>2, <1>4
    <3>2. m = 3 * g + 1 /\ m + 1 = 3 * g + 2 /\ m + 2 = 3 * g + 3
      OBVIOUS
    <3>. QED
      BY <3>1, <3>2
  <2>3. m \in Int /\ m + 2 \in Int /\ m <= m + 2 /\ m + 2 - m + 1 = 3
        /\ \A i \in m .. m + 2 : i = m \/ i = m + 1 \/ i = m + 2
    BY <1>1
  <2>. HIDE DEF m, w
  <2>4. \A i \in m .. m + 2 : buf[i] \in S
    BY <2>2, <2>3
  <2>5. /\ u \in Seq(S)
        /\ Len(u) = IF m <= m + 2 THEN m + 2 - m + 1 ELSE 0
        /\ \A i \in 1 .. m + 2 - m + 1 : u[i] = buf[m + i - 1]
    <3>. HIDE DEF S
    <3>. QED
      BY ONLY <2>3, <2>4, SubSeqProperties
  <2>6. u \in Seq(S) /\ Len(u) = 3 /\ u[1] = w[1] /\ u[2] = w[2] /\ u[3] = w[3]
    <3>1. m + 1 - 1 = m /\ m + 2 - 1 = m + 1 /\ m + 3 - 1 = m + 2
      BY <2>3
    <3>2. Len(u) = 3 /\ \A i \in 1 .. 3 : u[i] = buf[m + i - 1]
      BY <2>3, <2>5
    <3>. HIDE DEF u
    <3>3. u[1] = buf[m + 1 - 1] /\ u[2] = buf[m + 2 - 1] /\ u[3] = buf[m + 3 - 1]
      BY <3>2
    <3>. QED
      BY <2>2, <2>5, <3>1, <3>2, <3>3
  <2>. HIDE DEF u
  <2>7. u = <<u[1], u[2], u[3]>>
    BY <2>6
  <2>. QED
    BY <2>1, <2>6, <2>7 DEF u, w, m
<1>. QED
  BY <1>3, <1>4

(* The recursion of Samples has a solution.                                 *)
LEMMA SamplesAre ==
  ASSUME FifoShape
  PROVE  /\ \A k \in 0 .. Len(stored) : Samples[k] \in Seq(AllFrames)
         /\ Samples[0] = <<>>
         /\ \A k \in 1 .. Len(stored) :
              Samples[k] = IF stored[k] = NoSample(SensorOf(k)) THEN Samples[k - 1]
                           ELSE Append(Samples[k - 1], stored[k])
<1>. DEFINE N == Len(stored)
            dummy(k) == stored[k] = NoSample(stored[k].sensor)
            Adds(g) == g = [k \in 0 .. N |->
                              IF k = 0 THEN <<>>
                              ELSE IF dummy(k) THEN g[k - 1] ELSE Append(g[k - 1], stored[k])]
            step == [k \in 1 .. N |-> [seq \in Seq(AllFrames) |->
                       IF dummy(k) THEN seq ELSE Append(seq, stored[k])]]
<1>1. N \in Nat /\ \A k \in 1 .. N : stored[k] \in AllFrames
  BY DEF FifoShape
<1>2. Samples = CHOOSE g : Adds(g)
  BY DEF Samples
<1>3. PICK f : Recurs(f, N, Seq(AllFrames), <<>>, step)
  <2>1. step \in [1 .. N -> [Seq(AllFrames) -> Seq(AllFrames)]]
    BY <1>1
  <2>2. <<>> \in Seq(AllFrames)
    OBVIOUS
  <2>. HIDE DEF step, N
  <2>. QED
    BY <1>1, <2>1, <2>2, RecursionExists
<1>4. /\ f \in [0 .. N -> Seq(AllFrames)] /\ f[0] = <<>>
      /\ \A k \in 1 .. N : f[k] = step[k][f[k - 1]]
  BY <1>3 DEF Recurs
<1>. HIDE DEF N, dummy
<1>5. \A k \in 1 .. N : k - 1 \in 0 .. N /\ k \in 0 .. N /\ k # 0
  BY <1>1
<1>6. \A k \in 1 .. N : f[k] = IF dummy(k) THEN f[k - 1] ELSE Append(f[k - 1], stored[k])
  BY <1>4, <1>5
<1>. HIDE DEF step
<1>7. Adds(f)
  <2>1. \A k \in 0 .. N : k = 0 \/ k \in 1 .. N
    BY <1>1
  <2>2. \A k \in 0 .. N : f[k] = IF k = 0 THEN <<>>
                              ELSE IF dummy(k) THEN f[k - 1] ELSE Append(f[k - 1], stored[k])
    BY <1>4, <1>5, <1>6, <2>1
  <2>. QED
    BY <1>4, <2>2
<1>8. Adds(Samples)
  <2>. HIDE DEF Adds
  <2>. QED
    BY <1>2, <1>7
<1>9. /\ Samples[0] = <<>>
      /\ \A k \in 1 .. N : Samples[k] = IF dummy(k) THEN Samples[k - 1]
                                        ELSE Append(Samples[k - 1], stored[k])
  <2>1. 0 \in 0 .. N
    BY <1>1
  <2>. QED
    BY <1>5, <1>8, <2>1
<1>. HIDE DEF Adds
<1>. DEFINE Good == {k \in 0 .. N : Samples[k] \in Seq(AllFrames)}
<1>10. \A k \in 0 .. N : k \in Good
  <2>1. 0 \in Good
    <3>1. 0 \in 0 .. N /\ <<>> \in Seq(AllFrames)
      BY <1>1
    <3>. QED
      BY ONLY <1>9, <3>1
  <2>2. ASSUME NEW k \in 0 .. N - 1, k \in Good PROVE k + 1 \in Good
    <3>1. k + 1 \in 1 .. N /\ k + 1 \in 0 .. N /\ k + 1 - 1 = k
      BY <1>1
    <3>2. Samples[k + 1] = IF dummy(k + 1) THEN Samples[k]
                           ELSE Append(Samples[k], stored[k + 1])
      BY <1>9, <3>1
    <3>3. Samples[k] \in Seq(AllFrames) /\ stored[k + 1] \in AllFrames
      BY <1>1, <2>2, <3>1
    <3>4. Append(Samples[k], stored[k + 1]) \in Seq(AllFrames)
      BY ONLY <3>3
    <3>5. Samples[k + 1] \in Seq(AllFrames)
      BY ONLY <3>2, <3>3, <3>4
    <3>. QED
      BY <3>1, <3>5
  <2>. HIDE DEF Good
  <2>. QED
    BY ONLY <1>1, <2>1, <2>2, UpTo
<1>11. \A k \in 1 .. N : dummy(k) <=> stored[k] = NoSample(SensorOf(k))
  BY FrameIs DEF dummy, N
<1>. QED
  BY <1>9, <1>10, <1>11 DEF N

(* Which sensors take turns, and which one begins.                          *)
LEMMA Turns ==
  ASSUME FifoShape
  PROVE  /\ fifo_enabled = <<"ACC">> =>
              /\ Turn = 1 /\ "ACC" \in Range(fifo_enabled) /\ "GYR" \notin Range(fifo_enabled)
              /\ \A k \in Nat : SensorOf(k + 1) = "ACC"
         /\ fifo_enabled = <<"GYR">> =>
              /\ Turn = 1 /\ "ACC" \notin Range(fifo_enabled) /\ "GYR" \in Range(fifo_enabled)
              /\ \A k \in Nat : SensorOf(k + 1) = "GYR"
         /\ fifo_enabled = <<"ACC", "GYR">> =>
              /\ Turn = 2 /\ "ACC" \in Range(fifo_enabled) /\ "GYR" \in Range(fifo_enabled)
              /\ \A k \in Nat : k % 2 = 0 => SensorOf(k + 1) = "ACC" /\ SensorOf(k + 2) = "GYR"
         /\ \A k \in Nat : k % Turn = 0 => SensorOf(k + 1) = fifo_enabled[1]
<1>1. CASE fifo_enabled = <<"ACC">>
  <2>1. \A k \in Nat : (k + 1 - 1) % 1 = 0
    OBVIOUS
  <2>. QED
    BY <1>1, <2>1 DEF Turn, SensorOf, Range
<1>2. CASE fifo_enabled = <<"GYR">>
  <2>1. \A k \in Nat : (k + 1 - 1) % 1 = 0
    OBVIOUS
  <2>. QED
    BY <1>2, <2>1 DEF Turn, SensorOf, Range
<1>3. CASE fifo_enabled = <<"ACC", "GYR">>
  <2>1. \A k \in Nat : k % 2 = 0 => (k + 1 - 1) % 2 = 0 /\ (k + 2 - 1) % 2 = 1
    OBVIOUS
  <2>2. Len(fifo_enabled) = 2 /\ fifo_enabled[1] = "ACC" /\ fifo_enabled[2] = "GYR"
    BY <1>3
  <2>3. \A k \in Nat : k % 2 = 0 => SensorOf(k + 1) = "ACC" /\ SensorOf(k + 2) = "GYR"
    BY <2>1, <2>2 DEF Turn, SensorOf
  <2>. QED
    BY <1>3, <2>2, <2>3 DEF Turn, Range
<1>. QED
  BY <1>1, <1>2, <1>3 DEF FifoShape

(* The frames that were read whole are among both.                          *)
LEMMA WholeFramesIs ==
  ASSUME FifoShape
  PROVE  /\ Len(stored) \in Nat /\ Len(buf) \in Nat
         /\ WholeFrames \in {Len(stored), Len(buf) \div 3}
         /\ WholeFrames <= Len(stored) /\ WholeFrames <= Len(buf) \div 3
<1>1. Len(stored) \in Nat /\ Len(buf) \in Nat
  BY DEF FifoShape
<1>. DEFINE S == {Len(stored), Len(buf) \div 3}
<1>2. \E m \in S : \A e \in S : m <= e
  BY <1>1
<1>3. WholeFrames = CHOOSE m \in S : \A e \in S : m <= e
  BY DEF WholeFrames, Min
<1>4. WholeFrames \in S /\ \A e \in S : WholeFrames <= e
  BY ONLY <1>2, <1>3
<1>. QED
  BY <1>1, <1>4

(* One sensor's part of a turn when it is not enabled, or too little is     *)
(* left.                                                                    *)
LEMMA DropsRest ==
  ASSUME NEW s, NEW r
  PROVE  /\ s \notin Range(fifo_enabled) => TakeFrame(s, r) = r
         /\ s \in Range(fifo_enabled) /\ r.left < 3 => TakeFrame(s, r) = [r EXCEPT !.left = 0]
BY DEF TakeFrame

(* The parser after k whole frames.                                         *)
At(k) == [word |-> 3 * k + 1, left |-> Len(buf) - 3 * k, out |-> Samples[k]]

(* A sensor that is enabled takes its frame, or drops what is left.         *)
LEMMA TakesFrame ==
  ASSUME FifoShape, NEW g \in 0 .. Len(stored) - 1, NEW s \in Range(fifo_enabled)
  PROVE  /\ SensorOf(g + 1) = s /\ 3 * g + 3 <= Len(buf) => TakeFrame(s, At(g)) = At(g + 1)
         /\ Len(buf) < 3 * g + 3 => TakeFrame(s, At(g)) = [At(g) EXCEPT !.left = 0]
<1>1. Len(stored) \in Nat /\ Len(buf) \in Nat
  BY WholeFramesIs
<1>2. g + 1 \in 1 .. Len(stored) /\ g + 1 - 1 = g
  BY <1>1
<1>3. ASSUME SensorOf(g + 1) = s, 3 * g + 3 <= Len(buf) PROVE TakeFrame(s, At(g)) = At(g + 1)
  <2>. DEFINE f == stored[g + 1]
  <2>1. 3 * g + 1 <= Len(buf) /\ ~(Len(buf) - 3 * g < 3)
        /\ 3 * g + 1 + 3 = 3 * (g + 1) + 1 /\ Len(buf) - 3 * g - 3 = Len(buf) - 3 * (g + 1)
    BY <1>1, <1>3
  <2>2. buf[3 * g + 1] = f.words[1] /\ SubSeq(buf, 3 * g + 1, 3 * g + 1 + 2) = f.words
    BY <1>3, <2>1, BurstWords
  <2>3. f = Frame(s, f.words) /\ (f.words[1] = DUMMY[s] <=> f = NoSample(s))
    BY <1>2, <1>3, FrameIs
  <2>4. Samples[g + 1] = IF f = NoSample(s) THEN Samples[g] ELSE Append(Samples[g], f)
    BY <1>2, <1>3, SamplesAre
  <2>. HIDE DEF f
  <2>5. TakeFrame(s, At(g)) =
          [word |-> 3 * g + 1 + 3, left |-> Len(buf) - 3 * g - 3,
           out |-> IF buf[3 * g + 1] = DUMMY[s] THEN Samples[g]
                   ELSE Append(Samples[g], Frame(s, SubSeq(buf, 3 * g + 1, 3 * g + 1 + 2)))]
    BY <2>1 DEF TakeFrame, At
  <2>6. (IF buf[3 * g + 1] = DUMMY[s] THEN Samples[g]
         ELSE Append(Samples[g], Frame(s, SubSeq(buf, 3 * g + 1, 3 * g + 1 + 2))))
        = Samples[g + 1]
    BY <2>2, <2>3, <2>4
  <2>. QED
    BY <1>1, <2>1, <2>5, <2>6 DEF At
<1>4. ASSUME Len(buf) < 3 * g + 3 PROVE TakeFrame(s, At(g)) = [At(g) EXCEPT !.left = 0]
  <2>1. At(g).left < 3
    BY <1>1, <1>4 DEF At
  <2>. QED
    BY <2>1, DropsRest
<1>. QED
  BY <1>3, <1>4

(* A burst begins with nothing taken, at the start of a turn.               *)
LEMMA FifoStarts ==
  ASSUME FifoInit
  PROVE  FifoInv
<1>1. PICK order \in {<<"ACC">>, <<"GYR">>, <<"ACC", "GYR">>} :
        \E frames \in Stores(order) :
          \E n \in 0 .. (3 * Len(frames) + IF Len(frames) % Len(order) = 0 THEN MaxFill ELSE 0) :
            Burst(order, frames, [k \in 1 .. n |-> WordOf(frames, k)])
  BY DEF FifoInit
<1>2. PICK frames \in Stores(order) :
        \E n \in 0 .. (3 * Len(frames) + IF Len(frames) % Len(order) = 0 THEN MaxFill ELSE 0) :
          Burst(order, frames, [k \in 1 .. n |-> WordOf(frames, k)])
  BY <1>1
<1>. DEFINE F == UNION {Storable(s, order) : s \in Range(order)}
<1>3. PICK m \in 0 .. MaxFrames : frames \in [1 .. m -> F]
  BY <1>2 DEF Stores, SeqOf
<1>4. m \in Nat /\ Len(frames) = m /\ frames \in Seq(F)
  BY <1>3, FifoAssumption
<1>5. \A k \in 1 .. m : frames[k].sensor = order[1 + ((k - 1) % Len(order))]
  BY <1>2, <1>3 DEF Stores
<1>6. Range(order) \subseteq {"ACC", "GYR"}
  <2>1. \A i \in DOMAIN order : order[i] \in {"ACC", "GYR"}
    BY <1>1
  <2>. QED
    BY <2>1 DEF Range
<1>7. \A s, f : f \in Storable(s, order) => f.sensor = s
  BY DEF Storable, NoSample, Frame
<1>8. \A k \in 1 .. m : frames[k] \in Storable(order[1 + ((k - 1) % Len(order))], order)
  <2>. TAKE k \in 1 .. m
  <2>1. PICK s \in Range(order) : frames[k] \in Storable(s, order)
    BY <1>3
  <2>. QED
    BY <1>5, <1>7, <2>1
<1>9. PICK n \in Nat : /\ n > 3 * m => m % Len(order) = 0
                       /\ Burst(order, frames, [k \in 1 .. n |-> WordOf(frames, k)])
  <2>1. PICK n \in 0 .. (3 * m + IF m % Len(order) = 0 THEN MaxFill ELSE 0) :
          Burst(order, frames, [k \in 1 .. n |-> WordOf(frames, k)])
    BY <1>2, <1>4
  <2>2. n \in Nat /\ (n > 3 * m => m % Len(order) = 0)
    BY <1>4, <2>1, FifoAssumption
  <2>. QED
    BY <2>1, <2>2
<1>10. /\ fifo_enabled = order /\ stored = frames
       /\ buf = [k \in 1 .. n |-> WordOf(frames, k)] /\ fifo_len = Len(buf) /\ word = 1
       /\ published = <<>> /\ reading = TRUE
  BY <1>9 DEF Burst
<1>11. Len(buf) = n
  <2>. DEFINE w == [k \in 1 .. n |-> WordOf(frames, k)]
  <2>1. Len(w) = n
    OBVIOUS
  <2>. QED
    BY <1>10, <2>1
<1>12. stored \in Seq(AllFrames)
  <2>1. F \subseteq AllFrames
    BY <1>6, <1>10 DEF AllFrames
  <2>. HIDE DEF F
  <2>. QED
    BY <1>4, <1>10, <2>1
<1>13. FifoShape
  BY <1>1, <1>4, <1>8, <1>9, <1>10, <1>11, <1>12 DEF FifoShape, SensorOf, Turn
<1>14. published = Samples[0]
  BY <1>10, <1>13, SamplesAre
<1>15. AtTurn(0)
  <2>1. 0 % Turn = 0
    <3>1. Turn \in {1, 2}
      BY <1>13, Turns DEF FifoShape
    <3>. QED
      BY <3>1
  <2>. QED
    BY <1>10, <1>11, <2>1 DEF AtTurn
<1>16. 0 \in 0 .. Len(stored)
  BY <1>4, <1>10
<1>. QED
  BY <1>13, <1>14, <1>15, <1>16 DEF FifoInv

(* A turn of the loop.                                                      *)
LEMMA FifoStep ==
  ASSUME FifoInv, demo_handle_wtm_irq_event
  PROVE  FifoInv'
<1>. DEFINE n == Len(buf)
            N == Len(stored)
<1>1. PICK k \in 0 .. N : /\ FifoShape /\ published = Samples[k]
                          /\ AtTurn(k) \/ (k = WholeFrames /\ (reading => fifo_len = 0))
  BY DEF FifoInv
<1>2. /\ n \in Nat /\ N \in Nat
      /\ WholeFrames \in {N, n \div 3} /\ WholeFrames <= N /\ WholeFrames <= n \div 3
  BY <1>1, WholeFramesIs
<1>3. /\ reading /\ UNCHANGED <<fifo_enabled, stored, buf>>
  BY DEF demo_handle_wtm_irq_event
<1>4. /\ FifoShape' /\ Samples' = Samples /\ WholeFrames' = WholeFrames
  BY <1>1, <1>3 DEF FifoShape, AllFrames, Storable, SensorOf, Turn, Samples, WholeFrames
<1>5. SUFFICES \E j \in 0 .. N : /\ published' = Samples[j]
                                 /\ AtTurn(j)' \/ (j = WholeFrames /\ (reading' => fifo_len' = 0))
  BY <1>3, <1>4 DEF FifoInv
<1>6. ASSUME AtTurn(k), n > 3 * k, buf[word] = EMPTY PROVE k = N
  <2>1. SUFFICES ASSUME k # N PROVE FALSE
    OBVIOUS
  <2>2. k \in 0 .. N - 1 /\ k + 1 \in 1 .. N /\ 3 * k + 1 <= n /\ word = 3 * k + 1
    BY <1>2, <1>6, <2>1 DEF AtTurn
  <2>3. SensorOf(k + 1) = fifo_enabled[1]
    BY <1>1, <1>6, Turns DEF AtTurn
  <2>4. stored[k + 1].words[1] # EMPTY
    BY <1>1, <2>2, <2>3, FrameIs
  <2>. QED
    BY <1>1, <1>6, <2>2, <2>4, BurstWords
<1>7. ASSUME AtTurn(k), buf[word] # EMPTY, fifo_len # 0 PROVE k \in 0 .. N - 1 /\ n > 3 * k
  <2>1. n > 3 * k /\ 3 * k + 1 \in 1 .. n /\ word = 3 * k + 1
    BY <1>2, <1>7 DEF AtTurn
  <2>2. k # N
    BY <1>1, <1>2, <1>7, <2>1 DEF FifoShape, WordOf
  <2>. QED
    BY <1>2, <2>1, <2>2
<1>8. CASE fifo_len = 0 \/ buf[word] = EMPTY
  <2>1. reading' = FALSE /\ UNCHANGED <<word, fifo_len, published>>
    BY <1>8 DEF demo_handle_wtm_irq_event
  <2>2. ASSUME AtTurn(k) PROVE k = WholeFrames
    <3>1. CASE fifo_len = 0
      BY <1>2, <2>2, <3>1 DEF AtTurn
    <3>2. CASE fifo_len # 0
      <4>1. 3 * k < n
        BY <1>2, <2>2, <3>2 DEF AtTurn
      <4>2. k = N
        BY <1>6, <1>8, <2>2, <3>2, <4>1
      <4>. QED
        BY <1>2, <4>1, <4>2
    <3>. QED
      BY <3>1, <3>2
  <2>. QED
    BY <1>1, <2>1, <2>2
<1>9. CASE fifo_len # 0 /\ buf[word] # EMPTY
  <2>. DEFINE r == TakeFrame("GYR", TakeFrame("ACC", Now))
              Stopped(j) == [At(j) EXCEPT !.left = 0]
  <2>1. /\ word' = r.word /\ fifo_len' = r.left /\ published' = r.out /\ reading' = reading
    BY <1>9 DEF demo_handle_wtm_irq_event
  <2>2. AtTurn(k) /\ k \in 0 .. N - 1 /\ n > 3 * k /\ k \in Nat
    BY <1>1, <1>3, <1>7, <1>9
  <2>3. Now = At(k)
    BY <1>1, <2>2 DEF Now, At, AtTurn
  <2>. HIDE DEF r
  <2>4. ASSUME NEW j \in 0 .. N, r = Stopped(j), j = WholeFrames
        PROVE  /\ published' = Samples[j] /\ fifo_len' = 0
    BY <2>1, <2>4 DEF At
  <2>5. ASSUME NEW j \in 0 .. N, r = At(j), 3 * j <= n, j % Turn = 0
        PROVE  published' = Samples[j] /\ AtTurn(j)'
    <3>1. Turn' = Turn
      BY <1>3 DEF Turn
    <3>. QED
      BY <1>3, <2>1, <2>5, <3>1 DEF At, AtTurn
  <2>6. \A s : (s \in Range(fifo_enabled) /\ n < 3 * k + 3) => TakeFrame(s, At(k)) = Stopped(k)
    BY <1>1, <2>2, TakesFrame
  <2>7. \A s : s \in Range(fifo_enabled) /\ SensorOf(k + 1) = s /\ n >= 3 * k + 3
                 => TakeFrame(s, At(k)) = At(k + 1)
    BY <1>1, <1>2, <2>2, TakesFrame
  <2>8. n < 3 * k + 3 => k = WholeFrames
    BY <1>2, <2>2
  <2>9. ASSUME NEW s, r = TakeFrame(s, At(k)), s \in Range(fifo_enabled), SensorOf(k + 1) = s,
               Turn = 1
        PROVE  \E j \in 0 .. N : /\ published' = Samples[j]
                                 /\ AtTurn(j)' \/ (j = WholeFrames /\ (reading' => fifo_len' = 0))
    <3>1. CASE n < 3 * k + 3
      BY <2>2, <2>4, <2>6, <2>8, <2>9, <3>1
    <3>2. CASE n >= 3 * k + 3
      <4>1. k + 1 \in 0 .. N /\ 3 * (k + 1) <= n /\ (k + 1) % Turn = 0
        BY <1>2, <2>2, <2>9, <3>2
      <4>2. r = At(k + 1)
        BY <2>7, <2>9, <3>2
      <4>. QED
        BY <2>5, <4>1, <4>2
    <3>. QED
      BY <1>2, <2>2, <3>1, <3>2
  <2>10. CASE fifo_enabled = <<"ACC">>
    <3>1. /\ Turn = 1 /\ "ACC" \in Range(fifo_enabled) /\ "GYR" \notin Range(fifo_enabled)
          /\ SensorOf(k + 1) = "ACC"
      BY <1>1, <2>2, <2>10, Turns
    <3>2. r = TakeFrame("ACC", At(k))
      BY <2>3, <3>1, DropsRest DEF r
    <3>. QED
      BY <2>9, <3>1, <3>2
  <2>11. CASE fifo_enabled = <<"GYR">>
    <3>1. /\ Turn = 1 /\ "ACC" \notin Range(fifo_enabled) /\ "GYR" \in Range(fifo_enabled)
          /\ SensorOf(k + 1) = "GYR"
      BY <1>1, <2>2, <2>11, Turns
    <3>2. r = TakeFrame("GYR", At(k))
      BY <2>3, <3>1, DropsRest DEF r
    <3>. QED
      BY <2>9, <3>1, <3>2
  <2>12. CASE fifo_enabled = <<"ACC", "GYR">>
    <3>1. /\ Turn = 2 /\ "ACC" \in Range(fifo_enabled) /\ "GYR" \in Range(fifo_enabled)
          /\ SensorOf(k + 1) = "ACC" /\ SensorOf(k + 2) = "GYR" /\ k % 2 = 0
      <4>1. Turn = 2 /\ k % 2 = 0
        BY <1>1, <2>2, <2>12, Turns DEF AtTurn
      <4>. QED
        BY <1>1, <2>2, <2>12, <4>1, Turns
    <3>2. CASE n < 3 * k + 3
      <4>1. TakeFrame("ACC", Now) = Stopped(k)
        BY <2>3, <2>6, <3>1, <3>2
      <4>2. Stopped(k).left < 3 /\ [Stopped(k) EXCEPT !.left = 0] = Stopped(k)
        <5>1. Stopped(k) = [word |-> 3 * k + 1, left |-> 0, out |-> Samples[k]]
          BY DEF At
        <5>. HIDE DEF Stopped
        <5>. QED
          BY <5>1
      <4>3. r = Stopped(k)
        BY <3>1, <4>1, <4>2, DropsRest DEF r
      <4>. QED
        BY <2>2, <2>4, <2>8, <3>2, <4>3
    <3>3. CASE n >= 3 * k + 3 /\ n < 3 * k + 6
      <4>1. TakeFrame("ACC", Now) = At(k + 1)
        BY <2>3, <2>7, <3>1, <3>3
      <4>2. At(k + 1).left < 3
        BY <1>2, <2>2, <3>3 DEF At
      <4>3. r = Stopped(k + 1)
        BY <3>1, <4>1, <4>2, DropsRest DEF r
      <4>4. k + 1 \in 0 .. N /\ k + 1 = WholeFrames
        BY <1>2, <2>2, <3>3
      <4>. QED
        BY <2>4, <4>3, <4>4
    <3>4. CASE n >= 3 * k + 6
      <4>1. TakeFrame("ACC", Now) = At(k + 1)
        BY <1>2, <2>2, <2>3, <2>7, <3>1, <3>4
      <4>2. k + 1 # N
        <5>1. n > 3 * N => N % 2 = 0
          BY <1>1, <3>1 DEF FifoShape
        <5>. QED
          BY <1>2, <2>2, <3>1, <3>4, <5>1
      <4>3. k + 1 \in 0 .. N - 1 /\ SensorOf((k + 1) + 1) = "GYR" /\ 3 * (k + 1) + 3 <= n
            /\ (k + 1) + 1 = k + 2
        BY <1>2, <2>2, <3>1, <3>4, <4>2
      <4>4. r = At(k + 2)
        <5>1. TakeFrame("GYR", At(k + 1)) = At((k + 1) + 1)
          BY <1>1, <3>1, <4>3, TakesFrame
        <5>. QED
          BY <4>1, <4>3, <5>1 DEF r
      <4>5. k + 2 \in 0 .. N /\ 3 * (k + 2) <= n /\ (k + 2) % Turn = 0
        BY <1>2, <2>2, <3>1, <3>4, <4>3
      <4>. QED
        BY <2>5, <4>4, <4>5
    <3>. QED
      BY <1>2, <2>2, <3>2, <3>3, <3>4
  <2>. QED
    BY <1>1, <2>10, <2>11, <2>12 DEF FifoShape
<1>. QED
  BY <1>8, <1>9

(* Fewer frames make a prefix of the samples.                               *)
LEMMA SamplesGrow ==
  ASSUME FifoShape, NEW k \in 0 .. Len(stored), NEW m \in k .. Len(stored)
  PROVE  IsPrefix(Samples[k], Samples[m])
<1>. DEFINE N == Len(stored)
            Pre(short, long) ==
              /\ Len(short) <= Len(long)
              /\ \A i \in 1 .. Len(short) : short[i] = long[i]
            Good == {j \in 0 .. N : k <= j => Pre(Samples[k], Samples[j])}
<1>1. /\ N \in Nat /\ \A j \in 0 .. N : Samples[j] \in Seq(AllFrames)
      /\ \A j \in 1 .. N : stored[j] \in AllFrames
      /\ \A j \in 1 .. N : Samples[j] \in {Samples[j - 1], Append(Samples[j - 1], stored[j])}
  <2>1. N \in Nat /\ \A j \in 1 .. N : stored[j] \in AllFrames
    BY DEF FifoShape
  <2>2. /\ \A j \in 0 .. N : Samples[j] \in Seq(AllFrames)
        /\ \A j \in 1 .. N : Samples[j] = IF stored[j] = NoSample(SensorOf(j))
                                          THEN Samples[j - 1]
                                          ELSE Append(Samples[j - 1], stored[j])
    BY SamplesAre
  <2>3. ASSUME NEW j \in 1 .. N
        PROVE  Samples[j] \in {Samples[j - 1], Append(Samples[j - 1], stored[j])}
    BY <2>2
  <2>. QED
    BY <2>1, <2>2, <2>3
<1>2. Pre(Samples[k], Samples[k])
  BY <1>1
<1>3. 0 \in Good
  BY <1>1, <1>2
<1>4. ASSUME NEW j \in 0 .. N - 1, j \in Good PROVE j + 1 \in Good
  <2>1. CASE k = j + 1
    BY <1>1, <1>2, <2>1
  <2>2. CASE k # j + 1
    <3>1. SUFFICES ASSUME k <= j PROVE Pre(Samples[k], Samples[j + 1])
      BY <1>1, <2>2
    <3>2. /\ j \in 0 .. N /\ j + 1 \in 1 .. N /\ j + 1 - 1 = j
          /\ Samples[k] \in Seq(AllFrames) /\ Samples[j] \in Seq(AllFrames)
          /\ stored[j + 1] \in AllFrames
      BY <1>1, <3>1
    <3>3. Samples[j + 1] \in {Samples[j], Append(Samples[j], stored[j + 1])}
      BY <1>1, <3>2
    <3>4. Pre(Samples[k], Samples[j])
      BY <1>4, <3>1
    <3>5. Pre(Samples[j], Append(Samples[j], stored[j + 1]))
      BY <3>2
    <3>. DEFINE short == Samples[k]
                long == Samples[j]
                longer == Append(long, stored[j + 1])
    <3>6. short \in Seq(AllFrames) /\ long \in Seq(AllFrames) /\ longer \in Seq(AllFrames)
      BY <3>2
    <3>. HIDE DEF short, long, longer
    <3>7. Pre(short, long) /\ Pre(long, longer)
      BY <3>4, <3>5 DEF short, long, longer
    <3>8. Pre(short, longer)
      BY <3>6, <3>7
    <3>. HIDE DEF Pre
    <3>. QED
      BY <3>3, <3>7, <3>8 DEF short, long, longer
  <2>. QED
    BY <2>1, <2>2
<1>5. m \in Good
  <2>. HIDE DEF Good
  <2>1. \A j \in 0 .. N : j \in Good
    BY ONLY <1>1, <1>3, <1>4, UpTo
  <2>. QED
    BY <1>1, <2>1
<1>. DEFINE short == Samples[k]
            long == Samples[m]
            u == SubSeq(long, 1, Len(short))
<1>6. short \in Seq(AllFrames) /\ long \in Seq(AllFrames) /\ Pre(short, long)
  BY <1>1, <1>5
<1>. HIDE DEF short, long
<1>7. u = short /\ SubSeq(short, 1, Len(short)) = short
  <2>1. 1 \in Int /\ Len(short) \in Nat /\ \A i \in 1 .. Len(short) : long[i] \in AllFrames
    BY <1>6
  <2>2. /\ u \in Seq(AllFrames) /\ Len(u) = IF 1 <= Len(short) THEN Len(short) - 1 + 1 ELSE 0
        /\ \A i \in 1 .. Len(short) - 1 + 1 : u[i] = long[1 + i - 1]
    BY <2>1, SubSeqProperties
  <2>3. Len(short) - 1 + 1 = Len(short) /\ \A i \in 1 .. Len(short) : 1 + i - 1 = i
    BY <2>1
  <2>. HIDE DEF u
  <2>4. Len(u) = Len(short) /\ \A i \in 1 .. Len(short) : u[i] = short[i]
    BY <1>6, <2>1, <2>2, <2>3
  <2>. QED
    BY <1>6, <2>2, <2>4, SubSeqFull
<1>. QED
  BY <1>6, <1>7 DEF IsPrefix, short, long

(* The parser of a FIFO burst always stands at a frame of the turn it       *)
(* expects, and has published the samples of the frames before.             *)
THEOREM FifoInvariant == FifoSpec => []FifoInv
<1>1. FifoInit => FifoInv
  BY FifoStarts
<1>2. FifoInv /\ [FifoNext]_fifoVars => FifoInv'
  <2>. SUFFICES ASSUME FifoInv, [FifoNext]_fifoVars PROVE FifoInv'
    OBVIOUS
  <2>1. CASE FifoNext
    BY <2>1, FifoStep DEF FifoNext
  <2>2. CASE UNCHANGED fifoVars
    <3>1. UNCHANGED <<fifo_enabled, stored, buf, word, fifo_len, published, reading>>
      BY <2>2 DEF fifoVars
    <3>2. FifoShape' = FifoShape /\ Samples' = Samples /\ WholeFrames' = WholeFrames
      BY <3>1 DEF FifoShape, AllFrames, Storable, SensorOf, Turn, Samples, WholeFrames
    <3>3. \A k : AtTurn(k)' = AtTurn(k)
      BY <3>1 DEF AtTurn, Turn
    <3>. QED
      BY <3>1, <3>2, <3>3 DEF FifoInv
  <2>. QED
    BY <2>1, <2>2
<1>. QED
  BY <1>1, <1>2, PTL DEF FifoSpec

(* demo_handle_wtm_irq_event publishes each sample that was read whole,     *)
(* once, in order and to its own sensor, and no dummy.                      *)
THEOREM FifoAlwaysDelivers == FifoSpec => []FifoDelivers
<1>1. FifoInv => FifoDelivers
  <2>. SUFFICES ASSUME FifoInv PROVE FifoDelivers
    OBVIOUS
  <2>1. PICK k \in 0 .. Len(stored) :
          /\ FifoShape /\ published = Samples[k]
          /\ AtTurn(k) \/ (k = WholeFrames /\ (reading => fifo_len = 0))
    BY DEF FifoInv
  <2>2. /\ Len(buf) \in Nat /\ Len(stored) \in Nat
        /\ WholeFrames \in {Len(stored), Len(buf) \div 3} /\ WholeFrames <= Len(stored)
    BY <2>1, WholeFramesIs
  <2>3. WholeFrames \in k .. Len(stored)
    BY <2>1, <2>2 DEF AtTurn
  <2>4. IsPrefix(published, Samples[WholeFrames])
    BY <2>1, <2>3, SamplesGrow
  <2>5. ~ reading => published = Samples[WholeFrames]
    BY <2>1 DEF AtTurn
  <2>. QED
    BY <2>4, <2>5 DEF FifoDelivers, WholeFrames
<1>. QED
  BY <1>1, FifoInvariant, PTL
=============================================================================
