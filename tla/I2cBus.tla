-------------------------------- MODULE I2cBus --------------------------------
(***************************************************************************)
(* The I2C adapter of the S3C2440 (i2c/3.4.2内核/i2c_bus.c): master_xfer      *)
(* starts the first message and sleeps; the interrupt handler then moves   *)
(* byte by byte and message by message to the stop, and wakes the caller.  *)
(*                                                                         *)
(* The chip has one processor, so the handler is one step.  The I2C core   *)
(* lets one transfer in at a time.  The bus is modelled as the sequence of *)
(* what was clocked out on it since the transfer began (wire).             *)
(***************************************************************************)
EXTENDS Integers, Sequences

CONSTANTS
  Transfers,  \* the arrays of messages that callers pass to master_xfer
  Stalls      \* TRUE: a device may hold the clock for ever

Messages == [rd : BOOLEAN, len : Nat]

ASSUME TransfersAssumption ==
  /\ Transfers \subseteq Seq(Messages) \ {<<>>}
  /\ Stalls \in BOOLEAN

VARIABLES
  msgs,      \* the messages of the current or last transfer
  cur_msg,   \* index of the current message, from 0
  cur_ptr,   \* index of the current byte in it, from 0
  state,     \* STATE_IDLE, _START, _READ, _WRITE or _STOP
  err,       \* 0 or the error that was met
  caller,    \* "out", or "waiting" in master_xfer
  result,    \* what master_xfer returned last
  \* the controller and the bus
  bus,       \* what the controller is about to clock out, or "idle"
  ack_next,  \* bit 7 of iiccon: acknowledge the byte that is received
  stalled,   \* the device holds the clock
  wire       \* what was clocked out, see Events

busVars == <<msgs, cur_msg, cur_ptr, state, err, caller, result, bus, ack_next,
          stalled, wire>>

States == {"IDLE", "START", "READ", "WRITE", "STOP"}
Results == {"none", "0", "ENODEV", "ETIMEOUT"}

(* An address is the byte before the first one of its message.              *)
Event(op, m, p, ack) == [op |-> op, msg |-> m, ptr |-> p, ack |-> ack]
P == Event("P", 0, 0, TRUE)

msg == msgs[cur_msg + 1]

BusInit ==
  /\ msgs = <<>> /\ cur_msg = 0 /\ cur_ptr = 0
  /\ state = "IDLE" /\ err = "0"
  /\ caller = "out" /\ result = "none"
  /\ bus = "idle" /\ ack_next = TRUE /\ stalled = FALSE
  /\ wire = <<>>

-----------------------------------------------------------------------------
isLastMsg == cur_msg = Len(msgs) - 1
isEndData(p) == p >= msg.len
isLastData(p) == p = msg.len - 1

(* s3c2440_i2c_start.                                                       *)
i2c_start ==
  /\ state' = "START"
  /\ bus' = "address"

(* s3c2440_i2c_stop: the P goes out before the caller is woken.             *)
i2c_stop(error, clocked) ==
  /\ state' = "STOP"
  /\ err' = error
  /\ bus' = "idle"
  /\ ack_next' = TRUE
  /\ wire' = Append(clocked, P)
  /\ UNCHANGED <<cur_msg, cur_ptr>>

(* s3c2440_i2c_xfer up to the sleep.                                        *)
master_xfer(transfer) ==
  /\ caller = "out"
  /\ caller' = "waiting"
  /\ msgs' = transfer /\ cur_msg' = 0 /\ cur_ptr' = 0
  /\ err' = "ENODEV"
  /\ i2c_start
  /\ stalled' = FALSE
  /\ wire' = <<>>
  /\ UNCHANGED <<result, ack_next>>

(* wait_event_timeout: the handler has stopped the bus, or five seconds are *)
(* over, in which case the state is left as it is.                          *)
XferReturns ==
  /\ caller = "waiting"
  /\ state = "STOP"
  /\ caller' = "out"
  /\ result' = err
  /\ UNCHANGED <<msgs, cur_msg, cur_ptr, state, err, bus, ack_next, stalled,
                 wire>>

XferTimesOut ==
  /\ caller = "waiting"
  /\ state # "STOP"
  /\ stalled \/ bus = "idle"
  /\ caller' = "out"
  /\ result' = "ETIMEOUT"
  /\ UNCHANGED <<msgs, cur_msg, cur_ptr, state, err, bus, ack_next, stalled,
                 wire>>

-----------------------------------------------------------------------------
(* What the controller clocks out before it interrupts.  A device answers   *)
(* an address and a byte it is sent with ack; a byte that is received is    *)
(* acknowledged by the controller.                                          *)
ClockedOut(ack) ==
  IF bus = "address" THEN Event("S", cur_msg, -1, ack)
  ELSE IF bus = "write" THEN Event("W", cur_msg, cur_ptr - 1, ack)
  ELSE Event("R", cur_msg, cur_ptr, ack_next)

(* The next message, with a repeated start.                                 *)
next_msg_same_ptr(clocked) ==
  /\ cur_msg' = cur_msg + 1
  /\ i2c_start
  /\ wire' = clocked
  /\ UNCHANGED <<cur_ptr, err, ack_next>>
next_msg_not_started(clocked) ==
  /\ cur_msg' = cur_msg + 1
  /\ cur_ptr' = 0
  /\ state' = "START" /\ bus' = "idle"
  /\ wire' = clocked
  /\ UNCHANGED <<err, ack_next>>
next_msg(clocked) ==
  /\ cur_msg' = cur_msg + 1
  /\ cur_ptr' = 0
  /\ i2c_start
  /\ wire' = clocked
  /\ UNCHANGED <<err, ack_next>>

(* The end of a message whose bytes are all transferred.                    *)
msg_done(clocked) ==
  IF isLastMsg THEN i2c_stop("0", clocked) ELSE next_msg(clocked)

(* case STATE_WRITE, also entered from STATE_START.                         *)
write_step_unchecked(ack, clocked) ==
  IF isEndData(cur_ptr) THEN msg_done(clocked)
  ELSE /\ state' = "WRITE"
       /\ cur_ptr' = cur_ptr + 1
       /\ ack_next' = TRUE
       /\ bus' = "write"
       /\ wire' = clocked
       /\ UNCHANGED <<cur_msg, err>>
write_step(ack, clocked) ==
  \/ ~ack /\ i2c_stop("ENODEV", clocked)
  \/ ack /\ isEndData(cur_ptr) /\ msg_done(clocked)
  \/ /\ ack /\ ~isEndData(cur_ptr)
     /\ state' = "WRITE"
     /\ cur_ptr' = cur_ptr + 1
     /\ ack_next' = TRUE
     /\ bus' = "write"
     /\ wire' = clocked
     /\ UNCHANGED <<cur_msg, err>>

(* next_read with the pointer at p: receive one byte more, the last one     *)
(* without an acknowledgement.                                              *)
next_read(p, clocked) ==
  \/ isEndData(p) /\ msg_done(clocked)
  \/ /\ ~isEndData(p)
     /\ state' = "READ"
     /\ cur_ptr' = p
     /\ ack_next' = ~isLastData(p)
     /\ bus' = "read"
     /\ wire' = clocked
     /\ UNCHANGED <<cur_msg, err>>

(* case STATE_START.                                                        *)
start_step(ack, clocked) ==
  \/ ~ack /\ i2c_stop("ENODEV", clocked)
  \/ ack /\ isLastMsg /\ isEndData(cur_ptr) /\ i2c_stop("0", clocked)
  \/ /\ ack /\ ~(isLastMsg /\ isEndData(cur_ptr))
     /\ IF msg.rd THEN next_read(cur_ptr, clocked)
        ELSE write_step(ack, clocked)

(* s3c2440_i2c_xfer_irq.                                                    *)
xfer_irq(ack) ==
  /\ bus # "idle"
  /\ ~stalled
  /\ LET clocked == Append(wire, ClockedOut(ack))
     IN \/ state = "START" /\ start_step(ack, clocked)
        \/ state = "WRITE" /\ write_step(ack, clocked)
        \/ state = "READ"  /\ next_read(cur_ptr + 1, clocked)
  /\ UNCHANGED <<msgs, caller, result, stalled>>

(* A device holds the clock: there is no interrupt any more.                *)
Stall ==
  /\ Stalls
  /\ bus # "idle"
  /\ ~stalled
  /\ stalled' = TRUE
  /\ UNCHANGED <<msgs, cur_msg, cur_ptr, state, err, caller, result, bus,
                 ack_next, wire>>

BusNext ==
  \/ \E transfer \in Transfers : master_xfer(transfer)
  \/ \E ack \in BOOLEAN : xfer_irq(ack)
  \/ Stall
  \/ XferReturns
  \/ XferTimesOut

BusSpec == BusInit /\ [][BusNext]_busVars

(* The controller interrupts unless the device holds the clock; the kernel  *)
(* runs a process that was woken or whose timeout is over.                  *)
BusFairness ==
  /\ WF_busVars(\E ack \in BOOLEAN : xfer_irq(ack))
  /\ WF_busVars(XferReturns)
  /\ WF_busVars(XferTimesOut)

-----------------------------------------------------------------------------
BusTypeOK ==
  /\ msgs \in Seq(Messages)
  /\ cur_msg \in Nat
  /\ cur_ptr \in Nat
  /\ state \in States
  /\ err \in {"0", "ENODEV"}
  /\ caller \in {"out", "waiting"}
  /\ result \in Results
  /\ bus \in {"idle", "address", "read", "write"}
  /\ ack_next \in BOOLEAN
  /\ stalled \in BOOLEAN

(* Every byte that is read from or stored into a buffer lies in the message *)
(* that is current at that moment: the handler stores into buf[cur_ptr]     *)
(* before it looks at the length, so the pointer has to be right when the   *)
(* state becomes READ, over messages of any length, the empty one included. *)
BufferInBounds ==
  /\ state \in {"START", "READ", "WRITE"} => cur_msg < Len(msgs)
  /\ state = "READ" => cur_ptr < msg.len
  /\ state = "WRITE" => cur_ptr \in 1 .. msg.len

(* What the bus protocol lets follow an event of the transfer.              *)
FollowsOnWire(e) ==
  LET m == msgs[e.msg + 1]
  IN IF e.op # "R" /\ ~e.ack THEN {P}
     ELSE IF e.ptr + 1 < m.len
     THEN IF m.rd
          THEN {Event("R", e.msg, e.ptr + 1, e.ptr + 2 < m.len)}
          ELSE {Event("W", e.msg, e.ptr + 1, ack) : ack \in BOOLEAN}
     ELSE IF e.msg + 1 < Len(msgs)
     THEN {Event("S", e.msg + 1, -1, ack) : ack \in BOOLEAN}
     ELSE {P}

(* What goes over the bus is the transfer that was asked for: every message *)
(* with its address and all its bytes in order, each one read acknowledged  *)
(* but the last, and a stop after the last message or the first refusal.    *)
WireFollowsProtocol ==
  /\ wire # <<>> =>
       wire[1] \in {Event("S", 0, -1, ack) : ack \in BOOLEAN}
  /\ \A k \in 1 .. Len(wire) - 1 :
       wire[k].op # "P" /\ wire[k + 1] \in FollowsOnWire(wire[k])

(* A transfer that returns 0 was stopped after its last byte, one that      *)
(* returns ENODEV after a refused address or byte, and the bus is stopped   *)
(* before the caller is told so.                                            *)
ResultMatchesWire ==
  state = "STOP" =>
    /\ Len(wire) > 1 /\ wire[Len(wire)] = P
    /\ LET last == wire[Len(wire) - 1]
       IN (err = "ENODEV") <=> (last.op # "R" /\ ~last.ack)

(* The handler reaches the stop for every sequence of messages, unless a    *)
(* device holds the clock: the time-out is never what ends a transfer over  *)
(* a bus that works, because each step clocks out something new.            *)
HandlerReachesStop == caller = "waiting" ~> (state = "STOP" \/ stalled)
=============================================================================
