----------------------------- MODULE MouseKeys -----------------------------
(***************************************************************************)
(* The USB mouse whose buttons are keys (USB/usb_mouse4.c).  One urb goes  *)
(* round: the host controller fills the buffer and calls the completion    *)
(* handler, which reports what changed and submits the urb again.          *)
(***************************************************************************)
EXTENDS Integers, FiniteSets

Keyed == {"L", "S", "ENTER"}    \* left, right and middle button

VARIABLES
    plugged,    \* "out", "in", or "leaving" while disconnect runs
    urb,        \* "none", "idle" (no one will submit it), "submitted" or "completed"
    usb_buf,    \* the buttons that are down in the buffer
    buttons,    \* the buttons that are down
    news,       \* the mouse has something to report
    pre_val,    \* the buttons the handler saw last; static
    keys        \* the keys that are down for the input layer

mouseVars == <<plugged, urb, usb_buf, buttons, news, pre_val, keys>>

MouseInit ==
    /\ plugged = "out" /\ urb = "none"
    /\ usb_buf = {} /\ buttons = {} /\ news = FALSE /\ pre_val = {} /\ keys = {}

\* Neither probe nor the handler looks at what usb_submit_urb returns.  It may
\* refuse at any time.
usb_submit_urb == urb' \in {"submitted", "idle"}

\* The new buffer holds anything until the first report.
probe ==
    /\ plugged = "out"
    /\ plugged' = "in" /\ usb_submit_urb
    /\ usb_buf' \in SUBSET Keyed
    /\ UNCHANGED <<buttons, news, pre_val, keys>>

Press ==
    /\ \E b \in Keyed: buttons' = (buttons \ {b}) \cup ({b} \ buttons)
    /\ news' = TRUE
    /\ UNCHANGED <<plugged, urb, usb_buf, pre_val, keys>>

\* The host controller: a report, or a transfer that failed and leaves the buffer
\* as it was; the handler does not look at the urb's status.
Complete ==
    /\ urb = "submitted"
    /\ \/ usb_buf' = buttons /\ news' = FALSE
       \/ UNCHANGED <<usb_buf, news>>
    /\ urb' = "completed"
    /\ UNCHANGED <<plugged, buttons, pre_val, keys>>

(* A key whose button changed gets the value of the left button: all three
   reports test bit 0.  Once the urb is killed its submission is refused. *)
usbmouse_as_key_irq ==
    LET changed == (pre_val \ usb_buf) \cup (usb_buf \ pre_val)
    IN  /\ urb = "completed"
        /\ keys' = IF "L" \in usb_buf THEN keys \cup changed ELSE keys \ changed
        /\ pre_val' = usb_buf
        /\ IF plugged = "in" THEN usb_submit_urb ELSE urb' = "idle"
        /\ UNCHANGED <<plugged, usb_buf, buttons, news>>

\* usb_kill_urb: a submitted urb is completed with an error, which calls the
\* handler; the kill waits for it.
Disconnect ==
    /\ plugged = "in"
    /\ plugged' = "leaving"
    /\ urb' = IF urb = "submitted" THEN "completed" ELSE urb
    /\ UNCHANGED <<usb_buf, buttons, news, pre_val, keys>>

\* The buffer is freed; unregistering the input device releases its keys.
FreeUrb ==
    /\ plugged = "leaving" /\ urb = "idle"
    /\ plugged' = "out" /\ urb' = "none" /\ usb_buf' = {} /\ keys' = {}
    /\ UNCHANGED <<buttons, news, pre_val>>

MouseNext ==
    probe \/ Press \/ Complete \/ usbmouse_as_key_irq \/ Disconnect \/ FreeUrb

\* The host polls a mouse whose urb is submitted, and one that has something to
\* report answers or fails; one that has not may keep the urb for ever.
MouseFairness == WF_mouseVars(news /\ Complete) /\ WF_mouseVars(usbmouse_as_key_irq)
-----------------------------------------------------------------------------
(* A mouse that stays, and whose urb no submission refuses, is not left
   alone with something to report: the handler runs again and again until
   it has been reported. *)
UrbGoesRound == <>[](plugged = "in" /\ urb # "idle") => []<>(urb = "completed" \/ ~ news)

(* The same of every mouse that stays.  TLC refutes it: after one refused
   submission there is no other input until the mouse is plugged in again,
   and nothing says so. *)
MouseStaysHeard == <>[](plugged = "in") => []<>(urb = "completed" \/ ~ news)

(* The key of the left button is down only if the handler saw the button
   down last: it does not hang through a disconnect, after which the old
   buttons are still remembered but the input device is a new one.  Of the
   other two this cannot be said: their keys get the left button's value. *)
LeftKeyNeverStuck == "L" \in keys => "L" \in pre_val
=============================================================================
