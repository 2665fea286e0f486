------------------------------ MODULE DmaCopy ------------------------------
(***************************************************************************)
(* The DMA driver (DMA/dma2.c): processes ask with ioctl for the copy of   *)
(* one buffer into another and sleep until the channel's interrupt has set *)
(* ev_dma.  There is no lock: each call sets ev_dma to 0 and starts the    *)
(* channel, whoever else uses it.                                          *)
(***************************************************************************)
EXTENDS Integers, FiniteSets

CONSTANT Callers   \* processes that call ioctl

VARIABLES
    driver,     \* "out", the step s3c_dma_init is at, "in", "failed", or "stuck" in its exit
    held,       \* what the module holds
    ev_dma,
    channel,    \* the channel transfers
    irq_dma,    \* its interrupt is due
    at          \* where each caller is: "user", "programming", "waiting"

dmaVars == <<driver, held, ev_dma, channel, irq_dma, at>>

DmaInit ==
    /\ driver = "out" /\ held = {}
    /\ ev_dma = FALSE /\ channel = FALSE /\ irq_dma = FALSE
    /\ at = [p \in Callers |-> "user"]

dmaRuntime == <<ev_dma, channel, irq_dma, at>>

request_irq ==
    /\ driver \in {"out", "failed"}
    /\ \/ driver' = "src" /\ held' = {"irq"}
       \/ driver' = "failed" /\ held' = {}
    /\ UNCHANGED dmaRuntime

AllocSrc ==
    /\ driver = "src"
    /\ \/ driver' = "dst" /\ held' = held \cup {"src"}
       \/ driver' = "failed" /\ held' = held \ {"irq"}
    /\ UNCHANGED dmaRuntime

\* What s3c_dma_init takes without a look at the result: it returns 0 whichever
\* of them it got.  Without the class there is no node.
Unchecked == {"major", "class", "node", "regs"}

AllocDst ==
    /\ driver = "dst"
    /\ \/ \E got \in SUBSET Unchecked:
            /\ "node" \in got => "class" \in got
            /\ driver' = "in" /\ held' = held \cup {"dst"} \cup got
       \/ driver' = "failed" /\ held' = held \ {"irq", "src"}
    /\ UNCHANGED dmaRuntime

\* The file operations hold the module while a process is in ioctl.  Without
\* the class, class_device_destroy follows an error for a pointer: rmmod dies
\* there, and the module keeps the rest.
s3c_dma_exit ==
    /\ driver = "in" /\ \A p \in Callers: at[p] = "user"
    /\ IF "class" \in held THEN driver' = "out" /\ held' = {} /\ irq_dma' = FALSE
       ELSE driver' = "stuck" /\ held' = held \ {"regs"} /\ UNCHANGED irq_dma
    /\ UNCHANGED <<ev_dma, channel, at>>

\* Without a device number nobody opens the device.
IoctlStarts(p) ==
    /\ driver = "in" /\ "major" \in held /\ at[p] = "user"
    /\ ev_dma' = FALSE
    /\ at' = [at EXCEPT ![p] = "programming"]
    /\ UNCHANGED <<driver, held, channel, irq_dma>>

\* Registers that were never mapped: the process dies and its file is closed.
DiesUnmapped(p) ==
    /\ at[p] = "programming" /\ "regs" \notin held
    /\ at' = [at EXCEPT ![p] = "user"]
    /\ UNCHANGED <<driver, held, ev_dma, channel, irq_dma>>

\* The registers are set and the channel is started, also when it is running.
StartChannel(p) ==
    /\ at[p] = "programming" /\ "regs" \in held
    /\ channel' = TRUE
    /\ at' = [at EXCEPT ![p] = "waiting"]
    /\ UNCHANGED <<driver, held, ev_dma, irq_dma>>

TransferEnds ==
    /\ channel
    /\ channel' = FALSE
    /\ irq_dma' = TRUE
    /\ UNCHANGED <<driver, held, ev_dma, at>>

\* MUTANT: the processes are woken and find the flag as it was.
s3c_dma_irq_unset ==
    /\ irq_dma /\ "irq" \in held
    /\ irq_dma' = FALSE
    /\ UNCHANGED <<driver, held, ev_dma, channel, at>>

s3c_dma_irq ==
    /\ irq_dma /\ "irq" \in held
    /\ irq_dma' = FALSE
    /\ ev_dma' = TRUE
    /\ UNCHANGED <<driver, held, channel, at>>

\* Woken, by the interrupt or by a signal, which is not told apart, the
\* process copies the buffer itself before it compares.
IoctlReturns(p) ==
    /\ at[p] = "waiting"
    /\ at' = [at EXCEPT ![p] = "user"]
    /\ UNCHANGED <<driver, held, ev_dma, channel, irq_dma>>

s3c_dma_ioctl(p) ==
    IoctlStarts(p) \/ DiesUnmapped(p) \/ StartChannel(p) \/ (ev_dma /\ IoctlReturns(p))
SignalDma(p) == IoctlReturns(p)

DmaNext ==
    \/ request_irq \/ AllocSrc \/ AllocDst \/ s3c_dma_exit
    \/ \E p \in Callers: s3c_dma_ioctl(p) \/ SignalDma(p)
    \/ TransferEnds \/ s3c_dma_irq

DmaSpec == DmaInit /\ [][DmaNext]_dmaVars
-----------------------------------------------------------------------------
(* A process sleeps only while something is on its way that will set the
   flag: a transfer, its interrupt, or another caller that is about to
   start the channel.  The flag another caller clears between a process's
   interrupt and its waking is set again by that caller's transfer. *)
SleeperWillBeWoken ==
    (\E p \in Callers: at[p] = "waiting") =>
        ev_dma \/ channel \/ irq_dma \/ \E p \in Callers: at[p] = "programming"

(* A loading that fails at one of the three steps that s3c_dma_init looks at,
   and an unloading that gets through, leave nothing held; and a process
   sleeps for the channel only with its interrupt, its buffers and its
   registers there. *)
HeldWhileNeeded ==
    /\ driver \in {"out", "failed"} => held = {}
    /\ (\E p \in Callers: at[p] = "waiting") => {"irq", "src", "dst", "regs"} \subseteq held

(* A module that says it is loaded has all it asked for.  TLC refutes it: the
   results of register_chrdev, class_create, class_device_create and
   ioremap are ignored. *)
LoadedIsComplete == driver = "in" => held = {"irq", "src", "dst"} \cup Unchecked
=============================================================================
