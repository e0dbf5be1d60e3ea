------------------------------- MODULE Interrupts -------------------------------
(***************************************************************************)
(* How the kernel comes to hear its devices: the interrupt table (cpu.c),  *)
(* the two 8259 controllers (pic.c), the interval timer (timer.c) and the  *)
(* handlers of their interrupts (timer_irq.asm, serial_irq.asm).           *)
(*                                                                         *)
(* Three parties interleave: the kernel, that runs cpu_driver_init and     *)
(* then one cpu_install_device after the other; the devices and            *)
(* controllers, that raise and deliver requests at any time; and the       *)
(* handler of the request delivered, that runs with interrupts off while   *)
(* the kernel waits.  The controllers are modelled from how the code       *)
(* drives them: edges are latched, IRQ 0 goes first, a request waits until *)
(* no other of its rank or above is in service, and the second controller  *)
(* reaches the processor through IRQ 2 of the first.                       *)
(***************************************************************************)
EXTENDS Integers, Sequences, FiniteSets

CONSTANTS
    MaxInterrupts,  \* MAX_INTERRUPTS, the entries of the table
    Installs,       \* the calls of cpu_install_device: [irq, routine], in order
    Devices,        \* the IRQs whose device is connected
    TickLimit       \* the values of pit_tick_count, 2^32

IRQ == 0..15
Chip(irq) == IF irq < 8 THEN 0..7 ELSE 8..15
Cascade == 2
DEVICE_INTERRUPT_BASE == 32                        \* 0x20
BiosBase == [first |-> 8, second |-> 112]

\* the exceptions install_cpu_exceptions installs a handler for
ExceptionVectors == (0..8) \cup (10..14) \cup (16..20) \cup {30}

ASSUME InterruptsAssumption ==
    /\ MaxInterrupts \in Nat /\ MaxInterrupts >= DEVICE_INTERRUPT_BASE + 16
    /\ Installs \in Seq([irq : IRQ, routine : STRING])
    /\ Devices \subseteq IRQ
    /\ TickLimit \in Nat \ {0}

\* IRQ 2 is the line of the second controller, and drivers bring their own routine
ASSUME DriversAssumption ==
    \A i \in DOMAIN Installs : Installs[i].irq # Cascade /\ Installs[i].routine # "default"

Vector == 0..(MaxInterrupts - 1)

VARIABLES
    interrupts,      \* the table: which routine each vector runs
    iflag,            \* the interrupt flag of the processor
    base,            \* the vectors of the first IRQ of each controller
    mask,            \* the IRQs that are masked
    irr,             \* the requests that wait
    isr,             \* the requests in service
    pc,              \* where the kernel is
    todo,            \* the calls of cpu_install_device still to make
    port,            \* what inportb read from the mask register
    handler,         \* the handler that runs
    pit_tick_count

vars == <<interrupts, iflag, base, mask, irr, isr, pc, todo, port, handler,
          pit_tick_count>>
kernelVars == <<pc, todo, port>>
picVars == <<base, mask, irr, isr>>

NoHandler == [irq |-> -1, routine |-> "none", at |-> "none"]

\* the loader leaves interrupts off, and some of them masked
Init ==
    /\ interrupts = [v \in Vector |-> "none"]
    /\ iflag = FALSE
    /\ base = BiosBase
    /\ mask \in {{}, IRQ, IRQ \ {0}}
    /\ irr = {} /\ isr = {}
    /\ pc = "vectors"
    /\ todo = Installs
    /\ port = {}
    /\ handler = NoHandler
    /\ pit_tick_count = 0

-------------------------------------------------------------------------------
(***************************************************************************)
(* The kernel.  It runs while no handler does.                             *)
(***************************************************************************)
At(p) == pc = p /\ handler = NoHandler

\* where the kernel goes when an installation is done
Onward(rest) == IF rest = <<>> THEN "running" ELSE "install"

\* the code's test lets MAX_INTERRUPTS itself through (cpu.c:153), one past
\* the table; no call of the kernel has it
install_handler(table, index, routine) ==
    IF index \in DOMAIN table THEN [table EXCEPT ![index] = routine] ELSE table

\* cpu_driver_init: the default handler everywhere, then the exceptions
LoadVectors ==
    /\ At("vectors")
    /\ iflag' = FALSE
    /\ interrupts' = [v \in Vector |-> IF v \in ExceptionVectors THEN "exception" ELSE "default"]
    /\ pc' = "remap"
    /\ UNCHANGED <<picVars, todo, port, handler, pit_tick_count>>

\* the first initialisation word clears what is latched; the masks are put back
pic_8259a_initialize ==
    /\ At("remap")
    /\ base' = [first |-> DEVICE_INTERRUPT_BASE, second |-> DEVICE_INTERRUPT_BASE + 8]
    /\ irr' = {} /\ isr' = {}
    /\ pc' = "disable"
    /\ UNCHANGED <<interrupts, iflag, mask, todo, port, handler, pit_tick_count>>

AllMasked_FirstOnly_Mutant == 8..15

AllMasked == IRQ

pic_8259a_disable ==
    /\ At("disable")
    /\ mask' = AllMasked
    /\ pc' = "start"
    /\ UNCHANGED <<interrupts, iflag, base, irr, isr, todo, port, handler, pit_tick_count>>

StartInterrupts ==
    /\ At("start")
    /\ iflag' = TRUE
    /\ pc' = Onward(todo)
    /\ UNCHANGED <<interrupts, picVars, todo, port, handler, pit_tick_count>>

(***************************************************************************)
(* cpu_install_device: the entry with interrupts off, then the mask, that  *)
(* is read and written back with interrupts on.                            *)
(***************************************************************************)

Index(irq) == irq + DEVICE_INTERRUPT_BASE

InstallHandler ==
    /\ At("install")
    /\ iflag' = FALSE
    /\ interrupts' = install_handler(interrupts, Index(Head(todo).irq), Head(todo).routine)
    /\ pc' = "installed"
    /\ UNCHANGED <<picVars, todo, port, handler, pit_tick_count>>

HandlerInstalled ==
    /\ At("installed")
    /\ iflag' = TRUE
    /\ pc' = "read_mask"
    /\ UNCHANGED <<interrupts, picVars, todo, port, handler, pit_tick_count>>

ReadMask ==
    /\ At("read_mask")
    /\ port' = mask \cap Chip(Head(todo).irq)
    /\ pc' = "write_mask"
    /\ UNCHANGED <<interrupts, iflag, picVars, todo, handler, pit_tick_count>>

Unmasked_Lone_Mutant(irq) == Chip(irq) \ {irq}

Unmasked(irq) == port \ {irq}

\* pit_8254_initialize goes on to start the timer
pic_8259a_unmask_irq ==
    LET irq == Head(todo).irq
    IN  /\ At("write_mask")
        /\ mask' = (mask \ Chip(irq)) \cup Unmasked(irq)
        /\ pc' = IF irq = 0 THEN "pit" ELSE Onward(Tail(todo))
        /\ todo' = Tail(todo)
        /\ UNCHANGED <<interrupts, iflag, base, irr, isr, port, handler, pit_tick_count>>

\* the count given to the timer sets its rate, which is left out: it may tick at any time
pit_8254_start ==
    /\ At("pit")
    /\ pc' = Onward(todo)
    /\ UNCHANGED <<interrupts, iflag, picVars, todo, port, handler, pit_tick_count>>

Kernel ==
    \/ LoadVectors \/ pic_8259a_initialize \/ pic_8259a_disable \/ StartInterrupts
    \/ InstallHandler \/ HandlerInstalled \/ ReadMask \/ pic_8259a_unmask_irq \/ pit_8254_start

-------------------------------------------------------------------------------
(***************************************************************************)
(* The devices and the controllers.                                        *)
(***************************************************************************)
Raise(irq) ==
    /\ irr' = irr \cup {irq}
    /\ UNCHANGED <<interrupts, iflag, base, mask, isr, kernelVars, handler, pit_tick_count>>

\* IRQs 8 to 15 rank where IRQ 2 does
Rank(irq) == IF irq < 8 THEN irq * 8 ELSE Cascade * 8 + irq - 7

Requested(irq) ==
    /\ irq \in irr \ mask
    /\ irq >= 8 => Cascade \notin mask

Deliverable(irq) ==
    /\ Requested(irq)
    /\ \A other \in isr : Rank(irq) < Rank(other)
    /\ \A other \in irr : Requested(other) => Rank(irq) <= Rank(other)

VectorOf(irq) == IF irq < 8 THEN base.first + irq ELSE base.second + irq - 8

Enter(irq, vector) ==
    /\ iflag /\ handler = NoHandler
    /\ iflag' = FALSE
    /\ handler' = [irq |-> irq, routine |-> interrupts[vector], at |-> "work"]

Deliver(irq) ==
    /\ Deliverable(irq)
    /\ Enter(irq, VectorOf(irq))
    /\ irr' = irr \ {irq}
    /\ isr' = isr \cup {irq} \cup (IF irq >= 8 THEN {Cascade} ELSE {})
    /\ UNCHANGED <<interrupts, base, mask, kernelVars, pit_tick_count>>

\* a request that was withdrawn is delivered as IRQ 7 and not put in service
Spurious ==
    /\ Enter(-1, base.first + 7)
    /\ UNCHANGED <<interrupts, picVars, kernelVars, pit_tick_count>>

-------------------------------------------------------------------------------
(***************************************************************************)
(* The handlers.  The default handler prints and returns.                  *)
(***************************************************************************)
Ticked_NoWrap_Mutant(n) == n + 1

Ticked(n) == (n + 1) % TickLimit

HandlerAt(p) == handler.at = p

AfterWork_NoEoi_Mutant(routine) == "return"

AfterWork(routine) == IF routine = "default" THEN "return" ELSE "eoi"

Work ==
    /\ HandlerAt("work")
    /\ pit_tick_count' = IF handler.routine = "timer_irq" THEN Ticked(pit_tick_count)
                         ELSE pit_tick_count
    /\ handler' = [handler EXCEPT !.at = AfterWork(handler.routine)]
    /\ UNCHANGED <<interrupts, iflag, picVars, kernelVars>>

\* out 0x20: the first controller ends its request of the highest rank
Ended(served) == {irq \in served : \A other \in served : irq <= other}

SendEoi ==
    /\ HandlerAt("eoi")
    /\ isr' = isr \ Ended(isr \cap Chip(0))
    /\ handler' = [handler EXCEPT !.at = "return"]
    /\ UNCHANGED <<interrupts, iflag, base, mask, irr, kernelVars, pit_tick_count>>

InterruptReturn ==
    /\ HandlerAt("return")
    /\ iflag' = TRUE
    /\ handler' = NoHandler
    /\ UNCHANGED <<interrupts, picVars, kernelVars, pit_tick_count>>

Handler == Work \/ SendEoi \/ InterruptReturn

Next ==
    \/ Kernel
    \/ \E irq \in Devices : Raise(irq) \/ Deliver(irq)
    \/ Spurious
    \/ Handler

Fairness ==
    /\ WF_vars(Kernel)
    /\ WF_vars(Handler)
    /\ \A irq \in Devices : SF_vars(Deliver(irq))

Spec == Init /\ [][Next]_vars /\ Fairness

-------------------------------------------------------------------------------
\* the installations that are complete, and those whose entry is written
Done == SubSeq(Installs, 1, Len(Installs) - Len(todo))
Listening(irq) == \E i \in DOMAIN Done : Done[i].irq = irq

Writing == pc \in {"installed", "read_mask", "write_mask"}
Entered == 1..(Len(Installs) - Len(todo) + (IF Writing THEN 1 ELSE 0))
LastOfItsIrq(i) == \A j \in Entered : j > i => Installs[j].irq # Installs[i].irq

Routine == {"none", "default", "exception"} \cup {Installs[i].routine : i \in DOMAIN Installs}

(***************************************************************************)
(* The state is well formed.                                               *)
(***************************************************************************)
TypeOK ==
    /\ interrupts \in [Vector -> Routine]
    /\ iflag \in BOOLEAN
    /\ base \in {BiosBase, [first |-> DEVICE_INTERRUPT_BASE, second |-> DEVICE_INTERRUPT_BASE + 8]}
    /\ mask \subseteq IRQ /\ irr \subseteq IRQ /\ isr \subseteq IRQ /\ port \subseteq IRQ
    /\ pc \in {"vectors", "remap", "disable", "start", "install", "installed", "read_mask",
               "write_mask", "pit", "running"}
    /\ \E i \in 0..Len(Installs) : todo = SubSeq(Installs, i + 1, Len(Installs))
    /\ handler \in [irq : IRQ \cup {-1}, routine : Routine, at : {"none", "work", "eoi", "return"}]
    /\ pit_tick_count \in 0..(TickLimit - 1)

(***************************************************************************)
(* A request of a device only ever runs the routine its driver installed:  *)
(* never the default handler, that acknowledges nothing, and never an      *)
(* exception's.  It is why the controllers are silenced before interrupts  *)
(* go on, and an IRQ is unmasked after its entry is written.               *)
(***************************************************************************)
NoStrayHandler == handler.irq \in IRQ => \E i \in DOMAIN Installs : Installs[i] =
                                             [irq |-> handler.irq, routine |-> handler.routine]

(***************************************************************************)
(* Once cpu_install_device is through, the IRQ stays unmasked and its      *)
(* entry stays, unless the same IRQ is installed again: the installation   *)
(* of one device does not silence another.                                 *)
(***************************************************************************)
ListensAfterInstall ==
    /\ \A i \in DOMAIN Done : Done[i].irq \notin mask
    /\ \A i \in Entered :
           LastOfItsIrq(i) => interrupts[VectorOf(Installs[i].irq)] = Installs[i].routine

(***************************************************************************)
(* The request in service is the one whose handler runs and has not yet    *)
(* acknowledged it; a request left in service would shut out the ones of   *)
(* its rank and below for good.                                            *)
(***************************************************************************)
InServiceIsHandled ==
    isr = IF handler.irq \in IRQ /\ handler.at # "return" THEN {handler.irq} ELSE {}

(***************************************************************************)
(* cpu_install_device "tell[s] the CPU to listen for interrupt requests    *)
(* from the given IRQ" and to "execute the handler at fn_address when the  *)
(* IRQ is raised" (cpu.c:128-129): a request is served, unless requests    *)
(* of a higher rank keep coming.                                           *)
(***************************************************************************)
Busier(irq) == \E other \in IRQ : Requested(other) /\ Rank(other) < Rank(irq)

Served ==
    \A irq \in Devices :
        (Listening(irq) /\ irq \in irr) ~> (handler.irq = irq \/ []<>Busier(irq))

===============================================================================
