------------------------------- MODULE Exceptions -------------------------------
(***************************************************************************)
(* The handlers of the processor's exceptions                              *)
(* (src/kernel/arch/i386/asm/i386_*.asm), as programs over a stack.        *)
(*                                                                         *)
(* The processor pushes a frame, and for some exceptions an error code,    *)
(* and runs the program of the vector.  Interrupts are off in a handler    *)
(* but exceptions are not: a handler can itself be interrupted, on the     *)
(* same stack, up to MaxNesting deep.  An instruction that calls printf    *)
(* or puts pushes its arguments and takes them off again in one step.      *)
(***************************************************************************)
EXTENDS Integers, Sequences, SequencesExt

CONSTANTS
    Vectors,        \* the exceptions that occur
    PageCodes,      \* the error codes of page faults, as sets of bits
    FaultCodes,     \* the error codes of general protection faults
    NmiCauses,      \* what the system control ports report at an NMI
    MaxNesting      \* bound: exceptions in progress at once

NMI == 2
Breakpoint == 3
GeneralProtection == 13
PageFault == 14
AlignmentCheck == 17

Handled == (0..8) \cup (10..14) \cup (16..20) \cup {30}

\* the exceptions for which the processor pushes an error code
WithCode == {8, 10, 11, 12, 13, 14, 17, 30}

ASSUME ExceptionsAssumption ==
    /\ Vectors \subseteq Handled
    /\ PageCodes \subseteq SUBSET {"present", "write", "user", "reserved", "fetch"}
    /\ FaultCodes \subseteq SUBSET {"external", "idt", "ldt", "index"}
    /\ NmiCauses \subseteq SUBSET {"watchdog", "channel", "parity"}
    /\ MaxNesting \in Nat

VARIABLES
    stack,      \* the words above the kernel's, the top first
    active,     \* the handlers in progress, the innermost first
    code,       \* int_gpfCode and int_pfErrorCode
    display,    \* whose colours the display has, and the details of its exception
    lost        \* the vector of the handler that returned to something else than it interrupted

vars == <<stack, active, code, display, lost>>

\* a word is the set of the things it says, so that an error code is a word too
Frame == <<{"eip"}, {"cs"}, {"eflags"}>>
Registers == [i \in 1..8 |-> {"register"}]

NoVector == -1
KernelColours == [v |-> NoVector, why |-> {}]

Init ==
    /\ stack = <<>>
    /\ active = <<>>
    /\ code = [v \in {GeneralProtection, PageFault} |-> {}]
    /\ display = KernelColours
    /\ lost = NoVector

-------------------------------------------------------------------------------
(***************************************************************************)
(* The programs: the ones that notify the user and go on, the ones that    *)
(* stop the system, and the three that look for the cause.  Each handler   *)
(* has its own file.                                                       *)
(***************************************************************************)
Notify == <<"pushad", "report", "popad", "iretd">>

Stop_NoStop_Mutant == <<"pushad", "set_disp", "report", "popad", "iretd">>

Stop == <<"pushad", "set_disp", "report", "i386_system_stop", "popad", "iretd">>

i386_divbyzero == Notify
i386_debugtrap == Notify
i386_breakpoint == Notify
i386_bounderror == Notify
i386_fpuexception == Notify
i386_aligncheck == Notify
i386_virtualizeexception == Notify

i386_overflow == Stop
i386_badopcode == Stop
i386_deviceerror == Stop
i386_doublefault == Stop
i386_invalidtss == Stop
i386_segnotpresent == Stop
i386_stacksegfault == Stop
i386_machinecheck == Stop
i386_simdexception == Stop

i386_securityexception_Notifies_Mutant == Notify

i386_securityexception == Stop

i386_nmi == <<"pushad", "set_disp", "report", "describe", "i386_system_stop", "popad", "iretd">>

i386_pagefault ==
    <<"pop_code", "pushad", "set_disp", "report", "describe", "i386_system_stop", "popad", "iretd">>

\* "i386_stop_system" is a label here, not a call; and the last two arguments stay
i386_genprotectfault ==
    <<"pop_code", "pushad", "set_disp", "report", "describe", "report_and_leave", "popad", "iretd">>

\* install_cpu_exceptions
Program(v) ==
    CASE v = 0 -> i386_divbyzero [] v = 1 -> i386_debugtrap
      [] v = 2 -> i386_nmi [] v = 3 -> i386_breakpoint
      [] v = 4 -> i386_overflow [] v = 5 -> i386_bounderror
      [] v = 6 -> i386_badopcode [] v = 7 -> i386_deviceerror
      [] v = 8 -> i386_doublefault [] v = 10 -> i386_invalidtss
      [] v = 11 -> i386_segnotpresent [] v = 12 -> i386_stacksegfault
      [] v = 13 -> i386_genprotectfault [] v = 14 -> i386_pagefault
      [] v = 16 -> i386_fpuexception [] v = 17 -> i386_aligncheck
      [] v = 18 -> i386_machinecheck [] v = 19 -> i386_simdexception
      [] v = 20 -> i386_virtualizeexception [] v = 30 -> i386_securityexception

-------------------------------------------------------------------------------
(***************************************************************************)
(* An exception occurs: in the kernel, in a handler, while                 *)
(* i386_system_stop tells the user of it, or, for an NMI, in the loop the  *)
(* system is stopped in.                                                   *)
(***************************************************************************)
Details(v) ==
    IF v = PageFault THEN PageCodes
    ELSE IF v = GeneralProtection THEN FaultCodes
    ELSE IF v = NMI THEN NmiCauses
    ELSE {{}}

Raise(v) ==
    /\ Len(active) < MaxNesting /\ lost = NoVector
    /\ \E d \in Details(v) :
           /\ stack' = (IF v \in WithCode THEN <<d>> ELSE <<>>) \o Frame \o stack
           /\ active' = <<[v |-> v, at |-> 1, why |-> d, said |-> {}]>> \o active
    /\ UNCHANGED <<code, display, lost>>

(***************************************************************************)
(* The instructions.                                                       *)
(***************************************************************************)
Instruction(op) == active # <<>> /\ Program(active[1].v)[active[1].at] = op
Onward == [active EXCEPT ![1].at = @ + 1]
Drop(n) == SubSeq(stack, n + 1, Len(stack))

pop_code ==
    /\ Instruction("pop_code")
    /\ code' = [code EXCEPT ![active[1].v] = stack[1]]
    /\ stack' = Drop(1)
    /\ active' = Onward
    /\ UNCHANGED <<display, lost>>

pushad ==
    /\ Instruction("pushad")
    /\ stack' = Registers \o stack
    /\ active' = Onward
    /\ UNCHANGED <<code, display, lost>>

i386_exception_set_disp ==
    /\ Instruction("set_disp")
    /\ display' = [v |-> active[1].v, why |-> active[1].why]
    /\ active' = Onward
    /\ UNCHANGED <<stack, code, lost>>

report ==
    /\ Instruction("report")
    /\ active' = Onward
    /\ UNCHANGED <<stack, code, display, lost>>

report_and_leave ==
    /\ Instruction("report_and_leave")
    /\ stack' = <<{"argument"}, {"argument"}>> \o stack
    /\ active' = Onward
    /\ UNCHANGED <<code, display, lost>>

(***************************************************************************)
(* What a handler says of the cause.  The NMI handler takes a clear        *)
(* channel bit for a channel error, and looks for the parity bit in what   *)
(* the test of the channel bit left; the protection fault handler tests    *)
(* the result of printf for zero, and looks for the LDT bit in what the    *)
(* test of the IDT bit left.                                               *)
(***************************************************************************)
NmiCause(ports) ==
    IF "watchdog" \in ports THEN "watchdog"
    ELSE IF "channel" \notin ports THEN "channel"
    ELSE "parity"

PageCause_ReadWrite_Mutant(bits) ==
    {IF "present" \in bits THEN "protection" ELSE "not present",
     IF "write" \in bits THEN "on read" ELSE "on write",
     IF "user" \in bits THEN "user mode" ELSE "kernel mode"} \cup (bits \cap {"reserved", "fetch"})

PageCause(bits) ==
    {IF "present" \in bits THEN "protection" ELSE "not present",
     IF "write" \in bits THEN "on write" ELSE "on read",
     IF "user" \in bits THEN "user mode" ELSE "kernel mode"} \cup (bits \cap {"reserved", "fetch"})

FaultCause(bits) == IF "idt" \in bits THEN "idt" ELSE "gdt"

Cause(v) ==
    IF v = NMI THEN {NmiCause(active[1].why)}
    ELSE IF v = PageFault THEN PageCause(code[PageFault])
    ELSE {FaultCause(code[GeneralProtection])}

describe ==
    /\ Instruction("describe")
    /\ active' = [Onward EXCEPT ![1].said = Cause(active[1].v)]
    /\ UNCHANGED <<stack, code, display, lost>>

popad ==
    /\ Instruction("popad")
    /\ stack' = Drop(8)
    /\ active' = Onward
    /\ UNCHANGED <<code, display, lost>>

\* nothing is said of where a wrong frame leads: the model ends there
iretd ==
    /\ Instruction("iretd")
    /\ IF IsPrefix(Frame, stack)
         THEN stack' = Drop(3) /\ active' = Tail(active) /\ UNCHANGED lost
         ELSE lost' = active[1].v /\ active' = <<>> /\ UNCHANGED stack
    /\ UNCHANGED <<code, display>>

Next ==
    \/ \E v \in Vectors : Raise(v)
    \/ pop_code \/ pushad \/ i386_exception_set_disp \/ report \/ report_and_leave
    \/ describe \/ popad \/ iretd

Spec == Init /\ [][Next]_vars

-------------------------------------------------------------------------------
(***************************************************************************)
(* The two handlers that leave words on the stack: the one of protection   *)
(* faults pushes arguments it does not take back                           *)
(* (i386_genprotectfault.asm:69-73), the one of alignment checks never     *)
(* takes the error code (i386_aligncheck.asm:9-21).  Only they get lost.   *)
(***************************************************************************)
Leaky == {GeneralProtection, AlignmentCheck}

(***************************************************************************)
(* popad takes back the registers that were saved, and iretd finds the     *)
(* frame the processor pushed: a handler that is not leaky returns to what *)
(* it interrupted, whatever interrupted the handler itself.                *)
(***************************************************************************)
ReturnsToInterrupted ==
    active # <<>> /\ active[1].v \notin Leaky =>
        /\ Instruction("popad") => IsPrefix(Registers \o Frame, stack)
        /\ Instruction("iretd") => IsPrefix(Frame, stack)

(***************************************************************************)
(* The exceptions whose handlers are to stop the system.  Of an NMI of the *)
(* watchdog timer nothing is asked: i386_nmi.asm:2-3 says that the kernel  *)
(* will simply continue, while the handler stops for every NMI.            *)
(***************************************************************************)
Irrecoverable(d) == d.v = NMI => "watchdog" \notin d.why

(***************************************************************************)
(* A handler that turned the display into an exception display does not    *)
(* return: the system is stopped "in the event of irrecoverable error"     *)
(* (i386_exception.asm:32), and the kernel does not go on under the        *)
(* exception's colours.  The one way out is a leaky handler that got lost: *)
(* the one of protection faults, which takes the display over and does not *)
(* stop (i386_genprotectfault.asm:73), or the one of alignment checks.     *)
(***************************************************************************)
StopsOnError ==
    display # KernelColours /\ Irrecoverable(display) => active # <<>> \/ lost \in Leaky

(***************************************************************************)
(* What the page fault handler says is what the error code of its own      *)
(* fault says, although the code is kept in one static word and the        *)
(* handler can be interrupted by another page fault before it reads it.    *)
(***************************************************************************)
PageFaultDescribed ==
    \A i \in DOMAIN active :
        active[i].v = PageFault /\ active[i].said # {} =>
            LET said == active[i].said
                bits == active[i].why
            IN  /\ "protection" \in said <=> "present" \in bits
                /\ "on write" \in said <=> "write" \in bits
                /\ "user mode" \in said <=> "user" \in bits
                /\ "reserved" \in said <=> "reserved" \in bits
                /\ "fetch" \in said <=> "fetch" \in bits

===============================================================================
