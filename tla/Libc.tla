---------------------------------- MODULE Libc ----------------------------------
(***************************************************************************)
(* The C library in one instance: a call of Printing or a call of Strings. *)
(* A call ends before its caller makes the next one, so a behaviour has    *)
(* one call, of the one part or of the other.                              *)
(***************************************************************************)
EXTENDS Printing, Strings

libcVars == <<printVars, stringVars>>

NoPrinting ==
    /\ printer = "puts" /\ fmt = <<>> /\ args = <<>>
    /\ pos = 1 /\ used = 0 /\ out = <<Newline>> /\ written = 1
    /\ status = "returned"

NoString ==
    /\ mem = [i \in Cell |-> 0] /\ before = mem
    /\ call = Call("strlen", 0, 0, 0, 0)
    /\ done = 0 /\ outcome = "returned" /\ result = 0

LibcInit == (PrintInit /\ NoString) \/ (NoPrinting /\ StringsInit)

\* so that only a call that is stuck before its end is a deadlock
Ended == status # "walking" /\ outcome # "none" /\ UNCHANGED libcVars

LibcNext ==
    \/ PrintStep /\ UNCHANGED stringVars
    \/ StringStep /\ UNCHANGED printVars
    \/ Ended

LibcSpec == LibcInit /\ [][LibcNext]_libcVars

===============================================================================
