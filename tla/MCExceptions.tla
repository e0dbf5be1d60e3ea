------------------------------ MODULE MCExceptions ------------------------------
(***************************************************************************)
(* Exceptions with all the exceptions, and a few error codes.              *)
(***************************************************************************)
EXTENDS Exceptions

Faults == {{}, {"write"}, {"present", "user"}, {"present", "write", "reserved"}, {"fetch"}}
Selectors == {{}, {"index"}, {"idt", "index"}, {"ldt", "index"}}
Ports == {{}, {"watchdog"}, {"channel"}, {"parity"}}

===============================================================================
