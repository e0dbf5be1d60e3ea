------------------------------ MODULE MCInterrupts ------------------------------
(***************************************************************************)
(* Interrupts with the devices the kernel installs, the timer and the      *)
(* serial port.                                                            *)
(***************************************************************************)
EXTENDS Interrupts

KernelDevices == <<[irq |-> 0, routine |-> "timer_irq"], [irq |-> 4, routine |-> "_serial_irq"]>>

===============================================================================
