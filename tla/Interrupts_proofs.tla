--------------------------- MODULE Interrupts_proofs ---------------------------
(***************************************************************************)
(* Proofs about the interrupt table, the controllers and the handlers, for *)
(* every list of drivers, every set of devices and whatever the firmware   *)
(* left in the controllers.                                                *)
(***************************************************************************)
EXTENDS Interrupts, TLAPS, SequenceTheorems

(***************************************************************************)
(* The inductive invariant.  Until the controllers are silenced nothing    *)
(* can reach the processor (Quiet); from then on every IRQ that is not     *)
(* masked has its driver's routine in the table (Answered), which needs    *)
(* that the entry is written before the mask is, with the mask unchanged   *)
(* since it was read (PortIsMask).  The line of the second controller is   *)
(* no driver's, so it stays masked and only the first one interrupts       *)
(* (FirstOnly): one acknowledgement is enough.                             *)
(***************************************************************************)
Early == pc \in {"vectors", "remap", "disable", "start"}
KernelBase == [first |-> DEVICE_INTERRUPT_BASE, second |-> DEVICE_INTERRUPT_BASE + 8]

Position == Len(Installs) - Len(todo)

Quiet == Early \/ pc = "installed" => iflag = FALSE /\ handler = NoHandler
AllToDo == Early => todo = Installs
Remapped == pc \notin {"vectors", "remap"} => base = KernelBase
MoreToDo == Writing \/ pc = "install" => todo # <<>>
PortIsMask == pc = "write_mask" => port = mask \cap Chip(Head(todo).irq)
Answered ==
    pc \notin {"vectors", "remap", "disable"} =>
        \A irq \in IRQ \ mask : \E i \in DOMAIN Installs :
            Installs[i] = [irq |-> irq, routine |-> interrupts[Index(irq)]]

FirstOnly == handler.irq < 8

KernelInv == Quiet /\ AllToDo /\ Remapped /\ MoreToDo /\ PortIsMask /\ Answered

IInv == TypeOK /\ KernelInv /\ FirstOnly /\ NoStrayHandler /\ ListensAfterInstall /\ InServiceIsHandled

-------------------------------------------------------------------------------
(***************************************************************************)
(* What todo is: the installations from the first that is not done.        *)
(***************************************************************************)
LEMMA TodoFacts ==
    ASSUME TypeOK
    PROVE  /\ Position \in 0..Len(Installs)
           /\ todo = SubSeq(Installs, Position + 1, Len(Installs))
           /\ DOMAIN Done = 1..Position
           /\ \A i \in 1..Position : Done[i] = Installs[i]
<1> DEFINE Call == [irq : IRQ, routine : STRING]
<1>1. Installs \in Seq(Call)
  BY InterruptsAssumption
<1>2. Len(Installs) \in Nat /\ \A i \in 1..Len(Installs) : Installs[i] \in Call
  BY <1>1, LenProperties, ElementOfSeq
<1>3. PICK n \in 0..Len(Installs) : todo = SubSeq(Installs, n + 1, Len(Installs))
  BY DEF TypeOK
<1>4. Len(todo) = Len(Installs) - n
  BY <1>2, <1>3, SubSeqProperties
<1>5. Position = n
  BY <1>2, <1>4 DEF Position
<1>6. /\ SubSeq(Installs, 1, n) \in Seq(Call)
      /\ Len(SubSeq(Installs, 1, n)) = n
      /\ \A i \in 1..n : SubSeq(Installs, 1, n)[i] = Installs[i]
  BY <1>2, SubSeqProperties
<1>7. DOMAIN SubSeq(Installs, 1, n) = 1..n
  BY <1>6, LenProperties
<1>8. Done = SubSeq(Installs, 1, n)
  BY <1>5 DEF Done, Position
<1> QED  BY <1>3, <1>5, <1>6, <1>7, <1>8

LEMMA NextCall ==
    ASSUME TypeOK, todo # <<>>
    PROVE  /\ Position + 1 \in DOMAIN Installs
           /\ Head(todo) = Installs[Position + 1]
           /\ Head(todo).irq \in IRQ
           /\ Tail(todo) = SubSeq(Installs, Position + 2, Len(Installs))
           /\ Len(Tail(todo)) = Len(todo) - 1
<1> DEFINE Call == [irq : IRQ, routine : STRING]
<1>1. Installs \in Seq(Call)
  BY InterruptsAssumption
<1>2. Len(Installs) \in Nat /\ DOMAIN Installs = 1..Len(Installs)
      /\ \A i \in 1..Len(Installs) : Installs[i] \in Call
  BY <1>1, LenProperties, ElementOfSeq
<1>3. /\ Position \in 0..Len(Installs)
      /\ todo = SubSeq(Installs, Position + 1, Len(Installs))
  BY TodoFacts
<1>4. Position + 1 \in 1..Len(Installs)
  BY <1>2, <1>3, SubSeqEmpty
<1>5. todo \in Seq(Call)
  BY <1>2, <1>3, SubSeqProperties
<1>6. /\ Head(todo) = Installs[Position + 1]
      /\ Tail(todo) = SubSeq(Installs, Position + 2, Len(Installs))
  BY <1>1, <1>2, <1>3, <1>4, HeadTailOfSubSeq
<1> QED  BY <1>2, <1>4, <1>5, <1>6, HeadTailProperties

(***************************************************************************)
(* Where the entry of an IRQ is, once the controllers are remapped.        *)
(***************************************************************************)
LEMMA VectorIsIndex ==
    ASSUME base = KernelBase, NEW irq \in IRQ
    PROVE  VectorOf(irq) = Index(irq)
  BY DEF KernelBase, VectorOf, Index, IRQ, DEVICE_INTERRUPT_BASE

LEMMA IndexInTable ==
    /\ \A irq \in IRQ : Index(irq) \in Vector
    /\ \A a, b \in IRQ : Index(a) = Index(b) => a = b
  BY InterruptsAssumption DEF Index, IRQ, Vector, DEVICE_INTERRUPT_BASE

-------------------------------------------------------------------------------
(***************************************************************************)
(* Each step keeps the state well formed.                                  *)
(***************************************************************************)
LEMMA InitType == Init => TypeOK
<1> SUFFICES ASSUME Init PROVE TypeOK
  OBVIOUS
<1>1. Installs = SubSeq(Installs, 0 + 1, Len(Installs)) /\ Len(Installs) \in Nat
  BY InterruptsAssumption, SubSeqFull, LenProperties
<1>2. \E i \in 0..Len(Installs) : todo = SubSeq(Installs, i + 1, Len(Installs))
  BY <1>1 DEF Init
<1>3. handler \in [irq : IRQ \cup {-1}, routine : Routine, at : {"none", "work", "eoi", "return"}]
  BY DEF Init, NoHandler, Routine
<1>4. interrupts \in [Vector -> Routine] /\ mask \subseteq IRQ
  BY DEF Init, Routine
<1>5. pit_tick_count \in 0..(TickLimit - 1)
  BY InterruptsAssumption DEF Init
<1> QED
  BY <1>2, <1>3, <1>4, <1>5 DEF Init, TypeOK

LEMMA KernelType ==
    ASSUME TypeOK, MoreToDo, Kernel
    PROVE  TypeOK'
<1>1. CASE LoadVectors
  BY <1>1 DEF LoadVectors, At, TypeOK, Routine, picVars
<1>2. CASE pic_8259a_initialize
  BY <1>2 DEF pic_8259a_initialize, At, TypeOK
<1>3. CASE pic_8259a_disable
  BY <1>3 DEF pic_8259a_disable, AllMasked, At, TypeOK
<1>4. CASE StartInterrupts
  BY <1>4 DEF StartInterrupts, Onward, At, TypeOK, picVars
<1>5. CASE InstallHandler
  <2>1. Head(todo).routine \in Routine
    BY <1>5, NextCall DEF InstallHandler, At, MoreToDo, Routine
  <2>. QED  BY <1>5, <2>1 DEF InstallHandler, install_handler, At, TypeOK, picVars
<1>6. CASE HandlerInstalled
  BY <1>6 DEF HandlerInstalled, At, TypeOK, picVars
<1>7. CASE ReadMask
  BY <1>7 DEF ReadMask, At, TypeOK, picVars
<1>8. CASE pic_8259a_unmask_irq
  <2>1. todo # <<>>
    BY <1>8 DEF pic_8259a_unmask_irq, At, MoreToDo, Writing
  <2>2. Position + 1 \in 0..Len(Installs) /\ Tail(todo) = SubSeq(Installs, Position + 2, Len(Installs))
    <3>1. Position + 1 \in DOMAIN Installs /\ Tail(todo) = SubSeq(Installs, Position + 2, Len(Installs))
      BY <2>1, NextCall, Zenon
    <3>2. DOMAIN Installs = 1..Len(Installs) /\ Len(Installs) \in Nat
      BY InterruptsAssumption, LenProperties
    <3>3. Position + 1 \in 0..Len(Installs)
      <4>1. PICK n \in Nat : n = Len(Installs)
        BY <3>2
      <4>2. Position + 1 \in 1..n
        BY <3>1, <3>2, <4>1, Zenon
      <4>3. 1..n \subseteq 0..n
        OBVIOUS
      <4> QED  BY <4>1, <4>2, <4>3, Zenon
    <3> QED  BY <3>1, <3>3, Zenon
  <2>3. \E i \in 0..Len(Installs) : todo' = SubSeq(Installs, i + 1, Len(Installs))
    <3>1. Position + 2 = (Position + 1) + 1
      BY TodoFacts
    <3> QED  BY <1>8, <2>2, <3>1 DEF pic_8259a_unmask_irq
  <2> QED
    BY <1>8, <2>3 DEF pic_8259a_unmask_irq, Unmasked, Onward, At, TypeOK
<1>9. CASE pit_8254_start
  BY <1>9 DEF pit_8254_start, Onward, At, TypeOK, picVars
<1> QED
  BY <1>1, <1>2, <1>3, <1>4, <1>5, <1>6, <1>7, <1>8, <1>9 DEF Kernel

LEMMA DeviceType ==
    ASSUME TypeOK, Quiet, Remapped,
           NEW irq \in IRQ, Raise(irq) \/ Deliver(irq) \/ Spurious
    PROVE  TypeOK'
<1>1. irq \in IRQ
  OBVIOUS
<1>2. ASSUME iflag, NEW line \in IRQ PROVE VectorOf(line) \in Vector
  <2>1. base = KernelBase
    BY <1>2 DEF Quiet, Remapped, Early
  <2> QED  BY <2>1, VectorIsIndex, IndexInTable
<1>3. 7 \in IRQ /\ Cascade \in IRQ
  BY DEF IRQ, Cascade
<1>4. CASE Raise(irq)
  BY <1>1, <1>4 DEF Raise, TypeOK, kernelVars
<1>5. CASE Deliver(irq)
  <2>1. handler' \in [irq : IRQ \cup {-1}, routine : Routine, at : {"none", "work", "eoi", "return"}]
    BY <1>1, <1>2, <1>5 DEF Deliver, Enter, TypeOK
  <2> QED  BY <1>1, <1>3, <1>5, <2>1 DEF Deliver, Enter, TypeOK, kernelVars
<1>6. CASE Spurious
  <2>1. base.first + 7 = VectorOf(7)
    BY DEF VectorOf
  <2>2. handler' \in [irq : IRQ \cup {-1}, routine : Routine, at : {"none", "work", "eoi", "return"}]
    BY <1>2, <1>3, <1>6, <2>1 DEF Spurious, Enter, TypeOK
  <2> QED  BY <1>6, <2>2 DEF Spurious, Enter, TypeOK, kernelVars, picVars
<1> QED  BY <1>4, <1>5, <1>6

LEMMA HandlerType == ASSUME TypeOK, Handler PROVE TypeOK'
<1>1. CASE Work
  <2>1. pit_tick_count' \in 0..(TickLimit - 1)
    BY <1>1, InterruptsAssumption DEF Work, Ticked, TypeOK
  <2> QED  BY <1>1, <2>1 DEF Work, AfterWork, TypeOK, picVars, kernelVars
<1>2. CASE SendEoi
  BY <1>2 DEF SendEoi, TypeOK, kernelVars
<1>3. CASE InterruptReturn
  BY <1>3 DEF InterruptReturn, TypeOK, NoHandler, Routine, picVars, kernelVars
<1> QED  BY <1>1, <1>2, <1>3 DEF Handler

-------------------------------------------------------------------------------
(***************************************************************************)
(* Before any installation is begun there is nothing to keep.              *)
(***************************************************************************)
LEMMA NothingEntered ==
    TypeOK /\ todo = Installs /\ ~ Writing => ListensAfterInstall
<1> SUFFICES ASSUME TypeOK, todo = Installs, ~ Writing PROVE ListensAfterInstall
  OBVIOUS
<1>1. Position = 0
  BY InterruptsAssumption, LenProperties DEF Position
<1>2. DOMAIN Done = {}
  BY <1>1, TodoFacts
<1>3. Entered = {}
  BY <1>1 DEF Entered, Position
<1> QED  BY <1>2, <1>3 DEF ListensAfterInstall

(***************************************************************************)
(* The steps up to the first installation.                                 *)
(***************************************************************************)
LEMMA EarlyIInv ==
    ASSUME IInv, TypeOK',
           LoadVectors \/ pic_8259a_initialize \/ pic_8259a_disable \/ StartInterrupts
    PROVE  IInv'
<1>1. Early /\ todo = Installs /\ todo' = todo /\ handler = NoHandler /\ handler' = handler /\ ~ Writing'
  BY DEF LoadVectors, pic_8259a_initialize, pic_8259a_disable, StartInterrupts, At, Early,
         IInv, KernelInv, AllToDo, Writing, Onward
<1>2. ListensAfterInstall'
  <2>1. (TypeOK /\ todo = Installs /\ ~ Writing => ListensAfterInstall)'
    BY NothingEntered, PTL
  <2> QED  BY <1>1, <2>1
<1>3. FirstOnly' /\ NoStrayHandler' /\ InServiceIsHandled'
  BY <1>1 DEF IInv, FirstOnly, NoStrayHandler, InServiceIsHandled, NoHandler, IRQ,
       LoadVectors, pic_8259a_initialize, pic_8259a_disable, StartInterrupts, picVars
<1>4. KernelInv'
  BY <1>1
  DEF IInv, KernelInv, Quiet, AllToDo, Remapped, MoreToDo, PortIsMask, Answered, Early, Writing,
      KernelBase, AllMasked, Onward, At, LoadVectors, pic_8259a_initialize, pic_8259a_disable,
      StartInterrupts, picVars
<1> QED  BY <1>2, <1>3, <1>4 DEF IInv

(***************************************************************************)
(* The entry is written before the IRQ is unmasked.  Of two installations  *)
(* the entry that is written over is that of the same IRQ.                 *)
(***************************************************************************)
LEMMA InstallHandlerIInv ==
    ASSUME IInv, TypeOK', InstallHandler
    PROVE  IInv'
<1> DEFINE call == Head(todo)
           n == Position + 1
<1>1. pc = "install" /\ pc' = "installed" /\ handler = NoHandler /\ todo # <<>> /\ base = KernelBase
  BY DEF InstallHandler, At, IInv, KernelInv, MoreToDo, Remapped
<1>2. call = Installs[n] /\ n \in DOMAIN Installs /\ call.irq \in IRQ /\ Position \in Nat
  BY <1>1, NextCall, TodoFacts DEF IInv
<1>3. interrupts' = [interrupts EXCEPT ![Index(call.irq)] = call.routine]
  BY <1>2, IndexInTable DEF InstallHandler, install_handler, IInv, TypeOK
<1>4. UNCHANGED <<base, mask, irr, isr, todo, port, handler, pit_tick_count>>
  BY DEF InstallHandler, picVars
<1>5. /\ interrupts'[Index(call.irq)] = call.routine
      /\ \A irq \in IRQ : irq # call.irq => interrupts'[Index(irq)] = interrupts[Index(irq)]
  BY <1>2, <1>3, IndexInTable DEF IInv, TypeOK
<1>6. call = [irq |-> call.irq, routine |-> call.routine] /\ \A i \in DOMAIN Installs : Installs[i].irq \in IRQ
  <2>1. \A i \in DOMAIN Installs : Installs[i] \in [irq : IRQ, routine : STRING]
    BY InterruptsAssumption, LenProperties, ElementOfSeq
  <2> QED  BY <1>2, <2>1
<1>7. Done' = Done /\ Entered = 1..Position /\ Entered' = 1..n
  BY <1>1, <1>4 DEF Done, Entered, Writing, Position
<1> HIDE DEF call, n
<1>8. Answered'
  <2> SUFFICES ASSUME NEW irq \in IRQ \ mask
               PROVE  \E i \in DOMAIN Installs :
                          Installs[i] = [irq |-> irq, routine |-> interrupts'[Index(irq)]]
    BY <1>4 DEF Answered, Index
  <2>1. CASE irq = call.irq
    BY <2>1, <1>2, <1>5, <1>6
  <2>2. CASE irq # call.irq
    BY <2>2, <1>1, <1>5 DEF IInv, KernelInv, Answered
  <2> QED  BY <2>1, <2>2
<1>9. KernelInv'
  BY <1>1, <1>4, <1>8
  DEF IInv, KernelInv, Quiet, AllToDo, Remapped, MoreToDo, PortIsMask, Early, Writing,
      InstallHandler
<1>10. ListensAfterInstall'
  <2>1. \A i \in DOMAIN Done : Done[i].irq \notin mask
    BY DEF IInv, ListensAfterInstall
  <2>2. ASSUME NEW i \in 1..n, LastOfItsIrq(i)'
        PROVE  interrupts'[Index(Installs[i].irq)] = Installs[i].routine
    <3>1. CASE i = n
      BY <3>1, <1>2, <1>5
    <3>2. CASE i # n
      <4>1. i \in 1..Position /\ i < n /\ n \in 1..n
        BY <1>2, <3>2 DEF n
      <4>2. Installs[i].irq # call.irq /\ LastOfItsIrq(i)
        BY <1>2, <1>7, <2>2, <4>1 DEF LastOfItsIrq, n
      <4>3. i \in DOMAIN Installs
        BY <1>2, <4>1, InterruptsAssumption, LenProperties
      <4>4. interrupts[Index(Installs[i].irq)] = Installs[i].routine
        BY <1>1, <1>6, <1>7, <4>1, <4>2, <4>3, VectorIsIndex DEF IInv, ListensAfterInstall
      <4> QED  BY <1>5, <1>6, <4>2, <4>3, <4>4
    <3> QED  BY <3>1, <3>2
  <2>3. \A i \in 1..n : Installs[i].irq \in IRQ
    BY <1>2, <1>6, InterruptsAssumption, LenProperties DEF n
  <2>4. \A i \in 1..n : VectorOf(Installs[i].irq)' = Index(Installs[i].irq)
    <3>1. \A irq \in IRQ : VectorOf(irq)' = VectorOf(irq)
      BY <1>4 DEF VectorOf
    <3> QED  BY <1>1, <2>3, <3>1, VectorIsIndex
  <2> QED  BY <1>4, <1>7, <2>1, <2>2, <2>4 DEF ListensAfterInstall
<1>11. FirstOnly' /\ NoStrayHandler' /\ InServiceIsHandled'
  BY <1>4 DEF IInv, FirstOnly, NoStrayHandler, InServiceIsHandled
<1> QED  BY <1>9, <1>10, <1>11 DEF IInv

(***************************************************************************)
(* Steps that change neither the table, the masks nor what is entered.     *)
(***************************************************************************)
LEMMA StillListens ==
    ASSUME ListensAfterInstall, UNCHANGED <<interrupts, base, mask, todo>>, Writing' = Writing
    PROVE  ListensAfterInstall'
<1>1. Done' = Done /\ Entered' = Entered
  BY DEF Done, Entered
<1> QED  BY <1>1 DEF ListensAfterInstall, LastOfItsIrq, VectorOf

LEMMA SimpleKernelIInv ==
    ASSUME IInv, TypeOK', HandlerInstalled \/ ReadMask \/ pit_8254_start
    PROVE  IInv'
<1>1. UNCHANGED <<interrupts, base, mask, irr, isr, todo, handler>> /\ handler = NoHandler
  BY DEF HandlerInstalled, ReadMask, pit_8254_start, At, picVars
<1>2. Writing' = Writing
  BY DEF HandlerInstalled, ReadMask, pit_8254_start, At, Writing, Onward
<1>3. KernelInv'
  BY <1>1
  DEF IInv, KernelInv, Quiet, AllToDo, Remapped, MoreToDo, PortIsMask, Answered, Early, Writing,
      Onward, At, HandlerInstalled, ReadMask, pit_8254_start
<1> QED
  BY <1>1, <1>2, <1>3, StillListens DEF IInv, FirstOnly, NoStrayHandler, InServiceIsHandled

(***************************************************************************)
(* The IRQ is unmasked, and no other is touched: nobody else wrote the     *)
(* mask since it was read.                                                 *)
(***************************************************************************)
LEMMA UnmaskIInv ==
    ASSUME IInv, TypeOK', pic_8259a_unmask_irq
    PROVE  IInv'
<1> DEFINE call == Head(todo)
           n == Position + 1
<1>1. pc = "write_mask" /\ handler = NoHandler /\ todo # <<>> /\ base = KernelBase
  BY DEF pic_8259a_unmask_irq, At, IInv, KernelInv, MoreToDo, Remapped, Writing
<1>2. call = Installs[n] /\ n \in DOMAIN Installs /\ call.irq \in IRQ /\ Position \in Nat
  BY <1>1, NextCall, TodoFacts DEF IInv
<1>3. /\ UNCHANGED <<interrupts, base, irr, isr, handler>>
      /\ todo' = Tail(todo)
      /\ pc' \in {"pit", "running", "install"}
      /\ pc' = "install" => todo' # <<>>
  BY DEF pic_8259a_unmask_irq, Onward
<1>4. mask' = mask \ {call.irq}
  <2>1. mask' = (mask \ Chip(call.irq)) \cup ((mask \cap Chip(call.irq)) \ {call.irq})
    BY <1>1 DEF pic_8259a_unmask_irq, Unmasked, IInv, KernelInv, PortIsMask
  <2>2. call.irq \in Chip(call.irq)
    BY <1>2 DEF Chip, IRQ
  <2> HIDE DEF call
  <2> QED  BY <2>1, <2>2
<1>5. Position' = n /\ Len(Installs) \in Nat
  BY <1>1, <1>2, <1>3, NextCall, InterruptsAssumption, LenProperties DEF IInv, Position
<1>6. Entered = 1..n /\ Entered' = 1..n
  BY <1>1, <1>3, <1>5 DEF Entered, Writing, Position
<1>7. interrupts[Index(call.irq)] = call.routine
  <2>1. n \in Entered /\ LastOfItsIrq(n)
    BY <1>2, <1>6 DEF LastOfItsIrq
  <2> QED  BY <1>1, <1>2, <2>1, VectorIsIndex DEF IInv, ListensAfterInstall
<1>8. call = [irq |-> call.irq, routine |-> call.routine]
  <2>1. Installs[n] \in [irq : IRQ, routine : STRING]
    BY <1>2, InterruptsAssumption, LenProperties, ElementOfSeq
  <2> QED  BY <1>2, <2>1
<1> HIDE DEF call
<1>9. Answered'
  <2> SUFFICES ASSUME NEW irq \in IRQ \ mask'
               PROVE  \E i \in DOMAIN Installs :
                          Installs[i] = [irq |-> irq, routine |-> interrupts[Index(irq)]]
    BY <1>3 DEF Answered, Index
  <2>1. CASE irq = call.irq
    BY <2>1, <1>2, <1>7, <1>8
  <2>2. CASE irq # call.irq
    BY <2>2, <1>1, <1>4 DEF IInv, KernelInv, Answered
  <2> QED  BY <2>1, <2>2
<1>10. KernelInv'
  BY <1>1, <1>3, <1>9
  DEF IInv, KernelInv, Quiet, AllToDo, Remapped, MoreToDo, PortIsMask, Early, Writing
<1>11. ListensAfterInstall'
  <2>1. DOMAIN Done' = 1..n /\ \A i \in 1..n : Done'[i] = Installs[i]
    <3>1. (TypeOK => DOMAIN Done = 1..Position /\ \A i \in 1..Position : Done[i] = Installs[i])'
      BY TodoFacts, PTL
    <3> QED  BY <1>5, <3>1
  <2>2. DOMAIN Done = 1..Position /\ \A i \in 1..Position : Done[i] = Installs[i]
    BY TodoFacts DEF IInv
  <2>3. \A i \in 1..n : Done'[i].irq \notin mask'
    <3> SUFFICES ASSUME NEW i \in 1..n PROVE Installs[i].irq \notin mask'
      BY <2>1
    <3>1. CASE i = n
      BY <3>1, <1>2, <1>4
    <3>2. CASE i # n
      BY <3>2, <1>2, <1>4, <2>2 DEF IInv, ListensAfterInstall
    <3> QED  BY <3>1, <3>2
  <2> QED
    BY <1>3, <1>6, <2>1, <2>3 DEF IInv, ListensAfterInstall, LastOfItsIrq, VectorOf
<1>12. FirstOnly' /\ NoStrayHandler' /\ InServiceIsHandled'
  BY <1>3 DEF IInv, FirstOnly, NoStrayHandler, InServiceIsHandled
<1> QED  BY <1>10, <1>11, <1>12 DEF IInv

(***************************************************************************)
(* Only a request that is not masked is delivered, so its routine is its   *)
(* driver's; and the cascade never is, so none comes from the second       *)
(* controller.                                                             *)
(***************************************************************************)
LEMMA DeviceIInv ==
    ASSUME IInv, TypeOK', NEW irq \in IRQ, Raise(irq) \/ Deliver(irq) \/ Spurious
    PROVE  IInv'
<1>1. irq \in IRQ /\ Cascade \in IRQ
  BY DEF IRQ, Cascade
<1>2. UNCHANGED <<interrupts, base, mask, pc, todo, port>>
  BY DEF Raise, Deliver, Spurious, kernelVars, picVars
<1>3. ListensAfterInstall'
  BY <1>2, StillListens DEF IInv, Writing
<1>4. AllToDo' /\ Remapped' /\ MoreToDo' /\ PortIsMask' /\ Answered'
  BY <1>2 DEF IInv, KernelInv, AllToDo, Remapped, MoreToDo, PortIsMask, Answered, Early, Writing
<1>5. CASE Raise(irq)
  BY <1>2, <1>3, <1>4, <1>5
  DEF Raise, IInv, KernelInv, FirstOnly, Quiet, Early, NoStrayHandler, InServiceIsHandled
<1>6. CASE Deliver(irq) \/ Spurious
  <2>1. iflag /\ handler = NoHandler /\ handler'.at = "work"
    BY <1>6 DEF Deliver, Spurious, Enter
  <2>2. ~ Early /\ pc # "installed" /\ base = KernelBase /\ isr = {}
    BY <2>1 DEF IInv, KernelInv, Quiet, Remapped, Early, InServiceIsHandled, NoHandler, IRQ
  <2>3. Quiet'
    BY <1>2, <2>2 DEF Quiet, Early
  <2>4. CASE Deliver(irq)
    <3>1. /\ irq \in IRQ \ mask /\ (irq >= 8 => Cascade \notin mask)
          /\ handler' = [irq |-> irq, routine |-> interrupts[Index(irq)], at |-> "work"]
          /\ isr' = {irq} \cup (IF irq >= 8 THEN {Cascade} ELSE {})
      BY <1>1, <2>2, <2>4, VectorIsIndex DEF Deliver, Deliverable, Requested, Enter
    <3>2. \A line \in IRQ \ mask : \E i \in DOMAIN Installs :
              Installs[i] = [irq |-> line, routine |-> interrupts[Index(line)]]
      BY <2>2 DEF IInv, KernelInv, Answered, Early
    <3>3. Cascade \in mask
      BY <1>1, <3>2, DriversAssumption
    <3>4. NoStrayHandler'
      BY <3>1, <3>2 DEF NoStrayHandler
    <3>5. irq < 8
      BY <1>1, <3>1, <3>3 DEF IRQ
    <3>6. FirstOnly' /\ InServiceIsHandled'
      <4>1. handler'.irq = irq /\ handler'.at = "work"
        BY <3>1
      <4>2. ~ irq >= 8
        BY <1>1, <3>5 DEF IRQ
      <4>3. isr' = {irq}
        BY <3>1, <4>2
      <4> QED  BY <1>1, <3>5, <4>1, <4>3 DEF FirstOnly, InServiceIsHandled
    <3> QED  BY <1>3, <1>4, <2>3, <3>4, <3>6 DEF IInv, KernelInv
  <2>5. CASE Spurious
    <3>1. handler'.irq = -1 /\ isr' = isr
      BY <2>5 DEF Spurious, Enter, picVars
    <3>2. FirstOnly' /\ NoStrayHandler' /\ InServiceIsHandled'
      BY <2>2, <3>1 DEF FirstOnly, NoStrayHandler, InServiceIsHandled, IRQ
    <3> QED  BY <1>3, <1>4, <2>3, <3>2 DEF IInv, KernelInv
  <2> QED  BY <1>6, <2>4, <2>5
<1> QED  BY <1>5, <1>6

(***************************************************************************)
(* A handler that was installed acknowledges the request in service, which *)
(* is its own.                                                             *)
(***************************************************************************)
LEMMA HandlerIInv ==
    ASSUME IInv, TypeOK', Handler
    PROVE  IInv'
<1>1. UNCHANGED <<interrupts, base, mask, pc, todo, port>>
  BY DEF Handler, Work, SendEoi, InterruptReturn, kernelVars, picVars
<1>2. ListensAfterInstall'
  BY <1>1, StillListens DEF IInv, Writing
<1>3. AllToDo' /\ Remapped' /\ MoreToDo' /\ PortIsMask' /\ Answered'
  BY <1>1 DEF IInv, KernelInv, AllToDo, Remapped, MoreToDo, PortIsMask, Answered, Early, Writing
<1>4. handler # NoHandler
  BY DEF Handler, Work, SendEoi, InterruptReturn, HandlerAt, NoHandler
<1>5. Quiet'
  BY <1>1, <1>4 DEF IInv, KernelInv, Quiet, Early
<1>6. CASE Work
  <2>1. handler' = [handler EXCEPT !.at = AfterWork(handler.routine)] /\ isr' = isr /\ handler.at = "work"
    BY <1>6 DEF Work, HandlerAt, picVars
  <2>2. handler'.irq = handler.irq /\ handler'.routine = handler.routine
        /\ handler'.at = AfterWork(handler.routine)
    BY <2>1 DEF IInv, TypeOK
  <2>3. handler.irq \in IRQ => handler.routine # "default"
    BY DriversAssumption DEF IInv, NoStrayHandler
  <2>4. FirstOnly' /\ NoStrayHandler' /\ InServiceIsHandled'
    BY <2>1, <2>2, <2>3 DEF IInv, FirstOnly, NoStrayHandler, InServiceIsHandled, AfterWork
  <2> QED  BY <1>2, <1>3, <1>5, <2>4 DEF IInv, KernelInv
<1>7. CASE SendEoi
  <2>1. /\ handler.at = "eoi" /\ handler' = [handler EXCEPT !.at = "return"]
        /\ isr' = isr \ Ended(isr \cap Chip(0))
    BY <1>7 DEF SendEoi, HandlerAt
  <2>2. handler'.irq = handler.irq /\ handler'.routine = handler.routine /\ handler'.at = "return"
    BY <2>1 DEF IInv, TypeOK
  <2>3. isr = {} \/ (handler.irq \in 0..7 /\ isr = {handler.irq})
    BY DEF IInv, FirstOnly, InServiceIsHandled, IRQ
  <2>4. isr' = {}
    BY <2>1, <2>3 DEF Ended, Chip
  <2> QED
    BY <1>2, <1>3, <1>5, <2>2, <2>4 DEF IInv, KernelInv, FirstOnly, NoStrayHandler, InServiceIsHandled
<1>8. CASE InterruptReturn
  <2>1. handler' = NoHandler /\ isr' = isr /\ handler.at = "return"
    BY <1>8 DEF InterruptReturn, HandlerAt, picVars
  <2> QED
    BY <1>2, <1>3, <1>5, <2>1
    DEF IInv, KernelInv, FirstOnly, NoStrayHandler, InServiceIsHandled, NoHandler, IRQ
<1> QED  BY <1>6, <1>7, <1>8 DEF Handler

-------------------------------------------------------------------------------
LEMMA InitIInv == Init => IInv
<1> SUFFICES ASSUME Init PROVE IInv
  OBVIOUS
<1>1. TypeOK
  BY InitType
<1>2. ListensAfterInstall
  BY <1>1, NothingEntered DEF Init, Writing
<1>3. FirstOnly /\ NoStrayHandler /\ InServiceIsHandled
  BY DEF Init, FirstOnly, NoStrayHandler, InServiceIsHandled, NoHandler, IRQ
<1>4. KernelInv
  BY DEF Init, KernelInv, Quiet, AllToDo, Remapped, MoreToDo, PortIsMask, Answered, Early, Writing
<1> QED  BY <1>1, <1>2, <1>3, <1>4 DEF IInv

LEMMA NextIInv == IInv /\ [Next]_vars => IInv'
<1> SUFFICES ASSUME IInv, [Next]_vars PROVE IInv'
  OBVIOUS
<1>1. CASE Kernel
  <2>1. TypeOK'
    BY <1>1, KernelType DEF IInv, KernelInv
  <2> QED
    BY <1>1, <2>1, EarlyIInv, InstallHandlerIInv, SimpleKernelIInv, UnmaskIInv DEF Kernel
<1>2. ASSUME NEW irq \in Devices, Raise(irq) \/ Deliver(irq) PROVE IInv'
  BY <1>2, InterruptsAssumption, DeviceType, DeviceIInv DEF IInv, KernelInv
<1>3. CASE Spurious
  <2>1. 7 \in IRQ
    BY DEF IRQ
  <2> QED  BY <1>3, <2>1, DeviceType, DeviceIInv DEF IInv, KernelInv
<1>4. CASE Handler
  BY <1>4, HandlerType, HandlerIInv DEF IInv
<1>5. CASE UNCHANGED vars
  <2>1. UNCHANGED <<interrupts, iflag, base, mask, irr, isr, pc, todo, port, handler, pit_tick_count>>
    BY <1>5 DEF vars
  <2>2. TypeOK' /\ FirstOnly' /\ NoStrayHandler' /\ InServiceIsHandled'
    BY <2>1 DEF IInv, TypeOK, FirstOnly, NoStrayHandler, InServiceIsHandled
  <2>3. KernelInv'
    BY <2>1 DEF IInv, KernelInv, Quiet, AllToDo, Remapped, MoreToDo, PortIsMask, Answered, Early, Writing
  <2>4. ListensAfterInstall'
    BY <2>1, StillListens DEF IInv, Writing
  <2> QED  BY <2>2, <2>3, <2>4 DEF IInv
<1> QED  BY <1>1, <1>2, <1>3, <1>4, <1>5 DEF Next

THEOREM Invariance == Spec => []IInv
  BY InitIInv, NextIInv, PTL DEF Spec

(***************************************************************************)
(* The state stays well formed: no table entry is written outside the      *)
(* table, and the tick count stays below its width.                        *)
(***************************************************************************)
THEOREM TypeCorrect == Spec => []TypeOK
<1>1. IInv => TypeOK
  BY DEF IInv
<1> QED  BY <1>1, Invariance, PTL

(***************************************************************************)
(* A request of a device only ever runs the routine its driver installed.  *)
(***************************************************************************)
THEOREM RightHandler == Spec => []NoStrayHandler
<1>1. IInv => NoStrayHandler
  BY DEF IInv
<1> QED  BY <1>1, Invariance, PTL

(***************************************************************************)
(* What cpu_install_device installed stays unmasked and in the table until *)
(* the same IRQ is installed again, whatever is installed after it.        *)
(***************************************************************************)
THEOREM Listens == Spec => []ListensAfterInstall
<1>1. IInv => ListensAfterInstall
  BY DEF IInv
<1> QED  BY <1>1, Invariance, PTL

(***************************************************************************)
(* Only the request whose handler runs is in service, until its handler    *)
(* acknowledges it.                                                        *)
(***************************************************************************)
THEOREM OneInService == Spec => []InServiceIsHandled
<1>1. IInv => InServiceIsHandled
  BY DEF IInv
<1> QED  BY <1>1, Invariance, PTL

===============================================================================
