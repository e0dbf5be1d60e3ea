------------------------ MODULE CharacterDevices_proofs ------------------------
(***************************************************************************)
(* Proofs about the registry of character devices and the echo of the      *)
(* serial port, for every set of drivers, every input and every outcome of *)
(* malloc.                                                                 *)
(***************************************************************************)
EXTENDS CharacterDevices, TLAPS, SequenceTheorems

(***************************************************************************)
(* The inductive invariant of the registry: the list ends at the current   *)
(* inode, the inode at each position has the number of the position, and a *)
(* descriptor is the number of an inode of its driver.  base_inode alone   *)
(* is on the list before it is given to a device, with a number that no    *)
(* descriptor has.                                                         *)
(***************************************************************************)
Inode == [inode : Nat, device : Device \cup {NULL}]

ListEnds ==
    \/ current_inode = 0 /\ inodes = <<[inode |-> 0, device |-> NULL]>>
    \/ current_inode = Len(inodes)
Numbered == \A i \in 1..current_inode : inodes[i].inode = i
Described ==
    \A d \in Device : descriptor[d] > 0 =>
        descriptor[d] <= current_inode /\ inodes[descriptor[d]].device = d

RegistryInv ==
    /\ inodes \in Seq(Inode)
    /\ current_inode \in Nat
    /\ current_inode_number = current_inode + 1
    /\ descriptor \in [Device -> Int]
    /\ ListEnds /\ Numbered /\ Described

(***************************************************************************)
(* And of the loop of kernel_main: it reads once serial_init is through,   *)
(* so a read without a device only happens when that failed.               *)
(***************************************************************************)
ReadsAfterInit ==
    /\ pc \in {"serial_init", "read", "eof"}
    /\ pc = "serial_init" <=> descriptor[Serial] = 0
    /\ pc = "serial_init" => console = <<>>

LoopInv ==
    /\ fifo \in Seq(Bytes) /\ arrived \in Seq(Bytes) /\ console \in Seq(Int)
    /\ ReadsAfterInit

IInv == RegistryInv /\ LoopInv /\ EchoesInput

-------------------------------------------------------------------------------
(***************************************************************************)
(* The linear search finds what it should.                                 *)
(***************************************************************************)
LEMMA Found ==
    ASSUME RegistryInv, NEW n \in 1..current_inode
    PROVE  find_device_inode(n) = inodes[n].device
<1>1. current_inode = Len(inodes)
  BY DEF RegistryInv, ListEnds
<1>2. Matching(n) = {n}
  BY <1>1, LenProperties DEF RegistryInv, Numbered, Matching
<1> QED  BY <1>2 DEF find_device_inode

LEMMA Finds == RegistryInv => DescriptorsFind
<1> SUFFICES ASSUME RegistryInv, NEW d \in Device, descriptor[d] > 0
             PROVE  find_device_inode(descriptor[d]) = d
  BY DEF DescriptorsFind
<1>1. descriptor[d] \in 1..current_inode /\ inodes[descriptor[d]].device = d
  BY DEF RegistryInv, Described
<1> QED  BY <1>1, Found

-------------------------------------------------------------------------------
(***************************************************************************)
(* Registering keeps the registry in order.                                *)
(***************************************************************************)
LEMMA ListIsWhole ==
    ASSUME RegistryInv, current_inode # 0
    PROVE  SubSeq(inodes, 1, current_inode) = inodes /\ Len(inodes) = current_inode
  BY SubSeqFull DEF RegistryInv, ListEnds

LEMMA RegisterKeeps ==
    ASSUME RegistryInv, NEW d \in Device, Register(d)
    PROVE  RegistryInv'
<1> DEFINE new == [inode |-> current_inode_number, device |-> d]
           k == current_inode + 1
<1>1. /\ current_inode \in Nat /\ current_inode' = k /\ new.inode = k /\ new.device = d
      /\ current_inode_number' = k + 1
      /\ descriptor' = [descriptor EXCEPT ![d] = k]
      /\ inodes' = IF current_inode = 0 THEN <<new>>
                   ELSE SubSeq(inodes, 1, current_inode) \o <<new>>
  BY DEF Register, RegistryInv, NextNumber
<1>2. new \in Inode /\ inodes \in Seq(Inode)
  BY <1>1 DEF Inode, RegistryInv
<1> HIDE DEF new
<1>3. /\ inodes' \in Seq(Inode) /\ Len(inodes') = k /\ inodes'[k] = new
      /\ \A i \in 1..current_inode : inodes'[i] = inodes[i]
  <2>1. CASE current_inode = 0
    BY <1>1, <1>2, <2>1
  <2>2. CASE current_inode # 0
    <3>1. inodes' = Append(inodes, new) /\ Len(inodes) = current_inode
      BY <1>1, <1>2, <2>2, ListIsWhole, AppendIsConcat
    <3> QED  BY <1>1, <1>2, <3>1, AppendProperties
  <2> QED  BY <2>1, <2>2
<1>4. Numbered' /\ ListEnds'
  BY <1>1, <1>3 DEF RegistryInv, Numbered, ListEnds
<1>5. Described'
  <2> SUFFICES ASSUME NEW e \in Device, descriptor'[e] > 0
               PROVE  descriptor'[e] <= k /\ inodes'[descriptor'[e]].device = e
    BY <1>1 DEF Described
  <2>1. CASE e = d
    <3>1. descriptor'[e] = k
      BY <1>1, <2>1 DEF RegistryInv
    <3> QED  BY <1>1, <1>3, <2>1, <3>1
  <2>2. CASE e # d
    <3>1. descriptor'[e] = descriptor[e] /\ descriptor[e] \in Int
      BY <1>1, <2>2 DEF RegistryInv
    <3>2. PICK i \in 1..current_inode : i = descriptor[e] /\ inodes[i].device = e
      BY <3>1 DEF RegistryInv, Described
    <3>3. inodes'[i].device = e
      BY <1>3, <3>2
    <3>4. i <= k
      BY <1>1, <3>2
    <3> QED  BY <3>1, <3>2, <3>3, <3>4
  <2> QED  BY <2>1, <2>2
<1> QED  BY <1>1, <1>3, <1>4, <1>5 DEF RegistryInv

LEMMA FailureKeeps ==
    ASSUME RegistryInv, NEW d \in Device, RegisterFails(d)
    PROVE  RegistryInv'
<1>1. UNCHANGED <<inodes, current_inode, current_inode_number>>
      /\ descriptor' = [descriptor EXCEPT ![d] = -1]
  BY ListIsWhole DEF RegisterFails, AfterFailure
<1> QED  BY <1>1 DEF RegistryInv, ListEnds, Numbered, Described

-------------------------------------------------------------------------------
(***************************************************************************)
(* A byte is translated on its own, so translation goes along with what is *)
(* done to the ends of a sequence.                                         *)
(***************************************************************************)
LEMMA CharIsInt == \A b \in Bytes : serial_read_char(b) \in Int
  BY CharacterDevicesAssumption
  DEF serial_read_char, AsChar, DELETE, BACKSPACE, SERIAL_END_OF_TEXT, EOF

LEMMA TranslatedFacts ==
    ASSUME NEW s \in Seq(Bytes)
    PROVE  /\ Translated(s) \in Seq(Int)
           /\ Len(Translated(s)) = Len(s)
           /\ \A i \in 1..Len(s) : Translated(s)[i] = serial_read_char(s[i])
<1> DEFINE n == Len(s)
           t == Translated(s)
<1>1. n \in Nat /\ DOMAIN s = 1..n /\ \A i \in 1..n : s[i] \in Bytes
  BY LenProperties, ElementOfSeq
<1>2. DOMAIN t = 1..n /\ \A i \in 1..n : t[i] = serial_read_char(s[i]) /\ t[i] \in Int
  BY <1>1, CharIsInt DEF Translated
<1>3. t \in [1..n -> Int]
  BY <1>2, <1>1, CharIsInt DEF Translated
<1>4. t \in Seq(Int) /\ Len(t) = n
  BY <1>1, <1>3
<1> QED  BY <1>2, <1>4

LEMMA TranslatedAppend ==
    ASSUME NEW s \in Seq(Bytes), NEW b \in Bytes
    PROVE  Translated(Append(s, b)) = Append(Translated(s), serial_read_char(b))
<1> DEFINE c == serial_read_char(b)
           t == Translated(Append(s, b))
           u == Append(Translated(s), c)
<1>1. c \in Int
  BY CharIsInt
<1>2. /\ Append(s, b) \in Seq(Bytes) /\ Len(Append(s, b)) = Len(s) + 1
      /\ \A i \in 1..Len(s) : Append(s, b)[i] = s[i]
      /\ Append(s, b)[Len(s) + 1] = b /\ Len(s) \in Nat
  BY AppendProperties, LenProperties
<1>3. /\ t \in Seq(Int) /\ Len(t) = Len(s) + 1
      /\ \A i \in 1..(Len(s) + 1) : t[i] = serial_read_char(Append(s, b)[i])
  BY <1>2, TranslatedFacts
<1>4. /\ u \in Seq(Int) /\ Len(u) = Len(s) + 1
      /\ \A i \in 1..Len(s) : u[i] = serial_read_char(s[i])
      /\ u[Len(s) + 1] = c
  BY <1>1, TranslatedFacts, AppendProperties
<1>5. \A i \in 1..(Len(s) + 1) : t[i] = u[i]
  <2> SUFFICES ASSUME NEW i \in 1..(Len(s) + 1) PROVE t[i] = u[i]
    OBVIOUS
  <2> HIDE DEF t, u
  <2>1. t[i] = serial_read_char(Append(s, b)[i])
    BY <1>3
  <2>2. CASE i = Len(s) + 1
    <3>1. t[i] = serial_read_char(b)
      BY <1>2, <2>1, <2>2
    <3>2. u[i] = serial_read_char(b)
      BY <1>4, <2>2
    <3> QED  BY <3>1, <3>2
  <2>3. CASE i # Len(s) + 1
    <3>1. i \in 1..Len(s)
      BY <1>2, <2>3
    <3>2. Append(s, b)[i] = s[i] /\ u[i] = serial_read_char(s[i])
      BY <1>2, <1>4, <3>1
    <3> QED  BY <2>1, <3>2
  <2> QED  BY <2>2, <2>3
<1> HIDE DEF t, u
<1>6. t = u
  <2>1. t \in Seq(Int) /\ u \in Seq(Int) /\ Len(t) = Len(u) /\ \A i \in 1..Len(t) : t[i] = u[i]
    BY <1>3, <1>4, <1>5, Zenon
  <2> QED  BY <2>1, SeqEqual, Zenon
<1> QED  BY <1>6 DEF t, u

LEMMA TranslatedHead ==
    ASSUME NEW s \in Seq(Bytes), s # <<>>
    PROVE  Translated(s) = <<serial_read_char(Head(s))>> \o Translated(Tail(s))
<1> DEFINE c == serial_read_char(Head(s))
           rest == Translated(Tail(s))
           t == Translated(s)
           u == <<c>> \o rest
<1>1. /\ Head(s) \in Bytes /\ Tail(s) \in Seq(Bytes) /\ Len(Tail(s)) = Len(s) - 1
      /\ \A i \in 1..Len(Tail(s)) : Tail(s)[i] = s[i + 1]
      /\ Head(s) = s[1] /\ Len(s) \in Nat \ {0}
  BY HeadTailProperties, EmptySeq
<1>2. /\ t \in Seq(Int) /\ Len(t) = Len(s)
      /\ \A i \in 1..Len(s) : t[i] = serial_read_char(s[i])
  BY TranslatedFacts, Zenon
<1>3. /\ rest \in Seq(Int) /\ Len(rest) = Len(s) - 1
      /\ \A i \in 1..(Len(s) - 1) : rest[i] = serial_read_char(s[i + 1])
  <2> DEFINE tail == Tail(s)
  <2>1. tail \in Seq(Bytes) /\ Len(tail) = Len(s) - 1 /\ \A i \in 1..(Len(s) - 1) : tail[i] = s[i + 1]
    BY <1>1, Zenon
  <2> HIDE DEF tail
  <2>2. /\ Translated(tail) \in Seq(Int) /\ Len(Translated(tail)) = Len(tail)
        /\ \A i \in 1..Len(tail) : Translated(tail)[i] = serial_read_char(tail[i])
    BY <2>1, TranslatedFacts, Zenon
  <2>3. rest = Translated(tail)
    BY DEF tail
  <2> QED  BY <2>1, <2>2, <2>3, Zenon
<1>4. c \in Int
  BY <1>1, CharIsInt
<1> HIDE DEF t, rest, c
<1>5. <<c>> \in Seq(Int) /\ Len(<<c>>) = 1 /\ <<c>>[1] = c
  BY <1>4
<1>6. /\ u \in Seq(Int) /\ Len(u) = 1 + (Len(s) - 1)
      /\ \A i \in 1..(1 + (Len(s) - 1)) : u[i] = IF i <= 1 THEN <<c>>[i] ELSE rest[i - 1]
  BY <1>3, <1>5, ConcatProperties
<1>7. \A i \in 1..Len(s) : t[i] = u[i]
  <2> HIDE DEF u
  <2> SUFFICES ASSUME NEW i \in 1..Len(s) PROVE t[i] = u[i]
    OBVIOUS
  <2>1. CASE i = 1
    BY <1>1, <1>2, <1>5, <1>6, <2>1 DEF c
  <2>2. CASE i # 1
    <3>1. i - 1 \in 1..(Len(s) - 1) /\ (i - 1) + 1 = i
      BY <1>1, <2>2
    <3>2. u[i] = rest[i - 1]
      BY <1>1, <1>6, <3>1
    <3> QED  BY <1>2, <1>3, <3>1, <3>2
  <2> QED  BY <2>1, <2>2
<1>8. t = u
  <2> HIDE DEF u
  <2>1. Len(t) = Len(u)
    BY <1>1, <1>2, <1>6
  <2> QED  BY <1>2, <1>6, <1>7, <2>1, SeqEqual
<1> QED  BY <1>8 DEF t, u, c, rest

-------------------------------------------------------------------------------
(***************************************************************************)
(* Each step keeps the invariant.                                          *)
(***************************************************************************)
LEMMA InitIInv == Init => IInv
<1> SUFFICES ASSUME Init PROVE IInv
  OBVIOUS
<1>1. [inode |-> 0, device |-> NULL] \in Inode
  BY DEF Inode
<1>2. RegistryInv
  BY <1>1 DEF Init, RegistryInv, ListEnds, Numbered, Described, CHRDEV_INODE_BASE
<1>3. LoopInv
  BY DEF Init, LoopInv, ReadsAfterInit, Device
<1>4. EchoesInput
  BY DEF Init, EchoesInput, Device
<1> QED  BY <1>2, <1>3, <1>4 DEF IInv

LEMMA DriverIInv ==
    ASSUME IInv, NEW d \in Drivers, RegisterDriver(d)
    PROVE  IInv'
<1>1. d \in Device /\ d # Serial /\ Serial \in Device
  BY CharacterDevicesAssumption DEF Device
<1>2. RegistryInv'
  BY <1>1, RegisterKeeps, FailureKeeps DEF RegisterDriver, register_device, IInv
<1>3. descriptor'[Serial] = descriptor[Serial]
  BY <1>1 DEF RegisterDriver, register_device, Register, RegisterFails, IInv, RegistryInv
<1>4. UNCHANGED <<pc, fifo, arrived, console>>
  BY DEF RegisterDriver
<1> QED  BY <1>2, <1>3, <1>4 DEF IInv, LoopInv, ReadsAfterInit, EchoesInput, Shown

LEMMA SerialInitIInv == ASSUME IInv, serial_init PROVE IInv'
<1>1. Serial \in Device
  BY DEF Device
<1>2. RegistryInv' /\ descriptor'[Serial] # 0
  <2>1. CASE Register(Serial)
    <3>1. descriptor'[Serial] = current_inode + 1 /\ current_inode \in Nat
      BY <1>1, <2>1 DEF IInv, RegistryInv, Register
    <3> QED  BY <1>1, <2>1, <3>1, RegisterKeeps DEF IInv
  <2>2. CASE RegisterFails(Serial)
    <3>1. descriptor'[Serial] = -1
      BY <1>1, <2>2 DEF IInv, RegistryInv, RegisterFails
    <3> QED  BY <1>1, <2>2, <3>1, FailureKeeps DEF IInv
  <2>3. CASE UNCHANGED <<inodes, current_inode, current_inode_number>>
             /\ descriptor' = [descriptor EXCEPT ![Serial] = -1]
    BY <1>1, <2>3 DEF IInv, RegistryInv, ListEnds, Numbered, Described
  <2> QED  BY <2>1, <2>2, <2>3 DEF serial_init, register_device
<1>3. /\ fifo' = <<>> /\ arrived' = <<>> /\ console' = console
      /\ pc = "serial_init" /\ pc' = "read"
  BY DEF serial_init, initialize_serial_device
<1>4. console = <<>> /\ <<>> \in Seq(Bytes) /\ <<>> \in Seq(Int)
  BY <1>3, EmptySeq DEF IInv, LoopInv, ReadsAfterInit
<1>5. EchoesInput'
  <2>1. Translated(<<>>) \in Seq(Int)
    BY <1>4, TranslatedFacts
  <2>2. Translated(fifo)' = Translated(<<>>) /\ Translated(arrived)' = Translated(<<>>)
    BY <1>3 DEF Translated
  <2>3. Shown' = <<>>
    BY <1>3, <1>4 DEF Shown
  <2> QED  BY <2>1, <2>2, <2>3, ConcatEmptySeq DEF EchoesInput
<1>6. LoopInv'
  BY <1>2, <1>3, <1>4 DEF LoopInv, ReadsAfterInit
<1> QED  BY <1>2, <1>5, <1>6 DEF IInv

LEMMA ReadCharIInv == ASSUME IInv, ReadChar PROVE IInv'
<1> DEFINE c == serial_read_char(Head(fifo))
<1>1. /\ pc = "read" /\ fifo # <<>> /\ fifo' = Tail(fifo)
      /\ UNCHANGED <<inodes, current_inode, current_inode_number, descriptor, arrived>>
  BY DEF ReadChar, Rest, registryVars
<1>2. /\ fifo \in Seq(Bytes) /\ Head(fifo) \in Bytes /\ Tail(fifo) \in Seq(Bytes)
      /\ console \in Seq(Int) /\ c \in Int
  BY <1>1, HeadTailProperties, CharIsInt DEF IInv, LoopInv
<1>3. RegistryInv'
  BY <1>1 DEF IInv, RegistryInv, ListEnds, Numbered, Described
<1>4. /\ Shown' = Append(console, c) /\ Shown = console
      /\ console' \in {console, Append(console, c)} /\ pc' \in {"read", "eof"}
  <2>1. CASE c = EOF
    BY <1>1, <2>1 DEF ReadChar, Echo, Shown
  <2>2. CASE c # EOF
    BY <1>1, <2>2 DEF ReadChar, Echo, Shown
  <2> QED  BY <2>1, <2>2
<1>5. LoopInv'
  <2> HIDE DEF c
  <2>1. console' \in Seq(Int)
    BY <1>2, <1>4, AppendProperties
  <2> QED  BY <1>1, <1>2, <1>4, <2>1 DEF IInv, LoopInv, ReadsAfterInit
<1>6. Shown' \o Translated(Tail(fifo)) = Shown \o Translated(fifo)
  <2> HIDE DEF c
  <2>1. Shown' = console \o <<c>> /\ <<c>> \in Seq(Int)
    BY <1>2, <1>4, AppendIsConcat
  <2>2. Translated(Tail(fifo)) \in Seq(Int)
    BY <1>2, TranslatedFacts
  <2>3. Translated(fifo) = <<c>> \o Translated(Tail(fifo))
    BY <1>1, <1>2, TranslatedHead DEF c
  <2> QED  BY <1>2, <1>4, <2>1, <2>2, <2>3, ConcatAssociative
<1>7. EchoesInput'
  BY <1>1, <1>6 DEF IInv, EchoesInput, Translated
<1> QED  BY <1>3, <1>5, <1>7 DEF IInv

(***************************************************************************)
(* A read without a device: the registration failed, so nothing is shown   *)
(* of the port.                                                            *)
(***************************************************************************)
LEMMA ReadNothingIInv == ASSUME IInv, ReadNothing PROVE IInv'
<1>1. /\ pc = "read" /\ find_device_inode(descriptor[Serial]) = NULL
      /\ UNCHANGED <<inodes, current_inode, current_inode_number, descriptor, fifo, arrived>>
  BY DEF ReadNothing, registryVars
<1>2. Serial \in Device /\ Serial # NULL
  BY CharacterDevicesAssumption DEF Device
<1>3. descriptor[Serial] < 0
  <2>1. ~ descriptor[Serial] > 0
    BY <1>1, <1>2, Finds DEF IInv, DescriptorsFind
  <2> QED  BY <1>1, <1>2, <2>1 DEF IInv, RegistryInv, LoopInv, ReadsAfterInit
<1>4. RegistryInv'
  BY <1>1 DEF IInv, RegistryInv, ListEnds, Numbered, Described
<1>5. PICK c \in {EOF} \cup {AsChar(b) : b \in Bytes} : Echo(c)
  BY DEF ReadNothing
<1>6. c \in Int
  BY CharacterDevicesAssumption DEF EOF, AsChar
<1>7. console' \in Seq(Int) /\ pc' \in {"read", "eof"}
  <2>1. console \in Seq(Int)
    BY DEF IInv, LoopInv
  <2>2. Append(console, c) \in Seq(Int)
    BY <1>6, <2>1, AppendProperties
  <2>3. \/ pc' = "eof" /\ console' = console
        \/ pc' = pc /\ console' = Append(console, c)
    BY <1>5 DEF Echo
  <2> QED  BY <1>1, <2>1, <2>2, <2>3
<1>8. LoopInv'
  BY <1>1, <1>3, <1>7 DEF IInv, LoopInv, ReadsAfterInit
<1>9. EchoesInput'
  BY <1>1, <1>2, <1>3 DEF IInv, RegistryInv, EchoesInput
<1> QED  BY <1>4, <1>8, <1>9 DEF IInv

LEMMA ReceiveIInv ==
    ASSUME IInv, NEW b \in Bytes, Receive(b)
    PROVE  IInv'
<1> DEFINE c == serial_read_char(b)
<1>1. /\ fifo' = Append(fifo, b) /\ arrived' = Append(arrived, b)
      /\ UNCHANGED <<inodes, current_inode, current_inode_number, descriptor, pc, console>>
  BY DEF Receive, registryVars
<1>2. fifo \in Seq(Bytes) /\ arrived \in Seq(Bytes) /\ console \in Seq(Int) /\ c \in Int
  BY CharIsInt DEF IInv, LoopInv
<1>3. RegistryInv'
  BY <1>1 DEF IInv, RegistryInv, ListEnds, Numbered, Described
<1>4. LoopInv'
  BY <1>1, <1>2, AppendProperties DEF IInv, LoopInv, ReadsAfterInit
<1>5. ASSUME Shown \o Translated(fifo) = Translated(arrived)
      PROVE  Shown \o Translated(Append(fifo, b)) = Translated(Append(arrived, b))
  <2> HIDE DEF c
  <2>1. Translated(fifo) \in Seq(Int) /\ Translated(arrived) \in Seq(Int) /\ <<c>> \in Seq(Int)
    BY <1>2, TranslatedFacts
  <2>2. /\ Translated(Append(fifo, b)) = Translated(fifo) \o <<c>>
        /\ Translated(Append(arrived, b)) = Translated(arrived) \o <<c>>
    BY <1>2, <2>1, TranslatedAppend, AppendIsConcat DEF c
  <2>3. Shown \in Seq(Int)
    BY <1>2, AppendProperties DEF Shown, EOF
  <2>4. Shown \o (Translated(fifo) \o <<c>>) = (Shown \o Translated(fifo)) \o <<c>>
    BY <2>1, <2>3, ConcatAssociative
  <2> QED  BY <1>5, <2>2, <2>4
<1>6. EchoesInput'
  BY <1>1, <1>5 DEF IInv, EchoesInput, Translated, Shown
<1> QED  BY <1>3, <1>4, <1>6 DEF IInv

LEMMA NextIInv == IInv /\ [Next]_vars => IInv'
<1> SUFFICES ASSUME IInv, [Next]_vars PROVE IInv'
  OBVIOUS
<1>1. CASE UNCHANGED vars
  BY <1>1
  DEF vars, IInv, RegistryInv, ListEnds, Numbered, Described, LoopInv, ReadsAfterInit, EchoesInput, Translated,
      Shown
<1> QED
  BY <1>1, DriverIInv, SerialInitIInv, ReadCharIInv, ReadNothingIInv, ReceiveIInv
  DEF Next, Kernel

THEOREM Invariance == Spec => []IInv
  BY InitIInv, NextIInv, PTL DEF Spec

(***************************************************************************)
(* What register_device returned to a driver is found by                   *)
(* find_device_inode, and is the driver's, for good.                       *)
(***************************************************************************)
THEOREM DescriptorsSound == Spec => []DescriptorsFind
<1>1. IInv => DescriptorsFind
  BY Finds DEF IInv
<1> QED  BY <1>1, Invariance, PTL

(***************************************************************************)
(* kernel_main echoes what the serial port took since serial_init, in      *)
(* order, with nothing lost or shown twice, up to the end of the input, if *)
(* serial_init could register the device.                                  *)
(***************************************************************************)
THEOREM Echoes == Spec => []EchoesInput
<1>1. IInv => EchoesInput
  BY DEF IInv
<1> QED  BY <1>1, Invariance, PTL

===============================================================================
