---------------------------- MODULE CharacterDevices ----------------------------
(***************************************************************************)
(* The registry of character devices (chrdev.c), the driver of the serial  *)
(* port (serial.c) and the loop of kernel_main (kernel.c) that reads the   *)
(* port through the registry and echoes what it reads.                     *)
(*                                                                         *)
(* Drivers register one after the other, serial_init among them.  Memory   *)
(* comes from malloc, that may fail.  The port receives at any time: it    *)
(* keeps FifoSize bytes and drops what comes when it is full.              *)
(***************************************************************************)
EXTENDS Integers, Sequences

CONSTANTS
    Drivers,        \* drivers other than the serial one that register a device
    Bytes,          \* the bytes that arrive
    FifoSize,       \* the bytes the port keeps
    MaxInput,       \* bound: bytes that arrive
    MayFail         \* may malloc fail?

Serial == "serial"
Device == Drivers \cup {Serial}
NULL == "NULL"

CHRDEV_INODE_BASE == 1
DELETE == 127                  \* SERIAL_BACKSPACE
BACKSPACE == 8                 \* '\b'
SERIAL_END_OF_TEXT == 3
EOF == -1

ASSUME CharacterDevicesAssumption ==
    /\ Serial \notin Drivers /\ NULL \notin Device
    /\ Bytes \subseteq 0..255
    /\ FifoSize \in Nat \ {0} /\ MaxInput \in Nat
    /\ MayFail \in BOOLEAN

VARIABLES
    inodes,                 \* the list, base_inode first
    current_inode,          \* the position of the last inode, 0 for NULL
    current_inode_number,
    descriptor,             \* what register_device returned: 0 before
    pc,                     \* where kernel_main is
    fifo,                   \* what the port received and nobody read
    arrived,                \* the bytes the port took, since serial_init once that is through
    console                 \* the characters echoed

vars == <<inodes, current_inode, current_inode_number, descriptor, pc, fifo, arrived, console>>
registryVars == <<inodes, current_inode, current_inode_number, descriptor>>

\* base_inode is static memory: it is on the list, and zero, from the start
Init ==
    /\ inodes = <<[inode |-> 0, device |-> NULL]>>
    /\ current_inode = 0
    /\ current_inode_number = CHRDEV_INODE_BASE
    /\ descriptor = [d \in Device |-> 0]
    /\ pc = "serial_init"
    /\ fifo = <<>> /\ arrived = <<>> /\ console = <<>>

-------------------------------------------------------------------------------
(***************************************************************************)
(* register_device, after new_inode: the first inode is base_inode, the    *)
(* others are linked behind the current one.                               *)
(***************************************************************************)
NextNumber_Same_Mutant(n) == n

NextNumber(n) == n + 1

Register(d) ==
    LET new == [inode |-> current_inode_number, device |-> d]
    IN  /\ inodes' = IF current_inode = 0 THEN <<new>>
                     ELSE SubSeq(inodes, 1, current_inode) \o <<new>>
        /\ current_inode' = current_inode + 1
        /\ current_inode_number' = NextNumber(current_inode_number)
        /\ descriptor' = [descriptor EXCEPT ![d] = current_inode_number]

\* malloc returned NULL: the list ends where it did
AfterFailure_Advanced_Mutant == 0

AfterFailure == current_inode

RegisterFails(d) ==
    /\ MayFail /\ current_inode # 0
    /\ inodes' = SubSeq(inodes, 1, current_inode)
    /\ current_inode' = AfterFailure
    /\ descriptor' = [descriptor EXCEPT ![d] = -1]
    /\ UNCHANGED current_inode_number

register_device(d) == Register(d) \/ RegisterFails(d)

\* a driver whose registration failed may try again
RegisterDriver(d) ==
    /\ descriptor[d] <= 0
    /\ register_device(d)
    /\ UNCHANGED <<pc, fifo, arrived, console>>

(***************************************************************************)
(* serial_init, called once.  Setting the port up clears what it received  *)
(* before (0xC7 to the FIFO control register).  The memory of the          *)
(* descriptor may fail too.                                                *)
(***************************************************************************)
initialize_serial_device == fifo' = <<>> /\ arrived' = <<>>

serial_init ==
    /\ pc = "serial_init"
    /\ initialize_serial_device
    /\ \/ register_device(Serial)
       \/ /\ MayFail
          /\ descriptor' = [descriptor EXCEPT ![Serial] = -1]
          /\ UNCHANGED <<inodes, current_inode, current_inode_number>>
    /\ pc' = "read"
    /\ UNCHANGED console

-------------------------------------------------------------------------------
(***************************************************************************)
(* Reading: a linear search for the inode, then the driver's readchar.     *)
(***************************************************************************)
Matching(number) == {i \in DOMAIN inodes : inodes[i].inode = number}

find_device_inode(number) ==
    IF Matching(number) = {} THEN NULL
    ELSE inodes[CHOOSE i \in Matching(number) : \A j \in Matching(number) : i <= j].device

AsChar(b) == IF b >= 128 THEN b - 256 ELSE b

serial_read_char(b) ==
    IF b = DELETE THEN BACKSPACE
    ELSE IF b = SERIAL_END_OF_TEXT THEN EOF
    ELSE AsChar(b)

Echo(c) ==
    IF c = EOF THEN pc' = "eof" /\ UNCHANGED console
    ELSE console' = Append(console, c) /\ UNCHANGED pc

Rest_Flush_Mutant(queue) == <<>>

Rest(queue) == Tail(queue)

ReadChar ==
    /\ pc = "read"
    /\ find_device_inode(descriptor[Serial]) = Serial
    /\ fifo # <<>>
    /\ fifo' = Rest(fifo)
    /\ Echo(serial_read_char(Head(fifo)))
    /\ UNCHANGED <<registryVars, arrived>>

\* no such inode: read_device_char returns without a value, so any may come
ReadNothing ==
    /\ pc = "read"
    /\ find_device_inode(descriptor[Serial]) = NULL
    /\ Len(console) < MaxInput
    /\ \E c \in {EOF} \cup {AsChar(b) : b \in Bytes} : Echo(c)
    /\ UNCHANGED <<registryVars, fifo, arrived>>

-------------------------------------------------------------------------------
(***************************************************************************)
(* The port receives a byte.                                               *)
(***************************************************************************)
Receive(b) ==
    /\ Len(arrived) < MaxInput
    /\ Len(fifo) < FifoSize
    /\ fifo' = Append(fifo, b)
    /\ arrived' = Append(arrived, b)
    /\ UNCHANGED <<registryVars, pc, console>>

Kernel == serial_init \/ ReadChar \/ ReadNothing

Next ==
    \/ \E d \in Drivers : RegisterDriver(d)
    \/ Kernel
    \/ \E b \in Bytes : Receive(b)

Spec == Init /\ [][Next]_vars /\ WF_vars(Kernel)

-------------------------------------------------------------------------------
(***************************************************************************)
(* A descriptor names one device for good: whatever registered before or   *)
(* after it, and whichever registrations failed, looking up what           *)
(* register_device returned to a driver finds the device of that driver.   *)
(***************************************************************************)
DescriptorsFind ==
    \A d \in Device : descriptor[d] > 0 => find_device_inode(descriptor[d]) = d

(***************************************************************************)
(* Once serial_init registered the device, the console shows what the port *)
(* took since, translated, in order, with nothing lost or shown twice, up  *)
(* to the byte that ended the input, if one did.  kernel_main does not     *)
(* look whether the registration failed (kernel.c:32-36): what it echoes   *)
(* then is nothing the port received, and no property speaks of it.        *)
(***************************************************************************)
Translated(bytes) == [i \in DOMAIN bytes |-> serial_read_char(bytes[i])]

Shown == IF pc = "eof" THEN Append(console, EOF) ELSE console

EchoesInput ==
    descriptor[Serial] > 0 => Shown \o Translated(fifo) = Translated(arrived)

(***************************************************************************)
(* Each byte the port took since serial_init is read in the end, unless    *)
(* the input ended, if the device was registered.                          *)
(***************************************************************************)
HasRead(n) == Len(arrived) - Len(fifo) >= n

InputIsRead ==
    \A n \in 1..MaxInput :
        (Len(arrived) >= n /\ descriptor[Serial] > 0) ~> (HasRead(n) \/ pc = "eof")

===============================================================================
