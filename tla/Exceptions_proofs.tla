--------------------------- MODULE Exceptions_proofs ---------------------------
(***************************************************************************)
(* Proofs about the handlers of exceptions, for every set of exceptions    *)
(* and error codes and for handlers nested to any depth.                   *)
(***************************************************************************)
EXTENDS Exceptions, TLAPS, SequenceTheorems

Notifying == {0, 1, 3, 5, 16, 17, 20}
Fatal == Handled \ Notifying
Popping == {GeneralProtection, PageFault}
Stopping == Fatal \ {GeneralProtection}

\* where each program saves the registers, takes them back, returns and stops
SaveAt(v) == IF v \in Popping THEN 2 ELSE 1
ReturnAt(v) == IF v \in Notifying THEN 4 ELSE IF v = NMI THEN 7 ELSE IF v \in Popping THEN 8 ELSE 6
StopAt(v) == IF v = NMI THEN 5 ELSE IF v = PageFault THEN 6 ELSE 4

Word == {{}, {"eip"}, {"cs"}, {"eflags"}, {"register"}, {"argument"}}
        \cup PageCodes \cup FaultCodes \cup NmiCauses
Saying == {{}} \cup {PageCause(w) : w \in Word} \cup {{NmiCause(w)} : w \in Word}
          \cup {{FaultCause(w)} : w \in Word}
Progress == [v : Handled, at : 1..8, why : Word, said : Saying]

(***************************************************************************)
(* What a handler and the exception it serves have on the stack.           *)
(***************************************************************************)
Arguments == <<{"argument"}, {"argument"}>>
TwoRegisters == <<{"register"}, {"register"}>>

Saved(h) ==
    IF h.v = GeneralProtection /\ h.at = 7 THEN Arguments \o Registers
    ELSE IF h.v = GeneralProtection /\ h.at = 8 THEN TwoRegisters
    ELSE IF SaveAt(h.v) < h.at /\ h.at < ReturnAt(h.v) THEN Registers
    ELSE <<>>
ErrorCode(h) == IF h.v \in WithCode /\ (h.v \in Popping => h.at = 1) THEN <<h.why>> ELSE <<>>
Part(h) == Saved(h) \o (ErrorCode(h) \o Frame)

(***************************************************************************)
(* The inductive invariant.  The stack is what the handlers in progress    *)
(* have on it, each on top of the stack it interrupted (stacks are the     *)
(* stack now and the ones interrupted, down to the kernel's); handlers     *)
(* that stop the system never get past that; and the error code in         *)
(* int_pfErrorCode is that of the last page fault that took it.            *)
(***************************************************************************)
Layout(stacks) ==
    /\ Len(stacks) = Len(active) + 1
    /\ stacks[1] = stack
    /\ stacks[Len(active) + 1] = <<>>
    /\ \A i \in 1..Len(active) : stacks[i] = Part(active[i]) \o stacks[i + 1]

StackInv ==
    /\ stack \in Seq(Word)
    /\ lost = NoVector => \E stacks \in Seq(Seq(Word)) : Layout(stacks)

Reachable(h) == h.at <= IF h.v \in Stopping THEN StopAt(h.v) ELSE ReturnAt(h.v)

HandlersInv ==
    /\ active \in Seq(Progress)
    /\ \A i \in 1..Len(active) :
           /\ Reachable(active[i])
           /\ active[i].v = AlignmentCheck => active[i].why = {}
           /\ active[i].v = PageFault =>
                  active[i].said \in {{}, PageCause(active[i].why)}

\* a page fault handler that took its error code
Took(h) == h.v = PageFault /\ h.at > 1

CodeInv ==
    /\ code \in [Popping -> Word]
    /\ \A i \in 1..Len(active) :
           Took(active[i]) /\ (\A j \in 1..(i - 1) : ~ Took(active[j])) =>
               code[PageFault] = active[i].why

EndInv ==
    /\ lost \in Leaky \cup {NoVector}
    /\ lost # NoVector => active = <<>>
    /\ display # KernelColours /\ lost = NoVector => \E i \in 1..Len(active) : active[i].v \in Fatal

IInv == HandlersInv /\ StackInv /\ CodeInv /\ EndInv

-------------------------------------------------------------------------------
(***************************************************************************)
(* The programs, and where each instruction of them is.                    *)
(***************************************************************************)
LEMMA Programs ==
    /\ \A v \in Notifying : Program(v) = Notify
    /\ \A v \in Fatal \ {NMI, GeneralProtection, PageFault} : Program(v) = Stop
    /\ Program(NMI) = i386_nmi
    /\ Program(GeneralProtection) = i386_genprotectfault
    /\ Program(PageFault) = i386_pagefault
<1>1. \A v \in Notifying : Program(v) = Notify
  BY DEF Notifying, Program, i386_divbyzero, i386_debugtrap, i386_breakpoint, i386_bounderror,
         i386_fpuexception, i386_aligncheck, i386_virtualizeexception
<1>2. \A v \in {4, 6, 7, 8, 10, 11, 12, 18, 19, 30} : Program(v) = Stop
  BY DEF Program, i386_overflow, i386_badopcode, i386_deviceerror, i386_doublefault,
         i386_invalidtss, i386_segnotpresent, i386_stacksegfault, i386_machinecheck,
         i386_simdexception, i386_securityexception
<1>3. Fatal \ {NMI, GeneralProtection, PageFault} = {4, 6, 7, 8, 10, 11, 12, 18, 19, 30}
  BY DEF Fatal, Handled, Notifying, NMI, GeneralProtection, PageFault
<1>4. /\ Program(NMI) = i386_nmi
      /\ Program(GeneralProtection) = i386_genprotectfault
      /\ Program(PageFault) = i386_pagefault
  BY DEF Program, NMI, GeneralProtection, PageFault
<1> QED  BY <1>1, <1>2, <1>3, <1>4

Places(v, at) ==
    /\ Program(v)[at] = "pop_code" <=> v \in Popping /\ at = 1
    /\ Program(v)[at] = "pushad" <=> at = SaveAt(v)
    /\ Program(v)[at] = "set_disp" <=> v \in Fatal /\ at = SaveAt(v) + 1
    /\ Program(v)[at] = "report" =>
           /\ at \in {SaveAt(v) + 1, SaveAt(v) + 2} /\ at < ReturnAt(v) - 1
           /\ v = GeneralProtection => at = 4
    /\ Program(v)[at] = "describe" =>
           v \in {NMI, GeneralProtection, PageFault} /\ at = SaveAt(v) + 3
    /\ Program(v)[at] = "i386_system_stop" <=> v \in Stopping /\ at = StopAt(v)
    /\ Program(v)[at] = "report_and_leave" <=> v = GeneralProtection /\ at = 6
    /\ Program(v)[at] = "popad" <=> at = ReturnAt(v) - 1
    /\ Program(v)[at] = "iretd" <=> at = ReturnAt(v)

LEMMA Instructions ==
    ASSUME NEW v \in Handled, NEW at \in 1..8, at <= ReturnAt(v)
    PROVE  Places(v, at)
<1>1. CASE v \in Notifying
  <2>1. ReturnAt(v) = 4 /\ SaveAt(v) = 1 /\ v \notin Fatal /\ v \notin Popping /\ v \notin Stopping
        /\ v # GeneralProtection
    BY <1>1 DEF ReturnAt, SaveAt, Fatal, Stopping, Popping, GeneralProtection, PageFault, Notifying
  <2>2. Program(v) = Notify /\ at \in {1, 2, 3, 4}
    BY <1>1, <2>1, Programs
  <2> QED  BY <2>1, <2>2 DEF Places, Notify
<1>2. CASE v \in Fatal \ {NMI, GeneralProtection, PageFault}
  <2>1. ReturnAt(v) = 6 /\ SaveAt(v) = 1 /\ StopAt(v) = 4 /\ v \in Fatal /\ v \notin Popping
        /\ v \in Stopping /\ v # GeneralProtection
    BY <1>2 DEF ReturnAt, SaveAt, StopAt, Fatal, Stopping, Popping
  <2>2. Program(v) = Stop /\ at \in {1, 2, 3, 4, 5, 6}
    BY <1>2, <2>1, Programs
  <2> QED  BY <2>1, <2>2 DEF Places, Stop
<1>3. CASE v = NMI
  <2>1. ReturnAt(v) = 7 /\ SaveAt(v) = 1 /\ StopAt(v) = 5 /\ v \in Fatal /\ v \notin Popping
        /\ v \in Stopping /\ v # GeneralProtection
    BY <1>3 DEF ReturnAt, SaveAt, StopAt, Fatal, Stopping, Popping, NMI, GeneralProtection,
                PageFault, Handled, Notifying
  <2>2. Program(v) = i386_nmi /\ at \in {1, 2, 3, 4, 5, 6, 7}
    BY <1>3, <2>1, Programs
  <2> QED  BY <1>3, <2>1, <2>2 DEF Places, i386_nmi
<1>4. CASE v = GeneralProtection
  <2>1. ReturnAt(v) = 8 /\ SaveAt(v) = 2 /\ v \in Fatal /\ v \in Popping /\ v \notin Stopping
    BY <1>4 DEF ReturnAt, SaveAt, StopAt, Fatal, Stopping, Popping, NMI, GeneralProtection,
                PageFault, Handled, Notifying
  <2>2. Program(v) = i386_genprotectfault /\ at \in {1, 2, 3, 4, 5, 6, 7, 8}
    BY <1>4, <2>1, Programs
  <2> QED  BY <1>4, <2>1, <2>2 DEF Places, i386_genprotectfault
<1>5. CASE v = PageFault
  <2>1. ReturnAt(v) = 8 /\ SaveAt(v) = 2 /\ StopAt(v) = 6 /\ v \in Fatal /\ v \in Popping
        /\ v \in Stopping /\ v # GeneralProtection
    BY <1>5 DEF ReturnAt, SaveAt, StopAt, Fatal, Stopping, Popping, NMI, GeneralProtection,
                PageFault, Handled, Notifying
  <2>2. Program(v) = i386_pagefault /\ at \in {1, 2, 3, 4, 5, 6, 7, 8}
    BY <1>5, <2>1, Programs
  <2> QED  BY <1>5, <2>1, <2>2 DEF Places, i386_pagefault
<1> QED  BY <1>1, <1>2, <1>3, <1>4, <1>5 DEF Fatal

-------------------------------------------------------------------------------
(***************************************************************************)
(* What one instruction does to the words a handler has on the stack.      *)
(***************************************************************************)
LEMMA Words ==
    /\ Frame \in Seq(Word) /\ Len(Frame) = 3 /\ Frame[1] = {"eip"}
    /\ Registers \in Seq(Word) /\ Len(Registers) = 8
    /\ Arguments \in Seq(Word) /\ Len(Arguments) = 2
    /\ TwoRegisters \in Seq(Word) /\ Len(TwoRegisters) = 2 /\ TwoRegisters[1] = {"register"}
    /\ <<>> \in Seq(Word)
<1>1. \A i \in 1..8 : {"register"} \in Word
  BY DEF Word
<1>2. Registers \in Seq(Word) /\ Len(Registers) = 8
  BY <1>1 DEF Registers
<1> QED  BY <1>2 DEF Frame, Arguments, TwoRegisters, Word

LEMMA Regroup ==
    \A p, q, r \in Seq(Word) : (p \o q) \o r = p \o (q \o r)
  BY ConcatAssociative

LEMMA TakenOff ==
    ASSUME NEW p \in Seq(Word), NEW r \in Seq(Word)
    PROVE  /\ SubSeq(p \o r, Len(p) + 1, Len(p \o r)) = r
           /\ IsPrefix(p, p \o r)
<1> DEFINE s == p \o r
           m == Len(p) + 1
           n == Len(s)
           t == SubSeq(s, m, n)
<1>1. /\ s \in Seq(Word) /\ n = Len(p) + Len(r) /\ Len(p) \in Nat /\ Len(r) \in Nat
      /\ \A i \in 1..n : s[i] = IF i <= Len(p) THEN p[i] ELSE r[i - Len(p)]
  BY ConcatProperties, LenProperties
<1>2. m \in Int /\ n \in Int /\ \A i \in m..n : s[i] \in Word
  BY <1>1, ElementOfSeq
<1>3. t \in Seq(Word) /\ Len(t) = Len(r) /\ \A i \in 1..Len(r) : t[i] = s[Len(p) + i]
  <2> HIDE DEF s
  <2>1. /\ t \in Seq(Word) /\ Len(t) = IF m <= n THEN n - m + 1 ELSE 0
        /\ \A i \in 1..(n - m + 1) : t[i] = s[m + i - 1]
    BY <1>2, SubSeqProperties
  <2>2. n - m + 1 = Len(r) /\ (m <= n <=> Len(r) # 0)
    BY <1>1
  <2>3. \A i \in 1..Len(r) : m + i - 1 = Len(p) + i
    BY <1>1
  <2> HIDE DEF t, m, n
  <2> QED  BY <1>1, <2>1, <2>2, <2>3
<1>4. \A i \in 1..Len(t) : t[i] = r[i]
  <2> HIDE DEF s, t
  <2> SUFFICES ASSUME NEW i \in 1..Len(r) PROVE t[i] = r[i]
    BY <1>3
  <2>1. Len(p) + i \in 1..n /\ ~ (Len(p) + i <= Len(p)) /\ (Len(p) + i) - Len(p) = i
    BY <1>1
  <2> QED  BY <1>1, <1>3, <2>1
<1>5. t = r
  <2> HIDE DEF t
  <2> QED  BY <1>3, <1>4, SeqEqual
<1>6. IsPrefix(p, s)
  <2>1. SubSeq(p, 1, Len(p)) = p
    BY SubSeqFull
  <2>2. SubSeq(s, 1, Len(p)) = p
    <3> DEFINE u == SubSeq(s, 1, Len(p))
    <3>1. \A i \in 1..Len(p) : s[i] \in Word /\ s[i] = p[i]
      BY <1>1, ElementOfSeq
    <3> HIDE DEF s
    <3>2. /\ u \in Seq(Word) /\ Len(u) = Len(p)
          /\ \A i \in 1..(Len(p) - 1 + 1) : u[i] = s[1 + i - 1]
      BY <1>1, <3>1, SubSeqProperties
    <3>3. \A i \in 1..Len(p) : u[i] = p[i]
      BY <1>1, <3>1, <3>2
    <3> HIDE DEF u
    <3>4. u = p
      BY <3>2, <3>3, SeqEqual
    <3> QED  BY <3>4 DEF u
  <2> QED  BY <1>1, <2>1, <2>2 DEF IsPrefix
<1> QED  BY <1>5, <1>6

LEMMA PartFacts ==
    ASSUME NEW h \in Progress
    PROVE  Part(h) \in Seq(Word) /\ ErrorCode(h) \o Frame \in Seq(Word) /\ Saved(h) \in Seq(Word)
<1>1. ErrorCode(h) \in Seq(Word)
  BY Words DEF ErrorCode, Progress
<1>2. Arguments \o Registers \in Seq(Word)
  BY Words, ConcatProperties
<1>3. Saved(h) \in Seq(Word)
  BY <1>2, Words DEF Saved
<1> QED  BY <1>1, <1>3, Words, ConcatProperties DEF Part

LEMMA Joined ==
    ASSUME NEW p \in Seq(Word), NEW q \in Seq(Word), NEW k, Len(p) + Len(q) = k
    PROVE  /\ p \o q \in Seq(Word) /\ Len(p \o q) = k
           /\ \A i \in 1..k : (p \o q)[i] = IF i <= Len(p) THEN p[i] ELSE q[i - Len(p)]
  BY ConcatProperties

(***************************************************************************)
(* The two arguments that the protection fault handler leaves take the     *)
(* place of two registers when the others are taken back.                  *)
(***************************************************************************)
Six == [i \in 1..6 |-> {"register"}]
Eight == Arguments \o Six

LEMMA LeftOver ==
    Eight \in Seq(Word) /\ Len(Eight) = 8 /\ Arguments \o Registers = Eight \o TwoRegisters
<1> DEFINE a == Arguments \o Registers
           b == Eight \o TwoRegisters
<1>1. Six \in Seq(Word) /\ Len(Six) = 6
  <2>1. {"register"} \in Word
    BY DEF Word
  <2> QED  BY <2>1 DEF Six
<1>2. Len(Arguments) + Len(Six) = 8 /\ Len(Arguments) = 2
  BY <1>1, Words
<1>3. Eight \in Seq(Word) /\ Len(Eight) = 8
  <2> PICK p \in Seq(Word), q \in Seq(Word) : p = Arguments /\ q = Six
    BY <1>1, Words
  <2>1. p \o q \in Seq(Word) /\ Len(p \o q) = Len(p) + Len(q)
    BY ConcatProperties
  <2> QED  BY <1>2, <2>1 DEF Eight
<1>4. \A i \in 1..8 : Eight[i] = IF i <= 2 THEN Arguments[i] ELSE {"register"}
  <2>1. \A i \in 1..6 : Six[i] = {"register"}
    BY DEF Six
  <2>2. \A i \in 1..8 : (Arguments \o Six)[i] =
            IF i <= Len(Arguments) THEN Arguments[i] ELSE Six[i - Len(Arguments)]
    <3> PICK p \in Seq(Word), q \in Seq(Word) : p = Arguments /\ q = Six
      BY <1>1, Words
    <3>1. Len(p) + Len(q) = 8
      BY <1>2
    <3>2. \A i \in 1..8 : (p \o q)[i] = IF i <= Len(p) THEN p[i] ELSE q[i - Len(p)]
      BY <3>1, Joined
    <3> QED  BY <3>1, <3>2
  <2>3. Eight = Arguments \o Six
    BY DEF Eight
  <2> SUFFICES ASSUME NEW i \in 1..8
               PROVE  Eight[i] = IF i <= 2 THEN Arguments[i] ELSE {"register"}
    OBVIOUS
  <2>4. CASE i <= 2
    BY <1>2, <2>2, <2>3, <2>4
  <2>5. CASE ~ i <= 2
    <3>1. i - 2 \in 1..6
      BY <2>5
    <3> QED  BY <1>2, <2>1, <2>2, <2>3, <2>5, <3>1
  <2> QED  BY <2>4, <2>5
<1>5. /\ a \in Seq(Word) /\ Len(a) = 10
      /\ \A i \in 1..10 : a[i] = IF i <= 2 THEN Arguments[i] ELSE {"register"}
  <2>1. \A i \in 1..8 : Registers[i] = {"register"}
    BY DEF Registers
  <2>2. Len(Arguments) + Len(Registers) = 10
    BY Words
  <2>3. /\ a \in Seq(Word) /\ Len(a) = 10
        /\ \A i \in 1..10 : a[i] =
               IF i <= Len(Arguments) THEN Arguments[i] ELSE Registers[i - Len(Arguments)]
    <3> PICK p \in Seq(Word), q \in Seq(Word) : p = Arguments /\ q = Registers
      BY Words
    <3>1. Len(p) + Len(q) = 10
      BY <2>2
    <3>2. /\ p \o q \in Seq(Word) /\ Len(p \o q) = Len(p) + Len(q)
          /\ \A i \in 1..(Len(p) + Len(q)) :
                 (p \o q)[i] = IF i <= Len(p) THEN p[i] ELSE q[i - Len(p)]
      <4> HIDE DEF a, b
      <4> QED  BY ConcatProperties
    <3> QED  BY <3>1, <3>2
  <2> HIDE DEF a
  <2> QED  BY <1>2, <2>1, <2>3
<1>6. /\ b \in Seq(Word) /\ Len(b) = 10
      /\ \A i \in 1..10 : b[i] = IF i <= 2 THEN Arguments[i] ELSE {"register"}
  <2>1. \A i \in 1..2 : TwoRegisters[i] = {"register"}
    BY DEF TwoRegisters
  <2>2. Len(Eight) + Len(TwoRegisters) = 10
    BY <1>3, Words
  <2>3. /\ b \in Seq(Word) /\ Len(b) = 10
        /\ \A i \in 1..10 : b[i] =
               IF i <= Len(Eight) THEN Eight[i] ELSE TwoRegisters[i - Len(Eight)]
    <3> PICK p \in Seq(Word), q \in Seq(Word) : p = Eight /\ q = TwoRegisters
      BY <1>3, Words
    <3>1. Len(p) + Len(q) = 10
      BY <2>2
    <3>2. /\ p \o q \in Seq(Word) /\ Len(p \o q) = Len(p) + Len(q)
          /\ \A i \in 1..(Len(p) + Len(q)) :
                 (p \o q)[i] = IF i <= Len(p) THEN p[i] ELSE q[i - Len(p)]
      <4> HIDE DEF a, b
      <4> QED  BY ConcatProperties
    <3> QED  BY <3>1, <3>2
  <2> HIDE DEF b
  <2> QED  BY <1>3, <1>4, <2>1, <2>3
<1>7. a = b
  <2> HIDE DEF a, b
  <2>1. \A i \in 1..Len(a) : a[i] = b[i]
    BY <1>5, <1>6
  <2> QED  BY <1>5, <1>6, <2>1, SeqEqual
<1> QED  BY <1>3, <1>7

(***************************************************************************)
(* What each instruction adds to the words of its handler, or takes off.   *)
(***************************************************************************)
Beyond(g, h) == g \in Progress /\ g.v = h.v /\ g.why = h.why /\ g.at = h.at + 1

LEMMA PartSteps ==
    ASSUME NEW h \in Progress, NEW g, Beyond(g, h), g.at <= ReturnAt(h.v)
    PROVE  /\ h.v \in Popping /\ h.at = 1 => Part(h) = <<h.why>> \o Part(g)
           /\ h.at = SaveAt(h.v) => Part(g) = Registers \o Part(h)
           /\ SaveAt(h.v) < h.at /\ h.at < ReturnAt(h.v) - 1 /\ (h.v = GeneralProtection => h.at < 6)
                  => Part(g) = Part(h)
           /\ h.v = GeneralProtection /\ h.at = 6 => Part(g) = Arguments \o Part(h)
           /\ h.at = ReturnAt(h.v) - 1 /\ h.v # GeneralProtection => Part(h) = Registers \o Part(g)
           /\ h.at = ReturnAt(h.v) - 1 /\ h.v = GeneralProtection => Part(h) = Eight \o Part(g)
<1> DEFINE low == ErrorCode(h) \o Frame
<1>1. g \in Progress /\ g.v = h.v /\ g.why = h.why /\ g.at = h.at + 1 /\ h.at \in 1..8 /\ g.at \in 1..8
  BY DEF Beyond, Progress
<1>2. Part(h) = Saved(h) \o low /\ Part(g) = Saved(g) \o (ErrorCode(g) \o Frame)
      /\ low \in Seq(Word) /\ Part(h) \in Seq(Word) /\ Part(g) \in Seq(Word) /\ Saved(g) \in Seq(Word)
  BY <1>1, PartFacts DEF Part
<1>3. ~ (h.v \in Popping /\ h.at = 1) => ErrorCode(g) = ErrorCode(h)
  BY <1>1 DEF ErrorCode
<1>4. /\ h.v = GeneralProtection => SaveAt(h.v) = 2 /\ ReturnAt(h.v) = 8
      /\ SaveAt(h.v) \in {1, 2} /\ ReturnAt(h.v) \in {4, 6, 7, 8}
      /\ h.v \in Popping => SaveAt(h.v) = 2
      /\ h.v \notin Popping => SaveAt(h.v) = 1
  BY DEF SaveAt, ReturnAt, Popping, GeneralProtection, PageFault, Notifying, NMI
<1> HIDE DEF low
<1>5. CASE h.v \in Popping /\ h.at = 1
  <2>1. Saved(h) = <<>> /\ Saved(g) = <<>>
    BY <1>1, <1>4, <1>5 DEF Saved
  <2>2. h.v \in WithCode
    BY <1>5 DEF Popping, WithCode, GeneralProtection, PageFault
  <2>3. ErrorCode(h) = <<h.why>> /\ ErrorCode(g) = <<>>
    BY <1>1, <1>5, <2>2 DEF ErrorCode
  <2>4. <<h.why>> \o Frame \in Seq(Word) /\ <<>> \o Frame = Frame
    <3>1. <<h.why>> \in Seq(Word)
      BY DEF Progress
    <3> QED  BY <3>1, Words, ConcatProperties, ConcatEmptySeq
  <2>5. Part(h) = <<h.why>> \o Frame /\ Part(g) = Frame
    BY <1>2, <2>1, <2>3, <2>4, Words, ConcatEmptySeq DEF low
  <2> QED  BY <1>4, <1>5, <2>5
<1>6. CASE ~ (h.v \in Popping /\ h.at = 1)
  <2>1. Part(h) = Saved(h) \o low /\ Part(g) = Saved(g) \o low /\ low \in Seq(Word)
    BY <1>2, <1>3, <1>6 DEF low
  <2>2. CASE h.at = SaveAt(h.v)
    <3>1. Saved(h) = <<>> /\ Saved(g) = Registers
      BY <1>1, <1>4, <2>2 DEF Saved
    <3> QED  BY <1>4, <1>6, <2>1, <2>2, <3>1, ConcatEmptySeq
  <2>3. CASE SaveAt(h.v) < h.at /\ h.at < ReturnAt(h.v) - 1 /\ (h.v = GeneralProtection => h.at < 6)
    <3>1. Saved(h) = Registers /\ Saved(g) = Registers
      BY <1>1, <1>4, <2>3 DEF Saved
    <3> QED  BY <1>4, <1>6, <2>1, <2>3, <3>1
  <2>4. CASE h.v = GeneralProtection /\ h.at = 6
    <3>1. Saved(h) = Registers /\ Saved(g) = Arguments \o Registers
      BY <1>1, <1>4, <2>4 DEF Saved
    <3>2. (Arguments \o Registers) \o low = Arguments \o (Registers \o low)
      BY <2>1, Words, Regroup
    <3>3. Part(g) = Arguments \o Part(h)
      BY <2>1, <3>1, <3>2
    <3> QED  BY <1>4, <1>6, <2>4, <3>3
  <2>5. CASE h.at = ReturnAt(h.v) - 1 /\ h.v # GeneralProtection
    <3>1. Saved(h) = Registers /\ Saved(g) = <<>>
      <4>1. SaveAt(h.v) < h.at
        BY <1>1, <2>5 DEF SaveAt, ReturnAt, Popping, PageFault, GeneralProtection, Notifying, NMI
      <4> QED  BY <1>1, <1>4, <2>5, <4>1 DEF Saved
    <3>2. Part(h) = Registers \o Part(g)
      BY <2>1, <3>1, ConcatEmptySeq
    <3> QED  BY <1>4, <1>6, <2>1, <2>5, <3>1, <3>2
  <2>6. CASE h.at = ReturnAt(h.v) - 1 /\ h.v = GeneralProtection
    <3>1. Saved(h) = Arguments \o Registers /\ Saved(g) = TwoRegisters
      BY <1>1, <1>4, <2>6 DEF Saved
    <3>2. Part(h) = Eight \o Part(g)
      <4>1. Part(h) = (Eight \o TwoRegisters) \o low /\ Part(g) = TwoRegisters \o low
        BY <2>1, <3>1, LeftOver
      <4>2. (Eight \o TwoRegisters) \o low = Eight \o (TwoRegisters \o low)
        BY <2>1, Words, LeftOver, Regroup
      <4> QED  BY <4>1, <4>2
    <3> QED  BY <1>4, <1>6, <2>6, <3>2
  <2>7. CASE \/ h.at < SaveAt(h.v)
             \/ h.at > ReturnAt(h.v) - 1
    BY <1>1, <1>4, <1>6, <2>7
  <2>8. CASE h.v = GeneralProtection /\ h.at > 6 /\ h.at < ReturnAt(h.v) - 1
    BY <1>1, <1>4, <2>8
  <2> QED  BY <1>1, <1>4, <2>2, <2>3, <2>4, <2>5, <2>6, <2>7, <2>8
<1> QED  BY <1>5, <1>6

-------------------------------------------------------------------------------
(***************************************************************************)
(* The three ways the stack changes: an exception puts a handler on it, a  *)
(* handler changes its own words, and a handler returns.                   *)
(***************************************************************************)
LEMMA EntryKeepsStack ==
    ASSUME IInv, lost = NoVector, NEW h \in Progress,
           active' = <<h>> \o active, stack' = Part(h) \o stack
    PROVE  StackInv'
<1>1. active \in Seq(Progress) /\ stack \in Seq(Word)
  BY DEF IInv, HandlersInv, StackInv
<1>2. PICK stacks \in Seq(Seq(Word)) : Layout(stacks)
  BY DEF IInv, StackInv
<1>3. stack' \in Seq(Word)
  BY <1>1, PartFacts, ConcatProperties
<1> DEFINE after == <<stack'>> \o stacks
           n == Len(active)
<1>4. n \in Nat /\ Len(stacks) = n + 1
  BY <1>1, <1>2, LenProperties DEF Layout
<1>5. /\ Len(active') = n + 1 /\ active'[1] = h
      /\ \A i \in 2..(n + 1) : active'[i] = active[i - 1]
  <2>1. <<h>> \in Seq(Progress) /\ Len(<<h>>) = 1 /\ <<h>>[1] = h
    OBVIOUS
  <2>2. /\ Len(active') = 1 + n
        /\ \A i \in 1..(1 + n) : active'[i] = IF i <= 1 THEN <<h>>[i] ELSE active[i - 1]
    BY <1>1, <2>1, ConcatProperties
  <2> QED  BY <1>4, <2>1, <2>2
<1>6. /\ after \in Seq(Seq(Word)) /\ Len(after) = n + 2 /\ after[1] = stack'
      /\ \A i \in 2..(n + 2) : after[i] = stacks[i - 1]
  <2>1. <<stack'>> \in Seq(Seq(Word)) /\ Len(<<stack'>>) = 1 /\ <<stack'>>[1] = stack'
    BY <1>3
  <2>2. /\ after \in Seq(Seq(Word)) /\ Len(after) = 1 + (n + 1)
        /\ \A i \in 1..(1 + (n + 1)) : after[i] = IF i <= 1 THEN <<stack'>>[i] ELSE stacks[i - 1]
    BY <1>2, <1>4, <2>1, ConcatProperties
  <2> HIDE DEF after
  <2>3. after[1] = stack'
    <3>1. 1 \in 1..(1 + (n + 1)) /\ 1 <= 1
      BY <1>4
    <3> QED  BY <2>1, <2>2, <3>1, Zenon
  <2>4. ASSUME NEW i \in 2..(n + 2) PROVE after[i] = stacks[i - 1]
    <3>1. i \in 1..(1 + (n + 1)) /\ ~ (i <= 1)
      BY <1>4
    <3> QED  BY <2>2, <3>1, Zenon
  <2>5. 1 + (n + 1) = n + 2
    BY <1>4
  <2> QED  BY <2>2, <2>3, <2>4, <2>5, Zenon
<1> HIDE DEF after, n
<1>7. \A i \in 1..(n + 1) : after[i] = Part(active'[i]) \o after[i + 1]
  <2> SUFFICES ASSUME NEW i \in 1..(n + 1)
               PROVE  after[i] = Part(active'[i]) \o after[i + 1]
    OBVIOUS
  <2>1. CASE i = 1
    <3>1. 2 \in 2..(n + 2) /\ 2 - 1 = 1 /\ 1 + 1 = 2
      BY <1>4
    <3>2. after[2] = stack
      BY <1>2, <1>6, <3>1 DEF Layout
    <3> QED  BY <1>5, <1>6, <2>1, <3>1, <3>2
  <2>2. CASE i # 1
    <3>1. i - 1 \in 1..n /\ (i - 1) + 1 = i /\ (i + 1) - 1 = i /\ i + 1 \in 2..(n + 2) /\ i \in 2..(n + 2)
          /\ i \in 2..(n + 1)
      BY <1>4, <2>2
    <3>2. stacks[i - 1] = Part(active[i - 1]) \o stacks[i]
      BY <1>2, <3>1 DEF Layout, n
    <3>3. after[i] = stacks[i - 1] /\ after[i + 1] = stacks[i] /\ active'[i] = active[i - 1]
      BY <1>5, <1>6, <3>1
    <3> QED  BY <3>2, <3>3
  <2> QED  BY <2>1, <2>2
<1>8. Len(after) = Len(active') + 1 /\ after[1] = stack' /\ after[Len(active') + 1] = <<>>
  <2>1. after[n + 2] = stacks[n + 1] /\ stacks[n + 1] = <<>>
    <3>1. n + 2 \in 2..(n + 2) /\ (n + 2) - 1 = n + 1
      BY <1>4
    <3>2. stacks[n + 1] = <<>>
      BY <1>2 DEF Layout, n
    <3> QED  BY <1>6, <3>1, <3>2
  <2> QED  BY <1>4, <1>5, <1>6, <2>1
<1>9. /\ Len(after) = Len(active') + 1 /\ after[1] = stack' /\ after[Len(active') + 1] = <<>>
      /\ \A i \in 1..Len(active') : after[i] = Part(active'[i]) \o after[i + 1]
  BY <1>5, <1>7, <1>8
<1>10. \E s \in Seq(Seq(Word)) :
           /\ Len(s) = Len(active') + 1 /\ s[1] = stack' /\ s[Len(active') + 1] = <<>>
           /\ \A i \in 1..Len(active') : s[i] = Part(active'[i]) \o s[i + 1]
  BY <1>6, <1>9
<1> QED  BY <1>3, <1>10 DEF StackInv, Layout, Part, Saved, ErrorCode

LEMMA StepKeepsStack ==
    ASSUME IInv, lost = NoVector, active # <<>>, NEW g \in Progress,
           active' = [active EXCEPT ![1] = g],
           \A rest \in Seq(Word) : stack = Part(active[1]) \o rest => stack' = Part(g) \o rest
    PROVE  StackInv'
<1> DEFINE n == Len(active)
<1>1. active \in Seq(Progress) /\ stack \in Seq(Word) /\ n \in Nat \ {0}
  BY EmptySeq DEF IInv, HandlersInv, StackInv
<1>2. PICK stacks \in Seq(Seq(Word)) : Layout(stacks)
  BY DEF IInv, StackInv
<1> DEFINE after == [stacks EXCEPT ![1] = stack']
<1>3. /\ Len(active') = n /\ active'[1] = g
      /\ \A i \in 2..n : active'[i] = active[i]
  BY <1>1, ExceptSeq
<1>4. Len(stacks) = n + 1 /\ 1 \in 1..n /\ 2 \in 1..(n + 1) /\ 1 + 1 = 2
  BY <1>1, <1>2 DEF Layout
<1>5. stacks[2] \in Seq(Word) /\ stack = Part(active[1]) \o stacks[2]
  <2>1. stacks[1] = Part(active[1]) \o stacks[1 + 1] /\ stacks[1] = stack
    BY <1>2, <1>4 DEF Layout
  <2>2. stacks[2] \in Seq(Word)
    <3>1. 2 \in 1..Len(stacks)
      BY <1>4
    <3> QED  BY <1>2, <3>1, ElementOfSeq
  <2> QED  BY <1>4, <2>1, <2>2
<1>6. stack' = Part(g) \o stacks[2] /\ stack' \in Seq(Word)
  BY <1>5, PartFacts, ConcatProperties
<1>7. /\ after \in Seq(Seq(Word)) /\ Len(after) = n + 1 /\ after[1] = stack'
      /\ \A i \in 2..(n + 1) : after[i] = stacks[i]
  BY <1>1, <1>4, <1>6, ExceptSeq
<1> HIDE DEF after, n
<1>8. \A i \in 1..n : after[i] = Part(active'[i]) \o after[i + 1]
  <2> SUFFICES ASSUME NEW i \in 1..n
               PROVE  after[i] = Part(active'[i]) \o after[i + 1]
    OBVIOUS
  <2>1. CASE i = 1
    <3>1. after[2] = stacks[2]
      <4>1. 2 \in 2..(n + 1)
        BY <1>4
      <4> QED  BY <1>7, <4>1
    <3> QED  BY <1>3, <1>4, <1>6, <1>7, <2>1, <3>1
  <2>2. CASE i # 1
    <3>1. i \in 2..n /\ i \in 2..(n + 1) /\ i + 1 \in 2..(n + 1)
      BY <1>1, <2>2
    <3>2. stacks[i] = Part(active[i]) \o stacks[i + 1]
      BY <1>2 DEF Layout, n
    <3> QED  BY <1>3, <1>7, <3>1, <3>2
  <2> QED  BY <2>1, <2>2
<1>9. after[n + 1] = <<>>
  <2>1. n + 1 \in 2..(n + 1) /\ stacks[n + 1] = <<>>
    BY <1>1, <1>2 DEF Layout, n
  <2> QED  BY <1>7, <2>1
<1>10. \E s \in Seq(Seq(Word)) :
           /\ Len(s) = Len(active') + 1 /\ s[1] = stack' /\ s[Len(active') + 1] = <<>>
           /\ \A i \in 1..Len(active') : s[i] = Part(active'[i]) \o s[i + 1]
  BY <1>3, <1>7, <1>8, <1>9
<1> QED  BY <1>6, <1>10 DEF StackInv, Layout, Part, Saved, ErrorCode

LEMMA ReturnKeepsStack ==
    ASSUME IInv, lost = NoVector, active # <<>>, active' = Tail(active),
           Part(active[1]) = Frame, stack' = Drop(3)
    PROVE  StackInv'
<1> DEFINE n == Len(active)
<1>1. active \in Seq(Progress) /\ stack \in Seq(Word) /\ n \in Nat \ {0}
  BY EmptySeq DEF IInv, HandlersInv, StackInv
<1>2. PICK stacks \in Seq(Seq(Word)) : Layout(stacks)
  BY DEF IInv, StackInv
<1> DEFINE after == Tail(stacks)
<1>3. Len(stacks) = n + 1 /\ 1 \in 1..n /\ 2 \in 1..(n + 1) /\ 1 + 1 = 2 /\ stacks # <<>>
  BY <1>1, <1>2, EmptySeq DEF Layout
<1>4. /\ Len(active') = n - 1
      /\ \A i \in 1..(n - 1) : active'[i] = active[i + 1]
  BY <1>1, HeadTailProperties
<1>5. /\ after \in Seq(Seq(Word)) /\ Len(after) = n
      /\ \A i \in 1..n : after[i] = stacks[i + 1]
  <2>1. (n + 1) - 1 = n
    BY <1>1
  <2> QED  BY <1>3, <2>1, HeadTailProperties
<1>6. stacks[2] \in Seq(Word) /\ stack = Frame \o stacks[2]
  <2>1. stacks[1] = Part(active[1]) \o stacks[1 + 1] /\ stacks[1] = stack
    BY <1>2, <1>3 DEF Layout
  <2>2. stacks[2] \in Seq(Word)
    <3>1. 2 \in 1..Len(stacks)
      BY <1>3
    <3> QED  BY <1>2, <3>1, ElementOfSeq
  <2> QED  BY <1>3, <2>1, <2>2
<1>7. stack' = stacks[2]
  <2>1. Frame \in Seq(Word) /\ Len(Frame) = 3
    BY Words
  <2>2. SubSeq(Frame \o stacks[2], Len(Frame) + 1, Len(Frame \o stacks[2])) = stacks[2]
    BY <1>6, <2>1, TakenOff
  <2> QED  BY <1>6, <2>1, <2>2 DEF Drop
<1> HIDE DEF after, n
<1>8. \A i \in 1..(n - 1) : after[i] = Part(active'[i]) \o after[i + 1]
  <2> SUFFICES ASSUME NEW i \in 1..(n - 1)
               PROVE  after[i] = Part(active'[i]) \o after[i + 1]
    OBVIOUS
  <2>1. i \in 1..n /\ i + 1 \in 1..n
    BY <1>1
  <2>2. stacks[i + 1] = Part(active[i + 1]) \o stacks[(i + 1) + 1]
    BY <1>2, <2>1 DEF Layout, n
  <2> QED  BY <1>4, <1>5, <2>1, <2>2
<1>9. after[1] = stack' /\ after[n] = <<>>
  <2>1. stacks[n + 1] = <<>>
    BY <1>2 DEF Layout, n
  <2>2. 1 \in 1..n /\ n \in 1..n
    BY <1>1
  <2>3. after[1] = stacks[1 + 1] /\ after[n] = stacks[n + 1]
    BY <1>5, <2>2
  <2> QED  BY <1>3, <1>7, <2>1, <2>3
<1>10. \E s \in Seq(Seq(Word)) :
           /\ Len(s) = Len(active') + 1 /\ s[1] = stack' /\ s[Len(active') + 1] = <<>>
           /\ \A i \in 1..Len(active') : s[i] = Part(active'[i]) \o s[i + 1]
  <2>1. Len(active') + 1 = n
    BY <1>1, <1>4
  <2> QED  BY <1>4, <1>5, <1>8, <1>9, <2>1
<1>11. stack' \in Seq(Word)
  BY <1>6, <1>7
<1> QED  BY <1>10, <1>11 DEF StackInv, Layout, Part, Saved, ErrorCode

-------------------------------------------------------------------------------
(***************************************************************************)
(* The handler that runs.                                                  *)
(***************************************************************************)
LEMMA Innermost ==
    ASSUME IInv, active # <<>>
    PROVE  /\ active \in Seq(Progress) /\ Len(active) \in Nat \ {0} /\ 1 \in 1..Len(active)
           /\ active[1] \in Progress /\ Reachable(active[1]) /\ lost = NoVector
           /\ active[1].v \in Handled /\ active[1].at \in 1..8
           /\ active[1].at <= ReturnAt(active[1].v)
           /\ Places(active[1].v, active[1].at)
<1>1. /\ active \in Seq(Progress) /\ Len(active) \in Nat \ {0} /\ 1 \in 1..Len(active)
      /\ active[1] \in Progress
  BY EmptySeq, ElementOfSeq DEF IInv, HandlersInv
<1>2. Reachable(active[1]) /\ lost = NoVector
  BY <1>1 DEF IInv, HandlersInv, EndInv
<1>3. active[1].v \in Handled /\ active[1].at \in 1..8
  BY <1>1 DEF Progress
<1>4. active[1].at <= ReturnAt(active[1].v)
  BY <1>2, <1>3 DEF Reachable, StopAt, ReturnAt, Stopping, Fatal, NMI, PageFault, Popping,
                    GeneralProtection
<1> QED  BY <1>1, <1>2, <1>3, <1>4, Instructions

LEMMA StepIInv ==
    ASSUME IInv, NEW op, Instruction(op), op # "i386_system_stop", op # "iretd",
           NEW g, active' = [active EXCEPT ![1] = g], Beyond(g, active[1]),
           g.v = PageFault => g.said \in {{}, PageCause(g.why)},
           lost' = lost, display' # KernelColours => display # KernelColours \/ g.v \in Fatal,
           CodeInv', StackInv'
    PROVE  IInv'
<1> DEFINE h == active[1]
<1>1. active # <<>> /\ Program(h.v)[h.at] = op
  BY DEF Instruction
<1>2. /\ active \in Seq(Progress) /\ Len(active) \in Nat \ {0} /\ 1 \in 1..Len(active)
      /\ h \in Progress /\ Reachable(h) /\ lost = NoVector /\ h.at \in 1..8 /\ Places(h.v, h.at)
      /\ h.at <= ReturnAt(h.v)
  BY <1>1, Innermost
<1>3. g \in Progress /\ g.v = h.v /\ g.why = h.why /\ g.at = h.at + 1
  BY DEF Beyond
<1>4. /\ active' \in Seq(Progress) /\ Len(active') = Len(active) /\ active'[1] = g
      /\ \A i \in 1..Len(active) : i # 1 => active'[i] = active[i]
  BY <1>2, <1>3, ExceptSeq
<1>5. Reachable(g)
  <2>1. h.at # ReturnAt(h.v) /\ ~ (h.v \in Stopping /\ h.at = StopAt(h.v))
    BY <1>1, <1>2 DEF Places
  <2>2. ReturnAt(h.v) \in Nat /\ StopAt(h.v) \in Nat
    BY DEF ReturnAt, StopAt
  <2> QED  BY <1>2, <1>3, <2>1, <2>2 DEF Reachable
<1>6. h.v = AlignmentCheck => h.why = {}
  BY <1>2 DEF IInv, HandlersInv
<1> HIDE DEF h
<1>7. HandlersInv'
  <2> SUFFICES ASSUME NEW i \in 1..Len(active)
               PROVE  /\ Reachable(active'[i])
                      /\ active'[i].v = AlignmentCheck => active'[i].why = {}
                      /\ active'[i].v = PageFault =>
                             active'[i].said \in {{}, PageCause(active'[i].why)}
    BY <1>4 DEF HandlersInv, Reachable, PageCause
  <2>1. CASE i = 1
    BY <1>3, <1>4, <1>5, <1>6, <2>1
  <2>2. CASE i # 1
    BY <1>4, <2>2 DEF IInv, HandlersInv
  <2> QED  BY <2>1, <2>2
<1>8. EndInv'
  <2>1. ASSUME display' # KernelColours PROVE \E i \in 1..Len(active') : active'[i].v \in Fatal
    <3>1. CASE g.v \in Fatal
      BY <1>2, <1>4, <3>1
    <3>2. CASE display # KernelColours /\ g.v \notin Fatal
      <4>1. PICK i \in 1..Len(active) : active[i].v \in Fatal
        BY <1>2, <3>2 DEF IInv, EndInv
      <4>2. i # 1
        BY <1>3, <3>2, <4>1 DEF h
      <4> QED  BY <1>4, <4>1, <4>2
    <3> QED  BY <2>1, <3>1, <3>2
  <2>2. lost' = NoVector
    BY <1>2 DEF IInv, EndInv
  <2> QED  BY <2>1, <2>2 DEF EndInv
<1> QED  BY <1>7, <1>8 DEF IInv

(***************************************************************************)
(* The static word of the error code is as it was.                         *)
(***************************************************************************)
LEMMA SameCode ==
    ASSUME IInv, active # <<>>, NEW g \in Progress, active' = [active EXCEPT ![1] = g],
           Took(g) <=> Took(active[1]), g.why = active[1].why, code' = code
    PROVE  CodeInv'
<1>1. /\ Len(active') = Len(active) /\ active'[1] = g
      /\ \A i \in 1..Len(active) : i # 1 => active'[i] = active[i]
  BY Innermost, ExceptSeq
<1>2. \A i \in 1..Len(active) : /\ Took(active'[i]) <=> Took(active[i])
                                /\ active'[i].why = active[i].why
  BY <1>1
<1>3. \A i \in 1..Len(active) : \A j \in 1..(i - 1) : j \in 1..Len(active)
  BY Innermost
<1> QED  BY <1>1, <1>2, <1>3 DEF IInv, CodeInv, Took

(***************************************************************************)
(* An instruction that only goes on.                                       *)
(***************************************************************************)
Advanced == [active[1] EXCEPT !.at = @ + 1]

LEMMA OnwardFacts ==
    ASSUME IInv, NEW op, Instruction(op), op # "iretd"
    PROVE  /\ active # <<>> /\ Onward = [active EXCEPT ![1] = Advanced]
           /\ Beyond(Advanced, active[1]) /\ Advanced.said = active[1].said
           /\ Advanced.at <= ReturnAt(active[1].v)
           /\ Advanced.v = PageFault => Advanced.said \in {{}, PageCause(Advanced.why)}
<1>1. active # <<>> /\ Program(active[1].v)[active[1].at] = op
  BY DEF Instruction
<1>2. active[1].at # ReturnAt(active[1].v)
  BY <1>1, Innermost DEF Places
<1>3. ReturnAt(active[1].v) \in {4, 6, 7, 8}
  BY DEF ReturnAt
<1>4. active[1].at + 1 \in 1..8 /\ active[1].at + 1 <= ReturnAt(active[1].v)
  BY <1>1, <1>2, <1>3, Innermost
<1>5. Beyond(Advanced, active[1]) /\ Advanced.said = active[1].said
  BY <1>1, <1>4, Innermost DEF Advanced, Beyond, Progress
<1>6. Onward = [active EXCEPT ![1] = Advanced]
  BY DEF Onward, Advanced
<1>7. active[1].v = PageFault => active[1].said \in {{}, PageCause(active[1].why)}
  BY <1>1, Innermost DEF IInv, HandlersInv
<1> QED  BY <1>1, <1>4, <1>5, <1>6, <1>7 DEF Beyond

(***************************************************************************)
(* Words that an instruction pushes or takes off are its handler's own.    *)
(***************************************************************************)
LEMMA Grown ==
    ASSUME NEW h \in Progress, NEW g \in Progress, NEW p \in Seq(Word),
           Part(g) = p \o Part(h), stack' = p \o stack
    PROVE  \A rest \in Seq(Word) : stack = Part(h) \o rest => stack' = Part(g) \o rest
<1> SUFFICES ASSUME NEW rest \in Seq(Word), stack = Part(h) \o rest
             PROVE  stack' = Part(g) \o rest
  OBVIOUS
<1>1. Part(h) \in Seq(Word)
  BY PartFacts
<1>2. (p \o Part(h)) \o rest = p \o (Part(h) \o rest)
  BY <1>1, Regroup
<1> QED  BY <1>2

LEMMA Shrunk ==
    ASSUME NEW h \in Progress, NEW g \in Progress, NEW p \in Seq(Word),
           Part(h) = p \o Part(g), stack' = Drop(Len(p))
    PROVE  \A rest \in Seq(Word) : stack = Part(h) \o rest => stack' = Part(g) \o rest
<1> SUFFICES ASSUME NEW rest \in Seq(Word), stack = Part(h) \o rest
             PROVE  stack' = Part(g) \o rest
  OBVIOUS
<1>1. Part(g) \in Seq(Word) /\ Part(g) \o rest \in Seq(Word)
  BY PartFacts, ConcatProperties
<1>2. stack = p \o (Part(g) \o rest)
  BY <1>1, Regroup
<1> HIDE DEF Part
<1> QED  BY <1>1, <1>2, TakenOff DEF Drop

-------------------------------------------------------------------------------
(***************************************************************************)
(* An exception.                                                           *)
(***************************************************************************)
LEMMA DetailsAreWords ==
    \A v \in Handled : \A d \in Details(v) : d \in Word /\ (v = AlignmentCheck => d = {})
  BY DEF Details, Word, AlignmentCheck, PageFault, GeneralProtection, NMI

LEMMA RaiseIInv ==
    ASSUME IInv, NEW v \in Vectors, Raise(v)
    PROVE  IInv'
<1>1. PICK d \in Details(v) :
          /\ stack' = (IF v \in WithCode THEN <<d>> ELSE <<>>) \o Frame \o stack
          /\ active' = <<[v |-> v, at |-> 1, why |-> d, said |-> {}]>> \o active
  BY DEF Raise
<1> DEFINE h == [v |-> v, at |-> 1, why |-> d, said |-> {}]
           n == Len(active)
<1>2. v \in Handled /\ d \in Word /\ (v = AlignmentCheck => d = {})
  BY ExceptionsAssumption, DetailsAreWords
<1>3. h \in Progress
  <2>1. {} \in Saying
    BY DEF Saying
  <2> QED  BY <1>2, <2>1 DEF Progress
<1>4. lost = NoVector /\ UNCHANGED <<code, display, lost>>
  BY DEF Raise
<1>5. active \in Seq(Progress) /\ stack \in Seq(Word) /\ n \in Nat
  BY LenProperties DEF IInv, HandlersInv, StackInv
<1>6. /\ active' \in Seq(Progress) /\ Len(active') = n + 1 /\ active'[1] = h
      /\ \A i \in 2..(n + 1) : active'[i] = active[i - 1]
  <2> HIDE DEF h
  <2>1. <<h>> \in Seq(Progress) /\ Len(<<h>>) = 1 /\ <<h>>[1] = h
    BY <1>3
  <2>2. /\ active' \in Seq(Progress) /\ Len(active') = 1 + n
        /\ \A i \in 1..(1 + n) : active'[i] = IF i <= 1 THEN <<h>>[i] ELSE active[i - 1]
    <3>1. active' = <<h>> \o active
      BY <1>1 DEF h
    <3> QED  BY <1>5, <2>1, <3>1, ConcatProperties
  <2> HIDE DEF n
  <2>3. 1 \in 1..(1 + n) /\ 1 + n = n + 1
    BY <1>5
  <2>4. active'[1] = <<h>>[1]
    BY <2>2, <2>3
  <2>5. \A i \in 2..(n + 1) : active'[i] = active[i - 1]
    BY <1>5, <2>2
  <2> QED  BY <2>1, <2>2, <2>3, <2>4, <2>5
<1>7. h.v = v /\ h.at = 1 /\ h.why = d /\ h.said = {} /\ SaveAt(v) \in {1, 2} /\ ReturnAt(v) \in {4, 6, 7, 8}
      /\ StopAt(v) \in {4, 5, 6}
  BY DEF SaveAt, ReturnAt, StopAt
<1>8. stack' = Part(h) \o stack
  <2>1. Saved(h) = <<>>
    BY <1>7 DEF Saved
  <2>2. ErrorCode(h) = IF v \in WithCode THEN <<d>> ELSE <<>>
    BY <1>7 DEF ErrorCode
  <2>3. ErrorCode(h) \o Frame \in Seq(Word)
    BY <1>3, PartFacts
  <2> HIDE DEF h
  <2>4. Part(h) = ErrorCode(h) \o Frame
    BY <2>1, <2>3, ConcatEmptySeq DEF Part
  <2> QED  BY <1>1, <2>2, <2>4
<1> HIDE DEF h
<1>9. StackInv'
  BY <1>1, <1>3, <1>4, <1>8, EntryKeepsStack DEF h
<1>10. HandlersInv'
  <2> SUFFICES ASSUME NEW i \in 1..(n + 1)
               PROVE  /\ Reachable(active'[i])
                      /\ active'[i].v = AlignmentCheck => active'[i].why = {}
                      /\ active'[i].v = PageFault =>
                             active'[i].said \in {{}, PageCause(active'[i].why)}
    BY <1>6 DEF HandlersInv, Reachable, PageCause
  <2>1. CASE i = 1
    BY <1>2, <1>6, <1>7, <2>1 DEF Reachable
  <2>2. CASE i # 1
    <3>1. i \in 2..(n + 1) /\ i - 1 \in 1..n
      BY <1>5, <2>2
    <3> QED  BY <1>6, <3>1 DEF IInv, HandlersInv
  <2> QED  BY <2>1, <2>2
<1>11. CodeInv'
  <2> SUFFICES ASSUME NEW i \in 1..(n + 1), Took(active'[i]),
                      \A j \in 1..(i - 1) : ~ Took(active'[j])
               PROVE  code[PageFault] = active'[i].why
    BY <1>4, <1>6 DEF IInv, CodeInv, Took
  <2>1. i # 1
    BY <1>6, <1>7 DEF Took
  <2>2. i \in 2..(n + 1) /\ i - 1 \in 1..n /\ active'[i] = active[i - 1]
    BY <1>5, <1>6, <2>1
  <2>3. ASSUME NEW j \in 1..((i - 1) - 1) PROVE ~ Took(active[j])
    <3>1. j + 1 \in 1..(i - 1) /\ j + 1 \in 2..(n + 1) /\ (j + 1) - 1 = j
      BY <2>2
    <3> QED  BY <1>6, <3>1
  <2> QED  BY <2>2, <2>3 DEF IInv, CodeInv
<1>12. EndInv'
  <2>1. ASSUME display # KernelColours PROVE \E i \in 1..(n + 1) : active'[i].v \in Fatal
    <3>1. PICK i \in 1..n : active[i].v \in Fatal
      BY <1>4, <2>1 DEF IInv, EndInv
    <3>2. i + 1 \in 2..(n + 1) /\ i + 1 \in 1..(n + 1) /\ (i + 1) - 1 = i
      BY <1>5
    <3> QED  BY <1>6, <3>1, <3>2
  <2>2. lost' = NoVector
    BY <1>4 DEF IInv, EndInv
  <2> QED  BY <1>4, <1>6, <2>1, <2>2 DEF EndInv
<1> QED  BY <1>9, <1>10, <1>11, <1>12 DEF IInv

(***************************************************************************)
(* The instructions that leave the stack alone.                            *)
(***************************************************************************)
LEMMA PlainIInv ==
    ASSUME IInv, i386_exception_set_disp \/ report \/ describe
    PROVE  IInv'
<1> DEFINE h == active[1]
<1>1. PICK op \in {"set_disp", "report", "describe"} : Instruction(op)
  BY DEF i386_exception_set_disp, report, describe
<1>2. active # <<>> /\ Program(h.v)[h.at] = op /\ h \in Progress /\ Places(h.v, h.at) /\ lost = NoVector
      /\ h.v \in Handled /\ h.at \in 1..8
  BY <1>1, Innermost DEF Instruction
<1>3. /\ SaveAt(h.v) < h.at /\ h.at < ReturnAt(h.v) - 1
      /\ h.v = GeneralProtection => h.at < 6
      /\ h.at > 1
  <2>1. \/ /\ h.at \in {SaveAt(h.v) + 1, SaveAt(h.v) + 2} /\ h.at < ReturnAt(h.v) - 1
           /\ h.v = GeneralProtection => h.at < 6
        \/ h.v \in Fatal /\ h.at = SaveAt(h.v) + 1
        \/ h.v \in {NMI, GeneralProtection, PageFault} /\ h.at = SaveAt(h.v) + 3
    BY <1>1, <1>2 DEF Places
  <2>2. /\ SaveAt(h.v) \in {1, 2}
        /\ h.v \in Fatal => ReturnAt(h.v) >= SaveAt(h.v) + 5
        /\ h.v \in {NMI, GeneralProtection, PageFault} => ReturnAt(h.v) >= SaveAt(h.v) + 6
        /\ h.v = GeneralProtection => SaveAt(h.v) = 2
        /\ ReturnAt(h.v) \in Nat
    BY DEF SaveAt, ReturnAt, Fatal, Popping, Notifying, NMI, GeneralProtection, PageFault
  <2> QED  BY <1>2, <2>1, <2>2
<1>4. PICK g : /\ active' = [active EXCEPT ![1] = g] /\ Beyond(g, h) /\ g.at <= ReturnAt(h.v)
               /\ g.v = PageFault => g.said \in {{}, PageCause(g.why)}
  <2>1. CASE active' = Onward
    BY <1>1, <2>1, OnwardFacts
  <2>2. CASE describe
    <3> DEFINE g == [Advanced EXCEPT !.said = Cause(h.v)]
    <3>1. /\ Advanced \in Progress /\ Advanced.v = h.v /\ Advanced.why = h.why
          /\ Advanced.at = h.at + 1 /\ Advanced.at <= ReturnAt(h.v)
          /\ Onward = [active EXCEPT ![1] = Advanced]
      BY <1>1, OnwardFacts DEF Beyond
    <3>2. active' = [active EXCEPT ![1] = g]
      BY <1>2, <2>2, <3>1, Innermost DEF describe
    <3>3. Instruction("describe") /\ h.v \in {NMI, GeneralProtection, PageFault}
      BY <1>2, <2>2 DEF describe, Instruction, Places
    <3>4. Cause(h.v) \in Saying /\ (h.v = PageFault => Cause(h.v) = PageCause(h.why))
      <4>1. CASE h.v = NMI
        <5>1. Cause(h.v) = {NmiCause(h.why)} /\ h.why \in Word /\ h.v # PageFault
          BY <1>2, <4>1 DEF Cause, Progress, NMI, PageFault
        <5> QED  BY <5>1 DEF Saying
      <4>2. CASE h.v = PageFault
        <5>1. Took(h)
          BY <1>3, <4>2 DEF Took
        <5>2. code[PageFault] = h.why
          BY <1>2, <5>1, Innermost DEF IInv, CodeInv
        <5>3. Cause(h.v) = PageCause(h.why) /\ h.why \in Word
          BY <1>2, <4>2, <5>2 DEF Cause, Progress, NMI, PageFault
        <5> QED  BY <5>3 DEF Saying
      <4>3. CASE h.v = GeneralProtection
        <5>1. /\ Cause(h.v) = {FaultCause(code[GeneralProtection])} /\ h.v # PageFault
              /\ code[GeneralProtection] \in Word
          BY <4>3 DEF Cause, NMI, PageFault, GeneralProtection, IInv, CodeInv, Popping
        <5> QED  BY <5>1 DEF Saying
      <4> QED  BY <3>3, <4>1, <4>2, <4>3
    <3>5. /\ g \in Progress /\ g.v = Advanced.v /\ g.why = Advanced.why
          /\ g.at = Advanced.at /\ g.said = Cause(h.v)
      BY <3>1, <3>4 DEF Progress
    <3>6. Beyond(g, h) /\ g.at <= ReturnAt(h.v)
      BY <3>1, <3>5 DEF Beyond
    <3>7. g.v = PageFault => g.said = PageCause(g.why)
      BY <3>1, <3>4, <3>5
    <3> HIDE DEF g
    <3> QED  BY <3>2, <3>6, <3>7
  <2> QED  BY <2>1, <2>2 DEF i386_exception_set_disp, report
<1> HIDE DEF h
<1>5. stack' = stack /\ lost' = lost /\ code' = code
  BY DEF i386_exception_set_disp, report, describe
<1>6. Part(g) = Part(h)
  BY <1>2, <1>3, <1>4, PartSteps
<1>7. StackInv'
  BY <1>2, <1>4, <1>5, <1>6, StepKeepsStack DEF h, Beyond
<1>8. CodeInv'
  <2>1. Took(g) <=> Took(h)
    BY <1>2, <1>3, <1>4 DEF Took, Beyond, Progress
  <2> QED  BY <1>2, <1>4, <1>5, <2>1, SameCode DEF h, Beyond
<1>9. display' # KernelColours => display # KernelColours \/ g.v \in Fatal
  <2>1. CASE op = "set_disp"
    BY <1>2, <1>4, <2>1 DEF Places, Beyond
  <2>2. CASE op # "set_disp"
    <3>1. ~ Instruction("set_disp")
      BY <1>1, <2>2 DEF Instruction
    <3> QED  BY <3>1 DEF i386_exception_set_disp, report, describe
  <2> QED  BY <2>1, <2>2
<1> QED  BY <1>1, <1>4, <1>5, <1>7, <1>8, <1>9, StepIInv DEF h

(***************************************************************************)
(* The instructions that push or take off words.                           *)
(***************************************************************************)
LEMMA PushIInv ==
    ASSUME IInv, pushad \/ report_and_leave
    PROVE  IInv'
<1> DEFINE h == active[1]
           g == Advanced
<1>1. PICK op \in {"pushad", "report_and_leave"} :
          /\ Instruction(op)
          /\ stack' = (IF op = "pushad" THEN Registers ELSE Arguments) \o stack
  BY DEF pushad, report_and_leave, Arguments
<1>2. active # <<>> /\ Program(h.v)[h.at] = op /\ h \in Progress /\ Places(h.v, h.at) /\ lost = NoVector
  BY <1>1, Innermost DEF Instruction
<1>3. active' = [active EXCEPT ![1] = g] /\ Beyond(g, h) /\ g.at <= ReturnAt(h.v)
      /\ (g.v = PageFault => g.said \in {{}, PageCause(g.why)})
  <2>1. active' = Onward
    BY DEF pushad, report_and_leave
  <2> QED  BY <1>1, <2>1, OnwardFacts
<1>4. code' = code /\ lost' = lost /\ display' = display
  BY DEF pushad, report_and_leave
<1>5. g \in Progress /\ g.v = h.v /\ g.why = h.why /\ g.at = h.at + 1
  BY <1>3 DEF Beyond
<1> HIDE DEF h, g
<1>6. \A rest \in Seq(Word) : stack = Part(h) \o rest => stack' = Part(g) \o rest
  <2>1. CASE op = "pushad"
    <3>1. h.at = SaveAt(h.v)
      BY <1>2, <2>1 DEF Places
    <3>2. Part(g) = Registers \o Part(h)
      BY <1>2, <1>3, <3>1, PartSteps
    <3>3. stack' = Registers \o stack
      BY <1>1, <2>1
    <3> QED  BY <1>2, <1>5, <3>2, <3>3, Words, Grown
  <2>2. CASE op = "report_and_leave"
    <3>1. h.v = GeneralProtection /\ h.at = 6
      BY <1>2, <2>2 DEF Places
    <3>2. Part(g) = Arguments \o Part(h)
      BY <1>2, <1>3, <3>1, PartSteps
    <3>3. stack' = Arguments \o stack
      BY <1>1, <2>2
    <3> QED  BY <1>2, <1>5, <3>2, <3>3, Words, Grown
  <2> QED  BY <1>1, <2>1, <2>2
<1>7. StackInv'
  BY <1>2, <1>3, <1>5, <1>6, StepKeepsStack DEF h
<1>8. CodeInv'
  <2>1. Took(g) <=> Took(h)
    <3>1. h.v = PageFault => h.at > 1
      <4>1. h.v = PageFault => h.at = 2
        BY <1>1, <1>2 DEF Places, SaveAt, Popping, PageFault, GeneralProtection
      <4> QED  BY <4>1
    <3> QED  BY <1>2, <1>5, <3>1 DEF Took, Progress
  <2> QED  BY <1>2, <1>3, <1>4, <1>5, <2>1, SameCode DEF h
<1> QED  BY <1>1, <1>3, <1>4, <1>7, <1>8, StepIInv DEF h

LEMMA PopAllIInv == ASSUME IInv, popad PROVE IInv'
<1> DEFINE h == active[1]
           g == Advanced
<1>1. Instruction("popad") /\ stack' = Drop(8)
  BY DEF popad
<1>2. active # <<>> /\ Program(h.v)[h.at] = "popad" /\ h \in Progress /\ Places(h.v, h.at) /\ lost = NoVector
  BY <1>1, Innermost DEF Instruction
<1>3. active' = [active EXCEPT ![1] = g] /\ Beyond(g, h) /\ g.at <= ReturnAt(h.v)
      /\ (g.v = PageFault => g.said \in {{}, PageCause(g.why)})
  <2>1. active' = Onward
    BY DEF popad
  <2> QED  BY <1>1, <2>1, OnwardFacts
<1>4. code' = code /\ lost' = lost /\ display' = display
  BY DEF popad
<1>5. g \in Progress /\ g.v = h.v /\ g.why = h.why /\ g.at = h.at + 1
  BY <1>3 DEF Beyond
<1> HIDE DEF h, g
<1>6. h.at = ReturnAt(h.v) - 1
  BY <1>2 DEF Places
<1>7. \A rest \in Seq(Word) : stack = Part(h) \o rest => stack' = Part(g) \o rest
  <2>1. CASE h.v = GeneralProtection
    <3>1. Part(h) = Eight \o Part(g)
      BY <1>2, <1>3, <1>6, <2>1, PartSteps
    <3>2. stack' = Drop(Len(Eight))
      BY <1>1, LeftOver
    <3> QED  BY <1>2, <1>5, <3>1, <3>2, LeftOver, Shrunk
  <2>2. CASE h.v # GeneralProtection
    <3>1. Part(h) = Registers \o Part(g)
      BY <1>2, <1>3, <1>6, <2>2, PartSteps
    <3>2. stack' = Drop(Len(Registers))
      BY <1>1, Words
    <3> QED  BY <1>2, <1>5, <3>1, <3>2, Words, Shrunk
  <2> QED  BY <2>1, <2>2
<1>8. StackInv'
  BY <1>2, <1>3, <1>5, <1>7, StepKeepsStack DEF h
<1>9. CodeInv'
  <2>1. h.at > 1 /\ h.at \in 1..8
    BY <1>2, <1>6 DEF ReturnAt, Progress
  <2>2. Took(g) <=> Took(h)
    BY <1>5, <2>1 DEF Took
  <2> QED  BY <1>2, <1>3, <1>4, <1>5, <2>2, SameCode DEF h
<1> QED  BY <1>1, <1>3, <1>4, <1>8, <1>9, StepIInv DEF h

(***************************************************************************)
(* A handler takes its own error code: nothing is on the stack above it.   *)
(***************************************************************************)
LEMMA PopCodeIInv == ASSUME IInv, pop_code PROVE IInv'
<1> DEFINE h == active[1]
           g == Advanced
<1>1. Instruction("pop_code") /\ stack' = Drop(1) /\ code' = [code EXCEPT ![h.v] = stack[1]]
  BY DEF pop_code
<1>2. active # <<>> /\ Program(h.v)[h.at] = "pop_code" /\ h \in Progress /\ Places(h.v, h.at) /\ lost = NoVector
  BY <1>1, Innermost DEF Instruction
<1>3. active' = [active EXCEPT ![1] = g] /\ Beyond(g, h) /\ g.at <= ReturnAt(h.v)
      /\ (g.v = PageFault => g.said \in {{}, PageCause(g.why)})
  <2>1. active' = Onward
    BY DEF pop_code
  <2> QED  BY <1>1, <2>1, OnwardFacts
<1>4. lost' = lost /\ display' = display
  BY DEF pop_code
<1>5. g \in Progress /\ g.v = h.v /\ g.why = h.why /\ g.at = h.at + 1 /\ h.why \in Word
  BY <1>2, <1>3 DEF Beyond, Progress
<1> HIDE DEF h, g
<1>6. h.v \in Popping /\ h.at = 1
  BY <1>2 DEF Places
<1>7. <<h.why>> \in Seq(Word) /\ Len(<<h.why>>) = 1 /\ Part(h) = <<h.why>> \o Part(g)
  BY <1>2, <1>3, <1>5, <1>6, PartSteps
<1>8. \A rest \in Seq(Word) : stack = Part(h) \o rest => stack' = Part(g) \o rest
  <2>1. stack' = Drop(Len(<<h.why>>))
    BY <1>1
  <2> QED  BY <1>2, <1>5, <1>7, <2>1, Shrunk
<1>9. StackInv'
  BY <1>2, <1>3, <1>5, <1>8, StepKeepsStack DEF h
<1>10. stack[1] = h.why
  <2>1. PICK stacks \in Seq(Seq(Word)) : Layout(stacks)
    BY <1>2 DEF IInv, StackInv
  <2>2. 1 \in 1..Len(active) /\ 1 + 1 \in 1..Len(stacks)
    BY <1>2, <2>1, Innermost DEF Layout
  <2>3. stacks[1 + 1] \in Seq(Word) /\ stack = Part(h) \o stacks[1 + 1]
    BY <2>1, <2>2, ElementOfSeq DEF Layout, h
  <2>4. Part(g) \in Seq(Word)
    BY <1>5, PartFacts
  <2>5. Part(g) \o stacks[1 + 1] \in Seq(Word)
        /\ stack = <<h.why>> \o (Part(g) \o stacks[1 + 1])
    <3>1. (<<h.why>> \o Part(g)) \o stacks[1 + 1] = <<h.why>> \o (Part(g) \o stacks[1 + 1])
      BY <1>7, <2>3, <2>4, Regroup
    <3>2. Part(g) \o stacks[1 + 1] \in Seq(Word)
      BY <2>3, <2>4, ConcatProperties
    <3> QED  BY <1>7, <2>3, <3>1, <3>2
  <2>6. 1 \in 1..(Len(<<h.why>>) + Len(Part(g) \o stacks[1 + 1]))
    BY <1>7, <2>5, LenProperties
  <2>7. stack[1] = <<h.why>>[1]
    BY <1>7, <2>5, <2>6, ConcatProperties
  <2> QED  BY <2>7
<1>11. CodeInv'
  <2>1. code' \in [Popping -> Word]
    BY <1>1, <1>5, <1>10 DEF IInv, CodeInv
  <2>2. /\ Len(active') = Len(active) /\ active'[1] = g
        /\ \A i \in 1..Len(active) : i # 1 => active'[i] = active[i]
    BY <1>2, <1>3, <1>5, Innermost, ExceptSeq
  <2>3. CASE h.v = PageFault
    <3>1. Took(g) /\ code'[PageFault] = g.why
      BY <1>1, <1>5, <1>6, <1>10, <2>3 DEF Took, IInv, CodeInv
    <3>2. \A i \in 1..Len(active) : i # 1 => 1 \in 1..(i - 1)
      OBVIOUS
    <3>3. \A i \in 1..Len(active') : (\A j \in 1..(i - 1) : ~ Took(active'[j])) => i = 1
      BY <2>2, <3>1, <3>2
    <3> QED  BY <2>1, <2>2, <3>1, <3>3 DEF CodeInv, Took
  <2>4. CASE h.v # PageFault
    <3>1. code'[PageFault] = code[PageFault]
      BY <1>1, <2>4 DEF IInv, CodeInv, Popping
    <3>2. ~ Took(g) /\ ~ Took(h)
      BY <1>5, <2>4 DEF Took
    <3>3. \A i \in 1..Len(active) : /\ Took(active'[i]) <=> Took(active[i])
                                    /\ Took(active[i]) => active'[i].why = active[i].why
      BY <2>2, <3>2 DEF h
    <3>4. \A i \in 1..Len(active) : \A j \in 1..(i - 1) : j \in 1..Len(active)
      BY <1>2, Innermost
    <3> QED  BY <2>1, <2>2, <3>1, <3>3, <3>4 DEF IInv, CodeInv, Took
  <2> QED  BY <2>3, <2>4
<1> QED  BY <1>1, <1>3, <1>4, <1>9, <1>11, StepIInv DEF h

-------------------------------------------------------------------------------
LEMMA NoFrame ==
    ASSUME stack \in Seq(Word), stack[1] \in {{}, {"register"}}
    PROVE  ~ IsPrefix(Frame, stack)
<1> SUFFICES ASSUME IsPrefix(Frame, stack) PROVE FALSE
  OBVIOUS
<1>1. Len(Frame) = 3 /\ Frame \in Seq(Word) /\ Frame[1] = {"eip"}
  BY Words
<1>2. 3 <= Len(stack) /\ SubSeq(Frame, 1, 3) = SubSeq(stack, 1, 3)
  BY <1>1 DEF IsPrefix
<1>3. \A i \in 1..3 : Frame[i] \in Word /\ stack[i] \in Word
  BY <1>1, <1>2, ElementOfSeq, LenProperties
<1>4. SubSeq(Frame, 1, 3)[1] = Frame[1] /\ SubSeq(stack, 1, 3)[1] = stack[1]
  <2>1. 1 \in 1..(3 - 1 + 1) /\ 1 + 1 - 1 = 1
    OBVIOUS
  <2> QED  BY <1>3, <2>1, SubSeqProperties
<1>5. stack[1] = {"eip"}
  BY <1>1, <1>2, <1>4
<1> QED  BY <1>5

(***************************************************************************)
(* The return.  A handler that finds a frame is one that notifies and took *)
(* back all it had pushed, so the frame is its own.                        *)
(***************************************************************************)
LEMMA AtReturn ==
    ASSUME IInv, Instruction("iretd")
    PROVE  /\ active[1].v \in Notifying \cup {GeneralProtection}
           /\ active[1].v \in Notifying \ Leaky => Part(active[1]) = Frame
           /\ active[1].v \in Leaky => ~ IsPrefix(Frame, stack)
<1> DEFINE h == active[1]
<1>1. active # <<>> /\ Program(h.v)[h.at] = "iretd"
  BY DEF Instruction
<1>2. /\ h \in Progress /\ Reachable(h) /\ Places(h.v, h.at) /\ lost = NoVector /\ h.v \in Handled
      /\ 1 \in 1..Len(active) /\ h.why \in Word
  BY <1>1, Innermost DEF Progress
<1>3. h.at = ReturnAt(h.v)
  BY <1>1, <1>2 DEF Places
<1>4. h.v \notin Stopping
  BY <1>2, <1>3 DEF Reachable, StopAt, ReturnAt, Stopping, Fatal, NMI, PageFault, GeneralProtection,
                    Popping
<1>5. h.v \in Notifying \cup {GeneralProtection}
  BY <1>2, <1>4 DEF Stopping, Fatal
<1>6. PICK stacks \in Seq(Seq(Word)) : Layout(stacks)
  BY <1>2 DEF IInv, StackInv
<1>7. 1 + 1 \in 1..Len(stacks) /\ stack = Part(h) \o stacks[1 + 1]
  <2>1. Len(stacks) = Len(active) + 1 /\ Len(active) \in Nat \ {0}
    BY <1>1, <1>6, Innermost DEF Layout
  <2>2. stack = Part(active[1]) \o stacks[1 + 1]
    BY <1>2, <1>6 DEF Layout
  <2> QED  BY <2>1, <2>2
<1>8. stacks[1 + 1] \in Seq(Word)
  BY <1>6, <1>7, ElementOfSeq
<1>9. h.v = AlignmentCheck => h.why = {}
  BY <1>2 DEF IInv, HandlersInv
<1> HIDE DEF h
<1>10. CASE h.v \in Notifying
  <2>1. ReturnAt(h.v) = 4 /\ h.v # GeneralProtection /\ h.v \notin Popping
    BY <1>10 DEF ReturnAt, Notifying, GeneralProtection, PageFault, Popping
  <2>2. Saved(h) = <<>>
    BY <1>3, <2>1 DEF Saved
  <2>3. ErrorCode(h) \o Frame \in Seq(Word)
    BY <1>2, PartFacts
  <2>4. Part(h) = ErrorCode(h) \o Frame
    BY <2>2, <2>3, ConcatEmptySeq DEF Part
  <2>5. CASE h.v \notin Leaky
    <3>1. h.v \notin WithCode
      BY <1>10, <2>5 DEF Notifying, Leaky, WithCode, AlignmentCheck
    <3>2. ErrorCode(h) = <<>>
      BY <3>1 DEF ErrorCode
    <3>3. Part(h) = Frame
      BY <2>4, <3>2, Words, ConcatEmptySeq
    <3> QED  BY <1>5, <2>5, <3>3 DEF h
  <2>6. CASE h.v \in Leaky
    <3>1. h.v = AlignmentCheck /\ h.v \in WithCode /\ h.why = {}
      BY <1>9, <2>1, <2>6 DEF Leaky, WithCode, AlignmentCheck
    <3>2. Part(h) = <<{}>> \o Frame /\ <<{}>> \in Seq(Word) /\ Len(<<{}>>) = 1
      BY <1>2, <2>1, <2>4, <3>1 DEF ErrorCode
    <3>3. stack[1] = {}
      <4>1. stack = <<{}>> \o (Frame \o stacks[1 + 1]) /\ Frame \o stacks[1 + 1] \in Seq(Word)
        <5>1. (<<{}>> \o Frame) \o stacks[1 + 1] = <<{}>> \o (Frame \o stacks[1 + 1])
          <6>1. Frame \in Seq(Word)
            BY Words
          <6>2. <<{}>> \in Seq(Word)
            BY <3>2
          <6> QED  BY <1>8, <6>1, <6>2, Regroup
        <5>2. Frame \o stacks[1 + 1] \in Seq(Word)
          BY <1>8, Words, ConcatProperties
        <5> QED  BY <1>7, <3>2, <5>1, <5>2
      <4>2. 1 \in 1..(Len(<<{}>>) + Len(Frame \o stacks[1 + 1]))
        BY <3>2, <4>1, LenProperties
      <4> QED  BY <3>2, <4>1, <4>2, ConcatProperties
    <3>4. ~ IsPrefix(Frame, stack)
      BY <1>2, <3>3, NoFrame DEF IInv, StackInv
    <3> QED  BY <1>5, <2>6, <3>4 DEF h
  <2> QED  BY <2>5, <2>6
<1>11. CASE h.v = GeneralProtection
  <2>1. ReturnAt(h.v) = 8 /\ h.v \in Leaky
    BY <1>11 DEF ReturnAt, Leaky, Notifying, NMI, PageFault, Popping, GeneralProtection
  <2>2. Saved(h) = TwoRegisters
    BY <1>3, <1>11, <2>1 DEF Saved
  <2>3. stack[1] = {"register"}
    <3>1. ErrorCode(h) \o Frame \in Seq(Word)
      BY <1>2, PartFacts
    <3>2. Part(h) = TwoRegisters \o (ErrorCode(h) \o Frame)
      BY <2>2 DEF Part
    <3> DEFINE low == (ErrorCode(h) \o Frame) \o stacks[1 + 1]
    <3>3. stack = TwoRegisters \o low /\ low \in Seq(Word)
      <4>1. (TwoRegisters \o (ErrorCode(h) \o Frame)) \o stacks[1 + 1] = TwoRegisters \o low
        <5>1. TwoRegisters \in Seq(Word)
          BY Words
        <5> QED  BY <1>8, <3>1, <5>1, Regroup
      <4>2. low \in Seq(Word)
        BY <1>8, <3>1, ConcatProperties
      <4> QED  BY <1>7, <3>2, <4>1, <4>2
    <3> HIDE DEF low
    <3>4. 1 \in 1..(Len(TwoRegisters) + Len(low))
      BY <3>3, Words, LenProperties
    <3> QED  BY <3>3, <3>4, Words, ConcatProperties
  <2>4. ~ IsPrefix(Frame, stack)
    BY <2>3, NoFrame DEF IInv, StackInv
  <2> QED  BY <1>5, <2>1, <2>4 DEF h
<1> QED  BY <1>5, <1>10, <1>11

(***************************************************************************)
(* popad finds the registers that were saved and iretd the frame the       *)
(* processor pushed, whatever interrupted the handler and returned, except *)
(* in the two handlers that leave words on the stack.                      *)
(***************************************************************************)
LEMMA FindsItsOwn == IInv => ReturnsToInterrupted
<1> SUFFICES ASSUME IInv, active # <<>>, active[1].v \notin Leaky
             PROVE  /\ Instruction("popad") => IsPrefix(Registers \o Frame, stack)
                    /\ Instruction("iretd") => IsPrefix(Frame, stack)
  BY DEF ReturnsToInterrupted
<1> DEFINE h == active[1]
<1>1. /\ h \in Progress /\ Reachable(h) /\ Places(h.v, h.at) /\ lost = NoVector /\ h.v \in Handled
      /\ Len(active) \in Nat \ {0} /\ 1 \in 1..Len(active)
  BY Innermost
<1>2. PICK rest \in Seq(Word) : stack = Part(h) \o rest
  <2>1. PICK stacks \in Seq(Seq(Word)) : Layout(stacks)
    BY <1>1 DEF IInv, StackInv
  <2>2. 1 + 1 \in 1..Len(stacks)
    BY <1>1, <2>1 DEF Layout
  <2>3. stack = Part(h) \o stacks[1 + 1]
    BY <1>1, <2>1 DEF Layout
  <2> QED  BY <2>1, <2>2, <2>3, ElementOfSeq
<1>3. ASSUME Instruction("popad") PROVE IsPrefix(Registers \o Frame, stack)
  <2>1. h.at = ReturnAt(h.v) - 1
    BY <1>1, <1>3 DEF Instruction, Places
  <2>2. h.v \notin Stopping
    BY <1>1, <2>1 DEF Reachable, StopAt, ReturnAt, Stopping, Fatal, NMI, PageFault,
                      GeneralProtection, Popping
  <2>3. h.v \in Notifying
    BY <1>1, <2>2 DEF Stopping, Fatal, Leaky
  <2>4. h.v \notin Popping /\ h.v \notin WithCode /\ h.v # GeneralProtection
        /\ ReturnAt(h.v) = 4 /\ SaveAt(h.v) = 1
    BY <2>3 DEF Notifying, Popping, WithCode, Leaky, GeneralProtection, PageFault,
                AlignmentCheck, ReturnAt, SaveAt
  <2>5. Saved(h) = Registers /\ ErrorCode(h) = <<>>
    BY <2>1, <2>4 DEF Saved, ErrorCode
  <2>6. Part(h) = Registers \o Frame
    BY <2>5, Words, ConcatEmptySeq DEF Part
  <2>7. Part(h) \in Seq(Word)
    BY <1>1, PartFacts
  <2> HIDE DEF h
  <2> QED  BY <1>2, <2>6, <2>7, TakenOff
<1>4. ASSUME Instruction("iretd") PROVE IsPrefix(Frame, stack)
  <2>1. Part(h) = Frame
    BY <1>4, AtReturn DEF Leaky
  <2> QED  BY <1>2, <2>1, Words, TakenOff
<1> QED  BY <1>3, <1>4

LEMMA ReturnIInv == ASSUME IInv, iretd PROVE IInv'
<1>1. Instruction("iretd") /\ active # <<>> /\ UNCHANGED <<code, display>>
  BY DEF iretd, Instruction
<1>2. /\ active \in Seq(Progress) /\ Len(active) \in Nat \ {0} /\ lost = NoVector
      /\ stack \in Seq(Word)
  BY <1>1, Innermost DEF IInv, StackInv
<1>3. CASE IsPrefix(Frame, stack)
  <2>1. stack' = Drop(3) /\ active' = Tail(active) /\ lost' = lost
    BY <1>3 DEF iretd
  <2>2. active[1].v \in Notifying /\ Part(active[1]) = Frame
    BY <1>1, <1>3, AtReturn DEF Leaky
  <2>3. StackInv'
    BY <1>1, <1>2, <2>1, <2>2, ReturnKeepsStack
  <2>4. /\ active' \in Seq(Progress) /\ Len(active') = Len(active) - 1
        /\ \A i \in 1..(Len(active) - 1) : active'[i] = active[i + 1]
    BY <1>1, <1>2, <2>1, HeadTailProperties
  <2>5. \A i \in 1..(Len(active) - 1) : i + 1 \in 1..Len(active)
    BY <1>2
  <2>6. HandlersInv'
    <3> SUFFICES ASSUME NEW i \in 1..(Len(active) - 1)
                 PROVE  /\ Reachable(active'[i])
                        /\ active'[i].v = AlignmentCheck => active'[i].why = {}
                        /\ active'[i].v = PageFault =>
                               active'[i].said \in {{}, PageCause(active'[i].why)}
      BY <2>4 DEF HandlersInv, Reachable, PageCause
    <3> QED  BY <2>4, <2>5 DEF IInv, HandlersInv
  <2>7. CodeInv'
    <3> SUFFICES ASSUME NEW i \in 1..(Len(active) - 1), Took(active'[i]),
                        \A j \in 1..(i - 1) : ~ Took(active'[j])
                 PROVE  code[PageFault] = active'[i].why
      BY <1>1, <2>4 DEF IInv, CodeInv, Took
    <3>1. ~ Took(active[1])
      BY <2>2 DEF Took, Notifying, PageFault
    <3>2. ASSUME NEW j \in 1..((i + 1) - 1) PROVE ~ Took(active[j])
      <4>1. CASE j = 1
        BY <3>1, <4>1
      <4>2. CASE j # 1
        <5>1. j - 1 \in 1..(i - 1) /\ j - 1 \in 1..(Len(active) - 1) /\ (j - 1) + 1 = j
          BY <1>2, <4>2
        <5> QED  BY <2>4, <5>1
      <4> QED  BY <4>1, <4>2
    <3> QED  BY <2>4, <2>5, <3>2 DEF IInv, CodeInv
  <2>8. EndInv'
    <3>1. ASSUME display # KernelColours PROVE \E i \in 1..(Len(active) - 1) : active'[i].v \in Fatal
      <4>1. PICK i \in 1..Len(active) : active[i].v \in Fatal
        BY <1>2, <3>1 DEF IInv, EndInv
      <4>2. i # 1
        BY <2>2, <4>1 DEF Fatal
      <4>3. i - 1 \in 1..(Len(active) - 1) /\ (i - 1) + 1 = i
        BY <1>2, <4>2
      <4> QED  BY <2>4, <4>1, <4>3
    <3>2. lost' = NoVector
      BY <1>2, <2>1 DEF IInv, EndInv
    <3> QED  BY <1>1, <2>4, <3>1, <3>2 DEF EndInv
  <2> QED  BY <2>3, <2>6, <2>7, <2>8 DEF IInv
<1>4. CASE ~ IsPrefix(Frame, stack)
  <2>1. lost' = active[1].v /\ active' = <<>> /\ stack' = stack
    BY <1>4 DEF iretd
  <2>6. active[1].v \in Leaky /\ active[1].v # NoVector
    BY <1>1, <1>4, FindsItsOwn
       DEF ReturnsToInterrupted, Leaky, NoVector, GeneralProtection, AlignmentCheck
  <2>2. active' \in Seq(Progress) /\ Len(active') = 0
    BY <2>1
  <2>3. HandlersInv'
    BY <2>2 DEF HandlersInv
  <2>4. CodeInv'
    BY <1>1, <2>2 DEF IInv, CodeInv
  <2>5. StackInv' /\ EndInv'
    BY <1>2, <2>1, <2>6 DEF StackInv, EndInv
  <2> QED  BY <2>3, <2>4, <2>5 DEF IInv
<1> QED  BY <1>3, <1>4

-------------------------------------------------------------------------------
LEMMA InitIInv == Init => IInv
<1> SUFFICES ASSUME Init PROVE IInv
  OBVIOUS
<1>1. active = <<>> /\ stack = <<>> /\ lost = NoVector /\ display = KernelColours
      /\ code = [v \in {GeneralProtection, PageFault} |-> {}]
  BY DEF Init
<1>2. active \in Seq(Progress) /\ Len(active) = 0 /\ stack \in Seq(Word)
  BY <1>1, Words
<1>3. Layout(<<stack>>) /\ <<stack>> \in Seq(Seq(Word))
  BY <1>1, <1>2 DEF Layout
<1>4. HandlersInv
  BY <1>2 DEF HandlersInv
<1>5. CodeInv
  <2>1. {} \in Word
    BY DEF Word
  <2> QED  BY <1>1, <1>2, <2>1 DEF CodeInv, Popping
<1>6. StackInv
  BY <1>2, <1>3 DEF StackInv
<1>7. EndInv
  BY <1>1 DEF EndInv
<1> QED  BY <1>4, <1>5, <1>6, <1>7 DEF IInv

LEMMA NextIInv == IInv /\ [Next]_vars => IInv'
<1> SUFFICES ASSUME IInv, [Next]_vars PROVE IInv'
  OBVIOUS
<1>1. CASE UNCHANGED vars
  <2>1. UNCHANGED <<stack, active, code, display, lost>>
    BY <1>1 DEF vars
  <2>2. HandlersInv' /\ CodeInv' /\ EndInv'
    BY <2>1 DEF IInv, HandlersInv, CodeInv, EndInv, Reachable, Took, PageCause
  <2>3. \A stacks : Layout(stacks)' <=> Layout(stacks)
    BY <2>1 DEF Layout, Part, Saved, ErrorCode
  <2>4. StackInv'
    BY <2>1, <2>3 DEF IInv, StackInv
  <2> QED  BY <2>2, <2>4 DEF IInv
<1>2. CASE \E v \in Vectors : Raise(v)
  BY <1>2, RaiseIInv
<1>3. CASE i386_exception_set_disp \/ report \/ describe
  BY <1>3, PlainIInv
<1>4. CASE pushad \/ report_and_leave
  BY <1>4, PushIInv
<1>5. CASE popad
  BY <1>5, PopAllIInv
<1>6. CASE pop_code
  BY <1>6, PopCodeIInv
<1>7. CASE iretd
  BY <1>7, ReturnIInv
<1> QED
  BY <1>1, <1>2, <1>3, <1>4, <1>5, <1>6, <1>7 DEF Next

THEOREM Invariance == Spec => []IInv
  BY InitIInv, NextIInv, PTL DEF Spec

(***************************************************************************)
(* popad finds the registers that were saved and iretd the frame the       *)
(* processor pushed, whatever interrupted the handler and returned, except *)
(* in the two handlers that leave words on the stack.                      *)
(***************************************************************************)
THEOREM Returns == Spec => []ReturnsToInterrupted
  BY Invariance, FindsItsOwn, PTL

(***************************************************************************)
(* When every handler has returned, and none got lost, nothing is left of  *)
(* them on the kernel's stack.                                             *)
(***************************************************************************)
NothingLeft == active = <<>> /\ lost = NoVector => stack = <<>>

THEOREM LeavesNothing == Spec => []NothingLeft
<1>1. IInv => NothingLeft
  <2> SUFFICES ASSUME IInv, active = <<>>, lost = NoVector PROVE stack = <<>>
    BY DEF NothingLeft
  <2>1. PICK stacks \in Seq(Seq(Word)) : Layout(stacks)
    BY DEF IInv, StackInv
  <2>2. Len(active) = 0
    OBVIOUS
  <2>3. stacks[1] = stack /\ stacks[0 + 1] = <<>>
    BY <2>1, <2>2 DEF Layout
  <2> QED  BY <2>3
<1> QED  BY <1>1, Invariance, PTL

(***************************************************************************)
(* Once a handler put the display in the exception's colours there is one  *)
(* in progress that never returns, or the handler of a protection fault or *)
(* of an alignment check got lost: in no other way does the kernel go on   *)
(* under those colours.                                                    *)
(***************************************************************************)
THEOREM Stops == Spec => []StopsOnError
<1>1. IInv => StopsOnError
  <2> SUFFICES ASSUME IInv, display # KernelColours, lost \notin Leaky PROVE active # <<>>
    BY DEF StopsOnError
  <2>1. lost = NoVector
    BY DEF IInv, EndInv
  <2>2. PICK i \in 1..Len(active) : active[i].v \in Fatal
    BY <2>1 DEF IInv, EndInv
  <2> QED  BY <2>2
<1> QED  BY <1>1, Invariance, PTL

(***************************************************************************)
(* What the page fault handler says of its fault is what the error code of *)
(* that fault says.                                                        *)
(***************************************************************************)
LEMMA CauseTells ==
    ASSUME NEW bits
    PROVE  LET said == PageCause(bits)
           IN  /\ "protection" \in said <=> "present" \in bits
               /\ "on write" \in said <=> "write" \in bits
               /\ "user mode" \in said <=> "user" \in bits
               /\ "reserved" \in said <=> "reserved" \in bits
               /\ "fetch" \in said <=> "fetch" \in bits
  BY DEF PageCause

THEOREM Described == Spec => []PageFaultDescribed
<1>1. IInv => PageFaultDescribed
  <2> SUFFICES ASSUME IInv, NEW i \in DOMAIN active,
                      active[i].v = PageFault, active[i].said # {}
               PROVE  LET said == active[i].said
                          bits == active[i].why
                      IN  /\ "protection" \in said <=> "present" \in bits
                          /\ "on write" \in said <=> "write" \in bits
                          /\ "user mode" \in said <=> "user" \in bits
                          /\ "reserved" \in said <=> "reserved" \in bits
                          /\ "fetch" \in said <=> "fetch" \in bits
    BY DEF PageFaultDescribed
  <2>1. i \in 1..Len(active)
    BY LenProperties DEF IInv, HandlersInv
  <2>2. active[i].said = PageCause(active[i].why)
    BY <2>1 DEF IInv, HandlersInv
  <2> QED  BY <2>2, CauseTells
<1> QED  BY <1>1, Invariance, PTL

===============================================================================
