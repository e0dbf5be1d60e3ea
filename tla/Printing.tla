-------------------------------- MODULE Printing --------------------------------
(***************************************************************************)
(* Formatted output: vprintf and puts of the C library                     *)
(* (src/libc/stdio), with itoa (src/kernel/kernel/itoa.c), and ki_printf   *)
(* of the early terminal (src/kernel/init/init/kterm.c), with              *)
(* ki_make_ulong_string (kutils.c).  A call walks over its format; each    *)
(* turn of its loop is a step.                                             *)
(*                                                                         *)
(* A string is a sequence of characters without its terminator.  EofChar   *)
(* is the character 255, for which putchar returns EOF.  "out" is what the *)
(* call has handed to display_write or ki_putc.                            *)
(***************************************************************************)
EXTENDS Integers, FiniteSets, Sequences, SequencesExt

CONSTANTS
    UIntMax,            \* the largest unsigned int
    INT_MAX,
    ITOA_BUFFER_SIZE,
    Jobs                \* what is called, and with which format and arguments

ASSUME PrintingAssumption ==
    UIntMax \in Nat \ {0} /\ INT_MAX \in Nat /\ ITOA_BUFFER_SIZE \in Nat \ {0}

VARIABLES
    printer, fmt, args,     \* the call
    pos,                    \* the character of fmt that is next
    used,                   \* arguments taken with va_arg
    out,                    \* characters printed
    written,                \* the count that is returned
    status                  \* "walking", then "returned", "failed" (-1), or
                            \* "overrun": on behind the end of the format

printVars == <<printer, fmt, args, pos, used, out, written, status>>

Printers == {"vprintf", "ki_printf", "puts", "kernel_early_putstr"}

NUL == "nul"
EofChar == "eof"
Newline == "nl"

\* the conversions that print a number, with their base
Numeric == [vprintf   |-> [d |-> 10, i |-> 10, u |-> 10, o |-> 8, x |-> 16, X |-> 16, b |-> 2],
            ki_printf |-> [d |-> 10, i |-> 10, x |-> 16, X |-> 16, b |-> 2]]
lettermap == [vprintf   |-> <<"0", "1", "2", "3", "4", "5", "6", "7", "8", "9",
                              "A", "B", "C", "D", "E", "F">>,
              ki_printf |-> <<"0", "1", "2", "3", "4", "5", "6", "7", "8", "9",
                              "a", "b", "c", "d", "e", "f">>]

PrintInit ==
    /\ \E job \in Jobs : printer = job.printer /\ fmt = job.fmt /\ args = job.args
    /\ pos = 1 /\ used = 0 /\ out = <<>> /\ written = 0
    /\ status = "walking"

CharAt(text, i) == IF i \in DOMAIN text THEN text[i] ELSE NUL

At(i) == CharAt(fmt, i)

(***************************************************************************)
(* itoa and ki_make_ulong_string fill their buffer from its end, the last  *)
(* digit first, until nothing is left of the number; 0 is a case of its    *)
(* own.  itoa returns -1, a count that is always too large for vprintf,    *)
(* when the digits and the terminator do not fit.                          *)
(***************************************************************************)
Digits(n, base) ==
    LET filled[k \in 0..UIntMax] ==
            IF k = 0 THEN <<>>
            ELSE Append(filled[k \div base], lettermap[printer][1 + (k % base)])
    IN  IF n = 0 THEN <<"0">> ELSE filled[n]

itoa_fits_Tight_Mutant(digits) == Len(digits) < ITOA_BUFFER_SIZE - 1

itoa_fits(digits) == Len(digits) <= ITOA_BUFFER_SIZE - 1

\* an int argument, negative or not, is read as an unsigned int
AsUInt(n) == n % (UIntMax + 1)

Argument == args[used + 1]

ConversionText(conversion) ==
    CASE conversion = "c" -> <<Argument>>
      [] conversion = "s" -> Argument
      [] OTHER -> Digits(AsUInt(Argument), Numeric[printer][conversion])

ConversionsOf(name) == DOMAIN Numeric[name] \cup {"c", "s"}
Conversions == ConversionsOf(printer)

-------------------------------------------------------------------------------
(***************************************************************************)
(* vprintf.  Each piece of text is counted before it is printed; print     *)
(* stops behind the character for which putchar returns EOF.               *)
(***************************************************************************)
maxrem == INT_MAX - written

Walks(name) == status = "walking" /\ printer = name

Fail == status' = "failed" /\ UNCHANGED <<printer, fmt, args, pos, used, written>>

TooLong(text) == Fail /\ maxrem < Len(text) /\ UNCHANGED out

StopsAtEof(text) ==
    /\ maxrem >= Len(text)
    /\ \E i \in DOMAIN text :
          /\ text[i] = EofChar /\ EofChar \notin ToSet(SubSeq(text, 1, i - 1))
          /\ out' = out \o SubSeq(text, 1, i)
    /\ Fail

Prints(text, next, takes) ==
    /\ out' = out \o text
    /\ pos' = next /\ used' = used + takes
    /\ UNCHANGED <<printer, fmt, args, status>>

Counted(text, next, takes) ==
    \/ TooLong(text)
    \/ StopsAtEof(text)
    \/ /\ maxrem >= Len(text) /\ EofChar \notin ToSet(text)
       /\ Prints(text, next, takes)
       /\ written' = written + Len(text)

LiteralFrom_KeepsBoth_Mutant == pos

\* of "%%" the second is printed, with the text that follows it
LiteralFrom == IF At(pos) = "%" THEN pos + 1 ELSE pos

LiteralEnd == CHOOSE i \in (LiteralFrom + 1)..(Len(fmt) + 1) :
                  /\ At(i) \in {"%", NUL}
                  /\ \A j \in (LiteralFrom + 1)..(i - 1) : At(j) \notin {"%", NUL}

VprintfLiteral ==
    /\ Walks("vprintf") /\ pos \in DOMAIN fmt
    /\ At(pos) # "%" \/ At(pos + 1) = "%"
    /\ Counted(SubSeq(fmt, LiteralFrom, LiteralEnd - 1), LiteralEnd, 0)

VprintfConversion ==
    /\ Walks("vprintf") /\ At(pos) = "%" /\ At(pos + 1) \in Conversions
    /\ LET text == ConversionText(At(pos + 1))
       IN  IF At(pos + 1) \in DOMAIN Numeric.vprintf /\ ~ itoa_fits(text)
             THEN Fail /\ UNCHANGED out
             ELSE Counted(text, pos + 2, 1)

\* an unknown conversion: the format is printed to its end as it is
VprintfRest ==
    /\ Walks("vprintf") /\ At(pos) = "%" /\ At(pos + 1) \notin Conversions \cup {"%"}
    /\ Counted(SubSeq(fmt, pos, Len(fmt)), Len(fmt) + 1, 0)

(***************************************************************************)
(* ki_printf counts nothing and never fails.  Of an unknown conversion it  *)
(* prints the character, also the terminator behind a last "%"; then it    *)
(* goes on behind the format.                                              *)
(***************************************************************************)
KiTurn ==
    /\ Walks("ki_printf") /\ pos \in DOMAIN fmt
    /\ \/ At(pos) # "%" /\ Prints(<<At(pos)>>, pos + 1, 0)
       \/ /\ At(pos) = "%" /\ At(pos + 1) \in Conversions
          /\ Prints(ConversionText(At(pos + 1)), pos + 2, 1)
       \/ /\ At(pos) = "%" /\ At(pos + 1) \notin Conversions
          /\ Prints(<<At(pos + 1)>>, pos + 2, 0)
    /\ UNCHANGED written

Overrun ==
    /\ Walks("ki_printf") /\ pos > Len(fmt) + 1
    /\ status' = "overrun"
    /\ UNCHANGED <<printer, fmt, args, pos, used, out, written>>

\* puts, kernel_early_puts and kernel_early_putstr: a character after the other
PutsTurn ==
    /\ status = "walking" /\ printer \in {"puts", "kernel_early_putstr"}
    /\ pos \in DOMAIN fmt
    /\ Prints(<<At(pos)>>, pos + 1, 0)
    /\ UNCHANGED written

\* puts and kernel_early_putstr return the length and 1 for the newline
Return ==
    /\ status = "walking" /\ pos = Len(fmt) + 1
    /\ status' = "returned"
    /\ out' = IF printer = "puts" THEN Append(out, Newline) ELSE out
    /\ written' = IF printer \in {"puts", "kernel_early_putstr"} THEN pos ELSE written
    /\ UNCHANGED <<printer, fmt, args, pos, used>>

PrintStep ==
    \/ VprintfLiteral \/ VprintfConversion \/ VprintfRest
    \/ KiTurn \/ Overrun
    \/ PutsTurn
    \/ Return

-------------------------------------------------------------------------------
(***************************************************************************)
(* What a call means, read from the definition of printf and not by        *)
(* walking over the format: a "%" starts a directive when an even number   *)
(* of them stand in front of it, each directive but "%%" takes the next    *)
(* argument, and a number prints as the numeral that has its value: a      *)
(* signed value for "%d" and "%i", with a "-" in front of a negative one,  *)
(* an unsigned value for the others.  (Only which letters are the digits   *)
(* above 9 is the printer's own: vprintf has "A", also for "%x".)          *)
(***************************************************************************)
Job == [printer |-> printer, fmt |-> fmt, args |-> args]

HasDirectives(job) == job.printer \in {"vprintf", "ki_printf"}

Starts(job, i) ==
    /\ job.fmt[i] = "%"
    /\ Cardinality({j \in 1..(i - 1) : \A k \in j..(i - 1) : job.fmt[k] = "%"}) % 2 = 0

\* what follows the "%" at i
Directive(job, i) == CharAt(job.fmt, i + 1)

WellFormed(job) ==
    HasDirectives(job) =>
        \A i \in DOMAIN job.fmt :
            Starts(job, i) => Directive(job, i) \in ConversionsOf(job.printer) \cup {"%"}

TakesArgument(job, i) == Starts(job, i) /\ Directive(job, i) \in ConversionsOf(job.printer)

ArgumentOf(job, i) == job.args[Cardinality({j \in 1..i : TakesArgument(job, j)})]

ValueOf(digits, base) ==
    LET value[k \in 0..Len(digits)] == IF k = 0 THEN 0 ELSE value[k - 1] * base + digits[k]
    IN  value[Len(digits)]

IsNumeral(digits, n, base) ==
    /\ ValueOf(digits, base) = n
    /\ digits[1] = 0 => Len(digits) = 1

NumeralLength(n, base) ==
    CHOOSE k \in 1..(UIntMax + 1) : \E digits \in [1..k -> 0..(base - 1)] : IsNumeral(digits, n, base)

Numerals ==
    [base \in {2, 8, 10, 16} |-> [n \in 0..UIntMax |->
        CHOOSE digits \in [1..NumeralLength(n, base) -> 0..(base - 1)] : IsNumeral(digits, n, base)]]

NumeralText(name, n, base) ==
    LET digits == Numerals[base][n]
    IN  [k \in DOMAIN digits |-> lettermap[name][digits[k] + 1]]

SignedConversions == {"d", "i"}

\* the value of a word as an unsigned and as a signed int
UnsignedValue(word) == word % (UIntMax + 1)
SignedValue(word) ==
    IF 2 * UnsignedValue(word) > UIntMax THEN UnsignedValue(word) - (UIntMax + 1)
    ELSE UnsignedValue(word)

Meant(name, conversion, argument) ==
    CASE conversion = "c" -> <<argument>>
      [] conversion = "s" -> argument
      [] conversion \in SignedConversions ->
            IF SignedValue(argument) < 0
              THEN <<"-">> \o NumeralText(name, -SignedValue(argument), 10)
              ELSE NumeralText(name, SignedValue(argument), 10)
      [] OTHER -> NumeralText(name, UnsignedValue(argument), Numeric[name][conversion])

MeaningAt(job, i) ==
    IF Starts(job, i) THEN
        IF Directive(job, i) = "%" THEN <<"%">>
        ELSE Meant(job.printer, Directive(job, i), ArgumentOf(job, i))
    ELSE IF i > 1 /\ Starts(job, i - 1) THEN <<>>
    ELSE <<job.fmt[i]>>

Meaning(job) ==
    IF HasDirectives(job) THEN FlattenSeq([i \in DOMAIN job.fmt |-> MeaningAt(job, i)])
    ELSE IF job.printer = "puts" THEN Append(job.fmt, Newline)
    ELSE job.fmt

(***************************************************************************)
(* What the callers keep to: a text is a sequence of characters, and each  *)
(* conversion has an argument of its kind.  And itoa's buffer has a place  *)
(* for each binary digit of an unsigned int, and for the terminator.       *)
(***************************************************************************)
Suits(argument, conversion) ==
    CASE conversion = "c" -> argument \in STRING
      [] conversion = "s" -> argument \in Seq(STRING)
      [] OTHER -> argument \in Int

ASSUME JobsAssumption ==
    \A job \in Jobs :
        /\ job.printer \in Printers /\ job.fmt \in Seq(STRING)
        /\ HasDirectives(job) =>
              \A i \in DOMAIN job.fmt :
                  TakesArgument(job, i) => Suits(ArgumentOf(job, i), Directive(job, i))

PowerOf2[k \in 0..(ITOA_BUFFER_SIZE - 1)] == IF k = 0 THEN 1 ELSE 2 * PowerOf2[k - 1]

ASSUME BufferAssumption == UIntMax < PowerOf2[ITOA_BUFFER_SIZE - 1]

(***************************************************************************)
(* The formats the code is to print by their meaning.  Of a negative "%d"  *)
(* or "%i" nothing is asked, because there the code departs from it:       *)
(* vprintf takes the argument as an int (vprintf.c:112) and hands it to an *)
(* itoa of unsigned ints, and -1 prints as 4294967295; ki_printf takes it  *)
(* as an unsigned int (kterm.c:128).                                       *)
(***************************************************************************)
NoNegative(job) ==
    HasDirectives(job) =>
        \A i \in DOMAIN job.fmt :
            TakesArgument(job, i) /\ Directive(job, i) \in SignedConversions =>
                SignedValue(ArgumentOf(job, i)) >= 0

Settled(job) == WellFormed(job) /\ NoNegative(job)

(***************************************************************************)
(* A call prints what its format means, in order, and all of it if it      *)
(* returns, for formats of known directives without negative numbers; and  *)
(* for every format ki_printf reads on behind its terminator only if a     *)
(* directive starts at the last character, a "%" alone (kterm.c:124-166).  *)
(***************************************************************************)
PrintsMeaning ==
    /\ Settled(Job) => /\ IsPrefix(out, Meaning(Job))
                       /\ status = "returned" => out = Meaning(Job)
    /\ status = "overrun" => Starts(Job, Len(fmt))

(***************************************************************************)
(* The count that vprintf and puts return is that of the characters        *)
(* printed, and fits an int.  vprintf fails with nothing to tell it from,  *)
(* so it must not fail for less: only if the output is too long or         *)
(* putchar gave EOF, never because itoa's buffer is too small.             *)
(* (kernel_early_putstr counts a newline it does not print, and ki_printf  *)
(* returns 0.)                                                             *)
(***************************************************************************)
CountTold ==
    /\ status = "returned" =>
         CASE printer = "vprintf" -> written = Len(out) /\ written <= INT_MAX
           [] printer = "puts" -> written = Len(out)
           [] printer = "kernel_early_putstr" -> written = Len(out) + 1
           [] printer = "ki_printf" -> written = 0
    /\ status = "failed" /\ Settled(Job) => \/ Len(Meaning(Job)) > INT_MAX
                                            \/ out # <<>> /\ Last(out) = EofChar

===============================================================================
