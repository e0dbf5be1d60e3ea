--------------------------------- MODULE MCLibc ---------------------------------
(***************************************************************************)
(* Libc on formats of up to three pieces and a memory of four cells.       *)
(***************************************************************************)
EXTENDS Libc

Piece(text, arguments) == [text |-> text, arguments |-> arguments]

Literals == {Piece(<<"a">>, <<>>), Piece(<<"d">>, <<>>), Piece(<<EofChar>>, <<>>),
             Piece(<<"%", "%">>, <<>>), Piece(<<"%", "q">>, <<>>)}
OfStrings == {Piece(<<"%", "c">>, <<c>>) : c \in {"a", EofChar}}
             \cup {Piece(<<"%", "s">>, <<s>>) : s \in {<<>>, <<"a", "%">>, <<"a", EofChar, "a">>}}
OfNumbers == {Piece(<<"%", "d">>, <<n>>) : n \in {-1, 0, 10}}
             \cup {Piece(<<"%", "b">>, <<n>>) : n \in {0, 5, 31}}
             \cup {Piece(<<"%", "x">>, <<n>>) : n \in {15, 31}}
Pieces == Literals \cup OfStrings \cup OfNumbers

JobOf(name, pieces) ==
    [printer |-> name, fmt |-> FlattenSeq([i \in DOMAIN pieces |-> pieces[i].text]),
     args |-> FlattenSeq([i \in DOMAIN pieces |-> pieces[i].arguments])]

\* a lone "%" only at the end: no argument is missing
Formats3 == UNION {[1..k -> Pieces] : k \in 0..3}
            \cup {<<p, Piece(<<"%">>, <<>>)>> : p \in Pieces}

EveryNumber ==
    {[printer |-> name, fmt |-> <<"%", conversion>>, args |-> <<n>>] :
        name \in {"vprintf", "ki_printf"}, conversion \in {"d", "i", "x", "X", "b"},
        n \in -UIntMax..UIntMax}
    \cup {[printer |-> "vprintf", fmt |-> <<"%", conversion>>, args |-> <<n>>] :
            conversion \in {"o", "u"}, n \in 0..UIntMax}

MCChars == {-1, 0, 1}

MCJobs ==
    {JobOf(name, pieces) : name \in {"vprintf", "ki_printf"}, pieces \in Formats3}
    \cup {JobOf(name, pieces) : name \in {"puts", "kernel_early_putstr"},
                                pieces \in [1..2 -> Literals] \cup {<<>>}}
    \cup EveryNumber

===============================================================================
