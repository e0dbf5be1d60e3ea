-------------------------------- MODULE Screen --------------------------------
(***************************************************************************)
(* The screen and the two drivers that write it: the early terminal        *)
(* (src/kernel/init/init/kterm.c), which the boot code uses, and then the  *)
(* display (src/kernel/arch/i386/display.c), from display_init at the top  *)
(* of kernel_main on.  Both write the same video memory, and neither knows *)
(* of the other; x_loc, y_loc are the place of the one in charge, called   *)
(* _cur_x, _cur_y in kterm.c.  The early terminal draws no cursor: it sets *)
(* the controller's, which is left out like the colours.                   *)
(***************************************************************************)
EXTENDS Display

CONSTANTS
    EarlyTabSize,   \* TAB_SIZE of kterm.c
    MaxBack         \* bound: how far in front of the screen backspaces go

ASSUME EarlyTerminalAssumption == EarlyTabSize \in Nat \ {0} /\ MaxBack \in Nat

VARIABLE driver     \* who writes the screen

screenVars == <<vars, driver>>

kernel_early_scroll_display_OneMore_Mutant(s) ==
    [s EXCEPT !.cells = [i \in Screen |-> IF i + Columns + 1 \in Screen
                                          THEN s.cells[i + Columns + 1] ELSE "blank"],
              !.y = Rows - 1]

\* _cur_x stays where it is
kernel_early_scroll_display(s) ==
    [s EXCEPT !.cells = [i \in Screen |-> IF i + Columns \in Screen
                                          THEN s.cells[i + Columns] ELSE "blank"],
              !.y = Rows - 1]

ScrolledIfBelow_Late_Mutant(s) == IF s.y > Rows THEN kernel_early_scroll_display(s) ELSE s

ScrolledIfBelow(s) == IF s.y > Rows - 1 THEN kernel_early_scroll_display(s) ELSE s

ki_putc(s, c) ==
    LET written == [Poke(s, get_write_location(s), c) EXCEPT !.x = @ + 1]
    IN  ScrolledIfBelow(IF written.x >= Columns THEN [written EXCEPT !.x = 0, !.y = @ + 1]
                        ELSE written)

ki_newline(s) == ScrolledIfBelow([s EXCEPT !.x = 0, !.y = @ + 1])

ki_tab(s) ==
    LET step[i \in 0..EarlyTabSize] == IF i = 0 THEN s ELSE ki_putc(step[i - 1], "blank")
    IN  step[EarlyTabSize]

\* at the first column _cur_x becomes -1: the cell before, in the row above
ki_backspace(s) ==
    LET blanked == ki_putc([s EXCEPT !.x = @ - 1], "blank") IN [blanked EXCEPT !.x = @ - 1]

\* the loader leaves some text; _cur_x and _cur_y are 0
Init ==
    /\ cells \in {[i \in Screen |-> glyph] : glyph \in Characters \cup {"blank"}}
    /\ x_loc = 0 /\ y_loc = 0
    /\ stray = {}
    /\ driver = "kterm"

KtermStep ==
    /\ driver = "kterm"
    /\ \/ \E c \in Characters : Becomes(ki_putc(Now, c))
       \/ Becomes(ki_newline(Now))
       \/ Becomes(ki_tab(Now))
       \/ get_write_location(Now) > - MaxBack /\ Becomes(ki_backspace(Now))
    /\ UNCHANGED driver

display_init ==
    /\ driver = "kterm"
    /\ Becomes(cleared_screen(Now))
    /\ driver' = "display"

KernelStep == driver = "display" /\ DisplayStep /\ UNCHANGED driver

Next == KtermStep \/ display_init \/ KernelStep

Spec == Init /\ [][Next]_screenVars

-------------------------------------------------------------------------------
(***************************************************************************)
(* The place of the next character is always on the screen, or in front of *)
(* it if backspaces took the early terminal there.                         *)
(***************************************************************************)
TypeOK ==
    /\ cells \in [Screen -> Characters \cup {"blank", "cursor"}]
    /\ driver \in {"kterm", "display"}
    /\ x_loc \in Int /\ x_loc < Columns
    /\ y_loc \in 0..(Rows - 1)
    /\ get_write_location(Now) \in - MaxBack..(Rows * Columns - 1)
    /\ driver = "display" => x_loc >= 0
    /\ stray \subseteq Int

(***************************************************************************)
(* How far a write may go astray.  Of the early terminal, in front of the  *)
(* screen only, by backspaces from the first cell: no text, new line or    *)
(* tab reaches behind it, also where the place has a negative column.  Of  *)
(* the display, a backspace at the first cell clears the one in front of   *)
(* the screen, a tab near the last cell the ones behind it.                *)
(***************************************************************************)
InFront == - MaxBack..-1
Behind == (Rows * Columns)..(Rows * Columns + TabSize - 2)

StrayBounded ==
    /\ stray \subseteq InFront \cup {-1} \cup Behind
    /\ driver = "kterm" => stray \subseteq InFront

(***************************************************************************)
(* The cursor is drawn where the next character goes, and nowhere else:    *)
(* "the next write clears the cursor away" (display.c:113-114).  The first *)
(* clear draws it, and every write keeps it so but a tab that scrolls: it  *)
(* goes on clearing cells where they were before the scroll, and leaves    *)
(* cursors behind.  The early terminal draws none.                         *)
(***************************************************************************)
CursorShown == \A i \in Screen : cells[i] = "cursor" <=> i = get_write_location(Now)
NoCursor == \A i \in Screen : cells[i] # "cursor"

ScrollingTab == WriteTab /\ get_write_location(Now) + TabSize >= Rows * Columns

OneCursor ==
    [][/\ driver' = "kterm" => NoCursor'
       /\ display_init => CursorShown'
       /\ driver = "display" /\ CursorShown /\ ~ ScrollingTab => CursorShown']_screenVars

(***************************************************************************)
(* What was written stays: a write of either driver leaves all the text in *)
(* front of the place it is for as it was, or moves all of it up by whole  *)
(* rows when the screen is full.  (A backspace is for the cell in front.)  *)
(***************************************************************************)
KeptAndMoved(rows) ==
    \A i \in Screen :
        i < get_write_location(Now) - 1 /\ i - rows * Columns \in Screen =>
            cells'[i - rows * Columns] = cells[i]

Wiped == display_init \/ (driver = "display" /\ display_clear)

TextKept == [][Wiped \/ KeptAndMoved(0) \/ KeptAndMoved(1)]_screenVars

===============================================================================
