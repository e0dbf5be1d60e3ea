-------------------------------- MODULE Display --------------------------------
(***************************************************************************)
(* The text display (src/kernel/arch/i386/display.c): a screen of cells,   *)
(* the place of the next character and the cursor that the driver draws    *)
(* itself.  Colours are left out.  A write outside the screen is recorded  *)
(* in "stray".  Screen has the driver that uses it first.                  *)
(***************************************************************************)
EXTENDS Integers

CONSTANTS
    Rows, Columns,  \* VIDEO_ROWS, VIDEO_COLUMNS
    TabSize,        \* TAB_CHAR_COUNT
    Characters      \* printable characters

ASSUME DisplayAssumption ==
    /\ Rows \in Nat \ {0} /\ Columns \in Nat \ {0} /\ TabSize \in Nat \ {0}
    /\ Characters \cap {"blank", "cursor"} = {}

Screen == 0..(Rows * Columns - 1)

VARIABLES cells, x_loc, y_loc, stray

vars == <<cells, x_loc, y_loc, stray>>

\* the four as one value, that the functions of the driver take and return
Now == [cells |-> cells, x |-> x_loc, y |-> y_loc, stray |-> stray]

Becomes(s) == /\ cells' = s.cells
              /\ x_loc' = s.x /\ y_loc' = s.y
              /\ stray' = s.stray

get_write_location(s) == s.y * Columns + s.x

Poke(s, location, glyph) ==
    IF location \in Screen THEN [s EXCEPT !.cells[location] = glyph]
    ELSE [s EXCEPT !.stray = @ \cup {location}]

update_blinky_cursor(s) == Poke(s, get_write_location(s), "cursor")

scroll_display(s) ==
    [s EXCEPT !.cells = [i \in Screen |-> IF i + Columns \in Screen
                                          THEN s.cells[i + Columns] ELSE "blank"],
              !.y = Rows - 1, !.x = 0]

Full_Late_Mutant(s) == s.y > Rows

Full(s) == s.y >= Rows

ScrolledIfFull(s) == IF Full(s) THEN scroll_display(s) ELSE s

increment_draw_location(s) ==
    LET moved == IF s.x + 1 >= Columns THEN [s EXCEPT !.x = 0, !.y = @ + 1]
                 ELSE [s EXCEPT !.x = @ + 1]
    IN  update_blinky_cursor(ScrolledIfFull(moved))

newline_KeepsCursor_Mutant(s) ==
    update_blinky_cursor(ScrolledIfFull([s EXCEPT !.x = 0, !.y = @ + 1]))

newline(s) ==
    LET cleared == Poke(s, get_write_location(s), "blank")
    IN  update_blinky_cursor(ScrolledIfFull([cleared EXCEPT !.x = 0, !.y = @ + 1]))

\* the cell in front is cleared before the driver sees that there is none
backspace(s) ==
    LET here == get_write_location(s)
        cleared == Poke(Poke(s, here, "blank"), here - 1, "blank")
        moved == IF s.x > 0 THEN [cleared EXCEPT !.x = @ - 1]
                 ELSE IF s.y > 0 THEN [cleared EXCEPT !.y = @ - 1, !.x = Columns - 1]
                 ELSE cleared
    IN  update_blinky_cursor(moved)

\* the write location moves on by itself, also over a scroll
tabulate(s) ==
    LET step[i \in 0..TabSize] ==
            IF i = 0 THEN s
            ELSE increment_draw_location(Poke(step[i - 1], get_write_location(s) + i - 1, "blank"))
    IN  step[TabSize]

put(s, c) == increment_draw_location(Poke(s, get_write_location(s), c))

cleared_screen(s) ==
    update_blinky_cursor([s EXCEPT !.cells = [i \in Screen |-> "blank"], !.x = 0, !.y = 0])

WriteCharacter(c) == Becomes(put(Now, c))
WriteNewline == Becomes(newline(Now))
WriteBackspace == Becomes(backspace(Now))
WriteTab == Becomes(tabulate(Now))
display_clear == Becomes(cleared_screen(Now))

DisplayStep ==
    \/ \E c \in Characters : WriteCharacter(c)
    \/ WriteNewline
    \/ WriteBackspace
    \/ WriteTab
    \/ display_clear

===============================================================================
