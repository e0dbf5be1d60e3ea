------------------------- MODULE ScreenAndLibc_proofs -------------------------
(***************************************************************************)
(* Proofs about the screen and its two drivers, for every number of rows   *)
(* and columns: where the next character goes, how far a write goes        *)
(* astray, that there is one cursor, and that text stays.  Then about the  *)
(* string functions of the C library, for every memory they work on, and   *)
(* about formatted output, for every format and every width of an int.     *)
(***************************************************************************)
EXTENDS Screen, Libc, FiniteSetTheorems, WellFoundedInduction, TLAPS

Text == Characters \cup {"blank"}
Glyphs == Characters \cup {"blank", "cursor"}

(***************************************************************************)
(* What a driver works on, with glyphs from G.  The place of the next      *)
(* character is in a row of the screen and not behind its last column; of  *)
(* the display, it is on the screen.                                       *)
(***************************************************************************)
State(G) == [cells : [Screen -> G], x : Int, y : Int, stray : SUBSET Int]

InRow(s) == s.x < Columns /\ s.y \in 0..(Rows - 1)
OnScreen(s) == InRow(s) /\ s.x >= 0

Terminal == {s \in State(Text) : InRow(s)}
Shown == {s \in State(Glyphs) : OnScreen(s)}

Size == Rows * Columns
Place(s) == get_write_location(s)

(***************************************************************************)
(* The text of s in front of a place is in t, d cells further up.          *)
(***************************************************************************)
Kept(s, t, d, place) ==
    \A i \in Screen : i < place /\ i - d \in Screen => t.cells[i - d] = s.cells[i]

Shift == {0, Columns}

(***************************************************************************)
(* The early terminal has not gone further in front of the screen than     *)
(* backspaces may.                                                         *)
(***************************************************************************)
Bounded(s) == Place(s) >= - MaxBack /\ s.stray \subseteq InFront

Poked(s, t, place, glyph) ==
    /\ t.x = s.x /\ t.y = s.y
    /\ t.stray = IF place \in Screen THEN s.stray ELSE s.stray \cup {place}
    /\ \A i \in Screen : t.cells[i] = IF i = place THEN glyph ELSE s.cells[i]

CursorAt(s) == \A i \in Screen : s.cells[i] = "cursor" <=> i = Place(s)

-------------------------------------------------------------------------------
(***************************************************************************)
(* Rows, columns and places.                                               *)
(***************************************************************************)
LEMMA RowsAndColumns ==
    /\ Rows \in Nat /\ Rows >= 1 /\ Columns \in Nat /\ Columns >= 1
    /\ Size \in Nat /\ Size >= Columns
    /\ Screen = 0..(Size - 1)
    /\ (Rows - 1) * Columns = Size - Columns
    /\ \A y \in 0..(Rows - 1) : /\ y * Columns \in Nat /\ y * Columns + Columns <= Size
                                /\ (y + 1) * Columns = y * Columns + Columns
                                /\ (y - 1) * Columns = y * Columns - Columns
                                /\ y > 0 => y * Columns >= Columns
                                /\ y = 0 => y * Columns = 0
                                /\ y = Rows - 1 <=> y * Columns + Columns = Size
<1>1. Rows \in Nat /\ Rows >= 1 /\ Columns \in Nat /\ Columns >= 1
  BY DisplayAssumption
<1>2. ASSUME NEW a \in Nat, NEW b \in Nat PROVE a * b \in Nat
  OBVIOUS
<1>3. Size \in Nat
  BY <1>1, <1>2 DEF Size
<1>4. (Rows - 1) * Columns = Size - Columns
  BY <1>1 DEF Size
<1>5. Screen = 0..(Size - 1)
  BY DEF Screen, Size
<1>6. ASSUME NEW y \in 0..(Rows - 1)
      PROVE  /\ y * Columns \in Nat /\ y * Columns + Columns <= Size
             /\ (y + 1) * Columns = y * Columns + Columns
             /\ (y - 1) * Columns = y * Columns - Columns
             /\ y > 0 => y * Columns >= Columns
             /\ y = 0 => y * Columns = 0
             /\ y = Rows - 1 <=> y * Columns + Columns = Size
  <2>1. y \in Nat /\ y * Columns \in Nat
    BY <1>1, <1>2
  <2>2. (y + 1) * Columns = y * Columns + Columns /\ (y - 1) * Columns = y * Columns - Columns
    BY <1>1, <2>1
  <2>3. PICK k \in Nat : Rows = (y + 1) + k
    <3>1. Rows - (y + 1) \in Nat /\ Rows = (y + 1) + (Rows - (y + 1))
      BY <1>1, <2>1
    <3> QED  BY <3>1
  <2>4. k * Columns \in Nat /\ (k > 0 => k * Columns > 0)
    BY <1>1, <1>2, <2>3
  <2>5. Size = (y * Columns + Columns) + k * Columns
    BY <1>1, <2>1, <2>3 DEF Size
  <2>6. y > 0 => y * Columns >= Columns
    <3>1. CASE y > 0
      <4>1. PICK j \in Nat : y = j + 1
        <5>1. y - 1 \in Nat /\ y = (y - 1) + 1
          BY <2>1, <3>1
        <5> QED  BY <5>1
      <4>2. y * Columns = j * Columns + Columns /\ j * Columns \in Nat
        BY <1>1, <1>2, <4>1
      <4> QED  BY <1>1, <4>2
    <3> QED  BY <3>1
  <2>7. y = Rows - 1 <=> k = 0
    BY <1>1, <2>1, <2>3
  <2>8. k = 0 <=> k * Columns = 0
    BY <1>1, <2>3, <2>4
  <2> QED  BY <1>1, <1>3, <2>1, <2>2, <2>4, <2>5, <2>6, <2>7, <2>8
<1>7. 0 \in 0..(Rows - 1)
  BY <1>1
<1>8. Size >= Columns
  <2>1. 0 * Columns \in Nat /\ 0 * Columns + Columns <= Size
    BY <1>6, <1>7
  <2> QED  BY <1>1, <1>3, <2>1
<1> QED  BY <1>1, <1>3, <1>4, <1>5, <1>6, <1>8

LEMMA Glyph ==
    /\ "blank" \in Text /\ "blank" \in Glyphs /\ "cursor" \in Glyphs /\ Text \subseteq Glyphs
    /\ "cursor" \notin Text
BY DisplayAssumption DEF Text, Glyphs

(***************************************************************************)
(* A write at a place sets its cell, or goes astray.                       *)
(***************************************************************************)
LEMMA PokeSets ==
    ASSUME NEW G, NEW s \in State(G), NEW place \in Int, NEW glyph \in G,
           NEW t, t = Poke(s, place, glyph)
    PROVE  t \in State(G) /\ Poked(s, t, place, glyph)
<1>1. CASE place \in Screen
  <2>1. t = [s EXCEPT !.cells[place] = glyph]
    BY <1>1 DEF Poke
  <2> QED  BY <1>1, <2>1 DEF State, Poked
<1>2. CASE place \notin Screen
  <2>1. t = [s EXCEPT !.stray = s.stray \cup {place}]
    BY <1>2 DEF Poke
  <2> QED  BY <1>2, <2>1 DEF State, Poked
<1> QED  BY <1>1, <1>2

-------------------------------------------------------------------------------
(***************************************************************************)
(* The early terminal.  A scroll moves the text up by one row.             *)
(***************************************************************************)
LEMMA ScrolledBelow ==
    ASSUME NEW s \in State(Text), s.x < Columns, s.y \in 0..Rows,
           NEW t, t = ScrolledIfBelow(s)
    PROVE  /\ t \in Terminal /\ t.stray = s.stray /\ t.x = s.x
           /\ s.y < Rows => t = s
           /\ s.y = Rows => /\ t.y = Rows - 1
                            /\ \A i \in Screen : i - Columns \in Screen =>
                                   t.cells[i - Columns] = s.cells[i]
<1>1. Rows \in Nat /\ Rows >= 1 /\ Columns \in Nat
  BY RowsAndColumns
<1>2. CASE s.y < Rows
  <2>1. t = s
    BY <1>1, <1>2 DEF ScrolledIfBelow
  <2> QED  BY <1>1, <1>2, <2>1 DEF Terminal, InRow
<1>3. CASE s.y = Rows
  <2> DEFINE up == [i \in Screen |-> IF i + Columns \in Screen THEN s.cells[i + Columns] ELSE "blank"]
  <2>1. t = [s EXCEPT !.cells = up, !.y = Rows - 1]
    BY <1>1, <1>3 DEF ScrolledIfBelow, kernel_early_scroll_display
  <2>2. up \in [Screen -> Text]
    BY Glyph DEF State
  <2>3. \A i \in Screen : i - Columns \in Screen => up[i - Columns] = s.cells[i]
    <3> SUFFICES ASSUME NEW i \in Screen, i - Columns \in Screen
                 PROVE  up[i - Columns] = s.cells[i]
      OBVIOUS
    <3>1. i \in Nat /\ (i - Columns) + Columns = i
      BY <1>1, RowsAndColumns
    <3> QED  BY <3>1
  <2> HIDE DEF up
  <2>4. t \in State(Text) /\ t.stray = s.stray /\ t.x = s.x /\ t.y = Rows - 1 /\ t.cells = up
    <3>1. PICK moved : moved = [s EXCEPT !.cells = up]
      OBVIOUS
    <3>2. /\ moved \in State(Text) /\ moved.cells = up /\ moved.x = s.x
          /\ moved.y = s.y /\ moved.stray = s.stray
      BY <2>2, <3>1 DEF State
    <3>3. t = [moved EXCEPT !.y = Rows - 1]
      BY <2>1, <3>1
    <3>4. Rows - 1 \in Int
      BY <1>1
    <3> QED  BY <3>2, <3>3, <3>4 DEF State
  <2> QED  BY <1>1, <1>3, <2>3, <2>4 DEF Terminal, InRow
<1> QED  BY <1>1, <1>2, <1>3

LEMMA TerminalPlace ==
    ASSUME NEW s \in Terminal
    PROVE  /\ s \in State(Text) /\ s.x \in Int /\ s.x < Columns /\ s.y \in 0..(Rows - 1)
           /\ Place(s) = s.y * Columns + s.x /\ Place(s) \in Int /\ Place(s) < Size
           /\ Place(s) = Size - 1 <=> s.y = Rows - 1 /\ s.x = Columns - 1
<1>1. s \in State(Text) /\ s.x \in Int /\ s.x < Columns /\ s.y \in 0..(Rows - 1)
  BY DEF Terminal, State, InRow
<1>2. s.y * Columns \in Nat /\ s.y * Columns + Columns <= Size
      /\ (s.y = Rows - 1 <=> s.y * Columns + Columns = Size)
  BY <1>1, RowsAndColumns
<1>3. Place(s) = s.y * Columns + s.x
  BY DEF Place, get_write_location
<1>4. Columns \in Nat /\ Size \in Nat
  BY RowsAndColumns
<1> QED  BY <1>1, <1>2, <1>3, <1>4

(***************************************************************************)
(* A character is written at its place, and the next place is the one      *)
(* behind, or a row further up if that is behind the screen.               *)
(***************************************************************************)
LEMMA PutcMoves ==
    ASSUME NEW s \in Terminal, NEW c \in Text, NEW t, t = ki_putc(s, c)
    PROVE  /\ t \in Terminal
           /\ t.stray = IF Place(s) \in Screen THEN s.stray ELSE s.stray \cup {Place(s)}
           /\ s.x < Columns - 1 => t.x = s.x + 1
           /\ \E d \in Shift : /\ Place(t) = Place(s) + 1 - d
                               /\ d = Columns => Place(s) = Size - 1
                               /\ Kept(s, t, d, Place(s))
<1>1. /\ s \in State(Text) /\ s.x \in Int /\ s.x < Columns /\ s.y \in 0..(Rows - 1)
      /\ Place(s) \in Int /\ Place(s) < Size
  BY TerminalPlace
<1>2. Rows \in Nat /\ Rows >= 1 /\ Columns \in Nat /\ Columns >= 1 /\ Size \in Nat /\ Screen = 0..(Size - 1)
  BY RowsAndColumns
<1>3. PICK p : p = Poke(s, Place(s), c)
  OBVIOUS
<1>4. /\ p \in State(Text) /\ p.x = s.x /\ p.y = s.y
      /\ p.stray = IF Place(s) \in Screen THEN s.stray ELSE s.stray \cup {Place(s)}
      /\ \A i \in Screen : i < Place(s) => p.cells[i] = s.cells[i]
  <2>1. /\ p \in State(Text) /\ p.x = s.x /\ p.y = s.y
        /\ p.stray = IF Place(s) \in Screen THEN s.stray ELSE s.stray \cup {Place(s)}
        /\ \A i \in Screen : p.cells[i] = IF i = Place(s) THEN c ELSE s.cells[i]
    <3>1. p \in State(Text) /\ Poked(s, p, Place(s), c)
      BY <1>1, <1>3, PokeSets
    <3> QED  BY <3>1 DEF Poked
  <2>2. \A i \in Screen : i < Place(s) => i # Place(s)
    BY <1>1, <1>2
  <2> QED  BY <2>1, <2>2
<1>5. PICK w : w = [p EXCEPT !.x = p.x + 1]
  OBVIOUS
<1>6. w \in State(Text) /\ w.x = s.x + 1 /\ w.y = s.y /\ w.cells = p.cells /\ w.stray = p.stray
  BY <1>1, <1>4, <1>5 DEF State
<1>7. t = ScrolledIfBelow(IF w.x >= Columns THEN [w EXCEPT !.x = 0, !.y = w.y + 1] ELSE w)
  BY <1>3, <1>5 DEF ki_putc, Place
<1>8. CASE s.x + 1 < Columns
  <2>1. t = ScrolledIfBelow(w)
    BY <1>1, <1>2, <1>6, <1>7, <1>8
  <2>2. w.x < Columns /\ w.y \in 0..Rows /\ w.y < Rows
    BY <1>1, <1>2, <1>6, <1>8
  <2>3. t = w /\ t \in Terminal
    BY <1>6, <2>1, <2>2, ScrolledBelow
  <2>4. Place(t) = Place(s) + 1 - 0
    <3>1. Place(s) = s.y * Columns + s.x /\ Place(t) = s.y * Columns + (s.x + 1)
      BY <1>6, <2>3 DEF Place, get_write_location
    <3>2. PICK k \in Nat : k = s.y * Columns
      BY <1>1, RowsAndColumns
    <3> QED  BY <1>1, <3>1, <3>2
  <2>5. Kept(s, t, 0, Place(s))
    BY <1>1, <1>2, <1>4, <1>6, <2>3 DEF Kept
  <2>6. 0 \in Shift /\ 0 # Columns
    BY <1>2 DEF Shift
  <2> QED  BY <1>1, <1>2, <1>4, <1>6, <2>3, <2>4, <2>5, <2>6
<1>9. CASE ~ (s.x + 1 < Columns)
  <2>1. s.x = Columns - 1 /\ w.x >= Columns
    BY <1>1, <1>2, <1>6, <1>9
  <2>2. PICK v : v = [w EXCEPT !.x = 0, !.y = w.y + 1]
    OBVIOUS
  <2>3. v \in State(Text) /\ v.x = 0 /\ v.y = s.y + 1 /\ v.cells = p.cells /\ v.stray = p.stray
    <3>1. PICK u : u = [w EXCEPT !.x = 0]
      OBVIOUS
    <3>2. u \in State(Text) /\ u.x = 0 /\ u.y = s.y /\ u.cells = p.cells /\ u.stray = p.stray
      BY <1>6, <3>1 DEF State
    <3>3. v = [u EXCEPT !.y = s.y + 1] /\ s.y + 1 \in Int
      BY <1>1, <1>2, <1>6, <2>2, <3>1
    <3> QED  BY <3>2, <3>3 DEF State
  <2>4. t = ScrolledIfBelow(v)
    BY <1>7, <2>1, <2>2
  <2>5. v.x < Columns /\ v.y \in 0..Rows
    BY <1>1, <1>2, <2>3
  <2>6. /\ t \in Terminal /\ t.stray = v.stray /\ t.x = 0
        /\ v.y < Rows => t = v
        /\ v.y = Rows => /\ t.y = Rows - 1
                         /\ \A i \in Screen : i - Columns \in Screen =>
                                t.cells[i - Columns] = v.cells[i]
    BY <2>3, <2>4, <2>5, ScrolledBelow
  <2>7. PICK k \in Nat : /\ k = s.y * Columns /\ (s.y + 1) * Columns = k + Columns
                         /\ (s.y = Rows - 1 => k + Columns = Size)
    BY <1>1, RowsAndColumns
  <2>10. Place(s) = k + (Columns - 1)
    BY <1>1, <2>1, <2>7 DEF Place, get_write_location
  <2>8. CASE v.y < Rows
    <3>1. Place(t) = Place(s) + 1 - 0
      <4>1. Place(t) = (s.y + 1) * Columns + 0
        BY <2>3, <2>6, <2>8 DEF Place, get_write_location
      <4> QED  BY <1>2, <2>7, <2>10, <4>1
    <3>2. Kept(s, t, 0, Place(s))
      BY <1>1, <1>2, <1>4, <2>3, <2>6, <2>8 DEF Kept
    <3>3. 0 \in Shift /\ 0 # Columns
      BY <1>2 DEF Shift
    <3> QED  BY <1>1, <1>2, <1>4, <2>1, <2>3, <2>6, <3>1, <3>2, <3>3
  <2>9. CASE v.y = Rows
    <3>1. s.y = Rows - 1
      BY <1>1, <1>2, <2>3, <2>9
    <3>2. Place(s) = Size - 1 /\ Place(t) = Place(s) + 1 - Columns
      <4>1. Place(t) = (Rows - 1) * Columns + 0
        BY <2>6, <2>9 DEF Place, get_write_location
      <4>2. Place(t) = k
        BY <2>7, <3>1, <4>1
      <4> QED  BY <1>2, <2>7, <2>10, <3>1, <4>2
    <3>3. Kept(s, t, Columns, Place(s))
      BY <1>4, <2>3, <2>6, <2>9 DEF Kept
    <3>4. Columns \in Shift
      BY DEF Shift
    <3> QED  BY <1>1, <1>2, <1>4, <2>1, <2>3, <2>6, <3>2, <3>3, <3>4
  <2> QED  BY <1>2, <2>5, <2>8, <2>9
<1> QED  BY <1>8, <1>9, <1>1, <1>2

LEMMA ShiftIs ==
    /\ 0 \in Shift /\ Columns \in Shift /\ 0 # Columns
    /\ \A d \in Shift : d \in Nat /\ (d = 0 \/ d = Columns)
BY RowsAndColumns DEF Shift

LEMMA PutcBounded ==
    ASSUME NEW s \in Terminal, Bounded(s), NEW c \in Text, NEW t, t = ki_putc(s, c)
    PROVE  Bounded(t)
<1>1. Place(s) \in Int /\ Place(s) < Size
  BY TerminalPlace
<1>2. Columns \in Nat /\ Size \in Nat /\ Size >= Columns /\ Screen = 0..(Size - 1)
  BY RowsAndColumns
<1>3. MaxBack \in Nat
  BY EarlyTerminalAssumption
<1>4. t.stray \subseteq InFront
  <2>1. t.stray = IF Place(s) \in Screen THEN s.stray ELSE s.stray \cup {Place(s)}
    BY PutcMoves
  <2>2. Place(s) \notin Screen => Place(s) \in InFront
    BY <1>1, <1>2, <1>3 DEF InFront, Bounded
  <2> QED  BY <2>1, <2>2 DEF Bounded
<1>5. PICK d \in Shift : /\ Place(t) = Place(s) + 1 - d
                         /\ d = Columns => Place(s) = Size - 1
                         /\ Kept(s, t, d, Place(s))
  BY PutcMoves, Zenon
<1>6. Place(t) >= - MaxBack
  <2>1. d = 0 \/ d = Columns
    BY <1>5, ShiftIs
  <2>2. Place(s) >= - MaxBack
    BY DEF Bounded
  <2>3. CASE d = 0
    BY <1>1, <1>3, <1>5, <2>2, <2>3
  <2>4. CASE d = Columns
    BY <1>2, <1>3, <1>5, <2>4
  <2> QED  BY <2>1, <2>3, <2>4
<1> QED  BY <1>4, <1>6 DEF Bounded

(***************************************************************************)
(* A new line begins at the first column, and moves all the text if it     *)
(* begins behind the screen.                                               *)
(***************************************************************************)
LEMMA NewlineMoves ==
    ASSUME NEW s \in Terminal, Bounded(s), NEW t, t = ki_newline(s)
    PROVE  /\ t \in Terminal /\ Bounded(t)
           /\ \E d \in Shift : Kept(s, t, d, Place(s))
<1>1. s \in State(Text) /\ s.x \in Int /\ s.x < Columns /\ s.y \in 0..(Rows - 1)
  BY TerminalPlace
<1>2. Rows \in Nat /\ Rows >= 1 /\ Columns \in Nat /\ Columns >= 1 /\ Screen = 0..(Size - 1)
  BY RowsAndColumns
<1>3. PICK u : u = [s EXCEPT !.x = 0]
  OBVIOUS
<1>4. u \in State(Text) /\ u.x = 0 /\ u.y = s.y /\ u.cells = s.cells /\ u.stray = s.stray
  BY <1>1, <1>3 DEF State
<1>5. PICK v : v = [u EXCEPT !.y = s.y + 1]
  OBVIOUS
<1>6. v \in State(Text) /\ v.x = 0 /\ v.y = s.y + 1 /\ v.cells = s.cells /\ v.stray = s.stray
  <2>1. s.y + 1 \in Int
    BY <1>1, <1>2
  <2> QED  BY <1>4, <1>5, <2>1 DEF State
<1>7. t = ScrolledIfBelow(v)
  BY <1>3, <1>5 DEF ki_newline
<1>8. v.x < Columns /\ v.y \in 0..Rows
  BY <1>1, <1>2, <1>6
<1>9. /\ t \in Terminal /\ t.stray = v.stray /\ t.x = v.x
      /\ v.y < Rows => t = v
      /\ v.y = Rows => \A i \in Screen : i - Columns \in Screen => t.cells[i - Columns] = v.cells[i]
  BY <1>6, <1>7, <1>8, ScrolledBelow
<1>10. Bounded(t)
  <2>1. t.y \in 0..(Rows - 1) /\ t.x = 0
    BY <1>6, <1>9, TerminalPlace
  <2>2. PICK k \in Nat : k = t.y * Columns
    BY <2>1, RowsAndColumns
  <2>3. Place(t) = k + 0
    BY <2>1, <2>2 DEF Place, get_write_location
  <2> QED  BY <1>6, <1>9, <2>3, EarlyTerminalAssumption DEF Bounded
<1>11. CASE v.y < Rows
  <2>1. Kept(s, t, 0, Place(s))
    BY <1>2, <1>6, <1>9, <1>11 DEF Kept
  <2> QED  BY <1>9, <1>10, <2>1, ShiftIs
<1>12. CASE v.y = Rows
  <2>1. Kept(s, t, Columns, Place(s))
    BY <1>2, <1>6, <1>9, <1>12 DEF Kept
  <2> QED  BY <1>9, <1>10, <2>1, ShiftIs
<1> QED  BY <1>2, <1>8, <1>11, <1>12

(***************************************************************************)
(* A backspace clears the cell in front and goes there.                    *)
(***************************************************************************)
LEMMA BackspaceMoves ==
    ASSUME NEW s \in Terminal, Bounded(s), Place(s) > - MaxBack, NEW t, t = ki_backspace(s)
    PROVE  t \in Terminal /\ Bounded(t) /\ Kept(s, t, 0, Place(s) - 1)
<1>1. /\ s \in State(Text) /\ s.x \in Int /\ s.x < Columns /\ s.y \in 0..(Rows - 1)
      /\ Place(s) \in Int /\ Place(s) < Size
  BY TerminalPlace
<1>2. Rows \in Nat /\ Columns \in Nat /\ Columns >= 1 /\ Size \in Nat /\ Screen = 0..(Size - 1)
      /\ MaxBack \in Nat
  BY RowsAndColumns, EarlyTerminalAssumption
<1>3. PICK k \in Nat : k = s.y * Columns
  BY <1>1, RowsAndColumns
<1>4. Place(s) = k + s.x
  BY <1>3 DEF Place, get_write_location
<1>5. PICK u : u = [s EXCEPT !.x = s.x - 1]
  OBVIOUS
<1>6. /\ u \in State(Text) /\ u.x = s.x - 1 /\ u.y = s.y
      /\ u.cells = s.cells /\ u.stray = s.stray
  BY <1>1, <1>5 DEF State
<1>7. u \in Terminal
  <2>1. u.x < Columns
    BY <1>1, <1>2, <1>6
  <2> QED  BY <1>1, <1>6, <2>1 DEF Terminal, InRow
<1>8. Place(u) = Place(s) - 1
  <2>1. Place(u) = k + (s.x - 1)
    BY <1>3, <1>6 DEF Place, get_write_location
  <2> QED  BY <1>1, <1>4, <2>1
<1>9. Bounded(u)
  BY <1>1, <1>2, <1>6, <1>8 DEF Bounded
<1>10. PICK b : b = ki_putc(u, "blank")
  OBVIOUS
<1>11. b \in Terminal /\ Bounded(b)
  BY <1>7, <1>9, <1>10, PutcMoves, PutcBounded, Glyph
<1>12. PICK d \in Shift : /\ Place(b) = Place(u) + 1 - d
                          /\ d = Columns => Place(u) = Size - 1
                          /\ Kept(u, b, d, Place(u))
  BY <1>7, <1>10, PutcMoves, Glyph
<1>13. d = 0
  <2>1. Place(u) # Size - 1
    BY <1>1, <1>2, <1>8
  <2>2. d = 0 \/ d = Columns
    BY ShiftIs
  <2> QED  BY <1>12, <2>1, <2>2
<1>14. /\ b \in State(Text) /\ b.x \in Int /\ b.x < Columns /\ b.y \in 0..(Rows - 1)
       /\ Place(b) = b.y * Columns + b.x
  BY <1>11, TerminalPlace
<1>15. t = [b EXCEPT !.x = b.x - 1]
  BY <1>5, <1>10 DEF ki_backspace
<1>16. /\ t \in State(Text) /\ t.x = b.x - 1 /\ t.y = b.y
       /\ t.cells = b.cells /\ t.stray = b.stray
  BY <1>14, <1>15 DEF State
<1>17. t \in Terminal
  <2>1. t.x < Columns
    BY <1>2, <1>14, <1>16
  <2> QED  BY <1>14, <1>16, <2>1 DEF Terminal, InRow
<1>18. Place(t) = Place(s) - 1
  <2>1. PICK j \in Nat : j = b.y * Columns
    BY <1>14, RowsAndColumns
  <2>2. Place(b) = j + b.x /\ Place(t) = j + (b.x - 1)
    BY <1>14, <1>16, <2>1 DEF Place, get_write_location
  <2>3. Place(b) = Place(s)
    BY <1>1, <1>8, <1>12, <1>13
  <2> QED  BY <1>14, <2>2, <2>3
<1>19. Bounded(t)
  BY <1>1, <1>2, <1>11, <1>16, <1>18 DEF Bounded
<1>20. Kept(s, t, 0, Place(s) - 1)
  <2>1. Kept(u, b, 0, Place(s) - 1)
    BY <1>8, <1>12, <1>13
  <2> QED  BY <1>6, <1>16, <2>1 DEF Kept
<1> QED  BY <1>17, <1>19, <1>20

-------------------------------------------------------------------------------
(***************************************************************************)
(* Loops are recursive functions: a function that satisfies such an        *)
(* equation exists, and what holds at every turn is shown for the first    *)
(* one it would fail at, the smallest of a set of numbers.                 *)
(***************************************************************************)
LEMMA EveryTurn ==
    ASSUME NEW N \in Nat, NEW good \in SUBSET (0..N), 0 \in good,
           \A i \in 1..N : i - 1 \in good => i \in good
    PROVE  good = 0..N
<1> DEFINE Less == OpToRel(<, Nat)
           bad == (0..N) \ good
<1> SUFFICES ASSUME bad # {} PROVE FALSE
  OBVIOUS
<1>1. PICK b \in bad : \A c \in bad : ~ (<<c, b>> \in Less)
  <2>1. IsWellFoundedOn(Less, Nat)
    BY NatLessThanWellFounded
  <2>2. bad \subseteq Nat
    OBVIOUS
  <2> HIDE DEF Less, bad
  <2> QED  BY <2>1, <2>2, WFMin
<1>2. b \in 1..N /\ b - 1 \in 0..N /\ b - 1 \in Nat /\ b - 1 < b /\ b \in Nat
  <2>1. b \in 0..N /\ b # 0
    OBVIOUS
  <2> QED  BY <2>1
<1>3. b - 1 \in bad
  BY <1>2
<1>4. <<b - 1, b>> \in Less
  BY <1>2 DEF OpToRel
<1> QED  BY <1>1, <1>3, <1>4

Loop(f, N, s, F) == f = [i \in 0..N |-> IF i = 0 THEN s ELSE F[i][f[i - 1]]]

LEMMA LoopExists ==
    ASSUME NEW S, NEW s \in S, NEW N \in Nat, NEW F \in [Nat -> [S -> S]]
    PROVE  \E f \in [0..N -> S] : Loop(f, N, s, F)
<1> DEFINE good == {n \in 0..N : \E f \in [0..n -> S] : Loop(f, n, s, F)}
<1>1. 0 \in good
  <2> DEFINE f == [i \in 0..0 |-> s]
  <2>1. f = [i \in 0..0 |-> IF i = 0 THEN s ELSE F[i][f[i - 1]]]
    OBVIOUS
  <2>2. f \in [0..0 -> S]
    OBVIOUS
  <2>3. 0 \in 0..N
    OBVIOUS
  <2> HIDE DEF f
  <2>4. Loop(f, 0, s, F)
    BY <2>1 DEF Loop
  <2> QED  BY <2>2, <2>3, <2>4
<1>2. ASSUME NEW n \in 1..N, n - 1 \in good PROVE n \in good
  <2>1. PICK f \in [0..(n - 1) -> S] : Loop(f, n - 1, s, F)
    BY <1>2
  <2>2. n \in Nat /\ n >= 1 /\ n - 1 \in 0..(n - 1) /\ n \in 0..N
    OBVIOUS
  <2> DEFINE last == F[n][f[n - 1]]
             v == [i \in 0..n |-> IF i < n THEN f[i] ELSE last]
  <2>3. last \in S
    BY <2>2
  <2>4. v \in [0..n -> S]
    <3>1. \A i \in 0..n : i < n => f[i] \in S
      BY <2>2
    <3> HIDE DEF last
    <3> QED  BY <2>3, <3>1
  <2>5. ASSUME NEW i \in 0..n PROVE v[i] = IF i = 0 THEN s ELSE F[i][v[i - 1]]
    <3>1. CASE i = 0
      <4>1. 0 \in 0..(n - 1) /\ 0 < n
        BY <2>2
      <4>2. f[0] = s
        BY <2>1, <4>1 DEF Loop
      <4> QED  BY <3>1, <4>1, <4>2
    <3>2. CASE i # 0 /\ i < n
      <4>1. i \in 0..(n - 1) /\ i - 1 \in 0..(n - 1) /\ i - 1 < n /\ i - 1 \in 0..n
        BY <2>2, <3>2
      <4>2. f[i] = F[i][f[i - 1]]
        BY <2>1, <3>2, <4>1 DEF Loop
      <4> QED  BY <3>2, <4>1, <4>2
    <3>3. CASE i = n
      <4>1. n - 1 < n /\ n - 1 \in 0..n /\ n # 0 /\ ~ (n < n)
        BY <2>2
      <4> QED  BY <3>3, <4>1
    <3> QED  BY <2>2, <3>1, <3>2, <3>3
  <2>6. v = [i \in 0..n |-> IF i = 0 THEN s ELSE F[i][v[i - 1]]]
    BY <2>5
  <2>7. Loop(v, n, s, F)
    <3> HIDE DEF v
    <3> QED  BY <2>6 DEF Loop
  <2> QED  BY <2>2, <2>4, <2>7
<1>3. good = 0..N
  <2>1. good \in SUBSET (0..N)
    OBVIOUS
  <2> HIDE DEF good
  <2> QED  BY <1>1, <1>2, <2>1, EveryTurn
<1> QED  BY <1>3

LEMMA SmallestIn ==
    ASSUME NEW T \in SUBSET Nat, T # {}
    PROVE  \E b \in T : \A c \in T : b <= c
<1> DEFINE Less == OpToRel(<, Nat)
<1>1. PICK b \in T : \A c \in T : ~ (<<c, b>> \in Less)
  <2>1. IsWellFoundedOn(Less, Nat)
    BY NatLessThanWellFounded
  <2> HIDE DEF Less
  <2> QED  BY <2>1, WFMin
<1>2. \A c \in T : ~ (c < b)
  BY <1>1 DEF OpToRel
<1> QED  BY <1>2

(***************************************************************************)
(* The early terminal's tab: the blanks are written one after another.     *)
(***************************************************************************)
KiTabTurns(f, s) ==
    f = [i \in 0..EarlyTabSize |-> IF i = 0 THEN s ELSE ki_putc(f[i - 1], "blank")]

LEMMA KiTabLoop ==
    ASSUME NEW s \in Terminal
    PROVE  \E f : KiTabTurns(f, s) /\ ki_tab(s) = f[EarlyTabSize]
<1> DEFINE F == [i \in Nat |-> [x \in Terminal |-> ki_putc(x, "blank")]]
<1>1. EarlyTabSize \in Nat
  BY EarlyTerminalAssumption
<1>2. \A x \in Terminal : ki_putc(x, "blank") \in Terminal
  BY PutcMoves, Glyph
<1>3. F \in [Nat -> [Terminal -> Terminal]]
  BY <1>2
<1>4. \A i \in Nat : \A x \in Terminal : F[i][x] = ki_putc(x, "blank")
  OBVIOUS
<1> HIDE DEF F
<1>5. PICK f \in [0..EarlyTabSize -> Terminal] : Loop(f, EarlyTabSize, s, F)
  BY <1>1, <1>3, LoopExists
<1>6. KiTabTurns(f, s)
  <2>1. \A i \in 0..EarlyTabSize :
            f[i] = IF i = 0 THEN s ELSE ki_putc(f[i - 1], "blank")
    <3> SUFFICES ASSUME NEW i \in 0..EarlyTabSize
                 PROVE  f[i] = IF i = 0 THEN s ELSE ki_putc(f[i - 1], "blank")
      OBVIOUS
    <3>1. f[i] = IF i = 0 THEN s ELSE F[i][f[i - 1]]
      BY <1>5 DEF Loop
    <3>2. CASE i # 0
      <4>1. i \in Nat /\ f[i - 1] \in Terminal
        BY <1>1, <3>2
      <4> QED  BY <1>4, <3>1, <3>2, <4>1
    <3> QED  BY <3>1, <3>2
  <2> QED  BY <2>1 DEF KiTabTurns
<1>7. PICK step : step = CHOOSE g : KiTabTurns(g, s)
  OBVIOUS
<1>8. KiTabTurns(step, s)
  BY <1>6, <1>7
<1>9. ki_tab(s) = step[EarlyTabSize]
  BY <1>7, Zenon DEF ki_tab, KiTabTurns
<1> QED  BY <1>8, <1>9

(***************************************************************************)
(* Text that is kept by two writes, the second at a place that moved with  *)
(* the text or lies behind it, is kept by both.                            *)
(***************************************************************************)
LEMMA KeptTwice ==
    ASSUME NEW s, NEW t, NEW u, NEW d \in Nat, NEW e \in Nat, NEW p \in Int, NEW q \in Int,
           Kept(s, t, d, p), Kept(t, u, e, q), q >= p - d
    PROVE  Kept(s, u, d + e, p)
<1> SUFFICES ASSUME NEW i \in Screen, i < p, i - (d + e) \in Screen
             PROVE  u.cells[i - (d + e)] = s.cells[i]
  BY DEF Kept
<1>1. Screen = 0..(Size - 1) /\ Size \in Nat
  BY RowsAndColumns
<1>2. i - d \in Screen /\ (i - d) - e = i - (d + e) /\ i - d < q
  BY <1>1
<1>3. t.cells[i - d] = s.cells[i]
  BY <1>2 DEF Kept
<1>4. u.cells[(i - d) - e] = t.cells[i - d]
  BY <1>2 DEF Kept
<1> QED  BY <1>2, <1>3, <1>4

(***************************************************************************)
(* After i turns of a tab that began at s, the text in front of the place  *)
(* it began at has moved up by one row at most, if that brings the place   *)
(* so far back that a second row is out of reach.                          *)
(***************************************************************************)
After(s, t, i) ==
    \E d \in Shift : /\ Place(t) = Place(s) + i - d
                     /\ d = Columns => Place(s) + i >= Size
                     /\ Kept(s, t, d, Place(s))

LEMMA AfterOneMore ==
    ASSUME NEW s, NEW t, NEW u, Place(s) \in Int, Place(s) < Size,
           NEW i \in Nat, i < Columns, After(s, t, i),
           NEW e \in Shift, Place(u) = Place(t) + 1 - e, e = Columns => Place(t) = Size - 1,
           Kept(t, u, e, Place(t))
    PROVE  After(s, u, i + 1)
<1>1. Columns \in Nat /\ Size \in Nat /\ Size >= Columns
  BY RowsAndColumns
<1>2. PICK d \in Shift : /\ Place(t) = Place(s) + i - d
                         /\ d = Columns => Place(s) + i >= Size
                         /\ Kept(s, t, d, Place(s))
  BY DEF After
<1>3. d \in Nat /\ (d = 0 \/ d = Columns) /\ e \in Nat /\ (e = 0 \/ e = Columns)
  BY ShiftIs
<1>4. Kept(s, u, d + e, Place(s))
  <2>1. Place(t) \in Int /\ Place(t) >= Place(s) - d
    BY <1>2, <1>3
  <2> QED  BY <1>2, <1>3, <2>1, KeptTwice
<1>5. CASE d = 0 /\ e = 0
  <2>1. d + e = 0 /\ Place(u) = Place(s) + (i + 1) - 0
    BY <1>2, <1>5
  <2> QED  BY <1>1, <1>4, <2>1, ShiftIs DEF After
<1>6. CASE d = 0 /\ e = Columns
  <2>1. d + e = Columns /\ Place(u) = Place(s) + (i + 1) - Columns /\ Place(s) + (i + 1) >= Size
    BY <1>1, <1>2, <1>6
  <2> QED  BY <1>1, <1>4, <2>1, ShiftIs DEF After
<1>7. CASE d = Columns /\ e = 0
  <2>1. /\ d + e = Columns /\ Place(u) = Place(s) + (i + 1) - Columns
        /\ Place(s) + (i + 1) >= Size
    BY <1>1, <1>2, <1>7
  <2> QED  BY <1>1, <1>4, <2>1, ShiftIs DEF After
<1>8. CASE d = Columns /\ e = Columns
  <2>1. Place(s) + i - Columns = Size - 1
    BY <1>2, <1>8
  <2> QED  BY <1>1, <2>1
<1> QED  BY <1>3, <1>5, <1>6, <1>7, <1>8

LEMMA KiTabMoves ==
    ASSUME NEW s \in Terminal, Bounded(s), NEW t, t = ki_tab(s)
    PROVE  /\ t \in Terminal /\ Bounded(t)
           /\ EarlyTabSize <= Columns => \E d \in Shift : Kept(s, t, d, Place(s))
<1>1. EarlyTabSize \in Nat /\ Columns \in Nat
  BY EarlyTerminalAssumption, RowsAndColumns
<1>2. PICK f : KiTabTurns(f, s) /\ t = f[EarlyTabSize]
  BY KiTabLoop
<1>3. \A i \in 0..EarlyTabSize : f[i] = IF i = 0 THEN s ELSE ki_putc(f[i - 1], "blank")
  BY <1>2 DEF KiTabTurns
<1>4. Place(s) \in Int /\ Place(s) < Size
  BY TerminalPlace
<1> DEFINE Good(i) == /\ f[i] \in Terminal /\ Bounded(f[i])
                      /\ EarlyTabSize <= Columns => After(s, f[i], i)
           good == {i \in 0..EarlyTabSize : Good(i)}
<1>5. 0 \in good
  <2>1. 0 \in 0..EarlyTabSize /\ f[0] = s
    BY <1>1, <1>3
  <2>2. After(s, s, 0)
    <3>1. Kept(s, s, 0, Place(s))
      BY RowsAndColumns DEF Kept
    <3> QED  BY <1>4, <3>1, ShiftIs DEF After
  <2> QED  BY <2>1, <2>2
<1>6. ASSUME NEW i \in 1..EarlyTabSize, i - 1 \in good PROVE i \in good
  <2>1. i \in 0..EarlyTabSize /\ i # 0 /\ i - 1 \in Nat /\ (i - 1) + 1 = i
    BY <1>1
  <2>2. f[i] = ki_putc(f[i - 1], "blank")
    BY <1>3, <2>1
  <2>3. PICK u \in Terminal : u = f[i - 1] /\ Bounded(u)
    BY <1>6
  <2>4. PICK v : v = f[i] /\ v = ki_putc(u, "blank")
    BY <2>2, <2>3
  <2>5. v \in Terminal /\ Bounded(v)
    BY <2>3, <2>4, Glyph, PutcMoves, PutcBounded
  <2>6. ASSUME EarlyTabSize <= Columns PROVE After(s, v, i)
    <3>1. After(s, u, i - 1) /\ i - 1 < Columns
      BY <1>1, <1>6, <2>3, <2>6
    <3>2. PICK e \in Shift : /\ Place(v) = Place(u) + 1 - e
                             /\ e = Columns => Place(u) = Size - 1
                             /\ Kept(u, v, e, Place(u))
      BY <2>3, <2>4, Glyph, PutcMoves
    <3>3. After(s, v, (i - 1) + 1)
      BY <1>4, <2>1, <3>1, <3>2, AfterOneMore
    <3> QED  BY <2>1, <3>3
  <2> QED  BY <2>1, <2>4, <2>5, <2>6
<1>7. good = 0..EarlyTabSize
  <2>1. good \in SUBSET (0..EarlyTabSize)
    OBVIOUS
  <2> HIDE DEF good
  <2> QED  BY <1>1, <1>5, <1>6, <2>1, EveryTurn
<1>8. Good(EarlyTabSize)
  <2>1. EarlyTabSize \in good
    <3> HIDE DEF good
    <3> QED  BY <1>1, <1>7
  <2> QED  BY <2>1
<1> QED  BY <1>2, <1>8 DEF After

-------------------------------------------------------------------------------
(***************************************************************************)
(* The display.  Its place is a cell of the screen.                        *)
(***************************************************************************)
LEMMA ShownPlace ==
    ASSUME NEW s \in Shown
    PROVE  /\ s \in State(Glyphs) /\ s.x \in 0..(Columns - 1) /\ s.y \in 0..(Rows - 1)
           /\ Place(s) = s.y * Columns + s.x /\ Place(s) \in Screen /\ Place(s) \in Nat
           /\ Place(s) < Size /\ (Place(s) = 0 <=> s.x = 0 /\ s.y = 0)
<1>1. s \in State(Glyphs) /\ s.x \in 0..(Columns - 1) /\ s.y \in 0..(Rows - 1)
  BY RowsAndColumns DEF Shown, State, InRow, OnScreen
<1>2. /\ Columns \in Nat /\ Columns >= 1 /\ Size \in Nat /\ Screen = 0..(Size - 1)
      /\ Rows \in Nat
  BY RowsAndColumns
<1>3. Place(s) = s.y * Columns + s.x
  BY DEF Place, get_write_location
<1>4. PICK k \in Nat : /\ k = s.y * Columns /\ k + Columns <= Size
                       /\ s.y > 0 => k >= Columns
                       /\ s.y = 0 => k = 0
  BY <1>1, RowsAndColumns
<1>5. Place(s) = k + s.x
  BY <1>3, <1>4
<1>6. Place(s) \in Screen /\ Place(s) \in Nat /\ Place(s) < Size
  BY <1>1, <1>2, <1>4, <1>5
<1>7. Place(s) = 0 <=> s.x = 0 /\ s.y = 0
  <2>1. Place(s) = 0 <=> k = 0 /\ s.x = 0
    BY <1>1, <1>2, <1>4, <1>5
  <2>2. s.y > 0 \/ s.y = 0
    BY <1>1, <1>2
  <2>3. k = 0 <=> s.y = 0
    BY <1>2, <1>4, <2>2
  <2> QED  BY <2>1, <2>3
<1> QED  BY <1>1, <1>3, <1>6, <1>7

(***************************************************************************)
(* t is s with all cells d further up and the cursor drawn at its place.   *)
(***************************************************************************)
Drawn(s, t, d) ==
    /\ t \in Shown /\ t.stray = s.stray
    /\ t.cells[Place(t)] = "cursor"
    /\ \A i \in Screen : i # Place(t) =>
           t.cells[i] = IF i + d \in Screen THEN s.cells[i + d] ELSE "blank"

LEMMA DrawnKeeps ==
    ASSUME NEW s, NEW t, NEW d \in Nat, Drawn(s, t, d), NEW p \in Int, p <= Place(t) + d
    PROVE  Kept(s, t, d, p)
<1> SUFFICES ASSUME NEW i \in Screen, i < p, i - d \in Screen
             PROVE  t.cells[i - d] = s.cells[i]
  BY DEF Kept
<1>1. Screen = 0..(Size - 1) /\ Size \in Nat
  BY RowsAndColumns
<1>2. Place(t) \in Nat
  BY ShownPlace DEF Drawn
<1>3. i - d # Place(t) /\ (i - d) + d = i
  BY <1>1, <1>2
<1> QED  BY <1>3 DEF Drawn

LEMMA DrawnOne ==
    ASSUME NEW s, NEW t, NEW d, Drawn(s, t, d), \A i \in Screen : s.cells[i] # "cursor"
    PROVE  CursorAt(t)
BY DEF Drawn, CursorAt

(***************************************************************************)
(* Drawing the cursor where the write ended, on a screen that scrolls if   *)
(* that is behind it.                                                      *)
(***************************************************************************)
LEMMA CursorDraws ==
    ASSUME NEW s \in Shown, NEW t, t = update_blinky_cursor(s)
    PROVE  Drawn(s, t, 0) /\ Place(t) = Place(s)
<1>1. s \in State(Glyphs) /\ Place(s) \in Screen /\ Place(s) \in Int
  BY ShownPlace
<1>2. t = Poke(s, Place(s), "cursor")
  BY DEF update_blinky_cursor, Place
<1>3. t \in State(Glyphs) /\ Poked(s, t, Place(s), "cursor")
  BY <1>1, <1>2, PokeSets, Glyph
<1>4. t.x = s.x /\ t.y = s.y /\ t.stray = s.stray
  BY <1>1, <1>3 DEF Poked
<1>5. Place(t) = Place(s)
  BY <1>4 DEF Place, get_write_location
<1>6. t \in Shown
  BY <1>3, <1>4 DEF Shown, OnScreen, InRow
<1>7. t.cells[Place(t)] = "cursor"
  BY <1>1, <1>3, <1>5 DEF Poked
<1>8. \A i \in Screen : i # Place(t) =>
          t.cells[i] = IF i + 0 \in Screen THEN s.cells[i + 0] ELSE "blank"
  <2> SUFFICES ASSUME NEW i \in Screen, i # Place(t) PROVE t.cells[i] = s.cells[i] /\ i + 0 = i
    OBVIOUS
  <2>1. i + 0 = i
    BY RowsAndColumns
  <2> QED  BY <1>3, <1>5, <2>1 DEF Poked
<1> QED  BY <1>4, <1>5, <1>6, <1>7, <1>8 DEF Drawn

LEMMA ScrolledDraws ==
    ASSUME NEW s \in State(Glyphs), s.y \in 0..Rows, s.x \in 0..(Columns - 1), s.y = Rows => s.x = 0,
           NEW t, t = update_blinky_cursor(ScrolledIfFull(s))
    PROVE  \E d \in Shift : /\ Drawn(s, t, d)
                            /\ Place(t) = Place(s) - d
                            /\ d = Columns <=> s.y = Rows
<1>1. /\ Rows \in Nat /\ Rows >= 1 /\ Columns \in Nat /\ Columns >= 1
      /\ Size \in Nat /\ Screen = 0..(Size - 1)
  BY RowsAndColumns
<1>2. CASE s.y < Rows
  <2>1. s \in Shown
    BY <1>1, <1>2 DEF Shown, OnScreen, InRow
  <2>2. t = update_blinky_cursor(s)
    BY <1>1, <1>2 DEF ScrolledIfFull, Full
  <2>3. Drawn(s, t, 0) /\ Place(t) = Place(s)
    BY <2>1, <2>2, CursorDraws
  <2>4. Place(s) \in Nat /\ s.y # Rows
    BY <1>1, <1>2, <2>1, ShownPlace
  <2>5. Place(t) = Place(s) - 0
    BY <2>3, <2>4
  <2> QED  BY <2>3, <2>4, <2>5, ShiftIs
<1>3. CASE s.y = Rows
  <2> DEFINE up == [i \in Screen |-> IF i + Columns \in Screen THEN s.cells[i + Columns] ELSE "blank"]
  <2>1. up \in [Screen -> Glyphs]
    BY Glyph DEF State
  <2>2. \A i \in Screen : up[i] = IF i + Columns \in Screen THEN s.cells[i + Columns] ELSE "blank"
    OBVIOUS
  <2>3. PICK u : u = scroll_display(s)
    OBVIOUS
  <2>4. u = [s EXCEPT !.cells = up, !.y = Rows - 1, !.x = 0]
    BY <2>3 DEF scroll_display
  <2> HIDE DEF up
  <2>5. /\ u \in State(Glyphs) /\ u.cells = up /\ u.y = Rows - 1 /\ u.x = 0 /\ u.stray = s.stray
    <3>1. PICK v : v = [s EXCEPT !.cells = up]
      OBVIOUS
    <3>2. v \in State(Glyphs) /\ v.cells = up /\ v.stray = s.stray
      BY <2>1, <3>1 DEF State
    <3>3. PICK w : w = [v EXCEPT !.y = Rows - 1]
      OBVIOUS
    <3>4. w \in State(Glyphs) /\ w.cells = up /\ w.stray = s.stray /\ w.y = Rows - 1
      <4>1. Rows - 1 \in Int
        BY <1>1
      <4> QED  BY <3>2, <3>3, <4>1 DEF State
    <3>5. u = [w EXCEPT !.x = 0]
      BY <2>4, <3>1, <3>3
    <3> QED  BY <3>4, <3>5 DEF State
  <2>6. u \in Shown
    <3>1. u.x < Columns /\ u.x >= 0 /\ u.y \in 0..(Rows - 1)
      BY <1>1, <2>5
    <3> QED  BY <2>5, <3>1 DEF Shown, OnScreen, InRow
  <2>7. t = update_blinky_cursor(u)
    BY <1>1, <1>3, <2>3 DEF ScrolledIfFull, Full
  <2>8. Drawn(u, t, 0) /\ Place(t) = Place(u)
    BY <2>6, <2>7, CursorDraws
  <2>9. Drawn(s, t, Columns)
    <3>1. \A i \in Screen : i + 0 = i
      BY <1>1
    <3>2. \A i \in Screen : i # Place(t) =>
              t.cells[i] = IF i + Columns \in Screen THEN s.cells[i + Columns] ELSE "blank"
      BY <2>2, <2>5, <2>8, <3>1 DEF Drawn
    <3> QED  BY <2>5, <2>8, <3>2 DEF Drawn
  <2>10. Place(t) = Place(s) - Columns
    <3>1. Place(u) = (Rows - 1) * Columns + 0 /\ Place(s) = Rows * Columns + 0
      BY <1>3, <2>5 DEF Place, get_write_location
    <3>2. (Rows - 1) * Columns = Size - Columns /\ Rows * Columns = Size
      BY RowsAndColumns DEF Size
    <3> QED  BY <1>1, <2>8, <3>1, <3>2
  <2> QED  BY <1>3, <2>9, <2>10, ShiftIs
<1> QED  BY <1>1, <1>2, <1>3

(***************************************************************************)
(* A write moves on by one place, or to the row above when that is behind  *)
(* the screen; the text in front of its place is kept if it is not written *)
(* there.                                                                  *)
(***************************************************************************)
LEMMA DrawMoves ==
    ASSUME NEW s \in Shown, NEW place \in Int, NEW c \in Text,
           NEW t, t = increment_draw_location(Poke(s, place, c))
    PROVE  /\ t \in Shown
           /\ place \in Screen => t.stray = s.stray
           /\ place \notin Screen => t.stray = s.stray \cup {place}
           /\ place = Place(s) /\ CursorAt(s) => CursorAt(t)
           /\ \E d \in Shift : /\ Place(t) = Place(s) + 1 - d
                               /\ d = Columns => Place(s) = Size - 1
                               /\ place >= Place(s) => Kept(s, t, d, Place(s))
<1>1. /\ s \in State(Glyphs) /\ s.x \in 0..(Columns - 1) /\ s.y \in 0..(Rows - 1)
      /\ Place(s) = s.y * Columns + s.x /\ Place(s) \in Screen /\ Place(s) \in Nat /\ Place(s) < Size
  BY ShownPlace
<1>2. /\ Rows \in Nat /\ Rows >= 1 /\ Columns \in Nat /\ Columns >= 1
      /\ Size \in Nat /\ Screen = 0..(Size - 1)
  BY RowsAndColumns
<1>3. PICK p : p = Poke(s, place, c)
  OBVIOUS
<1>4. p \in State(Glyphs) /\ Poked(s, p, place, c)
  <2>1. c \in Glyphs
    BY Glyph
  <2> QED  BY <1>1, <1>3, <2>1, PokeSets
<1>5. p.x = s.x /\ p.y = s.y
  BY <1>4 DEF Poked
<1>6. ASSUME place >= Place(s) PROVE Kept(s, p, 0, Place(s))
  <2>1. \A i \in Screen : i < Place(s) => i # place /\ i - 0 = i
    BY <1>1, <1>2, <1>6
  <2> QED  BY <1>4, <2>1 DEF Poked, Kept
<1>7. PICK k \in Nat : /\ k = s.y * Columns /\ (s.y + 1) * Columns = k + Columns
                       /\ (s.y = Rows - 1 <=> k + Columns = Size)
  BY <1>1, RowsAndColumns
<1>8. Place(s) = k + s.x
  BY <1>1, <1>7
<1>9. PICK m : m = IF p.x + 1 >= Columns THEN [p EXCEPT !.x = 0, !.y = p.y + 1]
                   ELSE [p EXCEPT !.x = p.x + 1]
  OBVIOUS
<1>10. t = update_blinky_cursor(ScrolledIfFull(m))
  BY <1>3, <1>9 DEF increment_draw_location
<1>11. /\ m \in State(Glyphs) /\ m.cells = p.cells /\ m.stray = p.stray
       /\ m.y \in 0..Rows /\ m.x \in 0..(Columns - 1) /\ (m.y = Rows => m.x = 0)
       /\ Place(m) = Place(s) + 1 /\ (m.y = Rows <=> Place(s) = Size - 1)
  <2>1. CASE s.x + 1 < Columns
    <3>1. m = [p EXCEPT !.x = s.x + 1]
      BY <1>1, <1>2, <1>5, <1>9, <2>1
    <3>2. s.x + 1 \in Int /\ s.x + 1 \in 0..(Columns - 1) /\ s.y \in 0..Rows /\ s.y # Rows
      BY <1>1, <1>2, <2>1
    <3>3. /\ m \in State(Glyphs) /\ m.cells = p.cells /\ m.stray = p.stray
          /\ m.y = s.y /\ m.x = s.x + 1
      BY <1>4, <1>5, <3>1, <3>2 DEF State
    <3>4. Place(m) = k + (s.x + 1)
      BY <1>7, <3>3 DEF Place, get_write_location
    <3>5. Place(m) = Place(s) + 1
      BY <1>1, <1>8, <3>4
    <3>6. Place(s) # Size - 1
      <4>1. k + Columns <= Size
        BY <1>1, <1>7, RowsAndColumns
      <4> QED  BY <1>1, <1>2, <1>8, <2>1, <4>1
    <3> QED  BY <3>2, <3>3, <3>5, <3>6
  <2>2. CASE ~ (s.x + 1 < Columns)
    <3>1. s.x = Columns - 1 /\ p.x + 1 >= Columns
      BY <1>1, <1>2, <1>5, <2>2
    <3>2. m = [p EXCEPT !.x = 0, !.y = s.y + 1]
      BY <1>5, <1>9, <3>1
    <3>3. PICK u : u = [p EXCEPT !.x = 0]
      OBVIOUS
    <3>4. /\ u \in State(Glyphs) /\ u.cells = p.cells /\ u.stray = p.stray /\ u.x = 0
      BY <1>4, <3>3 DEF State
    <3>5. m = [u EXCEPT !.y = s.y + 1] /\ s.y + 1 \in Int /\ s.y + 1 \in 0..Rows
      BY <1>1, <1>2, <3>2, <3>3
    <3>6. /\ m \in State(Glyphs) /\ m.cells = p.cells /\ m.stray = p.stray
          /\ m.x = 0 /\ m.y = s.y + 1
      BY <3>4, <3>5 DEF State
    <3>7. Place(m) = (s.y + 1) * Columns + 0
      BY <3>6 DEF Place, get_write_location
    <3>8. Place(m) = Place(s) + 1
      BY <1>2, <1>7, <1>8, <3>1, <3>7
    <3>9. m.y = Rows <=> Place(s) = Size - 1
      <4>1. m.y = Rows <=> s.y = Rows - 1
        BY <1>1, <1>2, <3>6
      <4>2. k + Columns = Size <=> Place(s) = Size - 1
        BY <1>2, <1>7, <1>8, <3>1
      <4> QED  BY <1>7, <4>1, <4>2
    <3>10. 0 \in 0..(Columns - 1)
      BY <1>2
    <3> QED  BY <3>5, <3>6, <3>8, <3>9, <3>10
  <2> QED  BY <2>1, <2>2
<1>12. PICK d \in Shift : /\ Drawn(m, t, d)
                          /\ Place(t) = Place(m) - d
                          /\ d = Columns <=> m.y = Rows
  BY <1>10, <1>11, ScrolledDraws
<1>13. d \in Nat /\ (d = 0 \/ d = Columns)
  BY ShiftIs
<1>14. Place(t) = Place(s) + 1 - d /\ (d = Columns => Place(s) = Size - 1)
  BY <1>1, <1>11, <1>12, <1>13
<1>15. ASSUME place >= Place(s) PROVE Kept(s, t, d, Place(s))
  <2>1. Place(s) <= Place(t) + d
    BY <1>1, <1>13, <1>14
  <2>2. Kept(m, t, d, Place(s))
    BY <1>1, <1>12, <1>13, <2>1, DrawnKeeps
  <2>3. Kept(s, m, 0, Place(s))
    BY <1>6, <1>11, <1>15 DEF Kept
  <2>4. Place(s) >= Place(s) - 0 /\ 0 + d = d
    BY <1>1, <1>13
  <2>5. Kept(s, t, 0 + d, Place(s))
    <3>1. PICK q \in Int : q = Place(s)
      BY <1>1
    <3>2. Kept(s, m, 0, q) /\ Kept(m, t, d, q) /\ q >= q - 0 /\ 0 \in Nat
      BY <2>2, <2>3, <3>1
    <3>3. Kept(s, t, 0 + d, q)
      BY <1>13, <3>2, KeptTwice
    <3> QED  BY <3>1, <3>3
  <2> QED  BY <2>4, <2>5
<1>16. /\ place \in Screen => t.stray = s.stray
       /\ place \notin Screen => t.stray = s.stray \cup {place}
  BY <1>4, <1>11, <1>12 DEF Poked, Drawn
<1>17. ASSUME place = Place(s), CursorAt(s) PROVE CursorAt(t)
  <2>1. \A i \in Screen : m.cells[i] # "cursor"
    BY <1>4, <1>11, <1>17, Glyph DEF Poked, CursorAt
  <2> QED  BY <1>12, <2>1, DrawnOne
<1>18. t \in Shown
  BY <1>12 DEF Drawn
<1> QED  BY <1>14, <1>15, <1>16, <1>17, <1>18

(***************************************************************************)
(* A new line, of which the old cursor is cleared.                         *)
(***************************************************************************)
LEMMA NewlineDraws ==
    ASSUME NEW s \in Shown, NEW t, t = newline(s)
    PROVE  /\ t \in Shown /\ t.stray = s.stray
           /\ CursorAt(s) => CursorAt(t)
           /\ \E d \in Shift : Kept(s, t, d, Place(s))
<1>1. /\ s \in State(Glyphs) /\ s.x \in 0..(Columns - 1) /\ s.y \in 0..(Rows - 1)
      /\ Place(s) = s.y * Columns + s.x /\ Place(s) \in Screen /\ Place(s) \in Nat /\ Place(s) < Size
  BY ShownPlace
<1>2. /\ Rows \in Nat /\ Rows >= 1 /\ Columns \in Nat /\ Columns >= 1
      /\ Size \in Nat /\ Screen = 0..(Size - 1)
  BY RowsAndColumns
<1>3. PICK p : p = Poke(s, Place(s), "blank")
  OBVIOUS
<1>4. p \in State(Glyphs) /\ Poked(s, p, Place(s), "blank")
  BY <1>1, <1>3, PokeSets, Glyph
<1>5. p.x = s.x /\ p.y = s.y /\ p.stray = s.stray
  BY <1>1, <1>4 DEF Poked
<1>6. PICK u : u = [p EXCEPT !.x = 0]
  OBVIOUS
<1>7. u \in State(Glyphs) /\ u.cells = p.cells /\ u.stray = s.stray /\ u.x = 0
  BY <1>4, <1>5, <1>6 DEF State
<1>8. PICK m : m = [u EXCEPT !.y = s.y + 1]
  OBVIOUS
<1>9. s.y + 1 \in Int /\ s.y + 1 \in 0..Rows /\ 0 \in 0..(Columns - 1)
  BY <1>1, <1>2
<1>10. /\ m \in State(Glyphs) /\ m.cells = p.cells /\ m.stray = s.stray
       /\ m.x = 0 /\ m.y = s.y + 1
  BY <1>7, <1>8, <1>9 DEF State
<1>11. t = update_blinky_cursor(ScrolledIfFull(m))
  <2>1. m = [p EXCEPT !.x = 0, !.y = p.y + 1]
    BY <1>5, <1>6, <1>8
  <2> QED  BY <1>3, <2>1 DEF newline, Place
<1>12. PICK d \in Shift : Drawn(m, t, d) /\ Place(t) = Place(m) - d
  BY <1>9, <1>10, <1>11, ScrolledDraws
<1>13. d \in Nat
  BY ShiftIs
<1>14. Kept(s, t, d, Place(s))
  <2>1. Place(s) <= Place(m) /\ Place(m) \in Nat
    <3>1. PICK k \in Nat : k = s.y * Columns /\ (s.y + 1) * Columns = k + Columns
      BY <1>1, RowsAndColumns
    <3>2. Place(m) = (s.y + 1) * Columns + 0
      BY <1>10 DEF Place, get_write_location
    <3>3. Place(m) = k + Columns /\ Place(s) = k + s.x
      BY <1>1, <1>2, <3>1, <3>2
    <3> QED  BY <1>1, <1>2, <3>3
  <2>2. Place(s) <= Place(t) + d
    BY <1>1, <1>12, <1>13, <2>1
  <2>3. Kept(m, t, d, Place(s))
    BY <1>1, <1>12, <1>13, <2>2, DrawnKeeps
  <2>4. Kept(s, m, 0, Place(s))
    <3>1. \A i \in Screen : i < Place(s) => i # Place(s) /\ i - 0 = i
      BY <1>1, <1>2
    <3> QED  BY <1>4, <1>10, <3>1 DEF Kept, Poked
  <2>5. Place(s) >= Place(s) - 0 /\ 0 + d = d
    BY <1>1, <1>13
  <2> QED  BY <1>1, <1>13, <2>3, <2>4, <2>5, KeptTwice
<1>15. ASSUME CursorAt(s) PROVE CursorAt(t)
  <2>1. \A i \in Screen : m.cells[i] # "cursor"
    BY <1>4, <1>10, <1>15 DEF Poked, CursorAt
  <2> QED  BY <1>12, <2>1, DrawnOne
<1> QED  BY <1>10, <1>12, <1>14, <1>15 DEF Drawn

(***************************************************************************)
(* A backspace clears the cell in front, which at the first one is not on  *)
(* the screen.                                                             *)
(***************************************************************************)
LEMMA BackspaceDraws ==
    ASSUME NEW s \in Shown, NEW t, t = backspace(s)
    PROVE  /\ t \in Shown /\ t.stray \subseteq s.stray \cup {-1}
           /\ CursorAt(s) => CursorAt(t)
           /\ Kept(s, t, 0, Place(s) - 1)
<1>1. /\ s \in State(Glyphs) /\ s.x \in 0..(Columns - 1) /\ s.y \in 0..(Rows - 1)
      /\ Place(s) = s.y * Columns + s.x /\ Place(s) \in Screen /\ Place(s) \in Nat /\ Place(s) < Size
      /\ (Place(s) = 0 <=> s.x = 0 /\ s.y = 0)
  BY ShownPlace
<1>2. /\ Rows \in Nat /\ Rows >= 1 /\ Columns \in Nat /\ Columns >= 1
      /\ Size \in Nat /\ Screen = 0..(Size - 1)
  BY RowsAndColumns
<1>3. PICK k \in Nat : /\ k = s.y * Columns /\ (s.y - 1) * Columns = k - Columns
                       /\ s.y > 0 => k >= Columns
  BY <1>1, RowsAndColumns
<1>4. Place(s) = k + s.x
  BY <1>1, <1>3
<1>5. PICK p : p = Poke(s, Place(s), "blank")
  OBVIOUS
<1>6. p \in State(Glyphs) /\ Poked(s, p, Place(s), "blank")
  BY <1>1, <1>5, PokeSets, Glyph
<1>7. PICK q : q = Poke(p, Place(s) - 1, "blank")
  OBVIOUS
<1>8. q \in State(Glyphs) /\ Poked(p, q, Place(s) - 1, "blank")
  <2>1. Place(s) - 1 \in Int
    BY <1>1
  <2> QED  BY <1>6, <1>7, <2>1, PokeSets, Glyph
<1>9. q.x = s.x /\ q.y = s.y /\ q.stray \subseteq s.stray \cup {-1}
  <2>1. Place(s) - 1 \notin Screen => Place(s) - 1 = -1
    BY <1>1, <1>2
  <2> QED  BY <1>1, <1>6, <1>8, <2>1 DEF Poked
<1>10. \A i \in Screen : /\ i < Place(s) - 1 => q.cells[i] = s.cells[i]
                         /\ CursorAt(s) => q.cells[i] # "cursor"
  <2> SUFFICES ASSUME NEW i \in Screen
               PROVE  /\ i < Place(s) - 1 => q.cells[i] = s.cells[i]
                      /\ CursorAt(s) => q.cells[i] # "cursor"
    OBVIOUS
  <2>1. /\ p.cells[i] = IF i = Place(s) THEN "blank" ELSE s.cells[i]
        /\ q.cells[i] = IF i = Place(s) - 1 THEN "blank" ELSE p.cells[i]
    BY <1>6, <1>8 DEF Poked
  <2>2. i < Place(s) - 1 => i # Place(s) /\ i # Place(s) - 1
    BY <1>1, <1>2
  <2>3. CursorAt(s) /\ i # Place(s) => s.cells[i] # "cursor"
    BY DEF CursorAt
  <2> QED  BY <2>1, <2>2, <2>3
<1>11. PICK m : m = IF s.x > 0 THEN [q EXCEPT !.x = q.x - 1]
                    ELSE IF s.y > 0 THEN [q EXCEPT !.y = q.y - 1, !.x = Columns - 1]
                    ELSE q
  OBVIOUS
<1>12. t = update_blinky_cursor(m)
  BY <1>5, <1>7, <1>11 DEF backspace, Place
<1>13. /\ m \in State(Glyphs) /\ m.cells = q.cells /\ m.stray = q.stray
       /\ m.x \in 0..(Columns - 1) /\ m.y \in 0..(Rows - 1)
       /\ Place(m) >= Place(s) - 1
  <2>1. CASE s.x > 0
    <3>1. m = [q EXCEPT !.x = s.x - 1]
      BY <1>9, <1>11, <2>1
    <3>2. s.x - 1 \in Int /\ s.x - 1 \in 0..(Columns - 1)
      BY <1>1, <1>2, <2>1
    <3>3. m \in State(Glyphs) /\ m.cells = q.cells /\ m.stray = q.stray /\ m.x = s.x - 1 /\ m.y = s.y
      BY <1>8, <1>9, <3>1, <3>2 DEF State
    <3>4. Place(m) = k + (s.x - 1)
      BY <1>3, <3>3 DEF Place, get_write_location
    <3>5. Place(m) >= Place(s) - 1
      BY <1>1, <1>4, <3>4
    <3> QED  BY <1>1, <3>2, <3>3, <3>5
  <2>2. CASE ~ (s.x > 0) /\ s.y > 0
    <3>1. PICK u : u = [q EXCEPT !.y = s.y - 1]
      OBVIOUS
    <3>2. s.y - 1 \in Int /\ s.y - 1 \in 0..(Rows - 1) /\ Columns - 1 \in Int
          /\ Columns - 1 \in 0..(Columns - 1) /\ s.x = 0
      BY <1>1, <1>2, <2>2
    <3>3. u \in State(Glyphs) /\ u.cells = q.cells /\ u.stray = q.stray /\ u.y = s.y - 1
      BY <1>8, <3>1, <3>2 DEF State
    <3>4. m = [u EXCEPT !.x = Columns - 1]
      BY <1>9, <1>11, <2>2, <3>1
    <3>5. /\ m \in State(Glyphs) /\ m.cells = q.cells /\ m.stray = q.stray
          /\ m.x = Columns - 1 /\ m.y = s.y - 1
      BY <3>2, <3>3, <3>4 DEF State
    <3>6. Place(m) = (s.y - 1) * Columns + (Columns - 1)
      BY <3>5 DEF Place, get_write_location
    <3>7. Place(m) >= Place(s) - 1
      BY <1>2, <1>3, <1>4, <3>2, <3>6
    <3> QED  BY <3>2, <3>5, <3>7
  <2>3. CASE ~ (s.x > 0) /\ ~ (s.y > 0)
    <3>1. m = q
      BY <1>11, <2>3
    <3>2. Place(m) = k + s.x
      BY <1>3, <1>9, <3>1 DEF Place, get_write_location
    <3>3. Place(m) >= Place(s) - 1
      BY <1>1, <1>4, <3>2
    <3> QED  BY <1>1, <1>8, <1>9, <3>1, <3>3
  <2> QED  BY <2>1, <2>2, <2>3
<1>14. m \in Shown
  <2>1. m.x < Columns /\ m.x >= 0
    BY <1>2, <1>13
  <2> QED  BY <1>13, <2>1 DEF Shown, OnScreen, InRow
<1>15. Drawn(m, t, 0) /\ Place(t) = Place(m)
  BY <1>12, <1>14, CursorDraws
<1>16. Kept(s, t, 0, Place(s) - 1)
  <2>2. Place(m) \in Nat
    BY <1>14, ShownPlace
  <2>3. SUFFICES ASSUME NEW i \in Screen, i < Place(s) - 1, i - 0 \in Screen
                 PROVE  t.cells[i - 0] = s.cells[i]
    BY DEF Kept
  <2>4. i - 0 = i /\ i + 0 = i /\ i # Place(t)
    BY <1>1, <1>2, <1>13, <1>15, <2>2, <2>3
  <2>5. t.cells[i] = m.cells[i]
    BY <1>15, <2>4 DEF Drawn
  <2> QED  BY <1>10, <1>13, <2>3, <2>4, <2>5
<1>17. ASSUME CursorAt(s) PROVE CursorAt(t)
  <2>1. \A i \in Screen : m.cells[i] # "cursor"
    BY <1>10, <1>13, <1>17
  <2> QED  BY <1>15, <2>1, DrawnOne
<1> QED  BY <1>9, <1>13, <1>15, <1>16, <1>17 DEF Drawn

(***************************************************************************)
(* Clearing the screen.                                                    *)
(***************************************************************************)
LEMMA ClearDraws ==
    ASSUME NEW s, s \in State(Glyphs), NEW t, t = cleared_screen(s)
    PROVE  t \in Shown /\ t.stray = s.stray /\ CursorAt(t)
<1> DEFINE none == [i \in Screen |-> "blank"]
<1>1. none \in [Screen -> Glyphs] /\ \A i \in Screen : none[i] # "cursor"
  BY Glyph
<1>2. PICK m : m = [s EXCEPT !.cells = none, !.x = 0, !.y = 0]
  OBVIOUS
<1>3. t = update_blinky_cursor(m)
  BY <1>2 DEF cleared_screen
<1> HIDE DEF none
<1>4. m \in State(Glyphs) /\ m.cells = none /\ m.x = 0 /\ m.y = 0 /\ m.stray = s.stray
  <2>1. PICK u : u = [s EXCEPT !.cells = none]
    OBVIOUS
  <2>2. u \in State(Glyphs) /\ u.cells = none /\ u.stray = s.stray
    BY <1>1, <2>1 DEF State
  <2>3. PICK v : v = [u EXCEPT !.x = 0]
    OBVIOUS
  <2>4. v \in State(Glyphs) /\ v.cells = none /\ v.stray = s.stray /\ v.x = 0
    BY <2>2, <2>3 DEF State
  <2>5. m = [v EXCEPT !.y = 0]
    BY <1>2, <2>1, <2>3
  <2> QED  BY <2>4, <2>5 DEF State
<1>5. m \in Shown
  <2>1. 0 < Columns /\ 0 \in 0..(Rows - 1) /\ 0 >= 0
    BY RowsAndColumns
  <2> QED  BY <1>4, <2>1 DEF Shown, OnScreen, InRow
<1>6. Drawn(m, t, 0)
  BY <1>3, <1>5, CursorDraws
<1> QED  BY <1>1, <1>4, <1>6, DrawnOne DEF Drawn

(***************************************************************************)
(* A tab of the display writes at places of its own, which do not move     *)
(* with the screen.                                                        *)
(***************************************************************************)
TabTurns(f, s) ==
    f = [i \in 0..TabSize |->
            IF i = 0 THEN s
            ELSE increment_draw_location(Poke(f[i - 1], get_write_location(s) + i - 1, "blank"))]

LEMMA TabLoop ==
    ASSUME NEW s \in Shown
    PROVE  \E f : TabTurns(f, s) /\ tabulate(s) = f[TabSize]
<1> DEFINE F == [i \in Nat |-> [x \in Shown |->
                    increment_draw_location(Poke(x, get_write_location(s) + i - 1, "blank"))]]
<1>1. TabSize \in Nat
  BY DisplayAssumption
<1>2. PICK p \in Nat : p = get_write_location(s)
  BY ShownPlace DEF Place
<1>3. F \in [Nat -> [Shown -> Shown]]
  <2>1. ASSUME NEW i \in Nat, NEW x \in Shown
        PROVE  increment_draw_location(Poke(x, get_write_location(s) + i - 1, "blank")) \in Shown
    <3>1. get_write_location(s) + i - 1 \in Int
      BY <1>2
    <3> QED  BY <3>1, DrawMoves, Glyph
  <2> QED  BY <2>1
<1>4. \A i \in Nat : \A x \in Shown :
          F[i][x] = increment_draw_location(Poke(x, get_write_location(s) + i - 1, "blank"))
  OBVIOUS
<1> HIDE DEF F
<1>5. PICK f \in [0..TabSize -> Shown] : Loop(f, TabSize, s, F)
  BY <1>1, <1>3, LoopExists
<1>6. TabTurns(f, s)
  <2>1. \A i \in 0..TabSize :
            f[i] = IF i = 0 THEN s
                   ELSE increment_draw_location(Poke(f[i - 1], get_write_location(s) + i - 1, "blank"))
    <3> SUFFICES ASSUME NEW i \in 0..TabSize
                 PROVE  f[i] = IF i = 0 THEN s
                               ELSE increment_draw_location(
                                        Poke(f[i - 1], get_write_location(s) + i - 1, "blank"))
      OBVIOUS
    <3>1. f[i] = IF i = 0 THEN s ELSE F[i][f[i - 1]]
      BY <1>5 DEF Loop
    <3>2. CASE i # 0
      <4>1. i \in Nat /\ f[i - 1] \in Shown
        BY <1>1, <3>2
      <4> QED  BY <1>4, <3>1, <3>2, <4>1
    <3> QED  BY <3>1, <3>2
  <2> QED  BY <2>1 DEF TabTurns
<1>7. PICK step : step = CHOOSE g : TabTurns(g, s)
  OBVIOUS
<1>8. TabTurns(step, s)
  BY <1>6, <1>7
<1>9. tabulate(s) = step[TabSize]
  BY <1>7, Zenon DEF tabulate, TabTurns
<1> QED  BY <1>8, <1>9

LEMMA TabDraws ==
    ASSUME NEW s \in Shown, NEW t, t = tabulate(s)
    PROVE  /\ t \in Shown /\ t.stray \subseteq s.stray \cup Behind
           /\ CursorAt(s) /\ Place(s) + TabSize < Size => CursorAt(t)
           /\ TabSize <= Columns => \E d \in Shift : Kept(s, t, d, Place(s))
<1>1. TabSize \in Nat /\ Columns \in Nat /\ Size \in Nat /\ Screen = 0..(Size - 1)
  BY DisplayAssumption, RowsAndColumns
<1>2. PICK f : TabTurns(f, s) /\ t = f[TabSize]
  BY TabLoop
<1>3. \A i \in 0..TabSize :
          f[i] = IF i = 0 THEN s
                 ELSE increment_draw_location(Poke(f[i - 1], Place(s) + i - 1, "blank"))
  BY <1>2 DEF TabTurns, Place
<1>4. Place(s) \in Nat /\ Place(s) \in Int /\ Place(s) < Size
  BY ShownPlace
<1> DEFINE Good(i) == /\ f[i] \in Shown /\ f[i].stray \subseteq s.stray \cup Behind
                      /\ CursorAt(s) /\ Place(s) + TabSize < Size =>
                             CursorAt(f[i]) /\ Place(f[i]) = Place(s) + i
                      /\ TabSize <= Columns => After(s, f[i], i)
           good == {i \in 0..TabSize : Good(i)}
<1>5. 0 \in good
  <2>1. 0 \in 0..TabSize /\ f[0] = s
    BY <1>1, <1>3
  <2>2. After(s, s, 0)
    <3>1. Kept(s, s, 0, Place(s))
      BY RowsAndColumns DEF Kept
    <3> QED  BY <1>4, <3>1, ShiftIs DEF After
  <2>3. Place(s) = Place(s) + 0
    BY <1>4
  <2> QED  BY <2>1, <2>2, <2>3
<1>6. ASSUME NEW i \in 1..TabSize, i - 1 \in good PROVE i \in good
  <2>1. /\ i \in 0..TabSize /\ i # 0 /\ i - 1 \in Nat /\ (i - 1) + 1 = i
        /\ i \in Nat /\ i <= TabSize
    BY <1>1
  <2>2. f[i] = increment_draw_location(Poke(f[i - 1], Place(s) + i - 1, "blank"))
    BY <1>3, <2>1
  <2>3. PICK u \in Shown : u = f[i - 1] /\ u.stray \subseteq s.stray \cup Behind
    BY <1>6
  <2>4. PICK place \in Int : place = Place(s) + i - 1 /\ place = Place(s) + (i - 1)
    BY <1>4, <2>1
  <2>5. PICK v : v = f[i] /\ v = increment_draw_location(Poke(u, place, "blank"))
    BY <2>2, <2>3, <2>4
  <2>6. /\ v \in Shown
        /\ place \in Screen => v.stray = u.stray
        /\ place \notin Screen => v.stray = u.stray \cup {place}
        /\ place = Place(u) /\ CursorAt(u) => CursorAt(v)
    BY <2>5, DrawMoves, Glyph
  <2>7. PICK e \in Shift : /\ Place(v) = Place(u) + 1 - e
                           /\ e = Columns => Place(u) = Size - 1
                           /\ place >= Place(u) => Kept(u, v, e, Place(u))
    BY <2>5, DrawMoves, Glyph
  <2>8. e \in Nat /\ (e = 0 \/ e = Columns)
    BY ShiftIs
  <2>9. v.stray \subseteq s.stray \cup Behind
    <3>1. place \notin Screen => place \in Behind
      <4>1. Behind = Size..(Size + TabSize - 2)
        BY DEF Behind, Size
      <4> QED  BY <1>1, <1>4, <2>1, <2>4, <4>1
    <3> QED  BY <2>3, <2>6, <3>1
  <2>10. ASSUME CursorAt(s), Place(s) + TabSize < Size
         PROVE  CursorAt(v) /\ Place(v) = Place(s) + i
    <3>1. CursorAt(u) /\ Place(u) = Place(s) + (i - 1)
      BY <1>6, <2>3, <2>10
    <3>2. Place(u) # Size - 1
      BY <1>1, <1>4, <2>1, <2>10, <3>1
    <3>3. e = 0
      BY <2>7, <2>8, <3>2
    <3> QED  BY <1>4, <2>1, <2>4, <2>6, <2>7, <3>1, <3>3
  <2>11. ASSUME TabSize <= Columns PROVE After(s, v, i)
    <3>1. After(s, u, i - 1) /\ i - 1 < Columns
      BY <1>1, <1>6, <2>1, <2>3, <2>11
    <3>2. place >= Place(u)
      <4>1. PICK d \in Shift : Place(u) = Place(s) + (i - 1) - d
        BY <3>1 DEF After
      <4>2. d \in Nat
        BY ShiftIs
      <4> QED  BY <1>4, <2>1, <2>4, <4>1, <4>2
    <3>3. After(s, v, (i - 1) + 1)
      BY <1>4, <2>1, <2>7, <3>1, <3>2, AfterOneMore
    <3> QED  BY <2>1, <3>3
  <2> QED  BY <2>1, <2>5, <2>6, <2>9, <2>10, <2>11
<1>7. good = 0..TabSize
  <2>1. good \in SUBSET (0..TabSize)
    OBVIOUS
  <2> HIDE DEF good
  <2> QED  BY <1>1, <1>5, <1>6, <2>1, EveryTurn
<1>8. Good(TabSize)
  <2>1. TabSize \in good
    <3> HIDE DEF good
    <3> QED  BY <1>1, <1>7
  <2> QED  BY <2>1
<1> QED  BY <1>2, <1>8 DEF After

-------------------------------------------------------------------------------
(***************************************************************************)
(* The invariant: what the driver in charge works on.                      *)
(***************************************************************************)
IInv ==
    /\ driver \in {"kterm", "display"}
    /\ driver = "kterm" => Now \in Terminal /\ Bounded(Now)
    /\ driver = "display" => Now \in Shown /\ stray \subseteq InFront \cup {-1} \cup Behind

(***************************************************************************)
(* What a driver's function returns is the next state.                     *)
(***************************************************************************)
LEMMA BecomesNow ==
    ASSUME NEW G, NEW t \in State(G), Becomes(t)
    PROVE  Now' = t
BY DEF Becomes, Now, State

LEMMA NextIs ==
    ASSUME NEW t, Now' = t
    PROVE  /\ Bounded(Now)' <=> Bounded(t)
           /\ stray' = t.stray /\ cells' = t.cells
           /\ CursorShown' <=> CursorAt(t)
           /\ NoCursor' <=> \A i \in Screen : t.cells[i] # "cursor"
<1>1. stray' = t.stray /\ cells' = t.cells /\ x_loc' = t.x /\ y_loc' = t.y
  BY DEF Now
<1>2. get_write_location(Now)' = Place(t)
  BY <1>1 DEF Place, get_write_location, Now
<1>3. Bounded(Now)' <=> Bounded(t)
  BY <1>1, <1>2 DEF Bounded, Place, Now, InFront
<1>4. CursorShown' <=> CursorAt(t)
  BY <1>1, <1>2 DEF CursorShown, CursorAt, Screen
<1>5. NoCursor' <=> \A i \in Screen : t.cells[i] # "cursor"
  BY <1>1 DEF NoCursor, Screen
<1> QED  BY <1>1, <1>3, <1>4, <1>5

LEMMA NoCursorInText ==
    ASSUME NEW s \in Terminal
    PROVE  \A i \in Screen : s.cells[i] # "cursor"
BY Glyph DEF Terminal, State

(***************************************************************************)
(* The two theorems on text and cursor speak of a step, so each step is    *)
(* described once, with the invariant it keeps.                            *)
(***************************************************************************)
Moved == \E d \in Shift : Kept(Now, Now', d, Place(Now) - 1)

LEMMA MovedText ==
    ASSUME Moved
    PROVE  KeptAndMoved(0) \/ KeptAndMoved(1)
<1>1. PICK d \in Shift : Kept(Now, Now', d, Place(Now) - 1)
  BY DEF Moved
<1>2. \A i \in Screen : i < get_write_location(Now) - 1 /\ i - d \in Screen =>
          cells'[i - d] = cells[i]
  BY <1>1 DEF Kept, Now, Place
<1>3. Columns \in Nat /\ 0 * Columns = 0 /\ 1 * Columns = Columns
  BY RowsAndColumns
<1>4. CASE d = 0
  BY <1>2, <1>3, <1>4 DEF KeptAndMoved
<1>5. CASE d = Columns
  BY <1>2, <1>3, <1>5 DEF KeptAndMoved
<1> QED  BY <1>4, <1>5, ShiftIs

LEMMA KeptLess ==
    ASSUME NEW s, NEW t, NEW d, NEW p \in Int, Kept(s, t, d, p)
    PROVE  Kept(s, t, d, p - 1)
BY RowsAndColumns DEF Kept

TabsShort == TabSize <= Columns /\ EarlyTabSize <= Columns

LEMMA TerminalStep ==
    ASSUME IInv, KtermStep
    PROVE  IInv' /\ NoCursor' /\ (TabsShort => Moved)
<1>1. PICK s : s = Now
  OBVIOUS
<1>2. s \in Terminal /\ Bounded(s) /\ driver' = "kterm" /\ Place(s) \in Int
  BY <1>1, TerminalPlace DEF IInv, KtermStep
<1>3. ASSUME NEW t \in Terminal, Bounded(t), Becomes(t),
             TabsShort => \E d \in Shift : Kept(s, t, d, Place(s) - 1)
      PROVE  IInv' /\ NoCursor' /\ (TabsShort => Moved)
  <2>1. t \in State(Text)
    BY DEF Terminal
  <2>2. Now' = t
    BY <1>3, <2>1, BecomesNow
  <2>3. Bounded(Now)' /\ NoCursor'
    BY <1>3, <2>2, NextIs, NoCursorInText
  <2>4. IInv'
    BY <1>2, <2>2, <2>3 DEF IInv
  <2>5. TabsShort => Moved
    BY <1>1, <1>3, <2>2 DEF Moved
  <2> QED  BY <2>3, <2>4, <2>5
<1>4. ASSUME NEW c \in Characters, Becomes(ki_putc(s, c))
      PROVE  IInv' /\ NoCursor' /\ (TabsShort => Moved)
  <2>1. PICK t : t = ki_putc(s, c)
    OBVIOUS
  <2>2. c \in Text
    BY DEF Text
  <2>3. t \in Terminal /\ Bounded(t) /\ \E d \in Shift : Kept(s, t, d, Place(s))
    BY <1>2, <2>1, <2>2, PutcMoves, PutcBounded
  <2>4. \E d \in Shift : Kept(s, t, d, Place(s) - 1)
    BY <1>2, <2>3, KeptLess
  <2> QED  BY <1>3, <1>4, <2>1, <2>3, <2>4
<1>5. ASSUME Becomes(ki_newline(s))
      PROVE  IInv' /\ NoCursor' /\ (TabsShort => Moved)
  <2>1. PICK t : t = ki_newline(s)
    OBVIOUS
  <2>2. t \in Terminal /\ Bounded(t) /\ \E d \in Shift : Kept(s, t, d, Place(s))
    BY <1>2, <2>1, NewlineMoves
  <2>3. \E d \in Shift : Kept(s, t, d, Place(s) - 1)
    BY <1>2, <2>2, KeptLess
  <2> QED  BY <1>3, <1>5, <2>1, <2>2, <2>3
<1>6. ASSUME Becomes(ki_tab(s))
      PROVE  IInv' /\ NoCursor' /\ (TabsShort => Moved)
  <2>1. PICK t : t = ki_tab(s)
    OBVIOUS
  <2>2. t \in Terminal /\ Bounded(t)
    BY <1>2, <2>1, KiTabMoves
  <2>3. TabsShort => \E d \in Shift : Kept(s, t, d, Place(s))
    BY <1>2, <2>1, KiTabMoves DEF TabsShort
  <2>4. TabsShort => \E d \in Shift : Kept(s, t, d, Place(s) - 1)
    BY <1>2, <2>3, KeptLess
  <2> QED  BY <1>3, <1>6, <2>1, <2>2, <2>4
<1>7. ASSUME Place(s) > - MaxBack, Becomes(ki_backspace(s))
      PROVE  IInv' /\ NoCursor' /\ (TabsShort => Moved)
  <2>1. PICK t : t = ki_backspace(s)
    OBVIOUS
  <2>2. t \in Terminal /\ Bounded(t) /\ Kept(s, t, 0, Place(s) - 1)
    BY <1>2, <1>7, <2>1, BackspaceMoves
  <2> QED  BY <1>3, <1>7, <2>1, <2>2, ShiftIs
<1> QED  BY <1>1, <1>4, <1>5, <1>6, <1>7 DEF KtermStep, Place

LEMMA InitStep ==
    ASSUME IInv, display_init
    PROVE  IInv' /\ CursorShown' /\ driver' = "display"
<1>1. PICK s : s = Now
  OBVIOUS
<1>2. s \in Terminal /\ stray \subseteq InFront /\ s.stray = stray
  BY <1>1 DEF IInv, display_init, Bounded, Now
<1>3. s \in State(Glyphs)
  <2>1. State(Text) \subseteq State(Glyphs)
    BY Glyph DEF State
  <2> QED  BY <1>2, <2>1 DEF Terminal
<1>4. PICK t : t = cleared_screen(s)
  OBVIOUS
<1>5. t \in Shown /\ t.stray = stray /\ CursorAt(t)
  BY <1>2, <1>3, <1>4, ClearDraws
<1>6. Now' = t
  <2>1. Becomes(t)
    BY <1>1, <1>4 DEF display_init
  <2> QED  BY <1>5, <2>1, BecomesNow DEF Shown
<1>7. driver' = "display"
  BY DEF display_init
<1>8. stray' \subseteq InFront /\ CursorShown'
  BY <1>2, <1>5, <1>6, NextIs
<1> QED  BY <1>5, <1>6, <1>7, <1>8 DEF IInv, InFront, Behind

LEMMA DisplayMoves ==
    ASSUME IInv, KernelStep
    PROVE  /\ IInv' /\ driver' = "display"
           /\ CursorShown /\ ~ ScrollingTab => CursorShown'
           /\ TabsShort => display_clear \/ Moved
<1>1. PICK s : s = Now
  OBVIOUS
<1>2. /\ s \in Shown /\ stray \subseteq InFront \cup {-1} \cup Behind /\ s.stray = stray
      /\ driver' = "display" /\ Place(s) \in Int
  BY <1>1, ShownPlace DEF IInv, KernelStep, Now
<1>3. CursorShown <=> CursorAt(s)
  BY <1>1 DEF CursorShown, CursorAt, Place, Now
<1>4. ASSUME NEW t \in Shown, Becomes(t), t.stray \subseteq stray \cup {-1} \cup Behind,
             CursorAt(s) /\ ~ ScrollingTab => CursorAt(t),
             TabsShort => display_clear \/ \E d \in Shift : Kept(s, t, d, Place(s) - 1)
      PROVE  /\ IInv' /\ driver' = "display"
             /\ CursorShown /\ ~ ScrollingTab => CursorShown'
             /\ TabsShort => display_clear \/ Moved
  <2>1. t \in State(Glyphs)
    BY DEF Shown
  <2>2. Now' = t
    BY <1>4, <2>1, BecomesNow
  <2>3. stray' \subseteq InFront \cup {-1} \cup Behind /\ (CursorShown' <=> CursorAt(t))
    BY <1>2, <1>4, <2>2, NextIs
  <2>4. IInv'
    BY <1>2, <2>2, <2>3 DEF IInv, InFront, Behind
  <2>5. TabsShort => display_clear \/ Moved
    BY <1>1, <1>4, <2>2 DEF Moved
  <2> QED  BY <1>2, <1>3, <1>4, <2>3, <2>4, <2>5
<1>5. ASSUME NEW c \in Characters, WriteCharacter(c)
      PROVE  \E t \in Shown :
                 /\ Becomes(t) /\ t.stray \subseteq stray \cup {-1} \cup Behind
                 /\ CursorAt(s) => CursorAt(t)
                 /\ \E d \in Shift : Kept(s, t, d, Place(s) - 1)
  <2>1. PICK t : t = put(s, c)
    OBVIOUS
  <2>2. PICK p \in Int : p = Place(s) /\ p >= Place(s)
    BY <1>2
  <2>3. c \in Text
    BY DEF Text
  <2>4. t = increment_draw_location(Poke(s, p, c))
    BY <2>1, <2>2 DEF put, Place
  <2>5. t \in Shown /\ (p \in Screen => t.stray = s.stray) /\ (CursorAt(s) => CursorAt(t))
        /\ \E d \in Shift : Kept(s, t, d, Place(s))
    BY <1>2, <2>2, <2>3, <2>4, DrawMoves
  <2>6. p \in Screen
    BY <1>2, <2>2, ShownPlace
  <2>7. \E d \in Shift : Kept(s, t, d, Place(s) - 1)
    BY <1>2, <2>5, KeptLess
  <2>8. Becomes(t)
    BY <1>1, <1>5, <2>1 DEF WriteCharacter
  <2> QED  BY <1>2, <2>5, <2>6, <2>7, <2>8
<1>6. ASSUME WriteNewline
      PROVE  \E t \in Shown :
                 /\ Becomes(t) /\ t.stray \subseteq stray \cup {-1} \cup Behind
                 /\ CursorAt(s) => CursorAt(t)
                 /\ \E d \in Shift : Kept(s, t, d, Place(s) - 1)
  <2>1. PICK t : t = newline(s)
    OBVIOUS
  <2>2. t \in Shown /\ t.stray = s.stray /\ (CursorAt(s) => CursorAt(t))
        /\ \E d \in Shift : Kept(s, t, d, Place(s))
    BY <1>2, <2>1, NewlineDraws
  <2>3. \E d \in Shift : Kept(s, t, d, Place(s) - 1)
    BY <1>2, <2>2, KeptLess
  <2>4. Becomes(t)
    BY <1>1, <1>6, <2>1 DEF WriteNewline
  <2> QED  BY <1>2, <2>2, <2>3, <2>4
<1>7. ASSUME WriteBackspace
      PROVE  \E t \in Shown :
                 /\ Becomes(t) /\ t.stray \subseteq stray \cup {-1} \cup Behind
                 /\ CursorAt(s) => CursorAt(t)
                 /\ \E d \in Shift : Kept(s, t, d, Place(s) - 1)
  <2>1. PICK t : t = backspace(s)
    OBVIOUS
  <2>2. t \in Shown /\ t.stray \subseteq s.stray \cup {-1} /\ (CursorAt(s) => CursorAt(t))
        /\ Kept(s, t, 0, Place(s) - 1)
    BY <1>2, <2>1, BackspaceDraws
  <2>3. Becomes(t)
    BY <1>1, <1>7, <2>1 DEF WriteBackspace
  <2> QED  BY <1>2, <2>2, <2>3, ShiftIs
<1>8. CASE WriteTab
  <2>1. PICK t : t = tabulate(s)
    OBVIOUS
  <2>2. /\ t \in Shown /\ t.stray \subseteq s.stray \cup Behind
        /\ CursorAt(s) /\ Place(s) + TabSize < Size => CursorAt(t)
        /\ TabSize <= Columns => \E d \in Shift : Kept(s, t, d, Place(s))
    BY <1>2, <2>1, TabDraws
  <2>3. ~ ScrollingTab => Place(s) + TabSize < Size
    <3>1. ~ ScrollingTab => ~ (Place(s) + TabSize >= Size)
      BY <1>1, <1>8 DEF ScrollingTab, Place, Size
    <3>2. TabSize \in Nat /\ Size \in Nat
      BY DisplayAssumption, RowsAndColumns
    <3> QED  BY <1>2, <3>1, <3>2
  <2>4. TabsShort => \E d \in Shift : Kept(s, t, d, Place(s) - 1)
    BY <1>2, <2>2, KeptLess DEF TabsShort
  <2>5. Becomes(t)
    BY <1>1, <1>8, <2>1 DEF WriteTab
  <2> QED  BY <1>2, <1>4, <2>2, <2>3, <2>4, <2>5
<1>9. CASE display_clear
  <2>1. PICK t : t = cleared_screen(s)
    OBVIOUS
  <2>2. t \in Shown /\ t.stray = s.stray /\ CursorAt(t)
    BY <1>2, <2>1, ClearDraws DEF Shown
  <2>3. Becomes(t)
    BY <1>1, <1>9, <2>1 DEF display_clear
  <2> QED  BY <1>2, <1>4, <1>9, <2>2, <2>3
<1>10. DisplayStep
  BY DEF KernelStep
<1> QED  BY <1>4, <1>5, <1>6, <1>7, <1>8, <1>9, <1>10 DEF DisplayStep

-------------------------------------------------------------------------------
LEMMA Invariance == Spec => []IInv
<1>1. Init => IInv
  <2> SUFFICES ASSUME Init PROVE IInv
    OBVIOUS
  <2>1. cells \in [Screen -> Text]
    BY DEF Init, Text
  <2>2. Now \in State(Text) /\ Now.x = 0 /\ Now.y = 0 /\ Now.stray = {}
    BY <2>1 DEF Init, Now, State
  <2>3. 0 < Columns /\ 0 \in 0..(Rows - 1) /\ Columns \in Nat
    BY RowsAndColumns
  <2>4. Place(Now) = 0
    <3>1. Place(Now) = 0 * Columns + 0
      BY <2>2 DEF Place, get_write_location
    <3> QED  BY <2>3, <3>1
  <2>5. Now \in Terminal
    BY <2>2, <2>3 DEF Terminal, InRow
  <2>6. Bounded(Now)
    BY <2>2, <2>4, EarlyTerminalAssumption DEF Bounded
  <2> QED  BY <2>5, <2>6 DEF Init, IInv
<1>2. IInv /\ [Next]_screenVars => IInv'
  <2> SUFFICES ASSUME IInv, [Next]_screenVars PROVE IInv'
    OBVIOUS
  <2>1. CASE Next
    BY <2>1, TerminalStep, InitStep, DisplayMoves DEF Next
  <2>2. CASE UNCHANGED screenVars
    <3>1. Now' = Now /\ driver' = driver /\ stray' = stray
      BY <2>2 DEF Now, screenVars, vars
    <3>2. PICK s : s = Now
      OBVIOUS
    <3>3. Bounded(Now)' <=> Bounded(Now)
      BY <3>1, <3>2, NextIs
    <3> QED  BY <3>1, <3>3 DEF IInv, InFront, Behind
  <2> QED  BY <2>1, <2>2
<1> QED  BY <1>1, <1>2, PTL DEF Spec

(***************************************************************************)
(* TypeOK: the next character's place is on the screen, or as far in front *)
(* of it as backspaces took the early terminal.                            *)
(***************************************************************************)
THEOREM TypeCorrect == Spec => []TypeOK
<1>1. IInv => TypeOK
  <2> SUFFICES ASSUME IInv PROVE TypeOK
    OBVIOUS
  <2>1. PICK s : s = Now
    OBVIOUS
  <2>2. s.cells = cells /\ s.x = x_loc /\ s.y = y_loc /\ s.stray = stray
    BY <2>1 DEF Now
  <2>3. /\ Size \in Nat /\ Screen = 0..(Size - 1) /\ Rows * Columns = Size /\ Columns \in Nat
    BY RowsAndColumns DEF Size
  <2>4. CASE driver = "kterm"
    <3>1. s \in Terminal /\ Bounded(s)
      BY <2>1, <2>4 DEF IInv
    <3>2. /\ s \in State(Text) /\ s.x \in Int /\ s.x < Columns /\ s.y \in 0..(Rows - 1)
          /\ Place(s) \in Int /\ Place(s) < Size
      BY <3>1, TerminalPlace
    <3>3. Place(s) \in - MaxBack..(Rows * Columns - 1)
      BY <2>3, <3>1, <3>2, EarlyTerminalAssumption DEF Bounded
    <3>4. cells \in [Screen -> Characters \cup {"blank", "cursor"}] /\ stray \subseteq Int
      BY <2>2, <3>2 DEF State, Text
    <3> QED  BY <2>1, <2>2, <2>4, <3>2, <3>3, <3>4 DEF TypeOK, Place
  <2>5. CASE driver = "display"
    <3>1. s \in Shown
      BY <2>1, <2>5 DEF IInv
    <3>2. /\ s \in State(Glyphs) /\ s.x \in 0..(Columns - 1) /\ s.y \in 0..(Rows - 1)
          /\ Place(s) \in Screen
      BY <3>1, ShownPlace
    <3>3. Place(s) \in - MaxBack..(Rows * Columns - 1)
      BY <2>3, <3>2, EarlyTerminalAssumption
    <3>4. cells \in [Screen -> Characters \cup {"blank", "cursor"}] /\ stray \subseteq Int
      BY <2>2, <3>2 DEF State, Glyphs
    <3>5. s.x \in Int /\ s.x < Columns /\ s.x >= 0
      BY <2>3, <3>2
    <3> QED  BY <2>1, <2>2, <2>5, <3>2, <3>3, <3>4, <3>5 DEF TypeOK, Place
  <2> QED  BY <2>4, <2>5 DEF IInv
<1> QED  BY <1>1, Invariance, PTL

(***************************************************************************)
(* StrayBounded: how far outside the screen the two drivers write.         *)
(***************************************************************************)
THEOREM StrayWithin == Spec => []StrayBounded
<1>1. IInv => StrayBounded
  BY DEF IInv, StrayBounded, Bounded, Now
<1> QED  BY <1>1, Invariance, PTL

(***************************************************************************)
(* OneCursor: the display draws its cursor at the first clear, and every   *)
(* write but a tab that scrolls leaves it where the next character goes,   *)
(* and there alone; the early terminal draws none.                         *)
(***************************************************************************)
THEOREM CursorKept == Spec => OneCursor
<1>1. IInv /\ [Next]_screenVars =>
          [/\ driver' = "kterm" => NoCursor'
           /\ display_init => CursorShown'
           /\ driver = "display" /\ CursorShown /\ ~ ScrollingTab => CursorShown']_screenVars
  <2> SUFFICES ASSUME IInv, Next
               PROVE  /\ driver' = "kterm" => NoCursor'
                      /\ display_init => CursorShown'
                      /\ driver = "display" /\ CursorShown /\ ~ ScrollingTab => CursorShown'
    OBVIOUS
  <2>1. CASE KtermStep
    <3>1. driver = "kterm" /\ driver' = "kterm"
      BY <2>1 DEF KtermStep
    <3> QED  BY <2>1, <3>1, TerminalStep DEF display_init
  <2>2. CASE display_init
    <3>1. driver = "kterm"
      BY <2>2 DEF display_init
    <3> QED  BY <2>2, <3>1, InitStep
  <2>3. CASE KernelStep
    <3>1. driver = "display"
      BY <2>3 DEF KernelStep
    <3> QED  BY <2>3, <3>1, DisplayMoves DEF display_init
  <2> QED  BY <2>1, <2>2, <2>3 DEF Next
<1> QED  BY <1>1, Invariance, PTL DEF Spec, OneCursor

(***************************************************************************)
(* TextKept: no write takes away text in front of its place but what       *)
(* scrolls off the top, if a tab is not longer than a row (TabsShort; both *)
(* drivers have tabs of a few characters and rows of 80).                  *)
(***************************************************************************)
THEOREM TextStays == ASSUME TabsShort PROVE Spec => TextKept
<1>1. IInv /\ [Next]_screenVars =>
          [Wiped \/ KeptAndMoved(0) \/ KeptAndMoved(1)]_screenVars
  <2> SUFFICES ASSUME IInv, Next PROVE Wiped \/ KeptAndMoved(0) \/ KeptAndMoved(1)
    OBVIOUS
  <2>1. CASE KtermStep
    BY <2>1, TabsShort, TerminalStep, MovedText
  <2>2. CASE display_init
    BY <2>2 DEF Wiped
  <2>3. CASE KernelStep
    <3>1. driver = "display"
      BY <2>3 DEF KernelStep
    <3> QED  BY <2>3, <3>1, TabsShort, DisplayMoves, MovedText DEF Wiped
  <2> QED  BY <2>1, <2>2, <2>3 DEF Next
<1> QED  BY <1>1, Invariance, PTL DEF Spec, TextKept

-------------------------------------------------------------------------------
(***************************************************************************)
(* The C library's string functions.  Where a copy repeats its source, the *)
(* character is a remainder away.                                          *)
(***************************************************************************)
LEMMA Remainder ==
    ASSUME NEW x \in Nat, NEW d \in Nat, d > 0
    PROVE  /\ x % d \in Nat /\ x % d < d
           /\ x < d => x % d = x
           /\ x >= d => x % d = (x - d) % d
<1>1. /\ x = d * (x \div d) + (x % d) /\ x % d \in 0..(d - 1) /\ x \div d \in Nat
  OBVIOUS
<1>2. x < d => x % d = x
  OBVIOUS
<1>3. ASSUME x >= d PROVE x % d = (x - d) % d
  <2>1. PICK y \in Nat : y = x - d
    BY <1>3
  <2>2. PICK q \in Nat, r \in 0..(d - 1) : q = x \div d /\ r = x % d /\ x = d * q + r
    BY <1>1
  <2>3. PICK p \in Nat, s \in 0..(d - 1) : p = y \div d /\ s = y % d /\ y = d * p + s
    OBVIOUS
  <2>4. PICK k \in Int : k = q - p - 1
    OBVIOUS
  <2>5. d * k = s - r
    <3>1. d * k = d * q - d * p - d
      BY <2>4
    <3>2. PICK u \in Int, v \in Int : u = d * q /\ v = d * p
      OBVIOUS
    <3> QED  BY <2>1, <2>2, <2>3, <3>1, <3>2
  <2>6. k = 0
    <3>1. ASSUME k >= 1 PROVE FALSE
      <4>1. d * k >= d
        BY <3>1
      <4> QED  BY <2>2, <2>3, <2>5, <4>1
    <3>2. ASSUME k <= -1 PROVE FALSE
      <4>1. d * k <= - d
        BY <3>2
      <4> QED  BY <2>2, <2>3, <2>5, <4>1
    <3> QED  BY <3>1, <3>2
  <2>7. d * k = 0
    BY <2>6
  <2> QED  BY <2>1, <2>2, <2>3, <2>5, <2>7
<1> QED  BY <1>1, <1>2, <1>3

(***************************************************************************)
(* Length is the place of the first terminator.                            *)
(***************************************************************************)
LEMMA FirstZero ==
    ASSUME NEW a \in Cell, IsString(a)
    PROVE  /\ Length(a) \in Zeros(a)
           /\ \A j \in Zeros(a) : Length(a) <= j
<1>1. Zeros(a) \subseteq Nat /\ Zeros(a) # {}
  BY StringsAssumption DEF Zeros, IsString, Cell
<1>2. PICK b \in Zeros(a) : \A c \in Zeros(a) : b <= c
  BY <1>1, SmallestIn
<1> QED  BY <1>2 DEF Length

-------------------------------------------------------------------------------
(***************************************************************************)
(* The invariant.  A call's pointers and blocks are in memory.             *)
(***************************************************************************)
Copies == {"memcpy", "strncpy", "strcpy"}
Comparisons == {"memcmp", "strcmp", "strncmp"}

Sane ==
    /\ mem \in [Cell -> Chars] /\ before \in [Cell -> Chars]
    /\ call.a \in Cell /\ call.b \in Cell /\ call.n \in Nat
    /\ call.a + call.n <= MemorySize /\ call.b + call.n <= MemorySize
    /\ call.fn \in Copies \cup Comparisons \cup {"memset", "strlen"} /\ call.c \in Chars
    /\ done \in Nat /\ outcome \in {"none", "returned", "astray"}

(***************************************************************************)
(* What a copy of k characters makes of the memory: of a destination       *)
(* behind the source, it repeats what lies between their beginnings.       *)
(***************************************************************************)
CopiedSoFar(k) ==
    [i \in Cell |-> IF i \in call.a..(call.a + k - 1) THEN before[call.b + Source(i - call.a)]
                    ELSE before[i]]

CopyInv ==
    call.fn \in Copies /\ MayCopy =>
        /\ done <= Copied /\ mem = CopiedSoFar(done)
        /\ outcome # "astray"
        /\ outcome = "returned" => done = Copied /\ result = call.a

(***************************************************************************)
(* A comparison has passed only what does not decide it, strlen no         *)
(* terminator; neither writes.                                             *)
(***************************************************************************)
CompareInv ==
    call.fn \in Comparisons =>
        /\ mem = before
        /\ \A j \in 0..(done - 1) : ~ Decides(j)
        /\ outcome = "returned" => /\ {From, To} \subseteq Cell
                                   /\ result = mem[To] - mem[From]
                                   /\ ~ (ComparisonGoesOn /\ mem[To] = mem[From])
        /\ outcome = "astray" => {From, To} \ Cell # {}

LengthInv ==
    call.fn = "strlen" =>
        /\ mem = before
        /\ \A j \in 0..(done - 1) : call.a + j \in Cell /\ before[call.a + j] # 0
        /\ outcome = "returned" => result = done /\ To \in Cell /\ before[To] = 0
        /\ outcome = "astray" => To \notin Cell

StringsInv == Sane /\ CopyInv /\ CompareInv /\ LengthInv

LEMMA Cells ==
    /\ MemorySize \in Nat /\ MemorySize > 0 /\ Cell \subseteq Nat
    /\ \A i \in Int : i \in Cell <=> i >= 0 /\ i < MemorySize
BY StringsAssumption DEF Cell

(***************************************************************************)
(* What a copy may copy is in memory, and so is where it goes.             *)
(***************************************************************************)
LEMMA CopyInMemory ==
    ASSUME Sane, call.fn \in Copies, MayCopy
    PROVE  /\ Copied \in Nat /\ call.a + Copied <= MemorySize /\ call.b + Copied <= MemorySize
           /\ call.fn # "strcpy" => Copied = call.n
           /\ call.fn = "strcpy" =>
                 /\ call.b + Copied \in Cell /\ before[call.b + Copied] = 0
                 /\ \A j \in 0..(Copied - 1) : before[call.b + j] # 0
                 /\ Forward => call.b + Copied < call.a
<1>1. CASE call.fn # "strcpy"
  BY <1>1 DEF Copied, Sane
<1>2. CASE call.fn = "strcpy"
  <2>1. PICK b \in Cell, a \in Cell : b = call.b /\ a = call.a
    BY DEF Sane
  <2>2. PICK k : k = Length(b) /\ k = Copied
    BY <1>2, <2>1 DEF Copied
  <2>3. k \in Zeros(b) /\ \A j \in Zeros(b) : k <= j
    BY <1>2, <2>1, <2>2, FirstZero DEF MayCopy
  <2>4. /\ k \in Nat /\ k <= MemorySize - 1 - b /\ before[b + k] = 0
        /\ \A j \in 0..(k - 1) : before[b + j] # 0
    BY <2>3, Cells DEF Zeros
  <2>5. a + k <= MemorySize /\ (Forward => b + k < a)
    <3>1. a + k < MemorySize /\ (Forward => b + k < a)
      BY <1>2, <2>1, <2>2 DEF MayCopy
    <3> QED  BY <2>1, <2>4, <3>1, Cells
  <2>6. b + k \in Cell /\ b + k <= MemorySize
    BY <2>4, Cells
  <2> QED  BY <1>2, <2>1, <2>2, <2>4, <2>5, <2>6
<1> QED  BY <1>1, <1>2

(***************************************************************************)
(* The next character a copy reads is what its source held at first, or,   *)
(* of a destination behind, what is repeated there.                        *)
(***************************************************************************)
LEMMA ReadsSource ==
    ASSUME Sane, call.fn \in Copies, MayCopy, done < Copied, mem = CopiedSoFar(done)
    PROVE  /\ From \in Cell /\ To \in Cell
           /\ mem[From] = before[call.b + Source(done)]
<1>1. PICK a \in Nat, b \in Nat, k \in Nat, n \in Nat :
          a = call.a /\ b = call.b /\ k = done /\ n = Copied
  BY CopyInMemory, Cells DEF Sane
<1>2. k < n /\ a + n <= MemorySize /\ b + n <= MemorySize
  BY <1>1, CopyInMemory
<1>3. From = b + k /\ To = a + k
  BY <1>1 DEF From, To
<1>4. From \in Cell /\ To \in Cell
  BY <1>1, <1>2, <1>3, Cells
<1>5. mem[From] = IF b + k \in a..(a + k - 1) THEN before[b + Source((b + k) - a)] ELSE before[b + k]
  BY <1>1, <1>3, <1>4 DEF CopiedSoFar
<1>6. CASE ~ Forward
  <2>1. a <= b
    BY <1>1, <1>6 DEF Forward
  <2>2. b + k \notin a..(a + k - 1)
    BY <1>1, <2>1
  <2> QED  BY <1>1, <1>4, <1>5, <1>6, <2>2 DEF Source
<1>7. CASE Forward
  <2>1. PICK d \in Nat : d = a - b /\ d > 0 /\ d = call.a - call.b
    <3>1. a > b
      BY <1>1, <1>7 DEF Forward
    <3> QED  BY <1>1, <3>1
  <2>2. CASE k < d
    <3>1. b + k \notin a..(a + k - 1)
      BY <1>1, <2>1, <2>2
    <3>2. Source(k) = k
      BY <1>1, <1>7, <2>1, <2>2, Remainder DEF Source
    <3> QED  BY <1>1, <1>4, <1>5, <3>1, <3>2
  <2>3. CASE k >= d
    <3>1. b + k \in a..(a + k - 1) /\ (b + k) - a = k - d
      BY <1>1, <2>1, <2>3
    <3>2. Source((b + k) - a) = Source(k)
      BY <1>1, <1>7, <2>1, <2>3, <3>1, Remainder DEF Source
    <3> QED  BY <1>1, <1>4, <1>5, <3>1, <3>2
  <2> QED  BY <1>1, <2>1, <2>2, <2>3
<1> QED  BY <1>6, <1>7

LEMMA CopiesOneMore ==
    ASSUME Sane, call.fn \in Copies, MayCopy, done < Copied, mem = CopiedSoFar(done)
    PROVE  [mem EXCEPT ![To] = mem[From]] = CopiedSoFar(done + 1)
<1>1. PICK a \in Nat, k \in Nat : a = call.a /\ k = done
  BY Cells DEF Sane
<1>2. To = a + k /\ To \in Cell /\ mem[From] = before[call.b + Source(k)]
  BY <1>1, ReadsSource DEF To
<1> DEFINE next == [mem EXCEPT ![To] = mem[From]]
<1>3. next \in [Cell -> Chars \cup {mem[From]}] /\ CopiedSoFar(done + 1) = 
        [i \in Cell |-> IF i \in a..(a + (k + 1) - 1) THEN before[call.b + Source(i - a)]
                        ELSE before[i]]
  BY <1>1, <1>2 DEF Sane, CopiedSoFar
<1>4. ASSUME NEW i \in Cell
      PROVE  next[i] = IF i \in a..(a + (k + 1) - 1) THEN before[call.b + Source(i - a)]
                       ELSE before[i]
  <2>1. i \in Nat
    BY Cells
  <2>2. mem[i] = IF i \in a..(a + k - 1) THEN before[call.b + Source(i - a)] ELSE before[i]
    BY <1>1 DEF CopiedSoFar
  <2>3. CASE i = To
    <3>1. i - a = k /\ i \in a..(a + (k + 1) - 1)
      BY <1>1, <1>2, <2>1, <2>3
    <3>2. next[i] = mem[From]
      BY <2>3 DEF Sane
    <3> QED  BY <1>2, <3>1, <3>2
  <2>4. CASE i # To
    <3>1. i \in a..(a + (k + 1) - 1) <=> i \in a..(a + k - 1)
      BY <1>1, <1>2, <2>1, <2>4
    <3>2. next[i] = mem[i]
      BY <2>4 DEF Sane
    <3> QED  BY <2>2, <3>1, <3>2
  <2> QED  BY <2>3, <2>4
<1> HIDE DEF next
<1>5. next = [i \in Cell |-> IF i \in a..(a + (k + 1) - 1) THEN before[call.b + Source(i - a)]
                             ELSE before[i]]
  BY <1>3, <1>4
<1> QED  BY <1>3, <1>5 DEF next

-------------------------------------------------------------------------------
(***************************************************************************)
(* Each function keeps the invariant.                                      *)
(***************************************************************************)
LEMMA CallStays ==
    ASSUME UNCHANGED <<before, call>>
    PROVE  /\ MayCopy' <=> MayCopy
           /\ Copied' = Copied
           /\ \A k : CopiedSoFar(k)' = CopiedSoFar(k)
           /\ \A i : Decides(i)' <=> Decides(i)
<1>1. MayCopy' <=> MayCopy
  BY DEF MayCopy, Copied, Forward, IsString, Length, Zeros
<1>2. Copied' = Copied
  BY DEF Copied, Length, Zeros
<1>3. \A k : CopiedSoFar(k)' = CopiedSoFar(k)
  BY DEF CopiedSoFar, Source, Forward, Cell
<1>4. \A i : Decides(i)' <=> Decides(i)
  BY DEF Decides
<1> QED  BY <1>1, <1>2, <1>3, <1>4

LEMMA CopyStep ==
    ASSUME StringsInv, Copy
    PROVE  StringsInv'
<1>1. /\ Sane /\ CopyInv /\ call.fn \in Copies /\ outcome = "none"
      /\ call' = call /\ before' = before
  BY DEF StringsInv, Copy, Running, Copies, Leave, Turn, Returns
<1>2. CompareInv' /\ LengthInv'
  BY <1>1 DEF CompareInv, LengthInv, Copies, Comparisons
<1>3. PICK a \in Nat, b \in Nat, k \in Nat, n \in Nat :
          /\ a = call.a /\ b = call.b /\ k = done /\ n = call.n
          /\ a + n <= MemorySize /\ b + n <= MemorySize
          /\ From = b + k /\ To = a + k /\ Left = n - k
  BY <1>1, Cells DEF Sane, From, To, Left
<1>4. CASE call.fn = "strcpy" /\ (From \in Cell => mem[From] # 0 /\ To \notin Cell)
  <2>1. mem' = mem /\ done' = done /\ outcome' = "astray" /\ result' = result
    BY <1>4 DEF Copy, Leave
  <2>2. Sane'
    BY <1>1, <2>1 DEF Sane, Cell
  <2>3. ~ MayCopy
    <3> SUFFICES ASSUME MayCopy PROVE FALSE
      OBVIOUS
    <3>1. done <= Copied /\ mem = CopiedSoFar(done)
      BY <1>1 DEF CopyInv
    <3>2. /\ Copied \in Nat /\ b + Copied \in Cell /\ before[b + Copied] = 0
          /\ Forward => b + Copied < a
          /\ a + Copied <= MemorySize
      BY <1>1, <1>3, <1>4, CopyInMemory
    <3>3. CASE done < Copied
      BY <1>1, <1>4, <3>1, <3>3, ReadsSource
    <3>4. CASE done = Copied
      <4>1. From \in Cell /\ From = b + k
        BY <1>3, <3>2, <3>4
      <4>2. mem[From] = before[From]
        <5>1. From \notin a..(a + k - 1)
          <6>1. CASE Forward
            BY <1>3, <3>2, <3>4, <6>1
          <6>2. CASE ~ Forward
            BY <1>3, <6>2 DEF Forward
          <6> QED  BY <6>1, <6>2
        <5> QED  BY <1>3, <3>1, <4>1, <5>1 DEF CopiedSoFar
      <4> QED  BY <1>3, <1>4, <3>2, <3>4, <4>1, <4>2
    <3> QED  BY <1>3, <3>1, <3>2, <3>3, <3>4
  <2>4. CopyInv'
    BY <1>1, <2>3, CallStays DEF CopyInv
  <2> QED  BY <1>2, <2>2, <2>4 DEF StringsInv
<1>5. CASE ~ (call.fn = "strcpy" /\ (From \in Cell => mem[From] # 0 /\ To \notin Cell))
  <2>1. IF CopyGoesOn THEN mem' = [mem EXCEPT ![To] = mem[From]] /\ Turn ELSE Returns(call.a)
    BY <1>5 DEF Copy
  <2>2. CASE CopyGoesOn
    <3>1. /\ mem' = [mem EXCEPT ![To] = mem[From]] /\ done' = done + 1
          /\ outcome' = outcome /\ result' = result
      BY <2>1, <2>2 DEF Turn
    <3>2. To \in Cell /\ From \in Cell
      <4>1. CASE call.fn = "strcpy"
        BY <1>5, <2>2, <4>1 DEF CopyGoesOn
      <4>2. CASE call.fn # "strcpy"
        <5>1. k < n
          BY <1>3, <2>2, <4>2 DEF CopyGoesOn
        <5> QED  BY <1>3, <5>1, Cells
      <4> QED  BY <4>1, <4>2
    <3>3. Sane'
      <4>1. mem' \in [Cell -> Chars]
        BY <1>1, <3>1, <3>2 DEF Sane
      <4>2. done' \in Nat
        BY <1>3, <3>1
      <4> QED  BY <1>1, <3>1, <4>1, <4>2 DEF Sane, Cell
    <3>4. ASSUME MayCopy
          PROVE  done' <= Copied /\ mem' = CopiedSoFar(done')
      <4>1. done <= Copied /\ mem = CopiedSoFar(done) /\ Copied \in Nat
        BY <1>1, <3>4, CopyInMemory DEF CopyInv
      <4>2. done < Copied
        <5> SUFFICES ASSUME done = Copied PROVE FALSE
          BY <1>3, <4>1
        <5>1. CASE call.fn # "strcpy"
          <6>1. Copied = n
            BY <1>1, <1>3, <3>4, <5>1, CopyInMemory
          <6>2. n - k > 0
            BY <1>3, <2>2, <5>1 DEF CopyGoesOn
          <6> QED  BY <1>3, <6>1, <6>2
        <5>2. CASE call.fn = "strcpy"
          <6>1. before[From] = 0 /\ (Forward => b + k < a) /\ From = b + k
            BY <1>1, <1>3, <3>4, <5>2, CopyInMemory
          <6>2. From \notin a..(a + k - 1)
            <7>1. CASE Forward
              BY <1>3, <6>1, <7>1
            <7>2. CASE ~ Forward
              BY <1>3, <7>2 DEF Forward
            <7> QED  BY <7>1, <7>2
          <6>3. mem[From] = before[From]
            BY <1>3, <3>2, <4>1, <6>2 DEF CopiedSoFar
          <6> QED  BY <2>2, <5>2, <6>1, <6>3 DEF CopyGoesOn
        <5> QED  BY <5>1, <5>2
      <4>3. mem' = CopiedSoFar(done + 1)
        BY <1>1, <3>1, <3>4, <4>1, <4>2, CopiesOneMore
      <4>4. done' <= Copied
        BY <1>3, <3>1, <4>1, <4>2
      <4> QED  BY <3>1, <4>3, <4>4
    <3>5. CopyInv'
      <4>1. MayCopy => done' <= Copied' /\ mem' = CopiedSoFar(done)'
        <5>1. CopiedSoFar(done)' = CopiedSoFar(done')
          BY <1>1 DEF CopiedSoFar, Source, Forward, Cell
        <5> QED  BY <1>1, <3>4, <5>1, CallStays
      <4> QED  BY <1>1, <3>1, <4>1, CallStays DEF CopyInv
    <3> QED  BY <1>2, <3>3, <3>5 DEF StringsInv
  <2>3. CASE ~ CopyGoesOn
    <3>1. mem' = mem /\ done' = done /\ outcome' = "returned" /\ result' = call.a
      BY <2>1, <2>3 DEF Returns
    <3>2. Sane'
      BY <1>1, <3>1 DEF Sane, Cell
    <3>3. ASSUME MayCopy PROVE done = Copied
      <4>1. done <= Copied /\ mem = CopiedSoFar(done) /\ Copied \in Nat
        BY <1>1, <3>3, CopyInMemory DEF CopyInv
      <4> SUFFICES ASSUME done < Copied PROVE FALSE
        BY <1>3, <4>1
      <4>2. CASE call.fn # "strcpy"
        <5>1. Copied = n
          BY <1>1, <1>3, <3>3, <4>2, CopyInMemory
        <5>2. ~ (n - k > 0)
          BY <1>3, <2>3, <4>2 DEF CopyGoesOn
        <5> QED  BY <1>3, <5>1, <5>2
      <4>3. CASE call.fn = "strcpy"
        <5>1. /\ \A j \in 0..(Copied - 1) : before[b + j] # 0
              /\ Forward => b + Copied < a
          BY <1>1, <1>3, <3>3, <4>3, CopyInMemory
        <5>2. before[b + k] # 0
          BY <1>3, <4>1, <5>1
        <5>3. Source(k) = k
          <6>1. CASE Forward
            <7>1. PICK d \in Nat : d = a - b /\ d > 0 /\ k < d
              BY <1>3, <4>1, <5>1, <6>1
            <7>2. k % d = k
              BY <7>1, Remainder
            <7> QED  BY <1>3, <6>1, <7>1, <7>2 DEF Source
          <6>2. CASE ~ Forward
            BY <6>2 DEF Source
          <6> QED  BY <6>1, <6>2
        <5>4. mem[From] = before[b + k]
          BY <1>1, <1>3, <3>3, <4>1, <5>3, ReadsSource
        <5> QED  BY <2>3, <4>3, <5>2, <5>4 DEF CopyGoesOn
      <4> QED  BY <4>2, <4>3
    <3>4. CopyInv'
      <4>1. CopiedSoFar(done)' = CopiedSoFar(done)
        BY <1>1, <3>1 DEF CopiedSoFar, Source, Forward, Cell
      <4> QED  BY <1>1, <3>1, <3>3, <4>1, CallStays DEF CopyInv
    <3> QED  BY <1>2, <3>2, <3>4 DEF StringsInv
  <2> QED  BY <2>2, <2>3
<1> QED  BY <1>4, <1>5

LEMMA ReadOnlyStep ==
    ASSUME Sane, UNCHANGED <<mem, before, call>>, done' \in Nat,
           outcome' \in {"none", "returned", "astray"}, call.fn \notin Copies
    PROVE  Sane' /\ CopyInv'
BY DEF Sane, CopyInv, Cell

LEMMA MemsetStep ==
    ASSUME StringsInv, memset
    PROVE  StringsInv'
<1>1. Sane /\ call.fn = "memset" /\ outcome = "none" /\ call' = call /\ before' = before
  BY DEF StringsInv, memset, Running, Turn, Returns
<1>2. CopyInv' /\ CompareInv' /\ LengthInv'
  BY <1>1 DEF CopyInv, CompareInv, LengthInv, Copies, Comparisons
<1>3. CASE Left > 0
  <2>1. mem' = [mem EXCEPT ![To] = call.c] /\ done' = done + 1 /\ outcome' = outcome
    BY <1>3 DEF memset, Turn
  <2>2. done' \in Nat
    BY <1>1, <2>1 DEF Sane
  <2>3. mem' \in [Cell -> Chars]
    <3>1. mem \in [Cell -> Chars] /\ call.c \in Chars
      BY <1>1 DEF Sane
    <3>2. PICK c \in Chars : mem' = [mem EXCEPT ![To] = c]
      BY <2>1, <3>1
    <3> QED  BY <3>1, <3>2
  <2> QED  BY <1>1, <1>2, <2>1, <2>2, <2>3 DEF StringsInv, Sane, Cell
<1>4. CASE ~ (Left > 0)
  BY <1>1, <1>2, <1>4 DEF StringsInv, Sane, Cell, memset, Returns
<1> QED  BY <1>3, <1>4

LEMMA StrlenStep ==
    ASSUME StringsInv, strlen
    PROVE  StringsInv'
<1>1. /\ Sane /\ call.fn = "strlen" /\ outcome = "none" /\ call' = call /\ before' = before
      /\ mem = before /\ \A j \in 0..(done - 1) : call.a + j \in Cell /\ before[call.a + j] # 0
  BY DEF StringsInv, LengthInv, strlen, Running, Leave, Turn, Returns
<1>2. call.fn \notin Copies /\ call.fn \notin Comparisons /\ mem' = mem
  BY <1>1 DEF Copies, Comparisons, strlen, Leave, Turn, Returns
<1>3. CompareInv'
  BY <1>1, <1>2 DEF CompareInv
<1>4. done \in Nat
  BY <1>1 DEF Sane
<1>5. CASE To \notin Cell
  <2>1. done' = done /\ outcome' = "astray"
    BY <1>5 DEF strlen, Leave
  <2>2. LengthInv'
    BY <1>1, <1>2, <1>5, <2>1 DEF LengthInv, To, Cell
  <2> QED  BY <1>1, <1>2, <1>3, <1>4, <2>1, <2>2, ReadOnlyStep DEF StringsInv
<1>6. CASE To \in Cell /\ mem[To] # 0
  <2>1. done' = done + 1 /\ outcome' = outcome
    BY <1>6 DEF strlen, Turn
  <2>2. \A j \in 0..(done' - 1) : j \in 0..(done - 1) \/ j = done
    BY <1>4, <2>1
  <2>3. LengthInv'
    BY <1>1, <1>2, <1>6, <2>1, <2>2 DEF LengthInv, To, Cell
  <2> QED  BY <1>1, <1>2, <1>3, <1>4, <2>1, <2>3, ReadOnlyStep DEF StringsInv
<1>7. CASE To \in Cell /\ mem[To] = 0
  <2>1. done' = done /\ outcome' = "returned" /\ result' = done
    BY <1>7 DEF strlen, Returns
  <2>2. LengthInv'
    BY <1>1, <1>2, <1>7, <2>1 DEF LengthInv, To, Cell
  <2> QED  BY <1>1, <1>2, <1>3, <1>4, <2>1, <2>2, ReadOnlyStep DEF StringsInv
<1> QED  BY <1>5, <1>6, <1>7

LEMMA CompareStep ==
    ASSUME StringsInv, Compare
    PROVE  StringsInv'
<1>1. /\ Sane /\ call.fn \in Comparisons /\ outcome = "none" /\ call' = call /\ before' = before
      /\ mem = before /\ \A j \in 0..(done - 1) : ~ Decides(j)
      /\ mem' = mem
  BY DEF StringsInv, CompareInv, Compare, Running, Comparisons, Leave, Turn, Returns
<1>2. call.fn \notin Copies /\ call.fn # "strlen"
  BY <1>1 DEF Copies, Comparisons
<1>3. LengthInv'
  BY <1>1, <1>2 DEF LengthInv
<1>4. done \in Nat
  BY <1>1 DEF Sane
<1>5. \A j : Decides(j)' <=> Decides(j)
  BY <1>1, CallStays
<1>6. CASE {From, To} \ Cell # {}
  <2>1. done' = done /\ outcome' = "astray"
    BY <1>6 DEF Compare, Leave
  <2>2. ({From, To} \ Cell # {})'
    BY <1>1, <1>6, <2>1 DEF From, To, Cell
  <2>3. CompareInv'
    BY <1>1, <1>5, <2>1, <2>2 DEF CompareInv
  <2> QED  BY <1>1, <1>2, <1>3, <1>4, <2>1, <2>3, ReadOnlyStep DEF StringsInv
<1>7. CASE {From, To} \subseteq Cell /\ ComparisonGoesOn /\ mem[To] = mem[From]
  <2>1. done' = done + 1 /\ outcome' = outcome
    BY <1>7 DEF Compare, Turn
  <2>2. ~ Decides(done)
    BY <1>1, <1>7 DEF Decides, ComparisonGoesOn, Comparisons, From, To
  <2>3. \A j \in 0..(done' - 1) : j \in 0..(done - 1) \/ j = done
    BY <1>4, <2>1
  <2>4. CompareInv'
    BY <1>1, <1>5, <2>1, <2>2, <2>3 DEF CompareInv
  <2> QED  BY <1>1, <1>2, <1>3, <1>4, <2>1, <2>4, ReadOnlyStep DEF StringsInv
<1>8. CASE {From, To} \subseteq Cell /\ ~ (ComparisonGoesOn /\ mem[To] = mem[From])
  <2>1. done' = done /\ outcome' = "returned" /\ result' = mem[To] - mem[From]
    BY <1>8 DEF Compare, Returns
  <2>2. From' = From /\ To' = To /\ (ComparisonGoesOn' <=> ComparisonGoesOn) /\ Cell' = Cell
    BY <1>1, <2>1 DEF From, To, Left, ComparisonGoesOn, Cell
  <2>3. CompareInv'
    BY <1>1, <1>5, <1>8, <2>1, <2>2 DEF CompareInv
  <2> QED  BY <1>1, <1>2, <1>3, <1>4, <2>1, <2>3, ReadOnlyStep DEF StringsInv
<1> QED  BY <1>6, <1>7, <1>8

-------------------------------------------------------------------------------
LEMMA StringsInvariance == LibcSpec => []StringsInv
<1>1. LibcInit => StringsInv
  <2>1. ASSUME StringsInit PROVE StringsInv
    <3>1. Sane
      BY <2>1, StringsAssumption, Cells
         DEF StringsInit, Calls, Call, Ranges, Sane, Copies, Comparisons
    <3>2. done = 0 /\ outcome = "none" /\ mem = before
      BY <2>1 DEF StringsInit
    <3>3. ASSUME call.fn \in Copies, MayCopy PROVE 0 <= Copied /\ mem = CopiedSoFar(0)
      <4>1. Copied \in Nat
        BY <3>1, <3>3, CopyInMemory
      <4>2. \A i \in Cell : i \notin call.a..(call.a + 0 - 1)
        <5>1. PICK a \in Nat : a = call.a
          BY <3>1, Cells DEF Sane
        <5>2. \A i \in Cell : i \notin a..(a + 0 - 1)
          BY Cells
        <5> QED  BY <5>1, <5>2
      <4>3. before = [i \in Cell |-> before[i]]
        BY <3>1 DEF Sane
      <4>4. mem = CopiedSoFar(0)
        BY <3>2, <4>2, <4>3 DEF CopiedSoFar
      <4> QED  BY <4>1, <4>4
    <3>4. CopyInv
      BY <3>2, <3>3 DEF CopyInv
    <3>5. CompareInv /\ LengthInv
      BY <3>2 DEF CompareInv, LengthInv
    <3> QED  BY <3>1, <3>4, <3>5 DEF StringsInv
  <2>2. ASSUME NoString PROVE StringsInv
    <3>1. Sane
      BY <2>2, StringsAssumption, Cells DEF NoString, Call, Sane
    <3>2. /\ call.fn = "strlen" /\ call.a = 0 /\ done = 0 /\ outcome = "returned" /\ result = 0
          /\ before = mem /\ mem = [i \in Cell |-> 0] /\ 0 \in Cell
      BY <2>2, Cells DEF NoString, Call
    <3>3. CopyInv /\ CompareInv
      BY <3>2 DEF CopyInv, CompareInv, Copies, Comparisons
    <3>4. LengthInv
      BY <3>2 DEF LengthInv, To
    <3> QED  BY <3>1, <3>3, <3>4 DEF StringsInv
  <2> QED  BY <2>1, <2>2 DEF LibcInit
<1>2. StringsInv /\ [LibcNext]_libcVars => StringsInv'
  <2> SUFFICES ASSUME StringsInv, [LibcNext]_libcVars PROVE StringsInv'
    OBVIOUS
  <2>1. CASE StringStep
    BY <2>1, CopyStep, MemsetStep, StrlenStep, CompareStep DEF StringStep
  <2>2. CASE UNCHANGED stringVars
    <3>1. /\ mem' = mem /\ before' = before /\ call' = call /\ done' = done
          /\ outcome' = outcome /\ result' = result
      BY <2>2 DEF stringVars
    <3>2. Sane' /\ LengthInv'
      BY <3>1 DEF StringsInv, Sane, LengthInv, Cell, To
    <3>3. CopyInv'
      <4>1. CopiedSoFar(done)' = CopiedSoFar(done)
        BY <3>1 DEF CopiedSoFar, Source, Forward, Cell
      <4> QED  BY <3>1, <4>1, CallStays DEF StringsInv, CopyInv
    <3>4. CompareInv'
      <4>1. From' = From /\ To' = To /\ (ComparisonGoesOn' <=> ComparisonGoesOn) /\ Cell' = Cell
        BY <3>1 DEF From, To, Left, ComparisonGoesOn, Cell
      <4> QED  BY <3>1, <4>1, CallStays DEF StringsInv, CompareInv
    <3> QED  BY <3>2, <3>3, <3>4 DEF StringsInv
  <2> QED  BY <2>1, <2>2 DEF LibcNext, Ended, libcVars
<1> QED  BY <1>1, <1>2, PTL DEF LibcSpec

(***************************************************************************)
(* CopiedAndFound: the characters a copy leaves in memory, apart from the  *)
(* terminator of a string, and what a comparison of unequal blocks or      *)
(* strings and strlen return, for every size and content of memory.        *)
(***************************************************************************)
THEOREM CopiesAndFinds == LibcSpec => []CopiedAndFound
<1>1. StringsInv => CopiesRight
  <2> SUFFICES ASSUME StringsInv, call.fn \in Copies, outcome # "none", MayCopy
               PROVE  /\ outcome = "returned" /\ result = call.a
                      /\ \A i \in Cell :
                            /\ Owed(i - call.a) => mem[i] = SourceChar(i - call.a)
                            /\ i - call.a \notin Room => mem[i] = before[i]
    BY DEF CopiesRight, Copies
  <2>1. /\ outcome = "returned" /\ result = call.a /\ done = Copied
        /\ mem = CopiedSoFar(Copied)
    BY DEF StringsInv, Sane, CopyInv
  <2>2. PICK a \in Nat, n \in Nat : a = call.a /\ n = Copied
    BY Cells, CopyInMemory DEF StringsInv, Sane
  <2>3. ASSUME NEW i \in Cell
        PROVE  /\ Owed(i - a) => mem[i] = SourceChar(i - a)
               /\ i - a \notin Room => mem[i] = before[i]
    <3>1. i \in Nat
      BY Cells
    <3>2. mem[i] = IF i \in a..(a + n - 1) THEN SourceChar(i - a) ELSE before[i]
      BY <2>1, <2>2 DEF CopiedSoFar, SourceChar
    <3>3. /\ i - a \in 0..(n - 1) <=> i \in a..(a + n - 1)
          /\ i - a \notin 0..n => i - a \notin 0..(n - 1)
      BY <2>2, <3>1
    <3>4. /\ Owed(i - a) => i - a \in 0..(n - 1)
          /\ i - a \notin Room => i - a \notin 0..(n - 1)
      BY <2>2, <3>3 DEF Owed, Room
    <3> QED  BY <3>2, <3>3, <3>4
  <2> QED  BY <2>1, <2>2, <2>3
<1>2. ASSUME StringsInv, call.fn \in Comparisons, outcome # "none",
             NEW i \in Compared, {call.a + i, call.b + i} \subseteq Cell,
             Decides(i), \A j \in 0..(i - 1) : ~ Decides(j)
      PROVE  outcome = "returned" /\ result = before[call.a + i] - before[call.b + i]
  <2>1. PICK a \in Nat, b \in Nat, k \in Nat, n \in Nat :
            a = call.a /\ b = call.b /\ k = done /\ n = call.n
    BY <1>2, Cells DEF StringsInv, Sane
  <2>2. i \in Nat /\ (call.fn # "strcmp" => i < n)
    BY <2>1, Cells DEF Compared
  <2>3. From = b + k /\ To = a + k
    BY <2>1 DEF From, To
  <2>4. /\ mem = before /\ \A j \in 0..(k - 1) : ~ Decides(j)
        /\ outcome = "returned" => /\ {From, To} \subseteq Cell
                                   /\ result = mem[To] - mem[From]
                                   /\ ~ (ComparisonGoesOn /\ mem[To] = mem[From])
        /\ outcome = "astray" => {From, To} \ Cell # {}
        /\ outcome \in {"returned", "astray"}
    BY <1>2, <2>1 DEF StringsInv, Sane, CompareInv
  <2>5. k <= i
    <3> SUFFICES ASSUME i < k PROVE FALSE
      BY <2>1, <2>2
    <3>1. i \in 0..(k - 1)
      BY <2>1, <2>2
    <3> QED  BY <1>2, <2>4, <3>1
  <2>6. outcome = "returned"
    <3>1. a + i < MemorySize /\ b + i < MemorySize
      <4>1. a + i \in Cell /\ b + i \in Cell
        BY <1>2, <2>1
      <4>2. a + i \in Int /\ b + i \in Int
        BY <2>1, <2>2
      <4> QED  BY <4>1, <4>2, Cells
    <3>2. From \in Cell /\ To \in Cell
      BY <2>1, <2>2, <2>3, <2>5, <3>1, Cells
    <3> QED  BY <2>4, <3>2
  <2>7. k = i
    <3> SUFFICES ASSUME k < i PROVE FALSE
      BY <2>1, <2>2, <2>5
    <3>1. k \in 0..(i - 1)
      BY <2>1, <2>2
    <3>2. ~ Decides(k)
      BY <1>2, <3>1
    <3>3. before[To] = before[From] /\ (call.fn # "memcmp" => before[To] # 0)
      BY <2>1, <2>3, <3>2 DEF Decides
    <3>4. ComparisonGoesOn
      <4>1. CASE call.fn = "memcmp"
        BY <2>1, <2>2, <4>1 DEF ComparisonGoesOn
      <4>2. CASE call.fn = "strcmp"
        BY <2>4, <3>3, <4>2 DEF ComparisonGoesOn
      <4>3. CASE call.fn = "strncmp"
        <5>1. Left > 0
          BY <2>1, <2>2, <4>3 DEF Left
        <5> QED  BY <2>4, <3>3, <4>3, <5>1 DEF ComparisonGoesOn
      <4> QED  BY <1>2, <4>1, <4>2, <4>3 DEF Comparisons
    <3> QED  BY <2>4, <2>6, <3>3, <3>4
  <2> QED  BY <2>1, <2>3, <2>4, <2>6, <2>7
<1>3. ASSUME StringsInv, call.fn = "strlen", outcome # "none", IsString(call.a)
      PROVE  outcome = "returned" /\ result = Length(call.a)
  <2>1. PICK a \in Cell, k \in Nat : a = call.a /\ k = done
    BY <1>3 DEF StringsInv, Sane
  <2>2. PICK l : l = Length(a)
    OBVIOUS
  <2>3. l \in Zeros(a) /\ \A j \in Zeros(a) : l <= j
    BY <1>3, <2>1, <2>2, FirstZero
  <2>4. a \in Nat /\ l \in Nat /\ l <= MemorySize - 1 - a /\ before[a + l] = 0
    BY <2>1, <2>3, Cells DEF Zeros
  <2>5. /\ \A j \in 0..(k - 1) : before[a + j] # 0
        /\ outcome = "returned" => result = k /\ a + k \in Cell /\ before[a + k] = 0
        /\ outcome = "astray" => a + k \notin Cell
        /\ outcome \in {"returned", "astray"}
    BY <1>3, <2>1 DEF StringsInv, Sane, LengthInv, To
  <2>6. k <= l
    <3> SUFFICES ASSUME l < k PROVE FALSE
      BY <2>1, <2>4
    <3>1. l \in 0..(k - 1)
      BY <2>1, <2>4
    <3> QED  BY <2>4, <2>5, <3>1
  <2>7. a + k \in Cell
    BY <2>1, <2>4, <2>6, Cells
  <2>8. k \in Zeros(a)
    BY <2>1, <2>4, <2>5, <2>6, <2>7, Cells DEF Zeros
  <2>9. k = l
    BY <2>1, <2>3, <2>4, <2>6, <2>8
  <2> QED  BY <2>1, <2>2, <2>5, <2>7, <2>9
<1>4. StringsInv => ComparesRight
  <2>1. ASSUME StringsInv, call.fn \in Comparisons \cup {"strlen"} PROVE mem = before
    BY <2>1 DEF StringsInv, CompareInv, LengthInv
  <2> QED  BY <1>2, <1>3, <2>1 DEF ComparesRight, Comparisons
<1>5. StringsInv => CopiedAndFound
  BY <1>1, <1>4 DEF CopiedAndFound
<1> QED  BY <1>5, StringsInvariance, PTL

-------------------------------------------------------------------------------
(***************************************************************************)
(* Numerals.  The value of a sequence of digits is what its recursive      *)
(* function ends at, and any function that satisfies its equation ends     *)
(* there.                                                                  *)
(***************************************************************************)
Bases == {2, 8, 10, 16}

ValueTurns(v, digits, base) ==
    v = [k \in 0..Len(digits) |-> IF k = 0 THEN 0 ELSE v[k - 1] * base + digits[k]]

LEMMA ValueGrows ==
    ASSUME NEW L \in Nat, NEW base \in Bases, NEW digits \in [1..L -> 0..(base - 1)]
    PROVE  \E v \in [0..L -> Nat] : /\ ValueOf(digits, base) = v[L] /\ v[0] = 0
                                    /\ \A k \in 1..L : v[k] = v[k - 1] * base + digits[k]
<1>1. Len(digits) = L /\ base \in Nat /\ \A k \in 1..L : digits[k] \in Nat
  BY DEF Bases
<1> DEFINE F == [i \in Nat |-> [x \in Nat |-> x * base + (IF i \in 1..L THEN digits[i] ELSE 0)]]
<1>2. F \in [Nat -> [Nat -> Nat]]
  <2>1. ASSUME NEW i \in Nat, NEW x \in Nat
        PROVE  x * base + (IF i \in 1..L THEN digits[i] ELSE 0) \in Nat
    <3>1. x * base \in Nat
      BY <1>1
    <3>2. (IF i \in 1..L THEN digits[i] ELSE 0) \in Nat
      BY <1>1
    <3> QED  BY <3>1, <3>2
  <2> QED  BY <2>1
<1>3. \A i \in 1..L : \A x \in Nat : F[i][x] = x * base + digits[i]
  OBVIOUS
<1> HIDE DEF F
<1>4. PICK f \in [0..L -> Nat] : Loop(f, L, 0, F)
  BY <1>2, LoopExists
<1>5. ValueTurns(f, digits, base)
  <2>1. \A k \in 0..L : f[k] = IF k = 0 THEN 0 ELSE f[k - 1] * base + digits[k]
    <3> SUFFICES ASSUME NEW k \in 0..L
                 PROVE  f[k] = IF k = 0 THEN 0 ELSE f[k - 1] * base + digits[k]
      OBVIOUS
    <3>1. f[k] = IF k = 0 THEN 0 ELSE F[k][f[k - 1]]
      BY <1>4 DEF Loop
    <3>2. CASE k # 0
      <4>1. k \in 1..L /\ f[k - 1] \in Nat
        BY <3>2
      <4> QED  BY <1>3, <3>1, <3>2, <4>1
    <3> QED  BY <3>1, <3>2
  <2> QED  BY <1>1, <2>1 DEF ValueTurns
<1>6. PICK v : v = CHOOSE g : ValueTurns(g, digits, base)
  OBVIOUS
<1>7. ValueTurns(v, digits, base)
  BY <1>5, <1>6
<1>8. ValueOf(digits, base) = v[L]
  BY <1>1, <1>6, Zenon DEF ValueOf, ValueTurns
<1>9. v = f
  <2> DEFINE good == {k \in 0..L : v[k] = f[k]}
  <2>1. \A k \in 0..L : /\ v[k] = IF k = 0 THEN 0 ELSE v[k - 1] * base + digits[k]
                        /\ f[k] = IF k = 0 THEN 0 ELSE f[k - 1] * base + digits[k]
    BY <1>1, <1>5, <1>7 DEF ValueTurns
  <2>2. 0 \in good
    BY <2>1
  <2>3. ASSUME NEW k \in 1..L, k - 1 \in good PROVE k \in good
    <3>1. k \in 0..L /\ k # 0
      OBVIOUS
    <3> QED  BY <2>1, <2>3, <3>1
  <2>4. good = 0..L
    <3>1. good \in SUBSET (0..L)
      OBVIOUS
    <3> HIDE DEF good
    <3> QED  BY <2>2, <2>3, <3>1, EveryTurn
  <2>5. \A k \in 0..L : v[k] = f[k]
    BY <2>4
  <2>6. v = [k \in 0..L |-> v[k]]
    BY <1>1, <1>7 DEF ValueTurns
  <2> QED  BY <2>5, <2>6
<1>10. f[0] = 0 /\ \A k \in 1..L : f[k] = f[k - 1] * base + digits[k]
  <2>1. \A k \in 0..L : f[k] = IF k = 0 THEN 0 ELSE f[k - 1] * base + digits[k]
    BY <1>1, <1>5 DEF ValueTurns
  <2>2. \A k \in 1..L : k \in 0..L /\ k # 0
    OBVIOUS
  <2> QED  BY <2>1, <2>2
<1> QED  BY <1>8, <1>9, <1>10

LEMMA ValueFollows ==
    ASSUME NEW L \in Nat, NEW base \in Bases, NEW digits \in [1..L -> 0..(base - 1)],
           NEW v, v[0] = 0, \A k \in 1..L : v[k] = v[k - 1] * base + digits[k]
    PROVE  ValueOf(digits, base) = v[L]
<1>1. PICK f \in [0..L -> Nat] : /\ ValueOf(digits, base) = f[L] /\ f[0] = 0
                                 /\ \A k \in 1..L : f[k] = f[k - 1] * base + digits[k]
  BY ValueGrows
<1> DEFINE good == {k \in 0..L : v[k] = f[k]}
<1>2. 0 \in good
  BY <1>1
<1>3. ASSUME NEW k \in 1..L, k - 1 \in good PROVE k \in good
  BY <1>1, <1>3
<1>4. good = 0..L
  <2>1. good \in SUBSET (0..L)
    OBVIOUS
  <2> HIDE DEF good
  <2> QED  BY <1>2, <1>3, <2>1, EveryTurn
<1>5. L \in good
  BY <1>4
<1> QED  BY <1>1, <1>5

(***************************************************************************)
(* The last digit is the remainder; what is left is the quotient.          *)
(***************************************************************************)
LEMMA LastDigit ==
    ASSUME NEW base \in Bases, NEW n \in Nat
    PROVE  /\ n \div base \in Nat /\ n % base \in 0..(base - 1)
           /\ n = (n \div base) * base + (n % base)
           /\ n > 0 => n \div base < n
           /\ n < base => n \div base = 0 /\ n % base = n
           /\ n >= base => n \div base > 0
<1>1. CASE base = 2
  BY <1>1
<1>2. CASE base = 8
  BY <1>2
<1>3. CASE base = 10
  BY <1>3
<1>4. CASE base = 16
  BY <1>4
<1> QED  BY <1>1, <1>2, <1>3, <1>4 DEF Bases

LEMMA OneMoreDigit ==
    ASSUME NEW base \in Bases, NEW n \in Nat, NEW q \in Nat, NEW d \in 0..(base - 1),
           n = q * base + d
    PROVE  /\ n \div base = q /\ n % base = d
           /\ q <= n /\ (n > 0 <=> q > 0 \/ d > 0)
<1>1. CASE base = 2
  BY <1>1
<1>2. CASE base = 8
  BY <1>2
<1>3. CASE base = 10
  BY <1>3
<1>4. CASE base = 16
  BY <1>4
<1> QED  BY <1>1, <1>2, <1>3, <1>4 DEF Bases

(***************************************************************************)
(* Each number has a numeral, of no more digits than it is large.          *)
(***************************************************************************)
HasNumeral(n, base) ==
    \E k \in 1..(n + 1) : \E digits \in [1..k -> 0..(base - 1)] :
        IsNumeral(digits, n, base) /\ (n > 0 => digits[1] > 0)

LEMMA NumeralOfDigit ==
    ASSUME NEW base \in Bases, NEW n \in Nat, n < base
    PROVE  HasNumeral(n, base)
<1> DEFINE digits == [i \in 1..1 |-> n]
           v == [i \in 0..1 |-> IF i = 0 THEN 0 ELSE n]
<1>1. digits \in [1..1 -> 0..(base - 1)] /\ digits[1] = n /\ Len(digits) = 1
  <2>1. n \in 0..(base - 1)
    BY DEF Bases
  <2> QED  BY <2>1
<1>2. v[0] = 0 /\ v[1] = n
  OBVIOUS
<1> HIDE DEF digits, v
<1>3. \A k \in 1..1 : v[k] = v[k - 1] * base + digits[k]
  <2>1. 0 * base + n = n
    BY DEF Bases
  <2> QED  BY <1>1, <1>2, <2>1
<1>4. ValueOf(digits, base) = v[1]
  BY <1>1, <1>2, <1>3, ValueFollows
<1>5. IsNumeral(digits, n, base)
  BY <1>1, <1>2, <1>4 DEF IsNumeral
<1>6. 1 \in 1..(n + 1)
  OBVIOUS
<1> QED  BY <1>1, <1>5, <1>6 DEF HasNumeral

LEMMA NumeralOfMore ==
    ASSUME NEW base \in Bases, NEW n \in Nat, n >= base, HasNumeral(n \div base, base)
    PROVE  HasNumeral(n, base)
<1>1. PICK q \in Nat, d \in 0..(base - 1) : q = n \div base /\ d = n % base
  BY LastDigit
<1>2. n = q * base + d /\ q < n /\ q > 0
  <2>1. n > 0
    BY DEF Bases
  <2> QED  BY <1>1, <2>1, LastDigit
<1>3. PICK k \in 1..(q + 1) : \E e \in [1..k -> 0..(base - 1)] :
                                  IsNumeral(e, q, base) /\ (q > 0 => e[1] > 0)
  BY <1>1 DEF HasNumeral
<1>4. PICK e \in [1..k -> 0..(base - 1)] : IsNumeral(e, q, base) /\ e[1] > 0
  BY <1>2, <1>3
<1>5. k \in Nat /\ k >= 1 /\ k + 1 \in 1..(n + 1) /\ (k + 1) - 1 = k
  BY <1>2
<1>6. PICK f \in [0..k -> Nat] : /\ ValueOf(e, base) = f[k] /\ f[0] = 0
                                 /\ \A i \in 1..k : f[i] = f[i - 1] * base + e[i]
  BY <1>5, ValueGrows
<1>7. f[k] = q
  BY <1>4, <1>6 DEF IsNumeral
<1> DEFINE digits == [i \in 1..(k + 1) |-> IF i = k + 1 THEN d ELSE e[i]]
           v == [i \in 0..(k + 1) |-> IF i = k + 1 THEN n ELSE f[i]]
<1>8. digits \in [1..(k + 1) -> 0..(base - 1)]
  <2>1. \A i \in 1..(k + 1) : i # k + 1 => i \in 1..k
    BY <1>5
  <2> QED  BY <2>1
<1>9. digits[1] = e[1] /\ v[0] = 0 /\ v[k + 1] = n
  BY <1>5, <1>6
<1>10. \A i \in 1..(k + 1) : v[i] = v[i - 1] * base + digits[i]
  <2> SUFFICES ASSUME NEW i \in 1..(k + 1) PROVE v[i] = v[i - 1] * base + digits[i]
    OBVIOUS
  <2>1. CASE i = k + 1
    <3>1. i - 1 \in 0..(k + 1) /\ i - 1 # k + 1 /\ i - 1 = k /\ i \in 0..(k + 1)
      BY <1>5, <2>1
    <3>2. v[i] = n /\ v[i - 1] = q /\ digits[i] = d
      BY <1>7, <2>1, <3>1
    <3> QED  BY <1>2, <3>2
  <2>2. CASE i # k + 1
    <3>1. i \in 1..k /\ i - 1 # k + 1 /\ i - 1 \in 0..(k + 1) /\ i \in 0..(k + 1)
      BY <1>5, <2>2
    <3>2. v[i] = f[i] /\ v[i - 1] = f[i - 1] /\ digits[i] = e[i]
      BY <2>2, <3>1
    <3> QED  BY <1>6, <3>1, <3>2
  <2> QED  BY <2>1, <2>2
<1> HIDE DEF digits, v
<1>11. ValueOf(digits, base) = n
  <2>1. PICK L \in Nat : L = k + 1
    BY <1>5
  <2>2. ValueOf(digits, base) = v[L]
    <3>1. digits \in [1..L -> 0..(base - 1)] /\ \A i \in 1..L : v[i] = v[i - 1] * base + digits[i]
      BY <1>8, <1>10, <2>1
    <3> QED  BY <1>9, <3>1, ValueFollows
  <2> QED  BY <1>9, <2>1, <2>2
<1>12. e[1] \in Nat /\ digits[1] > 0 /\ digits[1] # 0
  BY <1>4, <1>5, <1>9 DEF Bases
<1>13. IsNumeral(digits, n, base)
  BY <1>11, <1>12 DEF IsNumeral
<1> QED  BY <1>5, <1>8, <1>12, <1>13 DEF HasNumeral

LEMMA EveryNumberHasNumeral ==
    ASSUME NEW base \in Bases, NEW n \in Nat
    PROVE  HasNumeral(n, base)
<1> DEFINE good == {m \in 0..n : \A j \in 0..m : HasNumeral(j, base)}
<1>1. 0 \in good
  <2>1. HasNumeral(0, base)
    BY NumeralOfDigit DEF Bases
  <2> QED  BY <2>1
<1>2. ASSUME NEW m \in 1..n, m - 1 \in good PROVE m \in good
  <2>1. HasNumeral(m, base)
    <3>1. CASE m < base
      BY <3>1, NumeralOfDigit
    <3>2. CASE m >= base
      <4>1. m \div base \in 0..(m - 1)
        BY LastDigit
      <4>2. HasNumeral(m \div base, base)
        BY <1>2, <4>1
      <4> QED  BY <3>2, <4>2, NumeralOfMore
    <3> QED  BY <3>1, <3>2 DEF Bases
  <2>2. \A j \in 0..m : j = m \/ j \in 0..(m - 1)
    OBVIOUS
  <2> QED  BY <1>2, <2>1, <2>2
<1>3. good = 0..n
  <2>1. good \in SUBSET (0..n)
    OBVIOUS
  <2> HIDE DEF good
  <2> QED  BY <1>1, <1>2, <2>1, EveryTurn
<1>4. n \in good
  BY <1>3
<1> QED  BY <1>4

(***************************************************************************)
(* So what Numerals chooses is a numeral.                                  *)
(***************************************************************************)
LEMMA NumeralChosen ==
    ASSUME NEW base \in Bases, NEW n \in 0..UIntMax
    PROVE  \E L \in Nat \ {0} : /\ Numerals[base][n] \in [1..L -> 0..(base - 1)]
                                /\ IsNumeral(Numerals[base][n], n, base)
<1>1. PICK k \in 1..(n + 1) : \E digits \in [1..k -> 0..(base - 1)] : IsNumeral(digits, n, base)
  <2>1. HasNumeral(n, base)
    BY PrintingAssumption, EveryNumberHasNumeral
  <2> QED  BY <2>1, Zenon DEF HasNumeral
<1>2. k \in 1..(UIntMax + 1)
  BY PrintingAssumption
<1>3. PICK L : L = NumeralLength(n, base)
  OBVIOUS
<1>4. L \in 1..(UIntMax + 1) /\ \E digits \in [1..L -> 0..(base - 1)] : IsNumeral(digits, n, base)
  BY <1>1, <1>2, <1>3, Zenon DEF NumeralLength
<1>5. Numerals[base][n] = CHOOSE digits \in [1..L -> 0..(base - 1)] : IsNumeral(digits, n, base)
  BY <1>3 DEF Numerals, Bases
<1>6. L \in Nat \ {0}
  BY <1>4, PrintingAssumption
<1> QED  BY <1>4, <1>5, <1>6, Zenon

(***************************************************************************)
(* What itoa and ki_make_ulong_string fill their buffers with.             *)
(***************************************************************************)
Letters == {lettermap.vprintf, lettermap.ki_printf}

FilledTurns(f, letters, base) ==
    f = [k \in 0..UIntMax |-> IF k = 0 THEN <<>>
                              ELSE Append(f[k \div base], letters[1 + (k % base)])]

Filled(letters, base) == CHOOSE f : FilledTurns(f, letters, base)

(***************************************************************************)
(* The characters.  (STRING has them all; the provers do not know that.)   *)
(***************************************************************************)
Alphabet ==
    STRING \cup {"%", NUL, EofChar, Newline}
           \cup {letters[k] : letters \in Letters, k \in 1..16}

LEMMA LettersAre == \A letters \in Letters : letters \in [1..16 -> Alphabet] /\ letters[1] = "0"
<1> SUFFICES ASSUME NEW letters \in Letters
             PROVE  letters \in [1..16 -> Alphabet] /\ letters[1] = "0"
  OBVIOUS
<1>1. DOMAIN letters = 1..16 /\ letters = [k \in 1..16 |-> letters[k]] /\ letters[1] = "0"
  <2>1. CASE letters = lettermap.vprintf
    BY <2>1 DEF lettermap
  <2>2. CASE letters = lettermap.ki_printf
    BY <2>2 DEF lettermap
  <2> QED  BY <2>1, <2>2 DEF Letters
<1>2. \A k \in 1..16 : letters[k] \in Alphabet
  BY DEF Alphabet
<1> QED  BY <1>1, <1>2

LEMMA TextsAreSequences == \A text \in Seq(STRING) : text \in Seq(Alphabet)
BY DEF Alphabet

LEMMA FilledExists ==
    ASSUME NEW letters \in Letters, NEW base \in Bases
    PROVE  \E f \in [0..UIntMax -> Seq(Alphabet)] : FilledTurns(f, letters, base)
<1>0. UIntMax \in Nat /\ UIntMax \in 0..UIntMax
  BY PrintingAssumption
<1> DEFINE Made(f, k) == IF k = 0 THEN <<>> ELSE Append(f[k \div base], letters[1 + (k % base)])
           good == {n \in 0..UIntMax : \E f \in [0..n -> Seq(Alphabet)] : \A k \in 0..n : f[k] = Made(f, k)}
<1>1. 0 \in good
  <2> DEFINE f == [k \in 0..0 |-> <<>>]
  <2>1. f \in [0..0 -> Seq(Alphabet)] /\ \A k \in 0..0 : f[k] = Made(f, k)
    OBVIOUS
  <2>2. 0 \in 0..UIntMax
    BY PrintingAssumption
  <2> HIDE DEF f, Made
  <2> QED  BY <2>1, <2>2
<1>2. ASSUME NEW n \in 1..UIntMax, n - 1 \in good PROVE n \in good
  <2>1. PICK f \in [0..(n - 1) -> Seq(Alphabet)] : \A k \in 0..(n - 1) : f[k] = Made(f, k)
    BY <1>2
  <2> DEFINE last == Made(f, n)
             g == [k \in 0..n |-> IF k = n THEN last ELSE f[k]]
  <2>2. n \in Nat /\ n > 0 /\ n \in 0..UIntMax /\ \A k \in 0..n : k # n => k \in 0..(n - 1)
    BY PrintingAssumption
  <2>3. \A k \in 1..n : k \div base \in 0..(k - 1) /\ 1 + (k % base) \in 1..16
    <3> SUFFICES ASSUME NEW k \in 1..n PROVE k \div base \in 0..(k - 1) /\ 1 + (k % base) \in 1..16
      OBVIOUS
    <3>1. k \in Nat /\ k > 0
      OBVIOUS
    <3>2. /\ k \div base \in Nat /\ k % base \in 0..(base - 1) /\ k \div base < k
      BY <3>1, LastDigit
    <3> QED  BY <3>1, <3>2 DEF Bases
  <2>4. last \in Seq(Alphabet)
    <3>1. n \div base \in 0..(n - 1) /\ letters[1 + (n % base)] \in Alphabet
      <4>1. n \in 1..n
        BY <2>2
      <4> QED  BY <2>3, <4>1, LettersAre
    <3>2. f[n \div base] \in Seq(Alphabet)
      BY <3>1
    <3>3. last = Append(f[n \div base], letters[1 + (n % base)])
      BY <2>2
    <3> HIDE DEF last
    <3> QED  BY <3>1, <3>2, <3>3
  <2> HIDE DEF last
  <2>5. g \in [0..n -> Seq(Alphabet)] /\ g[n] = last /\ \A k \in 0..(n - 1) : g[k] = f[k]
    BY <2>2, <2>4
  <2> HIDE DEF g
  <2>6. \A k \in 0..n : g[k] = Made(g, k)
    <3> SUFFICES ASSUME NEW k \in 0..n PROVE g[k] = Made(g, k)
      OBVIOUS
    <3>0. CASE k = 0
      <4>1. 0 \in 0..(n - 1) /\ f[0] = <<>>
        BY <2>1, <2>2
      <4> QED  BY <2>5, <3>0, <4>1
    <3>1. ASSUME k # 0
          PROVE  k \in 1..n /\ k \div base \in 0..(k - 1) /\ k \div base \in 0..(n - 1)
      <4>1. k \in 1..n
        BY <3>1
      <4>2. k \div base \in 0..(k - 1)
        BY <2>3, <4>1
      <4> QED  BY <2>2, <4>1, <4>2
    <3>2. k # 0 => g[k \div base] = f[k \div base]
      BY <2>5, <3>1
    <3>3. CASE k # 0 /\ k = n
      BY <2>5, <3>1, <3>2, <3>3 DEF last
    <3>4. CASE k # 0 /\ k # n
      <4>1. g[k] = f[k] /\ f[k] = Made(f, k)
        BY <2>1, <2>2, <2>5, <3>4
      <4> QED  BY <3>1, <3>2, <3>4, <4>1
    <3> QED  BY <3>0, <3>3, <3>4
  <2> HIDE DEF Made
  <2> QED  BY <2>2, <2>5, <2>6
<1>3. good = 0..UIntMax
  <2>1. good \in SUBSET (0..UIntMax)
    OBVIOUS
  <2> HIDE DEF good
  <2> QED  BY <1>1, <1>2, <2>1, EveryTurn, PrintingAssumption
<1>4. UIntMax \in good
  <2> HIDE DEF good
  <2> QED  BY <1>0, <1>3
<1>5. PICK f \in [0..UIntMax -> Seq(Alphabet)] : \A k \in 0..UIntMax : f[k] = Made(f, k)
  BY <1>4
<1>6. FilledTurns(f, letters, base)
  BY <1>5 DEF FilledTurns
<1> QED  BY <1>6

LEMMA FilledIs ==
    ASSUME NEW letters \in Letters, NEW base \in Bases
    PROVE  /\ Filled(letters, base)[0] = <<>>
           /\ \A k \in 1..UIntMax :
                  Filled(letters, base)[k] =
                      Append(Filled(letters, base)[k \div base], letters[1 + (k % base)])
<1>1. FilledTurns(Filled(letters, base), letters, base)
  BY FilledExists, Zenon DEF Filled
<1> DEFINE f == Filled(letters, base)
<1>2. \A k \in 0..UIntMax :
          f[k] = IF k = 0 THEN <<>> ELSE Append(f[k \div base], letters[1 + (k % base)])
  BY <1>1, Zenon DEF FilledTurns
<1> HIDE DEF f
<1>3. 0 \in 0..UIntMax /\ \A k \in 1..UIntMax : k \in 0..UIntMax /\ k # 0
  BY PrintingAssumption
<1>4. f[0] = <<>> /\ \A k \in 1..UIntMax : f[k] = Append(f[k \div base], letters[1 + (k % base)])
  BY <1>2, <1>3
<1> QED  BY <1>4 DEF f

(***************************************************************************)
(* What they fill it with is the numeral.                                  *)
(***************************************************************************)
Written(letters, digits) == [k \in DOMAIN digits |-> letters[digits[k] + 1]]

LEMMA FilledIsNumeral ==
    ASSUME NEW letters \in Letters, NEW base \in Bases, NEW n \in 0..UIntMax
    PROVE  Written(letters, Numerals[base][n]) = IF n = 0 THEN <<"0">> ELSE Filled(letters, base)[n]
<1>0. n \in Nat
  BY PrintingAssumption
<1>1. PICK digits : digits = Numerals[base][n]
  OBVIOUS
<1>2. PICK L \in Nat \ {0} : digits \in [1..L -> 0..(base - 1)] /\ IsNumeral(digits, n, base)
  BY <1>1, NumeralChosen
<1>3. PICK v \in [0..L -> Nat] : /\ ValueOf(digits, base) = v[L] /\ v[0] = 0
                                 /\ \A k \in 1..L : v[k] = v[k - 1] * base + digits[k]
  BY <1>2, ValueGrows
<1>4. v[L] = n /\ (digits[1] = 0 => L = 1)
  <2>1. Len(digits) = L
    BY <1>2
  <2> QED  BY <1>2, <1>3, <2>1 DEF IsNumeral
<1>5. ASSUME NEW k \in 1..L
      PROVE  /\ k \in Nat /\ k - 1 \in 0..L /\ v[k] \in Nat /\ v[k - 1] \in Nat
             /\ v[k] \div base = v[k - 1] /\ v[k] % base = digits[k]
             /\ v[k - 1] <= v[k] /\ (v[k] > 0 <=> v[k - 1] > 0 \/ digits[k] > 0)
  <2>1. k \in Nat /\ k \in 0..L /\ k - 1 \in 0..L /\ v[k] \in Nat /\ v[k - 1] \in Nat
    OBVIOUS
  <2>2. v[k] = v[k - 1] * base + digits[k] /\ digits[k] \in 0..(base - 1)
    BY <1>2, <1>3
  <2> QED  BY <2>1, <2>2, OneMoreDigit
<1>6. \A k \in 0..L : v[k] <= n
  <2> DEFINE good == {k \in 0..L : v[L - k] <= n}
  <2>1. 0 \in good
    BY <1>4
  <2>2. ASSUME NEW k \in 1..L, k - 1 \in good PROVE k \in good
    <3>1. L - (k - 1) \in 1..L /\ (L - (k - 1)) - 1 = L - k /\ k \in 0..L
      OBVIOUS
    <3>2. v[L - k] <= v[L - (k - 1)] /\ v[L - k] \in Nat /\ v[L - (k - 1)] \in Nat
      BY <1>5, <3>1
    <3> QED  BY <2>2, <3>1, <3>2
  <2>3. good = 0..L
    <3>1. good \in SUBSET (0..L)
      OBVIOUS
    <3> HIDE DEF good
    <3> QED  BY <2>1, <2>2, <3>1, EveryTurn
  <2> SUFFICES ASSUME NEW k \in 0..L PROVE v[k] <= n
    OBVIOUS
  <2>4. L - k \in 0..L /\ L - (L - k) = k
    OBVIOUS
  <2>5. L - k \in good
    <3> HIDE DEF good
    <3> QED  BY <2>3, <2>4
  <2> QED  BY <2>4, <2>5
<1>7. 1 \in 1..L /\ v[1] = digits[1] /\ digits[1] \in Nat
  <2>1. 1 \in 1..L /\ 1 - 1 = 0 /\ base \in Nat
    BY DEF Bases
  <2>2. v[1] = 0 * base + digits[1] /\ digits[1] \in 0..(base - 1)
    BY <1>2, <1>3, <2>1
  <2> QED  BY <2>1, <2>2
<1>8. CASE n = 0
  <2>1. digits[1] = 0 /\ L = 1
    BY <1>4, <1>6, <1>7, <1>8
  <2>2. Written(letters, digits) = [k \in 1..1 |-> letters[digits[k] + 1]]
    BY <1>2, <2>1 DEF Written
  <2>3. \A k \in 1..1 : letters[digits[k] + 1] = "0"
    BY <2>1, LettersAre
  <2>4. [k \in 1..1 |-> letters[digits[k] + 1]] = <<"0">>
    BY <2>3
  <2> QED  BY <1>1, <1>8, <2>2, <2>4
<1>9. CASE n # 0
  <2>1. digits[1] > 0
    <3>1. digits[1] # 0
      BY <1>4, <1>7, <1>9
    <3> QED  BY <1>7, <3>1
  <2> DEFINE Made(j) == [k \in 1..j |-> letters[digits[k] + 1]]
             good == {j \in 0..L : (j > 0 => v[j] > 0) /\ Filled(letters, base)[v[j]] = Made(j)}
  <2>2. 0 \in good
    <3>1. Made(0) = <<>>
      OBVIOUS
    <3> QED  BY <1>3, <3>1, FilledIs
  <2>3. ASSUME NEW j \in 1..L, j - 1 \in good PROVE j \in good
    <3>1. v[j] > 0
      <4>1. CASE j = 1
        BY <1>7, <2>1, <4>1
      <4>2. CASE j # 1
        BY <1>5, <2>3, <4>2
      <4> QED  BY <4>1, <4>2
    <3>2. v[j] \in 1..UIntMax
      <4>1. v[j] <= n /\ v[j] \in Nat
        BY <1>5, <1>6
      <4> QED  BY <3>1, <4>1, PrintingAssumption
    <3>3. Filled(letters, base)[v[j]] = Append(Filled(letters, base)[v[j - 1]], letters[1 + digits[j]])
      BY <1>5, <3>2, FilledIs
    <3>4. Filled(letters, base)[v[j]] = Append(Made(j - 1), letters[digits[j] + 1])
      <4>1. digits[j] \in Nat
        BY <1>2 DEF Bases
      <4>2. 1 + digits[j] = digits[j] + 1
        BY <4>1
      <4> QED  BY <2>3, <3>3, <4>2
    <3>5. Append(Made(j - 1), letters[digits[j] + 1]) = Made(j)
      <4>1. \A k \in 1..j : digits[k] + 1 \in 1..16
        <5> SUFFICES ASSUME NEW k \in 1..j PROVE digits[k] + 1 \in 1..16
          OBVIOUS
        <5>1. k \in 1..L
          OBVIOUS
        <5>2. PICK d : d = digits[k]
          OBVIOUS
        <5>3. d \in 0..(base - 1)
          BY <1>2, <5>1, <5>2
        <5>4. base \in {2, 8, 10, 16}
          BY DEF Bases
        <5>5. d + 1 \in 1..16
          BY <5>3, <5>4
        <5> QED  BY <5>2, <5>5
      <4>2. \A k \in 1..j : letters[digits[k] + 1] \in Alphabet
        BY <4>1, LettersAre
      <4>3. Made(j - 1) \in Seq(Alphabet) /\ Len(Made(j - 1)) = j - 1
        BY <4>2
      <4>4. Made(j) \in Seq(Alphabet) /\ Len(Made(j)) = j /\ \A k \in 1..j : Made(j)[k] = letters[digits[k] + 1]
        BY <4>2
      <4>5. \A k \in 1..(j - 1) : Made(j - 1)[k] = letters[digits[k] + 1]
        OBVIOUS
      <4> HIDE DEF Made
      <4> DEFINE a == Append(Made(j - 1), letters[digits[j] + 1])
      <4>6. a \in Seq(Alphabet) /\ Len(a) = j /\ \A k \in 1..j : a[k] = Made(j)[k]
        <5>1. letters[digits[j] + 1] \in Alphabet /\ j \in Nat /\ j \in 1..j
          BY <4>2
        <5>2. PICK m \in Seq(Alphabet), c \in Alphabet : m = Made(j - 1) /\ c = letters[digits[j] + 1]
          BY <4>3, <5>1
        <5>3. a = Append(m, c) /\ Len(m) = j - 1
          BY <4>3, <5>2
        <5>4. a \in Seq(Alphabet) /\ Len(a) = j /\ a[j] = c /\ \A k \in 1..(j - 1) : a[k] = m[k]
          <6>1. j > 0
            OBVIOUS
          <6> HIDE DEF a, Made
          <6> QED  BY <5>1, <5>3, <6>1
        <5>5. ASSUME NEW k \in 1..j PROVE a[k] = Made(j)[k]
          <6> HIDE DEF a
          <6>1. Made(j)[k] = letters[digits[k] + 1]
            BY <4>4
          <6>2. CASE k = j
            BY <5>2, <5>4, <6>1, <6>2
          <6>3. CASE k # j
            <7>1. k \in 1..(j - 1)
              BY <6>3
            <7>2. m[k] = letters[digits[k] + 1]
              BY <4>5, <5>2, <7>1
            <7> QED  BY <5>4, <6>1, <7>1, <7>2
          <6> QED  BY <6>2, <6>3
        <5> QED  BY <5>4, <5>5
      <4> HIDE DEF a
      <4>7. a = Made(j)
        BY <4>4, <4>6
      <4> QED  BY <4>7 DEF a
    <3>6. j \in 0..L
      OBVIOUS
    <3> HIDE DEF Made
    <3> QED  BY <3>1, <3>4, <3>5, <3>6
  <2>4. good = 0..L
    <3>1. good \in SUBSET (0..L)
      OBVIOUS
    <3> HIDE DEF good
    <3> QED  BY <2>2, <2>3, <3>1, EveryTurn
  <2>5. L \in good
    <3> HIDE DEF good
    <3> QED  BY <2>4
  <2>6. Filled(letters, base)[n] = [k \in 1..L |-> letters[digits[k] + 1]]
    BY <1>4, <2>5
  <2>7. DOMAIN digits = 1..L
    BY <1>2
  <2> QED  BY <1>1, <1>9, <2>6, <2>7 DEF Written
<1> QED  BY <1>8, <1>9

(***************************************************************************)
(* A number below the m-th power of two has m digits at most, so the       *)
(* digits of every unsigned int fit itoa's buffer.                         *)
(***************************************************************************)
Fitting == ITOA_BUFFER_SIZE - 1

LEMMA PowersOf2 ==
    /\ Fitting \in Nat
    /\ PowerOf2[0] = 1
    /\ \A k \in 1..Fitting : PowerOf2[k] = 2 * PowerOf2[k - 1] /\ PowerOf2[k - 1] \in Nat
<1> DEFINE Turns(f) == f = [k \in 0..Fitting |-> IF k = 0 THEN 1 ELSE 2 * f[k - 1]]
           F == [i \in Nat |-> [x \in Nat |-> 2 * x]]
<1>1. Fitting \in Nat /\ 0 \in 0..Fitting
  BY PrintingAssumption DEF Fitting
<1>2. F \in [Nat -> [Nat -> Nat]] /\ \A i \in Nat : \A x \in Nat : F[i][x] = 2 * x
  OBVIOUS
<1> HIDE DEF F
<1>3. PICK f \in [0..Fitting -> Nat] : Loop(f, Fitting, 1, F)
  BY <1>1, <1>2, LoopExists
<1>4. \A k \in 0..Fitting : f[k] = IF k = 0 THEN 1 ELSE 2 * f[k - 1]
  <2> SUFFICES ASSUME NEW k \in 0..Fitting PROVE f[k] = IF k = 0 THEN 1 ELSE 2 * f[k - 1]
    OBVIOUS
  <2>1. f[k] = IF k = 0 THEN 1 ELSE F[k][f[k - 1]]
    BY <1>3 DEF Loop
  <2>2. k # 0 => k \in Nat /\ f[k - 1] \in Nat
    BY <1>1
  <2> QED  BY <1>2, <2>1, <2>2
<1>5. Turns(f)
  BY <1>4
<1>6. Turns(PowerOf2)
  BY <1>5, Zenon DEF PowerOf2, Fitting
<1>7. \A k \in 0..Fitting : PowerOf2[k] = IF k = 0 THEN 1 ELSE 2 * PowerOf2[k - 1]
  BY <1>6
<1>8. \A k \in 1..Fitting : k \in 0..Fitting /\ k # 0
  BY <1>1
<1>9. \A k \in 0..Fitting : PowerOf2[k] \in Nat
  <2> DEFINE good == {k \in 0..Fitting : PowerOf2[k] \in Nat}
  <2>1. 0 \in good
    BY <1>1, <1>7
  <2>2. ASSUME NEW k \in 1..Fitting, k - 1 \in good PROVE k \in good
    BY <1>7, <1>8, <2>2
  <2>3. good = 0..Fitting
    <3>1. good \in SUBSET (0..Fitting)
      OBVIOUS
    <3> HIDE DEF good
    <3> QED  BY <1>1, <2>1, <2>2, <3>1, EveryTurn
  <2> QED  BY <2>3
<1>10. \A k \in 1..Fitting : k - 1 \in 0..Fitting
  BY <1>1
<1> QED  BY <1>1, <1>7, <1>8, <1>9, <1>10

LEMMA FilledShort ==
    ASSUME NEW letters \in Letters, NEW base \in Bases, NEW n \in 1..UIntMax
    PROVE  Filled(letters, base)[n] \in Seq(Alphabet) /\ Len(Filled(letters, base)[n]) <= Fitting
<1> DEFINE f == Filled(letters, base)
<1>1. Fitting \in Nat /\ UIntMax \in Nat /\ UIntMax < PowerOf2[Fitting]
  BY PowersOf2, PrintingAssumption, BufferAssumption DEF Fitting
<1>2. ASSUME NEW k \in 0..UIntMax PROVE f[k] \in Seq(Alphabet)
  <2>1. CASE k = 0
    <3>1. f[0] = <<>>
      BY FilledIs
    <3>2. <<>> \in Seq(Alphabet)
      OBVIOUS
    <3> HIDE DEF f
    <3> QED  BY <2>1, <3>1, <3>2
  <2>2. CASE k # 0
    <3>1. PICK L \in Nat \ {0} : Numerals[base][k] \in [1..L -> 0..(base - 1)]
      BY NumeralChosen
    <3>2. f[k] = [i \in 1..L |-> letters[Numerals[base][k][i] + 1]]
      <4>1. DOMAIN Numerals[base][k] = 1..L
        BY <3>1
      <4>2. f[k] = Written(letters, Numerals[base][k])
        BY <2>2, FilledIsNumeral
      <4> QED  BY <4>1, <4>2 DEF Written
    <3>3. ASSUME NEW i \in 1..L PROVE letters[Numerals[base][k][i] + 1] \in Alphabet
      <4>1. PICK d : d = Numerals[base][k][i]
        OBVIOUS
      <4>2. d \in 0..(base - 1)
        BY <3>1, <4>1
      <4>3. base \in {2, 8, 10, 16}
        BY DEF Bases
      <4>4. d + 1 \in 1..16
        BY <4>2, <4>3
      <4> QED  BY <4>1, <4>4, LettersAre
    <3>4. [i \in 1..L |-> letters[Numerals[base][k][i] + 1]] \in Seq(Alphabet)
      BY <3>3
    <3> HIDE DEF f
    <3> QED  BY <3>2, <3>4
  <2> QED  BY <2>1, <2>2
<1> DEFINE good == {m \in 0..Fitting : \A k \in 0..UIntMax : k < PowerOf2[m] => Len(f[k]) <= m}
<1>3. 0 \in good
  <2>1. Len(f[0]) <= 0
    BY FilledIs
  <2>2. 0 \in 0..Fitting /\ \A k \in 0..UIntMax : k < 1 => k = 0
    BY <1>1
  <2> QED  BY <2>1, <2>2, PowersOf2
<1>4. ASSUME NEW m \in 1..Fitting, m - 1 \in good PROVE m \in good
  <2>1. m \in 0..Fitting /\ m \in Nat
    BY <1>1
  <2>2. ASSUME NEW k \in 0..UIntMax, k < PowerOf2[m] PROVE Len(f[k]) <= m
    <3>1. CASE k = 0
      BY <2>1, <3>1, FilledIs
    <3>2. CASE k # 0
      <4>1. PICK q : q = k \div base
        OBVIOUS
      <4>2. PICK p \in Nat : p = PowerOf2[m - 1] /\ PowerOf2[m] = 2 * p
        BY PowersOf2
      <4>3. k \in 1..UIntMax /\ k \in Nat /\ k < 2 * p
        BY <1>1, <2>2, <3>2, <4>2
      <4>4. q \in Nat /\ q < p /\ q <= k
        <5>1. CASE base = 2
          BY <4>1, <4>3, <5>1
        <5>2. CASE base = 8
          BY <4>1, <4>3, <5>2
        <5>3. CASE base = 10
          BY <4>1, <4>3, <5>3
        <5>4. CASE base = 16
          BY <4>1, <4>3, <5>4
        <5> QED  BY <5>1, <5>2, <5>3, <5>4 DEF Bases
      <4>5. q \in 0..UIntMax
        BY <1>1, <4>3, <4>4
      <4>6. Len(f[q]) <= m - 1 /\ f[q] \in Seq(Alphabet)
        BY <1>2, <1>4, <4>2, <4>4, <4>5
      <4>7. f[k] = Append(f[q], letters[1 + (k % base)])
        BY <4>1, <4>3, FilledIs
      <4> HIDE DEF f
      <4>8. Len(f[k]) = Len(f[q]) + 1 /\ Len(f[q]) \in Nat
        BY <4>6, <4>7
      <4> QED  BY <2>1, <4>6, <4>8
    <3> QED  BY <3>1, <3>2
  <2> QED  BY <2>1, <2>2
<1>5. good = 0..Fitting
  <2>1. good \in SUBSET (0..Fitting)
    OBVIOUS
  <2> HIDE DEF good
  <2> QED  BY <1>1, <1>3, <1>4, <2>1, EveryTurn
<1>6. Fitting \in good
  <2> HIDE DEF good
  <2> QED  BY <1>1, <1>5
<1>7. n \in 0..UIntMax /\ n < PowerOf2[Fitting]
  <2>1. PowerOf2[Fitting] \in Nat
    <3>1. Fitting # 0 => Fitting \in 1..Fitting
      BY <1>1
    <3>2. \A k \in 1..Fitting : 2 * PowerOf2[k - 1] \in Nat
      BY PowersOf2
    <3> QED  BY <3>1, <3>2, PowersOf2
  <2> QED  BY <1>1, <2>1
<1> QED  BY <1>2, <1>6, <1>7

LEMMA DigitsMean ==
    ASSUME printer \in {"vprintf", "ki_printf"}, NEW base \in Bases, NEW n \in 0..UIntMax
    PROVE  /\ Digits(n, base) = Written(lettermap[printer], Numerals[base][n])
           /\ Digits(n, base) \in Seq(Alphabet) /\ itoa_fits(Digits(n, base))
<1>1. PICK letters \in Letters : letters = lettermap[printer]
  BY DEF Letters
<1>2. PICK f : f = Filled(letters, base)
  OBVIOUS
<1>3. Digits(n, base) = IF n = 0 THEN <<"0">> ELSE f[n]
  <2>1. Digits(n, base) = IF n = 0 THEN <<"0">> ELSE Filled(lettermap[printer], base)[n]
    BY Zenon DEF Digits, Filled, FilledTurns
  <2> QED  BY <1>1, <1>2, <2>1
<1>4. Digits(n, base) = Written(letters, Numerals[base][n])
  BY <1>2, <1>3, FilledIsNumeral
<1>5. CASE n = 0
  <2>1. Digits(n, base) = <<"0">>
    BY <1>3, <1>5
  <2>2. "0" \in Alphabet
    <3>1. 1 \in 1..16
      OBVIOUS
    <3>2. letters[1] \in Alphabet /\ letters[1] = "0"
      BY <3>1, LettersAre
    <3> QED  BY <3>2
  <2>3. Fitting >= 1
    <3>1. UIntMax \in Nat /\ UIntMax >= 1 /\ UIntMax < PowerOf2[Fitting]
      BY PrintingAssumption, BufferAssumption DEF Fitting
    <3>2. Fitting # 0
      BY <3>1, PowersOf2
    <3> QED  BY <3>2, PowersOf2
  <2>4. Len(<<"0">>) = 1 /\ <<"0">> \in Seq(Alphabet)
    BY <2>2
  <2> QED  BY <1>1, <1>4, <2>1, <2>3, <2>4 DEF itoa_fits, Fitting
<1>6. CASE n # 0
  <2>1. n \in 1..UIntMax
    BY <1>6, PrintingAssumption
  <2>2. Digits(n, base) \in Seq(Alphabet) /\ Len(Digits(n, base)) <= Fitting
    BY <1>2, <1>3, <1>6, <2>1, FilledShort
  <2> QED  BY <1>1, <1>4, <2>2 DEF itoa_fits, Fitting
<1> QED  BY <1>5, <1>6

LEMMA NumeralIsText ==
    ASSUME NEW letters \in Letters, NEW base \in Bases, NEW n \in 0..UIntMax
    PROVE  Written(letters, Numerals[base][n]) \in Seq(Alphabet)
<1>1. CASE n = 0
  <2>1. letters[1] \in Alphabet /\ letters[1] = "0"
    <3>1. 1 \in 1..16
      OBVIOUS
    <3> QED  BY <3>1, LettersAre
  <2>2. <<"0">> \in Seq(Alphabet)
    BY <2>1
  <2> QED  BY <1>1, <2>2, FilledIsNumeral
<1>2. CASE n # 0
  <2>1. n \in 1..UIntMax
    BY <1>2, PrintingAssumption
  <2> QED  BY <1>2, <2>1, FilledIsNumeral, FilledShort
<1> QED  BY <1>1, <1>2

-------------------------------------------------------------------------------
(***************************************************************************)
(* Formats.  A boundary has an even number of "%" in front of it.          *)
(***************************************************************************)
PercentsBefore(job, i) == {j \in 1..(i - 1) : \A k \in j..(i - 1) : job.fmt[k] = "%"}

AtBoundary(job, i) == Cardinality(PercentsBefore(job, i)) % 2 = 0

LEMMA BoundaryMoves ==
    ASSUME NEW job
    PROVE  /\ AtBoundary(job, 1)
           /\ \A i \in Nat \ {0} :
                  IF job.fmt[i] = "%" THEN AtBoundary(job, i + 1) <=> ~ AtBoundary(job, i)
                  ELSE AtBoundary(job, i + 1)
<1>1. AtBoundary(job, 1)
  <2>1. PercentsBefore(job, 1) = {}
    BY DEF PercentsBefore
  <2> QED  BY <2>1, FS_EmptySet DEF AtBoundary
<1>2. ASSUME NEW i \in Nat \ {0}, job.fmt[i] # "%" PROVE AtBoundary(job, i + 1)
  <2>1. PercentsBefore(job, i + 1) = {}
    <3> SUFFICES ASSUME NEW j \in 1..i, \A k \in j..i : job.fmt[k] = "%" PROVE FALSE
      BY DEF PercentsBefore
    <3>1. i \in j..i
      OBVIOUS
    <3> QED  BY <1>2, <3>1
  <2> QED  BY <2>1, FS_EmptySet DEF AtBoundary
<1>3. ASSUME NEW i \in Nat \ {0}, job.fmt[i] = "%"
      PROVE  AtBoundary(job, i + 1) <=> ~ AtBoundary(job, i)
  <2>1. PercentsBefore(job, i + 1) = PercentsBefore(job, i) \cup {i}
    <3>1. ASSUME NEW j \in 1..i
          PROVE  (\A k \in j..i : job.fmt[k] = "%") <=>
                     j = i \/ \A k \in j..(i - 1) : job.fmt[k] = "%"
      <4>1. \A k \in j..i : k = i \/ k \in j..(i - 1)
        OBVIOUS
      <4>2. \A k \in j..(i - 1) : k \in j..i
        OBVIOUS
      <4>3. j = i => \A k \in j..i : k = i
        OBVIOUS
      <4> QED  BY <1>3, <4>1, <4>2, <4>3
    <3>2. i \in 1..i /\ (i + 1) - 1 = i /\ \A j \in 1..i : j = i \/ j \in 1..(i - 1)
      OBVIOUS
    <3>3. \A j \in 1..(i - 1) : j \in 1..i
      OBVIOUS
    <3> QED  BY <3>1, <3>2, <3>3 DEF PercentsBefore
  <2>2. IsFiniteSet(PercentsBefore(job, i)) /\ i \notin PercentsBefore(job, i)
    <3>1. PercentsBefore(job, i) \subseteq 1..(i - 1) /\ IsFiniteSet(1..(i - 1))
      BY FS_Interval DEF PercentsBefore
    <3>2. i \notin 1..(i - 1)
      OBVIOUS
    <3> QED  BY <3>1, <3>2, FS_Subset
  <2>3. PICK n \in Nat : n = Cardinality(PercentsBefore(job, i))
    BY <2>2, FS_CardinalityType
  <2>4. Cardinality(PercentsBefore(job, i + 1)) = n + 1
    BY <2>1, <2>2, <2>3, FS_AddElement
  <2>5. (n + 1) % 2 = 0 <=> ~ (n % 2 = 0)
    OBVIOUS
  <2> QED  BY <2>3, <2>4, <2>5 DEF AtBoundary
<1> QED  BY <1>1, <1>2, <1>3

(***************************************************************************)
(* How many arguments the directives up to a place take.                   *)
(***************************************************************************)
Taken(job, i) == Cardinality({j \in 1..i : TakesArgument(job, j)})

LEMMA TakenGrows ==
    ASSUME NEW job
    PROVE  /\ Taken(job, 0) = 0
           /\ \A i \in Nat \ {0} :
                  /\ Taken(job, i) \in Nat /\ Taken(job, i - 1) \in Nat
                  /\ TakesArgument(job, i) => Taken(job, i) = Taken(job, i - 1) + 1
                  /\ ~ TakesArgument(job, i) => Taken(job, i) = Taken(job, i - 1)
<1> DEFINE Takers(i) == {j \in 1..i : TakesArgument(job, j)}
<1>1. Taken(job, 0) = 0
  <2>1. Takers(0) = {}
    OBVIOUS
  <2> QED  BY <2>1, FS_EmptySet DEF Taken
<1>2. \A i \in Nat : IsFiniteSet(Takers(i)) /\ Taken(job, i) \in Nat
  <2> SUFFICES ASSUME NEW i \in Nat PROVE IsFiniteSet(Takers(i)) /\ Taken(job, i) \in Nat
    OBVIOUS
  <2>1. Takers(i) \subseteq 1..i /\ IsFiniteSet(1..i)
    BY FS_Interval
  <2>2. IsFiniteSet(Takers(i))
    <3> HIDE DEF Takers
    <3> QED  BY <2>1, FS_Subset
  <2> QED  BY <2>2, FS_CardinalityType DEF Taken
<1>3. ASSUME NEW i \in Nat \ {0}
      PROVE  /\ TakesArgument(job, i) => Taken(job, i) = Taken(job, i - 1) + 1
             /\ ~ TakesArgument(job, i) => Taken(job, i) = Taken(job, i - 1)
  <2>1. /\ i \in 1..i /\ i \notin 1..(i - 1) /\ i - 1 \in Nat
        /\ \A j : j \in 1..i <=> j = i \/ j \in 1..(i - 1)
    OBVIOUS
  <2>2. CASE TakesArgument(job, i)
    <3>1. Takers(i) = Takers(i - 1) \cup {i} /\ i \notin Takers(i - 1)
      BY <2>1, <2>2
    <3>2. Cardinality(Takers(i - 1) \cup {i}) = Cardinality(Takers(i - 1)) + 1
      <4>1. IsFiniteSet(Takers(i - 1))
        BY <1>2, <2>1
      <4> HIDE DEF Takers
      <4> QED  BY <3>1, <4>1, FS_AddElement
    <3> QED  BY <2>2, <3>1, <3>2 DEF Taken
  <2>3. CASE ~ TakesArgument(job, i)
    <3>1. Takers(i) = Takers(i - 1)
      BY <2>1, <2>3
    <3> QED  BY <2>3, <3>1 DEF Taken
  <2> QED  BY <2>2, <2>3
<1>4. \A i \in Nat \ {0} : i \in Nat /\ i - 1 \in Nat
  OBVIOUS
<1> QED  BY <1>1, <1>2, <1>3, <1>4

(***************************************************************************)
(* What stands at a boundary is a character or a directive.                *)
(***************************************************************************)
Contract(job) ==
    /\ job.printer \in Printers /\ job.fmt \in Seq(STRING)
    /\ HasDirectives(job) =>
          \A i \in DOMAIN job.fmt :
              TakesArgument(job, i) => Suits(ArgumentOf(job, i), Directive(job, i))

LEMMA ConversionsAre ==
    ASSUME NEW name \in {"vprintf", "ki_printf"}
    PROVE  /\ "%" \notin ConversionsOf(name) /\ NUL \notin ConversionsOf(name)
           /\ {"c", "s"} \cap DOMAIN Numeric[name] = {}
           /\ \A c \in DOMAIN Numeric[name] : Numeric[name][c] \in Bases
BY DEF ConversionsOf, Numeric, NUL, Bases

LEMMA CharacterMeans ==
    ASSUME NEW job, NEW i \in Nat \ {0}, AtBoundary(job, i), job.fmt[i] # "%"
    PROVE  /\ MeaningAt(job, i) = <<job.fmt[i]>> /\ ~ TakesArgument(job, i)
           /\ AtBoundary(job, i + 1)
<1>1. ~ Starts(job, i) /\ AtBoundary(job, i + 1)
  BY BoundaryMoves DEF Starts
<1>2. ~ (i > 1 /\ Starts(job, i - 1))
  <2> SUFFICES ASSUME i > 1, Starts(job, i - 1) PROVE FALSE
    OBVIOUS
  <2>1. i - 1 \in Nat \ {0} /\ (i - 1) + 1 = i
    OBVIOUS
  <2>2. job.fmt[i - 1] = "%" /\ AtBoundary(job, i - 1)
    BY DEF Starts, AtBoundary, PercentsBefore
  <2> QED  BY <2>1, <2>2, BoundaryMoves
<1> QED  BY <1>1, <1>2 DEF MeaningAt, TakesArgument

LEMMA DirectiveMeans ==
    ASSUME NEW job, HasDirectives(job), NEW i \in Nat \ {0}, AtBoundary(job, i), job.fmt[i] = "%"
    PROVE  /\ Starts(job, i) /\ AtBoundary(job, i + 2)
           /\ MeaningAt(job, i + 1) = <<>> /\ ~ TakesArgument(job, i + 1)
           /\ Directive(job, i) = "%" => MeaningAt(job, i) = <<"%">> /\ ~ TakesArgument(job, i)
           /\ Directive(job, i) \in ConversionsOf(job.printer) =>
                 /\ TakesArgument(job, i)
                 /\ MeaningAt(job, i) = Meant(job.printer, Directive(job, i), ArgumentOf(job, i))
<1>1. Starts(job, i)
  BY DEF Starts, AtBoundary, PercentsBefore
<1>2. i + 1 \in Nat \ {0} /\ (i + 1) + 1 = i + 2 /\ (i + 1) - 1 = i /\ i + 1 > 1
  OBVIOUS
<1>3. ~ AtBoundary(job, i + 1)
  BY BoundaryMoves
<1>4. AtBoundary(job, i + 2)
  BY <1>2, <1>3, BoundaryMoves
<1>5. ~ Starts(job, i + 1)
  BY <1>3 DEF Starts, AtBoundary, PercentsBefore
<1>6. "%" \notin ConversionsOf(job.printer)
  BY ConversionsAre DEF HasDirectives
<1> QED  BY <1>1, <1>2, <1>4, <1>5, <1>6 DEF MeaningAt, TakesArgument

Signless(conversion, argument) ==
    conversion \in SignedConversions => SignedValue(argument) >= 0

LEMMA Values ==
    ASSUME NEW a \in Int
    PROVE  /\ AsUInt(a) \in 0..UIntMax /\ UnsignedValue(a) = AsUInt(a)
           /\ SignedValue(a) \in Int /\ (SignedValue(a) >= 0 => SignedValue(a) = AsUInt(a))
<1>1. PICK m \in Nat \ {0} : m = UIntMax
  BY PrintingAssumption
<1>2. PICK w \in 0..m : w = a % (m + 1)
  BY <1>1
<1> QED  BY <1>1, <1>2 DEF AsUInt, UnsignedValue, SignedValue

LEMMA ArgumentMeans ==
    ASSUME NEW name \in {"vprintf", "ki_printf"}, NEW c \in ConversionsOf(name), NEW a, Suits(a, c)
    PROVE  /\ Signless(c, a) => Meant(name, c, a) \in Seq(Alphabet)
           /\ c \notin {"c", "s"} =>
                  /\ c \in DOMAIN Numeric[name] /\ Numeric[name][c] \in Bases
                  /\ AsUInt(a) \in 0..UIntMax
                  /\ Signless(c, a) =>
                        Meant(name, c, a) =
                            Written(lettermap[name], Numerals[Numeric[name][c]][AsUInt(a)])
<1>1. CASE c = "c"
  <2>1. a \in Alphabet
    BY <1>1 DEF Suits, Alphabet
  <2>2. <<a>> \in Seq(Alphabet)
    BY <2>1
  <2>3. Meant(name, c, a) = <<a>>
    BY <1>1 DEF Meant, SignedConversions
  <2> QED  BY <1>1, <2>2, <2>3
<1>2. CASE c = "s"
  <2>1. a \in Seq(STRING)
    BY <1>2 DEF Suits
  <2>2. Meant(name, c, a) = a
    BY <1>2 DEF Meant, SignedConversions
  <2> QED  BY <1>2, <2>1, <2>2, TextsAreSequences
<1>3. CASE c \notin {"c", "s"}
  <2>1. c \in DOMAIN Numeric[name] /\ a \in Int
    BY <1>3 DEF ConversionsOf, Suits
  <2>2. AsUInt(a) \in 0..UIntMax
    BY <2>1, Values
  <2>3. Numeric[name][c] \in Bases
    BY <2>1, ConversionsAre
  <2>4. ASSUME Signless(c, a)
        PROVE  Meant(name, c, a) = NumeralText(name, AsUInt(a), Numeric[name][c])
    <3>1. CASE c \in SignedConversions
      <4>1. SignedValue(a) = AsUInt(a) /\ ~ (SignedValue(a) < 0)
        BY <2>1, <2>4, <3>1, Values DEF Signless
      <4>2. Numeric[name][c] = 10
        BY <3>1 DEF SignedConversions, Numeric
      <4> QED  BY <1>3, <3>1, <4>1, <4>2 DEF Meant
    <3>2. CASE c \notin SignedConversions
      BY <1>3, <2>1, <3>2, Values DEF Meant
    <3> QED  BY <3>1, <3>2
  <2>5. NumeralText(name, AsUInt(a), Numeric[name][c]) =
            Written(lettermap[name], Numerals[Numeric[name][c]][AsUInt(a)])
    BY DEF NumeralText, Written
  <2>6. lettermap[name] \in Letters
    BY DEF Letters
  <2> QED  BY <1>3, <2>1, <2>2, <2>3, <2>4, <2>5, <2>6, NumeralIsText
<1> QED  BY <1>1, <1>2, <1>3

LEMMA ConversionPrints ==
    ASSUME printer \in {"vprintf", "ki_printf"}, NEW c \in Conversions, Suits(Argument, c)
    PROVE  /\ ConversionText(c) \in Seq(Alphabet)
           /\ Signless(c, Argument) => ConversionText(c) = Meant(printer, c, Argument)
           /\ c \in DOMAIN Numeric[printer] => itoa_fits(ConversionText(c))
<1>1. c \in ConversionsOf(printer)
  BY DEF Conversions
<1>2. CASE c \in {"c", "s"}
  <2>1. c \notin DOMAIN Numeric[printer]
    BY <1>2, ConversionsAre
  <2>2. c \notin SignedConversions
    BY <1>2 DEF SignedConversions
  <2>3. ConversionText(c) = Meant(printer, c, Argument)
    BY <1>2 DEF ConversionText, Meant, SignedConversions
  <2> QED  BY <1>1, <2>1, <2>2, <2>3, ArgumentMeans DEF Signless
<1>3. CASE c \notin {"c", "s"}
  <2>1. PICK n \in 0..UIntMax, base \in Bases : n = AsUInt(Argument) /\ base = Numeric[printer][c]
    BY <1>1, <1>3, ArgumentMeans
  <2>2. ConversionText(c) = Digits(n, base)
    BY <1>3, <2>1 DEF ConversionText
  <2>3. Signless(c, Argument) =>
            Meant(printer, c, Argument) = Written(lettermap[printer], Numerals[base][n])
    BY <1>1, <1>3, <2>1, ArgumentMeans
  <2> QED  BY <2>2, <2>3, DigitsMean
<1> QED  BY <1>2, <1>3

(***************************************************************************)
(* What the format means up to a place.                                    *)
(***************************************************************************)
Good(job) == Contract(job) /\ HasDirectives(job) /\ Settled(job)

LEMMA PieceMeans ==
    ASSUME NEW job, Good(job), NEW i \in DOMAIN job.fmt
    PROVE  MeaningAt(job, i) \in Seq(Alphabet)
<1>1. job.printer \in {"vprintf", "ki_printf"} /\ job.fmt \in Seq(STRING) /\ job.fmt[i] \in STRING
  BY DEF Good, HasDirectives, Contract
<1>2. /\ "%" \in Alphabet /\ job.fmt[i] \in Alphabet
  BY <1>1 DEF Alphabet
<1>3. <<"%">> \in Seq(Alphabet) /\ <<>> \in Seq(Alphabet) /\ <<job.fmt[i]>> \in Seq(Alphabet)
  BY <1>2
<1>4. ASSUME Starts(job, i), Directive(job, i) # "%"
      PROVE  Meant(job.printer, Directive(job, i), ArgumentOf(job, i)) \in Seq(Alphabet)
  <2>1. Directive(job, i) \in ConversionsOf(job.printer)
    BY <1>4 DEF Good, Settled, WellFormed
  <2>2. Suits(ArgumentOf(job, i), Directive(job, i))
    BY <1>4, <2>1 DEF Good, Contract, TakesArgument
  <2>3. Signless(Directive(job, i), ArgumentOf(job, i))
    BY <1>4, <2>1 DEF Good, Settled, NoNegative, TakesArgument, Signless
  <2> QED  BY <1>1, <2>1, <2>2, <2>3, ArgumentMeans
<1> QED  BY <1>3, <1>4 DEF MeaningAt

Accumulates(g, job) ==
    /\ g \in [0..Len(job.fmt) -> Seq(Alphabet)] /\ g[0] = <<>>
    /\ \A k \in 1..Len(job.fmt) : g[k] = g[k - 1] \o MeaningAt(job, k)
    /\ Meaning(job) = g[Len(job.fmt)]

MeaningTo(job) == CHOOSE g : Accumulates(g, job)

JoinTurns(f, s) == f = [i \in 1..Len(s) |-> IF i = 1 THEN s[i] ELSE f[i - 1] \o s[i]]

LEMMA MeaningAccumulates ==
    ASSUME NEW job, Good(job)
    PROVE  Accumulates(MeaningTo(job), job)
<1>1. PICK n \in Nat : n = Len(job.fmt) /\ DOMAIN job.fmt = 1..n
  BY DEF Good, Contract
<1> DEFINE s == [i \in DOMAIN job.fmt |-> MeaningAt(job, i)]
           F == [i \in Nat |-> [x \in Seq(Alphabet) |-> IF i \in 1..n THEN x \o MeaningAt(job, i) ELSE x]]
<1>2. Len(s) = n /\ \A i \in 1..n : s[i] = MeaningAt(job, i) /\ s[i] \in Seq(Alphabet)
  BY <1>1, PieceMeans
<1>3. F \in [Nat -> [Seq(Alphabet) -> Seq(Alphabet)]]
  <2>1. ASSUME NEW i \in Nat, NEW x \in Seq(Alphabet)
        PROVE  (IF i \in 1..n THEN x \o MeaningAt(job, i) ELSE x) \in Seq(Alphabet)
    BY <1>1, PieceMeans
  <2> QED  BY <2>1
<1>4. \A i \in 1..n : \A x \in Seq(Alphabet) : F[i][x] = x \o s[i]
  BY <1>2
<1> HIDE DEF F
<1>5. PICK g \in [0..n -> Seq(Alphabet)] : Loop(g, n, <<>>, F)
  <2>1. <<>> \in Seq(Alphabet)
    OBVIOUS
  <2> QED  BY <1>3, <2>1, LoopExists
<1>6. g[0] = <<>> /\ \A k \in 1..n : g[k] = g[k - 1] \o s[k]
  <2>1. \A i \in 0..n : g[i] = IF i = 0 THEN <<>> ELSE F[i][g[i - 1]]
    BY <1>5 DEF Loop
  <2>2. \A k \in 1..n : k \in 0..n /\ k # 0 /\ g[k - 1] \in Seq(Alphabet)
    OBVIOUS
  <2>3. \A k \in 1..n : g[k] = g[k - 1] \o s[k]
    <3> SUFFICES ASSUME NEW k \in 1..n PROVE g[k] = g[k - 1] \o s[k]
      OBVIOUS
    <3>1. g[k] = F[k][g[k - 1]] /\ g[k - 1] \in Seq(Alphabet)
      BY <2>1, <2>2
    <3> HIDE DEF s
    <3> QED  BY <1>4, <3>1
  <2>4. 0 \in 0..n
    OBVIOUS
  <2> HIDE DEF s
  <2> QED  BY <2>1, <2>3, <2>4
<1>7. n # 0 => g[1] = s[1]
  <2> SUFFICES ASSUME n # 0 PROVE g[1] = s[1]
    OBVIOUS
  <2>1. 1 \in 1..n /\ 1 - 1 = 0
    OBVIOUS
  <2>2. s[1] \in Seq(Alphabet)
    BY <1>2, <2>1
  <2> HIDE DEF s
  <2>3. g[1] = <<>> \o s[1]
    BY <1>6, <2>1
  <2>4. <<>> \o s[1] = s[1]
    BY <2>2
  <2> QED  BY <2>3, <2>4
<1>8. Meaning(job) = g[n]
  <2>1. Meaning(job) = FlattenSeq(s)
    BY DEF Meaning, Good
  <2>2. CASE n = 0
    <3>1. s = <<>>
      BY <1>1, <2>2
    <3>2. FlattenSeq(s) = s
      BY <1>2, <2>2 DEF FlattenSeq
    <3> QED  BY <1>6, <2>1, <2>2, <3>1, <3>2
  <2>3. CASE n # 0
    <3>1. PICK f : f = CHOOSE h : JoinTurns(h, s)
      OBVIOUS
    <3>2. FlattenSeq(s) = f[n]
      <4> HIDE DEF s
      <4> QED  BY <1>2, <2>3, <3>1, Zenon DEF FlattenSeq, JoinTurns
    <3> DEFINE h == [i \in 1..n |-> g[i]]
    <3>3. JoinTurns(h, s)
      <4>1. ASSUME NEW i \in 1..n PROVE h[i] = IF i = 1 THEN s[i] ELSE h[i - 1] \o s[i]
        <5>1. CASE i = 1
          BY <1>7, <2>3, <5>1
        <5>2. CASE i # 1
          <6>1. i - 1 \in 1..n
            BY <5>2
          <6> HIDE DEF s
          <6> QED  BY <1>6, <5>2, <6>1
        <5> QED  BY <5>1, <5>2
      <4> HIDE DEF s
      <4>2. h = [i \in 1..n |-> IF i = 1 THEN s[i] ELSE h[i - 1] \o s[i]]
        BY <4>1
      <4> HIDE DEF h
      <4> QED  BY <1>2, <4>2 DEF JoinTurns
    <3>4. JoinTurns(f, s)
      BY <3>1, <3>3
    <3> HIDE DEF h, s
    <3>5. \A i \in 1..n : f[i] = g[i]
      <4> DEFINE good == {i \in 0..n : i # 0 => f[i] = g[i]}
      <4>1. \A i \in 1..n : f[i] = IF i = 1 THEN s[i] ELSE f[i - 1] \o s[i]
        BY <1>2, <3>4, Zenon DEF JoinTurns
      <4>2. 0 \in good
        OBVIOUS
      <4>3. ASSUME NEW i \in 1..n, i - 1 \in good PROVE i \in good
        <5>1. CASE i = 1
          BY <1>7, <2>3, <4>1, <5>1
        <5>2. CASE i # 1
          <6>1. f[i - 1] = g[i - 1] /\ i \in 0..n
            BY <4>3, <5>2
          <6> QED  BY <1>6, <4>1, <5>2, <6>1
        <5> QED  BY <5>1, <5>2
      <4>4. good = 0..n
        <5>1. good \in SUBSET (0..n)
          OBVIOUS
        <5> HIDE DEF good
        <5> QED  BY <4>2, <4>3, <5>1, EveryTurn
      <4> SUFFICES ASSUME NEW i \in 1..n PROVE f[i] = g[i]
        OBVIOUS
      <4>5. i \in 0..n /\ i # 0
        OBVIOUS
      <4>6. i \in good
        <5> HIDE DEF good
        <5> QED  BY <4>4, <4>5
      <4> QED  BY <4>5, <4>6
    <3> QED  BY <2>1, <2>3, <3>2, <3>5
  <2> QED  BY <2>2, <2>3
<1>9. Accumulates(g, job)
  BY <1>1, <1>2, <1>5, <1>6, <1>8 DEF Accumulates
<1> QED  BY <1>9, Zenon DEF MeaningTo

(***************************************************************************)
(* Beginnings of sequences.                                                *)
(***************************************************************************)
LEMMA OneMoreCharacter ==
    ASSUME NEW S, NEW s \in Seq(S), NEW a \in Nat \ {0}, NEW b \in Nat, a <= b + 1, b + 1 <= Len(s)
    PROVE  SubSeq(s, a, b + 1) = SubSeq(s, a, b) \o <<s[b + 1]>>
<1>1. PICK t \in Seq(S), c \in S : t = SubSeq(s, a, b) /\ c = s[b + 1]
  <2>1. SubSeq(s, a, b) \in Seq(S) /\ s[b + 1] \in S
    OBVIOUS
  <2> QED  BY <2>1
<1>2. Len(t) = b - a + 1 /\ \A i \in 1..Len(t) : t[i] = s[a + i - 1]
  BY <1>1
<1>3. PICK u \in Seq(S) : u = SubSeq(s, a, b + 1)
  <2>1. SubSeq(s, a, b + 1) \in Seq(S)
    OBVIOUS
  <2> QED  BY <2>1
<1>4. Len(u) = Len(t) + 1 /\ \A i \in 1..Len(u) : u[i] = s[a + i - 1]
  BY <1>2, <1>3
<1>5. PICK v \in Seq(S) : v = t \o <<c>>
  <2>1. t \o <<c>> \in Seq(S)
    OBVIOUS
  <2> QED  BY <2>1
<1>6. Len(v) = Len(t) + 1 /\ v[Len(t) + 1] = c /\ \A i \in 1..Len(t) : v[i] = t[i]
  BY <1>5
<1>7. \A i \in 1..Len(u) : u[i] = v[i]
  <2> SUFFICES ASSUME NEW i \in 1..Len(u) PROVE u[i] = v[i]
    OBVIOUS
  <2>1. CASE i = Len(t) + 1
    <3>1. a + i - 1 = b + 1
      BY <1>2, <2>1
    <3> QED  BY <1>1, <1>4, <1>6, <2>1, <3>1
  <2>2. CASE i # Len(t) + 1
    <3>1. i \in 1..Len(t)
      BY <1>4, <2>2
    <3> QED  BY <1>2, <1>4, <1>6, <3>1
  <2> QED  BY <2>1, <2>2
<1>8. u = v
  BY <1>4, <1>6, <1>7
<1> QED  BY <1>1, <1>3, <1>5, <1>8

LEMMA JoinsAssociate ==
    ASSUME NEW S, NEW x \in Seq(S), NEW y \in Seq(S), NEW z \in Seq(S)
    PROVE  (x \o y) \o z = x \o (y \o z)
OBVIOUS

Extends(o, m) == \E rest \in Seq(Alphabet) : m = o \o rest

LEMMA ExtendsIs ==
    ASSUME NEW o \in Seq(Alphabet), NEW m, Extends(o, m)
    PROVE  m \in Seq(Alphabet) /\ Len(o) <= Len(m) /\ IsPrefix(o, m)
<1>1. PICK rest \in Seq(Alphabet) : m = o \o rest
  BY DEF Extends
<1>2. m \in Seq(Alphabet) /\ Len(m) = Len(o) + Len(rest) /\ \A i \in 1..Len(o) : m[i] = o[i]
  BY <1>1
<1>3. SubSeq(o, 1, Len(o)) = SubSeq(m, 1, Len(o))
  BY <1>2
<1> QED  BY <1>2, <1>3 DEF IsPrefix

LEMMA ExtendsMore ==
    ASSUME NEW o \in Seq(Alphabet), NEW text \in Seq(Alphabet), NEW m, Extends(o \o text, m)
    PROVE  Extends(o, m)
<1>1. PICK rest \in Seq(Alphabet) : m = (o \o text) \o rest
  BY DEF Extends
<1>2. m = o \o (text \o rest) /\ text \o rest \in Seq(Alphabet)
  BY <1>1, JoinsAssociate
<1> QED  BY <1>2 DEF Extends

LEMMA BeginsWithPart ==
    ASSUME NEW text \in Seq(Alphabet), NEW i \in 0..Len(text)
    PROVE  \E a \in Seq(Alphabet), b \in Seq(Alphabet) :
               a = SubSeq(text, 1, i) /\ Len(a) = i /\ text = a \o b
<1>1. PICK a \in Seq(Alphabet), b \in Seq(Alphabet) :
          a = SubSeq(text, 1, i) /\ b = SubSeq(text, i + 1, Len(text))
  <2>1. SubSeq(text, 1, i) \in Seq(Alphabet) /\ SubSeq(text, i + 1, Len(text)) \in Seq(Alphabet)
    OBVIOUS
  <2> QED  BY <2>1
<1>2. PICK n \in Nat : n = Len(text) /\ i \in Nat /\ i <= n
  OBVIOUS
<1>3. /\ Len(a) = i /\ \A k \in 1..i : a[k] = text[k]
      /\ Len(b) = n - i /\ \A k \in 1..(n - i) : b[k] = text[i + k]
  BY <1>1, <1>2
<1>4. text = a \o b
  <2>1. PICK c \in Seq(Alphabet) : c = a \o b
    <3>1. a \o b \in Seq(Alphabet)
      OBVIOUS
    <3> QED  BY <3>1
  <2>2. Len(c) = n /\ \A k \in 1..n : c[k] = IF k <= i THEN a[k] ELSE b[k - i]
    BY <1>2, <1>3, <2>1
  <2>3. ASSUME NEW k \in 1..n PROVE c[k] = text[k]
    <3>1. CASE k <= i
      BY <1>2, <1>3, <2>2, <3>1
    <3>2. CASE k > i
      <4>1. k - i \in 1..(n - i) /\ i + (k - i) = k
        BY <1>2, <3>2
      <4> QED  BY <1>2, <1>3, <2>2, <3>2, <4>1
    <3> QED  BY <1>2, <3>1, <3>2
  <2>4. text = c
    BY <1>2, <2>2, <2>3
  <2> QED  BY <2>1, <2>4
<1> QED  BY <1>1, <1>3, <1>4

LEMMA ExtendsPart ==
    ASSUME NEW o \in Seq(Alphabet), NEW text \in Seq(Alphabet), NEW m, Extends(o \o text, m),
           NEW i \in 1..Len(text)
    PROVE  Extends(o \o SubSeq(text, 1, i), m)
<1>1. PICK a \in Seq(Alphabet), b \in Seq(Alphabet) : a = SubSeq(text, 1, i) /\ text = a \o b
  <2>1. i \in 0..Len(text)
    OBVIOUS
  <2> QED  BY <2>1, BeginsWithPart
<1>2. PICK rest \in Seq(Alphabet) : m = (o \o text) \o rest
  BY DEF Extends
<1>3. o \o text = (o \o a) \o b
  BY <1>1, JoinsAssociate
<1>4. m = (o \o a) \o (b \o rest) /\ b \o rest \in Seq(Alphabet)
  <2>1. PICK x \in Seq(Alphabet) : x = o \o a
    <3>1. o \o a \in Seq(Alphabet)
      OBVIOUS
    <3> QED  BY <3>1
  <2>2. (x \o b) \o rest = x \o (b \o rest)
    OBVIOUS
  <2>3. b \o rest \in Seq(Alphabet)
    OBVIOUS
  <2> QED  BY <1>2, <1>3, <2>1, <2>2, <2>3
<1> QED  BY <1>1, <1>4 DEF Extends

LEMMA MeaningBegins ==
    ASSUME NEW job, Good(job), NEW i \in 0..Len(job.fmt)
    PROVE  MeaningTo(job)[i] \in Seq(Alphabet) /\ Extends(MeaningTo(job)[i], Meaning(job))
<1>1. PICK n \in Nat : n = Len(job.fmt) /\ DOMAIN job.fmt = 1..n
  BY DEF Good, Contract
<1>2. PICK g \in [0..n -> Seq(Alphabet)] :
          /\ g = MeaningTo(job) /\ Meaning(job) = g[n]
          /\ \A k \in 1..n : g[k] = g[k - 1] \o MeaningAt(job, k)
  BY <1>1, MeaningAccumulates DEF Accumulates
<1> DEFINE good == {k \in 0..n : Extends(g[n - k], g[n])}
<1>3. 0 \in good
  <2>1. <<>> \in Seq(Alphabet) /\ g[n] \in Seq(Alphabet)
    OBVIOUS
  <2>2. g[n] = g[n] \o <<>>
    BY <2>1
  <2>3. n - 0 = n /\ 0 \in 0..n
    OBVIOUS
  <2> QED  BY <2>1, <2>2, <2>3 DEF Extends
<1>4. ASSUME NEW k \in 1..n, k - 1 \in good PROVE k \in good
  <2>1. n - (k - 1) \in 1..n /\ (n - (k - 1)) - 1 = n - k /\ n - k \in 0..n /\ k \in 0..n
    OBVIOUS
  <2>2. g[n - (k - 1)] = g[n - k] \o MeaningAt(job, n - (k - 1))
    BY <1>2, <2>1
  <2>3. g[n - k] \in Seq(Alphabet) /\ MeaningAt(job, n - (k - 1)) \in Seq(Alphabet)
    BY <1>1, <2>1, PieceMeans
  <2>4. Extends(g[n - (k - 1)], g[n])
    BY <1>4
  <2>5. Extends(g[n - k], g[n])
    BY <2>2, <2>3, <2>4, ExtendsMore
  <2> QED  BY <2>1, <2>5
<1>5. good = 0..n
  <2>1. good \in SUBSET (0..n)
    OBVIOUS
  <2> HIDE DEF good
  <2> QED  BY <1>3, <1>4, <2>1, EveryTurn
<1>6. n - i \in 0..n /\ n - (n - i) = i /\ i \in 0..n
  BY <1>1
<1>7. n - i \in good
  <2> HIDE DEF good
  <2> QED  BY <1>5, <1>6
<1> QED  BY <1>2, <1>6, <1>7

(***************************************************************************)
(* A literal: from a character at a boundary, or from the second of "%%",  *)
(* to the next "%" or the end.                                             *)
(***************************************************************************)
IsLiteral(job, p, first, end) ==
    /\ \/ job.fmt[p] # "%" /\ first = p
       \/ job.fmt[p] = "%" /\ Directive(job, p) = "%" /\ first = p + 1
    /\ end \in (first + 1)..(Len(job.fmt) + 1)
    /\ \A i \in (first + 1)..(end - 1) : CharAt(job.fmt, i) # "%"

LEMMA LiteralMeans ==
    ASSUME NEW job, Contract(job), HasDirectives(job),
           NEW p \in DOMAIN job.fmt, AtBoundary(job, p),
           NEW first, NEW end, IsLiteral(job, p, first, end)
    PROVE  /\ AtBoundary(job, end) /\ Taken(job, end - 1) = Taken(job, p - 1)
           /\ SubSeq(job.fmt, first, end - 1) \in Seq(STRING)
           /\ Good(job) => MeaningTo(job)[end - 1] =
                               MeaningTo(job)[p - 1] \o SubSeq(job.fmt, first, end - 1)
<1> USE DEF IsLiteral
<1>1. PICK f \in Seq(STRING), n \in Nat : f = job.fmt /\ n = Len(f) /\ DOMAIN f = 1..n
  BY DEF Contract
<1>2. /\ p \in Nat \ {0} /\ p <= n /\ p - 1 \in 0..n
      /\ first \in Nat \ {0} /\ first <= n /\ first >= p /\ end \in Nat \ {0}
      /\ end >= first + 1 /\ end <= n + 1
  <2>1. CharAt(f, p + 1) = "%" => p + 1 \in 1..n
    BY <1>1 DEF CharAt, NUL
  <2> QED  BY <1>1, <2>1 DEF Directive
<1>3. Good(job) => \A k \in 1..n : /\ MeaningTo(job)[k] = MeaningTo(job)[k - 1] \o MeaningAt(job, k)
                                   /\ MeaningTo(job)[k - 1] \in Seq(Alphabet)
  <2>1. ASSUME Good(job), NEW k \in 1..n PROVE k - 1 \in 0..n
    OBVIOUS
  <2> QED  BY <1>1, <2>1, MeaningAccumulates DEF Accumulates
<1>4. \A c \in Seq(Alphabet) : c \o <<>> = c /\ <<>> \o c = c
  OBVIOUS
\* the first character
<1>5. /\ AtBoundary(job, first + 1) /\ Taken(job, first) = Taken(job, p - 1)
      /\ Good(job) => MeaningTo(job)[first] = MeaningTo(job)[p - 1] \o <<f[first]>>
  <2>1. CASE job.fmt[p] # "%" /\ first = p
    <3>1. MeaningAt(job, p) = <<f[p]>> /\ ~ TakesArgument(job, p) /\ AtBoundary(job, p + 1)
      BY <1>1, <1>2, <2>1, CharacterMeans
    <3>2. Taken(job, p) = Taken(job, p - 1)
      BY <1>2, <3>1, TakenGrows
    <3>3. p \in 1..n
      BY <1>2
    <3> QED  BY <1>3, <2>1, <3>1, <3>2, <3>3
  <2>2. CASE job.fmt[p] = "%" /\ Directive(job, p) = "%" /\ first = p + 1
    <3>1. /\ AtBoundary(job, p + 2) /\ MeaningAt(job, p + 1) = <<>> /\ ~ TakesArgument(job, p + 1)
          /\ MeaningAt(job, p) = <<"%">> /\ ~ TakesArgument(job, p)
      BY <1>2, <2>2, DirectiveMeans
    <3>2. /\ p + 1 \in Nat \ {0} /\ (p + 1) - 1 = p /\ (p + 1) + 1 = p + 2
          /\ p \in 1..n /\ p + 1 \in 1..n
      BY <1>2, <2>2
    <3>3. Taken(job, p + 1) = Taken(job, p - 1)
      <4>1. Taken(job, p) = Taken(job, p - 1)
        BY <1>2, <3>1, TakenGrows
      <4>2. Taken(job, p + 1) = Taken(job, p)
        BY <3>1, <3>2, TakenGrows
      <4> QED  BY <4>1, <4>2
    <3>4. f[p + 1] = "%"
      BY <1>1, <2>2, <3>2 DEF Directive, CharAt
    <3>5. ASSUME Good(job) PROVE MeaningTo(job)[p + 1] = MeaningTo(job)[p - 1] \o <<"%">>
      <4>1. MeaningTo(job)[p] = MeaningTo(job)[p - 1] \o <<"%">>
        BY <1>3, <3>1, <3>2, <3>5
      <4>2. MeaningTo(job)[p + 1] = MeaningTo(job)[p] \o <<>> /\ MeaningTo(job)[p] \in Seq(Alphabet)
        BY <1>3, <3>1, <3>2, <3>5
      <4> QED  BY <1>4, <4>1, <4>2
    <3> QED  BY <2>2, <3>1, <3>2, <3>3, <3>4, <3>5
  <2> QED  BY <2>1, <2>2
\* and the others
<1> DEFINE Done(k) == /\ AtBoundary(job, first + k + 1) /\ Taken(job, first + k) = Taken(job, p - 1)
                      /\ Good(job) => MeaningTo(job)[first + k] =
                                         MeaningTo(job)[p - 1] \o SubSeq(f, first, first + k)
           good == {k \in 0..(end - 1 - first) : Done(k)}
<1>6. 0 \in good
  <2>1. first + 0 = first /\ first + 0 + 1 = first + 1 /\ 0 \in 0..(end - 1 - first)
    BY <1>2
  <2>2. SubSeq(f, first, first) = <<f[first]>>
    <3>1. f[first] \in STRING /\ SubSeq(f, first, first) \in Seq(STRING)
      BY <1>1, <1>2
    <3>2. PICK u \in Seq(STRING), c \in STRING : u = SubSeq(f, first, first) /\ c = f[first]
      BY <3>1
    <3>3. Len(u) = 1 /\ u[1] = c
      BY <1>1, <1>2, <3>2
    <3>4. u = <<c>>
      BY <3>3
    <3> QED  BY <3>2, <3>4
  <2> QED  BY <1>5, <2>1, <2>2
<1>7. ASSUME NEW k \in 1..(end - 1 - first), k - 1 \in good PROVE k \in good
  <2>1. PICK i : i = first + k
    OBVIOUS
  <2>2. /\ i \in Nat \ {0} /\ i \in (first + 1)..(end - 1) /\ i \in 1..n /\ i - 1 = first + (k - 1)
        /\ first + (k - 1) + 1 = i /\ k \in 0..(end - 1 - first) /\ first + k + 1 = i + 1
    BY <1>2, <2>1
  <2>3. AtBoundary(job, i) /\ Taken(job, i - 1) = Taken(job, p - 1)
    BY <1>7, <2>2
  <2>4. job.fmt[i] # "%"
    BY <1>1, <2>2 DEF CharAt
  <2>5. MeaningAt(job, i) = <<f[i]>> /\ ~ TakesArgument(job, i) /\ AtBoundary(job, i + 1)
    BY <1>1, <2>2, <2>3, <2>4, CharacterMeans
  <2>6. Taken(job, i) = Taken(job, p - 1)
    BY <2>2, <2>3, <2>5, TakenGrows
  <2>7. ASSUME Good(job)
        PROVE  MeaningTo(job)[i] = MeaningTo(job)[p - 1] \o SubSeq(f, first, i)
    <3>1. PICK x \in Seq(Alphabet), y \in Seq(Alphabet), z \in Seq(Alphabet) :
              x = MeaningTo(job)[p - 1] /\ y = SubSeq(f, first, i - 1) /\ z = <<f[i]>>
      <4>1. MeaningTo(job)[p - 1] \in Seq(Alphabet)
        BY <1>1, <1>2, <2>7, MeaningBegins
      <4>2. SubSeq(f, first, i - 1) \in Seq(STRING) /\ f[i] \in STRING
        BY <1>1, <1>2, <2>2
      <4>3. <<f[i]>> \in Seq(Alphabet)
        BY <4>2 DEF Alphabet
      <4> QED  BY <4>1, <4>2, <4>3, TextsAreSequences
    <3>2. MeaningTo(job)[i - 1] = x \o y
      BY <1>7, <2>2, <2>7, <3>1
    <3>3. MeaningTo(job)[i] = (x \o y) \o z
      BY <1>3, <2>2, <2>5, <2>7, <3>1, <3>2
    <3>4. SubSeq(f, first, i) = y \o z
      <4>1. i - 1 \in Nat /\ first <= (i - 1) + 1 /\ (i - 1) + 1 <= Len(f) /\ (i - 1) + 1 = i
        BY <1>1, <1>2, <2>2
      <4>2. SubSeq(f, first, (i - 1) + 1) = SubSeq(f, first, i - 1) \o <<f[(i - 1) + 1]>>
        BY <1>1, <1>2, <4>1, OneMoreCharacter
      <4> QED  BY <3>1, <4>1, <4>2
    <3>5. (x \o y) \o z = x \o (y \o z)
      OBVIOUS
    <3> QED  BY <3>1, <3>3, <3>4, <3>5
  <2> QED  BY <2>1, <2>2, <2>5, <2>6, <2>7
<1>8. good = 0..(end - 1 - first)
  <2>1. good \in SUBSET (0..(end - 1 - first)) /\ end - 1 - first \in Nat
    BY <1>2
  <2> HIDE DEF good
  <2> QED  BY <1>6, <1>7, <2>1, EveryTurn
<1>9. Done(end - 1 - first)
  <2>1. end - 1 - first \in 0..(end - 1 - first)
    BY <1>2
  <2>2. end - 1 - first \in good
    <3> HIDE DEF good
    <3> QED  BY <1>8, <2>1
  <2> QED  BY <2>2
<1>10. first + (end - 1 - first) = end - 1 /\ first + (end - 1 - first) + 1 = end
  BY <1>2
<1>11. SubSeq(f, first, end - 1) \in Seq(STRING)
  BY <1>1, <1>2
<1> QED  BY <1>1, <1>9, <1>10, <1>11

-------------------------------------------------------------------------------
(***************************************************************************)
(* The invariant of a call.  While it walks, it is at a boundary of its    *)
(* format, it has taken the arguments of the directives in front of it,    *)
(* and it has printed what the format means up to there.                   *)
(***************************************************************************)
Walked(job, p, u, o, w) ==
    /\ HasDirectives(job) /\ p \in DOMAIN job.fmt => AtBoundary(job, p) /\ u = Taken(job, p - 1)
    /\ HasDirectives(job) /\ p > Len(job.fmt) + 1 => Starts(job, Len(job.fmt))
    /\ Good(job) => p \in 1..(Len(job.fmt) + 1) /\ o = MeaningTo(job)[p - 1]
    /\ ~ HasDirectives(job) => p \in 1..(Len(job.fmt) + 1) /\ o = SubSeq(job.fmt, 1, p - 1)
    /\ job.printer = "vprintf" => w = Len(o) /\ w <= INT_MAX
    /\ job.printer = "ki_printf" => w = 0

Returned(job, o, w) ==
    /\ Settled(job) => o = Meaning(job)
    /\ job.printer = "vprintf" => w = Len(o) /\ w <= INT_MAX
    /\ job.printer = "puts" => w = Len(o)
    /\ job.printer = "kernel_early_putstr" => w = Len(o) + 1
    /\ job.printer = "ki_printf" => w = 0

Failed(job, o) ==
    Settled(job) => /\ Extends(o, Meaning(job))
                    /\ \/ Len(Meaning(job)) > INT_MAX
                       \/ o # <<>> /\ Last(o) = EofChar

CallInv(job, p, u, o, w, st) ==
    /\ Contract(job)
    /\ o \in Seq(Alphabet) /\ p \in Nat \ {0} /\ u \in Nat /\ w \in Int
    /\ st \in {"walking", "returned", "failed", "overrun"}
    /\ st = "walking" => Walked(job, p, u, o, w)
    /\ st = "returned" => Returned(job, o, w)
    /\ st = "failed" => Failed(job, o) /\ HasDirectives(job)
    /\ st = "overrun" => ~ Settled(job) /\ HasDirectives(job) /\ Starts(job, Len(job.fmt))

PrintInv == CallInv(Job, pos, used, out, written, status)

(***************************************************************************)
(* What the invariant says of what is printed.                             *)
(***************************************************************************)
LEMMA GoodOrPlain ==
    ASSUME NEW job, Contract(job), Settled(job)
    PROVE  Good(job) \/ (~ HasDirectives(job) /\ job.printer \in {"puts", "kernel_early_putstr"})
BY DEF Good, Contract, HasDirectives, Printers

LEMMA PlainMeaning ==
    ASSUME NEW job, Contract(job), ~ HasDirectives(job), NEW i \in 0..Len(job.fmt)
    PROVE  /\ SubSeq(job.fmt, 1, i) \in Seq(Alphabet) /\ Len(SubSeq(job.fmt, 1, i)) = i
           /\ Extends(SubSeq(job.fmt, 1, i), Meaning(job))
<1>1. PICK f \in Seq(Alphabet) : f = job.fmt
  BY TextsAreSequences DEF Contract
<1>2. PICK a \in Seq(Alphabet), b \in Seq(Alphabet) : a = SubSeq(f, 1, i) /\ Len(a) = i /\ f = a \o b
  BY <1>1, BeginsWithPart
<1>3. Newline \in Alphabet
  BY DEF Alphabet
<1>4. Append(f, Newline) = a \o Append(b, Newline) /\ Append(b, Newline) \in Seq(Alphabet)
  BY <1>2, <1>3
<1>5. Meaning(job) = f \/ Meaning(job) = Append(f, Newline)
  BY <1>1 DEF Meaning
<1> QED  BY <1>1, <1>2, <1>4, <1>5 DEF Extends

LEMMA InvImplies == PrintInv => PrintsMeaning /\ CountTold
<1> SUFFICES ASSUME PrintInv PROVE PrintsMeaning /\ CountTold
  OBVIOUS
<1>1. PICK job, o : job = Job /\ o = out
  OBVIOUS
<1>2. /\ CallInv(job, pos, used, o, written, status) /\ Contract(job) /\ o \in Seq(Alphabet)
      /\ status \in {"walking", "returned", "failed", "overrun"} /\ job.printer = printer
  BY <1>1 DEF PrintInv, CallInv, Job
<1>3. ASSUME Settled(job) PROVE Extends(o, Meaning(job))
  <2>1. CASE status = "walking" /\ Good(job)
    <3>1. pos \in 1..(Len(job.fmt) + 1) /\ o = MeaningTo(job)[pos - 1]
      BY <1>2, <2>1 DEF CallInv, Walked
    <3>2. Len(job.fmt) \in Nat
      BY <1>2 DEF Contract
    <3>3. pos - 1 \in 0..Len(job.fmt)
      BY <3>1, <3>2
    <3> QED  BY <2>1, <3>1, <3>3, MeaningBegins
  <2>2. CASE status = "walking" /\ ~ HasDirectives(job)
    <3>1. pos \in 1..(Len(job.fmt) + 1) /\ o = SubSeq(job.fmt, 1, pos - 1)
      BY <1>2, <2>2 DEF CallInv, Walked
    <3>2. Len(job.fmt) \in Nat
      BY <1>2 DEF Contract
    <3>3. pos - 1 \in 0..Len(job.fmt)
      BY <3>1, <3>2
    <3> QED  BY <1>2, <2>2, <3>1, <3>3, PlainMeaning
  <2>3. CASE status = "returned"
    <3>1. o = Meaning(job)
      BY <1>2, <1>3, <2>3 DEF CallInv, Returned
    <3>2. o = o \o <<>> /\ <<>> \in Seq(Alphabet)
      BY <1>2
    <3> QED  BY <3>1, <3>2 DEF Extends
  <2>4. CASE status = "failed"
    BY <1>2, <1>3, <2>4 DEF CallInv, Failed
  <2>5. status # "overrun"
    BY <1>2, <1>3 DEF CallInv
  <2> QED  BY <1>2, <1>3, <2>1, <2>2, <2>3, <2>4, <2>5, GoodOrPlain
<1>4. PrintsMeaning
  <2>1. ASSUME Settled(job)
        PROVE  IsPrefix(o, Meaning(job)) /\ (status = "returned" => o = Meaning(job))
    BY <1>2, <1>3, <2>1, ExtendsIs DEF CallInv, Returned
  <2>2. status = "overrun" => Starts(job, Len(fmt))
    BY <1>1, <1>2, Zenon DEF CallInv, Job
  <2> QED  BY <1>1, <2>1, <2>2 DEF PrintsMeaning
<1>5. CountTold
  <2>1. ASSUME status = "returned"
        PROVE  CASE printer = "vprintf" -> written = Len(out) /\ written <= INT_MAX
                 [] printer = "puts" -> written = Len(out)
                 [] printer = "kernel_early_putstr" -> written = Len(out) + 1
                 [] printer = "ki_printf" -> written = 0
    <3>1. printer \in Printers
      BY <1>2 DEF Contract
    <3>2. Returned(job, out, written)
      BY <1>1, <1>2, <2>1 DEF CallInv
    <3> QED  BY <1>2, <3>1, <3>2 DEF Returned, Printers
  <2>2. status = "failed" /\ Settled(Job) => \/ Len(Meaning(Job)) > INT_MAX
                                             \/ out # <<>> /\ Last(out) = EofChar
    BY <1>1, <1>2 DEF CallInv, Failed
  <2> QED  BY <2>1, <2>2 DEF CountTold
<1> QED  BY <1>4, <1>5

-------------------------------------------------------------------------------
(***************************************************************************)
(* The steps.                                                              *)
(***************************************************************************)
LEMMA JobStays ==
    ASSUME printer' = printer, fmt' = fmt, args' = args
    PROVE  Job' = Job
BY DEF Job

LEMMA JobIs ==
    ASSUME NEW job, job = Job
    PROVE  job.printer = printer /\ job.fmt = fmt /\ job.args = args
BY DEF Job

LEMMA CountedKeeps ==
    ASSUME NEW job, job = Job, CallInv(job, pos, used, out, written, status), Walks("vprintf"),
           NEW text \in Seq(Alphabet), NEW next \in Nat \ {0}, NEW takes \in Nat,
           Counted(text, next, takes),
           Good(job) => /\ next \in 1..(Len(job.fmt) + 1)
                        /\ MeaningTo(job)[next - 1] = MeaningTo(job)[pos - 1] \o text,
           next > Len(job.fmt) + 1 => Starts(job, Len(job.fmt)),
           next \in DOMAIN job.fmt => AtBoundary(job, next) /\ used + takes = Taken(job, next - 1)
    PROVE  CallInv(job, pos', used', out', written', status')
<1>1. /\ job.printer = "vprintf" /\ HasDirectives(job) /\ status = "walking" /\ Contract(job)
      /\ pos \in Nat \ {0} /\ used \in Nat
  BY JobIs DEF Walks, HasDirectives, CallInv
<1>2. PICK o \in Seq(Alphabet) : o = out
  BY DEF CallInv
<1>3. written = Len(o) /\ written <= INT_MAX /\ (Good(job) => o = MeaningTo(job)[pos - 1])
  BY <1>1, <1>2 DEF CallInv, Walked
<1>4. /\ Len(o) \in Nat /\ Len(text) \in Nat /\ INT_MAX \in Nat
      /\ o \o text \in Seq(Alphabet) /\ Len(o \o text) = Len(o) + Len(text)
  BY PrintingAssumption
<1>5. Settled(job) => Good(job)
  BY <1>1 DEF Good
<1>6. ASSUME Good(job) PROVE Extends(o \o text, Meaning(job))
  <2>1. next - 1 \in 0..Len(job.fmt)
    <3>1. Len(job.fmt) \in Nat
      BY <1>1 DEF Contract
    <3> QED  BY <1>6, <3>1
  <2>2. MeaningTo(job)[next - 1] = o \o text
    BY <1>3, <1>6
  <2> QED  BY <1>6, <2>1, <2>2, MeaningBegins
<1>7. CASE TooLong(text)
  <2>1. /\ status' = "failed" /\ out' = o /\ pos' = pos /\ used' = used /\ written' = written
        /\ INT_MAX - written < Len(text)
    BY <1>2, <1>7 DEF TooLong, Fail, maxrem
  <2>2. Failed(job, o)
    <3> SUFFICES ASSUME Settled(job) PROVE Extends(o, Meaning(job)) /\ Len(Meaning(job)) > INT_MAX
      BY DEF Failed
    <3>1. Extends(o \o text, Meaning(job))
      BY <1>5, <1>6
    <3>2. Len(o \o text) <= Len(Meaning(job)) /\ Meaning(job) \in Seq(Alphabet)
      BY <1>4, <3>1, ExtendsIs
    <3>3. Len(Meaning(job)) \in Nat
      BY <3>2
    <3> QED  BY <1>3, <1>4, <2>1, <3>1, <3>2, <3>3, ExtendsMore
  <2> QED  BY <1>1, <1>3, <1>4, <2>1, <2>2 DEF CallInv
<1>8. CASE StopsAtEof(text)
  <2>1. PICK i \in DOMAIN text : text[i] = EofChar /\ out' = out \o SubSeq(text, 1, i)
    BY <1>8 DEF StopsAtEof
  <2>2. i \in 1..Len(text) /\ i \in 0..Len(text) /\ i \in Nat /\ i >= 1
    OBVIOUS
  <2>3. PICK a \in Seq(Alphabet) : a = SubSeq(text, 1, i) /\ Len(a) = i /\ a[i] = EofChar
    <3>1. PICK a \in Seq(Alphabet) : a = SubSeq(text, 1, i) /\ Len(a) = i
      BY <2>2, BeginsWithPart
    <3>2. a[i] = text[i]
      BY <2>2, <3>1
    <3> QED  BY <2>1, <3>1, <3>2
  <2>4. status' = "failed" /\ out' = o \o a /\ pos' = pos /\ used' = used /\ written' = written
    BY <1>2, <1>8, <2>1, <2>3 DEF StopsAtEof, Fail
  <2>5. o \o a \in Seq(Alphabet) /\ o \o a # <<>> /\ Last(o \o a) = EofChar
    <3>1. PICK c \in Seq(Alphabet) : c = o \o a
      <4>1. o \o a \in Seq(Alphabet)
        OBVIOUS
      <4> QED  BY <4>1
    <3>2. Len(c) = Len(o) + i /\ c[Len(o) + i] = EofChar
      BY <2>2, <2>3, <3>1
    <3> QED  BY <1>4, <2>2, <3>1, <3>2 DEF Last
  <2>6. Failed(job, o \o a)
    <3> SUFFICES ASSUME Settled(job) PROVE Extends(o \o a, Meaning(job))
      BY <2>5 DEF Failed
    <3> QED  BY <1>5, <1>6, <2>2, <2>3, ExtendsPart
  <2> QED  BY <1>1, <1>3, <1>4, <2>4, <2>5, <2>6 DEF CallInv
<1>9. CASE /\ maxrem >= Len(text) /\ EofChar \notin ToSet(text)
           /\ Prints(text, next, takes)
           /\ written' = written + Len(text)
  <2>1. /\ status' = "walking" /\ out' = o \o text /\ pos' = next /\ used' = used + takes
        /\ written' = Len(o) + Len(text) /\ INT_MAX - Len(o) >= Len(text)
    BY <1>1, <1>2, <1>3, <1>9 DEF Prints, maxrem
  <2>2. used + takes \in Nat
    BY <1>1
  <2>3. Walked(job, next, used + takes, o \o text, Len(o) + Len(text))
    <3>1. Good(job) => next \in 1..(Len(job.fmt) + 1) /\ o \o text = MeaningTo(job)[next - 1]
      BY <1>3
    <3>2. Len(o) + Len(text) = Len(o \o text) /\ Len(o) + Len(text) <= INT_MAX
      BY <1>4, <2>1
    <3>3. next \in DOMAIN job.fmt => AtBoundary(job, next) /\ used + takes = Taken(job, next - 1)
      OBVIOUS
    <3>4. job.printer # "ki_printf"
      BY <1>1
    <3>5. next > Len(job.fmt) + 1 => Starts(job, Len(job.fmt))
      OBVIOUS
    <3> QED  BY <1>1, <3>1, <3>2, <3>3, <3>4, <3>5, Zenon DEF Walked
  <2> QED  BY <1>1, <1>4, <2>1, <2>2, <2>3 DEF CallInv
<1> QED  BY <1>7, <1>8, <1>9 DEF Counted

(***************************************************************************)
(* The text of a conversion that the call is at.                           *)
(***************************************************************************)
LEMMA ConversionAt ==
    ASSUME NEW job, job = Job, CallInv(job, pos, used, out, written, status), status = "walking",
           HasDirectives(job), At(pos) = "%", At(pos + 1) \in Conversions
    PROVE  \E text \in Seq(Alphabet) :
               /\ text = ConversionText(At(pos + 1))
               /\ At(pos + 1) \in DOMAIN Numeric[printer] => itoa_fits(text)
               /\ AtBoundary(job, pos + 2) /\ used + 1 = Taken(job, pos + 1)
               /\ pos + 2 \in 1..(Len(job.fmt) + 1)
               /\ Good(job) => /\ pos + 2 \in 1..(Len(job.fmt) + 1)
                               /\ MeaningTo(job)[pos + 1] = MeaningTo(job)[pos - 1] \o text
<1>1. /\ job.printer = printer /\ printer \in {"vprintf", "ki_printf"} /\ job.fmt = fmt /\ job.args = args
      /\ Contract(job)
  BY JobIs DEF HasDirectives, CallInv
<1>2. PICK p \in Nat \ {0}, n \in Nat : p = pos /\ n = Len(job.fmt) /\ DOMAIN job.fmt = 1..n
  BY <1>1 DEF Contract, CallInv
<1>3. p \in 1..n /\ job.fmt[p] = "%" /\ p + 1 \in 1..n /\ Directive(job, p) = At(p + 1)
  <2>1. NUL \notin Conversions /\ NUL # "%"
    BY <1>1, ConversionsAre DEF Conversions, NUL
  <2> QED  BY <1>1, <1>2, <2>1 DEF At, CharAt, Directive
<1>4. AtBoundary(job, p) /\ used = Taken(job, p - 1)
  BY <1>2, <1>3 DEF CallInv, Walked
<1>5. PICK c : c = Directive(job, p)
  OBVIOUS
<1>6. c \in Conversions /\ c \in ConversionsOf(job.printer) /\ c = At(pos + 1)
  BY <1>1, <1>2, <1>3, <1>5 DEF Conversions
<1>7. /\ AtBoundary(job, p + 2) /\ MeaningAt(job, p + 1) = <<>> /\ ~ TakesArgument(job, p + 1)
      /\ TakesArgument(job, p) /\ MeaningAt(job, p) = Meant(job.printer, c, ArgumentOf(job, p))
  BY <1>3, <1>4, <1>5, <1>6, DirectiveMeans
<1>8. Taken(job, p) = used + 1 /\ Taken(job, p + 1) = used + 1
  <2>1. p + 1 \in Nat \ {0} /\ (p + 1) - 1 = p
    OBVIOUS
  <2> QED  BY <1>4, <1>7, <2>1, TakenGrows
<1>9. Argument = ArgumentOf(job, p)
  BY <1>1, <1>8 DEF Argument, ArgumentOf, Taken
<1>10. Suits(Argument, c)
  BY <1>2, <1>3, <1>5, <1>7, <1>9, <1>1 DEF Contract
<1>11. PICK text \in Seq(Alphabet) :
           /\ text = ConversionText(c) /\ (c \in DOMAIN Numeric[printer] => itoa_fits(text))
           /\ Signless(c, Argument) => text = Meant(job.printer, c, ArgumentOf(job, p))
  BY <1>1, <1>6, <1>9, <1>10, ConversionPrints
<1>12. Good(job) => text = Meant(job.printer, c, ArgumentOf(job, p))
  <2>1. Good(job) => Signless(c, Argument)
    BY <1>1, <1>2, <1>3, <1>5, <1>7, <1>9 DEF Good, Settled, NoNegative, Signless
  <2> QED  BY <1>11, <2>1
<1>13. ASSUME Good(job)
       PROVE  /\ p + 2 \in 1..(n + 1)
              /\ MeaningTo(job)[p + 1] = MeaningTo(job)[p - 1] \o text
  <2>1. /\ MeaningTo(job)[p] = MeaningTo(job)[p - 1] \o text
        /\ MeaningTo(job)[p + 1] = MeaningTo(job)[p] \o <<>>
    <3>1. (p + 1) - 1 = p
      OBVIOUS
    <3> QED  BY <1>2, <1>3, <1>7, <1>12, <1>13, <3>1, MeaningAccumulates DEF Accumulates
  <2>2. MeaningTo(job)[p] \in Seq(Alphabet)
    <3>1. p \in 0..Len(job.fmt)
      BY <1>2, <1>3
    <3> QED  BY <1>13, <3>1, MeaningBegins
  <2>3. MeaningTo(job)[p] \o <<>> = MeaningTo(job)[p]
    BY <2>2
  <2> QED  BY <1>3, <2>1, <2>3
<1>14. p + 2 \in 1..(n + 1)
  BY <1>3
<1> QED  BY <1>2, <1>6, <1>7, <1>8, <1>11, <1>13, <1>14

(***************************************************************************)
(* vprintf.                                                                *)
(***************************************************************************)
LEMMA LiteralEnds ==
    ASSUME NEW job, job = Job, Contract(job), LiteralFrom \in Nat, LiteralFrom <= Len(fmt)
    PROVE  /\ LiteralEnd \in (LiteralFrom + 1)..(Len(fmt) + 1)
           /\ \A j \in (LiteralFrom + 1)..(LiteralEnd - 1) : At(j) \notin {"%", NUL}
<1>1. PICK first \in Nat, n \in Nat : first = LiteralFrom /\ n = Len(fmt) /\ DOMAIN fmt = 1..n
  BY JobIs DEF Contract
<1> DEFINE Ends == {i \in (first + 1)..(n + 1) : At(i) \in {"%", NUL}}
<1>2. PICK b \in Ends : \A c \in Ends : b <= c
  <2>1. n + 1 \in Ends
    BY <1>1 DEF At, CharAt
  <2>2. Ends \in SUBSET Nat
    OBVIOUS
  <2> HIDE DEF Ends
  <2> QED  BY <2>1, <2>2, SmallestIn
<1>3. \A j \in (first + 1)..(b - 1) : At(j) \notin {"%", NUL}
  <2> SUFFICES ASSUME NEW j \in (first + 1)..(b - 1), At(j) \in {"%", NUL} PROVE FALSE
    OBVIOUS
  <2>1. b \in Nat /\ b <= n + 1
    OBVIOUS
  <2>2. j \in Ends /\ ~ (b <= j)
    BY <2>1
  <2> HIDE DEF Ends
  <2> QED  BY <1>2, <2>2
<1>4. b \in (first + 1)..(n + 1) /\ At(b) \in {"%", NUL}
  OBVIOUS
<1>5. LiteralEnd = CHOOSE i \in (first + 1)..(n + 1) :
                       /\ At(i) \in {"%", NUL}
                       /\ \A j \in (first + 1)..(i - 1) : At(j) \notin {"%", NUL}
  BY <1>1 DEF LiteralEnd
<1> HIDE DEF Ends
<1>6. /\ LiteralEnd \in (first + 1)..(n + 1)
      /\ \A j \in (first + 1)..(LiteralEnd - 1) : At(j) \notin {"%", NUL}
  BY <1>3, <1>4, <1>5, Zenon
<1> QED  BY <1>1, <1>6

LEMMA LiteralKeeps ==
    ASSUME NEW job, job = Job, CallInv(job, pos, used, out, written, status), VprintfLiteral
    PROVE  CallInv(job, pos', used', out', written', status')
<1>1. /\ job.printer = printer /\ printer = "vprintf" /\ job.fmt = fmt /\ HasDirectives(job)
      /\ Contract(job) /\ status = "walking" /\ pos \in DOMAIN fmt
      /\ At(pos) # "%" \/ At(pos + 1) = "%"
  BY JobIs DEF VprintfLiteral, Walks, HasDirectives, CallInv
<1>2. PICK p \in Nat \ {0}, n \in Nat : p = pos /\ n = Len(fmt) /\ DOMAIN fmt = 1..n /\ p <= n
  BY <1>1 DEF Contract, CallInv
<1>3. PICK first : first = LiteralFrom
  OBVIOUS
<1>4. \/ job.fmt[p] # "%" /\ first = p
      \/ job.fmt[p] = "%" /\ Directive(job, p) = "%" /\ first = p + 1
  BY <1>1, <1>2, <1>3 DEF LiteralFrom, At, CharAt, Directive
<1>5. first \in Nat /\ first <= n
  BY <1>1, <1>2, <1>4 DEF Directive, CharAt, NUL
<1>6. PICK end : end = LiteralEnd
  OBVIOUS
<1>7. end \in (first + 1)..(n + 1) /\ \A i \in (first + 1)..(end - 1) : At(i) # "%"
  BY <1>1, <1>2, <1>3, <1>5, <1>6, LiteralEnds
<1>8. AtBoundary(job, p) /\ used = Taken(job, p - 1) /\ used \in Nat
  BY <1>1, <1>2 DEF CallInv, Walked
<1>9. /\ AtBoundary(job, end) /\ Taken(job, end - 1) = used
      /\ SubSeq(job.fmt, first, end - 1) \in Seq(STRING)
      /\ Good(job) => MeaningTo(job)[end - 1] =
                          MeaningTo(job)[p - 1] \o SubSeq(job.fmt, first, end - 1)
  <2>1. p \in DOMAIN job.fmt /\ end \in (first + 1)..(Len(job.fmt) + 1)
    BY <1>1, <1>2, <1>7
  <2>2. \A i \in (first + 1)..(end - 1) : CharAt(job.fmt, i) # "%"
    BY <1>1, <1>7 DEF At
  <2>3. IsLiteral(job, p, first, end)
    BY <1>4, <2>1, <2>2 DEF IsLiteral
  <2> QED  BY <1>1, <1>8, <2>1, <2>3, LiteralMeans
<1>10. PICK text \in Seq(Alphabet) : text = SubSeq(fmt, first, end - 1)
  BY <1>1, <1>9, TextsAreSequences
<1>11. Counted(text, end, 0)
  BY <1>3, <1>6, <1>10 DEF VprintfLiteral
<1>12. /\ end \in Nat \ {0} /\ end \in 1..(Len(job.fmt) + 1) /\ used + 0 = used /\ 0 \in Nat
       /\ Walks("vprintf")
  BY <1>1, <1>2, <1>5, <1>7, <1>8 DEF VprintfLiteral
<1>13. ~ (end > Len(job.fmt) + 1)
  BY <1>1, <1>2, <1>12
<1> QED  BY <1>1, <1>2, <1>9, <1>10, <1>11, <1>12, <1>13, CountedKeeps

LEMMA ConversionKeeps ==
    ASSUME NEW job, job = Job, CallInv(job, pos, used, out, written, status), VprintfConversion
    PROVE  CallInv(job, pos', used', out', written', status')
<1>1. /\ Walks("vprintf") /\ job.printer = printer /\ printer = "vprintf" /\ HasDirectives(job)
      /\ status = "walking" /\ At(pos) = "%" /\ At(pos + 1) \in Conversions
      /\ pos \in Nat \ {0} /\ used \in Nat
  BY JobIs DEF VprintfConversion, Walks, HasDirectives, CallInv
<1>2. PICK text \in Seq(Alphabet) :
          /\ text = ConversionText(At(pos + 1))
          /\ At(pos + 1) \in DOMAIN Numeric[printer] => itoa_fits(text)
          /\ AtBoundary(job, pos + 2) /\ used + 1 = Taken(job, pos + 1)
          /\ pos + 2 \in 1..(Len(job.fmt) + 1)
          /\ Good(job) => /\ pos + 2 \in 1..(Len(job.fmt) + 1)
                          /\ MeaningTo(job)[pos + 1] = MeaningTo(job)[pos - 1] \o text
  BY <1>1, ConversionAt
<1>3. Counted(text, pos + 2, 1)
  BY <1>1, <1>2 DEF VprintfConversion
<1>4. PICK next \in Nat \ {0} : next = pos + 2 /\ next - 1 = pos + 1
  BY <1>1
<1>5. Counted(text, next, 1)
  BY <1>3, <1>4
<1>6. ~ (next > Len(job.fmt) + 1)
  <2>1. Len(job.fmt) \in Nat
    BY <1>1 DEF CallInv, Contract
  <2> QED  BY <1>2, <1>4, <2>1
<1> QED  BY <1>1, <1>2, <1>4, <1>5, <1>6, CountedKeeps

LEMMA RestKeeps ==
    ASSUME NEW job, job = Job, CallInv(job, pos, used, out, written, status), VprintfRest
    PROVE  CallInv(job, pos', used', out', written', status')
<1>1. /\ Walks("vprintf") /\ job.printer = printer /\ printer = "vprintf" /\ HasDirectives(job)
      /\ job.fmt = fmt /\ Contract(job) /\ status = "walking"
      /\ At(pos) = "%" /\ At(pos + 1) \notin Conversions \cup {"%"}
  BY JobIs DEF VprintfRest, Walks, HasDirectives, CallInv
<1>2. PICK p \in Nat \ {0}, n \in Nat : p = pos /\ n = Len(fmt) /\ DOMAIN fmt = 1..n
  BY <1>1 DEF Contract, CallInv
<1>3. p \in 1..n /\ job.fmt[p] = "%"
  BY <1>1, <1>2 DEF At, CharAt, NUL
<1>4. ~ Good(job)
  <2>1. Starts(job, p)
    BY <1>1, <1>2, <1>3, DirectiveMeans DEF CallInv, Walked
  <2>2. Directive(job, p) \notin ConversionsOf(job.printer) \cup {"%"}
    BY <1>1, <1>2 DEF Directive, At, Conversions
  <2> QED  BY <1>1, <1>2, <1>3, <2>1, <2>2 DEF Good, Settled, WellFormed
<1>5. PICK text \in Seq(Alphabet) : text = SubSeq(fmt, pos, Len(fmt))
  <2>1. SubSeq(fmt, p, n) \in Seq(STRING)
    BY <1>1, <1>2, <1>3 DEF Contract
  <2> QED  BY <1>2, <2>1, TextsAreSequences
<1>6. PICK next \in Nat \ {0} : /\ next = Len(fmt) + 1 /\ next \notin DOMAIN job.fmt
                                /\ ~ (next > Len(job.fmt) + 1)
  <2>1. n + 1 \in Nat \ {0} /\ n + 1 \notin 1..n /\ ~ (n + 1 > n + 1)
    OBVIOUS
  <2> QED  BY <1>1, <1>2, <2>1
<1>7. Counted(text, next, 0)
  BY <1>5, <1>6 DEF VprintfRest
<1> QED  BY <1>1, <1>4, <1>6, <1>7, CountedKeeps

(***************************************************************************)
(* ki_printf, puts and kernel_early_putstr.                                *)
(***************************************************************************)
LEMMA PrintsKeeps ==
    ASSUME NEW job, job = Job, CallInv(job, pos, used, out, written, status), Walks("ki_printf"),
           NEW text \in Seq(Alphabet), NEW next \in Nat \ {0}, NEW takes \in Nat,
           Prints(text, next, takes), UNCHANGED written,
           Good(job) => /\ next \in 1..(Len(job.fmt) + 1)
                        /\ MeaningTo(job)[next - 1] = MeaningTo(job)[pos - 1] \o text,
           next > Len(job.fmt) + 1 => Starts(job, Len(job.fmt)),
           next \in DOMAIN job.fmt => AtBoundary(job, next) /\ used + takes = Taken(job, next - 1)
    PROVE  CallInv(job, pos', used', out', written', status')
<1>1. /\ job.printer = "ki_printf" /\ HasDirectives(job) /\ status = "walking" /\ Contract(job)
      /\ used \in Nat /\ written = 0
  BY JobIs DEF Walks, HasDirectives, CallInv, Walked
<1>2. PICK o \in Seq(Alphabet) : o = out
  BY DEF CallInv
<1>3. Good(job) => o = MeaningTo(job)[pos - 1]
  BY <1>1, <1>2 DEF CallInv, Walked
<1>4. status' = "walking" /\ out' = o \o text /\ pos' = next /\ used' = used + takes /\ written' = 0
  BY <1>1, <1>2 DEF Prints
<1>5. o \o text \in Seq(Alphabet) /\ used + takes \in Nat
  BY <1>1
<1>6. Walked(job, next, used + takes, o \o text, 0)
  BY <1>1, <1>3, Zenon DEF Walked
<1> QED  BY <1>1, <1>4, <1>5, <1>6 DEF CallInv

LEMMA KiTurnKeeps ==
    ASSUME NEW job, job = Job, CallInv(job, pos, used, out, written, status), KiTurn
    PROVE  CallInv(job, pos', used', out', written', status')
<1>1. /\ Walks("ki_printf") /\ job.printer = printer /\ printer = "ki_printf" /\ HasDirectives(job)
      /\ job.fmt = fmt /\ Contract(job) /\ status = "walking" /\ pos \in DOMAIN fmt /\ used \in Nat
      /\ UNCHANGED written
  BY JobIs DEF KiTurn, Walks, HasDirectives, CallInv
<1>2. PICK p \in Nat \ {0}, n \in Nat : p = pos /\ n = Len(fmt) /\ DOMAIN fmt = 1..n /\ p \in 1..n
  BY <1>1 DEF Contract, CallInv
<1>3. AtBoundary(job, p) /\ used = Taken(job, p - 1) /\ At(p) = job.fmt[p]
  BY <1>1, <1>2 DEF CallInv, Walked, At, CharAt
<1>4. \A i \in Nat : At(i) \in Alphabet
  <2>1. \A i \in 1..n : fmt[i] \in STRING
    BY <1>1, <1>2 DEF Contract
  <2> QED  BY <1>2, <2>1 DEF At, CharAt, Alphabet
<1>5. CASE At(pos) # "%" /\ Prints(<<At(pos)>>, pos + 1, 0)
  <2>1. MeaningAt(job, p) = <<job.fmt[p]>> /\ ~ TakesArgument(job, p) /\ AtBoundary(job, p + 1)
    BY <1>2, <1>3, <1>5, CharacterMeans
  <2>2. Taken(job, p) = used
    BY <1>3, <2>1, TakenGrows
  <2>3. PICK text \in Seq(Alphabet) : text = <<At(p)>>
    <3>1. At(p) \in Alphabet
      BY <1>4
    <3>2. <<At(p)>> \in Seq(Alphabet)
      BY <3>1
    <3> QED  BY <3>2
  <2>4. PICK next \in Nat \ {0} : next = p + 1 /\ next - 1 = p /\ next \in 1..(n + 1)
    BY <1>2
  <2>5. Good(job) => MeaningTo(job)[next - 1] = MeaningTo(job)[p - 1] \o text
    BY <1>1, <1>2, <1>3, <2>1, <2>3, <2>4, MeaningAccumulates DEF Accumulates
  <2>6. Prints(text, next, 0) /\ used + 0 = used /\ ~ (next > Len(job.fmt) + 1)
    BY <1>1, <1>2, <1>5, <2>3, <2>4
  <2> QED  BY <1>1, <1>2, <2>1, <2>2, <2>4, <2>5, <2>6, PrintsKeeps
<1>6. CASE /\ At(pos) = "%" /\ At(pos + 1) \in Conversions
           /\ Prints(ConversionText(At(pos + 1)), pos + 2, 1)
  <2>1. PICK text \in Seq(Alphabet) :
            /\ text = ConversionText(At(pos + 1))
            /\ AtBoundary(job, pos + 2) /\ used + 1 = Taken(job, pos + 1)
            /\ pos + 2 \in 1..(Len(job.fmt) + 1)
            /\ Good(job) => /\ pos + 2 \in 1..(Len(job.fmt) + 1)
                            /\ MeaningTo(job)[pos + 1] = MeaningTo(job)[pos - 1] \o text
    BY <1>1, <1>6, ConversionAt
  <2>2. PICK next \in Nat \ {0} : /\ next = pos + 2 /\ next - 1 = pos + 1
                                  /\ ~ (next > Len(job.fmt) + 1)
    BY <1>1, <1>2, <2>1
  <2>3. Prints(text, next, 1)
    BY <1>6, <2>1, <2>2
  <2> QED  BY <1>1, <2>1, <2>2, <2>3, PrintsKeeps
<1>7. CASE /\ At(pos) = "%" /\ At(pos + 1) \notin Conversions
           /\ Prints(<<At(pos + 1)>>, pos + 2, 0)
  <2>1. Directive(job, p) = At(p + 1) /\ job.fmt[p] = "%"
    BY <1>1, <1>2, <1>3, <1>7 DEF Directive, At
  <2>2. /\ Starts(job, p) /\ AtBoundary(job, p + 2)
        /\ MeaningAt(job, p + 1) = <<>> /\ ~ TakesArgument(job, p + 1)
        /\ Directive(job, p) = "%" => MeaningAt(job, p) = <<"%">>
    BY <1>1, <1>3, <2>1, DirectiveMeans
  <2>3. Taken(job, p + 1) = used
    <3>1. ~ TakesArgument(job, p)
      BY <1>1, <1>2, <1>7, <2>1 DEF TakesArgument, Conversions
    <3>2. p + 1 \in Nat \ {0} /\ (p + 1) - 1 = p
      OBVIOUS
    <3> QED  BY <1>3, <2>2, <3>1, <3>2, TakenGrows
  <2>4. PICK text \in Seq(Alphabet) : text = <<At(p + 1)>>
    <3>1. At(p + 1) \in Alphabet
      BY <1>4
    <3>2. <<At(p + 1)>> \in Seq(Alphabet)
      BY <3>1
    <3> QED  BY <3>2
  <2>5. PICK next \in Nat \ {0} : next = p + 2 /\ next - 1 = p + 1
    OBVIOUS
  <2>6. ASSUME Good(job)
        PROVE  next \in 1..(n + 1) /\ MeaningTo(job)[next - 1] = MeaningTo(job)[p - 1] \o text
    <3>1. At(p + 1) = "%"
      BY <1>1, <1>2, <1>7, <2>1, <2>2, <2>6 DEF Good, Settled, WellFormed, Conversions
    <3>2. p + 1 \in 1..n
      BY <1>2, <3>1 DEF At, CharAt, NUL
    <3>3. /\ MeaningTo(job)[p] = MeaningTo(job)[p - 1] \o text
          /\ MeaningTo(job)[p + 1] = MeaningTo(job)[p] \o <<>>
      <4>1. (p + 1) - 1 = p /\ MeaningAt(job, p) = text
        BY <2>1, <2>2, <2>4, <3>1
      <4> QED  BY <1>1, <1>2, <2>2, <2>6, <3>2, <4>1, MeaningAccumulates DEF Accumulates
    <3>4. MeaningTo(job)[p] \in Seq(Alphabet)
      <4>1. p \in 0..Len(job.fmt)
        BY <1>1, <1>2
      <4> QED  BY <2>6, <4>1, MeaningBegins
    <3>5. MeaningTo(job)[p] \o <<>> = MeaningTo(job)[p]
      BY <3>4
    <3> QED  BY <1>2, <2>5, <3>2, <3>3, <3>5
  <2>7. Prints(text, next, 0) /\ used + 0 = used
    BY <1>1, <1>2, <1>7, <2>4, <2>5
  <2>8. next > Len(job.fmt) + 1 => Starts(job, Len(job.fmt))
    <3>1. next > n + 1 => p = n
      BY <1>2, <2>5
    <3> QED  BY <1>1, <1>2, <2>2, <3>1
  <2> QED  BY <1>1, <1>2, <2>2, <2>3, <2>5, <2>6, <2>7, <2>8, PrintsKeeps
<1> QED  BY <1>5, <1>6, <1>7 DEF KiTurn

LEMMA OverrunKeeps ==
    ASSUME NEW job, job = Job, CallInv(job, pos, used, out, written, status), Overrun
    PROVE  CallInv(job, pos', used', out', written', status')
<1>1. /\ job.printer = "ki_printf" /\ job.fmt = fmt /\ HasDirectives(job) /\ Contract(job)
      /\ status = "walking" /\ pos > Len(fmt) + 1 /\ pos \in Nat
      /\ status' = "overrun" /\ UNCHANGED <<pos, used, out, written>>
  BY JobIs DEF Overrun, Walks, HasDirectives, CallInv
<1>2. ~ Settled(job)
  <2>1. Len(job.fmt) \in Nat
    BY <1>1 DEF Contract
  <2>2. ~ Good(job)
    BY <1>1, <2>1 DEF CallInv, Walked
  <2> QED  BY <1>1, <2>2 DEF Good
<1>3. Starts(job, Len(job.fmt))
  BY <1>1 DEF CallInv, Walked
<1> QED  BY <1>1, <1>2, <1>3 DEF CallInv

LEMMA PutsTurnKeeps ==
    ASSUME NEW job, job = Job, CallInv(job, pos, used, out, written, status), PutsTurn
    PROVE  CallInv(job, pos', used', out', written', status')
<1>1. /\ job.printer = printer /\ printer \in {"puts", "kernel_early_putstr"} /\ ~ HasDirectives(job)
      /\ job.fmt = fmt /\ Contract(job) /\ status = "walking" /\ pos \in DOMAIN fmt
      /\ used \in Nat /\ written \in Int /\ out \in Seq(Alphabet)
  BY JobIs DEF PutsTurn, HasDirectives, CallInv
<1>2. PICK p \in Nat \ {0}, n \in Nat : p = pos /\ n = Len(fmt) /\ DOMAIN fmt = 1..n /\ p \in 1..n
  BY <1>1 DEF Contract, CallInv
<1>3. out = SubSeq(fmt, 1, p - 1) /\ fmt \in Seq(STRING)
  BY <1>1, <1>2 DEF CallInv, Walked, Contract
<1>4. /\ status' = "walking" /\ out' = out \o <<fmt[p]>> /\ pos' = p + 1 /\ used' = used
      /\ written' = written
  BY <1>1, <1>2 DEF PutsTurn, Prints, At, CharAt
<1>5. out' = SubSeq(fmt, 1, p)
  <2>1. p - 1 \in Nat /\ (p - 1) + 1 = p /\ 1 <= (p - 1) + 1 /\ (p - 1) + 1 <= Len(fmt) /\ 1 \in Nat \ {0}
    BY <1>2
  <2>2. SubSeq(fmt, 1, (p - 1) + 1) = SubSeq(fmt, 1, p - 1) \o <<fmt[(p - 1) + 1]>>
    BY <1>3, <2>1, OneMoreCharacter
  <2> QED  BY <1>3, <1>4, <2>1, <2>2
<1>6. out' \in Seq(Alphabet)
  <2>1. SubSeq(fmt, 1, p) \in Seq(STRING)
    BY <1>2, <1>3
  <2> QED  BY <1>5, <2>1, TextsAreSequences
<1>7. Walked(job, p + 1, used, out', written)
  <2>1. p + 1 \in 1..(n + 1) /\ (p + 1) - 1 = p
    BY <1>2
  <2> QED  BY <1>1, <1>2, <1>5, <2>1 DEF Walked, Good
<1> QED  BY <1>1, <1>2, <1>4, <1>6, <1>7 DEF CallInv

LEMMA ReturnKeeps ==
    ASSUME NEW job, job = Job, CallInv(job, pos, used, out, written, status), Return
    PROVE  CallInv(job, pos', used', out', written', status')
<1>1. /\ job.printer = printer /\ printer \in Printers /\ job.fmt = fmt /\ Contract(job)
      /\ status = "walking" /\ pos = Len(fmt) + 1 /\ fmt \in Seq(STRING)
      /\ used \in Nat /\ written \in Int /\ pos \in Nat \ {0}
      /\ status' = "returned" /\ pos' = pos /\ used' = used
      /\ Walked(job, pos, used, out, written)
  BY JobIs DEF Return, CallInv, Contract
<1>2. PICK o \in Seq(Alphabet), f \in Seq(Alphabet) : o = out /\ f = fmt
  BY <1>1, TextsAreSequences DEF CallInv
<1>3. Len(f) \in Nat /\ pos - 1 = Len(f) /\ pos \in 1..(Len(f) + 1)
  BY <1>1, <1>2
<1>4. CASE HasDirectives(job)
  <2>1. printer \in {"vprintf", "ki_printf"} /\ out' = o /\ written' = written
    BY <1>1, <1>2, <1>4 DEF HasDirectives, Return
  <2>2. Settled(job) => o = Meaning(job)
    <3> SUFFICES ASSUME Settled(job) PROVE o = Meaning(job)
      OBVIOUS
    <3>1. Good(job)
      BY <1>1, <1>4 DEF Good
    <3>2. o = MeaningTo(job)[Len(job.fmt)]
      BY <1>1, <1>2, <1>3, <3>1 DEF Walked
    <3> QED  BY <3>1, <3>2, MeaningAccumulates DEF Accumulates
  <2>3. Returned(job, o, written)
    BY <1>1, <1>2, <2>1, <2>2 DEF Returned, Walked
  <2> QED  BY <1>1, <2>1, <2>3 DEF CallInv
<1>5. CASE ~ HasDirectives(job)
  <2>1. printer \in {"puts", "kernel_early_putstr"} /\ written' = pos
    BY <1>1, <1>5 DEF HasDirectives, Printers, Return
  <2>2. o = f
    <3>1. o = SubSeq(f, 1, Len(f))
      <4>1. out = SubSeq(job.fmt, 1, pos - 1)
        BY <1>1, <1>5, Zenon DEF Walked
      <4> QED  BY <1>1, <1>2, <1>3, <4>1, Zenon
    <3>2. SubSeq(f, 1, Len(f)) = f
      OBVIOUS
    <3> QED  BY <3>1, <3>2
  <2>3. Newline \in Alphabet
    BY DEF Alphabet
  <2>4. CASE printer = "puts"
    <3>1. out' = Append(f, Newline)
      BY <1>2, <2>2, <2>4 DEF Return
    <3>2. Append(f, Newline) \in Seq(Alphabet) /\ Len(Append(f, Newline)) = pos
      BY <1>3, <2>3
    <3>3. Meaning(job) = Append(f, Newline)
      BY <1>1, <1>2, <1>5, <2>4 DEF Meaning
    <3>4. Returned(job, Append(f, Newline), pos)
      BY <1>1, <2>4, <3>2, <3>3 DEF Returned
    <3> QED  BY <1>1, <2>1, <3>1, <3>2, <3>4 DEF CallInv
  <2>5. CASE printer = "kernel_early_putstr"
    <3>1. out' = f
      BY <1>2, <2>2, <2>5 DEF Return
    <3>2. Meaning(job) = f
      BY <1>1, <1>2, <1>5, <2>5 DEF Meaning
    <3>3. Returned(job, f, pos)
      BY <1>1, <1>2, <2>5, <3>2 DEF Returned
    <3> QED  BY <1>1, <1>2, <2>1, <3>1, <3>3 DEF CallInv
  <2> QED  BY <2>1, <2>4, <2>5
<1> QED  BY <1>4, <1>5

-------------------------------------------------------------------------------
LEMMA PrintInvariance == LibcSpec => []PrintInv
<1>1. LibcInit => PrintInv
  <2>1. ASSUME PrintInit PROVE PrintInv
    <3>1. PICK job \in Jobs : printer = job.printer /\ fmt = job.fmt /\ args = job.args
      BY <2>1 DEF PrintInit
    <3>2. pos = 1 /\ used = 0 /\ out = <<>> /\ written = 0 /\ status = "walking"
      BY <2>1 DEF PrintInit
    <3>3. PICK j : j = Job
      OBVIOUS
    <3>4. j.printer = job.printer /\ j.fmt = job.fmt /\ j.args = job.args
      BY <3>1, <3>3, JobIs
    <3>5. Contract(job)
      BY JobsAssumption DEF Contract
    <3>6. Contract(j)
      <4>1. \A i : TakesArgument(j, i) <=> TakesArgument(job, i)
        <5>1. \A i : Starts(j, i) <=> Starts(job, i)
          BY <3>4, Zenon DEF Starts
        <5>2. \A i : Directive(j, i) = Directive(job, i)
          BY <3>4, Zenon DEF Directive
        <5> QED  BY <3>4, <5>1, <5>2, Zenon DEF TakesArgument
      <4>2. \A i : ArgumentOf(j, i) = ArgumentOf(job, i)
        <5> TAKE i
        <5>1. {k \in 1..i : TakesArgument(j, k)} = {k \in 1..i : TakesArgument(job, k)}
          BY <4>1
        <5> QED  BY <3>4, <5>1, Zenon DEF ArgumentOf
      <4>3. \A i : Directive(j, i) = Directive(job, i)
        BY <3>4, Zenon DEF Directive
      <4>4. HasDirectives(j) <=> HasDirectives(job)
        BY <3>4 DEF HasDirectives
      <4> QED  BY <3>4, <3>5, <4>1, <4>2, <4>3, <4>4, Zenon DEF Contract
    <3>7. PICK n \in Nat : n = Len(j.fmt)
      BY <3>6 DEF Contract
    <3>8. SubSeq(j.fmt, 1, 0) = <<>> /\ Len(<<>>) = 0 /\ <<>> \in Seq(Alphabet)
      BY <3>6 DEF Contract
    <3>9. Good(j) => MeaningTo(j)[0] = <<>>
      BY MeaningAccumulates DEF Accumulates
    <3>10. AtBoundary(j, 1) /\ Taken(j, 0) = 0
      BY BoundaryMoves, TakenGrows
    <3>11. Walked(j, 1, 0, <<>>, 0)
      <4>1. 1 \in 1..(n + 1) /\ 1 - 1 = 0 /\ 0 <= INT_MAX /\ ~ (1 > n + 1)
        BY PrintingAssumption
      <4> QED  BY <3>7, <3>8, <3>9, <3>10, <4>1 DEF Walked
    <3> QED  BY <3>2, <3>3, <3>6, <3>8, <3>11 DEF PrintInv, CallInv
  <2>2. ASSUME NoPrinting PROVE PrintInv
    <3>1. PICK j : j = Job
      OBVIOUS
    <3>2. /\ j.printer = "puts" /\ j.fmt = <<>> /\ ~ HasDirectives(j)
          /\ pos = 1 /\ used = 0 /\ out = <<Newline>> /\ written = 1 /\ status = "returned"
      BY <2>2, <3>1, JobIs DEF NoPrinting, HasDirectives
    <3>3. Contract(j)
      BY <3>2 DEF Contract, Printers
    <3>4. Newline \in Alphabet
      BY DEF Alphabet
    <3>5. <<Newline>> \in Seq(Alphabet) /\ Len(<<Newline>>) = 1 /\ Append(<<>>, Newline) = <<Newline>>
      BY <3>4
    <3>6. Meaning(j) = <<Newline>>
      BY <3>2, <3>5 DEF Meaning
    <3>7. Returned(j, <<Newline>>, 1)
      BY <3>2, <3>5, <3>6 DEF Returned
    <3> QED  BY <3>1, <3>2, <3>3, <3>5, <3>7 DEF PrintInv, CallInv
  <2> QED  BY <2>1, <2>2 DEF LibcInit
<1>2. PrintInv /\ [LibcNext]_libcVars => PrintInv'
  <2> SUFFICES ASSUME PrintInv, [LibcNext]_libcVars PROVE PrintInv'
    OBVIOUS
  <2>1. PICK job : job = Job
    OBVIOUS
  <2>2. CallInv(job, pos, used, out, written, status)
    BY <2>1 DEF PrintInv
  <2>3. CASE PrintStep
    <3>1. printer' = printer /\ fmt' = fmt /\ args' = args
      BY <2>3 DEF PrintStep, VprintfLiteral, VprintfConversion, VprintfRest, Counted, TooLong,
                  StopsAtEof, Fail, Prints, KiTurn, Overrun, PutsTurn, Return
    <3>2. CallInv(job, pos', used', out', written', status')
      BY <2>1, <2>2, <2>3, LiteralKeeps, ConversionKeeps, RestKeeps, KiTurnKeeps, OverrunKeeps,
         PutsTurnKeeps, ReturnKeeps DEF PrintStep
    <3> QED  BY <2>1, <3>1, <3>2, JobStays DEF PrintInv
  <2>4. CASE UNCHANGED printVars
    BY <2>4, JobStays DEF printVars, PrintInv
  <2> QED  BY <2>3, <2>4 DEF LibcNext, Ended, libcVars
<1> QED  BY <1>1, <1>2, PTL DEF LibcSpec

(***************************************************************************)
(* PrintsMeaning: for every format of known directives, every argument a   *)
(* caller may pass but a negative one of "%d" or "%i", and every width of  *)
(* unsigned int, vprintf and ki_printf print the meaning of the format, in *)
(* order; and ki_printf leaves no format but one that ends with a "%" that *)
(* starts a directive.                                                     *)
(***************************************************************************)
THEOREM MeaningPrinted == LibcSpec => []PrintsMeaning
BY PrintInvariance, InvImplies, PTL

(***************************************************************************)
(* CountTold: the count that is returned is that of the characters         *)
(* printed, and vprintf fails only if the output is too long or putchar    *)
(* gave EOF.  itoa's buffer is never too small.                            *)
(***************************************************************************)
THEOREM CountIsTold == LibcSpec => []CountTold
BY PrintInvariance, InvImplies, PTL

===============================================================================
