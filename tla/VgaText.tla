------------------------------- MODULE VgaText -------------------------------
(***************************************************************************)
(* The VGA text console of Chapter_02_Source_tree/03_Stdout (vga_text.c): *)
(* vga_text_init, vga_text_clear, vga_text_gotoxy and vga_text_print_char *)
(* as operators on the console record                                     *)
(*     [x |-> xpos, y |-> ypos, video |-> the character cells]            *)
(* so that a program module can print through them inside its own steps.  *)
(*                                                                         *)
(* video is the text page as the hardware lays it out: cell x + y * COLS, *)
(* ROWS + 1 rows (the 80 x 25 page for COLS = 80, ROWS = 24).  Only the   *)
(* character byte of a cell is kept; the attribute byte is left out, no   *)
(* property is about colours.  The hardware cursor registers written by   *)
(* gotoxy (t = ypos * 80 + xpos, outb to 0x3D4/0x3D5) are output only.    *)
(* The scroll's constants 80 and 24 are COLS and ROWS.                    *)
(***************************************************************************)
EXTENDS Integers, Sequences

CONSTANTS
    COLS,      \* characters per row (80)
    ROWS,      \* ROWS of vga_text.c (24): the last row index the cursor reaches
    TABW,      \* tab stop distance (8)
    Glyphs,    \* printable characters programs print
    BootText   \* what the page holds, outside the rows vga_text_clear writes, at boot

ASSUME COLS \in Nat \ {0} /\ ROWS \in Nat /\ TABW \in Nat \ {0} /\ COLS % TABW = 0

(* the control characters print_char interprets, and the byte clear writes *)
TAB == "TAB"
CR  == "CR"
LF  == "LF"
BS  == "BS"
NUL == "NUL"
SPACE == " "

Controls == {TAB, CR, LF, BS}

ASSUME SPACE \in Glyphs /\ Glyphs \cap (Controls \cup {NUL}) = {} /\ BootText \notin Glyphs \cup {NUL}

PAGE == (ROWS + 1) * COLS           \* cells of the text page
Cells == Glyphs \cup {NUL, BootText}

Cell(x, y) == x + y * COLS

(* a store to cell i of the page; a store beyond it lands in memory nobody sees *)
Put(v, i, ch) == IF i \in DOMAIN v THEN [v EXCEPT ![i] = ch] ELSE v

(* vga_text_gotoxy: xpos = x, ypos = y (the cursor registers are output only) *)
vga_text_gotoxy(con, x, y) == [con EXCEPT !.x = x, !.y = y]

(* vga_text_clear: COLS * ROWS cells get byte 0, then gotoxy ( 0, 0 ) *)
vga_text_clear(con) ==
    LET v == con.video
    IN  vga_text_gotoxy([con EXCEPT !.video = [i \in DOMAIN v |-> IF i < COLS * ROWS THEN NUL ELSE v[i]]],
                        0, 0)

(* vga_text_init: xpos = ypos = 0, then clear; the page holds BootText before *)
vga_text_init ==
    vga_text_clear([x |-> 0, y |-> 0, video |-> [i \in 0 .. PAGE - 1 |-> BootText]])

(* the scroll: memmove of rows 1 .. ROWS one row up, memsetw of row ROWS to spaces *)
Scroll(v) == [i \in DOMAIN v |-> IF i < COLS * ROWS THEN v[i + COLS] ELSE SPACE]

(* Variant for checking: backspace blanks the cell but leaves xpos where it was *)
PutChar_bskeep(con, c) ==
    CASE c = TAB -> [con EXCEPT !.x = (@ \div TABW + 1) * TABW]
      [] c = CR  -> [con EXCEPT !.x = 0]
      [] c = LF  -> con
      [] c = BS  -> IF con.x > 0
                    THEN [con EXCEPT !.video = Put(@, Cell(con.x - 1, con.y), SPACE)]
                    ELSE con
      [] OTHER   -> [con EXCEPT !.video = Put(@, Cell(con.x, con.y), c), !.x = @ + 1]

(* the switch of print_char *)
PutChar(con, c) ==
    CASE c = TAB -> [con EXCEPT !.x = (@ \div TABW + 1) * TABW]
      [] c = CR  -> [con EXCEPT !.x = 0]
      [] c = LF  -> con
      [] c = BS  -> IF con.x > 0
                    THEN [con EXCEPT !.x = @ - 1, !.video = Put(@, Cell(con.x - 1, con.y), SPACE)]
                    ELSE con
      [] OTHER   -> [con EXCEPT !.video = Put(@, Cell(con.x, con.y), c), !.x = @ + 1]

(* Variant for checking: the cursor moves down from row ROWS as well *)
NewLine_pastlast(con) ==
    IF con.y <= ROWS THEN [con EXCEPT !.x = 0, !.y = @ + 1]
    ELSE [con EXCEPT !.x = 0, !.video = Scroll(@)]

(* the line end of print_char: next row, or a scroll when the cursor is on row ROWS *)
NewLine(con) ==
    IF con.y < ROWS THEN [con EXCEPT !.x = 0, !.y = @ + 1]
    ELSE [con EXCEPT !.x = 0, !.video = Scroll(@)]

(* vga_text_print_char ( c, attr ) *)
vga_text_print_char(con, c) ==
    LET s == PutChar(con, c)
        t == IF s.x >= COLS \/ c = LF THEN NewLine(s) ELSE s
    IN  vga_text_gotoxy(t, t.x, t.y)

(* __print of a string: print_char for each of its characters in turn *)
RECURSIVE PrintStr(_, _)
PrintStr(con, str) ==
    IF str = <<>> THEN con
    ELSE LET next == vga_text_print_char(con, Head(str))
         IN  \* the cursor test makes TLC evaluate next before the rest is printed
             IF next.x >= 0 THEN PrintStr(next, Tail(str)) ELSE next

(* the characters of row y *)
Row(con, y) == [k \in 0 .. COLS - 1 |-> con.video[Cell(k, y)]]

ConsoleType(con) ==
    /\ con.x \in 0 .. COLS - 1
    /\ con.y \in 0 .. ROWS
    /\ con.video \in [0 .. PAGE - 1 -> Cells]
=============================================================================
