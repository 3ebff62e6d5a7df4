------------------------------- MODULE Screen -------------------------------
(***************************************************************************)
(* The text screen of printer.c.  A screen is a value with the cells of    *)
(* the framebuffer and the position of the cursor, which the hardware      *)
(* keeps; the functions are operators from screens to screens.  Colours    *)
(* and formats are left out: what writef writes is a sequence of           *)
(* characters.  The cursor may be behind the last cell, where a character  *)
(* is written to memory that is not shown.                                 *)
(***************************************************************************)
EXTENDS Integers, Sequences

CONSTANTS SCREEN_WIDTH, SCREEN_HEIGHT, TAB_WIDTH

CELLS == SCREEN_WIDTH * SCREEN_HEIGHT

ASSUME ScreenAssumption ==
  /\ SCREEN_WIDTH \in Nat \ {0} /\ SCREEN_HEIGHT \in Nat \ {0}
  /\ TAB_WIDTH \in Nat \ {0} /\ SCREEN_WIDTH % TAB_WIDTH = 0
  /\ CELLS < 65536    \* they have positions

\* The characters that are not simply shown.
NUL == "nul"
SP == " "
NL == "newline"
TAB == "tab"
BS == "backspace"
DEL == "delete"

\* What memory behind the screen holds.
HIDDEN == "hidden"

Position(p) == p % 65536    \* pos_t

put_char(s, i, c) ==
  [s EXCEPT !.cell = [k \in 0..(CELLS - 1) |-> IF k = i THEN c ELSE @[k]]]

set_cursor_pos(s, p) == [s EXCEPT !.cursor = Position(p)]

\* Spaces in the cells from a up to, and without, b.
pad(s, a, b) ==
  [s EXCEPT !.cell = [k \in 0..(CELLS - 1) |-> IF k \in a..(b - 1) THEN SP ELSE @[k]]]

clear(s) == set_cursor_pos(pad(s, 0, CELLS), 0)

\* All lines move up, the last one is empty.  The cursor stays.
scroll(s) ==
  [s EXCEPT !.cell = [k \in 0..(CELLS - 1) |->
     IF k + SCREEN_WIDTH < CELLS THEN @[k + SCREEN_WIDTH] ELSE SP]]

\* The switch of write_char.
PadTo(s, p) == set_cursor_pos(pad(s, s.cursor, p), p)
Placed(s, c) ==
  CASE c = NUL -> s
    [] c = NL  -> PadTo(s, SCREEN_WIDTH * (s.cursor \div SCREEN_WIDTH + 1))
    [] c = TAB -> PadTo(s, TAB_WIDTH * (s.cursor \div TAB_WIDTH + 1))
    [] c = BS  -> put_char(set_cursor_pos(s, s.cursor - 1), Position(s.cursor - 1), SP)
    [] c = DEL -> [s EXCEPT !.cell = [k \in 0..(CELLS - 1) |->
                     IF k < s.cursor THEN @[k]
                     ELSE IF k + 1 < CELLS THEN @[k + 1] ELSE HIDDEN]]
    [] OTHER   -> set_cursor_pos(put_char(s, s.cursor, c), s.cursor + 1)

\* The test for scrolling at its end.
Scrolled(s) ==
  IF s.cursor = CELLS THEN set_cursor_pos(scroll(s), CELLS - SCREEN_WIDTH) ELSE s

write_char(s, c) == Scrolled(Placed(s, c))

\* write_string and writef, of the characters cs.
write_string(s, cs) ==
  LET written[i \in 0..Len(cs)] ==
        IF i = 0 THEN s ELSE write_char(written[i - 1], cs[i])
  IN  written[Len(cs)]

\* The screen the kernel starts with.
Blank == [cell |-> [k \in 0..(CELLS - 1) |-> SP], cursor |-> 0]
=============================================================================
