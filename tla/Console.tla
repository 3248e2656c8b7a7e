------------------------------- MODULE Console -------------------------------
(***************************************************************************)
(* The VGA text console of kernel/kernel.c, as operators on a record: the  *)
(* cells of the screen in memory order, the software cursor (row, col) and *)
(* the position the hardware cursor was last moved to.                     *)
(***************************************************************************)
EXTENDS Integers, SequencesExt

CONSTANTS VGA_WIDTH, VGA_HEIGHT

ASSUME ConsoleAssumption == VGA_WIDTH \in Nat \ {0} /\ VGA_HEIGHT \in Nat \ {0}

Cells == 0 .. VGA_WIDTH * VGA_HEIGHT - 1
Pos(s) == s.row * VGA_WIDTH + s.col

vga_update_cursor(s) == [s EXCEPT !.hw = Pos(s)]

(* The cursor goes home; the hardware cursor stays where it is.            *)
vga_clear(s) == [s EXCEPT !.cell = [i \in Cells |-> " "], !.row = 0, !.col = 0]

vga_scroll_if_needed(s) ==
  IF s.row < VGA_HEIGHT THEN s
  ELSE [s EXCEPT !.row = VGA_HEIGHT - 1,
                 !.cell = [i \in Cells |-> IF i + VGA_WIDTH \in Cells THEN @[i + VGA_WIDTH] ELSE " "]]

NewLine(s) == [s EXCEPT !.col = 0, !.row = @ + 1]

(* Variant: a backspace does not go back over the start of a row.          *)
Backspace_StaysInRow(s) ==
  LET back == IF s.col > 0 THEN [s EXCEPT !.col = @ - 1] ELSE s
  IN  [back EXCEPT !.cell[Pos(back)] = " "]

Backspace(s) ==
  LET back == IF s.col > 0 THEN [s EXCEPT !.col = @ - 1]
              ELSE IF s.row > 0 THEN [s EXCEPT !.row = @ - 1, !.col = VGA_WIDTH - 1]
              ELSE s
  IN  [back EXCEPT !.cell[Pos(back)] = " "]

Put(s, c) ==
  LET t == [s EXCEPT !.cell[Pos(s)] = c, !.col = @ + 1]
  IN  IF t.col >= VGA_WIDTH THEN NewLine(t) ELSE t

vga_putchar(s, c) ==
  vga_update_cursor(vga_scroll_if_needed(
    CASE c = "newline" -> NewLine(s)
      [] c = "backspace" -> Backspace(s)
      [] OTHER -> Put(s, c)))

kprint(s, text) ==
  LET after[n \in 0 .. Len(text)] ==
        IF n = 0 THEN s ELSE vga_putchar(after[n - 1], text[n])
  IN  after[Len(text)]
=============================================================================
