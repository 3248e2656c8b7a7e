----------------------------- MODULE ShellProofs -----------------------------
(***************************************************************************)
(* Proofs about Shell and Console, for every size of the screen, the line  *)
(* buffer and the history, and for whatever commands print: what the user  *)
(* sees on the prompt line is what enter runs, history shows the last      *)
(* lines, and a command's words reach the file system as they were typed.  *)
(*                                                                         *)
(* What kprint does to a text of any length needs induction over the text, *)
(* which is done here with the smallest place where a claim would fail.    *)
(***************************************************************************)
EXTENDS Shell, SequenceTheorems, WellFoundedInduction, TLAPS

Screen == [cell : [Cells -> Chars], row : 0 .. VGA_HEIGHT - 1,
           col : 0 .. VGA_WIDTH - 1, hw : Int]

(* Nothing is behind the cursor.                                           *)
BlankBehind(s) == \A i \in Cells : i >= Pos(s) => s.cell[i] = " "

(* A text is right before the cursor.                                      *)
Shows(s, text) ==
  \A i \in 1 .. Len(text) :
    /\ Pos(s) - Len(text) + i - 1 \in Cells
    /\ s.cell[Pos(s) - Len(text) + i - 1] = text[i]

ScreenInv == scr \in Screen /\ BlankBehind(scr) /\ scr.hw = Pos(scr) /\ Shows(scr, Prompt \o line)

LineInv == line \in Seq(Keys) /\ Len(line) <= LINE_BUF_SIZE - 1

(* The places from the end of the array hold the lines entered.            *)
HistoryInv ==
  /\ history \in [1 .. HISTORY_SIZE -> Seq(Keys)]
  /\ history_count \in 0 .. HISTORY_SIZE
  /\ entered \in Seq(Seq(Keys)) /\ Len(entered) = history_count
  /\ \A i \in 1 .. history_count : entered[i] = history[HISTORY_SIZE - history_count + i]

(* What the last command passed on is what was typed.                      *)
CallInv == ShortWordsKept

IInv == ScreenInv /\ LineInv /\ HistoryInv /\ CallInv

-----------------------------------------------------------------------------
(* Induction.                                                              *)

(* A set of naturals that is not empty has a least element.                *)
LEMMA LeastNat ==
  ASSUME NEW T, T \subseteq Nat, T # {}
  PROVE  \E x \in T : \A y \in T : x <= y
<1>1. PICK x \in T : \A y \in T : ~(<<y, x>> \in OpToRel(<, Nat))
  BY NatLessThanWellFounded, WFMin
<1>2. \A y \in T : ~(y < x)
  BY <1>1 DEF OpToRel
<1>3. ASSUME NEW y \in T  PROVE x <= y
  <2>1. x \in Nat /\ y \in Nat /\ ~(y < x)
    BY <1>1, <1>2
  <2> QED  BY <2>1
<1> QED  BY <1>1, <1>3

(* f[0], f[1], ..., f[n] are the screens as the text is printed.           *)
Printing(f, s, text, n) ==
  f = [i \in 0 .. n |-> IF i = 0 THEN s ELSE vga_putchar(f[i - 1], text[i])]

(* The recursion of kprint has a solution for every text.                  *)
LEMMA PrintingExists ==
  ASSUME NEW s, NEW text \in Seq(Chars)
  PROVE  \E f : Printing(f, s, text, Len(text))
<1> DEFINE T == {n \in 0 .. Len(text) : ~\E f : Printing(f, s, text, n)}
<1>1. ASSUME T # {}  PROVE FALSE
  <2>1. PICK n \in T : \A y \in T : n <= y
    <3>1. T \subseteq Nat  OBVIOUS
    <3> HIDE DEF T
    <3> QED  BY <1>1, <3>1, LeastNat
  <2>2. n \in 0 .. Len(text) /\ ~\E f : Printing(f, s, text, n)
    BY <2>1
  <2>3. n # 0
    <3>1. Printing([i \in 0 .. 0 |-> s], s, text, 0)
      BY DEF Printing
    <3> QED  BY <2>2, <3>1
  <2>4. n - 1 \in 0 .. Len(text) /\ n - 1 \notin T
    BY <2>1, <2>2, <2>3
  <2>5. PICK f : Printing(f, s, text, n - 1)
    BY <2>4
  <2> DEFINE g == [i \in 0 .. n |-> IF i < n THEN f[i] ELSE vga_putchar(f[n - 1], text[n])]
  <2>6. ASSUME NEW i \in 0 .. n
        PROVE  g[i] = IF i = 0 THEN s ELSE vga_putchar(g[i - 1], text[i])
    <3>1. \A j \in 0 .. n - 1 : f[j] = IF j = 0 THEN s ELSE vga_putchar(f[j - 1], text[j])
      BY <2>5 DEF Printing
    <3>2. CASE i = 0
      BY <3>1, <3>2, <2>3, <2>2
    <3>3. CASE i # 0 /\ i < n
      BY <3>1, <3>3, <2>3, <2>2
    <3>4. CASE i = n
      BY <3>1, <3>4, <2>3, <2>2
    <3> QED  BY <3>2, <3>3, <3>4
  <2>7. g = [i \in 0 .. n |-> g[i]]
    OBVIOUS
  <2> HIDE DEF g
  <2>8. Printing(g, s, text, n)
    BY <2>6, <2>7 DEF Printing
  <2> QED  BY <2>2, <2>8
<1>2. Len(text) \in 0 .. Len(text)
  OBVIOUS
<1> QED  BY <1>1, <1>2

(* kprint is the last screen of the sequence.                              *)
LEMMA KprintIsPrinting ==
  ASSUME NEW s, NEW text \in Seq(Chars)
  PROVE  \E f : Printing(f, s, text, Len(text)) /\ kprint(s, text) = f[Len(text)]
<1>1. \E f : f = [n \in 0 .. Len(text) |-> IF n = 0 THEN s ELSE vga_putchar(f[n - 1], text[n])]
  <2>1. PICK f : Printing(f, s, text, Len(text))
    BY PrintingExists
  <2> QED  BY <2>1 DEF Printing
<1> DEFINE after[n \in 0 .. Len(text)] ==
      IF n = 0 THEN s ELSE vga_putchar(after[n - 1], text[n])
<1>2. kprint(s, text) = after[Len(text)]
  BY DEF kprint
<1>3. after = [n \in 0 .. Len(text) |-> IF n = 0 THEN s ELSE vga_putchar(after[n - 1], text[n])]
  BY <1>1
<1> QED  BY <1>2, <1>3 DEF Printing

(* The characters the shell prints itself.                                 *)
LEMMA SomeChars ==
  /\ " " \in Chars /\ ">" \in Chars /\ "newline" \in Chars /\ "backspace" \in Chars
  /\ \A c \in Keys : c \in Chars /\ c # "newline" /\ c # "backspace"
  /\ Prompt \in Seq(Chars) /\ Len(Prompt) = 2 /\ Prompt[1] = ">" /\ Prompt[2] = " "
<1>1. /\ " " \in Chars /\ ">" \in Chars /\ "newline" \in Chars /\ "backspace" \in Chars
      /\ \A c \in Keys : c \in Chars /\ c # "newline" /\ c # "backspace"
  BY ShellAssumption DEF Chars
<1>2. ASSUME NEW a \in Chars, NEW b \in Chars
      PROVE  <<a, b>> \in Seq(Chars) /\ Len(<<a, b>>) = 2 /\ <<a, b>>[1] = a /\ <<a, b>>[2] = b
  OBVIOUS
<1> QED  BY <1>1, <1>2 DEF Prompt

(* One character, and two.                                                 *)
LEMMA KprintOne ==
  ASSUME NEW s, NEW c \in Chars
  PROVE  kprint(s, <<c>>) = vga_putchar(s, c)
<1>1. <<c>> \in Seq(Chars) /\ Len(<<c>>) = 1 /\ <<c>>[1] = c
  OBVIOUS
<1>2. PICK f : Printing(f, s, <<c>>, 1) /\ kprint(s, <<c>>) = f[1]
  BY <1>1, KprintIsPrinting
<1>3. f[0] = s /\ f[1] = vga_putchar(f[0], <<c>>[1])
  <2>1. 0 \in 0 .. 1 /\ 1 \in 0 .. 1 /\ 1 - 1 = 0
    OBVIOUS
  <2> QED  BY <1>2, <2>1 DEF Printing
<1> QED  BY <1>1, <1>2, <1>3

(* The prompt is printed as two characters.                                *)
LEMMA KprintPrompt ==
  ASSUME NEW s
  PROVE  kprint(s, Prompt) = vga_putchar(vga_putchar(s, ">"), " ")
<1>1. Prompt \in Seq(Chars) /\ Len(Prompt) = 2 /\ Prompt[1] = ">" /\ Prompt[2] = " "
  BY SomeChars
<1>2. PICK f : Printing(f, s, Prompt, 2) /\ kprint(s, Prompt) = f[2]
  BY <1>1, KprintIsPrinting
<1>3. f[0] = s /\ f[1] = vga_putchar(f[0], Prompt[1]) /\ f[2] = vga_putchar(f[1], Prompt[2])
  BY <1>2 DEF Printing
<1> QED  BY <1>1, <1>2, <1>3

-----------------------------------------------------------------------------
(* The screen.                                                             *)

(* The screen has at least one cell.                                       *)
LEMMA ScreenSize ==
  /\ VGA_WIDTH \in Nat /\ VGA_WIDTH > 0 /\ VGA_HEIGHT \in Nat /\ VGA_HEIGHT > 0
  /\ VGA_WIDTH * VGA_HEIGHT \in Nat
  /\ VGA_WIDTH * (VGA_HEIGHT - 1) = VGA_WIDTH * VGA_HEIGHT - VGA_WIDTH
  /\ VGA_HEIGHT * VGA_WIDTH = VGA_WIDTH * VGA_HEIGHT
  /\ (VGA_HEIGHT - 1) * VGA_WIDTH = VGA_WIDTH * VGA_HEIGHT - VGA_WIDTH
BY ConsoleAssumption

(* Places in a grid.                                                       *)
LEMMA Grid ==
  ASSUME NEW w \in Nat, w > 0, NEW h \in Nat, h > 0,
         NEW r \in 0 .. h - 1, NEW c \in 0 .. w - 1
  PROVE  /\ r * w + c \in 0 .. w * h - 1
         /\ (r + 1) * w = r * w + w
         /\ (r - 1) * w = r * w - w
         /\ r > 0 => r * w - w >= 0
<1>1. (r + 1) * w = r * w + w /\ (r - 1) * w = r * w - w
  OBVIOUS
<1>2. r * w >= 0 /\ r * w \in Int
  OBVIOUS
<1>3. (r + 1) * w <= h * w
  <2>1. \A a, b \in Nat : a <= b => a * w <= b * w
    OBVIOUS
  <2> QED  BY <2>1
<1>4. h * w = w * h
  OBVIOUS
<1>5. r > 0 => (r - 1) * w >= 0
  OBVIOUS
<1> QED  BY <1>1, <1>2, <1>3, <1>4, <1>5

(* The cursor of a screen is at a cell.                                    *)
LEMMA PosOnScreen ==
  ASSUME NEW s \in Screen
  PROVE  Pos(s) \in Cells
<1>1. s.row \in 0 .. VGA_HEIGHT - 1 /\ s.col \in 0 .. VGA_WIDTH - 1
  BY DEF Screen
<1> QED  BY <1>1, ScreenSize, Grid DEF Pos, Cells

(* A screen before vga_scroll_if_needed: the cursor may be below it.       *)
Drawn(u) ==
  /\ u \in [cell : [Cells -> Chars], row : 0 .. VGA_HEIGHT, col : 0 .. VGA_WIDTH - 1, hw : Int]
  /\ u.row = VGA_HEIGHT => u.col = 0
  /\ BlankBehind(u)

(* Scrolling moves text and cursor up together, and loses no text of fewer *)
(* than VGA_HEIGHT rows.                                                   *)
LEMMA Scrolled ==
  ASSUME NEW u, Drawn(u), NEW t, t = vga_update_cursor(vga_scroll_if_needed(u))
  PROVE  /\ t \in Screen /\ BlankBehind(t) /\ t.hw = Pos(t)
         /\ \A text \in Seq(Chars) :
              Shows(u, text) /\ Len(text) <= VGA_WIDTH * (VGA_HEIGHT - 1) => Shows(t, text)
<1>1. CASE u.row < VGA_HEIGHT
  <2>1. /\ u \in Screen
    BY <1>1, ScreenSize DEF Drawn, Screen
  <2>2. t = [u EXCEPT !.hw = Pos(u)]
    BY <1>1 DEF vga_update_cursor, vga_scroll_if_needed
  <2>3. Pos(u) \in Int
    BY <2>1, PosOnScreen, ScreenSize DEF Cells
  <2>4. t \in Screen /\ t.cell = u.cell /\ t.row = u.row /\ t.col = u.col /\ t.hw = Pos(u)
    BY <2>1, <2>2, <2>3 DEF Screen
  <2>5. Pos(t) = Pos(u)
    BY <2>4 DEF Pos
  <2> QED  BY <2>4, <2>5 DEF Drawn, BlankBehind, Shows
<1>2. CASE ~(u.row < VGA_HEIGHT)
  <2>1. u.row = VGA_HEIGHT /\ u.col = 0 /\ u.cell \in [Cells -> Chars] /\ u.hw \in Int
    BY <1>2, ScreenSize DEF Drawn
  <2> DEFINE up == [i \in Cells |-> IF i + VGA_WIDTH \in Cells THEN u.cell[i + VGA_WIDTH] ELSE " "]
  <2>2. up \in [Cells -> Chars]
    BY <2>1, SomeChars
  <2>a. \A i \in Cells : up[i] = IF i + VGA_WIDTH \in Cells THEN u.cell[i + VGA_WIDTH] ELSE " "
    OBVIOUS
  <2> HIDE DEF up
  <2>3. PICK v : v = [u EXCEPT !.row = VGA_HEIGHT - 1, !.cell = up]
    OBVIOUS
  <2>4. v.row = VGA_HEIGHT - 1 /\ v.col = 0 /\ v.cell = up /\ v \in Screen
    <3>1. VGA_HEIGHT - 1 \in 0 .. VGA_HEIGHT - 1 /\ u.col \in 0 .. VGA_WIDTH - 1
      BY <2>1, ScreenSize
    <3> QED  BY <2>1, <2>2, <2>3, <3>1 DEF Drawn, Screen
  <2>5. t = [v EXCEPT !.hw = Pos(v)]
    BY <1>2, <2>3 DEF up, vga_update_cursor, vga_scroll_if_needed
  <2>6. Pos(v) \in Int
    <3>1. Pos(v) \in Cells
      BY <2>4, PosOnScreen
    <3> QED  BY <3>1 DEF Cells
  <2>7. t \in Screen /\ t.row = VGA_HEIGHT - 1 /\ t.col = 0 /\ t.cell = up /\ t.hw = Pos(v)
    BY <2>4, <2>5, <2>6 DEF Screen
  <2>8. /\ Pos(t) = VGA_WIDTH * VGA_HEIGHT - VGA_WIDTH /\ Pos(v) = Pos(t)
        /\ Pos(u) = VGA_WIDTH * VGA_HEIGHT
    <3>1. /\ Pos(t) = (VGA_HEIGHT - 1) * VGA_WIDTH + 0 /\ Pos(v) = (VGA_HEIGHT - 1) * VGA_WIDTH + 0
          /\ Pos(u) = VGA_HEIGHT * VGA_WIDTH + 0
      BY <2>1, <2>4, <2>7 DEF Pos
    <3> QED  BY <3>1, ScreenSize
  <2>9. BlankBehind(t)
    <3> SUFFICES ASSUME NEW i \in Cells, i >= Pos(t)  PROVE up[i] = " "
      BY <2>7 DEF BlankBehind
    <3>1. i + VGA_WIDTH \notin Cells
      BY <2>8, ScreenSize DEF Cells
    <3> QED  BY <2>a, <3>1
  <2>10. ASSUME NEW text \in Seq(Chars), Shows(u, text),
                Len(text) <= VGA_WIDTH * (VGA_HEIGHT - 1)
         PROVE  Shows(t, text)
    <3> SUFFICES ASSUME NEW i \in 1 .. Len(text)
                 PROVE  /\ Pos(t) - Len(text) + i - 1 \in Cells
                        /\ t.cell[Pos(t) - Len(text) + i - 1] = text[i]
      BY DEF Shows
    <3>1. Len(text) \in Nat /\ i \in Nat
      OBVIOUS
    <3>2. PICK p : p = Pos(t) - Len(text) + i - 1
      OBVIOUS
    <3>3. p + VGA_WIDTH = Pos(u) - Len(text) + i - 1
      BY <2>8, <3>1, <3>2, ScreenSize
    <3>4. p + VGA_WIDTH \in Cells /\ u.cell[p + VGA_WIDTH] = text[i]
      BY <2>10, <3>3 DEF Shows
    <3>5. p \in Cells
      BY <2>8, <2>10, <3>1, <3>2, ScreenSize DEF Cells
    <3> QED  BY <2>7, <2>a, <3>2, <3>4, <3>5
  <2> QED  BY <2>7, <2>8, <2>9, <2>10
<1> QED  BY <1>1, <1>2, ScreenSize DEF Drawn

(* A newline moves the cursor forward to the start of the next row.        *)
LEMMA NewLineDrawn ==
  ASSUME NEW s \in Screen, BlankBehind(s), NEW u, u = NewLine(s)
  PROVE  Drawn(u)
<1>1. /\ s.row \in 0 .. VGA_HEIGHT - 1 /\ s.col \in 0 .. VGA_WIDTH - 1
      /\ s.cell \in [Cells -> Chars] /\ s.hw \in Int
  BY DEF Screen
<1>2. s.row + 1 \in 0 .. VGA_HEIGHT /\ 0 \in 0 .. VGA_WIDTH - 1
  BY <1>1, ScreenSize
<1>3. u = [s EXCEPT !.col = 0, !.row = s.row + 1]
  BY DEF NewLine
<1>4. /\ u \in [cell : [Cells -> Chars], row : 0 .. VGA_HEIGHT, col : 0 .. VGA_WIDTH - 1, hw : Int]
      /\ u.row = s.row + 1 /\ u.col = 0 /\ u.cell = s.cell
  BY <1>1, <1>2, <1>3 DEF Screen
<1>5. Pos(u) = s.row * VGA_WIDTH + VGA_WIDTH
  <2>1. Pos(u) = (s.row + 1) * VGA_WIDTH + 0
    BY <1>4 DEF Pos
  <2> QED  BY <1>1, <2>1, ScreenSize, Grid
<1>6. Pos(u) > Pos(s) /\ Pos(u) \in Int /\ Pos(s) \in Int
  <2>1. s.row * VGA_WIDTH \in Int
    BY <1>1, ScreenSize
  <2> QED  BY <1>1, <1>5, <2>1, ScreenSize DEF Pos
<1>7. BlankBehind(u)
  <2> SUFFICES ASSUME NEW i \in Cells, i >= Pos(u)  PROVE s.cell[i] = " "
    BY <1>4 DEF BlankBehind
  <2>1. i >= Pos(s)
    BY <1>6 DEF Cells
  <2> QED  BY <2>1 DEF BlankBehind
<1> QED  BY <1>4, <1>7 DEF Drawn

(* A character goes to the cursor, which moves on by one place.            *)
LEMMA PutDrawn ==
  ASSUME NEW s \in Screen, BlankBehind(s), NEW c \in Chars, NEW u, u = Put(s, c)
  PROVE  /\ Drawn(u)
         /\ \A text \in Seq(Chars) : Shows(s, text) => Shows(u, Append(text, c))
<1>1. /\ s.row \in 0 .. VGA_HEIGHT - 1 /\ s.col \in 0 .. VGA_WIDTH - 1
      /\ s.cell \in [Cells -> Chars] /\ s.hw \in Int
  BY DEF Screen
<1>2. Pos(s) \in Cells
  BY PosOnScreen
<1>3. PICK cells : cells = [s.cell EXCEPT ![Pos(s)] = c]
  OBVIOUS
<1>4. cells \in [Cells -> Chars] /\ cells[Pos(s)] = c
      /\ \A i \in Cells : i # Pos(s) => cells[i] = s.cell[i]
  BY <1>1, <1>2, <1>3
<1>5. PICK t : t = [s EXCEPT !.cell = cells, !.col = s.col + 1]
  OBVIOUS
<1>6. /\ t.cell = cells /\ t.row = s.row /\ t.col = s.col + 1 /\ t.hw = s.hw
      /\ t \in [cell : [Cells -> Chars], row : 0 .. VGA_HEIGHT - 1, col : Int, hw : Int]
  <2>1. s.col + 1 \in Int
    BY <1>1
  <2> QED  BY <1>1, <1>4, <1>5, <2>1 DEF Screen
<1>7. u = IF t.col >= VGA_WIDTH THEN NewLine(t) ELSE t
  BY <1>3, <1>5 DEF Put
<1>8. s.row * VGA_WIDTH \in Int /\ (s.row + 1) * VGA_WIDTH = s.row * VGA_WIDTH + VGA_WIDTH
  BY <1>1, ScreenSize, Grid
<1>9. /\ u \in [cell : [Cells -> Chars], row : 0 .. VGA_HEIGHT, col : 0 .. VGA_WIDTH - 1, hw : Int]
      /\ u.row = VGA_HEIGHT => u.col = 0
      /\ u.cell = cells /\ Pos(u) = Pos(s) + 1
  <2>1. CASE t.col >= VGA_WIDTH
    <3>1. u = [t EXCEPT !.col = 0, !.row = s.row + 1]
      BY <1>6, <1>7, <2>1 DEF NewLine
    <3>2. s.row + 1 \in 0 .. VGA_HEIGHT /\ 0 \in 0 .. VGA_WIDTH - 1 /\ s.col = VGA_WIDTH - 1
      BY <1>1, <1>6, <2>1, ScreenSize
    <3>3. /\ u \in [cell : [Cells -> Chars], row : 0 .. VGA_HEIGHT, col : 0 .. VGA_WIDTH - 1, hw : Int]
          /\ u.row = s.row + 1 /\ u.col = 0 /\ u.cell = cells
      BY <1>6, <3>1, <3>2
    <3>4. Pos(u) = (s.row + 1) * VGA_WIDTH + 0 /\ Pos(s) = s.row * VGA_WIDTH + s.col
      BY <3>3 DEF Pos
    <3>5. Pos(u) = Pos(s) + 1
      BY <1>8, <3>2, <3>4, ScreenSize
    <3> QED  BY <3>3, <3>5
  <2>2. CASE ~(t.col >= VGA_WIDTH)
    <3>1. u = t
      BY <1>7, <2>2
    <3>2. t.col \in 0 .. VGA_WIDTH - 1 /\ t.row \in 0 .. VGA_HEIGHT /\ t.row # VGA_HEIGHT
      BY <1>1, <1>6, <2>2, ScreenSize
    <3>3. Pos(u) = s.row * VGA_WIDTH + (s.col + 1) /\ Pos(s) = s.row * VGA_WIDTH + s.col
      BY <1>6, <3>1 DEF Pos
    <3>4. Pos(u) = Pos(s) + 1
      BY <1>1, <1>8, <3>3
    <3> QED  BY <1>6, <3>1, <3>2, <3>4
  <2> QED  BY <2>1, <2>2
<1>10. BlankBehind(u)
  <2> SUFFICES ASSUME NEW i \in Cells, i >= Pos(u)  PROVE u.cell[i] = " "
    BY DEF BlankBehind
  <2>1. i # Pos(s) /\ i >= Pos(s)
    BY <1>2, <1>9, ScreenSize DEF Cells
  <2> QED  BY <1>4, <1>9, <2>1 DEF BlankBehind
<1>11. ASSUME NEW text \in Seq(Chars), Shows(s, text)
       PROVE  Shows(u, Append(text, c))
  <2>1. /\ Len(Append(text, c)) = Len(text) + 1 /\ Len(text) \in Nat
        /\ Append(text, c)[Len(text) + 1] = c
        /\ \A i \in 1 .. Len(text) : Append(text, c)[i] = text[i]
    OBVIOUS
  <2> SUFFICES ASSUME NEW i \in 1 .. Len(text) + 1
               PROVE  /\ Pos(u) - (Len(text) + 1) + i - 1 \in Cells
                      /\ u.cell[Pos(u) - (Len(text) + 1) + i - 1] = Append(text, c)[i]
    BY <2>1 DEF Shows
  <2>2. PICK p : p = Pos(u) - (Len(text) + 1) + i - 1
    OBVIOUS
  <2>3. Pos(s) \in Int /\ i \in Int
    BY <1>2, ScreenSize DEF Cells
  <2>4. p = Pos(s) - Len(text) + i - 1
    BY <1>9, <2>1, <2>2, <2>3
  <2>5. CASE i = Len(text) + 1
    <3>1. p = Pos(s)
      BY <2>1, <2>3, <2>4, <2>5
    <3> QED  BY <1>2, <1>4, <1>9, <2>1, <2>2, <2>5, <3>1
  <2>6. CASE i # Len(text) + 1
    <3>1. i \in 1 .. Len(text) /\ p # Pos(s)
      BY <2>1, <2>3, <2>4, <2>6
    <3>2. p \in Cells /\ s.cell[p] = text[i]
      BY <1>11, <2>4, <3>1 DEF Shows
    <3> QED  BY <1>4, <1>9, <2>1, <2>2, <3>1, <3>2
  <2> QED  BY <2>5, <2>6
<1> QED  BY <1>9, <1>10, <1>11 DEF Drawn

(* A backspace takes away the last character before the cursor, over the   *)
(* start of a row too.                                                     *)
LEMMA BackspaceDrawn ==
  ASSUME NEW s \in Screen, BlankBehind(s), NEW u, u = Backspace(s)
  PROVE  /\ Drawn(u)
         /\ \A text \in Seq(Chars), c \in Chars : Shows(s, Append(text, c)) => Shows(u, text)
<1>1. /\ s.row \in 0 .. VGA_HEIGHT - 1 /\ s.col \in 0 .. VGA_WIDTH - 1
      /\ s.cell \in [Cells -> Chars] /\ s.hw \in Int
  BY DEF Screen
<1>2. Pos(s) \in Cells
  BY PosOnScreen
<1>3. s.row * VGA_WIDTH \in Int /\ (s.row - 1) * VGA_WIDTH = s.row * VGA_WIDTH - VGA_WIDTH
  BY <1>1, ScreenSize, Grid
<1>4. PICK b : b = IF s.col > 0 THEN [s EXCEPT !.col = s.col - 1]
                   ELSE IF s.row > 0 THEN [s EXCEPT !.row = s.row - 1, !.col = VGA_WIDTH - 1]
                   ELSE s
  OBVIOUS
<1>5. u = [b EXCEPT !.cell[Pos(b)] = " "]
  BY <1>4 DEF Backspace
<1>6. /\ b \in Screen /\ b.cell = s.cell
      /\ Pos(b) = IF Pos(s) > 0 THEN Pos(s) - 1 ELSE 0
  <2>1. CASE s.col > 0
    <3>1. b = [s EXCEPT !.col = s.col - 1]
      BY <1>4, <2>1
    <3>2. s.col - 1 \in 0 .. VGA_WIDTH - 1
      BY <1>1, <2>1, ScreenSize
    <3>3. b \in Screen /\ b.cell = s.cell /\ b.row = s.row /\ b.col = s.col - 1
      BY <3>1, <3>2 DEF Screen
    <3>4. Pos(b) = s.row * VGA_WIDTH + (s.col - 1) /\ Pos(s) = s.row * VGA_WIDTH + s.col
      BY <3>3 DEF Pos
    <3>5. Pos(s) > 0 /\ Pos(b) = Pos(s) - 1
      <4>1. s.row * VGA_WIDTH >= 0
        BY <1>1, ScreenSize
      <4> QED  BY <1>1, <1>3, <2>1, <3>4, <4>1
    <3> QED  BY <3>3, <3>5
  <2>2. CASE ~(s.col > 0) /\ s.row > 0
    <3>1. b = [s EXCEPT !.row = s.row - 1, !.col = VGA_WIDTH - 1]
      BY <1>4, <2>2
    <3>2. /\ s.row - 1 \in 0 .. VGA_HEIGHT - 1 /\ VGA_WIDTH - 1 \in 0 .. VGA_WIDTH - 1
          /\ s.col = 0
      BY <1>1, <2>2, ScreenSize
    <3>3. b \in Screen /\ b.cell = s.cell /\ b.row = s.row - 1 /\ b.col = VGA_WIDTH - 1
      BY <3>1, <3>2 DEF Screen
    <3>4. Pos(b) = (s.row - 1) * VGA_WIDTH + (VGA_WIDTH - 1) /\ Pos(s) = s.row * VGA_WIDTH + 0
      BY <3>2, <3>3 DEF Pos
    <3>5. s.row * VGA_WIDTH - VGA_WIDTH >= 0
      BY <1>1, <2>2, ScreenSize, Grid
    <3>6. Pos(s) > 0 /\ Pos(b) = Pos(s) - 1
      BY <1>3, <3>4, <3>5, ScreenSize
    <3> QED  BY <3>3, <3>6
  <2>3. CASE ~(s.col > 0) /\ ~(s.row > 0)
    <3>1. b = s /\ s.col = 0 /\ s.row = 0
      BY <1>1, <1>4, <2>3, ScreenSize
    <3>2. Pos(s) = 0
      BY <3>1, ScreenSize DEF Pos
    <3> QED  BY <3>1, <3>2
  <2> QED  BY <2>1, <2>2, <2>3
<1>7. Pos(b) \in Cells
  BY <1>6, PosOnScreen
<1>8. PICK cells : cells = [s.cell EXCEPT ![Pos(b)] = " "]
  OBVIOUS
<1>9. /\ cells \in [Cells -> Chars] /\ cells[Pos(b)] = " "
      /\ \A i \in Cells : i # Pos(b) => cells[i] = s.cell[i]
  BY <1>1, <1>7, <1>8, SomeChars
<1>10. u = [b EXCEPT !.cell = cells]
  BY <1>5, <1>6, <1>8
<1>11. u \in Screen /\ u.cell = cells /\ u.row = b.row /\ u.col = b.col
  BY <1>6, <1>9, <1>10 DEF Screen
<1>12. Pos(u) = Pos(b)
  BY <1>11 DEF Pos
<1>13. BlankBehind(u)
  <2> SUFFICES ASSUME NEW i \in Cells, i >= Pos(b), i # Pos(b)  PROVE cells[i] = " "
    BY <1>9, <1>11, <1>12 DEF BlankBehind
  <2>1. i >= Pos(s)
    BY <1>2, <1>6, ScreenSize DEF Cells
  <2> QED  BY <1>9, <2>1 DEF BlankBehind
<1>14. /\ u \in [cell : [Cells -> Chars], row : 0 .. VGA_HEIGHT, col : 0 .. VGA_WIDTH - 1, hw : Int]
       /\ u.row # VGA_HEIGHT
  BY <1>11, ScreenSize DEF Screen
<1>15. ASSUME NEW text \in Seq(Chars), NEW c \in Chars, Shows(s, Append(text, c))
       PROVE  Shows(u, text)
  <2>1. /\ Len(Append(text, c)) = Len(text) + 1 /\ Len(text) \in Nat
        /\ \A i \in 1 .. Len(text) : Append(text, c)[i] = text[i]
    OBVIOUS
  <2>2. Pos(s) \in Int
    BY <1>2 DEF Cells
  <2>3. \A i \in 1 .. Len(text) + 1 :
          /\ Pos(s) - (Len(text) + 1) + i - 1 \in Cells
          /\ s.cell[Pos(s) - (Len(text) + 1) + i - 1] = Append(text, c)[i]
    BY <1>15, <2>1 DEF Shows
  <2>4. Pos(s) > 0 /\ Pos(b) = Pos(s) - 1
    <3>1. Pos(s) - (Len(text) + 1) + (Len(text) + 1) - 1 \in Cells
      BY <2>1, <2>3
    <3> QED  BY <1>6, <2>1, <2>2, <3>1 DEF Cells
  <2> SUFFICES ASSUME NEW i \in 1 .. Len(text)
               PROVE  /\ Pos(u) - Len(text) + i - 1 \in Cells
                      /\ u.cell[Pos(u) - Len(text) + i - 1] = text[i]
    BY DEF Shows
  <2>5. PICK p : p = Pos(u) - Len(text) + i - 1
    OBVIOUS
  <2>6. p = Pos(s) - (Len(text) + 1) + i - 1 /\ p # Pos(b)
    BY <1>12, <2>1, <2>2, <2>4, <2>5
  <2>7. i \in 1 .. Len(text) + 1
    BY <2>1
  <2>8. p \in Cells /\ s.cell[p] = text[i]
    BY <2>1, <2>3, <2>6, <2>7
  <2>9. u.cell[p] = s.cell[p]
    BY <1>9, <1>11, <2>6, <2>8
  <2> QED  BY <2>5, <2>8, <2>9
<1> QED  BY <1>13, <1>14, <1>15 DEF Drawn

(* vga_putchar, whatever the character.                                    *)
LEMMA Putchar ==
  ASSUME NEW s \in Screen, BlankBehind(s), NEW c \in Chars, NEW t, t = vga_putchar(s, c)
  PROVE  /\ t \in Screen /\ BlankBehind(t) /\ t.hw = Pos(t)
         /\ \A text \in Seq(Chars) :
              c \notin {"newline", "backspace"} /\ Shows(s, text)
              /\ Len(text) + 1 <= VGA_WIDTH * (VGA_HEIGHT - 1)
                => Shows(t, Append(text, c))
         /\ \A text \in Seq(Chars), d \in Chars :
              c = "backspace" /\ Shows(s, Append(text, d))
              /\ Len(text) <= VGA_WIDTH * (VGA_HEIGHT - 1)
                => Shows(t, text)
<1>1. CASE c = "newline"
  <2>1. t = vga_update_cursor(vga_scroll_if_needed(NewLine(s)))
    BY <1>1 DEF vga_putchar
  <2>2. Drawn(NewLine(s))
    BY NewLineDrawn
  <2> QED  BY <1>1, <2>1, <2>2, Scrolled
<1>2. CASE c = "backspace"
  <2>1. t = vga_update_cursor(vga_scroll_if_needed(Backspace(s)))
    BY <1>2 DEF vga_putchar
  <2>2. /\ Drawn(Backspace(s))
        /\ \A text \in Seq(Chars), d \in Chars : Shows(s, Append(text, d)) => Shows(Backspace(s), text)
    BY BackspaceDrawn
  <2> QED  BY <1>2, <2>1, <2>2, Scrolled
<1>3. CASE c \notin {"newline", "backspace"}
  <2>1. t = vga_update_cursor(vga_scroll_if_needed(Put(s, c)))
    BY <1>3 DEF vga_putchar
  <2>2. /\ Drawn(Put(s, c))
        /\ \A text \in Seq(Chars) : Shows(s, text) => Shows(Put(s, c), Append(text, c))
    BY PutDrawn
  <2>3. /\ t \in Screen /\ BlankBehind(t) /\ t.hw = Pos(t)
        /\ \A text \in Seq(Chars) :
             Shows(Put(s, c), text) /\ Len(text) <= VGA_WIDTH * (VGA_HEIGHT - 1) => Shows(t, text)
    BY <2>1, <2>2, Scrolled
  <2>4. ASSUME NEW text \in Seq(Chars), Shows(s, text),
               Len(text) + 1 <= VGA_WIDTH * (VGA_HEIGHT - 1)
        PROVE  Shows(t, Append(text, c))
    <3>1. Append(text, c) \in Seq(Chars) /\ Len(Append(text, c)) = Len(text) + 1
      OBVIOUS
    <3>2. Shows(Put(s, c), Append(text, c))
      BY <2>2, <2>4
    <3> QED  BY <2>3, <2>4, <3>1, <3>2
  <2> QED  BY <1>3, <2>3, <2>4
<1> QED  BY <1>1, <1>2, <1>3

(* Printing keeps the cursor on the screen and the rest of it blank, for a *)
(* text of any length, with newlines and backspaces in it.                 *)
LEMMA KprintScreen ==
  ASSUME NEW s \in Screen, BlankBehind(s), NEW text \in Seq(Chars)
  PROVE  kprint(s, text) \in Screen /\ BlankBehind(kprint(s, text))
<1>1. PICK f : Printing(f, s, text, Len(text)) /\ kprint(s, text) = f[Len(text)]
  BY KprintIsPrinting
<1>2. f[0] = s /\ \A n \in 1 .. Len(text) : f[n] = vga_putchar(f[n - 1], text[n])
  <2>1. f = [i \in 0 .. Len(text) |-> IF i = 0 THEN s ELSE vga_putchar(f[i - 1], text[i])]
    BY <1>1 DEF Printing
  <2>2. /\ 0 \in 0 .. Len(text)
        /\ \A n \in 1 .. Len(text) : n \in 0 .. Len(text) /\ n # 0
    OBVIOUS
  <2>3. \A i \in 0 .. Len(text) : f[i] = IF i = 0 THEN s ELSE vga_putchar(f[i - 1], text[i])
    BY <2>1, Zenon
  <2> QED  BY <2>2, <2>3
<1> DEFINE T == {n \in 0 .. Len(text) : ~(f[n] \in Screen /\ BlankBehind(f[n]))}
<1>3. ASSUME T # {}  PROVE FALSE
  <2>1. PICK n \in T : \A y \in T : n <= y
    <3>1. T \subseteq Nat  OBVIOUS
    <3> HIDE DEF T
    <3> QED  BY <1>3, <3>1, LeastNat
  <2>2. n \in 0 .. Len(text) /\ ~(f[n] \in Screen /\ BlankBehind(f[n]))
    BY <2>1
  <2>3. n # 0
    BY <1>2, <2>2
  <2>4. n \in 1 .. Len(text) /\ n - 1 \in 0 .. Len(text) /\ n - 1 \notin T
    BY <2>1, <2>2, <2>3
  <2>5. f[n - 1] \in Screen /\ BlankBehind(f[n - 1]) /\ text[n] \in Chars
    BY <2>4
  <2> QED  BY <1>2, <2>2, <2>4, <2>5, Putchar
<1>4. Len(text) \in 0 .. Len(text)
  OBVIOUS
<1> QED  BY <1>1, <1>3, <1>4

(* Only the characters of a text count.                                    *)
LEMMA ShowsSame ==
  ASSUME NEW s, NEW p, NEW q, Len(p) = Len(q), \A i \in 1 .. Len(p) : p[i] = q[i], Shows(s, p)
  PROVE  Shows(s, q)
BY DEF Shows

(* Two characters that are printed stand before the cursor.                *)
LEMMA TwoShown ==
  ASSUME NEW s \in Screen, BlankBehind(s), NEW a \in Chars, NEW b \in Chars,
         a \notin {"newline", "backspace"}, b \notin {"newline", "backspace"},
         NEW t, t = vga_putchar(vga_putchar(s, a), b)
  PROVE  t \in Screen /\ BlankBehind(t) /\ t.hw = Pos(t) /\ Shows(t, <<a, b>>)
<1>1. PICK u : u = vga_putchar(s, a)
  OBVIOUS
<1>2. /\ <<>> \in Seq(Chars) /\ Len(<<>>) = 0 /\ <<a>> \in Seq(Chars) /\ Len(<<a>>) = 1
      /\ Append(<<>>, a) = <<a>>
  OBVIOUS
<1>3. /\ Len(Append(<<a>>, b)) = 2 /\ Append(<<a>>, b)[1] = a /\ Append(<<a>>, b)[2] = b
      /\ Len(<<a, b>>) = 2 /\ <<a, b>>[1] = a /\ <<a, b>>[2] = b
  OBVIOUS
<1>4. 2 <= VGA_WIDTH * (VGA_HEIGHT - 1) /\ VGA_WIDTH * (VGA_HEIGHT - 1) \in Int
  <2>1. LINE_BUF_SIZE \in Nat /\ LINE_BUF_SIZE > 0
    BY ShellAssumption
  <2> QED  BY <2>1, ShellAssumption, ScreenSize
<1>5. Shows(s, <<>>)
  BY <1>2 DEF Shows
<1>6. u \in Screen /\ BlankBehind(u) /\ Shows(u, Append(<<>>, a))
  <2>1. Len(<<>>) + 1 <= VGA_WIDTH * (VGA_HEIGHT - 1)
    BY <1>2, <1>4
  <2> QED  BY <1>1, <1>2, <1>5, <2>1, Putchar
<1>7. t \in Screen /\ BlankBehind(t) /\ t.hw = Pos(t) /\ Shows(t, Append(<<a>>, b))
  <2>1. Len(<<a>>) + 1 <= VGA_WIDTH * (VGA_HEIGHT - 1)
    BY <1>2, <1>4
  <2>2. Shows(u, <<a>>)
    BY <1>2, <1>6
  <2> QED  BY <1>1, <1>2, <1>6, <2>1, <2>2, Putchar
<1>8. \A i \in 1 .. 2 : Append(<<a>>, b)[i] = <<a, b>>[i]
  BY <1>3
<1> QED  BY <1>3, <1>7, <1>8, ShowsSame

(* After the prompt is printed, it stands before the cursor.               *)
LEMMA PromptShown ==
  ASSUME NEW s \in Screen, BlankBehind(s), NEW t, t = kprint(s, Prompt)
  PROVE  t \in Screen /\ BlankBehind(t) /\ t.hw = Pos(t) /\ Shows(t, Prompt)
<1>1. t = vga_putchar(vga_putchar(s, ">"), " ")
  BY KprintPrompt
<1>2. t \in Screen /\ BlankBehind(t) /\ t.hw = Pos(t) /\ Shows(t, <<">", " ">>)
  BY <1>1, SomeChars, TwoShown
<1> QED  BY <1>2 DEF Prompt

-----------------------------------------------------------------------------
(* The line.                                                               *)

(* The prompt and a full line fit on the screen, with a row to spare.      *)
LEMMA ShellSizes ==
  /\ LINE_BUF_SIZE \in Nat /\ LINE_BUF_SIZE > 0 /\ HISTORY_SIZE \in Nat /\ HISTORY_SIZE > 0
  /\ FS_NAME_LEN \in Nat /\ FS_NAME_LEN > 0
  /\ VGA_WIDTH * (VGA_HEIGHT - 1) \in Int
  /\ LINE_BUF_SIZE + 2 <= VGA_WIDTH * (VGA_HEIGHT - 1)
BY ShellAssumption, ScreenSize

(* A sequence over a set is one over every larger set.                     *)
LEMMA SeqMono ==
  ASSUME NEW A, NEW B, A \subseteq B, NEW l \in Seq(A)
  PROVE  l \in Seq(B)
OBVIOUS

(* The prompt and a line.                                                  *)
LEMMA PromptLine ==
  ASSUME NEW l \in Seq(Keys)
  PROVE  /\ Prompt \o l \in Seq(Chars) /\ l \in Seq(Chars)
         /\ Len(Prompt \o l) = Len(l) + 2
         /\ (Prompt \o l)[1] = Prompt[1] /\ (Prompt \o l)[2] = Prompt[2]
         /\ \A i \in 3 .. Len(l) + 2 : (Prompt \o l)[i] = l[i - 2]
<1>1. Keys \subseteq Chars
  BY SomeChars
<1>2. l \in Seq(Chars)
  BY <1>1, SeqMono
<1>3. PICK p \in Seq(Chars) : p = Prompt /\ Len(p) = 2
  BY SomeChars
<1>4. Len(l) \in Nat
  OBVIOUS
<1>5. /\ p \o l \in Seq(Chars) /\ Len(p \o l) = Len(p) + Len(l)
      /\ \A i \in 1 .. Len(p) + Len(l) :
           (p \o l)[i] = IF i <= Len(p) THEN p[i] ELSE l[i - Len(p)]
  BY <1>2, ConcatProperties, Zenon
<1>6. PICK r : r = p \o l
  OBVIOUS
<1>7. /\ r \in Seq(Chars) /\ Len(r) = Len(p) + Len(l)
      /\ \A i \in 1 .. Len(p) + Len(l) : r[i] = IF i <= Len(p) THEN p[i] ELSE l[i - Len(p)]
  BY <1>5, <1>6, Zenon
<1>8. r[1] = p[1] /\ r[2] = p[2] /\ Len(r) = Len(l) + 2
  BY <1>3, <1>4, <1>7
<1>9. \A i \in 3 .. Len(l) + 2 : r[i] = l[i - 2]
  BY <1>3, <1>4, <1>7
<1> QED  BY <1>2, <1>3, <1>6, <1>7, <1>8, <1>9, Zenon

(* A character that fits is appended to the line and to the screen.        *)
LEMMA TypeCharStep ==
  ASSUME IInv, NEW c \in Keys, TypeChar(c)
  PROVE  IInv'
<1>1. HistoryInv' /\ CallInv'
  BY DEF TypeChar, IInv, HistoryInv, CallInv, ShortWordsKept, WordsKept
<1>2. line \in Seq(Keys) /\ Len(line) <= LINE_BUF_SIZE - 1 /\ Len(line) \in Nat
  BY DEF IInv, LineInv
<1>3. CASE Len(line) < LINE_BUF_SIZE - 1
  <2>1. line' = Append(line, c) /\ scr' = kprint(scr, <<c>>)
    BY <1>3 DEF TypeChar, RoomFor
  <2>2. scr' = vga_putchar(scr, c) /\ c \in Chars /\ c \notin {"newline", "backspace"}
    BY <2>1, SomeChars, KprintOne
  <2>3. line' \in Seq(Keys) /\ Len(line') = Len(line) + 1
    BY <1>2, <2>1
  <2>4. LineInv'
    BY <1>2, <1>3, <2>3, ShellSizes DEF LineInv
  <2>5. scr \in Screen /\ BlankBehind(scr) /\ Shows(scr, Prompt \o line)
    BY DEF IInv, ScreenInv
  <2>6. Len(Prompt \o line) + 1 <= VGA_WIDTH * (VGA_HEIGHT - 1)
    BY <1>2, <1>3, PromptLine, ShellSizes
  <2>7. /\ scr' \in Screen /\ BlankBehind(scr') /\ scr'.hw = Pos(scr')
        /\ Shows(scr', Append(Prompt \o line, c))
    BY <1>2, <2>2, <2>5, <2>6, PromptLine, Putchar
  <2>8. Shows(scr', Prompt \o line')
    <3>1. PICK p \in Seq(Chars) : p = Prompt \o line
      BY <1>2, PromptLine
    <3>2. PICK q \in Seq(Chars) : q = Prompt \o line'
      BY <2>3, PromptLine
    <3>3. Len(Append(p, c)) = Len(p) + 1 /\ Len(p) = Len(line) + 2 /\ Len(q) = Len(line) + 3
      BY <1>2, <2>3, <3>1, <3>2, PromptLine
    <3>4. ASSUME NEW i \in 1 .. Len(line) + 3  PROVE Append(p, c)[i] = q[i]
      <4>1. CASE i \in 1 .. 2
        BY <1>2, <2>3, <3>1, <3>2, <3>3, <4>1, PromptLine
      <4>2. CASE i \in 3 .. Len(line) + 2
        <5>1. Append(p, c)[i] = line[i - 2]
          BY <1>2, <3>1, <3>3, <4>2, PromptLine
        <5>2. q[i] = Append(line, c)[i - 2]
          BY <1>2, <2>1, <2>3, <3>2, <4>2, PromptLine
        <5>3. i - 2 \in 1 .. Len(line)
          BY <1>2, <4>2
        <5> QED  BY <1>2, <5>1, <5>2, <5>3
      <4>3. CASE i = Len(line) + 3
        <5>1. q[i] = Append(line, c)[i - 2] /\ i - 2 = Len(line) + 1
          BY <1>2, <2>1, <2>3, <3>2, <4>3, PromptLine
        <5> QED  BY <1>2, <3>3, <4>3, <5>1
      <4>4. i \in 1 .. 2 \/ i \in 3 .. Len(line) + 2 \/ i = Len(line) + 3
        BY <1>2
      <4> QED  BY <4>1, <4>2, <4>3, <4>4
    <3>5. \A i \in 1 .. Len(Append(p, c)) : Append(p, c)[i] = q[i]
      BY <1>2, <3>3, <3>4
    <3>6. Len(Append(p, c)) = Len(q)
      BY <1>2, <3>3
    <3> QED  BY <2>7, <3>1, <3>2, <3>5, <3>6, ShowsSame
  <2>9. ScreenInv'
    BY <2>7, <2>8 DEF ScreenInv, BlankBehind, Shows
  <2> QED  BY <1>1, <2>4, <2>9 DEF IInv
<1>4. CASE ~(Len(line) < LINE_BUF_SIZE - 1)
  <2>1. line' = line /\ scr' = scr
    BY <1>4 DEF TypeChar, RoomFor
  <2> QED  BY <1>1, <2>1 DEF IInv, ScreenInv, LineInv, BlankBehind, Shows
<1> QED  BY <1>3, <1>4

(* A backspace takes the last character from the line and from the screen. *)
LEMMA EraseCharStep ==
  ASSUME IInv, EraseChar
  PROVE  IInv'
<1>1. HistoryInv' /\ CallInv'
  BY DEF EraseChar, IInv, HistoryInv, CallInv, ShortWordsKept, WordsKept
<1>2. line \in Seq(Keys) /\ Len(line) <= LINE_BUF_SIZE - 1 /\ Len(line) \in Nat
  BY DEF IInv, LineInv
<1>3. CASE line # <<>>
  <2>1. line' = Front(line) /\ scr' = kprint(scr, <<"backspace">>)
    BY <1>3 DEF EraseChar
  <2>2. scr' = vga_putchar(scr, "backspace") /\ "backspace" \in Chars
    BY <2>1, SomeChars, KprintOne
  <2>3. /\ line' \in Seq(Keys) /\ Len(line') = Len(line) - 1 /\ Len(line) > 0
        /\ \A i \in 1 .. Len(line) - 1 : line'[i] = line[i]
    BY <1>2, <1>3, <2>1 DEF Front
  <2>4. LineInv'
    BY <1>2, <2>3, ShellSizes DEF LineInv
  <2>5. scr \in Screen /\ BlankBehind(scr) /\ Shows(scr, Prompt \o line)
    BY DEF IInv, ScreenInv
  <2>6. PICK p \in Seq(Chars) : p = Prompt \o line
    BY <1>2, PromptLine
  <2>7. PICK q \in Seq(Chars) : q = Prompt \o line'
    BY <2>3, PromptLine
  <2>8. PICK d \in Chars : d = line[Len(line)]
    <3>1. line[Len(line)] \in Keys
      BY <1>2, <2>3
    <3> QED  BY <3>1, SomeChars
  <2>9. Len(p) = Len(line) + 2 /\ Len(q) = Len(line) + 1 /\ Len(Append(q, d)) = Len(line) + 2
    BY <1>2, <2>3, <2>6, <2>7, PromptLine
  <2>10. ASSUME NEW i \in 1 .. Len(line) + 2  PROVE p[i] = Append(q, d)[i]
    <3>1. CASE i \in 1 .. 2
      BY <1>2, <2>3, <2>6, <2>7, <2>9, <3>1, PromptLine
    <3>2. CASE i \in 3 .. Len(line) + 1
      <4>1. i - 2 \in 1 .. Len(line) - 1 /\ i \in 1 .. Len(q)
        BY <1>2, <2>9, <3>2
      <4>2. p[i] = line[i - 2]
        BY <1>2, <2>6, <3>2, PromptLine
      <4>3. q[i] = line'[i - 2]
        BY <1>2, <2>3, <2>7, <3>2, PromptLine
      <4> QED  BY <2>3, <4>1, <4>2, <4>3
    <3>3. CASE i = Len(line) + 2 /\ i > 2
      <4>1. p[i] = line[Len(line)]
        BY <1>2, <2>6, <3>3, PromptLine
      <4> QED  BY <1>2, <2>8, <2>9, <3>3, <4>1
    <3>4. i \in 1 .. 2 \/ i \in 3 .. Len(line) + 1 \/ (i = Len(line) + 2 /\ i > 2)
      BY <1>2, <2>3
    <3> QED  BY <3>1, <3>2, <3>3, <3>4
  <2>11. Shows(scr, Append(q, d))
    BY <2>5, <2>6, <2>9, <2>10, ShowsSame
  <2>12. Len(q) <= VGA_WIDTH * (VGA_HEIGHT - 1)
    BY <1>2, <2>9, ShellSizes
  <2>13. scr' \in Screen /\ BlankBehind(scr') /\ scr'.hw = Pos(scr') /\ Shows(scr', q)
    BY <2>2, <2>5, <2>11, <2>12, Putchar
  <2>14. ScreenInv'
    BY <2>7, <2>13 DEF ScreenInv, BlankBehind, Shows
  <2> QED  BY <1>1, <2>4, <2>14 DEF IInv
<1>4. CASE line = <<>>
  <2>1. line' = line /\ scr' = scr
    BY <1>4 DEF EraseChar
  <2> QED  BY <1>1, <2>1 DEF IInv, ScreenInv, LineInv, BlankBehind, Shows
<1> QED  BY <1>3, <1>4

-----------------------------------------------------------------------------
(* What commands print.                                                    *)

(* f[1], ..., f[n] are the texts as FlattenSeq joins them.                 *)
Joining(f, seqs, n) ==
  f = [i \in 1 .. n |-> IF i = 1 THEN seqs[i] ELSE f[i - 1] \o seqs[i]]

(* The recursion of FlattenSeq has a solution for every sequence.          *)
LEMMA JoiningExists ==
  ASSUME NEW A, NEW seqs \in Seq(Seq(A))
  PROVE  \E f : Joining(f, seqs, Len(seqs))
<1> DEFINE T == {n \in 0 .. Len(seqs) : ~\E f : Joining(f, seqs, n)}
<1>1. ASSUME T # {}  PROVE FALSE
  <2>1. PICK n \in T : \A y \in T : n <= y
    <3>1. T \subseteq Nat  OBVIOUS
    <3> HIDE DEF T
    <3> QED  BY <1>1, <3>1, LeastNat
  <2>2. n \in 0 .. Len(seqs) /\ ~\E f : Joining(f, seqs, n)
    BY <2>1
  <2>3. n # 0
    <3>1. Joining([i \in 1 .. 0 |-> seqs], seqs, 0)
      BY DEF Joining
    <3> QED  BY <2>2, <3>1
  <2>4. n - 1 \in 0 .. Len(seqs) /\ n - 1 \notin T
    <3>1. Len(seqs) \in Nat
      OBVIOUS
    <3> HIDE DEF T
    <3> QED  BY <2>1, <2>2, <2>3, <3>1
  <2>5. PICK f : Joining(f, seqs, n - 1)
    BY <2>4
  <2> DEFINE g == [i \in 1 .. n |-> IF i < n THEN f[i]
                                   ELSE IF n = 1 THEN seqs[n] ELSE f[n - 1] \o seqs[n]]
  <2>6. ASSUME NEW i \in 1 .. n
        PROVE  g[i] = IF i = 1 THEN seqs[i] ELSE g[i - 1] \o seqs[i]
    <3>1. \A j \in 1 .. n - 1 : f[j] = IF j = 1 THEN seqs[j] ELSE f[j - 1] \o seqs[j]
      BY <2>5 DEF Joining
    <3>2. CASE i = 1
      BY <3>1, <3>2, <2>3, <2>2
    <3>3. CASE i # 1 /\ i < n
      <4>1. i \in 1 .. n - 1 /\ i - 1 \in 1 .. n /\ i - 1 < n
        BY <2>2, <3>3
      <4>2. g[i] = f[i] /\ g[i - 1] = f[i - 1]
        BY <3>3, <4>1
      <4> QED  BY <3>1, <3>3, <4>1, <4>2, Zenon
    <3>4. CASE i # 1 /\ i = n
      <4>1. i - 1 \in 1 .. n /\ i - 1 < n /\ ~(i < n)
        BY <2>2, <3>4
      <4>2. g[i - 1] = f[i - 1]
        BY <4>1
      <4>3. g[i] = f[n - 1] \o seqs[n]
        BY <3>4, <4>1, Zenon
      <4> QED  BY <3>4, <4>2, <4>3, Zenon
    <3>5. i = 1 \/ (i # 1 /\ i < n) \/ (i # 1 /\ i = n)
      BY <2>2
    <3> QED  BY <3>2, <3>3, <3>4, <3>5
  <2>7. g = [i \in 1 .. n |-> g[i]]
    OBVIOUS
  <2> HIDE DEF g
  <2>8. Joining(g, seqs, n)
    BY <2>6, <2>7 DEF Joining
  <2> QED  BY <2>2, <2>8
<1>2. Len(seqs) \in 0 .. Len(seqs)
  OBVIOUS
<1> QED  BY <1>1, <1>2

(* FlattenSeq joins texts to a text.                                       *)
LEMMA FlattenedIsText ==
  ASSUME NEW A, NEW seqs \in Seq(Seq(A)), Len(seqs) > 0
  PROVE  FlattenSeq(seqs) \in Seq(A)
<1>1. \E f : f = [i \in 1 .. Len(seqs) |-> IF i = 1 THEN seqs[i] ELSE f[i - 1] \o seqs[i]]
  <2>1. PICK f : Joining(f, seqs, Len(seqs))
    BY JoiningExists
  <2> QED  BY <2>1 DEF Joining
<1> DEFINE flatten[i \in 1 .. Len(seqs)] ==
      IF i = 1 THEN seqs[i] ELSE flatten[i - 1] \o seqs[i]
<1>2. FlattenSeq(seqs) = flatten[Len(seqs)]
  BY DEF FlattenSeq
<1>3. flatten = [i \in 1 .. Len(seqs) |-> IF i = 1 THEN seqs[i] ELSE flatten[i - 1] \o seqs[i]]
  BY <1>1
<1>4. \A i \in 1 .. Len(seqs) : flatten[i] = IF i = 1 THEN seqs[i] ELSE flatten[i - 1] \o seqs[i]
  BY <1>3
<1> HIDE DEF flatten
<1> DEFINE T == {n \in 1 .. Len(seqs) : flatten[n] \notin Seq(A)}
<1>5. ASSUME T # {}  PROVE FALSE
  <2>1. PICK n \in T : \A y \in T : n <= y
    <3>1. T \subseteq Nat  OBVIOUS
    <3> HIDE DEF T
    <3> QED  BY <1>5, <3>1, LeastNat
  <2>2. n \in 1 .. Len(seqs) /\ flatten[n] \notin Seq(A)
    BY <2>1
  <2>3. seqs[n] \in Seq(A)
    BY <2>2
  <2>4. n # 1
    BY <1>4, <2>2, <2>3
  <2>5. n - 1 \in 1 .. Len(seqs) /\ n - 1 \notin T
    BY <2>1, <2>2, <2>4
  <2>6. flatten[n - 1] \in Seq(A)
    BY <2>5
  <2>7. flatten[n] = flatten[n - 1] \o seqs[n]
    BY <1>4, <2>2, <2>4
  <2> QED  BY <2>2, <2>3, <2>6, <2>7
<1>6. Len(seqs) \in 1 .. Len(seqs)
  OBVIOUS
<1> QED  BY <1>2, <1>5, <1>6

(* What history prints.                                                    *)
LEMMA ShownIsText ==
  ASSUME NEW h \in [1 .. HISTORY_SIZE -> Seq(Keys)], NEW n \in 1 .. HISTORY_SIZE
  PROVE  ShownHistory(h, n) \in Seq(Chars)
<1>1. \A a \in Chars, b \in Chars, l \in Seq(Chars) : <<a, a>> \o l \o <<b>> \in Seq(Chars)
  <2> SUFFICES ASSUME NEW a \in Chars, NEW b \in Chars, NEW l \in Seq(Chars)
               PROVE  <<a, a>> \o l \o <<b>> \in Seq(Chars)
    OBVIOUS
  <2>1. <<a, a>> \in Seq(Chars) /\ <<b>> \in Seq(Chars)
    OBVIOUS
  <2>2. <<a, a>> \o l \in Seq(Chars)
    BY <2>1, ConcatProperties, Zenon
  <2> QED  BY <2>1, <2>2, ConcatProperties, Zenon
<1>2. ASSUME NEW i \in 1 .. n
      PROVE  <<" ", " ">> \o h[HISTORY_SIZE - n + i] \o <<"newline">> \in Seq(Chars)
  <2>1. HISTORY_SIZE - n + i \in 1 .. HISTORY_SIZE
    BY ShellSizes
  <2>2. h[HISTORY_SIZE - n + i] \in Seq(Keys)
    BY <2>1
  <2>3. h[HISTORY_SIZE - n + i] \in Seq(Chars)
    BY <2>2, PromptLine
  <2> QED  BY <1>1, <2>3, SomeChars, Zenon
<1> DEFINE texts == [i \in 1 .. n |-> <<" ", " ">> \o h[HISTORY_SIZE - n + i] \o <<"newline">>]
<1>3. ShownHistory(h, n) = FlattenSeq(texts)
  BY DEF ShownHistory
<1>4. texts \in [1 .. n -> Seq(Chars)]
  BY <1>2
<1> HIDE DEF texts
<1>5. texts \in Seq(Seq(Chars)) /\ Len(texts) > 0
  BY <1>4, ShellSizes
<1> QED  BY <1>3, <1>5, FlattenedIsText

(* Every command leaves the cursor on the screen and nothing behind it.    *)
LEMMA OutputScreen ==
  ASSUME NEW s \in Screen, BlankBehind(s), NEW l \in Seq(Keys), l # <<>>,
         history' \in [1 .. HISTORY_SIZE -> Seq(Keys)], history_count' \in 1 .. HISTORY_SIZE,
         NEW t \in Output(s, l)
  PROVE  t \in Screen /\ BlankBehind(t)
<1>1. CASE t = vga_clear(s)
  <2>1. PICK blank : blank = [i \in Cells |-> " "]
    OBVIOUS
  <2>2. blank \in [Cells -> Chars] /\ \A i \in Cells : blank[i] = " "
    BY <2>1, SomeChars
  <2>3. t = [s EXCEPT !.cell = blank, !.row = 0, !.col = 0]
    BY <1>1, <2>1 DEF vga_clear
  <2>4. 0 \in 0 .. VGA_HEIGHT - 1 /\ 0 \in 0 .. VGA_WIDTH - 1
    BY ScreenSize
  <2>5. t \in Screen /\ t.cell = blank
    BY <2>2, <2>3, <2>4 DEF Screen
  <2> QED  BY <2>2, <2>5 DEF BlankBehind
<1>2. CASE \E text \in Seq(Chars) : t = kprint(s, text)
  BY <1>2, KprintScreen
<1>3. ShownHistory(history', history_count') \in Seq(Chars)
  BY ShownIsText
<1>4. SkipSpace(Tail(l)) \o <<"newline">> \in Seq(Chars)
  <2>1. Tail(l) \in Seq(Keys)
    OBVIOUS
  <2>2. SkipSpace(Tail(l)) \in Seq(Keys)
    <3>1. Tail(l) # <<>> => Tail(Tail(l)) \in Seq(Keys)
      BY <2>1, HeadTailProperties
    <3> QED  BY <2>1, <3>1 DEF SkipSpace
  <2>3. SkipSpace(Tail(l)) \in Seq(Chars)
    BY <2>2, PromptLine
  <2>4. \A b \in Chars, p \in Seq(Chars) : p \o <<b>> \in Seq(Chars)
    OBVIOUS
  <2> QED  BY <2>3, <2>4, SomeChars, Zenon
<1>5. \A out \in Outputs : out \in Seq(Chars)
  BY ShellAssumption
<1>6. \/ t = vga_clear(s)
      \/ t = kprint(s, ShownHistory(history', history_count'))
      \/ t = kprint(s, SkipSpace(Tail(l)) \o <<"newline">>)
      \/ \E out \in Outputs : t = kprint(s, out)
  <2>1. \/ Output(s, l) = {vga_clear(s)}
        \/ Output(s, l) = {kprint(s, ShownHistory(history', history_count'))}
        \/ Output(s, l) = {kprint(s, SkipSpace(Tail(l)) \o <<"newline">>)}
        \/ Output(s, l) = {kprint(s, out) : out \in Outputs}
    BY DEF Output
  <2> QED  BY <2>1, Zenon
<1> QED  BY <1>1, <1>2, <1>3, <1>4, <1>5, <1>6, Zenon

-----------------------------------------------------------------------------
(* The words of a command.                                                 *)

(* A word of n characters ends at the first separator sp, at the end of    *)
(* the line or when it fills its buffer, whichever comes first.            *)
Stops(a, sp, full) == {k \in 0 .. Len(a) : k = full \/ k = Len(a) \/ a[k + 1] = sp}

WordEnd(a, sp, full, n) ==
  /\ n \in 0 .. Len(a)
  /\ n = full \/ n = Len(a) \/ a[n + 1] = sp
  /\ \A i \in 1 .. n : a[i] # sp

(* The word p, and what is left of the line after it.                      *)
SplitAt(a, sp, p, left) ==
  /\ \A i \in 1 .. Len(p) : p[i] # sp
  /\ \/ a = p /\ left = <<>>
     \/ left # <<>> /\ left[1] = sp /\ a = p \o <<sp>> \o Tail(left)

(* The smallest place to stop is the end of the word.                      *)
LEMMA WordEnds ==
  ASSUME NEW a \in Seq(Keys), NEW sp, NEW full \in Int,
         NEW n, n = CHOOSE k \in Stops(a, sp, full) : \A m \in Stops(a, sp, full) : k <= m
  PROVE  WordEnd(a, sp, full, n)
<1>1. PICK stop : stop = Stops(a, sp, full)
  OBVIOUS
<1>2. stop \subseteq Nat /\ Len(a) \in stop /\ Len(a) \in Nat
  BY <1>1 DEF Stops
<1>3. n \in stop /\ \A m \in stop : n <= m
  <2>1. \E k \in stop : \A m \in stop : k <= m
    BY <1>2, LeastNat
  <2> QED  BY <1>1, <2>1, Zenon
<1>4. ASSUME NEW i \in 1 .. n  PROVE a[i] # sp
  <2>1. i - 1 \in 0 .. Len(a) /\ ~(n <= i - 1) /\ (i - 1) + 1 = i
    BY <1>1, <1>2, <1>3 DEF Stops
  <2>2. i - 1 \notin stop
    BY <1>3, <2>1
  <2> QED  BY <1>1, <2>1, <2>2 DEF Stops
<1> QED  BY <1>1, <1>3, <1>4 DEF Stops, WordEnd

(* A line is its first n characters, the separator and what follows.       *)
LEMMA LineSplit ==
  ASSUME NEW a \in Seq(Keys), NEW n \in 0 .. Len(a) - 1, NEW d \in Keys, a[n + 1] = d
  PROVE  /\ After(a, n) # <<>> /\ After(a, n)[1] = d
         /\ a = SubSeq(a, 1, n) \o <<d>> \o Tail(After(a, n))
<1>1. Len(a) \in Nat /\ n \in Nat /\ n + 1 \in 1 .. Len(a)
  OBVIOUS
<1>2. PICK p : p = SubSeq(a, 1, n)
  OBVIOUS
<1>3. PICK r : r = SubSeq(a, n + 1, Len(a))
  OBVIOUS
<1>4. p \in Seq(Keys) /\ Len(p) = n /\ \A i \in 1 .. n : p[i] = a[i]
  BY <1>1, <1>2
<1>5. /\ r \in Seq(Keys) /\ Len(r) = Len(a) - n
      /\ \A i \in 1 .. Len(a) - n : r[i] = a[n + i]
  BY <1>1, <1>3
<1>6. r # <<>> /\ r[1] = d
  BY <1>1, <1>5
<1>7. r = After(a, n)
  BY <1>3 DEF After
<1>8. PICK q : q = Tail(r)
  OBVIOUS
<1>9. /\ q \in Seq(Keys) /\ Len(q) = Len(a) - n - 1
      /\ \A i \in 1 .. Len(a) - n - 1 : q[i] = a[n + 1 + i]
  <2>1. /\ q \in Seq(Keys) /\ Len(q) = Len(r) - 1
        /\ \A i \in 1 .. Len(q) : q[i] = r[i + 1]
    BY <1>5, <1>6, <1>8, HeadTailProperties
  <2>2. ASSUME NEW i \in 1 .. Len(a) - n - 1  PROVE q[i] = a[n + 1 + i]
    <3>1. i \in 1 .. Len(q) /\ i + 1 \in 1 .. Len(a) - n /\ n + (i + 1) = n + 1 + i
      BY <1>1, <1>5, <2>1
    <3> QED  BY <1>5, <2>1, <3>1
  <2> QED  BY <1>1, <1>5, <2>1, <2>2
<1>10. PICK one : one = <<d>>
  OBVIOUS
<1>a. one \in Seq(Keys) /\ Len(one) = 1 /\ one[1] = d
  BY <1>10
<1>11. PICK u : u = p \o one
  OBVIOUS
<1>12. /\ u \in Seq(Keys) /\ Len(u) = Len(p) + Len(one)
       /\ \A i \in 1 .. Len(p) + Len(one) : u[i] = IF i <= Len(p) THEN p[i] ELSE one[i - Len(p)]
  <2>1. /\ p \o one \in Seq(Keys) /\ Len(p \o one) = Len(p) + Len(one)
        /\ \A i \in 1 .. Len(p) + Len(one) :
             (p \o one)[i] = IF i <= Len(p) THEN p[i] ELSE one[i - Len(p)]
    BY <1>4, <1>a, ConcatProperties, Zenon
  <2> QED  BY <1>11, <2>1, Zenon
<1>13. Len(u) = n + 1 /\ \A i \in 1 .. n + 1 : u[i] = a[i]
  BY <1>1, <1>4, <1>a, <1>12
<1>14. PICK v : v = u \o q
  OBVIOUS
<1>15. /\ v \in Seq(Keys) /\ Len(v) = Len(u) + Len(q)
       /\ \A i \in 1 .. Len(u) + Len(q) : v[i] = IF i <= Len(u) THEN u[i] ELSE q[i - Len(u)]
  <2>1. /\ u \o q \in Seq(Keys) /\ Len(u \o q) = Len(u) + Len(q)
        /\ \A i \in 1 .. Len(u) + Len(q) :
             (u \o q)[i] = IF i <= Len(u) THEN u[i] ELSE q[i - Len(u)]
    <3>1. u \in Seq(Keys) /\ q \in Seq(Keys)
      BY <1>9, <1>12
    <3> QED  BY <3>1, ConcatProperties, Zenon
  <2> QED  BY <1>14, <2>1, Zenon
<1>b. Len(u) + Len(q) = Len(a)
  BY <1>1, <1>9, <1>13
<1>c. \A i \in 1 .. Len(a) : v[i] = IF i <= n + 1 THEN u[i] ELSE q[i - (n + 1)]
  BY <1>13, <1>15, <1>b, Zenon
<1>16. Len(v) = Len(a)
  BY <1>15, <1>b
<1>17. ASSUME NEW i \in 1 .. Len(a)  PROVE v[i] = a[i]
  <2>1. CASE i <= n + 1
    BY <1>1, <1>13, <1>c, <2>1
  <2>2. CASE ~(i <= n + 1)
    <3>1. i - (n + 1) \in 1 .. Len(a) - n - 1 /\ n + 1 + (i - (n + 1)) = i
      BY <1>1, <2>2
    <3>2. v[i] = q[i - (n + 1)]
      BY <1>c, <2>2
    <3> QED  BY <1>9, <3>1, <3>2
  <2> QED  BY <2>1, <2>2
<1>18. v = a
  BY <1>15, <1>16, <1>17
<1> QED  BY <1>2, <1>6, <1>7, <1>8, <1>10, <1>11, <1>14, <1>18, Zenon

(* A word that has room in its buffer ends at a separator or with the line.*)
LEMMA FittingWordEnds ==
  ASSUME NEW a \in Seq(Keys), NEW sp, NEW full \in Int,
         NEW n, n = CHOOSE k \in Stops(a, sp, full) : \A m \in Stops(a, sp, full) : k <= m,
         NEW k \in 0 .. Len(a), k <= full, k = Len(a) \/ a[k + 1] = sp
  PROVE  WordEnd(a, sp, full, n) /\ (n = Len(a) \/ a[n + 1] = sp)
<1>1. WordEnd(a, sp, full, n)
  BY WordEnds
<1>2. PICK stop : stop = Stops(a, sp, full)
  OBVIOUS
<1>3. stop \subseteq Nat /\ k \in stop
  BY <1>2 DEF Stops
<1>4. n \in stop /\ \A m \in stop : n <= m
  <2>1. \E m \in stop : \A i \in stop : m <= i
    BY <1>3, LeastNat
  <2> QED  BY <1>2, <2>1, Zenon
<1>5. n <= k /\ n \in Nat /\ k \in Nat
  BY <1>3, <1>4
<1>6. CASE n = full
  <2>1. n = k
    BY <1>5, <1>6
  <2> QED  BY <1>1, <2>1
<1>7. CASE n # full
  BY <1>1, <1>7 DEF WordEnd
<1> QED  BY <1>6, <1>7

(* What a word that ends at a separator or with the line leaves of it.     *)
LEMMA WordSplit ==
  ASSUME NEW a \in Seq(Keys), NEW sp, NEW full \in Int, NEW n, WordEnd(a, sp, full, n),
         NEW p, p = SubSeq(a, 1, n), n = Len(a) \/ a[n + 1] = sp
  PROVE  SplitAt(a, sp, p, After(a, n))
<1>0. /\ n \in 0 .. Len(a)
      /\ n = full \/ n = Len(a) \/ a[n + 1] = sp
      /\ \A i \in 1 .. n : a[i] # sp
  BY DEF WordEnd
<1>1. p \in Seq(Keys) /\ Len(p) = n /\ Len(a) \in Nat /\ \A i \in 1 .. n : p[i] = a[i]
  BY <1>0
<1>2. \A i \in 1 .. Len(p) : p[i] # sp
  BY <1>0, <1>1
<1>3. CASE n = Len(a)
  <2>1. a = p
    BY <1>1, <1>3
  <2>2. After(a, n) = <<>>
    BY <1>0, <1>1, <1>3 DEF After
  <2> QED  BY <1>2, <2>1, <2>2, Zenon DEF SplitAt
<1>4. CASE n # Len(a)
  <2>1. n \in 0 .. Len(a) - 1 /\ a[n + 1] = sp
    BY <1>0, <1>1, <1>4
  <2>2. sp \in Keys
    BY <2>1
  <2>3. /\ After(a, n) # <<>> /\ After(a, n)[1] = sp
        /\ a = SubSeq(a, 1, n) \o <<sp>> \o Tail(After(a, n))
    BY <2>1, <2>2, LineSplit
  <2> QED  BY <1>2, <2>3, Zenon DEF SplitAt
<1> QED  BY <1>3, <1>4

(* A line without its first space.                                         *)
LEMMA SkipSpaceLine ==
  ASSUME NEW a \in Seq(Keys)
  PROVE  SkipSpace(a) \in Seq(Keys)
<1>1. a # <<>> => Tail(a) \in Seq(Keys)
  BY HeadTailProperties
<1> QED  BY <1>1 DEF SkipSpace

(* What write, append and mv pass on of the line l.                        *)
Words(w, l) ==
  LET head == <<l[1], " ">> \o w.name
  IN  /\ \A i \in 1 .. Len(w.name) : w.name[i] # " "
      /\ \/ l = head /\ w.rest = <<>>
         \/ l = head \o <<" ">> \o w.rest

(* The command alone, or the command and a space.                          *)
Separated(l) == Len(l) = 1 \/ l[2] = " "

(* A line with an argument is its command, one space and the argument.     *)
Argument(l, sp, a) ==
  /\ a \in Seq(Keys) /\ Len(l) = Len(a) + 2
  /\ \A i \in 1 .. Len(a) : a[i] = l[i + 2]
  /\ Tail(l) # <<>> /\ Tail(l)[1] = sp
  /\ <<l[1], sp>> \in Seq(Keys) /\ l = <<l[1], sp>> \o a

LEMMA CommandLine ==
  ASSUME NEW l \in Seq(Keys), Len(l) > 1, NEW sp, l[2] = sp, NEW a, a = Tail(Tail(l))
  PROVE  Argument(l, sp, a)
<1>1. Len(l) \in Nat /\ l # <<>>
  OBVIOUS
<1>2. PICK t : t = Tail(l)
  OBVIOUS
<1>3. t \in Seq(Keys) /\ Len(t) = Len(l) - 1 /\ \A i \in 1 .. Len(t) : t[i] = l[i + 1]
  BY <1>1, <1>2, HeadTailProperties
<1>4. t # <<>> /\ t[1] = sp
  BY <1>1, <1>3
<1>5. a \in Seq(Keys) /\ Len(a) = Len(t) - 1 /\ \A i \in 1 .. Len(a) : a[i] = t[i + 1]
  BY <1>2, <1>3, <1>4, HeadTailProperties
<1>6. Len(a) \in Nat /\ Len(l) = Len(a) + 2
  BY <1>1, <1>3, <1>5
<1>7. \A i \in 1 .. Len(a) : a[i] = l[i + 2]
  BY <1>3, <1>5, <1>6
<1>8. l[1] \in Keys /\ sp \in Keys
  <2>1. 1 \in 1 .. Len(l) /\ 2 \in 1 .. Len(l)
    BY <1>1
  <2> QED  BY <2>1
<1>9. PICK h : h = <<l[1], sp>>
  OBVIOUS
<1>10. h \in Seq(Keys) /\ Len(h) = 2 /\ h[1] = l[1] /\ h[2] = l[2]
  BY <1>8, <1>9
<1>11. PICK u : u = h \o a
  OBVIOUS
<1>12. /\ u \in Seq(Keys) /\ Len(u) = Len(h) + Len(a)
       /\ \A i \in 1 .. Len(h) + Len(a) : u[i] = IF i <= Len(h) THEN h[i] ELSE a[i - Len(h)]
  <2>1. h \in Seq(Keys) /\ a \in Seq(Keys)
    BY <1>5, <1>10
  <2>2. /\ h \o a \in Seq(Keys) /\ Len(h \o a) = Len(h) + Len(a)
        /\ \A i \in 1 .. Len(h) + Len(a) :
             (h \o a)[i] = IF i <= Len(h) THEN h[i] ELSE a[i - Len(h)]
    BY <2>1, ConcatProperties, Zenon
  <2> QED  BY <1>11, <2>2, Zenon
<1>13. Len(u) = Len(l)
  BY <1>6, <1>10, <1>12
<1>14. ASSUME NEW i \in 1 .. Len(l)  PROVE u[i] = l[i]
  <2>1. i \in 1 .. Len(h) + Len(a) /\ u[i] = IF i <= 2 THEN h[i] ELSE a[i - 2]
    BY <1>6, <1>10, <1>12
  <2>2. CASE i <= 2
    BY <1>10, <2>1, <2>2
  <2>3. CASE ~(i <= 2)
    <3>1. i - 2 \in 1 .. Len(a) /\ (i - 2) + 2 = i
      BY <1>6, <2>3
    <3> QED  BY <1>7, <2>1, <2>3, <3>1
  <2> QED  BY <2>2, <2>3
<1>15. u = l
  BY <1>12, <1>13, <1>14
<1> QED  BY <1>2, <1>4, <1>5, <1>6, <1>7, <1>9, <1>10, <1>11, <1>15, Zenon DEF Argument

(* A name that fits its buffer is the word, and all after it is the rest.  *)
LEMMA WithWordKept ==
  ASSUME NEW fn, NEW l \in Seq(Keys), l # <<>>, Separated(l), NameFits(l),
         NEW w, w = WithWord(fn, Tail(l)), w # NoCall
  PROVE  Words(w, l)
<1>0. Tail(l) \in Seq(Keys) /\ Len(l) \in Nat /\ Len(l) >= 1 /\ Len(Tail(l)) = Len(l) - 1
  BY HeadTailProperties
<1>1. PICK a \in Seq(Keys) : a = SkipSpace(Tail(l))
  BY <1>0, SkipSpaceLine
<1>2. PICK n : n = WordLen(a)
  OBVIOUS
<1>3. PICK full \in Int : full = FS_NAME_LEN - 1
  BY ShellSizes
<1>4. PICK sp : sp = " "
  OBVIOUS
<1>5. n = CHOOSE k \in Stops(a, sp, full) : \A m \in Stops(a, sp, full) : k <= m
  BY <1>2, <1>3, <1>4, Zenon DEF WordLen, Stops
<1>6. PICK p : p = SubSeq(a, 1, n)
  OBVIOUS
<1>7. PICK left : left = After(a, n)
  OBVIOUS
<1>8. PICK rest : rest = SkipSpace(left)
  OBVIOUS
<1>9. n # 0 /\ w = [fn |-> fn, name |-> p, rest |-> rest]
  BY <1>1, <1>2, <1>6, <1>7, <1>8, Zenon DEF WithWord
<1>10. w.name = p /\ w.rest = rest
  BY <1>9
<1>11. Len(l) # 1
  <2> SUFFICES ASSUME Len(l) = 1  PROVE FALSE
    OBVIOUS
  <2>1. a = <<>>
    <3>1. \A t \in Seq(Keys) : Len(t) = 0 => t = <<>>
      OBVIOUS
    <3>2. Len(Tail(l)) = 0 /\ Tail(l) \in Seq(Keys)
      BY <1>0
    <3>3. Tail(l) = <<>>
      BY <3>1, <3>2, Zenon
    <3> QED  BY <1>1, <3>3, Zenon DEF SkipSpace
  <2>2. n \in 0 .. Len(a)
    <3>1. WordEnd(a, sp, full, n)
      BY <1>5, WordEnds
    <3> QED  BY <3>1 DEF WordEnd
  <2> QED  BY <1>9, <2>1, <2>2
<1>12. Len(l) > 1 /\ l[2] = sp
  <2>1. l[2] = sp
    BY <1>4, <1>11, Zenon DEF Separated
  <2> QED  BY <1>0, <1>11, <2>1
<1>13. /\ Len(l) = Len(a) + 2 /\ \A i \in 1 .. Len(a) : a[i] = l[i + 2]
       /\ <<l[1], sp>> \in Seq(Keys) /\ l = <<l[1], sp>> \o a
  <2>1. PICK t : t = Tail(Tail(l))
    OBVIOUS
  <2>2. /\ Len(l) = Len(t) + 2 /\ \A i \in 1 .. Len(t) : t[i] = l[i + 2]
        /\ Tail(l) # <<>> /\ Tail(l)[1] = sp
        /\ <<l[1], sp>> \in Seq(Keys) /\ l = <<l[1], sp>> \o t
    <3>1. Argument(l, sp, t)
      BY <1>12, <2>1, CommandLine
    <3> QED  BY <3>1, Zenon DEF Argument
  <2>3. a = t
    BY <1>1, <1>4, <2>1, <2>2, Zenon DEF SkipSpace
  <2> QED  BY <2>2, <2>3
<1>14. PICK k \in 0 .. full : Len(l) = k + 2 \/ (Len(l) > k + 2 /\ l[k + 3] = sp)
  BY <1>3, <1>4, Zenon DEF NameFits
<1>15. /\ k \in 0 .. Len(a) /\ k <= full
       /\ k = Len(a) \/ a[k + 1] = sp
  <2>1. Len(a) \in Nat /\ k \in Nat /\ k <= full
    BY <1>3, <1>14
  <2>2. CASE Len(l) = k + 2
    BY <1>13, <2>1, <2>2
  <2>3. CASE Len(l) > k + 2 /\ l[k + 3] = sp
    <3>1. k + 1 \in 1 .. Len(a) /\ (k + 1) + 2 = k + 3
      BY <1>13, <2>1, <2>3
    <3>2. a[k + 1] = l[k + 3]
      BY <1>13, <3>1
    <3> QED  BY <2>1, <2>3, <3>1, <3>2
  <2> QED  BY <1>14, <2>2, <2>3
<1>16. WordEnd(a, sp, full, n) /\ (n = Len(a) \/ a[n + 1] = sp)
  BY <1>5, <1>15, FittingWordEnds
<1>17. SplitAt(a, sp, p, left)
  BY <1>6, <1>7, <1>16, WordSplit
<1>18. /\ \A i \in 1 .. Len(p) : p[i] # sp
       /\ \/ a = p /\ left = <<>>
          \/ left # <<>> /\ left[1] = sp /\ a = p \o <<sp>> \o Tail(left)
  BY <1>17, Zenon DEF SplitAt
<1>19. CASE a = p /\ left = <<>>
  <2>1. rest = <<>>
    BY <1>8, <1>19, Zenon DEF SkipSpace
  <2>2. l = <<l[1], sp>> \o p
    BY <1>13, <1>19
  <2> QED  BY <1>4, <1>10, <1>18, <2>1, <2>2, Zenon DEF Words
<1>20. CASE left # <<>> /\ left[1] = sp /\ a = p \o <<sp>> \o Tail(left)
  <2>1. rest = Tail(left)
    BY <1>4, <1>8, <1>20, Zenon DEF SkipSpace
  <2>2. l = (<<l[1], sp>> \o p) \o <<sp>> \o rest
    <3>1. p \in Seq(Keys) /\ left \in Seq(Keys)
      <4>1. n \in 0 .. Len(a)
        BY <1>16 DEF WordEnd
      <4> QED  BY <1>6, <1>7, <4>1 DEF After
    <3>2. rest \in Seq(Keys)
      BY <1>20, <2>1, <3>1, HeadTailProperties
    <3>3. <<sp>> \in Seq(Keys)
      <4>1. 1 \in 1 .. Len(left)
        BY <1>20, <3>1
      <4>2. sp \in Keys
        BY <1>20, <3>1, <4>1
      <4> QED  BY <4>2
    <3>4. l = <<l[1], sp>> \o ((p \o <<sp>>) \o rest)
      BY <1>13, <1>20, <2>1, Zenon
    <3>5. <<l[1], sp>> \in Seq(Keys)
      BY <1>13, Zenon
    <3>6. PICK h : h = <<l[1], sp>>
      OBVIOUS
    <3>7. PICK one : one = <<sp>>
      OBVIOUS
    <3>8. h \in Seq(Keys) /\ one \in Seq(Keys)
      BY <3>3, <3>5, <3>6, <3>7, Zenon
    <3>9. h \o ((p \o one) \o rest) = ((h \o p) \o one) \o rest
      BY <3>1, <3>2, <3>8, SMTT(30)
    <3> QED  BY <3>4, <3>6, <3>7, <3>9, Zenon
  <2> QED  BY <1>4, <1>10, <1>18, <2>1, <2>2, Zenon DEF Words
<1> QED  BY <1>18, <1>19, <1>20, Zenon

(* A call that passes on what was typed on the line l, if the name fits.   *)
Kept(w, l) == NameFits(l) => (w.fn \in {"fs_write", "fs_append", "fs_rename"} => Words(w, l))

(* The part of the invariant about calls, as a predicate on the call.      *)
LEMMA KeptIsCallInv == CallInv <=> (entered # <<>> => Kept(call, Last(entered)))
BY Zenon DEF CallInv, Kept, Words, ShortWordsKept, WordsKept

(* Commands that only print, and commands without their arguments.         *)
LEMMA NoCallKept == \A l : Kept(NoCall, l)
<1>1. NoCall.fn = "none"
  BY DEF NoCall
<1>2. NoCall.fn \notin {"fs_write", "fs_append", "fs_rename"}
  BY <1>1
<1> QED  BY <1>2, Zenon DEF Kept

(* Commands with a word.                                                   *)
LEMMA WordCallKept ==
  ASSUME NEW fn, NEW l \in Seq(Keys), l # <<>>, Separated(l)
  PROVE  Kept(WithWord(fn, Tail(l)), l)
<1>1. CASE WithWord(fn, Tail(l)) = NoCall
  BY <1>1, NoCallKept, Zenon
<1>2. CASE WithWord(fn, Tail(l)) # NoCall
  BY <1>2, WithWordKept, Zenon DEF Kept
<1> QED  BY <1>1, <1>2

(* Commands with a path: no word of it is cut out.                         *)
LEMMA PathCallKept ==
  ASSUME NEW fn, fn \notin {"fs_write", "fs_append", "fs_rename"}, NEW args, NEW l
  PROVE  Kept(WithPath(fn, args), l)
<1>1. PICK a : a = SkipSpace(args)
  OBVIOUS
<1>2. CASE WithPath(fn, args) = NoCall
  BY <1>2, NoCallKept, Zenon
<1>3. CASE WithPath(fn, args) # NoCall
  <2>1. WithPath(fn, args) = [NoCall EXCEPT !.fn = fn, !.name = a]
    BY <1>1, <1>3, Zenon DEF WithPath
  <2>2. WithPath(fn, args).fn = fn
    BY <2>1 DEF NoCall
  <2> QED  BY <2>2, Zenon DEF Kept
<1> QED  BY <1>2, <1>3

(* Every command.                                                          *)
LEMMA CalledKept ==
  ASSUME NEW l \in Seq(Keys), l # <<>>
  PROVE  Kept(Called(l), l)
<1>1. PICK args \in Seq(Keys) : args = Tail(l)
  BY HeadTailProperties
<1>2. ASSUME Separated(l)
      PROVE  Kept(cmd_write(args), l) /\ Kept(cmd_append(args), l) /\ Kept(cmd_mv(args), l)
  <2>1. \A fn : Kept(WithWord(fn, args), l)
    BY <1>1, <1>2, WordCallKept
  <2> QED  BY <2>1, NoCallKept, Zenon DEF cmd_write, cmd_append, cmd_mv
<1>3. /\ "fs_read" \notin {"fs_write", "fs_append", "fs_rename"}
      /\ "fs_delete" \notin {"fs_write", "fs_append", "fs_rename"}
      /\ "fs_stat" \notin {"fs_write", "fs_append", "fs_rename"}
      /\ "fs_mkdir" \notin {"fs_write", "fs_append", "fs_rename"}
      /\ "fs_rmdir" \notin {"fs_write", "fs_append", "fs_rename"}
      /\ "fs_chdir" \notin {"fs_write", "fs_append", "fs_rename"}
  OBVIOUS
<1>4. /\ Kept(cmd_cat(args), l) /\ Kept(cmd_delete(args), l) /\ Kept(cmd_stat(args), l)
      /\ Kept(cmd_mkdir(args), l) /\ Kept(cmd_rmdir(args), l) /\ Kept(cmd_cd(args), l)
  BY <1>3, PathCallKept, Zenon
     DEF cmd_cat, cmd_delete, cmd_stat, cmd_mkdir, cmd_rmdir, cmd_cd
<1>5. PICK w : w = Called(l)
  OBVIOUS
<1>6. \/ w \in {cmd_cat(args), cmd_delete(args), cmd_stat(args), cmd_mkdir(args), cmd_rmdir(args),
                cmd_cd(args), NoCall}
      \/ Separated(l) /\ w \in {cmd_write(args), cmd_append(args), cmd_mv(args)}
  <2>1. \A word : IsCommand(l, word) => Separated(l)
    BY Zenon DEF IsCommand, Separated
  <2> QED  BY <1>1, <1>5, <2>1, SMTT(30) DEF Called
<1> QED  BY <1>2, <1>4, <1>5, <1>6, NoCallKept, Zenon

-----------------------------------------------------------------------------
(* Enter.                                                                  *)

(* The array and the lines entered move on together.                       *)
LEMMA HistoryStep ==
  ASSUME HistoryInv, line \in Seq(Keys), history_add(line),
         entered' = LET all == Append(entered, line)
                    IN  IF Len(all) > HISTORY_SIZE THEN Tail(all) ELSE all
  PROVE  HistoryInv' /\ history_count' \in 1 .. HISTORY_SIZE
<1>1. /\ history \in [1 .. HISTORY_SIZE -> Seq(Keys)]
      /\ history_count \in 0 .. HISTORY_SIZE
      /\ entered \in Seq(Seq(Keys)) /\ Len(entered) = history_count
      /\ \A i \in 1 .. history_count : entered[i] = history[HISTORY_SIZE - history_count + i]
  BY DEF HistoryInv
<1>2. /\ history' = [i \in 1 .. HISTORY_SIZE |-> IF i < HISTORY_SIZE THEN history[i + 1] ELSE line]
      /\ history_count' = IF history_count < HISTORY_SIZE THEN history_count + 1 ELSE history_count
  BY DEF history_add
<1>3. history' \in [1 .. HISTORY_SIZE -> Seq(Keys)] /\ history_count' \in 1 .. HISTORY_SIZE
  BY <1>1, <1>2, ShellSizes
<1>4. PICK all : all = Append(entered, line)
  OBVIOUS
<1>5. /\ all \in Seq(Seq(Keys)) /\ Len(all) = history_count + 1
      /\ \A i \in 1 .. history_count : all[i] = entered[i]
      /\ all[history_count + 1] = line
  BY <1>1, <1>4
<1>6. entered' = IF Len(all) > HISTORY_SIZE THEN Tail(all) ELSE all
  BY <1>4
<1>7. CASE history_count < HISTORY_SIZE
  <2>1. entered' = all /\ history_count' = history_count + 1
    BY <1>1, <1>2, <1>5, <1>6, <1>7, ShellSizes
  <2>2. ASSUME NEW i \in 1 .. history_count'
        PROVE  entered'[i] = history'[HISTORY_SIZE - history_count' + i]
    <3>1. CASE i <= history_count
      <4>1. /\ HISTORY_SIZE - history_count' + i \in 1 .. HISTORY_SIZE
            /\ HISTORY_SIZE - history_count' + i < HISTORY_SIZE
            /\ HISTORY_SIZE - history_count' + i + 1 = HISTORY_SIZE - history_count + i
        BY <1>1, <1>7, <2>1, <3>1, ShellSizes
      <4>2. all[i] = history[HISTORY_SIZE - history_count + i]
        BY <1>1, <1>5, <3>1
      <4>3. history'[HISTORY_SIZE - history_count' + i] = history[HISTORY_SIZE - history_count + i]
        BY <1>2, <4>1
      <4> QED  BY <2>1, <4>2, <4>3, Zenon
    <3>2. CASE i = history_count + 1
      <4>1. HISTORY_SIZE - history_count' + i = HISTORY_SIZE /\ HISTORY_SIZE \in 1 .. HISTORY_SIZE
        BY <1>1, <2>1, <3>2, ShellSizes
      <4>2. history'[HISTORY_SIZE] = line
        BY <1>2, <4>1, ShellSizes
      <4> QED  BY <1>5, <2>1, <3>2, <4>1, <4>2, Zenon
    <3>3. i <= history_count \/ i = history_count + 1
      BY <1>1, <2>1
    <3> QED  BY <3>1, <3>2, <3>3
  <2>3. Len(entered') = history_count'
    BY <1>5, <2>1
  <2> QED  BY <1>3, <1>5, <2>1, <2>2, <2>3 DEF HistoryInv
<1>8. CASE ~(history_count < HISTORY_SIZE)
  <2>1. entered' = Tail(all) /\ history_count' = history_count /\ history_count = HISTORY_SIZE
    <3>1. history_count = HISTORY_SIZE
      BY <1>1, <1>8, ShellSizes
    <3>2. Len(all) > HISTORY_SIZE
      BY <1>1, <1>5, <3>1
    <3> QED  BY <1>2, <1>6, <1>8, <3>1, <3>2, Zenon
  <2>2. all # <<>>
    BY <1>1, <1>5
  <2>3. /\ entered' \in Seq(Seq(Keys)) /\ Len(entered') = Len(all) - 1
        /\ \A i \in 1 .. Len(entered') : entered'[i] = all[i + 1]
    <3>1. /\ Tail(all) \in Seq(Seq(Keys)) /\ Len(Tail(all)) = Len(all) - 1
          /\ \A i \in 1 .. Len(Tail(all)) : Tail(all)[i] = all[i + 1]
      BY <1>5, <2>2, HeadTailProperties
    <3> QED  BY <2>1, <3>1, Zenon
  <2>4. Len(entered') = history_count'
    BY <1>1, <1>5, <2>1, <2>3
  <2>5. ASSUME NEW i \in 1 .. history_count'
        PROVE  entered'[i] = history'[HISTORY_SIZE - history_count' + i]
    <3>1. /\ entered'[i] = all[i + 1] /\ i \in 1 .. HISTORY_SIZE
          /\ HISTORY_SIZE - history_count' + i = i
      <4>1. i \in 1 .. Len(entered')
        BY <2>4
      <4>2. i \in 1 .. HISTORY_SIZE /\ HISTORY_SIZE - history_count' + i = i
        BY <2>1, ShellSizes
      <4> QED  BY <2>3, <4>1, <4>2
    <3>2. CASE i < HISTORY_SIZE
      <4>1. i + 1 \in 1 .. history_count /\ HISTORY_SIZE - history_count + (i + 1) = i + 1
        BY <2>1, <3>1, <3>2, ShellSizes
      <4>2. all[i + 1] = history[i + 1]
        BY <1>1, <1>5, <4>1
      <4>3. history'[HISTORY_SIZE - history_count' + i] = history[i + 1]
        BY <1>2, <3>1, <3>2
      <4> QED  BY <3>1, <4>2, <4>3, Zenon
    <3>3. CASE ~(i < HISTORY_SIZE)
      <4>1. i = history_count
        BY <2>1, <3>1, <3>3, ShellSizes
      <4>2. i = HISTORY_SIZE /\ HISTORY_SIZE \in 1 .. HISTORY_SIZE
        BY <2>1, <4>1, ShellSizes
      <4>3. history'[HISTORY_SIZE] = line
        BY <1>2, <4>2, ShellSizes
      <4>4. history'[HISTORY_SIZE - history_count' + i] = line
        BY <3>1, <4>2, <4>3, Zenon
      <4>5. all[i + 1] = line
        BY <1>5, <4>1
      <4> QED  BY <3>1, <4>4, <4>5, Zenon
    <3> QED  BY <3>2, <3>3
  <2>6. history_count' \in 0 .. HISTORY_SIZE
    BY <1>3, ShellSizes
  <2> QED  BY <1>3, <2>3, <2>4, <2>5, <2>6, Zenon DEF HistoryInv
<1> QED  BY <1>7, <1>8

(* The newest line is the last one.                                        *)
LEMMA LastEntered ==
  ASSUME entered \in Seq(Seq(Keys)), Len(entered) = history_count,
         history_count \in 0 .. HISTORY_SIZE, line \in Seq(Keys),
         entered' = LET all == Append(entered, line)
                    IN  IF Len(all) > HISTORY_SIZE THEN Tail(all) ELSE all
  PROVE  entered' # <<>> /\ Last(entered') = line
<1>1. PICK all : all = Append(entered, line)
  OBVIOUS
<1>2. /\ all \in Seq(Seq(Keys)) /\ Len(all) = Len(entered) + 1 /\ Len(entered) \in Nat
      /\ all[Len(all)] = line
  BY <1>1
<1>3. entered' = IF Len(all) > HISTORY_SIZE THEN Tail(all) ELSE all
  BY <1>1
<1>4. CASE Len(all) > HISTORY_SIZE
  <2>1. all # <<>>
    BY <1>2
  <2>2. /\ Tail(all) \in Seq(Seq(Keys)) /\ Len(Tail(all)) = Len(all) - 1
        /\ \A i \in 1 .. Len(Tail(all)) : Tail(all)[i] = all[i + 1]
    BY <1>2, <2>1, HeadTailProperties
  <2>3. entered' = Tail(all)
    BY <1>3, <1>4
  <2>4. Len(entered') = Len(entered) /\ Len(entered) >= 1
    <3>1. Len(entered') = Len(all) - 1
      BY <2>2, <2>3, Zenon
    <3> QED  BY <1>2, <1>4, <3>1, ShellSizes
  <2>5. entered'[Len(entered')] = all[Len(all)]
    BY <1>2, <2>2, <2>3, <2>4
  <2>6. Last(entered') = entered'[Len(entered')]
    BY Zenon DEF Last
  <2>7. entered' # <<>>
    <3>1. Len(entered') # 0
      BY <1>2, <2>4
    <3>2. Len(<<>>) = 0
      OBVIOUS
    <3> QED  BY <3>1, <3>2, Zenon
  <2> QED  BY <1>2, <2>5, <2>6, <2>7, Zenon
<1>5. CASE ~(Len(all) > HISTORY_SIZE)
  <2>1. entered' = all
    BY <1>3, <1>5, Zenon
  <2>2. Last(all) = all[Len(all)]
    BY Zenon DEF Last
  <2>3. all # <<>>
    BY <1>2
  <2> QED  BY <1>2, <2>1, <2>2, <2>3, Zenon
<1> QED  BY <1>4, <1>5

(* A prompt printed on any screen starts an empty line.                    *)
LEMMA PromptStep ==
  ASSUME NEW s \in Screen, BlankBehind(s), scr' = kprint(s, Prompt), line' = <<>>
  PROVE  ScreenInv' /\ LineInv'
<1>1. scr' \in Screen /\ BlankBehind(scr') /\ scr'.hw = Pos(scr') /\ Shows(scr', Prompt)
  BY PromptShown
<1>2. Prompt \o <<>> = Prompt
  BY SomeChars, ConcatEmptySeq, Zenon
<1>3. ScreenInv'
  BY <1>1, <1>2, Zenon DEF ScreenInv, BlankBehind, Shows
<1>4. LineInv'
  BY ShellSizes DEF LineInv
<1> QED  BY <1>3, <1>4

(* Enter runs the line and starts a new one below what was printed.        *)
LEMMA RunCommandStep ==
  ASSUME IInv, run_command
  PROVE  IInv'
<1>1. scr \in Screen /\ BlankBehind(scr) /\ line \in Seq(Keys)
  BY DEF IInv, ScreenInv, LineInv
<1>2. PICK s : s = kprint(scr, <<"newline">>)
  OBVIOUS
<1>3. s \in Screen /\ BlankBehind(s)
  <2>1. s = vga_putchar(scr, "newline")
    BY <1>2, SomeChars, KprintOne
  <2> QED  BY <1>1, <2>1, SomeChars, Putchar
<1>4. line' = <<>>
  BY DEF run_command
<1>5. CASE line = <<>> /\ scr' = kprint(s, Prompt)
           /\ UNCHANGED <<history, history_count, entered, call>>
  <2>1. HistoryInv' /\ CallInv'
    BY <1>5 DEF IInv, HistoryInv, CallInv, ShortWordsKept, WordsKept
  <2>2. ScreenInv' /\ LineInv'
    BY <1>3, <1>4, <1>5, PromptStep
  <2> QED  BY <2>1, <2>2 DEF IInv
<1>6. ASSUME line # <<>>, history_add(line), NEW t \in Output(s, line), scr' = kprint(t, Prompt),
             call' = Called(line),
             entered' = LET all == Append(entered, line)
                        IN  IF Len(all) > HISTORY_SIZE THEN Tail(all) ELSE all
      PROVE  IInv'
  <2>1. HistoryInv' /\ history_count' \in 1 .. HISTORY_SIZE
    BY <1>1, <1>6, HistoryStep DEF IInv
  <2>2. t \in Screen /\ BlankBehind(t)
    <3>1. history' \in [1 .. HISTORY_SIZE -> Seq(Keys)]
      BY <2>1 DEF HistoryInv
    <3> QED  BY <1>1, <1>3, <1>6, <2>1, <3>1, OutputScreen
  <2>3. ScreenInv' /\ LineInv'
    BY <1>4, <1>6, <2>2, PromptStep
  <2>4. CallInv'
    <3>1. entered' # <<>> /\ Last(entered') = line
      BY <1>1, <1>6, LastEntered DEF IInv, HistoryInv
    <3>2. Kept(call', line)
      BY <1>1, <1>6, CalledKept, Zenon
    <3> QED  BY <3>1, <3>2, Zenon DEF Kept, Words, CallInv, ShortWordsKept, WordsKept
  <2> QED  BY <2>1, <2>3, <2>4 DEF IInv
<1> QED  BY <1>2, <1>5, <1>6, Zenon DEF run_command

-----------------------------------------------------------------------------
(* The theorems.                                                           *)

(* The shell starts with the welcome text and a prompt on the screen.      *)
LEMMA InitIInv == Init => IInv
<1> SUFFICES ASSUME Init  PROVE IInv
  OBVIOUS
<1>1. PICK off : off = [cell |-> [i \in Cells |-> " "], row |-> 0, col |-> 0, hw |-> 0]
  OBVIOUS
<1>2. PICK text \in Outputs : scr = kprint(kprint(vga_clear(off), text), Prompt)
  BY <1>1, Zenon DEF Init
<1>3. /\ line = <<>>
      /\ history = [i \in 1 .. HISTORY_SIZE |-> <<>>] /\ history_count = 0
      /\ call = NoCall /\ entered = <<>>
  BY DEF Init
<1>4. vga_clear(off) \in Screen /\ BlankBehind(vga_clear(off))
  <2>1. PICK blank : blank = [i \in Cells |-> " "]
    OBVIOUS
  <2>2. blank \in [Cells -> Chars] /\ \A i \in Cells : blank[i] = " "
    BY <2>1, SomeChars
  <2>3. off = [cell |-> blank, row |-> 0, col |-> 0, hw |-> 0]
    BY <1>1, <2>1, Zenon
  <2>4. vga_clear(off) = [off EXCEPT !.cell = blank, !.row = 0, !.col = 0]
    BY <2>1, Zenon DEF vga_clear
  <2>5. 0 \in 0 .. VGA_HEIGHT - 1 /\ 0 \in 0 .. VGA_WIDTH - 1
    BY ScreenSize
  <2>6. vga_clear(off) \in Screen /\ vga_clear(off).cell = blank
    <3>1. vga_clear(off) = [cell |-> blank, row |-> 0, col |-> 0, hw |-> 0]
      BY <2>3, <2>4
    <3>2. \A c \in [Cells -> Chars], i \in 0 .. VGA_HEIGHT - 1, j \in 0 .. VGA_WIDTH - 1, h \in Int :
            [cell |-> c, row |-> i, col |-> j, hw |-> h] \in Screen
      BY DEF Screen
    <3>3. [cell |-> blank, row |-> 0, col |-> 0, hw |-> 0] \in Screen
      <4>1. 0 \in Int
        OBVIOUS
      <4> QED  BY <2>2, <2>5, <3>2, <4>1, Zenon
    <3> QED  BY <3>1, <3>3
  <2> QED  BY <2>2, <2>6 DEF BlankBehind
<1>5. PICK s : s = kprint(vga_clear(off), text)
  OBVIOUS
<1>6. s \in Screen /\ BlankBehind(s)
  <2>1. text \in Seq(Chars)
    BY ShellAssumption
  <2> QED  BY <1>4, <1>5, <2>1, KprintScreen
<1>7. scr \in Screen /\ BlankBehind(scr) /\ scr.hw = Pos(scr) /\ Shows(scr, Prompt)
  BY <1>2, <1>5, <1>6, PromptShown
<1>8. Prompt \o <<>> = Prompt
  BY SomeChars, ConcatEmptySeq, Zenon
<1>9. ScreenInv
  BY <1>3, <1>7, <1>8, Zenon DEF ScreenInv
<1>10. LineInv
  BY <1>3, ShellSizes DEF LineInv
<1>11. HistoryInv
  BY <1>3, ShellSizes DEF HistoryInv
<1>12. CallInv
  BY <1>3, NoCallKept, KeptIsCallInv, Zenon
<1> QED  BY <1>9, <1>10, <1>11, <1>12 DEF IInv

(* Every key keeps the invariant.                                          *)
LEMMA NextIInv == IInv /\ [Next]_vars => IInv'
<1> SUFFICES ASSUME IInv, [Next]_vars  PROVE IInv'
  OBVIOUS
<1>1. CASE run_command
  BY <1>1, RunCommandStep
<1>2. CASE EraseChar
  BY <1>2, EraseCharStep
<1>3. ASSUME NEW c \in Keys, TypeChar(c)  PROVE IInv'
  BY <1>3, TypeCharStep
<1>4. CASE UNCHANGED vars
  BY <1>4 DEF vars, IInv, ScreenInv, BlankBehind, Shows, LineInv, HistoryInv, CallInv, ShortWordsKept, WordsKept
<1> QED  BY <1>1, <1>2, <1>3, <1>4 DEF Next

(* The inductive invariant of the shell holds for every screen, line       *)
(* buffer and history size, and whatever the commands print.               *)
THEOREM ShellInvariant == Spec => []IInv
BY InitIInv, NextIInv, PTL DEF Spec

(* The cursor stays on the screen, so vga_putchar writes inside the VGA    *)
(* buffer, and the line leaves room for its terminator.                    *)
THEOREM TypeCorrect == Spec => []TypeOK
<1>1. IInv => TypeOK
  <2> SUFFICES ASSUME IInv  PROVE TypeOK
    OBVIOUS
  <2>1. /\ scr.row \in 0 .. VGA_HEIGHT - 1 /\ scr.col \in 0 .. VGA_WIDTH - 1
        /\ DOMAIN scr.cell = Cells
    BY DEF IInv, ScreenInv, Screen
  <2>2. Len(line) <= LINE_BUF_SIZE - 1 /\ history_count \in 0 .. HISTORY_SIZE
    BY DEF IInv, LineInv, HistoryInv
  <2> QED  BY <2>1, <2>2 DEF TypeOK
<1> QED  BY <1>1, ShellInvariant, PTL

(* What the user sees is what enter will run: the prompt and the line are  *)
(* right before the cursor, nothing is behind it, and the hardware cursor  *)
(* is there, through wrapping, erasing over row ends, scrolling and clear. *)
THEOREM LineIsShown == Spec => []LineShown
<1>1. IInv => LineShown
  BY Zenon DEF IInv, ScreenInv, LineShown, BlankBehind, Shows
<1> QED  BY <1>1, ShellInvariant, PTL

(* The history array holds the last HISTORY_SIZE lines entered, oldest     *)
(* first, for every number of commands.                                    *)
THEOREM HistoryIsShown == Spec => []HistoryShown
<1>1. IInv => HistoryShown
  <2> SUFFICES ASSUME IInv  PROVE HistoryShown
    OBVIOUS
  <2>1. /\ history \in [1 .. HISTORY_SIZE -> Seq(Keys)]
        /\ history_count \in 0 .. HISTORY_SIZE
        /\ entered \in Seq(Seq(Keys)) /\ Len(entered) = history_count
        /\ \A i \in 1 .. history_count : entered[i] = history[HISTORY_SIZE - history_count + i]
    BY DEF IInv, HistoryInv
  <2>2. PICK m \in Int : m = HISTORY_SIZE - history_count + 1
    BY <2>1, ShellSizes
  <2>3. \A i \in m .. HISTORY_SIZE : history[i] \in Seq(Keys)
    BY <2>1, <2>2, ShellSizes
  <2>4. PICK r : r = SubSeq(history, m, HISTORY_SIZE)
    OBVIOUS
  <2>5. /\ r \in Seq(Seq(Keys))
        /\ Len(r) = IF m <= HISTORY_SIZE THEN HISTORY_SIZE - m + 1 ELSE 0
        /\ \A i \in 1 .. HISTORY_SIZE - m + 1 : r[i] = history[m + i - 1]
    BY <2>3, <2>4, ShellSizes, SubSeqProperties
  <2>6. Len(r) = Len(entered)
    BY <2>1, <2>2, <2>5, ShellSizes
  <2>7. ASSUME NEW i \in 1 .. Len(r)  PROVE r[i] = entered[i]
    <3>1. i \in 1 .. history_count /\ i \in 1 .. HISTORY_SIZE - m + 1
          /\ m + i - 1 = HISTORY_SIZE - history_count + i
      BY <2>1, <2>2, <2>6, ShellSizes
    <3> QED  BY <2>1, <2>5, <3>1
  <2>8. r = entered
    BY <2>1, <2>5, <2>6, <2>7
  <2> QED  BY <2>2, <2>4, <2>8, Zenon DEF HistoryShown
<1> QED  BY <1>1, ShellInvariant, PTL

(* "parse: <filename> <rest of line as file content>" (cmd_write), for     *)
(* every name of at most FS_NAME_LEN - 1 characters: write, append and mv  *)
(* pass on the name as typed and all that follows it, for every line       *)
(* length, buffer size and alphabet.  Longer names are cut.                *)
THEOREM FittingWordsKept == Spec => []ShortWordsKept
<1>1. IInv => ShortWordsKept
  BY DEF IInv, CallInv
<1> QED  BY <1>1, ShellInvariant, PTL
=============================================================================
