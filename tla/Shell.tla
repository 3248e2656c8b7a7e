-------------------------------- MODULE Shell --------------------------------
(***************************************************************************)
(* The shell of kernel/shell.c: the line editor, the history, the dispatch *)
(* on the first word and the parsing of arguments, on the console.  One    *)
(* action per character that keyboard_getchar returns; only the shell      *)
(* prints once tasks run.                                                  *)
(*                                                                         *)
(* A command word is one character here: e echo, h history, c clear,       *)
(* w write, a append, t cat, d delete, s stat, m mv, k mkdir, r rmdir,     *)
(* g cd.  What commands print that is not text the user typed is one of    *)
(* Outputs.                                                                *)
(***************************************************************************)
EXTENDS Console

CONSTANTS
  Keys,          \* characters users type, apart from enter and backspace
  LINE_BUF_SIZE, HISTORY_SIZE, FS_NAME_LEN,
  Outputs        \* what commands print

Chars == Keys \cup {">", " ", "newline", "backspace"} \cup UNION {Range(text) : text \in Outputs}

ASSUME ShellAssumption ==
  /\ {LINE_BUF_SIZE, HISTORY_SIZE, FS_NAME_LEN} \subseteq Nat \ {0}
  /\ LINE_BUF_SIZE + 2 <= VGA_WIDTH * (VGA_HEIGHT - 1)
  /\ Keys \cap {"newline", "backspace"} = {}
  /\ Outputs \subseteq Seq(Chars)

VARIABLES
  scr,      \* the console
  line,     \* the characters before pos in the line buffer
  history,  \* the history array
  history_count,
  call,     \* the file system call the last command made, with its arguments
  entered   \* the lines run so far, the last HISTORY_SIZE of them (history variable)

vars == <<scr, line, history, history_count, call, entered>>

Prompt == <<">", " ">>
NoCall == [fn |-> "none", name |-> <<>>, rest |-> <<>>]

(* One space is skipped; the rest of a line after n characters.            *)
SkipSpace(args) == IF args # <<>> /\ args[1] = " " THEN Tail(args) ELSE args
After(args, n) == SubSeq(args, n + 1, Len(args))

(* Variant: a word ends where the line does.                               *)
WordLen_ToEnd(args) ==
  LET stop == {n \in 0 .. Len(args) : n = FS_NAME_LEN - 1 \/ n = Len(args)}
  IN  CHOOSE n \in stop : \A m \in stop : n <= m

(* Length of the word cmd_write, cmd_append and cmd_mv copy.               *)
WordLen(args) ==
  LET stop == {n \in 0 .. Len(args) : \/ n = FS_NAME_LEN - 1
                                      \/ n = Len(args)
                                      \/ args[n + 1] = " "}
  IN  CHOOSE n \in stop : \A m \in stop : n <= m

(* A call of fn with a word and what follows it: none without a word.      *)
WithWord(fn, args) ==
  LET a == SkipSpace(args)
      n == WordLen(a)
  IN  IF n = 0 THEN NoCall
      ELSE [fn |-> fn, name |-> SubSeq(a, 1, n), rest |-> SkipSpace(After(a, n))]

cmd_write(args)  == WithWord("fs_write", args)
cmd_append(args) == WithWord("fs_append", args)

(* Both names must be there; the second is the rest of the line.           *)
cmd_mv(args) ==
  LET w == WithWord("fs_rename", args)
  IN  IF w.rest = <<>> THEN NoCall ELSE w

(* A call of fn with the rest of the line as its path.                     *)
WithPath(fn, args) ==
  LET a == SkipSpace(args)
  IN  IF a = <<>> THEN NoCall ELSE [NoCall EXCEPT !.fn = fn, !.name = a]

cmd_cat(args)    == WithPath("fs_read", args)
cmd_delete(args) == WithPath("fs_delete", args)
cmd_stat(args)   == WithPath("fs_stat", args)
cmd_mkdir(args)  == WithPath("fs_mkdir", args)
cmd_rmdir(args)  == WithPath("fs_rmdir", args)
cmd_cd(args)     == WithPath("fs_chdir", args)

(* Variant: the newest line replaces the one before it.                    *)
history_add_NoShift(l) ==
  /\ history' = [history EXCEPT ![HISTORY_SIZE] = l]
  /\ history_count' = IF history_count < HISTORY_SIZE THEN history_count + 1 ELSE history_count

(* Every line moves one place down, the newest goes to the last place.     *)
history_add(l) ==
  /\ history' = [i \in 1 .. HISTORY_SIZE |-> IF i < HISTORY_SIZE THEN history[i + 1] ELSE l]
  /\ history_count' = IF history_count < HISTORY_SIZE THEN history_count + 1 ELSE history_count

(* cmd_history, run after history_add.                                     *)
ShownHistory(h, n) ==
  FlattenSeq([i \in 1 .. n |-> <<" ", " ">> \o h[HISTORY_SIZE - n + i] \o <<"newline">>])

(* "cmd" or "cmd args", as the conditions of run_command test it.          *)
IsCommand(l, word) == l[1] = word /\ (Len(l) = 1 \/ l[2] = " ")

(* The screen s after the command; clear moves no hardware cursor.         *)
Output(s, l) ==
  CASE l = <<"c">> -> {vga_clear(s)}
    [] l = <<"h">> -> {kprint(s, ShownHistory(history', history_count'))}
    [] IsCommand(l, "e") -> {kprint(s, SkipSpace(Tail(l)) \o <<"newline">>)}
    [] OTHER -> {kprint(s, out) : out \in Outputs}

Called(l) ==
  CASE IsCommand(l, "w") -> cmd_write(Tail(l))
    [] IsCommand(l, "t") -> cmd_cat(Tail(l))
    [] IsCommand(l, "d") -> cmd_delete(Tail(l))
    [] IsCommand(l, "a") -> cmd_append(Tail(l))
    [] IsCommand(l, "s") -> cmd_stat(Tail(l))
    [] IsCommand(l, "m") -> cmd_mv(Tail(l))
    [] IsCommand(l, "k") -> cmd_mkdir(Tail(l))
    [] IsCommand(l, "r") -> cmd_rmdir(Tail(l))
    [] IsCommand(l, "g") -> cmd_cd(Tail(l))
    [] OTHER -> NoCall

(* Enter: the newline, the command, and the prompt again.                  *)
run_command ==
  /\ LET s == kprint(scr, <<"newline">>)
     IN  \/ /\ line = <<>>
            /\ scr' = kprint(s, Prompt)
            /\ UNCHANGED <<history, history_count, entered, call>>
         \/ /\ line # <<>>
            /\ history_add(line)
            /\ \E t \in Output(s, line) : scr' = kprint(t, Prompt)
            /\ call' = Called(line)
            /\ entered' = LET all == Append(entered, line)
                          IN  IF Len(all) > HISTORY_SIZE THEN Tail(all) ELSE all
  /\ line' = <<>>

EraseChar ==
  /\ IF line = <<>> THEN UNCHANGED <<line, scr>>
     ELSE line' = Front(line) /\ scr' = kprint(scr, <<"backspace">>)
  /\ UNCHANGED <<history, history_count, call, entered>>

RoomFor(c) == Len(line) < LINE_BUF_SIZE - 1

TypeChar(c) ==
  /\ IF RoomFor(c) THEN line' = Append(line, c) /\ scr' = kprint(scr, <<c>>)
     ELSE UNCHANGED <<line, scr>>
  /\ UNCHANGED <<history, history_count, call, entered>>

(* kernel_main has cleared the screen and printed welcome_text, some       *)
(* output; shell_run prints the first prompt.                              *)
Init ==
  /\ LET off == [cell |-> [i \in Cells |-> " "], row |-> 0, col |-> 0, hw |-> 0]
     IN  \E text \in Outputs : scr = kprint(kprint(vga_clear(off), text), Prompt)
  /\ line = <<>>
  /\ history = [i \in 1 .. HISTORY_SIZE |-> <<>>] /\ history_count = 0
  /\ call = NoCall /\ entered = <<>>

Next == run_command \/ EraseChar \/ \E c \in Keys : TypeChar(c)

Spec == Init /\ [][Next]_vars

-----------------------------------------------------------------------------
(* Properties.                                                             *)

(* The cursor is on the screen, so vga_putchar writes inside the VGA       *)
(* buffer, and the line leaves room for its terminator.                    *)
TypeOK ==
  /\ scr.row \in 0 .. VGA_HEIGHT - 1 /\ scr.col \in 0 .. VGA_WIDTH - 1
  /\ DOMAIN scr.cell = Cells
  /\ Len(line) <= LINE_BUF_SIZE - 1 /\ history_count \in 0 .. HISTORY_SIZE

(* What you see is what enter will run: before the cursor the prompt and   *)
(* the line, behind it nothing, and the hardware cursor at its place, with *)
(* lines that wrap and are erased, scrolling and "clear".                  *)
LineShown ==
  LET text == Prompt \o line
  IN  /\ \A i \in 1 .. Len(text) : /\ Pos(scr) - Len(text) + i - 1 \in Cells
                                  /\ scr.cell[Pos(scr) - Len(text) + i - 1] = text[i]
      /\ \A i \in Cells : i >= Pos(scr) => scr.cell[i] = " "
      /\ scr.hw = Pos(scr)

(* "show recent commands" (cmd_help, of history): the last HISTORY_SIZE    *)
(* lines that were not empty, oldest first.                                *)
HistoryShown ==
  SubSeq(history, HISTORY_SIZE - history_count + 1, HISTORY_SIZE) = entered

(* "parse: <filename> <rest of line as file content>" (cmd_write): the     *)
(* line typed last is the command, a name without spaces, and after one    *)
(* space all of the content.  The code breaks it for a name that does not  *)
(* fit its buffer: the rest of the name becomes content, or for mv the new *)
(* name.                                                                   *)
WordsKept ==
  call.fn \in {"fs_write", "fs_append", "fs_rename"} =>
    LET l == Last(entered)
        head == <<l[1], " ">> \o call.name
    IN  /\ \A i \in 1 .. Len(call.name) : call.name[i] # " "
        /\ \/ l = head /\ call.rest = <<>>
           \/ l = head \o <<" ">> \o call.rest

(* The word after the command has at most FS_NAME_LEN - 1 characters.      *)
NameFits(l) ==
  \E n \in 0 .. FS_NAME_LEN - 1 : \/ Len(l) = n + 2
                                  \/ Len(l) > n + 2 /\ l[n + 3] = " "

(* write, append and mv get what was typed, word and rest, whenever the    *)
(* name fits its buffer: names that fill it exactly, contents with spaces  *)
(* in front and behind, names without content.                             *)
ShortWordsKept == entered # <<>> /\ NameFits(Last(entered)) => WordsKept
=============================================================================
