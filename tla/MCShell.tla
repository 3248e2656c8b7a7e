------------------------------- MODULE MCShell -------------------------------
(* Command output with and without a final newline (df has none).          *)
EXTENDS Shell

SomeOutput == {<<"o", "newline">>, <<"o">>}

(* Any line may be typed and run; the shell is followed further only after *)
(* clear, history, and a write.                                            *)
RepeatedLines == {<<"c">>, <<"h">>, <<"w", " ", "c", "c">>}
AfterRepeatedLines == ToSet(entered) \subseteq RepeatedLines

(* Lines long enough for a name that fills its buffer, and a rest, are     *)
(* those of write, append and mv, and are typed first.                     *)
LongLinesFirst ==
  /\ AfterRepeatedLines
  /\ Len(line) <= 4 \/ (entered = <<>> /\ line[1] \in {"w", "a", "m"})
=============================================================================
