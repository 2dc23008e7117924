---------------------------- MODULE MCTextEdit ----------------------------
(* Instance: a window of two rows and two columns on a text of up to three *)
(* lines of two characters; the letter and the space are told apart.  A    *)
(* short has four bits, so that the longest line of a file overruns.       *)
EXTENDS TextEdit

MCChars   == {"a", " "}
MCInitial == << <<"a", " ">>, <<>>, <<"a">> >>
MCNew     == << <<"a">>, <<" ", "a">> >>
MCFiles   == { <<"a", "a", "a", "a", "CR", " ", "LF", "LF", "a">>, <<"LF">>,
               <<"a", "CR", "LF", "a", "NUL", "LF">>, <<"NUL", "a">>,
               [j \in 1 .. 9 |-> IF j = 1 THEN "LF" ELSE "a"] }

(* What LoadedLines makes of a file is what reading it character by        *)
(* character gives: of every file of up to seven characters.               *)
Read(r, c) ==
  CASE r.ended \/ c = NUL      -> [r EXCEPT !.ended = TRUE]
    [] ~r.ended /\ c = LF /\ r.behindCR -> [r EXCEPT !.behindCR = FALSE]
    [] ~r.ended /\ c \in {LF, CR} /\ (c = CR \/ ~r.behindCR) ->
         [r EXCEPT !.lines = Append(@, r.line), !.line = <<>>, !.behindCR = (c = CR)]
    [] ~r.ended /\ c \in Chars  -> [r EXCEPT !.line = Append(@, c), !.behindCR = FALSE]

ReadLines(f) ==
  LET r == FoldLeft(Read, [lines |-> <<>>, line |-> <<>>, behindCR |-> FALSE, ended |-> FALSE], f)
      ls == IF r.line = <<>> THEN r.lines ELSE Append(r.lines, r.line)
  IN [j \in 1 .. Min({MaxLines, Len(ls)}) |-> Slice(ls[j], 1, MaxLen)]

ASSUME LoadedIsRead ==
  \A n \in 1 .. 7 : \A f \in [1 .. n -> {"a", LF, CR, NUL}] :
    ~Overruns(f) => LoadedLines(f) = ReadLines(f)
=============================================================================
