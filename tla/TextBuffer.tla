----------------------------- MODULE TextBuffer -----------------------------
(***************************************************************************)
(* What an editor of plain text promises its user: one text, a point in    *)
(* it, and that every key does its one thing at the point.  TextEdit, the  *)
(* code, implements it with an array of lines.                             *)
(***************************************************************************)
EXTENDS SequencesExt, Integers

CONSTANTS
  Letters,           (* what a line is made of                              *)
  LineBreak,         (* what separates two lines                            *)
  Width              (* characters a line may have                          *)

VARIABLES
  text,              (* a sequence of letters and line breaks               *)
  point              (* characters before the cursor                        *)

textVars == <<text, point>>

Upto(i) == SubSeq(text, 1, i)
From(i) == SubSeq(text, i, Len(text))

MovePoint == point' \in 0 .. Len(text) /\ text' = text

Insert(s) ==
  /\ text' = Upto(point) \o s \o From(point + 1)
  /\ point' = point + Len(s)

(* The character next to the point goes; a line break takes with it what   *)
(* of the two lines does not fit into one.                                 *)
LineStart(i) == Max({0} \cup {j \in 1 .. i - 1 : text[j] = LineBreak})
LineEnd(i)   == Min({Len(text) + 1} \cup {j \in i + 1 .. Len(text) : text[j] = LineBreak})
Kept(i) ==
  IF text[i] = LineBreak THEN Min({LineEnd(i) - 1, LineStart(i) + Width + 1})
                         ELSE LineEnd(i) - 1

Remove1(i) ==
  /\ text' = Upto(i - 1) \o SubSeq(text, i + 1, Kept(i)) \o From(LineEnd(i))
  /\ point' = i - 1

TextInit == text \in Seq(Letters \cup {LineBreak}) /\ point = 0

TextNext ==
  \/ MovePoint
  \/ \E n \in 1 .. Width, c \in Letters : Insert([j \in 1 .. n |-> c])
  \/ Insert(<<LineBreak>>)
  \/ \E i \in {point, point + 1} \cap DOMAIN text : Remove1(i)
  \/ point' = 0 /\ text' \in Seq(Letters \cup {LineBreak})

TextSpec == TextInit /\ [][TextNext]_textVars
=============================================================================
