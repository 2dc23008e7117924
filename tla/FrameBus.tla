----------------------------- MODULE FrameBus -------------------------------
(***************************************************************************)
(* FrameParser under any sequence of words and pauses, with a memory of    *)
(* the words since the restart time last passed or a frame was delivered.  *)
(* The memory is long enough for the longest frame; with it the properties *)
(* say what should be delivered without a look at the parser's state.      *)
(***************************************************************************)
EXTENDS FrameParser

VARIABLES
  heard,    (* the words since then, the last Window of them at most        *)
  whole,    (* whether that is all of them                                  *)
  gap       (* the restart time has passed since the last word              *)

busVars == <<parserVars, heard, whole, gap>>

Window == 4 + MaxPayload \div 2

BusInit == ParserInit /\ heard = <<>> /\ whole = TRUE /\ gap = TRUE
BusPause ==
  /\ ~gap /\ gap' = TRUE
  /\ IF stale THEN UNCHANGED parserVars ELSE Pause
  /\ UNCHANGED <<heard, whole>>
BusWord(data) ==
  /\ Parse(data) /\ gap' = FALSE
  /\ LET before == IF gap \/ out # <<>> THEN <<>> ELSE heard
         all    == Append(before, data)
     IN  /\ heard' = IF Len(all) > Window THEN Tail(all) ELSE all
         /\ whole' = (before = <<>> \/ (whole /\ Len(all) <= Window))
BusNext == BusPause \/ \E data \in Words : BusWord(data)
BusSpec == BusInit /\ [][BusNext]_busVars

(* The frame format, stated for a sequence of words.                       *)
IsFrame(w) ==
  /\ Len(w) >= 4 /\ w[1] = Header /\ w[3] <= MaxPayload
  /\ Len(w) = 4 + (w[3] + 1) \div 2
  /\ w[Len(w)] = SumOf(SubSeq(w, 2, Len(w) - 1))
Heard(n) == SubSeq(heard, Len(heard) - n + 1, Len(heard))
Carries(w, f) ==
  /\ f.id = w[2]
  /\ w[3] > 0 => f.size = w[3] /\ f.words = SubSeq(w, 4, Len(w) - 1)

(* Nothing is delivered that was not on the bus: the words up to this one  *)
(* are a frame, its checksum holds, the restart time did not pass inside,  *)
(* and what is delivered is that frame's command and payload, whatever     *)
(* earlier frames left behind; of a frame of size 0 only the command (its  *)
(* size may be that of a frame that was cut short).                        *)
DeliveredWasHeard ==
  out # <<>> =>
    \E n \in 4 .. Len(heard) : IsFrame(Heard(n)) /\ Carries(Heard(n), out[1])

(* A whole frame is delivered, whatever noise came before it, if the       *)
(* restart time passed in front of it, or the word before it ended a frame, *)
(* and it is through before the restart time passes again.                  *)
FrameIsDelivered == whole /\ IsFrame(heard) => out # <<>>
=============================================================================
