---------------------------- MODULE CommandLink -----------------------------
(***************************************************************************)
(* A command on its way from the ST to Core 0: sidecart_stubs.S sends it   *)
(* word by word, FrameParser takes it apart, mdjs_handle_protocol_command  *)
(* latches it, mdjs_consume_protocol takes it.  The ST's other interrupts  *)
(* may stretch a frame over the restart time, and the ST may be reset in   *)
(* the middle of one: the cartridge keeps running.                         *)
(*                                                                         *)
(* The words of a frame are taken to differ from the header.  A payload    *)
(* that holds a whole frame, and is broken by a pause in front of it, is   *)
(* parsed as that frame.                                                   *)
(***************************************************************************)
EXTENDS FrameParser

CONSTANT Commands   (* [id, size, words]: the commands the ST sends         *)

VARIABLES
  st,        (* the ST: "idle", "sending" a frame or "waiting" for the token *)
  current,   (* the command being sent, or sent last                        *)
  toSend,    (* the words of its frame that are still to come               *)
  broken,    (* the restart time has passed since the frame's header        *)
  buffer     (* s_protocol_buffers and s_protocol_ready: <<>> or <<frame>>  *)

senderVars == <<st, current, toSend, broken>>
vars == <<parserVars, senderVars, buffer>>

(* The frame of a command; the checksum is the sum of all but the header.  *)
FrameOf(c) ==
  LET body == <<c.id, c.size>> \o c.words
  IN  <<Header>> \o body \o <<SumOf(body)>>

(* Every frame carries the token at least, in whole words.                 *)
ASSUME CommandsAssumption ==
  \A c \in Commands :
    /\ c \in Frame
    /\ c.size > 0 /\ c.size = 2 * Len(c.words)
    /\ \A i \in 2 .. Len(FrameOf(c)) : FrameOf(c)[i] # Header

Init ==
  /\ ParserInit
  /\ st = "idle" /\ current \in Commands /\ toSend = <<>> /\ broken = FALSE
  /\ buffer = <<>>

(* send_sync_command_to_sidecart and send_sync_write_command_to_sidecart.  *)
Send(c) ==
  /\ st = "idle" /\ st' = "sending"
  /\ current' = c /\ toSend' = FrameOf(c) /\ broken' = FALSE
  /\ UNCHANGED <<parserVars, buffer>>

(* Mutant: a frame is latched only when the last one has been taken.       *)
Latch_KeepOld == buffer' = IF out' # <<>> /\ buffer = <<>> THEN out' ELSE buffer

(* mdjs_handle_protocol_command, the callback: the buffer that is not read *)
(* is filled and becomes the one that is.                                  *)
Latch == buffer' = IF out' # <<>> THEN out' ELSE buffer

SendWord ==
  /\ st = "sending"
  /\ Parse(Head(toSend)) /\ Latch
  /\ toSend' = Tail(toSend)
  /\ st' = IF Len(toSend) = 1 THEN "waiting" ELSE "sending"
  /\ UNCHANGED <<current, broken>>

(* Time passes, between frames or within one.                              *)
TimePasses ==
  /\ Pause
  /\ broken' = (broken \/ (st = "sending" /\ Len(toSend) < Len(FrameOf(current))))
  /\ UNCHANGED <<st, current, toSend, buffer>>

(* The token came back, or the ST gave up waiting for it.                  *)
EndWait ==
  /\ st = "waiting" /\ st' = "idle"
  /\ UNCHANGED <<parserVars, current, toSend, broken, buffer>>

(* The ST is reset.  Its boot takes longer than the restart time.          *)
ResetSt ==
  /\ st' = "idle" /\ toSend' = <<>>
  /\ IF stale THEN UNCHANGED parserVars ELSE Pause
  /\ UNCHANGED <<current, broken, buffer>>

(* mdjs_consume_protocol, with interrupts disabled.                        *)
Consume ==
  /\ buffer # <<>> /\ buffer' = <<>>
  /\ UNCHANGED <<parserVars, senderVars>>

Next ==
  \/ \E c \in Commands : Send(c)
  \/ SendWord \/ TimePasses \/ EndWait \/ ResetSt \/ Consume

Spec == Init /\ [][Next]_vars

(***************************************************************************)
(* Properties.                                                             *)
(***************************************************************************)

(* The command buffer only ever receives the command being sent, whole and *)
(* once: the detailed link implements LossyLink.                           *)
Abstract == INSTANCE LossyLink
  WITH underway <- IF st = "sending" THEN <<current>> ELSE <<>>
ImplementsLossyLink == Abstract!LinkSpec

(* A frame sent within the restart time is never lost, whatever became of  *)
(* the frames before it: cut short by a reset, or broken by a pause.       *)
FrameArrives ==
  [][st = "sending" /\ st' = "waiting" /\ ~broken => buffer' = <<current>>]_vars
=============================================================================
