---------------------------- MODULE FrameParser -----------------------------
(***************************************************************************)
(* The frame parser of rp/src/include/tprotocol.h.  The DMA interrupt hands *)
(* it one 16-bit word for every read the ST makes in the second ROM bank;  *)
(* a frame is a header, a command, a payload size in bytes, the payload    *)
(* and a checksum.  The parser keeps its state between words in statics.   *)
(*                                                                         *)
(* Time is abstracted to what the code asks of it: whether more than       *)
(* PROTOCOL_READ_RESTART_MICROSECONDS have passed since the last word that *)
(* was looked at as a header.  A word holds WordMod values, 2^16 in the    *)
(* code; the checksum wraps at the same modulus.                           *)
(***************************************************************************)
EXTENDS Naturals, SequencesExt

CONSTANTS
  WordMod,     (* number of values of a word                                *)
  Header,      (* PROTOCOL_HEADER                                           *)
  MaxPayload,  (* MAX_PROTOCOL_PAYLOAD_SIZE, bytes                          *)
  Words        (* the words that occur on the bus: bounds the model         *)

ASSUME WordModAssumption == WordMod \in Nat \ {0}
ASSUME HeaderAssumption == Header \in 0 .. WordMod - 1
ASSUME MaxPayloadAssumption ==
  MaxPayload \in Nat \ {0} /\ MaxPayload % 2 = 0 /\ MaxPayload < WordMod
ASSUME WordsAssumption == Words \subseteq 0 .. WordMod - 1

VARIABLES
  nextTPstep, commandId, payloadSize, bytesRead, finalChecksum, payload,
  stale,       (* the restart time has passed since last_header_found       *)
  out          (* the frame the last word handed to the callback, or <<>>   *)

parserVars == <<nextTPstep, commandId, payloadSize, bytesRead, finalChecksum, payload, stale, out>>

Word  == 0 .. WordMod - 1
Steps == {"HEADER_DETECTION", "COMMAND_READ", "PAYLOAD_SIZE_READ",
          "PAYLOAD_READ", "PAYLOAD_READ_END"}

(* The checksum of a sequence of words.                                    *)
SumOf(w) == FoldLeft(LAMBDA a, b : (a + b) % WordMod, 0, w)

(* payload[] seen as 16-bit words.                                         *)
Slots == 0 .. (MaxPayload \div 2) - 1
Frame == [id : Word, size : 0 .. MaxPayload, words : Seq(Word)]

TypeOK ==
  /\ nextTPstep \in Steps /\ commandId \in Word
  /\ payloadSize \in 0 .. MaxPayload /\ bytesRead \in 0 .. MaxPayload
  /\ finalChecksum \in Word /\ payload \in [Slots -> Word]
  /\ stale \in BOOLEAN /\ out \in Seq(Frame)

ParserInit ==
  /\ nextTPstep = "HEADER_DETECTION" /\ commandId = 0
  /\ payloadSize = 0 /\ bytesRead = 0 /\ finalChecksum = 0
  /\ payload = [i \in Slots |-> 0]
  /\ stale = TRUE /\ out = <<>>

(* The bus stays silent, or busy with a frame, for the restart time.       *)
Pause ==
  /\ ~stale /\ stale' = TRUE /\ out' = <<>>
  /\ UNCHANGED <<nextTPstep, commandId, payloadSize, bytesRead, finalChecksum, payload>>

(* Mutant: the clock is not looked at.                                     *)
Step_NoRestart == nextTPstep

(* tprotocol_parse begins with the clock.                                  *)
Step == IF stale THEN "HEADER_DETECTION" ELSE nextTPstep

Accumulate(data) == finalChecksum' = (finalChecksum + data) % WordMod

(* tprotocol_resetParserState, and the same done for a size too large.     *)
ResetParserState ==
  /\ nextTPstep' = "HEADER_DETECTION" /\ stale' = TRUE
  /\ bytesRead' = 0 /\ payloadSize' = 0 /\ finalChecksum' = 0

(* A word that is no header leaves the step as it was, before the restart  *)
(* was decided: tprotocol_parse has stored HEADER_DETECTION by then.       *)
DetectHeader(data) ==
  /\ Step = "HEADER_DETECTION"
  /\ IF data = Header
     THEN nextTPstep' = "COMMAND_READ" /\ finalChecksum' = 0
     ELSE nextTPstep' = "HEADER_DETECTION" /\ UNCHANGED finalChecksum
  /\ stale' = FALSE /\ out' = <<>>
  /\ UNCHANGED <<commandId, payloadSize, bytesRead, payload>>

ReadCommand(data) ==
  /\ Step = "COMMAND_READ"
  /\ commandId' = data /\ nextTPstep' = "PAYLOAD_SIZE_READ"
  /\ Accumulate(data) /\ out' = <<>>
  /\ UNCHANGED <<payloadSize, bytesRead, payload, stale>>

RejectPayloadSize(data) ==
  /\ Step = "PAYLOAD_SIZE_READ" /\ data > MaxPayload
  /\ ResetParserState /\ out' = <<>>
  /\ UNCHANGED <<commandId, payload>>

(* Mutant: bytes_read is left for the end of the frame to clear.           *)
ReadPayloadSize_KeepBytesRead(data) ==
  /\ Step = "PAYLOAD_SIZE_READ" /\ data <= MaxPayload
  /\ IF data > 0
     THEN payloadSize' = data /\ nextTPstep' = "PAYLOAD_READ"
     ELSE nextTPstep' = "PAYLOAD_READ_END" /\ UNCHANGED payloadSize
  /\ Accumulate(data) /\ out' = <<>>
  /\ UNCHANGED <<commandId, payload, bytesRead, stale>>

(* A size of 0 does not touch payload_size.                                *)
ReadPayloadSize(data) ==
  /\ Step = "PAYLOAD_SIZE_READ" /\ data <= MaxPayload
  /\ IF data > 0
     THEN payloadSize' = data /\ nextTPstep' = "PAYLOAD_READ"
     ELSE nextTPstep' = "PAYLOAD_READ_END" /\ UNCHANGED payloadSize
  /\ bytesRead' = 0
  /\ Accumulate(data) /\ out' = <<>>
  /\ UNCHANGED <<commandId, payload, stale>>

(* Mutant: one word too many before the step moves on.                     *)
ReadPayload_OneMore(data) ==
  /\ Step = "PAYLOAD_READ"
  /\ out' = <<>>
  /\ IF bytesRead + 2 > MaxPayload
     THEN /\ nextTPstep' = "PAYLOAD_READ_END"
          /\ UNCHANGED <<payload, finalChecksum, bytesRead>>
     ELSE /\ payload' = [payload EXCEPT ![bytesRead \div 2] = data]
          /\ Accumulate(data)
          /\ bytesRead' = bytesRead + 2
          /\ nextTPstep' = IF bytesRead' > payloadSize THEN "PAYLOAD_READ_END"
                                                       ELSE "PAYLOAD_READ"
  /\ UNCHANGED <<commandId, payloadSize, stale>>

ReadPayload(data) ==
  /\ Step = "PAYLOAD_READ" /\ bytesRead < payloadSize
  /\ out' = <<>>
  /\ IF bytesRead + 2 > MaxPayload
     THEN /\ nextTPstep' = "PAYLOAD_READ_END"
          /\ UNCHANGED <<payload, finalChecksum, bytesRead>>
     ELSE /\ payload' = [payload EXCEPT ![bytesRead \div 2] = data]
          /\ Accumulate(data)
          /\ bytesRead' = bytesRead + 2
          /\ nextTPstep' = IF bytesRead' >= payloadSize THEN "PAYLOAD_READ_END"
                                                        ELSE "PAYLOAD_READ"
  /\ UNCHANGED <<commandId, payloadSize, stale>>

(* The callback copies payload_size bytes; the half word that an odd size  *)
(* leaves out is not told apart.                                           *)
Received ==
  [id |-> commandId, size |-> payloadSize,
   words |-> [i \in 1 .. (payloadSize + 1) \div 2 |-> payload[i - 1]]]

ProcessCommand(data) ==
  /\ Step = "PAYLOAD_READ_END" /\ data = finalChecksum
  /\ out' = <<Received>>
  /\ ResetParserState
  /\ UNCHANGED <<commandId, payload>>

ChecksumError(data) ==
  /\ Step = "PAYLOAD_READ_END" /\ data # finalChecksum
  /\ out' = <<>>
  /\ ResetParserState
  /\ UNCHANGED <<commandId, payload>>

(* tprotocol_parse.                                                        *)
Parse(data) ==
  \/ DetectHeader(data) \/ ReadCommand(data)
  \/ RejectPayloadSize(data) \/ ReadPayloadSize(data)
  \/ ReadPayload(data) \/ ProcessCommand(data) \/ ChecksumError(data)

ParserNext == Pause \/ \E data \in Words : Parse(data)
ParserSpec == ParserInit /\ [][ParserNext]_parserVars

(***************************************************************************)
(* Properties.                                                             *)
(***************************************************************************)

(* Whatever words and pauses the bus brings, there is room for the payload *)
(* word that is read next, and one is missing: the parser can not sit in a *)
(* step that ignores every word, and its second check of the buffer's size *)
(* never has to act.                                                       *)
PayloadFits ==
  nextTPstep = "PAYLOAD_READ" =>
    bytesRead < payloadSize /\ bytesRead + 2 <= MaxPayload
=============================================================================
