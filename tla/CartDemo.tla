------------------------------ MODULE CartDemo ------------------------------
(***************************************************************************)
(* MDJSDEMO.PRG, the program in the cartridge (main.s): a PING, an UPLOAD  *)
(* and a CALL, each sent again when its token does not come back, and an   *)
(* alert with the text of the result buffer.  The commands travel as in    *)
(* Handshake.  A program that keeps to no such order may run instead.      *)
(*                                                                         *)
(* AES, the copy to RAM and the pauses between commands, which the parser  *)
(* needs and which FrameParser has, are left out.                          *)
(***************************************************************************)
EXTENDS Handshake

CONSTANTS
  Retries,     (* CMD_RETRIES_COUNT                                         *)
  CallSum,     (* the checksum of add\0[a,b]\0, which send_sync_write_      *)
               (* command_to_sidecart leaves in d7                          *)
  Programs,    (* what runs on the ST: "demo", "any"                        *)
  MaxTimeouts  (* bound: how often Core 1 does not answer in time           *)

ASSUME DemoAssumption ==
  /\ Retries \in Nat /\ CallSum \in 0 .. 65535
  /\ {"PING", "UPLOAD", "CALL"} \subseteq Bodies

VARIABLES
  demo,        (* the command the demo is at, "read" or "ended"             *)
  left,        (* the register that counts the retries                      *)
  tries,       (* how often the command has been sent                       *)
  shown,       (* what has been read of the result buffer, in two parts     *)
  alert,       (* the alert box                                             *)
  result,      (* the result buffer                                         *)
  loaded,      (* add() is in the context of Core 1                         *)
  executed,    (* Core 0 has done what the command asks                     *)
  timeouts

demoVars   == <<demo, left, tries, shown, alert>>
workerVars == <<result, loaded, executed, timeouts>>
vars == <<handshakeVars, demoVars, workerVars>>

Init ==
  /\ HandshakeInit
  /\ demo \in {IF p = "demo" THEN "PING" ELSE "any" : p \in Programs}
  /\ left = Retries /\ tries = 0 /\ shown = <<>> /\ alert = "none"
  /\ result = "none" /\ loaded = FALSE /\ executed = FALSE /\ timeouts = 0

(***************************************************************************)
(* The demo                                                                *)
(***************************************************************************)
Sending == {"PING", "UPLOAD", "CALL"}
After(cmd) == CASE cmd = "PING" -> "UPLOAD" [] cmd = "UPLOAD" -> "CALL"
                [] cmd = "CALL" -> "read"   [] cmd = "any" -> "any"

(* send_sync and send_write_sync keep the count on the stack; the loop     *)
(* around the CALL keeps it in d7, and the command uses d7.                *)
SendCommand ==
  /\ demo \in Sending /\ Send(demo)
  /\ tries' = tries + 1
  /\ left' = IF demo = "CALL" THEN CallSum ELSE left
  /\ UNCHANGED <<demo, shown, alert, workerVars>>

SendAny ==
  /\ demo = "any" /\ Send("CALL")
  /\ UNCHANGED <<demoVars, workerVars>>

LookAtToken == SeeToken /\ UNCHANGED <<demoVars, workerVars>>

(* d0 is 0: on to the next command.                                        *)
LookAtSeed ==
  /\ SeeSeed
  /\ IF st' = "idle"
     THEN demo' = After(demo) /\ left' = Retries /\ tries' = 0
     ELSE UNCHANGED <<demo, left, tries>>
  /\ UNCHANGED <<shown, alert, workerVars>>

(* Mutant: on with the next command, as if d0 were 0.                      *)
Failed_GoOn == demo' = After(demo) /\ left' = Retries /\ tries' = 0 /\ alert' = alert

(* dbf: sent again, or an alert.                                           *)
Failed ==
  IF left # 0
  THEN left' = left - 1 /\ UNCHANGED <<demo, tries, alert>>
  ELSE demo' = "ended" /\ alert' = "failed" /\ UNCHANGED <<left, tries>>

Timeout ==
  /\ GiveUp
  /\ IF demo = "any" THEN UNCHANGED <<demo, left, tries, alert>> ELSE Failed
  /\ UNCHANGED <<shown, workerVars>>

(* mdjsdemo_append_result, word by word.                                   *)
Read ==
  /\ demo = "read" /\ Len(shown) < 2
  /\ shown' = Append(shown, result)
  /\ UNCHANGED <<handshakeVars, demo, left, tries, alert, workerVars>>

Show ==
  /\ demo = "read" /\ Len(shown) = 2
  /\ demo' = "ended" /\ alert' = "result"
  /\ UNCHANGED <<handshakeVars, left, tries, shown, workerVars>>

DemoStep == SendCommand \/ SendAny \/ LookAtToken \/ LookAtSeed \/ Timeout \/ Read \/ Show

(***************************************************************************)
(* The worker, as far as the demo sees it                                  *)
(***************************************************************************)
TakeCommand ==
  /\ Take /\ executed' = FALSE
  /\ UNCHANGED <<demoVars, result, loaded, timeouts>>

(* The command of the slot is run to its end ...                           *)
Execute ==
  /\ busy # <<>> /\ ~executed /\ executed' = TRUE
  /\ LET cmd == busy[1].body IN
     /\ loaded' = (loaded \/ cmd = "UPLOAD")
     /\ result' = CASE cmd = "PING" -> "version" [] cmd = "UPLOAD" -> "ok"
                    [] cmd = "CALL" -> IF loaded THEN "sum" ELSE "error"
  /\ UNCHANGED <<handshakeVars, demoVars, timeouts>>

(* ... or Core 1 is restarted, and the context with it.                    *)
ExecuteTimeout ==
  /\ busy # <<>> /\ ~executed /\ executed' = TRUE
  /\ timeouts < MaxTimeouts /\ timeouts' = timeouts + 1
  /\ loaded' = FALSE /\ result' = "error"
  /\ UNCHANGED <<handshakeVars, demoVars>>

Answer ==
  /\ executed /\ (AnswerToken \/ AnswerSeed)
  /\ UNCHANGED <<demoVars, workerVars>>

WorkerStep == TakeCommand \/ Execute \/ ExecuteTimeout \/ Answer

Next == DemoStep \/ WorkerStep
Spec == /\ Init /\ [][Next]_vars
        /\ WF_vars(WorkerStep) /\ WF_vars(LookAtToken \/ LookAtSeed)

(***************************************************************************)
(* Properties                                                              *)
(***************************************************************************)

(* Whatever was lost, came late or was executed twice, the alert shows the *)
(* sum: an answer that ends the wait of another command is an answer to    *)
(* the same command sent before, since a command is sent again until it is *)
(* answered.  Core 1 must have been in time, and no seed repeated.         *)
ShowsItsSum ==
  alert = "result" /\ timeouts = 0 /\ ~reused => shown = <<"sum", "sum">>

(* main.s:45, "Number of retries for the command": each command is sent    *)
(* that often again, and then an alert says that it failed.                *)
RetriesBounded == tries <= Retries + 1
=============================================================================
