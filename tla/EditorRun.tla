----------------------------- MODULE EditorRun -----------------------------
(***************************************************************************)
(* MD/JS Code running a program: do_run and poll_async_result of the       *)
(* editor's main.c, over the worker.  A run is a ping, an upload and a     *)
(* call; an asynchronous one leaves its result to be polled.               *)
(***************************************************************************)
EXTENDS MdjsWorker

CONSTANTS
  Modes,             (* the ways the user runs code: "sync", "async"        *)
  FirstMode          (* bound: how the first run is done                    *)

(* The editor is one of the ST programs the worker serves.                 *)
ASSUME EditorOpsAssumption == {"PING", "UPLOAD", "CALL", "CALL_ASYNC"} \subseteq Ops

VARIABLES
  at,                (* where the editor is in a run; "loop" is event_loop  *)
  mode,              (* async_mode of the run                               *)
  asyncCall,         (* async_call_pending                                  *)
  want,              (* the command whose result the editor shows next      *)
  shown,             (* current_result                                      *)
  astray,            (* a command was given up, or a run begun while        *)
                     (* asyncCall                                           *)
  raced              (* a command left before Core 0 had taken the reply of *)
                     (* an async call                                       *)

edVars  == <<at, mode, asyncCall, want, shown, astray, raced>>
allVars == <<vars, edVars>>

Shown(src, res) == [src |-> src, id |-> res.id, kind |-> res.kind]
Message         == Shown("message", [id |-> 0, kind |-> "none"])
Running         == Shown("running", [id |-> 0, kind |-> "none"])

EditorInit ==
  /\ Init
  /\ at = "loop" /\ mode = "sync" /\ asyncCall = FALSE /\ want = 0
  /\ shown = Message /\ astray = FALSE /\ raced = FALSE

(* Code > Run..., up to the look at the ready byte in mdjs_ping.           *)
Run(m) ==
  /\ at = "loop" /\ mode' = m /\ astray' = (astray \/ asyncCall)
  /\ IF ready THEN at' = "ping" /\ UNCHANGED shown
              ELSE at' = "loop" /\ shown' = Message
  /\ UNCHANGED <<vars, asyncCall, want, raced>>

(* A command of the run leaves for the worker.                             *)
Op == CASE at = "ping" -> "PING" [] at = "upload" -> "UPLOAD"
        [] at = "call" -> IF mode = "async" THEN "CALL_ASYNC" ELSE "CALL"
Waits(p) == CASE p = "ping" -> "pinged" [] p = "upload" -> "uploaded" [] p = "call" -> "called"
Send ==
  /\ at \in {"ping", "upload", "call"} /\ st = "idle"
  /\ Submit(Op)
  /\ want' = sent' /\ at' = Waits(at) /\ raced' = (raced \/ asyncPending)
  /\ UNCHANGED <<mode, asyncCall, shown, astray>>

(* mdjs_ping found the worker gone since Run looked, mdjs_call_async an    *)
(* earlier call still running.                                             *)
Refused ==
  /\ st = "idle"
  /\ \/ at = "ping" /\ ~PingGate /\ at' = "loop" /\ shown' = Message
     \/ at = "call" /\ mode = "async" /\ ~AsyncGate /\ at' = "fail" /\ UNCHANGED shown
  /\ UNCHANGED <<vars, mode, asyncCall, want, astray, raced>>

(* The token came back: on with the run.                                   *)
Accepted ==
  /\ st = "waiting" /\ token = sent /\ StopWaiting
  /\ CASE at = "pinged"   -> at' = "upload" /\ UNCHANGED <<asyncCall, shown>>
       [] at = "uploaded" -> at' = "call" /\ UNCHANGED <<asyncCall, shown>>
       [] at = "called"   -> IF mode = "async"
                             THEN at' = "loop" /\ asyncCall' = TRUE /\ shown' = Running
                             ELSE at' = "result" /\ UNCHANGED <<asyncCall, shown>>
  /\ UNCHANGED <<mode, want, astray, raced>>

(* COMMAND_TIMEOUT ran out.                                                *)
GivenUp ==
  /\ st = "waiting" /\ token # sent /\ StopWaiting
  /\ astray' = TRUE
  /\ IF at = "pinged" THEN at' = "loop" /\ shown' = Message
                      ELSE at' = "fail" /\ UNCHANGED shown
  /\ UNCHANGED <<mode, asyncCall, want, raced>>

(* read_result of mdjs_call; set_result_error_with_fallback.               *)
ShowResult ==
  /\ at = "result" /\ shown' = Shown("call", resultMem) /\ at' = "loop"
  /\ UNCHANGED <<vars, mode, asyncCall, want, astray, raced>>

ShowError ==
  /\ at = "fail" /\ at' = "loop"
  /\ shown' = IF resultMem.kind = "none" THEN Message ELSE Shown("error", resultMem)
  /\ UNCHANGED <<vars, mode, asyncCall, want, astray, raced>>

(* poll_async_result, every TE_BLINK_MS: the status, then the buffer.      *)
(* Mutant: the status is not looked at.                                    *)
Settled_Any == TRUE
Settled     == status # "BUSY"

Poll ==
  /\ at = "loop" /\ asyncCall /\ Settled
  /\ asyncCall' = FALSE /\ at' = "polled"
  /\ UNCHANGED <<vars, mode, want, shown, astray, raced>>

ShowPolled ==
  /\ at = "polled" /\ at' = "loop"
  /\ shown' = IF resultMem.kind = "none" THEN Message ELSE Shown("poll", resultMem)
  /\ UNCHANGED <<vars, mode, asyncCall, want, astray, raced>>

EditorStep == Send \/ Refused \/ Accepted \/ GivenUp \/ ShowResult \/ ShowError \/ ShowPolled

(* The programs that are run call no fetch().                              *)
Worker == Core0Next \/ AsyncExpire \/ Core1Next \/ C1FinishUpload \/ C1FinishCall

EditorNext ==
  \/ Worker /\ UNCHANGED edVars
  \/ EditorStep \/ Poll
  \/ \E m \in Modes :
       /\ sent + 3 <= MaxCmds /\ (sent = 0 => m = FirstMode)   (* bounds     *)
       /\ Run(m)

EditorSpec == EditorInit /\ [][EditorNext]_allVars
EditorFair ==
  /\ WF_allVars(Core0Next /\ UNCHANGED edVars) /\ WF_allVars(AsyncExpire /\ UNCHANGED edVars)
  /\ WF_allVars(Core1Next /\ UNCHANGED edVars)
  /\ WF_allVars(EditorStep) /\ WF_allVars(Poll)
EditorFairSpec == EditorSpec /\ EditorFair

(***************************************************************************)
(* What the result window is worth                                         *)
(***************************************************************************)

(* Unless a command was given up or went out with an async call in flight, *)
(* a result in the window is that of the call it is shown for, whichever   *)
(* way it came (main.c:957, 1346).                                         *)
ShowsItsResult ==
  ~astray /\ ~raced /\ at = "loop" /\ shown.src \in {"call", "poll"} => shown.id = want

(* "Running code..." does not stay in the window.                          *)
PollEnds == asyncCall ~> ~asyncCall \/ lock = "orphan"
=============================================================================
