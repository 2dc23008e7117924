----------------------------- MODULE MdjsWorker -----------------------------
(***************************************************************************)
(* The MD/JS worker of rp/src/js_worker.c and rp/src/js_fetch.c.           *)
(*                                                                         *)
(* Core 0 runs js_worker_loop: it drains the reply of a pending            *)
(* asynchronous call, takes the command the bus parser latched and either  *)
(* answers it by itself or hands it to Core 1.  Core 1 (core1_entry) runs  *)
(* JerryScript.  The cores exchange 32-bit words over the two hardware     *)
(* FIFOs and share js_worker_msg under one spin-lock.  The Atari ST sees   *)
(* the ROM mirror only: result buffer, status byte, ready byte and token.  *)
(*                                                                         *)
(* Data is abstracted to what the properties tell apart.  A command is     *)
(* known by the position at which the ST sent it, and a result by the      *)
(* command it answers and its kind.  FIFO words carry only a tag in the    *)
(* code; the "id" beside it is a label that no guard reads.                *)
(***************************************************************************)
EXTENDS Naturals, Sequences

CONSTANTS
  MaxCmds,     (* how many commands the ST sends: bounds the model          *)
  FifoDepth,   (* words a hardware FIFO holds (8 on the RP2040)             *)
  Ops,         (* the commands the ST program uses                          *)
  GivesUp      (* whether the ST's wait for a token may run out             *)

SyncOps == {"PING", "UPLOAD", "CALL", "RESET"}
AllOps  == SyncOps \cup {"CHUNK", "CALL_ASYNC", "POLL", "OTHER"}

ASSUME MaxCmdsAssumption == MaxCmds \in Nat
ASSUME FifoDepthAssumption == FifoDepth \in Nat \ {0, 1}
ASSUME OpsAssumption == Ops \subseteq AllOps
ASSUME GivesUpAssumption == GivesUp \in BOOLEAN

VARIABLES
  (* Core 0: position, command in dispatch, the async call state, arming   *)
  pc0, cmd, asyncPending, asyncExpired, armed,
  (* Core 1: position, word being served, its outcome, code in the context *)
  pc1, op1, out1, loaded,
  (* the FIFOs, and js_worker_msg with its spin-lock                       *)
  toC0, toC1, lock, call, resultJson,
  (* the ROM mirror the ST reads                                           *)
  resultMem, status, ready, token,
  (* the ST program, and the one-command buffer of mdjs_protocol.c         *)
  st, sent, slot

core0Vars == <<pc0, cmd, asyncPending, asyncExpired, armed>>
core1Vars == <<pc1, op1, out1, loaded>>
fifoVars  == <<toC0, toC1>>
msgVars   == <<lock, call, resultJson>>
romVars   == <<resultMem, status, ready, token>>
stVars    == <<st, sent, slot>>
vars == <<core0Vars, core1Vars, fifoVars, msgVars, romVars, stVars>>

Ids       == 0 .. MaxCmds
WorkTags  == SyncOps
Tags      == WorkTags \cup {"FETCH_REQ", "FETCH_OK", "FETCH_ERR", "DONE", "ERROR"}
Word      == [tag : Tags, id : Ids]
NoWord    == [tag |-> "NONE", id |-> 0]
Command   == [op : AllOps, id : Ids]
NoCmd     == [op |-> "NONE", id |-> 0]

(* "ok" and "exception" are Core 1's outcomes; the other kinds are written *)
(* by Core 0.  IsError is result_is_error.                                 *)
Kinds      == {"none", "ok", "exception", "timeout", "busy", "bad", "partial", "status"}
Result     == [id : Ids, kind : Kinds]
IsError(k) == k \in {"exception", "timeout", "busy", "bad"}

Pc0 == {"startup", "raise", "loop", "consume", "dispatch", "wait",
        "fetch", "http", "unready", "reset", "respond"}
Pc1 == {"boot", "up", "idle", "copy", "run", "url", "ask", "fetching", "body",
        "reinit", "reready", "store", "flush", "push"}

(* The places where Core 1 needs the spin-lock.                            *)
Sections == {"copy", "url", "body", "store", "flush"}

TypeOK0 ==
  /\ pc0 \in Pc0 /\ cmd \in Command \cup {NoCmd}
  /\ asyncPending \in BOOLEAN /\ asyncExpired \in BOOLEAN /\ armed \in BOOLEAN
TypeOK1 ==
  /\ pc1 \in Pc1 /\ op1 \in Word \cup {NoWord}
  /\ out1 \in {"ok", "exception"} /\ loaded \in BOOLEAN
TypeOKFifo == toC0 \in Seq(Word) /\ toC1 \in Seq(Word)
TypeOKMsg ==
  lock \in {"free", "core1", "orphan"} /\ call \in Ids /\ resultJson \in Result
TypeOKRom ==
  /\ resultMem \in Result /\ status \in {"IDLE", "BUSY", "DONE", "ERROR"}
  /\ ready \in BOOLEAN /\ token \in Ids
TypeOKSt ==
  st \in {"idle", "waiting"} /\ sent \in Ids /\ slot \in Command \cup {NoCmd}

TypeOK ==
  TypeOK0 /\ TypeOK1 /\ TypeOKFifo /\ TypeOKMsg /\ TypeOKRom /\ TypeOKSt

(* js_worker_init up to the launch of Core 1.                              *)
Init ==
  /\ pc0 = "startup" /\ cmd = NoCmd
  /\ asyncPending = FALSE /\ asyncExpired = FALSE /\ armed = FALSE
  /\ pc1 = "boot" /\ op1 = NoWord /\ out1 = "ok" /\ loaded = FALSE
  /\ toC0 = <<>> /\ toC1 = <<>>
  /\ lock = "free" /\ call = 0
  /\ resultJson = [id |-> 0, kind |-> "none"] /\ resultMem = [id |-> 0, kind |-> "none"]
  /\ status = "IDLE" /\ ready = FALSE /\ token = 0
  /\ st = "idle" /\ sent = 0 /\ slot = NoCmd

(***************************************************************************)
(* The Atari ST: mdjs.c over sidecart_stubs.S.  One command at a time: the *)
(* program waits for its token, or gives up after COMMAND_TIMEOUT.         *)
(***************************************************************************)

(* mdjs_ping looks at the ready byte first, mdjs_call_async at the status. *)
PingGate       == ready
AsyncGate      == status # "BUSY"
ClientGate(op) == (op = "PING" => PingGate) /\ (op = "CALL_ASYNC" => AsyncGate)

(* A frame the parser accepts overwrites a command still in the buffer; a  *)
(* frame it drops (checksum, restart of the header search) never arrives.  *)
Submit(op) ==
  /\ st = "idle" /\ sent < MaxCmds /\ ClientGate(op)
  /\ sent' = sent + 1 /\ st' = "waiting"
  /\ slot' \in {[op |-> op, id |-> sent'], slot}
  /\ UNCHANGED <<core0Vars, core1Vars, fifoVars, msgVars, romVars>>

(* .Lwait_token: the token came back, or the count of COMMAND_TIMEOUT ran  *)
(* out (about 69 s) and the caller got -1.                                 *)
StopWaiting ==
  /\ st = "waiting" /\ (token = sent \/ GivesUp)
  /\ st' = "idle"
  /\ UNCHANGED <<core0Vars, core1Vars, fifoVars, msgVars, romVars, sent, slot>>

StNext == StopWaiting \/ \E op \in Ops : Submit(op)

(***************************************************************************)
(* Core 0: start-up.                                                       *)
(***************************************************************************)

(* Commands latched before the worker is armed are consumed and dropped.   *)
StartupDrop ==
  /\ pc0 = "startup" /\ slot # NoCmd
  /\ slot' = NoCmd
  /\ UNCHANGED <<core0Vars, core1Vars, fifoVars, msgVars, romVars, st, sent>>

StartupArm ==
  /\ pc0 = "startup"
  /\ armed' = TRUE /\ pc0' = "raise"
  /\ UNCHANGED <<cmd, asyncPending, asyncExpired, core1Vars, fifoVars, msgVars, romVars, stVars>>

(* Having set its own flag, Core 0 reads the phase Core 1 has set.         *)
StartupRaise ==
  /\ pc0 = "raise"
  /\ ready' = (ready \/ pc1 # "boot") /\ pc0' = "loop"
  /\ UNCHANGED <<cmd, asyncPending, asyncExpired, armed, core1Vars, fifoVars, msgVars,
                 resultMem, status, token, stVars>>

(***************************************************************************)
(* Core 0: helpers.  Its critical sections are single steps that need the  *)
(* lock free: Core 0 is never interrupted inside one.                      *)
(***************************************************************************)

(* js_write_error_response and js_write_timeout_error.                     *)
WriteError(id, kind) ==
  /\ lock = "free"
  /\ resultJson' = [id |-> id, kind |-> kind]
  /\ resultMem' = [id |-> id, kind |-> kind]
  /\ status' = "ERROR"
  /\ UNCHANGED <<lock, call, ready, token>>

(* multicore_fifo_push_blocking on Core 0.                                 *)
PushToCore1(tag, id) ==
  /\ Len(toC1) < FifoDepth
  /\ toC1' = Append(toC1, [tag |-> tag, id |-> id])

(* A fetch served from the drain goes on to the command, one served from   *)
(* js_wait_for_core1 goes back to waiting.                                 *)
AfterFetch == IF cmd = NoCmd THEN "consume" ELSE "wait"
AfterReset == IF cmd = NoCmd THEN "consume" ELSE "respond"

(***************************************************************************)
(* Core 0: js_drain_async_fifo, the first thing js_worker_loop does.       *)
(***************************************************************************)

(* Mutant: the start time is never compared with the clock.                *)
AsyncExpire_Never == FALSE /\ UNCHANGED vars

(* Time passes: the call has been pending for JS_CALL_TIMEOUT_US.          *)
AsyncExpire ==
  /\ asyncPending /\ ~asyncExpired
  /\ asyncExpired' = TRUE
  /\ UNCHANGED <<pc0, cmd, asyncPending, armed, core1Vars, fifoVars, msgVars, romVars, stVars>>

DrainNothing ==
  /\ pc0 = "loop"
  /\ ~asyncPending \/ (~asyncExpired /\ toC0 = <<>>)
  /\ pc0' = "consume"
  /\ UNCHANGED <<cmd, asyncPending, asyncExpired, armed, core1Vars, fifoVars, msgVars, romVars, stVars>>

(* Mutant: an expired call is given up without a restart of Core 1.        *)
DrainTimeout_NoReset ==
  /\ pc0 = "loop" /\ asyncPending /\ asyncExpired
  /\ WriteError(call, "timeout")
  /\ asyncPending' = FALSE /\ asyncExpired' = FALSE /\ pc0' = "consume"
  /\ UNCHANGED <<cmd, armed, core1Vars, fifoVars, stVars>>

DrainTimeout ==
  /\ pc0 = "loop" /\ asyncPending /\ asyncExpired
  /\ WriteError(call, "timeout")
  /\ asyncPending' = FALSE /\ asyncExpired' = FALSE /\ pc0' = "unready"
  /\ UNCHANGED <<cmd, armed, core1Vars, fifoVars, stVars>>

DrainFetch ==
  /\ pc0 = "loop" /\ asyncPending /\ ~asyncExpired
  /\ toC0 # <<>> /\ Head(toC0).tag = "FETCH_REQ"
  /\ toC0' = Tail(toC0) /\ pc0' = "fetch"
  /\ UNCHANGED <<cmd, asyncPending, asyncExpired, armed, core1Vars, toC1, msgVars, romVars, stVars>>

DrainReply ==
  /\ pc0 = "loop" /\ asyncPending /\ ~asyncExpired
  /\ toC0 # <<>> /\ Head(toC0).tag # "FETCH_REQ"
  /\ toC0' = Tail(toC0) /\ asyncPending' = FALSE /\ pc0' = "consume"
  /\ UNCHANGED <<cmd, asyncExpired, armed, core1Vars, toC1, msgVars, romVars, stVars>>

(***************************************************************************)
(* Core 0: mdjs_consume_protocol and js_dispatch_command.                  *)
(***************************************************************************)

ConsumeNothing ==
  /\ pc0 = "consume" /\ slot = NoCmd
  /\ pc0' = "loop"
  /\ UNCHANGED <<cmd, asyncPending, asyncExpired, armed, core1Vars, fifoVars, msgVars, romVars, stVars>>

(* A command outside 0x10 - 0x15, or without a whole token: no answer.     *)
ConsumeIgnored ==
  /\ pc0 = "consume" /\ slot.op = "OTHER"
  /\ slot' = NoCmd /\ pc0' = "loop"
  /\ UNCHANGED <<cmd, asyncPending, asyncExpired, armed, core1Vars, fifoVars, msgVars, romVars, st, sent>>

Consume ==
  /\ pc0 = "consume" /\ slot # NoCmd /\ slot.op # "OTHER"
  /\ cmd' = slot /\ slot' = NoCmd /\ pc0' = "dispatch"
  /\ UNCHANGED <<asyncPending, asyncExpired, armed, core1Vars, fifoVars, msgVars, romVars, st, sent>>

(* Mutant: the payload is parsed into call_func before the busy check.     *)
DispatchBusy_ParseFirst ==
  /\ pc0 = "dispatch" /\ cmd.op \in {"CALL", "CALL_ASYNC"} /\ asyncPending
  /\ lock = "free" /\ call' = cmd.id
  /\ resultJson' = [id |-> cmd.id, kind |-> "busy"]
  /\ resultMem' = [id |-> cmd.id, kind |-> "busy"]
  /\ status' = "ERROR"
  /\ pc0' = "respond"
  /\ UNCHANGED <<cmd, asyncPending, asyncExpired, armed, core1Vars, fifoVars, lock, ready, token, stVars>>

(* CALL and CALL_ASYNC are refused while an async call is in flight.       *)
DispatchBusy ==
  /\ pc0 = "dispatch" /\ cmd.op \in {"CALL", "CALL_ASYNC"} /\ asyncPending
  /\ WriteError(cmd.id, "busy")
  /\ pc0' = "respond"
  /\ UNCHANGED <<cmd, asyncPending, asyncExpired, armed, core1Vars, fifoVars, stVars>>

(* A malformed payload or header, or a source that does not fit.           *)
DispatchBad ==
  /\ pc0 = "dispatch"
  /\ cmd.op \in {"UPLOAD", "CHUNK"} \/ (cmd.op \in {"CALL", "CALL_ASYNC"} /\ ~asyncPending)
  /\ WriteError(cmd.id, "bad")
  /\ pc0' = "respond"
  /\ UNCHANGED <<cmd, asyncPending, asyncExpired, armed, core1Vars, fifoVars, stVars>>

(* The command goes to Core 1, whatever that is doing.                     *)
HandToCore1 ==
  /\ PushToCore1(cmd.op, cmd.id)
  /\ pc0' = "wait"
  /\ UNCHANGED <<cmd, asyncPending, asyncExpired, armed, core1Vars, toC0, lock, resultJson, romVars, stVars>>

DispatchPing ==
  /\ pc0 = "dispatch" /\ cmd.op = "PING"
  /\ call' = call /\ HandToCore1

(* The last chunk, stored under the lock.                                  *)
DispatchUpload ==
  /\ pc0 = "dispatch" /\ cmd.op = "UPLOAD" /\ lock = "free"
  /\ call' = call /\ HandToCore1

(* The parameters are parsed into js_worker_msg under the lock.            *)
DispatchCall ==
  /\ pc0 = "dispatch" /\ cmd.op = "CALL" /\ ~asyncPending /\ lock = "free"
  /\ call' = cmd.id /\ HandToCore1

DispatchReset ==
  /\ pc0 = "dispatch" /\ cmd.op = "RESET"
  /\ call' = call /\ HandToCore1

DispatchSync == DispatchPing \/ DispatchUpload \/ DispatchCall \/ DispatchReset

(* Mutant: no refusal while another async call is in flight.               *)
DispatchAsync_NoBusyCheck ==
  /\ pc0 = "dispatch" /\ cmd.op = "CALL_ASYNC"
  /\ lock = "free" /\ call' = cmd.id
  /\ status' = "BUSY"
  /\ asyncPending' = TRUE /\ asyncExpired' = FALSE
  /\ PushToCore1("CALL", cmd.id)
  /\ pc0' = "respond"
  /\ UNCHANGED <<cmd, armed, core1Vars, toC0, lock, resultJson, resultMem, ready, token, stVars>>

(* Mutant: the status byte keeps the value of an earlier command.          *)
DispatchAsync_KeepStatus ==
  /\ pc0 = "dispatch" /\ cmd.op = "CALL_ASYNC" /\ ~asyncPending
  /\ lock = "free" /\ call' = cmd.id
  /\ asyncPending' = TRUE /\ asyncExpired' = FALSE
  /\ PushToCore1("CALL", cmd.id)
  /\ pc0' = "respond"
  /\ UNCHANGED <<cmd, armed, core1Vars, toC0, lock, resultJson, romVars, stVars>>

DispatchAsync ==
  /\ pc0 = "dispatch" /\ cmd.op = "CALL_ASYNC" /\ ~asyncPending
  /\ lock = "free" /\ call' = cmd.id
  /\ status' = "BUSY"
  /\ asyncPending' = TRUE /\ asyncExpired' = FALSE
  /\ PushToCore1("CALL", cmd.id)
  /\ pc0' = "respond"
  /\ UNCHANGED <<cmd, armed, core1Vars, toC0, lock, resultJson, resultMem, ready, token, stVars>>

(* The section that stores an intermediate chunk, then its acknowledgement *)
(* written without the lock.                                               *)
DispatchChunk ==
  /\ pc0 = "dispatch" /\ cmd.op = "CHUNK" /\ lock = "free"
  /\ resultMem' = [id |-> cmd.id, kind |-> "partial"]
  /\ pc0' = "respond"
  /\ UNCHANGED <<cmd, asyncPending, asyncExpired, armed, core1Vars, fifoVars, msgVars,
                 status, ready, token, stVars>>

(* {"status":n} replaces what the result buffer held, without the lock.    *)
DispatchPoll ==
  /\ pc0 = "dispatch" /\ cmd.op = "POLL"
  /\ resultMem' = [id |-> cmd.id, kind |-> "status"]
  /\ pc0' = "respond"
  /\ UNCHANGED <<cmd, asyncPending, asyncExpired, armed, core1Vars, fifoVars, msgVars,
                 status, ready, token, stVars>>

(* js_send_response: the token of the command unblocks the ST.             *)
Respond ==
  /\ pc0 = "respond"
  /\ token' = cmd.id /\ cmd' = NoCmd /\ pc0' = "loop"
  /\ UNCHANGED <<asyncPending, asyncExpired, armed, core1Vars, fifoVars, msgVars,
                 resultMem, status, ready, stVars>>

(***************************************************************************)
(* Core 0: js_wait_for_core1 and js_handle_fetch_request.                  *)
(***************************************************************************)

WaitFetch ==
  /\ pc0 = "wait" /\ toC0 # <<>> /\ Head(toC0).tag = "FETCH_REQ"
  /\ toC0' = Tail(toC0) /\ pc0' = "fetch"
  /\ UNCHANGED <<cmd, asyncPending, asyncExpired, armed, core1Vars, toC1, msgVars, romVars, stVars>>

(* Mutant: a fetch request is taken as the reply too.                      *)
WaitReply_AnyWord ==
  /\ pc0 = "wait" /\ toC0 # <<>>
  /\ toC0' = Tail(toC0) /\ pc0' = "respond"
  /\ UNCHANGED <<cmd, asyncPending, asyncExpired, armed, core1Vars, toC1, msgVars, romVars, stVars>>

(* Any other word is taken as the reply to the command.                    *)
WaitReply ==
  /\ pc0 = "wait" /\ toC0 # <<>> /\ Head(toC0).tag # "FETCH_REQ"
  /\ toC0' = Tail(toC0) /\ pc0' = "respond"
  /\ UNCHANGED <<cmd, asyncPending, asyncExpired, armed, core1Vars, toC1, msgVars, romVars, stVars>>

(* Mutant: no deadline.                                                    *)
WaitTimeout_Never == FALSE /\ UNCHANGED vars

(* The deadline is only looked at after 10 ms without a word.  An async    *)
(* call still pending is older than this wait: it has expired as well.     *)
WaitTimeout ==
  /\ pc0 = "wait" /\ toC0 = <<>>
  /\ WriteError(cmd.id, "timeout")
  /\ asyncExpired' = asyncPending /\ pc0' = "unready"
  /\ UNCHANGED <<cmd, asyncPending, armed, core1Vars, fifoVars, stVars>>

TimeoutUnready ==
  /\ pc0 = "unready"
  /\ ready' = FALSE /\ pc0' = "reset"
  /\ UNCHANGED <<cmd, asyncPending, asyncExpired, armed, core1Vars, fifoVars, msgVars,
                 resultMem, status, token, stVars>>

(* Mutant: the FIFOs keep their words across the restart.                  *)
ResetCore1_KeepFifos ==
  /\ pc0 = "reset"
  /\ pc1' = "boot" /\ op1' = NoWord /\ loaded' = FALSE
  /\ lock' = IF lock = "core1" THEN "orphan" ELSE lock
  /\ pc0' = AfterReset
  /\ UNCHANGED <<cmd, asyncPending, asyncExpired, armed, out1, fifoVars, call, resultJson, romVars, stVars>>

(* multicore_reset_core1 and multicore_launch_core1: whatever Core 1 was   *)
(* doing stops, the launch handshake drains both FIFOs, and a spin-lock    *)
(* that Core 1 held stays taken.                                           *)
ResetCore1 ==
  /\ pc0 = "reset"
  /\ pc1' = "boot" /\ op1' = NoWord /\ loaded' = FALSE
  /\ toC0' = <<>> /\ toC1' = <<>>
  /\ lock' = IF lock = "core1" THEN "orphan" ELSE lock
  /\ pc0' = AfterReset
  /\ UNCHANGED <<cmd, asyncPending, asyncExpired, armed, out1, call, resultJson, romVars, stVars>>

(* Copy the URL and clear the answer, under the lock.                      *)
FetchBegin ==
  /\ pc0 = "fetch" /\ lock = "free"
  /\ pc0' = "http"
  /\ UNCHANGED <<cmd, asyncPending, asyncExpired, armed, core1Vars, fifoVars, msgVars, romVars, stVars>>

(* A URL that is not http:// or a host name that is too long.              *)
FetchRefuse ==
  /\ pc0 = "http"
  /\ PushToCore1("FETCH_ERR", 0)
  /\ pc0' = AfterFetch
  /\ UNCHANGED <<cmd, asyncPending, asyncExpired, armed, core1Vars, toC0, msgVars, romVars, stVars>>

(* The HTTP request ended; its outcome is stored under the lock.           *)
FetchEnd ==
  /\ pc0 = "http" /\ lock = "free"
  /\ \E tag \in {"FETCH_OK", "FETCH_ERR"} : PushToCore1(tag, 0)
  /\ pc0' = AfterFetch
  /\ UNCHANGED <<cmd, asyncPending, asyncExpired, armed, core1Vars, toC0, msgVars, romVars, stVars>>

Core0Next ==
  \/ StartupDrop \/ StartupArm \/ StartupRaise
  \/ DrainNothing \/ DrainTimeout \/ DrainFetch \/ DrainReply
  \/ ConsumeNothing \/ ConsumeIgnored \/ Consume
  \/ DispatchBusy \/ DispatchBad \/ DispatchSync \/ DispatchAsync
  \/ DispatchChunk \/ DispatchPoll \/ Respond
  \/ WaitFetch \/ WaitReply \/ WaitTimeout
  \/ TimeoutUnready \/ ResetCore1
  \/ FetchBegin \/ FetchRefuse \/ FetchEnd

(***************************************************************************)
(* Core 1: core1_entry.                                                    *)
(***************************************************************************)

(* A fresh JerryScript context; the phase becomes C1_PHASE_READY.          *)
C1Boot ==
  /\ pc1 = "boot"
  /\ ready' = FALSE /\ pc1' = "up"
  /\ UNCHANGED <<core0Vars, op1, out1, loaded, fifoVars, msgVars, resultMem, status, token, stVars>>

(* Mutants: Core 1 raises the ready byte whatever Core 0 does, or never.   *)
C1Raise_Always ==
  /\ pc1 = "up"
  /\ ready' = TRUE /\ pc1' = "idle"
  /\ UNCHANGED <<core0Vars, op1, out1, loaded, fifoVars, msgVars, resultMem, status, token, stVars>>

C1Raise_Never ==
  /\ pc1 = "up" /\ pc1' = "idle"
  /\ UNCHANGED <<core0Vars, op1, out1, loaded, fifoVars, msgVars, romVars, stVars>>

(* Having set its phase, Core 1 reads the flag Core 0 sets when armed.     *)
C1Raise ==
  /\ pc1 = "up"
  /\ ready' = (ready \/ armed) /\ pc1' = "idle"
  /\ UNCHANGED <<core0Vars, op1, out1, loaded, fifoVars, msgVars, resultMem, status, token, stVars>>

(* The handler a tag selects; an unknown tag is answered with ERROR.       *)
Handler(tag) ==
  CASE tag = "PING"               -> "store"
    [] tag \in {"UPLOAD", "CALL"} -> "copy"
    [] tag = "RESET"              -> "reinit"
    [] OTHER                      -> "push"

C1Pop ==
  /\ pc1 = "idle" /\ toC1 # <<>>
  /\ op1' = Head(toC1) /\ toC1' = Tail(toC1)
  /\ pc1' = Handler(Head(toC1).tag)
  /\ out1' = IF Head(toC1).tag \in WorkTags THEN "ok" ELSE "exception"
  /\ UNCHANGED <<core0Vars, loaded, toC0, msgVars, romVars, stVars>>

(* spin_lock_blocking on Core 1.  A lock that is never free again keeps it *)
(* here for good.                                                          *)
C1Lock ==
  /\ pc1 \in Sections /\ lock = "free"
  /\ lock' = "core1"
  /\ UNCHANGED <<core0Vars, core1Vars, fifoVars, call, resultJson, romVars, stVars>>

(* Leaving a critical section for the position "next".                     *)
C1Unlock(section, next) ==
  /\ pc1 = section /\ lock = "core1"
  /\ lock' = "free" /\ pc1' = next

(* The source length of an UPLOAD, or the parameters of a CALL.  What a    *)
(* CALL runs is what call_func and call_args_json hold now.                *)
C1Copy ==
  /\ C1Unlock("copy", "run")
  /\ op1' = IF op1.tag = "CALL" THEN [op1 EXCEPT !.id = call] ELSE op1
  /\ UNCHANGED <<core0Vars, out1, loaded, fifoVars, call, resultJson, romVars, stVars>>

(* Uploaded code has run.  Code that fails half way has defined some of    *)
(* its functions, or none if it did not parse.                             *)
C1FinishUpload ==
  /\ pc1 = "run" /\ op1.tag = "UPLOAD" /\ pc1' = "store"
  /\ out1' \in {"ok", "exception"}
  /\ loaded' \in IF out1' = "ok" THEN {TRUE} ELSE {loaded, TRUE}
  /\ UNCHANGED <<core0Vars, op1, fifoVars, msgVars, romVars, stVars>>

(* A call has ended with a value or an exception, not found its function,  *)
(* or met arguments or a value that are no JSON.                           *)
C1FinishCall ==
  /\ pc1 = "run" /\ op1.tag = "CALL" /\ pc1' = "store"
  /\ out1' \in {"ok", "exception"}
  /\ UNCHANGED <<core0Vars, op1, loaded, fifoVars, msgVars, romVars, stVars>>

(* The script calls fetch(): fetch_handler writes the URL ...              *)
C1Fetch ==
  /\ pc1 = "run" /\ pc1' = "url"
  /\ UNCHANGED <<core0Vars, op1, out1, loaded, fifoVars, msgVars, romVars, stVars>>

C1Url ==
  /\ C1Unlock("url", "ask")
  /\ UNCHANGED <<core0Vars, op1, out1, loaded, fifoVars, call, resultJson, romVars, stVars>>

(* ... asks Core 0 for the request ...                                     *)
C1Ask ==
  /\ pc1 = "ask" /\ pc1' = "fetching"
  /\ Len(toC0) < FifoDepth
  /\ toC0' = Append(toC0, [tag |-> "FETCH_REQ", id |-> op1.id])
  /\ UNCHANGED <<core0Vars, op1, out1, loaded, toC1, msgVars, romVars, stVars>>

(* ... and takes the next word from Core 0 as the answer, whatever it is.  *)
C1FetchReply ==
  /\ pc1 = "fetching" /\ toC1 # <<>>
  /\ toC1' = Tail(toC1)
  /\ pc1' = IF Head(toC1).tag = "FETCH_OK" THEN "body" ELSE "run"
  /\ UNCHANGED <<core0Vars, op1, out1, loaded, toC0, msgVars, romVars, stVars>>

C1Body ==
  /\ C1Unlock("body", "run")
  /\ UNCHANGED <<core0Vars, op1, out1, loaded, fifoVars, call, resultJson, romVars, stVars>>

(* core1_handle_reset: ready byte down, new context, ready byte up.        *)
C1Reinit ==
  /\ pc1 = "reinit"
  /\ ready' = FALSE /\ loaded' = FALSE /\ pc1' = "reready"
  /\ UNCHANGED <<core0Vars, op1, out1, fifoVars, msgVars, resultMem, status, token, stVars>>

C1Reready ==
  /\ pc1 = "reready"
  /\ ready' = TRUE /\ pc1' = "store"
  /\ UNCHANGED <<core0Vars, op1, out1, loaded, fifoVars, msgVars, resultMem, status, token, stVars>>

(* result_json and result_is_error of js_worker_msg.                       *)
C1Store ==
  /\ C1Unlock("store", "flush")
  /\ resultJson' = [id |-> op1.id, kind |-> out1]
  /\ UNCHANGED <<core0Vars, op1, out1, loaded, fifoVars, call, romVars, stVars>>

(* core1_flush_result publishes what js_worker_msg holds by then.          *)
C1Flush ==
  /\ C1Unlock("flush", "push")
  /\ resultMem' = resultJson
  /\ status' = IF IsError(resultJson.kind) THEN "ERROR" ELSE "DONE"
  /\ UNCHANGED <<core0Vars, op1, out1, loaded, fifoVars, call, resultJson, ready, token, stVars>>

(* The reply.  A CALL reads result_is_error again, after the unlock.       *)
ReplyTag ==
  IF op1.tag = "CALL" THEN (IF IsError(resultJson.kind) THEN "ERROR" ELSE "DONE")
                      ELSE (IF out1 = "exception" THEN "ERROR" ELSE "DONE")

C1Push ==
  /\ pc1 = "push" /\ Len(toC0) < FifoDepth
  /\ toC0' = Append(toC0, [tag |-> ReplyTag, id |-> op1.id])
  /\ pc1' = "idle" /\ op1' = NoWord
  /\ UNCHANGED <<core0Vars, out1, loaded, toC1, msgVars, romVars, stVars>>

(* The steps a script decides on, and those Core 1 takes by itself.        *)
ScriptNext == C1FinishUpload \/ C1FinishCall \/ C1Fetch
Core1Next ==
  \/ C1Boot \/ C1Raise \/ C1Pop \/ C1Lock \/ C1Copy
  \/ C1Url \/ C1Ask \/ C1FetchReply \/ C1Body
  \/ C1Reinit \/ C1Reready \/ C1Store \/ C1Flush \/ C1Push

Next == StNext \/ Core0Next \/ AsyncExpire \/ Core1Next \/ ScriptNext

Spec == Init /\ [][Next]_vars

(* Core 0 keeps looping and Core 1 keeps executing; clocks advance.        *)
(* Nothing is owed by the ST program, nor by a script, which may never end.*)
Fairness == WF_vars(Core0Next) /\ WF_vars(AsyncExpire) /\ WF_vars(Core1Next)
FairSpec == Spec /\ Fairness

(***************************************************************************)
(* Properties.                                                             *)
(***************************************************************************)

(* Work Core 0 has not yet had a terminal reply for.  A script blocked in  *)
(* fetch() is not counted: the word it waits for is.                       *)
Core1Works == pc1 \notin {"boot", "up", "idle", "fetching"}
ServesFetch == pc0 \in {"fetch", "http"}
Outstanding ==
  Len(toC1) + Len(toC0) + (IF Core1Works THEN 1 ELSE 0) + (IF ServesFetch THEN 1 ELSE 0)

(* The replies Core 0 still counts on: one for a pending async call, one   *)
(* for the command it waits for, one that a restart is about to cancel.    *)
Awaits == \/ pc0 \in {"unready", "reset"}
          \/ cmd # NoCmd /\ pc0 \in {"wait", "fetch", "http"}
Expected == (IF asyncPending THEN 1 ELSE 0) + (IF Awaits THEN 1 ELSE 0)

(* A restart during a sync command also cancels the async call's work, but *)
(* s_async_pending survives it until the next js_drain_async_fifo.         *)
Cancelled ==
  /\ Outstanding = 0
  /\ \/ asyncPending /\ asyncExpired /\ pc0 \in {"respond", "loop"}
     \/ pc0 \in {"unready", "reset"} /\ cmd = NoCmd

(* Replies are conserved: every word pushed to Core 1 comes back as exactly *)
(* one reply, even when fetch() swallowed a command or a reply was taken    *)
(* for another command's, and a restart leaves none behind.                 *)
ReplyAccounting == Outstanding = Expected \/ Cancelled

(* When Core 0 counts on no reply, none is on its way: both FIFOs are empty *)
(* and Core 1 sits at its pop.  A stray word would answer the next command. *)
NoStrayReply ==
  ~asyncPending /\ ~Awaits =>
    toC0 = <<>> /\ toC1 = <<>> /\ ~Core1Works /\ pc1 # "fetching"

(* multicore_fifo_push_blocking never blocks a core: two words are the most *)
(* that can be under way.                                                   *)
FifosNeverFill == Len(toC0) + Len(toC1) <= 2

(* A script blocked in fetch() has a request or an answer under way.        *)
FetchNotForgotten ==
  pc1 = "fetching" =>
    \/ toC1 # <<>> \/ ServesFetch
    \/ \E i \in 1 .. Len(toC0) : toC0[i].tag = "FETCH_REQ"

(* The parameters of a CALL stay in js_worker_msg until Core 1 has copied   *)
(* them: call_func belongs to the CALL word under way.                      *)
CallParamsStable ==
  /\ \A i \in 1 .. Len(toC1) : toC1[i].tag = "CALL" => toC1[i].id = call
  /\ op1.tag = "CALL" => op1.id = call

(* With no async call in flight, what the ST finds in the result buffer     *)
(* when its token comes back is the answer to that very command.            *)
OwnAnswer == pc0 = "respond" /\ ~asyncPending => resultMem.id = cmd.id

(* As long as a call is the last command answered, the status leaves BUSY   *)
(* only with that call's result, error or timeout in the buffer.            *)
CallResultIntact ==
  cmd = NoCmd /\ token = call /\ status # "BUSY" => resultMem.id = token

(* The ready byte is never up before commands are dispatched: a command     *)
(* sent before would be dropped and cost the ST its whole timeout.          *)
ReadyMeansArmed == ready => armed

(* Each core sets its own flag before it reads the other's, so one of them  *)
(* raises the ready byte, at power-on and after every restart.              *)
ReadyRaised ==
  /\ pc0 \notin {"startup", "raise", "reset"}
  /\ pc1 \notin {"boot", "up", "reready"}
  => ready

(* With no async call in flight, an answered RESET has cleared the context, *)
(* by the handler or by a restart of Core 1.                                *)
ResetClears == pc0 = "respond" /\ cmd.op = "RESET" /\ ~asyncPending => ~loaded

(* No command is answered twice, or after a later one.                      *)
AnsweredOnce == [][pc0 = "respond" /\ pc0' = "loop" => cmd.id > token]_vars

(* The ST reads the buffer unprotected: with no async call in flight and no *)
(* restart going on, it only changes for the next command.                  *)
ResultStable ==
  [][cmd = NoCmd /\ ~asyncPending /\ ~Awaits => resultMem' = resultMem]_vars

(* Every dispatched command is answered, or a restart has left the          *)
(* spin-lock taken, provided no script calls fetch() for ever.              *)
FetchesEnd == <>[][~C1Ask]_vars
Answered == FetchesEnd => (cmd # NoCmd ~> cmd = NoCmd \/ lock = "orphan")

(* An async call never stays BUSY, with the same two provisos.              *)
AsyncSettles == FetchesEnd => (status = "BUSY" ~> status # "BUSY" \/ lock = "orphan")
=============================================================================
