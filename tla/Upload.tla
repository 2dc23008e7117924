------------------------------- MODULE Upload -------------------------------
(***************************************************************************)
(* mdjs_upload: the ST cuts a source into chunks and sends one command for *)
(* each (mdjs.c); Core 0 puts them together in js_source and has Core 1    *)
(* evaluate it with the last one (js_worker.c).  The commands travel as in *)
(* Handshake: they may be dropped, and the ST may give up on them.  RESET  *)
(* and CALL_ASYNC are here because they meet an upload on the way to       *)
(* Core 1.                                                                 *)
(*                                                                         *)
(* A chunk is a full one, and js_source holds Cap of them.  What is left   *)
(* out: fetch() in a script, the spin-lock (no section is cut in two here) *)
(* and the gate of mdjs_call_async (Core 0 refuses the call instead);      *)
(* MdjsWorker has them.                                                    *)
(***************************************************************************)
EXTENDS Handshake, FiniteSetsExt

CONSTANT Cap   (* JS_SOURCE_MAX in chunks                                  *)

ASSUME CapAssumption == Cap \in Nat \ {0}

VARIABLES
  prog,                     (* the client's call under way                 *)
  pc0, async,               (* Core 0; s_async_pending                     *)
  source, len,              (* js_source, js_source_len                    *)
  received, expected,       (* chunks_received, chunks_expected            *)
  toC1, toC0,               (* words to Core 1; how many come back         *)
  pc1, copyLen, parsed,     (* Core 1; src_len; what jerry_parse has read  *)
  evaluated                 (* the source run last in the context          *)

coreVars   == <<pc0, async>>
msgVars    == <<source, len, received, expected>>
fifoVars   == <<toC1, toC0>>
core1Vars  == <<pc1, copyLen, parsed, evaluated>>
vars == <<handshakeVars, prog, coreVars, msgVars, fifoVars, core1Vars>>

NoCall == [op |-> "none"]
Commands == {[op |-> o] : o \in {"reset", "async"}} \cup
            [op : {"upload"}, u : 1 .. MaxSends, i : 0 .. Cap, t : 1 .. Cap + 1]
Text(u, t) == [k \in 1 .. t |-> [u |-> u, i |-> k - 1]]

Init ==
  /\ HandshakeInit /\ seedMem = Min(Seeds) /\ tokenMem = Max(Seeds)
  /\ prog = NoCall /\ pc0 = "loop" /\ async = "no"
  /\ source = <<>> /\ len = 0 /\ received = 0 /\ expected = 0
  /\ toC1 = <<>> /\ toC0 = 0
  /\ pc1 = "idle" /\ copyLen = 0 /\ parsed = <<>> /\ evaluated = <<>>

(***************************************************************************)
(* The client.  "atRest" notes whether the cartridge had nothing to do     *)
(* when the call began, and stays so while no timeout strikes.             *)
(***************************************************************************)

AtRest == slot = <<>> /\ busy = <<>> /\ async = "no"

Begin(call) ==
  /\ prog = NoCall /\ st = "idle" /\ sent < MaxSends
  /\ prog' = call
  /\ UNCHANGED <<handshakeVars, coreVars, msgVars, fifoVars, core1Vars>>

(* A source of t chunks; an upload is named after its first command.       *)
BeginUpload(t) ==
  Begin([op |-> "upload", u |-> sent + 1, i |-> 0, t |-> t, atRest |-> AtRest])
BeginReset == Begin([op |-> "reset", atRest |-> AtRest])
BeginAsync == Begin([op |-> "async"])

Says(call) ==
  IF call.op = "upload" THEN [op |-> "upload", u |-> call.u, i |-> call.i, t |-> call.t]
                        ELSE [op |-> call.op]

SendCommand ==
  /\ prog # NoCall /\ Send(Says(prog))
  /\ UNCHANGED <<prog, coreVars, msgVars, fifoVars, core1Vars>>

LooksAtToken ==
  SeeToken /\ UNCHANGED <<prog, coreVars, msgVars, fifoVars, core1Vars>>

(* The do-while loop of mdjs_upload goes on to the next chunk.             *)
HasMore == prog.op = "upload" /\ prog.i + 1 < prog.t

LooksAtSeed ==
  /\ SeeSeed
  /\ prog' = IF st' # "idle" THEN prog
             ELSE IF HasMore THEN [prog EXCEPT !.i = @ + 1] ELSE NoCall
  /\ UNCHANGED <<coreVars, msgVars, fifoVars, core1Vars>>

(* An error ends the upload: "if (err != 0) return err".                   *)
GivesUp ==
  /\ GiveUp /\ prog' = NoCall
  /\ UNCHANGED <<coreVars, msgVars, fifoVars, core1Vars>>

ClientStep ==
  \/ \E t \in 1 .. Cap + 1 : BeginUpload(t)
  \/ BeginReset \/ BeginAsync \/ SendCommand \/ LooksAtToken \/ LooksAtSeed \/ GivesUp

(***************************************************************************)
(* Core 0.                                                                 *)
(***************************************************************************)

(* js_drain_async_fifo takes the reply of an async call, or ...            *)
DrainReply ==
  /\ pc0 = "loop" /\ async = "pending" /\ toC0 > 0
  /\ async' = "no" /\ toC0' = toC0 - 1
  /\ UNCHANGED <<handshakeVars, prog, pc0, msgVars, toC1, core1Vars>>

(* Core 1 starts again with a fresh context and empty FIFOs; the message   *)
(* block stays as it is.                                                   *)
RestartCore1 ==
  /\ toC1' = <<>> /\ toC0' = 0
  /\ pc1' = "idle" /\ evaluated' = <<>>
  /\ UNCHANGED <<copyLen, parsed>>

(* ... gives the call up.                                                  *)
DrainTimeout ==
  /\ pc0 = "loop" /\ async # "no"
  /\ async' = "no" /\ RestartCore1
  /\ UNCHANGED <<handshakeVars, prog, pc0, msgVars>>

Consume ==
  /\ pc0 = "loop" /\ async # "expired"
  /\ Take /\ pc0' = "dispatch"
  /\ UNCHANGED <<prog, async, msgVars, fifoVars, core1Vars>>

Cmd == busy[1].body

(* Mutant: the counters go on from the last upload.                        *)
Assembled_KeepCounters(c) == [text |-> source, got |-> received, total |-> expected]

(* Chunk 0 begins a source, whatever there was before.                     *)
Assembled(c) ==
  IF c.i = 0 THEN [text |-> <<>>, got |-> 0, total |-> c.t]
             ELSE [text |-> SubSeq(source, 1, len), got |-> received, total |-> expected]

(* "chunk_size > avail", in chunks.                                        *)
Fits(c) == Len(Assembled(c).text) < Cap

(* The rest of an older, longer source stays behind the new one.           *)
Overwrite(old, new) ==
  new \o SubSeq(old, Len(new) + 1, Len(old))

Store(c) ==
  /\ source' = Overwrite(source, Append(Assembled(c).text, [u |-> c.u, i |-> c.i]))
  /\ len' = Len(Assembled(c).text) + 1
  /\ received' = Assembled(c).got + 1 /\ expected' = Assembled(c).total

(* "source too large": the command is answered all the same.  It is never  *)
(* chunk 0, which fits.                                                    *)
RefuseChunk ==
  /\ pc0 = "dispatch" /\ Cmd.op = "upload" /\ ~Fits(Cmd)
  /\ pc0' = "respond"
  /\ UNCHANGED <<handshakeVars, prog, async, msgVars, fifoVars, core1Vars>>

IsLast(c) == Assembled(c).got + 1 >= Assembled(c).total

(* The last chunk sends Core 1 to evaluate; another one is acknowledged.   *)
StoreChunk ==
  /\ pc0 = "dispatch" /\ Cmd.op = "upload" /\ Fits(Cmd)
  /\ Store(Cmd)
  /\ IF IsLast(Cmd) THEN toC1' = Append(toC1, "UPLOAD") /\ pc0' = "wait"
                    ELSE toC1' = toC1 /\ pc0' = "respond"
  /\ UNCHANGED <<handshakeVars, prog, async, toC0, core1Vars>>

DispatchReset ==
  /\ pc0 = "dispatch" /\ Cmd.op = "reset"
  /\ toC1' = Append(toC1, "RESET") /\ pc0' = "wait"
  /\ UNCHANGED <<handshakeVars, prog, async, msgVars, toC0, core1Vars>>

(* A call is answered before it has run, or refused as busy.               *)
DispatchAsync ==
  /\ pc0 = "dispatch" /\ Cmd.op = "async" /\ pc0' = "respond"
  /\ IF async = "no" THEN async' = "pending" /\ toC1' = Append(toC1, "CALL")
                     ELSE UNCHANGED <<async, toC1>>
  /\ UNCHANGED <<handshakeVars, prog, msgVars, toC0, core1Vars>>

(* js_wait_for_core1 takes the next word, whatever it answers.             *)
WaitReply ==
  /\ pc0 = "wait" /\ toC0 > 0
  /\ toC0' = toC0 - 1 /\ pc0' = "respond"
  /\ UNCHANGED <<handshakeVars, prog, async, msgVars, toC1, core1Vars>>

(* An async call under way is older, and has expired as well.              *)
WaitTimeout ==
  /\ pc0 = "wait" /\ toC0 = 0
  /\ RestartCore1 /\ pc0' = "respond"
  /\ async' = IF async = "no" THEN "no" ELSE "expired"
  /\ prog' = IF prog.op \in {"upload", "reset"} THEN [prog EXCEPT !.atRest = FALSE] ELSE prog
  /\ UNCHANGED <<handshakeVars, msgVars>>

(* The first seed not in use: repeated ones are the business of Handshake. *)
NewSeed == Min(Seeds \ (InUse \cup {seedMem}))

Respond ==
  /\ pc0 = "respond"
  /\ \/ AnswerToken /\ pc0' = pc0
     \/ AnswerSeed /\ pc0' = "loop" /\ seedMem' = NewSeed
  /\ UNCHANGED <<prog, async, msgVars, fifoVars, core1Vars>>

Core0Step ==
  \/ DrainReply \/ DrainTimeout \/ Consume
  \/ RefuseChunk \/ StoreChunk \/ DispatchReset \/ DispatchAsync
  \/ WaitReply \/ WaitTimeout \/ Respond

(***************************************************************************)
(* Core 1.                                                                 *)
(***************************************************************************)

C1Pop ==
  /\ pc1 = "idle" /\ toC1 # <<>>
  /\ toC1' = Tail(toC1)
  /\ pc1' = CASE Head(toC1) = "UPLOAD" -> "copy" [] Head(toC1) = "RESET" -> "reset"
              [] Head(toC1) = "CALL" -> "reply"
  /\ UNCHANGED <<handshakeVars, prog, coreVars, msgVars, toC0, copyLen, parsed, evaluated>>

(* Under the lock: the length of the source, and no more than that.        *)
C1Copy ==
  /\ pc1 = "copy" /\ pc1' = "parse"
  /\ copyLen' = len /\ parsed' = <<>>
  /\ UNCHANGED <<handshakeVars, prog, coreVars, msgVars, fifoVars, evaluated>>

(* jerry_parse reads js_source from front to back, without the lock.       *)
C1Parse ==
  /\ pc1 = "parse" /\ Len(parsed) < copyLen
  /\ parsed' = Append(parsed, source[Len(parsed) + 1])
  /\ UNCHANGED <<handshakeVars, prog, coreVars, msgVars, fifoVars, pc1, copyLen, evaluated>>

(* jerry_run.  A text that does not parse, or throws, counts as evaluated. *)
C1Run ==
  /\ pc1 = "parse" /\ Len(parsed) = copyLen
  /\ evaluated' = parsed /\ pc1' = "reply"
  /\ UNCHANGED <<handshakeVars, prog, coreVars, msgVars, fifoVars, copyLen, parsed>>

(* Mutant: chunks_received is forgotten.                                   *)
C1Reset_KeepReceived ==
  /\ pc1 = "reset" /\ pc1' = "reply" /\ evaluated' = <<>>
  /\ len' = 0 /\ expected' = 0
  /\ UNCHANGED <<handshakeVars, prog, coreVars, source, received, fifoVars, copyLen, parsed>>

(* Mutant: the context is fresh, the counters are not.                     *)
C1Reset_KeepCounters ==
  /\ pc1 = "reset" /\ pc1' = "reply" /\ evaluated' = <<>>
  /\ UNCHANGED <<handshakeVars, prog, coreVars, msgVars, fifoVars, copyLen, parsed>>

C1Reset ==
  /\ pc1 = "reset" /\ pc1' = "reply" /\ evaluated' = <<>>
  /\ len' = 0 /\ received' = 0 /\ expected' = 0
  /\ UNCHANGED <<handshakeVars, prog, coreVars, source, fifoVars, copyLen, parsed>>

C1Reply ==
  /\ pc1 = "reply" /\ pc1' = "idle" /\ toC0' = toC0 + 1
  /\ UNCHANGED <<handshakeVars, prog, coreVars, msgVars, toC1, copyLen, parsed, evaluated>>

Core1Step == C1Pop \/ C1Copy \/ C1Parse \/ C1Run \/ C1Reset \/ C1Reply

Next == ClientStep \/ Core0Step \/ Core1Step
Spec == Init /\ [][Next]_vars

(***************************************************************************)
(* Properties.                                                             *)
(***************************************************************************)

(* This step ends the call under way with 0.                               *)
Returns0(op) == prog.op = op /\ LooksAtSeed /\ prog' = NoCall

(* An upload that begins with the cartridge at rest and returns 0 has been *)
(* evaluated, whole and in order, whatever was lost, mixed up or given up  *)
(* before it: chunk 0 starts afresh.  Sources that do not fit and uploads  *)
(* that time out are the exceptions.                                       *)
UploadedIsEvaluated ==
  [][Returns0("upload") /\ prog.atRest /\ prog.t <= Cap =>
       evaluated = Text(prog.u, prog.t)]_vars

(* Likewise a RESET leaves neither code nor half an upload behind.         *)
ResetForgets ==
  [][Returns0("reset") /\ prog.atRest =>
       evaluated = <<>> /\ len = 0 /\ received = 0 /\ expected = 0]_vars

(* Chunks never run past js_source, and the length counts what was stored, *)
(* also when chunks of several uploads or a RESET come in between.         *)
SourceFits == len <= Cap /\ len = received /\ len <= Len(source)
=============================================================================
