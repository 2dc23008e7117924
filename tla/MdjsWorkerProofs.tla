-------------------------- MODULE MdjsWorkerProofs --------------------------
(***************************************************************************)
(* Theorems about MdjsWorker, for any number of commands, any FIFO depth   *)
(* of at least two words and any set of commands the ST uses, and about    *)
(* EditorRun, the editor as such an ST program.                            *)
(***************************************************************************)
EXTENDS EditorRun, TLAPS

(* Where Core 0 is tells whether it has a command in hand and what it knows *)
(* of the async call.  A restart that is not for the async call leaves it   *)
(* pending only when it has expired as well.                                *)
Core0Inv ==
  /\ pc0 \in {"dispatch", "wait", "respond"} => cmd # NoCmd
  /\ pc0 \in {"startup", "raise", "loop", "consume"} => cmd = NoCmd
  /\ pc0 \in {"startup", "raise"} => ~asyncPending
  /\ pc0 \in {"unready", "reset"} =>
       /\ cmd = NoCmd => ~asyncPending
       /\ asyncPending => asyncExpired
  /\ asyncExpired => asyncPending
  /\ pc0 # "startup" => armed

(* Core 1 serves a word unless it waits at its pop or boots.                *)
Core1Inv ==
  /\ pc1 \in {"boot", "up", "idle"} <=> op1 = NoWord
  /\ pc1 \in {"copy", "run", "url", "ask", "fetching", "body"} => op1.tag \in {"UPLOAD", "CALL"}
  /\ pc1 \in {"reinit", "reready"} => op1.tag = "RESET"

(* Commands are answered in the order the ST sent them.                     *)
OrderInv ==
  /\ slot # NoCmd => slot.id > token /\ slot.id <= sent
  /\ cmd # NoCmd => cmd.id > token /\ cmd.id <= sent
  /\ cmd # NoCmd /\ slot # NoCmd => slot.id > cmd.id
  /\ token <= sent

(* While Core 0 waits for the answer to a command and no async call is in   *)
(* flight, everything under way between the cores serves that command.      *)
Served == [tag |-> cmd.op, id |-> cmd.id]
IsServed == resultMem.id = cmd.id /\ (cmd.op = "RESET" => ~loaded)

SyncServed ==
  /\ cmd.op \in SyncOps /\ op1 \in {NoWord, Served}
  /\ \A i \in 1 .. Len(toC1) :
       IF pc1 = "fetching" THEN toC1[i].tag \notin WorkTags ELSE toC1[i] = Served
  /\ \A i \in 1 .. Len(toC0) :
       IF toC0[i].tag = "FETCH_REQ" THEN pc1 = "fetching" ELSE pc1 # "fetching" /\ IsServed
  /\ ServesFetch => pc1 = "fetching"
  /\ pc1 \in {"reready", "store", "flush", "push"} /\ cmd.op = "RESET" => ~loaded
  /\ pc1 = "flush" => resultJson.id = cmd.id
  /\ pc1 = "push" => IsServed

AnswerInv ==
  cmd # NoCmd /\ ~asyncPending =>
    /\ pc0 \in {"wait", "fetch", "http"} => SyncServed
    /\ pc0 \in {"unready", "reset"} =>
         /\ op1 # NoWord => op1.id = cmd.id
         /\ \A i \in 1 .. Len(toC1) : pc1 # "fetching" => toC1[i].id = cmd.id
         /\ resultJson.id = cmd.id /\ resultMem.id = cmd.id
    /\ pc0 = "respond" => IsServed

WorkerInv ==
  /\ TypeOK /\ Core0Inv /\ Core1Inv /\ OrderInv /\ AnswerInv
  /\ ReplyAccounting /\ FetchNotForgotten /\ CallParamsStable

(***************************************************************************)
(* Type correctness.                                                       *)
(***************************************************************************)

(* A step that leaves a component alone keeps its types.                    *)
LEMMA UnchangedTypes ==
  ASSUME TypeOK
  PROVE  /\ UNCHANGED core0Vars => TypeOK0'
         /\ UNCHANGED core1Vars => TypeOK1'
         /\ UNCHANGED fifoVars => TypeOKFifo'
         /\ UNCHANGED msgVars => TypeOKMsg'
         /\ UNCHANGED romVars => TypeOKRom'
         /\ UNCHANGED stVars => TypeOKSt'
BY DEF TypeOK, TypeOK0, TypeOK1, TypeOKFifo, TypeOKMsg, TypeOKRom, TypeOKSt,
       core0Vars, core1Vars, fifoVars, msgVars, romVars, stVars

LEMMA InitType == Init => TypeOK
<1> SUFFICES ASSUME Init PROVE TypeOK
  OBVIOUS
<1> USE DEF Init
<1>1. 0 \in Ids
  BY MaxCmdsAssumption DEF Ids
<1>2. TypeOKMsg /\ TypeOKRom
  BY <1>1 DEF TypeOKMsg, TypeOKRom, Result, Kinds
<1>3. TypeOK0 /\ TypeOK1
  BY DEF TypeOK0, TypeOK1, Pc0, Pc1
<1>4. TypeOKFifo /\ TypeOKSt
  BY <1>1 DEF TypeOKFifo, TypeOKSt
<1> QED
  BY <1>2, <1>3, <1>4 DEF TypeOK

(* The identifiers of whatever is in hand, and the words that are pushed    *)
(* and popped.                                                              *)
LEMMA IdTypes ==
  ASSUME TypeOK
  PROVE  cmd.id \in Ids /\ op1.id \in Ids /\ 0 \in Ids
<1>1. 0 \in Ids
  BY MaxCmdsAssumption DEF Ids
<1>2. cmd.id \in Ids
  BY <1>1 DEF TypeOK, TypeOK0, Command, NoCmd
<1>3. op1.id \in Ids
  BY <1>1 DEF TypeOK, TypeOK1, Word, NoWord
<1> QED
  BY <1>1, <1>2, <1>3

LEMMA PushType ==
  ASSUME TypeOK, NEW tag \in Tags, NEW id \in Ids, PushToCore1(tag, id)
  PROVE  toC1' \in Seq(Word)
<1>1. [tag |-> tag, id |-> id] \in Word
  BY DEF Word
<1> QED
  BY <1>1 DEF TypeOK, TypeOKFifo, PushToCore1

LEMMA PopType ==
  ASSUME NEW s \in Seq(Word), s # <<>>
  PROVE  Head(s) \in Word /\ Tail(s) \in Seq(Word)
OBVIOUS

LEMMA ErrorType ==
  ASSUME TypeOK, NEW kind \in Kinds, NEW id \in Ids, WriteError(id, kind)
  PROVE  TypeOKMsg' /\ TypeOKRom'
BY DEF TypeOK, TypeOKMsg, TypeOKRom, WriteError, Result

LEMMA StType == TypeOK /\ StNext => TypeOK'
<1> SUFFICES ASSUME TypeOK, StNext PROVE TypeOK'
  OBVIOUS
<1>1. CASE StopWaiting
  <2>1. TypeOKSt'
    BY <1>1 DEF StopWaiting, TypeOK, TypeOKSt
  <2> QED
    BY <1>1, <2>1, UnchangedTypes DEF StopWaiting, TypeOK
<1>2. ASSUME NEW op \in Ops, Submit(op) PROVE TypeOK'
  <2>1. sent' \in Ids
    BY <1>2, MaxCmdsAssumption DEF Submit, TypeOK, TypeOKSt, Ids
  <2>2. slot' \in Command \cup {NoCmd}
    BY <1>2, <2>1, OpsAssumption DEF Submit, TypeOK, TypeOKSt, Command
  <2>3. TypeOKSt'
    BY <1>2, <2>1, <2>2 DEF Submit, TypeOKSt
  <2> QED
    BY <1>2, <2>3, UnchangedTypes DEF Submit, TypeOK
<1> QED
  BY <1>1, <1>2 DEF StNext

LEMMA StartupType ==
  ASSUME TypeOK,
         StartupDrop \/ StartupArm \/ StartupRaise
  PROVE  TypeOK'
<1>1. CASE StartupDrop
  <2>1. TypeOKSt'
    BY <1>1 DEF StartupDrop, TypeOK, TypeOKSt
  <2> QED
    BY <1>1, <2>1, UnchangedTypes DEF StartupDrop, TypeOK
<1>2. CASE StartupArm
  <2>1. TypeOK0'
    BY <1>2 DEF StartupArm, TypeOK, TypeOK0, Pc0
  <2> QED
    BY <1>2, <2>1, UnchangedTypes DEF StartupArm, TypeOK
<1>3. CASE StartupRaise
  <2>1. TypeOK0'
    BY <1>3 DEF StartupRaise, TypeOK, TypeOK0, Pc0
  <2>2. ready' \in BOOLEAN
    BY <1>3, Zenon DEF StartupRaise, TypeOK
  <2>3. TypeOKRom'
    BY <1>3, <2>2 DEF StartupRaise, TypeOK, TypeOKRom
  <2> QED
    BY <1>3, <2>1, <2>2, <2>3, UnchangedTypes DEF StartupRaise, TypeOK
<1> QED
  BY <1>1, <1>2, <1>3

LEMMA DrainType ==
  ASSUME TypeOK,
         AsyncExpire \/ DrainNothing \/ DrainTimeout \/ DrainFetch \/
         DrainReply
  PROVE  TypeOK'
<1>1. CASE AsyncExpire
  <2>1. TypeOK0'
    BY <1>1 DEF AsyncExpire, TypeOK, TypeOK0, Pc0
  <2> QED
    BY <1>1, <2>1, UnchangedTypes DEF AsyncExpire, TypeOK
<1>2. CASE DrainNothing
  <2>1. TypeOK0'
    BY <1>2 DEF DrainNothing, TypeOK, TypeOK0, Pc0
  <2> QED
    BY <1>2, <2>1, UnchangedTypes DEF DrainNothing, TypeOK
<1>3. CASE DrainTimeout
  <2>1. TypeOK0'
    BY <1>3 DEF DrainTimeout, TypeOK, TypeOK0, Pc0
  <2>2. TypeOKMsg' /\ TypeOKRom'
    BY <1>3, ErrorType DEF DrainTimeout, Kinds, TypeOK, TypeOKMsg
  <2> QED
    BY <1>3, <2>1, <2>2, UnchangedTypes DEF DrainTimeout, TypeOK
<1>4. CASE DrainFetch
  <2>1. TypeOK0'
    BY <1>4 DEF DrainFetch, TypeOK, TypeOK0, Pc0
  <2>2. TypeOKFifo'
    BY <1>4, PopType DEF DrainFetch, TypeOK, TypeOKFifo, fifoVars
  <2> QED
    BY <1>4, <2>1, <2>2, UnchangedTypes DEF DrainFetch, TypeOK
<1>5. CASE DrainReply
  <2>1. TypeOK0'
    BY <1>5 DEF DrainReply, TypeOK, TypeOK0, Pc0
  <2>2. TypeOKFifo'
    BY <1>5, PopType DEF DrainReply, TypeOK, TypeOKFifo, fifoVars
  <2> QED
    BY <1>5, <2>1, <2>2, UnchangedTypes DEF DrainReply, TypeOK
<1> QED
  BY <1>1, <1>2, <1>3, <1>4, <1>5

LEMMA ConsumeType ==
  ASSUME TypeOK,
         ConsumeNothing \/ ConsumeIgnored \/ Consume \/ Respond
  PROVE  TypeOK'
<1>1. CASE ConsumeNothing
  <2>1. TypeOK0'
    BY <1>1 DEF ConsumeNothing, TypeOK, TypeOK0, Pc0
  <2> QED
    BY <1>1, <2>1, UnchangedTypes DEF ConsumeNothing, TypeOK
<1>2. CASE ConsumeIgnored
  <2>1. TypeOK0'
    BY <1>2 DEF ConsumeIgnored, TypeOK, TypeOK0, Pc0
  <2>2. TypeOKSt'
    BY <1>2 DEF ConsumeIgnored, TypeOK, TypeOKSt
  <2> QED
    BY <1>2, <2>1, <2>2, UnchangedTypes DEF ConsumeIgnored, TypeOK
<1>3. CASE Consume
  <2>1. TypeOK0'
    BY <1>3 DEF Consume, TypeOK, TypeOK0, Pc0, TypeOKSt
  <2>2. TypeOKSt'
    BY <1>3 DEF Consume, TypeOK, TypeOKSt
  <2> QED
    BY <1>3, <2>1, <2>2, UnchangedTypes DEF Consume, TypeOK
<1>4. CASE Respond
  <2>1. TypeOK0'
    BY <1>4 DEF Respond, TypeOK, TypeOK0, Pc0
  <2>2. TypeOKRom'
    BY <1>4, IdTypes DEF Respond, TypeOK, TypeOKRom
  <2> QED
    BY <1>4, <2>1, <2>2, UnchangedTypes DEF Respond, TypeOK
<1> QED
  BY <1>1, <1>2, <1>3, <1>4

(* Whatever the command, Core 0 pushes it and waits.  Only a CALL changes   *)
(* the parameters, and it is not dispatched while an async call is pending. *)
LEMMA SyncPush ==
  ASSUME DispatchSync
  PROVE  /\ pc0 = "dispatch" /\ pc0' = "wait"
         /\ cmd.op \in SyncOps
         /\ PushToCore1(cmd.op, cmd.id)
         /\ UNCHANGED <<cmd, asyncPending, asyncExpired, armed, core1Vars, toC0,
                        lock, resultJson, romVars, stVars>>
         /\ \/ cmd.op = "CALL" /\ ~asyncPending /\ call' = cmd.id
            \/ cmd.op # "CALL" /\ call' = call
<1>1. CASE DispatchPing
  BY <1>1 DEF DispatchPing, HandToCore1, SyncOps
<1>2. CASE DispatchUpload
  BY <1>2 DEF DispatchUpload, HandToCore1, SyncOps
<1>3. CASE DispatchCall
  BY <1>3 DEF DispatchCall, HandToCore1, SyncOps
<1>4. CASE DispatchReset
  BY <1>4 DEF DispatchReset, HandToCore1, SyncOps
<1> QED
  BY <1>1, <1>2, <1>3, <1>4 DEF DispatchSync

LEMMA DispatchType ==
  ASSUME TypeOK,
         DispatchBusy \/ DispatchBad \/ DispatchSync \/ DispatchAsync \/
         DispatchChunk \/ DispatchPoll
  PROVE  TypeOK'
<1>1. CASE DispatchBusy
  <2>1. TypeOK0'
    BY <1>1 DEF DispatchBusy, TypeOK, TypeOK0, Pc0
  <2>2. TypeOKMsg' /\ TypeOKRom'
    BY <1>1, ErrorType, IdTypes DEF DispatchBusy, Kinds
  <2> QED
    BY <1>1, <2>1, <2>2, UnchangedTypes DEF DispatchBusy, TypeOK
<1>2. CASE DispatchBad
  <2>1. TypeOK0'
    BY <1>2 DEF DispatchBad, TypeOK, TypeOK0, Pc0
  <2>2. TypeOKMsg' /\ TypeOKRom'
    BY <1>2, ErrorType, IdTypes DEF DispatchBad, Kinds
  <2> QED
    BY <1>2, <2>1, <2>2, UnchangedTypes DEF DispatchBad, TypeOK
<1>3. CASE DispatchSync
  <2>1. TypeOK0'
    BY <1>3, SyncPush DEF TypeOK, TypeOK0, Pc0
  <2>2. cmd.op \in Tags
    BY <1>3, SyncPush DEF Tags, WorkTags
  <2>3. cmd.id \in Ids
    BY <1>3, SyncPush, IdTypes
  <2>4. TypeOKFifo'
    BY <1>3, <2>2, <2>3, SyncPush, PushType DEF TypeOK, TypeOKFifo
  <2>5. TypeOKMsg'
    BY <1>3, <2>3, SyncPush DEF TypeOK, TypeOKMsg
  <2> QED
    BY <1>3, <2>1, <2>4, <2>5, SyncPush, UnchangedTypes DEF TypeOK
<1>4. CASE DispatchAsync
  <2>1. TypeOK0'
    BY <1>4 DEF DispatchAsync, TypeOK, TypeOK0, Pc0
  <2>2. TypeOKFifo'
    BY <1>4, PushType, IdTypes DEF DispatchAsync, TypeOK, TypeOKFifo, Tags, WorkTags, SyncOps
  <2>3. TypeOKMsg'
    BY <1>4, IdTypes DEF DispatchAsync, TypeOK, TypeOKMsg
  <2>4. TypeOKRom'
    BY <1>4 DEF DispatchAsync, TypeOK, TypeOKRom
  <2> QED
    BY <1>4, <2>1, <2>2, <2>3, <2>4, UnchangedTypes DEF DispatchAsync, TypeOK
<1>5. CASE DispatchChunk
  <2>1. TypeOK0'
    BY <1>5 DEF DispatchChunk, TypeOK, TypeOK0, Pc0
  <2>2. TypeOKRom'
    BY <1>5, IdTypes DEF DispatchChunk, TypeOK, TypeOKRom, Result, Kinds
  <2> QED
    BY <1>5, <2>1, <2>2, UnchangedTypes DEF DispatchChunk, TypeOK
<1>6. CASE DispatchPoll
  <2>1. TypeOK0'
    BY <1>6 DEF DispatchPoll, TypeOK, TypeOK0, Pc0
  <2>2. TypeOKRom'
    BY <1>6, IdTypes DEF DispatchPoll, TypeOK, TypeOKRom, Result, Kinds
  <2> QED
    BY <1>6, <2>1, <2>2, UnchangedTypes DEF DispatchPoll, TypeOK
<1> QED
  BY <1>1, <1>2, <1>3, <1>4, <1>5, <1>6

LEMMA WaitType ==
  ASSUME TypeOK,
         WaitFetch \/ WaitReply \/ WaitTimeout \/ TimeoutUnready \/
         ResetCore1
  PROVE  TypeOK'
<1>1. CASE WaitFetch
  <2>1. TypeOK0'
    BY <1>1 DEF WaitFetch, TypeOK, TypeOK0, Pc0
  <2>2. TypeOKFifo'
    BY <1>1, PopType DEF WaitFetch, TypeOK, TypeOKFifo
  <2> QED
    BY <1>1, <2>1, <2>2, UnchangedTypes DEF WaitFetch, TypeOK
<1>2. CASE WaitReply
  <2>1. TypeOK0'
    BY <1>2 DEF WaitReply, TypeOK, TypeOK0, Pc0
  <2>2. TypeOKFifo'
    BY <1>2, PopType DEF WaitReply, TypeOK, TypeOKFifo
  <2> QED
    BY <1>2, <2>1, <2>2, UnchangedTypes DEF WaitReply, TypeOK
<1>3. CASE WaitTimeout
  <2>1. TypeOK0'
    BY <1>3 DEF WaitTimeout, TypeOK, TypeOK0, Pc0
  <2>2. TypeOKMsg' /\ TypeOKRom'
    BY <1>3, ErrorType, IdTypes DEF WaitTimeout, Kinds
  <2> QED
    BY <1>3, <2>1, <2>2, UnchangedTypes DEF WaitTimeout, TypeOK
<1>4. CASE TimeoutUnready
  <2>1. TypeOK0'
    BY <1>4 DEF TimeoutUnready, TypeOK, TypeOK0, Pc0
  <2>2. TypeOKRom'
    BY <1>4 DEF TimeoutUnready, TypeOK, TypeOKRom
  <2> QED
    BY <1>4, <2>1, <2>2, UnchangedTypes DEF TimeoutUnready, TypeOK
<1>5. CASE ResetCore1
  <2>1. TypeOK0'
    BY <1>5 DEF ResetCore1, TypeOK, TypeOK0, Pc0, AfterReset
  <2>2. TypeOK1'
    BY <1>5 DEF ResetCore1, TypeOK, TypeOK1, Pc1
  <2>3. TypeOKFifo'
    BY <1>5 DEF ResetCore1, TypeOK, TypeOKFifo
  <2>4. TypeOKMsg'
    BY <1>5 DEF ResetCore1, TypeOK, TypeOKMsg
  <2> QED
    BY <1>5, <2>1, <2>2, <2>3, <2>4, UnchangedTypes DEF ResetCore1, TypeOK
<1> QED
  BY <1>1, <1>2, <1>3, <1>4, <1>5

LEMMA FetchType ==
  ASSUME TypeOK,
         FetchBegin \/ FetchRefuse \/ FetchEnd
  PROVE  TypeOK'
<1>1. CASE FetchBegin
  <2>1. TypeOK0'
    BY <1>1 DEF FetchBegin, TypeOK, TypeOK0, Pc0
  <2> QED
    BY <1>1, <2>1, UnchangedTypes DEF FetchBegin, TypeOK
<1>2. CASE FetchRefuse
  <2>1. TypeOK0'
    BY <1>2 DEF FetchRefuse, TypeOK, TypeOK0, Pc0, AfterFetch
  <2>2. TypeOKFifo'
    BY <1>2, PushType, IdTypes DEF FetchRefuse, TypeOK, TypeOKFifo, Tags
  <2> QED
    BY <1>2, <2>1, <2>2, UnchangedTypes DEF FetchRefuse, TypeOK
<1>3. CASE FetchEnd
  <2>1. TypeOK0'
    BY <1>3 DEF FetchEnd, TypeOK, TypeOK0, Pc0, AfterFetch
  <2>2. TypeOKFifo'
    BY <1>3, PushType, IdTypes DEF FetchEnd, TypeOK, TypeOKFifo, Tags
  <2> QED
    BY <1>3, <2>1, <2>2, UnchangedTypes DEF FetchEnd, TypeOK
<1> QED
  BY <1>1, <1>2, <1>3

LEMMA BootType ==
  ASSUME TypeOK,
         C1Boot \/ C1Raise \/ C1Reinit \/ C1Reready
  PROVE  TypeOK'
<1>1. CASE C1Boot
  <2>1. TypeOK1'
    BY <1>1 DEF C1Boot, TypeOK, TypeOK1, Pc1
  <2>2. TypeOKRom'
    BY <1>1 DEF C1Boot, TypeOK, TypeOKRom
  <2> QED
    BY <1>1, <2>1, <2>2, UnchangedTypes DEF C1Boot, TypeOK
<1>2. CASE C1Raise
  <2>1. TypeOK1'
    BY <1>2 DEF C1Raise, TypeOK, TypeOK1, Pc1
  <2>2. ready' \in BOOLEAN
    BY <1>2, Zenon DEF C1Raise, TypeOK
  <2>3. TypeOKRom'
    BY <1>2, <2>2 DEF C1Raise, TypeOK, TypeOKRom
  <2> QED
    BY <1>2, <2>1, <2>2, <2>3, UnchangedTypes DEF C1Raise, TypeOK
<1>3. CASE C1Reinit
  <2>1. TypeOK1'
    BY <1>3 DEF C1Reinit, TypeOK, TypeOK1, Pc1
  <2>2. TypeOKRom'
    BY <1>3 DEF C1Reinit, TypeOK, TypeOKRom
  <2> QED
    BY <1>3, <2>1, <2>2, UnchangedTypes DEF C1Reinit, TypeOK
<1>4. CASE C1Reready
  <2>1. TypeOK1'
    BY <1>4 DEF C1Reready, TypeOK, TypeOK1, Pc1
  <2>2. TypeOKRom'
    BY <1>4 DEF C1Reready, TypeOK, TypeOKRom
  <2> QED
    BY <1>4, <2>1, <2>2, UnchangedTypes DEF C1Reready, TypeOK
<1> QED
  BY <1>1, <1>2, <1>3, <1>4

LEMMA PopStepType ==
  ASSUME TypeOK,
         C1Pop \/ C1FetchReply
  PROVE  TypeOK'
<1>1. CASE C1Pop
  <2>1. TypeOK1'
    BY <1>1, PopType DEF C1Pop, TypeOK, TypeOK1, Pc1, TypeOKFifo, Handler
  <2>2. TypeOKFifo'
    BY <1>1, PopType DEF C1Pop, TypeOK, TypeOKFifo
  <2> QED
    BY <1>1, <2>1, <2>2, UnchangedTypes DEF C1Pop, TypeOK
<1>2. CASE C1FetchReply
  <2>1. TypeOK1'
    BY <1>2 DEF C1FetchReply, TypeOK, TypeOK1, Pc1
  <2>2. TypeOKFifo'
    BY <1>2, PopType DEF C1FetchReply, TypeOK, TypeOKFifo
  <2> QED
    BY <1>2, <2>1, <2>2, UnchangedTypes DEF C1FetchReply, TypeOK
<1> QED
  BY <1>1, <1>2

LEMMA SectionType ==
  ASSUME TypeOK,
         C1Lock \/ C1Copy \/ C1Url \/ C1Body \/ C1Store \/ C1Flush
  PROVE  TypeOK'
<1>1. CASE C1Lock
  <2>1. TypeOKMsg'
    BY <1>1 DEF C1Lock, TypeOK, TypeOKMsg
  <2> QED
    BY <1>1, <2>1, UnchangedTypes DEF C1Lock, TypeOK
<1>2. CASE C1Copy
  <2>1. TypeOK1'
    <3>1. op1' \in Word \cup {NoWord}
      BY <1>2 DEF C1Copy, TypeOK, TypeOK1, TypeOKMsg, Word, NoWord
    <3> QED
      BY <1>2, <3>1 DEF C1Copy, TypeOK, TypeOK1, Pc1, C1Unlock
  <2>2. TypeOKMsg'
    BY <1>2 DEF C1Copy, TypeOK, TypeOKMsg, C1Unlock
  <2> QED
    BY <1>2, <2>1, <2>2, UnchangedTypes DEF C1Copy, TypeOK
<1>3. CASE C1Url
  <2>1. TypeOK1'
    BY <1>3 DEF C1Url, TypeOK, TypeOK1, Pc1, C1Unlock
  <2>2. TypeOKMsg'
    BY <1>3 DEF C1Url, TypeOK, TypeOKMsg, C1Unlock
  <2> QED
    BY <1>3, <2>1, <2>2, UnchangedTypes DEF C1Url, TypeOK
<1>4. CASE C1Body
  <2>1. TypeOK1'
    BY <1>4 DEF C1Body, TypeOK, TypeOK1, Pc1, C1Unlock
  <2>2. TypeOKMsg'
    BY <1>4 DEF C1Body, TypeOK, TypeOKMsg, C1Unlock
  <2> QED
    BY <1>4, <2>1, <2>2, UnchangedTypes DEF C1Body, TypeOK
<1>5. CASE C1Store
  <2>1. TypeOK1'
    BY <1>5 DEF C1Store, TypeOK, TypeOK1, Pc1, C1Unlock
  <2>2. TypeOKMsg'
    BY <1>5, IdTypes DEF C1Store, TypeOK, TypeOKMsg, C1Unlock, TypeOK1, Result, Kinds
  <2> QED
    BY <1>5, <2>1, <2>2, UnchangedTypes DEF C1Store, TypeOK
<1>6. CASE C1Flush
  <2>1. TypeOK1'
    BY <1>6 DEF C1Flush, TypeOK, TypeOK1, Pc1, C1Unlock
  <2>2. TypeOKMsg'
    BY <1>6 DEF C1Flush, TypeOK, TypeOKMsg, C1Unlock
  <2>3. TypeOKRom'
    BY <1>6 DEF C1Flush, TypeOK, TypeOKRom, TypeOKMsg
  <2> QED
    BY <1>6, <2>1, <2>2, <2>3, UnchangedTypes DEF C1Flush, TypeOK
<1> QED
  BY <1>1, <1>2, <1>3, <1>4, <1>5, <1>6

LEMMA ScriptType ==
  ASSUME TypeOK,
         C1FinishUpload \/ C1FinishCall \/ C1Fetch
  PROVE  TypeOK'
<1>1. CASE C1FinishUpload
  <2>1. out1' \in {"ok", "exception"} /\ loaded' \in BOOLEAN
    BY <1>1 DEF C1FinishUpload, TypeOK, TypeOK1
  <2>2. TypeOK1'
    BY <1>1, <2>1 DEF C1FinishUpload, TypeOK, TypeOK1, Pc1
  <2> QED
    BY <1>1, <2>2, UnchangedTypes DEF C1FinishUpload, TypeOK
<1>2. CASE C1FinishCall
  <2>1. TypeOK1'
    BY <1>2 DEF C1FinishCall, TypeOK, TypeOK1, Pc1
  <2> QED
    BY <1>2, <2>1, UnchangedTypes DEF C1FinishCall, TypeOK
<1>3. CASE C1Fetch
  <2>1. TypeOK1'
    BY <1>3 DEF C1Fetch, TypeOK, TypeOK1, Pc1
  <2> QED
    BY <1>3, <2>1, UnchangedTypes DEF C1Fetch, TypeOK
<1> QED
  BY <1>1, <1>2, <1>3

LEMMA ReplyType ==
  ASSUME TypeOK,
         C1Ask \/ C1Push
  PROVE  TypeOK'
<1>1. CASE C1Ask
  <2>1. TypeOK1'
    BY <1>1 DEF C1Ask, TypeOK, TypeOK1, Pc1
  <2>2. [tag |-> "FETCH_REQ", id |-> op1.id] \in Word
    BY <1>1, IdTypes DEF C1Ask, Word, Tags
  <2>3. TypeOKFifo'
    BY <1>1, <2>2 DEF C1Ask, TypeOK, TypeOKFifo
  <2> QED
    BY <1>1, <2>1, <2>2, <2>3, UnchangedTypes DEF C1Ask, TypeOK
<1>2. CASE C1Push
  <2>1. TypeOK1'
    BY <1>2 DEF C1Push, TypeOK, TypeOK1, Pc1
  <2>2. [tag |-> ReplyTag, id |-> op1.id] \in Word
    BY <1>2, IdTypes DEF C1Push, ReplyTag, Word, Tags
  <2>3. TypeOKFifo'
    BY <1>2, <2>2 DEF C1Push, TypeOK, TypeOKFifo
  <2> QED
    BY <1>2, <2>1, <2>2, <2>3, UnchangedTypes DEF C1Push, TypeOK
<1> QED
  BY <1>1, <1>2

LEMMA NextType == TypeOK /\ [Next]_vars => TypeOK'
<1> SUFFICES ASSUME TypeOK, [Next]_vars PROVE TypeOK'
  OBVIOUS
<1>1. CASE StNext
  BY <1>1, StType
<1>2. CASE Core0Next \/ AsyncExpire
  BY <1>2, StartupType, DrainType, ConsumeType, DispatchType, WaitType, FetchType
     DEF Core0Next
<1>3. CASE Core1Next \/ ScriptNext
  BY <1>3, BootType, PopStepType, SectionType, ScriptType, ReplyType
     DEF Core1Next, ScriptNext
<1>4. CASE UNCHANGED vars
  BY <1>4, UnchangedTypes DEF vars, TypeOK
<1> QED
  BY <1>1, <1>2, <1>3, <1>4 DEF Next

(* Every variable of the worker keeps its type.                             *)
THEOREM TypeCorrect == Spec => []TypeOK
BY InitType, NextType, PTL DEF Spec

(* The ST and Core 1 do not touch the state of Core 0.                      *)
LEMMA Core0Frame ==
  ASSUME StNext \/ Core1Next \/ ScriptNext
  PROVE  UNCHANGED core0Vars
BY DEF StNext, StopWaiting, Submit, Core1Next, ScriptNext, C1Boot, C1Raise,
       C1Pop, C1Lock, C1Copy, C1Url, C1Ask, C1FetchReply, C1Body, C1Reinit,
       C1Reready, C1Store, C1Flush, C1Push, C1FinishUpload, C1FinishCall,
       C1Fetch, Handler, C1Unlock, core0Vars

(* Core 0 touches the state of Core 1 by a restart only.                    *)
LEMMA Core1Frame ==
  ASSUME StNext \/ AsyncExpire \/ Core0Next
  PROVE  ResetCore1 \/ UNCHANGED core1Vars
BY DEF StNext, StopWaiting, Submit, Core0Next, StartupDrop, StartupArm,
       StartupRaise, AsyncExpire, DrainNothing, DrainTimeout, DrainFetch,
       DrainReply, ConsumeNothing, ConsumeIgnored, Consume, DispatchBusy,
       DispatchBad, DispatchSync, DispatchAsync, DispatchChunk, DispatchPoll,
       Respond, WaitFetch, WaitReply, WaitTimeout, TimeoutUnready, FetchBegin,
       FetchRefuse, FetchEnd, WriteError, DispatchPing, DispatchUpload,
       DispatchCall, DispatchReset, HandToCore1, PushToCore1, AfterFetch,
       core1Vars

(* When Core 0 counts on no reply, none is under way.                       *)
LEMMA Quiet ==
  ASSUME WorkerInv
  PROVE  NoStrayReply
<1> USE DEF WorkerInv, TypeOK, TypeOKFifo
<1> SUFFICES ASSUME ~asyncPending, ~Awaits
             PROVE  toC0 = <<>> /\ toC1 = <<>> /\ ~Core1Works /\ pc1 # "fetching"
  BY DEF NoStrayReply
<1>1. Outstanding = 0
  BY DEF ReplyAccounting, Expected, Cancelled
<1>2. Len(toC0) = 0 /\ Len(toC1) = 0 /\ ~Core1Works /\ ~ServesFetch
  BY <1>1 DEF Outstanding
<1>3. toC0 = <<>> /\ toC1 = <<>>
  BY <1>2
<1>4. pc1 # "fetching"
  BY <1>2, <1>3 DEF FetchNotForgotten
<1> QED
  BY <1>2, <1>3, <1>4

(* A request in a FIFO stays in it when another word is popped.             *)
LEMMA RequestStays ==
  ASSUME NEW s \in Seq(Word), s # <<>>, Head(s).tag # "FETCH_REQ",
         NEW i \in 1 .. Len(s), s[i].tag = "FETCH_REQ"
  PROVE  \E j \in 1 .. Len(Tail(s)) : Tail(s)[j].tag = "FETCH_REQ"
<1>1. i # 1
  OBVIOUS
<1>2. i - 1 \in 1 .. Len(Tail(s)) /\ Tail(s)[i - 1] = s[i]
  BY <1>1
<1> QED
  BY <1>2

(* What a CALL runs is what it was sent for.                                *)
LEMMA CopyKeeps ==
  ASSUME WorkerInv, C1Copy
  PROVE  op1' = op1
<1>1. CASE op1.tag = "CALL"
  <2>1. op1 \in Word /\ op1.id = call
    BY <1>1 DEF WorkerInv, CallParamsStable, TypeOK, TypeOK1, NoWord
  <2>2. [op1 EXCEPT !.id = op1.id] = op1
    BY <2>1 DEF Word
  <2> QED
    BY <1>1, <2>1, <2>2 DEF C1Copy
<1>2. CASE op1.tag # "CALL"
  BY <1>2 DEF C1Copy
<1> QED
  BY <1>1, <1>2

LEMMA Core0Step ==
  ASSUME WorkerInv, Next
  PROVE  Core0Inv'
<1> USE DEF WorkerInv, Core0Inv, core0Vars
<1>1. CASE StNext \/ Core1Next \/ ScriptNext
  BY <1>1, Core0Frame
<1>2. CASE StartupDrop
  BY <1>2 DEF StartupDrop
<1>3. CASE StartupArm
  BY <1>3 DEF StartupArm
<1>4. CASE StartupRaise
  BY <1>4 DEF StartupRaise
<1>5. CASE AsyncExpire
  BY <1>5 DEF AsyncExpire
<1>6. CASE DrainNothing
  BY <1>6 DEF DrainNothing
<1>7. CASE DrainTimeout
  BY <1>7 DEF DrainTimeout, WriteError
<1>8. CASE DrainFetch
  BY <1>8 DEF DrainFetch
<1>9. CASE DrainReply
  BY <1>9 DEF DrainReply
<1>10. CASE ConsumeNothing
  BY <1>10 DEF ConsumeNothing
<1>11. CASE ConsumeIgnored
  BY <1>11 DEF ConsumeIgnored
<1>12. CASE Consume
  BY <1>12 DEF Consume
<1>13. CASE DispatchBusy
  BY <1>13 DEF DispatchBusy, WriteError
<1>14. CASE DispatchBad
  BY <1>14 DEF DispatchBad, WriteError
<1>15. CASE DispatchSync
  BY <1>15 DEF DispatchSync, DispatchPing, DispatchUpload, DispatchCall,
               DispatchReset, HandToCore1, PushToCore1
<1>16. CASE DispatchAsync
  BY <1>16 DEF DispatchAsync, PushToCore1
<1>17. CASE DispatchChunk
  BY <1>17 DEF DispatchChunk
<1>18. CASE DispatchPoll
  BY <1>18 DEF DispatchPoll
<1>19. CASE Respond
  BY <1>19 DEF Respond
<1>20. CASE WaitFetch
  BY <1>20 DEF WaitFetch
<1>21. CASE WaitReply
  BY <1>21 DEF WaitReply
<1>22. CASE WaitTimeout
  BY <1>22 DEF WaitTimeout, WriteError
<1>23. CASE TimeoutUnready
  BY <1>23 DEF TimeoutUnready
<1>24. CASE ResetCore1
  BY <1>24 DEF ResetCore1, AfterReset
<1>25. CASE FetchBegin
  BY <1>25 DEF FetchBegin
<1>26. CASE FetchRefuse
  BY <1>26 DEF FetchRefuse, PushToCore1, AfterFetch
<1>27. CASE FetchEnd
  BY <1>27 DEF FetchEnd, PushToCore1, AfterFetch
<1> QED
  BY <1>1, <1>2, <1>3, <1>4, <1>5, <1>6, <1>7, <1>8, <1>9, <1>10, <1>11,
     <1>12, <1>13, <1>14, <1>15, <1>16, <1>17, <1>18, <1>19, <1>20, <1>21,
     <1>22, <1>23, <1>24, <1>25, <1>26, <1>27 DEF Next, Core0Next

LEMMA Core1Step ==
  ASSUME WorkerInv, Next
  PROVE  Core1Inv'
<1> USE DEF WorkerInv, Core1Inv, core1Vars
<1>1. CASE StNext \/ AsyncExpire \/ Core0Next
  BY <1>1, Core1Frame DEF ResetCore1
<1>2. CASE C1Boot
  BY <1>2 DEF C1Boot
<1>3. CASE C1Raise
  BY <1>3 DEF C1Raise
<1>4. CASE C1Pop
  <2>1. op1' \in Word
    BY <1>4, PopType DEF C1Pop, TypeOK, TypeOKFifo
  <2>2. op1' # NoWord
    BY <2>1 DEF Word, Tags, WorkTags, SyncOps, NoWord
  <2>3. pc1' = Handler(op1'.tag)
    BY <1>4 DEF C1Pop
  <2> QED
    BY <2>2, <2>3 DEF Handler
<1>5. CASE C1Lock
  BY <1>5 DEF C1Lock
<1>6. CASE C1Copy
  BY <1>6, CopyKeeps DEF C1Copy, C1Unlock
<1>7. CASE C1Url
  BY <1>7 DEF C1Url, C1Unlock
<1>8. CASE C1Ask
  BY <1>8 DEF C1Ask
<1>9. CASE C1FetchReply
  BY <1>9 DEF C1FetchReply
<1>10. CASE C1Body
  BY <1>10 DEF C1Body, C1Unlock
<1>11. CASE C1Reinit
  BY <1>11 DEF C1Reinit
<1>12. CASE C1Reready
  BY <1>12 DEF C1Reready
<1>13. CASE C1Store
  BY <1>13 DEF C1Store, C1Unlock
<1>14. CASE C1Flush
  BY <1>14 DEF C1Flush, C1Unlock
<1>15. CASE C1Push
  BY <1>15 DEF C1Push
<1>16. CASE C1FinishUpload
  BY <1>16 DEF C1FinishUpload
<1>17. CASE C1FinishCall
  BY <1>17 DEF C1FinishCall
<1>18. CASE C1Fetch
  BY <1>18 DEF C1Fetch
<1> QED
  BY <1>1, <1>2, <1>3, <1>4, <1>5, <1>6, <1>7, <1>8, <1>9, <1>10, <1>11,
     <1>12, <1>13, <1>14, <1>15, <1>16, <1>17, <1>18 DEF Next, Core1Next, ScriptNext

LEMMA AccountingStep ==
  ASSUME WorkerInv, Next
  PROVE  ReplyAccounting'
<1> USE DEF WorkerInv, ReplyAccounting, Outstanding, Expected, Awaits,
            Cancelled, Core1Works, ServesFetch, Core0Inv, TypeOK, TypeOK0,
            TypeOK1, TypeOKFifo, core0Vars, core1Vars, fifoVars
<1>1. CASE StNext
  BY <1>1 DEF StNext, StopWaiting, Submit
<1>2. CASE StartupDrop
  BY <1>2 DEF StartupDrop
<1>3. CASE StartupArm
  BY <1>3 DEF StartupArm
<1>4. CASE StartupRaise
  BY <1>4 DEF StartupRaise
<1>5. CASE AsyncExpire
  BY <1>5 DEF AsyncExpire
<1>6. CASE DrainNothing
  BY <1>6 DEF DrainNothing
<1>7. CASE DrainTimeout
  BY <1>7 DEF DrainTimeout, WriteError
<1>8. CASE DrainFetch
  BY <1>8 DEF DrainFetch
<1>9. CASE DrainReply
  BY <1>9 DEF DrainReply
<1>10. CASE ConsumeNothing
  BY <1>10 DEF ConsumeNothing
<1>11. CASE ConsumeIgnored
  BY <1>11 DEF ConsumeIgnored
<1>12. CASE Consume
  BY <1>12 DEF Consume
<1>13. CASE DispatchBusy
  BY <1>13 DEF DispatchBusy, WriteError
<1>14. CASE DispatchBad
  BY <1>14 DEF DispatchBad, WriteError
<1>15. CASE DispatchSync
  BY <1>15 DEF DispatchSync, DispatchPing, DispatchUpload, DispatchCall,
               DispatchReset, HandToCore1, PushToCore1
<1>16. CASE DispatchAsync
  BY <1>16 DEF DispatchAsync, PushToCore1
<1>17. CASE DispatchChunk
  BY <1>17 DEF DispatchChunk
<1>18. CASE DispatchPoll
  BY <1>18 DEF DispatchPoll
<1>19. CASE Respond
  BY <1>19 DEF Respond
<1>20. CASE WaitFetch
  BY <1>20 DEF WaitFetch
<1>21. CASE WaitReply
  BY <1>21 DEF WaitReply
<1>22. CASE WaitTimeout
  BY <1>22 DEF WaitTimeout, WriteError
<1>23. CASE TimeoutUnready
  BY <1>23 DEF TimeoutUnready
<1>24. CASE ResetCore1
  BY <1>24 DEF ResetCore1, AfterReset
<1>25. CASE FetchBegin
  BY <1>25 DEF FetchBegin
<1>26. CASE FetchRefuse
  BY <1>26 DEF FetchRefuse, PushToCore1, AfterFetch
<1>27. CASE FetchEnd
  BY <1>27 DEF FetchEnd, PushToCore1, AfterFetch
<1>28. CASE C1Boot
  BY <1>28 DEF C1Boot
<1>29. CASE C1Raise
  BY <1>29 DEF C1Raise
<1>30. CASE C1Pop
  BY <1>30 DEF C1Pop, Handler
<1>31. CASE C1Lock
  BY <1>31 DEF C1Lock
<1>32. CASE C1Copy
  BY <1>32 DEF C1Copy, C1Unlock
<1>33. CASE C1Url
  BY <1>33 DEF C1Url, C1Unlock
<1>34. CASE C1Ask
  BY <1>34 DEF C1Ask
<1>35. CASE C1FetchReply
  BY <1>35 DEF C1FetchReply
<1>36. CASE C1Body
  BY <1>36 DEF C1Body, C1Unlock
<1>37. CASE C1Reinit
  BY <1>37 DEF C1Reinit
<1>38. CASE C1Reready
  BY <1>38 DEF C1Reready
<1>39. CASE C1Store
  BY <1>39 DEF C1Store, C1Unlock
<1>40. CASE C1Flush
  BY <1>40 DEF C1Flush, C1Unlock
<1>41. CASE C1Push
  BY <1>41 DEF C1Push
<1>42. CASE C1FinishUpload
  BY <1>42 DEF C1FinishUpload
<1>43. CASE C1FinishCall
  BY <1>43 DEF C1FinishCall
<1>44. CASE C1Fetch
  BY <1>44 DEF C1Fetch
<1> QED
  BY <1>1, <1>2, <1>3, <1>4, <1>5, <1>6, <1>7, <1>8, <1>9, <1>10, <1>11,
     <1>12, <1>13, <1>14, <1>15, <1>16, <1>17, <1>18, <1>19, <1>20, <1>21,
     <1>22, <1>23, <1>24, <1>25, <1>26, <1>27, <1>28, <1>29, <1>30, <1>31,
     <1>32, <1>33, <1>34, <1>35, <1>36, <1>37, <1>38, <1>39, <1>40, <1>41,
     <1>42, <1>43, <1>44 DEF Next, Core0Next, Core1Next, ScriptNext

LEMMA FetchStep ==
  ASSUME WorkerInv, Next
  PROVE  FetchNotForgotten'
<1> USE DEF WorkerInv, FetchNotForgotten, ServesFetch, TypeOK, TypeOKFifo,
            core0Vars, core1Vars, fifoVars
<1>1. CASE StNext
  BY <1>1 DEF StNext, StopWaiting, Submit
<1>2. CASE StartupDrop
  BY <1>2 DEF StartupDrop
<1>3. CASE StartupArm
  BY <1>3 DEF StartupArm
<1>4. CASE StartupRaise
  BY <1>4 DEF StartupRaise
<1>5. CASE AsyncExpire
  BY <1>5 DEF AsyncExpire
<1>6. CASE DrainNothing
  BY <1>6 DEF DrainNothing
<1>7. CASE DrainTimeout
  BY <1>7 DEF DrainTimeout, WriteError
<1>8. CASE DrainFetch
  BY <1>8 DEF DrainFetch
<1>9. CASE DrainReply
  BY <1>9, RequestStays DEF DrainReply
<1>10. CASE ConsumeNothing
  BY <1>10 DEF ConsumeNothing
<1>11. CASE ConsumeIgnored
  BY <1>11 DEF ConsumeIgnored
<1>12. CASE Consume
  BY <1>12 DEF Consume
<1>13. CASE DispatchBusy
  BY <1>13 DEF DispatchBusy, WriteError
<1>14. CASE DispatchBad
  BY <1>14 DEF DispatchBad, WriteError
<1>15. CASE DispatchSync
  BY <1>15 DEF DispatchSync, DispatchPing, DispatchUpload, DispatchCall,
               DispatchReset, HandToCore1, PushToCore1
<1>16. CASE DispatchAsync
  BY <1>16 DEF DispatchAsync, PushToCore1
<1>17. CASE DispatchChunk
  BY <1>17 DEF DispatchChunk
<1>18. CASE DispatchPoll
  BY <1>18 DEF DispatchPoll
<1>19. CASE Respond
  BY <1>19 DEF Respond
<1>20. CASE WaitFetch
  BY <1>20 DEF WaitFetch
<1>21. CASE WaitReply
  BY <1>21, RequestStays DEF WaitReply
<1>22. CASE WaitTimeout
  BY <1>22 DEF WaitTimeout, WriteError
<1>23. CASE TimeoutUnready
  BY <1>23 DEF TimeoutUnready
<1>24. CASE ResetCore1
  BY <1>24 DEF ResetCore1, AfterReset
<1>25. CASE FetchBegin
  BY <1>25 DEF FetchBegin
<1>26. CASE FetchRefuse
  BY <1>26 DEF FetchRefuse, PushToCore1, AfterFetch
<1>27. CASE FetchEnd
  BY <1>27 DEF FetchEnd, PushToCore1, AfterFetch
<1>28. CASE C1Boot
  BY <1>28 DEF C1Boot
<1>29. CASE C1Raise
  BY <1>29 DEF C1Raise
<1>30. CASE C1Pop
  BY <1>30 DEF C1Pop, Handler
<1>31. CASE C1Lock
  BY <1>31 DEF C1Lock
<1>32. CASE C1Copy
  BY <1>32 DEF C1Copy, C1Unlock
<1>33. CASE C1Url
  BY <1>33 DEF C1Url, C1Unlock
<1>34. CASE C1Ask
  BY <1>34 DEF C1Ask
<1>35. CASE C1FetchReply
  BY <1>35 DEF C1FetchReply
<1>36. CASE C1Body
  BY <1>36 DEF C1Body, C1Unlock
<1>37. CASE C1Reinit
  BY <1>37 DEF C1Reinit
<1>38. CASE C1Reready
  BY <1>38 DEF C1Reready
<1>39. CASE C1Store
  BY <1>39 DEF C1Store, C1Unlock
<1>40. CASE C1Flush
  BY <1>40 DEF C1Flush, C1Unlock
<1>41. CASE C1Push
  BY <1>41 DEF C1Push
<1>42. CASE C1FinishUpload
  BY <1>42 DEF C1FinishUpload
<1>43. CASE C1FinishCall
  BY <1>43 DEF C1FinishCall
<1>44. CASE C1Fetch
  BY <1>44 DEF C1Fetch
<1> QED
  BY <1>1, <1>2, <1>3, <1>4, <1>5, <1>6, <1>7, <1>8, <1>9, <1>10, <1>11,
     <1>12, <1>13, <1>14, <1>15, <1>16, <1>17, <1>18, <1>19, <1>20, <1>21,
     <1>22, <1>23, <1>24, <1>25, <1>26, <1>27, <1>28, <1>29, <1>30, <1>31,
     <1>32, <1>33, <1>34, <1>35, <1>36, <1>37, <1>38, <1>39, <1>40, <1>41,
     <1>42, <1>43, <1>44 DEF Next, Core0Next, Core1Next, ScriptNext

LEMMA CallStep ==
  ASSUME WorkerInv, Next
  PROVE  CallParamsStable'
<1> USE DEF WorkerInv, CallParamsStable, TypeOK, TypeOKFifo, core1Vars,
            fifoVars, msgVars
<1>0. pc0 = "dispatch" /\ ~asyncPending => toC1 = <<>> /\ op1 = NoWord
  BY Quiet DEF NoStrayReply, Awaits, Core1Works, Core1Inv, TypeOK1, Pc1
<1>1. CASE StNext
  BY <1>1 DEF StNext, StopWaiting, Submit
<1>2. CASE StartupDrop
  BY <1>2 DEF StartupDrop
<1>3. CASE StartupArm
  BY <1>3 DEF StartupArm
<1>4. CASE StartupRaise
  BY <1>4 DEF StartupRaise
<1>5. CASE AsyncExpire
  BY <1>5 DEF AsyncExpire
<1>6. CASE DrainNothing
  BY <1>6 DEF DrainNothing
<1>7. CASE DrainTimeout
  BY <1>7 DEF DrainTimeout, WriteError
<1>8. CASE DrainFetch
  BY <1>8 DEF DrainFetch
<1>9. CASE DrainReply
  BY <1>9 DEF DrainReply
<1>10. CASE ConsumeNothing
  BY <1>10 DEF ConsumeNothing
<1>11. CASE ConsumeIgnored
  BY <1>11 DEF ConsumeIgnored
<1>12. CASE Consume
  BY <1>12 DEF Consume
<1>13. CASE DispatchBusy
  BY <1>13 DEF DispatchBusy, WriteError
<1>14. CASE DispatchBad
  BY <1>14 DEF DispatchBad, WriteError
<1>15. CASE DispatchSync
  <2>1. CASE cmd.op = "CALL"
    BY <1>15, <1>0, <2>1, SyncPush DEF PushToCore1, NoWord
  <2>2. CASE cmd.op # "CALL"
    <3>1. UNCHANGED <<call, op1>> /\ toC1' = Append(toC1, [tag |-> cmd.op, id |-> cmd.id])
      BY <1>15, <2>2, SyncPush DEF PushToCore1
    <3>2. ASSUME NEW i \in 1 .. Len(toC1'), toC1'[i].tag = "CALL"
          PROVE  toC1'[i].id = call'
      <4>1. i \in 1 .. Len(toC1) /\ toC1'[i] = toC1[i]
        BY <2>2, <3>1, <3>2
      <4> QED
        BY <3>1, <3>2, <4>1
    <3> QED
      BY <3>1, <3>2
  <2> QED
    BY <2>1, <2>2
<1>16. CASE DispatchAsync
  BY <1>16, <1>0 DEF DispatchAsync, PushToCore1, NoWord
<1>17. CASE DispatchChunk
  BY <1>17 DEF DispatchChunk
<1>18. CASE DispatchPoll
  BY <1>18 DEF DispatchPoll
<1>19. CASE Respond
  BY <1>19 DEF Respond
<1>20. CASE WaitFetch
  BY <1>20 DEF WaitFetch
<1>21. CASE WaitReply
  BY <1>21 DEF WaitReply
<1>22. CASE WaitTimeout
  BY <1>22 DEF WaitTimeout, WriteError
<1>23. CASE TimeoutUnready
  BY <1>23 DEF TimeoutUnready
<1>24. CASE ResetCore1
  BY <1>24 DEF ResetCore1, AfterReset, NoWord
<1>25. CASE FetchBegin
  BY <1>25 DEF FetchBegin
<1>26. CASE FetchRefuse
  BY <1>26 DEF FetchRefuse, PushToCore1, AfterFetch
<1>27. CASE FetchEnd
  BY <1>27 DEF FetchEnd, PushToCore1, AfterFetch
<1>28. CASE C1Boot
  BY <1>28 DEF C1Boot
<1>29. CASE C1Raise
  BY <1>29 DEF C1Raise
<1>30. CASE C1Pop
  BY <1>30 DEF C1Pop
<1>31. CASE C1Lock
  BY <1>31 DEF C1Lock
<1>32. CASE C1Copy
  BY <1>32 DEF C1Copy, C1Unlock
<1>33. CASE C1Url
  BY <1>33 DEF C1Url, C1Unlock
<1>34. CASE C1Ask
  BY <1>34 DEF C1Ask
<1>35. CASE C1FetchReply
  BY <1>35 DEF C1FetchReply
<1>36. CASE C1Body
  BY <1>36 DEF C1Body, C1Unlock
<1>37. CASE C1Reinit
  BY <1>37 DEF C1Reinit
<1>38. CASE C1Reready
  BY <1>38 DEF C1Reready
<1>39. CASE C1Store
  BY <1>39 DEF C1Store, C1Unlock
<1>40. CASE C1Flush
  BY <1>40 DEF C1Flush, C1Unlock
<1>41. CASE C1Push
  BY <1>41 DEF C1Push, NoWord
<1>42. CASE C1FinishUpload
  BY <1>42 DEF C1FinishUpload
<1>43. CASE C1FinishCall
  BY <1>43 DEF C1FinishCall
<1>44. CASE C1Fetch
  BY <1>44 DEF C1Fetch
<1> QED
  BY <1>1, <1>2, <1>3, <1>4, <1>5, <1>6, <1>7, <1>8, <1>9, <1>10, <1>11,
     <1>12, <1>13, <1>14, <1>15, <1>16, <1>17, <1>18, <1>19, <1>20, <1>21,
     <1>22, <1>23, <1>24, <1>25, <1>26, <1>27, <1>28, <1>29, <1>30, <1>31,
     <1>32, <1>33, <1>34, <1>35, <1>36, <1>37, <1>38, <1>39, <1>40, <1>41,
     <1>42, <1>43, <1>44 DEF Next, Core0Next, Core1Next, ScriptNext

(* One thing under way is a word, a request or the work of Core 1.          *)
LEMMA OneItem ==
  ASSUME TypeOK, Outstanding = 1
  PROVE  /\ toC0 # <<>> => Len(toC0) = 1 /\ toC1 = <<>> /\ ~Core1Works /\ ~ServesFetch
         /\ toC1 # <<>> => Len(toC1) = 1 /\ toC0 = <<>> /\ ~Core1Works /\ ~ServesFetch
         /\ Core1Works => toC0 = <<>> /\ toC1 = <<>> /\ ~ServesFetch
         /\ ServesFetch => toC0 = <<>> /\ toC1 = <<>> /\ ~Core1Works
<1>2. Len(toC0) \in Nat /\ Len(toC1) \in Nat
  BY DEF TypeOK, TypeOKFifo
<1>3. /\ toC0 # <<>> => Len(toC0) > 0
      /\ toC1 # <<>> => Len(toC1) > 0
      /\ Len(toC0) = 0 => toC0 = <<>>
      /\ Len(toC1) = 0 => toC1 = <<>>
  BY DEF TypeOK, TypeOKFifo
<1>4. Core1Works => Len(toC0) + Len(toC1) + 1 <= 1
  BY <1>2 DEF Outstanding
<1>5. ServesFetch => Len(toC0) + Len(toC1) + 1 <= 1 /\ ~Core1Works
  BY <1>2 DEF Outstanding
<1>6. Len(toC0) + Len(toC1) <= 1
  BY <1>2 DEF Outstanding
<1>7. Len(toC0) + Len(toC1) = 1 => ~Core1Works /\ ~ServesFetch
  BY <1>2 DEF Outstanding
<1>8. ~(toC0 # <<>> /\ toC1 # <<>>)
  BY <1>2, <1>3, <1>6
<1>9. toC0 # <<>> \/ toC1 # <<>> => Len(toC0) + Len(toC1) = 1
  BY <1>2, <1>3, <1>6
<1>10. \A m, n \in Nat : m > 0 /\ m + n <= 1 => m = 1 /\ n = 0
  OBVIOUS
<1>11. toC0 # <<>> => Len(toC0) = 1
  BY <1>2, <1>3, <1>6, <1>10
<1>12. Len(toC1) + Len(toC0) <= 1
  BY <1>2, <1>6
<1>13. toC1 # <<>> => Len(toC1) = 1
  BY <1>2, <1>3, <1>10, <1>12
<1> QED
  BY <1>5, <1>7, <1>8, <1>9, <1>11, <1>13, Zenon

(* While Core 0 waits for a reply and no async call is in flight, there is  *)
(* exactly one thing under way.                                             *)
LEMMA OneUnderWay ==
  ASSUME WorkerInv, cmd # NoCmd, ~asyncPending, Awaits
  PROVE  /\ toC0 # <<>> => Len(toC0) = 1 /\ toC1 = <<>> /\ ~Core1Works /\ ~ServesFetch
         /\ toC1 # <<>> => Len(toC1) = 1 /\ toC0 = <<>> /\ ~Core1Works /\ ~ServesFetch
         /\ Core1Works => toC0 = <<>> /\ toC1 = <<>> /\ ~ServesFetch
         /\ ServesFetch => toC0 = <<>> /\ toC1 = <<>> /\ ~Core1Works
<1>1. Outstanding = 1
  BY DEF WorkerInv, ReplyAccounting, Expected, Cancelled
<1> QED
  BY <1>1, OneItem DEF WorkerInv

LEMMA OrderStep ==
  ASSUME WorkerInv, Next
  PROVE  OrderInv'
<1> USE DEF WorkerInv, OrderInv, TypeOK, TypeOK0, TypeOKRom, TypeOKSt, Ids,
            Command, core0Vars, romVars, stVars
<1>1. CASE StopWaiting
  BY <1>1 DEF StopWaiting
<1>2. CASE \E op \in Ops : Submit(op)
  BY <1>2, MaxCmdsAssumption DEF Submit, NoCmd
<1>3. CASE StartupDrop
  BY <1>3 DEF StartupDrop
<1>4. CASE StartupArm
  BY <1>4 DEF StartupArm
<1>5. CASE StartupRaise
  BY <1>5 DEF StartupRaise
<1>6. CASE AsyncExpire
  BY <1>6 DEF AsyncExpire
<1>7. CASE DrainNothing
  BY <1>7 DEF DrainNothing
<1>8. CASE DrainTimeout
  BY <1>8 DEF DrainTimeout, WriteError
<1>9. CASE DrainFetch
  BY <1>9 DEF DrainFetch
<1>10. CASE DrainReply
  BY <1>10 DEF DrainReply
<1>11. CASE ConsumeNothing
  BY <1>11 DEF ConsumeNothing
<1>12. CASE ConsumeIgnored
  BY <1>12 DEF ConsumeIgnored
<1>13. CASE Consume
  BY <1>13 DEF Consume
<1>14. CASE DispatchBusy
  BY <1>14 DEF DispatchBusy, WriteError
<1>15. CASE DispatchBad
  BY <1>15 DEF DispatchBad, WriteError
<1>16. CASE DispatchSync
  BY <1>16 DEF DispatchSync, DispatchPing, DispatchUpload, DispatchCall,
               DispatchReset, HandToCore1, PushToCore1
<1>17. CASE DispatchAsync
  BY <1>17 DEF DispatchAsync, PushToCore1
<1>18. CASE DispatchChunk
  BY <1>18 DEF DispatchChunk
<1>19. CASE DispatchPoll
  BY <1>19 DEF DispatchPoll
<1>20. CASE Respond
  BY <1>20 DEF Respond, Core0Inv
<1>21. CASE WaitFetch
  BY <1>21 DEF WaitFetch
<1>22. CASE WaitReply
  BY <1>22 DEF WaitReply
<1>23. CASE WaitTimeout
  BY <1>23 DEF WaitTimeout, WriteError
<1>24. CASE TimeoutUnready
  BY <1>24 DEF TimeoutUnready
<1>25. CASE ResetCore1
  BY <1>25 DEF ResetCore1, AfterReset
<1>26. CASE FetchBegin
  BY <1>26 DEF FetchBegin
<1>27. CASE FetchRefuse
  BY <1>27 DEF FetchRefuse, PushToCore1, AfterFetch
<1>28. CASE FetchEnd
  BY <1>28 DEF FetchEnd, PushToCore1, AfterFetch
<1>29. CASE C1Boot
  BY <1>29 DEF C1Boot
<1>30. CASE C1Raise
  BY <1>30 DEF C1Raise
<1>31. CASE C1Pop
  BY <1>31 DEF C1Pop, Handler
<1>32. CASE C1Lock
  BY <1>32 DEF C1Lock
<1>33. CASE C1Copy
  BY <1>33 DEF C1Copy, C1Unlock
<1>34. CASE C1Url
  BY <1>34 DEF C1Url, C1Unlock
<1>35. CASE C1Ask
  BY <1>35 DEF C1Ask
<1>36. CASE C1FetchReply
  BY <1>36 DEF C1FetchReply
<1>37. CASE C1Body
  BY <1>37 DEF C1Body, C1Unlock
<1>38. CASE C1Reinit
  BY <1>38 DEF C1Reinit
<1>39. CASE C1Reready
  BY <1>39 DEF C1Reready
<1>40. CASE C1Store
  BY <1>40 DEF C1Store, C1Unlock
<1>41. CASE C1Flush
  BY <1>41 DEF C1Flush, C1Unlock
<1>42. CASE C1Push
  BY <1>42 DEF C1Push
<1>43. CASE C1FinishUpload
  BY <1>43 DEF C1FinishUpload
<1>44. CASE C1FinishCall
  BY <1>44 DEF C1FinishCall
<1>45. CASE C1Fetch
  BY <1>45 DEF C1Fetch
<1> QED
  BY <1>1, <1>2, <1>3, <1>4, <1>5, <1>6, <1>7, <1>8, <1>9, <1>10, <1>11,
     <1>12, <1>13, <1>14, <1>15, <1>16, <1>17, <1>18, <1>19, <1>20, <1>21,
     <1>22, <1>23, <1>24, <1>25, <1>26, <1>27, <1>28, <1>29, <1>30, <1>31,
     <1>32, <1>33, <1>34, <1>35, <1>36, <1>37, <1>38, <1>39, <1>40, <1>41,
     <1>42, <1>43, <1>44, <1>45 DEF Next, StNext, Core0Next, Core1Next, ScriptNext

LEMMA AnswerStep ==
  ASSUME WorkerInv, Next
  PROVE  AnswerInv'
<1> USE DEF WorkerInv, AnswerInv, Core0Inv, TypeOK, TypeOK0, TypeOKFifo,
            TypeOKRom, core0Vars, core1Vars, fifoVars, msgVars, romVars
<1>a. ~asyncPending /\ pc0 \in {"dispatch", "respond"} =>
        toC0 = <<>> /\ toC1 = <<>> /\ ~Core1Works /\ pc1 # "fetching"
  BY Quiet DEF NoStrayReply, Awaits
<1>b. cmd # NoCmd /\ ~asyncPending /\ pc0 \in {"wait", "fetch", "http", "unready", "reset"} =>
        /\ toC0 # <<>> => Len(toC0) = 1 /\ toC1 = <<>> /\ ~Core1Works /\ ~ServesFetch
        /\ toC1 # <<>> => Len(toC1) = 1 /\ toC0 = <<>> /\ ~Core1Works /\ ~ServesFetch
        /\ Core1Works => toC0 = <<>> /\ toC1 = <<>> /\ ~ServesFetch
        /\ ServesFetch => toC0 = <<>> /\ toC1 = <<>> /\ ~Core1Works
  BY OneUnderWay DEF Awaits
<1>1. CASE StNext
  BY <1>1 DEF StNext, StopWaiting, Submit, SyncServed, IsServed, Served, ServesFetch
<1>2. CASE StartupDrop
  BY <1>2 DEF StartupDrop, SyncServed, IsServed, Served, ServesFetch, NoWord
<1>3. CASE StartupArm
  BY <1>3 DEF StartupArm, SyncServed, IsServed, Served, ServesFetch, NoWord
<1>4. CASE StartupRaise
  BY <1>4 DEF StartupRaise, SyncServed, IsServed, Served, ServesFetch, NoWord
<1>5. CASE AsyncExpire
  BY <1>5 DEF AsyncExpire, SyncServed, IsServed, Served, ServesFetch, NoWord
<1>6. CASE DrainNothing
  BY <1>6 DEF DrainNothing, SyncServed, IsServed, Served, ServesFetch, NoWord
<1>7. CASE DrainTimeout
  BY <1>7 DEF DrainTimeout, WriteError, SyncServed, IsServed, Served,
              ServesFetch, NoWord
<1>8. CASE DrainFetch
  BY <1>8 DEF DrainFetch, SyncServed, IsServed, Served, ServesFetch, NoWord
<1>9. CASE DrainReply
  BY <1>9 DEF DrainReply, SyncServed, IsServed, Served, ServesFetch, NoWord
<1>10. CASE ConsumeNothing
  BY <1>10 DEF ConsumeNothing, SyncServed, IsServed, Served, ServesFetch,
               NoWord
<1>11. CASE ConsumeIgnored
  BY <1>11 DEF ConsumeIgnored, SyncServed, IsServed, Served, ServesFetch,
               NoWord
<1>12. CASE Consume
  BY <1>12 DEF Consume, SyncServed, IsServed, Served, ServesFetch, NoWord
<1>13. CASE DispatchBusy
  BY <1>13 DEF DispatchBusy, WriteError, SyncServed, IsServed, Served,
               ServesFetch, NoWord
<1>14. CASE DispatchBad
  BY <1>14 DEF DispatchBad, WriteError, SyncServed, IsServed, Served,
               ServesFetch, NoWord
<1>15. CASE DispatchSync
  <2>1. pc0 = "dispatch" /\ pc0' = "wait" /\ PushToCore1(cmd.op, cmd.id)
    BY <1>15, SyncPush
  <2>2. UNCHANGED <<cmd, asyncPending, core1Vars, toC0, romVars>>
    BY <1>15, SyncPush
  <2>3. ASSUME ~asyncPending
        PROVE  SyncServed'
    <3>1. toC0' = <<>> /\ toC1' = <<[tag |-> cmd.op, id |-> cmd.id]>>
      BY <2>1, <2>2, <2>3, <1>a DEF PushToCore1
    <3>2. op1' = NoWord /\ pc1' \in {"boot", "up", "idle"}
      BY <2>1, <2>2, <2>3, <1>a DEF Core1Works, Core1Inv, TypeOK1, Pc1
    <3>3. cmd' = cmd /\ cmd.op \in SyncOps
      BY <1>15, SyncPush
    <3> QED
      BY <2>1, <3>1, <3>2, <3>3 DEF SyncServed, Served, ServesFetch
  <2> QED
    BY <2>1, <2>2, <2>3
<1>16. CASE DispatchAsync
  BY <1>16 DEF DispatchAsync, PushToCore1, SyncServed, IsServed, Served,
               ServesFetch, NoWord
<1>17. CASE DispatchChunk
  BY <1>17 DEF DispatchChunk, SyncServed, IsServed, Served, ServesFetch,
               NoWord
<1>18. CASE DispatchPoll
  BY <1>18 DEF DispatchPoll, SyncServed, IsServed, Served, ServesFetch, NoWord
<1>19. CASE Respond
  BY <1>19 DEF Respond, SyncServed, IsServed, Served, ServesFetch, NoWord
<1>20. CASE WaitFetch
  BY <1>20 DEF WaitFetch, SyncServed, IsServed, Served, ServesFetch, NoWord
<1>21. CASE WaitReply
  BY <1>21 DEF WaitReply, SyncServed, IsServed, Served, ServesFetch, NoWord
<1>22. CASE WaitTimeout
  BY <1>22 DEF WaitTimeout, WriteError, SyncServed, IsServed, Served,
               ServesFetch, NoWord
<1>23. CASE TimeoutUnready
  BY <1>23 DEF TimeoutUnready, SyncServed, IsServed, Served, ServesFetch,
               NoWord
<1>24. CASE ResetCore1
  BY <1>24 DEF ResetCore1, AfterReset, SyncServed, IsServed, Served,
               ServesFetch, NoWord
<1>25. CASE FetchBegin
  BY <1>25 DEF FetchBegin, SyncServed, IsServed, Served, ServesFetch, NoWord
<1>26. CASE FetchRefuse
  BY <1>26, <1>b DEF FetchRefuse, PushToCore1, AfterFetch, SyncServed,
                     IsServed, Served, ServesFetch, NoWord, WorkTags, SyncOps
<1>27. CASE FetchEnd
  BY <1>27, <1>b DEF FetchEnd, PushToCore1, AfterFetch, SyncServed, IsServed,
                     Served, ServesFetch, NoWord, WorkTags, SyncOps
<1>28. CASE C1Boot
  BY <1>28 DEF C1Boot, SyncServed, IsServed, Served, ServesFetch, NoWord
<1>29. CASE C1Raise
  BY <1>29 DEF C1Raise, SyncServed, IsServed, Served, ServesFetch, NoWord
<1>30. CASE C1Pop
  BY <1>30, <1>a, <1>b DEF C1Pop, Handler, SyncServed, IsServed, Served,
                           ServesFetch, NoWord, WorkTags, SyncOps, Core1Works
<1>31. CASE C1Lock
  BY <1>31 DEF C1Lock, SyncServed, IsServed, Served, ServesFetch, NoWord
<1>32. CASE C1Copy
  BY <1>32, <1>a, <1>b, CopyKeeps DEF C1Copy, C1Unlock, SyncServed, IsServed,
                                      Served, ServesFetch, NoWord, Core1Works,
                                      Core1Inv
<1>33. CASE C1Url
  BY <1>33 DEF C1Url, C1Unlock, SyncServed, IsServed, Served, ServesFetch,
               NoWord
<1>34. CASE C1Ask
  BY <1>34, <1>a, <1>b DEF C1Ask, SyncServed, IsServed, Served, ServesFetch,
                           NoWord, Core1Works, Core1Inv
<1>35. CASE C1FetchReply
  BY <1>35, <1>a, <1>b DEF C1FetchReply, SyncServed, IsServed, Served,
                           ServesFetch, NoWord, Core1Works, Core1Inv
<1>36. CASE C1Body
  BY <1>36 DEF C1Body, C1Unlock, SyncServed, IsServed, Served, ServesFetch,
               NoWord
<1>37. CASE C1Reinit
  BY <1>37 DEF C1Reinit, SyncServed, IsServed, Served, ServesFetch, NoWord
<1>38. CASE C1Reready
  BY <1>38 DEF C1Reready, SyncServed, IsServed, Served, ServesFetch, NoWord
<1>39. CASE C1Store
  BY <1>39, <1>a, <1>b DEF C1Store, C1Unlock, SyncServed, IsServed, Served,
                           ServesFetch, NoWord, Core1Works, Core1Inv
<1>40. CASE C1Flush
  BY <1>40, <1>a, <1>b DEF C1Flush, C1Unlock, SyncServed, IsServed, Served,
                           ServesFetch, NoWord, Core1Works, Core1Inv
<1>41. CASE C1Push
  BY <1>41, <1>a, <1>b DEF C1Push, SyncServed, IsServed, Served, ServesFetch,
                           NoWord, Core1Works, Core1Inv, ReplyTag
<1>42. CASE C1FinishUpload
  BY <1>42, <1>a, <1>b DEF C1FinishUpload, SyncServed, IsServed, Served,
                           ServesFetch, NoWord, Core1Works, Core1Inv
<1>43. CASE C1FinishCall
  BY <1>43, <1>a, <1>b DEF C1FinishCall, SyncServed, IsServed, Served,
                           ServesFetch, NoWord, Core1Works, Core1Inv
<1>44. CASE C1Fetch
  BY <1>44 DEF C1Fetch, SyncServed, IsServed, Served, ServesFetch, NoWord
<1> QED
  BY <1>1, <1>2, <1>3, <1>4, <1>5, <1>6, <1>7, <1>8, <1>9, <1>10, <1>11,
     <1>12, <1>13, <1>14, <1>15, <1>16, <1>17, <1>18, <1>19, <1>20, <1>21,
     <1>22, <1>23, <1>24, <1>25, <1>26, <1>27, <1>28, <1>29, <1>30, <1>31,
     <1>32, <1>33, <1>34, <1>35, <1>36, <1>37, <1>38, <1>39, <1>40, <1>41,
     <1>42, <1>43, <1>44 DEF Next, Core0Next, Core1Next, ScriptNext

LEMMA InvInit == Init => WorkerInv
<1> SUFFICES ASSUME Init PROVE WorkerInv
  OBVIOUS
<1>1. TypeOK
  BY InitType
<1>2. Core0Inv /\ Core1Inv /\ OrderInv /\ AnswerInv
  BY DEF Init, Core0Inv, Core1Inv, OrderInv, AnswerInv
<1>3. ReplyAccounting
  BY DEF Init, ReplyAccounting, Outstanding, Expected, Awaits, Core1Works, ServesFetch, NoCmd
<1>4. FetchNotForgotten /\ CallParamsStable
  BY DEF Init, FetchNotForgotten, CallParamsStable, NoWord
<1> QED
  BY <1>1, <1>2, <1>3, <1>4 DEF WorkerInv

LEMMA InvStutter ==
  ASSUME WorkerInv, UNCHANGED vars
  PROVE  WorkerInv'
<1>1. UNCHANGED vars => UNCHANGED <<core0Vars, core1Vars, fifoVars, msgVars, romVars, stVars>>
  BY DEF vars
<1>2. TypeOK'
  BY NextType DEF WorkerInv
<1>3. Core0Inv' /\ Core1Inv' /\ OrderInv'
  BY <1>1 DEF WorkerInv, Core0Inv, Core1Inv, OrderInv, core0Vars, core1Vars, romVars, stVars
<1>4. AnswerInv'
  BY <1>1 DEF WorkerInv, AnswerInv, SyncServed, IsServed, Served, ServesFetch,
              core0Vars, core1Vars, fifoVars, msgVars, romVars
<1>5. ReplyAccounting'
  BY <1>1 DEF WorkerInv, ReplyAccounting, Outstanding, Expected, Awaits, Cancelled,
              Core1Works, ServesFetch, core0Vars, core1Vars, fifoVars
<1>6. FetchNotForgotten' /\ CallParamsStable'
  BY <1>1 DEF WorkerInv, FetchNotForgotten, CallParamsStable, ServesFetch, core0Vars,
              core1Vars, fifoVars, msgVars
<1> QED
  BY <1>2, <1>3, <1>4, <1>5, <1>6 DEF WorkerInv

LEMMA InvNext == WorkerInv /\ [Next]_vars => WorkerInv'
<1> SUFFICES ASSUME WorkerInv, [Next]_vars PROVE WorkerInv'
  OBVIOUS
<1>1. CASE Next
  <2>1. TypeOK'
    BY NextType DEF WorkerInv
  <2> QED
    BY <1>1, <2>1, Core0Step, Core1Step, OrderStep, AnswerStep, AccountingStep, FetchStep,
       CallStep DEF WorkerInv
<1>2. CASE UNCHANGED vars
  BY <1>2, InvStutter
<1> QED
  BY <1>1, <1>2

(* WorkerInv is an inductive invariant of the worker.                       *)
THEOREM WorkerInvariant == Spec => []WorkerInv
BY InvInit, InvNext, PTL DEF Spec

(***************************************************************************)
(* What follows from it.                                                   *)
(***************************************************************************)

(* Every word pushed to Core 1 comes back as exactly one reply.             *)
THEOREM RepliesConserved == Spec => []ReplyAccounting
<1>1. WorkerInv => ReplyAccounting
  BY DEF WorkerInv
<1> QED
  BY <1>1, WorkerInvariant, PTL

(* No reply is under way when Core 0 counts on none.                        *)
THEOREM NoReplyStrays == Spec => []NoStrayReply
<1>1. WorkerInv => NoStrayReply
  BY Quiet
<1> QED
  BY <1>1, WorkerInvariant, PTL

(* The blocking pushes of either core never find a full FIFO.               *)
THEOREM PushesNeverBlock == Spec => []FifosNeverFill
<1>1. WorkerInv => FifosNeverFill
  <2> SUFFICES ASSUME WorkerInv PROVE FifosNeverFill
    OBVIOUS
  <2>1. Expected <= 2
    BY DEF Expected
  <2>2. Outstanding <= 2
    BY <2>1 DEF WorkerInv, ReplyAccounting, Cancelled
  <2>3. Len(toC0) \in Nat /\ Len(toC1) \in Nat
    BY DEF WorkerInv, TypeOK, TypeOKFifo
  <2> QED
    BY <2>2, <2>3 DEF FifosNeverFill, Outstanding
<1> QED
  BY <1>1, WorkerInvariant, PTL

(* A script in fetch() is never left without a request or an answer.        *)
THEOREM FetchIsServed == Spec => []FetchNotForgotten
<1>1. WorkerInv => FetchNotForgotten
  BY DEF WorkerInv
<1> QED
  BY <1>1, WorkerInvariant, PTL

(* Core 1 runs the function and the arguments its CALL word was sent with.  *)
THEOREM CallsRunTheirOwn == Spec => []CallParamsStable
<1>1. WorkerInv => CallParamsStable
  BY DEF WorkerInv
<1> QED
  BY <1>1, WorkerInvariant, PTL

(* With no async call in flight a command gets its own answer.              *)
THEOREM AnswersItsOwn == Spec => []OwnAnswer
<1>1. WorkerInv => OwnAnswer
  BY DEF WorkerInv, OwnAnswer, AnswerInv, IsServed, Core0Inv
<1> QED
  BY <1>1, WorkerInvariant, PTL

(* With no async call in flight an answered RESET has cleared the context.  *)
THEOREM ResetClearsContext == Spec => []ResetClears
<1>1. WorkerInv => ResetClears
  BY DEF WorkerInv, ResetClears, AnswerInv, IsServed, Core0Inv
<1> QED
  BY <1>1, WorkerInvariant, PTL

(* Commands are answered once and in the order they were sent.              *)
THEOREM AnsweredInOrder == Spec => AnsweredOnce
<1>1. WorkerInv /\ [Next]_vars => [pc0 = "respond" /\ pc0' = "loop" => cmd.id > token]_vars
  BY DEF WorkerInv, OrderInv, Core0Inv
<1> QED
  BY <1>1, WorkerInvariant, PTL DEF Spec, AnsweredOnce

(***************************************************************************)
(* The result buffer and the ready byte.                                   *)
(***************************************************************************)

(* Who may write the result buffer, and when.                               *)
LEMMA ResultWriters ==
  ASSUME Next
  PROVE  \/ UNCHANGED resultMem \/ pc1 = "flush"
         \/ pc0 \in {"dispatch", "wait"} \/ (pc0 = "loop" /\ asyncPending)
<1> USE DEF romVars
<1>1. CASE StNext
  BY <1>1 DEF StNext, StopWaiting, Submit
<1>2. CASE Core0Next \/ AsyncExpire
  BY <1>2 DEF Core0Next, StartupDrop, StartupArm, StartupRaise, AsyncExpire,
              DrainNothing, DrainTimeout, DrainFetch, DrainReply,
              ConsumeNothing, ConsumeIgnored, Consume, DispatchBusy,
              DispatchBad, DispatchSync, DispatchAsync, DispatchChunk,
              DispatchPoll, Respond, WaitFetch, WaitReply, WaitTimeout,
              TimeoutUnready, ResetCore1, FetchBegin, FetchRefuse, FetchEnd,
              WriteError, DispatchPing, DispatchUpload, DispatchCall,
              DispatchReset, HandToCore1
<1>3. CASE Core1Next \/ ScriptNext
  BY <1>3 DEF Core1Next, ScriptNext, C1Boot, C1Raise, C1Pop, C1Lock, C1Copy,
              C1Url, C1Ask, C1FetchReply, C1Body, C1Reinit, C1Reready,
              C1Store, C1Flush, C1Push, C1FinishUpload, C1FinishCall, C1Fetch,
              C1Unlock
<1> QED
  BY <1>1, <1>2, <1>3 DEF Next

(* With no async call in flight the ST may read the buffer at leisure.      *)
THEOREM BufferStable == Spec => ResultStable
<1>1. WorkerInv /\ [Next]_vars =>
        [cmd = NoCmd /\ ~asyncPending /\ ~Awaits => resultMem' = resultMem]_vars
  <2> SUFFICES ASSUME WorkerInv, Next, cmd = NoCmd, ~asyncPending, ~Awaits
               PROVE  resultMem' = resultMem
    OBVIOUS
  <2>1. pc1 # "flush"
    BY Quiet DEF NoStrayReply, Core1Works
  <2>2. pc0 \notin {"dispatch", "wait"}
    BY DEF WorkerInv, Core0Inv
  <2> QED
    BY <2>1, <2>2, ResultWriters
<1> QED
  BY <1>1, WorkerInvariant, PTL DEF Spec, ResultStable

(* Core 1 only serves once Core 0 dispatches.                               *)
LEMMA WorksMeansArmed ==
  ASSUME WorkerInv, Core1Works
  PROVE  armed
<1>1. Outstanding # 0
  BY DEF WorkerInv, TypeOK, TypeOKFifo, Outstanding, ServesFetch
<1>2. Expected # 0
  BY <1>1 DEF WorkerInv, ReplyAccounting, Cancelled
<1>3. pc0 # "startup"
  BY <1>2 DEF WorkerInv, Core0Inv, Expected, Awaits
<1> QED
  BY <1>3 DEF WorkerInv, Core0Inv

ReadyInv == ReadyMeansArmed /\ ReadyRaised

LEMMA ReadyStep ==
  ASSUME WorkerInv, ReadyInv, Next
  PROVE  ReadyInv'
<1> USE DEF WorkerInv, ReadyInv, ReadyMeansArmed, ReadyRaised, Core0Inv,
            core0Vars, core1Vars, romVars
<1>1. CASE StNext
  BY <1>1 DEF StNext, StopWaiting, Submit
<1>2. CASE StartupDrop
  BY <1>2 DEF StartupDrop
<1>3. CASE StartupArm
  BY <1>3 DEF StartupArm
<1>4. CASE StartupRaise
  BY <1>4 DEF StartupRaise
<1>5. CASE AsyncExpire
  BY <1>5 DEF AsyncExpire
<1>6. CASE DrainNothing
  BY <1>6 DEF DrainNothing
<1>7. CASE DrainTimeout
  BY <1>7 DEF DrainTimeout, WriteError
<1>8. CASE DrainFetch
  BY <1>8 DEF DrainFetch
<1>9. CASE DrainReply
  BY <1>9 DEF DrainReply
<1>10. CASE ConsumeNothing
  BY <1>10 DEF ConsumeNothing
<1>11. CASE ConsumeIgnored
  BY <1>11 DEF ConsumeIgnored
<1>12. CASE Consume
  BY <1>12 DEF Consume
<1>13. CASE DispatchBusy
  BY <1>13 DEF DispatchBusy, WriteError
<1>14. CASE DispatchBad
  BY <1>14 DEF DispatchBad, WriteError
<1>15. CASE DispatchSync
  BY <1>15 DEF DispatchSync, DispatchPing, DispatchUpload, DispatchCall,
               DispatchReset, HandToCore1, PushToCore1
<1>16. CASE DispatchAsync
  BY <1>16 DEF DispatchAsync, PushToCore1
<1>17. CASE DispatchChunk
  BY <1>17 DEF DispatchChunk
<1>18. CASE DispatchPoll
  BY <1>18 DEF DispatchPoll
<1>19. CASE Respond
  BY <1>19 DEF Respond
<1>20. CASE WaitFetch
  BY <1>20 DEF WaitFetch
<1>21. CASE WaitReply
  BY <1>21 DEF WaitReply
<1>22. CASE WaitTimeout
  BY <1>22 DEF WaitTimeout, WriteError
<1>23. CASE TimeoutUnready
  BY <1>23 DEF TimeoutUnready
<1>24. CASE ResetCore1
  BY <1>24 DEF ResetCore1, AfterReset
<1>25. CASE FetchBegin
  BY <1>25 DEF FetchBegin
<1>26. CASE FetchRefuse
  BY <1>26 DEF FetchRefuse, PushToCore1, AfterFetch
<1>27. CASE FetchEnd
  BY <1>27 DEF FetchEnd, PushToCore1, AfterFetch
<1>28. CASE C1Boot
  BY <1>28 DEF C1Boot
<1>29. CASE C1Raise
  BY <1>29 DEF C1Raise
<1>30. CASE C1Pop
  BY <1>30 DEF C1Pop, Handler
<1>31. CASE C1Lock
  BY <1>31 DEF C1Lock
<1>32. CASE C1Copy
  BY <1>32 DEF C1Copy, C1Unlock
<1>33. CASE C1Url
  BY <1>33 DEF C1Url, C1Unlock
<1>34. CASE C1Ask
  BY <1>34 DEF C1Ask
<1>35. CASE C1FetchReply
  BY <1>35 DEF C1FetchReply
<1>36. CASE C1Body
  BY <1>36 DEF C1Body, C1Unlock
<1>37. CASE C1Reinit
  BY <1>37 DEF C1Reinit
<1>38. CASE C1Reready
  BY <1>38, WorksMeansArmed DEF C1Reready, Core1Works
<1>39. CASE C1Store
  BY <1>39 DEF C1Store, C1Unlock
<1>40. CASE C1Flush
  BY <1>40 DEF C1Flush, C1Unlock
<1>41. CASE C1Push
  BY <1>41 DEF C1Push
<1>42. CASE C1FinishUpload
  BY <1>42 DEF C1FinishUpload
<1>43. CASE C1FinishCall
  BY <1>43 DEF C1FinishCall
<1>44. CASE C1Fetch
  BY <1>44 DEF C1Fetch
<1> QED
  BY <1>1, <1>2, <1>3, <1>4, <1>5, <1>6, <1>7, <1>8, <1>9, <1>10, <1>11,
     <1>12, <1>13, <1>14, <1>15, <1>16, <1>17, <1>18, <1>19, <1>20, <1>21,
     <1>22, <1>23, <1>24, <1>25, <1>26, <1>27, <1>28, <1>29, <1>30, <1>31,
     <1>32, <1>33, <1>34, <1>35, <1>36, <1>37, <1>38, <1>39, <1>40, <1>41,
     <1>42, <1>43, <1>44 DEF Next, Core0Next, Core1Next, ScriptNext

LEMMA ReadyInvariant == Spec => []ReadyInv
<1>1. Init => ReadyInv
  BY DEF Init, ReadyInv, ReadyMeansArmed, ReadyRaised
<1>2. WorkerInv /\ ReadyInv /\ [Next]_vars => ReadyInv'
  <2>1. WorkerInv /\ ReadyInv /\ UNCHANGED vars => ReadyInv'
    BY DEF ReadyInv, ReadyMeansArmed, ReadyRaised, vars, core0Vars, core1Vars, romVars
  <2> QED
    BY <2>1, ReadyStep
<1> QED
  BY <1>1, <1>2, WorkerInvariant, PTL DEF Spec

(* A ready byte that is up promises that commands are dispatched ...        *)
THEOREM ReadyIsArmed == Spec => []ReadyMeansArmed
<1>1. ReadyInv => ReadyMeansArmed
  BY DEF ReadyInv
<1> QED
  BY <1>1, ReadyInvariant, PTL

(* ... and whichever core comes last raises it.                             *)
THEOREM ReadyGetsRaised == Spec => []ReadyRaised
<1>1. ReadyInv => ReadyRaised
  BY DEF ReadyInv
<1> QED
  BY <1>1, ReadyInvariant, PTL

(***************************************************************************)
(* The result of the last call.                                            *)
(***************************************************************************)

(* The call in call_func is the last command answered, or an async one that *)
(* is about to be.                                                          *)
CallCurrent ==
  \/ cmd = NoCmd /\ token = call
  \/ cmd # NoCmd /\ call = cmd.id /\ asyncPending /\ pc0 = "respond"

CallWord == [tag |-> "CALL", id |-> call]

(* Until Core 0 has its reply, everything under way serves that call.       *)
CallServed ==
  /\ Outstanding = 1 /\ op1 \in {NoWord, CallWord}
  /\ \A i \in 1 .. Len(toC1) :
       IF pc1 = "fetching" THEN toC1[i].tag \notin WorkTags ELSE toC1[i] = CallWord
  /\ \A i \in 1 .. Len(toC0) :
       IF toC0[i].tag = "FETCH_REQ" THEN pc1 = "fetching"
                                    ELSE pc1 # "fetching" /\ resultMem.id = call
  /\ ServesFetch => pc1 = "fetching"
  /\ pc1 = "flush" => resultJson.id = call
  /\ pc1 = "push" \/ status # "BUSY" => resultMem.id = call

CallInv ==
  /\ call <= token \/ (cmd # NoCmd /\ call = cmd.id)
  /\ cmd # NoCmd /\ (pc0 = "dispatch" \/ (asyncPending /\ pc0 # "respond")) => call <= token
  /\ CallCurrent /\ asyncPending => CallServed
  /\ CallCurrent /\ ~asyncPending =>
       /\ resultMem.id = call
       /\ pc0 \in {"unready", "reset"} =>
            /\ op1 # NoWord => op1.id = call
            /\ \A i \in 1 .. Len(toC1) : pc1 # "fetching" => toC1[i].id = call
            /\ resultJson.id = call

LEMMA CallInvStep ==
  ASSUME WorkerInv, CallInv, Next
  PROVE  CallInv'
<1> USE DEF WorkerInv, CallInv, CallCurrent, Core0Inv, TypeOK, TypeOK0,
            TypeOKFifo, TypeOKMsg, TypeOKRom, Ids, core0Vars, core1Vars,
            fifoVars, msgVars, romVars
<1>a. ~asyncPending /\ (pc0 = "dispatch" \/ (cmd = NoCmd /\ pc0 \notin {"unready", "reset"})) =>
        toC0 = <<>> /\ toC1 = <<>> /\ ~Core1Works /\ pc1 # "fetching"
  BY Quiet DEF NoStrayReply, Awaits
<1>b. CallCurrent /\ asyncPending =>
        /\ toC0 # <<>> => Len(toC0) = 1 /\ toC1 = <<>> /\ ~Core1Works /\ ~ServesFetch
        /\ toC1 # <<>> => Len(toC1) = 1 /\ toC0 = <<>> /\ ~Core1Works /\ ~ServesFetch
        /\ Core1Works => toC0 = <<>> /\ toC1 = <<>> /\ ~ServesFetch
        /\ ServesFetch => toC0 = <<>> /\ toC1 = <<>> /\ ~Core1Works
  BY OneItem DEF CallServed
<1>c. CallCurrent /\ ~asyncPending => Len(toC1) <= 1
  BY DEF ReplyAccounting, Outstanding, Expected, Cancelled
<1>1. CASE StNext
  BY <1>1 DEF StNext, StopWaiting, Submit, CallServed, CallWord, Outstanding, Core1Works, ServesFetch
<1>2. CASE StartupDrop
  BY <1>2 DEF StartupDrop, CallServed, CallWord, Outstanding, Core1Works,
              ServesFetch, NoWord
<1>3. CASE StartupArm
  BY <1>3 DEF StartupArm, CallServed, CallWord, Outstanding, Core1Works,
              ServesFetch, NoWord
<1>4. CASE StartupRaise
  BY <1>4 DEF StartupRaise, CallServed, CallWord, Outstanding, Core1Works,
              ServesFetch, NoWord
<1>5. CASE AsyncExpire
  BY <1>5 DEF AsyncExpire, CallServed, CallWord, Outstanding, Core1Works,
              ServesFetch, NoWord
<1>6. CASE DrainNothing
  BY <1>6 DEF DrainNothing, CallServed, CallWord, Outstanding, Core1Works,
              ServesFetch, NoWord
<1>7. CASE DrainTimeout
  BY <1>7 DEF DrainTimeout, WriteError, CallServed, CallWord, Outstanding,
              Core1Works, ServesFetch, NoWord
<1>8. CASE DrainFetch
  BY <1>8, <1>b DEF DrainFetch, CallServed, CallWord, Outstanding, Core1Works,
                    ServesFetch, NoWord
<1>9. CASE DrainReply
  BY <1>9, <1>b DEF DrainReply, CallServed, CallWord, Outstanding, Core1Works,
                    ServesFetch, NoWord
<1>10. CASE ConsumeNothing
  BY <1>10 DEF ConsumeNothing, CallServed, CallWord, Outstanding, Core1Works,
               ServesFetch, NoWord
<1>11. CASE ConsumeIgnored
  BY <1>11 DEF ConsumeIgnored, CallServed, CallWord, Outstanding, Core1Works,
               ServesFetch, NoWord
<1>12. CASE Consume
  BY <1>12 DEF Consume, CallServed, CallWord, Outstanding, Core1Works,
               ServesFetch, NoWord
<1>13. CASE DispatchBusy
  BY <1>13 DEF DispatchBusy, WriteError, OrderInv
<1>14. CASE DispatchBad
  BY <1>14 DEF DispatchBad, WriteError, OrderInv
<1>15. CASE DispatchSync
  BY <1>15 DEF DispatchSync, DispatchPing, DispatchUpload, DispatchCall,
               DispatchReset, HandToCore1, PushToCore1, OrderInv
<1>16. CASE DispatchAsync
  BY <1>16, <1>a DEF DispatchAsync, PushToCore1, CallServed, CallWord,
                     Outstanding, Core1Works, ServesFetch, NoWord, OrderInv,
                     Core1Inv, TypeOK1, Pc1
<1>17. CASE DispatchChunk
  BY <1>17 DEF DispatchChunk, OrderInv
<1>18. CASE DispatchPoll
  BY <1>18 DEF DispatchPoll, OrderInv
<1>19. CASE Respond
  <2>1. cmd # NoCmd /\ cmd.id \in Nat /\ token \in Nat /\ call \in Nat /\ cmd.id > token
    BY <1>19, IdTypes DEF Respond, OrderInv
  <2>2. token' = cmd.id /\ cmd' = NoCmd /\ pc0' = "loop"
    BY <1>19 DEF Respond
  <2>3. UNCHANGED <<asyncPending, call, pc1, op1, toC0, toC1, resultJson, resultMem, status>>
    BY <1>19 DEF Respond
  <2>4. CASE call = cmd.id /\ asyncPending
    <3>1. CallServed
      BY <1>19, <2>1, <2>4 DEF Respond
    <3>2. CallServed'
      BY <1>19, <2>2, <2>3, <3>1
         DEF Respond, CallServed, CallWord, Outstanding, Core1Works, ServesFetch
    <3> QED
      BY <2>2, <2>3, <2>4, <3>2
  <2>5. CASE call = cmd.id /\ ~asyncPending
    <3>1. resultMem.id = call
      BY <1>19, <2>1, <2>5 DEF Respond, AnswerInv, IsServed
    <3> QED
      BY <2>2, <2>3, <2>5, <3>1
  <2>6. CASE call # cmd.id
    <3>1. call < token' /\ ~CallCurrent'
      BY <2>1, <2>2, <2>3, <2>6
    <3> QED
      BY <2>1, <2>2, <2>3, <3>1
  <2> QED
    BY <2>4, <2>5, <2>6
<1>20. CASE WaitFetch
  BY <1>20 DEF WaitFetch, OrderInv
<1>21. CASE WaitReply
  BY <1>21 DEF WaitReply, OrderInv
<1>22. CASE WaitTimeout
  BY <1>22 DEF WaitTimeout, WriteError, OrderInv
<1>23. CASE TimeoutUnready
  BY <1>23 DEF TimeoutUnready, CallServed, CallWord, Outstanding, Core1Works,
               ServesFetch, NoWord
<1>24. CASE ResetCore1
  BY <1>24 DEF ResetCore1, AfterReset, OrderInv
<1>25. CASE FetchBegin
  BY <1>25 DEF FetchBegin, CallServed, CallWord, Outstanding, Core1Works,
               ServesFetch, NoWord
<1>26. CASE FetchRefuse
  BY <1>26, <1>b DEF FetchRefuse, PushToCore1, AfterFetch, CallServed,
                     CallWord, Outstanding, Core1Works, ServesFetch, NoWord,
                     WorkTags, SyncOps
<1>27. CASE FetchEnd
  BY <1>27, <1>b DEF FetchEnd, PushToCore1, AfterFetch, CallServed, CallWord,
                     Outstanding, Core1Works, ServesFetch, NoWord, WorkTags,
                     SyncOps
<1>28. CASE C1Boot
  BY <1>28 DEF C1Boot, CallServed, CallWord, Outstanding, Core1Works,
               ServesFetch, NoWord
<1>29. CASE C1Raise
  BY <1>29 DEF C1Raise, CallServed, CallWord, Outstanding, Core1Works,
               ServesFetch, NoWord
<1>30. CASE C1Pop
  BY <1>30, <1>a, <1>b, <1>c DEF C1Pop, Handler, CallServed, CallWord,
                                 Outstanding, Core1Works, ServesFetch, NoWord,
                                 WorkTags, SyncOps
<1>31. CASE C1Lock
  BY <1>31 DEF C1Lock, CallServed, CallWord, Outstanding, Core1Works,
               ServesFetch, NoWord
<1>32. CASE C1Copy
  BY <1>32, <1>a, <1>b, <1>c, CopyKeeps DEF C1Copy, C1Unlock, CallServed,
                                            CallWord, Outstanding, Core1Works,
                                            ServesFetch, NoWord, Core1Inv
<1>33. CASE C1Url
  BY <1>33 DEF C1Url, C1Unlock, CallServed, CallWord, Outstanding, Core1Works,
               ServesFetch, NoWord
<1>34. CASE C1Ask
  BY <1>34, <1>a, <1>b, <1>c DEF C1Ask, CallServed, CallWord, Outstanding,
                                 Core1Works, ServesFetch, NoWord, Core1Inv
<1>35. CASE C1FetchReply
  BY <1>35, <1>a, <1>b, <1>c DEF C1FetchReply, CallServed, CallWord,
                                 Outstanding, Core1Works, ServesFetch, NoWord,
                                 Core1Inv
<1>36. CASE C1Body
  BY <1>36 DEF C1Body, C1Unlock, CallServed, CallWord, Outstanding,
               Core1Works, ServesFetch, NoWord
<1>37. CASE C1Reinit
  BY <1>37 DEF C1Reinit, CallServed, CallWord, Outstanding, Core1Works,
               ServesFetch, NoWord
<1>38. CASE C1Reready
  BY <1>38 DEF C1Reready, CallServed, CallWord, Outstanding, Core1Works,
               ServesFetch, NoWord
<1>39. CASE C1Store
  BY <1>39, <1>a, <1>b, <1>c DEF C1Store, C1Unlock, CallServed, CallWord,
                                 Outstanding, Core1Works, ServesFetch, NoWord,
                                 Core1Inv
<1>40. CASE C1Flush
  BY <1>40, <1>a, <1>b, <1>c DEF C1Flush, C1Unlock, CallServed, CallWord,
                                 Outstanding, Core1Works, ServesFetch, NoWord,
                                 Core1Inv
<1>41. CASE C1Push
  BY <1>41, <1>a, <1>b, <1>c DEF C1Push, CallServed, CallWord, Outstanding,
                                 Core1Works, ServesFetch, NoWord, Core1Inv,
                                 ReplyTag
<1>42. CASE C1FinishUpload
  BY <1>42, <1>a, <1>b, <1>c DEF C1FinishUpload, CallServed, CallWord,
                                 Outstanding, Core1Works, ServesFetch, NoWord,
                                 Core1Inv
<1>43. CASE C1FinishCall
  BY <1>43, <1>a, <1>b, <1>c DEF C1FinishCall, CallServed, CallWord,
                                 Outstanding, Core1Works, ServesFetch, NoWord,
                                 Core1Inv
<1>44. CASE C1Fetch
  BY <1>44 DEF C1Fetch, CallServed, CallWord, Outstanding, Core1Works,
               ServesFetch, NoWord
<1> QED
  BY <1>1, <1>2, <1>3, <1>4, <1>5, <1>6, <1>7, <1>8, <1>9, <1>10, <1>11,
     <1>12, <1>13, <1>14, <1>15, <1>16, <1>17, <1>18, <1>19, <1>20, <1>21,
     <1>22, <1>23, <1>24, <1>25, <1>26, <1>27, <1>28, <1>29, <1>30, <1>31,
     <1>32, <1>33, <1>34, <1>35, <1>36, <1>37, <1>38, <1>39, <1>40, <1>41,
     <1>42, <1>43, <1>44 DEF Next, Core0Next, Core1Next, ScriptNext

LEMMA CallInvariant == Spec => []CallInv
<1>1. Init => CallInv
  BY DEF Init, CallInv, CallCurrent
<1>2. WorkerInv /\ CallInv /\ [Next]_vars => CallInv'
  <2>1. WorkerInv /\ CallInv /\ UNCHANGED vars => CallInv'
    BY DEF CallInv, CallCurrent, CallServed, CallWord, Outstanding, Core1Works, ServesFetch,
           vars, core0Vars, core1Vars, fifoVars, msgVars, romVars
  <2> QED
    BY <2>1, CallInvStep
<1> QED
  BY <1>1, <1>2, WorkerInvariant, PTL DEF Spec

(* The status byte leaves BUSY with the result of the very call the ST made. *)
THEOREM CallResultArrives == Spec => []CallResultIntact
<1>1. CallInv => CallResultIntact
  BY DEF CallInv, CallResultIntact, CallCurrent, CallServed
<1> QED
  BY <1>1, CallInvariant, PTL

(***************************************************************************)
(* The editor over the worker.                                             *)
(***************************************************************************)

(* Where the editor is decides whether it waits for a token.                *)
Places ==
  /\ at \in {"loop", "ping", "upload", "call", "result", "fail", "polled", "pinged", "uploaded",
             "called"}
  /\ at \in {"loop", "ping", "upload", "call", "result", "fail", "polled"} => st = "idle"
  /\ at \in {"pinged", "uploaded", "called"} => st = "waiting"
  /\ at = "result" => mode # "async"

(* With no command given up and none sent beside an async call, the ST is   *)
(* never ahead of the worker by more than the command it waits for, an      *)
(* async call in flight is the last command sent, and what the result       *)
(* buffer holds otherwise answers the last token.                           *)
Calm ==
  /\ st = "idle" => token = sent
  /\ sent <= token + 1
  /\ asyncPending => CallCurrent /\ call = sent
  /\ cmd = NoCmd /\ ~asyncPending =>
       resultMem.id = token /\ (pc0 \in {"unready", "reset"} => token = call)
  /\ mode # "async" /\ at \in {"called", "result"} =>
       ~asyncPending /\ slot.op # "CALL_ASYNC" /\ cmd.op # "CALL_ASYNC"
  /\ at = "polled" => status # "BUSY"
  /\ at = "loop" /\ shown.src \in {"call", "poll"} => shown.id = want

EditorInv == want = sent /\ Places /\ (~astray /\ ~raced => Calm)

LEMMA EditorSteps ==
  ASSUME [EditorNext]_allVars
  PROVE  [Next]_vars
<1>1. CASE EditorNext
  <2>1. CASE Worker /\ UNCHANGED edVars
    BY <2>1 DEF Worker, Next, ScriptNext
  <2>2. CASE Send
    BY <2>2, EditorOpsAssumption DEF Send, Op, Next, StNext
  <2>3. CASE Accepted \/ GivenUp
    BY <2>3 DEF Accepted, GivenUp, Next, StNext
  <2>4. CASE Refused \/ ShowResult \/ ShowError \/ ShowPolled \/ Poll
    BY <2>4 DEF Refused, ShowResult, ShowError, ShowPolled, Poll
  <2>5. CASE \E m \in Modes : Run(m)
    BY <2>5 DEF Run
  <2> QED
    BY <1>1, <2>1, <2>2, <2>3, <2>4, <2>5 DEF EditorNext, EditorStep
<1>2. CASE UNCHANGED allVars
  BY <1>2 DEF allVars
<1> QED
  BY <1>1, <1>2

(* The editor's runs are runs of the worker: it is one of the ST programs   *)
(* the worker's theorems speak of.                                          *)
THEOREM EditorIsAClient == EditorSpec => Spec
<1>1. EditorInit => Init
  BY DEF EditorInit
<1> QED
  BY <1>1, EditorSteps, PTL DEF EditorSpec, Spec

LEMMA WorkerKeepsCalm ==
  ASSUME WorkerInv, CallInv, EditorInv, Worker, UNCHANGED edVars
  PROVE  UNCHANGED <<st, sent>> /\ (Calm => Calm')
<1> USE DEF WorkerInv, EditorInv, Calm, CallCurrent, Core0Inv, TypeOK, TypeOK0, TypeOKMsg,
            TypeOKRom, TypeOKSt, Ids, Command, NoCmd, core0Vars, core1Vars, fifoVars, msgVars,
            romVars, stVars, edVars
<1>a. ~asyncPending /\ cmd = NoCmd /\ pc0 \notin {"unready", "reset"} => ~Core1Works
  BY Quiet DEF NoStrayReply, Awaits
<1>1. CASE StartupDrop
  BY <1>1 DEF StartupDrop
<1>2. CASE StartupArm
  BY <1>2 DEF StartupArm
<1>3. CASE StartupRaise
  BY <1>3 DEF StartupRaise
<1>4. CASE AsyncExpire
  BY <1>4 DEF AsyncExpire
<1>5. CASE DrainNothing
  BY <1>5 DEF DrainNothing
<1>6. CASE DrainTimeout
  BY <1>6 DEF DrainTimeout, WriteError
<1>7. CASE DrainFetch
  BY <1>7 DEF DrainFetch
<1>8. CASE DrainReply
  BY <1>8 DEF DrainReply, CallInv, CallServed
<1>9. CASE ConsumeNothing
  BY <1>9 DEF ConsumeNothing
<1>10. CASE ConsumeIgnored
  BY <1>10 DEF ConsumeIgnored
<1>11. CASE Consume
  BY <1>11 DEF Consume, OrderInv
<1>12. CASE DispatchBusy
  BY <1>12 DEF DispatchBusy, WriteError, OrderInv
<1>13. CASE DispatchBad
  BY <1>13 DEF DispatchBad, WriteError
<1>14. CASE DispatchSync
  BY <1>14 DEF DispatchSync, DispatchPing, DispatchUpload, DispatchCall, DispatchReset, HandToCore1, PushToCore1
<1>15. CASE DispatchAsync
  BY <1>15 DEF DispatchAsync, PushToCore1, OrderInv, Places
<1>16. CASE DispatchChunk
  BY <1>16 DEF DispatchChunk
<1>17. CASE DispatchPoll
  BY <1>17 DEF DispatchPoll
<1>18. CASE Respond
  BY <1>18 DEF Respond, OrderInv, AnswerInv, IsServed
<1>19. CASE WaitFetch
  BY <1>19 DEF WaitFetch
<1>20. CASE WaitReply
  BY <1>20 DEF WaitReply
<1>21. CASE WaitTimeout
  BY <1>21 DEF WaitTimeout, WriteError
<1>22. CASE TimeoutUnready
  BY <1>22 DEF TimeoutUnready
<1>23. CASE ResetCore1
  BY <1>23 DEF ResetCore1, AfterReset
<1>24. CASE FetchBegin
  BY <1>24 DEF FetchBegin
<1>25. CASE FetchRefuse
  BY <1>25 DEF FetchRefuse, PushToCore1, AfterFetch
<1>26. CASE FetchEnd
  BY <1>26 DEF FetchEnd, PushToCore1, AfterFetch
<1>27. CASE C1Boot
  BY <1>27 DEF C1Boot
<1>28. CASE C1Raise
  BY <1>28 DEF C1Raise
<1>29. CASE C1Pop
  BY <1>29 DEF C1Pop, Handler
<1>30. CASE C1Lock
  BY <1>30 DEF C1Lock
<1>31. CASE C1Copy
  BY <1>31 DEF C1Copy, C1Unlock
<1>32. CASE C1Url
  BY <1>32 DEF C1Url, C1Unlock
<1>33. CASE C1Ask
  BY <1>33 DEF C1Ask
<1>34. CASE C1FetchReply
  BY <1>34 DEF C1FetchReply
<1>35. CASE C1Body
  BY <1>35 DEF C1Body, C1Unlock
<1>36. CASE C1Reinit
  BY <1>36 DEF C1Reinit
<1>37. CASE C1Reready
  BY <1>37 DEF C1Reready
<1>38. CASE C1Store
  BY <1>38 DEF C1Store, C1Unlock
<1>39. CASE C1Flush
  BY <1>39, <1>a DEF C1Flush, C1Unlock, CallInv, Core1Inv, Core1Works
<1>40. CASE C1Push
  BY <1>40 DEF C1Push
<1>41. CASE C1FinishUpload
  BY <1>41 DEF C1FinishUpload
<1>42. CASE C1FinishCall
  BY <1>42 DEF C1FinishCall
<1> QED
  BY <1>1, <1>2, <1>3, <1>4, <1>5, <1>6, <1>7, <1>8, <1>9, <1>10, <1>11, <1>12, <1>13,
     <1>14, <1>15, <1>16, <1>17, <1>18, <1>19, <1>20, <1>21, <1>22, <1>23, <1>24, <1>25,
     <1>26, <1>27, <1>28, <1>29, <1>30, <1>31, <1>32, <1>33, <1>34, <1>35, <1>36, <1>37,
     <1>38, <1>39, <1>40, <1>41, <1>42 DEF Worker, Core0Next, Core1Next

LEMMA EditorKeepsInv ==
  ASSUME WorkerInv, CallInv, EditorInv, [EditorNext]_allVars
  PROVE  EditorInv'
<1> USE DEF EditorInv, Places
<1>a. /\ token \in Nat /\ sent \in Nat
      /\ cmd # NoCmd => cmd.id > token /\ cmd.id <= sent
      /\ slot # NoCmd => slot.id > token /\ slot.id <= sent
  BY DEF WorkerInv, TypeOK, TypeOKRom, TypeOKSt, OrderInv, Ids, NoCmd
<1>b. st = "idle" /\ Calm => cmd = NoCmd /\ slot = NoCmd
  BY <1>a DEF Calm, WorkerInv, TypeOK, TypeOK0, TypeOKSt, Command, Ids, NoCmd
<1>1. CASE Worker /\ UNCHANGED edVars
  BY <1>1, WorkerKeepsCalm DEF edVars
<1>2. CASE Send
  <2>1. /\ at \in {"ping", "upload", "call"} /\ st = "idle" /\ st' = "waiting" /\ at' = Waits(at)
        /\ want' = sent' /\ sent' = sent + 1 /\ slot' \in {[op |-> Op, id |-> sent'], slot}
    BY <1>2 DEF Send, Submit
  <2>2. raced' = (raced \/ asyncPending) /\ astray' = astray
    BY <1>2 DEF Send
  <2>3. UNCHANGED <<pc0, cmd, asyncPending, call, resultMem, status, token, mode, shown>>
    BY <1>2 DEF Send, Submit, core0Vars, msgVars, romVars
  <2>4. Places'
    BY <2>1 DEF Waits
  <2>5. ASSUME ~astray', ~raced'
        PROVE  Calm'
    <3>1. ~astray /\ ~raced /\ ~asyncPending
      BY <2>2, <2>5, Zenon
    <3>2. Calm /\ token = sent /\ cmd = NoCmd /\ slot = NoCmd
      BY <2>1, <3>1, <1>b DEF Calm
    <3>3. at' \in {"pinged", "uploaded", "called"} /\ (at' = "called" => at = "call")
      BY <2>1 DEF Waits
    <3>4. mode # "async" /\ at = "call" => slot'.op # "CALL_ASYNC"
      BY <2>1, <3>2 DEF Op, NoCmd
    <3>5. cmd'.op # "CALL_ASYNC" /\ ~asyncPending'
      BY <2>3, <3>1, <3>2 DEF NoCmd
    <3>6. sent' <= token' + 1
      BY <2>1, <2>3, <3>2, <1>a
    <3> QED
      BY <2>1, <2>3, <3>2, <3>3, <3>4, <3>5, <3>6 DEF Calm
  <2> QED
    BY <2>1, <2>4, <2>5
<1>3. CASE Accepted
  <2>1. /\ st = "waiting" /\ token = sent /\ st' = "idle"
        /\ at \in {"pinged", "uploaded", "called"} /\ at' \in {"upload", "call", "loop", "result"}
        /\ at' = "result" => at = "called" /\ mode # "async"
        /\ at' = "loop" => shown' = Running
    BY <1>3 DEF Accepted, StopWaiting
  <2>2. UNCHANGED <<sent, slot, pc0, cmd, asyncPending, call, resultMem, status, token, mode,
                    want, astray, raced>>
    BY <1>3 DEF Accepted, StopWaiting, core0Vars, msgVars, romVars
  <2>3. Places'
    BY <2>1, <2>2
  <2>4. Calm => Calm'
    BY <2>1, <2>2, <1>a DEF Calm, CallCurrent, Running, Shown
  <2> QED
    BY <2>2, <2>3, <2>4
<1>4. CASE GivenUp
  BY <1>4 DEF GivenUp, StopWaiting
<1>5. CASE Refused
  BY <1>5 DEF Refused, Calm, CallCurrent, vars, core0Vars, msgVars, romVars, stVars, Message, Shown
<1>6. CASE ShowResult
  BY <1>6, <1>b DEF ShowResult, Calm, CallCurrent, vars, core0Vars, msgVars, romVars, stVars, Shown
<1>7. CASE ShowError
  BY <1>7 DEF ShowError, Calm, CallCurrent, vars, core0Vars, msgVars, romVars, stVars, Message, Shown
<1>8. CASE Poll
  BY <1>8 DEF Poll, Settled, Calm, CallCurrent, vars, core0Vars, msgVars, romVars, stVars
<1>9. CASE ShowPolled
  BY <1>9, <1>b DEF ShowPolled, Calm, CallInv, CallServed, CallCurrent, vars, core0Vars, msgVars,
                    romVars, stVars, Message, Shown
<1>10. CASE \E m \in Modes : Run(m)
  <2>1. PICK m \in Modes : Run(m)
    BY <1>10
  <2>2. /\ at = "loop" /\ at' \in {"ping", "loop"} /\ astray' = (astray \/ asyncCall)
        /\ shown' = shown \/ shown' = Message
    BY <2>1 DEF Run
  <2>3. UNCHANGED <<st, sent, slot, pc0, cmd, asyncPending, call, resultMem, status, token,
                    want, raced>>
    BY <2>1 DEF Run, vars, core0Vars, msgVars, romVars, stVars
  <2>4. ~astray' => ~astray
    BY <2>2, Zenon
  <2>5. Calm => Calm'
    BY <2>2, <2>3 DEF Calm, CallCurrent, Message, Shown
  <2> QED
    BY <2>2, <2>3, <2>4, <2>5
<1>11. CASE UNCHANGED allVars
  BY <1>11 DEF allVars, edVars, Calm, CallCurrent, vars, core0Vars, msgVars, romVars, stVars
<1> QED
  BY <1>1, <1>2, <1>3, <1>4, <1>5, <1>6, <1>7, <1>8, <1>9, <1>10, <1>11
     DEF EditorNext, EditorStep

(* A result in the editor's window is that of the call it is shown for, with *)
(* no command given up and none sent beside an async call (main.c:957, 1346). *)
THEOREM WindowShowsItsResult == EditorSpec => []ShowsItsResult
<1>1. EditorInit => EditorInv
  BY DEF EditorInit, Init, EditorInv, Places, Calm, Message, Shown
<1>2. EditorSpec => [](WorkerInv /\ CallInv)
  BY EditorIsAClient, WorkerInvariant, CallInvariant, PTL
<1>3. EditorInv => ShowsItsResult
  BY DEF EditorInv, Calm, ShowsItsResult
<1> QED
  BY <1>1, <1>2, <1>3, EditorKeepsInv, PTL DEF EditorSpec
=============================================================================
