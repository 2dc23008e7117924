---------------------------- MODULE UploadProofs ----------------------------
(***************************************************************************)
(* mdjs_upload, for every size of the buffer, number of commands and kind  *)
(* of command: js_source never overflows and its length never runs away    *)
(* from what is stored, though Core 0 and Core 1 both write the length;    *)
(* and an upload or a RESET that begins with the cartridge at rest and     *)
(* returns 0 has done what it says.                                        *)
(*                                                                         *)
(* For the first, Core 0 appends to what the length covers, and Core 1     *)
(* only clears length and counter together.  For the second, CalmInv       *)
(* follows the call from the command buffer to Core 1 and back: nothing    *)
(* else is in the cartridge, and no word goes between the cores that is    *)
(* not its own (CoreInv).                                                  *)
(***************************************************************************)
EXTENDS Upload, SequenceTheorems, TLAPS

(* What a chunk is does not matter.                                        *)
StoreInv ==
  /\ \E S : source \in Seq(S)
  /\ len \in 0 .. Cap /\ len = received /\ len <= Len(source)

LEMMA OverwrittenIsLonger ==
  ASSUME NEW S, NEW old \in Seq(S), NEW new \in Seq(S)
  PROVE  Overwrite(old, new) \in Seq(S) /\ Len(Overwrite(old, new)) >= Len(new)
<1>1. SubSeq(old, Len(new) + 1, Len(old)) \in Seq(S)
  <2>1. Len(new) \in Nat /\ Len(old) \in Nat
    OBVIOUS
  <2>2. \A i \in Len(new) + 1 .. Len(old) : i \in 1 .. Len(old) /\ old[i] \in S
    BY <2>1
  <2> QED
    BY <2>1, <2>2, SubSeqProperties
<1> QED
  BY <1>1, ConcatProperties DEF Overwrite

LEMMA StoreKeeps ==
  ASSUME StoreInv, StoreChunk PROVE StoreInv'
<1> DEFINE c    == Cmd
           text == Assembled(c).text
           it   == [u |-> c.u, i |-> c.i]
<1>1. PICK S : source \in Seq(S)
  BY DEF StoreInv
<1>2. len \in Nat /\ len <= Len(source) /\ len = received /\ Len(source) \in Nat
  BY <1>1, CapAssumption DEF StoreInv
<1>3. text \in Seq(S) /\ Len(text) = Assembled(c).got
  <2>1. CASE c.i = 0
    <3>1. text = <<>> /\ Assembled(c).got = 0
      BY <2>1 DEF Assembled
    <3> QED
      BY <3>1
  <2>2. CASE c.i # 0
    <3>1. text = SubSeq(source, 1, len) /\ Assembled(c).got = received
      BY <2>2 DEF Assembled
    <3>2. SubSeq(source, 1, len) \in Seq(S) /\ Len(SubSeq(source, 1, len)) = len
      BY <1>1, <1>2
    <3> QED
      BY <1>2, <3>1, <3>2
  <2> QED
    BY <2>1, <2>2
<1>4. /\ source' = Overwrite(source, Append(text, it)) /\ len' = Len(text) + 1
      /\ received' = Assembled(c).got + 1 /\ Len(text) < Cap
  BY DEF StoreChunk, Store, Fits
<1> HIDE DEF c, text, it
<1>5. source \in Seq(S \union {it}) /\ text \in Seq(S \union {it})
  BY <1>1, <1>3
<1>6. Append(text, it) \in Seq(S \union {it}) /\ Len(Append(text, it)) = Len(text) + 1
  BY <1>5
<1>7. source' \in Seq(S \union {it}) /\ Len(source') >= len'
  BY <1>4, <1>5, <1>6, OverwrittenIsLonger
<1>8. len' \in 0 .. Cap /\ len' = received' /\ len' <= Len(source')
  BY <1>3, <1>4, <1>5, <1>7, CapAssumption
<1> QED
  BY <1>7, <1>8 DEF StoreInv

LEMMA StoreInitInv == Init => StoreInv
<1>1. <<>> \in Seq({}) /\ Len(<<>>) = 0
  OBVIOUS
<1> QED
  BY <1>1, CapAssumption DEF Init, StoreInv

(* Every other step leaves the text alone, or clears it.                   *)
LEMMA OthersKeep ==
  ASSUME StoreInv, [Next]_vars, ~StoreChunk PROVE StoreInv'
<1>1. UNCHANGED msgVars \/ C1Reset
  <2>1. CASE ClientStep
    BY <2>1 DEF ClientStep, BeginUpload, BeginReset, BeginAsync, Begin, SendCommand, LooksAtToken,
                LooksAtSeed, GivesUp
  <2>2. CASE Core0Step
    BY <2>2 DEF Core0Step, DrainReply, DrainTimeout, Consume, RefuseChunk, DispatchReset,
                DispatchAsync, WaitReply, WaitTimeout, Respond
  <2>3. CASE Core1Step
    BY <2>3 DEF Core1Step, C1Pop, C1Copy, C1Parse, C1Run, C1Reply
  <2> QED
    BY <2>1, <2>2, <2>3 DEF Next, vars
<1>2. CASE UNCHANGED msgVars
  BY <1>2 DEF msgVars, StoreInv
<1>3. CASE C1Reset
  <2>1. source' = source /\ len' = 0 /\ received' = 0
    BY <1>3 DEF C1Reset
  <2>2. \E S : source \in Seq(S) /\ Len(source) \in Nat
    BY DEF StoreInv
  <2> QED
    BY <2>1, <2>2, CapAssumption DEF StoreInv
<1> QED
  BY <1>1, <1>2, <1>3

(* No chunk is ever stored beyond js_source, whatever was lost, given up,  *)
(* mixed up or cleared before it.                                          *)
THEOREM SourceAlwaysFits == Spec => []SourceFits
<1>1. Init => StoreInv
  BY StoreInitInv
<1>2. StoreInv /\ [Next]_vars => StoreInv'
  BY StoreKeeps, OthersKeep
<1>3. StoreInv => SourceFits
  BY DEF StoreInv, SourceFits
<1> QED
  BY <1>1, <1>2, <1>3, PTL DEF Spec

(***************************************************************************)
(* What an upload or a RESET finds and leaves                              *)
(***************************************************************************)

(* Core 0 and Core 1 count alike: every word on its way to Core 1, at work *)
(* there or on its way back is one that Core 0 waits for, or the one of    *)
(* the async call.                                                         *)
CoreInv ==
  /\ pc0 \in {"loop", "dispatch", "wait", "respond"}
  /\ pc1 \in {"idle", "copy", "parse", "reset", "reply"}
  /\ async \in {"no", "pending", "expired"}
  /\ toC1 \in Seq({"UPLOAD", "RESET", "CALL"}) /\ toC0 \in Nat
  /\ busy = <<>> <=> pc0 = "loop"
  /\ half => pc0 = "respond"
  /\ async = "expired" => pc0 \in {"loop", "respond"}
  /\ Len(toC1) + (IF pc1 = "idle" THEN 0 ELSE 1) + toC0
       = (IF async = "pending" THEN 1 ELSE 0) + (IF pc0 = "wait" THEN 1 ELSE 0)

ProgInv ==
  /\ sent \in Nat
  /\ \/ prog = NoCall \/ prog = [op |-> "async"]
     \/ prog \in [op : {"reset"}, atRest : BOOLEAN]
     \/ /\ prog \in [op : {"upload"}, u : Nat, i : Nat, t : Nat, atRest : BOOLEAN]
        /\ prog.i < prog.t

(* The call under way is one of those the properties speak of.             *)
Calm ==
  \/ prog.op = "reset" /\ prog.atRest
  \/ prog.op = "upload" /\ prog.atRest /\ prog.t <= Cap

Chunk(u, k) == [u |-> u, i |-> k - 1]

(* The first k chunks of the upload are in js_source.                      *)
Filled(k) ==
  k > 0 => /\ len = k /\ received = k /\ expected = prog.t
           /\ k <= Len(source) /\ \A j \in 1 .. k : source[j] = Chunk(prog.u, j)

Forgotten == evaluated = <<>> /\ len = 0 /\ received = 0 /\ expected = 0

(* Before and after Core 0 has carried out the command that the call is at. *)
NotYet   == prog.op = "upload" => Filled(prog.i)
Finished ==
  IF prog.op = "reset" THEN Forgotten
  ELSE /\ Filled(prog.i + 1)
       /\ prog.i + 1 = prog.t => evaluated = Text(prog.u, prog.t)

(* Core 1 at work on it.                                                   *)
Working ==
  IF prog.op = "reset"
  THEN \/ toC1 = <<"RESET">> \/ pc1 = "reset"
       \/ (pc1 = "reply" \/ toC0 > 0) /\ Forgotten
  ELSE /\ prog.i + 1 = prog.t /\ Filled(prog.t)
       /\ \/ toC1 = <<"UPLOAD">> \/ pc1 = "copy"
          \/ /\ pc1 = "parse" /\ copyLen = prog.t
             /\ \E n \in 0 .. prog.t : parsed = Text(prog.u, n)
          \/ (pc1 = "reply" \/ toC0 > 0) /\ evaluated = Text(prog.u, prog.t)

(* A command in the cartridge is the one that the call waits for.          *)
IsIts(q) == q # <<>> => q[1].body = Says(prog)

CalmInv ==
  Calm =>
    /\ async = "no" /\ (slot = <<>> \/ busy = <<>>) /\ IsIts(slot) /\ IsIts(busy)
    /\ st = "idle" => slot = <<>> /\ busy = <<>> /\ NotYet
    /\ st # "idle" =>
         \/ seedMem = mine /\ pc0 = "loop" /\ (slot # <<>> => NotYet)
         \/ seedMem = mine /\ pc0 = "dispatch" /\ NotYet
         \/ seedMem = mine /\ pc0 = "wait" /\ Working
         \/ seedMem = mine /\ pc0 = "respond" /\ Finished
         \/ seedMem # mine /\ pc0 = "loop" /\ slot = <<>> /\ Finished

UploadInv == StoreInv /\ CoreInv /\ ProgInv /\ CalmInv

LEMMA CoreInitInv == Init => CoreInv
<1> SUFFICES ASSUME Init PROVE CoreInv
  OBVIOUS
<1>1. <<>> \in Seq({"UPLOAD", "RESET", "CALL"}) /\ Len(<<>>) = 0
  OBVIOUS
<1> QED
  BY <1>1 DEF Init, HandshakeInit, CoreInv

LEMMA CoreKept == CoreInv /\ [Next]_vars => CoreInv'
<1> SUFFICES ASSUME CoreInv, [Next]_vars PROVE CoreInv'
  OBVIOUS
<1> DEFINE W == {"UPLOAD", "RESET", "CALL"}
<1>0. toC1 \in Seq(W) /\ Len(toC1) \in Nat /\ toC0 \in Nat /\ Len(<<>>) = 0 /\ <<>> \in Seq(W)
  BY DEF CoreInv
<1>1. ASSUME NEW w \in W
      PROVE  Append(toC1, w) \in Seq(W) /\ Len(Append(toC1, w)) = Len(toC1) + 1
  BY <1>0, AppendProperties
<1>2. CASE ClientStep
  <2>1. UNCHANGED <<busy, half, coreVars, fifoVars, pc1>>
    BY <1>2 DEF ClientStep, BeginUpload, BeginReset, BeginAsync, Begin, SendCommand, LooksAtToken,
                LooksAtSeed, GivesUp, Send, SeeToken, SeeSeed, GiveUp, handshakeVars, rpVars, core1Vars
  <2> QED
    BY <2>1 DEF CoreInv, coreVars, fifoVars
<1>3. CASE DrainReply
  BY <1>0, <1>3 DEF DrainReply, CoreInv, handshakeVars, rpVars, core1Vars
<1>4. CASE DrainTimeout
  BY <1>0, <1>4 DEF DrainTimeout, RestartCore1, CoreInv, handshakeVars, rpVars
<1>5. CASE Consume
  BY <1>0, <1>5 DEF Consume, Take, CoreInv, fifoVars, core1Vars
<1>6. CASE RefuseChunk
  BY <1>0, <1>6 DEF RefuseChunk, CoreInv, handshakeVars, rpVars, fifoVars, core1Vars
<1>7. CASE StoreChunk
  <2>1. /\ pc0 = "dispatch" /\ async' = async /\ toC0' = toC0 /\ pc1' = pc1
        /\ busy' = busy /\ half' = half
        /\ \/ toC1' = Append(toC1, "UPLOAD") /\ pc0' = "wait"
           \/ toC1' = toC1 /\ pc0' = "respond"
    BY <1>7 DEF StoreChunk, handshakeVars, rpVars, core1Vars
  <2> QED
    BY <1>0, <1>1, <2>1 DEF CoreInv
<1>8. CASE DispatchReset
  <2>1. /\ pc0 = "dispatch" /\ async' = async /\ toC0' = toC0 /\ pc1' = pc1
        /\ busy' = busy /\ half' = half
        /\ toC1' = Append(toC1, "RESET") /\ pc0' = "wait"
    BY <1>8 DEF DispatchReset, handshakeVars, rpVars, core1Vars
  <2> QED
    BY <1>0, <1>1, <2>1 DEF CoreInv
<1>9. CASE DispatchAsync
  <2>1. /\ pc0 = "dispatch" /\ pc0' = "respond" /\ toC0' = toC0 /\ pc1' = pc1
        /\ busy' = busy /\ half' = half
        /\ \/ async = "no" /\ async' = "pending" /\ toC1' = Append(toC1, "CALL")
           \/ async' = async /\ toC1' = toC1
    BY <1>9 DEF DispatchAsync, handshakeVars, rpVars, core1Vars
  <2> QED
    BY <1>0, <1>1, <2>1 DEF CoreInv
<1>10. CASE WaitReply
  BY <1>0, <1>10 DEF WaitReply, CoreInv, handshakeVars, rpVars, core1Vars
<1>11. CASE WaitTimeout
  BY <1>0, <1>11 DEF WaitTimeout, RestartCore1, CoreInv, handshakeVars, rpVars
<1>12. CASE Respond
  BY <1>0, <1>12 DEF Respond, AnswerToken, AnswerSeed, CoreInv, fifoVars, core1Vars
<1>13. CASE C1Pop
  <2>1. toC1 # <<>>
    BY <1>13 DEF C1Pop
  <2>2. Tail(toC1) \in Seq(W) /\ Len(Tail(toC1)) = Len(toC1) - 1 /\ Head(toC1) \in W
    BY <1>0, <2>1, HeadTailProperties
  <2>3. pc1' \in {"copy", "reset", "reply"} /\ toC1' = Tail(toC1) /\ pc1 = "idle"
    BY <1>13, <2>2 DEF C1Pop
  <2>4. UNCHANGED <<busy, half, pc0, async, toC0>>
    BY <1>13 DEF C1Pop, handshakeVars, rpVars, coreVars
  <2> QED
    BY <1>0, <2>2, <2>3, <2>4 DEF CoreInv
<1>14. CASE C1Copy \/ C1Parse \/ C1Run \/ C1Reset
  <2>1. /\ UNCHANGED <<busy, half, pc0, async, toC1, toC0>>
        /\ pc1 # "idle" /\ pc1' \in {"parse", "reply"}
    BY <1>14 DEF C1Copy, C1Parse, C1Run, C1Reset, handshakeVars, rpVars, coreVars, fifoVars
  <2> QED
    BY <1>0, <2>1 DEF CoreInv
<1>15. CASE C1Reply
  BY <1>0, <1>15 DEF C1Reply, CoreInv, handshakeVars, rpVars, coreVars
<1>16. CASE UNCHANGED vars
  BY <1>16 DEF CoreInv, vars, handshakeVars, rpVars, coreVars, fifoVars, core1Vars
<1> QED
  BY <1>2, <1>3, <1>4, <1>5, <1>6, <1>7, <1>8, <1>9, <1>10, <1>11, <1>12, <1>13, <1>14, <1>15,
     <1>16 DEF Next, Core0Step, Core1Step

(* Without an async call, one word at most is on its way, and only while   *)
(* Core 0 waits for it.                                                    *)
LEMMA OneWord ==
  ASSUME CoreInv, async = "no"
  PROVE  /\ pc0 # "wait" => toC1 = <<>> /\ pc1 = "idle" /\ toC0 = 0
         /\ pc1 # "idle" => pc0 = "wait" /\ toC1 = <<>> /\ toC0 = 0
         /\ toC1 # <<>> => pc0 = "wait" /\ pc1 = "idle" /\ toC0 = 0 /\ Len(toC1) = 1
         /\ toC0 > 0 => pc0 = "wait" /\ pc1 = "idle" /\ toC1 = <<>> /\ toC0 = 1
<1>1. toC1 \in Seq({"UPLOAD", "RESET", "CALL"}) /\ Len(toC1) \in Nat /\ toC0 \in Nat
  BY DEF CoreInv
<1>2. (toC1 = <<>>) <=> (Len(toC1) = 0)
  BY <1>1, EmptySeq
<1>3. Len(toC1) + (IF pc1 = "idle" THEN 0 ELSE 1) + toC0 = (IF pc0 = "wait" THEN 1 ELSE 0)
  BY <1>1 DEF CoreInv
<1> DEFINE L == Len(toC1)
<1> HIDE DEF L
<1>4. L \in Nat /\ toC0 \in Nat /\ (toC1 = <<>> <=> L = 0)
      /\ L + (IF pc1 = "idle" THEN 0 ELSE 1) + toC0 = (IF pc0 = "wait" THEN 1 ELSE 0)
  BY <1>1, <1>2, <1>3 DEF L
<1>5. CASE pc1 = "idle"
  <2>1. L + toC0 = (IF pc0 = "wait" THEN 1 ELSE 0)
    BY <1>4, <1>5
  <2>2. CASE pc0 = "wait"
    <3>1. L + toC0 = 1
      BY <2>1, <2>2
    <3>2. toC1 # <<>> => toC0 = 0 /\ L = 1
      BY <1>4, <3>1
    <3>3. toC0 > 0 => toC1 = <<>> /\ toC0 = 1
      BY <1>4, <3>1
    <3> QED
      BY <1>5, <2>2, <3>2, <3>3 DEF L
  <2>3. CASE pc0 # "wait"
    <3>1. L + toC0 = 0
      BY <2>1, <2>3
    <3>2. toC1 = <<>> /\ toC0 = 0
      BY <1>4, <3>1
    <3> QED
      BY <1>5, <2>3, <3>2
  <2> QED
    BY <2>2, <2>3
<1>6. CASE pc1 # "idle"
  BY <1>4, <1>6 DEF L
<1> QED
  BY <1>5, <1>6

LEMMA ProgKept == ProgInv /\ [Next]_vars => ProgInv'
<1> SUFFICES ASSUME ProgInv, [Next]_vars PROVE ProgInv'
  OBVIOUS
<1>1. ASSUME prog' = prog, sent' = sent PROVE ProgInv'
  BY <1>1 DEF ProgInv
<1>2. ASSUME prog' = NoCall, sent' = sent PROVE ProgInv'
  BY <1>2 DEF ProgInv
<1>3. ASSUME NEW t \in 1 .. Cap + 1, BeginUpload(t) PROVE ProgInv'
  <2>1. /\ prog' = [op |-> "upload", u |-> sent + 1, i |-> 0, t |-> t, atRest |-> AtRest]
        /\ sent' = sent /\ sent \in Nat
    BY <1>3 DEF BeginUpload, Begin, handshakeVars, clientVars, ProgInv
  <2>2. t \in Nat /\ 0 < t /\ AtRest \in BOOLEAN
    BY CapAssumption DEF AtRest
  <2> QED
    BY <2>1, <2>2 DEF ProgInv
<1>4. CASE BeginReset
  <2>1. prog' = [op |-> "reset", atRest |-> AtRest] /\ sent' = sent /\ AtRest \in BOOLEAN
    BY <1>4 DEF BeginReset, Begin, handshakeVars, clientVars, AtRest
  <2> QED
    BY <2>1 DEF ProgInv
<1>5. CASE BeginAsync
  <2>1. prog' = [op |-> "async"] /\ sent' = sent
    BY <1>5 DEF BeginAsync, Begin, handshakeVars, clientVars
  <2> QED
    BY <2>1 DEF ProgInv
<1>6. CASE SendCommand
  <2>1. prog' = prog /\ sent' = sent + 1
    BY <1>6 DEF SendCommand, Send
  <2> QED
    BY <2>1 DEF ProgInv
<1>7. CASE LooksAtToken
  BY <1>1, <1>7 DEF LooksAtToken, SeeToken
<1>8. CASE LooksAtSeed
  <2>1. sent' = sent
    BY <1>8 DEF LooksAtSeed, SeeSeed
  <2>2. CASE st' = "idle" /\ HasMore
    <3>1. prog' = [prog EXCEPT !.i = @ + 1] /\ prog.op = "upload" /\ prog.i + 1 < prog.t
      BY <1>8, <2>2 DEF LooksAtSeed, HasMore
    <3>2. prog \in [op : {"upload"}, u : Nat, i : Nat, t : Nat, atRest : BOOLEAN]
      BY <3>1 DEF ProgInv, NoCall
    <3>3. /\ prog' \in [op : {"upload"}, u : Nat, i : Nat, t : Nat, atRest : BOOLEAN]
          /\ prog'.i < prog'.t
      BY <3>1, <3>2
    <3> QED
      BY <2>1, <3>3 DEF ProgInv
  <2>3. CASE ~(st' = "idle" /\ HasMore)
    <3>1. prog' = prog \/ prog' = NoCall
      BY <1>8, <2>3 DEF LooksAtSeed
    <3> QED
      BY <1>1, <1>2, <2>1, <3>1
  <2> QED
    BY <2>2, <2>3
<1>9. CASE GivesUp
  BY <1>2, <1>9 DEF GivesUp, GiveUp
<1>10. CASE WaitTimeout
  <2>1. sent' = sent
    BY <1>10 DEF WaitTimeout, handshakeVars, clientVars
  <2>2. prog' = prog \/ prog' = [prog EXCEPT !.atRest = FALSE]
    BY <1>10 DEF WaitTimeout
  <2>3. CASE prog.op \in {"upload", "reset"} /\ prog' = [prog EXCEPT !.atRest = FALSE]
    <3>1. CASE prog \in [op : {"reset"}, atRest : BOOLEAN]
      <4>1. prog' \in [op : {"reset"}, atRest : BOOLEAN]
        BY <2>3, <3>1
      <4> QED
        BY <2>1, <4>1 DEF ProgInv
    <3>2. CASE /\ prog \in [op : {"upload"}, u : Nat, i : Nat, t : Nat, atRest : BOOLEAN]
               /\ prog.i < prog.t
      <4>1. /\ prog' \in [op : {"upload"}, u : Nat, i : Nat, t : Nat, atRest : BOOLEAN]
            /\ prog'.i < prog'.t
        BY <2>3, <3>2
      <4> QED
        BY <2>1, <4>1 DEF ProgInv
    <3> QED
      BY <2>3, <3>1, <3>2 DEF ProgInv, NoCall
  <2> QED
    BY <1>1, <1>10, <2>1, <2>3 DEF WaitTimeout
<1>11. CASE DrainReply \/ DrainTimeout \/ Consume \/ RefuseChunk \/ StoreChunk
            \/ DispatchReset \/ DispatchAsync \/ WaitReply \/ Respond
  <2>1. prog' = prog /\ sent' = sent
    BY <1>11 DEF DrainReply, DrainTimeout, Consume, RefuseChunk, StoreChunk, DispatchReset,
                 DispatchAsync, WaitReply, Respond, Take, AnswerToken, AnswerSeed,
                 handshakeVars, clientVars
  <2> QED
    BY <1>1, <2>1
<1>12. CASE Core1Step
  <2>1. prog' = prog /\ sent' = sent
    BY <1>12 DEF Core1Step, C1Pop, C1Copy, C1Parse, C1Run, C1Reset, C1Reply, handshakeVars, clientVars
  <2> QED
    BY <1>1, <2>1
<1>13. CASE UNCHANGED vars
  BY <1>1, <1>13 DEF vars, handshakeVars, clientVars
<1> QED
  BY <1>3, <1>4, <1>5, <1>6, <1>7, <1>8, <1>9, <1>10, <1>11, <1>12, <1>13
     DEF Next, ClientStep, Core0Step

(* What the calls that Calm speaks of are.                                 *)
LEMMA CalmIs ==
  ASSUME ProgInv, Calm
  PROVE  \/ prog.op = "reset" /\ Says(prog) = [op |-> "reset"]
         \/ /\ prog.op = "upload" /\ prog.i \in Nat /\ prog.t \in Nat /\ prog.i < prog.t
            /\ prog.t <= Cap
            /\ Says(prog) = [op |-> "upload", u |-> prog.u, i |-> prog.i, t |-> prog.t]
BY DEF ProgInv, Calm, Says, NoCall

(* The steps of the client.                                                *)
LEMMA ClientCalm == CoreInv /\ ProgInv /\ CalmInv /\ ClientStep => CalmInv'
<1> SUFFICES ASSUME CoreInv, ProgInv, CalmInv, ClientStep, Calm' PROVE CalmInv'
  BY DEF CalmInv
<1>0. UNCHANGED <<msgVars, coreVars, fifoVars, core1Vars>>
  BY DEF ClientStep, BeginUpload, BeginReset, BeginAsync, Begin, SendCommand, LooksAtToken,
         LooksAtSeed, GivesUp
<1>1. ASSUME NEW t \in 1 .. Cap + 1, BeginUpload(t) PROVE CalmInv'
  <2>1. /\ prog' = [op |-> "upload", u |-> sent + 1, i |-> 0, t |-> t, atRest |-> AtRest]
        /\ st = "idle" /\ UNCHANGED handshakeVars
    BY <1>1 DEF BeginUpload, Begin
  <2>2. AtRest
    BY <2>1 DEF Calm
  <2>3. NotYet'
    BY <2>1 DEF NotYet, Filled
  <2> QED
    BY <1>0, <2>1, <2>2, <2>3 DEF CalmInv, AtRest, IsIts, handshakeVars, mirrorVars, clientVars,
       rpVars, coreVars
<1>2. CASE BeginReset
  <2>1. prog' = [op |-> "reset", atRest |-> AtRest] /\ st = "idle" /\ UNCHANGED handshakeVars
    BY <1>2 DEF BeginReset, Begin
  <2>2. AtRest
    BY <2>1 DEF Calm
  <2>3. NotYet'
    BY <2>1 DEF NotYet
  <2> QED
    BY <1>0, <2>1, <2>2, <2>3 DEF CalmInv, AtRest, IsIts, handshakeVars, mirrorVars, clientVars,
       rpVars, coreVars
<1>3. CASE BeginAsync
  <2>1. prog' = [op |-> "async"]
    BY <1>3 DEF BeginAsync, Begin
  <2> QED
    BY <2>1 DEF Calm
<1>4. ASSUME prog' = NoCall PROVE FALSE
  BY <1>4 DEF Calm, NoCall
<1>5. ASSUME prog' = prog
      PROVE  /\ Calm /\ (NotYet' <=> NotYet) /\ (Working' <=> Working) /\ (Finished' <=> Finished)
             /\ Says(prog)' = Says(prog)
  BY <1>0, <1>5 DEF Calm, NotYet, Working, Finished, Filled, Forgotten, Says, msgVars, coreVars,
     fifoVars, core1Vars
<1>6. CASE SendCommand
  <2>1. /\ prog' = prog /\ st = "idle" /\ st' = "waiting" /\ mine' = seedMem /\ seedMem' = seedMem
        /\ busy' = busy
        /\ slot' \in {<<[n |-> sent', token |-> seedMem, body |-> Says(prog)]>>, slot}
    BY <1>6 DEF SendCommand, Send, mirrorVars
  <2>2. async = "no" /\ slot = <<>> /\ busy = <<>> /\ NotYet /\ pc0 = "loop"
    BY <1>5, <2>1 DEF CalmInv, CoreInv
  <2>3. IsIts(slot)' /\ IsIts(busy)'
    BY <1>5, <2>1, <2>2 DEF IsIts
  <2> QED
    BY <1>0, <1>5, <2>1, <2>2, <2>3 DEF CalmInv, coreVars
<1>7. ASSUME prog' = prog, st # "idle", st' # "idle",
             UNCHANGED <<mirrorVars, mine, slot, busy>>
      PROVE  CalmInv'
  BY <1>0, <1>5, <1>7 DEF CalmInv, IsIts, mirrorVars, coreVars
<1>8. CASE LooksAtToken
  BY <1>7, <1>8 DEF LooksAtToken, SeeToken, rpVars
<1>9. CASE LooksAtSeed
  <2>1. st = "seen" /\ UNCHANGED <<mirrorVars, mine, slot, busy>>
    BY <1>9 DEF LooksAtSeed, SeeSeed, rpVars
  <2>2. CASE st' # "idle"
    BY <1>7, <1>9, <2>1, <2>2 DEF LooksAtSeed
  <2>3. CASE st' = "idle"
    <3>1. seedMem # mine
      BY <1>9, <2>3 DEF LooksAtSeed, SeeSeed
    <3>2. prog.op = "upload" /\ prog' = [prog EXCEPT !.i = @ + 1]
      BY <1>4, <1>9, <2>3 DEF LooksAtSeed, HasMore
    <3>3. /\ prog \in [op : {"upload"}, u : Nat, i : Nat, t : Nat, atRest : BOOLEAN]
      BY <3>2 DEF ProgInv, NoCall
    <3>4. prog'.op = "upload" /\ prog'.u = prog.u /\ prog'.t = prog.t /\ prog'.i = prog.i + 1
          /\ prog'.atRest = prog.atRest
      BY <3>2, <3>3
    <3>5. Calm
      BY <3>2, <3>4 DEF Calm
    <3>6. slot = <<>> /\ busy = <<>> /\ pc0 = "loop" /\ Finished /\ async = "no"
      BY <2>1, <3>1, <3>5 DEF CalmInv, CoreInv
    <3>7. NotYet'
      BY <1>0, <3>2, <3>4, <3>6 DEF NotYet, Finished, Filled, msgVars
    <3>8. st' = "idle" /\ slot' = <<>> /\ busy' = <<>> /\ async' = "no"
      BY <1>0, <2>1, <2>3, <3>6 DEF coreVars
    <3> QED
      BY <3>7, <3>8 DEF CalmInv, IsIts
  <2> QED
    BY <2>2, <2>3
<1>10. CASE GivesUp
  BY <1>4, <1>10 DEF GivesUp
<1> QED
  BY <1>1, <1>2, <1>3, <1>6, <1>8, <1>9, <1>10 DEF ClientStep

(* The next chunk joins those before it; what was stored before them is of *)
(* no account.                                                             *)
LEMMA ChunkJoins ==
  ASSUME StoreInv, ProgInv, Calm, prog.op = "upload", NotYet, Cmd = Says(prog)
  PROVE  /\ Fits(Cmd)
         /\ IsLast(Cmd) <=> prog.i + 1 = prog.t
         /\ Store(Cmd) /\ prog' = prog => Filled(prog.i + 1)'
<1> DEFINE k == prog.i
           t == prog.t
           u == prog.u
           text == Assembled(Cmd).text
           it == [u |-> Cmd.u, i |-> Cmd.i]
<1>1. /\ k \in Nat /\ t \in Nat /\ k < t /\ t <= Cap /\ Cap \in Nat
      /\ Cmd.i = k /\ Cmd.t = t /\ Cmd.u = u
  BY CalmIs, CapAssumption
<1>2. PICK S0 : source \in Seq(S0)
  BY DEF StoreInv
<1>3. PICK S : S = S0 \union {it}
  OBVIOUS
<1>4. source \in Seq(S) /\ it \in S /\ len \in Nat /\ len <= Len(source)
  BY <1>2, <1>3, CapAssumption DEF StoreInv
<1>5. /\ text \in Seq(S) /\ Len(text) = k /\ Assembled(Cmd).got = k /\ Assembled(Cmd).total = t
      /\ \A j \in 1 .. k : text[j] = Chunk(u, j)
  <2>1. CASE k = 0
    <3>1. text = <<>> /\ Assembled(Cmd).got = 0 /\ Assembled(Cmd).total = t
      BY <1>1, <2>1 DEF Assembled
    <3> QED
      BY <2>1, <3>1
  <2>2. CASE k # 0
    <3>1. text = SubSeq(source, 1, len) /\ Assembled(Cmd).got = received
          /\ Assembled(Cmd).total = expected
      BY <1>1, <2>2 DEF Assembled
    <3>2. /\ len = k /\ received = k /\ expected = t /\ k <= Len(source)
          /\ \A j \in 1 .. k : source[j] = Chunk(u, j)
      BY <1>1, <2>2 DEF NotYet, Filled
    <3>3. text = SubSeq(source, 1, k)
      BY <3>1, <3>2
    <3> HIDE DEF text, k
    <3>4. text \in Seq(S) /\ Len(text) = k /\ \A j \in 1 .. k : text[j] = source[j]
      BY <1>1, <1>4, <3>2, <3>3
    <3> QED
      BY <3>1, <3>2, <3>4
  <2> QED
    BY <2>1, <2>2
<1>6. Fits(Cmd)
  BY <1>1, <1>5 DEF Fits
<1>7. IsLast(Cmd) <=> k + 1 = t
  BY <1>1, <1>5 DEF IsLast
<1>8. ASSUME Store(Cmd), prog' = prog PROVE Filled(prog.i + 1)'
  <2> DEFINE new == Append(text, it)
             rest == SubSeq(source, Len(new) + 1, Len(source))
  <2>1. /\ source' = Overwrite(source, new) /\ len' = k + 1 /\ received' = k + 1 /\ expected' = t
    BY <1>5, <1>8 DEF Store
  <2>2. it = Chunk(u, k + 1)
    BY <1>1 DEF Chunk
  <2> HIDE DEF text, it
  <2>3. /\ new \in Seq(S) /\ Len(new) = k + 1 /\ new[k + 1] = it
        /\ \A j \in 1 .. k : new[j] = text[j]
    BY <1>4, <1>5, AppendProperties
  <2> HIDE DEF new
  <2>4. rest \in Seq(S)
    <3>1. Len(new) \in Nat /\ Len(source) \in Nat
      BY <1>4, <2>3
    <3>2. \A j \in Len(new) + 1 .. Len(source) : j \in 1 .. Len(source) /\ source[j] \in S
      BY <1>4, <3>1
    <3> QED
      BY <3>1, <3>2, SubSeqProperties
  <2>5. source' = new \o rest
    BY <2>1 DEF Overwrite
  <2> HIDE DEF rest, k
  <2>6. Len(rest) \in Nat /\ Len(new) \in Nat
    BY <2>3, <2>4
  <2>7. /\ Len(source') = Len(new) + Len(rest)
        /\ \A j \in 1 .. Len(new) + Len(rest) :
             source'[j] = IF j <= Len(new) THEN new[j] ELSE rest[j - Len(new)]
    BY <2>3, <2>4, <2>5, ConcatProperties
  <2>8. ASSUME NEW j \in 1 .. k + 1 PROVE source'[j] = Chunk(u, j)
    <3>1. j \in 1 .. Len(new) + Len(rest) /\ j <= Len(new)
      BY <1>1, <2>3, <2>6
    <3>2. source'[j] = new[j]
      BY <2>7, <3>1
    <3>3. CASE j = k + 1
      BY <2>2, <2>3, <3>2, <3>3
    <3>4. CASE j # k + 1
      <4>1. j \in 1 .. k
        BY <1>1, <3>4
      <4> QED
        BY <1>5, <2>3, <3>2, <4>1
    <3> QED
      BY <3>3, <3>4
  <2>9. k + 1 <= Len(source')
    BY <1>1, <2>3, <2>6, <2>7
  <2>10. prog'.i = k /\ prog'.t = t /\ prog'.u = u
    BY <1>8 DEF k
  <2> QED
    BY <1>8, <2>1, <2>8, <2>9, <2>10 DEF Filled, k, Chunk
<1> QED
  BY <1>6, <1>7, <1>8
(* When the call under way stays the same, so does what is said of it.     *)
LEMMA SameCall ==
  ASSUME prog' = prog
  PROVE  /\ Calm' <=> Calm
         /\ Says(prog)' = Says(prog)
         /\ UNCHANGED msgVars =>
              /\ NotYet' <=> NotYet
              /\ \A k : Filled(k)' <=> Filled(k)
              /\ UNCHANGED evaluated => (Finished' <=> Finished)
              /\ UNCHANGED <<evaluated, toC1, toC0, pc1, copyLen, parsed>> => (Working' <=> Working)
BY DEF Calm, NotYet, Filled, Finished, Forgotten, Working, Says, msgVars

(* The steps of Core 0.                                                    *)
LEMMA Core0Calm == StoreInv /\ CoreInv /\ ProgInv /\ CalmInv /\ Core0Step => CalmInv'
<1> SUFFICES ASSUME StoreInv, CoreInv, ProgInv, CalmInv, Core0Step, Calm' PROVE CalmInv'
  BY DEF CalmInv
<1>1. CASE WaitTimeout
  <2>1. prog' = IF prog.op \in {"upload", "reset"} THEN [prog EXCEPT !.atRest = FALSE] ELSE prog
    BY <1>1 DEF WaitTimeout
  <2>2. CASE prog.op \in {"upload", "reset"}
    <3>1. /\ \/ prog \in [op : {"reset"}, atRest : BOOLEAN]
             \/ prog \in [op : {"upload"}, u : Nat, i : Nat, t : Nat, atRest : BOOLEAN]
          /\ prog' = [prog EXCEPT !.atRest = FALSE]
      BY <2>1, <2>2 DEF ProgInv, NoCall
    <3>2. prog'.atRest = FALSE
      BY <3>1
    <3> QED
      BY <3>2 DEF Calm
  <2>3. CASE prog.op \notin {"upload", "reset"}
    BY <2>1, <2>3 DEF Calm
  <2> QED
    BY <2>2, <2>3
<1> SUFFICES ASSUME ~WaitTimeout PROVE CalmInv'
  BY <1>1
<1>2. prog' = prog
  BY DEF Core0Step, DrainReply, DrainTimeout, Consume, RefuseChunk, StoreChunk,
         DispatchReset, DispatchAsync, WaitReply, Respond
<1>3. Calm /\ Says(prog)' = Says(prog)
  BY <1>2, SameCall
<1>4. /\ async = "no" /\ (slot = <<>> \/ busy = <<>>) /\ IsIts(slot) /\ IsIts(busy)
      /\ st = "idle" => slot = <<>> /\ busy = <<>> /\ NotYet
      /\ st # "idle" =>
           \/ seedMem = mine /\ pc0 = "loop" /\ (slot # <<>> => NotYet)
           \/ seedMem = mine /\ pc0 = "dispatch" /\ NotYet
           \/ seedMem = mine /\ pc0 = "wait" /\ Working
           \/ seedMem = mine /\ pc0 = "respond" /\ Finished
           \/ seedMem # mine /\ pc0 = "loop" /\ slot = <<>> /\ Finished
  BY <1>3 DEF CalmInv
<1>5. ~DrainReply /\ ~DrainTimeout
  BY <1>4 DEF DrainReply, DrainTimeout
<1>6. pc0 # "loop" => busy # <<>> /\ slot = <<>> /\ st # "idle" /\ seedMem = mine /\ Cmd = Says(prog)
  BY <1>4 DEF CoreInv, IsIts, Cmd
<1>7. CASE Consume
  <2>1. /\ pc0 = "loop" /\ slot # <<>> /\ busy' = slot /\ slot' = <<>> /\ pc0' = "dispatch"
        /\ UNCHANGED <<seedMem, mine, st, async, msgVars>>
    BY <1>7 DEF Consume, Take, mirrorVars, clientVars
  <2>2. st # "idle" /\ seedMem = mine /\ NotYet
    BY <1>4, <2>1
  <2>3. NotYet' /\ IsIts(slot)' /\ IsIts(busy)'
    BY <1>2, <1>3, <1>4, <2>1, <2>2, SameCall DEF IsIts
  <2> QED
    BY <1>4, <2>1, <2>2, <2>3 DEF CalmInv
(* The command in the cartridge stays where it is.                         *)
<1>8. ASSUME UNCHANGED handshakeVars, async' = "no", pc0 # "loop",
             \/ pc0' = "wait" /\ Working'
             \/ pc0' = "respond" /\ Finished'
      PROVE  CalmInv'
  <2>1. busy # <<>> /\ slot = <<>> /\ st # "idle" /\ seedMem = mine
    BY <1>6, <1>8
  <2>2. UNCHANGED <<slot, busy, st, seedMem, mine>>
    BY <1>8 DEF handshakeVars, mirrorVars, clientVars, rpVars
  <2>3. IsIts(slot)' /\ IsIts(busy)'
    BY <1>3, <1>4, <2>2 DEF IsIts
  <2> QED
    BY <1>8, <2>1, <2>2, <2>3 DEF CalmInv
<1>9. CASE RefuseChunk \/ StoreChunk
  <2>1. pc0 = "dispatch" /\ Cmd.op = "upload" /\ UNCHANGED handshakeVars /\ async' = "no"
    BY <1>4, <1>9 DEF RefuseChunk, StoreChunk
  <2>2. NotYet /\ Cmd = Says(prog) /\ prog.op = "upload"
    BY <1>3, <1>4, <1>6, <2>1, CalmIs
  <2>3. Fits(Cmd) /\ (IsLast(Cmd) <=> prog.i + 1 = prog.t)
    BY <1>3, <2>2, ChunkJoins
  <2>4. StoreChunk /\ Store(Cmd)
    BY <1>9, <2>3 DEF RefuseChunk, StoreChunk
  <2>5. Filled(prog.i + 1)'
    BY <1>2, <1>3, <2>2, <2>4, ChunkJoins
  <2>6. CASE IsLast(Cmd)
    <3>1. toC1' = Append(toC1, "UPLOAD") /\ pc0' = "wait"
      BY <2>4, <2>6 DEF StoreChunk
    <3>2. toC1 = <<>>
      BY <1>4, <2>1, OneWord
    <3>3. toC1' = <<"UPLOAD">>
      BY <3>1, <3>2
    <3>4. prog'.op = "upload" /\ prog'.i + 1 = prog'.t
      BY <1>2, <2>2, <2>3, <2>6
    <3>5. Filled(prog.t)'
      BY <2>5, <3>4 DEF Filled
    <3>6. Working'
      BY <3>3, <3>4, <3>5 DEF Working
    <3> QED
      BY <1>8, <2>1, <3>1, <3>6
  <2>7. CASE ~IsLast(Cmd)
    <3>1. pc0' = "respond" /\ prog'.op = "upload" /\ prog'.i + 1 # prog'.t
      BY <1>2, <2>2, <2>3, <2>4, <2>7 DEF StoreChunk
    <3>2. Finished'
      BY <2>5, <3>1 DEF Finished
    <3> QED
      BY <1>8, <2>1, <3>1, <3>2
  <2> QED
    BY <2>6, <2>7
<1>10. CASE DispatchReset
  <2>1. /\ pc0 = "dispatch" /\ Cmd.op = "reset" /\ toC1' = Append(toC1, "RESET") /\ pc0' = "wait"
        /\ UNCHANGED handshakeVars /\ async' = "no"
    BY <1>4, <1>10 DEF DispatchReset
  <2>2. prog.op = "reset"
    BY <1>3, <1>6, <2>1, CalmIs
  <2>3. toC1' = <<"RESET">>
    <3>1. toC1 = <<>>
      BY <1>4, <2>1, OneWord
    <3> QED
      BY <2>1, <3>1
  <2>4. Working'
    BY <1>2, <2>2, <2>3 DEF Working
  <2> QED
    BY <1>8, <2>1, <2>4
<1>11. CASE DispatchAsync
  <2>1. pc0 = "dispatch" /\ Cmd.op = "async"
    BY <1>11 DEF DispatchAsync
  <2> QED
    BY <1>3, <1>6, <2>1, CalmIs
<1>12. CASE WaitReply
  <2>1. /\ pc0 = "wait" /\ toC0 > 0 /\ pc0' = "respond" /\ async' = "no"
        /\ UNCHANGED <<handshakeVars, msgVars, evaluated>>
    BY <1>4, <1>12 DEF WaitReply, core1Vars
  <2>2. toC1 = <<>> /\ pc1 = "idle" /\ Working
    BY <1>4, <1>6, <2>1, OneWord
  <2>3. toC1 # <<"UPLOAD">> /\ toC1 # <<"RESET">>
    BY <2>2
  <2>4. Finished
    <3>1. CASE prog.op = "reset"
      BY <2>2, <2>3, <3>1 DEF Working, Finished
    <3>2. CASE prog.op # "reset"
      <4>1. prog.i + 1 = prog.t /\ Filled(prog.t) /\ evaluated = Text(prog.u, prog.t)
        BY <2>2, <2>3, <3>2 DEF Working
      <4>2. Filled(prog.i + 1)
        BY <4>1
      <4> QED
        BY <3>2, <4>1, <4>2 DEF Finished
    <3> QED
      BY <3>1, <3>2
  <2>5. Finished'
    BY <1>2, <2>1, <2>4, SameCall
  <2> QED
    BY <1>8, <2>1, <2>5
<1>13. CASE Respond
  <2>1. /\ pc0 = "respond" /\ async' = async
        /\ UNCHANGED <<mine, st, slot, msgVars, evaluated>>
        /\ \/ AnswerToken /\ pc0' = pc0
           \/ AnswerSeed /\ pc0' = "loop"
    BY <1>13 DEF Respond, AnswerToken, AnswerSeed, clientVars, core1Vars
  <2>2. slot = <<>> /\ st # "idle" /\ seedMem = mine /\ Finished
    BY <1>4, <1>6, <2>1
  <2>3. Finished'
    BY <1>2, <2>1, <2>2, SameCall
  <2>4. CASE AnswerToken /\ pc0' = pc0
    <3>1. busy' = busy /\ seedMem' = seedMem
      BY <2>4 DEF AnswerToken
    <3>2. IsIts(slot)' /\ IsIts(busy)'
      BY <1>3, <1>4, <2>1, <3>1 DEF IsIts
    <3> QED
      BY <1>4, <2>1, <2>2, <2>3, <2>4, <3>1, <3>2 DEF CalmInv
  <2>5. CASE AnswerSeed /\ pc0' = "loop"
    <3>1. busy' = <<>> /\ seedMem' # seedMem
      BY <2>5 DEF AnswerSeed
    <3>2. IsIts(slot)' /\ IsIts(busy)'
      BY <2>1, <2>2, <3>1 DEF IsIts
    <3> QED
      BY <1>4, <2>1, <2>2, <2>3, <2>5, <3>1, <3>2 DEF CalmInv
  <2> QED
    BY <2>1, <2>4, <2>5
<1> QED
  BY <1>5, <1>7, <1>9, <1>10, <1>11, <1>12, <1>13 DEF Core0Step

LEMMA TextGrows ==
  ASSUME NEW u, NEW n \in Nat
  PROVE  Append(Text(u, n), Chunk(u, n + 1)) = Text(u, n + 1)
<1> DEFINE a == Text(u, n)
           b == Text(u, n + 1)
           c == Chunk(u, n + 1)
           S == {Chunk(u, k) : k \in Nat}
<1>1. a \in [1 .. n -> S] /\ b \in [1 .. n + 1 -> S] /\ c \in S
  BY DEF Text, Chunk
<1>2. a \in Seq(S) /\ b \in Seq(S)
  <2>1. \A m \in Nat : [1 .. m -> S] \subseteq Seq(S)
    BY SeqDef
  <2>2. n + 1 \in Nat
    OBVIOUS
  <2> QED
    BY <1>1, <2>1, <2>2
<1>3. /\ Len(a) = n /\ Len(b) = n + 1 /\ b[n + 1] = c
      /\ \A k \in 1 .. n : a[k] = b[k]
  BY DEF Text, Chunk
<1> HIDE DEF a, b, c, S
<1>4. /\ Append(a, c) \in Seq(S) /\ Len(Append(a, c)) = n + 1
      /\ \A k \in 1 .. n : Append(a, c)[k] = a[k]
      /\ Append(a, c)[n + 1] = c
  BY <1>1, <1>2, <1>3, AppendProperties
<1>5. ASSUME NEW k \in 1 .. n + 1 PROVE Append(a, c)[k] = b[k]
  <2>1. k = n + 1 \/ k \in 1 .. n
    OBVIOUS
  <2> QED
    BY <1>3, <1>4, <2>1
<1>6. Append(a, c) = b
  BY <1>2, <1>3, <1>4, <1>5, SeqEqual
<1> QED
  BY <1>6 DEF a, b, c

(* The steps of Core 1: each takes the work one stage on.                  *)
LEMMA Core1Calm == StoreInv /\ CoreInv /\ ProgInv /\ CalmInv /\ Core1Step => CalmInv'
<1> SUFFICES ASSUME StoreInv, CoreInv, ProgInv, CalmInv, Core1Step, Calm' PROVE CalmInv'
  BY DEF CalmInv
<1>1. UNCHANGED <<handshakeVars, prog, coreVars>>
  BY DEF Core1Step, C1Pop, C1Copy, C1Parse, C1Run, C1Reset, C1Reply
<1>2. Calm /\ Says(prog)' = Says(prog) /\ async = "no"
  BY <1>1, SameCall DEF CalmInv
<1>3. pc1 # "idle" \/ toC1 # <<>>
  BY DEF Core1Step, C1Pop, C1Copy, C1Parse, C1Run, C1Reset, C1Reply
<1>4. pc0 = "wait" /\ toC0 = 0 /\ (pc1 # "idle" => toC1 = <<>>)
      /\ (toC1 # <<>> => pc1 = "idle" /\ Len(toC1) = 1)
  BY <1>2, <1>3, OneWord
<1>5. busy # <<>> /\ slot = <<>> /\ st # "idle" /\ seedMem = mine /\ Working
      /\ IsIts(slot) /\ IsIts(busy)
  BY <1>2, <1>4 DEF CalmInv, CoreInv
<1>6. ASSUME Working' PROVE CalmInv'
  <2>1. UNCHANGED <<busy, slot, st, seedMem, mine, pc0, async>>
    BY <1>1 DEF handshakeVars, mirrorVars, clientVars, rpVars, coreVars
  <2>2. IsIts(slot)' /\ IsIts(busy)'
    BY <1>2, <1>5, <2>1 DEF IsIts
  <2> QED
    BY <1>2, <1>4, <1>5, <1>6, <2>1, <2>2 DEF CalmInv
<1>7. UNCHANGED msgVars => \A k : Filled(k)' <=> Filled(k)
  BY <1>1, SameCall
<1>8. /\ prog' = prog
      /\ \/ prog.op = "reset"
         \/ prog.op = "upload" /\ prog.t \in Nat /\ prog.t > 0
  BY <1>1, <1>2, CalmIs
<1>9. toC1 = <<>> => toC1 # <<"UPLOAD">> /\ toC1 # <<"RESET">>
  OBVIOUS
<1>10. CASE C1Pop
  <2>1. /\ toC1 # <<>> /\ pc1 = "idle" /\ toC1' = Tail(toC1) /\ UNCHANGED msgVars
        /\ pc1' = CASE Head(toC1) = "UPLOAD" -> "copy" [] Head(toC1) = "RESET" -> "reset"
                    [] Head(toC1) = "CALL" -> "reply"
    BY <1>10 DEF C1Pop
  <2>2. CASE prog.op = "reset"
    <3>1. toC1 = <<"RESET">>
      BY <1>4, <1>5, <2>1, <2>2 DEF Working
    <3>2. pc1' = "reset"
      BY <2>1, <3>1
    <3> QED
      BY <1>6, <1>8, <2>2, <3>2 DEF Working
  <2>3. CASE prog.op # "reset"
    <3>1. toC1 = <<"UPLOAD">> /\ prog.i + 1 = prog.t /\ Filled(prog.t)
      BY <1>4, <1>5, <2>1, <2>3 DEF Working
    <3>2. pc1' = "copy"
      BY <2>1, <3>1
    <3>3. Filled(prog.t)'
      BY <1>7, <1>8, <2>1, <3>1 DEF Filled
    <3> QED
      BY <1>6, <1>8, <2>3, <3>1, <3>2, <3>3 DEF Working
  <2> QED
    BY <2>2, <2>3
<1>11. CASE C1Copy
  <2>1. pc1 = "copy" /\ pc1' = "parse" /\ copyLen' = len /\ parsed' = <<>> /\ UNCHANGED msgVars
    BY <1>11 DEF C1Copy
  <2>2. prog.op # "reset" /\ prog.i + 1 = prog.t /\ Filled(prog.t)
    BY <1>4, <1>5, <1>8, <1>9, <2>1 DEF Working
  <2>3. copyLen' = prog.t /\ Filled(prog.t)'
    BY <1>7, <1>8, <2>1, <2>2 DEF Filled
  <2>4. parsed' = Text(prog'.u, 0) /\ 0 \in 0 .. prog'.t
    <3>1. Text(prog'.u, 0) = <<>>
      BY DEF Text
    <3> QED
      BY <1>8, <2>1, <2>2, <3>1
  <2> QED
    BY <1>6, <1>8, <2>1, <2>2, <2>3, <2>4 DEF Working
<1>12. CASE C1Parse
  <2>1. /\ pc1 = "parse" /\ pc1' = "parse" /\ copyLen' = copyLen
        /\ parsed' = Append(parsed, source[Len(parsed) + 1])
        /\ Len(parsed) < copyLen /\ UNCHANGED msgVars
    BY <1>12 DEF C1Parse
  <2>2. prog.op # "reset" /\ prog.i + 1 = prog.t /\ Filled(prog.t) /\ copyLen = prog.t
    BY <1>4, <1>5, <1>8, <1>9, <2>1 DEF Working
  <2>3. PICK n \in 0 .. prog.t : parsed = Text(prog.u, n)
    BY <1>4, <1>5, <1>8, <1>9, <2>1, <2>2 DEF Working
  <2>4. n \in Nat /\ Len(parsed) = n /\ n < prog.t /\ prog.t \in Nat
    BY <1>8, <2>1, <2>2, <2>3 DEF Text
  <2>5. source[n + 1] = Chunk(prog.u, n + 1)
    <3>1. n + 1 \in 1 .. prog.t
      BY <2>4
    <3> QED
      BY <1>8, <2>2, <3>1 DEF Filled
  <2>6. parsed' = Text(prog.u, n + 1)
    <3>1. parsed' = Append(Text(prog.u, n), Chunk(prog.u, n + 1))
      BY <2>1, <2>3, <2>4, <2>5
    <3>2. Append(Text(prog.u, n), Chunk(prog.u, n + 1)) = Text(prog.u, n + 1)
      BY <2>4, TextGrows
    <3> QED
      BY <3>1, <3>2
  <2>7. n + 1 \in 0 .. prog'.t /\ parsed' = Text(prog'.u, n + 1) /\ copyLen' = prog'.t
    BY <1>8, <2>1, <2>2, <2>4, <2>6
  <2>8. Filled(prog.t)'
    BY <1>7, <1>8, <2>1, <2>2 DEF Filled
  <2> QED
    BY <1>6, <1>8, <2>1, <2>2, <2>7, <2>8 DEF Working
<1>13. CASE C1Run
  <2>1. pc1 = "parse" /\ Len(parsed) = copyLen /\ evaluated' = parsed /\ pc1' = "reply"
        /\ UNCHANGED msgVars
    BY <1>13 DEF C1Run
  <2>2. prog.op # "reset" /\ prog.i + 1 = prog.t /\ Filled(prog.t) /\ copyLen = prog.t
    BY <1>4, <1>5, <1>8, <1>9, <2>1 DEF Working
  <2>3. PICK n \in 0 .. prog.t : parsed = Text(prog.u, n)
    BY <1>4, <1>5, <1>8, <1>9, <2>1, <2>2 DEF Working
  <2>4. n = prog.t
    BY <1>8, <2>1, <2>2, <2>3 DEF Text
  <2>5. evaluated' = Text(prog'.u, prog'.t) /\ Filled(prog.t)'
    BY <1>7, <1>8, <2>1, <2>2, <2>3, <2>4 DEF Filled
  <2> QED
    BY <1>6, <1>8, <2>1, <2>2, <2>5 DEF Working
<1>14. CASE C1Reset
  <2>1. pc1 = "reset" /\ pc1' = "reply" /\ Forgotten'
    BY <1>14 DEF C1Reset, Forgotten
  <2>2. prog.op = "reset"
    BY <1>4, <1>5, <1>9, <2>1 DEF Working
  <2> QED
    BY <1>6, <1>8, <2>1, <2>2 DEF Working
<1>15. CASE C1Reply
  <2>1. pc1 = "reply" /\ toC0' > 0 /\ UNCHANGED <<msgVars, evaluated>>
    BY <1>4, <1>15 DEF C1Reply
  <2>2. CASE prog.op = "reset"
    <3>1. Forgotten
      BY <1>4, <1>5, <1>9, <2>1, <2>2 DEF Working
    <3>2. Forgotten'
      BY <2>1, <3>1 DEF Forgotten, msgVars
    <3> QED
      BY <1>6, <1>8, <2>1, <2>2, <3>2 DEF Working
  <2>3. CASE prog.op # "reset"
    <3>1. prog.i + 1 = prog.t /\ Filled(prog.t) /\ evaluated = Text(prog.u, prog.t)
      BY <1>4, <1>5, <1>9, <2>1, <2>3 DEF Working
    <3>2. Filled(prog.t)' /\ evaluated' = Text(prog'.u, prog'.t)
      BY <1>7, <1>8, <2>1, <3>1 DEF Filled
    <3> QED
      BY <1>6, <1>8, <2>1, <2>3, <3>1, <3>2 DEF Working
  <2> QED
    BY <2>2, <2>3
<1> QED
  BY <1>10, <1>11, <1>12, <1>13, <1>14, <1>15 DEF Core1Step

(* The call finds what it left, and Core 1 does just what it is told.      *)
THEOREM UploadInvariant == Spec => []UploadInv
<1>1. Init => UploadInv
  <2> SUFFICES ASSUME Init PROVE UploadInv
    OBVIOUS
  <2>1. ProgInv /\ ~Calm
    BY DEF Init, HandshakeInit, ProgInv, NoCall, Calm
  <2> QED
    BY <2>1, StoreInitInv, CoreInitInv DEF UploadInv, CalmInv
<1>2. UploadInv /\ [Next]_vars => UploadInv'
  <2> SUFFICES ASSUME UploadInv, [Next]_vars PROVE UploadInv'
    OBVIOUS
  <2>1. StoreInv' /\ CoreInv' /\ ProgInv'
    BY StoreKeeps, OthersKeep, CoreKept, ProgKept DEF UploadInv
  <2>2. CalmInv'
    <3>1. CASE UNCHANGED vars
      BY <3>1 DEF UploadInv, CalmInv, Calm, NotYet, Filled, Finished, Forgotten, Working, Says, IsIts,
                  vars, handshakeVars, mirrorVars, clientVars, rpVars, coreVars, msgVars, fifoVars,
                  core1Vars
    <3> QED
      BY <3>1, ClientCalm, Core0Calm, Core1Calm DEF UploadInv, Next
  <2> QED
    BY <2>1, <2>2 DEF UploadInv
<1> QED
  BY <1>1, <1>2, PTL DEF Spec

(* A step that ends a call with 0 finds it finished.                       *)
LEMMA ReturnsFinished ==
  ASSUME UploadInv, NEW op, Returns0(op), Calm
  PROVE  Finished /\ ~HasMore
<1>1. /\ SeeSeed /\ prog' = NoCall
      /\ prog' = IF st' # "idle" THEN prog
                 ELSE IF HasMore THEN [prog EXCEPT !.i = @ + 1] ELSE NoCall
  BY DEF Returns0, LooksAtSeed
<1>2. prog.op \in {"upload", "reset"} /\ NoCall.op = "none"
  BY DEF Calm, NoCall
<1>3. st' = "idle"
  BY <1>1, <1>2
<1>4. st = "seen" /\ seedMem # mine
  BY <1>1, <1>3 DEF SeeSeed
<1>5. Finished
  BY <1>4 DEF UploadInv, CalmInv
<1>6. ~HasMore
  <2> SUFFICES ASSUME HasMore PROVE FALSE
    OBVIOUS
  <2>1. prog \in [op : {"upload"}, u : Nat, i : Nat, t : Nat, atRest : BOOLEAN]
    BY DEF HasMore, UploadInv, ProgInv, NoCall
  <2>2. prog'.op = "upload"
    BY <1>1, <1>3, <2>1
  <2> QED
    BY <1>1, <1>2, <2>2
<1> QED
  BY <1>5, <1>6

(* What a call uploads with the cartridge at rest is what Core 1 evaluates, *)
(* whole and in order, when the call returns 0: UploadedIsEvaluated.       *)
THEOREM UploadIsEvaluated == Spec => UploadedIsEvaluated
<1>1. UploadInv /\ [Next]_vars =>
        [Returns0("upload") /\ prog.atRest /\ prog.t <= Cap => evaluated = Text(prog.u, prog.t)]_vars
  <2> SUFFICES ASSUME UploadInv, Returns0("upload"), prog.atRest, prog.t <= Cap
               PROVE  evaluated = Text(prog.u, prog.t)
    OBVIOUS
  <2>1. prog.op = "upload" /\ Calm
    BY DEF Returns0, Calm
  <2>2. Finished /\ ~HasMore
    BY <2>1, ReturnsFinished
  <2>3. prog.i \in Nat /\ prog.t \in Nat /\ prog.i < prog.t /\ ~(prog.i + 1 < prog.t)
    BY <2>1, <2>2, CalmIs DEF HasMore, UploadInv
  <2>4. prog.i + 1 = prog.t
    BY <2>3
  <2> QED
    BY <2>1, <2>2, <2>4 DEF Finished
<1> QED
  BY UploadInvariant, <1>1, PTL DEF Spec, UploadedIsEvaluated

(* A RESET sent with the cartridge at rest leaves no code and no half of an *)
(* upload behind when it returns 0: ResetForgets.                          *)
THEOREM ResetAlwaysForgets == Spec => ResetForgets
<1>1. UploadInv /\ [Next]_vars =>
        [Returns0("reset") /\ prog.atRest =>
           evaluated = <<>> /\ len = 0 /\ received = 0 /\ expected = 0]_vars
  <2> SUFFICES ASSUME UploadInv, Returns0("reset"), prog.atRest PROVE Forgotten
    BY DEF Forgotten
  <2>1. prog.op = "reset" /\ Calm
    BY DEF Returns0, Calm
  <2>2. Finished
    BY <2>1, ReturnsFinished
  <2> QED
    BY <2>1, <2>2 DEF Finished
<1> QED
  BY UploadInvariant, <1>1, PTL DEF Spec, ResetForgets
=============================================================================
