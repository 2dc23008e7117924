-------------------------- MODULE HandshakeProofs ---------------------------
(***************************************************************************)
(* The hand-shake and its user, the program in the cartridge, for every    *)
(* set of seeds and every number of commands and of retries.               *)
(*                                                                         *)
(* As long as the ST has not given up on an answer that was still to come, *)
(* a call that returns 0 was answered; and later, at most one call is      *)
(* robbed for every time the ST gave up, unless a seed is drawn that is    *)
(* still in use.  The first says nothing of where commands are.            *)
(* OneAtATime does: the cartridge holds no command but the one the ST      *)
(* waits for, and the seed is still the one that command carries until its *)
(* answer is complete.  For the second, Debt counts the answers that may   *)
(* yet end a wait that is not theirs: each was paid for with a give-up.    *)
(*                                                                         *)
(* The demo talks to the worker as Handshake says, so that both are true   *)
(* of it.  Its alert shows the sum.  Answers may end the wait of another   *)
(* command, and two commands may be in the cartridge at once.  What saves  *)
(* the demo is that a seed is never the token of two different commands:   *)
(* it goes on only when the seed has changed since it last sent, and sends *)
(* the same command until then.  Tokens says so; Done is what the end of a *)
(* wait then stands for.                                                   *)
(***************************************************************************)
EXTENDS CartDemo, TLAPS

IsSent(q) == q = <<>> \/ Holds(q, sent)

OneAtATime ==
  /\ stolen = 0
  /\ slot = <<>> \/ busy = <<>>
  /\ IsSent(slot) /\ IsSent(busy)
  /\ st = "idle" => slot = <<>> /\ busy = <<>>
  /\ st # "idle" => \/ seedMem = mine
                    \/ answered = sent /\ slot = <<>> /\ busy = <<>>

(* The token is answered before the seed changes.                          *)
HalfInv ==
  /\ half => busy # <<>> /\ (late = 0 => answered = sent)
  /\ st \in {"idle", "waiting", "seen"}
  /\ late \in Nat

HandshakeInv == HalfInv /\ (late = 0 => OneAtATime)

LEMMA InvInit == HandshakeInit => HandshakeInv
  BY DEF HandshakeInit, HandshakeInv, HalfInv, OneAtATime, IsSent

(* A step of Core 0 keeps the invariant.                                   *)
LEMMA Core0Keeps == HandshakeInv /\ Core0Next => HandshakeInv'
<1> SUFFICES ASSUME HandshakeInv, Core0Next PROVE HandshakeInv'
  OBVIOUS
<1> USE DEF HandshakeInv, HalfInv, OneAtATime, IsSent, Holds, mirrorVars, clientVars, ghostVars
<1>1. CASE Take
  BY <1>1 DEF Take
<1>2. CASE AnswerToken
  BY <1>2 DEF AnswerToken
<1>3. CASE AnswerSeed
  BY <1>3 DEF AnswerSeed
<1> QED
  BY <1>1, <1>2, <1>3 DEF Core0Next

(* A step of the ST keeps it; the count of late answers never falls.       *)
LEMMA ClientKeeps == HandshakeInv /\ ClientNext => HandshakeInv'
<1> SUFFICES ASSUME HandshakeInv, ClientNext PROVE HandshakeInv'
  OBVIOUS
<1> USE DEF HandshakeInv, HalfInv, OneAtATime, IsSent, mirrorVars, rpVars, ghostVars
<1>1. CASE \E b \in Bodies : Send(b)
  BY <1>1 DEF Send, Holds
<1>2. CASE SeeToken
  BY <1>2 DEF SeeToken, Holds
<1>3. CASE SeeSeed
  BY <1>3 DEF SeeSeed, Return, Holds
<1>4. CASE GiveUp
  <2>1. CASE ToCome \/ answered = sent
    <3>1. late' # 0 /\ late' \in Nat
      BY <1>4, <2>1 DEF GiveUp
    <3> QED
      BY <1>4, <3>1 DEF GiveUp
  <2>2. CASE ~(ToCome \/ answered = sent)
    <3>1. late' = late
      BY <1>4, <2>2 DEF GiveUp
    <3>2. late = 0 => slot = <<>> /\ busy = <<>>
      BY <2>2 DEF ToCome
    <3> QED
      BY <1>4, <3>1, <3>2 DEF GiveUp, Holds
  <2> QED
    BY <2>1, <2>2
<1> QED
  BY <1>1, <1>2, <1>3, <1>4 DEF ClientNext

(* OneAtATime holds until the first late give-up, in every behaviour.      *)
THEOREM HandshakeInvariant == HandshakeSpec => []HandshakeInv
<1>1. HandshakeInv /\ UNCHANGED handshakeVars => HandshakeInv'
  BY DEF HandshakeInv, HalfInv, OneAtATime, IsSent, Holds, handshakeVars,
         mirrorVars, clientVars, rpVars, ghostVars
<1>2. HandshakeInv /\ [HandshakeNext]_handshakeVars => HandshakeInv'
  BY <1>1, Core0Keeps, ClientKeeps DEF HandshakeNext
<1> QED
  BY <1>2, InvInit, PTL DEF HandshakeSpec

(* A call that returns 0 was answered, until the first late give-up.       *)
THEOREM ZeroAlwaysMeansAnswered == HandshakeSpec => []ZeroMeansAnswered
<1>1. HandshakeInv => ZeroMeansAnswered
  BY DEF HandshakeInv, OneAtATime, ZeroMeansAnswered
<1> QED
  BY <1>1, HandshakeInvariant, PTL

(***************************************************************************)
(* One stolen answer for each late give-up                                 *)
(***************************************************************************)

(* What a command in the cartridge says of when it was sent.               *)
Named(q) ==
  q # <<>> => /\ q[1].n \in 1 .. sent
              /\ q[1].n = sent => q[1].token = mine

(* Commands are answered in the order they were sent, so that nothing is   *)
(* left in the cartridge behind the answer to the command sent last.       *)
BookInv ==
  /\ st \in {"idle", "waiting", "seen"}
  /\ sent \in Nat /\ late \in Nat /\ stolen \in Nat /\ answered \in 0 .. sent
  /\ Named(slot) /\ Named(busy)
  /\ half => busy # <<>> /\ tokenMem = busy[1].token /\ answered = busy[1].n
  /\ Holds(busy, sent) \/ answered = sent => slot = <<>>
  /\ answered = sent /\ busy # <<>> => half

Carries(q, t) == q # <<>> /\ q[1].token = t
Abandoned(q)  == q # <<>> /\ (st = "idle" \/ q[1].n # sent)

(* A seed that was drawn since the ST sent is in no command; and the token *)
(* word equals the seed only while an answer is half written, or while     *)
(* every command carries that value.                                       *)
SeedInv ==
  /\ st # "idle" /\ mine # seedMem => ~Carries(slot, seedMem) /\ ~Carries(busy, seedMem)
  /\ tokenMem = seedMem /\ ~half =>
       (slot # <<>> => Carries(slot, seedMem)) /\ (busy # <<>> => Carries(busy, seedMem))
  /\ st = "seen" /\ mine = seedMem => tokenMem = seedMem

(* An answer to an abandoned command with the current seed may end a wait: *)
(* this one, or the next.  Once the seed has moved on, this wait is robbed *)
(* or is not, and no later one can be.                                     *)
Owes(q) == IF Carries(q, seedMem) /\ Abandoned(q) THEN 1 ELSE 0
Robbed ==
  \/ answered # sent /\ (st = "seen" \/ tokenMem = mine)
  \/ Carries(slot, mine) /\ Abandoned(slot)
  \/ Carries(busy, mine) /\ Abandoned(busy)
Debt ==
  IF st = "idle" \/ mine = seedMem THEN Owes(slot) + Owes(busy)
  ELSE IF Robbed THEN 1 ELSE 0

TheftInv == BookInv /\ (~reused => SeedInv /\ stolen + Debt <= late)

LEMMA DebtIsNat == Debt \in Nat
  BY DEF Debt, Owes

LEMMA TheftInit == HandshakeInit => TheftInv
  BY DEF HandshakeInit, TheftInv, BookInv, SeedInv, Named, Holds, Carries, Debt, Owes, Robbed

LEMMA BookKept == BookInv /\ [HandshakeNext]_handshakeVars => BookInv'
<1> SUFFICES ASSUME BookInv, [HandshakeNext]_handshakeVars PROVE BookInv'
  OBVIOUS
<1> USE DEF BookInv, Named, Holds, mirrorVars, clientVars, rpVars, ghostVars
<1>1. CASE Take
  BY <1>1 DEF Take
<1>2. CASE AnswerToken
  BY <1>2 DEF AnswerToken
<1>3. CASE AnswerSeed
  BY <1>3 DEF AnswerSeed
<1>4. ASSUME NEW b \in Bodies, Send(b) PROVE BookInv'
  <2>1. /\ st' = "waiting" /\ sent' = sent + 1 /\ mine' = seedMem
        /\ UNCHANGED <<busy, half, tokenMem, answered, late, stolen>>
    BY <1>4 DEF Send
  <2>2. CASE slot' = <<[n |-> sent', token |-> seedMem, body |-> b]>>
    BY <2>1, <2>2
  <2>3. CASE slot' = slot
    BY <2>1, <2>3
  <2> QED
    BY <1>4, <2>2, <2>3 DEF Send
<1>5. CASE SeeToken
  BY <1>5 DEF SeeToken
<1>6. CASE SeeSeed
  BY <1>6 DEF SeeSeed, Return
<1>7. CASE GiveUp
  BY <1>7 DEF GiveUp
<1>8. CASE UNCHANGED handshakeVars
  BY <1>8 DEF handshakeVars
<1> QED
  BY <1>1, <1>2, <1>3, <1>4, <1>5, <1>6, <1>7, <1>8
     DEF HandshakeNext, Core0Next, ClientNext

(* A step of Core 0 makes no new debt: an answer under the current seed    *)
(* uses up the debt of the command it is for.                              *)
LEMMA Core0MakesNoDebt ==
  ASSUME BookInv, SeedInv, ~reused', Core0Next
  PROVE  SeedInv' /\ Debt' <= Debt /\ stolen' = stolen /\ late' = late
<1> USE DEF BookInv, SeedInv, Named, Holds, Carries, Abandoned, Owes, Debt, Robbed,
            mirrorVars, clientVars, rpVars, ghostVars
<1>1. CASE Take
  BY <1>1 DEF Take
<1>2. CASE AnswerToken
  BY <1>2 DEF AnswerToken
<1>3. CASE AnswerSeed
  <2>1. seedMem' # tokenMem /\ seedMem' # mine /\ seedMem' # seedMem
    BY <1>3 DEF AnswerSeed, InUse
  <2>2. slot # <<>> => seedMem' # slot[1].token
    BY <1>3 DEF AnswerSeed, InUse
  <2> QED
    BY <1>3, <2>1, <2>2 DEF AnswerSeed
<1> QED
  BY <1>1, <1>2, <1>3 DEF Core0Next

(* A step of the ST pays for what it owes: by a give-up, or by the robbery *)
(* itself.                                                                 *)
LEMMA ClientPays ==
  ASSUME BookInv, SeedInv, stolen + Debt <= late, ClientNext
  PROVE  SeedInv' /\ stolen' + Debt' <= late'
<1> USE DEF BookInv, SeedInv, Named, Holds, Carries, Abandoned, Owes, Debt, Robbed,
            mirrorVars, clientVars, rpVars, ghostVars
<1>1. ASSUME NEW b \in Bodies, Send(b) PROVE SeedInv' /\ stolen' + Debt' <= late'
  <2>1. /\ st = "idle" /\ st' = "waiting" /\ sent' = sent + 1 /\ mine' = seedMem
        /\ UNCHANGED <<seedMem, busy, half, tokenMem, answered, late, stolen>>
    BY <1>1 DEF Send
  <2>2. CASE slot' = <<[n |-> sent', token |-> seedMem, body |-> b]>>
    BY <2>1, <2>2
  <2>3. CASE slot' = slot
    BY <2>1, <2>3
  <2> QED
    BY <1>1, <2>2, <2>3 DEF Send
<1>2. CASE SeeToken
  BY <1>2 DEF SeeToken
<1>3. CASE SeeSeed
  BY <1>3 DEF SeeSeed, Return
<1>4. CASE GiveUp
  BY <1>4 DEF GiveUp, ToCome
<1> QED
  BY <1>1, <1>2, <1>3, <1>4 DEF ClientNext

LEMMA TheftKept == TheftInv /\ [HandshakeNext]_handshakeVars => TheftInv'
<1> SUFFICES ASSUME TheftInv, [HandshakeNext]_handshakeVars PROVE TheftInv'
  OBVIOUS
<1>1. BookInv'
  BY BookKept DEF TheftInv
<1>2. ASSUME ~reused' PROVE SeedInv' /\ stolen' + Debt' <= late'
  <2>1. ~reused
    BY <1>2 DEF HandshakeNext, Core0Next, ClientNext, Take, AnswerToken, AnswerSeed, Send,
                SeeToken, SeeSeed, GiveUp, handshakeVars, ghostVars
  <2>2. BookInv /\ SeedInv /\ stolen + Debt <= late
    BY <2>1 DEF TheftInv
  <2>3. CASE Core0Next
    <3>1. SeedInv' /\ Debt' <= Debt /\ stolen' = stolen /\ late' = late
      BY <1>2, <2>2, <2>3, Core0MakesNoDebt
    <3>2. Debt \in Nat /\ Debt' \in Nat /\ stolen \in Nat /\ late \in Nat
      BY <2>2, DebtIsNat DEF BookInv, Debt, Owes
    <3>3. \A a, b, c, d \in Nat : c + a <= d /\ b <= a => c + b <= d
      OBVIOUS
    <3>4. stolen' + Debt' <= late'
      BY <2>2, <3>1, <3>2, <3>3
    <3> QED
      BY <3>1, <3>4
  <2>4. CASE ClientNext
    BY <2>2, <2>4, ClientPays
  <2>5. CASE UNCHANGED handshakeVars
    BY <2>2, <2>5 DEF handshakeVars, mirrorVars, clientVars, rpVars, ghostVars,
       SeedInv, Carries, Abandoned, Owes, Debt, Robbed
  <2> QED
    BY <2>3, <2>4, <2>5 DEF HandshakeNext
<1> QED
  BY <1>1, <1>2 DEF TheftInv

(* Each call that returned 0 unanswered stands for one late give-up: an    *)
(* answer that comes too late does not shift the answers after it.         *)
THEOREM OneTheftPerGiveUp == HandshakeSpec => []StolenPerGiveUp
<1>1. TheftInv => StolenPerGiveUp
  BY DebtIsNat DEF TheftInv, BookInv, StolenPerGiveUp
<1> QED
  BY <1>1, TheftInit, TheftKept, PTL DEF HandshakeSpec

(***************************************************************************)
(* The demo is a user of the hand-shake                                    *)
(***************************************************************************)
LEMMA StepIsHandshake == [Next]_vars => [HandshakeNext]_handshakeVars
<1> SUFFICES ASSUME [Next]_vars PROVE [HandshakeNext]_handshakeVars
  OBVIOUS
<1>1. CASE SendCommand \/ SendAny
  <2>1. \E b \in Bodies : Send(b)
    BY <1>1, DemoAssumption DEF SendCommand, SendAny, Sending
  <2> QED
    BY <2>1 DEF HandshakeNext, ClientNext
<1>2. CASE LookAtToken \/ LookAtSeed \/ Timeout
  BY <1>2 DEF LookAtToken, LookAtSeed, Timeout, HandshakeNext, ClientNext
<1>3. CASE Read \/ Show \/ Execute \/ ExecuteTimeout
  BY <1>3 DEF Read, Show, Execute, ExecuteTimeout
<1>4. CASE TakeCommand \/ Answer
  BY <1>4 DEF TakeCommand, Answer, HandshakeNext, Core0Next
<1>5. CASE UNCHANGED vars
  BY <1>5 DEF vars
<1> QED
  BY <1>1, <1>2, <1>3, <1>4, <1>5 DEF Next, DemoStep, WorkerStep

(* Every behaviour of the demo and the worker is one of the hand-shake.    *)
THEOREM DemoIsHandshake == Spec => HandshakeInit /\ [][HandshakeNext]_handshakeVars
<1>1. Init => HandshakeInit
  BY DEF Init
<1> QED
  BY <1>1, StepIsHandshake, PTL DEF Spec

(* A command of the demo, or of any program, that returns 0 was answered,  *)
(* until the ST first gives up on an answer that was still to come.        *)
THEOREM DemoZeroMeansAnswered == Spec => []ZeroMeansAnswered
<1>1. HandshakeInv /\ UNCHANGED handshakeVars => HandshakeInv'
  BY DEF HandshakeInv, HalfInv, OneAtATime, IsSent, Holds, handshakeVars,
         mirrorVars, clientVars, rpVars, ghostVars
<1>2. HandshakeInv /\ [HandshakeNext]_handshakeVars => HandshakeInv'
  BY <1>1, Core0Keeps, ClientKeeps DEF HandshakeNext
<1>3. HandshakeInv => ZeroMeansAnswered
  BY DEF HandshakeInv, OneAtATime, ZeroMeansAnswered
<1> QED
  BY <1>2, <1>3, InvInit, DemoIsHandshake, PTL

(* And later, one stolen answer at most for each late give-up.             *)
THEOREM DemoOneTheftPerGiveUp == Spec => []StolenPerGiveUp
<1>1. TheftInv => StolenPerGiveUp
  BY DebtIsNat DEF TheftInv, BookInv, StolenPerGiveUp
<1> QED
  BY <1>1, TheftInit, TheftKept, DemoIsHandshake, PTL

(***************************************************************************)
(* The alert shows the sum                                                 *)
(***************************************************************************)
Token(q)   == q[1].token
Body(q)    == q[1].body
UpTo(cmd)  == CASE cmd = "PING" -> {"PING"} [] cmd = "UPLOAD" -> {"PING", "UPLOAD"}
                [] OTHER -> Sending
OnlyCalls(q) == q # <<>> => Body(q) = "CALL"

(* What the command cmd has left behind once it was answered.              *)
Done(cmd) ==
  /\ cmd \in {"UPLOAD", "CALL", "read"} => loaded
  /\ cmd \in {"CALL", "read"} => result = "sum" /\ OnlyCalls(slot) /\ OnlyCalls(busy)

(* A command with the seed of now is the one the ST sent last, and one     *)
(* with the ST's token is the command the ST waits for.                    *)
TokensOf(q) ==
  q # <<>> =>
    /\ Token(q) = seedMem => mine = seedMem /\ Body(q) = demo
    /\ st # "idle" /\ Token(q) = mine => Body(q) = demo
    /\ tokenMem = seedMem /\ ~half => Token(q) = seedMem
    /\ Body(q) \in UpTo(demo)

Tokens ==
  /\ TokensOf(slot) /\ TokensOf(busy)
  /\ slot # <<>> /\ busy # <<>> => Body(busy) \in UpTo(Body(slot))
  /\ half => busy # <<>> /\ executed /\ tokenMem = Token(busy)
  /\ st = "seen" /\ seedMem = mine => tokenMem = mine

(* What was executed has had its effect, and what was answered to the ST   *)
(* has had it too.                                                         *)
Effects ==
  /\ busy # <<>> /\ executed =>
       /\ Body(busy) = "UPLOAD" => loaded
       /\ Body(busy) = "CALL" /\ loaded => result = "sum"
  /\ st # "idle" /\ seedMem # mine /\ (st = "seen" \/ tokenMem = mine) => Done(demo)
  /\ demo \in {"CALL", "read"} => loaded
  /\ demo = "read" => Done("read")

Shows ==
  /\ demo \in Sending => shown = <<>>
  /\ demo = "read" => shown \in {<<>>, <<"sum">>, <<"sum", "sum">>}

InTime  == timeouts = 0 /\ ~reused
DemoInv ==
  /\ timeouts \in Nat /\ st \in {"idle", "waiting", "seen"}
  /\ demo \in Sending \union {"read", "ended", "any"}
  /\ alert # "result" \/ demo = "ended"
  /\ demo \in {"read", "ended"} => st = "idle"
  /\ InTime /\ demo \in Sending \union {"read"} => Tokens /\ Effects /\ Shows
  /\ InTime /\ alert = "result" => shown = <<"sum", "sum">>

LEMMA DemoInit == Init => DemoInv
  BY DEF Init, HandshakeInit, DemoInv, Tokens, TokensOf, Effects, Shows, Sending

LEMMA SendKeeps == DemoInv /\ SendCommand => DemoInv'
<1> SUFFICES ASSUME DemoInv, SendCommand PROVE DemoInv'
  OBVIOUS
<1> USE DEF Token, Body
<1>1. /\ demo \in Sending /\ demo' = demo /\ st = "idle" /\ st' = "waiting"
      /\ mine' = seedMem /\ busy' = busy
      /\ slot' = slot \/ (slot' # <<>> /\ Token(slot') = seedMem /\ Body(slot') = demo)
      /\ UNCHANGED <<seedMem, tokenMem, half, reused, shown, alert, result, loaded, executed, timeouts>>
  BY DEF SendCommand, Send, mirrorVars, ghostVars, workerVars
<1>2. ASSUME InTime PROVE Tokens' /\ Effects' /\ Shows'
  <2>1. Tokens /\ Effects /\ Shows
    BY <1>1, <1>2 DEF DemoInv
  <2>2. demo \in UpTo(demo)
    BY <1>1 DEF UpTo, Sending
  <2>3. Tokens'
    BY <1>1, <2>1, <2>2 DEF Tokens, TokensOf
  <2>4. Effects'
    BY <1>1, <2>1 DEF Effects, Sending
  <2>5. Shows'
    BY <1>1, <2>1 DEF Shows, Sending
  <2> QED
    BY <2>3, <2>4, <2>5
<1> QED
  BY <1>1, <1>2 DEF DemoInv, InTime, Sending
LEMMA LookKeeps == DemoInv /\ (LookAtToken \/ LookAtSeed) => DemoInv'
<1> SUFFICES ASSUME DemoInv, LookAtToken \/ LookAtSeed PROVE DemoInv'
  OBVIOUS
<1> USE DEF Token, Body, mirrorVars, rpVars, ghostVars, demoVars, workerVars
<1>1. CASE LookAtToken
  <2>1. /\ st = "waiting" /\ st' = "seen" /\ tokenMem = mine
        /\ UNCHANGED <<seedMem, tokenMem, mine, slot, busy, half, reused, demo, shown, alert,
                       result, loaded, executed, timeouts>>
    BY <1>1 DEF LookAtToken, SeeToken
  <2>2. ASSUME InTime, demo \in Sending \union {"read"} PROVE Tokens' /\ Effects' /\ Shows'
    <3>1. Tokens /\ Effects /\ Shows
      BY <2>2 DEF DemoInv
    <3>2. Tokens'
      BY <2>1, <3>1 DEF Tokens, TokensOf
    <3>3. Effects' /\ Shows'
      BY <2>1, <3>1 DEF Effects, Shows, Done, OnlyCalls
    <3> QED
      BY <3>2, <3>3
  <2> QED
    BY <2>1, <2>2 DEF DemoInv, InTime
<1>2. CASE LookAtSeed /\ seedMem = mine
  <2>1. /\ st = "seen" /\ st' = "waiting" /\ seedMem = mine
        /\ UNCHANGED <<seedMem, tokenMem, mine, slot, busy, half, reused, demo, shown, alert,
                       result, loaded, executed, timeouts>>
    BY <1>2 DEF LookAtSeed, SeeSeed
  <2>2. ASSUME InTime, demo \in Sending \union {"read"} PROVE Tokens' /\ Effects' /\ Shows'
    <3>1. Tokens /\ Effects /\ Shows
      BY <2>2 DEF DemoInv
    <3>2. Tokens'
      BY <2>1, <3>1 DEF Tokens, TokensOf
    <3>3. Effects' /\ Shows'
      BY <2>1, <3>1 DEF Effects, Shows, Done, OnlyCalls
    <3> QED
      BY <3>2, <3>3
  <2> QED
    BY <2>1, <2>2 DEF DemoInv, InTime
<1>3. CASE LookAtSeed /\ seedMem # mine
  <2>1. /\ st = "seen" /\ st' = "idle" /\ demo' = After(demo)
        /\ UNCHANGED <<seedMem, tokenMem, mine, slot, busy, half, reused, shown, alert,
                       result, loaded, executed, timeouts>>
    BY <1>3 DEF LookAtSeed, SeeSeed, Return
  <2>2. demo \in Sending \union {"any"} /\ demo' \in {"UPLOAD", "CALL", "read", "any"}
        /\ (demo = "any" => demo' = "any") /\ alert # "result"
    BY <2>1 DEF DemoInv, After, Sending
  <2>3. CASE ~InTime \/ demo = "any"
    BY <2>1, <2>2, <2>3 DEF DemoInv, InTime, Sending
  <2>4. CASE InTime /\ demo \in Sending
    <3>1. Tokens /\ Effects /\ Shows /\ demo \in Sending
      BY <2>1, <2>4 DEF DemoInv
    <3>2. /\ demo' \in {"UPLOAD", "CALL", "read"}
          /\ demo' = "UPLOAD" => demo = "PING"
          /\ demo' = "CALL" => demo = "UPLOAD"
          /\ demo' = "read" => demo = "CALL"
      BY <2>1, <3>1 DEF After, Sending
    <3>3. UpTo(demo) \subseteq UpTo(demo')
      BY <3>2 DEF UpTo, Sending
    <3>4. Tokens'
      BY <1>3, <2>1, <3>1, <3>3 DEF Tokens, TokensOf
    <3>5. Done(demo)
      BY <1>3, <2>1, <3>1 DEF Effects
    <3>6. Effects'
      BY <2>1, <3>1, <3>2, <3>5 DEF Effects, Done, OnlyCalls
    <3>7. Shows'
      BY <2>1, <3>1, <3>2 DEF Shows, Sending
    <3> QED
      BY <2>1, <2>2, <2>4, <3>1, <3>2, <3>4, <3>6, <3>7 DEF DemoInv, InTime, Sending
  <2> QED
    BY <2>2, <2>3, <2>4
<1> QED
  BY <1>1, <1>2, <1>3

LEMMA TimeoutKeeps == DemoInv /\ Timeout => DemoInv'
<1> SUFFICES ASSUME DemoInv, Timeout PROVE DemoInv'
  OBVIOUS
<1> USE DEF Token, Body
<1>1. /\ st = "waiting" /\ st' = "idle"
      /\ UNCHANGED <<seedMem, tokenMem, mine, slot, busy, half, reused, shown,
                     result, loaded, executed, timeouts>>
      /\ \/ UNCHANGED <<demo, alert>>
         \/ demo' = "ended" /\ alert' = "failed"
  BY DEF Timeout, GiveUp, Failed, mirrorVars, rpVars, workerVars
<1>2. CASE UNCHANGED <<demo, alert>>
  <2>1. ASSUME InTime, demo \in Sending \union {"read"} PROVE Tokens' /\ Effects' /\ Shows'
    <3>1. Tokens /\ Effects /\ Shows
      BY <2>1 DEF DemoInv
    <3>2. Tokens'
      BY <1>1, <1>2, <3>1 DEF Tokens, TokensOf
    <3>3. Effects' /\ Shows'
      BY <1>1, <1>2, <3>1 DEF Effects, Shows, Done, OnlyCalls
    <3> QED
      BY <3>2, <3>3
  <2> QED
    BY <1>1, <1>2, <2>1 DEF DemoInv, InTime
<1>3. CASE demo' = "ended" /\ alert' = "failed"
  BY <1>1, <1>3 DEF DemoInv, InTime, Sending
<1> QED
  BY <1>1, <1>2, <1>3

(* The two parts of the text, as Read appends them.                        *)
LEMMA Appending == /\ Append(<<>>, "sum") = <<"sum">>
                   /\ Append(<<"sum">>, "sum") = <<"sum", "sum">>
                   /\ Len(<<"sum", "sum">>) = 2
<1>1. ASSUME NEW s \in Seq({"sum"}), Len(s) = 2 PROVE s = <<"sum", "sum">>
  BY <1>1
<1>2. ASSUME NEW s \in Seq({"sum"}), Len(s) = 1 PROVE Len(Append(s, "sum")) = 2
  <2>1. Len(Append(s, "sum")) = Len(s) + 1
    OBVIOUS
  <2> QED
    BY <1>2, <2>1
<1>3. ASSUME NEW s \in Seq({"sum"}) PROVE Append(s, "sum") \in Seq({"sum"})
  OBVIOUS
<1>4. <<"sum">> \in Seq({"sum"}) /\ Len(<<"sum">>) = 1
  OBVIOUS
<1>5. Append(<<"sum">>, "sum") = <<"sum", "sum">>
  BY <1>1, <1>2, <1>3, <1>4, Zenon
<1>6. Append(<<>>, "sum") = <<"sum">> /\ Len(<<"sum", "sum">>) = 2
  OBVIOUS
<1> QED
  BY <1>5, <1>6

LEMMA ReadKeeps == DemoInv /\ (Read \/ Show) => DemoInv'
<1> SUFFICES ASSUME DemoInv, Read \/ Show PROVE DemoInv'
  OBVIOUS
<1>1. demo = "read" /\ (InTime => Tokens /\ Effects /\ Shows)
  BY DEF Read, Show, DemoInv
<1>2. CASE Read
  <2>1. /\ demo' = demo /\ Len(shown) < 2 /\ shown' = Append(shown, result)
        /\ UNCHANGED <<seedMem, tokenMem, st, mine, slot, busy, half, reused, alert,
                       result, loaded, executed, timeouts>>
    BY <1>2 DEF Read, handshakeVars, mirrorVars, clientVars, rpVars, ghostVars, workerVars
  <2>2. ASSUME InTime PROVE Tokens' /\ Effects' /\ Shows'
    <3>1. Tokens' /\ Effects'
      BY <1>1, <2>1, <2>2 DEF Tokens, TokensOf, Effects, Done, OnlyCalls, Token, Body
    <3>2. result = "sum" /\ shown \in {<<>>, <<"sum">>, <<"sum", "sum">>}
      BY <1>1, <2>2 DEF Effects, Done, Shows
    <3>3. CASE shown = <<>>
      <4>1. shown' = <<"sum">>
        BY <2>1, <3>2, <3>3, Appending
      <4> QED
        BY <1>1, <2>1, <3>1, <4>1 DEF Shows, Sending
    <3>4. CASE shown = <<"sum">>
      <4>1. shown' = <<"sum", "sum">>
        BY <2>1, <3>2, <3>4, Appending
      <4> QED
        BY <1>1, <2>1, <3>1, <4>1 DEF Shows, Sending
    <3>5. shown # <<"sum", "sum">>
      BY <2>1, Appending
    <3> QED
      BY <3>2, <3>3, <3>4, <3>5
  <2> QED
    BY <1>1, <2>1, <2>2 DEF DemoInv, InTime
<1>3. CASE Show
  <2>1. /\ demo' = "ended" /\ Len(shown) = 2
        /\ UNCHANGED <<st, reused, shown, timeouts>>
    BY <1>3 DEF Show, handshakeVars, clientVars, ghostVars, workerVars
  <2>2. InTime => shown = <<"sum", "sum">>
    BY <1>1, <2>1 DEF Shows
  <2> QED
    BY <1>1, <2>1, <2>2 DEF DemoInv, InTime, Sending
<1> QED
  BY <1>2, <1>3

LEMMA WorkerKeeps == DemoInv /\ (TakeCommand \/ Execute \/ ExecuteTimeout) => DemoInv'
<1> SUFFICES ASSUME DemoInv, TakeCommand \/ Execute \/ ExecuteTimeout PROVE DemoInv'
  OBVIOUS
<1> USE DEF Token, Body
<1>1. CASE TakeCommand
  <2>1. /\ busy = <<>> /\ busy' = slot /\ slot' = <<>> /\ executed' = FALSE
        /\ UNCHANGED <<seedMem, tokenMem, st, mine, half, reused, demo, shown, alert,
                       result, loaded, timeouts>>
    BY <1>1 DEF TakeCommand, Take, mirrorVars, clientVars, ghostVars, demoVars
  <2>2. ASSUME InTime, demo \in Sending \union {"read"} PROVE Tokens' /\ Effects' /\ Shows'
    <3>1. Tokens /\ Effects /\ Shows
      BY <2>2 DEF DemoInv
    <3>2. Tokens'
      BY <2>1, <3>1 DEF Tokens, TokensOf
    <3>3. Effects' /\ Shows'
      BY <2>1, <3>1 DEF Effects, Shows, Done, OnlyCalls
    <3> QED
      BY <3>2, <3>3
  <2> QED
    BY <2>1, <2>2 DEF DemoInv, InTime
<1>2. CASE Execute
  <2>1. /\ busy # <<>> /\ ~executed /\ executed' = TRUE
        /\ loaded' = (loaded \/ Body(busy) = "UPLOAD")
        /\ Body(busy) = "CALL" /\ loaded => result' = "sum"
        /\ UNCHANGED <<seedMem, tokenMem, st, mine, slot, busy, half, reused, demo, shown, alert,
                       timeouts>>
    BY <1>2 DEF Execute, handshakeVars, mirrorVars, clientVars, rpVars, ghostVars, demoVars
  <2>2. ASSUME InTime, demo \in Sending \union {"read"} PROVE Tokens' /\ Effects' /\ Shows'
    <3>1. Tokens /\ Effects /\ Shows
      BY <2>2 DEF DemoInv
    <3>2. Tokens'
      BY <2>1, <3>1 DEF Tokens, TokensOf
    <3>3. loaded => loaded'
      BY <2>1
    <3>4. Body(busy) = "UPLOAD" => loaded'
      BY <2>1
    <3>5. \A c : Done(c) => Done(c)'
      BY <2>1, <3>3 DEF Done, OnlyCalls
    <3>6. Effects'
      BY <2>1, <3>1, <3>3, <3>4, <3>5 DEF Effects
    <3>7. Shows'
      BY <2>1, <3>1 DEF Shows
    <3> QED
      BY <3>2, <3>6, <3>7
  <2> QED
    BY <2>1, <2>2 DEF DemoInv, InTime
<1>3. CASE ExecuteTimeout
  BY <1>3 DEF ExecuteTimeout, DemoInv, InTime, handshakeVars, clientVars, ghostVars, demoVars
<1> QED
  BY <1>1, <1>2, <1>3

LEMMA AnswerKeeps == DemoInv /\ Answer => DemoInv'
<1> SUFFICES ASSUME DemoInv, Answer PROVE DemoInv'
  OBVIOUS
<1> USE DEF Token, Body
<1>1. CASE AnswerToken
  <2>1. /\ busy # <<>> /\ ~half /\ half' /\ executed /\ tokenMem' = Token(busy)
        /\ UNCHANGED <<seedMem, st, mine, slot, busy, reused, demo, shown, alert,
                       result, loaded, executed, timeouts>>
    BY <1>1 DEF Answer, AnswerToken, clientVars, demoVars, workerVars
  <2>2. ASSUME InTime, demo \in Sending \union {"read"} PROVE Tokens' /\ Effects' /\ Shows'
    <3>1. Tokens /\ Effects /\ Shows
      BY <2>2 DEF DemoInv
    <3>2. Tokens'
      BY <2>1, <3>1 DEF Tokens, TokensOf
    <3>3. st # "idle" /\ Token(busy) = mine => Done(demo)
      BY <2>1, <2>2, <3>1 DEF Tokens, TokensOf, Effects, Done, OnlyCalls, UpTo, Sending
    <3>4. \A c : Done(c) => Done(c)'
      BY <2>1 DEF Done, OnlyCalls
    <3>5. Effects'
      BY <2>1, <3>1, <3>3, <3>4 DEF Effects
    <3>6. Shows'
      BY <2>1, <3>1 DEF Shows
    <3> QED
      BY <3>2, <3>5, <3>6
  <2> QED
    BY <2>1, <2>2 DEF DemoInv, InTime
<1>2. CASE AnswerSeed
  <2>1. /\ half /\ ~half' /\ executed /\ busy' = <<>> /\ seedMem' # seedMem
        /\ ~reused' => ~reused /\ seedMem' \notin InUse
        /\ UNCHANGED <<tokenMem, st, mine, slot, demo, shown, alert,
                       result, loaded, executed, timeouts>>
    BY <1>2 DEF Answer, AnswerSeed, clientVars, demoVars, workerVars
  <2>2. ASSUME InTime', demo \in Sending \union {"read"} PROVE Tokens' /\ Effects' /\ Shows'
    <3>1. Tokens /\ Effects /\ Shows
      BY <2>1, <2>2 DEF DemoInv, InTime
    <3>2. /\ seedMem' # tokenMem /\ seedMem' # mine
          /\ slot # <<>> => seedMem' # Token(slot)
      BY <2>1, <2>2 DEF InTime, InUse
    <3>3. Tokens'
      BY <2>1, <3>1, <3>2 DEF Tokens, TokensOf
    <3>4. busy # <<>> /\ tokenMem = Token(busy)
      BY <2>1, <3>1 DEF Tokens
    <3>5. st # "idle" /\ tokenMem = mine => Done(demo)
      BY <2>1, <2>2, <3>1, <3>4 DEF Tokens, TokensOf, Effects, Done, OnlyCalls, UpTo, Sending
    <3>6. \A c : Done(c) => Done(c)'
      BY <2>1 DEF Done, OnlyCalls
    <3>7. st = "seen" => Done(demo)
      BY <2>1, <3>1, <3>5 DEF Tokens, Effects
    <3>8. Effects'
      BY <2>1, <3>1, <3>5, <3>6, <3>7 DEF Effects
    <3>9. Shows'
      BY <2>1, <3>1 DEF Shows
    <3> QED
      BY <3>3, <3>8, <3>9
  <2> QED
    BY <2>1, <2>2 DEF DemoInv, InTime
<1> QED
  BY <1>1, <1>2 DEF Answer

(* A program that keeps to no order shows nothing.                         *)
LEMMA AnyKeeps == DemoInv /\ (SendAny \/ UNCHANGED vars) => DemoInv'
<1> SUFFICES ASSUME DemoInv, SendAny \/ UNCHANGED vars PROVE DemoInv'
  OBVIOUS
<1>1. CASE SendAny
  BY <1>1 DEF SendAny, Send, DemoInv, InTime, Sending, demoVars, workerVars, ghostVars
<1>2. CASE UNCHANGED vars
  BY <1>2 DEF vars, handshakeVars, mirrorVars, clientVars, rpVars, ghostVars, demoVars, workerVars,
              DemoInv, InTime, Tokens, TokensOf, Effects, Done, OnlyCalls, Shows, Token, Body
<1> QED
  BY <1>1, <1>2

(* No seed is the token of two commands of the demo, in every behaviour.   *)
THEOREM DemoInvariant == Spec => []DemoInv
<1>1. DemoInv /\ [Next]_vars => DemoInv'
  BY SendKeeps, LookKeeps, TimeoutKeeps, ReadKeeps, WorkerKeeps, AnswerKeeps, AnyKeeps
     DEF Next, DemoStep, WorkerStep
<1> QED
  BY <1>1, DemoInit, PTL DEF Spec

(* The alert shows the sum, if Core 1 was in time and no seed repeated.    *)
THEOREM DemoShowsItsSum == Spec => []ShowsItsSum
<1>1. DemoInv => ShowsItsSum
  BY DEF DemoInv, InTime, ShowsItsSum
<1> QED
  BY <1>1, DemoInvariant, PTL
=============================================================================
