----------------------------- MODULE Handshake ------------------------------
(***************************************************************************)
(* How the ST knows that its command was answered.  It sends along the     *)
(* seed word it finds in the ROM mirror (sidecart_stubs.S) and waits until *)
(* the token word is that value and the seed word is not.  Core 0          *)
(* (js_send_response) writes the command's value to the token word, then a *)
(* new random seed.  The ST gives up after COMMAND_TIMEOUT, about 69 s,    *)
(* and Core 0 may answer later than that: a fetch() has no bound.          *)
(*                                                                         *)
(* A 32-bit word of the mirror is read and written in one step.  The ST     *)
(* reads it as two 16-bit halves, and a write between them can only make a *)
(* wait end while Core 0 is writing its answer, or one turn later.         *)
(* rand() is any value but the one it gave last: two equal ones in a row,  *)
(* once in 2^31, would make the ST wait out its timeout.                   *)
(* Only commands that Core 0 answers are sent (the client sends no other). *)
(***************************************************************************)
EXTENDS Naturals, Sequences

CONSTANTS
  MaxSends,   (* how many commands the ST sends: bounds the model           *)
  Seeds,      (* values of rand()                                           *)
  Bodies      (* what a command may say                                     *)

ASSUME MaxSendsAssumption == MaxSends \in Nat

VARIABLES
  seedMem, tokenMem,   (* the seed and token words of the mirror            *)
  st, mine, sent,      (* the ST: its wait, the token it sent, commands sent *)
  slot, busy,          (* the command buffer; the command Core 0 works on   *)
  half,                (* Core 0 has written the token and not yet the seed *)
  answered,            (* the command answered last                         *)
  late,                (* waits given up although the answer was to come    *)
  stolen,              (* waits that ended on another command's answer      *)
  reused               (* rand() gave a value that was still in use         *)

mirrorVars == <<seedMem, tokenMem>>
clientVars == <<st, mine, sent>>
rpVars     == <<slot, busy, half>>
ghostVars  == <<answered, late, stolen, reused>>
handshakeVars == <<mirrorVars, clientVars, rpVars, ghostVars>>

Command == [n : 1 .. MaxSends, token : Seeds, body : Bodies]
IsBuffer(q) == Len(q) <= 1 /\ \A k \in DOMAIN q : q[k] \in Command

TypeOK ==
  /\ seedMem \in Seeds /\ tokenMem \in Seeds
  /\ st \in {"idle", "waiting", "seen"} /\ mine \in Seeds /\ sent \in 0 .. MaxSends
  /\ IsBuffer(slot) /\ IsBuffer(busy) /\ half \in BOOLEAN
  /\ answered \in 0 .. MaxSends /\ late \in 0 .. MaxSends /\ stolen \in 0 .. MaxSends
  /\ reused \in BOOLEAN

HandshakeInit ==
  /\ seedMem \in Seeds /\ tokenMem \in Seeds
  /\ st = "idle" /\ mine = seedMem /\ sent = 0
  /\ slot = <<>> /\ busy = <<>> /\ half = FALSE
  /\ answered = 0 /\ late = 0 /\ stolen = 0 /\ reused = FALSE

(* A frame lands in the command buffer, or the parser drops it.            *)
Send(b) ==
  /\ st = "idle" /\ sent < MaxSends
  /\ st' = "waiting" /\ mine' = seedMem /\ sent' = sent + 1
  /\ slot' \in {<<[n |-> sent', token |-> seedMem, body |-> b]>>, slot}
  /\ UNCHANGED <<mirrorVars, busy, half, ghostVars>>

Take ==
  /\ busy = <<>> /\ slot # <<>>
  /\ busy' = slot /\ slot' = <<>>
  /\ UNCHANGED <<mirrorVars, clientVars, half, ghostVars>>

(* js_send_response: first the token ...                                   *)
AnswerToken ==
  /\ busy # <<>> /\ ~half
  /\ tokenMem' = busy[1].token /\ answered' = busy[1].n /\ half' = TRUE
  /\ UNCHANGED <<seedMem, clientVars, slot, busy, late, stolen, reused>>

(* Mutant: the seed is not drawn again.                     *)
AnswerSeed_SameSeed ==
  /\ half /\ half' = FALSE /\ busy' = <<>>
  /\ UNCHANGED <<mirrorVars, clientVars, slot, ghostVars>>

(* Values that a word of the mirror, the ST or a command still holds.      *)
InUse == {tokenMem, mine} \cup {q[1].token : q \in {slot, busy} \ {<<>>}}

(* ... then the new seed.                                                  *)
AnswerSeed ==
  /\ half /\ half' = FALSE /\ busy' = <<>>
  /\ seedMem' \in Seeds \ {seedMem}
  /\ reused' = (reused \/ seedMem' \in InUse)
  /\ UNCHANGED <<tokenMem, clientVars, slot, answered, late, stolen>>

(* Mutant: the seed word alone decides.                                    *)
SeeToken_NoCheck ==
  /\ st = "waiting" /\ st' = "seen"
  /\ UNCHANGED <<mirrorVars, mine, sent, rpVars, ghostVars>>

(* .Lwait_token compares the token word ...                                *)
SeeToken ==
  /\ st = "waiting" /\ tokenMem = mine
  /\ st' = "seen"
  /\ UNCHANGED <<mirrorVars, mine, sent, rpVars, ghostVars>>

(* The wait is over; the call returns 0.                                   *)
Return ==
  /\ st' = "idle"
  /\ stolen' = stolen + (IF answered = sent THEN 0 ELSE 1)

(* Mutant: the token word alone decides.                                   *)
SeeSeed_NoCheck ==
  /\ st = "seen" /\ Return
  /\ UNCHANGED <<mirrorVars, mine, sent, rpVars, answered, late, reused>>

(* ... and then the seed word: it must not be the token as well.           *)
SeeSeed ==
  /\ st = "seen"
  /\ IF seedMem # mine THEN Return ELSE st' = "waiting" /\ UNCHANGED stolen
  /\ UNCHANGED <<mirrorVars, mine, sent, rpVars, answered, late, reused>>

Holds(q, n) == q # <<>> /\ q[1].n = n
ToCome == Holds(slot, sent) \/ Holds(busy, sent)

(* The count runs out; the call returns -1.                                *)
GiveUp ==
  /\ st = "waiting" /\ st' = "idle"
  /\ late' = late + (IF ToCome \/ answered = sent THEN 1 ELSE 0)
  /\ UNCHANGED <<mirrorVars, mine, sent, rpVars, answered, stolen, reused>>

Core0Next  == Take \/ AnswerToken \/ AnswerSeed
ClientNext == (\E b \in Bodies : Send(b)) \/ SeeToken \/ SeeSeed \/ GiveUp
HandshakeNext == Core0Next \/ ClientNext

(* Core 0 runs by itself, and the ST keeps polling while it waits; it need *)
(* not send, and need not give up in time.                                 *)
HandshakeSpec ==
  /\ HandshakeInit /\ [][HandshakeNext]_handshakeVars
  /\ WF_handshakeVars(Core0Next) /\ WF_handshakeVars(SeeToken \/ SeeSeed)

(***************************************************************************)
(* Properties.                                                             *)
(***************************************************************************)

(* A late answer ends at most one wait and does not shift the waits after  *)
(* it, though two old commands may be in the cartridge: each call that     *)
(* returns 0 unanswered stands for one time the ST gave up on an answer    *)
(* that was still to come, unless rand() repeats a value in use.           *)
StolenPerGiveUp == ~reused => stolen <= late

(* As long as the ST has not given up on an answer that was still to come, *)
(* 0 means answered, although the values of rand() repeat and commands are *)
(* dropped by the parser: an old token equal to the one sent ends no wait, *)
(* because the seed has that value too until the command is answered.      *)
ZeroMeansAnswered == late = 0 => stolen = 0

(* Until then, too, a command that has landed ends its wait: the ST never  *)
(* waits out its timeout for a command that the cartridge has.             *)
LandedEndsWait == st = "waiting" /\ ToCome /\ late = 0 ~> st = "idle"
=============================================================================
