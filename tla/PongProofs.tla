---------------------------- MODULE PongProofs ----------------------------
(***************************************************************************)
(* Two results about ST JS Pong, for every court, speed, aim and answer of *)
(* the JavaScript.                                                         *)
(*                                                                         *)
(* An answer is one of this game: a new game clears js_inflight, so that   *)
(* what the call of the game before answers is never taken.                *)
(*                                                                         *)
(* Nothing leaves the court but a ball that was missed: what is drawn is   *)
(* drawn without a look at the edges.  The ball, the paddles and the       *)
(* target are clamped by the step that moves them; the ball flies away     *)
(* from the paddle that hit it last because its speed is never 0.          *)
(***************************************************************************)
EXTENDS Pong, TLAPS

(***************************************************************************)
(* The answer                                                              *)
(***************************************************************************)
IsWorker(w) == w = [status |-> w.status, answer |-> w.answer, of |-> w.of]

CallInv ==
  /\ IsWorker(worker)
  /\ inflight /\ worker.status # "ERROR" => worker.of = game

LEMMA FrameKeepsCall == CallInv /\ Frame => CallInv'
<1> SUFFICES ASSUME CallInv, Frame PROVE CallInv'
  OBVIOUS
<1>1. game' = game
  BY DEF Frame
<1>2. Delivered => /\ IsWorker(worker')
                   /\ worker'.status = "ERROR" \/ worker'.of = game
  BY DEF Delivered, CallInv, IsWorker
<1>3. CASE UNCHANGED <<inflight, worker>>
  BY <1>1, <1>3 DEF CallInv, IsWorker
<1>4. CASE Fired
  BY <1>1, <1>2, <1>4 DEF Fired, CallInv, IsWorker
<1>5. CASE NotFired
  BY <1>1, <1>2, <1>5 DEF NotFired, CallInv, IsWorker
<1>6. UNCHANGED <<inflight, worker>> \/ Fired \/ NotFired
  BY DEF Frame, UpdateTarget
<1> QED
  BY <1>3, <1>4, <1>5, <1>6

LEMMA CallInductive == CallInv /\ [Next]_vars => CallInv'
<1> SUFFICES ASSUME CallInv, [Next]_vars PROVE CallInv'
  OBVIOUS
<1>1. CASE ResetGame
  BY <1>1 DEF ResetGame, ForgetCall, CallInv, IsWorker
<1>2. CASE Settle
  BY <1>2 DEF Settle, CallInv, IsWorker, gameVars, callVars
<1>3. CASE UNCHANGED vars
  BY <1>3 DEF vars, gameVars, callVars, CallInv, IsWorker
<1> QED
  BY <1>1, <1>2, <1>3, FrameKeepsCall DEF Next

(* The paddle is aimed by answers of this game, however late those of the  *)
(* game before are.                                                        *)
THEOREM AnswersAreThisGames == Spec => []AnswersThisGame
<1>1. Init => CallInv
  BY DEF Init, CallInv, IsWorker
<1>2. CallInv => AnswersThisGame
  BY DEF CallInv, AnswersThisGame
<1> QED
  BY <1>1, <1>2, CallInductive, PTL DEF Spec

(***************************************************************************)
(* The court                                                               *)
(***************************************************************************)
Balls  == [x : Int, y : Int, vx : Int, vy : Int]
Sides  == [left : Int, right : Int]
BallYs == PlayTop * One .. (PlayBot - Ball) * One
PadYs  == PlayTop .. PlayBot - PadH

CourtTypes ==
  /\ ball \in Balls /\ pads \in Sides /\ bias \in Sides /\ score \in Sides
  /\ target \in Int /\ game \in Nat /\ phase \in {"play", "over"}
  /\ IsWorker(worker) /\ worker.answer \subseteq Int
InCourt ==
  /\ ball.y \in BallYs /\ pads.left \in PadYs /\ pads.right \in PadYs
  /\ ball.vx # 0 /\ ball.vx \in -VxMax .. VxMax
  /\ phase = "play" => score.left < WinScore /\ score.right < WinScore
Aimed    == target = Middle \/ target = ClampCentre(target)
CourtInv ==
  /\ CourtTypes /\ Aimed
  /\ game = 0 => phase = "over" /\ lastHit = "none"
  /\ game > 0 => InCourt
  /\ FliesAway

LEMMA Geometry ==
  /\ PlayTop * One \in Int /\ (PlayBot - Ball) * One \in Int
  /\ PlayTop * One <= (PlayBot - Ball) * One
  /\ LeftFace \in Int /\ RightFace \in Int /\ Middle \in Int
  /\ (Middle - Ball \div 2) * One \in BallYs
<1> USE CourtAssumption
<1>1. ASSUME NEW a \in Int, NEW b \in Int, NEW c \in Nat, a <= b PROVE a * c <= b * c
  BY <1>1
<1>2. Middle \in Int /\ PlayTop <= Middle - Ball \div 2 /\ Middle - Ball \div 2 <= PlayBot - Ball
  BY DEF Middle
<1>3. /\ PlayTop * One \in Int /\ (PlayBot - Ball) * One \in Int
      /\ (Middle - Ball \div 2) * One \in Int
  BY <1>2
<1>4. /\ PlayTop * One <= (Middle - Ball \div 2) * One
      /\ (Middle - Ball \div 2) * One <= (PlayBot - Ball) * One
  BY <1>1, <1>2
<1> QED
  BY <1>2, <1>3, <1>4 DEF LeftFace, RightFace, BallYs

LEMMA ClampRange ==
  ASSUME NEW x \in Int, NEW lo \in Int, NEW hi \in Int, lo <= hi
  PROVE  Clamp(x, lo, hi) \in lo .. hi
  BY DEF Clamp

LEMMA AimIsInCourt ==
  ASSUME NEW c \in Int PROVE ClampCentre(c) \in Int /\ ClampCentre(ClampCentre(c)) = ClampCentre(c)
  BY CourtAssumption DEF ClampCentre, Clamp

LEMMA DivisionInt ==
  ASSUME NEW a \in Int, NEW b \in Nat \ {0} PROVE Quot(a, b) \in Int /\ Rem(a, b) \in Int
<1>1. Quot(a, b) \in Int
  BY DEF Quot
<1> QED
  BY <1>1 DEF Rem

(* Whatever the ball does, predict_right gives a number.                   *)
LEMMA PredictInt == ASSUME NEW b \in Balls PROVE PredictRight(b) \in Int /\ Centre(b) \in Int
<1> USE CourtAssumption
<1>1. b.x \in Int /\ b.y \in Int /\ b.vx \in Int /\ b.vy \in Int
  BY DEF Balls
<1>2. PredTop \in Int /\ PredBot \in Int /\ 2 * (PredBot - PredTop) \in Nat \ {0}
  BY DEF PredTop, PredBot
<1>3. ASSUME NEW y \in Int PROVE Unfold(y) \in Int
  <2>1. Rem(y - PredTop, 2 * (PredBot - PredTop)) \in Int
    BY <1>2, DivisionInt
  <2> QED
    BY <1>2, <2>1 DEF Unfold
<1>4. Centre(b) \in Int /\ RightX - (b.x \div One + Ball \div 2) \in Int
  BY <1>1 DEF Centre
<1>5. (PredTop + PredBot) \div 2 \in Int
  BY <1>2
<1>6. CASE b.vx > 0
  <2>1. b.vy * (RightX - (b.x \div One + Ball \div 2)) \in Int /\ b.vx \in Nat \ {0}
    BY <1>1, <1>4, <1>6
  <2>2. Quot(b.vy * (RightX - (b.x \div One + Ball \div 2)), b.vx) \in Int
    BY <2>1, DivisionInt
  <2> QED
    BY <1>3, <1>4, <1>5, <2>2 DEF PredictRight
<1>7. CASE b.vx <= 0
  BY <1>4, <1>5, <1>7 DEF PredictRight
<1> QED
  BY <1>1, <1>6, <1>7

LEMMA FlownInCourt ==
  ASSUME NEW b \in Balls
  PROVE  Flown(b) \in Balls /\ Flown(b).y \in BallYs /\ Flown(b).vx = b.vx
<1> DEFINE top == PlayTop * One
           bot == (PlayBot - Ball) * One
           f   == Flown(b)
<1>1. top \in Int /\ bot \in Int /\ top <= bot /\ BallYs = top .. bot
  BY Geometry DEF BallYs
<1>2. b.x + b.vx \in Int /\ b.y + b.vy \in Int /\ -b.vy \in Int /\ b.vx \in Int /\ b.vy \in Int
  BY DEF Balls
<1>3. CASE b.y + b.vy < top
  <2>1. f = [b EXCEPT !.x = b.x + b.vx, !.y = top, !.vy = -b.vy]
    BY <1>3 DEF Flown
  <2> HIDE DEF f, top, bot
  <2>2. f \in Balls /\ f.y = top /\ f.vx = b.vx
    BY <2>1, <1>1, <1>2 DEF Balls
  <2> QED
    BY <2>2, <1>1 DEF f
<1>4. CASE ~(b.y + b.vy < top) /\ b.y + b.vy > bot
  <2>1. f = [b EXCEPT !.x = b.x + b.vx, !.y = bot, !.vy = -b.vy]
    BY <1>4 DEF Flown
  <2> HIDE DEF f, top, bot
  <2>2. f \in Balls /\ f.y = bot /\ f.vx = b.vx
    BY <2>1, <1>1, <1>2 DEF Balls
  <2> QED
    BY <2>2, <1>1 DEF f
<1>5. CASE ~(b.y + b.vy < top) /\ ~(b.y + b.vy > bot)
  <2>1. f = [b EXCEPT !.x = b.x + b.vx, !.y = b.y + b.vy]
    BY <1>5 DEF Flown
  <2> HIDE DEF f, top, bot
  <2>2. f \in Balls /\ f.y = b.y + b.vy /\ f.vx = b.vx
    BY <2>1, <1>2 DEF Balls
  <2>3. b.y + b.vy \in top .. bot
    BY <1>1, <1>2, <1>5
  <2> QED
    BY <2>2, <2>3, <1>1 DEF f
<1> QED
  BY <1>3, <1>4, <1>5

LEMMA ReturnedFliesBack ==
  ASSUME NEW b \in Balls, NEW face \in Int, NEW pad \in Int,
         b.vx # 0, b.vx \in -VxMax .. VxMax
  PROVE  LET r == Returned(b, face, pad)
         IN /\ r \in Balls /\ r.y = b.y
            /\ r.vx # 0 /\ r.vx \in -VxMax .. VxMax /\ (r.vx > 0 <=> b.vx < 0)
<1> USE CourtAssumption
<1>1. Centre(b) \in Int
  BY PredictInt
<1>2. Spin * (Centre(b) - (pad + PadH \div 2)) \in Int
  BY <1>1
<1>3. b.vx \in Int
  OBVIOUS
<1> DEFINE v == Clamp(IF -b.vx > 0 THEN -b.vx + VxStep ELSE -b.vx - VxStep, -VxMax, VxMax)
<1>4. v # 0 /\ v \in -VxMax .. VxMax /\ (v > 0 <=> b.vx < 0)
  <2>1. VxMax \in Nat \ {0} /\ VxStep \in Nat
    OBVIOUS
  <2>2. CASE b.vx < 0
    BY <1>3, <2>1, <2>2 DEF Clamp
  <2>3. CASE b.vx > 0
    BY <1>3, <2>1, <2>3 DEF Clamp
  <2> QED
    BY <1>3, <2>2, <2>3
<1>5. Returned(b, face, pad) = [b EXCEPT !.x = face, !.vx = v,
                                  !.vy = Spin * (Centre(b) - (pad + PadH \div 2))]
  BY DEF Returned
<1> HIDE DEF v
<1> DEFINE vy == Spin * (Centre(b) - (pad + PadH \div 2))
<1> DEFINE r == Returned(b, face, pad)
<1>6. vy \in Int /\ v \in Int /\ r = [b EXCEPT !.x = face, !.vx = v, !.vy = vy]
  BY <1>2, <1>4, <1>5
<1> HIDE DEF vy, r
<1>7. r \in Balls /\ r.y = b.y /\ r.vx = v
  BY <1>6 DEF Balls
<1> QED
  BY <1>4, <1>7 DEF r

LEMMA ServedInCourt ==
  ASSUME NEW dir \in {-1, 1}, Serve(dir)
  PROVE  /\ ball' \in Balls /\ bias' \in Sides /\ ball'.y \in BallYs /\ lastHit' = "none"
         /\ ball'.vx # 0 /\ ball'.vx \in -VxMax .. VxMax
<1> USE CourtAssumption
<1>1. bias' \in Sides
  BY DEF Serve, Aims, Sides
<1>2. PICK v \in {-ServeVy, ServeVy} :
        ball' = [x |-> (CourtW \div 2 - Ball \div 2) * One, y |-> (Middle - Ball \div 2) * One,
                 vx |-> dir * BallVx, vy |-> v]
  BY DEF Serve, Serves
<1>3. (CourtW \div 2 - Ball \div 2) * One \in Int /\ (Middle - Ball \div 2) * One \in BallYs
  BY Geometry
<1>4. dir * BallVx \in -VxMax .. VxMax /\ dir * BallVx # 0
  OBVIOUS
<1>5. (Middle - Ball \div 2) * One \in Int
  BY <1>3, Geometry DEF BallYs
<1> QED
  BY <1>1, <1>2, <1>3, <1>4, <1>5 DEF Balls, Serve

LEMMA PadsInCourt ==
  ASSUME NEW y \in Int, NEW goal \in Int PROVE MovedPad(y, goal) \in PadYs
<1> DEFINE d   == goal - (y + PadH \div 2)
           way == Clamp(d, -Speed, Speed)
           bot == PlayBot - PadH
<1>1. d \in Int /\ Speed \in Int /\ -Speed \in Int /\ -Speed <= Speed
  BY CourtAssumption
<1>2. PlayTop <= bot /\ PlayTop \in Int /\ bot \in Int
  BY CourtAssumption
<1>3. MovedPad(y, goal) = Clamp(y + way, PlayTop, bot) /\ PadYs = PlayTop .. bot
  BY DEF MovedPad, PadYs
<1> HIDE DEF d, bot
<1>4. way \in -Speed .. Speed
  BY <1>1, ClampRange
<1> HIDE DEF way
<1>5. y + way \in Int
  BY <1>1, <1>4
<1> QED
  BY <1>2, <1>3, <1>5, ClampRange

LEMMA CourtInit == Init => CourtInv
<1> SUFFICES ASSUME Init PROVE CourtInv
  OBVIOUS
<1>1. CourtTypes
  BY Geometry DEF Init, CourtTypes, Balls, Sides, IsWorker
<1> QED
  BY <1>1 DEF Init, CourtInv, Aimed, FliesAway

LEMMA ResetKeepsCourt == CourtInv /\ ResetGame => CourtInv'
<1> SUFFICES ASSUME CourtInv, ResetGame PROVE CourtInv'
  OBVIOUS
<1> USE CourtAssumption
<1>1. PICK dir \in {-1, 1} : Serve(dir)
  BY DEF ResetGame
<1>2. /\ ball' \in Balls /\ bias' \in Sides /\ ball'.y \in BallYs /\ lastHit' = "none"
      /\ ball'.vx # 0 /\ ball'.vx \in -VxMax .. VxMax
  BY <1>1, ServedInCourt
<1>3. /\ phase' = "play" /\ game' = game + 1 /\ target' = Middle /\ worker' = worker
      /\ score' = [left |-> 0, right |-> 0]
      /\ pads' = [left |-> (PlayTop + PlayBot - PadH) \div 2,
                  right |-> (PlayTop + PlayBot - PadH) \div 2]
  BY DEF ResetGame, ForgetCall
<1>4. (PlayTop + PlayBot - PadH) \div 2 \in PadYs /\ (PlayTop + PlayBot - PadH) \div 2 \in Int
  BY DEF PadYs
<1>7. /\ pads' \in Sides /\ pads'.left \in PadYs /\ pads'.right \in PadYs
      /\ score' \in Sides /\ score'.left = 0 /\ score'.right = 0
  BY <1>3, <1>4 DEF Sides
<1>5. CourtTypes'
  BY <1>2, <1>3, <1>7, Geometry DEF CourtInv, CourtTypes, IsWorker
<1>6. InCourt'
  BY <1>2, <1>7 DEF InCourt
<1> QED
  BY <1>2, <1>3, <1>5, <1>6 DEF CourtInv, CourtTypes, Aimed, FliesAway

LEMMA SettleKeepsCourt == CourtInv /\ (Settle \/ UNCHANGED vars) => CourtInv'
<1> SUFFICES ASSUME CourtInv, Settle \/ UNCHANGED vars PROVE CourtInv'
  OBVIOUS
<1>0. IsWorker(worker) /\ worker.answer \subseteq Int
  BY DEF CourtInv, CourtTypes
<1>1. IsWorker(worker)' /\ worker'.answer \subseteq Int
  <2>1. CASE Settle
    <3>1. CASE worker' = [worker EXCEPT !.status = "ERROR"]
      BY <1>0, <3>1 DEF IsWorker
    <3>2. ASSUME NEW a \in {{}} \union {{n} : n \in Answers},
                 worker' = [worker EXCEPT !.status = "DONE", !.answer = a]
          PROVE  IsWorker(worker)' /\ worker'.answer = a /\ a \subseteq Int
      <4>1. a \subseteq Int
        BY CourtAssumption
      <4> QED
        BY <1>0, <3>2, <4>1 DEF IsWorker
    <3> QED
      BY <2>1, <3>1, <3>2 DEF Settle
  <2>2. CASE UNCHANGED vars
    BY <1>0, <2>2 DEF vars, IsWorker
  <2> QED
    BY <2>1, <2>2
<1>2. UNCHANGED <<gameVars, callVars>>
  BY DEF Settle, vars
<1>3. CourtTypes'
  BY <1>1, <1>2 DEF CourtInv, CourtTypes, gameVars, callVars
<1> QED
  BY <1>2, <1>3 DEF CourtInv, InCourt, Aimed, FliesAway, gameVars, callVars

LEMMA TargetKeptInCourt ==
  ASSUME CourtInv, Frame
  PROVE  /\ target' \in Int /\ Aimed' /\ IsWorker(worker') /\ worker'.answer \subseteq Int
<1>1. ball \in Balls /\ target \in Int /\ Aimed /\ IsWorker(worker) /\ worker.answer \subseteq Int
  BY DEF CourtInv, CourtTypes
<1>2. \/ UNCHANGED worker \/ Delivered
  BY DEF Frame, UpdateTarget, Fired, NotFired
<1>3. IsWorker(worker') /\ worker'.answer \subseteq Int
  BY <1>1, <1>2 DEF Delivered, IsWorker
<1>4. \/ UNCHANGED target
      \/ \E c \in Int : target' = ClampCentre(c)
  <2>1. PredictRight(ball) \in Int
    BY <1>1, PredictInt
  <2>2. CASE Taken
    BY <1>1, <2>2 DEF Taken
  <2>3. CASE Kept \/ UNCHANGED target
    BY <2>3 DEF Kept
  <2>4. CASE target' = ClampCentre(PredictRight(ball))
    BY <2>1, <2>4
  <2> QED
    BY <2>2, <2>3, <2>4 DEF Frame, UpdateTarget
<1> QED
  BY <1>1, <1>3, <1>4, AimIsInCourt, Geometry DEF Aimed

LEMMA HitKeepsCourt ==
  ASSUME CourtInv, game > 0, NEW side \in {"left", "right"}, NEW face \in Int, pads' \in Sides,
         Hit(side, Flown(ball), face), side = "left" <=> ball.vx < 0
  PROVE  /\ ball' \in Balls /\ bias' \in Sides /\ UNCHANGED <<score, phase>>
         /\ ball'.y \in BallYs /\ ball'.vx # 0 /\ ball'.vx \in -VxMax .. VxMax /\ FliesAway'
<1> DEFINE f == Flown(ball)
<1>1. f \in Balls /\ f.y \in BallYs /\ f.vx = ball.vx
  BY FlownInCourt DEF CourtInv, CourtTypes
<1>2. f.vx # 0 /\ f.vx \in -VxMax .. VxMax /\ f.vx \in Int
  BY <1>1, CourtAssumption DEF CourtInv, InCourt
<1>3. /\ ball' = Returned(f, face, pads'[side]) /\ lastHit' = side
      /\ bias' \in Aims(hits + 1) /\ UNCHANGED <<score, phase>>
  BY DEF Hit
<1>4. pads'[side] \in Int
  BY DEF Sides
<1> HIDE DEF f
<1>5. /\ ball' \in Balls /\ ball'.y = f.y /\ ball'.vx # 0 /\ ball'.vx \in -VxMax .. VxMax
      /\ ball'.vx > 0 <=> f.vx < 0
  BY <1>1, <1>2, <1>3, <1>4, ReturnedFliesBack
<1>6. bias' \in Sides
  BY <1>3 DEF Aims, Sides
<1>7. ball'.vx \in Int
  BY <1>5 DEF Balls
<1>8. FliesAway'
  BY <1>1, <1>2, <1>3, <1>5, <1>7 DEF FliesAway
<1> QED
  BY <1>1, <1>3, <1>5, <1>6, <1>8

LEMMA PointKeepsCourt ==
  ASSUME CourtInv, InCourt, phase = "play",
         NEW side \in {"left", "right"}, NEW dir \in {-1, 1}, Point(side, dir)
  PROVE  /\ ball' \in Balls /\ bias' \in Sides /\ score' \in Sides /\ phase' \in {"play", "over"}
         /\ ball'.y \in BallYs /\ ball'.vx # 0 /\ ball'.vx \in -VxMax .. VxMax /\ FliesAway'
         /\ phase' = "play" => score'.left < WinScore /\ score'.right < WinScore
<1>1. ball \in Balls /\ bias \in Sides /\ score \in Sides
  BY DEF CourtInv, CourtTypes
<1>2. score' = [score EXCEPT ![side] = @ + 1]
  BY DEF Point
<1>3. score' \in Sides /\ (side = "left" => score'.right = score.right)
      /\ (side = "right" => score'.left = score.left)
  BY <1>1, <1>2 DEF Sides
<1>4. CASE score'[side] < WinScore
  <2>1. Serve(dir) /\ phase' = phase
    BY <1>4 DEF Point
  <2>2. /\ ball' \in Balls /\ bias' \in Sides /\ ball'.y \in BallYs /\ lastHit' = "none"
        /\ ball'.vx # 0 /\ ball'.vx \in -VxMax .. VxMax
    BY <2>1, ServedInCourt
  <2>3. score'.left < WinScore /\ score'.right < WinScore
    BY <1>3, <1>4 DEF InCourt
  <2> QED
    BY <1>3, <2>1, <2>2, <2>3 DEF FliesAway
<1>5. CASE ~(score'[side] < WinScore)
  <2>1. phase' = "over" /\ ball' = Flown(ball) /\ UNCHANGED <<bias, lastHit>>
    BY <1>5 DEF Point
  <2>2. Flown(ball) \in Balls /\ Flown(ball).y \in BallYs /\ Flown(ball).vx = ball.vx
    BY <1>1, FlownInCourt
  <2> QED
    BY <1>1, <1>3, <2>1, <2>2 DEF InCourt, CourtInv, FliesAway
<1> QED
  BY <1>4, <1>5

LEMMA FrameKeepsCourt == CourtInv /\ Frame => CourtInv'
<1> SUFFICES ASSUME CourtInv, Frame PROVE CourtInv'
  OBVIOUS
<1>1. /\ phase = "play" /\ game' = game /\ game > 0 /\ InCourt
      /\ ball \in Balls /\ bias \in Sides /\ score \in Sides /\ pads \in Sides /\ game \in Nat
  BY DEF Frame, CourtInv, CourtTypes
<1>2. target' \in Int /\ Aimed' /\ IsWorker(worker') /\ worker'.answer \subseteq Int
  BY TargetKeptInCourt
<1>3. pads' \in Sides /\ pads'.left \in PadYs /\ pads'.right \in PadYs
  <2> DEFINE gl == Centre(ball) + bias.left
             gr == (IF js THEN target' ELSE PredictRight(ball)) + bias.right
  <2>1. gl \in Int /\ gr \in Int /\ pads.left \in Int /\ pads.right \in Int
    BY <1>1, <1>2, PredictInt DEF Sides
  <2>2. pads' = [left |-> MovedPad(pads.left, gl), right |-> MovedPad(pads.right, gr)]
    BY DEF Frame
  <2> HIDE DEF gl, gr
  <2>3. MovedPad(pads.left, gl) \in PadYs /\ MovedPad(pads.right, gr) \in PadYs
    BY <2>1, PadsInCourt
  <2>4. PadYs \subseteq Int
    BY DEF PadYs
  <2> QED
    BY <2>2, <2>3, <2>4 DEF Sides
<1> DEFINE Moved ==
      /\ ball' \in Balls /\ bias' \in Sides /\ score' \in Sides /\ phase' \in {"play", "over"}
      /\ ball'.y \in BallYs /\ ball'.vx # 0 /\ ball'.vx \in -VxMax .. VxMax /\ FliesAway'
      /\ phase' = "play" => score'.left < WinScore /\ score'.right < WinScore
<1>4. ASSUME UNCHANGED <<ball, bias, score, phase, lastHit>> PROVE Moved
  BY <1>1, <1>4 DEF InCourt, CourtInv, FliesAway
<1>5. ASSUME Fly PROVE Moved
  <2>1. /\ Flown(ball) \in Balls /\ Flown(ball).y \in BallYs /\ Flown(ball).vx = ball.vx
        /\ ball.vx \in Int
    BY <1>1, FlownInCourt DEF Balls
  <2>2. CASE HitsLeft(ball, Flown(ball), pads'.left) /\ Hit("left", Flown(ball), LeftFace)
    <3>1. ball.vx < 0
      BY <2>1, <2>2 DEF HitsLeft
    <3> QED
      BY <1>1, <1>3, <2>2, <3>1, HitKeepsCourt, Geometry DEF InCourt
  <2>3. CASE HitsRight(ball, Flown(ball), pads'.right) /\ Hit("right", Flown(ball), RightFace)
    <3>1. ~(ball.vx < 0)
      BY <2>1, <2>3 DEF HitsRight
    <3> QED
      BY <1>1, <1>3, <2>3, <3>1, HitKeepsCourt, Geometry DEF InCourt
  <2>4. CASE Point("right", -1) \/ Point("left", 1)
    BY <1>1, <2>4, PointKeepsCourt
  <2>5. CASE ball' = Flown(ball) /\ UNCHANGED <<bias, score, phase, lastHit>>
    BY <1>1, <2>1, <2>5 DEF InCourt, CourtInv, FliesAway
  <2> QED
    BY <1>5, <2>2, <2>3, <2>4, <2>5 DEF Fly, Missed
<1>6. Moved
  BY <1>4, <1>5 DEF Frame
<1>7. CourtTypes'
  BY <1>1, <1>2, <1>3, <1>6 DEF CourtTypes
<1>8. InCourt'
  BY <1>3, <1>6 DEF InCourt
<1> QED
  BY <1>1, <1>2, <1>6, <1>7, <1>8 DEF CourtInv

(* In every behaviour ball and paddles are in the court, the target is one *)
(* a paddle can have, and the ball flies away from who hit it last.        *)
THEOREM CourtInvariant == Spec => [](CourtOK /\ FliesAway)
<1>1. CourtInv /\ [Next]_vars => CourtInv'
  BY ResetKeepsCourt, SettleKeepsCourt, FrameKeepsCourt DEF Next
<1>2. CourtInv => CourtOK /\ FliesAway
  BY DEF CourtInv, CourtTypes, InCourt, Aimed, BallYs, PadYs, CourtOK
<1> QED
  BY <1>1, <1>2, CourtInit, PTL DEF Spec
=============================================================================
