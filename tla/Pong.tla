------------------------------- MODULE Pong -------------------------------
(***************************************************************************)
(* ST JS Pong: one step is one frame of the game, play_frame of main.c,    *)
(* with the asynchronous call that aims the right paddle in flight.        *)
(* Lengths are in pixels; the ball moves in 1/One of a pixel.              *)
(*                                                                         *)
(* The worker is what MdjsWorker promises a program with one call in       *)
(* flight: the status is BUSY until that call's own result or error is in  *)
(* the buffer.                                                             *)
(***************************************************************************)
EXTENDS Integers, FiniteSets, FiniteSetsExt

CONSTANTS
  One,                    (* 1 << FP                                        *)
  PlayTop, PlayBot,       (* PLAY_TOP, PLAY_BOT                             *)
  LeftX, RightX, Out,     (* LEFT_X, RIGHT_X; how far behind 0 is out       *)
  CourtW,                 (* width of the screen: 320                       *)
  PadH, Ball,             (* PAD_H; width of ball and paddles: 4            *)
  Speed,                  (* ST_SPEED, JS_SPEED                             *)
  BallVx, VxStep, VxMax,  (* BALL_VX, VX_STEP, VX_MAX                       *)
  ServeVy, Spin,          (* 48, 6                                          *)
  ServeDelay, WinScore,   (* SERVE_DELAY, WIN_SCORE                         *)
  LeftAim, RightAim,      (* the caps of the aim errors: 22, 20             *)
  HitsPerLevel,           (* HITS_PER_LEVEL                                 *)
  Answers,                (* what the JavaScript may answer                 *)
  Modes,                  (* FALSE: the native player aims both paddles      *)
  Slack,
  Games                   (* bound: games of a session                      *)

ASSUME CourtAssumption ==
  /\ {PlayTop, PlayBot, LeftX, RightX, CourtW, ServeVy, Spin} \subseteq Int
  /\ {One, PadH, Ball, Speed, BallVx, VxMax, WinScore, HitsPerLevel} \subseteq Nat \ {0}
  /\ {Out, VxStep, LeftAim, RightAim} \subseteq Nat
  /\ Answers \subseteq Int
  /\ PlayTop + PadH <= PlayBot /\ PlayTop + Ball + 1 < PlayBot
  /\ BallVx <= VxMax

VARIABLES
  ball,              (* bx, by, bvx, bvy                                    *)
  pads,              (* left_y, right_y                                     *)
  bias,              (* left_bias, right_bias                               *)
  timer, hits,       (* serve_timer, rally_hits                             *)
  score,             (* left_score, right_score                             *)
  phase,             (* "play", or "over" in wait_start                     *)
  game,              (* games begun                                         *)
  inflight, target,  (* js_inflight, js_target                              *)
  js,                (* mode = MODE_ST_VS_JS /\ js_available                *)
  worker,            (* the status byte, the number the answer begins with, *)
                     (* if it does, and the game it is of                   *)
  lastHit            (* who hit the ball last in this rally                 *)

gameVars == <<ball, pads, bias, timer, hits, score, phase, game, lastHit>>
callVars == <<inflight, target, js>>
vars     == <<gameVars, callVars, worker>>

(* C's division and remainder, of a positive divisor.                      *)
Quot(a, b) == IF a >= 0 THEN a \div b ELSE -((-a) \div b)
Rem(a, b)  == a - b * Quot(a, b)
Clamp(x, lo, hi) == IF x < lo THEN lo ELSE IF x > hi THEN hi ELSE x
Middle     == (PlayTop + PlayBot) \div 2
ClampCentre(c) == Clamp(c, PlayTop + PadH \div 2, PlayBot - PadH \div 2)
Centre(b)  == b.y \div One + Ball \div 2              (* >> FP             *)

(***************************************************************************)
(* The native player and the aim                                           *)
(***************************************************************************)
PredTop == PlayTop + Ball \div 2
PredBot == PlayBot - Ball \div 2

(* predict_right: where the ball will cross the right paddle's plane.      *)
(* Mutant: the remainder of a ball above the top is left negative.         *)
Unfold_Above(y) ==
  LET span == PredBot - PredTop
      m    == Rem(y - PredTop, 2 * span)
  IN PredTop + (IF m > span THEN 2 * span - m ELSE m)
Unfold(y) ==
  LET span == PredBot - PredTop
      r    == Rem(y - PredTop, 2 * span)
      m    == IF r < 0 THEN r + 2 * span ELSE r
  IN PredTop + (IF m > span THEN 2 * span - m ELSE m)

PredictRight(b) ==
  LET dx == RightX - (b.x \div One + Ball \div 2)
  IN IF b.vx <= 0 \/ dx < 0 THEN (PredTop + PredBot) \div 2
     ELSE Unfold(Centre(b) + Quot(b.vy * dx, b.vx))

(* randomize_bias, at the speed level of h hits.                           *)
Level(h) == 1 + h \div HitsPerLevel
Aims(h)  == LET la == Min({(5 * Level(h)) \div 2, LeftAim})
                ra == Min({(9 * Level(h)) \div 4, RightAim})
            IN [left : -la .. la, right : -ra .. ra]
(* Beyond the cap of both aims more hits change nothing.                   *)
Saturated(h) == Min({h, HitsPerLevel * Max({LeftAim, RightAim, 1})})

MovedPad(y, goal) ==
  Clamp(y + Clamp(goal - (y + PadH \div 2), -Speed, Speed), PlayTop, PlayBot - PadH)

(***************************************************************************)
(* Serves and games                                                        *)
(***************************************************************************)
Serves(dir) ==
  {[x |-> (CourtW \div 2 - Ball \div 2) * One, y |-> (Middle - Ball \div 2) * One,
    vx |-> dir * BallVx, vy |-> v] : v \in {-ServeVy, ServeVy}}

Serve(dir) ==
  /\ ball' \in Serves(dir) /\ bias' \in Aims(0)
  /\ timer' = ServeDelay /\ hits' = 0 /\ lastHit' = "none"

(* reset_game.                                                             *)
(* Mutant: the call of the game before is waited for.                      *)
ForgetCall_Not == inflight' = inflight /\ target' = Middle
ForgetCall == inflight' = FALSE /\ target' = Middle

ResetGame ==
  /\ phase = "over" /\ game < Games
  /\ phase' = "play" /\ game' = game + 1
  /\ score' = [left |-> 0, right |-> 0]
  /\ pads' = [left |-> (PlayTop + PlayBot - PadH) \div 2,
              right |-> (PlayTop + PlayBot - PadH) \div 2]
  /\ \E dir \in {-1, 1} : Serve(dir)
  /\ ForgetCall
  /\ UNCHANGED <<js, worker>>

Init ==
  /\ ball = [x |-> 0, y |-> 0, vx |-> 0, vy |-> 0]
  /\ pads = [left |-> 0, right |-> 0]
  /\ bias = [left |-> 0, right |-> 0] /\ timer = 0 /\ hits = 0
  /\ score = [left |-> 0, right |-> 0] /\ phase = "over" /\ game = 0
  /\ inflight = FALSE /\ target = Middle /\ js \in Modes
  /\ worker = [status |-> "DONE", answer |-> {}, of |-> 0]
  /\ lastHit = "none"

(***************************************************************************)
(* update_js_target                                                        *)
(***************************************************************************)
(* The answer is taken; one that is no number leaves the target.           *)
Taken ==
  /\ inflight /\ worker.status # "BUSY"
  /\ target' \in IF worker.status = "DONE" /\ worker.answer # {}
                 THEN {ClampCentre(a) : a \in worker.answer} ELSE {target}

Kept == ~(inflight /\ worker.status # "BUSY") /\ target' = target

(* mdjs_call_async: submitted; refused by the worker, which still has to   *)
(* take the reply of the call before; or given up, delivered or not.       *)
Delivered ==
  /\ worker.status # "BUSY"
  /\ \/ worker' = [worker EXCEPT !.status = "BUSY", !.of = game]
     \/ worker' = [worker EXCEPT !.status = "ERROR"]
Fired == Delivered /\ inflight' = TRUE

(* Its own look at the status: BUSY at once, or no token.                  *)
NotFired == inflight' = FALSE /\ (UNCHANGED worker \/ Delivered)

UpdateTarget ==
  IF inflight /\ worker.status = "BUSY" THEN UNCHANGED <<inflight, target, worker>>
  ELSE \/ Fired /\ (Taken \/ Kept)
       \/ NotFired /\ target' = ClampCentre(PredictRight(ball))

(* The worker ends the call, with a number, something else or an error.    *)
Settle ==
  /\ worker.status = "BUSY"
  /\ \/ \E a \in {{}} \union {{n} : n \in Answers} : worker' = [worker EXCEPT !.status = "DONE", !.answer = a]
     \/ worker' = [worker EXCEPT !.status = "ERROR"]
  /\ UNCHANGED <<gameVars, callVars>>

(***************************************************************************)
(* play_frame                                                              *)
(***************************************************************************)
Flown(b) ==
  LET y == b.y + b.vy IN
  IF y < PlayTop * One
  THEN [b EXCEPT !.x = @ + b.vx, !.y = PlayTop * One, !.vy = -@]
  ELSE IF y > (PlayBot - Ball) * One
  THEN [b EXCEPT !.x = @ + b.vx, !.y = (PlayBot - Ball) * One, !.vy = -@]
  ELSE [b EXCEPT !.x = @ + b.vx, !.y = y]

LeftFace  == (LeftX + Ball) * One
RightFace == (RightX - Ball) * One
Covers(pad, b) == b.y \div One + Ball > pad /\ b.y \div One < pad + PadH

(* The swept test: did the leading edge cross the face of the paddle the   *)
(* ball flies to?                                                          *)
HitsLeft(b, f, pad)  == f.vx < 0 /\ b.x > LeftFace /\ f.x <= LeftFace /\ Covers(pad, f)
HitsRight(b, f, pad) == f.vx > 0 /\ b.x < RightFace /\ f.x >= RightFace /\ Covers(pad, f)

(* paddle_hit.                                                             *)
Returned(b, face, pad) ==
  [b EXCEPT !.x = face, !.vx = Clamp(IF -@ > 0 THEN -@ + VxStep ELSE -@ - VxStep, -VxMax, VxMax),
            !.vy = Spin * (Centre(b) - (pad + PadH \div 2))]

Hit(side, f, face) ==
  /\ ball' = Returned(f, face, pads'[side])
  /\ hits' = Saturated(hits + 1) /\ bias' \in Aims(hits + 1) /\ lastHit' = side
  /\ UNCHANGED <<timer, score, phase>>

Point(side, dir) ==
  /\ score' = [score EXCEPT ![side] = @ + 1]
  /\ IF score'[side] < WinScore THEN Serve(dir) /\ phase' = phase
     ELSE phase' = "over" /\ ball' = Flown(ball) /\ UNCHANGED <<bias, timer, hits, lastHit>>

Missed(f) ==
  IF f.x < -(Out * One) THEN Point("right", -1)
  ELSE IF f.x > (CourtW + Out) * One THEN Point("left", 1)
  ELSE ball' = f /\ UNCHANGED <<bias, timer, hits, score, phase, lastHit>>

Fly ==
  LET f     == Flown(ball)
      left  == HitsLeft(ball, f, pads'.left)
      right == HitsRight(ball, f, pads'.right)
  IN \/ left /\ Hit("left", f, LeftFace)
     \/ right /\ Hit("right", f, RightFace)
     \/ ~left /\ ~right /\ Missed(f)

Frame ==
  /\ phase = "play"
  /\ IF js THEN UpdateTarget ELSE UNCHANGED <<inflight, target, worker>>
  /\ pads' = [left  |-> MovedPad(pads.left, Centre(ball) + bias.left),
              right |-> MovedPad(pads.right,
                          (IF js THEN target' ELSE PredictRight(ball)) + bias.right)]
  /\ IF timer > 0
     THEN timer' = timer - 1 /\ UNCHANGED <<ball, bias, hits, score, phase, lastHit>>
     ELSE Fly
  /\ UNCHANGED <<game, js>>

Next == ResetGame \/ Settle \/ Frame
Spec == Init /\ [][Next]_vars

(***************************************************************************)
(* What the game is worth                                                  *)
(***************************************************************************)
(* Nothing leaves the court but a ball that was missed.                    *)
CourtOK == game > 0 =>
  /\ ball.y \in PlayTop * One .. (PlayBot - Ball) * One
  /\ pads.left \in PlayTop .. PlayBot - PadH /\ pads.right \in PlayTop .. PlayBot - PadH
  /\ ball.vx # 0 /\ ball.vx \in -VxMax .. VxMax
  /\ target = Middle \/ target = ClampCentre(target)
  /\ phase = "play" => score.left < WinScore /\ score.right < WinScore

(* The ball flies away from the paddle that hit it last: neither hits it   *)
(* twice, and no point goes against the last hit (main.c:722-747).         *)
FliesAway ==
  /\ lastHit = "left" => ball.vx > 0
  /\ lastHit = "right" => ball.vx < 0

(* The answer that aims the paddle is one that was asked for in this game, *)
(* however long the call of the game before goes on (main.c:645).          *)
AnswersThisGame == phase = "play" /\ inflight /\ worker.status = "DONE" => worker.of = game

(* predict_right is right: up to the way the ball makes in a frame and     *)
(* what it loses at each wall (main.c:461).                                *)
Frames == (CourtW * One) \div BallVx + 1
Flight(b) == LET p[n \in 0 .. Frames] == IF n = 0 THEN b ELSE Flown(p[n - 1]) IN p
Abs(x) == IF x < 0 THEN -x ELSE x
PredictClose ==
  game > 0 /\ ball.vx > 0 /\ ball.x < RightFace =>
    LET p == Flight(ball)
        n == Min({k \in 0 .. Frames : p[k].x >= RightFace})
        bounces == Cardinality({k \in 1 .. n : p[k].vy # p[k - 1].vy})
    IN Abs(PredictRight(ball) - Centre(p[n])) * One <= (bounces + Slack) * (Abs(ball.vy) + One)
=============================================================================
