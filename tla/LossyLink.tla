----------------------------- MODULE LossyLink ------------------------------
(***************************************************************************)
(* What the bus, the frame parser and the command buffer promise together: *)
(* a link with a buffer of one command.  A command the ST sends lands in   *)
(* the buffer as it was sent, in place of one nobody has taken, or gets    *)
(* lost.  None lands twice, and none that was not sent.                    *)
(***************************************************************************)
CONSTANT Commands

VARIABLES
  underway,   (* the command being sent, <<>> or <<command>>                *)
  buffer      (* the command that has landed, <<>> or <<command>>           *)

linkVars == <<underway, buffer>>

LinkInit == underway = <<>> /\ buffer = <<>>

Offer(c) == underway = <<>> /\ underway' = <<c>> /\ UNCHANGED buffer
Land     == underway # <<>> /\ underway' = <<>> /\ buffer' = underway
Lose     == underway # <<>> /\ underway' = <<>> /\ UNCHANGED buffer
Take     == buffer # <<>> /\ buffer' = <<>> /\ UNCHANGED underway

LinkNext == (\E c \in Commands : Offer(c)) \/ Land \/ Lose \/ Take
LinkSpec == LinkInit /\ [][LinkNext]_linkVars
=============================================================================
