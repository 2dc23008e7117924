----------------------------- MODULE MdjsClaims -----------------------------
(***************************************************************************)
(* What mdjs.h says of mdjs_reset and the worker does not do: the run that *)
(* checks it ends in a trace of the code that contradicts it.              *)
(***************************************************************************)
EXTENDS MdjsWorker

(* mdjs_reset: the JS context is reset, all uploaded code is cleared, and 0 *)
(* means success.  js_wait_for_core1 takes the reply of a pending async     *)
(* call for that of the RESET.                                              *)
ResetHasCleared == pc0 = "respond" /\ cmd.op = "RESET" => ~loaded
=============================================================================
