---------------------------- MODULE MCMdjsWorker ----------------------------
(* Small instances of MdjsWorker for TLC.                                  *)
EXTENDS MdjsWorker
=============================================================================
