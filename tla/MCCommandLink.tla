--------------------------- MODULE MCCommandLink ----------------------------
(* Commands of one to three words for CommandLink.  The words are spread so *)
(* that a word is a command, a size, a payload word or a checksum, and     *)
(* frames differ in each of them; the second one begins like a shorter frame *)
(* with its checksum.                                                      *)
EXTENDS CommandLink

MCCommands ==
  {[id |-> 2, size |-> 2, words |-> <<4>>],
   [id |-> 2, size |-> 4, words |-> <<0, 6>>],
   [id |-> 4, size |-> 4, words |-> <<1, 0>>],
   [id |-> 4, size |-> 6, words |-> <<2, 6, 4>>]}
=============================================================================
