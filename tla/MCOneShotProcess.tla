-------------------------- MODULE MCOneShotProcess --------------------------
(* The instance of OneShotProcess that TLC checks.                         *)
EXTENDS OneShotProcess

MCChunks == [executor |-> 1, python |-> 0, sandbox |-> 2]
=============================================================================
