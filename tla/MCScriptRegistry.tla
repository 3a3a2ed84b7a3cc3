--------------------------- MODULE MCScriptRegistry ---------------------------
(* ScriptRegistry with two names of one segment each, which may be swapped. *)
EXTENDS ScriptRegistry, TLC

CONSTANTS a, b      \* segments of names

MCNumeral == <<"1", "2", "3">>
MCNames == {<<a>>, <<b>>}

Symmetry == Permutations({a, b})
=============================================================================
