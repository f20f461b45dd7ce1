------------------------ MODULE MCCommandReferences ------------------------
(****************************************************************************)
(* One value and NaN: two messages differ, and one may overtake the other.   *)
(****************************************************************************)
EXTENDS CommandReferences

CONSTANTS v1

OneValue == {v1}
=============================================================================
