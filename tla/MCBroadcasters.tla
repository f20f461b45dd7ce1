--------------------------- MODULE MCBroadcasters ---------------------------
(****************************************************************************)
(* Three interfaces: one that cannot be read may come between two that can.  *)
(****************************************************************************)
EXTENDS Broadcasters

=============================================================================
