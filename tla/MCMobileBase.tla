---------------------------- MODULE MCMobileBase ----------------------------
(****************************************************************************)
(* All the mobile bases side by side.  Two velocities tell an old reference *)
(* from a new one; the limiter needs three cycles to the larger.            *)
(****************************************************************************)
EXTENDS MobileBase

EveryBase == AllBases
=============================================================================
