-------------------------- MODULE MCMotionPrimitives --------------------------
(****************************************************************************)
(* The motion primitives controller with goals of one and of several motions *)
(* and, where the queue is small, one too long for it.                       *)
(****************************************************************************)
EXTENDS MotionPrimitivesForwardController

CONSTANTS g1, g2, g3

MCMotions == [g \in Goals |-> CASE g = g1 -> 1 [] g = g2 -> 2 [] g = g3 -> 3]
===============================================================================
