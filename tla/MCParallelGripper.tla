-------------------------- MODULE MCParallelGripper --------------------------
(****************************************************************************)
(* Two goals and two positions: the second goal preempts the first, or comes *)
(* after it ended, and asks for the same position or the other one.          *)
(****************************************************************************)
EXTENDS ParallelGripperController

CONSTANTS g1, g2

TwoGoals == {g1, g2}
OpenClosed == {0, 1}
=============================================================================
