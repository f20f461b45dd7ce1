--------------------- MODULE MCJointTrajectoryController ---------------------
(****************************************************************************)
(* Instances of the joint trajectory controller for model checking: the      *)
(* .cfg files choose the goals, the topic messages and which of them are     *)
(* stamped in the future.                                                    *)
(****************************************************************************)
EXTENDS JointTrajectoryController

CONSTANTS g1, g2, t1
==============================================================================
