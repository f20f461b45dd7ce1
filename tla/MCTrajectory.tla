----------------------------- MODULE MCTrajectory -----------------------------
(****************************************************************************)
(* Trajectory on messages of up to three points, with their positions given  *)
(* or to be deduced, stamped now, in the past or in the future.              *)
(****************************************************************************)
EXTENDS Trajectory

CONSTANTS MaxStep, Past, Ahead

MCSteps == 0..MaxStep
MCQueryTimes == {-Ahead - 1, 0, 3}

\* One to three points: at once or later, evenly spaced, after a longer segment,
\* and with a last segment shorter than a step.
Shapes == {<<0>>, <<2>>, <<1, 4>>, <<0, 4, 5>>, <<1, 5, 6>>, <<2, 3, 5>>, <<1, 2, 3>>}

AllTrajectories ==
    {m \in [at : Shapes, given : SUBSET (1..3), offset : {-Ahead, 0, Past}] :
         m.given \subseteq DOMAIN m.at /\ m.offset <= m.at[Len(m.at)]}
DeducibleTrajectories == {m \in AllTrajectories : Deducible(m)}
===============================================================================
