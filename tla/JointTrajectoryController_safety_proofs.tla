---------------- MODULE JointTrajectoryController_safety_proofs ----------------
(****************************************************************************)
(* Theorems about what the goals of the joint trajectory controller rely on, *)
(* for every set of goals and topic messages: tolerances are checked and no  *)
(* pending goal blocks the controller, however the two threads interleave;   *)
(* when they do not, successes are measured and earned, and canceled goals   *)
(* leave nothing to fire.                                                    *)
(****************************************************************************)
EXTENDS JointTrajectoryController_proofs

USE DEF External, Results

-----------------------------------------------------------------------------
(* Tolerances, with both threads.  Whoever starts to hold puts a halt into   *)
(* the buffer in the same step, and who replaces that is about to unhold;    *)
(* only an activation holds once more afterwards.                            *)

Halted == is_internal_hold(new_trajectory_msg) \/ new_trajectory_msg \in overtaken

HoldingHalts == rt_is_holding => Halted \/ ex.pc \in {"topic", "unhold"} \/ rt.pc = "activate"

\* What the second hold of an activation finds in the buffer.
MarkHalts == rt.pc = "mark" => Halted \/ (ex.pc \in {"topic", "unhold"} /\ new_trajectory_msg = ex.arg)

\* An activation has no trajectory, until a message that it has overtaken is installed:
\* nothing else is, while that message is in the buffer.
Emptied == rt.pc \in {"activate", "mark"} => current_msg = None /\ pending_traj_msg = None
Overtook ==
    new_trajectory_msg \in overtaken =>
        /\ current_msg \in {None, new_trajectory_msg} /\ pending_traj_msg = None
        /\ rt.pc = "install" => rt.msg = new_trajectory_msg

\* A message is overtaken at the end of its callback, and arrives once.
Fresh ==
    /\ overtaken \subseteq sent
    /\ ex.pc \in {"accept", "preempt", "add", "unhold", "topic"} => ex.arg \in sent \ overtaken

HoldInv == HoldingHalts /\ MarkHalts /\ Emptied /\ Overtook /\ Fresh

LEMMA HaltIsInternal == is_internal_hold(HaltMsg) /\ is_internal_hold(Hold)
BY DEF is_internal_hold, HaltMsg

LEMMA InitHoldInv == Init => HoldInv
BY ConstantsAssumption
DEF Init, HoldInv, HoldingHalts, MarkHalts, Emptied, Overtook, Fresh, RtIdle, ExIdle

LEMMA NextHoldInv == ASSUME TypeInv, HoldInv, [Next]_vars PROVE HoldInv'
<1>. USE HaltIsInternal DEF flags, trajectory, node
<1>a. /\ rt_is_holding \in BOOLEAN /\ overtaken \subseteq External
      /\ ex = [pc |-> ex.pc, arg |-> ex.arg]
      /\ rt = [pc |-> rt.pc, goal |-> rt.goal, msg |-> rt.msg, due |-> rt.due,
               verdict |-> rt.verdict]
  BY GoalTypes, Zenon DEF TypeInv, TypeOK
<1>b. None \notin External /\ \A m \in External : ~is_internal_hold(m)
  BY ConstantsAssumption DEF Messages, is_internal_hold
<1>c. HoldingHalts /\ MarkHalts /\ Emptied /\ Overtook /\ Fresh
  BY DEF HoldInv
\* Steps that leave the buffer, what is overtaken and the trajectories alone.
<1>k. ASSUME UNCHANGED <<new_trajectory_msg, overtaken, current_msg, pending_traj_msg>>,
             sent \subseteq sent',
             rt_is_holding' = rt_is_holding \/ rt_is_holding' = FALSE,
             \/ ex' = ex
             \/ /\ ex.pc \notin {"topic", "unhold"}
                /\ ex'.pc \in {"accept", "preempt", "add", "unhold", "topic"}
                      => ex'.arg \in sent' \ overtaken',
             \/ rt' = rt
             \/ /\ rt.pc # "activate" /\ rt'.pc \notin {"activate", "mark"}
                /\ rt'.pc = "install" => rt'.msg = new_trajectory_msg
      PROVE  HoldInv'
  <2>1. Halted' <=> Halted
    BY <1>k DEF Halted, is_internal_hold
  <2>2. HoldingHalts' /\ MarkHalts'
    BY <1>a, <1>c, <1>k, <2>1 DEF HoldingHalts, MarkHalts
  <2>3. Emptied' /\ Overtook' /\ Fresh'
    BY <1>c, <1>k DEF Emptied, Overtook, Fresh
  <2>. QED
    BY <2>2, <2>3 DEF HoldInv
\* Steps that put a halt into the buffer.
<1>h. ASSUME is_internal_hold(new_trajectory_msg'), new_trajectory_msg' \notin overtaken',
             UNCHANGED <<overtaken, sent, current_msg, pending_traj_msg>>,
             ex'.pc \in {"accept", "preempt", "add", "unhold", "topic"} => ex' = ex,
             rt'.pc \in {"activate", "mark"} => rt.pc \in {"activate", "mark"}
      PROVE  HoldInv'
  <2>1. Halted'
    BY <1>h DEF Halted, is_internal_hold
  <2>. QED
    BY <1>c, <1>h, <2>1
    DEF HoldInv, HoldingHalts, MarkHalts, Emptied, Overtook, Fresh
<1>n. HaltMsg \notin overtaken /\ Hold \notin overtaken
  BY <1>a, <1>b
<1>1. CASE UNCHANGED vars
  BY <1>k, <1>1 DEF vars
<1>2. CASE UpdateStart \/ UpdateReadMsg
  <2>1. /\ UNCHANGED <<new_trajectory_msg, overtaken, current_msg, pending_traj_msg, sent,
                       rt_is_holding, ex>>
        /\ rt.pc \in {"idle", "read"} /\ rt'.pc \in {"read", "install"}
        /\ rt'.pc = "install" => rt'.msg = new_trajectory_msg
    BY <1>a, <1>2 DEF UpdateStart, UpdateReadMsg
  <2>. QED
    BY <1>k, <2>1
<1>3. CASE UpdateInstall
  <2>1. /\ UNCHANGED <<new_trajectory_msg, overtaken, sent, rt_is_holding, ex>>
        /\ rt.pc = "install" /\ rt'.pc \in {"idle", "judge"}
    BY <1>a, <1>3 DEF UpdateInstall, RtIdle
  <2>2. Halted' <=> Halted
    BY <2>1 DEF Halted, is_internal_hold
  <2>3. HoldingHalts' /\ MarkHalts' /\ Emptied' /\ Fresh'
    BY <1>c, <2>1, <2>2 DEF HoldingHalts, MarkHalts, Emptied, Fresh
  <2>4. Overtook'
    <3>1. CASE new_trajectory_msg \in overtaken
      <4>1. /\ rt.msg = new_trajectory_msg /\ Pending = None /\ rt.msg # None
            /\ current_msg \in {None, rt.msg} /\ ~is_internal_hold(rt.msg)
        BY <1>a, <1>b, <1>c, <2>1, <3>1 DEF Overtook, Pending
      <4>2. pending_traj_msg' = None /\ current_msg' \in {None, rt.msg}
        BY <1>3, <4>1 DEF UpdateInstall, Starts, has_active_trajectory
      <4>. QED
        BY <2>1, <4>1, <4>2 DEF Overtook
    <3>2. CASE new_trajectory_msg \notin overtaken
      BY <2>1, <3>2 DEF Overtook
    <3>. QED
      BY <3>1, <3>2
  <2>. QED
    BY <2>3, <2>4 DEF HoldInv
<1>4. CASE UpdateJudge
  <2>. PICK reached \in Stages, pathOk \in BOOLEAN, goalOk \in BOOLEAN, timedOut \in BOOLEAN :
           Judge(reached, pathOk, goalOk, timedOut)
    BY <1>4 DEF UpdateJudge
  <2>1. /\ UNCHANGED <<overtaken, sent, current_msg, pending_traj_msg, ex>>
        /\ rt.pc = "judge" /\ rt'.pc \in {"idle", "conclude"}
    BY <1>a DEF Judge, RtIdle
  <2>2. CASE CmdTimeout /\ timedOut /\ ~BeforeLast(reached) /\ ~rt_is_holding
    <3>1. new_trajectory_msg' = HaltMsg
      BY <2>2 DEF Judge
    <3>2. is_internal_hold(new_trajectory_msg')
      BY <3>1
    <3>. QED
      BY <1>h, <1>n, <2>1, <3>1, <3>2
  <2>3. CASE ~(CmdTimeout /\ timedOut /\ ~BeforeLast(reached) /\ ~rt_is_holding)
    <3>1. new_trajectory_msg' = new_trajectory_msg
      BY <2>3 DEF Judge
    <3>2. rt_is_holding' = rt_is_holding
      BY <1>a, <2>3 DEF Judge
    <3>. QED
      BY <1>k, <2>1, <3>1, <3>2
  <2>. QED
    BY <2>2, <2>3
<1>5. CASE UpdateConclude
  <2>1. /\ UNCHANGED <<overtaken, sent, current_msg, pending_traj_msg, ex>>
        /\ new_trajectory_msg' \in {Hold, HaltMsg} /\ rt' = RtIdle
    BY <1>5 DEF UpdateConclude
  <2>. QED
    BY <1>h, <1>n, <2>1 DEF RtIdle
<1>6. CASE on_activate
  <2>1. /\ current_msg' = None /\ pending_traj_msg' = None /\ new_trajectory_msg' = None
        /\ rt'.pc = "activate" /\ UNCHANGED <<overtaken, sent, ex>>
    BY <1>a, <1>6 DEF on_activate
  <2>. QED
    BY <1>c, <2>1 DEF HoldInv, HoldingHalts, MarkHalts, Emptied, Overtook, Fresh
<1>7. CASE ActivateHold
  <2>1. /\ new_trajectory_msg' = Hold /\ rt.pc = "activate" /\ rt'.pc = "mark"
        /\ UNCHANGED <<overtaken, sent, current_msg, pending_traj_msg, ex>>
    BY <1>a, <1>7 DEF ActivateHold
  <2>. QED
    BY <1>h, <1>n, <2>1
<1>8. CASE ActivateMark
  <2>1. /\ rt.pc = "mark" /\ rt' = RtIdle
        /\ UNCHANGED <<new_trajectory_msg, overtaken, sent, current_msg, pending_traj_msg, ex>>
    BY <1>8 DEF ActivateMark
  <2>2. HoldingHalts'
    BY <1>c, <2>1 DEF MarkHalts, HoldingHalts, Halted, is_internal_hold
  <2>3. MarkHalts' /\ Emptied' /\ Overtook' /\ Fresh'
    BY <1>c, <2>1 DEF MarkHalts, Emptied, Overtook, Fresh, RtIdle
  <2>. QED
    BY <2>2, <2>3 DEF HoldInv
<1>9. CASE DeactivateAbort
  <2>1. /\ rt.pc = "idle" /\ rt'.pc = "deactivate"
        /\ UNCHANGED <<new_trajectory_msg, overtaken, sent, current_msg, pending_traj_msg,
                       rt_is_holding, ex>>
    BY <1>a, <1>9 DEF DeactivateAbort
  <2>. QED
    BY <1>k, <2>1
<1>10. ASSUME NEW w \in BOOLEAN, DeactivateRelease(w) PROVE HoldInv'
  <2>1. /\ rt.pc = "deactivate" /\ rt' = RtIdle /\ current_msg' \in {None, current_msg}
        /\ UNCHANGED <<new_trajectory_msg, overtaken, sent, pending_traj_msg, rt_is_holding, ex>>
    BY <1>10 DEF DeactivateRelease
  <2>2. Halted' <=> Halted
    BY <2>1 DEF Halted, is_internal_hold
  <2>. QED
    BY <1>c, <2>1, <2>2 DEF HoldInv, HoldingHalts, MarkHalts, Emptied, Overtook, Fresh, RtIdle
<1>11. ASSUME NEW t \in Topics, topic_callback(t) PROVE HoldInv'
  <2>1. /\ ex.pc = "idle" /\ t \notin sent /\ sent' = sent \cup {t}
        /\ UNCHANGED <<rt, rt_is_holding, overtaken, current_msg, pending_traj_msg>>
        /\ \/ ex' = [pc |-> "topic", arg |-> t] /\ new_trajectory_msg' = t
           \/ UNCHANGED <<ex, new_trajectory_msg>>
    BY <1>11 DEF topic_callback
  <2>2. CASE UNCHANGED <<ex, new_trajectory_msg>>
    BY <1>k, <2>1, <2>2
  <2>3. CASE ex' = [pc |-> "topic", arg |-> t] /\ new_trajectory_msg' = t
    <3>1. t \notin overtaken
      BY <1>c, <2>1 DEF Fresh
    <3>. QED
      BY <1>c, <2>1, <2>3, <3>1
      DEF HoldInv, HoldingHalts, MarkHalts, Emptied, Overtook, Fresh
  <2>. QED
    BY <2>1, <2>2, <2>3
<1>12. ASSUME NEW g \in Goals, goal_received_callback(g) PROVE HoldInv'
  <2>1. /\ ex.pc = "idle" /\ g \notin sent /\ sent' = sent \cup {g}
        /\ UNCHANGED <<rt, rt_is_holding, overtaken, new_trajectory_msg, current_msg,
                       pending_traj_msg>>
        /\ ex' = ex \/ ex' = [pc |-> "accept", arg |-> g]
    BY <1>12 DEF goal_received_callback
  <2>2. g \notin overtaken
    BY <1>c, <2>1 DEF Fresh
  <2>. QED
    BY <1>k, <2>1, <2>2
<1>13. ASSUME NEW g \in Goals, goal_cancelled_callback(g) PROVE HoldInv'
  <2>1. /\ ex.pc = "idle" /\ ex'.pc = "cancel"
        /\ UNCHANGED <<rt, sent, rt_is_holding, overtaken, new_trajectory_msg, current_msg,
                       pending_traj_msg>>
    BY <1>13 DEF goal_cancelled_callback
  <2>. QED
    BY <1>k, <2>1
<1>14. CASE Accept
  <2>1. CASE AcceptPending \/ preempt_active_goal \/ AcceptPublish \/ AcceptTolerances
    <3>1. /\ ex.pc \in {"accept", "preempt", "publish", "tolerances"}
          /\ ex'.pc \in {"preempt", "add"} => ex'.arg = ex.arg /\ ex.pc \in {"accept", "preempt"}
          /\ ex'.pc \in {"preempt", "add", "tolerances", "idle"}
          /\ UNCHANGED <<rt, sent, rt_is_holding, overtaken, new_trajectory_msg, current_msg,
                         pending_traj_msg>>
      BY <1>a, <2>1 DEF AcceptPending, preempt_active_goal, AcceptPublish, AcceptTolerances, ExIdle
    <3>2. ex'.pc \in {"preempt", "add"} => ex'.arg \in sent \ overtaken
      BY <1>c, <3>1 DEF Fresh
    <3>. QED
      BY <1>k, <3>1, <3>2
  <2>2. CASE AcceptAdd
    <3>1. /\ ex.pc = "add" /\ ex'.pc = "unhold" /\ ex'.arg = ex.arg
          /\ new_trajectory_msg' = ex.arg
          /\ UNCHANGED <<rt, sent, rt_is_holding, overtaken, current_msg, pending_traj_msg>>
      BY <1>a, <2>2 DEF AcceptAdd
    <3>2. ex.arg \in sent \ overtaken
      BY <1>c, <3>1 DEF Fresh
    <3>. QED
      BY <1>c, <3>1, <3>2 DEF HoldInv, HoldingHalts, MarkHalts, Emptied, Overtook, Fresh
  <2>3. CASE AcceptUnhold
    <3>1. /\ ex.pc = "unhold" /\ ex'.pc = "publish" /\ Overtakes(ex.arg) /\ rt_is_holding' = FALSE
          /\ UNCHANGED <<rt, sent, new_trajectory_msg, current_msg, pending_traj_msg>>
      BY <1>a, <2>3 DEF AcceptUnhold
    <3>. QED
      BY <1>c, <3>1
      DEF HoldInv, HoldingHalts, MarkHalts, Emptied, Overtook, Fresh, Halted, Overtakes,
          is_internal_hold
  <2>. QED
    BY <1>14, <2>1, <2>2, <2>3 DEF Accept
<1>15. CASE TopicUnhold
  <2>1. /\ ex.pc = "topic" /\ ex'.pc = "idle" /\ Overtakes(ex.arg) /\ rt_is_holding' = FALSE
        /\ UNCHANGED <<rt, sent, new_trajectory_msg, current_msg, pending_traj_msg>>
    BY <1>15 DEF TopicUnhold, ExIdle
  <2>. QED
    BY <1>c, <2>1
    DEF HoldInv, HoldingHalts, MarkHalts, Emptied, Overtook, Fresh, Halted, Overtakes,
        is_internal_hold
<1>16. CASE CancelHold
  <2>1. /\ ex'.pc = "clear" /\ new_trajectory_msg' = HaltMsg
        /\ UNCHANGED <<rt, sent, overtaken, current_msg, pending_traj_msg>>
    BY <1>a, <1>16 DEF CancelHold
  <2>. QED
    BY <1>h, <1>n, <2>1
<1>17. CASE CancelClear \/ runNonRealtime \/ \E m \in Stamped : Tick(m)
  <2>1. /\ ex' = ex \/ (ex.pc = "clear" /\ ex'.pc = "idle")
        /\ UNCHANGED <<rt, sent, rt_is_holding, overtaken, new_trajectory_msg, current_msg,
                       pending_traj_msg>>
    BY <1>17 DEF CancelClear, runNonRealtime, Tick, ExIdle
  <2>. QED
    BY <1>k, <2>1
<1>. QED
  BY <1>1, <1>2, <1>3, <1>4, <1>5, <1>6, <1>7, <1>8, <1>9, <1>10, <1>11, <1>12, <1>13, <1>14,
     <1>15, <1>16, <1>17
  DEF Next, Update, Lifecycle, Activate, Callback

\* An external trajectory is only played with tolerances switched off until the halt
\* that is in the buffer is installed, whatever the two threads do to each other,
\* unless its callback slipped into an activation.
THEOREM TolerancesAreChecked == Spec => []TolerancesChecked
<1>1. TypeInv /\ HoldInv => TolerancesChecked
  <2>1. HoldInv /\ Quiet /\ rt_is_holding => Halted
    BY DEF HoldInv, HoldingHalts, Quiet
  <2>2. HoldInv /\ new_trajectory_msg \in overtaken => current_msg = None \/ current_msg \in overtaken
    BY DEF HoldInv, Overtook
  <2>3. None \notin External
    BY ConstantsAssumption DEF Messages
  <2>. QED
    BY <2>1, <2>2, <2>3 DEF TolerancesChecked, Halted
<1>2. TypeInv /\ HoldInv /\ [Next]_vars => HoldInv'
  BY NextHoldInv
<1>. QED
  BY <1>1, <1>2, InitTypeInv, NextTypeInv, InitHoldInv, PTL DEF Spec

-----------------------------------------------------------------------------
(* The pending goal, with both threads unless there are deactivations: a     *)
(* deactivation that runs between two steps of a callback may clear the goal *)
(* that this one has just published.                                         *)

PendingOwned ==
    rt_has_pending_goal => rt_active_goal # None \/ ex.pc \in {"preempt", "add", "unhold", "publish"}
DeactivateUnpends == rt.pc = "deactivate" /\ rt.goal # None => ~rt_has_pending_goal
PendingInv == PendingOwned /\ DeactivateUnpends

Careful == Concurrent = FALSE \/ MaxDeactivations = 0

LEMMA InitPendingInv == Init => PendingInv
BY DEF Init, PendingInv, PendingOwned, DeactivateUnpends, RtIdle

LEMMA NextPendingInv ==
    ASSUME Careful, TypeInv, PendingInv, [Next]_vars
    PROVE  PendingInv'
<1>. USE DEF PendingInv, PendingOwned, DeactivateUnpends, flags
<1>0. /\ PendingInv /\ None \notin Goals
      /\ rt = [pc |-> rt.pc, goal |-> rt.goal, msg |-> rt.msg, due |-> rt.due,
               verdict |-> rt.verdict]
      /\ ex = [pc |-> ex.pc, arg |-> ex.arg]
  BY GoalTypes
<1>d. rt.pc = "deactivate" => Concurrent = FALSE
  <2>1. deactivations \in Nat /\ (rt.pc = "deactivate" => deactivations < MaxDeactivations)
    BY DEF TypeInv, TypeOK, DeactivateBounded
  <2>. QED
    BY <2>1, ConstantsAssumption DEF Careful
<1>1. CASE UNCHANGED vars
  BY <1>1 DEF vars
<1>2. CASE UpdateStart \/ UpdateReadMsg \/ UpdateInstall
  <2>1. UpdateStart \/ UpdateReadMsg => rt'.pc # "deactivate"
    BY <1>0 DEF UpdateStart, UpdateReadMsg
  <2>2. UpdateInstall => rt'.pc # "deactivate" /\ UNCHANGED <<rt_has_pending_goal, rt_active_goal, ex>>
    BY <1>0 DEF UpdateInstall, RtIdle
  <2>. QED
    BY <1>0, <1>2, <2>1, <2>2 DEF UpdateStart, UpdateReadMsg
<1>3. CASE UpdateJudge
  <2>1. rt'.pc # "deactivate" /\ UNCHANGED <<rt_has_pending_goal, rt_active_goal, ex>>
    BY <1>0, <1>3 DEF UpdateJudge, Judge, RtIdle
  <2>. QED
    BY <1>0, <2>1
<1>4. CASE UpdateConclude
  <2>1. /\ rt'.pc # "deactivate" /\ ex' = ex
        /\ \/ UNCHANGED <<rt_has_pending_goal, rt_active_goal>>
           \/ rt_has_pending_goal' = FALSE
    BY <1>4 DEF UpdateConclude, ReleaseGoal, RtIdle
  <2>. QED
    BY <1>0, <2>1
<1>5. CASE Activate
  <2>1. rt'.pc # "deactivate" /\ UNCHANGED <<rt_has_pending_goal, rt_active_goal, ex>>
    BY <1>0, <1>5 DEF Activate, on_activate, ActivateHold, ActivateMark, RtIdle
  <2>. QED
    BY <1>0, <2>1
<1>6. CASE DeactivateAbort
  BY <1>0, <1>6 DEF DeactivateAbort
<1>7. ASSUME NEW w \in BOOLEAN, DeactivateRelease(w) PROVE PendingInv'
  BY <1>0, <1>d, <1>7 DEF DeactivateRelease, RtRuns, RtIdle
<1>8. ASSUME NEW t \in Topics, topic_callback(t) PROVE PendingInv'
  BY <1>0, <1>8 DEF topic_callback, ExRuns
<1>9. ASSUME NEW g \in Goals, goal_received_callback(g) \/ goal_cancelled_callback(g)
      PROVE  PendingInv'
  BY <1>0, <1>9 DEF goal_received_callback, goal_cancelled_callback, ExRuns
<1>10. CASE Accept
  <2>1. rt' = rt /\ (rt.pc # "deactivate" \/ rt.pc = "idle")
    BY <1>0, <1>d, <1>10 DEF Accept, AcceptPending, preempt_active_goal, AcceptAdd, AcceptUnhold,
       AcceptPublish, AcceptTolerances, ExRuns
  <2>2. ex.pc = "publish" => ex.arg # None
    BY <1>0 DEF TypeInv, AcceptTyped, AcceptPcs
  <2>. QED
    BY <1>0, <1>10, <2>1, <2>2
    DEF Accept, AcceptPending, preempt_active_goal, AcceptAdd, AcceptUnhold,
        AcceptPublish, AcceptTolerances
<1>11. CASE TopicUnhold \/ CancelHold \/ CancelClear \/ runNonRealtime \/ \E m \in Stamped : Tick(m)
  BY <1>0, <1>11 DEF TopicUnhold, CancelHold, CancelClear, runNonRealtime, Tick, ExIdle
<1>. QED
  BY <1>1, <1>2, <1>3, <1>4, <1>5, <1>6, <1>7, <1>8, <1>9, <1>10, <1>11
  DEF Next, Update, Lifecycle, Callback

\* At rest a pending goal is an active one, so that update() takes new trajectories:
\* with both threads as long as nothing is deactivated, and always without overlaps.
THEOREM NothingStaysPending == Careful => (Spec => []NoStuckPending)
<1> SUFFICES ASSUME Careful PROVE Spec => []NoStuckPending
  OBVIOUS
<1>1. TypeInv /\ PendingInv /\ [Next]_vars => PendingInv'
  BY NextPendingInv
<1>2. PendingInv => NoStuckPending
  BY DEF PendingInv, PendingOwned, NoStuckPending, Quiet
<1>. QED
  BY <1>1, <1>2, InitTypeInv, NextTypeInv, InitPendingInv, PTL DEF Spec

-----------------------------------------------------------------------------
(* Ended goals, with both threads and any deactivations.                     *)

\* A goal that was never accepted was never asked for a result.
Unstarted == \A g \in Goals :
    /\ g \notin sent => status[g] = "unsent"
    /\ status[g] \in {"unsent", "rejected"} =>
          request[g] = "none" /\ rt_active_goal # g /\ rt.goal # g

\* The goal whose callback runs has arrived and is not accepted yet.
Accepting == ex.pc \in {"accept", "preempt", "add", "unhold", "publish"}
                 => ex.arg \in sent /\ status[ex.arg] = "unsent"

\* Between a deactivation and the reset of the next activation.
Down == rt.pc = "deactivate" \/ (lifecycle = "inactive" /\ rt.pc = "idle")

\* Who ends a goal also replaces its trajectory in the buffer.
Replaced == \A g \in Goals :
    request[g] \in {"aborted", "canceled"} /\ new_trajectory_msg = g
        => ex.pc \in {"add", "cancel"} \/ Down
Filled == lifecycle = "active" \/ rt.pc = "mark" => new_trajectory_msg # None
Opening == /\ rt.pc \in {"activate", "mark"} => lifecycle = "inactive"
           /\ rt.pc \notin {"idle", "activate", "mark"} => lifecycle = "active"

EndedInv == Unstarted /\ Accepting /\ Replaced /\ Filled /\ Opening

LEMMA InitEndedInv == Init => EndedInv
BY ConstantsAssumption
DEF Messages, Init, EndedInv, Unstarted, Accepting, Replaced, Filled, Opening, RtIdle, ExIdle

LEMMA NextEndedInv == ASSUME TypeInv, EndedInv, [Next]_vars PROVE EndedInv'
<1>. USE DEF node, flags, handles, trajectory
<1>a. /\ request \in [Goals -> Results \cup {"none"}]
      /\ status \in [Goals -> Results \cup {"unsent", "rejected", "executing"}]
      /\ rt = [pc |-> rt.pc, goal |-> rt.goal, msg |-> rt.msg, due |-> rt.due,
               verdict |-> rt.verdict]
      /\ ex = [pc |-> ex.pc, arg |-> ex.arg]
      /\ rt_active_goal # None => rt_active_goal \in Goals
  BY GoalTypes
<1>b. /\ None \notin Goals /\ Hold \notin Goals \cup {None} /\ Stop \notin Goals \cup {None}
      /\ Goals \cap Topics = {} /\ None \notin Topics
  BY ConstantsAssumption DEF Messages
<1>c. Unstarted /\ Accepting /\ Replaced /\ Filled /\ Opening
  BY DEF EndedInv
<1>d. HaltMsg \notin Goals \cup {None}
  BY <1>b DEF HaltMsg
\* Steps that ask at most the handle of a started goal for a result, and tell nobody.
<1>u. ASSUME sent \subseteq sent', status' = status, rt_active_goal' \in {rt_active_goal, None},
             rt'.goal \in {rt.goal, rt_active_goal, None},
             \/ request' = request
             \/ \E h \in {rt_active_goal, rt.goal}, x \in Results : request' = Ask(request, h, x)
      PROVE  Unstarted'
  <2>1. \A g \in Goals : status[g] \in {"unsent", "rejected"} => request'[g] = "none"
    BY <1>a, <1>c, <1>u DEF Unstarted, Ask
  <2>. QED
    BY <1>b, <1>c, <1>u, <2>1 DEF Unstarted
\* Steps that end no goal and leave the buffer alone, or clear it.
<1>r. ASSUME request' = request, new_trajectory_msg' \in {new_trajectory_msg, Hold, HaltMsg, None},
             ex' = ex \/ ex.pc \notin {"add", "cancel"}, Down => Down'
      PROVE  Replaced'
  BY <1>b, <1>c, <1>d, <1>r DEF Replaced
\* Steps of the executor that leave the real-time thread alone.
<1>o. ASSUME UNCHANGED <<rt, lifecycle>>, new_trajectory_msg' = new_trajectory_msg \/ new_trajectory_msg' # None
      PROVE  Filled' /\ Opening' /\ (Down' <=> Down)
  BY <1>c, <1>o DEF Filled, Opening, Down
<1>1. CASE UNCHANGED vars
  BY <1>c, <1>1 DEF vars, EndedInv, Unstarted, Accepting, Replaced, Filled, Opening, Down
<1>2. CASE UpdateStart \/ UpdateReadMsg \/ UpdateInstall \/ UpdateJudge
  <2>1. /\ UNCHANGED <<sent, status, request, rt_active_goal, lifecycle, ex>>
        /\ rt.pc \notin {"activate", "mark", "deactivate"}
        /\ rt'.pc \notin {"activate", "mark", "deactivate"}
        /\ rt'.goal \in {rt.goal, rt_active_goal, None}
        /\ new_trajectory_msg' \in {new_trajectory_msg, HaltMsg}
        /\ rt.pc = "idle" => lifecycle = "active"
    <3>1. CASE UpdateStart \/ UpdateReadMsg
      BY <1>a, <3>1 DEF UpdateStart, UpdateReadMsg
    <3>2. CASE UpdateInstall
      BY <1>a, <3>2 DEF UpdateInstall, RtIdle
    <3>3. CASE UpdateJudge
      BY <1>a, <3>3 DEF UpdateJudge, Judge, RtIdle
    <3>. QED
      BY <1>2, <3>1, <3>2, <3>3
  <2>2. lifecycle = "active"
    BY <1>c, <2>1 DEF Opening
  <2>3. Unstarted'
    BY <1>u, <2>1
  <2>4. Replaced'
    BY <1>r, <2>1, <2>2 DEF Down
  <2>5. Accepting' /\ Filled' /\ Opening'
    BY <1>c, <1>d, <2>1, <2>2 DEF Accepting, Filled, Opening
  <2>. QED
    BY <2>3, <2>4, <2>5 DEF EndedInv
<1>3. CASE UpdateConclude
  <2>1. /\ UNCHANGED <<sent, status, lifecycle, ex>> /\ rt.pc = "conclude" /\ rt' = RtIdle
        /\ new_trajectory_msg' \in {Hold, HaltMsg} /\ rt_active_goal' \in {rt_active_goal, None}
        /\ \/ request' = request
           \/ \E x \in Results : request' = Ask(request, rt.goal, x)
    BY <1>3 DEF UpdateConclude, ReleaseGoal
  <2>2. Unstarted'
    BY <1>u, <2>1 DEF RtIdle
  <2>3. Replaced' /\ Accepting' /\ Filled' /\ Opening'
    BY <1>b, <1>c, <1>d, <2>1 DEF Replaced, Accepting, Filled, Opening, RtIdle
  <2>. QED
    BY <2>2, <2>3 DEF EndedInv
<1>4. CASE Activate
  <2>1. /\ UNCHANGED <<sent, status, request, rt_active_goal, ex>>
        /\ rt.pc \in {"idle", "activate", "mark"} /\ rt'.goal \in {rt.goal, None}
        /\ \/ /\ rt'.pc = "activate" /\ lifecycle' = "inactive" /\ new_trajectory_msg' = None
           \/ /\ rt'.pc = "mark" /\ lifecycle' = "inactive" /\ new_trajectory_msg' = Hold
           \/ /\ rt.pc = "mark" /\ rt'.pc = "idle" /\ lifecycle' = "active"
              /\ new_trajectory_msg' = new_trajectory_msg
    BY <1>a, <1>c, <1>4 DEF Activate, on_activate, ActivateHold, ActivateMark, RtIdle, Opening
  <2>2. Unstarted'
    BY <1>u, <2>1
  <2>3. Accepting' /\ Filled' /\ Opening'
    BY <1>b, <1>c, <2>1 DEF Accepting, Filled, Opening
  <2>4. Replaced'
    BY <1>b, <1>c, <2>1 DEF Replaced, Down, Opening
  <2>. QED
    BY <2>2, <2>3, <2>4 DEF EndedInv
<1>5. CASE DeactivateAbort
  <2>1. /\ UNCHANGED <<sent, status, rt_active_goal, lifecycle, new_trajectory_msg, ex>>
        /\ rt'.pc = "deactivate" /\ rt'.goal = rt_active_goal /\ lifecycle = "active"
        /\ request' = request \/ request' = Ask(request, rt_active_goal, "aborted")
    BY <1>a, <1>5 DEF DeactivateAbort
  <2>2. Unstarted'
    BY <1>u, <2>1
  <2>3. Replaced' /\ Accepting' /\ Filled' /\ Opening'
    BY <1>c, <2>1 DEF Replaced, Down, Accepting, Filled, Opening
  <2>. QED
    BY <2>2, <2>3 DEF EndedInv
<1>6. ASSUME NEW w \in BOOLEAN, DeactivateRelease(w) PROVE EndedInv'
  <2>1. /\ UNCHANGED <<sent, status, request, new_trajectory_msg, ex>> /\ rt' = RtIdle
        /\ rt_active_goal' \in {rt_active_goal, None} /\ lifecycle' = "inactive"
    BY <1>6 DEF DeactivateRelease
  <2>2. Unstarted'
    BY <1>u, <2>1 DEF RtIdle
  <2>3. Replaced' /\ Accepting' /\ Filled' /\ Opening'
    BY <1>c, <2>1 DEF Replaced, Down, Accepting, Filled, Opening, RtIdle
  <2>. QED
    BY <2>2, <2>3 DEF EndedInv
<1>7. ASSUME NEW t \in Topics, topic_callback(t) PROVE EndedInv'
  <2>1. /\ UNCHANGED <<status, request, rt_active_goal, lifecycle, rt>> /\ sent \subseteq sent'
        /\ new_trajectory_msg' \in {new_trajectory_msg, t} /\ ex.pc = "idle"
        /\ ex' = ex \/ ex'.pc = "topic"
    BY <1>7 DEF topic_callback
  <2>2. Unstarted'
    BY <1>u, <2>1
  <2>3. Filled' /\ Opening' /\ (Down' <=> Down)
    BY <1>b, <1>o, <2>1
  <2>4. Replaced' /\ Accepting'
    BY <1>b, <1>c, <2>1, <2>3 DEF Replaced, Accepting
  <2>. QED
    BY <2>2, <2>3, <2>4 DEF EndedInv
<1>8. ASSUME NEW g \in Goals, goal_received_callback(g) PROVE EndedInv'
  <2>1. /\ UNCHANGED <<request, rt_active_goal, lifecycle, rt, new_trajectory_msg>>
        /\ g \notin sent /\ sent' = sent \cup {g} /\ ex.pc = "idle"
        /\ \/ status' = [status EXCEPT ![g] = "rejected"] /\ ex' = ex
           \/ status' = status /\ ex' = [pc |-> "accept", arg |-> g]
    BY <1>8 DEF goal_received_callback
  <2>2. Filled' /\ Opening' /\ (Down' <=> Down)
    BY <1>o, <2>1
  <2>3. Replaced' /\ Accepting'
    BY <1>c, <2>1, <2>2 DEF Replaced, Accepting, Unstarted
  <2>4. /\ status[g] = "unsent" /\ status'[g] \in {"unsent", "rejected"}
        /\ \A h \in Goals : h # g => status'[h] = status[h]
    BY <1>a, <1>c, <2>1 DEF Unstarted
  <2>5. Unstarted'
    BY <1>c, <2>1, <2>4 DEF Unstarted
  <2>. QED
    BY <2>2, <2>3, <2>5 DEF EndedInv
<1>9. ASSUME NEW g \in Goals, goal_cancelled_callback(g) PROVE EndedInv'
  <2>1. /\ UNCHANGED <<sent, status, lifecycle, rt, new_trajectory_msg>>
        /\ rt_active_goal' = None /\ ex'.pc = "cancel"
        /\ request' = Ask(request, rt_active_goal, "canceled")
    BY <1>9 DEF goal_cancelled_callback
  <2>2. Unstarted'
    BY <1>u, <2>1
  <2>3. Filled' /\ Opening' /\ Replaced' /\ Accepting'
    BY <1>o, <2>1 DEF Replaced, Accepting
  <2>. QED
    BY <2>2, <2>3 DEF EndedInv
<1>10. CASE AcceptPending \/ AcceptUnhold \/ AcceptTolerances
  <2>1. /\ UNCHANGED <<sent, status, request, rt_active_goal, lifecycle, rt, new_trajectory_msg>>
        /\ ex.pc \in {"accept", "unhold", "tolerances"} /\ ex'.pc \in {"preempt", "publish", "idle"}
        /\ ex'.pc # "idle" => ex'.arg = ex.arg /\ ex.pc \in {"accept", "unhold"}
    BY <1>a, <1>10 DEF AcceptPending, AcceptUnhold, AcceptTolerances, ExIdle
  <2>2. Unstarted'
    BY <1>u, <2>1
  <2>3. Filled' /\ Opening' /\ (Down' <=> Down)
    BY <1>o, <2>1
  <2>4. Replaced'
    BY <1>r, <2>1, <2>3
  <2>5. Accepting'
    BY <1>c, <2>1 DEF Accepting
  <2>. QED
    BY <2>2, <2>3, <2>4, <2>5 DEF EndedInv
<1>11. CASE preempt_active_goal
  <2>1. /\ UNCHANGED <<sent, lifecycle, rt, new_trajectory_msg>> /\ rt_active_goal' = None
        /\ ex.pc = "preempt" /\ ex'.pc = "add" /\ ex'.arg = ex.arg
    BY <1>a, <1>11 DEF preempt_active_goal
  <2>2. Filled' /\ Opening' /\ Replaced'
    BY <1>o, <2>1 DEF Replaced
  <2>3. CASE rt_active_goal = None
    <3>1. UNCHANGED <<request, status>>
      BY <1>11, <2>3 DEF preempt_active_goal
    <3>. QED
      BY <1>c, <1>u, <2>1, <2>2, <3>1 DEF EndedInv, Accepting
  <2>4. CASE rt_active_goal # None
    <3>1. /\ request' = Ask(request, rt_active_goal, "aborted")
          /\ status' = [status EXCEPT ![rt_active_goal] = request'[rt_active_goal]]
          /\ rt_active_goal \in Goals
      BY <1>a, <1>11, <2>4 DEF preempt_active_goal
    <3>2. /\ request'[rt_active_goal] \in Results
          /\ \A h \in Goals : h # rt_active_goal => request'[h] = request[h]
      BY <1>a, <3>1, AskType
    <3>3. /\ status'[rt_active_goal] \in Results
          /\ \A h \in Goals : h # rt_active_goal => status'[h] = status[h]
      BY <1>a, <3>1, <3>2
    <3>4. rt_active_goal \in sent /\ status[rt_active_goal] # "unsent"
      BY <1>c, <3>1 DEF Unstarted
    <3>5. Unstarted'
      BY <1>b, <1>c, <2>1, <3>2, <3>3, <3>4 DEF Unstarted
    <3>6. ex.arg \in Goals
      BY <2>1 DEF TypeInv, AcceptTyped, AcceptPcs
    <3>7. Accepting'
      BY <1>c, <2>1, <3>3, <3>4, <3>6 DEF Accepting
    <3>. QED
      BY <2>2, <3>5, <3>7 DEF EndedInv
  <2>. QED
    BY <2>3, <2>4
<1>12. CASE AcceptAdd
  <2>1. /\ UNCHANGED <<sent, status, request, rt_active_goal, lifecycle, rt>>
        /\ ex.pc = "add" /\ ex'.pc = "unhold" /\ ex'.arg = ex.arg /\ new_trajectory_msg' = ex.arg
    BY <1>a, <1>12 DEF AcceptAdd
  <2>2. ex.arg \in Goals /\ request[ex.arg] = "none"
    BY <1>c, <2>1 DEF TypeInv, AcceptTyped, AcceptPcs, Accepting, Unstarted
  <2>3. Unstarted'
    BY <1>u, <2>1
  <2>4. Filled' /\ Opening'
    BY <1>b, <1>o, <2>1, <2>2
  <2>5. Replaced' /\ Accepting'
    BY <1>c, <2>1, <2>2 DEF Replaced, Accepting
  <2>. QED
    BY <2>3, <2>4, <2>5 DEF EndedInv
<1>13. CASE AcceptPublish
  <2>1. /\ UNCHANGED <<sent, request, lifecycle, rt, new_trajectory_msg>>
        /\ ex.pc = "publish" /\ ex'.pc = "tolerances" /\ rt_active_goal' = ex.arg
        /\ status' = [status EXCEPT ![ex.arg] = "executing"]
    BY <1>a, <1>13 DEF AcceptPublish
  <2>2. ex.arg \in Goals /\ ex.arg \in sent
    BY <1>c, <2>1 DEF TypeInv, AcceptTyped, AcceptPcs, Accepting
  <2>3. /\ status'[ex.arg] = "executing"
        /\ \A h \in Goals : h # ex.arg => status'[h] = status[h]
    BY <1>a, <2>1, <2>2
  <2>4. Unstarted'
    BY <1>c, <2>1, <2>2, <2>3 DEF Unstarted
  <2>5. Filled' /\ Opening' /\ (Down' <=> Down)
    BY <1>o, <2>1
  <2>6. Replaced' /\ Accepting'
    BY <1>r, <2>1, <2>5 DEF Accepting
  <2>. QED
    BY <2>4, <2>5, <2>6 DEF EndedInv
<1>14. CASE CancelHold
  <2>1. /\ UNCHANGED <<sent, status, request, rt_active_goal, lifecycle, rt>>
        /\ ex'.pc = "clear" /\ new_trajectory_msg' = HaltMsg
    BY <1>a, <1>14 DEF CancelHold
  <2>2. Unstarted'
    BY <1>u, <2>1
  <2>3. Filled' /\ Opening' /\ Replaced' /\ Accepting'
    BY <1>d, <1>o, <2>1 DEF Replaced, Accepting
  <2>. QED
    BY <2>2, <2>3 DEF EndedInv
<1>15. CASE TopicUnhold \/ CancelClear \/ \E m \in Stamped : Tick(m)
  <2>1. /\ UNCHANGED <<sent, status, request, rt_active_goal, lifecycle, rt, new_trajectory_msg>>
        /\ ex' = ex \/ (ex.pc \notin {"add", "cancel"} /\ ex'.pc = "idle")
    BY <1>15 DEF TopicUnhold, CancelClear, Tick, ExIdle
  <2>2. Unstarted'
    BY <1>u, <2>1
  <2>3. Filled' /\ Opening' /\ (Down' <=> Down)
    BY <1>o, <2>1
  <2>4. Replaced' /\ Accepting'
    BY <1>c, <1>r, <2>1, <2>3 DEF Accepting
  <2>. QED
    BY <2>2, <2>3, <2>4 DEF EndedInv
<1>16. CASE runNonRealtime
  <2>. PICK g \in Goals : Undelivered(g) /\ status' = [status EXCEPT ![g] = request[g]]
    BY <1>16 DEF runNonRealtime
  <2>1. /\ UNCHANGED <<sent, request, rt_active_goal, lifecycle, rt, new_trajectory_msg, ex>>
        /\ ex.pc = "idle" /\ status[g] = "executing" /\ request[g] \in Results
    BY <1>a, <1>16 DEF runNonRealtime, Undelivered
  <2>2. /\ status'[g] \in Results
        /\ \A h \in Goals : h # g => status'[h] = status[h]
    BY <1>a, <2>1
  <2>3. Unstarted'
    BY <1>c, <2>1, <2>2 DEF Unstarted
  <2>4. Filled' /\ Opening' /\ (Down' <=> Down)
    BY <1>o, <2>1
  <2>5. Replaced' /\ Accepting'
    BY <1>r, <2>1, <2>4 DEF Accepting
  <2>. QED
    BY <2>3, <2>4, <2>5 DEF EndedInv
<1>. QED
  BY <1>1, <1>2, <1>3, <1>4, <1>5, <1>6, <1>7, <1>8, <1>9, <1>10, <1>11, <1>12, <1>13, <1>14,
     <1>15, <1>16
  DEF Next, Update, Lifecycle, Callback, Accept

\* Once all handlers have returned the buffer asks for something else than the
\* trajectory of a goal that was canceled or aborted, whatever the two threads did.
THEOREM EndedGoalsAreReplaced == Spec => []EndedGoalIsReplaced
<1>1. TypeInv /\ EndedInv /\ [Next]_vars => EndedInv'
  BY NextEndedInv
<1>2. EndedInv => EndedGoalIsReplaced
  BY DEF EndedInv, Replaced, Filled, Down, EndedGoalIsReplaced, Quiet
<1>. QED
  BY <1>1, <1>2, InitTypeInv, NextTypeInv, InitEndedInv, PTL DEF Spec

-----------------------------------------------------------------------------
(* Measured successes, without overlaps and without a command timeout: the   *)
(* controller does not hold while it has an active goal.                     *)

\* An active goal is a pending one, until it is deactivated.
ActivePending ==
    /\ rt_active_goal # None /\ rt.pc # "deactivate" => rt_has_pending_goal
    /\ ex.pc \in {"preempt", "add", "unhold", "publish"} => rt_has_pending_goal

\* Goals are accepted while the controller is active, and none survives that.
ActiveOnly ==
    /\ lifecycle = "inactive" => rt_active_goal = None
    /\ ex.pc \in {"accept", "preempt", "add", "unhold", "publish"} => lifecycle = "active"
    /\ rt.pc \notin {"idle", "activate", "mark"} => lifecycle = "active"
    /\ rt.pc \in {"activate", "mark"} => lifecycle = "inactive"

NotHolding ==
    /\ rt_active_goal # None \/ ex.pc = "publish" => ~rt_is_holding
    /\ ex.pc \in {"cancel", "clear"} => rt_active_goal = None
    /\ rt.pc = "conclude" /\ rt.verdict = "hold" => rt_active_goal = None

MeasuredInv == ActivePending /\ ActiveOnly /\ NotHolding

LEMMA InitMeasuredInv == Init => MeasuredInv
BY DEF Init, MeasuredInv, ActivePending, ActiveOnly, NotHolding, RtIdle, ExIdle

\* What a cycle that comes to judge leaves.
LEMMA Judged ==
    ASSUME TypeInv, CmdTimeout = FALSE, UpdateJudge
    PROVE  /\ rt_is_holding' = rt_is_holding
           /\ UNCHANGED <<rt_has_pending_goal, rt_active_goal, lifecycle, ex>>
           /\ rt'.pc \in {"idle", "conclude"}
           /\ rt'.pc = "conclude" /\ rt'.verdict = "hold" => ~rt_has_pending_goal
<1>1. rt_is_holding \in BOOLEAN
      /\ rt = [pc |-> rt.pc, goal |-> rt.goal, msg |-> rt.msg, due |-> rt.due,
               verdict |-> rt.verdict]
  BY GoalTypes, Zenon DEF TypeInv, TypeOK
<1>. PICK reached \in Stages, pathOk \in BOOLEAN, goalOk \in BOOLEAN, timedOut \in BOOLEAN :
         Judge(reached, pathOk, goalOk, timedOut)
  BY DEF UpdateJudge
<1>2. rt_is_holding' = rt_is_holding
  BY <1>1 DEF Judge
<1>3. UNCHANGED <<rt_has_pending_goal, rt_active_goal, lifecycle, ex>>
  BY DEF Judge, node
<1>4. /\ rt'.pc \in {"idle", "conclude"}
      /\ rt'.pc = "conclude" /\ rt'.verdict = "hold" => ~rt_has_pending_goal
  BY <1>1 DEF Judge, RtIdle
<1>. QED
  BY <1>2, <1>3, <1>4

LEMMA NextMeasuredInv ==
    ASSUME Concurrent = FALSE, CmdTimeout = FALSE, TypeInv, GoalsInv, MeasuredInv, [Next]_vars
    PROVE  MeasuredInv'
<1>. USE DEF MeasuredInv, ActivePending, ActiveOnly, NotHolding, flags, node
<1>0. /\ MeasuredInv /\ OneHandler /\ LocalGoal /\ Concluding /\ Preempted
      /\ None \notin Goals /\ (rt_active_goal # None => rt_active_goal \in Goals)
      /\ rt = [pc |-> rt.pc, goal |-> rt.goal, msg |-> rt.msg, due |-> rt.due,
               verdict |-> rt.verdict]
      /\ ex = [pc |-> ex.pc, arg |-> ex.arg]
  BY GoalTypes DEF GoalsInv, Threads
<1>1. CASE UNCHANGED vars
  BY <1>0, <1>1 DEF vars
<1>2. CASE UpdateStart \/ UpdateReadMsg
  <2>1. /\ lifecycle = "active" /\ rt'.pc \in {"read", "install"} /\ rt.pc # "deactivate"
        /\ UNCHANGED <<rt_has_pending_goal, rt_is_holding, rt_active_goal, lifecycle, ex>>
    BY <1>0, <1>2 DEF UpdateStart, UpdateReadMsg
  <2>. QED
    BY <1>0, <2>1
<1>3. CASE UpdateInstall
  <2>1. /\ lifecycle = "active" /\ rt'.pc \in {"idle", "judge"} /\ rt.pc # "deactivate"
        /\ UNCHANGED <<rt_has_pending_goal, rt_is_holding, rt_active_goal, lifecycle, ex>>
    BY <1>0, <1>3 DEF UpdateInstall, RtIdle
  <2>. QED
    BY <1>0, <2>1
<1>4. CASE UpdateJudge
  <2>1. lifecycle = "active" /\ rt.pc = "judge"
    BY <1>0, <1>4 DEF UpdateJudge, Judge
  <2>2. /\ rt_is_holding' = rt_is_holding
        /\ UNCHANGED <<rt_has_pending_goal, rt_active_goal, lifecycle, ex>>
        /\ rt'.pc \in {"idle", "conclude"}
        /\ rt'.pc = "conclude" /\ rt'.verdict = "hold" => ~rt_has_pending_goal
    BY <1>4, Judged
  <2>3. rt_active_goal # None => rt_has_pending_goal
    BY <1>0, <2>1
  <2>. QED
    BY <1>0, <2>1, <2>2, <2>3
<1>5. CASE UpdateConclude
  <2>1. /\ ex.pc = "idle" /\ rt_active_goal' = None /\ lifecycle = "active"
        /\ rt' = RtIdle /\ UNCHANGED <<ex, lifecycle>>
    BY <1>0, <1>5 DEF UpdateConclude, OneHandler, ReleaseGoal
  <2>. QED
    BY <2>1 DEF RtIdle
<1>6. CASE Activate
  <2>1. /\ ex.pc = "idle" /\ rt_active_goal = None /\ UNCHANGED <<ex, rt_active_goal>>
        /\ \/ rt'.pc \in {"activate", "mark"} /\ lifecycle' = "inactive"
           \/ rt' = RtIdle /\ lifecycle' = "active"
    BY <1>0, <1>6 DEF Activate, on_activate, ActivateHold, ActivateMark, RtRuns
  <2>. QED
    BY <2>1 DEF RtIdle
<1>7. CASE DeactivateAbort
  <2>1. /\ lifecycle = "active" /\ ex.pc = "idle" /\ rt'.pc = "deactivate"
        /\ UNCHANGED <<ex, rt_active_goal, rt_is_holding, lifecycle>>
    BY <1>0, <1>7 DEF DeactivateAbort, RtRuns
  <2>. QED
    BY <1>0, <2>1
<1>8. ASSUME NEW w \in BOOLEAN, DeactivateRelease(w) PROVE MeasuredInv'
  <2>1. /\ ex.pc = "idle" /\ rt_active_goal' = None /\ rt' = RtIdle /\ ex' = ex
    BY <1>0, <1>8 DEF DeactivateRelease, RtRuns, LocalGoal
  <2>. QED
    BY <2>1 DEF RtIdle
<1>9. ASSUME NEW t \in Topics, topic_callback(t) PROVE MeasuredInv'
  <2>1. /\ rt.pc = "idle" /\ ex'.pc \in {"idle", "topic"}
        /\ UNCHANGED <<rt, rt_active_goal, rt_has_pending_goal, rt_is_holding, lifecycle>>
    BY <1>9 DEF topic_callback, ExRuns
  <2>. QED
    BY <1>0, <2>1
<1>10. ASSUME NEW g \in Goals, goal_received_callback(g) PROVE MeasuredInv'
  <2>1. /\ rt.pc = "idle" /\ (ex' = ex \/ (lifecycle # "inactive" /\ ex'.pc = "accept"))
        /\ UNCHANGED <<rt, rt_active_goal, rt_has_pending_goal, rt_is_holding, lifecycle>>
    BY <1>10 DEF goal_received_callback, ExRuns, InTransition
  <2>2. lifecycle \in {"active", "inactive"}
    BY DEF TypeInv, TypeOK
  <2>. QED
    BY <1>0, <2>1, <2>2
<1>11. ASSUME NEW g \in Goals, goal_cancelled_callback(g) PROVE MeasuredInv'
  <2>1. /\ rt.pc = "idle" /\ ex'.pc = "cancel" /\ rt_active_goal' = None
        /\ UNCHANGED <<rt, lifecycle>>
    BY <1>11 DEF goal_cancelled_callback, ExRuns
  <2>. QED
    BY <1>0, <2>1
<1>12. CASE Accept
  <2>1. rt.pc = "idle" /\ UNCHANGED <<rt, lifecycle>>
    BY <1>12 DEF Accept, AcceptPending, preempt_active_goal, AcceptAdd, AcceptUnhold,
       AcceptPublish, AcceptTolerances, ExRuns
  <2>2. CASE AcceptPending
    BY <1>0, <2>1, <2>2 DEF AcceptPending
  <2>3. CASE preempt_active_goal
    <3>1. /\ ex.pc = "preempt" /\ ex' = [ex EXCEPT !.pc = "add"] /\ rt_active_goal' = None
          /\ UNCHANGED <<rt_has_pending_goal, rt_is_holding>>
      BY <2>3 DEF preempt_active_goal
    <3>. QED
      BY <1>0, <2>1, <3>1
  <2>4. CASE AcceptAdd
    BY <1>0, <2>1, <2>4 DEF AcceptAdd
  <2>5. CASE AcceptUnhold
    BY <1>0, <2>1, <2>5 DEF AcceptUnhold
  <2>6. CASE AcceptPublish
    BY <1>0, <2>1, <2>6 DEF AcceptPublish
  <2>7. CASE AcceptTolerances
    BY <1>0, <2>1, <2>7 DEF AcceptTolerances, ExIdle
  <2>. QED
    BY <1>12, <2>2, <2>3, <2>4, <2>5, <2>6, <2>7 DEF Accept
<1>13. CASE TopicUnhold \/ CancelHold \/ CancelClear \/ runNonRealtime
  <2>1. rt.pc = "idle" /\ UNCHANGED <<rt, lifecycle, rt_active_goal, rt_has_pending_goal>>
    BY <1>13 DEF TopicUnhold, CancelHold, CancelClear, runNonRealtime, ExRuns
  <2>. QED
    BY <1>0, <1>13, <2>1 DEF TopicUnhold, CancelHold, CancelClear, runNonRealtime, ExIdle
<1>14. CASE \E m \in Stamped : Tick(m)
  BY <1>0, <1>14 DEF Tick
<1>. QED
  BY <1>1, <1>2, <1>3, <1>4, <1>5, <1>6, <1>7, <1>8, <1>9, <1>10, <1>11, <1>12, <1>13, <1>14
  DEF Next, Update, Lifecycle, Callback

\* Without a command timeout no goal succeeds with its tolerances switched off.
THEOREM SuccessesAreMeasured ==
    Concurrent = FALSE /\ CmdTimeout = FALSE => (Spec => []SuccessIsMeasured)
<1> SUFFICES ASSUME Concurrent = FALSE, CmdTimeout = FALSE PROVE Spec => []SuccessIsMeasured
  OBVIOUS
<1>1. TypeInv /\ GoalsInv /\ MeasuredInv /\ [Next]_vars => MeasuredInv'
  BY NextMeasuredInv
<1>2. GoalsInv /\ MeasuredInv => SuccessIsMeasured
  BY DEF GoalsInv, Threads, LocalGoal, Concluding, MeasuredInv, NotHolding, SuccessIsMeasured
<1>3. Spec => [](TypeInv /\ GoalsInv)
  BY GoalsInvariant
<1>. QED
  BY <1>1, <1>2, <1>3, InitMeasuredInv, PTL DEF Spec

-----------------------------------------------------------------------------
(* Canceled goals, without overlaps.                                         *)

\* Neither the buffer nor a cycle that has read it holds a canceled trajectory, and
\* when one is deferred, the request to drop it is there or about to be made.
CanceledDropped ==
    \A g \in Goals : request[g] = "canceled" =>
        /\ new_trajectory_msg = g => ex.pc = "cancel"
        /\ rt.pc = "install" => rt.msg # g
        /\ pending_traj_msg = g => rt_clear_pending \/ ex.pc \in {"cancel", "clear"}

LEMMA InitCanceledDropped == Init => CanceledDropped
BY DEF Init, CanceledDropped

LEMMA NextCanceledDropped ==
    ASSUME Concurrent = FALSE, TypeInv, GoalsInv, CanceledDropped, [Next]_vars
    PROVE  CanceledDropped'
<1>. USE DEF CanceledDropped, flags, trajectory, handles
<1>0a. OneHandler /\ Arriving /\ Unasked
  BY DEF GoalsInv, Threads
<1>0b. /\ request \in [Goals -> Results \cup {"none"}]
       /\ rt = [pc |-> rt.pc, goal |-> rt.goal, msg |-> rt.msg, due |-> rt.due,
                verdict |-> rt.verdict]
       /\ ex = [pc |-> ex.pc, arg |-> ex.arg]
  BY GoalTypes
<1>0c. /\ Hold \notin Goals /\ Stop \notin Goals /\ None \notin Goals
       /\ Topics \cap Goals = {}
  BY ConstantsAssumption DEF External, Messages
<1>0. /\ OneHandler /\ Arriving /\ Unasked
      /\ request \in [Goals -> Results \cup {"none"}]
      /\ rt = [pc |-> rt.pc, goal |-> rt.goal, msg |-> rt.msg, due |-> rt.due,
               verdict |-> rt.verdict]
      /\ ex = [pc |-> ex.pc, arg |-> ex.arg]
      /\ Hold \notin Goals /\ Stop \notin Goals /\ None \notin Goals
      /\ Topics \cap Goals = {}
  BY <1>0a, <1>0b, <1>0c
<1>h. HaltMsg \notin Goals
  BY <1>0 DEF HaltMsg
\* Asking for another result cancels nobody.
<1>a. ASSUME NEW h, NEW r \in {"aborted", "succeeded"}, request' = Ask(request, h, r)
      PROVE  \A g \in Goals : request'[g] = "canceled" => request[g] = "canceled"
  BY <1>0, <1>a DEF Ask
<1>k. ASSUME \A g \in Goals : request'[g] = "canceled" => request[g] = "canceled",
             UNCHANGED <<new_trajectory_msg, pending_traj_msg, rt_clear_pending>>,
             rt'.pc # "install", ex' = ex \/ ex.pc \notin {"cancel", "clear"}
      PROVE  CanceledDropped'
  BY <1>0, <1>k
<1>1. CASE UNCHANGED vars
  BY <1>1 DEF vars
<1>2. CASE UpdateStart
  BY <1>0, <1>k, <1>2 DEF UpdateStart
<1>3. CASE UpdateReadMsg
  BY <1>0, <1>3 DEF UpdateReadMsg, OneHandler
<1>4. CASE UpdateInstall
  <2>1. /\ rt.pc = "install" /\ ex.pc = "idle" /\ rt'.pc # "install"
        /\ UNCHANGED <<request, new_trajectory_msg, ex>>
    BY <1>0, <1>4 DEF UpdateInstall, OneHandler, RtIdle
  <2>2. \/ pending_traj_msg' \in {None, rt.msg}
        \/ pending_traj_msg' = pending_traj_msg /\ ~rt_clear_pending
    BY <1>4 DEF UpdateInstall, Pending
  <2>. QED
    BY <1>0, <2>1, <2>2
<1>5. CASE UpdateJudge
  <2>1. /\ new_trajectory_msg' \in {HaltMsg, new_trajectory_msg} /\ rt'.pc # "install"
        /\ UNCHANGED <<request, pending_traj_msg, rt_clear_pending, ex>>
    BY <1>0, <1>5 DEF UpdateJudge, Judge, RtIdle
  <2>. QED
    BY <1>0, <1>h, <2>1
<1>6. CASE UpdateConclude
  <2>1. /\ new_trajectory_msg' \in {HaltMsg, Hold} /\ rt'.pc # "install"
        /\ UNCHANGED <<pending_traj_msg, rt_clear_pending, ex>>
        /\ request' = request
              \/ \E r \in {"aborted", "succeeded"} : request' = Ask(request, rt.goal, r)
    BY <1>6 DEF UpdateConclude, ReleaseGoal, RtIdle
  <2>2. \A g \in Goals : request'[g] = "canceled" => request[g] = "canceled"
    BY <1>a, <2>1
  <2>. QED
    BY <1>0, <1>h, <2>1, <2>2
<1>7. CASE Activate
  <2>1. CASE on_activate
    <3>1. /\ ex.pc = "idle" /\ rt'.pc = "activate" /\ new_trajectory_msg' = None
          /\ pending_traj_msg' = None /\ request' = request
      BY <1>0, <2>1 DEF on_activate, RtRuns, OneHandler
    <3>. QED
      BY <1>0, <3>1
  <2>2. CASE ActivateHold
    <3>1. /\ rt'.pc = "mark" /\ new_trajectory_msg' = Hold
          /\ UNCHANGED <<request, pending_traj_msg, rt_clear_pending, ex>>
      BY <1>0, <2>2 DEF ActivateHold
    <3>. QED
      BY <1>0, <3>1
  <2>3. CASE ActivateMark
    BY <1>k, <2>3 DEF ActivateMark, RtIdle
  <2>. QED
    BY <1>7, <2>1, <2>2, <2>3 DEF Activate
<1>8. CASE DeactivateAbort
  <2>1. \A g \in Goals : request'[g] = "canceled" => request[g] = "canceled"
    BY <1>a, <1>8 DEF DeactivateAbort
  <2>. QED
    BY <1>0, <1>k, <1>8, <2>1 DEF DeactivateAbort
<1>9. ASSUME NEW w \in BOOLEAN, DeactivateRelease(w) PROVE CanceledDropped'
  BY <1>k, <1>9 DEF DeactivateRelease, RtIdle
<1>10. ASSUME NEW t \in Topics, topic_callback(t) PROVE CanceledDropped'
  <2>1. /\ new_trajectory_msg' \in {t, new_trajectory_msg} /\ ex.pc = "idle" /\ t \notin Goals
        /\ UNCHANGED <<request, pending_traj_msg, rt_clear_pending, rt>>
    BY <1>0, <1>10 DEF topic_callback
  <2>. QED
    BY <2>1
<1>11. ASSUME NEW g \in Goals, goal_received_callback(g) PROVE CanceledDropped'
  <2>1. /\ ex.pc = "idle"
        /\ UNCHANGED <<request, new_trajectory_msg, pending_traj_msg, rt_clear_pending, rt>>
    BY <1>11 DEF goal_received_callback
  <2>. QED
    BY <2>1
<1>12. ASSUME NEW g \in Goals, goal_cancelled_callback(g) PROVE CanceledDropped'
  <2>1. /\ rt.pc = "idle" /\ ex'.pc = "cancel"
        /\ UNCHANGED <<new_trajectory_msg, pending_traj_msg, rt_clear_pending, rt>>
    BY <1>12 DEF goal_cancelled_callback, ExRuns
  <2>. QED
    BY <2>1
<1>13. CASE Accept
  <2>1. CASE AcceptPending \/ AcceptUnhold \/ AcceptPublish \/ AcceptTolerances
    <3>1. /\ ex.pc \notin {"cancel", "clear"} /\ rt.pc = "idle"
          /\ UNCHANGED <<request, new_trajectory_msg, pending_traj_msg, rt_clear_pending, rt>>
      BY <2>1 DEF AcceptPending, AcceptUnhold, AcceptPublish, AcceptTolerances, ExRuns
    <3>. QED
      BY <1>k, <3>1
  <2>2. CASE preempt_active_goal
    <3>1. /\ ex.pc = "preempt" /\ rt.pc = "idle"
          /\ UNCHANGED <<new_trajectory_msg, pending_traj_msg, rt_clear_pending, rt>>
          /\ request' = request \/ request' = Ask(request, rt_active_goal, "aborted")
      BY <2>2 DEF preempt_active_goal, ExRuns
    <3>2. \A g \in Goals : request'[g] = "canceled" => request[g] = "canceled"
      BY <1>a, <3>1
    <3>. QED
      BY <1>k, <3>1, <3>2
  <2>3. CASE AcceptAdd
    <3>1. /\ ex.pc = "add" /\ rt.pc = "idle" /\ new_trajectory_msg' = ex.arg
          /\ UNCHANGED <<request, pending_traj_msg, rt_clear_pending, rt>>
      BY <2>3 DEF AcceptAdd, ExRuns
    <3>2. ex.arg \in Goals /\ request[ex.arg] = "none"
      BY <1>0, <3>1 DEF TypeInv, AcceptTyped, AcceptPcs, Arriving, Unasked
    <3>. QED
      BY <1>0, <3>1, <3>2
  <2>. QED
    BY <1>13, <2>1, <2>2, <2>3 DEF Accept
<1>14. CASE CancelHold
  <2>1. /\ rt.pc = "idle" /\ ex'.pc = "clear" /\ new_trajectory_msg' = HaltMsg
        /\ UNCHANGED <<request, pending_traj_msg, rt_clear_pending, rt>>
    BY <1>0, <1>14 DEF CancelHold, ExRuns
  <2>. QED
    BY <1>h, <2>1
<1>15. CASE CancelClear
  <2>1. /\ rt.pc = "idle" /\ ex.pc = "clear" /\ rt_clear_pending' = TRUE
        /\ UNCHANGED <<request, new_trajectory_msg, rt>>
    BY <1>15 DEF CancelClear, ExRuns
  <2>. QED
    BY <2>1
<1>16. CASE TopicUnhold \/ runNonRealtime
  <2>1. /\ rt.pc = "idle" /\ ex.pc \notin {"cancel", "clear"}
        /\ UNCHANGED <<request, new_trajectory_msg, pending_traj_msg, rt_clear_pending, rt>>
    BY <1>16 DEF TopicUnhold, runNonRealtime, ExRuns
  <2>. QED
    BY <1>k, <2>1
<1>17. CASE \E m \in Stamped : Tick(m)
  <2>1. UNCHANGED <<request, new_trajectory_msg, pending_traj_msg, rt_clear_pending, rt, ex>>
    BY <1>17 DEF Tick
  <2>. QED
    BY <2>1
<1>. QED
  BY <1>1, <1>2, <1>3, <1>4, <1>5, <1>6, <1>7, <1>8, <1>9, <1>10, <1>11, <1>12, <1>13, <1>14,
     <1>15, <1>16, <1>17
  DEF Next, Update, Lifecycle, Callback

\* Once a cancel has been served the trajectory of its goal is not deferred any more.
THEOREM CanceledGoalsNeverFire == Concurrent = FALSE => (Spec => []CanceledGoalNotPending)
<1> SUFFICES ASSUME Concurrent = FALSE PROVE Spec => []CanceledGoalNotPending
  OBVIOUS
<1>1. TypeInv /\ GoalsInv /\ CanceledDropped /\ [Next]_vars => CanceledDropped'
  BY NextCanceledDropped
<1>2. CanceledDropped => CanceledGoalNotPending
  BY DEF CanceledDropped, CanceledGoalNotPending, Quiet
<1>3. Spec => [](TypeInv /\ GoalsInv)
  BY GoalsInvariant
<1>. QED
  BY <1>1, <1>2, <1>3, InitCanceledDropped, PTL DEF Spec

-----------------------------------------------------------------------------
(* Earned successes, without overlaps, a command timeout and deferred topic  *)
(* messages: where the trajectory of the active goal is.                     *)

NoDeferredTopics == AllowReplacement => Stamped \cap Topics = {}

\* A trajectory that has not arrived, or is about to be handed over, is nowhere yet.
NotYet ==
    \A x \in External :
        x \notin sent \/ (ex.pc \in {"accept", "preempt", "add"} /\ x = ex.arg)
            => x \notin {new_trajectory_msg, current_msg, pending_traj_msg}

\* The trajectory of goal g, or one the topic put in its place, is in the buffer: unread,
\* installed, or deferred.  Then no cancel is left to be served.
Unread == new_trajectory_msg \notin {current_msg, pending_traj_msg}
Taken(g) ==
    /\ ~rt_clear_pending
    /\ \/ pending_traj_msg = None /\ current_msg = new_trajectory_msg
       \/ pending_traj_msg = g /\ new_trajectory_msg = g
Follows(g) == new_trajectory_msg \in {g} \cup Topics /\ (Unread \/ Taken(g))

Followed ==
    /\ rt_active_goal # None => Follows(rt_active_goal)
    /\ ex.pc \in {"unhold", "publish"} => Follows(ex.arg)

\* A cycle installs what is in the buffer and judges the active goal by it.
ReadMsg == rt.pc = "install" => rt.msg = new_trajectory_msg
Judging ==
    /\ rt.pc \in {"judge", "conclude"} /\ rt_active_goal # None => Taken(rt_active_goal)
    /\ rt.pc = "conclude" /\ rt.verdict \notin {"hold", "abort"} => stage # "moving"

EarnedInv == NotYet /\ Followed /\ ReadMsg /\ Judging

LEMMA InitEarnedInv == Init => EarnedInv
BY ConstantsAssumption
   DEF Init, EarnedInv, NotYet, Followed, ReadMsg, Judging, RtIdle, ExIdle, Messages

\* Steps that leave the trajectories alone.
LEMMA EarnedKept ==
    ASSUME EarnedInv, ReadMsg', Judging', sent \subseteq sent',
           UNCHANGED <<new_trajectory_msg, current_msg, pending_traj_msg, rt_clear_pending>>,
           rt_active_goal' \in {rt_active_goal, None},
           \/ ex' = ex \/ ex'.pc \in {"idle", "cancel", "clear", "topic", "tolerances"}
           \/ /\ ex'.arg = ex.arg
              /\ <<ex.pc, ex'.pc>> \in {<<"accept", "preempt">>, <<"preempt", "add">>,
                                       <<"unhold", "publish">>}
    PROVE  EarnedInv'
<1>1. NotYet'
  BY DEF EarnedInv, NotYet
<1>2. Followed'
  BY DEF EarnedInv, Followed, Follows, Unread, Taken
<1>. QED
  BY <1>1, <1>2 DEF EarnedInv

\* Where the trajectory in the buffer goes.
LEMMA InstallTakes ==
    ASSUME Concurrent = FALSE, NoDeferredTopics, TypeInv, GoalsInv, EarnedInv,
           UpdateInstall, rt_active_goal # None
    PROVE  Taken(rt_active_goal)'
<1> DEFINE g == rt_active_goal
           m == rt.msg
           fresh == /\ m # current_msg /\ m # Pending
                    /\ ~(rt_has_pending_goal /\ rt.goal = None)
           internal == fresh /\ is_internal_hold(m)
           defer == /\ fresh /\ ~internal
                    /\ AllowReplacement /\ has_active_trajectory /\ InFuture(m, rt.due)
           now == fresh /\ ~internal /\ ~defer
           waiting == IF defer THEN m ELSE IF now THEN None ELSE Pending
           fire == Starts(waiting)
           installs == internal \/ now \/ fire
           installed == IF fire THEN waiting ELSE IF installs THEN m ELSE current_msg
<1>1. /\ pending_traj_msg' = IF fire THEN None ELSE waiting
      /\ rt_clear_pending' = FALSE /\ current_msg' = installed
      /\ rt_active_goal' = g /\ new_trajectory_msg' = new_trajectory_msg /\ rt.pc = "install"
  BY DEF UpdateInstall
<1>2. m = new_trajectory_msg /\ rt.goal = g /\ g \in Goals /\ g # None
  BY <1>1, GoalTypes DEF EarnedInv, ReadMsg, GoalsInv, Threads, LocalGoal
<1>3. m \in {g} \cup Topics /\ ~is_internal_hold(m) /\ m # None /\ None \notin External
  <2>1. m \in {g} \cup Topics
    BY <1>2 DEF EarnedInv, Followed, Follows
  <2>. QED
    BY <1>2, <2>1, ConstantsAssumption DEF is_internal_hold, Messages
<1>4. CASE Unread
  <2>1. fresh /\ ~internal
    BY <1>2, <1>3, <1>4 DEF Unread, Pending
  <2>2. defer => m = g
    BY <1>3 DEF NoDeferredTopics, InFuture
  <2>3. defer => ~fire
    BY DEF Starts
  <2>4. now => waiting = None /\ ~fire /\ installed = m
    BY DEF Starts
  <2>5. defer \/ now
    BY <2>1
  <2>6. defer => pending_traj_msg' = m
    BY <1>1, <2>3
  <2>7. now => pending_traj_msg' = None /\ current_msg' = m
    BY <1>1, <2>4
  <2> HIDE DEF fresh, internal, defer, now, waiting, fire, installs, installed
  <2>. QED
    BY <1>1, <1>2, <2>2, <2>5, <2>6, <2>7 DEF Taken
<1>5. CASE Taken(g) /\ pending_traj_msg = None /\ current_msg = new_trajectory_msg
  <2>1. Pending = None
    BY <1>5 DEF Taken, Pending
  <2>2. ~fresh /\ ~internal /\ ~defer /\ ~now
    BY <1>2, <1>5
  <2>3. waiting = None /\ ~fire /\ ~installs /\ installed = current_msg
    BY <2>1, <2>2 DEF Starts
  <2> HIDE DEF fresh, internal, defer, now, waiting, fire, installs, installed
  <2>. QED
    BY <1>1, <1>5, <2>3 DEF Taken
<1>6. CASE Taken(g) /\ pending_traj_msg = g /\ new_trajectory_msg = g
  <2>1. Pending = g
    BY <1>6 DEF Taken, Pending
  <2>2. ~fresh /\ ~internal /\ ~defer /\ ~now
    BY <1>2, <1>6, <2>1
  <2>3. waiting = g
    BY <2>1, <2>2
  <2>4. installed = IF fire THEN g ELSE current_msg
    BY <2>2, <2>3
  <2> HIDE DEF fresh, internal, defer, now, waiting, fire, installs, installed
  <2>. QED
    BY <1>1, <1>6, <2>3, <2>4 DEF Taken
<1>. QED
  BY <1>2, <1>4, <1>5, <1>6 DEF EarnedInv, Followed, Follows, Taken

\* What a cycle installs has been in the buffer or deferred.
LEMMA InstallsKnown ==
    ASSUME TypeInv, EarnedInv, UpdateInstall
    PROVE  /\ current_msg' \in {current_msg, new_trajectory_msg, pending_traj_msg}
           /\ pending_traj_msg' \in {None, new_trajectory_msg, pending_traj_msg}
<1>1. rt.msg = new_trajectory_msg
  BY DEF UpdateInstall, EarnedInv, ReadMsg
<1>2. Pending \in {None, pending_traj_msg}
  BY DEF Pending
<1>. QED
  BY <1>1, <1>2 DEF UpdateInstall, Starts

LEMMA NextEarnedInv ==
    ASSUME Concurrent = FALSE, CmdTimeout = FALSE, NoDeferredTopics,
           TypeInv, GoalsInv, MeasuredInv, EarnedInv, [Next]_vars
    PROVE  EarnedInv'
<1>0. /\ OneHandler /\ LocalGoal /\ Preempted /\ Arriving /\ ActiveOnly /\ NotHolding
      /\ NotYet /\ Followed /\ ReadMsg /\ Judging
      /\ None \notin Goals /\ (rt_active_goal # None => rt_active_goal \in Goals)
      /\ rt = [pc |-> rt.pc, goal |-> rt.goal, msg |-> rt.msg, due |-> rt.due,
               verdict |-> rt.verdict]
      /\ ex = [pc |-> ex.pc, arg |-> ex.arg]
  BY GoalTypes DEF GoalsInv, Threads, EarnedInv, MeasuredInv
<1>1. CASE UNCHANGED vars
  <2>1. ReadMsg' /\ Judging'
    BY <1>0, <1>1 DEF vars, trajectory, flags, ReadMsg, Judging, Taken
  <2>. QED
    BY <1>1, <2>1, EarnedKept DEF vars, trajectory, flags
<1>2. CASE UpdateStart \/ UpdateReadMsg
  <2>1. /\ UNCHANGED <<new_trajectory_msg, current_msg, pending_traj_msg, rt_clear_pending,
                       rt_active_goal, ex, sent>>
        /\ rt'.pc \in {"read", "install"} /\ (rt'.pc = "install" => rt'.msg = new_trajectory_msg)
    BY <1>0, <1>2 DEF UpdateStart, UpdateReadMsg, trajectory, flags
  <2>2. ReadMsg' /\ Judging'
    BY <2>1 DEF ReadMsg, Judging
  <2>. QED
    BY <2>1, <2>2, EarnedKept
<1>3. CASE UpdateInstall
  <2>1. /\ UNCHANGED <<new_trajectory_msg, rt_active_goal, ex, sent>>
        /\ rt'.pc \in {"idle", "judge"} /\ ex.pc = "idle" /\ rt.pc = "install"
    BY <1>0, <1>3 DEF UpdateInstall, RtIdle, RtRuns
  <2>2. /\ current_msg' \in {current_msg, new_trajectory_msg, pending_traj_msg}
        /\ pending_traj_msg' \in {None, new_trajectory_msg, pending_traj_msg}
    BY <1>3, InstallsKnown
  <2>3. NotYet'
    BY <1>0, <2>1, <2>2, ConstantsAssumption DEF NotYet, Messages
  <2>4. rt_active_goal # None => Taken(rt_active_goal)'
    BY <1>3, InstallTakes
  <2>5. rt_active_goal # None => Follows(rt_active_goal)'
    BY <1>0, <2>1, <2>4 DEF Followed, Follows
  <2>6. Followed' /\ ReadMsg' /\ Judging'
    BY <2>1, <2>4, <2>5 DEF Followed, ReadMsg, Judging
  <2>. QED
    BY <2>3, <2>6 DEF EarnedInv
<1>4. CASE UpdateJudge
  <2>. PICK reached \in Stages, pathOk \in BOOLEAN, goalOk \in BOOLEAN, timedOut \in BOOLEAN :
           Judge(reached, pathOk, goalOk, timedOut)
    BY <1>4 DEF UpdateJudge
  <2>1. /\ UNCHANGED <<new_trajectory_msg, current_msg, pending_traj_msg, rt_clear_pending,
                       rt_active_goal, ex, sent>>
        /\ rt'.pc \in {"idle", "conclude"} /\ rt.pc = "judge"
    BY <1>0 DEF Judge, RtIdle
  <2>2. rt'.pc = "conclude" /\ rt'.verdict \notin {"hold", "abort"} => stage' # "moving"
    BY <1>0 DEF Judge, RtIdle, BeforeLast
  <2>3. ReadMsg' /\ Judging'
    BY <1>0, <2>1, <2>2 DEF ReadMsg, Judging, Taken
  <2>. QED
    BY <2>1, <2>3, EarnedKept
<1>5. CASE UpdateConclude
  <2>1. /\ UNCHANGED <<current_msg, pending_traj_msg, rt_clear_pending, ex, sent>>
        /\ new_trajectory_msg' \in {Hold, Stop} /\ rt' = RtIdle
        /\ rt_active_goal' = None /\ ex.pc = "idle"
    BY <1>0, <1>5 DEF UpdateConclude, trajectory, OneHandler, NotHolding, ReleaseGoal, HaltMsg
  <2>2. NotYet'
    BY <1>0, <2>1, ConstantsAssumption DEF NotYet
  <2>3. Followed' /\ ReadMsg' /\ Judging'
    BY <2>1 DEF Followed, ReadMsg, Judging, RtIdle
  <2>. QED
    BY <2>2, <2>3 DEF EarnedInv
<1>6. CASE Activate
  <2>1. /\ current_msg' \in {current_msg, None} /\ pending_traj_msg' \in {pending_traj_msg, None}
        /\ new_trajectory_msg' \in {new_trajectory_msg, None, Hold}
        /\ UNCHANGED <<ex, sent, rt_active_goal>> /\ rt_active_goal = None
        /\ rt'.pc \in {"activate", "mark", "idle"} /\ ex.pc = "idle"
    BY <1>0, <1>6 DEF Activate, on_activate, ActivateHold, ActivateMark, ActiveOnly, RtRuns,
       RtIdle, trajectory
  <2>2. NotYet'
    BY <1>0, <2>1, ConstantsAssumption DEF NotYet, Messages
  <2>3. Followed' /\ ReadMsg' /\ Judging'
    BY <2>1 DEF Followed, ReadMsg, Judging
  <2>. QED
    BY <2>2, <2>3 DEF EarnedInv
<1>7. CASE DeactivateAbort
  <2>1. /\ UNCHANGED <<new_trajectory_msg, current_msg, pending_traj_msg, rt_clear_pending,
                       rt_active_goal, ex, sent>>
        /\ rt'.pc = "deactivate"
    BY <1>0, <1>7 DEF DeactivateAbort, trajectory
  <2>2. ReadMsg' /\ Judging'
    BY <2>1 DEF ReadMsg, Judging
  <2>. QED
    BY <2>1, <2>2, EarnedKept
<1>8. ASSUME NEW w \in BOOLEAN, DeactivateRelease(w) PROVE EarnedInv'
  <2>1. /\ UNCHANGED <<new_trajectory_msg, pending_traj_msg, ex, sent>>
        /\ current_msg' \in {current_msg, None} /\ rt' = RtIdle
        /\ rt_active_goal' = None /\ ex.pc = "idle"
    BY <1>0, <1>8 DEF DeactivateRelease, trajectory, RtRuns, LocalGoal
  <2>2. NotYet'
    BY <1>0, <2>1, ConstantsAssumption DEF NotYet, Messages
  <2>3. Followed' /\ ReadMsg' /\ Judging'
    BY <2>1 DEF Followed, ReadMsg, Judging, RtIdle
  <2>. QED
    BY <2>2, <2>3 DEF EarnedInv
<1>9. ASSUME NEW t \in Topics, topic_callback(t) PROVE EarnedInv'
  <2>1. /\ UNCHANGED <<current_msg, pending_traj_msg, rt_clear_pending, rt_active_goal, rt>>
        /\ rt.pc = "idle" /\ ex.pc = "idle" /\ t \notin sent /\ sent' = sent \cup {t}
        /\ \/ new_trajectory_msg' = t /\ ex'.pc = "topic"
           \/ new_trajectory_msg' = new_trajectory_msg /\ ex' = ex
    BY <1>9 DEF topic_callback, trajectory, flags, ExRuns
  <2>2. t \notin {current_msg, pending_traj_msg}
    BY <1>0, <2>1 DEF NotYet
  <2>3. NotYet'
    BY <1>0, <2>1 DEF NotYet
  <2>4. Followed' /\ ReadMsg' /\ Judging'
    BY <1>0, <2>1, <2>2 DEF Followed, Follows, Unread, Taken, ReadMsg, Judging
  <2>. QED
    BY <2>3, <2>4 DEF EarnedInv
<1>10. ASSUME NEW g \in Goals, goal_received_callback(g) PROVE EarnedInv'
  <2>1. /\ UNCHANGED <<new_trajectory_msg, current_msg, pending_traj_msg, rt_clear_pending,
                       rt_active_goal, rt>>
        /\ rt.pc = "idle" /\ ex.pc = "idle" /\ g \notin sent /\ sent' = sent \cup {g}
        /\ (ex' = ex \/ (ex'.pc = "accept" /\ ex'.arg = g))
    BY <1>10 DEF goal_received_callback, trajectory, flags, ExRuns
  <2>2. NotYet'
    BY <1>0, <2>1 DEF NotYet
  <2>3. Followed' /\ ReadMsg' /\ Judging'
    BY <1>0, <2>1 DEF Followed, Follows, Unread, Taken, ReadMsg, Judging
  <2>. QED
    BY <2>2, <2>3 DEF EarnedInv
<1>11. ASSUME NEW g \in Goals, goal_cancelled_callback(g) PROVE EarnedInv'
  <2>1. /\ UNCHANGED <<new_trajectory_msg, current_msg, pending_traj_msg, rt_clear_pending,
                       rt, sent>>
        /\ rt.pc = "idle" /\ rt_active_goal' = None /\ ex'.pc = "cancel"
    BY <1>11 DEF goal_cancelled_callback, trajectory, ExRuns
  <2>2. ReadMsg' /\ Judging'
    BY <2>1 DEF ReadMsg, Judging
  <2>. QED
    BY <2>1, <2>2, EarnedKept
<1>12. CASE Accept
  <2>1. rt.pc = "idle" /\ rt' = rt /\ sent' = sent
        /\ UNCHANGED <<current_msg, pending_traj_msg, rt_clear_pending>>
    BY <1>12 DEF Accept, AcceptPending, preempt_active_goal, AcceptAdd, AcceptUnhold,
       AcceptPublish, AcceptTolerances, ExRuns, trajectory, flags
  <2>2. ReadMsg' /\ Judging'
    BY <2>1 DEF ReadMsg, Judging
  <2>3. CASE AcceptPending \/ preempt_active_goal \/ AcceptUnhold \/ AcceptTolerances
    <3>1. new_trajectory_msg' = new_trajectory_msg /\ rt_active_goal' \in {rt_active_goal, None}
      BY <2>3 DEF AcceptPending, preempt_active_goal, AcceptUnhold, AcceptTolerances
    <3>2. \/ ex'.pc = "idle"
          \/ /\ ex'.arg = ex.arg
             /\ <<ex.pc, ex'.pc>> \in {<<"accept", "preempt">>, <<"preempt", "add">>,
                                      <<"unhold", "publish">>}
      BY <1>0, <2>3 DEF AcceptPending, preempt_active_goal, AcceptUnhold, AcceptTolerances, ExIdle
    <3>. QED
      BY <2>1, <2>2, <3>1, <3>2, EarnedKept
  <2>4. CASE AcceptAdd
    <3>1. /\ new_trajectory_msg' = ex.arg /\ ex.pc = "add" /\ ex'.pc = "unhold"
          /\ ex'.arg = ex.arg /\ rt_active_goal' = rt_active_goal /\ rt_active_goal = None
      BY <1>0, <2>4 DEF AcceptAdd, Preempted
    <3>2. ex.arg \in Goals /\ ex.arg \in sent
      BY <1>0, <3>1 DEF TypeInv, AcceptTyped, AcceptPcs, Arriving
    <3>3. ex.arg \notin {current_msg, pending_traj_msg}
      BY <1>0, <3>1, <3>2 DEF NotYet
    <3>4. NotYet'
      BY <1>0, <2>1, <3>1, <3>2 DEF NotYet
    <3>5. Followed'
      BY <2>1, <3>1, <3>3 DEF Followed, Follows, Unread
    <3>. QED
      BY <2>2, <3>4, <3>5 DEF EarnedInv
  <2>5. CASE AcceptPublish
    <3>1. /\ new_trajectory_msg' = new_trajectory_msg /\ rt_active_goal' = ex.arg
          /\ ex.pc = "publish" /\ ex'.pc = "tolerances"
      BY <1>0, <2>5 DEF AcceptPublish
    <3>2. NotYet'
      BY <1>0, <2>1, <3>1 DEF NotYet
    <3>3. Followed'
      BY <1>0, <2>1, <3>1 DEF Followed, Follows, Unread, Taken
    <3>. QED
      BY <2>2, <3>2, <3>3 DEF EarnedInv
  <2>. QED
    BY <1>12, <2>3, <2>4, <2>5 DEF Accept
<1>13. CASE TopicUnhold \/ runNonRealtime
  <2>1. /\ UNCHANGED <<new_trajectory_msg, current_msg, pending_traj_msg, rt_clear_pending,
                       rt_active_goal, rt, sent>>
        /\ rt.pc = "idle" /\ (ex' = ex \/ ex'.pc = "idle")
    BY <1>13 DEF TopicUnhold, runNonRealtime, trajectory, flags, ExRuns, ExIdle
  <2>2. ReadMsg' /\ Judging'
    BY <2>1 DEF ReadMsg, Judging
  <2>. QED
    BY <2>1, <2>2, EarnedKept
<1>14. CASE CancelHold \/ CancelClear
  <2>1. /\ UNCHANGED <<current_msg, pending_traj_msg, rt_active_goal, rt, sent>>
        /\ new_trajectory_msg' \in {new_trajectory_msg, Hold, Stop}
        /\ rt.pc = "idle" /\ rt_active_goal = None /\ ex'.pc \in {"clear", "idle"}
    BY <1>0, <1>14 DEF CancelHold, CancelClear, trajectory, ExIdle, NotHolding, HaltMsg, ExRuns
  <2>2. NotYet'
    BY <1>0, <2>1, ConstantsAssumption DEF NotYet
  <2>3. Followed' /\ ReadMsg' /\ Judging'
    BY <2>1 DEF Followed, ReadMsg, Judging
  <2>. QED
    BY <2>2, <2>3 DEF EarnedInv
<1>15. CASE \E m \in Stamped : Tick(m)
  <2>1. UNCHANGED <<new_trajectory_msg, current_msg, pending_traj_msg, rt_clear_pending,
                    rt_active_goal, rt, ex, sent, stage>>
    BY <1>15 DEF Tick, trajectory, flags
  <2>2. ReadMsg' /\ Judging'
    BY <1>0, <2>1 DEF ReadMsg, Judging, Taken
  <2>. QED
    BY <2>1, <2>2, EarnedKept
<1>. QED
  BY <1>1, <1>2, <1>3, <1>4, <1>5, <1>6, <1>7, <1>8, <1>9, <1>10, <1>11, <1>12, <1>13, <1>14,
     <1>15
  DEF Next, Update, Lifecycle, Callback

\* A handle is only asked to succeed at the end of a cycle.
LEMMA OnlyConcludeSucceeds ==
    ASSUME TypeInv, GoalsInv, [Next]_vars, NEW g \in Goals,
           request[g] # "succeeded", request'[g] = "succeeded"
    PROVE  UpdateConclude /\ rt.verdict # "hold" /\ rt.verdict # "abort" /\ rt.goal = g
<1>0. /\ request \in [Goals -> Results \cup {"none"}]
      /\ rt_active_goal # None => rt_active_goal \in Goals
      /\ rt.pc = "conclude" => rt.goal = rt_active_goal
      /\ rt.pc = "conclude" /\ rt.verdict # "hold" => rt.goal # None
  BY GoalTypes DEF GoalsInv, Threads, LocalGoal, Concluding
<1>1. \A h \in Goals, r \in Results :
          request' = Ask(request, h, r) => h = g /\ r = "succeeded"
  BY <1>0 DEF Ask
<1>2. request' # request
  OBVIOUS
<1>3. CASE UpdateConclude
  <2>1. rt.verdict # "hold"
    BY <1>2, <1>3 DEF UpdateConclude
  <2>2. /\ request' = Ask(request, rt.goal, IF rt.verdict = "abort" THEN "aborted" ELSE "succeeded")
        /\ rt.goal \in Goals
    BY <1>0, <1>3, <2>1 DEF UpdateConclude, ReleaseGoal
  <2>. QED
    BY <1>1, <1>3, <2>1, <2>2
<1>4. CASE Next /\ ~UpdateConclude
  <2>1. CASE Update
    <3>1. CASE UpdateStart \/ UpdateReadMsg \/ UpdateInstall
      BY <1>2, <3>1, Zenon DEF UpdateStart, UpdateReadMsg, UpdateInstall, handles
    <3>2. CASE UpdateJudge
      <4>. PICK reached \in Stages, pathOk \in BOOLEAN, goalOk \in BOOLEAN, timedOut \in BOOLEAN :
               Judge(reached, pathOk, goalOk, timedOut)
        BY <3>2 DEF UpdateJudge
      <4>1. request' = request
        BY DEF Judge, handles
      <4>. QED
        BY <1>2, <4>1
    <3>. QED
      BY <1>4, <2>1, <3>1, <3>2, Zenon DEF Update
  <2>2. CASE Lifecycle
    <3>1. CASE DeactivateAbort
      <4>1. request' = Ask(request, rt_active_goal, "aborted") /\ rt_active_goal \in Goals
        BY <1>0, <1>2, <3>1 DEF DeactivateAbort
      <4>. QED
        BY <1>1, <4>1
    <3>. QED
      BY <1>2, <2>2, <3>1 DEF Lifecycle, Activate, on_activate, ActivateHold, ActivateMark, DeactivateRelease, handles
  <2>3. CASE Callback
    <3>1. CASE preempt_active_goal
      <4>1. request' = Ask(request, rt_active_goal, "aborted") /\ rt_active_goal \in Goals
        BY <1>0, <1>2, <3>1 DEF preempt_active_goal
      <4>. QED
        BY <1>1, <4>1
    <3>2. ASSUME NEW h \in Goals, goal_cancelled_callback(h) PROVE FALSE
      <4>1. request' = Ask(request, h, "canceled")
        BY <3>2 DEF goal_cancelled_callback
      <4>. QED
        BY <1>1, <4>1
    <3>. QED
      BY <1>2, <2>3, <3>1, <3>2
      DEF Callback, Accept, topic_callback, TopicUnhold, goal_received_callback, AcceptPending,
          AcceptAdd, AcceptUnhold, AcceptPublish, AcceptTolerances, CancelHold, CancelClear,
          runNonRealtime, handles
  <2>4. CASE \E m \in Stamped : Tick(m)
    BY <1>2, <2>4 DEF Tick, handles
  <2>. QED
    BY <1>4, <2>1, <2>2, <2>3, <2>4 DEF Next
<1>. QED
  BY <1>2, <1>3, <1>4 DEF vars, handles

\* A success is reported for the goal whose trajectory, or one the topic put in its
\* place, is installed and has been played to its end, or is deferred: for any goals,
\* when no message of the topic is deferred and no command timeout is set.
THEOREM SuccessesAreEarned ==
    Concurrent = FALSE /\ CmdTimeout = FALSE /\ NoDeferredTopics => (Spec => SuccessIsEarned)
<1> SUFFICES ASSUME Concurrent = FALSE, CmdTimeout = FALSE, NoDeferredTopics
             PROVE  Spec => SuccessIsEarned
  OBVIOUS
<1>1. TypeInv /\ GoalsInv /\ MeasuredInv /\ [Next]_vars => MeasuredInv'
  BY NextMeasuredInv
<1>2. TypeInv /\ GoalsInv /\ MeasuredInv /\ EarnedInv /\ [Next]_vars => EarnedInv'
  BY NextEarnedInv
<1>3. TypeInv /\ GoalsInv /\ EarnedInv /\ [Next]_vars
        => \A g \in Goals :
               request[g] # "succeeded" /\ request'[g] = "succeeded"
                   => \/ current_msg \in {g} \cup Topics /\ stage # "moving"
                      \/ pending_traj_msg = g
  <2> SUFFICES ASSUME TypeInv, GoalsInv, EarnedInv, [Next]_vars, NEW g \in Goals,
                      request[g] # "succeeded", request'[g] = "succeeded"
               PROVE  \/ current_msg \in {g} \cup Topics /\ stage # "moving"
                      \/ pending_traj_msg = g
    OBVIOUS
  <2>1. UpdateConclude /\ rt.verdict # "hold" /\ rt.verdict # "abort" /\ rt.goal = g
    BY OnlyConcludeSucceeds
  <2>2. rt.pc = "conclude" /\ rt.verdict \in {"succeed", "none"} /\ rt_active_goal = g /\ g # None
    BY <2>1, GoalTypes DEF UpdateConclude, GoalsInv, Threads, LocalGoal, TypeInv, TypeOK, RtType
  <2>. QED
    BY <2>2 DEF EarnedInv, Followed, Follows, Judging, Taken
<1>4. Spec => [](TypeInv /\ GoalsInv)
  BY GoalsInvariant
<1>. QED
  BY <1>1, <1>2, <1>3, <1>4, InitMeasuredInv, InitEarnedInv, PTL DEF Spec, SuccessIsEarned
=============================================================================
