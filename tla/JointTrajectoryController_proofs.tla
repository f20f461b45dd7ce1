-------------------- MODULE JointTrajectoryController_proofs --------------------
(****************************************************************************)
(* Theorems about the joint trajectory controller, for every set of goals    *)
(* and topic messages and any number of deactivations: type correctness,     *)
(* however its threads interleave; and, when a handler runs to its end       *)
(* before another one starts, at most one goal is live, it is the active     *)
(* one, and the goals implement ActionGoals.  With two threads that is not   *)
(* true: see the README.                                                     *)
(****************************************************************************)
EXTENDS JointTrajectoryController, TLAPS

USE DEF External, Messages, Stages, Results

AcceptPcs == {"accept", "preempt", "add", "unhold", "publish", "tolerances"}

\* The type invariant with what keeps it inductive: the argument of an accept
\* callback is a goal, that of the topic callback a topic message, and a deactivation in progress is within its bound.
AcceptTyped == /\ ex.pc \in AcceptPcs => ex.arg \in Goals
               /\ ex.pc = "topic" => ex.arg \in Topics
DeactivateBounded == rt.pc = "deactivate" => deactivations < MaxDeactivations
TypeInv == TypeOK /\ AcceptTyped /\ DeactivateBounded

-----------------------------------------------------------------------------
\* Asking a handle for a result leaves a table of requests, and that handle
\* with a request.
LEMMA AskType ==
    ASSUME NEW req \in [Goals -> Results \cup {"none"}], NEW g, NEW r \in Results
    PROVE  /\ Ask(req, g, r) \in [Goals -> Results \cup {"none"}]
           /\ g \in Goals => Ask(req, g, r)[g] \in Results
           /\ \A h \in Goals : h # g => Ask(req, g, r)[h] = req[h]
BY DEF Ask

\* The idle threads have their types.
LEMMA IdleTypes == /\ RtIdle \in RtType /\ RtIdle.pc = "idle"
                   /\ ExIdle \in ExType /\ ExIdle.pc = "idle"
BY DEF RtType, ExType, RtIdle, ExIdle

LEMMA InitTypeInv == Init => TypeInv
<1> SUFFICES ASSUME Init PROVE TypeInv
  OBVIOUS
<1>1. rt \in RtType /\ ex \in ExType /\ AcceptTyped /\ DeactivateBounded
  BY IdleTypes DEF Init, AcceptTyped, AcceptPcs, DeactivateBounded
<1>2. /\ request \in [Goals -> Results \cup {"none"}]
      /\ status \in [Goals -> Results \cup {"unsent", "rejected", "executing"}]
  BY DEF Init
<1>3. deactivations \in 0..MaxDeactivations
  BY ConstantsAssumption DEF Init
<1>4. TypeOK
  BY <1>1, <1>2, <1>3 DEF Init, TypeOK
<1>. QED
  BY <1>1, <1>4 DEF TypeInv

-----------------------------------------------------------------------------
\* The steps of update().
LEMMA UpdateTypeInv == TypeInv /\ Update => TypeInv'
<1> SUFFICES ASSUME TypeInv, Update PROVE TypeInv'
  OBVIOUS
<1>1. CASE UpdateStart
  <2>1. rt' \in RtType
    BY <1>1, IdleTypes DEF TypeInv, TypeOK, UpdateStart, RtType
  <2>2. AcceptTyped' /\ DeactivateBounded'
    BY <1>1, IdleTypes DEF TypeInv, TypeOK, RtType, ExType, UpdateStart, AcceptTyped, AcceptPcs,
       DeactivateBounded, node
  <2>3. TypeOK'
    BY <1>1, <2>1, ConstantsAssumption
    DEF TypeInv, TypeOK, UpdateStart, node, trajectory, flags, handles
  <2>. QED
    BY <2>2, <2>3 DEF TypeInv
<1>2. CASE UpdateReadMsg
  <2>1. rt' \in RtType
    BY <1>2, IdleTypes DEF TypeInv, TypeOK, UpdateReadMsg, RtType
  <2>2. AcceptTyped' /\ DeactivateBounded'
    BY <1>2, IdleTypes DEF TypeInv, TypeOK, RtType, ExType, UpdateReadMsg, AcceptTyped, AcceptPcs,
       DeactivateBounded, node
  <2>3. TypeOK'
    BY <1>2, <2>1, ConstantsAssumption
    DEF TypeInv, TypeOK, UpdateReadMsg, node, trajectory, flags, handles
  <2>. QED
    BY <2>2, <2>3 DEF TypeInv
<1>3. CASE UpdateInstall
  <2>1. rt' \in RtType
    BY <1>3, IdleTypes DEF TypeInv, TypeOK, UpdateInstall, RtType
  <2>2. AcceptTyped' /\ DeactivateBounded'
    BY <1>3, IdleTypes DEF TypeInv, TypeOK, RtType, ExType, UpdateInstall, AcceptTyped, AcceptPcs,
       DeactivateBounded, node
  <2>3. /\ pending_traj_msg' \in External \cup {None}
        /\ current_msg' \in Messages \cup {None}
    BY <1>3, ConstantsAssumption
    DEF TypeInv, TypeOK, RtType, UpdateInstall, Pending, Starts, InFuture, is_internal_hold
  <2>4. /\ sampled_already' \in BOOLEAN /\ stage' \in Stages
        /\ rt_clear_pending' \in BOOLEAN /\ rt_active_goal_deferred' \in BOOLEAN
    BY <1>3 DEF TypeInv, TypeOK, UpdateInstall
  <2>5. TypeOK'
    BY <1>3, <2>1, <2>3, <2>4, ConstantsAssumption
    DEF TypeInv, TypeOK, UpdateInstall, node, trajectory, flags, handles
  <2>. QED
    BY <2>2, <2>5 DEF TypeInv
<1>4. CASE UpdateJudge
  <2>. PICK reached \in Stages, pathOk \in BOOLEAN, goalOk \in BOOLEAN, timedOut \in BOOLEAN :
           Judge(reached, pathOk, goalOk, timedOut)
    BY <1>4 DEF UpdateJudge
  <2>1. rt' \in RtType /\ rt'.pc # "deactivate"
    BY IdleTypes DEF TypeInv, TypeOK, Judge, RtType
  <2>2. AcceptTyped' /\ DeactivateBounded'
    BY <2>1 DEF TypeInv, Judge, AcceptTyped, DeactivateBounded
  <2>3. new_trajectory_msg' \in Messages \cup {None}
    BY DEF TypeInv, TypeOK, Judge, HaltMsg
  <2>4. rt_is_holding' \in BOOLEAN
    BY DEF TypeInv, TypeOK, Judge
  <2>5. TypeOK'
    BY <2>1, <2>3, <2>4 DEF TypeInv, TypeOK, Judge, node, handles
  <2>. QED
    BY <2>2, <2>5 DEF TypeInv
<1>5. CASE UpdateConclude
  <2>1. rt' \in RtType
    BY <1>5, IdleTypes DEF TypeInv, TypeOK, UpdateConclude, RtType
  <2>2. AcceptTyped' /\ DeactivateBounded'
    BY <1>5, IdleTypes DEF TypeInv, TypeOK, RtType, ExType, UpdateConclude, AcceptTyped, AcceptPcs,
       DeactivateBounded, node
  <2>3. request' \in [Goals -> Results \cup {"none"}]
    BY <1>5, AskType DEF TypeInv, TypeOK, UpdateConclude, ReleaseGoal
  <2>4. new_trajectory_msg' \in Messages \cup {None}
    BY <1>5 DEF UpdateConclude, HaltMsg
  <2>5. /\ rt_active_goal' \in Goals \cup {None}
        /\ rt_has_pending_goal' \in BOOLEAN /\ rt_is_holding' \in BOOLEAN
    BY <1>5 DEF TypeInv, TypeOK, UpdateConclude, ReleaseGoal
  <2>6. TypeOK'
    BY <1>5, <2>1, <2>3, <2>4, <2>5, ConstantsAssumption
    DEF TypeInv, TypeOK, UpdateConclude, node, trajectory, flags, handles
  <2>. QED
    BY <2>2, <2>6 DEF TypeInv
<1>. QED
  BY <1>1, <1>2, <1>3, <1>4, <1>5 DEF Update

\* The life-cycle transitions.
LEMMA LifecycleTypeInv == TypeInv /\ Lifecycle => TypeInv'
<1> SUFFICES ASSUME TypeInv, Lifecycle PROVE TypeInv'
  OBVIOUS
<1>1. CASE Activate
  <2>1. rt' \in RtType /\ rt'.pc # "deactivate" /\ UNCHANGED <<ex, deactivations>>
    BY <1>1, IdleTypes
    DEF TypeInv, TypeOK, Activate, on_activate, ActivateHold, ActivateMark, RtType, node
  <2>2. AcceptTyped' /\ DeactivateBounded'
    BY <2>1 DEF TypeInv, AcceptTyped, DeactivateBounded
  <2>3. TypeOK'
    BY <1>1, <2>1
    DEF TypeInv, TypeOK, Activate, on_activate, ActivateHold, ActivateMark, node, trajectory, handles
  <2>. QED
    BY <2>2, <2>3 DEF TypeInv
<1>2. CASE DeactivateAbort
  <2>1. rt' \in RtType
    BY <1>2, IdleTypes DEF TypeInv, TypeOK, DeactivateAbort, RtType
  <2>2. AcceptTyped' /\ DeactivateBounded'
    BY <1>2, IdleTypes DEF TypeInv, TypeOK, RtType, ExType, DeactivateAbort, AcceptTyped, AcceptPcs,
       DeactivateBounded, node
  <2>3. request' \in [Goals -> Results \cup {"none"}]
    BY <1>2, AskType DEF TypeInv, TypeOK, DeactivateAbort
  <2>4. rt_has_pending_goal' \in BOOLEAN
    BY <1>2 DEF TypeInv, TypeOK, DeactivateAbort
  <2>5. TypeOK'
    BY <1>2, <2>1, <2>3, <2>4, ConstantsAssumption
    DEF TypeInv, TypeOK, DeactivateAbort, node, trajectory, flags, handles
  <2>. QED
    BY <2>2, <2>5 DEF TypeInv
<1>3. ASSUME NEW w \in BOOLEAN, DeactivateRelease(w) PROVE TypeInv'
  <2>1. /\ rt_active_goal' \in Goals \cup {None}
        /\ deactivations' \in 0..MaxDeactivations
    BY <1>3, ConstantsAssumption
    DEF TypeInv, TypeOK, DeactivateBounded, DeactivateRelease
  <2>2. /\ current_msg' \in Messages \cup {None} /\ sampled_already' \in BOOLEAN
        /\ stage' \in Stages /\ subscriber_is_active' \in BOOLEAN
    BY <1>3 DEF TypeInv, TypeOK, DeactivateRelease, trajectory
  <2>3. AcceptTyped' /\ DeactivateBounded' /\ rt' \in RtType
    BY <1>3, IdleTypes DEF TypeInv, DeactivateRelease, AcceptTyped, DeactivateBounded
  <2>4. TypeOK'
    BY <1>3, <2>1, <2>2, <2>3 DEF TypeInv, TypeOK, DeactivateRelease, flags, handles
  <2>. QED
    BY <2>3, <2>4 DEF TypeInv
<1>. QED
  BY <1>1, <1>2, <1>3 DEF Lifecycle

\* The steps of goal_accepted_callback.
LEMMA AcceptTypeInv == TypeInv /\ Accept => TypeInv'
<1> SUFFICES ASSUME TypeInv, Accept PROVE TypeInv'
  OBVIOUS
<1>1. CASE AcceptPending
  <2>1. ex' \in ExType
    BY <1>1, IdleTypes DEF TypeInv, TypeOK, AcceptPending, ExType
  <2>2. AcceptTyped' /\ DeactivateBounded'
    BY <1>1, IdleTypes DEF TypeInv, TypeOK, RtType, ExType, AcceptPending, AcceptTyped, AcceptPcs,
       DeactivateBounded, node
  <2>3. TypeOK'
    BY <1>1, <2>1, ConstantsAssumption
    DEF TypeInv, TypeOK, AcceptPending, node, trajectory, flags, handles
  <2>. QED
    BY <2>2, <2>3 DEF TypeInv
<1>2. CASE preempt_active_goal
  <2>1. ex' \in ExType
    BY <1>2, IdleTypes DEF TypeInv, TypeOK, preempt_active_goal, ExType
  <2>2. AcceptTyped' /\ DeactivateBounded'
    BY <1>2, IdleTypes DEF TypeInv, TypeOK, RtType, ExType, preempt_active_goal, AcceptTyped, AcceptPcs,
       DeactivateBounded, node
  <2>3. /\ rt_active_goal # None => rt_active_goal \in Goals
        /\ request \in [Goals -> Results \cup {"none"}]
        /\ status \in [Goals -> Results \cup {"unsent", "rejected", "executing"}]
    BY <1>2 DEF TypeInv, TypeOK
  <2>4. request' \in [Goals -> Results \cup {"none"}]
    BY <1>2, <2>3, AskType DEF preempt_active_goal
  <2>5. status' \in [Goals -> Results \cup {"unsent", "rejected", "executing"}]
    <3>1. CASE rt_active_goal = None
      BY <1>2, <2>3, <3>1 DEF preempt_active_goal
    <3>2. CASE rt_active_goal # None
      <4>1. request' = Ask(request, rt_active_goal, "aborted")
        BY <1>2, <3>2 DEF preempt_active_goal
      <4>2. request'[rt_active_goal] \in Results
        BY <2>3, <3>2, <4>1, AskType
      <4>. QED
        BY <1>2, <2>3, <3>2, <4>2 DEF preempt_active_goal
    <3>. QED
      BY <3>1, <3>2
  <2>6. rt_active_goal' \in Goals \cup {None}
    BY <1>2 DEF TypeInv, TypeOK, preempt_active_goal
  <2>7. TypeOK'
    BY <1>2, <2>1, <2>3, <2>4, <2>5, <2>6, ConstantsAssumption
    DEF TypeInv, TypeOK, preempt_active_goal, node, trajectory, flags, handles
  <2>. QED
    BY <2>2, <2>7 DEF TypeInv
<1>3. CASE AcceptAdd
  <2>1. ex' \in ExType
    BY <1>3, IdleTypes DEF TypeInv, TypeOK, AcceptAdd, ExType
  <2>2. AcceptTyped' /\ DeactivateBounded'
    BY <1>3, IdleTypes DEF TypeInv, TypeOK, RtType, ExType, AcceptAdd, AcceptTyped, AcceptPcs,
       DeactivateBounded, node
  <2>3. new_trajectory_msg' \in Messages \cup {None}
    BY <1>3 DEF TypeInv, AcceptTyped, AcceptPcs, AcceptAdd
  <2>4. TypeOK'
    BY <1>3, <2>1, <2>3, ConstantsAssumption
    DEF TypeInv, TypeOK, AcceptAdd, node, trajectory, flags, handles
  <2>. QED
    BY <2>2, <2>4 DEF TypeInv
<1>4. CASE AcceptUnhold
  <2>1. ex' \in ExType
    BY <1>4, IdleTypes DEF TypeInv, TypeOK, AcceptUnhold, ExType
  <2>2. AcceptTyped' /\ DeactivateBounded'
    BY <1>4, IdleTypes DEF TypeInv, TypeOK, RtType, ExType, AcceptUnhold, AcceptTyped, AcceptPcs,
       DeactivateBounded, node
  <2>3. /\ rt_active_goal_deferred' \in BOOLEAN /\ rt_is_holding' \in BOOLEAN
        /\ overtaken' \subseteq External
    BY <1>4 DEF TypeInv, TypeOK, AcceptTyped, AcceptPcs, AcceptUnhold, InFuture, Overtakes
  <2>4. TypeOK'
    BY <1>4, <2>1, <2>3, ConstantsAssumption
    DEF TypeInv, TypeOK, AcceptUnhold, node, trajectory, flags, handles
  <2>. QED
    BY <2>2, <2>4 DEF TypeInv
<1>5. CASE AcceptPublish
  <2>1. ex' \in ExType
    BY <1>5, IdleTypes DEF TypeInv, TypeOK, AcceptPublish, ExType
  <2>2. AcceptTyped' /\ DeactivateBounded'
    BY <1>5, IdleTypes DEF TypeInv, TypeOK, RtType, ExType, AcceptPublish, AcceptTyped, AcceptPcs,
       DeactivateBounded, node
  <2>3. rt_active_goal' \in Goals \cup {None}
    BY <1>5 DEF TypeInv, AcceptTyped, AcceptPcs, AcceptPublish
  <2>4. status' \in [Goals -> Results \cup {"unsent", "rejected", "executing"}]
    BY <1>5 DEF TypeInv, TypeOK, AcceptPublish
  <2>5. TypeOK'
    BY <1>5, <2>1, <2>3, <2>4, ConstantsAssumption
    DEF TypeInv, TypeOK, AcceptPublish, node, trajectory, flags, handles
  <2>. QED
    BY <2>2, <2>5 DEF TypeInv
<1>6. CASE AcceptTolerances
  <2>1. ex' \in ExType
    BY <1>6, IdleTypes DEF TypeInv, TypeOK, AcceptTolerances, ExType
  <2>2. AcceptTyped' /\ DeactivateBounded'
    BY <1>6, IdleTypes DEF TypeInv, TypeOK, RtType, ExType, AcceptTolerances, AcceptTyped, AcceptPcs,
       DeactivateBounded, node
  <2>3. active_tolerances' \in Goals \cup {Default} /\ goal_handle_timer' \in Goals \cup {None}
    BY <1>6 DEF TypeInv, AcceptTyped, AcceptPcs, AcceptTolerances
  <2>4. TypeOK'
    BY <1>6, <2>1, <2>3, ConstantsAssumption
    DEF TypeInv, TypeOK, AcceptTolerances, node, trajectory, flags, handles
  <2>. QED
    BY <2>2, <2>4 DEF TypeInv
<1>. QED
  BY <1>1, <1>2, <1>3, <1>4, <1>5, <1>6 DEF Accept

\* The other callbacks.
LEMMA CallbackTypeInv == TypeInv /\ Callback => TypeInv'
<1> SUFFICES ASSUME TypeInv, Callback PROVE TypeInv'
  OBVIOUS
<1>1. ASSUME NEW t \in Topics, topic_callback(t) PROVE TypeInv'
  <2>1. ex' \in ExType
    BY <1>1, IdleTypes DEF TypeInv, TypeOK, topic_callback, ExType
  <2>2. AcceptTyped' /\ DeactivateBounded'
    BY <1>1, IdleTypes DEF TypeInv, TypeOK, RtType, ExType, topic_callback, AcceptTyped, AcceptPcs,
       DeactivateBounded, node
  <2>3. new_trajectory_msg' \in Messages \cup {None}
    BY <1>1 DEF TypeInv, TypeOK, topic_callback
  <2>4. TypeOK'
    BY <1>1, <2>1, <2>3, ConstantsAssumption
    DEF TypeInv, TypeOK, topic_callback, node, trajectory, flags, handles
  <2>. QED
    BY <2>2, <2>4 DEF TypeInv
<1>2. CASE TopicUnhold
  <2>1. ex' \in ExType
    BY <1>2, IdleTypes DEF TypeInv, TypeOK, TopicUnhold, ExType
  <2>2. AcceptTyped' /\ DeactivateBounded'
    BY <1>2, IdleTypes DEF TypeInv, TypeOK, RtType, ExType, TopicUnhold, AcceptTyped, AcceptPcs,
       DeactivateBounded, node
  <2>3. rt_is_holding' \in BOOLEAN /\ overtaken' \subseteq External
    BY <1>2 DEF TypeInv, TypeOK, AcceptTyped, TopicUnhold, Overtakes
  <2>4. TypeOK'
    BY <1>2, <2>1, <2>3, ConstantsAssumption
    DEF TypeInv, TypeOK, TopicUnhold, node, trajectory, flags, handles
  <2>. QED
    BY <2>2, <2>4 DEF TypeInv
<1>3. ASSUME NEW g \in Goals, goal_received_callback(g) PROVE TypeInv'
  <2>1. ex' \in ExType
    BY <1>3, IdleTypes DEF TypeInv, TypeOK, goal_received_callback, ExType
  <2>2. AcceptTyped' /\ DeactivateBounded'
    BY <1>3, IdleTypes DEF TypeInv, TypeOK, RtType, ExType, goal_received_callback, AcceptTyped, AcceptPcs,
       DeactivateBounded, node
  <2>3. status' \in [Goals -> Results \cup {"unsent", "rejected", "executing"}]
    BY <1>3 DEF TypeInv, TypeOK, goal_received_callback
  <2>4. TypeOK'
    BY <1>3, <2>1, <2>3, ConstantsAssumption
    DEF TypeInv, TypeOK, goal_received_callback, node, trajectory, flags, handles
  <2>. QED
    BY <2>2, <2>4 DEF TypeInv
<1>4. ASSUME NEW g \in Goals, goal_cancelled_callback(g) PROVE TypeInv'
  <2>1. ex' \in ExType
    BY <1>4, IdleTypes DEF TypeInv, TypeOK, goal_cancelled_callback, ExType
  <2>2. AcceptTyped' /\ DeactivateBounded'
    BY <1>4, IdleTypes DEF TypeInv, TypeOK, RtType, ExType, goal_cancelled_callback, AcceptTyped, AcceptPcs,
       DeactivateBounded, node
  <2>3. request' \in [Goals -> Results \cup {"none"}]
    BY <1>4, AskType DEF TypeInv, TypeOK, goal_cancelled_callback
  <2>4. rt_has_pending_goal' \in BOOLEAN /\ rt_active_goal' \in Goals \cup {None}
    BY <1>4 DEF goal_cancelled_callback
  <2>5. TypeOK'
    BY <1>4, <2>1, <2>3, <2>4, ConstantsAssumption
    DEF TypeInv, TypeOK, goal_cancelled_callback, node, trajectory, flags, handles
  <2>. QED
    BY <2>2, <2>5 DEF TypeInv
<1>5. CASE CancelHold
  <2>1. ex' \in ExType
    BY <1>5, IdleTypes DEF TypeInv, TypeOK, CancelHold, ExType
  <2>2. AcceptTyped' /\ DeactivateBounded'
    BY <1>5, IdleTypes DEF TypeInv, TypeOK, RtType, ExType, CancelHold, AcceptTyped, AcceptPcs,
       DeactivateBounded, node
  <2>3. new_trajectory_msg' \in Messages \cup {None}
    BY <1>5 DEF CancelHold, HaltMsg
  <2>4. TypeOK'
    BY <1>5, <2>1, <2>3, ConstantsAssumption
    DEF TypeInv, TypeOK, CancelHold, node, trajectory, flags, handles
  <2>. QED
    BY <2>2, <2>4 DEF TypeInv
<1>6. CASE CancelClear
  <2>1. ex' \in ExType
    BY <1>6, IdleTypes DEF TypeInv, TypeOK, CancelClear, ExType
  <2>2. AcceptTyped' /\ DeactivateBounded'
    BY <1>6, IdleTypes DEF TypeInv, TypeOK, RtType, ExType, CancelClear, AcceptTyped, AcceptPcs,
       DeactivateBounded, node
  <2>3. TypeOK'
    BY <1>6, <2>1, ConstantsAssumption
    DEF TypeInv, TypeOK, CancelClear, node, trajectory, flags, handles
  <2>. QED
    BY <2>2, <2>3 DEF TypeInv
<1>7. CASE runNonRealtime
  <2>1. AcceptTyped' /\ DeactivateBounded'
    BY <1>7, IdleTypes DEF TypeInv, TypeOK, RtType, ExType, runNonRealtime, AcceptTyped, AcceptPcs,
       DeactivateBounded, node
  <2>2. status' \in [Goals -> Results \cup {"unsent", "rejected", "executing"}]
    BY <1>7 DEF TypeInv, TypeOK, runNonRealtime, Undelivered
  <2>3. TypeOK'
    BY <1>7, <2>2, ConstantsAssumption
    DEF TypeInv, TypeOK, runNonRealtime, node, trajectory, flags, handles
  <2>. QED
    BY <2>1, <2>3 DEF TypeInv
<1>. QED
  BY <1>1, <1>2, <1>3, <1>4, <1>5, <1>6, <1>7, AcceptTypeInv DEF Callback

\* Every step.
LEMMA NextTypeInv == TypeInv /\ [Next]_vars => TypeInv'
<1> SUFFICES ASSUME TypeInv, [Next]_vars PROVE TypeInv'
  OBVIOUS
<1>1. ASSUME NEW m \in Stamped, Tick(m) PROVE TypeInv'
  <2>1. AcceptTyped' /\ DeactivateBounded' /\ due' \subseteq Stamped
    BY <1>1 DEF TypeInv, TypeOK, Tick, AcceptTyped, DeactivateBounded, node
  <2>. QED
    BY <1>1, <2>1 DEF TypeInv, TypeOK, Tick, node, trajectory, flags, handles
<1>2. CASE UNCHANGED vars
  <2>1. AcceptTyped' /\ DeactivateBounded'
    BY <1>2 DEF TypeInv, vars, AcceptTyped, DeactivateBounded, node
  <2>. QED
    BY <1>2, <2>1 DEF TypeInv, TypeOK, vars, node, trajectory, flags, handles
<1>. QED
  BY <1>1, <1>2, UpdateTypeInv, LifecycleTypeInv, CallbackTypeInv DEF Next

\* Type correctness: every member stays within its type, for any interleaving of
\* the two threads.
THEOREM TypeCorrect == Spec => []TypeOK
<1>1. TypeInv => TypeOK
  BY DEF TypeInv
<1>. QED
  BY <1>1, InitTypeInv, NextTypeInv, PTL DEF Spec

-----------------------------------------------------------------------------
(* Goals, when no handler starts while another one runs.                     *)

HIDE DEF Messages, Stages

\* No handler starts while another one runs.
OneHandler == rt.pc = "idle" \/ ex.pc = "idle"

\* The goal update() and on_deactivate read is the active one until they end.
LocalGoal == rt.pc \notin {"idle", "activate", "mark"} => rt.goal = rt_active_goal

\* update() only aborts or succeeds a goal it has read.
Concluding == rt.pc = "conclude" /\ rt.verdict # "hold" => rt.goal # None

\* on_deactivate clears the active goal after it has asked for its result.
Released == rt.pc = "deactivate" /\ rt.goal # None => request[rt.goal] # "none"

\* From preempt_active_goal to its publication no goal but the new one is live.
Preempted == ex.pc \in {"add", "unhold", "publish"} => rt_active_goal = None

\* The goal being accepted has arrived and does not execute yet.
Arriving == ex.pc \in {"accept", "preempt", "add", "unhold", "publish"}
                => ex.arg \in sent /\ status[ex.arg] = "unsent"

\* A handle is asked for a result only after its goal began to execute.
Unasked == \A g \in Goals :
    /\ g \notin sent => status[g] = "unsent"
    /\ status[g] \in {"unsent", "rejected"} => request[g] = "none"

\* The active goal executes until it is asked for a result.
ActiveExecutes == rt_active_goal # None /\ request[rt_active_goal] = "none"
                      => status[rt_active_goal] = "executing"

Threads == OneHandler /\ LocalGoal /\ Concluding /\ Preempted
GoalsInv == Threads /\ Released /\ Arriving /\ Unasked /\ ActiveExecutes /\ LiveGoalIsActive

LEMMA InitGoalsInv == Init => GoalsInv
BY DEF Init, GoalsInv, Threads, OneHandler, LocalGoal, Concluding, Preempted, Released,
       Arriving, Unasked, ActiveExecutes, LiveGoalIsActive, Live, RtIdle, ExIdle

\* What the typed state says of its goals and locals.
LEMMA GoalTypes ==
    TypeInv => /\ rt_active_goal # None => rt_active_goal \in Goals
               /\ request \in [Goals -> Results \cup {"none"}]
               /\ status \in [Goals -> Results \cup {"unsent", "rejected", "executing"}]
               /\ None \notin Goals
               /\ rt = [pc |-> rt.pc, goal |-> rt.goal, msg |-> rt.msg, due |-> rt.due,
                        verdict |-> rt.verdict]
               /\ ex = [pc |-> ex.pc, arg |-> ex.arg]
BY ConstantsAssumption DEF TypeInv, TypeOK, RtType, ExType, Messages

-----------------------------------------------------------------------------
\* A step that leaves the goals alone keeps what the invariant says of them.
LEMMA GoalsKept ==
    ASSUME GoalsInv, Threads', Released', Arriving',
           UNCHANGED <<sent, request, status, rt_active_goal>>
    PROVE  GoalsInv'
BY DEF GoalsInv, Unasked, ActiveExecutes, LiveGoalIsActive, Live

\* A step that asks the active goal's handle for a result and clears the goal.
LEMMA GoalReleased ==
    ASSUME TypeInv, GoalsInv, NEW r \in Results,
           rt_active_goal # None, request' = Ask(request, rt_active_goal, r)
    PROVE  /\ \A g \in Goals : ~(status[g] = "executing" /\ request'[g] = "none")
           /\ \A g \in Goals : status[g] \in {"unsent", "rejected"} => request'[g] = "none"
           /\ request'[rt_active_goal] # "none"
<1>1. rt_active_goal \in Goals /\ request \in [Goals -> Results \cup {"none"}]
  BY GoalTypes
<1>2. /\ request'[rt_active_goal] \in Results
      /\ \A h \in Goals : h # rt_active_goal => request'[h] = request[h]
  BY <1>1, AskType
<1>3. status[rt_active_goal] \notin {"unsent", "rejected"}
  BY <1>1 DEF GoalsInv, ActiveExecutes, Unasked
<1>. QED
  BY <1>1, <1>2, <1>3 DEF GoalsInv, Unasked, LiveGoalIsActive, Live

\* The steps of update().
LEMMA UpdateGoalsInv ==
    ASSUME Concurrent = FALSE, TypeInv, GoalsInv, Update
    PROVE  GoalsInv'
<1>1. CASE UpdateStart
  <2>1. Threads' /\ Released' /\ Arriving'
    BY <1>1, GoalTypes DEF UpdateStart, RtRuns, ExRuns, GoalsInv,
       Threads, OneHandler, LocalGoal, Concluding, Preempted,
       Released, Arriving, RtIdle, ExIdle, handles
  <2>2. UNCHANGED <<sent, request, status, rt_active_goal>>
    BY <1>1 DEF UpdateStart, handles
  <2>. QED
    BY <2>1, <2>2, GoalsKept
<1>2. CASE UpdateReadMsg
  <2>1. Threads' /\ Released' /\ Arriving'
    BY <1>2, GoalTypes DEF UpdateReadMsg, RtRuns, ExRuns, GoalsInv,
       Threads, OneHandler, LocalGoal, Concluding, Preempted,
       Released, Arriving, RtIdle, ExIdle, handles
  <2>2. UNCHANGED <<sent, request, status, rt_active_goal>>
    BY <1>2 DEF UpdateReadMsg, handles
  <2>. QED
    BY <2>1, <2>2, GoalsKept
<1>3. CASE UpdateInstall
  <2>1. Threads' /\ Released' /\ Arriving'
    BY <1>3, GoalTypes DEF UpdateInstall, RtRuns, ExRuns, GoalsInv,
       Threads, OneHandler, LocalGoal, Concluding, Preempted,
       Released, Arriving, RtIdle, ExIdle, handles
  <2>2. UNCHANGED <<sent, request, status, rt_active_goal>>
    BY <1>3 DEF UpdateInstall, handles
  <2>. QED
    BY <2>1, <2>2, GoalsKept
<1>4. CASE UpdateJudge
  <2>. PICK reached \in Stages, pathOk \in BOOLEAN, goalOk \in BOOLEAN, timedOut \in BOOLEAN :
           Judge(reached, pathOk, goalOk, timedOut)
    BY <1>4 DEF UpdateJudge
  <2>1. rt.pc = "judge" /\ ex' = ex /\ UNCHANGED <<sent, request, status, rt_active_goal>>
    BY DEF Judge, handles
  <2>2. \/ rt' = RtIdle
        \/ /\ rt'.pc = "conclude" /\ rt'.goal = rt.goal
           /\ rt'.verdict = "hold" \/ rt.goal # None
    BY GoalTypes DEF Judge, Reports
  <2>3. Threads' /\ Released' /\ Arriving'
    BY <2>1, <2>2 DEF GoalsInv, Threads, OneHandler, LocalGoal, Concluding, Preempted, Released, Arriving, RtIdle
  <2>. QED
    BY <2>1, <2>3, GoalsKept
<1>5. CASE UpdateConclude
  <2>1. Threads' /\ Released' /\ Arriving'
    BY <1>5 DEF UpdateConclude, RtRuns, GoalsInv, Threads, OneHandler, LocalGoal, Concluding, Preempted, Released, Arriving, RtIdle
  <2>2. CASE rt.verdict = "hold"
    BY <1>5, <2>1, <2>2, GoalsKept DEF UpdateConclude
  <2>3. CASE rt.verdict # "hold"
    <3>1. rt_active_goal # None /\ rt.goal = rt_active_goal
      BY <1>5, <2>3 DEF UpdateConclude, GoalsInv, Threads, OneHandler, LocalGoal, Concluding, Preempted
    <3>2. PICK r \in Results : request' = Ask(request, rt_active_goal, r)
      BY <1>5, <2>3, <3>1 DEF UpdateConclude, ReleaseGoal
    <3>3. rt_active_goal' = None /\ status' = status /\ sent' = sent
      BY <1>5, <2>3 DEF UpdateConclude, ReleaseGoal
    <3>. QED
      BY <2>1, <3>1, <3>2, <3>3, GoalReleased
      DEF GoalsInv, Unasked, ActiveExecutes, LiveGoalIsActive, Live
  <2>. QED
    BY <2>2, <2>3
<1>. QED
  BY <1>1, <1>2, <1>3, <1>4, <1>5 DEF Update

\* The life-cycle transitions.
LEMMA LifecycleGoalsInv ==
    ASSUME Concurrent = FALSE, TypeInv, GoalsInv, Lifecycle
    PROVE  GoalsInv'
<1>1. CASE Activate
  <2>1. Threads' /\ Released' /\ Arriving'
    BY <1>1, GoalTypes DEF Activate, on_activate, ActivateHold, ActivateMark, RtRuns, ExRuns,
       GoalsInv, Threads, OneHandler, LocalGoal, Concluding, Preempted,
       Released, Arriving, RtIdle, ExIdle, handles
  <2>2. UNCHANGED <<sent, request, status, rt_active_goal>>
    BY <1>1 DEF Activate, on_activate, ActivateHold, ActivateMark, handles
  <2>. QED
    BY <2>1, <2>2, GoalsKept
<1>2. CASE DeactivateAbort
  <2>1. Threads' /\ Arriving'
    BY <1>2, GoalTypes DEF DeactivateAbort, RtRuns, GoalsInv, Threads, OneHandler, LocalGoal, Concluding, Preempted, Arriving
  <2>2. rt'.goal = rt_active_goal /\ UNCHANGED <<sent, status, rt_active_goal>>
    BY <1>2, GoalTypes DEF DeactivateAbort
  <2>3. CASE rt_active_goal = None
    <3>1. Released' /\ request' = request
      BY <1>2, <2>2, <2>3 DEF DeactivateAbort, Released
    <3>. QED
      BY <2>1, <2>2, <3>1, GoalsKept
  <2>4. CASE rt_active_goal # None
    <3>1. request' = Ask(request, rt_active_goal, "aborted")
      BY <1>2, <2>4 DEF DeactivateAbort
    <3>. QED
      BY <2>1, <2>2, <2>4, <3>1, GoalReleased
      DEF GoalsInv, Released, Unasked, ActiveExecutes, LiveGoalIsActive, Live
  <2>. QED
    BY <2>3, <2>4
<1>3. ASSUME NEW w \in BOOLEAN, DeactivateRelease(w) PROVE GoalsInv'
  <2>1. Threads' /\ Released' /\ Arriving'
    BY <1>3 DEF DeactivateRelease, RtRuns, GoalsInv, Threads, OneHandler, LocalGoal, Concluding, Preempted, Released, Arriving, RtIdle, handles
  <2>2. /\ UNCHANGED <<sent, status, request>>
        /\ rt_active_goal' = None
        /\ rt_active_goal # None => request[rt_active_goal] # "none"
    BY <1>3 DEF DeactivateRelease, GoalsInv, Threads, LocalGoal, Released, handles
  <2>. QED
    BY <2>1, <2>2, GoalTypes
    DEF GoalsInv, Unasked, ActiveExecutes, LiveGoalIsActive, Live
<1>. QED
  BY <1>1, <1>2, <1>3 DEF Lifecycle

\* The steps of goal_accepted_callback.
LEMMA AcceptGoalsInv ==
    ASSUME Concurrent = FALSE, TypeInv, GoalsInv, Accept
    PROVE  GoalsInv'
<1>1. CASE AcceptPending
  <2>1. Threads' /\ Released' /\ Arriving'
    BY <1>1, GoalTypes DEF AcceptPending, RtRuns, ExRuns, GoalsInv,
       Threads, OneHandler, LocalGoal, Concluding, Preempted,
       Released, Arriving, RtIdle, ExIdle, handles
  <2>2. UNCHANGED <<sent, request, status, rt_active_goal>>
    BY <1>1 DEF AcceptPending, handles
  <2>. QED
    BY <2>1, <2>2, GoalsKept
<1>2. CASE preempt_active_goal
  <2>1. /\ ex.pc = "preempt" /\ ex'.pc = "add" /\ ex'.arg = ex.arg /\ rt' = rt
        /\ rt_active_goal' = None /\ sent' = sent
    BY <1>2, GoalTypes DEF preempt_active_goal
  <2>2. Threads' /\ Released'
    BY <1>2, <2>1 DEF preempt_active_goal, ExRuns, GoalsInv, Threads, OneHandler, LocalGoal, Concluding, Preempted, Released
  <2>3. CASE rt_active_goal = None
    <3>1. UNCHANGED <<request, status, rt_active_goal>>
      BY <1>2, <2>3 DEF preempt_active_goal
    <3>2. Arriving'
      BY <2>1, <3>1 DEF GoalsInv, Arriving
    <3>. QED
      BY <2>1, <2>2, <3>1, <3>2, GoalsKept
  <2>4. CASE rt_active_goal # None
    <3>1. /\ request' = Ask(request, rt_active_goal, "aborted")
          /\ status' = [status EXCEPT ![rt_active_goal] = request'[rt_active_goal]]
      BY <1>2, <2>4 DEF preempt_active_goal
    <3>2. request'[rt_active_goal] \in Results
      BY <2>4, <3>1, GoalTypes, AskType
    <3>3. rt_active_goal # ex.arg
      BY <2>1, <2>4, GoalTypes DEF GoalsInv, Arriving, Unasked, ActiveExecutes
    <3>4. Arriving'
      BY <2>1, <3>1, <3>3, GoalTypes DEF GoalsInv, Arriving
    <3>5. \A g \in Goals : g # rt_active_goal => status'[g] = status[g]
      BY <3>1, GoalTypes
    <3>6. status'[rt_active_goal] \in Results
      BY <2>4, <3>1, <3>2, GoalTypes
    <3>7. rt_active_goal \in sent
      BY <2>4, GoalTypes DEF GoalsInv, Unasked, ActiveExecutes
    <3>8. Unasked' /\ LiveGoalIsActive'
      BY <2>1, <2>4, <3>1, <3>5, <3>6, <3>7, GoalReleased
      DEF GoalsInv, Unasked, LiveGoalIsActive, Live
    <3>. QED
      BY <2>1, <2>2, <3>4, <3>8 DEF GoalsInv, ActiveExecutes
  <2>. QED
    BY <2>3, <2>4
<1>3. CASE AcceptAdd
  <2>1. Threads' /\ Released' /\ Arriving'
    BY <1>3, GoalTypes DEF AcceptAdd, RtRuns, ExRuns, GoalsInv,
       Threads, OneHandler, LocalGoal, Concluding, Preempted,
       Released, Arriving, RtIdle, ExIdle, handles
  <2>2. UNCHANGED <<sent, request, status, rt_active_goal>>
    BY <1>3 DEF AcceptAdd, handles
  <2>. QED
    BY <2>1, <2>2, GoalsKept
<1>4. CASE AcceptUnhold
  <2>1. Threads' /\ Released' /\ Arriving'
    BY <1>4, GoalTypes DEF AcceptUnhold, RtRuns, ExRuns, GoalsInv,
       Threads, OneHandler, LocalGoal, Concluding, Preempted,
       Released, Arriving, RtIdle, ExIdle, handles
  <2>2. UNCHANGED <<sent, request, status, rt_active_goal>>
    BY <1>4 DEF AcceptUnhold, handles
  <2>. QED
    BY <2>1, <2>2, GoalsKept
<1>5. CASE AcceptPublish
  <2>1. /\ ex.pc = "publish" /\ ex.arg \in Goals /\ ex'.pc = "tolerances" /\ rt' = rt
        /\ UNCHANGED <<sent, request>>
        /\ status' = [status EXCEPT ![ex.arg] = "executing"]
        /\ rt_active_goal = None /\ rt_active_goal' = ex.arg
    BY <1>5, GoalTypes DEF AcceptPublish, TypeInv, AcceptTyped, AcceptPcs, GoalsInv, Threads,
       Preempted
  <2>2. Threads' /\ Released' /\ Arriving'
    BY <1>5, <2>1 DEF AcceptPublish, ExRuns, GoalsInv, Threads, OneHandler, LocalGoal, Concluding, Preempted, Released, Arriving
  <2>3. /\ status'[ex.arg] = "executing"
        /\ \A g \in Goals : g # ex.arg => status'[g] = status[g]
    BY <2>1, GoalTypes
  <2>4. ex.arg \in sent
    BY <2>1 DEF GoalsInv, Arriving
  <2>5. Unasked' /\ ActiveExecutes' /\ LiveGoalIsActive'
    BY <2>1, <2>3, <2>4, GoalTypes
    DEF GoalsInv, Unasked, ActiveExecutes, LiveGoalIsActive, Live
  <2>. QED
    BY <2>2, <2>5 DEF GoalsInv
<1>6. CASE AcceptTolerances
  <2>1. Threads' /\ Released' /\ Arriving'
    BY <1>6, GoalTypes DEF AcceptTolerances, RtRuns, ExRuns, GoalsInv,
       Threads, OneHandler, LocalGoal, Concluding, Preempted,
       Released, Arriving, RtIdle, ExIdle, handles
  <2>2. UNCHANGED <<sent, request, status, rt_active_goal>>
    BY <1>6 DEF AcceptTolerances, handles
  <2>. QED
    BY <2>1, <2>2, GoalsKept
<1>. QED
  BY <1>1, <1>2, <1>3, <1>4, <1>5, <1>6 DEF Accept

\* The other callbacks.
LEMMA CallbackGoalsInv ==
    ASSUME Concurrent = FALSE, TypeInv, GoalsInv, Callback
    PROVE  GoalsInv'
<1>1. ASSUME NEW t \in Topics, topic_callback(t) PROVE GoalsInv'
  <2>1. Threads' /\ Released' /\ Arriving'
    BY <1>1, GoalTypes DEF topic_callback, ExRuns, GoalsInv, Threads, OneHandler, LocalGoal, Concluding, Preempted, Released, Arriving,
       handles
  <2>2. sent \subseteq sent' /\ UNCHANGED <<request, status, rt_active_goal>>
    BY <1>1 DEF topic_callback, handles
  <2>. QED
    BY <2>1, <2>2 DEF GoalsInv, Unasked, ActiveExecutes, LiveGoalIsActive, Live
<1>2. CASE TopicUnhold
  <2>1. Threads' /\ Released' /\ Arriving'
    BY <1>2, GoalTypes DEF TopicUnhold, RtRuns, ExRuns, GoalsInv,
       Threads, OneHandler, LocalGoal, Concluding, Preempted,
       Released, Arriving, RtIdle, ExIdle, handles
  <2>2. UNCHANGED <<sent, request, status, rt_active_goal>>
    BY <1>2 DEF TopicUnhold, handles
  <2>. QED
    BY <2>1, <2>2, GoalsKept
<1>3. ASSUME NEW g \in Goals, goal_received_callback(g) PROVE GoalsInv'
  <2>1. /\ ex.pc = "idle" /\ g \notin sent /\ sent' = sent \cup {g}
        /\ UNCHANGED <<rt, request, rt_active_goal>>
    BY <1>3 DEF goal_received_callback
  <2>2. /\ status[g] = "unsent"
        /\ \/ status' = [status EXCEPT ![g] = "rejected"] /\ ex' = ex
           \/ status' = status /\ ex'.pc = "accept" /\ ex'.arg = g
    BY <1>3, <2>1 DEF goal_received_callback, GoalsInv, Unasked
  <2>3. Threads' /\ Released'
    BY <1>3, <2>1, <2>2 DEF goal_received_callback, ExRuns, GoalsInv, Threads, OneHandler, LocalGoal, Concluding, Preempted, Released
  <2>4. Arriving'
    BY <2>1, <2>2 DEF Arriving
  <2>5. /\ status'[g] \in {"unsent", "rejected"}
        /\ \A h \in Goals : h # g => status'[h] = status[h]
    BY <2>2, GoalTypes
  <2>6. Unasked'
    BY <2>1, <2>2, <2>5 DEF GoalsInv, Unasked
  <2>7. ActiveExecutes' /\ LiveGoalIsActive'
    BY <2>1, <2>2, <2>5, GoalTypes
    DEF GoalsInv, ActiveExecutes, LiveGoalIsActive, Live
  <2>. QED
    BY <2>3, <2>4, <2>6, <2>7 DEF GoalsInv
<1>4. ASSUME NEW g \in Goals, goal_cancelled_callback(g) PROVE GoalsInv'
  <2>1. /\ ex.pc = "idle" /\ ex'.pc = "cancel" /\ rt_active_goal = g /\ rt_active_goal' = None
        /\ UNCHANGED <<rt, sent, status>>
        /\ request' = Ask(request, rt_active_goal, "canceled")
    BY <1>4 DEF goal_cancelled_callback
  <2>2. Threads' /\ Released' /\ Arriving'
    BY <1>4, <2>1 DEF goal_cancelled_callback, ExRuns, GoalsInv, Threads, OneHandler, LocalGoal, Concluding, Preempted, Released, Arriving
  <2>. QED
    BY <2>1, <2>2, GoalTypes, GoalReleased
    DEF GoalsInv, Unasked, ActiveExecutes, LiveGoalIsActive, Live
<1>5. CASE CancelHold
  <2>1. Threads' /\ Released' /\ Arriving'
    BY <1>5, GoalTypes DEF CancelHold, RtRuns, ExRuns, GoalsInv,
       Threads, OneHandler, LocalGoal, Concluding, Preempted,
       Released, Arriving, RtIdle, ExIdle, handles
  <2>2. UNCHANGED <<sent, request, status, rt_active_goal>>
    BY <1>5 DEF CancelHold, handles
  <2>. QED
    BY <2>1, <2>2, GoalsKept
<1>6. CASE CancelClear
  <2>1. Threads' /\ Released' /\ Arriving'
    BY <1>6, GoalTypes DEF CancelClear, RtRuns, ExRuns, GoalsInv,
       Threads, OneHandler, LocalGoal, Concluding, Preempted,
       Released, Arriving, RtIdle, ExIdle, handles
  <2>2. UNCHANGED <<sent, request, status, rt_active_goal>>
    BY <1>6 DEF CancelClear, handles
  <2>. QED
    BY <2>1, <2>2, GoalsKept
<1>7. CASE runNonRealtime
  <2>. PICK g \in Goals : Undelivered(g) /\ status' = [status EXCEPT ![g] = request[g]]
    BY <1>7 DEF runNonRealtime
  <2>1. /\ ex.pc = "idle" /\ UNCHANGED <<rt, ex, sent, request, rt_active_goal>>
        /\ status[g] = "executing" /\ request[g] \in Results
    BY <1>7, GoalTypes DEF runNonRealtime, Undelivered
  <2>2. Threads' /\ Released' /\ Arriving'
    BY <2>1 DEF GoalsInv, Threads, OneHandler, LocalGoal, Concluding, Preempted, Released, Arriving
  <2>3. /\ status'[g] = request[g]
        /\ \A h \in Goals : h # g => status'[h] = status[h]
    BY GoalTypes
  <2>4. Unasked' /\ ActiveExecutes' /\ LiveGoalIsActive'
    BY <2>1, <2>3, GoalTypes DEF GoalsInv, Unasked, ActiveExecutes, LiveGoalIsActive, Live
  <2>. QED
    BY <2>2, <2>4 DEF GoalsInv
<1>. QED
  BY <1>1, <1>2, <1>3, <1>4, <1>5, <1>6, <1>7, AcceptGoalsInv DEF Callback

\* Every step.
LEMMA NextGoalsInv ==
    ASSUME Concurrent = FALSE, TypeInv, GoalsInv, [Next]_vars
    PROVE  GoalsInv'
<1>1. ASSUME UNCHANGED <<sent, request, status, rt_active_goal, rt, ex>> PROVE GoalsInv'
  BY <1>1 DEF GoalsInv, Threads, OneHandler, LocalGoal, Concluding, Preempted, Released,
     Arriving, Unasked, ActiveExecutes, LiveGoalIsActive, Live
<1>2. ASSUME NEW m \in Stamped, Tick(m) PROVE GoalsInv'
  BY <1>1, <1>2 DEF Tick, handles
<1>3. CASE UNCHANGED vars
  BY <1>1, <1>3 DEF vars, handles
<1>. QED
  BY <1>2, <1>3, UpdateGoalsInv, LifecycleGoalsInv, CallbackGoalsInv DEF Next

LEMMA GoalsInvariant == Concurrent = FALSE => (Spec => [](TypeInv /\ GoalsInv))
<1> SUFFICES ASSUME Concurrent = FALSE PROVE Spec => [](TypeInv /\ GoalsInv)
  OBVIOUS
<1>1. Init => TypeInv /\ GoalsInv
  BY InitTypeInv, InitGoalsInv
<1>2. TypeInv /\ GoalsInv /\ [Next]_vars => (TypeInv /\ GoalsInv)'
  BY NextTypeInv, NextGoalsInv
<1>. QED
  BY <1>1, <1>2, PTL DEF Spec

\* At most one goal executes without a result, and it is the one that
\* rt_active_goal_ points to, whatever goals and topic messages arrive: what
\* preempt_active_goal() and the conclusion in update() are there for.
THEOREM OneLiveGoal == Concurrent = FALSE => (Spec => []LiveGoalIsActive)
<1>1. TypeInv /\ GoalsInv => LiveGoalIsActive
  BY DEF GoalsInv
<1>. QED
  BY <1>1, GoalsInvariant, PTL

-----------------------------------------------------------------------------
\* Asking the active goal's handle for a result concludes it, or changes nothing.
LEMMA AskConcludes ==
    ASSUME TypeInv, GoalsInv, NEW r \in Results, rt_active_goal # None,
           request' = Ask(request, rt_active_goal, r),
           \A g \in Goals : status'[g] = status[g] \/ request'[g] # "none"
    PROVE  [AG!Next]_GoalView
<1> DEFINE a == rt_active_goal
<1>1. a \in Goals /\ request \in [Goals -> Results \cup {"none"}]
  BY GoalTypes
<1>2. CASE request[a] # "none"
  <2>1. request' = request
    BY <1>2 DEF Ask
  <2>. QED
    BY <2>1 DEF GoalView
<1>3. CASE request[a] = "none"
  <2>1. request'[a] = r /\ \A h \in Goals : h # a => request'[h] = request[h]
    BY <1>1, <1>3 DEF Ask
  <2>2. GoalView[a] = "executing"
    BY <1>1, <1>3 DEF GoalView, GoalsInv, ActiveExecutes
  <2>3. GoalView' = [GoalView EXCEPT ![a] = r]
    BY <1>1, <1>3, <2>1 DEF GoalView
  <2>. QED
    BY <1>1, <2>2, <2>3 DEF AG!Next, AG!Conclude, GoalView
<1>. QED
  BY <1>2, <1>3

LEMMA StepRefines ==
    ASSUME Concurrent = FALSE, TypeInv, GoalsInv, [Next]_vars
    PROVE  [AG!Next]_GoalView
<1>1. ASSUME UNCHANGED <<request, status>> PROVE [AG!Next]_GoalView
  BY <1>1 DEF GoalView
<1>2. CASE Update
  <2>1. CASE UpdateConclude /\ rt.verdict # "hold"
    <3>1. rt_active_goal # None /\ rt.goal = rt_active_goal
      BY <2>1 DEF UpdateConclude, GoalsInv, Threads, LocalGoal, Concluding
    <3>2. PICK r \in Results : request' = Ask(request, rt_active_goal, r)
      BY <2>1, <3>1 DEF UpdateConclude, ReleaseGoal
    <3>3. status' = status
      BY <2>1 DEF UpdateConclude
    <3>. QED
      BY <3>1, <3>2, <3>3, AskConcludes
  <2>2. CASE ~(UpdateConclude /\ rt.verdict # "hold")
    <3>1. UpdateStart \/ UpdateReadMsg => UNCHANGED <<request, status>>
      BY DEF UpdateStart, UpdateReadMsg, handles
    <3>2. UpdateInstall => UNCHANGED <<request, status>>
      BY DEF UpdateInstall, handles
    <3>3. UpdateJudge => UNCHANGED <<request, status>>
      BY DEF UpdateJudge, Judge, handles
    <3>4. UpdateConclude => UNCHANGED <<request, status>>
      BY <2>2 DEF UpdateConclude
    <3>. QED
      BY <1>1, <1>2, <3>1, <3>2, <3>3, <3>4 DEF Update
  <2>. QED
    BY <2>1, <2>2
<1>3. CASE Lifecycle
  <2>1. CASE DeactivateAbort /\ rt_active_goal # None
    BY <2>1, AskConcludes DEF DeactivateAbort
  <2>2. CASE ~(DeactivateAbort /\ rt_active_goal # None)
    BY <1>1, <1>3, <2>2 DEF Lifecycle, Activate, on_activate, ActivateHold, ActivateMark,
       DeactivateAbort, DeactivateRelease, handles
  <2>. QED
    BY <2>1, <2>2
<1>4. CASE Accept
  <2>1. CASE preempt_active_goal /\ rt_active_goal # None
    <3>1. /\ request' = Ask(request, rt_active_goal, "aborted")
          /\ status' = [status EXCEPT ![rt_active_goal] = request'[rt_active_goal]]
      BY <2>1 DEF preempt_active_goal
    <3>2. /\ \A g \in Goals : g # rt_active_goal => status'[g] = status[g]
          /\ request'[rt_active_goal] # "none"
      BY <2>1, <3>1, GoalTypes, GoalReleased
    <3>. QED
      BY <2>1, <3>1, <3>2, AskConcludes
  <2>2. CASE AcceptPublish
    <3>1. /\ ex.arg \in Goals /\ request' = request /\ rt_active_goal = None
          /\ status' = [status EXCEPT ![ex.arg] = "executing"]
          /\ status[ex.arg] = "unsent" /\ request[ex.arg] = "none"
      BY <2>2 DEF AcceptPublish, TypeInv, AcceptTyped, AcceptPcs, GoalsInv, Threads,
         Preempted, Arriving, Unasked
    <3>2. AG!Executing = {}
      BY <3>1, GoalTypes DEF AG!Executing, GoalsInv, LiveGoalIsActive, Live,
         GoalView
    <3>3. /\ GoalView[ex.arg] = "unsent"
          /\ GoalView' = [GoalView EXCEPT ![ex.arg] = "executing"]
      BY <3>1, GoalTypes DEF GoalView
    <3>. QED
      BY <3>1, <3>2, <3>3 DEF AG!Next, AG!Execute, GoalView
  <2>3. CASE ~(preempt_active_goal /\ rt_active_goal # None) /\ ~AcceptPublish
    BY <1>1, <1>4, <2>3
    DEF Accept, AcceptPending, preempt_active_goal, AcceptAdd, AcceptUnhold,
        AcceptTolerances, handles
  <2>. QED
    BY <2>1, <2>2, <2>3
<1>5. ASSUME NEW g \in Goals, goal_received_callback(g) PROVE [AG!Next]_GoalView
  <2>1. status[g] = "unsent" /\ request[g] = "none" /\ request' = request
    BY <1>5 DEF goal_received_callback, GoalsInv, Unasked
  <2>2. CASE status' = status
    BY <1>1, <2>1, <2>2
  <2>3. CASE status' = [status EXCEPT ![g] = "rejected"]
    <3>1. /\ GoalView[g] = "unsent"
          /\ GoalView' = [GoalView EXCEPT ![g] = "rejected"]
      BY <2>1, <2>3, GoalTypes DEF GoalView
    <3>. QED
      BY <3>1 DEF AG!Next, AG!Reject, GoalView
  <2>. QED
    BY <1>5, <2>2, <2>3 DEF goal_received_callback
<1>6. ASSUME NEW g \in Goals, goal_cancelled_callback(g) PROVE [AG!Next]_GoalView
  <2>1. /\ rt_active_goal = g /\ status' = status
        /\ request' = Ask(request, rt_active_goal, "canceled")
    BY <1>6 DEF goal_cancelled_callback
  <2>. QED
    BY <2>1, GoalTypes, AskConcludes
<1>7. CASE runNonRealtime
  <2>. PICK g \in Goals : /\ Undelivered(g) /\ request' = request
                         /\ status' = [status EXCEPT ![g] = request[g]]
    BY <1>7 DEF runNonRealtime
  <2>1. GoalView' = GoalView
    BY GoalTypes DEF GoalView, Undelivered
  <2>. QED
    BY <2>1
<1>8. CASE Callback
  BY <1>1, <1>4, <1>5, <1>6, <1>7, <1>8
  DEF Callback, topic_callback, TopicUnhold, CancelHold, CancelClear, handles
<1>9. CASE (\E m \in Stamped : Tick(m)) \/ UNCHANGED vars
  BY <1>1, <1>9 DEF Tick, vars, handles
<1>. QED
  BY <1>2, <1>3, <1>8, <1>9 DEF Next

\* The goals implement an action server that executes one goal at a time: no goal
\* executes while another one does, and a result once asked for is final.
THEOREM GoalsImplementActionGoals == Concurrent = FALSE => (Spec => ActionGoalsSpec)
<1> SUFFICES ASSUME Concurrent = FALSE PROVE Spec => ActionGoalsSpec
  OBVIOUS
<1>1. Init => AG!Init
  BY DEF Init, AG!Init, GoalView
<1>2. TypeInv /\ GoalsInv /\ [Next]_vars => [AG!Next]_GoalView
  BY StepRefines
<1>3. Spec => [](TypeInv /\ GoalsInv)
  BY GoalsInvariant
<1>. QED
  BY <1>1, <1>2, <1>3, PTL DEF Spec, ActionGoalsSpec, AG!Spec
=============================================================================
