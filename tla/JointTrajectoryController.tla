---------------------- MODULE JointTrajectoryController ----------------------
(****************************************************************************)
(* The hand-over of goals and trajectories in the joint trajectory           *)
(* controller.  Two threads share its members: the real-time thread runs     *)
(* update() and the life-cycle transitions, one at a time; the executor runs *)
(* the topic, action and timer callbacks, one at a time.  Each handler is    *)
(* split where it reads or writes a member the other thread uses.            *)
(*                                                                           *)
(* A trajectory message stands for the shared_ptr the code compares.  Its    *)
(* points are abstracted to how far its execution has come (stage); the      *)
(* clock to the set of messages whose header.stamp is not in the future.     *)
(****************************************************************************)
EXTENDS Naturals

CONSTANTS
    Goals,              \* action goals, each with a trajectory of its own
    Topics,             \* trajectories sent to the topic
    Stamped,            \* the messages stamped in the future when sent
    GoalTimed,          \* the tolerances with a non-zero goal_time_tolerance
    Default,            \* the tolerances of the parameters
    Hold, Stop,         \* hold_position_msg_ptr_ and stop_trajectory_
    None,               \* nullptr
    AllowReplacement,   \* params_.allow_trajectory_replacement
    DecelerateOnCancel, \* should_decelerate_on_cancel_
    CmdTimeout,         \* cmd_timeout_ > 0.0
    Concurrent,         \* FALSE: a handler runs to its end before another starts
    MaxDeactivations    \* bound on the number of deactivations

External == Goals \cup Topics
Messages == External \cup {Hold, Stop}

ASSUME ConstantsAssumption ==
    /\ Goals \cap Topics = {}
    /\ Stamped \subseteq External
    /\ Default \notin Goals
    /\ GoalTimed \subseteq Goals \cup {Default}
    /\ {Hold, Stop} \cap External = {}
    /\ Hold # Stop
    /\ None \notin Messages
    /\ AllowReplacement \in BOOLEAN /\ DecelerateOnCancel \in BOOLEAN
    /\ CmdTimeout \in BOOLEAN /\ Concurrent \in BOOLEAN
    /\ MaxDeactivations \in Nat

VARIABLES
    lifecycle,              \* "active" or "inactive"
    deactivations,          \* how often on_deactivate has run
    due,                    \* messages whose header.stamp has been reached
    sent,                   \* external messages that have arrived
    subscriber_is_active,
    overtaken,              \* history: messages whose unhold an activation undid
    new_trajectory_msg,     \* the buffer between the threads
    current_msg,            \* current_trajectory_->get_trajectory_msg()
    sampled_already,        \* current_trajectory_->is_sampled_already()
    stage,                  \* how far the current trajectory has been played
    pending_traj_msg,       \* the deferred trajectory
    rt_clear_pending,
    rt_active_goal_deferred,
    rt_is_holding,
    rt_has_pending_goal,
    rt_active_goal,
    active_tolerances,      \* whose tolerances update() reads
    request,                \* the result a goal handle was asked for
    status,                 \* what the client of a goal has been told
    goal_handle_timer,      \* the goal whose handle the timer polls
    rt,                     \* the real-time thread: pc and locals
    ex                      \* the executor: pc and argument

trajectory == <<current_msg, sampled_already, stage>>
flags == <<rt_clear_pending, rt_active_goal_deferred, rt_is_holding, rt_has_pending_goal>>
handles == <<request, status, goal_handle_timer>>
node == <<lifecycle, deactivations, subscriber_is_active, overtaken>>
vars == <<node, due, sent, new_trajectory_msg, trajectory, pending_traj_msg, flags,
          rt_active_goal, active_tolerances, handles, rt, ex>>

Stages == {"moving", "ended", "late"}
Results == {"aborted", "canceled", "succeeded"}
RtIdle == [pc |-> "idle", goal |-> None, msg |-> None, due |-> {}, verdict |-> "none"]
ExIdle == [pc |-> "idle", arg |-> None]

\* Whether a thread may take a step while the other is inside a handler.
RtRuns == Concurrent \/ ex.pc = "idle"
ExRuns == Concurrent \/ rt.pc = "idle"

has_active_trajectory == current_msg # None
is_internal_hold(m) == m \in {Hold, Stop}
InFuture(m, now) == m \in Stamped /\ m \notin now

\* A variant named Faulty... is a slip the properties must notice.
FaultyHaltMsg == new_trajectory_msg

\* The trajectory that stops the robot, on cancel and on a violated tolerance.
HaltMsg == IF DecelerateOnCancel THEN Stop ELSE Hold

\* A goal handle keeps the first result it is asked for.
FaultyAsk(req, g, result) == req
Ask(req, g, result) == IF req[g] = "none" THEN [req EXCEPT ![g] = result] ELSE req

Init ==
    /\ lifecycle = "inactive" /\ deactivations = 0 /\ subscriber_is_active = FALSE
    /\ overtaken = {}
    /\ due = {} /\ sent = {}
    /\ new_trajectory_msg = None
    /\ current_msg = None /\ sampled_already = FALSE /\ stage = "moving"
    /\ pending_traj_msg = None
    /\ rt_clear_pending = FALSE /\ rt_active_goal_deferred = FALSE
    /\ rt_is_holding = FALSE /\ rt_has_pending_goal = FALSE
    /\ rt_active_goal = None /\ active_tolerances = Default
    /\ request = [g \in Goals |-> "none"]
    /\ status = [g \in Goals |-> "unsent"]
    /\ goal_handle_timer = None
    /\ rt = RtIdle /\ ex = ExIdle

\* The clock passes the start time of a stamped message.
Tick(m) ==
    /\ m \in Stamped \ due
    /\ due' = due \cup {m}
    /\ UNCHANGED <<node, sent, new_trajectory_msg, trajectory, pending_traj_msg, flags,
                   rt_active_goal, active_tolerances, handles, rt, ex>>

-----------------------------------------------------------------------------
(* The real-time thread: update().                                           *)

\* update() is entered at a time of the clock and reads the active goal once.
UpdateStart ==
    /\ RtRuns
    /\ rt.pc = "idle" /\ lifecycle = "active"
    /\ rt' = [rt EXCEPT !.pc = "read", !.goal = rt_active_goal, !.due = due]
    /\ UNCHANGED <<node, due, sent, new_trajectory_msg, trajectory, pending_traj_msg,
                   flags, rt_active_goal, active_tolerances, handles, ex>>

\* It reads the trajectory buffer before it looks at rt_clear_pending_.
UpdateReadMsg ==
    /\ RtRuns
    /\ rt.pc = "read"
    /\ rt' = [rt EXCEPT !.pc = "install", !.msg = new_trajectory_msg]
    /\ UNCHANGED <<node, due, sent, new_trajectory_msg, trajectory, pending_traj_msg,
                   flags, rt_active_goal, active_tolerances, handles, ex>>

\* What a cancel left of the deferred trajectory, and whether it starts now.
FaultyPending == pending_traj_msg
Pending == IF rt_clear_pending THEN None ELSE pending_traj_msg
FaultyStarts(m) == m # None /\ rt.goal # None /\ ~InFuture(m, rt.due)
Starts(m) == m # None /\ ~InFuture(m, rt.due)

\* Drop, install, defer or fire: the pending trajectory once a cancel's request
\* is served, then what the new message asks for, then the deferred one.
UpdateInstall ==
    /\ RtRuns
    /\ rt.pc = "install"
    /\ LET m == rt.msg
           fresh == /\ m # current_msg /\ m # Pending
                    /\ ~(rt_has_pending_goal /\ rt.goal = None)
           internal == fresh /\ is_internal_hold(m)
           defer == /\ fresh /\ ~internal
                    /\ AllowReplacement /\ has_active_trajectory /\ InFuture(m, rt.due)
           now == fresh /\ ~internal /\ ~defer
           waiting == IF defer THEN m ELSE IF now THEN None ELSE Pending
           fire == Starts(waiting)
           installs == internal \/ now \/ fire
           installed == IF fire THEN waiting ELSE IF installs THEN m ELSE current_msg
       IN  /\ pending_traj_msg' = IF fire THEN None ELSE waiting
           /\ rt_clear_pending' = FALSE
           /\ rt_active_goal_deferred' =
                  (rt_active_goal_deferred /\ ~rt_clear_pending /\ ~now /\ ~fire)
           /\ current_msg' = installed
           /\ sampled_already' = (sampled_already /\ ~installs)
           /\ stage' = IF installs THEN "moving" ELSE stage
           /\ rt' = IF installed = None THEN RtIdle ELSE [rt EXCEPT !.pc = "judge"]
    /\ UNCHANGED <<node, due, sent, new_trajectory_msg, rt_is_holding,
                   rt_has_pending_goal, rt_active_goal, active_tolerances, handles, ex>>

\* The stages sampling may find: a hold message has its only point at its start.
NextStages ==
    CASE stage = "moving" /\ current_msg = Hold -> {"ended"}
      [] stage = "moving" /\ current_msg # Hold -> Stages
      [] stage = "ended" -> {"ended", "late"}
      [] stage = "late" -> {"late"}

FaultyBeforeLast(reached) == FALSE
BeforeLast(reached) == reached = "moving"

\* Whether goal_time_tolerance is exceeded: never, when it is zero.
FaultyGoalTimeExceeded(reached) == FALSE
GoalTimeExceeded(reached) == reached = "late" /\ active_tolerances \in GoalTimed

\* Whether the cycle may report on a goal: not while its trajectory is deferred.
Reports == rt.goal # None /\ ~rt_active_goal_deferred

\* Sample the trajectory, check the command timeout and the tolerances, and
\* decide what becomes of the active goal.  pathOk and goalOk say whether the
\* joints are within the two tolerances, timedOut whether the end of the
\* trajectory lies further back than cmd_timeout_.
Judge(reached, pathOk, goalOk, timedOut) ==
    /\ RtRuns
    /\ rt.pc = "judge"
    /\ reached \in NextStages
    /\ LET beforeLast == BeforeLast(reached)
           expired == CmdTimeout /\ timedOut /\ ~beforeLast /\ ~rt_is_holding
           exempt == rt_is_holding \/ expired
           violated == (beforeLast \/ ~sampled_already) /\ ~exempt /\ ~pathOk
           outside == ~beforeLast /\ ~exempt /\ ~goalOk
           overdue == outside /\ GoalTimeExceeded(reached)
           verdict ==
               CASE Reports /\ violated -> "abort"
                 [] Reports /\ ~violated /\ ~beforeLast /\ ~outside -> "succeed"
                 [] Reports /\ ~violated /\ overdue -> "abort"
                 [] ~Reports /\ (violated \/ overdue) /\ ~rt_has_pending_goal -> "hold"
                 [] OTHER -> "none"
       IN  /\ stage' = reached
           /\ sampled_already' = TRUE
           /\ new_trajectory_msg' = IF expired THEN HaltMsg ELSE new_trajectory_msg
           /\ rt_is_holding' = exempt
           /\ rt' = IF verdict = "none" THEN RtIdle
                    ELSE [rt EXCEPT !.pc = "conclude", !.verdict = verdict]
    /\ UNCHANGED <<node, due, sent, current_msg, pending_traj_msg, rt_clear_pending,
                   rt_active_goal_deferred, rt_has_pending_goal, rt_active_goal,
                   active_tolerances, handles, ex>>

UpdateJudge ==
    \E reached \in Stages, pathOk, goalOk, timedOut \in BOOLEAN :
        Judge(reached, pathOk, goalOk, timedOut)

FaultyReleaseGoal(result) ==
    /\ request' = Ask(request, rt.goal, result)
    /\ rt_active_goal' = None
    /\ UNCHANGED rt_has_pending_goal

ReleaseGoal(result) ==
    /\ request' = Ask(request, rt.goal, result)
    /\ rt_active_goal' = None
    /\ rt_has_pending_goal' = FALSE

\* Abort or succeed the goal read at the start of the cycle, and put the
\* stopping trajectory into the buffer, over whatever is there.
UpdateConclude ==
    /\ RtRuns
    /\ rt.pc = "conclude"
    /\ IF rt.verdict = "hold"
         THEN UNCHANGED <<request, rt_active_goal, rt_has_pending_goal>>
         ELSE ReleaseGoal(IF rt.verdict = "abort" THEN "aborted" ELSE "succeeded")
    /\ new_trajectory_msg' = IF rt.verdict = "succeed" THEN Hold ELSE HaltMsg
    /\ rt_is_holding' = TRUE
    /\ rt' = RtIdle
    /\ UNCHANGED <<node, due, sent, trajectory, pending_traj_msg, rt_clear_pending,
                   rt_active_goal_deferred, active_tolerances, status,
                   goal_handle_timer, ex>>

Update == UpdateStart \/ UpdateReadMsg \/ UpdateInstall \/ UpdateJudge \/ UpdateConclude

-----------------------------------------------------------------------------
(* The real-time thread: life-cycle transitions between two updates.         *)

\* on_activate drops what an earlier activation left and lets topic messages in ...
on_activate ==
    /\ RtRuns
    /\ rt.pc = "idle" /\ lifecycle = "inactive"
    /\ subscriber_is_active' = TRUE
    /\ current_msg' = None /\ sampled_already' = FALSE /\ stage' = "moving"
    /\ pending_traj_msg' = None
    /\ rt_active_goal_deferred' = FALSE
    /\ rt_clear_pending' = FALSE
    /\ new_trajectory_msg' = None
    /\ rt' = [rt EXCEPT !.pc = "activate"]
    /\ UNCHANGED <<lifecycle, deactivations, overtaken, due, sent, rt_is_holding,
                   rt_has_pending_goal, rt_active_goal, active_tolerances, handles, ex>>

\* ... adds the position to hold, over a message that came in meanwhile ...
ActivateHold ==
    /\ RtRuns
    /\ rt.pc = "activate"
    /\ rt_is_holding' = TRUE
    /\ new_trajectory_msg' = Hold
    /\ rt' = [rt EXCEPT !.pc = "mark"]
    /\ UNCHANGED <<node, due, sent, trajectory, pending_traj_msg, rt_clear_pending,
                   rt_active_goal_deferred, rt_has_pending_goal, rt_active_goal,
                   active_tolerances, handles, ex>>

\* ... and sets rt_is_holding_ once more, over a message that came in after that.
ActivateMark ==
    /\ RtRuns
    /\ rt.pc = "mark"
    /\ rt_is_holding' = TRUE
    /\ lifecycle' = "active"
    /\ rt' = RtIdle
    /\ UNCHANGED <<deactivations, subscriber_is_active, overtaken, due, sent,
                   new_trajectory_msg, trajectory, pending_traj_msg, rt_clear_pending,
                   rt_active_goal_deferred, rt_has_pending_goal, rt_active_goal,
                   active_tolerances, handles, ex>>

\* on_deactivate reads the active goal and asks to abort it ...
DeactivateAbort ==
    /\ RtRuns
    /\ rt.pc = "idle" /\ lifecycle = "active"
    /\ deactivations < MaxDeactivations
    /\ IF rt_active_goal = None
         THEN UNCHANGED <<request, rt_has_pending_goal>>
         ELSE /\ rt_has_pending_goal' = FALSE
              /\ request' = Ask(request, rt_active_goal, "aborted")
    /\ rt' = [rt EXCEPT !.pc = "deactivate", !.goal = rt_active_goal]
    /\ UNCHANGED <<node, due, sent, new_trajectory_msg, trajectory, pending_traj_msg,
                   rt_clear_pending, rt_active_goal_deferred, rt_is_holding,
                   rt_active_goal, active_tolerances, status, goal_handle_timer, ex>>

\* ... then clears it and drops the trajectory, unless a command interface
\* cannot be written: it returns before that then, and is inactive all the same.
DeactivateRelease(written) ==
    /\ RtRuns
    /\ rt.pc = "deactivate"
    /\ rt_active_goal' = IF rt.goal = None THEN rt_active_goal ELSE None
    /\ IF written
         THEN /\ subscriber_is_active' = FALSE
              /\ current_msg' = None /\ sampled_already' = FALSE /\ stage' = "moving"
         ELSE UNCHANGED <<subscriber_is_active, trajectory>>
    /\ lifecycle' = "inactive"
    /\ deactivations' = deactivations + 1
    /\ rt' = RtIdle
    /\ UNCHANGED <<overtaken, due, sent, new_trajectory_msg, pending_traj_msg, flags,
                   active_tolerances, handles, ex>>

Activate == on_activate \/ ActivateHold \/ ActivateMark
Lifecycle == Activate \/ DeactivateAbort \/ \E w \in BOOLEAN : DeactivateRelease(w)

-----------------------------------------------------------------------------
(* The executor: topic_callback.                                             *)

topic_callback(t) ==
    /\ ExRuns
    /\ ex.pc = "idle" /\ t \notin sent
    /\ sent' = sent \cup {t}
    /\ IF subscriber_is_active
         THEN /\ new_trajectory_msg' = t
              /\ ex' = [pc |-> "topic", arg |-> t]
         ELSE UNCHANGED <<new_trajectory_msg, ex>>
    /\ UNCHANGED <<node, due, trajectory, pending_traj_msg, flags, rt_active_goal,
                   active_tolerances, handles, rt>>

\* An activation is about to set rt_is_holding_ again, after a callback has cleared it.
Overtakes(m) == overtaken' = IF rt.pc = "mark" THEN overtaken \cup {m} ELSE overtaken

FaultyTopicUnhold ==
    /\ ExRuns
    /\ ex.pc = "topic"
    /\ ex' = ExIdle
    /\ UNCHANGED <<node, due, sent, new_trajectory_msg, trajectory, pending_traj_msg,
                   flags, rt_active_goal, active_tolerances, handles, rt>>

TopicUnhold ==
    /\ ExRuns
    /\ ex.pc = "topic"
    /\ rt_is_holding' = FALSE
    /\ Overtakes(ex.arg)
    /\ ex' = ExIdle
    /\ UNCHANGED <<lifecycle, deactivations, subscriber_is_active, due, sent, new_trajectory_msg, trajectory, pending_traj_msg,
                   rt_clear_pending, rt_active_goal_deferred, rt_has_pending_goal,
                   rt_active_goal, active_tolerances, handles, rt>>

-----------------------------------------------------------------------------
(* The executor: an action goal is received and accepted.                    *)

\* get_lifecycle_id() in the middle of a transition is up to the library: not
\* yet, or no longer, the state that the transition leads to or starts from.
InTransition == rt.pc \in {"activate", "mark", "deactivate"}

goal_received_callback(g) ==
    /\ ExRuns
    /\ ex.pc = "idle" /\ g \notin sent
    /\ sent' = sent \cup {g}
    /\ \/ /\ lifecycle = "inactive" \/ InTransition
          /\ status' = [status EXCEPT ![g] = "rejected"]
          /\ UNCHANGED ex
       \/ /\ lifecycle = "active" \/ InTransition
          /\ ex' = [pc |-> "accept", arg |-> g]
          /\ UNCHANGED status
    /\ UNCHANGED <<node, due, new_trajectory_msg, trajectory, pending_traj_msg, flags,
                   rt_active_goal, active_tolerances, request, goal_handle_timer, rt>>

\* goal_accepted_callback first marks the goal pending ...
AcceptPending ==
    /\ ExRuns
    /\ ex.pc = "accept"
    /\ rt_has_pending_goal' = TRUE
    /\ ex' = [ex EXCEPT !.pc = "preempt"]
    /\ UNCHANGED <<node, due, sent, new_trajectory_msg, trajectory, pending_traj_msg,
                   rt_clear_pending, rt_active_goal_deferred, rt_is_holding,
                   rt_active_goal, active_tolerances, handles, rt>>

FaultyPreempt ==
    /\ ExRuns
    /\ ex.pc = "preempt"
    /\ rt_active_goal' = None
    /\ ex' = [ex EXCEPT !.pc = "add"]
    /\ UNCHANGED <<node, due, sent, new_trajectory_msg, trajectory, pending_traj_msg,
                   flags, active_tolerances, handles, rt>>

\* ... aborts the active goal and delivers its result at once ...
preempt_active_goal ==
    /\ ExRuns
    /\ ex.pc = "preempt"
    /\ IF rt_active_goal = None
         THEN UNCHANGED <<request, status, rt_active_goal>>
         ELSE /\ request' = Ask(request, rt_active_goal, "aborted")
              /\ status' = [status EXCEPT ![rt_active_goal] = request'[rt_active_goal]]
              /\ rt_active_goal' = None
    /\ ex' = [ex EXCEPT !.pc = "add"]
    /\ UNCHANGED <<node, due, sent, new_trajectory_msg, trajectory, pending_traj_msg,
                   flags, active_tolerances, goal_handle_timer, rt>>

\* ... hands over the trajectory ...
AcceptAdd ==
    /\ ExRuns
    /\ ex.pc = "add"
    /\ new_trajectory_msg' = ex.arg
    /\ ex' = [ex EXCEPT !.pc = "unhold"]
    /\ UNCHANGED <<node, due, sent, trajectory, pending_traj_msg, flags, rt_active_goal,
                   active_tolerances, handles, rt>>

FaultyAcceptUnhold ==
    /\ ExRuns
    /\ ex.pc = "unhold"
    /\ rt_active_goal_deferred' =
           (AllowReplacement /\ has_active_trajectory /\ InFuture(ex.arg, due))
    /\ ex' = [ex EXCEPT !.pc = "publish"]
    /\ UNCHANGED <<node, due, sent, new_trajectory_msg, trajectory, pending_traj_msg,
                   rt_clear_pending, rt_is_holding, rt_has_pending_goal,
                   rt_active_goal, active_tolerances, handles, rt>>

\* ... and says whether update() will defer it ...
AcceptUnhold ==
    /\ ExRuns
    /\ ex.pc = "unhold"
    /\ rt_is_holding' = FALSE
    /\ Overtakes(ex.arg)
    /\ rt_active_goal_deferred' =
           (AllowReplacement /\ has_active_trajectory /\ InFuture(ex.arg, due))
    /\ ex' = [ex EXCEPT !.pc = "publish"]
    /\ UNCHANGED <<lifecycle, deactivations, subscriber_is_active, due, sent, new_trajectory_msg, trajectory, pending_traj_msg,
                   rt_clear_pending, rt_has_pending_goal, rt_active_goal,
                   active_tolerances, handles, rt>>

\* ... makes it the active goal ...
AcceptPublish ==
    /\ ExRuns
    /\ ex.pc = "publish"
    /\ status' = [status EXCEPT ![ex.arg] = "executing"]
    /\ rt_active_goal' = ex.arg
    /\ ex' = [ex EXCEPT !.pc = "tolerances"]
    /\ UNCHANGED <<node, due, sent, new_trajectory_msg, trajectory, pending_traj_msg,
                   flags, active_tolerances, request, goal_handle_timer, rt>>

\* ... and only then writes its tolerances and replaces the timer that polled
\* the handle of the goal before.
AcceptTolerances ==
    /\ ExRuns
    /\ ex.pc = "tolerances"
    /\ active_tolerances' = ex.arg
    /\ goal_handle_timer' = ex.arg
    /\ ex' = ExIdle
    /\ UNCHANGED <<node, due, sent, new_trajectory_msg, trajectory, pending_traj_msg,
                   flags, rt_active_goal, request, status, rt>>

Accept == \/ AcceptPending \/ preempt_active_goal \/ AcceptAdd
          \/ AcceptUnhold \/ AcceptPublish \/ AcceptTolerances

-----------------------------------------------------------------------------
(* The executor: goal_cancelled_callback and the timer.                      *)

\* A cancel request of the active goal asks its handle to cancel and clears it;
\* one of any other goal is accepted and changes nothing.
goal_cancelled_callback(g) ==
    /\ ExRuns
    /\ ex.pc = "idle" /\ status[g] = "executing"
    /\ rt_active_goal = g
    /\ rt_has_pending_goal' = FALSE
    /\ request' = Ask(request, g, "canceled")
    /\ rt_active_goal' = None
    /\ ex' = [pc |-> "cancel", arg |-> g]
    /\ UNCHANGED <<node, due, sent, new_trajectory_msg, trajectory, pending_traj_msg,
                   rt_clear_pending, rt_active_goal_deferred, rt_is_holding,
                   active_tolerances, status, goal_handle_timer, rt>>

CancelHold ==
    /\ ExRuns
    /\ ex.pc = "cancel"
    /\ rt_is_holding' = TRUE
    /\ new_trajectory_msg' = HaltMsg
    /\ ex' = [ex EXCEPT !.pc = "clear"]
    /\ UNCHANGED <<node, due, sent, trajectory, pending_traj_msg, rt_clear_pending,
                   rt_active_goal_deferred, rt_has_pending_goal, rt_active_goal,
                   active_tolerances, handles, rt>>

CancelClear ==
    /\ ExRuns
    /\ ex.pc = "clear"
    /\ rt_clear_pending' = TRUE
    /\ ex' = ExIdle
    /\ UNCHANGED <<node, due, sent, new_trajectory_msg, trajectory, pending_traj_msg,
                   rt_active_goal_deferred, rt_is_holding, rt_has_pending_goal,
                   rt_active_goal, active_tolerances, handles, rt>>

FaultyUndelivered(g) == status[g] = "executing"
FaultyOnlySuccess(g) == status[g] = "executing" /\ request[g] = "succeeded"
Undelivered(g) == status[g] = "executing" /\ request[g] # "none"

\* The timer runs runNonRealtime of the handle it is bound to: the client is
\* told the result the handle was asked for.
runNonRealtime ==
    /\ ExRuns
    /\ ex.pc = "idle"
    /\ \E g \in Goals :
           /\ goal_handle_timer = g /\ Undelivered(g)
           /\ status' = [status EXCEPT ![g] = request[g]]
    /\ UNCHANGED <<node, due, sent, new_trajectory_msg, trajectory, pending_traj_msg,
                   flags, rt_active_goal, active_tolerances, request,
                   goal_handle_timer, rt, ex>>

Callback ==
    \/ \E t \in Topics : topic_callback(t)
    \/ TopicUnhold
    \/ \E g \in Goals : goal_received_callback(g) \/ goal_cancelled_callback(g)
    \/ Accept \/ CancelHold \/ CancelClear \/ runNonRealtime

-----------------------------------------------------------------------------
Next ==
    \/ Update
    \/ Lifecycle
    \/ Callback
    \/ \E m \in Stamped : Tick(m)

Spec == Init /\ [][Next]_vars

(****************************************************************************)
(* Fairness.  The controller manager calls update() periodically while the   *)
(* controller is active and finishes every handler; the executor finishes    *)
(* every callback and the wall timer fires; the clock advances; and, with a  *)
(* positive speed scaling, a trajectory that keeps being sampled reaches its *)
(* end and then passes any goal_time_tolerance.                              *)
(****************************************************************************)
Fairness ==
    /\ WF_vars(Update)
    /\ WF_vars(ActivateHold \/ ActivateMark \/ \E w \in BOOLEAN : DeactivateRelease(w))
    /\ WF_vars(TopicUnhold \/ Accept \/ CancelHold \/ CancelClear)
    /\ SF_vars(runNonRealtime)
    /\ \A m \in Stamped : WF_vars(Tick(m))
    /\ SF_vars(UpdateJudge /\ stage = "moving" /\ stage' # "moving")
    /\ SF_vars(UpdateJudge /\ stage = "ended" /\ stage' = "late")

FairSpec == Spec /\ Fairness

-----------------------------------------------------------------------------
(* Properties.                                                               *)

RtType == [pc : {"idle", "read", "install", "judge", "conclude", "activate", "mark",
                 "deactivate"},
           goal : Goals \cup {None}, msg : Messages \cup {None},
           due : SUBSET Stamped, verdict : {"none", "abort", "succeed", "hold"}]
ExType == [pc : {"idle", "topic", "accept", "preempt", "add", "unhold", "publish",
                 "tolerances", "cancel", "clear"},
           arg : External \cup {None}]

TypeOK ==
    /\ lifecycle \in {"active", "inactive"}
    /\ deactivations \in 0..MaxDeactivations
    /\ due \subseteq Stamped /\ sent \subseteq External
    /\ subscriber_is_active \in BOOLEAN /\ overtaken \subseteq External
    /\ new_trajectory_msg \in Messages \cup {None} /\ current_msg \in Messages \cup {None}
    /\ sampled_already \in BOOLEAN /\ stage \in Stages
    /\ pending_traj_msg \in External \cup {None}
    /\ rt_clear_pending \in BOOLEAN /\ rt_active_goal_deferred \in BOOLEAN
    /\ rt_is_holding \in BOOLEAN /\ rt_has_pending_goal \in BOOLEAN
    /\ rt_active_goal \in Goals \cup {None}
    /\ active_tolerances \in Goals \cup {Default}
    /\ request \in [Goals -> Results \cup {"none"}]
    /\ status \in [Goals -> Results \cup {"unsent", "rejected", "executing"}]
    /\ goal_handle_timer \in Goals \cup {None}
    /\ rt \in RtType /\ ex \in ExType

\* A goal that executes and was not yet asked to end.
Live(g) == status[g] = "executing" /\ request[g] = "none"
Quiet == rt.pc = "idle" /\ ex.pc = "idle"

\* Only one action goal can be active at any moment, and it is the one that
\* rt_active_goal_ points to: preempt_active_goal() and the conclusion in
\* update() never leave a second goal without a result behind.
LiveGoalIsActive == \A g \in Goals : Live(g) => rt_active_goal = g

\* A success is reported for the goal whose trajectory, or one the topic put in
\* its place, is installed and has been played to its end: never for the
\* trajectory of another goal, nor for a hold that replaced it.  A deferred goal
\* that is judged too early is the matter of DeferredNotJudged.
\* Two combinations break it, and the configurations leave them out: a topic message
\* stamped in the future that overtakes the goal's trajectory in the buffer, and a
\* command timeout whose hold is still in the buffer when a deferred goal starts.
SuccessIsEarned ==
    [][\A g \in Goals :
           request[g] # "succeeded" /\ request'[g] = "succeeded"
               => \/ current_msg \in {g} \cup Topics /\ stage # "moving"
                  \/ pending_traj_msg = g]_vars

\* A goal only succeeds on joint states that were compared with its tolerances:
\* tolerances are not switched off when its last point is judged.
SuccessIsMeasured ==
    rt.pc = "conclude" /\ rt.verdict = "succeed" => ~rt_is_holding

\* Once all handlers have returned, a pending goal is an active goal: update()
\* discards every new trajectory while one is pending and none is active.
NoStuckPending == Quiet /\ rt_has_pending_goal => rt_active_goal # None

\* An external trajectory is not played while tolerances are switched off for
\* holding, except until the halt that is already in the buffer is installed.  A
\* message whose callback slips in between the two places where on_activate sets
\* rt_is_holding_ is played like that all the same: those are the ones in overtaken.
TolerancesChecked ==
    Quiet /\ current_msg \in External \ overtaken /\ rt_is_holding
        => is_internal_hold(new_trajectory_msg)

\* Once all handlers have returned, the buffer asks for something else than the
\* trajectory of a canceled or aborted goal: with NoStuckPending, the next cycle
\* replaces whatever is still played of it, also when a cancel that overlaps
\* update() has let it start after all.
EndedGoalIsReplaced ==
    Quiet /\ lifecycle = "active"
        => \A g \in Goals : request[g] \in {"aborted", "canceled"}
                                => new_trajectory_msg \notin {g, None}

\* The deferred trajectory of a canceled goal does not start: once the cancel callback has
\* returned and update() has served its request, nothing is left to fire.
CanceledGoalNotPending ==
    Quiet /\ ~rt_clear_pending
        => \A g \in Goals : request[g] = "canceled" => pending_traj_msg # g

\* A goal whose trajectory is still deferred gets no result from update(), as the
\* comment on rt_active_goal_deferred_ there says.
DeferredNotJudged ==
    [][\A g \in Goals :
           /\ rt.pc = "conclude" /\ rt.goal = g
           /\ request[g] = "none" /\ request'[g] # "none"
           => pending_traj_msg # g]_vars

\* A deferred trajectory is installed at its start time, or makes way for another.
DeferredIsResolved ==
    \A m \in Stamped : pending_traj_msg = m
        ~> (pending_traj_msg # m \/ lifecycle = "inactive")

\* A goal that executes is given a result, unless the controller is deactivated.
GoalsAreJudged ==
    \A g \in Goals : status[g] = "executing"
                         ~> (request[g] # "none" \/ lifecycle = "inactive")

\* The client of a goal is told the result the goal was given, unless the next
\* goal takes the timer that would deliver it.
ResultsAreDelivered ==
    \A g \in Goals : request[g] # "none"
                         ~> (status[g] = request[g] \/ goal_handle_timer # g)

\* The state of every goal, a result counting from when the handle is asked for it.
GoalView == [g \in Goals |-> IF request[g] = "none" THEN status[g] ELSE request[g]]
AG == INSTANCE ActionGoals WITH goal <- GoalView

\* The goals are those of an action server that executes one at a time: none
\* starts to execute while another one does, and a result is final.
ActionGoalsSpec == AG!Spec
=============================================================================
