------------------- MODULE MotionPrimitivesForwardController -------------------
(****************************************************************************)
(* The motion primitives forward controller: action goals become motion      *)
(* primitives in a queue, update() forwards them one by one to the hardware  *)
(* interface and follows its execution status, and a cancel request stops    *)
(* the robot.                                                                *)
(*                                                                           *)
(* The real-time thread runs update() and the life cycle, the executor the   *)
(* action callbacks and the timer.  The command interfaces are abstracted to *)
(* the command they hold, a primitive to its goal and its place in it.       *)
(*                                                                           *)
(* The hardware interface is external.  It reads and writes the interfaces   *)
(* between two calls of update(), and behaves as the controller's            *)
(* documentation asks of it.                                                 *)
(****************************************************************************)
EXTENDS Integers, Sequences, FiniteSets, SequencesExt

CONSTANTS
    Goals,
    Motions,         \* how many motion primitives a goal has
    Capacity,        \* of moprim_queue_
    None,
    Prompt,          \* TRUE: the hardware takes a command before the next cycle
    Concurrent,      \* TRUE: the executor runs while update() runs
    MaxDeactivations \* bound on the number of deactivations

ASSUME MotionAssumption ==
    /\ Motions \in [Goals -> Nat \ {0}]
    /\ Capacity \in Nat /\ MaxDeactivations \in Nat
    /\ Prompt \in BOOLEAN /\ Concurrent \in BOOLEAN

Primitive(g, part) == [goal |-> g, part |-> part]
Stop == Primitive(None, "STOP_MOTION")
Reset == Primitive(None, "RESET_STOP")
Empty == Primitive(None, "nan")

\* The motions of a goal; several make a sequence between two markers.
Plan(g) ==
    LET motions == [i \in 1..Motions[g] |-> Primitive(g, "motion")]
    IN  IF Motions[g] = 1 THEN motions
        ELSE <<Primitive(g, "start")>> \o motions \o <<Primitive(g, "end")>>

VARIABLES
    lifecycle, deactivations,
    command,              \* what the command interfaces hold
    moprim_queue,
    has_active_goal,
    rt_goal_handle,
    cancel_requested,
    robot_stop_requested,
    was_executing,
    request,              \* the result a goal handle was asked for
    status,               \* what the client of a goal has been told
    canceling,            \* the goals whose clients asked to cancel them
    goal_handle_timer,    \* the goal whose handle the timer polls
    rt,                   \* where update() is
    ex,                   \* where the executor is, its goal and what it still has to push
    execution_status,     \* the hardware: what it reports,
    taken,                \* the primitives it has taken and not finished,
    executed              \* history: the goals whose whole plan it has executed

node == <<lifecycle, deactivations>>
handles == <<request, status, canceling, goal_handle_timer>>
hardware == <<execution_status, taken, executed>>
vars == <<node, command, moprim_queue, has_active_goal, rt_goal_handle, cancel_requested,
          robot_stop_requested, was_executing, handles, rt, ex, hardware>>

ExIdle == [pc |-> "idle", goal |-> None, left |-> <<>>]

Init ==
    /\ lifecycle = "inactive" /\ deactivations = 0
    /\ command = Empty /\ moprim_queue = <<>>
    /\ has_active_goal = FALSE /\ rt_goal_handle = None
    /\ cancel_requested = FALSE /\ robot_stop_requested = FALSE /\ was_executing = FALSE
    /\ request = [g \in Goals |-> "none"] /\ status = [g \in Goals |-> "unsent"]
    /\ canceling = {} /\ goal_handle_timer = None
    /\ rt = "idle" /\ ex = ExIdle
    /\ execution_status = "IDLE" /\ taken = <<>> /\ executed = {}

\* With Concurrent = FALSE neither thread starts anything while the other is busy.
ExecutorTurn == Concurrent \/ rt = "idle"
UpdateTurn == Concurrent \/ ex = ExIdle

\* The hardware is not behind with the commands.
KeepsUp == Prompt => command = Empty

-----------------------------------------------------------------------------
(* The real-time thread.                                                     *)

on_activate ==
    /\ lifecycle = "inactive" /\ UpdateTurn /\ lifecycle' = "active"
    /\ command' = Empty
    /\ UNCHANGED <<deactivations, moprim_queue, has_active_goal, rt_goal_handle,
                   cancel_requested, robot_stop_requested, was_executing, handles, rt, ex,
                   hardware>>

\* Only the command interfaces are reset: the queue and the goal stay.
on_deactivate ==
    /\ lifecycle = "active" /\ rt = "idle" /\ UpdateTurn /\ KeepsUp
    /\ deactivations < MaxDeactivations
    /\ lifecycle' = "inactive" /\ deactivations' = deactivations + 1
    /\ command' = Empty
    /\ UNCHANGED <<moprim_queue, has_active_goal, rt_goal_handle, cancel_requested,
                   robot_stop_requested, was_executing, handles, rt, ex, hardware>>

FaultyDrained == moprim_queue
Drained == <<>>

\* The interfaces are reset before the stop command is put on them.
FaultyStopSent == Empty
StopSent == Stop

\* update() first serves a cancel request: it stops the robot and drains the queue.
UpdateCancel ==
    /\ lifecycle = "active" /\ rt = "idle" /\ UpdateTurn /\ KeepsUp
    /\ rt' = "status"
    /\ IF cancel_requested
         THEN /\ cancel_requested' = FALSE
              /\ command' = StopSent
              /\ moprim_queue' = Drained
              /\ robot_stop_requested' = TRUE
         ELSE UNCHANGED <<cancel_requested, command, moprim_queue, robot_stop_requested>>
    /\ UNCHANGED <<node, has_active_goal, rt_goal_handle, was_executing, handles, ex,
                   hardware>>

\* A goal handle keeps the first result it is asked for.
Ask(g, result) ==
    request' = IF request[g] = "none" THEN [request EXCEPT ![g] = result] ELSE request

\* End the active goal.  The lock of its box is free: a goal is only published
\* when none is active.
Conclude(result) == Ask(rt_goal_handle, result) /\ has_active_goal' = FALSE

FaultySucceeds == has_active_goal
Succeeds == has_active_goal /\ was_executing

StatusExecuting ==
    /\ execution_status = "EXECUTING"
    /\ was_executing' = TRUE
    /\ UNCHANGED <<request, has_active_goal, command, robot_stop_requested>>

StatusSuccess ==
    /\ execution_status = "SUCCESS"
    /\ IF Succeeds
         THEN Conclude("succeeded") /\ was_executing' = FALSE
         ELSE UNCHANGED <<request, has_active_goal, was_executing>>
    /\ UNCHANGED <<command, robot_stop_requested>>

StatusStopped ==
    /\ execution_status = "STOPPED"
    /\ was_executing' = FALSE
    /\ IF has_active_goal THEN Conclude("canceled") ELSE UNCHANGED <<request, has_active_goal>>
    /\ IF robot_stop_requested
         THEN command' = Reset /\ robot_stop_requested' = FALSE
         ELSE UNCHANGED <<command, robot_stop_requested>>

\* An error is only logged: the active goal stays active.
StatusOther ==
    /\ execution_status \in {"IDLE", "STOPPING", "ERROR"}
    /\ was_executing' = (was_executing /\ execution_status = "IDLE")
    /\ UNCHANGED <<request, has_active_goal, command, robot_stop_requested>>

UpdateStatus ==
    /\ rt = "status"
    /\ StatusExecuting \/ StatusSuccess \/ StatusStopped \/ StatusOther
    /\ rt' = "ready"
    /\ UNCHANGED <<node, moprim_queue, rt_goal_handle, cancel_requested, status, canceling,
                   goal_handle_timer, ex, hardware>>

\* The hardware is ready once it has taken the last command, unless it moves or stops.
ready_for_new_primitive ==
    command = Empty /\ execution_status \in {"IDLE", "SUCCESS", "ERROR"}

\* Forward the oldest primitive of the queue, unless a cancel has come meanwhile.
UpdateSend ==
    /\ rt = "ready"
    /\ rt' = "idle"
    /\ IF ~cancel_requested /\ ready_for_new_primitive /\ moprim_queue # <<>>
         THEN command' = Head(moprim_queue) /\ moprim_queue' = Tail(moprim_queue)
         ELSE UNCHANGED <<command, moprim_queue>>
    /\ UNCHANGED <<node, has_active_goal, rt_goal_handle, cancel_requested,
                   robot_stop_requested, was_executing, handles, ex, hardware>>

-----------------------------------------------------------------------------
(* The executor.                                                             *)

\* Both capacity checks of the code: the second one also binds a single primitive.
FaultyFits(g) == TRUE
Fits(g) == Motions[g] + 2 <= Capacity - Len(moprim_queue)

goal_received_callback(g) ==
    /\ ex.pc = "idle" /\ ExecutorTurn /\ status[g] = "unsent"
    /\ IF lifecycle = "inactive" \/ has_active_goal \/ robot_stop_requested \/ ~Fits(g)
         THEN status' = [status EXCEPT ![g] = "rejected"] /\ UNCHANGED ex
         ELSE /\ ex' = [pc |-> "push", goal |-> g, left |-> Plan(g)]
              /\ UNCHANGED status
    /\ UNCHANGED <<node, command, moprim_queue, has_active_goal, rt_goal_handle,
                   cancel_requested, robot_stop_requested, was_executing, request,
                   canceling, goal_handle_timer, rt, hardware>>

\* goal_accepted_callback pushes the primitives, a full queue drops them, ...
AcceptPush ==
    /\ ex.pc = "push"
    /\ moprim_queue' = IF Len(moprim_queue) < Capacity
                         THEN Append(moprim_queue, Head(ex.left)) ELSE moprim_queue
    /\ ex' = [ex EXCEPT !.left = Tail(@),
                        !.pc = IF Len(ex.left) = 1 THEN "publish" ELSE "push"]
    /\ UNCHANGED <<node, command, has_active_goal, rt_goal_handle, cancel_requested,
                   robot_stop_requested, was_executing, handles, rt, hardware>>

FaultyPublished == rt_goal_handle
Published == ex.goal

\* ... and then makes the goal the active one, under the lock of its box.
AcceptPublish ==
    /\ ex.pc = "publish"
    /\ rt_goal_handle' = Published /\ has_active_goal' = TRUE
    /\ ex' = [ex EXCEPT !.pc = "execute"]
    /\ UNCHANGED <<node, command, moprim_queue, cancel_requested, robot_stop_requested,
                   was_executing, handles, rt, hardware>>

AcceptExecute ==
    /\ ex.pc = "execute"
    /\ status' = [status EXCEPT ![ex.goal] = "executing"]
    /\ goal_handle_timer' = ex.goal
    /\ ex' = ExIdle
    /\ UNCHANGED <<node, command, moprim_queue, has_active_goal, rt_goal_handle,
                   cancel_requested, robot_stop_requested, was_executing, request,
                   canceling, rt, hardware>>

\* Any goal that executes may be canceled, the active one or not.
goal_cancelled_callback(g) ==
    /\ ex.pc = "idle" /\ ExecutorTurn /\ status[g] = "executing" /\ g \notin canceling
    /\ cancel_requested' = TRUE
    /\ canceling' = canceling \cup {g}
    /\ UNCHANGED <<node, command, moprim_queue, has_active_goal, rt_goal_handle,
                   robot_stop_requested, was_executing, request, status,
                   goal_handle_timer, rt, ex, hardware>>

runNonRealtime ==
    /\ ex.pc = "idle" /\ ExecutorTurn
    /\ \E g \in Goals :
           /\ goal_handle_timer = g /\ status[g] = "executing" /\ request[g] # "none"
           /\ status' = [status EXCEPT ![g] = request[g]]
    /\ UNCHANGED <<node, command, moprim_queue, has_active_goal, rt_goal_handle,
                   cancel_requested, robot_stop_requested, was_executing, request,
                   canceling, goal_handle_timer, rt, ex, hardware>>

-----------------------------------------------------------------------------
(* The hardware interface.                                                   *)

\* A motion outside a sequence, or the end of a sequence, starts the execution.
Starts(c) == c.part = "end" \/ (c.part = "motion" /\ taken = <<>>)

HardwareTake ==
    /\ rt = "idle" /\ command # Empty
    /\ command' = Empty
    /\ CASE command = Stop -> execution_status' = "STOPPING" /\ taken' = <<>>
         [] command = Reset -> execution_status' = "IDLE" /\ taken' = <<>>
         [] OTHER -> /\ execution_status' = IF Starts(command) THEN "EXECUTING"
                                            ELSE execution_status
                     /\ taken' = Append(taken, command)
    /\ UNCHANGED <<node, moprim_queue, has_active_goal, rt_goal_handle, cancel_requested,
                   robot_stop_requested, was_executing, handles, rt, ex, executed>>

HardwareMoves(from, to) ==
    /\ rt = "idle" /\ execution_status = from /\ execution_status' = to
    /\ UNCHANGED <<node, command, moprim_queue, has_active_goal, rt_goal_handle,
                   cancel_requested, robot_stop_requested, was_executing, handles, rt, ex>>

\* A motion lasts until an active controller has seen it execute.
HardwareFinish ==
    /\ was_executing \/ lifecycle = "inactive"
    /\ HardwareMoves("EXECUTING", "SUCCESS")
    /\ taken' = <<>>
    /\ executed' = executed \cup {g \in Goals : taken = Plan(g)}

HardwareFail ==
    /\ HardwareMoves("EXECUTING", "ERROR")
    /\ taken' = <<>> /\ UNCHANGED executed

HardwareStop ==
    /\ HardwareMoves("STOPPING", "STOPPED")
    /\ UNCHANGED <<taken, executed>>

-----------------------------------------------------------------------------
Accept == AcceptPush \/ AcceptPublish \/ AcceptExecute
Update == UpdateCancel \/ UpdateStatus \/ UpdateSend

Next ==
    \/ Update \/ on_activate \/ on_deactivate
    \/ \E g \in Goals : goal_received_callback(g) \/ goal_cancelled_callback(g)
    \/ Accept \/ runNonRealtime
    \/ HardwareTake \/ HardwareFinish \/ HardwareFail \/ HardwareStop

Spec == Init /\ [][Next]_vars

\* The control loop and the executor go on, and so does the hardware, which gets its
\* turn between two cycles again and again.  Nothing has to be activated.
FairSpec ==
    /\ Spec
    /\ SF_vars(UpdateCancel) /\ WF_vars(UpdateStatus) /\ WF_vars(UpdateSend)
    /\ WF_vars(Accept) /\ SF_vars(runNonRealtime)
    /\ SF_vars(HardwareTake) /\ SF_vars(HardwareFinish) /\ SF_vars(HardwareStop)

-----------------------------------------------------------------------------
(* Properties.                                                               *)

\* The types of the variables.  The queue never holds more than its capacity, and
\* an active goal always has its handle (rt_goal_handle_, has_active_goal_).
TypeOK ==
    /\ lifecycle \in {"inactive", "active"} /\ deactivations \in 0..MaxDeactivations
    /\ command \in {Stop, Reset, Empty} \/ \E g \in Goals : command \in Range(Plan(g))
    /\ Len(moprim_queue) <= Capacity
    /\ has_active_goal \in BOOLEAN /\ rt_goal_handle \in Goals \cup {None}
    /\ has_active_goal => rt_goal_handle \in Goals
    /\ {cancel_requested, robot_stop_requested, was_executing} \subseteq BOOLEAN
    /\ request \in [Goals -> {"none", "succeeded", "canceled"}]
    /\ status \in [Goals -> {"unsent", "rejected", "executing", "succeeded", "canceled"}]
    /\ canceling \subseteq Goals /\ executed \subseteq Goals
    /\ goal_handle_timer \in Goals \cup {None}
    /\ rt \in {"idle", "status", "ready"}
    /\ ex.pc \in {"idle", "push", "publish", "execute"}
    /\ execution_status \in {"IDLE", "EXECUTING", "SUCCESS", "ERROR", "STOPPING", "STOPPED"}

\* All primitives between the two markers form one sequence: whatever is canceled or
\* deactivated on the way, the hardware only ever collects the beginning of the plan
\* of one goal, never the remains of one or a mixture of two.
SequencesAreWhole == taken # <<>> => \E g \in Goals : IsPrefix(taken, Plan(g))

\* update() reports success only for a goal whose whole plan the hardware has executed:
\* SUCCESS left over from an earlier goal, or seen before the motion has started, does
\* not count.
SuccessIsExecuted == \A g \in Goals : request[g] = "succeeded" => g \in executed

\* update() comes to a result for every goal that runs, as long as the hardware reports
\* no error, which ends no goal, and the controller is not deactivated, which may hide
\* the execution.  (The result may still be lost on its way to the client, see README.)
GoalGetsResult ==
    \A g \in Goals :
        status[g] = "executing" ~>
            request[g] # "none" \/ execution_status = "ERROR" \/ deactivations > 0

\* A cancel request is answered even after an error: the robot is stopped and the
\* goal, unless it has succeeded meanwhile, is canceled.
CancelIsAnswered ==
    \A g \in Goals :
        g \in canceling ~> request[g] # "none" \/ lifecycle = "inactive"
===============================================================================
