---------------------- MODULE ParallelGripperController ----------------------
(****************************************************************************)
(* The parallel gripper action controller: one goal at a time closes or      *)
(* opens the gripper, which reaches the position asked for or stalls.        *)
(*                                                                           *)
(* The real-time thread runs update() and the life cycle, the executor the   *)
(* action callbacks and the timer.  They share three boxes, command_,        *)
(* rt_active_goal_ and last_movement_time_, which the executor locks and     *)
(* update() only tries to lock; a handler is split where it meets one.       *)
(*                                                                           *)
(* A command is its position; velocity and effort are passed along with it.  *)
(* A position stands for all those within goal_tolerance of it.  The result  *)
(* message is left out: it repeats which of the two ends the goal came to.   *)
(* The definitions Faulty... are the mutants that the properties are tried on.*)
(****************************************************************************)
EXTENDS Integers

CONSTANTS
    Goals,
    Positions,      \* of the gripper, and to command
    StallTimeout,   \* params_.stall_timeout
    AllowStalling,  \* params_.allow_stalling
    Overlap,        \* may a callback and a cycle be under way at once?
    Uninitialized,  \* the clock of the time that on_activate stores
    None

ASSUME GripperAssumption ==
    /\ Positions # {}
    /\ StallTimeout \in Nat
    /\ AllowStalling \in BOOLEAN /\ Overlap \in BOOLEAN
    /\ Uninitialized \notin Int
    /\ None \notin Goals

VARIABLES
    lifecycle,
    at,                 \* the position of the gripper
    moving,             \* does the cycle under way read a velocity above the threshold?
    has_server,         \* action_server_
    command_struct,     \* command_struct_, of the executor
    command,            \* command_, the box
    command_struct_rt,  \* command_struct_rt_, of update()
    rt_active_goal,
    still,              \* the age of last_movement_time_
    request,            \* the result a goal handle was asked for
    status,             \* what the client of a goal has been told
    served,             \* the goals of the action server there is
    goal_handle_timer,
    target,             \* history: what the last goal asks for
    rested,             \* history: how long no cycle has seen the gripper move, since the
                        \* goal was accepted at most
    rt, ex              \* the threads: pc and goal

gripper == <<at, moving>>
commands == <<command_struct, command>>
handles == <<request, status, has_server, served, goal_handle_timer>>
history == <<target, rested>>
vars == <<lifecycle, gripper, commands, command_struct_rt,
          rt_active_goal, still, handles, history, rt, ex>>

Idle == [pc |-> "idle", goal |-> None]
RtMay == rt.pc = "idle" /\ (Overlap \/ ex.pc = "idle")
ExMay == ex.pc = "idle" /\ (Overlap \/ rt.pc = "idle")

\* An attempt to lock a box fails while the executor may be inside it.
Attempts(pcs) == IF ex.pc \in pcs THEN BOOLEAN ELSE {TRUE}

\* of: the goal that asked for the position, or None when it is that of the gripper.
Command(position, goal) == [position |-> position, of |-> goal]

MaxAge == StallTimeout + 1
Older(n) == IF n \in Int /\ n < MaxAge THEN n + 1 ELSE n

\* A goal handle keeps the first result it is asked for.
Ask(req, g, result) == IF req[g] = "none" THEN [req EXCEPT ![g] = result] ELSE req

\* Before the first activation the commands hold any value.
Init ==
    /\ lifecycle = "unconfigured"
    /\ at \in Positions /\ moving = FALSE
    /\ command_struct \in {Command(p, None) : p \in Positions}
    /\ command = command_struct
    /\ command_struct_rt = command_struct
    /\ rt_active_goal = None /\ still = Uninitialized
    /\ request = [g \in Goals |-> "none"]
    /\ status = [g \in Goals |-> "unsent"]
    /\ has_server = FALSE /\ served = {} /\ goal_handle_timer = None
    /\ target = None /\ rested = 0
    /\ rt = Idle /\ ex = Idle

\* The hardware is read between two cycles.
Move ==
    /\ rt.pc = "idle"
    /\ at' \in Positions
    /\ UNCHANGED <<lifecycle, moving, commands, command_struct_rt,
                   rt_active_goal, still, handles, history, rt, ex>>

Tick ==
    /\ rt.pc = "idle" /\ lifecycle = "active"
    /\ still' = Older(still) /\ rested' = Older(rested)
    /\ UNCHANGED <<lifecycle, gripper, commands, command_struct_rt,
                   rt_active_goal, handles, target, rt, ex>>

-----------------------------------------------------------------------------
(* The real-time thread: update().                                           *)

\* The command of the box, or that of the cycle before; the cycle ends when the
\* position or the velocity cannot be read.
UpdateRead(readable, velocity) ==
    /\ RtMay /\ lifecycle = "active"
    /\ \E got \in Attempts({"command", "hold"}) :
           command_struct_rt' = IF got THEN command ELSE command_struct_rt
    /\ rt' = IF readable THEN [rt EXCEPT !.pc = "check"] ELSE rt
    /\ moving' = (readable /\ velocity)
    /\ rested' = IF moving' THEN 0 ELSE rested
    /\ UNCHANGED <<lifecycle, at, commands, rt_active_goal,
                   still, handles, target, ex>>

UpdateCheck ==
    /\ rt.pc = "check"
    /\ \E got \in Attempts({"preempt", "publish", "cancel", "clear"}) :
           LET goal == IF got THEN rt_active_goal ELSE None
           IN  rt' = [pc |-> IF goal = None THEN "write" ELSE "judge", goal |-> goal]
    /\ UNCHANGED <<lifecycle, gripper, commands, command_struct_rt,
                   rt_active_goal, still, handles, history, ex>>

Reached == command_struct_rt.position = at
FaultyStalled == still = StallTimeout
Stalled == still > StallTimeout

Conclude(result) ==
    /\ request' = Ask(request, rt.goal, result)
    /\ rt' = [rt EXCEPT !.pc = "conclude"]
    /\ UNCHANGED still

Continue == rt' = [rt EXCEPT !.pc = "write"] /\ UNCHANGED request

\* The gripper moves now; the box keeps an earlier time when it is locked.
FaultyTimed(done) == still
Timed(done) == IF done THEN 0 ELSE still

\* check_for_success().  Since an activation the last movement may be that of no
\* clock, which cannot be compared: the exception ends the cycle.
UpdateJudge ==
    /\ rt.pc = "judge"
    /\ \/ Reached /\ Conclude("succeeded")
       \/ /\ ~Reached /\ moving
          /\ \E done \in Attempts({"moved"}) : still' = Timed(done)
          /\ Continue
       \/ /\ ~Reached /\ ~moving /\ still = Uninitialized
          /\ rt' = Idle /\ UNCHANGED <<request, still>>
       \/ /\ ~Reached /\ ~moving /\ still # Uninitialized
          /\ \E got \in Attempts({"moved"}) :
                IF got /\ Stalled
                THEN Conclude(IF AllowStalling THEN "succeeded" ELSE "aborted")
                ELSE Continue /\ UNCHANGED still
    /\ UNCHANGED <<lifecycle, gripper, commands, command_struct_rt,
                   rt_active_goal, status, has_server, served, goal_handle_timer, history, ex>>

\* The goal stays active when the box is locked.
UpdateConclude ==
    /\ rt.pc = "conclude"
    /\ \E done \in Attempts({"preempt", "publish", "cancel", "clear"}) :
           rt_active_goal' = IF done THEN None ELSE rt_active_goal
    /\ rt' = [rt EXCEPT !.pc = "write"]
    /\ UNCHANGED <<lifecycle, gripper, commands, command_struct_rt,
                   still, handles, history, ex>>

\* The command interfaces are given command_struct_rt; what they do with it is not
\* seen here.
UpdateWrite ==
    /\ rt.pc = "write"
    /\ rt' = Idle /\ moving' = FALSE
    /\ UNCHANGED <<lifecycle, at, commands, command_struct_rt,
                   rt_active_goal, still, handles, history, ex>>

Update ==
    \/ \E readable, velocity \in BOOLEAN : UpdateRead(readable, velocity)
    \/ UpdateCheck \/ UpdateJudge \/ UpdateConclude \/ UpdateWrite

-----------------------------------------------------------------------------
(* The executor: a goal.  Its server is created by the first activation and   *)
(* takes goals in every state from then on.                                  *)

goal_callback(g, accepted, position) ==
    /\ ExMay /\ has_server
    /\ status[g] = "unsent"
    /\ served' = served \cup {g}
    /\ IF accepted
       THEN /\ ex' = [pc |-> "preempt", goal |-> g]
            /\ target' = position
            /\ UNCHANGED status
       ELSE /\ status' = [status EXCEPT ![g] = "rejected"]
            /\ UNCHANGED <<ex, target>>
    /\ UNCHANGED <<lifecycle, gripper, commands, command_struct_rt,
                   rt_active_goal, still, request, has_server, goal_handle_timer, rested, rt>>

FaultyPreempted == request
Preempted ==
    IF rt_active_goal = None THEN request ELSE Ask(request, rt_active_goal, "canceled")

\* accepted_callback: the goal before is asked to end as canceled ...
preempt_active_goal ==
    /\ ex.pc = "preempt"
    /\ request' = Preempted
    /\ rt_active_goal' = None
    /\ rested' = 0
    /\ ex' = [ex EXCEPT !.pc = "command"]
    /\ UNCHANGED <<lifecycle, gripper, commands, command_struct_rt,
                   still, status, has_server, served, goal_handle_timer, target, rt>>

\* ... the command is put into its box ...
AcceptCommand ==
    /\ ex.pc = "command"
    /\ command_struct' = Command(target, ex.goal)
    /\ command' = command_struct'
    /\ ex' = [ex EXCEPT !.pc = "moved"]
    /\ UNCHANGED <<lifecycle, gripper, command_struct_rt,
                   rt_active_goal, still, handles, history, rt>>

\* ... the gripper is taken to have moved just now ...
AcceptMoved ==
    /\ ex.pc = "moved"
    /\ still' = 0
    /\ ex' = [ex EXCEPT !.pc = "publish"]
    /\ UNCHANGED <<lifecycle, gripper, commands, command_struct_rt,
                   rt_active_goal, handles, history, rt>>

\* ... the goal executes, and the timer polls its handle in place of the last one.
AcceptPublish ==
    /\ ex.pc = "publish"
    /\ status' = [status EXCEPT ![ex.goal] = "executing"]
    /\ rt_active_goal' = ex.goal /\ goal_handle_timer' = ex.goal
    /\ ex' = Idle
    /\ UNCHANGED <<lifecycle, gripper, commands, command_struct_rt,
                   still, request, has_server, served, history, rt>>

\* A request to cancel the active goal.  For any other it changes nothing here: it is
\* accepted too, but only the library notes that the goal is canceling.
cancel_callback(g) ==
    /\ ExMay
    /\ g \in served /\ status[g] = "executing" /\ rt_active_goal = g
    /\ ex' = [pc |-> "hold", goal |-> g]
    /\ UNCHANGED <<lifecycle, gripper, commands, command_struct_rt,
                   rt_active_goal, still, handles, history, rt>>

FaultyHeld == command
Held == command_struct'

\* The position is held.  Without an activation the position interface is gone,
\* and what is read through it undefined.
set_hold_position ==
    /\ ex.pc = "hold"
    /\ \E p \in IF lifecycle = "active" THEN {at} ELSE Positions :
           command_struct' = Command(p, None)
    /\ command' = Held
    /\ ex' = [ex EXCEPT !.pc = "clear"]
    /\ UNCHANGED <<lifecycle, gripper, command_struct_rt,
                   rt_active_goal, still, handles, history, rt>>

CancelClear ==
    /\ ex.pc = "clear"
    /\ request' = Ask(request, ex.goal, "canceled")
    /\ rt_active_goal' = None
    /\ ex' = Idle
    /\ UNCHANGED <<lifecycle, gripper, commands, command_struct_rt,
                   still, status, has_server, served, goal_handle_timer, history, rt>>

\* The timer delivers a result, unless the server of the goal is gone.
runNonRealtime ==
    /\ ExMay
    /\ \E g \in served :
           /\ goal_handle_timer = g /\ status[g] = "executing" /\ request[g] # "none"
           /\ status' = [status EXCEPT ![g] = request[g]]
    /\ UNCHANGED <<lifecycle, gripper, commands, command_struct_rt,
                   rt_active_goal, still, request, has_server, served, goal_handle_timer, history,
                   rt, ex>>

Callback ==
    \/ \E g \in Goals, accepted \in BOOLEAN, p \in Positions : goal_callback(g, accepted, p)
    \/ preempt_active_goal \/ AcceptCommand \/ AcceptMoved \/ AcceptPublish
    \/ \E g \in Goals : cancel_callback(g)
    \/ set_hold_position \/ CancelClear
    \/ runNonRealtime

-----------------------------------------------------------------------------
(* The life cycle.                                                           *)

Becomes(state) ==
    /\ lifecycle' = state
    /\ UNCHANGED <<gripper, command_struct_rt, rt_active_goal, request,
                   status, goal_handle_timer, history, rt, ex>>

on_configure ==
    /\ RtMay /\ lifecycle = "unconfigured"
    /\ Becomes("inactive")
    /\ UNCHANGED <<commands, still, has_server, served>>

\* There is no on_cleanup, and an activation that misses an interface is an error.
Unconfigure ==
    /\ RtMay /\ lifecycle = "inactive"
    /\ Becomes("unconfigured")
    /\ UNCHANGED <<commands, still, has_server, served>>

FaultyUnread == Command(None, None)
Unread == command_struct

\* The gripper holds its position when that can be read; else the last command
\* stays.  The active goal stays too, but the server it came from is replaced.
on_activate(readable) ==
    /\ RtMay /\ lifecycle = "inactive"
    /\ Becomes("active")
    /\ command_struct' = IF readable THEN Command(at, None) ELSE Unread
    /\ \E done \in Attempts({"command", "hold"}) :
           command' = IF done THEN command_struct' ELSE command
    /\ \E done \in Attempts({"moved"}) : still' = IF done THEN Uninitialized ELSE still
    /\ has_server' = TRUE /\ served' = {}

on_deactivate ==
    /\ RtMay /\ lifecycle = "active"
    /\ Becomes("inactive")
    /\ UNCHANGED <<commands, still, has_server, served>>

Lifecycle ==
    \/ on_configure \/ Unconfigure \/ on_deactivate
    \/ \E readable \in BOOLEAN : on_activate(readable)

Next == Update \/ Callback \/ Lifecycle \/ Move \/ Tick

Spec == Init /\ [][Next]_vars

\* The cycle is periodic, the interfaces are readable again and again, time
\* passes; a callback that has begun ends, and the timer fires.
FairSpec ==
    /\ Spec
    /\ SF_vars(\E velocity \in BOOLEAN : UpdateRead(TRUE, velocity)) /\ SF_vars(Tick) /\ SF_vars(runNonRealtime)
    /\ WF_vars(UpdateCheck) /\ WF_vars(UpdateJudge)
    /\ WF_vars(UpdateConclude) /\ WF_vars(UpdateWrite)
    /\ WF_vars(preempt_active_goal) /\ WF_vars(AcceptCommand)
    /\ WF_vars(AcceptMoved) /\ WF_vars(AcceptPublish)
    /\ WF_vars(set_hold_position) /\ WF_vars(CancelClear)

-----------------------------------------------------------------------------
(* Properties.                                                               *)

CommandType == [position : Positions, of : Goals \cup {None}]
Results == {"aborted", "canceled", "succeeded"}

\* The variables keep their types.
TypeOK ==
    /\ lifecycle \in {"unconfigured", "inactive", "active"}
    /\ at \in Positions /\ moving \in BOOLEAN
    /\ command_struct \in CommandType /\ command \in CommandType
    /\ command_struct_rt \in CommandType
    /\ rt_active_goal \in Goals \cup {None}
    /\ still \in 0..MaxAge \cup {Uninitialized}
    /\ request \in [Goals -> Results \cup {"none"}]
    /\ status \in [Goals -> Results \cup {"unsent", "rejected", "executing"}]
    /\ has_server \in BOOLEAN /\ served \subseteq Goals /\ goal_handle_timer \in Goals \cup {None}
    /\ target \in Positions \cup {None} /\ rested \in 0..MaxAge
    /\ rt \in [pc : {"idle", "check", "judge", "conclude", "write"},
               goal : Goals \cup {None}]
    /\ ex \in [pc : {"idle", "preempt", "command", "moved", "publish", "hold", "clear"},
               goal : Goals \cup {None}]

\* A goal of this activation ends by itself because the gripper is where that goal
\* asks for, or because for more than stall_timeout, all of it since the goal was
\* accepted, no cycle has seen the gripper move: never on the command of another goal,
\* the rest before its own, or a rest that a movement interrupts.
EndIsEarned ==
    [][\A g \in served :
           request[g] = "none" /\ request'[g] \in {"succeeded", "aborted"}
           => \/ Reached /\ at = target
              \/ rested > StallTimeout]_vars

\* Once a client has canceled a goal no later cycle commands what it asked for.
CanceledIsHeld ==
    rt.pc = "write"
    => \A g \in Goals : request[g] = "canceled" => command_struct_rt.of # g

\* A goal of this activation ends and its client is told, as long as the gripper
\* comes to rest, the controller stays active and no other goal takes its timer.
GoalEnds ==
    \A g \in Goals :
        (g \in served /\ status[g] = "executing")
        ~> (status[g] \in Results \/ moving \/ lifecycle # "active"
            \/ goal_handle_timer # g)

\* The state of every goal, a result counting from when the handle is asked for it.
GoalView == [g \in Goals |-> IF request[g] = "none" THEN status[g] ELSE request[g]]
AG == INSTANCE ActionGoals WITH goal <- GoalView

\* The goals are those of an action server that executes one at a time, also over
\* activations: none starts while another one executes, and a result is final.
GripperGoals == AG!Spec
=============================================================================
