-------------------- MODULE ParallelGripperController_proofs --------------------
(****************************************************************************)
(* Theorems about the parallel gripper action controller, for every set of   *)
(* goals and positions and every stall timeout: types with both threads; and *)
(* when a handler runs to its end before another one starts, that a canceled *)
(* goal is not commanded, that a goal ends by itself on its own command or   *)
(* its own rest, and that the goals implement ActionGoals.                   *)
(****************************************************************************)
EXTENDS ParallelGripperController, TLAPS

USE DEF Results, MaxAge

-----------------------------------------------------------------------------
(* Type correctness.  It takes what the threads keep in their locals.        *)

AcceptPcs == {"preempt", "command", "moved", "publish"}

\* A callback works on a goal, and one that is accepted has set the target.
ExecutorTyped ==
    /\ ex.pc # "idle" => ex.goal \in Goals
    /\ ex.pc \in AcceptPcs => target \in Positions

\* update() judges and concludes a goal.
JudgeTyped == rt.pc \in {"judge", "conclude"} => rt.goal \in Goals

TypeInv == TypeOK /\ ExecutorTyped /\ JudgeTyped

\* Asking a handle for a result leaves a table of requests, and that handle with
\* a request.
LEMMA AskType ==
    ASSUME NEW req \in [Goals -> Results \cup {"none"}], NEW g, NEW r \in Results
    PROVE  /\ Ask(req, g, r) \in [Goals -> Results \cup {"none"}]
           /\ g \in Goals => Ask(req, g, r)[g] \in Results
           /\ \A h \in Goals : h # g => Ask(req, g, r)[h] = req[h]
BY DEF Ask

LEMMA InitTypeInv == Init => TypeInv
<1> SUFFICES ASSUME Init PROVE TypeInv
  OBVIOUS
<1>1. /\ command_struct \in CommandType
      /\ command \in CommandType /\ command_struct_rt \in CommandType
  BY DEF Init, Command, CommandType
<1>2. /\ moving \in BOOLEAN /\ has_server \in BOOLEAN
      /\ rt = Idle /\ ex = Idle
  BY DEF Init
<1>. QED
  BY <1>1, <1>2, GripperAssumption
  DEF Init, TypeInv, TypeOK, ExecutorTyped, JudgeTyped, AcceptPcs, Idle

LEMMA UpdateTypeInv == TypeInv /\ Update => TypeInv'
<1> SUFFICES ASSUME TypeInv, Update PROVE TypeInv'
  OBVIOUS
<1>. USE GripperAssumption DEF TypeInv, TypeOK, ExecutorTyped, JudgeTyped, AcceptPcs,
       gripper, commands, handles, history
<1>1. ASSUME NEW readable \in BOOLEAN, NEW velocity \in BOOLEAN, UpdateRead(readable, velocity)
      PROVE  TypeInv'
  BY <1>1 DEF UpdateRead
<1>2. CASE UpdateCheck
  BY <1>2 DEF UpdateCheck
<1>3. CASE UpdateJudge
  <2>1. rt.pc = "judge" /\ rt.goal \in Goals
    BY <1>3 DEF UpdateJudge
  <2>2. /\ request' = request \/ \E r \in Results : request' = Ask(request, rt.goal, r)
        /\ still' \in {still, 0}
        /\ rt' \in {Idle, [rt EXCEPT !.pc = "conclude"], [rt EXCEPT !.pc = "write"]}
    <3>1. CASE \E r \in Results : Conclude(r)
      BY <3>1 DEF Conclude
    <3>2. CASE ~\E r \in Results : Conclude(r)
      BY <1>3, <3>2 DEF UpdateJudge, Continue, Timed
    <3>. QED
      BY <3>1, <3>2
  <2>3. request' \in [Goals -> Results \cup {"none"}]
    <3>1. \A r \in Results : Ask(request, rt.goal, r) \in [Goals -> Results \cup {"none"}]
      BY AskType
    <3>. QED
      BY <2>2, <3>1
  <2>4. /\ rt' \in [pc : {"idle", "check", "judge", "conclude", "write"},
                    goal : Goals \cup {None}]
        /\ JudgeTyped'
    BY <2>1, <2>2 DEF Idle
  <2>5. still' \in 0..MaxAge \cup {Uninitialized}
    BY <2>2
  <2>. QED
    BY <1>3, <2>3, <2>4, <2>5 DEF UpdateJudge
<1>4. CASE UpdateConclude
  BY <1>4 DEF UpdateConclude
<1>5. CASE UpdateWrite
  BY <1>5 DEF UpdateWrite, Idle
<1>. QED
  BY <1>1, <1>2, <1>3, <1>4, <1>5 DEF Update

LEMMA CallbackTypeInv == TypeInv /\ Callback => TypeInv'
<1> SUFFICES ASSUME TypeInv, Callback PROVE TypeInv'
  OBVIOUS
<1>. USE GripperAssumption DEF TypeInv, TypeOK, ExecutorTyped, JudgeTyped, AcceptPcs,
       gripper, commands, handles, history
<1>1. ASSUME NEW g \in Goals, NEW accepted \in BOOLEAN, NEW p \in Positions,
             goal_callback(g, accepted, p)
      PROVE  TypeInv'
  BY <1>1 DEF goal_callback
<1>2. CASE preempt_active_goal
  <2>1. request' \in [Goals -> Results \cup {"none"}]
    BY <1>2, AskType DEF preempt_active_goal, Preempted
  <2>. QED
    BY <1>2, <2>1 DEF preempt_active_goal
<1>3. CASE AcceptCommand
  BY <1>3 DEF AcceptCommand, Command, CommandType
<1>4. CASE AcceptMoved
  BY <1>4 DEF AcceptMoved
<1>5. CASE AcceptPublish
  BY <1>5 DEF AcceptPublish, Idle
<1>6. ASSUME NEW g \in Goals, cancel_callback(g) PROVE TypeInv'
  BY <1>6 DEF cancel_callback
<1>7. CASE set_hold_position
  BY <1>7 DEF set_hold_position, Held, Command, CommandType
<1>8. CASE CancelClear
  <2>1. request' \in [Goals -> Results \cup {"none"}]
    BY <1>8, AskType DEF CancelClear
  <2>. QED
    BY <1>8, <2>1 DEF CancelClear, Idle
<1>9. CASE runNonRealtime
  BY <1>9 DEF runNonRealtime
<1>. QED
  BY <1>1, <1>2, <1>3, <1>4, <1>5, <1>6, <1>7, <1>8, <1>9 DEF Callback

LEMMA LifecycleTypeInv == TypeInv /\ Lifecycle => TypeInv'
<1> SUFFICES ASSUME TypeInv, Lifecycle PROVE TypeInv'
  OBVIOUS
<1>. USE GripperAssumption DEF TypeInv, TypeOK, ExecutorTyped, JudgeTyped, AcceptPcs,
       gripper, commands, handles, history, Becomes
<1>1. CASE on_configure \/ Unconfigure \/ on_deactivate
  BY <1>1 DEF on_configure, Unconfigure, on_deactivate
<1>2. ASSUME NEW readable \in BOOLEAN, on_activate(readable) PROVE TypeInv'
  <2>1. command_struct' \in CommandType /\ command' \in CommandType
    BY <1>2 DEF on_activate, Command, CommandType, Unread
  <2>2. still' \in 0..MaxAge \cup {Uninitialized}
    BY <1>2 DEF on_activate
  <2>. QED
    BY <1>2, <2>1, <2>2 DEF on_activate
<1>. QED
  BY <1>1, <1>2 DEF Lifecycle

LEMMA ClockTypeInv == TypeInv /\ (Move \/ Tick) => TypeInv'
<1> SUFFICES ASSUME TypeInv, Move \/ Tick PROVE TypeInv'
  OBVIOUS
<1>1. CASE Move
  BY <1>1 DEF Move, TypeInv, TypeOK, ExecutorTyped, JudgeTyped, commands, handles, history
<1>2. CASE Tick
  <2>1. \A n \in 0..MaxAge \cup {Uninitialized} : Older(n) \in 0..MaxAge \cup {Uninitialized}
    BY GripperAssumption DEF Older
  <2>2. rested' \in 0..MaxAge
    BY <1>2, GripperAssumption DEF Tick, Older, TypeInv, TypeOK
  <2>3. still' \in 0..MaxAge \cup {Uninitialized}
    BY <1>2, <2>1 DEF Tick, TypeInv, TypeOK
  <2>. QED
    BY <1>2, <2>2, <2>3
    DEF Tick, TypeInv, TypeOK, ExecutorTyped, JudgeTyped, gripper, commands, handles
<1>. QED
  BY <1>1, <1>2

LEMMA NextTypeInv == TypeInv /\ [Next]_vars => TypeInv'
<1>1. TypeInv /\ UNCHANGED vars => TypeInv'
  BY DEF vars, gripper, commands, handles, history, TypeInv, TypeOK, ExecutorTyped, JudgeTyped
<1>. QED
  BY <1>1, UpdateTypeInv, CallbackTypeInv, LifecycleTypeInv, ClockTypeInv DEF Next

\* The variables keep their types, however the two threads interleave.
THEOREM TypeCorrect == Spec => []TypeOK
<1>1. TypeInv => TypeOK
  BY DEF TypeInv
<1>. QED
  BY <1>1, InitTypeInv, NextTypeInv, PTL DEF Spec

-----------------------------------------------------------------------------
(* The goals, when a handler runs to its end before another one starts.      *)

\* No handler starts while another one runs.
OneHandler == rt.pc = "idle" \/ ex.pc = "idle"

\* The goal a cycle judges is the active one until it ends, and has been asked for
\* its result before it is cleared.
LocalGoal ==
    /\ rt.pc \in {"judge", "conclude"} => rt.goal = rt_active_goal
    /\ rt.pc = "conclude" => request[rt.goal] # "none"

\* No goal is active from its preemption to the publication of the next one, which
\* does not execute before.
Arriving ==
    /\ ex.pc \in {"command", "moved", "publish"} => rt_active_goal = None
    /\ ex.pc \in AcceptPcs => status[ex.goal] = "unsent"

\* A goal is canceled while it is the active one.
Canceling == ex.pc \in {"hold", "clear"} => ex.goal = rt_active_goal

\* A handle is asked for a result only after its goal began to execute.
Unasked == \A g \in Goals : status[g] \in {"unsent", "rejected"} => request[g] = "none"

\* The active goal executes, or has been told its result.
ActiveExecutes == rt_active_goal # None =>
    /\ status[rt_active_goal] \notin {"unsent", "rejected"}
    /\ request[rt_active_goal] = "none" => status[rt_active_goal] = "executing"

\* A goal that executes and was not asked to end is the active goal.
Live(g) == status[g] = "executing" /\ request[g] = "none"
LiveGoalIsActive == \A g \in Goals : Live(g) => rt_active_goal = g

Threads == OneHandler /\ LocalGoal /\ Arriving /\ Canceling
GoalsInv == Threads /\ Unasked /\ ActiveExecutes /\ LiveGoalIsActive

LEMMA InitGoalsInv == Init => GoalsInv
BY DEF Init, GoalsInv, Threads, OneHandler, LocalGoal, Arriving, Canceling, AcceptPcs, Unasked,
       ActiveExecutes, LiveGoalIsActive, Live, Idle

\* What the typed state says of its goals and locals.
LEMMA GoalTypes ==
    TypeInv => /\ rt_active_goal # None => rt_active_goal \in Goals
               /\ request \in [Goals -> Results \cup {"none"}]
               /\ status \in [Goals -> Results \cup {"unsent", "rejected", "executing"}]
               /\ None \notin Goals
               /\ rt.pc \in {"judge", "conclude"} => rt.goal \in Goals
               /\ ex.pc # "idle" => ex.goal \in Goals
               /\ rt = [pc |-> rt.pc, goal |-> rt.goal]
               /\ ex = [pc |-> ex.pc, goal |-> ex.goal]
BY GripperAssumption DEF TypeInv, TypeOK, ExecutorTyped, JudgeTyped

\* When handlers do not overlap an attempt of a cycle to lock a box succeeds.
LEMMA NoAttemptFails ==
    ASSUME OneHandler, rt.pc # "idle"
    PROVE  /\ Attempts({"preempt", "publish", "cancel", "clear"}) = {TRUE}
           /\ Attempts({"moved"}) = {TRUE}
BY DEF OneHandler, Attempts

\* A step that leaves the goals alone keeps what the invariant says of them.
LEMMA GoalsKept ==
    ASSUME GoalsInv, Threads', UNCHANGED <<request, status, rt_active_goal>>
    PROVE  GoalsInv'
BY DEF GoalsInv, Unasked, ActiveExecutes, LiveGoalIsActive, Live

\* A step that asks the active goal's handle for a result leaves no goal live.
LEMMA GoalReleased ==
    ASSUME TypeInv, GoalsInv, NEW r \in Results,
           rt_active_goal # None, request' = Ask(request, rt_active_goal, r)
    PROVE  /\ \A g \in Goals : ~(status[g] = "executing" /\ request'[g] = "none")
           /\ \A g \in Goals : status[g] \in {"unsent", "rejected"} => request'[g] = "none"
           /\ request'[rt_active_goal] # "none"
<1>1. rt_active_goal \in Goals /\ request \in [Goals -> Results \cup {"none"}]
  BY GoalTypes
<1>2. /\ request'[rt_active_goal] \in Results
      /\ \A h \in Goals : h # rt_active_goal => request'[h] = request[h]
  BY <1>1, AskType
<1>. QED
  BY <1>1, <1>2 DEF GoalsInv, Unasked, ActiveExecutes, LiveGoalIsActive, Live

LEMMA UpdateGoalsInv ==
    ASSUME Overlap = FALSE, TypeInv, GoalsInv, Update
    PROVE  GoalsInv'
<1>. USE DEF Threads, OneHandler, LocalGoal, Arriving, Canceling, AcceptPcs
<1>0. GoalsInv /\ Threads
  BY DEF GoalsInv
<1>1. ASSUME NEW readable \in BOOLEAN, NEW velocity \in BOOLEAN, UpdateRead(readable, velocity)
      PROVE  GoalsInv'
  <2>1. Threads' /\ UNCHANGED <<request, status, rt_active_goal>>
    BY <1>0, <1>1, GoalTypes DEF UpdateRead, RtMay, handles
  <2>. QED
    BY <2>1, GoalsKept
<1>2. CASE UpdateCheck
  <2>0. Attempts({"preempt", "publish", "cancel", "clear"}) = {TRUE}
    BY <1>0, <1>2, NoAttemptFails DEF UpdateCheck
  <2>1. rt' = [pc |-> IF rt_active_goal = None THEN "write" ELSE "judge",
               goal |-> rt_active_goal]
    BY <1>2, <2>0 DEF UpdateCheck
  <2>2. Threads' /\ UNCHANGED <<request, status, rt_active_goal>>
    BY <1>0, <1>2, <2>1, GoalTypes DEF UpdateCheck, handles
  <2>. QED
    BY <2>2, GoalsKept
<1>3. CASE UpdateJudge
  <2>0. /\ rt.pc = "judge" /\ ex.pc = "idle" /\ rt.goal = rt_active_goal
        /\ rt.goal \in Goals /\ rt_active_goal # None
        /\ UNCHANGED <<rt_active_goal, status, ex>>
    BY <1>0, <1>3, GoalTypes DEF UpdateJudge
  <2>1. CASE \E r \in Results : Conclude(r)
    <3>1. PICK r \in Results : Conclude(r)
      BY <2>1
    <3>2. request' = Ask(request, rt_active_goal, r) /\ rt' = [rt EXCEPT !.pc = "conclude"]
      BY <2>0, <3>1 DEF Conclude
    <3>3. /\ \A g \in Goals : ~(status[g] = "executing" /\ request'[g] = "none")
          /\ \A g \in Goals : status[g] \in {"unsent", "rejected"} => request'[g] = "none"
          /\ request'[rt_active_goal] # "none"
      BY <2>0, <3>2, GoalReleased
    <3>4. Threads'
      BY <2>0, <3>2, <3>3, GoalTypes
    <3>. QED
      BY <1>0, <2>0, <3>3, <3>4 DEF GoalsInv, Unasked, ActiveExecutes, LiveGoalIsActive, Live
  <2>2. CASE ~\E r \in Results : Conclude(r)
    <3>1. UNCHANGED request /\ rt'.pc \in {"idle", "write"}
      BY <1>3, <2>0, <2>2, GoalTypes DEF UpdateJudge, Continue, Idle
    <3>2. Threads'
      BY <2>0, <3>1
    <3>. QED
      BY <2>0, <3>1, <3>2, GoalsKept
  <2>. QED
    BY <2>1, <2>2
<1>4. CASE UpdateConclude
  <2>1. /\ rt_active_goal' = None /\ rt' = [rt EXCEPT !.pc = "write"]
        /\ UNCHANGED <<request, status, ex>>
    <3>1. Attempts({"preempt", "publish", "cancel", "clear"}) = {TRUE}
      BY <1>0, <1>4, NoAttemptFails DEF UpdateConclude
    <3>. QED
      BY <1>4, <3>1 DEF UpdateConclude, handles
  <2>2. \A g \in Goals : ~Live(g)
    BY <1>0, <1>4, GoalTypes DEF UpdateConclude, GoalsInv, LiveGoalIsActive, Live
  <2>3. Threads'
    BY <1>0, <1>4, <2>1, GoalTypes DEF UpdateConclude
  <2>. QED
    BY <1>0, <2>1, <2>2, <2>3 DEF GoalsInv, Unasked, ActiveExecutes, LiveGoalIsActive, Live
<1>5. CASE UpdateWrite
  <2>1. Threads' /\ UNCHANGED <<request, status, rt_active_goal>>
    BY <1>0, <1>5, GoalTypes DEF UpdateWrite, Idle, handles
  <2>. QED
    BY <2>1, GoalsKept
<1>. QED
  BY <1>1, <1>2, <1>3, <1>4, <1>5 DEF Update

LEMMA CallbackGoalsInv ==
    ASSUME Overlap = FALSE, TypeInv, GoalsInv, Callback
    PROVE  GoalsInv'
<1>. USE DEF Threads, OneHandler, LocalGoal, Arriving, Canceling, AcceptPcs
<1>0. GoalsInv /\ Threads
  BY DEF GoalsInv
<1>1. ASSUME NEW g \in Goals, NEW accepted \in BOOLEAN, NEW p \in Positions,
             goal_callback(g, accepted, p)
      PROVE  GoalsInv'
  <2>0. /\ rt.pc = "idle" /\ ex.pc = "idle" /\ status[g] = "unsent" /\ rt_active_goal # g
        /\ UNCHANGED <<rt, request, rt_active_goal>>
    BY <1>0, <1>1, GoalTypes DEF goal_callback, ExMay, GoalsInv, ActiveExecutes
  <2>1. CASE accepted
    <3>1. Threads' /\ UNCHANGED <<request, status, rt_active_goal>>
      BY <1>1, <2>0, <2>1, GoalTypes DEF goal_callback
    <3>. QED
      BY <3>1, GoalsKept
  <2>2. CASE ~accepted
    <3>1. status' = [status EXCEPT ![g] = "rejected"] /\ ex' = ex
      BY <1>1, <2>2 DEF goal_callback
    <3>2. Threads'
      BY <2>0, <3>1
    <3>. QED
      BY <1>0, <2>0, <3>1, <3>2, GoalTypes
      DEF GoalsInv, Unasked, ActiveExecutes, LiveGoalIsActive, Live
  <2>. QED
    BY <2>1, <2>2
<1>2. CASE preempt_active_goal
  <2>0. /\ rt.pc = "idle" /\ ex.pc = "preempt" /\ ex' = [ex EXCEPT !.pc = "command"]
        /\ rt_active_goal' = None /\ UNCHANGED <<rt, status>>
    BY <1>0, <1>2 DEF preempt_active_goal
  <2>1. Threads'
    BY <1>0, <2>0, GoalTypes
  <2>2. CASE rt_active_goal = None
    BY <1>0, <1>2, <2>0, <2>1, <2>2
    DEF preempt_active_goal, Preempted, GoalsInv, Unasked, ActiveExecutes, LiveGoalIsActive, Live
  <2>3. CASE rt_active_goal # None
    <3>1. /\ \A g \in Goals : ~(status[g] = "executing" /\ request'[g] = "none")
          /\ \A g \in Goals : status[g] \in {"unsent", "rejected"} => request'[g] = "none"
      BY <1>2, <2>3, GoalReleased DEF preempt_active_goal, Preempted
    <3>. QED
      BY <2>0, <2>1, <3>1 DEF GoalsInv, Unasked, ActiveExecutes, LiveGoalIsActive, Live
  <2>. QED
    BY <2>2, <2>3
<1>3. CASE AcceptCommand \/ AcceptMoved
  <2>1. Threads' /\ UNCHANGED <<request, status, rt_active_goal>>
    BY <1>0, <1>3, GoalTypes DEF AcceptCommand, AcceptMoved, handles
  <2>. QED
    BY <2>1, GoalsKept
<1>4. CASE AcceptPublish
  <2>0. /\ ex.pc = "publish" /\ rt.pc = "idle" /\ rt_active_goal = None
        /\ ex.goal \in Goals /\ status[ex.goal] = "unsent"
    BY <1>0, <1>4, GoalTypes DEF AcceptPublish
  <2>1. /\ status' = [status EXCEPT ![ex.goal] = "executing"]
        /\ rt_active_goal' = ex.goal /\ ex' = Idle /\ UNCHANGED <<rt, request>>
    BY <1>4 DEF AcceptPublish
  <2>2. Threads'
    BY <2>0, <2>1 DEF Idle
  <2>. QED
    BY <1>0, <2>0, <2>1, <2>2, GoalTypes
    DEF GoalsInv, Unasked, ActiveExecutes, LiveGoalIsActive, Live
<1>5. ASSUME NEW g \in Goals, cancel_callback(g) PROVE GoalsInv'
  <2>1. Threads' /\ UNCHANGED <<request, status, rt_active_goal>>
    BY <1>0, <1>5, GoalTypes DEF cancel_callback, ExMay, handles
  <2>. QED
    BY <2>1, GoalsKept
<1>6. CASE set_hold_position
  <2>1. Threads' /\ UNCHANGED <<request, status, rt_active_goal>>
    BY <1>0, <1>6, GoalTypes DEF set_hold_position, handles
  <2>. QED
    BY <2>1, GoalsKept
<1>7. CASE CancelClear
  <2>0. /\ rt.pc = "idle" /\ rt_active_goal # None
        /\ request' = Ask(request, rt_active_goal, "canceled")
        /\ rt_active_goal' = None /\ ex' = Idle /\ UNCHANGED <<rt, status>>
    BY <1>0, <1>7, GoalTypes DEF CancelClear
  <2>1. Threads'
    BY <2>0 DEF Idle
  <2>2. /\ \A g \in Goals : ~(status[g] = "executing" /\ request'[g] = "none")
        /\ \A g \in Goals : status[g] \in {"unsent", "rejected"} => request'[g] = "none"
    BY <2>0, GoalReleased
  <2>. QED
    BY <2>0, <2>1, <2>2 DEF GoalsInv, Unasked, ActiveExecutes, LiveGoalIsActive, Live
<1>8. CASE runNonRealtime
  <2>1. PICK g \in Goals : /\ status[g] = "executing" /\ request[g] # "none"
                           /\ status' = [status EXCEPT ![g] = request[g]]
    BY <1>8 DEF runNonRealtime, TypeInv, TypeOK
  <2>2. UNCHANGED <<request, rt_active_goal, rt, ex>> /\ request[g] \in Results
        /\ rt.pc = "idle" /\ ex.pc = "idle"
    BY <1>0, <1>8, <2>1, GoalTypes DEF runNonRealtime, ExMay
  <2>3. Threads'
    BY <1>0, <2>2
  <2>. QED
    BY <1>0, <2>1, <2>2, <2>3, GoalTypes
    DEF GoalsInv, Unasked, ActiveExecutes, LiveGoalIsActive, Live
<1>. QED
  BY <1>1, <1>2, <1>3, <1>4, <1>5, <1>6, <1>7, <1>8 DEF Callback

LEMMA OtherGoalsInv ==
    ASSUME Overlap = FALSE, TypeInv, GoalsInv, Lifecycle \/ Move \/ Tick \/ UNCHANGED vars
    PROVE  GoalsInv'
<1>1. UNCHANGED <<request, status, rt_active_goal, rt, ex>>
  BY DEF Lifecycle, on_configure, Unconfigure, on_activate, on_deactivate, Becomes,
         Move, Tick, vars, handles
<1>2. Threads'
  BY <1>1 DEF GoalsInv, Threads, OneHandler, LocalGoal, Arriving, Canceling
<1>. QED
  BY <1>1, <1>2, GoalsKept

LEMMA GoalsInvariant == Overlap = FALSE => (Spec => [](TypeInv /\ GoalsInv))
<1> SUFFICES ASSUME Overlap = FALSE PROVE Spec => [](TypeInv /\ GoalsInv)
  OBVIOUS
<1>1. Init => TypeInv /\ GoalsInv
  BY InitTypeInv, InitGoalsInv
<1>2. TypeInv /\ GoalsInv /\ [Next]_vars => TypeInv' /\ GoalsInv'
  BY NextTypeInv, UpdateGoalsInv, CallbackGoalsInv, OtherGoalsInv DEF Next
<1>. QED
  BY <1>1, <1>2, PTL DEF Spec

-----------------------------------------------------------------------------
(* The refinement.                                                           *)

\* Asking the active goal's handle for a result concludes it, or changes nothing.
LEMMA AskConcludes ==
    ASSUME TypeInv, GoalsInv, NEW r \in Results, rt_active_goal # None,
           request' = Ask(request, rt_active_goal, r), status' = status
    PROVE  [AG!Next]_GoalView
<1> DEFINE a == rt_active_goal
<1>1. a \in Goals /\ request \in [Goals -> Results \cup {"none"}]
  BY GoalTypes
<1>2. CASE request[a] # "none"
  BY <1>2 DEF Ask, GoalView
<1>3. CASE request[a] = "none"
  <2>1. request'[a] = r /\ \A h \in Goals : h # a => request'[h] = request[h]
    BY <1>1, <1>3 DEF Ask
  <2>2. GoalView[a] = "executing"
    BY <1>1, <1>3 DEF GoalView, GoalsInv, ActiveExecutes
  <2>3. GoalView' = [GoalView EXCEPT ![a] = r]
    BY <1>1, <1>3, <2>1 DEF GoalView
  <2>. QED
    BY <1>1, <2>2, <2>3 DEF AG!Next, AG!Conclude, GoalView
<1>. QED
  BY <1>2, <1>3

LEMMA StepRefines ==
    ASSUME Overlap = FALSE, TypeInv, GoalsInv, [Next]_vars
    PROVE  [AG!Next]_GoalView
<1>1. ASSUME UNCHANGED <<request, status>> PROVE [AG!Next]_GoalView
  BY <1>1 DEF GoalView
<1>2. CASE UpdateJudge
  <2>1. rt.goal = rt_active_goal /\ rt_active_goal # None /\ status' = status
    BY <1>2, GoalTypes DEF UpdateJudge, GoalsInv, Threads, LocalGoal
  <2>2. ASSUME NEW r \in Results, Conclude(r) PROVE [AG!Next]_GoalView
    BY <2>1, <2>2, AskConcludes DEF Conclude
  <2>3. CASE ~\E r \in Results : Conclude(r)
    BY <1>1, <1>2, <2>1, <2>3 DEF UpdateJudge, Continue
  <2>. QED
    BY <2>2, <2>3
<1>3. CASE Update /\ ~UpdateJudge
  BY <1>1, <1>3 DEF Update, UpdateRead, UpdateCheck, UpdateConclude, UpdateWrite, handles
<1>4. ASSUME NEW g \in Goals, NEW accepted \in BOOLEAN, NEW p \in Positions,
             goal_callback(g, accepted, p)
      PROVE  [AG!Next]_GoalView
  <2>1. CASE accepted
    BY <1>1, <1>4, <2>1 DEF goal_callback
  <2>2. CASE ~accepted
    <3>1. /\ GoalView[g] = "unsent"
          /\ GoalView' = [GoalView EXCEPT ![g] = "rejected"]
      BY <1>4, <2>2, GoalTypes DEF goal_callback, GoalView, GoalsInv, Unasked
    <3>. QED
      BY <3>1 DEF AG!Next, AG!Reject, GoalView
  <2>. QED
    BY <2>1, <2>2
<1>5. CASE preempt_active_goal
  <2>1. CASE rt_active_goal = None
    BY <1>1, <1>5, <2>1 DEF preempt_active_goal, Preempted
  <2>2. CASE rt_active_goal # None
    BY <1>5, <2>2, AskConcludes DEF preempt_active_goal, Preempted
  <2>. QED
    BY <2>1, <2>2
<1>6. CASE AcceptPublish
  <2>1. /\ ex.goal \in Goals /\ request' = request /\ rt_active_goal = None
        /\ status' = [status EXCEPT ![ex.goal] = "executing"]
        /\ status[ex.goal] = "unsent" /\ request[ex.goal] = "none"
    BY <1>6, GoalTypes
    DEF AcceptPublish, GoalsInv, Threads, Arriving, AcceptPcs, Unasked
  <2>2. AG!Executing = {}
    BY <2>1, GoalTypes DEF AG!Executing, GoalsInv, LiveGoalIsActive, Live, GoalView
  <2>3. /\ GoalView[ex.goal] = "unsent"
        /\ GoalView' = [GoalView EXCEPT ![ex.goal] = "executing"]
    BY <2>1, GoalTypes DEF GoalView
  <2>. QED
    BY <2>1, <2>2, <2>3 DEF AG!Next, AG!Execute, GoalView
<1>7. CASE CancelClear
  <2>1. rt_active_goal # None /\ request' = Ask(request, rt_active_goal, "canceled")
        /\ status' = status
    BY <1>7, GoalTypes DEF CancelClear, GoalsInv, Threads, Canceling
  <2>. QED
    BY <2>1, AskConcludes
<1>8. CASE runNonRealtime
  <2>1. PICK g \in Goals : /\ request[g] # "none" /\ request' = request
                           /\ status' = [status EXCEPT ![g] = request[g]]
    BY <1>8 DEF runNonRealtime, TypeInv, TypeOK
  <2>2. GoalView' = GoalView
    BY <2>1, GoalTypes DEF GoalView
  <2>. QED
    BY <2>2
<1>9. CASE AcceptCommand \/ AcceptMoved \/ set_hold_position \/ \E g \in Goals : cancel_callback(g)
  BY <1>1, <1>9 DEF AcceptCommand, AcceptMoved, set_hold_position, cancel_callback, handles
<1>10. CASE Lifecycle \/ Move \/ Tick \/ UNCHANGED vars
  BY <1>1, <1>10
  DEF Lifecycle, on_configure, Unconfigure, on_activate, on_deactivate, Becomes,
      Move, Tick, vars, handles
<1>. QED
  BY <1>2, <1>3, <1>4, <1>5, <1>6, <1>7, <1>8, <1>9, <1>10 DEF Next, Callback

\* The goals implement an action server that executes one goal at a time, over any
\* number of activations: the goal that preempts another never executes beside it, and
\* a result once asked for is final.
THEOREM GoalsImplementActionGoals == Overlap = FALSE => (Spec => GripperGoals)
<1> SUFFICES ASSUME Overlap = FALSE PROVE Spec => GripperGoals
  OBVIOUS
<1>1. Init => AG!Init
  BY DEF Init, AG!Init, GoalView
<1>2. TypeInv /\ GoalsInv /\ [Next]_vars => [AG!Next]_GoalView
  BY StepRefines
<1>3. Spec => [](TypeInv /\ GoalsInv)
  BY GoalsInvariant
<1>. QED
  BY <1>1, <1>2, <1>3, PTL DEF Spec, GripperGoals, AG!Spec

-----------------------------------------------------------------------------
(* The commands.                                                             *)

\* The command is the same for everyone until the next handler.
OneCommand ==
    /\ command = command_struct
    /\ rt.pc # "idle" => command_struct_rt = command

\* What a canceled goal asked for is only the command while the goal that preempts
\* it arrives; a client's cancel has replaced it before.
Forgotten ==
    /\ \A g \in Goals : request[g] = "canceled" /\ command.of = g => ex.pc = "command"
    /\ ex.pc = "clear" => command.of = None
    /\ ex.pc \in {"moved", "publish"} => command.of = ex.goal

\* The active goal, unless it is of an earlier activation, is on its own command, and
\* the gripper counts as at rest no longer than it has been; a movement that the cycle
\* under way has read does not count yet.
OwnCommand ==
    rt_active_goal \in served /\ ex.pc \notin {"preempt", "clear"}
        => command.position = target
RestCounts == rt.pc \in {"check", "judge", "conclude"} => ~moving
OwnRest ==
    RestCounts /\ ((rt_active_goal \in served /\ ex.pc # "preempt") \/ ex.pc = "publish")
        => still \in Int /\ still <= rested
Arrived == ex.pc \in AcceptPcs => ex.goal \in served
Commanded == ex.pc \in {"moved", "publish"} => command.position = target

CommandsInv == OneCommand /\ Forgotten /\ OwnCommand /\ OwnRest /\ Arrived /\ Commanded

LEMMA InitCommandsInv == Init => CommandsInv
BY DEF Init, CommandsInv, OneCommand, Forgotten, OwnCommand, OwnRest, Arrived, Commanded,
       AcceptPcs, Idle

\* A step that leaves the commands, the target and the goals alone keeps what the
\* invariant says of them, but for the rest.
LEMMA CommandsKept ==
    ASSUME CommandsInv, OneCommand', OwnRest',
           UNCHANGED <<commands, target, served, ex>>,
           rt_active_goal' \in {None, rt_active_goal}, None \notin served,
           \A g \in Goals : request'[g] = "canceled" => request[g] = "canceled"
    PROVE  CommandsInv'
BY DEF CommandsInv, Forgotten, OwnCommand, OwnRest, Arrived, Commanded, commands

LEMMA UpdateCommandsInv ==
    ASSUME Overlap = FALSE, TypeInv, GoalsInv, CommandsInv, Update
    PROVE  CommandsInv'
<1>. USE DEF OneCommand, commands, history
<1>0. /\ OneHandler /\ OneCommand /\ None \notin served /\ rested \in Nat
      /\ rt \in [pc : {"idle", "check", "judge", "conclude", "write"}, goal : Goals \cup {None}]
  BY GripperAssumption DEF GoalsInv, Threads, CommandsInv, TypeInv, TypeOK
<1>1. ASSUME NEW readable \in BOOLEAN, NEW velocity \in BOOLEAN, UpdateRead(readable, velocity)
      PROVE  CommandsInv'
  <2>1. ex.pc = "idle" /\ Attempts({"command", "hold"}) = {TRUE}
    BY <1>1 DEF UpdateRead, RtMay, Attempts
  <2>2. command_struct_rt' = command
    BY <1>1, <2>1 DEF UpdateRead
  <2>3. /\ rt.pc = "idle" /\ UNCHANGED <<still, rt_active_goal, served, ex>>
        /\ rested' = IF moving' THEN 0 ELSE rested
        /\ rt' = rt \/ rt' = [rt EXCEPT !.pc = "check"]
        /\ moving' => rt'.pc = "check"
    BY <1>0, <1>1 DEF UpdateRead, RtMay, handles
  <2>4. OwnRest'
    <3>1. RestCounts
      BY <2>3 DEF RestCounts
    <3>2. RestCounts' => rested' = rested
      BY <2>3 DEF RestCounts
    <3>. QED
      BY <2>3, <3>1, <3>2 DEF CommandsInv, OwnRest
  <2>. QED
    BY <1>0, <1>1, <2>2, <2>4, CommandsKept DEF UpdateRead, handles
<1>2. CASE UpdateCheck
  <2>0. /\ rt.pc = "check" /\ ex.pc = "idle"
        /\ Attempts({"preempt", "publish", "cancel", "clear"}) = {TRUE}
        /\ UNCHANGED <<moving, still, rested, rt_active_goal, served, ex>>
    BY <1>0, <1>2, NoAttemptFails DEF UpdateCheck, OneHandler, gripper, handles
  <2>1. rt' = [pc |-> IF rt_active_goal = None THEN "write" ELSE "judge",
               goal |-> rt_active_goal]
    BY <1>2, <2>0 DEF UpdateCheck
  <2>2. OwnRest'
    BY <1>0, <2>0, <2>1 DEF CommandsInv, OwnRest, RestCounts
  <2>. QED
    BY <1>0, <1>2, <2>2, CommandsKept DEF UpdateCheck, handles
<1>3. CASE UpdateJudge
  <2>0. /\ rt.pc = "judge" /\ ex.pc = "idle"
        /\ UNCHANGED <<commands, command_struct_rt, history, moving, served, ex, rt_active_goal>>
    BY <1>0, <1>3 DEF UpdateJudge, OneHandler, gripper
  <2>1. OneCommand'
    BY <1>0, <2>0
  <2>2. \A g \in Goals : request'[g] = "canceled" => request[g] = "canceled"
    <3>1. request' = request \/ \E r \in {"succeeded", "aborted"} : request' = Ask(request, rt.goal, r)
      BY <1>3 DEF UpdateJudge, Conclude, Continue
    <3>2. \A r \in {"succeeded", "aborted"}, g \in Goals :
              Ask(request, rt.goal, r)[g] = "canceled" => request[g] = "canceled"
      BY DEF Ask, TypeInv, TypeOK
    <3>. QED
      BY <3>1, <3>2
  <2>3. \/ still' = 0
        \/ still' = still /\ (moving => rt'.pc = "conclude")
    <3>1. Attempts({"moved"}) = {TRUE}
      BY <1>0, <2>0, NoAttemptFails
    <3>. QED
      BY <1>0, <1>3, <3>1 DEF UpdateJudge, Conclude, Continue, Timed
  <2>4. OwnRest'
    BY <1>0, <2>0, <2>3 DEF CommandsInv, OwnRest, RestCounts
  <2>. QED
    BY <1>0, <2>0, <2>1, <2>2, <2>4, CommandsKept
<1>4. CASE UpdateConclude
  <2>1. rt_active_goal' = None /\ ex.pc = "idle" /\ UNCHANGED <<served, ex>>
    <3>1. rt.pc = "conclude" /\ Attempts({"preempt", "publish", "cancel", "clear"}) = {TRUE}
      BY <1>0, <1>4, NoAttemptFails DEF UpdateConclude
    <3>. QED
      BY <1>0, <1>4, <3>1 DEF UpdateConclude, OneHandler, handles
  <2>2. OwnRest'
    BY <1>0, <2>1 DEF OwnRest
  <2>. QED
    BY <1>0, <1>4, <2>2, CommandsKept DEF UpdateConclude, handles
<1>5. CASE UpdateWrite
  <2>1. rt.pc = "write" /\ UNCHANGED <<still, rested, rt_active_goal, served, ex>>
    BY <1>5 DEF UpdateWrite, handles
  <2>2. OwnRest'
    BY <2>1 DEF CommandsInv, OwnRest, RestCounts
  <2>. QED
    BY <1>0, <1>5, <2>2, CommandsKept DEF UpdateWrite, Idle, handles
<1>. QED
  BY <1>1, <1>2, <1>3, <1>4, <1>5 DEF Update

LEMMA CallbackCommandsInv ==
    ASSUME Overlap = FALSE, TypeInv, GoalsInv, CommandsInv, Callback
    PROVE  CommandsInv'
<1>. USE DEF CommandsInv, OneCommand, Forgotten, OwnCommand, OwnRest, RestCounts,
       Arrived, Commanded, AcceptPcs, gripper, commands, history
<1>0. /\ OneHandler /\ Arriving /\ Canceling /\ Unasked /\ None \notin served /\ rested \in Nat
      /\ CommandsInv
  BY GripperAssumption DEF GoalsInv, Threads, TypeInv, TypeOK
<1>1. ASSUME NEW g \in Goals, NEW accepted \in BOOLEAN, NEW p \in Positions,
             goal_callback(g, accepted, p)
      PROVE  CommandsInv'
  <2>1. /\ ex.pc = "idle" /\ rt.pc = "idle" /\ rt_active_goal # g
        /\ served' = served \cup {g}
        /\ UNCHANGED <<commands, command_struct_rt, request, rt, rt_active_goal, still, rested>>
    BY <1>0, <1>1, GoalTypes
    DEF goal_callback, ExMay, OneHandler, GoalsInv, ActiveExecutes
  <2>2. CASE accepted
    <3>1. ex' = [pc |-> "preempt", goal |-> g]
      BY <1>1, <2>2 DEF goal_callback
    <3>. QED
      BY <1>0, <2>1, <3>1
  <2>3. CASE ~accepted
    <3>1. UNCHANGED <<ex, target>>
      BY <1>1, <2>3 DEF goal_callback
    <3>. QED
      BY <1>0, <2>1, <3>1
  <2>. QED
    BY <2>2, <2>3
<1>2. CASE preempt_active_goal
  <2>1. /\ rt.pc = "idle" /\ ex.pc = "preempt" /\ ex' = [ex EXCEPT !.pc = "command"]
        /\ rt_active_goal' = None /\ rested' = 0
        /\ UNCHANGED <<commands, command_struct_rt, served, target, rt, still>>
    BY <1>0, <1>2 DEF preempt_active_goal, OneHandler
  <2>. QED
    BY <1>0, <2>1, GoalTypes
<1>3. CASE AcceptCommand
  <2>1. /\ rt.pc = "idle" /\ ex.pc = "command" /\ ex' = [ex EXCEPT !.pc = "moved"]
        /\ command_struct' = Command(target, ex.goal) /\ command' = command_struct'
        /\ UNCHANGED <<command_struct_rt, served, history, rt, still, rt_active_goal, request>>
    BY <1>0, <1>3 DEF AcceptCommand, OneHandler, handles
  <2>2. request[ex.goal] = "none"
    BY <1>0, <2>1, GoalTypes DEF Arriving, Unasked
  <2>. QED
    BY <1>0, <2>1, <2>2, GoalTypes DEF Command
<1>4. CASE AcceptMoved
  <2>1. /\ rt.pc = "idle" /\ ex.pc = "moved" /\ ex' = [ex EXCEPT !.pc = "publish"]
        /\ still' = 0
        /\ UNCHANGED <<commands, command_struct_rt, served, history, rt, rt_active_goal, request>>
    BY <1>0, <1>4 DEF AcceptMoved, OneHandler, handles
  <2>. QED
    BY <1>0, <2>1, GoalTypes
<1>5. CASE AcceptPublish
  <2>1. /\ rt.pc = "idle" /\ ex.pc = "publish" /\ ex' = Idle
        /\ rt_active_goal' = ex.goal
        /\ UNCHANGED <<commands, command_struct_rt, served, history, rt, still, request>>
    BY <1>0, <1>5 DEF AcceptPublish, OneHandler
  <2>2. request[ex.goal] = "none"
    BY <1>0, <2>1, GoalTypes DEF Arriving, Unasked
  <2>. QED
    BY <1>0, <2>1, <2>2 DEF Idle
<1>6. ASSUME NEW g \in Goals, cancel_callback(g) PROVE CommandsInv'
  <2>1. /\ rt.pc = "idle" /\ ex.pc = "idle" /\ ex' = [pc |-> "hold", goal |-> g]
        /\ UNCHANGED <<commands, command_struct_rt, served, history, rt, still, request,
                       rt_active_goal>>
    BY <1>0, <1>6 DEF cancel_callback, ExMay, OneHandler, handles
  <2>. QED
    BY <1>0, <2>1
<1>7. CASE set_hold_position
  <2>1. /\ rt.pc = "idle" /\ ex.pc = "hold" /\ ex' = [ex EXCEPT !.pc = "clear"]
        /\ command_struct'.of = None /\ command' = command_struct'
        /\ UNCHANGED <<command_struct_rt, served, history, rt, still, request, rt_active_goal>>
    BY <1>0, <1>7 DEF set_hold_position, Held, Command, OneHandler, handles
  <2>. QED
    BY <1>0, <2>1, GoalTypes
<1>8. CASE CancelClear
  <2>1. /\ rt.pc = "idle" /\ ex.pc = "clear" /\ ex' = Idle /\ rt_active_goal' = None
        /\ command.of = None
        /\ UNCHANGED <<commands, command_struct_rt, served, history, rt, still>>
    BY <1>0, <1>8 DEF CancelClear, OneHandler
  <2>. QED
    BY <1>0, <2>1, GoalTypes DEF Idle
<1>9. CASE runNonRealtime
  BY <1>0, <1>9 DEF runNonRealtime
<1>. QED
  BY <1>1, <1>2, <1>3, <1>4, <1>5, <1>6, <1>7, <1>8, <1>9 DEF Callback

LEMMA OtherCommandsInv ==
    ASSUME Overlap = FALSE, TypeInv, GoalsInv, CommandsInv,
           Lifecycle \/ Move \/ Tick \/ UNCHANGED vars
    PROVE  CommandsInv'
<1>. USE DEF CommandsInv, OneCommand, Forgotten, OwnCommand, OwnRest, RestCounts,
       Arrived, Commanded, AcceptPcs, gripper, commands, history, handles
<1>1. CASE on_configure \/ Unconfigure \/ on_deactivate \/ Move \/ UNCHANGED vars
  BY <1>1 DEF on_configure, Unconfigure, on_deactivate, Becomes, Move, vars
<1>2. ASSUME NEW readable \in BOOLEAN, on_activate(readable) PROVE CommandsInv'
  <2>1. /\ rt.pc = "idle" /\ ex.pc = "idle" /\ served' = {}
        /\ UNCHANGED <<rt, ex, request, history, rt_active_goal>>
    BY <1>2 DEF on_activate, RtMay, Becomes
  <2>2. Attempts({"command", "hold"}) = {TRUE}
    BY <2>1 DEF Attempts
  <2>3. command' = command_struct' /\ (command' = command \/ command'.of = None)
    <3>1. command' = command_struct'
      BY <1>2, <2>2 DEF on_activate
    <3>2. command_struct' = command_struct \/ command_struct' = Command(at, None)
      BY <1>2 DEF on_activate, Unread
    <3>. QED
      BY <3>1, <3>2 DEF Command
  <2>. QED
    BY <2>1, <2>3, GoalTypes
<1>3. CASE Tick
  <2>1. still \in Int /\ still <= rested => still' \in Int /\ still' <= rested'
    BY <1>3, GripperAssumption DEF Tick, Older, TypeInv, TypeOK, MaxAge
  <2>. QED
    BY <1>3, <2>1 DEF Tick
<1>. QED
  BY <1>1, <1>2, <1>3 DEF Lifecycle

LEMMA CommandsInvariant == Overlap = FALSE => (Spec => [](TypeInv /\ GoalsInv /\ CommandsInv))
<1> SUFFICES ASSUME Overlap = FALSE PROVE Spec => [](TypeInv /\ GoalsInv /\ CommandsInv)
  OBVIOUS
<1>1. Spec => [](TypeInv /\ GoalsInv)
  BY GoalsInvariant
<1>2. TypeInv /\ GoalsInv /\ CommandsInv /\ [Next]_vars => CommandsInv'
  BY UpdateCommandsInv, CallbackCommandsInv, OtherCommandsInv DEF Next
<1>. QED
  BY <1>1, <1>2, InitCommandsInv, PTL DEF Spec

\* No cycle writes what a canceled goal asked for.
THEOREM CanceledGoalIsHeld == Overlap = FALSE => (Spec => []CanceledIsHeld)
<1>1. TypeInv /\ GoalsInv /\ CommandsInv => CanceledIsHeld
  BY DEF GoalsInv, Threads, OneHandler, CommandsInv, OneCommand, Forgotten, CanceledIsHeld
<1>. QED
  BY <1>1, CommandsInvariant, PTL

\* The body of EndIsEarned.
Earned ==
    \A g \in served :
        request[g] = "none" /\ request'[g] \in {"succeeded", "aborted"}
        => \/ Reached /\ at = target
           \/ rested > StallTimeout

LEMMA StepEarned ==
    ASSUME Overlap = FALSE, TypeInv, GoalsInv, CommandsInv, [Next]_vars
    PROVE  Earned
<1> SUFFICES ASSUME NEW g \in served, request[g] = "none",
                    request'[g] \in {"succeeded", "aborted"}
             PROVE  \/ Reached /\ at = target
                    \/ rested > StallTimeout
  BY DEF Earned
<1>0. g \in Goals
  BY DEF TypeInv, TypeOK
<1>1. CASE UpdateJudge
  <2>1. /\ rt.pc = "judge" /\ ex.pc = "idle" /\ rt.goal = rt_active_goal
    BY <1>1 DEF UpdateJudge, GoalsInv, Threads, OneHandler, LocalGoal
  <2>2. g = rt.goal
    <3>1. request' = request \/ \E r \in Results : request' = Ask(request, rt.goal, r)
      BY <1>1 DEF UpdateJudge, Conclude, Continue
    <3>. QED
      BY <1>0, <3>1 DEF Ask, TypeInv, TypeOK
  <2>3. CASE Reached
    BY <2>1, <2>2, <2>3 DEF Reached, CommandsInv, OneCommand, OwnCommand
  <2>4. CASE ~Reached
    <3>1. ~moving /\ Stalled
      BY <1>1, <2>4 DEF UpdateJudge, Continue
    <3>2. still \in Int /\ still <= rested
      BY <2>1, <2>2, <3>1 DEF CommandsInv, OwnRest, RestCounts
    <3>. QED
      BY <3>1, <3>2, GripperAssumption DEF Stalled, TypeInv, TypeOK
  <2>. QED
    BY <2>3, <2>4
<1>2. CASE ~UpdateJudge
  <2>1. request' = request \/ \E h : request' = Ask(request, h, "canceled")
    BY <1>2 DEF Next, Update, UpdateRead, UpdateCheck, UpdateConclude, UpdateWrite,
       Callback, goal_callback, preempt_active_goal, Preempted, AcceptCommand, AcceptMoved,
       AcceptPublish, cancel_callback, set_hold_position, CancelClear, runNonRealtime,
       Lifecycle, on_configure, Unconfigure, on_activate, on_deactivate, Becomes,
       Move, Tick, vars, handles
  <2>. QED
    BY <1>0, <2>1 DEF Ask, TypeInv, TypeOK
<1>. QED
  BY <1>1, <1>2

\* A goal of this activation ends by itself where it asked to be, or after a rest of
\* its own: never on the command or the rest of the goal before.
THEOREM GoalsEarnTheirEnd == Overlap = FALSE => (Spec => EndIsEarned)
<1> SUFFICES ASSUME Overlap = FALSE PROVE Spec => EndIsEarned
  OBVIOUS
<1>1. TypeInv /\ GoalsInv /\ CommandsInv /\ [Next]_vars => Earned
  BY StepEarned
<1>2. Spec => [](TypeInv /\ GoalsInv /\ CommandsInv)
  BY CommandsInvariant
<1>3. Spec => [][Earned]_vars
  BY <1>1, <1>2, PTL DEF Spec
<1>. QED
  BY <1>3 DEF EndIsEarned, Earned
================================================================================
