--------------- MODULE MotionPrimitivesForwardController_proofs ---------------
(****************************************************************************)
(* Theorems about the motion primitives forward controller, for every set of *)
(* goals, number of motions and capacity of the queue: types with both       *)
(* threads and a hardware of any pace; and when a handler runs to its end    *)
(* before another one starts and the hardware takes each command before the  *)
(* next cycle, that sequences arrive whole and that success is executed.     *)
(****************************************************************************)
EXTENDS MotionPrimitivesForwardController, SequenceTheorems, TLAPS

-----------------------------------------------------------------------------
(* The plan of a goal.                                                       *)

Primitives == UNION {Range(Plan(g)) : g \in Goals}

Parts == {"start", "motion", "end"}

\* A plan is as long as its motions and two markers at most, is of primitives, and
\* exactly its last one starts the execution.
LEMMA PlanShape ==
    ASSUME NEW g \in Goals
    PROVE  /\ Plan(g) \in Seq([goal : Goals, part : Parts])
           /\ Len(Plan(g)) \in Nat /\ Len(Plan(g)) > 0 /\ Len(Plan(g)) <= Motions[g] + 2
           /\ \A i \in 1..Len(Plan(g)) :
                  i = Len(Plan(g)) <=>
                      Plan(g)[i].part = "end" \/ (Plan(g)[i].part = "motion" /\ i = 1)
<1>. DEFINE P == [goal : Goals, part : Parts]
            n == Motions[g]
            first == Primitive(g, "start")
            last == Primitive(g, "end")
            motion == Primitive(g, "motion")
            motions == [i \in 1..n |-> motion]
<1>1. n \in Nat /\ n > 0
  BY MotionAssumption
<1>2. first \in P /\ last \in P /\ motion \in P
      /\ first.part = "start" /\ last.part = "end" /\ motion.part = "motion"
  BY DEF Primitive, Parts
<1>3. motions \in Seq(P) /\ Len(motions) = n /\ \A i \in 1..n : motions[i] = motion
  <2>. HIDE DEF P, motion, n
  <2>. QED
    BY <1>1, <1>2
<1>4. CASE n = 1
  <2>. DEFINE plan == Plan(g)
  <2>1. plan \in Seq(P) /\ Len(plan) = 1 /\ plan[1] = motion
    BY <1>3, <1>4 DEF Plan
  <2>. HIDE DEF P, motion, n, motions, plan
  <2>2. \A i \in 1..1 : i = 1 /\ plan[i].part = "motion"
    BY <1>2, <2>1
  <2>. QED
    BY <1>1, <2>1, <2>2 DEF P, plan, n
<1>5. CASE n # 1
  <2>0. Plan(g) = (<<first>> \o motions) \o <<last>>
    BY <1>5 DEF Plan
  <2>. HIDE DEF P, motion, motions, n, first, last
  <2>1. <<first>> \in Seq(P) /\ <<last>> \in Seq(P)
        /\ Len(<<first>>) = 1 /\ Len(<<last>>) = 1
        /\ <<first>>[1] = first /\ <<last>>[1] = last
    BY <1>2
  <2>. DEFINE front == <<first>> \o motions
  <2>2. /\ front \in Seq(P) /\ Len(front) = 1 + n
        /\ \A i \in 1..(1 + n) : front[i] = IF i <= 1 THEN <<first>>[i] ELSE motions[i - 1]
    BY <1>3, <2>1, ConcatProperties
  <2>3. front[1] = first /\ \A i \in 2..(1 + n) : front[i] = motion
    BY <1>1, <1>3, <2>1, <2>2
  <2>. HIDE DEF front
  <2>4. /\ front \o <<last>> \in Seq(P) /\ Len(front \o <<last>>) = n + 2
        /\ \A i \in 1..(n + 2) :
               (front \o <<last>>)[i] = IF i <= 1 + n THEN front[i] ELSE <<last>>[i - (1 + n)]
    <3>1. /\ front \o <<last>> \in Seq(P) /\ Len(front \o <<last>>) = (1 + n) + 1
          /\ \A i \in 1..((1 + n) + 1) :
                 (front \o <<last>>)[i] = IF i <= 1 + n THEN front[i] ELSE <<last>>[i - (1 + n)]
      BY <2>1, <2>2, ConcatProperties
    <3>2. (1 + n) + 1 = n + 2
      BY <1>1
    <3>. QED
      BY <3>1, <3>2
  <2>5. (front \o <<last>>)[n + 2] = last
    BY <1>1, <2>1, <2>4
  <2>6. \A i \in 2..(n + 1) : (front \o <<last>>)[i] = motion
    BY <1>1, <2>3, <2>4
  <2>7. (front \o <<last>>)[1] = first
    BY <1>1, <2>3, <2>4
  <2>8. Plan(g) = front \o <<last>>
    BY <2>0 DEF front
  <2>. DEFINE plan == Plan(g)
  <2>9. /\ plan \in Seq(P) /\ Len(plan) = n + 2
        /\ plan[1] = first /\ plan[n + 2] = last /\ \A i \in 2..(n + 1) : plan[i] = motion
    BY <2>4, <2>5, <2>6, <2>7, <2>8
  <2>. HIDE DEF plan
  <2>10. ASSUME NEW i \in 1..(n + 2)
         PROVE  i = n + 2 <=> plan[i].part = "end" \/ (plan[i].part = "motion" /\ i = 1)
    <3>1. i = 1 \/ i \in 2..(n + 1) \/ i = n + 2
      BY <1>1
    <3>2. n + 2 # 1 /\ n + 2 \notin 2..(n + 1) /\ 1 \notin 2..(n + 1)
      BY <1>1
    <3>. QED
      BY <1>2, <2>9, <3>1, <3>2
  <2>. QED
    BY <1>1, <2>9, <2>10 DEF plan, P, n
<1>. QED
  BY <1>4, <1>5

\* Its elements are primitives; the commands of the controller's own are none.
LEMMA PlanPrimitives ==
    /\ \A g \in Goals : /\ Plan(g) \in Seq(Primitives) /\ Plan(g) # <<>>
                        /\ Range(Plan(g)) \subseteq Primitives
                        /\ Len(Plan(g)) \in Nat /\ Len(Plan(g)) > 0
    /\ \A c \in Primitives : c.part \in Parts
    /\ Stop \notin Primitives /\ Reset \notin Primitives /\ Empty \notin Primitives
    /\ Stop # Reset /\ Stop # Empty /\ Reset # Empty
<1>1. ASSUME NEW g \in Goals
      PROVE  /\ Plan(g) \in Seq(Primitives) /\ Plan(g) # <<>>
             /\ Range(Plan(g)) \subseteq Primitives
             /\ Len(Plan(g)) \in Nat /\ Len(Plan(g)) > 0
             /\ \A c \in Range(Plan(g)) : c.part \in Parts
  <2>1. Plan(g) \in Seq([goal : Goals, part : Parts]) /\ Len(Plan(g)) > 0
        /\ Len(Plan(g)) \in Nat
    BY PlanShape
  <2>2. Range(Plan(g)) \subseteq Primitives
    BY DEF Primitives
  <2>3. Plan(g) \in Seq(Primitives)
    BY <2>1, <2>2, SeqOfRange, SeqMonotonic
  <2>4. Range(Plan(g)) \subseteq [goal : Goals, part : Parts]
    BY <2>1, RangeOfSeq
  <2>5. Plan(g) # <<>>
    BY <2>1
  <2>. QED
    BY <2>1, <2>2, <2>3, <2>4, <2>5
<1>2. \A c \in Primitives : c.part \in Parts
  BY <1>1 DEF Primitives
<1>. QED
  BY <1>1, <1>2 DEF Stop, Reset, Empty, Primitive, Parts

-----------------------------------------------------------------------------
(* Type correctness, for any two threads and any hardware: what the executor *)
(* has still to push is not empty, and all that is under way are primitives.  *)

Flags == {cancel_requested, robot_stop_requested, was_executing}
Commands == Primitives \cup {Stop, Reset, Empty}

\* TypeOK in two parts, of which the provers need one at a time.
FlagsTyped == Flags \subseteq BOOLEAN /\ has_active_goal \in BOOLEAN

NodeTyped ==
    /\ lifecycle \in {"inactive", "active"} /\ deactivations \in 0..MaxDeactivations
    /\ rt \in {"idle", "status", "ready"}
    /\ execution_status \in {"IDLE", "EXECUTING", "SUCCESS", "ERROR", "STOPPING", "STOPPED"}
GoalsTyped ==
    /\ rt_goal_handle \in Goals \cup {None}
    /\ has_active_goal => rt_goal_handle \in Goals
    /\ request \in [Goals -> {"none", "succeeded", "canceled"}]
    /\ status \in [Goals -> {"unsent", "rejected", "executing", "succeeded", "canceled"}]
    /\ canceling \subseteq Goals /\ executed \subseteq Goals
    /\ goal_handle_timer \in Goals \cup {None}
QueueTyped ==
    /\ command \in Commands
    /\ moprim_queue \in Seq(Primitives) /\ Len(moprim_queue) <= Capacity
    /\ taken \in Seq(Primitives)
ExecutorTyped ==
    /\ ex = [pc |-> ex.pc, goal |-> ex.goal, left |-> ex.left]
    /\ ex.pc \in {"idle", "push", "publish", "execute"}
    /\ ex.pc # "idle" => ex.goal \in Goals
    /\ ex.left \in Seq(Primitives) /\ (ex.pc = "push" => ex.left # <<>>)

TypeInv == NodeTyped /\ GoalsTyped /\ QueueTyped /\ ExecutorTyped

LEMMA TypeParts == TypeInv /\ FlagsTyped => TypeOK
<1> SUFFICES ASSUME TypeInv, FlagsTyped PROVE TypeOK
  OBVIOUS
<1>1. command \in {Stop, Reset, Empty} \/ \E g \in Goals : command \in Range(Plan(g))
  BY DEF TypeInv, QueueTyped, Commands, Primitives
<1>. QED
  BY <1>1, Zenon DEF TypeInv, NodeTyped, GoalsTyped, QueueTyped, ExecutorTyped, FlagsTyped,
     Flags, TypeOK

LEMMA InitTypeInv == Init => TypeInv /\ FlagsTyped
<1> SUFFICES ASSUME Init PROVE TypeInv /\ FlagsTyped
  OBVIOUS
<1>1. /\ <<>> \in Seq(Primitives) /\ Len(<<>>) = 0
      /\ Capacity \in Nat /\ MaxDeactivations \in Nat
  BY MotionAssumption
<1>2. FlagsTyped
  BY Zenon DEF Init, FlagsTyped, Flags
<1>3. NodeTyped /\ GoalsTyped
  BY <1>1 DEF Init, NodeTyped, GoalsTyped
<1>4. QueueTyped /\ ExecutorTyped
  BY <1>1 DEF Init, QueueTyped, ExecutorTyped, ExIdle, Commands
<1>. QED
  BY <1>2, <1>3, <1>4 DEF TypeInv

LEMMA NextFlags == FlagsTyped /\ [Next]_vars => FlagsTyped'
<1> SUFFICES ASSUME FlagsTyped, [Next]_vars PROVE FlagsTyped'
  OBVIOUS
<1>. USE DEF FlagsTyped, Flags, node, handles, hardware
<1>1. CASE on_activate \/ on_deactivate \/ UpdateSend \/ AcceptPush \/ AcceptPublish
           \/ AcceptExecute \/ runNonRealtime \/ HardwareTake
  BY <1>1, Zenon DEF on_activate, on_deactivate, UpdateSend, AcceptPush, AcceptPublish,
     AcceptExecute, runNonRealtime, HardwareTake
<1>2. CASE UpdateCancel
  BY <1>2, Zenon DEF UpdateCancel
<1>3. CASE UpdateStatus
  <2>1. StatusExecuting => FlagsTyped'
    BY <1>3, Zenon DEF UpdateStatus, StatusExecuting
  <2>2. StatusSuccess => FlagsTyped'
    BY <1>3, Zenon DEF UpdateStatus, StatusSuccess, Conclude
  <2>3. StatusStopped => FlagsTyped'
    BY <1>3, Zenon DEF UpdateStatus, StatusStopped, Conclude
  <2>4. StatusOther => FlagsTyped'
    BY <1>3, Zenon DEF UpdateStatus, StatusOther
  <2>. QED
    BY <1>3, <2>1, <2>2, <2>3, <2>4 DEF UpdateStatus
<1>4. ASSUME NEW g \in Goals, goal_received_callback(g) PROVE FlagsTyped'
  BY <1>4, Zenon DEF goal_received_callback
<1>5. ASSUME NEW g \in Goals, goal_cancelled_callback(g) PROVE FlagsTyped'
  BY <1>5, Zenon DEF goal_cancelled_callback
<1>6. CASE HardwareFinish \/ HardwareFail \/ HardwareStop
  BY <1>6, Zenon DEF HardwareFinish, HardwareFail, HardwareStop, HardwareMoves
<1>7. CASE UNCHANGED vars
  BY <1>7, Zenon DEF vars
<1>. QED
  BY <1>1, <1>2, <1>3, <1>4, <1>5, <1>6, <1>7 DEF Next, Update, Accept

LEMMA NextTypeInv == TypeInv /\ [Next]_vars => TypeInv'
<1> SUFFICES ASSUME TypeInv, [Next]_vars PROVE TypeInv'
  OBVIOUS
<1>. USE DEF TypeInv, node, handles, hardware
<1>e. ASSUME UNCHANGED ex PROVE ExecutorTyped'
  BY <1>e DEF ExecutorTyped
<1>m. ASSUME command' \in Commands, taken' \in Seq(Primitives),
             moprim_queue' \in Seq(Primitives), Len(moprim_queue') <= Capacity
      PROVE  QueueTyped'
  BY <1>m, Zenon DEF QueueTyped
<1>q. ASSUME UNCHANGED <<moprim_queue, taken>>, command' \in Commands \cup {command}
      PROVE  QueueTyped'
  BY <1>m, <1>q DEF QueueTyped
<1>g. ASSUME UNCHANGED <<rt_goal_handle, request, status, canceling, executed,
                         goal_handle_timer>>, has_active_goal' => has_active_goal
      PROVE  GoalsTyped'
  BY <1>g DEF GoalsTyped
<1>n. ASSUME UNCHANGED <<lifecycle, deactivations, execution_status>>,
             rt' \in {"idle", "status", "ready"}
      PROVE  NodeTyped'
  BY <1>n DEF NodeTyped
<1>c. Stop \in Commands /\ Reset \in Commands /\ Empty \in Commands
  BY DEF Commands
<1>0. rt \in {"idle", "status", "ready"}
  BY DEF NodeTyped
<1>1. CASE on_activate
  <2>1. NodeTyped'
    BY <1>1 DEF on_activate, NodeTyped
  <2>. QED
    BY <1>1, <1>c, <1>e, <1>q, <1>g, <2>1 DEF on_activate
<1>2. CASE on_deactivate
  <2>1. NodeTyped'
    BY <1>2, MotionAssumption DEF on_deactivate, NodeTyped
  <2>. QED
    BY <1>2, <1>c, <1>e, <1>q, <1>g, <2>1 DEF on_deactivate
<1>3. CASE UpdateCancel
  <2>1. \/ UNCHANGED <<command, moprim_queue, taken>>
        \/ command' = Stop /\ moprim_queue' = <<>> /\ taken' = taken
    BY <1>3 DEF UpdateCancel, StopSent, Drained
  <2>2. QueueTyped'
    <3>1. <<>> \in Seq(Primitives) /\ Len(<<>>) = 0 /\ 0 <= Capacity
      BY MotionAssumption
    <3>. QED
      BY <1>c, <1>m, <1>q, <2>1, <3>1 DEF QueueTyped
  <2>. QED
    BY <1>3, <1>e, <1>g, <1>n, <2>2 DEF UpdateCancel
<1>4. CASE UpdateStatus
  <2>1. /\ UNCHANGED <<lifecycle, deactivations, execution_status, moprim_queue, taken, ex>>
        /\ UNCHANGED <<rt_goal_handle, status, canceling, executed, goal_handle_timer>>
        /\ rt' = "ready" /\ command' \in {command, Reset}
        /\ \/ UNCHANGED <<request, has_active_goal>>
           \/ Conclude("succeeded") /\ has_active_goal
           \/ Conclude("canceled") /\ has_active_goal
    BY <1>4 DEF UpdateStatus, StatusExecuting, StatusSuccess, StatusStopped, StatusOther,
       Succeeds
  <2>2. GoalsTyped'
    <3>1. CASE UNCHANGED <<request, has_active_goal>>
      BY <1>g, <2>1, <3>1
    <3>2. ASSUME NEW r \in {"succeeded", "canceled"}, Conclude(r), has_active_goal
          PROVE  GoalsTyped'
      BY <2>1, <3>2 DEF Conclude, Ask, GoalsTyped
    <3>. QED
      BY <2>1, <3>1, <3>2
  <2>. QED
    BY <1>c, <1>e, <1>q, <1>n, <2>1, <2>2
<1>5. CASE UpdateSend
  <2>1. CASE UNCHANGED <<command, moprim_queue>>
    BY <1>5, <1>e, <1>q, <1>g, <1>n, <2>1 DEF UpdateSend
  <2>2. CASE /\ moprim_queue # <<>>
             /\ command' = Head(moprim_queue) /\ moprim_queue' = Tail(moprim_queue)
    <3>1. /\ Head(moprim_queue) \in Primitives /\ Tail(moprim_queue) \in Seq(Primitives)
          /\ Len(Tail(moprim_queue)) <= Capacity
      BY <2>2, HeadTailProperties, LenProperties, MotionAssumption DEF QueueTyped
    <3>2. QueueTyped'
      BY <1>5, <1>m, <2>2, <3>1 DEF UpdateSend, QueueTyped, Commands
    <3>. QED
      BY <1>5, <1>e, <1>g, <1>n, <3>2 DEF UpdateSend
  <2>. QED
    BY <1>5, <2>1, <2>2 DEF UpdateSend
<1>6. ASSUME NEW g \in Goals, goal_received_callback(g) PROVE TypeInv'
  <2>1. UNCHANGED <<command, moprim_queue, taken, lifecycle, deactivations, rt,
                    execution_status, rt_goal_handle, request, canceling, executed,
                    goal_handle_timer, has_active_goal>>
    BY <1>6 DEF goal_received_callback
  <2>2. CASE status' = [status EXCEPT ![g] = "rejected"] /\ UNCHANGED ex
    BY <1>0, <1>e, <1>q, <1>n, <2>1, <2>2 DEF GoalsTyped
  <2>3. CASE ex' = [pc |-> "push", goal |-> g, left |-> Plan(g)] /\ UNCHANGED status
    <3>1. ExecutorTyped'
      BY <2>3, PlanPrimitives DEF ExecutorTyped
    <3>. QED
      BY <1>0, <1>q, <1>n, <1>g, <2>1, <2>3, <3>1
  <2>. QED
    BY <1>6, <2>2, <2>3 DEF goal_received_callback
<1>7. CASE AcceptPush
  <2>1. /\ ex.left \in Seq(Primitives) /\ ex.left # <<>>
        /\ moprim_queue \in Seq(Primitives) /\ Capacity \in Nat
    BY <1>7, MotionAssumption DEF AcceptPush, ExecutorTyped, QueueTyped
  <2>2. /\ Head(ex.left) \in Primitives /\ Tail(ex.left) \in Seq(Primitives)
        /\ Len(ex.left) # 1 => Tail(ex.left) # <<>>
    <3>1. /\ Head(ex.left) \in Primitives /\ Tail(ex.left) \in Seq(Primitives)
          /\ Len(Tail(ex.left)) = Len(ex.left) - 1
      BY <2>1, HeadTailProperties
    <3>2. Len(ex.left) \in Nat /\ Len(<<>>) = 0
      BY <2>1, LenProperties
    <3>3. Len(ex.left) # 1 => Len(Tail(ex.left)) # Len(<<>>)
      BY <3>1, <3>2
    <3>. QED
      BY <3>1, <3>3, Zenon
  <2>3. QueueTyped'
    <3>1. \/ moprim_queue' = moprim_queue
          \/ moprim_queue' = Append(moprim_queue, Head(ex.left)) /\ Len(moprim_queue) < Capacity
      BY <1>7 DEF AcceptPush
    <3>2. /\ Append(moprim_queue, Head(ex.left)) \in Seq(Primitives)
          /\ Len(Append(moprim_queue, Head(ex.left))) = Len(moprim_queue) + 1
          /\ Len(moprim_queue) \in Nat
      BY <2>1, <2>2, AppendProperties, LenProperties
    <3>3. UNCHANGED <<command, taken>>
      BY <1>7 DEF AcceptPush
    <3>. QED
      BY <1>m, <2>1, <3>1, <3>2, <3>3 DEF QueueTyped
  <2>4. ExecutorTyped'
    <3>1. ex' = [pc |-> IF Len(ex.left) = 1 THEN "publish" ELSE "push", goal |-> ex.goal,
                 left |-> Tail(ex.left)]
      BY <1>7 DEF AcceptPush, ExecutorTyped
    <3>2. ex.goal \in Goals
      BY <1>7 DEF AcceptPush, ExecutorTyped
    <3>. QED
      BY <2>2, <3>1, <3>2 DEF ExecutorTyped
  <2>. QED
    BY <1>0, <1>7, <1>g, <1>n, <2>3, <2>4 DEF AcceptPush
<1>8. CASE AcceptPublish
  <2>1. ex' = [pc |-> "execute", goal |-> ex.goal, left |-> ex.left] /\ ex.goal \in Goals
    BY <1>8 DEF AcceptPublish, ExecutorTyped
  <2>2. GoalsTyped' /\ ExecutorTyped'
    BY <1>8, <2>1 DEF AcceptPublish, Published, GoalsTyped, ExecutorTyped
  <2>. QED
    BY <1>0, <1>8, <1>q, <1>n, <2>2 DEF AcceptPublish
<1>9. CASE AcceptExecute
  <2>1. ex.goal \in Goals
    BY <1>9 DEF AcceptExecute, ExecutorTyped
  <2>2. GoalsTyped'
    BY <1>9, <2>1 DEF AcceptExecute, GoalsTyped
  <2>3. ExecutorTyped'
    BY <1>9 DEF AcceptExecute, ExecutorTyped, ExIdle
  <2>. QED
    BY <1>0, <1>9, <1>q, <1>n, <2>2, <2>3 DEF AcceptExecute
<1>10. ASSUME NEW g \in Goals, goal_cancelled_callback(g) PROVE TypeInv'
  <2>1. GoalsTyped'
    BY <1>10 DEF goal_cancelled_callback, GoalsTyped
  <2>. QED
    BY <1>0, <1>10, <1>e, <1>q, <1>n, <2>1 DEF goal_cancelled_callback
<1>11. CASE runNonRealtime
  <2>1. PICK g \in Goals : status' = [status EXCEPT ![g] = request[g]] /\ request[g] # "none"
    BY <1>11 DEF runNonRealtime
  <2>2. GoalsTyped'
    BY <1>11, <2>1 DEF runNonRealtime, GoalsTyped
  <2>. QED
    BY <1>0, <1>11, <1>e, <1>q, <1>n, <2>2 DEF runNonRealtime
<1>12. CASE HardwareTake
  <2>1. /\ command' = Empty /\ moprim_queue' = moprim_queue
        /\ \/ taken' = <<>> /\ execution_status' \in {"STOPPING", "IDLE"}
           \/ /\ command \notin {Stop, Reset, Empty} /\ taken' = Append(taken, command)
              /\ execution_status' \in {execution_status, "EXECUTING"}
    BY <1>12 DEF HardwareTake
  <2>2. QueueTyped'
    <3>1. command \in Primitives => Append(taken, command) \in Seq(Primitives)
      BY AppendProperties DEF QueueTyped
    <3>2. taken' \in Seq(Primitives)
      BY <2>1, <3>1, EmptySeq DEF QueueTyped, Commands
    <3>. QED
      BY <1>c, <1>m, <2>1, <3>2 DEF QueueTyped
  <2>3. NodeTyped'
    BY <1>12, <2>1 DEF HardwareTake, NodeTyped
  <2>. QED
    BY <1>12, <1>e, <1>g, <2>2, <2>3 DEF HardwareTake
<1>13. CASE HardwareFinish \/ HardwareFail \/ HardwareStop
  <2>1. /\ UNCHANGED <<lifecycle, deactivations, command, moprim_queue, has_active_goal,
                       rt_goal_handle, request, status, canceling, goal_handle_timer, rt, ex>>
        /\ execution_status' \in {"SUCCESS", "ERROR", "STOPPED"}
        /\ taken' \in {<<>>, taken} /\ executed' \in SUBSET (executed \cup Goals)
    BY <1>13 DEF HardwareFinish, HardwareFail, HardwareStop, HardwareMoves
  <2>2. NodeTyped' /\ GoalsTyped'
    BY <2>1 DEF NodeTyped, GoalsTyped
  <2>3. QueueTyped'
    <3>1. taken' \in Seq(Primitives)
      BY <2>1, EmptySeq DEF QueueTyped
    <3>. QED
      BY <1>m, <2>1, <3>1 DEF QueueTyped
  <2>. QED
    BY <1>e, <2>1, <2>2, <2>3
<1>14. CASE UNCHANGED vars
  BY <1>0, <1>14, <1>e, <1>q, <1>g, <1>n DEF vars
<1>. QED
  BY <1>1, <1>2, <1>3, <1>4, <1>5, <1>6, <1>7, <1>8, <1>9, <1>10, <1>11, <1>12, <1>13, <1>14
  DEF Next, Update, Accept

\* The variables keep their types, whatever the two threads and the hardware do: the
\* queue never holds more than its capacity, and an active goal has its handle.
THEOREM TypeCorrect == Spec => []TypeOK
<1>1. Spec => [](TypeInv /\ FlagsTyped)
  BY InitTypeInv, NextTypeInv, NextFlags, PTL DEF Spec
<1>. QED
  BY <1>1, TypeParts, PTL

-----------------------------------------------------------------------------
(* The way of a plan from the executor to the hardware, when a handler runs   *)
(* to its end before another one starts and the hardware keeps up.           *)

\* How many primitives of the active goal have left the queue.
Sent == Len(taken) + (IF command \in Primitives THEN 1 ELSE 0)

Stands == execution_status \in {"STOPPING", "STOPPED"}

\* The hardware has the beginning of a plan, and executes exactly when it is all of it.
Collects(g) ==
    /\ Len(taken) <= Len(Plan(g)) /\ \A i \in 1..Len(taken) : taken[i] = Plan(g)[i]
    /\ execution_status = "EXECUTING" <=> Len(taken) = Len(Plan(g))
    /\ taken # <<>> => ~Stands

\* The queue has the rest of a plan.
Remains(g, done) ==
    /\ Len(Plan(g)) = done + Len(moprim_queue)
    /\ \A i \in 1..Len(moprim_queue) : moprim_queue[i] = Plan(g)[done + i]

\* The active goal is on its way, stopped on its way, or over.
Running(g) ==
    /\ Collects(g) /\ Remains(g, Sent)
    /\ command \in Primitives => command = Plan(g)[Len(taken) + 1] /\ ~Stands
    /\ command # Stop /\ ~robot_stop_requested
    /\ command = Reset => taken = <<>>
Stopping(g) == Collects(g) /\ command = Stop /\ moprim_queue = <<>>
Over ==
    /\ taken = <<>> /\ command \notin Primitives /\ moprim_queue = <<>>
    /\ execution_status # "EXECUTING"

ActiveKnown ==
    has_active_goal => Running(rt_goal_handle) \/ Stopping(rt_goal_handle) \/ Over

\* The plan of a goal that is being accepted is partly in the queue.
Accepting ==
    /\ ex.pc = "push" =>
           /\ Len(Plan(ex.goal)) = Len(moprim_queue) + Len(ex.left)
           /\ Len(Plan(ex.goal)) <= Capacity
           /\ \A i \in 1..Len(moprim_queue) : moprim_queue[i] = Plan(ex.goal)[i]
           /\ \A i \in 1..Len(ex.left) : ex.left[i] = Plan(ex.goal)[Len(moprim_queue) + i]
    /\ ex.pc = "publish" => Remains(ex.goal, 0)
    /\ ex.pc \in {"push", "publish"} =>
           ~has_active_goal /\ ~robot_stop_requested /\ command # Stop

NoneActive ==
    ~has_active_goal =>
        /\ taken = <<>> /\ command \notin Primitives /\ execution_status # "EXECUTING"
        /\ ~was_executing
        /\ ex.pc = "idle" => moprim_queue = <<>>
        /\ ex.pc # "execute"

\* A stop command and its answer are seen before anything else is done.
StopPending ==
    /\ Stands => robot_stop_requested \/ command = Reset
    /\ command = Stop => robot_stop_requested /\ moprim_queue = <<>>

\* One handler at a time, and a command is there for a cycle only when it is a stop.
OneHandler ==
    /\ rt # "idle" => ex.pc = "idle" /\ command \notin Primitives
    /\ rt = "status" => command # Reset
    /\ lifecycle = "inactive" => command = Empty /\ rt = "idle"

\* An execution that was seen and has ended leaves nothing, and was that of the active
\* goal.
SeenIsOver ==
    was_executing /\ execution_status # "EXECUTING" =>
        /\ has_active_goal /\ Over
        /\ execution_status = "SUCCESS" => rt_goal_handle \in executed

PlanInv ==
    /\ ActiveKnown /\ Accepting /\ NoneActive /\ StopPending /\ OneHandler /\ SeenIsOver
    /\ SuccessIsExecuted

stream == <<taken, command, moprim_queue, execution_status, robot_stop_requested>>
goal == <<has_active_goal, rt_goal_handle, was_executing, executed, request>>

LEMMA InitPlanInv == Init => PlanInv
<1> SUFFICES ASSUME Init PROVE PlanInv
  OBVIOUS
<1>1. Empty \notin Primitives /\ Stop # Empty
  BY PlanPrimitives
<1>2. ActiveKnown /\ Accepting /\ StopPending /\ SeenIsOver
  BY <1>1 DEF Init, ActiveKnown, Accepting, StopPending, SeenIsOver, ExIdle, Stands
<1>3. NoneActive /\ OneHandler /\ SuccessIsExecuted
  BY <1>1 DEF Init, NoneActive, OneHandler, SuccessIsExecuted, ExIdle
<1>. QED
  BY <1>2, <1>3 DEF PlanInv

\* Steps that touch neither the stream of primitives nor the goal.
LEMMA Undisturbed ==
    ASSUME PlanInv, UNCHANGED stream, UNCHANGED goal
    PROVE  ActiveKnown' /\ StopPending' /\ SeenIsOver' /\ SuccessIsExecuted'
<1>1. ActiveKnown'
  BY DEF PlanInv, stream, goal, ActiveKnown, Running, Stopping, Over, Collects, Remains, Sent,
     Stands
<1>2. StopPending' /\ SuccessIsExecuted'
  BY DEF PlanInv, stream, goal, StopPending, Stands, SuccessIsExecuted
<1>3. SeenIsOver'
  BY DEF PlanInv, stream, goal, SeenIsOver, Over
<1>. QED
  BY <1>1, <1>2, <1>3

\* ... and not the executor.
LEMMA UndisturbedExecutor ==
    ASSUME PlanInv, UNCHANGED stream, UNCHANGED goal, UNCHANGED ex
    PROVE  Accepting' /\ NoneActive'
BY DEF PlanInv, stream, goal, Accepting, NoneActive, Remains

LEMMA ExecutorPlanInv ==
    ASSUME Concurrent = FALSE, TypeInv, PlanInv,
           \/ Accept \/ runNonRealtime
           \/ \E g \in Goals : goal_received_callback(g) \/ goal_cancelled_callback(g)
    PROVE  PlanInv'
<1>. USE DEF node, handles, hardware
<1>1. CASE runNonRealtime \/ \E g \in Goals : goal_cancelled_callback(g)
  <2>1. UNCHANGED stream /\ UNCHANGED goal /\ UNCHANGED <<ex, rt, lifecycle>>
    BY <1>1 DEF runNonRealtime, goal_cancelled_callback, stream, goal
  <2>2. OneHandler'
    BY <2>1 DEF PlanInv, OneHandler, stream
  <2>. QED
    BY <2>1, <2>2, Undisturbed, UndisturbedExecutor DEF PlanInv
<1>2. ASSUME NEW g \in Goals, goal_received_callback(g) PROVE PlanInv'
  <2>1. UNCHANGED stream /\ UNCHANGED goal /\ UNCHANGED <<rt, lifecycle>>
        /\ rt = "idle" /\ ex.pc = "idle"
    BY <1>2 DEF goal_received_callback, ExecutorTurn, stream, goal
  <2>2. CASE UNCHANGED ex
    <3>1. OneHandler'
      BY <2>1, <2>2 DEF PlanInv, OneHandler, stream
    <3>. QED
      BY <2>1, <2>2, <3>1, Undisturbed, UndisturbedExecutor DEF PlanInv
  <2>3. CASE /\ ex' = [pc |-> "push", goal |-> g, left |-> Plan(g)]
             /\ ~has_active_goal /\ ~robot_stop_requested /\ Fits(g)
    <3>1. /\ ex'.pc = "push" /\ ex'.goal = g /\ ex'.left = Plan(g)
      BY <2>3
    <3>2. moprim_queue = <<>> /\ Len(moprim_queue) = 0 /\ moprim_queue' = moprim_queue
      BY <2>1, <2>3 DEF PlanInv, NoneActive, stream
    <3>3. Len(Plan(g)) \in Nat /\ Len(Plan(g)) <= Capacity
      <4>1. Motions[g] + 2 <= Capacity
        <5>1. Motions[g] \in Nat /\ Capacity \in Nat
          BY MotionAssumption
        <5>. QED
          BY <2>3, <3>2, <5>1 DEF Fits
      <4>2. Len(Plan(g)) \in Nat /\ Len(Plan(g)) <= Motions[g] + 2
        BY PlanShape
      <4>3. Motions[g] \in Nat /\ Capacity \in Nat
        BY MotionAssumption
      <4>. QED
        BY <4>1, <4>2, <4>3
    <3>4. command # Stop
      BY <2>3 DEF PlanInv, StopPending
    <3>5. Accepting'
      BY <2>1, <2>3, <3>1, <3>2, <3>3, <3>4 DEF Accepting, stream, goal
    <3>6. NoneActive'
      BY <2>1, <2>3, <3>1 DEF PlanInv, NoneActive, stream, goal
    <3>7. OneHandler'
      BY <2>1 DEF PlanInv, OneHandler, stream
    <3>. QED
      BY <2>1, <3>5, <3>6, <3>7, Undisturbed DEF PlanInv
  <2>. QED
    BY <1>2, <2>2, <2>3 DEF goal_received_callback
<1>3. CASE AcceptPush
  <2>. DEFINE q == moprim_queue
              left == ex.left
              plan == Plan(ex.goal)
  <2>1. /\ left \in Seq(Primitives) /\ left # <<>> /\ q \in Seq(Primitives)
        /\ ex.goal \in Goals /\ ex.pc = "push"
        /\ ex = [pc |-> ex.pc, goal |-> ex.goal, left |-> ex.left]
    BY <1>3 DEF AcceptPush, TypeInv, ExecutorTyped, QueueTyped
  <2>2. /\ Len(q) \in Nat /\ Len(left) \in Nat /\ Len(left) > 0
        /\ Head(left) = left[1] /\ Head(left) \in Primitives
        /\ Tail(left) \in Seq(Primitives) /\ Len(Tail(left)) = Len(left) - 1
        /\ \A i \in 1..Len(Tail(left)) : Tail(left)[i] = left[i + 1]
    BY <2>1, HeadTailProperties, LenProperties, EmptySeq
  <2>3. /\ Len(plan) = Len(q) + Len(left) /\ Len(plan) <= Capacity /\ Capacity \in Nat
        /\ \A i \in 1..Len(q) : q[i] = plan[i]
        /\ \A i \in 1..Len(left) : left[i] = plan[Len(q) + i]
        /\ ~has_active_goal /\ ~robot_stop_requested /\ command # Stop
    BY <2>1, MotionAssumption DEF PlanInv, Accepting
  <2>4. q' = Append(q, Head(left))
    <3>1. Len(q) < Capacity
      BY <2>2, <2>3
    <3>. QED
      BY <1>3, <3>1 DEF AcceptPush
  <2>5. /\ Len(q') = Len(q) + 1
        /\ \A i \in 1..Len(q) : q'[i] = q[i]
        /\ q'[Len(q) + 1] = left[1]
    BY <2>1, <2>2, <2>4, AppendProperties
  <2>6. \A i \in 1..Len(q') : q'[i] = plan[i]
    <3>0. 1 \in 1..Len(left)
      BY <2>2
    <3>1. left[1] = plan[Len(q) + 1]
      BY <2>3, <3>0
    <3>. QED
      BY <2>2, <2>3, <2>5, <3>1
  <2>7. /\ ex'.goal = ex.goal /\ ex'.left = Tail(left)
        /\ ex'.pc = IF Len(left) = 1 THEN "publish" ELSE "push"
    BY <1>3, <2>1 DEF AcceptPush
  <2>8. \A i \in 1..Len(ex'.left) : ex'.left[i] = plan[Len(q') + i]
    <3>1. ASSUME NEW i \in 1..Len(Tail(left)) PROVE Tail(left)[i] = plan[Len(q') + i]
      <4>1. i + 1 \in 1..Len(left) /\ Len(q) + (i + 1) = Len(q') + i
        BY <2>2, <2>5
      <4>. QED
        BY <2>2, <2>3, <4>1
    <3>. QED
      BY <2>7, <3>1
  <2>9. UNCHANGED <<command, taken, execution_status, robot_stop_requested>>
        /\ UNCHANGED goal /\ UNCHANGED <<rt, lifecycle>>
    BY <1>3 DEF AcceptPush, goal
  <2>. HIDE DEF left
  <2>10. Len(plan) = Len(q') + Len(ex'.left) /\ (Len(left) = 1 => Len(plan) = 0 + Len(q'))
    BY <2>2, <2>3, <2>5, <2>7
  <2>11. (ex'.pc = "publish" => Len(left) = 1) /\ ex'.pc \in {"push", "publish"}
    BY <2>7
  <2>12. Accepting'
    BY <2>3, <2>6, <2>7, <2>8, <2>9, <2>10, <2>11 DEF Accepting, Remains, goal
  <2>13. ActiveKnown' /\ NoneActive' /\ OneHandler' /\ StopPending' /\ SeenIsOver'
        /\ SuccessIsExecuted'
    BY <2>1, <2>3, <2>9, <2>11 DEF PlanInv, ActiveKnown, NoneActive, OneHandler, StopPending,
       SeenIsOver, SuccessIsExecuted, Stands, goal
  <2>. QED
    BY <2>12, <2>13 DEF PlanInv
<1>4. CASE AcceptPublish
  <2>1. /\ UNCHANGED stream /\ UNCHANGED <<was_executing, executed, request, rt, lifecycle>>
        /\ rt_goal_handle' = ex.goal /\ has_active_goal' = TRUE
        /\ ex.pc = "publish" /\ ex'.pc = "execute" /\ ex.goal \in Goals
    BY <1>4 DEF AcceptPublish, Published, stream, TypeInv, ExecutorTyped
  <2>2. /\ ~has_active_goal /\ ~robot_stop_requested /\ command # Stop
        /\ Remains(ex.goal, 0)
        /\ taken = <<>> /\ command \notin Primitives /\ execution_status # "EXECUTING"
        /\ ~was_executing
    BY <2>1 DEF PlanInv, Accepting, NoneActive
  <2>3. Len(Plan(ex.goal)) \in Nat /\ Len(Plan(ex.goal)) > 0 /\ Len(taken) = 0
    BY <2>1, <2>2, PlanPrimitives
  <2>4. Running(ex.goal)
    BY <2>2, <2>3 DEF Running, Collects, Sent
  <2>5. ActiveKnown'
    BY <2>1, <2>4 DEF stream, ActiveKnown, Running, Collects, Remains, Sent, Stands
  <2>6. Accepting' /\ NoneActive' /\ OneHandler' /\ StopPending' /\ SeenIsOver'
        /\ SuccessIsExecuted'
    BY <2>1, <2>2 DEF PlanInv, Accepting, NoneActive, OneHandler, StopPending,
       SeenIsOver, SuccessIsExecuted, Stands, stream
  <2>. QED
    BY <2>5, <2>6 DEF PlanInv
<1>5. CASE AcceptExecute
  <2>1. UNCHANGED stream /\ UNCHANGED goal /\ UNCHANGED <<rt, lifecycle>>
        /\ ex' = ExIdle /\ ex.pc = "execute"
    BY <1>5 DEF AcceptExecute, stream, goal
  <2>2. Accepting' /\ NoneActive' /\ OneHandler'
    BY <2>1 DEF PlanInv, Accepting, NoneActive, OneHandler, ExIdle, stream, goal
  <2>. QED
    BY <2>1, <2>2, Undisturbed DEF PlanInv
<1>. QED
  BY <1>1, <1>2, <1>3, <1>4, <1>5 DEF Accept

LEMMA LifecyclePlanInv ==
    ASSUME Prompt = TRUE, PlanInv, on_activate \/ on_deactivate
    PROVE  PlanInv'
<1>. USE DEF node, handles, hardware
<1>1. UNCHANGED stream /\ UNCHANGED goal /\ UNCHANGED <<ex, rt>>
      /\ command = Empty /\ rt = "idle"
  BY DEF on_activate, on_deactivate, KeepsUp, PlanInv, OneHandler, stream, goal
<1>2. OneHandler'
  BY <1>1 DEF PlanInv, OneHandler, stream
<1>. QED
  BY <1>1, <1>2, Undisturbed, UndisturbedExecutor DEF PlanInv

\* A cancel request is served: the goal on its way is stopped on its way.
LEMMA CancelPlanInv ==
    ASSUME Prompt = TRUE, Concurrent = FALSE, PlanInv, UpdateCancel
    PROVE  PlanInv'
<1>. USE DEF node, handles, hardware
<1>0. ex.pc = "idle" /\ ex' = ex /\ command = Empty /\ rt' = "status" /\ lifecycle' = "active"
      /\ UNCHANGED goal /\ UNCHANGED <<taken, execution_status>>
  BY DEF UpdateCancel, UpdateTurn, KeepsUp, ExIdle, goal
<1>1. /\ Empty \notin Primitives /\ Stop \notin Primitives
      /\ Empty # Reset /\ Stop # Reset /\ Empty # Stop
  BY PlanPrimitives
<1>2. CASE UNCHANGED stream
  <2>1. OneHandler'
    BY <1>0, <1>1, <1>2 DEF PlanInv, OneHandler, stream
  <2>. QED
    BY <1>0, <1>2, <2>1, Undisturbed, UndisturbedExecutor DEF PlanInv
<1>3. CASE command' = Stop /\ moprim_queue' = <<>> /\ robot_stop_requested' = TRUE
  <2>1. ActiveKnown'
    <3>1. ASSUME has_active_goal
          PROVE  Collects(rt_goal_handle) \/ Over
      BY <1>0, <1>1, <3>1 DEF PlanInv, ActiveKnown, Running, Stopping
    <3>. QED
      BY <1>0, <1>1, <1>3, <3>1 DEF ActiveKnown, Stopping, Collects, Over, Stands, goal
  <2>2. Accepting' /\ NoneActive' /\ StopPending' /\ OneHandler'
    BY <1>0, <1>1, <1>3 DEF PlanInv, Accepting, NoneActive, StopPending, OneHandler, Stands,
       goal
  <2>3. SeenIsOver' /\ SuccessIsExecuted'
    BY <1>0, <1>1, <1>3 DEF PlanInv, SeenIsOver, Over, SuccessIsExecuted, goal
  <2>. QED
    BY <2>1, <2>2, <2>3 DEF PlanInv
<1>. QED
  BY <1>0, <1>2, <1>3 DEF UpdateCancel, StopSent, Drained, stream

\* update() follows the status: the goal it ends has nothing left under way.
LEMMA StatusPlanInv ==
    ASSUME Prompt = TRUE, TypeInv, PlanInv, UpdateStatus
    PROVE  PlanInv'
<1>. USE DEF node, handles, hardware
<1>0. /\ UNCHANGED <<taken, execution_status, moprim_queue, ex, rt_goal_handle, executed>>
      /\ rt = "status" /\ rt' = "ready" /\ lifecycle' = lifecycle
      /\ ex.pc = "idle" /\ command \notin Primitives /\ command # Reset
      /\ lifecycle # "inactive"
  BY DEF UpdateStatus, PlanInv, OneHandler
<1>1. Reset \notin Primitives /\ Stop # Reset
  BY PlanPrimitives
<1>2. has_active_goal => rt_goal_handle \in Goals
  BY DEF TypeInv, GoalsTyped
<1>3. Accepting'
  BY <1>0 DEF Accepting
<1>4. CASE StatusExecuting \/ StatusOther
  <2>1. UNCHANGED stream /\ UNCHANGED <<has_active_goal, request>>
    BY <1>0, <1>4 DEF StatusExecuting, StatusOther, stream
  <2>2. was_executing' => was_executing \/ execution_status = "EXECUTING"
    BY <1>4 DEF StatusExecuting, StatusOther
  <2>3. ActiveKnown' /\ StopPending'
    BY <1>0, <2>1 DEF PlanInv, stream, ActiveKnown, Running, Stopping, Over, Collects, Remains,
       Sent, Stands, StopPending
  <2>4. NoneActive' /\ OneHandler' /\ SuccessIsExecuted'
    BY <1>0, <2>1, <2>2 DEF PlanInv, stream, NoneActive, OneHandler, SuccessIsExecuted
  <2>5. SeenIsOver'
    BY <1>0, <2>1, <2>2 DEF PlanInv, stream, SeenIsOver, Over
  <2>. QED
    BY <1>3, <2>3, <2>4, <2>5 DEF PlanInv
<1>5. CASE StatusSuccess
  <2>1. UNCHANGED stream /\ execution_status = "SUCCESS"
    BY <1>0, <1>5 DEF StatusSuccess, stream
  <2>2. CASE ~Succeeds
    <3>1. UNCHANGED goal
      BY <1>0, <1>5, <2>2 DEF StatusSuccess, goal
    <3>2. OneHandler'
      BY <1>0, <2>1 DEF OneHandler, stream
    <3>. QED
      BY <1>0, <2>1, <3>1, <3>2, Undisturbed, UndisturbedExecutor DEF PlanInv
  <2>3. CASE Succeeds
    <3>1. Over /\ rt_goal_handle \in executed
      BY <2>1, <2>3 DEF PlanInv, SeenIsOver, Succeeds
    <3>2. /\ has_active_goal' = FALSE /\ was_executing' = FALSE
          /\ request' \in {request, [request EXCEPT ![rt_goal_handle] = "succeeded"]}
      BY <1>5, <2>3 DEF StatusSuccess, Conclude, Ask
    <3>3. SuccessIsExecuted'
      BY <1>0, <3>1, <3>2 DEF PlanInv, SuccessIsExecuted, TypeInv, GoalsTyped
    <3>4. ActiveKnown' /\ NoneActive' /\ SeenIsOver'
      BY <1>0, <2>1, <3>1, <3>2 DEF ActiveKnown, NoneActive, SeenIsOver, Over, stream
    <3>5. StopPending' /\ OneHandler'
      BY <1>0, <2>1 DEF PlanInv, StopPending, OneHandler, Stands, stream
    <3>. QED
      BY <1>3, <3>3, <3>4, <3>5 DEF PlanInv
  <2>. QED
    BY <2>2, <2>3
<1>6. CASE StatusStopped
  <2>1. /\ execution_status = "STOPPED" /\ ~was_executing' /\ ~has_active_goal'
        /\ \/ request' = request
           \/ has_active_goal /\ request' = [request EXCEPT ![rt_goal_handle] = "canceled"]
        /\ robot_stop_requested => command' = Reset
        /\ command' \in {command, Reset} /\ (command' = command \/ ~robot_stop_requested')
    BY <1>6 DEF StatusStopped, Conclude, Ask
  \* A goal that is on its way is not met here: the stop is answered before it starts.
  <2>2. taken = <<>> /\ moprim_queue = <<>>
    <3>1. robot_stop_requested
      BY <1>0, <2>1 DEF PlanInv, StopPending, Stands
    <3>2. CASE has_active_goal
      BY <2>1, <3>1, <3>2 DEF PlanInv, ActiveKnown, Running, Stopping, Collects, Over, Stands
    <3>3. CASE ~has_active_goal
      BY <1>0, <3>3 DEF PlanInv, NoneActive
    <3>. QED
      BY <3>2, <3>3
  <2>3. SuccessIsExecuted'
    BY <1>0, <1>2, <2>1 DEF PlanInv, SuccessIsExecuted, TypeInv, GoalsTyped
  <2>4. ActiveKnown' /\ NoneActive' /\ SeenIsOver'
    BY <1>0, <1>1, <2>1, <2>2 DEF ActiveKnown, NoneActive, SeenIsOver
  <2>5. robot_stop_requested
    BY <1>0, <2>1 DEF PlanInv, StopPending, Stands
  <2>6. StopPending' /\ OneHandler'
    BY <1>0, <1>1, <2>1, <2>5 DEF StopPending, OneHandler, Stands
  <2>. QED
    BY <1>3, <2>3, <2>4, <2>6 DEF PlanInv
<1>. QED
  BY <1>4, <1>5, <1>6 DEF UpdateStatus

\* update() forwards the next primitive of the plan.
LEMMA SendPlanInv ==
    ASSUME TypeInv, PlanInv, UpdateSend
    PROVE  PlanInv'
<1>. USE DEF node, handles, hardware
<1>0. /\ UNCHANGED <<taken, execution_status, robot_stop_requested, ex>> /\ UNCHANGED goal
      /\ rt = "ready" /\ rt' = "idle" /\ lifecycle' = lifecycle
      /\ ex.pc = "idle" /\ lifecycle # "inactive"
  BY DEF UpdateSend, PlanInv, OneHandler, goal
<1>1. CASE UNCHANGED <<command, moprim_queue>>
  <2>1. UNCHANGED stream
    BY <1>0, <1>1 DEF stream
  <2>2. OneHandler'
    BY <1>0, <1>1 DEF OneHandler
  <2>. QED
    BY <1>0, <2>1, <2>2, Undisturbed, UndisturbedExecutor DEF PlanInv
<1>2. CASE /\ ready_for_new_primitive /\ moprim_queue # <<>>
           /\ command' = Head(moprim_queue) /\ moprim_queue' = Tail(moprim_queue)
  <2>. DEFINE g == rt_goal_handle
              q == moprim_queue
              plan == Plan(rt_goal_handle)
  <2>1. command = Empty /\ execution_status \in {"IDLE", "SUCCESS", "ERROR"}
        /\ Empty \notin Primitives /\ Empty # Stop /\ Empty # Reset
    BY <1>2, PlanPrimitives DEF ready_for_new_primitive
  <2>2. has_active_goal /\ g \in Goals
    BY <1>0, <1>2 DEF PlanInv, NoneActive, TypeInv, GoalsTyped
  <2>3. Running(g)
    BY <1>2, <2>1, <2>2 DEF PlanInv, ActiveKnown, Stopping, Over
  <2>4. /\ q \in Seq(Primitives) /\ taken \in Seq(Primitives)
        /\ Len(taken) \in Nat /\ Len(q) \in Nat /\ Len(q) > 0
        /\ Head(q) = q[1] /\ Head(q) \in Primitives
        /\ Tail(q) \in Seq(Primitives) /\ Len(Tail(q)) = Len(q) - 1
        /\ \A i \in 1..Len(Tail(q)) : Tail(q)[i] = q[i + 1]
    BY <1>2, HeadTailProperties, LenProperties, EmptySeq DEF TypeInv, QueueTyped
  <2>5. /\ Len(plan) = Len(taken) + Len(q)
        /\ \A i \in 1..Len(q) : q[i] = plan[Len(taken) + i]
    <3>1. Sent = Len(taken)
      BY <2>1, <2>4 DEF Sent
    <3>. QED
      BY <2>3, <3>1 DEF Running, Remains
  <2>6. command' = plan[Len(taken) + 1] /\ command' \in Primitives
    <3>1. 1 \in 1..Len(q)
      BY <2>4
    <3>. QED
      BY <1>2, <2>4, <2>5, <3>1
  <2>7. Remains(g, Sent)'
    <3>1. Sent' = Len(taken) + 1
      BY <1>0, <2>6 DEF Sent
    <3>2. ASSUME NEW i \in 1..Len(Tail(q)) PROVE Tail(q)[i] = plan[(Len(taken) + 1) + i]
      <4>1. i + 1 \in 1..Len(q) /\ Len(taken) + (i + 1) = (Len(taken) + 1) + i
        BY <2>4
      <4>. QED
        BY <2>4, <2>5, <4>1
    <3>3. Len(plan) = (Len(taken) + 1) + Len(Tail(q))
      BY <2>4, <2>5
    <3>. QED
      BY <1>0, <1>2, <3>1, <3>2, <3>3 DEF Remains, goal
  <2>8. command' # Stop /\ command' # Reset
    BY <2>6, PlanPrimitives
  <2>9. Running(g)'
    BY <1>0, <2>1, <2>3, <2>6, <2>7, <2>8 DEF Running, Collects, Stands, goal
  <2>10. ActiveKnown' /\ Accepting' /\ NoneActive' /\ StopPending'
    BY <1>0, <2>1, <2>2, <2>8, <2>9 DEF ActiveKnown, Accepting, NoneActive, StopPending, Stands, goal
  <2>11. OneHandler' /\ SuccessIsExecuted'
    BY <1>0 DEF PlanInv, OneHandler, SuccessIsExecuted, goal
  <2>12. SeenIsOver'
    <3>1. ~was_executing
      BY <1>2, <2>1 DEF PlanInv, SeenIsOver, Over
    <3>. QED
      BY <1>0, <3>1 DEF SeenIsOver, goal
  <2>. QED
    BY <2>10, <2>11, <2>12 DEF PlanInv
<1>. QED
  BY <1>1, <1>2 DEF UpdateSend

\* The hardware takes the next primitive: the last one of a plan starts its execution.
LEMMA TakesPrimitive ==
    ASSUME TypeInv, PlanInv, HardwareTake, command \notin {Stop, Reset}
    PROVE  /\ has_active_goal /\ Running(rt_goal_handle)'
           /\ execution_status # "EXECUTING" /\ ~Stands
           /\ execution_status' \in {execution_status, "EXECUTING"}
<1>. USE DEF node, handles, hardware
<1>. DEFINE g == rt_goal_handle
            plan == Plan(rt_goal_handle)
<1>0. /\ command \in Primitives /\ command' = Empty /\ taken' = Append(taken, command)
      /\ execution_status' = IF Starts(command) THEN "EXECUTING" ELSE execution_status
      /\ UNCHANGED <<moprim_queue, robot_stop_requested, has_active_goal, rt_goal_handle>>
      /\ command # Empty
  BY DEF HardwareTake, TypeInv, QueueTyped, Commands
<1>1. Empty \notin Primitives /\ Empty # Stop /\ Empty # Reset
  BY PlanPrimitives
<1>2. has_active_goal /\ g \in Goals
  BY <1>0 DEF PlanInv, NoneActive, TypeInv, GoalsTyped
<1>3. Running(g)
  BY <1>0, <1>2 DEF PlanInv, ActiveKnown, Stopping, Over
<1>4. /\ taken \in Seq(Primitives) /\ Len(taken) \in Nat
      /\ moprim_queue \in Seq(Primitives) /\ Len(moprim_queue) \in Nat
      /\ taken' \in Seq(Primitives) /\ Len(taken') = Len(taken) + 1
      /\ \A i \in 1..Len(taken) : taken'[i] = taken[i]
      /\ taken'[Len(taken) + 1] = command
  BY <1>0, AppendProperties, LenProperties DEF TypeInv, QueueTyped
<1>5. /\ Len(plan) = (Len(taken) + 1) + Len(moprim_queue)
      /\ \A i \in 1..Len(moprim_queue) : moprim_queue[i] = plan[(Len(taken) + 1) + i]
      /\ command = plan[Len(taken) + 1] /\ ~Stands
      /\ \A i \in 1..Len(taken) : taken[i] = plan[i]
      /\ execution_status = "EXECUTING" <=> Len(taken) = Len(plan)
      /\ ~robot_stop_requested
  BY <1>0, <1>3 DEF Running, Remains, Sent, Collects
<1>6. execution_status # "EXECUTING"
  BY <1>4, <1>5
<1>7. Starts(command) <=> Len(taken) + 1 = Len(plan)
  <2>1. Len(taken) + 1 \in 1..Len(plan)
    BY <1>4, <1>5
  <2>2. taken = <<>> <=> Len(taken) + 1 = 1
    BY <1>4, EmptySeq
  <2>3. Len(taken) + 1 = Len(plan) <=>
            \/ plan[Len(taken) + 1].part = "end"
            \/ plan[Len(taken) + 1].part = "motion" /\ Len(taken) + 1 = 1
    BY <1>2, <2>1, PlanShape
  <2>. QED
    BY <1>5, <2>2, <2>3 DEF Starts
<1>8. \A i \in 1..Len(taken') : taken'[i] = plan[i]
  BY <1>4, <1>5
<1>9. Collects(g)'
  <2>1. Len(taken') <= Len(plan)
    BY <1>4, <1>5
  <2>2. execution_status' = "EXECUTING" <=> Len(taken') = Len(plan)
    BY <1>0, <1>4, <1>6, <1>7
  <2>3. ~Stands'
    BY <1>0, <1>5 DEF Stands
  <2>. QED
    BY <1>0, <1>8, <2>1, <2>2, <2>3 DEF Collects
<1>10. Remains(g, Sent)'
  <2>1. Sent' = Len(taken) + 1
    BY <1>0, <1>1, <1>4 DEF Sent
  <2>. QED
    BY <1>0, <1>5, <2>1 DEF Remains
<1>. QED
  BY <1>0, <1>1, <1>2, <1>5, <1>6, <1>9, <1>10 DEF Running

LEMMA TakePlanInv ==
    ASSUME TypeInv, PlanInv, HardwareTake
    PROVE  PlanInv'
<1>. USE DEF node, handles, hardware
<1>0. /\ UNCHANGED <<moprim_queue, robot_stop_requested, ex, rt, lifecycle>>
      /\ UNCHANGED goal /\ rt = "idle" /\ command # Empty /\ command' = Empty
  BY DEF HardwareTake, goal
<1>1. /\ Empty \notin Primitives /\ Stop \notin Primitives /\ Reset \notin Primitives
      /\ Empty # Reset /\ Stop # Reset /\ Empty # Stop
  BY PlanPrimitives
<1>2. OneHandler' /\ SuccessIsExecuted'
  BY <1>0, <1>1 DEF PlanInv, OneHandler, SuccessIsExecuted, goal
<1>3. Accepting'
  BY <1>0, <1>1 DEF PlanInv, Accepting, Remains, goal
<1>4. CASE command = Stop
  <2>1. taken' = <<>> /\ execution_status' = "STOPPING"
    BY <1>1, <1>4 DEF HardwareTake
  <2>2. robot_stop_requested /\ moprim_queue = <<>>
    BY <1>4 DEF PlanInv, StopPending
  <2>3. ActiveKnown' /\ StopPending'
    BY <1>0, <1>1, <2>1, <2>2 DEF ActiveKnown, Over, StopPending
  <2>4. NoneActive'
    BY <1>0, <1>1, <2>1, <2>2 DEF PlanInv, NoneActive, goal
  <2>5. SeenIsOver'
    <3>1. was_executing => has_active_goal
      BY DEF PlanInv, NoneActive
    <3>. QED
      BY <1>0, <1>1, <2>1, <2>2, <3>1 DEF SeenIsOver, Over, goal
  <2>. QED
    BY <1>2, <1>3, <2>3, <2>4, <2>5 DEF PlanInv
<1>5. CASE command = Reset
  <2>1. taken' = <<>> /\ execution_status' = "IDLE"
    BY <1>1, <1>5 DEF HardwareTake
  <2>2. has_active_goal => taken = <<>>
    BY <1>1, <1>5 DEF PlanInv, ActiveKnown, Running, Stopping, Over
  <2>3. has_active_goal => Running(rt_goal_handle) \/ Over
    BY <1>1, <1>5 DEF PlanInv, ActiveKnown, Stopping
  <2>4. ActiveKnown'
    <3>1. CASE has_active_goal /\ Over
      BY <1>0, <1>1, <2>1, <3>1 DEF ActiveKnown, Over
    <3>2. CASE has_active_goal /\ Running(rt_goal_handle)
      <4>1. /\ rt_goal_handle \in Goals /\ taken = <<>> /\ Len(taken) = 0
            /\ Len(Plan(rt_goal_handle)) > 0 /\ Len(Plan(rt_goal_handle)) \in Nat
        BY <2>2, <3>2, PlanPrimitives DEF TypeInv, GoalsTyped
      <4>2. Remains(rt_goal_handle, 0) /\ ~robot_stop_requested
        BY <1>1, <1>5, <3>2, <4>1 DEF Running, Sent
      <4>3. Collects(rt_goal_handle)'
        BY <1>0, <2>1, <4>1 DEF Collects, goal
      <4>4. Remains(rt_goal_handle, Sent)'
        BY <1>0, <1>1, <2>1, <4>2 DEF Remains, Sent, goal
      <4>. QED
        BY <1>0, <1>1, <4>2, <4>3, <4>4 DEF ActiveKnown, Running
    <3>. QED
      BY <1>0, <2>3, <3>1, <3>2 DEF ActiveKnown, goal
  <2>5. StopPending' /\ NoneActive'
    BY <1>0, <1>1, <2>1 DEF PlanInv, StopPending, NoneActive, Stands, goal
  <2>6. SeenIsOver'
    <3>1. was_executing => has_active_goal
      BY DEF PlanInv, NoneActive
    <3>2. has_active_goal => execution_status # "EXECUTING"
      <4>1. has_active_goal => Len(taken) = 0 /\ Len(Plan(rt_goal_handle)) # 0
        BY <2>2, PlanPrimitives DEF TypeInv, GoalsTyped
      <4>. QED
        BY <2>3, <4>1 DEF Running, Collects, Over
    <3>3. was_executing => Over
      BY <3>1, <3>2 DEF PlanInv, SeenIsOver
    <3>. QED
      BY <1>0, <1>1, <2>1, <3>1, <3>3 DEF SeenIsOver, Over, goal
  <2>. QED
    BY <1>2, <1>3, <2>4, <2>5, <2>6 DEF PlanInv
<1>6. CASE command \notin {Stop, Reset}
  <2>1. /\ has_active_goal /\ Running(rt_goal_handle)'
        /\ execution_status # "EXECUTING" /\ ~Stands
        /\ execution_status' \in {execution_status, "EXECUTING"}
    BY <1>6, TakesPrimitive
  <2>2. ActiveKnown' /\ NoneActive'
    BY <1>0, <2>1 DEF ActiveKnown, NoneActive, goal
  <2>3. StopPending'
    BY <1>0, <1>1, <2>1 DEF StopPending, Stands
  <2>4. ~was_executing
    BY <1>0, <1>6, <2>1 DEF PlanInv, SeenIsOver, Over, TypeInv, QueueTyped, Commands
  <2>5. SeenIsOver'
    BY <1>0, <2>4 DEF SeenIsOver, goal
  <2>. QED
    BY <1>2, <1>3, <2>2, <2>3, <2>5 DEF PlanInv
<1>. QED
  BY <1>4, <1>5, <1>6

\* The hardware comes to an end of what it executes, which was a whole plan.
LEMMA EndPlanInv ==
    ASSUME TypeInv, PlanInv, HardwareFinish \/ HardwareFail \/ HardwareStop
    PROVE  PlanInv'
<1>. USE DEF node, handles, hardware
<1>0. /\ UNCHANGED <<moprim_queue, command, robot_stop_requested, ex, rt, lifecycle>>
      /\ UNCHANGED <<has_active_goal, rt_goal_handle, was_executing, request>>
      /\ rt = "idle"
  BY DEF HardwareFinish, HardwareFail, HardwareStop, HardwareMoves
<1>1. Stop \notin Primitives
  BY PlanPrimitives
<1>2. OneHandler' /\ Accepting'
  BY <1>0 DEF PlanInv, OneHandler, Accepting, Remains
<1>3. CASE HardwareStop
  <2>1. execution_status = "STOPPING" /\ execution_status' = "STOPPED"
        /\ UNCHANGED <<taken, executed>>
    BY <1>3 DEF HardwareStop, HardwareMoves
  <2>2. ActiveKnown'
    BY <1>0, <2>1 DEF PlanInv, ActiveKnown, Running, Stopping, Over, Collects, Remains, Sent,
       Stands
  <2>3. NoneActive' /\ StopPending' /\ SeenIsOver' /\ SuccessIsExecuted'
    BY <1>0, <2>1 DEF PlanInv, NoneActive, StopPending, SeenIsOver, Over, SuccessIsExecuted,
       Stands
  <2>. QED
    BY <1>2, <2>2, <2>3 DEF PlanInv
<1>4. CASE HardwareFinish \/ HardwareFail
  <2>. DEFINE plan == Plan(rt_goal_handle)
  <2>1. /\ execution_status = "EXECUTING" /\ execution_status' \in {"SUCCESS", "ERROR"}
        /\ taken' = <<>> /\ executed \subseteq executed'
    BY <1>4 DEF HardwareFinish, HardwareFail, HardwareMoves
  <2>2. has_active_goal /\ rt_goal_handle \in Goals
    BY <2>1 DEF PlanInv, NoneActive, TypeInv, GoalsTyped
  <2>3. Collects(rt_goal_handle) /\ command \notin Primitives /\ moprim_queue = <<>>
    <3>1. CASE Running(rt_goal_handle)
      <4>1. /\ Len(taken) \in Nat /\ Len(moprim_queue) \in Nat
        BY LenProperties DEF TypeInv, QueueTyped
      <4>2. Len(taken) = Len(plan) /\ Len(plan) = Sent + Len(moprim_queue)
        BY <2>1, <3>1 DEF Running, Collects, Remains
      <4>3. command \notin Primitives /\ Len(moprim_queue) = 0
        BY <4>1, <4>2 DEF Sent
      <4>4. moprim_queue = <<>>
        BY <4>3, EmptySeq DEF TypeInv, QueueTyped
      <4>. QED
        BY <3>1, <4>3, <4>4 DEF Running
    <3>2. CASE Stopping(rt_goal_handle)
      BY <1>1, <3>2 DEF Stopping
    <3>3. ~Over
      BY <2>1 DEF Over
    <3>. QED
      BY <2>2, <3>1, <3>2, <3>3 DEF PlanInv, ActiveKnown
  <2>4. taken = plan
    <3>1. taken \in Seq(Primitives) /\ plan \in Seq(Primitives)
      BY <2>2, PlanPrimitives DEF TypeInv, QueueTyped
    <3>2. Len(taken) = Len(plan) /\ \A i \in 1..Len(taken) : taken[i] = plan[i]
      BY <2>1, <2>3 DEF Collects
    <3>. QED
      BY <3>1, <3>2, SeqEqual
  <2>5. Over'
    BY <1>0, <2>1, <2>3 DEF Over
  <2>6. execution_status' = "SUCCESS" => rt_goal_handle \in executed'
    <3>1. HardwareFinish => rt_goal_handle \in executed'
      BY <2>2, <2>4 DEF HardwareFinish
    <3>2. HardwareFail => execution_status' = "ERROR"
      BY DEF HardwareFail, HardwareMoves
    <3>. QED
      BY <1>4, <3>1, <3>2
  <2>7. ActiveKnown' /\ NoneActive' /\ StopPending'
    BY <1>0, <2>1, <2>2, <2>5 DEF PlanInv, ActiveKnown, NoneActive, StopPending, Stands
  <2>8. SeenIsOver' /\ SuccessIsExecuted'
    BY <1>0, <2>1, <2>2, <2>5, <2>6 DEF PlanInv, SeenIsOver, SuccessIsExecuted
  <2>. QED
    BY <1>2, <2>7, <2>8 DEF PlanInv
<1>. QED
  BY <1>3, <1>4

LEMMA NextPlanInv ==
    ASSUME Prompt = TRUE, Concurrent = FALSE, TypeInv, PlanInv, [Next]_vars
    PROVE  PlanInv'
<1>1. CASE UNCHANGED vars
  <2>1. UNCHANGED stream /\ UNCHANGED goal /\ UNCHANGED <<ex, rt, lifecycle>>
    BY <1>1 DEF vars, stream, goal, node, handles, hardware
  <2>2. OneHandler'
    BY <2>1 DEF PlanInv, OneHandler, stream
  <2>. QED
    BY <2>1, <2>2, Undisturbed, UndisturbedExecutor DEF PlanInv
<1>. QED
  BY <1>1, ExecutorPlanInv, LifecyclePlanInv, CancelPlanInv, StatusPlanInv, SendPlanInv,
     TakePlanInv, EndPlanInv DEF Next, Update

\* What is on its way to the hardware are the parts of one plan in their order: the
\* hardware never collects the remains of a goal, nor a mixture of two.
THEOREM SequencesArriveWhole ==
    Prompt = TRUE /\ Concurrent = FALSE => (Spec => []SequencesAreWhole)
<1> SUFFICES ASSUME Prompt = TRUE, Concurrent = FALSE PROVE Spec => []SequencesAreWhole
  OBVIOUS
<1>1. TypeInv /\ PlanInv /\ [Next]_vars => PlanInv'
  BY NextPlanInv
<1>2. TypeInv /\ PlanInv => SequencesAreWhole
  <2> SUFFICES ASSUME TypeInv, PlanInv, taken # <<>>
               PROVE  \E g \in Goals : IsPrefix(taken, Plan(g))
    BY DEF SequencesAreWhole
  <2>. DEFINE plan == Plan(rt_goal_handle)
  <2>1. has_active_goal /\ rt_goal_handle \in Goals
    BY DEF PlanInv, NoneActive, TypeInv, GoalsTyped
  <2>2. Collects(rt_goal_handle)
    BY <2>1 DEF PlanInv, ActiveKnown, Running, Stopping, Over
  <2>3. /\ taken \in Seq(Primitives) /\ plan \in Seq(Primitives)
        /\ Len(taken) \in Nat /\ Len(plan) \in Nat
    BY <2>1, PlanPrimitives, LenProperties DEF TypeInv, QueueTyped
  <2>4. /\ Len(taken) <= Len(plan)
        /\ \A i \in 1..Len(taken) : taken[i] = plan[i]
    BY <2>2 DEF Collects
  <2>5. SubSeq(taken, 1, Len(taken)) = SubSeq(plan, 1, Len(taken))
    <3>. DEFINE n == Len(taken)
                s == SubSeq(taken, 1, n)
                t == SubSeq(plan, 1, n)
    <3>1. \A i \in 1..n : taken[i] \in Primitives /\ plan[i] \in Primitives
      BY <2>3, <2>4, ElementOfSeq
    <3>2. 1 \in Int /\ n \in Int
      BY <2>3
    <3>3. /\ s \in Seq(Primitives) /\ Len(s) = (IF 1 <= n THEN n - 1 + 1 ELSE 0)
          /\ \A i \in 1..n - 1 + 1 : s[i] = taken[1 + i - 1]
      BY <3>1, <3>2, SubSeqProperties
    <3>4. /\ t \in Seq(Primitives) /\ Len(t) = (IF 1 <= n THEN n - 1 + 1 ELSE 0)
          /\ \A i \in 1..n - 1 + 1 : t[i] = plan[1 + i - 1]
      BY <3>1, <3>2, SubSeqProperties
    <3>5. /\ Len(s) = n /\ Len(t) = n
          /\ \A i \in 1..n : s[i] = taken[i] /\ t[i] = plan[i]
      <4>. HIDE DEF s, t
      <4>. QED
        BY <2>3, <3>3, <3>4
    <3>6. \A i \in 1..n : s[i] = t[i]
      BY <2>4, <3>5
    <3>. QED
      BY <3>3, <3>4, <3>5, <3>6, SeqEqual
  <2>. QED
    BY <2>1, <2>4, <2>5 DEF IsPrefix
<1>. QED
  BY <1>1, <1>2, InitTypeInv, NextTypeInv, InitPlanInv, PTL DEF Spec

\* update() reports success only for a goal whose whole plan has been executed: neither
\* the SUCCESS of an earlier goal counts, nor one seen before the motion has started.
THEOREM SuccessHasBeenExecuted ==
    Prompt = TRUE /\ Concurrent = FALSE => (Spec => []SuccessIsExecuted)
<1> SUFFICES ASSUME Prompt = TRUE, Concurrent = FALSE PROVE Spec => []SuccessIsExecuted
  OBVIOUS
<1>1. TypeInv /\ PlanInv /\ [Next]_vars => PlanInv'
  BY NextPlanInv
<1>2. PlanInv => SuccessIsExecuted
  BY DEF PlanInv
<1>. QED
  BY <1>1, <1>2, InitTypeInv, NextTypeInv, InitPlanInv, PTL DEF Spec
=============================================================================
