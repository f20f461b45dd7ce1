# Verification of ros2_controllers

TLA+ specifications of the controllers in this repository, model-checked with
TLC and, where it matters most, proved with TLAPS. Source references are
relative to the repository; `jtc.cpp` stands for
`joint_trajectory_controller/src/joint_trajectory_controller.cpp`.

## The system

The repository is a set of plugins for the controller manager of ros2_control.
Each plugin is a life-cycle node with an `update()` that the manager's real-time
thread calls periodically, and with subscriptions, services, action servers and
timers that an executor runs in another thread. The two threads share the
members of the controller through atomics, `RealtimeBuffer`s,
`RealtimeThreadSafeBox`es and queues; the hardware interfaces are read before
and written after `update()`. The life-cycle transitions run in the manager,
never at the same time as `update()`.

| Component | State it keeps | Operations | What is hard, and what makes it correct |
|---|---|---|---|
| joint_trajectory_controller | buffer of the newest message, current and deferred trajectory, active goal, hold flags | update, activate, deactivate, topic, goal, accept, cancel, timer, query_state | goals preempted, canceled and finished by two threads: one goal at a time, each with one result that is earned; a halted goal does not move again |
| its Trajectory class | message, start of the search, deduced positions | update, sample | a monotonic search with two users and a look-ahead: the right segment in every cycle |
| its tolerances | defaults, those of the active goal | check, override | which tolerances are on, and when |
| motion_primitives_controllers | queue of primitives, active goal, stop flags | update, goal, accept, cancel, timer | a protocol with the hardware (execute, stop, reset): sequences arrive whole, success means executed, a cancel is answered |
| parallel_gripper_controller | active goal, command box, time of the last movement | update, goal, accept, cancel, timer, activate, deactivate | as the joint trajectory controller, with boxes that are only tried, and stall detection: a goal ends on its own command or after a rest of its own |
| diff_drive, tricycle, mecanum, omni-wheel controllers, steering_controllers_library with its ackermann, bicycle and tricycle subclasses | last reference, odometry, limiter history, requested odometry | references from the topic or a chained controller, update, odometry services, life cycle | a stale reference must brake the robot, a newer one must not be overwritten by the copy of an older, a request must not be lost |
| pid_controller, admittance_controller | box of the reference, its copy, reference interfaces, last reference, measured state | references from the topic or a chained controller, update, life cycle | the same hand-over of references; what is left of an earlier activation |
| forward_command_controller, gpio_controllers | command box and its copy, lists of interface types | subscriber, update, life cycle | a command from before an activation must not be forwarded, the newest one must get to all joints |
| joint_state, force_torque_sensor, imu, gps, magnetometer, pose, range, battery, state_interfaces broadcasters, chained_filter_controller | map from interfaces to message fields, last readings | update, configure, activate, deactivate | interfaces that cannot be read in a cycle: every field holds its own reading, and messages become whole |
| rqt_joint_trajectory_controller, ros2_controllers_test_nodes | - | client programs | graphical and example clients: not modelled |

`PROJECT.json` lists every component with its sources and status, and every
hazard we know of at the line where it bites.

## Modules

| Module | Models |
|---|---|
| `JointTrajectoryController` | the hand-over of goals and trajectories in `jtc.cpp` |
| `ActionGoals` | what an action server promises that executes one goal at a time (abstract) |
| `JointTrajectoryController_proofs`, `..._safety_proofs` | theorems about the two: types and goals, flags and buffers |
| `Trajectory` | `Trajectory::sample` and its users in `update()` and `query_state` |
| `Trajectory_proofs` | theorems about it |
| `MotionPrimitivesForwardController` | the controller, its queue and the hardware it commands |
| `MotionPrimitivesForwardController_proofs` | theorems about it |
| `MobileBase` | the velocity reference, timeout and odometry requests of diff_drive, omni_wheel, mecanum, tricycle and the steering controllers |
| `MobileBase_proofs` | theorems about them |
| `ParallelGripperController` | the goals, the command box and the stall detection of the gripper; it implements `ActionGoals` too |
| `ParallelGripperController_proofs` | theorems about it |
| `CommandReferences` | the references of the forward, GPIO, PID and admittance controllers |
| `CommandReferences_proofs` | theorems about them |
| `Broadcasters` | all broadcasters and the chained filter: what they read, keep and publish |
| `Broadcasters_proofs` | theorems about them |
| `MC...` | one instance of each for TLC, with one `.cfg` per run |

A definition named `Faulty...` is not part of a specification: it is a slip (a
dropped guard, a missing reset, a swapped order) that the property paired with
it in `PROJECT.json` notices.

### JointTrajectoryController

Every member that both threads use is a variable of the same name. A message
stands for the `shared_ptr` the code compares, so that "new" means what it means
at line 293; its points are abstracted to `stage`, how far it has been played.
The clock is abstracted to `due`, the set of stamped messages whose time has
come; the callbacks read the clock when they run, `update()` the time it was
entered with.

`update()` is five actions, cut where it reads or writes a shared member:
`UpdateStart` reads the active goal, `UpdateReadMsg` the buffer (line 279),
`UpdateInstall` serves `rt_clear_pending_`, then installs, defers or fires,
`UpdateJudge` samples and applies timeout and tolerances, `UpdateConclude` ends
the goal and halts. `goal_accepted_callback` is six actions, the cancel callback
three, the topic callback and `on_deactivate` two each. `on_activate` is three,
since a topic callback may come between its writes: it lets topic messages in
(line 1250), adds the position to hold (1274), and sets `rt_is_holding_` a second
time (1275). A message whose callback has run between the last two is played with
its tolerances switched off; the history variable `overtaken` collects them.
Between the first and the last an action goal may be accepted or rejected
(`InTransition`), depending on which of the two states the node reports. The
constant `Concurrent` says whether a handler may be interrupted by the other thread.
Which joints are in tolerance, how far sampling has come and whether the command
timeout has passed are chosen freely in each cycle. Goals and topic messages are
valid: an invalid one is rejected and changes nothing. A second message of the
same kind is another element of `Goals` or `Topics`, each sent once.

### Trajectory

A message is the times of its points, the points that come with positions, and
how far its stamp lies from the first sample. The module keeps the search index,
which positions have been deduced (`store`), the two samples of the last cycle,
and whether `query_state` was called. `Deducible` is the condition under which
the missing positions of a message can be deduced at all, which
`doc/trajectory.rst` warns of: a point without a position needs a cycle in the
segment before it. The runs take their messages by it, and the theorem assumes
it. A query between an activation and the
first `update()`, when nothing was sampled yet, is left out.

### MotionPrimitivesForwardController

The command interfaces are abstracted to the command they hold; a primitive to
its goal and its place in it. `update()` is cut at the two reads of
`cancel_requested_`; `goal_accepted_callback` pushes one primitive per step. The
hardware interface is not in this repository. It is modelled after the
documentation of the controller (`doc/README.md`) and is allowed any pace: it
collects a sequence up to its end marker, executes, succeeds or fails, and stops
on `STOP_MOTION` until `RESET_STOP`. `Prompt` says whether it takes each command
before the next cycle. It lets a motion last until an active controller has seen
it execute: a shorter one would never end its goal, a listed hazard.

### MobileBase

The five bases share the shape of their handlers and differ in details: what a
callback accepts, what a cycle makes of an expired message or of one that is not
finite, what is kept over a deactivation. One state machine has the shape, and
each base its own definition of each detail (`DiffDriveReference`,
`MecanumReference`, ...); `base` and `timeout` are chosen initially, so that a
run compares all of them. A twist is one velocity, a stamp its age; `NaN` is what
is not a number, infinite velocities are left out. `Limit` is the acceleration
limit of the rate limiters, without their limits on velocity and jerk; that of
the tricycle adds to its memory and keeps a NaN it was once given
(`traction_limiter.cpp:137`). Without a reference the mecanum controller joins
its four writes of zero by `||`, so that only the front left wheel is stopped
(`mecanum_drive_controller.cpp:677`); `wheels` of mecanum are the other three. `update()` is cut at the box of the reference, at that of the pose and
at the flag `set_odom_requested_`, the callbacks at the same places. An attempt
to lock fails only while the other thread may hold the lock (`Attempts`). In
chained mode the preceding controller's write is the first step of the cycle, as
the controller manager orders them. The tricycle appends the interfaces of an
activation to `traction_joint_` and uses the first element: after a second
activation that refers to released interfaces (`handles`), and a write through
it may be lost. `fresh`, `owed` and `newest` are history for the properties; `fresh` is kept for
the other four only, since the tricycle does go on with what it was sent before.

A cycle that cannot read its feedback (`UpdateUnread`) returns an error before
it writes the wheels; diff_drive has moved the memory of its limiter on by then
(`diff_drive_controller.cpp:203`), and `missed` counts such cycles up to
`MaxMissed`. `Unreadable` says for which bases that may happen. The
runs leave mecanum out: such a cycle leaves its reference in the reference
interfaces (`mecanum_drive_controller.cpp:548`), where a later cycle uses it,
although a newer message is not finite or the reference is past its timeout.
`...Reset`, `...ResetBuffers` and `...Configure` say what each base forgets in
which transition; the timeout may be another after each configuration.
`on_error` is what becomes of a failed activation. A configuration of mecanum
that fails ends in the finalized state and is left out.

### ParallelGripperController

A command is its position and, for the properties, the goal that asked for it.
`update()` is cut at the three boxes `command_`, `rt_active_goal_` and
`last_movement_time_`; its attempts to lock one fail only while a callback may
be inside it. `accepted_callback` is four actions, the cancel callback three.
The time since the last movement is counted up to one past `StallTimeout`; an
activation stores a time of an uninitialized clock, and to compare that throws
(`Uninitialized`). `on_activate` replaces the action server, so that the goals
it knows (`served`) start anew; the goal that was active stays in its box. When
it cannot read the position the last command stays. `target` and `rested` are
history; `rested` counts how long no cycle has seen the gripper move since the
active goal was accepted, independently of `last_movement_time_`, whose update
(`..._impl.hpp:240`) is the action it is checked against. The cancel callback
accepts a request for any goal; for one that is not active, or has ended and
waits for its result, that changes nothing here but what the library notes, and
the timer delivers the result it was asked to. A request to hold the position that cannot be read throws and is left
out; while inactive the callback reads through an interface that is gone, and
holds any position.

### CommandReferences

Two joints; a message is one value for both, or is malformed (`whole`). A value
may be `NaN` or infinite (`Inf`), and the two tests of the code differ: the
forward controller asks `isfinite`, PID and admittance `isnan`. `fresh`
says that it was put into its place after the activation, so that the
properties can tell an old command from a new one of the same value. A message
counts from when it is put into the box: its callback may have begun before the
activation. The topic
callback locks the box (`LockBox`) and fills it (`SetBox`); `update()` tries to
lock it between any two of its steps. What a controller does in a step has a
definition of its own per controller (`ForwardWrite`, `PidWrite`, ...). What the
code does that one may not expect:

- PID writes its cleared copy of the reference back and may overwrite a newer
  message by that (`pid_controller.cpp:490`). It does not empty its box in a
  deactivation, and with measured states from a topic the setpoint of an
  activation is a state measured before it (lines 402-407, 422-456).
- The admittance controller says "reset to prevent stale references" in
  `on_deactivate` (line 508) and does not empty the box of the topic. When the
  joint positions cannot be read it falls back on its last command, which may be
  one of an earlier activation, and is zero in the first one (lines 89-92, 595):
  the first activation then succeeds and zero is commanded.
- The admittance controller replaces a reference that is NaN by the last one
  (lines 670 and 684). An infinite one it commands, and keeps as the last one;
  it may leave the state of the admittance rule not a number (`lost`) until a
  deactivation, and what is commanded then is not a number either.
- A forward controller that got a command of the wrong size returns an error in
  every cycle until the next command. The GPIO controller writes values that are
  not finite, and its lists of interface types grow with each configuration, so
  that no activation succeeds after the second. The forward controller of several
  interfaces appends to its list in the same way and is left out; the one of
  several joints is modelled.

### Broadcasters

A reading is the interface it comes from and its age: of this cycle, of an
earlier one, of an earlier activation. Any set of interfaces may be unreadable
in any cycle, and handing a message over to its publisher may fail. `held` is
where a broadcaster keeps readings between cycles, `second` the second topic of
three of them (the filtered wrench, the transform, the combined battery state).
The chained filter does not look at whether its filters succeeded: when one fails
it exports what an uninitialised variable holds (`Arbitrary`,
`chained_filter.cpp:135`). What the filters remember of earlier readings, which
no activation resets, is left out. The exported state interfaces of the force torque and the IMU broadcaster are
left out: they get their value when they are exported and never again. So are
the sums of the battery broadcaster: it takes the capacity from a sum that each
cycle resets (line 325), so that it is zero after a second activation, and
counts infinite limits that the sum leaves out.

## Runs

| Run | Asks | Bounds |
|---|---|---|
| `jtc_goals` | is it a one-goal action server whose results are earned and always come, also with deferred trajectories? | two goals, one of them stamped in the future, a topic message, one deactivation, handlers one at a time |
| `jtc_threads` | what holds for any interleaving of the two threads? | two goals, one of them stamped in the future, a topic message, an activation, no deactivation, `Concurrent` |
| `trajectory` | does each cycle sample the right segments, on deduced positions, to the end? | seven shapes of up to three points, every deducible choice of given positions, stamps now, past and future, steps of 0 to 3 update periods |
| `moprim` | sequences whole, success executed, goals and cancels answered? | goals of one, two and three motions, the last too long for a queue of four, one deactivation |
| `mobile_bases` | newest reference, none of an earlier activation, used once, odometry served, no jump beyond the limiter? | five bases, two velocities, timeouts of zero and one, chained or not, up to two cycles in a row without feedback counted, handlers one at a time |
| `bases_threads` | does every base but mecanum stop when the commands stop, with callbacks between any two steps? | five bases, one velocity of two steps of the limiter, a timeout of one, feedback that may be missing, `Overlap` |
| `gripper` | is it a one-goal action server whose goals end, on their own command or after a rest of their own? | two goals, two positions, a stall timeout of one, any number of activations, handlers one at a time |
| `references` | is anything of an earlier activation commanded, and does the newest command get through? | five controllers, two joints, of which the second may fail to be written, one value, NaN and an infinite one, callbacks between any two steps, any number of activations |
| `broadcasters` | does every field hold its own reading, and do messages become whole? | eleven broadcasters, three interfaces, any number of activations |

Two goals are the fewest that preempt each other, and a third would meet the
controller in the same state as the second; the topic message is the third party
that replaces a goal's trajectory. One deactivation puts an activation before
and after it. A timeout of one has messages before, at and after it; of two velocities
one is three cycles of the limiter away from rest. A reference and a value that is
not finite are enough for one message to overtake another; of three interfaces
one that cannot be read comes between two that can. Three points give a first,
an inner and a last segment; the shapes include segments shorter than a step. A queue of four makes the capacity check
bind for one goal and fit for another. `PROJECT.json` pairs each property with a
mutation of the modelled code that violates it.

Three runs expect a violation. Each shows that the code does not do what a
comment or a document of the repository says; `PROJECT.json` quotes it.

| Run | Shows |
|---|---|
| `jtc_cmd_timeout` | the command timeout switches tolerances off in the cycle that then reports success |
| `jtc_judged_early` | serving a cancel clears the mark of the deferred goal that came after it, which is then judged before it started |
| `traj_query` | `query_state` moves the search of the trajectory in use |

**What is not true of two threads.** `jtc_goals`, `moprim`, `mobile_bases` and
`gripper` run with handlers that do not overlap. With overlapping ones TLC
refutes the following:

- `LiveGoalIsActive`, `SuccessIsEarned`, `GoalsAreJudged`: `update()` clears
  `rt_active_goal_` after the executor has published the next goal, which is
  then neither judged nor preempted.
- `CanceledGoalNotPending`: a cancel between lines 279 and 282 of `jtc.cpp`
  leaves the trajectory of the canceled goal deferred, and it starts later.
- `SequencesAreWhole`, `SuccessIsExecuted` and `GoalGetsResult` of the motion
  primitives: a late cancel of a goal that has ended stops the next one and
  tears its sequence apart
  (`motion_primitives_forward_controller.cpp:335`).
- `EndIsEarned`, `GoalEnds` and `CanceledIsHeld` of the gripper: a cycle ends a
  goal, or commands one, on the command it copied before the goal came or was
  canceled.
- `CommandsNewest`, `CommandsFresh` and `AcceptedIsServed` of the mobile bases: a
  cycle writes its copy back over a newer message, a callback that has checked
  `subscriber_is_active_` fills the box after the deactivation has emptied it,
  and a request for odometry between reading the pose and clearing the flag is
  dropped.

`EndedGoalIsReplaced` says what is left for two threads when `CanceledGoalNotPending`
fails: although the trajectory of a canceled goal may start after all, once the
handlers have returned the buffer holds a halt or a newer message, which the next
cycle puts in its place.

`jtc_threads`, `bases_threads` and `references` hold with every interleaving of
the steps they distinguish.

**What has exceptions.** `ResultsAreDelivered` and `GoalEnds` except a goal whose
timer the next goal has taken: the result of a preempted or just finished goal
is lost then (`jtc.cpp:1544`; the motion primitives and the gripper replace
theirs in the same way). `CommandsFresh` of the mobile bases leaves the tricycle
out, which keeps its last command over a deactivation. `ReferenceTimesOut`
leaves out diff_drive and omni_wheel, which keep a reference past its timeout
while newer messages are not finite. `DiffDriveLimited`
bounds the change of the speed by what the limiter allows for the written cycle
and the ones without feedback before it, since the memory of the limiter moves on
in those; a bound of one cycle is false of it. `BrakesOnTimeout` leaves out a
tricycle activated twice, whose writes may be lost, and one that was sent a
velocity that is not a number: its limiter makes every later command one that is
not, that of braking too. It also leaves out mecanum: the cycle that notices the
timeout commands what the limiter allows towards zero, and from the next one on
only the front left wheel is stopped while the other three keep their command,
where the test `when_ref_msg_old_expect_cmnd_itfs_set_to_zero_otherwise_to_valid_cmnds`
(`test_mecanum_drive_controller.cpp:493`) expects all four at zero, and finds them so
because the limiter of its base remembers no speed; TLC refutes the property with mecanum included.
`TolerancesChecked` excepts the messages that an activation has overtaken, as
described with its module. `OwnReadings` and `MessageCompletes` allow what a
failed filter leaves. `NewestIsCommanded` of the references says nothing of the
admittance controller once an infinite reference has made its state not a number. `CommandsFresh` and
`NewestIsCommanded` of the references leave out what the list above says of PID
and admittance. `SuccessIsEarned` is false, even without overlaps, in two
combinations that `jtc_goals` leaves out (no topic message of it is stamped in
the future, and it has no command timeout):

- A topic message stamped in the future overtakes the trajectory of a goal in
  the buffer before a cycle has read it. The goal's trajectory is lost; the
  message is deferred, so the trajectory that was there goes on, and when it has
  ended the goal succeeds on it.
- The command timeout puts a hold into the buffer while a goal is deferred. When
  the deferred trajectory starts, the hold is still there; the next cycle takes
  it for new, installs it over the trajectory, and the goal succeeds on the hold.

Both came out of the attempt to prove the property without the two assumptions,
and TLC confirms them. Each exception is a hazard in `PROJECT.json`.

## Fairness

The controller manager calls `update()` as long as the controller is active, so
each step of it is fair, and finishes a transition it has begun; the executor finishes each callback it has begun, and
the wall timer fires again and again (strong fairness, since in the runs without
concurrency `update()` disables it now and then). The clock advances. For the
mobile bases the start of a cycle and the clock are strongly fair, since the
other thread's handlers disable them now and then. A trajectory that is sampled
with a positive scaling factor now and then comes to its end, and then passes any `goal_time_tolerance`: strong fairness on that
outcome of sampling. The hardware takes commands, finishes and stops. Nothing is
ever fair about clients or about the life cycle: no goal has to arrive, nothing
has to be activated, so the liveness properties end with "or the controller is
inactive". A hardware error is never fair either.

Feedback, interfaces and locks may fail in any cycle but not in all: the cycles
of a mobile base that read their feedback are strongly fair, so are the
gripper's that read their interfaces, each interface of a broadcaster is read
and each message handed over again and again (not necessarily in the same
cycle), and an active forward, GPIO or admittance controller finds the box free
and can write all its interfaces again and again. A callback holds a lock for a
few instructions, and interfaces are locked for as short a time; without these
assumptions a controller may be locked out for good.

## Proofs

Every invariant and every action property that a passing run checks is also a
theorem, for all values of the constants; `PROJECT.json` lists them. The liveness
properties are not: `GoalsAreJudged`, `DeferredIsResolved`, `ResultsAreDelivered`,
`TrajectoryEnds`, `GoalGetsResult`, `CancelIsAnswered`,
`AcceptedIsServed`, `BrakesOnTimeout`, `GoalEnds`, `NewestIsCommanded` of the
references and `MessageCompletes` are checked by TLC only, since TLAPS as
installed reasons neither about fairness nor about `ENABLED`. The proofs rest on
the named assumptions on the constants, and on the conditions each theorem
states.

### Joint trajectory controller

`TypeCorrect` proves `Spec => []TypeOK` for all constants, both threads
included. `TypeOK` is not inductive: nothing in it says that the argument of an
accept callback is a goal and not a topic message, nor that a deactivation that
has begun is within its bound; `TypeInv` adds both.

`OneLiveGoal` and `GoalsImplementActionGoals` assume `Concurrent = FALSE`, for
the reason above, and hold for any goals, topics, stamps, options and number of
deactivations. "A live goal is the active goal" is not inductive, because
`update()` and the callbacks act on what they read earlier. `GoalsInv` says
what their locals mean: only one handler is inside (`OneHandler`); the goal a
cycle has read is the active one (`LocalGoal`); a cycle only ends a goal it has
read (`Concluding`); `on_deactivate` has asked for a result before it clears the
goal (`Released`); between preemption and publication no goal is active
(`Preempted`) and the arriving one does not execute yet (`Arriving`); a handle
that never executed was never asked (`Unasked`). From it each step of the
controller is a step of `ActionGoals` under `GoalView`, or a stutter.

`JointTrajectoryController_safety_proofs` is about the flags and the two buffers.

- `TolerancesAreChecked` assumes nothing about threads. Its invariant
  `HoldingHalts` says that whoever starts to hold puts a halt into the buffer in
  the same step, so that a controller that holds has a halt in its buffer, or a
  message that is `overtaken`, or a callback inside that is about to end the hold.
  The one step that holds without a halt of its own is the last of `on_activate`
  (`MarkHalts`); before it there is no trajectory (`Emptied`), and while a message
  it has overtaken is in the buffer no other is installed (`Overtook`).
- `EndedGoalsAreReplaced` assumes nothing about threads either. `EndedInv`: whoever
  ends a goal has replaced its trajectory in the buffer, or is inside a callback
  that is about to, or is deactivating (`Replaced`); an active controller has
  something in its buffer (`Filled`); and a goal that was not accepted was never
  asked for a result (`Unstarted`).
- `NothingStaysPending` assumes `Careful`: no overlaps, or no deactivation. With
  both, a deactivation that has ended the old goal can clear the next one, which
  a callback has published in between, and leave its flag set. `PendingInv` says
  who owns a set flag: the active goal, or a callback between setting it and
  publishing its goal; and that a deactivation that has read a goal has cleared
  the flag.
- `SuccessesAreMeasured` assumes no overlaps and no command timeout, since a
  timeout starts to hold under an active goal. `MeasuredInv`: an active goal is
  pending, is there only while the controller is active, and the controller does
  not hold while there is one.
- `CanceledGoalsNeverFire` assumes no overlaps. `CanceledDropped` follows a
  canceled trajectory through the three places it may be in: it is not in the
  buffer, not in the hands of a cycle about to install it, and when it is
  deferred, the request to drop it is there or about to be made.
- `SuccessesAreEarned` assumes no overlaps, no command timeout and
  `NoDeferredTopics` (with replacement allowed, topic messages carry no stamp in
  the future), for the two reasons under "What has exceptions". "A success is
  earned" speaks of one step; `EarnedInv` says where the trajectory of the active
  goal is until then. It is in the buffer, or one of the topic has taken its
  place there (`Followed`); what is in the buffer is unread (`Unread`), or it is
  installed, or deferred, with no cancel left to be served (`Taken`); a cycle
  installs what is in the buffer (`ReadMsg`), has judged by it, and only
  concludes a success at its end (`Judging`). A trajectory that has not arrived
  is nowhere yet (`NotYet`), without which "unread" could not be told from
  "installed before".

### Gripper

`ParallelGripperController_proofs` proves `TypeCorrect` with both threads, and
the rest when handlers do not overlap, for any goals, positions and stall
timeout. `GoalsInv` is the gripper's counterpart of the invariant above; it says
besides that a goal is canceled while it is the active one (`Canceling`).
`CommandsInv` ties the command to the goal: between handlers all three copies of
the command agree (`OneCommand`); what a canceled goal asked for is only the
command while the goal that preempts it arrives (`Forgotten`); the active goal
is on its own command unless it is of an earlier activation (`OwnCommand`,
`Arrived`, `Commanded`), and the gripper counts as at rest no longer than it
has been seen so since that goal was accepted (`OwnRest`, which ties
`last_movement_time_` to `rested`). `CanceledGoalIsHeld` and `GoalsEarnTheirEnd`
follow from it, and by `GoalsInv` each step is a step of `ActionGoals` or a
stutter.

### References

`CommandReferences_proofs` makes no assumption on threads: every step of the
callbacks may come between any two of a cycle. `TypeCorrect` says more than the
kinds of values, since `TypeOK` says that the forward and PID controllers never
command a value that is not finite, and that the reference the admittance
controller falls back on is a number, if perhaps an infinite one. It takes
`ForwardFinite`, that nothing a forward controller keeps or is about to keep is
NaN or infinite. `NoStaleCommand` proves the action property
`CommandsFresh` from `FreshInv`: while a forward controller is active its copy
is fresh, and so is its box unless the executor is inside it (`ForwardFresh`):
the one reason for which clearing the box in an activation can fail is a
callback that is about to overwrite it. For PID what was measured is of this
activation, and so are the references in chained mode (`PidFresh`); a cycle only
runs while active, and not through the subscriber in chained mode (`Cycle`).

### Mobile bases

`TypeCorrect` and `WheelsDoNotJump` hold with both threads and any locks that
fail. The second is an action property of diff_drive. Its invariant
`LimiterKnows` says that the memory of the limiter is off the speed of the wheels
by no more than the limiter allows for the `missed` cycles, and zero unless the controller is active, and that a cycle which has got past its
reference has a finite one.

`ReferencesTimeOut` holds with both threads, too. That no reference past its
timeout is commanded is not inductive: a cycle whose attempt to lock the box
fails goes on with the reference it has. `ReferenceIsUsed` adds that mecanum,
steering and the tricycle leave none after a cycle. It takes that mecanum can
read its feedback (`"mecanum" \notin Unreadable`), for the reason given with
`MobileBase`; so do the next three, which also assume `Overlap = FALSE`.

- `NothingStaleIsCommanded`: everything an active base may still command has
  arrived since the activation (`ActiveFresh`), because the bases that keep
  their buffers over an activation have emptied them before and take no messages
  until then (`NothingWaits`).
- `NewestIsCommanded` and `ReferencesAreUsedOnce`: the box holds the newest
  message or what a cycle makes of a used or an expired one (`BoxIsNewest`), the
  copy of a cycle is what is in the box (`CopyIsBox`), and diff_drive and
  omni_wheel have latched nothing unless a message has come
  (`LatchedIsOfTopic`).

### Motion primitives

`TypeCorrect` holds for any threads and any hardware. `SequencesArriveWhole` and
`SuccessHasBeenExecuted` assume that handlers do not overlap and that the
hardware takes each command before the next cycle (`Prompt`), as the protocol in
the documentation wants it. `PlanInv` follows the plan of a goal from the
executor to the hardware. While a goal is active, what the hardware has taken,
what is in the command interfaces and what is left in the queue is its plan in
order (`Running`), or the hardware has a beginning of it and a stop is on its way
(`Stopping`), or nothing of it is left (`Over`). What an accept callback has
pushed and has yet to push is its plan (`Accepting`). Without an active goal
nothing is on its way (`NoneActive`); a stop and the answer to it are dealt with
first (`StopPending`); an execution that was seen and is over was that of the
active goal, and leaves nothing behind (`SeenIsOver`). That `update()` must have
seen the execution before it takes a SUCCESS for its own is what the last part
rests on. The lemma `PlanShape` says what the proofs need of a plan: exactly its
last element starts the execution.

### Trajectory

`TrajectoryAssumption` asks no more of a message than that its times rise and that
it does not end before it starts. `PlayedOutInTime`: `sample` finds the segment
of every time though it searches from where it ended, for any steps of time.
`SearchInv` says why: the point it starts from is not past the time of the cycle
(`Arrived`), or the look-ahead of one update period has come to the end
(`EndedAhead`), after which the trajectory counts as played out. The lemma
`SampleCases` is the reference for what a sample finds; `LeastNat`, that a set of
naturals has a least element, makes the `CHOOSE` in it usable.
`PositionsComeFirst` assumes `Deducible` of every message. `KnownInv` says that
all points whose segment has begun have positions (`Begun`), from which it
follows that in the next cycle all points that have passed have (`Passed`), since
a point without them is a step of time or more away. Both theorems end where
`query_state` has sampled the message: `traj_query` shows what it does then.

### Broadcasters

`ReadingsAreOwn` holds for any number of interfaces and any choice of numeric
ones. `OwnInv` says the same of the readings that are held between cycles, and
that they are of this activation for the broadcasters that clear them. The joint
state broadcaster packs its numeric interfaces: `PlacesDiffer` proves by
cardinalities that two of them never share a place, and `PlaceIsOwn` that the
place finds its interface again.

## Not modelled

Numbers in general: interpolation, kinematics, odometry, PID and admittance
dynamics, filters, tolerances as comparisons. The validation of trajectories and
goals, parameters and their changes at run time, `on_configure` of the joint
trajectory and motion primitives controllers, the PID adapter of the former. The
in-place rewriting of the hold message while the other thread samples it and
other data races on contents. The wrench topic of the admittance controller,
whose box is handled as that of its references; the feed-forward switch and the
published state of PID. `wrench_transformer.cpp`, a TF client node of its own.
The thin subclasses of the steering library, which add geometry only; the
clients.

## Plan

What could be added, in the order of its worth:

1. Tolerances of a goal against the defaults and partial goals
   (`fill_partial_goal`, joint order) as pure operators against reference
   definitions; the validation of messages.
2. The rate limiters as pure operators on integers (a `min_velocity` keeps the
   tricycle from braking).
3. The mobile bases on an abstract specification "the newest reference, or none
   after a timeout".
4. Theorems about which part of each property survives overlapping handlers,
   for instance that a torn sequence is only ever the end of the plan of one goal.
5. The sums of the battery broadcaster, exported state interfaces.
