------------------------------ MODULE MobileBase ------------------------------
(****************************************************************************)
(* The velocity reference of the mobile bases: diff_drive, omni_wheel_drive, *)
(* mecanum_drive, tricycle and the steering controllers.  Each keeps the     *)
(* last stamped twist of its topic, passes it on to the wheels until it is   *)
(* older than the timeout, or follows a preceding controller in chained      *)
(* mode, and lets a service set its odometry.  A behaviour is one of one     *)
(* base; the handlers in which the bases differ are defined base by base.    *)
(*                                                                           *)
(* The real-time thread runs update() and the life cycle, the executor the   *)
(* topic and service callbacks.  A handler is split where the threads meet:  *)
(* at the boxes, which update() only tries to lock, and at the flag of the   *)
(* odometry request.                                                         *)
(*                                                                           *)
(* A twist is abstracted to one velocity, a stamp to its age.  The wheels    *)
(* hold the velocity they were computed from; their feedback may be missing  *)
(* in a cycle, writing a command interface succeeds.  The clock stands still *)
(* during a cycle.                                                           *)
(* The definitions Faulty... are the mutants that the properties are tried on.*)
(****************************************************************************)
EXTENDS Integers

CONSTANTS
    Bases,       \* the controllers of this instance
    Velocities,  \* the velocities clients and preceding controllers ask for
    Timeouts,    \* the values of cmd_vel_timeout_ and ref_timeout_
    Reach,       \* what a limiter lets a velocity change by in a cycle
    Unreadable,  \* the bases whose feedback may be missing in a cycle
    Overlap,     \* may the executor and the real-time thread be in handlers at once?
    MaxMissed,   \* up to where the history counts cycles without feedback
    NaN, None    \* a velocity that is not a number; no message

AllBases == {"diff_drive", "omni_wheel", "mecanum", "steering", "tricycle"}

ASSUME BaseAssumption ==
    /\ Bases \subseteq AllBases
    /\ Velocities \subseteq Nat \ {0}
    /\ Timeouts \subseteq Nat
    /\ Unreadable \subseteq Bases
    /\ Reach \in Nat \ {0} /\ MaxMissed \in Nat
    /\ Overlap \in BOOLEAN
    /\ NaN \notin Int
    /\ None \notin [vel : Velocities \cup {0, NaN}, age : Nat, fresh : BOOLEAN]

VARIABLES
    base,                  \* which controller this is
    timeout,               \* cmd_vel_timeout_, ref_timeout_, read by on_configure
    lifecycle,
    chained,               \* is_in_chained_mode()
    subscriber_is_active,
    box,                   \* received_velocity_msg_, input_ref_
    command_msg,           \* command_msg_, current_ref_, last_command_msg_
    ref,                   \* ordered_exported_reference_interfaces_
    previous,              \* previous_two_commands_.back(), previous_commands_
    wheels,                \* what the command interfaces hold
    handles,               \* tricycle: what traction_joint_[0] refers to
    set_odom_requested,    \* set_odom_requested_, reset_odom_
    owed,                  \* history: an accepted request has not been served
    newest,                \* history: the last message put into the box since a reset
    missed,                \* history: the cycles in a row whose command was not written
    rt,                    \* the real-time thread: pc
    ex                     \* the executor: pc and message

config == <<base, timeout>>
node == <<lifecycle, chained, subscriber_is_active>>
drive == <<ref, previous, missed, wheels, handles>>
odom == <<set_odom_requested, owed>>
vars == <<config, node, box, command_msg, drive, odom, newest, rt, ex>>

-----------------------------------------------------------------------------
(* Messages and references.  fresh: it arrived since the last activation.    *)

MaxAge == timeout + 1

Twist(vel, age) == [vel |-> vel, age |-> age, fresh |-> TRUE]
\* What reset_controller_reference_msg() and reset_buffers() leave.
NoTwist == Twist(NaN, 0)
\* How the reference interfaces are exported, and what a reset leaves in them.
NoRef == [vel |-> NaN, age |-> 0, fresh |-> TRUE]
Brake == [vel |-> 0, age |-> 0, fresh |-> TRUE]

Finite(m) == m.vel # NaN
Expired(m) == m.age > timeout
Moving(r) == r.vel \in Velocities
Older(m) == IF m.age < MaxAge THEN [m EXCEPT !.age = @ + 1] ELSE m
Stale(m) == [m EXCEPT !.fresh = FALSE]

ExIdle == [pc |-> "idle", msg |-> NoTwist]

\* When a thread may enter a handler.
RtMay == rt = "idle" /\ (Overlap \/ ex.pc = "idle")
ExMay == ex.pc = "idle" /\ (Overlap \/ rt = "idle")

Init ==
    /\ base \in Bases /\ timeout \in Timeouts
    /\ lifecycle = "unconfigured" /\ chained = FALSE /\ subscriber_is_active = FALSE
    /\ box = NoTwist /\ command_msg = NoTwist /\ ref = NoRef
    /\ previous = 0 /\ wheels = NaN /\ missed = 0
    /\ handles = "none" /\ set_odom_requested = FALSE /\ owed = FALSE
    /\ newest = None
    /\ rt = "idle" /\ ex = ExIdle

\* Time passes between two cycles, for messages of the topic.
Tick ==
    /\ rt = "idle"
    /\ box' = Older(box) /\ command_msg' = Older(command_msg)
    /\ ref' = IF Moving(ref) /\ ~chained THEN Older(ref) ELSE ref
    /\ newest' = IF newest = None THEN None ELSE Older(newest)
    /\ ex' = IF ex.pc = "set" THEN [ex EXCEPT !.msg = Older(@)] ELSE ex
    /\ UNCHANGED <<config, node, previous, missed, wheels, handles, odom, rt>>

-----------------------------------------------------------------------------
(* The executor: a twist arrives on the topic.                               *)

\* Which messages the callbacks put into the box.
DiffDriveTakes(m) == subscriber_is_active /\ (timeout = 0 \/ m.age < timeout)
OmniWheelTakes(m) == subscriber_is_active /\ (timeout = 0 \/ m.age < timeout)
MecanumTakes(m) == timeout = 0 \/ m.age <= timeout
SteeringTakes(m) == timeout = 0 \/ m.age <= timeout
TricycleTakes(m) == subscriber_is_active

Takes(m) ==
    \/ base = "diff_drive" /\ DiffDriveTakes(m)
    \/ base = "omni_wheel" /\ OmniWheelTakes(m)
    \/ base = "mecanum" /\ MecanumTakes(m)
    \/ base = "steering" /\ SteeringTakes(m)
    \/ base = "tricycle" /\ TricycleTakes(m)

\* The mecanum controller answers an outdated message by emptying the box.
reference_callback(m) ==
    /\ ExMay /\ lifecycle # "unconfigured"
    /\ Takes(m) \/ base = "mecanum"
    /\ ex' = [ex EXCEPT !.pc = "set", !.msg = IF Takes(m) THEN m ELSE NoTwist]
    /\ UNCHANGED <<config, node, box, command_msg, drive, odom, newest, rt>>

SetBox ==
    /\ ex.pc = "set"
    /\ box' = ex.msg /\ newest' = ex.msg
    /\ ex' = ExIdle
    /\ UNCHANGED <<config, node, command_msg, drive, odom, rt>>

-----------------------------------------------------------------------------
(* The executor: set_odometry, and the reset_odometry of the tricycle.  The   *)
(* pose of a request is left out: the box holds that of the last one.        *)

set_odometry ==
    /\ base # "tricycle"
    /\ ExMay /\ lifecycle = "active"
    /\ ex' = [ex EXCEPT !.pc = "pose"]
    /\ UNCHANGED <<config, node, box, command_msg, drive, odom, newest, rt>>

\* The pose is in its box ...
SetPose ==
    /\ ex.pc = "pose"
    /\ ex' = [ex EXCEPT !.pc = "flag"]
    /\ UNCHANGED <<config, node, box, command_msg, drive, odom, newest, rt>>

\* ... the flag is raised, and the client told that its request is accepted.
SetFlag ==
    /\ ex.pc = "flag"
    /\ set_odom_requested' = TRUE /\ owed' = TRUE
    /\ ex' = ExIdle
    /\ UNCHANGED <<config, node, box, command_msg, drive, newest, rt>>

\* The tricycle only resets its odometry, and accepts that in any state.
reset_odometry ==
    /\ base = "tricycle"
    /\ ExMay /\ lifecycle # "unconfigured"
    /\ set_odom_requested' = TRUE /\ owed' = TRUE
    /\ UNCHANGED <<config, node, box, command_msg, drive, newest, rt, ex>>

Callback ==
    \/ \E vel \in Velocities \cup {NaN}, age \in 0..MaxAge :
           reference_callback(Twist(vel, age))
    \/ SetBox
    \/ set_odometry \/ SetPose \/ SetFlag \/ reset_odometry

-----------------------------------------------------------------------------
(* The real-time thread: update_reference_from_subscribers().  Each returns   *)
(* the reference, the message kept, and whether that is written back.        *)

Outcome(reference, msg, back) == [ref |-> reference, msg |-> msg, back |-> back]

\* A message that is not finite leaves the reference as it is.
Latched(m) == IF Finite(m) THEN m ELSE ref

DiffDriveReference(m) ==
    Outcome(IF timeout # 0 /\ Expired(m) THEN Brake ELSE Latched(m), m, FALSE)

FaultyOmniWheelReference(m) ==
    Outcome(IF Expired(m) THEN ref ELSE Latched(m), m, FALSE)

\* Here a timeout of zero brakes as any other, though the callback takes it for none.
OmniWheelReference(m) ==
    Outcome(IF Expired(m) THEN Brake ELSE Latched(m), m, FALSE)

Cleared(m) == [m EXCEPT !.vel = NaN]

FaultyMecanumReference(m) ==
    CASE ~Finite(m) -> Outcome(ref, m, FALSE)
      [] Finite(m) /\ (timeout = 0 \/ ~Expired(m)) -> Outcome(m, m, FALSE)
      [] Finite(m) /\ timeout # 0 /\ Expired(m) -> Outcome(Brake, Cleared(m), TRUE)

\* With a timeout of zero a reference is used once.
MecanumReference(m) ==
    CASE ~Finite(m) -> Outcome(ref, m, FALSE)
      [] Finite(m) /\ timeout = 0 -> Outcome(m, Cleared(m), TRUE)
      [] Finite(m) /\ timeout # 0 /\ ~Expired(m) -> Outcome(m, m, FALSE)
      [] Finite(m) /\ timeout # 0 /\ Expired(m) -> Outcome(Brake, Cleared(m), TRUE)

FaultySteeringReference(m) ==
    CASE ~Finite(m) -> Outcome(ref, m, FALSE)
      [] Finite(m) /\ (timeout = 0 \/ ~Expired(m)) -> Outcome(m, Cleared(m), TRUE)
      [] Finite(m) /\ timeout # 0 /\ Expired(m) -> Outcome(NoRef, Cleared(m), TRUE)

SteeringReference(m) ==
    CASE ~Finite(m) -> Outcome(ref, m, FALSE)
      [] Finite(m) /\ timeout = 0 -> Outcome(m, Cleared(m), TRUE)
      [] Finite(m) /\ timeout # 0 /\ ~Expired(m) -> Outcome(m, m, FALSE)
      [] Finite(m) /\ timeout # 0 /\ Expired(m) -> Outcome(NoRef, Cleared(m), TRUE)

FaultyTricycleReference(m) == Outcome(m, m, FALSE)

\* The tricycle brakes in the message itself, which the box may share with it;
\* its command is a copy that lives for one cycle.
TricycleReference(m) ==
    LET braked == IF Expired(m) THEN [m EXCEPT !.vel = 0] ELSE m
    IN  Outcome(braked, braked, box = m)

ReferenceOf(m) ==
    CASE base = "diff_drive" -> DiffDriveReference(m)
      [] base = "omni_wheel" -> OmniWheelReference(m)
      [] base = "mecanum" -> MecanumReference(m)
      [] base = "steering" -> SteeringReference(m)
      [] base = "tricycle" -> TricycleReference(m)

\* An attempt to lock a box fails while the executor may be inside it.
Attempts(pc) == IF ex.pc = pc THEN BOOLEAN ELSE {TRUE}

\* A cycle starts with the message in the box, or with that of the cycle before.
UpdateRead ==
    /\ RtMay /\ lifecycle = "active" /\ ~chained
    /\ \E got \in Attempts("set") : command_msg' = IF got THEN box ELSE command_msg
    /\ rt' = "reference"
    /\ UNCHANGED <<config, node, box, drive, odom, newest, ex>>

\* In chained mode the controller manager has a preceding controller write the
\* reference first; that may have none to give.
UpdateChained ==
    /\ RtMay /\ lifecycle = "active" /\ chained
    /\ ref' \in {ref} \cup {Twist(vel, 0) : vel \in Velocities}
    /\ rt' = "odometry"
    /\ UNCHANGED <<config, node, box, command_msg, previous, missed, wheels, handles,
                   odom, newest, ex>>

UpdateReference ==
    /\ rt = "reference"
    /\ LET out == ReferenceOf(command_msg)
       IN  /\ ref' = out.ref /\ command_msg' = out.msg
           /\ \E done \in IF base = "tricycle" THEN {TRUE} ELSE Attempts("set") :
                  box' = IF out.back /\ done THEN out.msg ELSE box
    /\ rt' = "odometry"
    /\ UNCHANGED <<config, node, previous, missed, wheels, handles, odom, newest, ex>>

-----------------------------------------------------------------------------
(* The real-time thread: update_and_write_commands().                        *)

FaultyReturns == ~Finite(ref)

\* Without a reference these two return at once.
Returns == base \in {"diff_drive", "omni_wheel"} /\ ~Finite(ref)

\* A request is served when the pose can be read; the next cycle tries again.
UpdateOdometry ==
    /\ rt = "odometry"
    /\ \E got \in Attempts("pose") :
           LET serves == ~Returns /\ set_odom_requested /\ got
           IN  /\ owed' = (owed /\ ~serves)
               /\ rt' = CASE Returns -> "idle"
                         [] serves -> "served"
                         [] OTHER -> "write"
    /\ UNCHANGED <<config, node, box, command_msg, drive, set_odom_requested, newest,
                   ex>>

\* The limiter: towards v by at most Reach.  What is not a number stays so: that of
\* the tricycle adds to its memory, the other two are given numbers only.
Limit(v, last) ==
    CASE NaN \in {v, last} -> NaN
      [] NaN \notin {v, last} /\ v > last + Reach -> last + Reach
      [] NaN \notin {v, last} /\ v < last - Reach -> last - Reach
      [] OTHER -> v

\* diff_drive limits and remembers its command before it looks at the feedback.
DiffDriveLimit == previous' = Limit(ref.vel, previous) /\ UNCHANGED ref

Misses == missed' = IF missed < MaxMissed THEN missed + 1 ELSE missed

\* Without feedback a cycle ends before it writes the wheels.  diff_drive and
\* omni_wheel look at it unless they serve a request instead; of the tricycle the
\* command of the cycle is lost, that of mecanum waits in its interfaces.
DiffDriveUnread == ~Returns /\ ~set_odom_requested /\ DiffDriveLimit /\ Misses
OmniWheelUnread ==
    ~Returns /\ ~set_odom_requested /\ UNCHANGED <<ref, previous, missed>>
MecanumUnread == UNCHANGED <<ref, previous, missed>>
TricycleUnread == ref' = NoRef /\ UNCHANGED <<previous, missed>>

UpdateUnread ==
    /\ rt = "odometry" /\ base \in Unreadable
    /\ \/ base = "diff_drive" /\ DiffDriveUnread
       \/ base = "omni_wheel" /\ OmniWheelUnread
       \/ base = "mecanum" /\ MecanumUnread
       \/ base = "tricycle" /\ TricycleUnread
    /\ rt' = "idle"
    /\ UNCHANGED <<config, node, box, command_msg, wheels, handles, odom, newest, ex>>

UpdateServed ==
    /\ rt = "served"
    /\ set_odom_requested' = FALSE
    /\ rt' = "write"
    /\ UNCHANGED <<config, node, box, command_msg, drive, owed, newest, ex>>

FaultyDiffDriveWrite ==
    /\ wheels' = Limit(ref.vel, previous) /\ previous' = ref.vel
    /\ UNCHANGED ref

DiffDriveWrite == DiffDriveLimit /\ wheels' = previous'

OmniWheelWrite ==
    /\ wheels' = ref.vel
    /\ UNCHANGED <<previous, ref>>

\* These two use a reference once.  Without one mecanum writes zero to its wheels, but
\* joins the writes by ||: the first that succeeds is the last, and only the front left
\* wheel is stopped.  Here the wheels of mecanum are the other three.
MecanumWrite ==
    /\ wheels' = IF Finite(ref) THEN Limit(ref.vel, previous) ELSE wheels
    /\ previous' = IF Finite(ref) THEN wheels' ELSE previous
    /\ ref' = NoRef

SteeringWrite ==
    /\ wheels' = IF Finite(ref) THEN ref.vel ELSE 0
    /\ ref' = NoRef
    /\ UNCHANGED previous

\* The tricycle writes through the handles of its first activation.  When their
\* interfaces have been released that is undefined: the write works or is lost.
Reaches(w) == IF handles = "released" THEN {w, wheels} ELSE {w}

TricycleWrite ==
    /\ ref' = NoRef
    /\ previous' = Limit(ref.vel, previous) /\ wheels' \in Reaches(previous')

UpdateWrite ==
    /\ rt = "write"
    /\ \/ base = "diff_drive" /\ DiffDriveWrite
       \/ base = "omni_wheel" /\ OmniWheelWrite
       \/ base = "mecanum" /\ MecanumWrite
       \/ base = "steering" /\ SteeringWrite
       \/ base = "tricycle" /\ TricycleWrite
    /\ rt' = "idle" /\ missed' = 0
    /\ UNCHANGED <<config, node, box, command_msg, handles, odom, newest, ex>>

Update ==
    \/ UpdateRead \/ UpdateChained \/ UpdateReference
    \/ UpdateOdometry \/ UpdateUnread \/ UpdateServed \/ UpdateWrite

-----------------------------------------------------------------------------
(* The life cycle.                                                           *)

FaultyFirstTwist == IF base = "tricycle" THEN None ELSE NoTwist

\* The tricycle starts from a twist of zero with a zero stamp.
FirstTwist == IF base = "tricycle" THEN Twist(0, timeout' + 1) ELSE NoTwist

\* What was received is forgotten.
Forget == box' = FirstTwist /\ command_msg' = FirstTwist /\ newest' = None

\* reset_buffers() of three bases; omni_wheel has no limiter.
DiffDriveResetBuffers == Forget /\ ref' = NoRef /\ previous' = 0
MecanumResetBuffers == Forget /\ ref' = NoRef /\ previous' = 0
OmniWheelResetBuffers == Forget /\ ref' = NoRef /\ UNCHANGED previous

\* reset() of four bases; mecanum has none.  The null message that the tricycle
\* leaves is replaced by on_configure before a cycle reads it.
DiffDriveReset == DiffDriveResetBuffers /\ subscriber_is_active' = FALSE
OmniWheelReset == OmniWheelResetBuffers /\ subscriber_is_active' = FALSE
SteeringReset == Forget /\ ref' = NoRef /\ UNCHANGED <<previous, subscriber_is_active>>
TricycleReset ==
    /\ Forget /\ ref' = NoRef /\ previous' = 0
    /\ subscriber_is_active' = FALSE

Reset ==
    \/ base = "diff_drive" /\ DiffDriveReset
    \/ base = "omni_wheel" /\ OmniWheelReset
    \/ base = "steering" /\ SteeringReset
    \/ base = "tricycle" /\ TricycleReset

\* Parameters may have been set since: each base reads its timeout anew.
DiffDriveConfigure == timeout' \in Timeouts /\ DiffDriveReset
OmniWheelConfigure == timeout' \in Timeouts /\ OmniWheelReset
MecanumConfigure ==
    timeout' \in Timeouts /\ MecanumResetBuffers /\ UNCHANGED subscriber_is_active
SteeringConfigure == timeout' \in Timeouts /\ SteeringReset
TricycleConfigure == timeout' \in Timeouts /\ TricycleReset

on_configure ==
    /\ RtMay /\ lifecycle = "unconfigured"
    /\ lifecycle' = "inactive" /\ handles' = "none"
    /\ \/ base = "diff_drive" /\ DiffDriveConfigure
       \/ base = "omni_wheel" /\ OmniWheelConfigure
       \/ base = "mecanum" /\ MecanumConfigure
       \/ base = "steering" /\ SteeringConfigure
       \/ base = "tricycle" /\ TricycleConfigure
    /\ UNCHANGED <<base, chained, wheels, missed, odom, rt, ex>>

\* A request for the odometry stays.
Unconfigure ==
    /\ RtMay /\ ex.pc = "idle"
    /\ lifecycle' = "unconfigured" /\ handles' = "none"
    /\ UNCHANGED <<config, chained, wheels, missed, odom, rt, ex>>

\* The mecanum controller has no on_cleanup.
MecanumCleanup == UNCHANGED <<box, command_msg, ref, previous, newest, subscriber_is_active>>

on_cleanup ==
    /\ lifecycle = "inactive"
    /\ Unconfigure
    /\ Reset \/ (base = "mecanum" /\ MecanumCleanup)

\* A configuration that rejects its parameters, or an activation that does not find
\* its interfaces, ends here; that of steering looks for none.
on_error ==
    /\ base # "mecanum"
    /\ lifecycle = "unconfigured" \/ (lifecycle = "inactive" /\ base # "steering")
    /\ Unconfigure
    /\ Reset

\* What is kept over an activation has not arrived since.  Only the tricycle goes on
\* with it (see CommandsFresh), so that its messages are not marked.
Keep ==
    /\ box' = Stale(box) /\ command_msg' = Stale(command_msg) /\ ref' = Stale(ref)
    /\ UNCHANGED <<previous, newest>>

DiffDriveActivate == Keep /\ subscriber_is_active' = TRUE
OmniWheelActivate == Keep /\ subscriber_is_active' = TRUE
MecanumActivate == MecanumResetBuffers /\ UNCHANGED subscriber_is_active

\* The new handles are appended, and the first ones used.
TricycleActivate ==
    /\ UNCHANGED <<box, command_msg, ref, previous, newest>>
    /\ subscriber_is_active' = TRUE
    /\ handles' = IF handles = "none" THEN "held" ELSE handles

SteeringActivate ==
    /\ command_msg' = NoTwist
    /\ \E done \in Attempts("set") :
           /\ box' = IF done THEN NoTwist ELSE Stale(box)
           /\ newest' = IF done THEN None ELSE newest
    /\ ref' = Stale(ref)
    /\ UNCHANGED <<previous, subscriber_is_active>>

\* The controller manager sets the mode of a chainable controller before.
on_activate ==
    /\ RtMay /\ lifecycle = "inactive"
    /\ lifecycle' = "active"
    /\ chained' \in IF base = "tricycle" THEN {FALSE} ELSE BOOLEAN
    /\ \/ base = "diff_drive" /\ DiffDriveActivate
       \/ base = "omni_wheel" /\ OmniWheelActivate
       \/ base = "mecanum" /\ MecanumActivate
       \/ base = "steering" /\ SteeringActivate
       \/ base = "tricycle" /\ TricycleActivate
    /\ base # "tricycle" => UNCHANGED handles
    /\ ex' = IF ex.pc = "set" /\ base # "tricycle" THEN [ex EXCEPT !.msg = Stale(@)] ELSE ex
    /\ UNCHANGED <<config, wheels, missed, odom, rt>>

FaultyDiffDriveDeactivate ==
    /\ wheels' = 0 /\ subscriber_is_active' = FALSE
    /\ UNCHANGED <<box, command_msg, ref, previous, newest>>

DiffDriveDeactivate ==
    wheels' = 0 /\ DiffDriveResetBuffers /\ subscriber_is_active' = FALSE
OmniWheelDeactivate ==
    wheels' = 0 /\ OmniWheelResetBuffers /\ subscriber_is_active' = FALSE
MecanumDeactivate ==
    wheels' = NaN /\ MecanumResetBuffers /\ UNCHANGED subscriber_is_active

SteeringDeactivate ==
    /\ wheels' = NaN
    /\ UNCHANGED <<box, command_msg, ref, previous, newest, subscriber_is_active>>

\* halt() goes through the handles, whose interfaces are released after it.
TricycleDeactivate ==
    /\ subscriber_is_active' = FALSE
    /\ wheels' \in Reaches(0) /\ handles' = "released"
    /\ UNCHANGED <<box, command_msg, ref, previous, newest>>

on_deactivate ==
    /\ RtMay /\ lifecycle = "active"
    /\ lifecycle' = "inactive" /\ missed' = 0
    /\ \/ base = "diff_drive" /\ DiffDriveDeactivate
       \/ base = "omni_wheel" /\ OmniWheelDeactivate
       \/ base = "mecanum" /\ MecanumDeactivate
       \/ base = "steering" /\ SteeringDeactivate
       \/ base = "tricycle" /\ TricycleDeactivate
    /\ base # "tricycle" => UNCHANGED handles
    /\ UNCHANGED <<config, chained, odom, rt, ex>>

Lifecycle == on_configure \/ on_cleanup \/ on_error \/ on_activate \/ on_deactivate

Next ==
    \/ Update \/ Lifecycle \/ Callback \/ Tick

Spec == Init /\ [][Next]_vars

\* The cycle is periodic and time passes; a callback that has begun ends.  The
\* feedback is missing in some cycles, not in all from some moment on.
FairSpec ==
    /\ Spec
    /\ SF_vars(UpdateRead \/ UpdateChained) /\ SF_vars(Tick)
    /\ WF_vars(UpdateReference) /\ SF_vars(UpdateOdometry)
    /\ WF_vars(UpdateServed) /\ WF_vars(UpdateWrite)
    /\ WF_vars(SetBox) /\ WF_vars(SetPose) /\ WF_vars(SetFlag)

-----------------------------------------------------------------------------
(* Properties.                                                               *)

TwistType == [vel : Velocities \cup {0, NaN}, age : 0..MaxAge, fresh : BOOLEAN]

\* The variables keep their types: in every state of its life cycle a base has a
\* message to read, and no handler leaves one of another kind.
TypeOK ==
    /\ base \in Bases /\ timeout \in Timeouts
    /\ lifecycle \in {"unconfigured", "inactive", "active"}
    /\ chained \in BOOLEAN /\ subscriber_is_active \in BOOLEAN
    /\ box \in TwistType /\ command_msg \in TwistType /\ ref \in TwistType
    /\ previous \in Int \cup {NaN} /\ wheels \in Int \cup {NaN}
    /\ missed \in 0..MaxMissed
    /\ handles \in {"none", "held", "released"}
    /\ set_odom_requested \in BOOLEAN /\ owed \in BOOLEAN
    /\ newest \in TwistType \cup {None}
    /\ rt \in {"idle", "reference", "odometry", "served", "write"}
    /\ ex \in [pc : {"idle", "set", "pose", "flag"}, msg : TwistType]

KeepsReference == {"diff_drive", "omni_wheel"}

\* The reference that a cycle hands to the wheels is that of the newest message
\* accepted since the last reset, and a newest message in time is handed over in
\* every cycle.  diff_drive and omni_wheel keep the reference of an earlier
\* message while the newest is not finite.
CommandsNewest ==
    rt = "odometry" /\ ~chained =>
        /\ Moving(ref) => /\ newest # None
                          /\ \/ ref.vel = newest.vel
                             \/ base \in KeepsReference /\ ~Finite(newest)
        /\ newest # None /\ Finite(newest) /\ ~Expired(newest) /\ timeout # 0
               => ref.vel = newest.vel

\* No cycle commands a reference of an earlier activation, be it from the box,
\* from the copy of a cycle or from the reference interfaces.  The tricycle does,
\* when it is activated again within its timeout.
CommandsFresh ==
    rt = "odometry" /\ base # "tricycle" => (Moving(ref) => ref.fresh)

\* No cycle commands a reference older than the timeout, whatever the executor
\* does in between and whichever attempt to lock the box fails.
TimesOut(b) ==
    rt = "odometry" /\ base = b /\ ~chained /\ timeout # 0 /\ Moving(ref)
    => ref.age <= timeout
ReferenceTimesOut == TimesOut("mecanum") /\ TimesOut("steering") /\ TimesOut("tricycle")

\* With a timeout of zero mecanum and steering use a reference in one cycle only:
\* once it is commanded, no copy of it is left to be read again.
UsedOnce ==
    /\ rt = "odometry" /\ ~chained
    /\ timeout = 0 /\ base \in {"mecanum", "steering"} /\ Moving(ref)
    => ~Finite(box) /\ ~Finite(command_msg)

Speed(w) == IF w = NaN THEN 0 ELSE w

\* A cycle changes the speed of the wheels by more than n of the steps that the
\* limiter allows.
Jumps(n) ==
    /\ rt = "write"
    /\ \/ Speed(wheels') - Speed(wheels) > n * Reach
       \/ Speed(wheels) - Speed(wheels') > n * Reach

\* diff_drive: a cycle changes the speed of the wheels by no more than the limiter
\* allows, over timeouts, changes of the mode and new activations, but for cycles
\* without feedback: in them the memory of the limiter goes on while the wheels do
\* not, and the next written command makes up for all of them at once.  Nothing is
\* said when MaxMissed of them have come in a row.
DiffDriveLimited ==
    [][base = "diff_drive" /\ missed < MaxMissed => ~Jumps(missed + 1)]_vars

Recent == newest # None /\ ~Expired(newest)

\* When the commands stop the base comes to rest: every active controller that
\* follows the topic and has a timeout writes zero to its wheels, though callbacks
\* run between its steps.  Of the tricycle this is not so when its handles are
\* released, and not once it was sent a velocity that is not a number: the memory of
\* its limiter then keeps every later command, that of braking too, from being one.
\* Of mecanum it is not so (see MecanumWrite): three of its wheels keep what the one
\* cycle that brakes was allowed by the limiter, or the reference of before when the
\* box was emptied.
BrakesOnTimeout ==
    (lifecycle = "active" /\ ~chained /\ ~Recent /\ timeout # 0 /\ base # "mecanum")
    ~> (lifecycle # "active" \/ chained \/ Recent \/ wheels = 0
        \/ (base = "tricycle" /\ (handles = "released" \/ previous = NaN)))

\* A request for the odometry that the service accepted is served, also one made
\* before a deactivation; diff_drive and omni_wheel first need a reference.
AcceptedIsServed ==
    owed ~> (~owed \/ lifecycle # "active" \/ (base \in KeepsReference /\ ~Finite(ref)))
=============================================================================
