---------------------------- MODULE Broadcasters ----------------------------
(****************************************************************************)
(* The broadcasters, which publish what they read of the state interfaces in *)
(* every cycle: joint_state, state_interfaces, gpio (the state side of the   *)
(* GPIO command controller), battery, the broadcasters of a sensor, and the  *)
(* chained_filter, which exports its readings as state interfaces again.     *)
(* A behaviour is one of one broadcaster, claiming the same interfaces.      *)
(*                                                                           *)
(* A read of an interface may fail, when another thread holds its lock, and  *)
(* so may the hand-over of a message to the publishing thread.  A reading is *)
(* told by the interface it comes from and its age; what it is scaled,       *)
(* rotated or filtered to is left out, and with it what the filters remember *)
(* of earlier readings, over activations, too.  The parameters are valid.    *)
(* The definitions Faulty... are the mutants that the properties are tried on.*)
(****************************************************************************)
EXTENDS Integers, FiniteSets

CONSTANTS
    Kinds,        \* the broadcasters of this instance
    Count         \* how many state interfaces it claims

\* The interfaces, by their position in state_interfaces_.
Interfaces == 1..Count

Sensors == {"force_torque", "imu", "gps", "magnetometer", "pose", "range"}
AllKinds == Sensors \cup {"joint_state", "state_interfaces", "gpio", "battery", "chained_filter"}

ASSUME BroadcastersAssumption ==
    /\ Kinds \subseteq AllKinds
    /\ Count \in Nat \ {0}

VARIABLES
    broadcaster,  \* which broadcaster this is
    doubles,      \* the interfaces of a numeric type
    lifecycle,
    held,         \* by place in the message: mapped_values_, values_msg_, the semantic
                  \* component, the exported state interfaces
    message,      \* the message published last since the activation
    second        \* that of the second topic, which is the filtered wrench, the transform
                  \* of the pose or the combined battery state: none, or one computed from
                  \* all readings (whole), or from some (part)

vars == <<broadcaster, doubles, lifecycle, held, message, second>>

\* new: of this cycle; old: of an earlier cycle; past: of an earlier activation.
Ages == {"new", "old", "past"}
Reading(i) == [from |-> i, age |-> "new"]
Unread == [from |-> 0, age |-> "old"]
Arbitrary == [from |-> 0, age |-> "new"]  \* a value that was not initialized
Aged(r, age) == IF r.from = 0 THEN r ELSE [r EXCEPT !.age = age]
Older(r) == IF r.age = "new" THEN Aged(r, "old") ELSE r
Past(m) == [s \in DOMAIN m |-> Aged(m[s], "past")]

Nothing == [s \in Interfaces |-> Unread]
IsWhole(m) == \A s \in Interfaces : m[s] # Unread

Init ==
    /\ broadcaster \in Kinds
    /\ doubles \in SUBSET Interfaces
    /\ broadcaster \notin {"joint_state", "state_interfaces"} => doubles = Interfaces
    /\ lifecycle = "unconfigured"
    /\ held = Nothing /\ message = Nothing /\ second = "none"

-----------------------------------------------------------------------------
(* Reading the interfaces, of which those of ok can be read in this cycle.   *)

FaultyMapIndex(i, ok) == Cardinality({j \in doubles \cap ok : j <= i})

\* The place of an interface in the joint states: those of another type have none, and
\* those that cannot be read keep theirs.
MapIndex(i, ok) == Cardinality({j \in doubles : j <= i})

\* A place keeps what was read last.
JointStateRead(ok) ==
    held' = [s \in Interfaces |->
                IF \E i \in doubles \cap ok : MapIndex(i, ok) = s
                THEN Reading(CHOOSE i \in doubles \cap ok : MapIndex(i, ok) = s)
                ELSE Older(held[s])]

FaultyStateInterfacesRead(ok) ==
    held' = [s \in Interfaces |-> IF s \in ok THEN Reading(s) ELSE Unread]

StateInterfacesRead(ok) ==
    held' = [s \in Interfaces |-> IF s \in ok THEN Reading(s) ELSE Older(held[s])]

\* By name.
apply_state_value(ok) == StateInterfacesRead(ok)

\* What is not finite is skipped, too.  A filter that fails leaves the local of its result
\* uninitialized, and that is exported all the same.
ChainedFilterRead(ok) ==
    \E failed \in SUBSET ok :
        held' = [s \in Interfaces |->
                    IF s \in failed THEN Arbitrary
                    ELSE IF s \in ok THEN Reading(s) ELSE Older(held[s])]

\* What cannot be read is NaN.
BatteryRead(ok) ==
    held' = [s \in Interfaces |-> IF s \in ok THEN Reading(s) ELSE Unread]

\* A semantic component gives what was read last, or NaN.
SensorRead(ok) ==
    StateInterfacesRead(ok) \/ BatteryRead(ok)

-----------------------------------------------------------------------------
(* A cycle; a message is handed over to its publishing thread, or is not.    *)

Publish(sent) == message' = IF sent THEN held' ELSE message
PublishSecond(sent) ==
    second' = IF sent THEN (IF IsWhole(held') THEN "whole" ELSE "part") ELSE second

JointStateUpdate(ok, sent) == JointStateRead(ok) /\ Publish(sent) /\ UNCHANGED second
StateInterfacesUpdate(ok, sent) ==
    StateInterfacesRead(ok) /\ Publish(sent) /\ UNCHANGED second
update_gpios_states(ok, sent) == apply_state_value(ok) /\ Publish(sent) /\ UNCHANGED second

\* The combined battery state is a number when all readings it is summed up from are.
BatteryUpdate(ok, sent) ==
    BatteryRead(ok) /\ Publish(sent) /\ \E also \in BOOLEAN : PublishSecond(also)

\* The filtered wrench follows when the filters succeed.
ForceTorqueUpdate(ok, sent) ==
    SensorRead(ok) /\ Publish(sent) /\ \E filtered \in BOOLEAN : PublishSecond(filtered)

FaultyPoseUpdate(ok, sent) ==
    SensorRead(ok) /\ Publish(sent) /\ \E also \in BOOLEAN : PublishSecond(also)

\* The transform follows when the pose is valid, that is at least a whole one.
is_pose_valid(pose) == IsWhole(pose)

PoseUpdate(ok, sent) ==
    /\ SensorRead(ok) /\ Publish(sent)
    /\ \E also \in BOOLEAN : PublishSecond(also /\ is_pose_valid(held'))

ImuUpdate(ok, sent) == SensorRead(ok) /\ Publish(sent) /\ UNCHANGED second
GpsUpdate(ok, sent) == SensorRead(ok) /\ Publish(sent) /\ UNCHANGED second
MagnetometerUpdate(ok, sent) == SensorRead(ok) /\ Publish(sent) /\ UNCHANGED second
RangeUpdate(ok, sent) == SensorRead(ok) /\ Publish(sent) /\ UNCHANGED second

\* An exported interface has its value at once.
ChainedFilterUpdate(ok) == ChainedFilterRead(ok) /\ Publish(TRUE) /\ UNCHANGED second

Update(ok, sent) ==
    /\ lifecycle = "active"
    /\ \/ broadcaster = "joint_state" /\ JointStateUpdate(ok, sent)
       \/ broadcaster = "state_interfaces" /\ StateInterfacesUpdate(ok, sent)
       \/ broadcaster = "gpio" /\ update_gpios_states(ok, sent)
       \/ broadcaster = "battery" /\ BatteryUpdate(ok, sent)
       \/ broadcaster = "force_torque" /\ ForceTorqueUpdate(ok, sent)
       \/ broadcaster = "pose" /\ PoseUpdate(ok, sent)
       \/ broadcaster = "imu" /\ ImuUpdate(ok, sent)
       \/ broadcaster = "gps" /\ GpsUpdate(ok, sent)
       \/ broadcaster = "magnetometer" /\ MagnetometerUpdate(ok, sent)
       \/ broadcaster = "range" /\ RangeUpdate(ok, sent)
       \/ broadcaster = "chained_filter" /\ ChainedFilterUpdate(ok)
    /\ UNCHANGED <<broadcaster, doubles, lifecycle>>

-----------------------------------------------------------------------------
(* The life cycle.                                                           *)

\* What each makes of its readings when it is configured: the state interfaces
\* broadcaster clears its message, the battery broadcaster its own, the broadcaster of
\* a sensor makes a new semantic component.
Cleared == held' = Nothing
StateInterfacesConfigure == broadcaster = "state_interfaces" /\ Cleared
BatteryConfigure == broadcaster = "battery" /\ Cleared
ForceTorqueConfigure == broadcaster = "force_torque" /\ Cleared
ImuConfigure == broadcaster = "imu" /\ Cleared
GpsConfigure == broadcaster = "gps" /\ Cleared
MagnetometerConfigure == broadcaster = "magnetometer" /\ Cleared
PoseConfigure == broadcaster = "pose" /\ Cleared
RangeConfigure == broadcaster = "range" /\ Cleared
JointStateConfigure == broadcaster = "joint_state" /\ UNCHANGED held
ChainedFilterConfigure == broadcaster = "chained_filter" /\ UNCHANGED held
GpioConfigure == broadcaster = "gpio" /\ UNCHANGED held

on_configure ==
    /\ lifecycle = "unconfigured" /\ lifecycle' = "inactive"
    /\ \/ StateInterfacesConfigure \/ BatteryConfigure \/ ForceTorqueConfigure
       \/ ImuConfigure \/ GpsConfigure \/ MagnetometerConfigure \/ PoseConfigure
       \/ RangeConfigure \/ JointStateConfigure \/ ChainedFilterConfigure \/ GpioConfigure
    /\ UNCHANGED <<broadcaster, doubles, message, second>>

on_cleanup ==
    /\ lifecycle = "inactive" /\ lifecycle' = "unconfigured"
    /\ UNCHANGED <<broadcaster, doubles, held, message, second>>

\* Every place gets its initial value.
init_joint_data == Cleared
JointStateActivate == broadcaster = "joint_state" /\ init_joint_data
BatteryActivate == broadcaster = "battery" /\ Cleared
initialize_gpio_state_msg == broadcaster = "gpio" /\ Cleared
ChainedFilterActivate == broadcaster = "chained_filter" /\ Cleared

\* It does not activate on interfaces of another type, and clears nothing.
StateInterfacesActivate ==
    broadcaster = "state_interfaces" /\ doubles = Interfaces /\ UNCHANGED held

\* assign_loaned_state_interfaces() of the semantic component.
SensorActivate == broadcaster \in Sensors /\ UNCHANGED held

on_activate ==
    /\ lifecycle = "inactive" /\ lifecycle' = "active"
    /\ \/ JointStateActivate \/ BatteryActivate \/ initialize_gpio_state_msg
       \/ ChainedFilterActivate \/ StateInterfacesActivate \/ SensorActivate
    /\ message' = Nothing /\ second' = "none"
    /\ UNCHANGED <<broadcaster, doubles>>

on_deactivate ==
    /\ lifecycle = "active" /\ lifecycle' = "inactive"
    /\ held' = Past(held)
    /\ UNCHANGED <<broadcaster, doubles, message, second>>

Lifecycle == on_configure \/ on_cleanup \/ on_activate \/ on_deactivate

Next == Lifecycle \/ \E ok \in SUBSET Interfaces, sent \in BOOLEAN : Update(ok, sent)

Spec == Init /\ [][Next]_vars

\* Each interface can be read again and again, not necessarily in the same cycle as
\* another one, and so can a message be handed over.
UpdateReading(i) ==
    \E ok \in SUBSET Interfaces, sent \in BOOLEAN : i \in ok /\ Update(ok, sent)
UpdatePublishing == \E ok \in SUBSET Interfaces : Update(ok, TRUE)

FairSpec ==
    /\ Spec
    /\ \A i \in Interfaces : SF_vars(UpdateReading(i))
    /\ SF_vars(UpdatePublishing)

-----------------------------------------------------------------------------
(* Properties.                                                               *)

Readings == [from : Interfaces, age : Ages] \cup {Unread, Arbitrary}
Messages == [Interfaces -> Readings]

\* The variables keep their types; a transform is that of a whole pose, whatever could
\* not be read of it.
TypeOK ==
    /\ broadcaster \in Kinds /\ doubles \subseteq Interfaces
    /\ lifecycle \in {"unconfigured", "inactive", "active"}
    /\ held \in Messages /\ message \in Messages
    /\ second \in (IF broadcaster = "pose" THEN {"none", "whole"} ELSE {"none", "whole", "part"})

\* The interface that a place of the message stands for.
Source(s) ==
    IF broadcaster # "joint_state" THEN s
    ELSE CHOOSE i \in doubles : Cardinality({j \in doubles : j < i}) = s - 1

\* What a place may hold.
MayHold(r, s) ==
    r.from = Source(s) \/ (broadcaster = "chained_filter" /\ r = Arbitrary)

\* A place of a message holds a reading of its own interface, whichever reads failed
\* before, and, for the broadcasters that clear it, none from before the activation.
\* The battery broadcaster does not repeat a reading.  The exception is the chained
\* filter, when a filter of its fails.
OwnReadings ==
    \A s \in Interfaces : message[s] # Unread =>
        /\ MayHold(message[s], s)
        /\ message[s].age = "past" => broadcaster \in Sensors \cup {"state_interfaces"}
        /\ broadcaster = "battery" => message[s].age = "new"

\* The broadcasters that keep their readings, once they are active, publish a message
\* with a reading of each interface, also when there is never a cycle in which all of
\* them can be read; the chained filter, with one or what a filter that fails leaves.
MessageCompletes ==
    (lifecycle = "active" /\ broadcaster \in {"joint_state", "state_interfaces", "gpio",
                                              "chained_filter"})
        ~> (lifecycle # "active"
            \/ \A i \in doubles : \E s \in Interfaces :
                   message[s].from = i \/ (s = i /\ message[s] = Arbitrary))
=============================================================================
