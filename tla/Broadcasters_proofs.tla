-------------------------- MODULE Broadcasters_proofs --------------------------
(****************************************************************************)
(* Theorems about the broadcasters, for any number of interfaces and any     *)
(* choice of those of a numeric type: whatever reads fail, a place of a      *)
(* message holds a reading of its own interface, or what a failing filter    *)
(* leaves.                                                                   *)
(****************************************************************************)
EXTENDS Broadcasters, FiniteSetTheorems, TLAPS

-----------------------------------------------------------------------------
(* The places of the joint states.                                           *)

Before(i) == {j \in doubles : j < i}

LEMMA CountBefore ==
    ASSUME doubles \subseteq Interfaces, NEW i \in doubles
    PROVE  /\ IsFiniteSet(Before(i)) /\ Cardinality(Before(i)) \in Nat
           /\ Cardinality({j \in doubles : j <= i}) = Cardinality(Before(i)) + 1
<1>0. Interfaces \subseteq Int /\ Count \in Int
  BY BroadcastersAssumption DEF Interfaces
<1>1. IsFiniteSet(Interfaces)
  BY <1>0, FS_Interval DEF Interfaces
<1>2. IsFiniteSet(Before(i))
  BY <1>1, FS_Subset DEF Before
<1>3. i \notin Before(i) /\ {j \in doubles : j <= i} = Before(i) \cup {i}
  <2>1. \A j \in doubles : (j <= i <=> j < i \/ j = i) /\ ~(i < i)
    BY <1>0
  <2>. QED
    BY <2>1, Zenon DEF Before
<1>. QED
  BY <1>2, <1>3, FS_AddElement, FS_CardinalityType

\* Two interfaces do not share a place.
LEMMA PlacesDiffer ==
    ASSUME doubles \subseteq Interfaces, NEW i \in doubles, NEW k \in doubles,
           Cardinality(Before(i)) = Cardinality(Before(k))
    PROVE  i = k
<1>0. i \in Int /\ k \in Int /\ doubles \subseteq Int
  BY BroadcastersAssumption DEF Interfaces
<1>1. ASSUME NEW a \in doubles, NEW b \in doubles, a < b
      PROVE  Cardinality(Before(a)) < Cardinality(Before(b))
  <2>1. {j \in doubles : j <= a} \subseteq Before(b)
    <3>1. \A j \in doubles : j <= a => j < b
      BY <1>0, <1>1
    <3>. QED
      BY <3>1, Zenon DEF Before
  <2>2. Cardinality({j \in doubles : j <= a}) <= Cardinality(Before(b))
    BY <2>1, CountBefore, FS_Subset
  <2>3. /\ Cardinality(Before(a)) \in Nat /\ Cardinality(Before(b)) \in Nat
        /\ Cardinality({j \in doubles : j <= a}) = Cardinality(Before(a)) + 1
    BY CountBefore
  <2>. QED
    BY <2>2, <2>3
<1>2. ~(i < k) /\ ~(k < i)
  <2>1. Cardinality(Before(i)) \in Nat /\ Cardinality(Before(k)) \in Nat
    BY CountBefore
  <2>. QED
    BY <1>1, <2>1
<1>. QED
  BY <1>0, <1>2

\* The interface that is found at a place is the one the place stands for.
LEMMA PlaceIsOwn ==
    ASSUME doubles \subseteq Interfaces, broadcaster = "joint_state",
           NEW ok, NEW s \in Interfaces, NEW k \in doubles, MapIndex(k, ok) = s
    PROVE  Source(s) = k
<1>1. s \in Int /\ MapIndex(k, ok) = Cardinality(Before(k)) + 1 /\ Cardinality(Before(k)) \in Nat
  BY CountBefore, BroadcastersAssumption DEF MapIndex, Interfaces
<1>2. Cardinality(Before(k)) = s - 1
  BY <1>1
<1>3. \A i \in doubles : Cardinality(Before(i)) = s - 1 => i = k
  BY <1>2, PlacesDiffer
<1>4. Source(s) = CHOOSE i \in doubles : Cardinality(Before(i)) = s - 1
  BY DEF Source, Before
<1>. QED
  BY <1>2, <1>3, <1>4

-----------------------------------------------------------------------------
(* Type correctness.                                                         *)

LEMMA ReadingTypes ==
    /\ \A i \in Interfaces : Reading(i) \in Readings /\ Reading(i) # Unread
    /\ \A r \in Readings : Older(r) \in Readings /\ Aged(r, "past") \in Readings
    /\ Unread \in Readings /\ Arbitrary \in Readings /\ Nothing \in Messages
<1>1. 0 \notin Interfaces
  BY BroadcastersAssumption DEF Interfaces
<1>2. /\ Unread \in Readings /\ Arbitrary \in Readings
      /\ \A i \in Interfaces : Reading(i) \in Readings /\ Reading(i) # Unread
  BY <1>1 DEF Readings, Reading, Unread, Arbitrary, Ages
<1>3. ASSUME NEW r \in Readings, NEW age \in Ages PROVE Aged(r, age) \in Readings
  <2>1. Unread.from = 0 /\ Arbitrary.from = 0
    BY DEF Unread, Arbitrary
  <2>. QED
    BY <1>2, <2>1 DEF Aged, Readings
<1>. QED
  BY <1>2, <1>3 DEF Older, Ages, Nothing, Messages

\* What the cycles may make of the readings.
LEMMA ReadTypes ==
    ASSUME TypeOK, NEW ok \in SUBSET Interfaces,
           \/ JointStateRead(ok) /\ broadcaster = "joint_state"
           \/ StateInterfacesRead(ok) \/ BatteryRead(ok) \/ ChainedFilterRead(ok)
    PROVE  held' \in Messages
<1>1. CASE JointStateRead(ok)
  <2>1. ASSUME NEW s \in Interfaces, \E i \in doubles \cap ok : MapIndex(i, ok) = s
        PROVE  (CHOOSE i \in doubles \cap ok : MapIndex(i, ok) = s) \in Interfaces
    BY <2>1 DEF TypeOK
  <2>. QED
    BY <1>1, <2>1, ReadingTypes DEF JointStateRead, TypeOK, Messages
<1>2. CASE StateInterfacesRead(ok)
  BY <1>2, ReadingTypes DEF StateInterfacesRead, TypeOK, Messages
<1>3. CASE BatteryRead(ok)
  BY <1>3, ReadingTypes DEF BatteryRead, TypeOK, Messages
<1>4. CASE ChainedFilterRead(ok)
  BY <1>4, ReadingTypes DEF ChainedFilterRead, TypeOK, Messages
<1>. QED
  BY <1>1, <1>2, <1>3, <1>4

LEMMA InitTypeOK == Init => TypeOK
BY ReadingTypes DEF Init, TypeOK

\* In a cycle each broadcaster reads in one of four ways, and publishes what it has read.
LEMMA CycleReads ==
    ASSUME NEW ok \in SUBSET Interfaces, NEW sent \in BOOLEAN, Update(ok, sent)
    PROVE  /\ UNCHANGED <<broadcaster, doubles, lifecycle>> /\ lifecycle = "active"
           /\ \/ broadcaster = "joint_state" /\ JointStateRead(ok)
              \/ broadcaster # "joint_state" /\ broadcaster # "battery" /\ StateInterfacesRead(ok)
              \/ broadcaster \in Sensors \cup {"battery"} /\ BatteryRead(ok)
              \/ broadcaster = "chained_filter" /\ ChainedFilterRead(ok)
           /\ message' \in {message, held'}
BY DEF Update, JointStateUpdate, StateInterfacesUpdate, update_gpios_states, BatteryUpdate,
   ForceTorqueUpdate, PoseUpdate, ImuUpdate, GpsUpdate, MagnetometerUpdate, RangeUpdate,
   ChainedFilterUpdate, SensorRead, apply_state_value, Publish, Sensors

\* A transform is that of a whole pose.
LEMMA SecondTypes ==
    ASSUME TypeOK, NEW ok \in SUBSET Interfaces, NEW sent \in BOOLEAN, Update(ok, sent)
    PROVE  second' \in (IF broadcaster = "pose" THEN {"none", "whole"} ELSE {"none", "whole", "part"})
<1>. DEFINE Kept == second' = second
            Sent == second' \in {"whole", "part"}
<1>1. CASE broadcaster = "pose"
  <2>1. PICK also \in BOOLEAN : PublishSecond(also /\ is_pose_valid(held'))
    BY <1>1 DEF Update, PoseUpdate
  <2>2. second' \in {second, "whole"}
    BY <2>1 DEF PublishSecond, is_pose_valid
  <2>. QED
    BY <1>1, <2>2 DEF TypeOK
<1>2. CASE broadcaster # "pose"
  <2>1. Kept \/ \E also \in BOOLEAN : PublishSecond(also)
    BY <1>2 DEF Update, JointStateUpdate, StateInterfacesUpdate, update_gpios_states,
       BatteryUpdate, ForceTorqueUpdate, ImuUpdate, GpsUpdate, MagnetometerUpdate,
       RangeUpdate, ChainedFilterUpdate
  <2>2. Kept \/ Sent
    BY <2>1 DEF PublishSecond
  <2>. QED
    BY <1>2, <2>2 DEF TypeOK
<1>. QED
  BY <1>1, <1>2

LEMMA NextTypeOK == TypeOK /\ [Next]_vars => TypeOK'
<1> SUFFICES ASSUME TypeOK, [Next]_vars PROVE TypeOK'
  OBVIOUS
<1>1. ASSUME NEW ok \in SUBSET Interfaces, NEW sent \in BOOLEAN, Update(ok, sent)
      PROVE  TypeOK'
  <2>1. held' \in Messages
    BY <1>1, CycleReads, ReadTypes
  <2>2. second' \in (IF broadcaster = "pose" THEN {"none", "whole"} ELSE {"none", "whole", "part"})
    BY <1>1, SecondTypes
  <2>. QED
    BY <1>1, <2>1, <2>2, CycleReads DEF TypeOK
<1>2. CASE Lifecycle
  <2>1. Nothing \in Messages /\ Past(held) \in Messages
    BY ReadingTypes DEF TypeOK, Messages, Past
  <2>2. held' \in {held, Nothing, Past(held)} /\ message' \in {message, Nothing}
        /\ second' \in {second, "none"} /\ UNCHANGED <<broadcaster, doubles>>
        /\ lifecycle' \in {"unconfigured", "inactive", "active"}
    BY <1>2 DEF Lifecycle, on_configure, on_cleanup, on_activate, on_deactivate, Cleared,
       StateInterfacesConfigure, BatteryConfigure, ForceTorqueConfigure, ImuConfigure,
       GpsConfigure, MagnetometerConfigure, PoseConfigure, RangeConfigure,
       JointStateConfigure, ChainedFilterConfigure, GpioConfigure, JointStateActivate,
       BatteryActivate, initialize_gpio_state_msg, ChainedFilterActivate,
       StateInterfacesActivate, SensorActivate, init_joint_data
  <2>. QED
    BY <2>1, <2>2 DEF TypeOK
<1>3. CASE UNCHANGED vars
  BY <1>3 DEF vars, TypeOK
<1>. QED
  BY <1>1, <1>2, <1>3 DEF Next

\* The variables keep their types, for any number of interfaces.
THEOREM TypeCorrect == Spec => []TypeOK
BY InitTypeOK, NextTypeOK, PTL DEF Spec

-----------------------------------------------------------------------------
(* Each reading in its own place.                                            *)

\* Broadcasters that do not clear their readings when they are activated.
KeepPast == Sensors \cup {"state_interfaces"}

Own(m) == \A s \in Interfaces : m[s] # Unread => MayHold(m[s], s)
Current(m) ==
    \A s \in Interfaces : m[s] # Unread =>
        /\ m[s].age = "past" => broadcaster \in KeepPast
        /\ broadcaster = "battery" => m[s].age = "new"

\* What is held is in its own place, too, and of this activation while there is one.
OwnInv ==
    /\ Own(held) /\ Own(message) /\ Current(message)
    /\ lifecycle = "active" => Current(held)

LEMMA OwnInvImplies == OwnInv => OwnReadings
BY DEF OwnInv, Own, Current, OwnReadings, KeepPast

LEMMA InitOwnInv == Init => OwnInv
BY DEF Init, OwnInv, Own, Current, Nothing

\* A reading that ages stays in its place.
LEMMA AgedReading ==
    ASSUME NEW r \in Readings
    PROVE  /\ Older(r) = Unread <=> r = Unread
           /\ Aged(r, "past") = Unread <=> r = Unread
           /\ r # Unread => /\ Older(r).from = r.from /\ Aged(r, "past").from = r.from
                            /\ Older(r).age = "past" => r.age = "past"
           /\ r = Arbitrary => Older(r) = r /\ Aged(r, "past") = r
<1>0. Arbitrary.from = 0 /\ Arbitrary.age = "new" /\ Arbitrary # Unread
  BY DEF Arbitrary, Unread
<1>1. CASE r = Unread
  BY <1>0, <1>1 DEF Older, Aged, Unread
<1>3. CASE r = Arbitrary
  BY <1>0, <1>3 DEF Older, Aged
<1>2. CASE r # Unread /\ r # Arbitrary
  <2>1. r \in [from : Interfaces, age : Ages] /\ 0 \notin Interfaces
    BY <1>2, BroadcastersAssumption DEF Readings, Interfaces
  <2>2. Unread.from = 0
    BY DEF Unread
  <2>3. r.from # 0
    BY <2>1
  <2>. QED
    BY <1>2, <2>1, <2>2, <2>3 DEF Older, Aged
<1>. QED
  BY <1>1, <1>2, <1>3

LEMMA ReadsOwn ==
    ASSUME TypeOK, OwnInv, NEW ok \in SUBSET Interfaces, lifecycle = "active",
           UNCHANGED <<broadcaster, doubles>>,
           \/ broadcaster = "joint_state" /\ JointStateRead(ok)
           \/ broadcaster # "joint_state" /\ broadcaster # "battery" /\ StateInterfacesRead(ok)
           \/ broadcaster \in Sensors \cup {"battery"} /\ BatteryRead(ok)
           \/ broadcaster = "chained_filter" /\ ChainedFilterRead(ok)
    PROVE  Own(held') /\ Current(held')
<1> SUFFICES ASSUME NEW s \in Interfaces, held'[s] # Unread
             PROVE  /\ MayHold(held'[s], s)
                    /\ held'[s].age = "past" => broadcaster \in KeepPast
                    /\ broadcaster = "battery" => held'[s].age = "new"
  BY DEF Own, Current
<1>0. held[s] \in Readings /\ doubles \subseteq Interfaces
  BY DEF TypeOK, Messages
<1>a. held[s] # Unread => /\ MayHold(held[s], s)
                          /\ held[s].age = "past" => broadcaster \in KeepPast
  BY DEF OwnInv, Own, Current
\* The place has been read, ...
<1>1. ASSUME NEW k, held'[s] = Reading(k), k = Source(s)
      PROVE  /\ MayHold(held'[s], s) /\ held'[s].age = "new"
  BY <1>1 DEF Reading, MayHold
\* ... or not.
<1>2. ASSUME held'[s] = Older(held[s])
      PROVE  /\ MayHold(held'[s], s)
             /\ held'[s].age = "past" => broadcaster \in KeepPast
  BY <1>0, <1>a, <1>2, AgedReading DEF MayHold
<1>3. CASE broadcaster = "joint_state" /\ JointStateRead(ok)
  <2>. DEFINE k == CHOOSE i \in doubles \cap ok : MapIndex(i, ok) = s
  <2>1. CASE \E i \in doubles \cap ok : MapIndex(i, ok) = s
    <3>1. k \in doubles /\ MapIndex(k, ok) = s
      BY <2>1
    <3>2. k = Source(s)
      BY <1>0, <1>3, <3>1, PlaceIsOwn
    <3>3. held'[s] = Reading(k)
      BY <1>3, <2>1 DEF JointStateRead
    <3>. QED
      BY <1>1, <1>3, <3>2, <3>3
  <2>2. CASE ~\E i \in doubles \cap ok : MapIndex(i, ok) = s
    BY <1>2, <1>3, <2>2 DEF JointStateRead
  <2>. QED
    BY <2>1, <2>2
<1>4. CASE broadcaster # "joint_state" /\ broadcaster # "battery" /\ StateInterfacesRead(ok)
  <2>1. Source(s) = s
    BY <1>4 DEF Source
  <2>. QED
    BY <1>1, <1>2, <1>4, <2>1 DEF StateInterfacesRead
<1>5. CASE broadcaster \in Sensors \cup {"battery"} /\ BatteryRead(ok)
  <2>1. Source(s) = s
    BY <1>5 DEF Source, Sensors
  <2>2. held'[s] = Reading(s)
    BY <1>5 DEF BatteryRead
  <2>. QED
    BY <1>1, <2>1, <2>2
<1>6. CASE broadcaster = "chained_filter" /\ ChainedFilterRead(ok)
  <2>1. Source(s) = s
    BY <1>6 DEF Source
  <2>2. PICK failed \in SUBSET ok :
            held' = [i \in Interfaces |->
                        IF i \in failed THEN Arbitrary
                        ELSE IF i \in ok THEN Reading(i) ELSE Older(held[i])]
    BY <1>6 DEF ChainedFilterRead
  <2>3. CASE s \in failed
    BY <1>6, <2>2, <2>3 DEF MayHold, Arbitrary
  <2>4. CASE s \notin failed
    BY <1>1, <1>2, <1>6, <2>1, <2>2, <2>4
  <2>. QED
    BY <2>3, <2>4
<1>. QED
  BY <1>3, <1>4, <1>5, <1>6

LEMMA NextOwnInv == TypeOK /\ OwnInv /\ [Next]_vars => OwnInv'
<1> SUFFICES ASSUME TypeOK, OwnInv, [Next]_vars PROVE OwnInv'
  OBVIOUS
<1>0. UNCHANGED <<broadcaster, doubles>>
  BY CycleReads DEF Next, vars, Lifecycle, on_configure, on_cleanup, on_activate, on_deactivate
\* The places stand for the same interfaces.
<1>s. ASSUME Own(held'), Own(message'), Current(message'), lifecycle' = "active" => Current(held')
      PROVE  OwnInv'
  BY <1>0, <1>s DEF OwnInv, Own, Current, MayHold, Source, KeepPast
<1>n. Own(Nothing) /\ Current(Nothing)
  BY DEF Own, Current, Nothing
<1>1. ASSUME NEW ok \in SUBSET Interfaces, NEW sent \in BOOLEAN, Update(ok, sent)
      PROVE  OwnInv'
  <2>1. Own(held') /\ Current(held')
    BY <1>1, CycleReads, ReadsOwn
  <2>2. Own(message') /\ Current(message')
    BY <1>1, <2>1, CycleReads DEF OwnInv
  <2>. QED
    BY <1>s, <2>1, <2>2
<1>2. CASE on_configure \/ on_cleanup
  <2>1. held' \in {held, Nothing} /\ message' = message /\ lifecycle' # "active"
    BY <1>2 DEF on_configure, on_cleanup, Cleared,
       StateInterfacesConfigure, BatteryConfigure, ForceTorqueConfigure, ImuConfigure,
       GpsConfigure, MagnetometerConfigure, PoseConfigure, RangeConfigure,
       JointStateConfigure, ChainedFilterConfigure, GpioConfigure
  <2>. QED
    BY <1>n, <1>s, <2>1 DEF OwnInv
<1>3. CASE on_activate
  <2>1. message' = Nothing /\ (held' = Nothing \/ (broadcaster \in KeepPast /\ held' = held))
    BY <1>3 DEF on_activate, JointStateActivate, BatteryActivate, initialize_gpio_state_msg,
       ChainedFilterActivate, StateInterfacesActivate, SensorActivate, init_joint_data,
       Cleared, KeepPast
  <2>2. broadcaster \in KeepPast => Current(held)
    BY DEF Current, KeepPast, Sensors
  <2>3. held' = Nothing \/ (held' = held /\ Current(held))
    BY <2>1, <2>2
  <2>. QED
    BY <1>n, <1>s, <2>1, <2>3 DEF OwnInv
<1>4. CASE on_deactivate
  <2>1. held' = Past(held) /\ message' = message /\ lifecycle' # "active"
    BY <1>4 DEF on_deactivate
  <2>2. ASSUME NEW s \in Interfaces, Past(held)[s] # Unread
        PROVE  MayHold(Past(held)[s], s)
    <3>1. held[s] \in Readings /\ Past(held)[s] = Aged(held[s], "past")
      BY DEF TypeOK, Messages, Past
    <3>. QED
      BY <2>2, <3>1, AgedReading DEF OwnInv, Own, MayHold
  <2>3. Own(Past(held))
    BY <2>2 DEF Own
  <2>. QED
    BY <1>s, <2>1, <2>3 DEF OwnInv
<1>5. CASE UNCHANGED vars
  BY <1>s, <1>5 DEF vars, OwnInv
<1>. QED
  BY <1>1, <1>2, <1>3, <1>4, <1>5 DEF Next, Lifecycle

\* A place of a message holds a reading of its own interface, whichever reads have failed,
\* and for the broadcasters that clear it none from before the activation; but for what
\* a filter of the chained filter leaves when it fails.
THEOREM ReadingsAreOwn == Spec => []OwnReadings
BY InitTypeOK, NextTypeOK, InitOwnInv, NextOwnInv, OwnInvImplies, PTL DEF Spec
=============================================================================
