--------------------------- MODULE MobileBase_proofs ---------------------------
(****************************************************************************)
(* Theorems about the mobile bases, for every set of bases, velocities and   *)
(* timeouts.                                                                 *)
(****************************************************************************)
EXTENDS MobileBase, TLAPS

Speeds == Velocities \cup {0, NaN}

-----------------------------------------------------------------------------
(* Type correctness.  It takes what the executor keeps in its local, and that *)
(* no base is configured while a callback is inside.                         *)

ExecutorRests ==
    /\ ex.pc # "set" => ex.msg = NoTwist
    /\ lifecycle = "unconfigured" => ex.pc = "idle"
CycleIsActive == rt # "idle" => lifecycle = "active"

\* TypeOK in two parts, of which the provers need one at a time.
FlagsTyped ==
    /\ chained \in BOOLEAN /\ subscriber_is_active \in BOOLEAN
    /\ set_odom_requested \in BOOLEAN /\ owed \in BOOLEAN
DataTyped ==
    /\ base \in Bases /\ timeout \in Timeouts
    /\ lifecycle \in {"unconfigured", "inactive", "active"}
    /\ box \in TwistType /\ command_msg \in TwistType /\ ref \in TwistType
    /\ previous \in Int \cup {NaN} /\ wheels \in Int \cup {NaN}
    /\ missed \in 0..MaxMissed
    /\ handles \in {"none", "held", "released"}
    /\ newest \in TwistType \cup {None}
    /\ rt \in {"idle", "reference", "odometry", "served", "write"}
    /\ ex \in [pc : {"idle", "set", "pose", "flag"}, msg : TwistType]

TypeInv == DataTyped /\ ExecutorRests /\ CycleIsActive

LEMMA TypeParts == TypeOK <=> FlagsTyped /\ DataTyped
BY Zenon DEF TypeOK, FlagsTyped, DataTyped

\* What is made of twists are twists, none of which is None.
LEMMA TwistTypes ==
    ASSUME timeout \in Timeouts
    PROVE  /\ \A m \in TwistType :
                  /\ Older(m) \in TwistType /\ Stale(m) \in TwistType
                  /\ Cleared(m) \in TwistType /\ [m EXCEPT !.vel = 0] \in TwistType
                  /\ m.vel \in Speeds /\ m.age \in 0..MaxAge /\ m.fresh \in BOOLEAN
           /\ NoTwist \in TwistType /\ NoRef \in TwistType /\ Brake \in TwistType
           /\ \A vel \in Speeds, age \in 0..MaxAge : Twist(vel, age) \in TwistType
           /\ timeout \in Nat /\ MaxAge \in Nat /\ MaxAge = timeout + 1
           /\ None \notin TwistType
<1>1. timeout \in Nat /\ MaxAge \in Nat /\ MaxAge = timeout + 1
  BY BaseAssumption DEF MaxAge
<1>2. ASSUME NEW m \in TwistType
      PROVE  /\ Older(m) \in TwistType /\ Stale(m) \in TwistType
             /\ Cleared(m) \in TwistType /\ [m EXCEPT !.vel = 0] \in TwistType
             /\ m.vel \in Speeds /\ m.age \in 0..MaxAge /\ m.fresh \in BOOLEAN
             /\ m # None
  <2>1. m.age \in 0..MaxAge /\ m.vel \in Speeds /\ m.fresh \in BOOLEAN
    BY DEF TwistType, Speeds
  <2>2. m \in [vel : Velocities \cup {0, NaN}, age : Nat, fresh : BOOLEAN]
    BY <1>1 DEF TwistType
  <2>3. Older(m) \in TwistType
    BY <1>1, <2>1 DEF TwistType, Older
  <2>4. Stale(m) \in TwistType /\ Cleared(m) \in TwistType /\ [m EXCEPT !.vel = 0] \in TwistType
    BY DEF TwistType, Stale, Cleared
  <2>. QED
    BY <2>1, <2>2, <2>3, <2>4, BaseAssumption
<1>3. NoTwist \in TwistType /\ NoRef \in TwistType /\ Brake \in TwistType
  BY <1>1 DEF TwistType, NoTwist, NoRef, Brake, Twist
<1>4. \A vel \in Speeds, age \in 0..MaxAge : Twist(vel, age) \in TwistType
  BY DEF TwistType, Twist, Speeds
<1>. QED
  BY <1>1, <1>2, <1>3, <1>4

LEMMA SameTimeout == timeout' = timeout => TwistType' = TwistType /\ MaxAge' = MaxAge
BY DEF TwistType, MaxAge

\* The limiter keeps whole numbers whole, and near to the last one.
LEMMA Limited ==
    ASSUME NEW v \in Int \cup {NaN}, NEW last \in Int \cup {NaN}
    PROVE  /\ Limit(v, last) \in Int \cup {NaN}
           /\ v \in Int /\ last \in Int =>
                  /\ Limit(v, last) \in Int
                  /\ Limit(v, last) - last <= Reach /\ last - Limit(v, last) <= Reach
<1>. Reach \in Nat /\ Reach > 0 /\ NaN \notin Int
  BY BaseAssumption
<1>1. CASE v = NaN \/ last = NaN
  BY <1>1 DEF Limit
<1>2. CASE v \in Int /\ last \in Int
  <2>1. NaN \notin {v, last}
    BY <1>2
  <2>2. CASE v > last + Reach
    BY <1>2, <2>1, <2>2 DEF Limit
  <2>3. CASE v < last - Reach
    BY <1>2, <2>1, <2>3 DEF Limit
  <2>4. CASE ~(v > last + Reach) /\ ~(v < last - Reach)
    BY <1>2, <2>1, <2>4 DEF Limit
  <2>. QED
    BY <2>2, <2>3, <2>4
<1>. QED
  BY <1>1, <1>2

LEMMA InitTypeInv == Init => TypeInv /\ FlagsTyped
<1> SUFFICES ASSUME Init PROVE TypeInv /\ FlagsTyped
  OBVIOUS
<1>1. NoTwist \in TwistType /\ NoRef \in TwistType
  BY TwistTypes DEF Init
<1>2. FlagsTyped
  BY Zenon DEF Init, FlagsTyped
<1>3. TypeInv
  <2>1. 0 \in 0..MaxMissed
    BY BaseAssumption
  <2>. QED
    BY <1>1, <2>1 DEF Init, TypeInv, DataTyped, ExecutorRests, CycleIsActive, ExIdle
<1>. QED
  BY <1>2, <1>3

LEMMA NextFlags == FlagsTyped /\ [Next]_vars => FlagsTyped'
<1> SUFFICES ASSUME FlagsTyped, [Next]_vars PROVE FlagsTyped'
  OBVIOUS
<1>. USE DEF FlagsTyped, config, node, drive, odom
<1>1. CASE UNCHANGED vars
  BY <1>1, Zenon DEF vars
<1>2. CASE Update
  <2>1. CASE UpdateRead \/ UpdateChained \/ UpdateReference \/ UpdateUnread \/ UpdateWrite
    BY <2>1, Zenon DEF UpdateRead, UpdateChained, UpdateReference, UpdateUnread, UpdateWrite
  <2>2. CASE UpdateOdometry
    BY <2>2, Zenon DEF UpdateOdometry
  <2>3. CASE UpdateServed
    BY <2>3, Zenon DEF UpdateServed
  <2>. QED
    BY <1>2, <2>1, <2>2, <2>3 DEF Update
<1>3. CASE Callback \/ Tick
  <2>1. ASSUME NEW m, reference_callback(m) PROVE FlagsTyped'
    BY <2>1, Zenon DEF reference_callback
  <2>2. CASE SetBox \/ set_odometry \/ SetPose \/ Tick
    BY <2>2, Zenon DEF SetBox, set_odometry, SetPose, Tick
  <2>3. CASE SetFlag \/ reset_odometry
    BY <2>3, Zenon DEF SetFlag, reset_odometry
  <2>. QED
    BY <1>3, <2>1, <2>2, <2>3 DEF Callback
<1>4. CASE Lifecycle
  <2>1. Reset => subscriber_is_active' \in BOOLEAN
    BY Zenon DEF Reset, DiffDriveReset, OmniWheelReset, SteeringReset, TricycleReset
  <2>2. CASE on_configure
    BY <2>2, Zenon DEF on_configure, DiffDriveConfigure, OmniWheelConfigure, MecanumConfigure,
       SteeringConfigure, TricycleConfigure, DiffDriveReset, OmniWheelReset, SteeringReset,
       TricycleReset
  <2>3. CASE on_cleanup \/ on_error
    BY <2>1, <2>3, Zenon DEF on_cleanup, on_error, Unconfigure, MecanumCleanup
  <2>4. CASE on_activate
    <3>1. chained' \in BOOLEAN
      BY <2>4 DEF on_activate
    <3>2. UNCHANGED <<set_odom_requested, owed>>
      BY <2>4 DEF on_activate
    <3>3. subscriber_is_active' \in BOOLEAN
      BY <2>4, Zenon DEF on_activate, DiffDriveActivate, OmniWheelActivate, MecanumActivate,
         SteeringActivate, TricycleActivate
    <3>. QED
      BY <3>1, <3>2, <3>3, Zenon
  <2>5. CASE on_deactivate
    BY <2>5, Zenon DEF on_deactivate, DiffDriveDeactivate, OmniWheelDeactivate,
       MecanumDeactivate, SteeringDeactivate, TricycleDeactivate
  <2>. QED
    BY <1>4, <2>2, <2>3, <2>4, <2>5 DEF Lifecycle
<1>. QED
  BY <1>1, <1>2, <1>3, <1>4 DEF Next

\* What the reference steps make of a message they have read.
LEMMA OutcomeTypes ==
    ASSUME DataTyped, NEW m \in TwistType
    PROVE  /\ ReferenceOf(m).ref \in TwistType
           /\ ReferenceOf(m).msg \in TwistType
<1>. DEFINE Typed(out) == out.ref \in TwistType /\ out.msg \in TwistType
<1>1. /\ Cleared(m) \in TwistType /\ [m EXCEPT !.vel = 0] \in TwistType
      /\ Brake \in TwistType /\ NoRef \in TwistType /\ ref \in TwistType
      /\ Latched(m) \in TwistType
  BY TwistTypes DEF DataTyped, Latched
<1>2. base \in AllBases /\ timeout \in Nat
  BY BaseAssumption DEF DataTyped
<1>3. Typed(DiffDriveReference(m)) /\ Typed(OmniWheelReference(m))
  BY <1>1 DEF DiffDriveReference, OmniWheelReference, Outcome
<1>4. Typed(MecanumReference(m))
  BY <1>1, <1>2 DEF MecanumReference, Outcome
<1>5. Typed(SteeringReference(m))
  BY <1>1, <1>2 DEF SteeringReference, Outcome
<1>6. Typed(TricycleReference(m))
  BY <1>1 DEF TricycleReference, Outcome
<1>. QED
  BY <1>2, <1>3, <1>4, <1>5, <1>6 DEF ReferenceOf, AllBases

LEMMA UpdateTypeInv == TypeInv /\ Update => TypeInv'
<1> SUFFICES ASSUME TypeInv, Update PROVE TypeInv'
  OBVIOUS
<1>. USE DEF TypeInv, config, node, drive, odom
<1>0. /\ timeout \in Timeouts /\ box \in TwistType /\ command_msg \in TwistType
      /\ ref \in TwistType /\ ref.vel \in Speeds
      /\ previous \in Int \cup {NaN} /\ wheels \in Int \cup {NaN}
      /\ missed \in 0..MaxMissed /\ 0 \in 0..MaxMissed
      /\ ex = [pc |-> ex.pc, msg |-> ex.msg]
  <2>1. missed \in 0..MaxMissed /\ 0 \in 0..MaxMissed
    BY BaseAssumption DEF DataTyped
  <2>. QED
    BY <2>1, TwistTypes DEF DataTyped
<1>t. timeout' = timeout /\ base' = base /\ ex' = ex /\ lifecycle' = lifecycle
      /\ newest' = newest /\ handles' = handles
  BY DEF Update, UpdateRead, UpdateChained, UpdateReference, UpdateOdometry, UpdateUnread,
     UpdateServed, UpdateWrite
<1>s. TwistType' = TwistType
  BY <1>t, SameTimeout
<1>k. ASSUME box' \in TwistType, command_msg' \in TwistType, ref' \in TwistType,
             previous' \in Int \cup {NaN}, wheels' \in Int \cup {NaN},
             missed' \in 0..MaxMissed,
             rt' \in {"idle", "reference", "odometry", "served", "write"},
             lifecycle = "active"
      PROVE  TypeInv'
  BY <1>t, <1>s, <1>k DEF DataTyped, ExecutorRests, CycleIsActive, NoTwist, Twist
<1>1. CASE UpdateRead
  <2>1. command_msg' \in {box, command_msg}
    BY <1>1 DEF UpdateRead
  <2>. QED
    BY <1>0, <1>1, <1>k, <2>1 DEF UpdateRead
<1>2. CASE UpdateChained
  <2>1. ref' \in TwistType
    BY <1>0, <1>2, TwistTypes DEF UpdateChained, Speeds
  <2>. QED
    BY <1>0, <1>2, <1>k, <2>1 DEF UpdateChained
<1>3. CASE UpdateReference
  <2>1. ref' \in TwistType /\ command_msg' \in TwistType
    BY <1>0, <1>3, OutcomeTypes DEF UpdateReference
  <2>2. box' \in {box, ReferenceOf(command_msg).msg}
    BY <1>3 DEF UpdateReference
  <2>3. box' \in TwistType
    BY <1>0, <2>2, OutcomeTypes
  <2>. QED
    BY <1>0, <1>3, <1>k, <2>1, <2>3 DEF UpdateReference, CycleIsActive
<1>4. CASE UpdateOdometry \/ UpdateServed
  BY <1>0, <1>4, <1>k DEF UpdateOdometry, UpdateServed, CycleIsActive
<1>5. CASE UpdateUnread
  <2>1. ref' \in {ref, NoRef}
    BY <1>5 DEF UpdateUnread, DiffDriveUnread, DiffDriveLimit, OmniWheelUnread,
       MecanumUnread, TricycleUnread
  <2>2. ref' \in TwistType
    BY <1>0, <2>1, TwistTypes
  <2>3. ref.vel \in Int \cup {NaN}
    BY <1>0, BaseAssumption DEF Speeds
  <2>4. Limit(ref.vel, previous) \in Int \cup {NaN}
    BY <1>0, <2>3, Limited
  <2>5. previous' \in {Limit(ref.vel, previous), previous}
        /\ missed' \in {missed, IF missed < MaxMissed THEN missed + 1 ELSE missed}
    BY <1>5 DEF UpdateUnread, DiffDriveUnread, OmniWheelUnread, MecanumUnread,
       TricycleUnread, DiffDriveLimit, Misses
  <2>6. missed' \in 0..MaxMissed
    BY <1>0, <2>5, BaseAssumption
  <2>7. previous' \in Int \cup {NaN} /\ wheels' \in Int \cup {NaN}
    BY <1>0, <1>5, <2>4, <2>5 DEF UpdateUnread
  <2>. QED
    BY <1>0, <1>5, <1>k, <2>2, <2>6, <2>7 DEF UpdateUnread, CycleIsActive
<1>6. CASE UpdateWrite
  <2>1. ref' \in {ref, NoRef}
    BY <1>6 DEF UpdateWrite, DiffDriveWrite, DiffDriveLimit, OmniWheelWrite, MecanumWrite,
       SteeringWrite,
       TricycleWrite
  <2>2. ref' \in TwistType
    BY <1>0, <2>1, TwistTypes
  <2>3. ref.vel \in Int \cup {NaN} /\ 0 \in Int
    BY <1>0, BaseAssumption DEF Speeds
  <2>4. Limit(ref.vel, previous) \in Int \cup {NaN}
    BY <1>0, <2>3, Limited
  <2>5. wheels' \in {Limit(ref.vel, previous), ref.vel, wheels, 0}
        /\ previous' \in {Limit(ref.vel, previous), previous, 0}
    BY <1>6 DEF UpdateWrite, DiffDriveWrite, DiffDriveLimit, OmniWheelWrite, MecanumWrite,
       SteeringWrite,
       TricycleWrite, Reaches
  <2>6. wheels' \in Int \cup {NaN} /\ previous' \in Int \cup {NaN}
    BY <1>0, <2>3, <2>4, <2>5
  <2>. QED
    BY <1>0, <1>6, <1>k, <2>2, <2>6 DEF UpdateWrite, CycleIsActive
<1>. QED
  BY <1>1, <1>2, <1>3, <1>4, <1>5, <1>6 DEF Update

LEMMA CallbackTypeInv == TypeInv /\ (Callback \/ Tick) => TypeInv'
<1> SUFFICES ASSUME TypeInv, Callback \/ Tick PROVE TypeInv'
  OBVIOUS
<1>. USE DEF TypeInv, config, node, drive, odom
<1>0. /\ timeout \in Timeouts /\ NoTwist \in TwistType /\ ex = [pc |-> ex.pc, msg |-> ex.msg]
  BY TwistTypes DEF DataTyped
<1>t. timeout' = timeout /\ base' = base /\ lifecycle' = lifecycle
      /\ rt' = rt /\ UNCHANGED <<previous, missed, wheels, handles>>
  BY DEF Callback, Tick, reference_callback, SetBox, set_odometry, SetPose, SetFlag, reset_odometry
<1>s. TwistType' = TwistType /\ NoTwist' = NoTwist
  BY <1>t, SameTimeout DEF NoTwist, Twist
<1>1. CASE SetBox
  BY <1>0, <1>1, <1>t, <1>s DEF SetBox, DataTyped, ExecutorRests, CycleIsActive, ExIdle
<1>2. CASE set_odometry \/ SetPose \/ SetFlag \/ reset_odometry
  BY <1>0, <1>2, <1>t, <1>s DEF set_odometry, SetPose, SetFlag, reset_odometry, ExMay,
     DataTyped, ExecutorRests, CycleIsActive, ExIdle
<1>3. ASSUME NEW vel \in Velocities \cup {NaN}, NEW age \in 0..MaxAge,
             reference_callback(Twist(vel, age))
      PROVE  TypeInv'
  <2>1. Twist(vel, age) \in TwistType
    BY <1>0, TwistTypes DEF Speeds
  <2>2. ex' = [pc |-> "set", msg |-> ex'.msg] /\ ex'.msg \in {Twist(vel, age), NoTwist}
    BY <1>0, <1>3 DEF reference_callback
  <2>. QED
    BY <1>0, <1>3, <1>t, <1>s, <2>1, <2>2 DEF reference_callback, DataTyped, ExecutorRests,
       CycleIsActive
<1>4. CASE Tick
  <2>1. /\ box' \in TwistType /\ command_msg' \in TwistType /\ ref' \in TwistType
        /\ newest' \in TwistType \cup {None}
    BY <1>0, <1>4, TwistTypes DEF Tick, DataTyped
  <2>2. ex' = [pc |-> ex.pc, msg |-> IF ex.pc = "set" THEN Older(ex.msg) ELSE ex.msg]
    BY <1>0, <1>4 DEF Tick
  <2>3. Older(ex.msg) \in TwistType
    BY <1>0, TwistTypes DEF DataTyped
  <2>. QED
    BY <1>0, <1>4, <1>t, <1>s, <2>1, <2>2, <2>3 DEF DataTyped, ExecutorRests, CycleIsActive
<1>. QED
  BY <1>1, <1>2, <1>3, <1>4 DEF Callback

\* What the transitions leave in the places of a message.
LEMMA LifecycleTypeInv == TypeInv /\ Lifecycle => TypeInv'
<1> SUFFICES ASSUME TypeInv, Lifecycle PROVE TypeInv'
  OBVIOUS
<1>. USE DEF TypeInv, config, node, drive, odom
<1>0. /\ timeout \in Nat /\ {timeout, timeout'} \subseteq Timeouts /\ timeout' \in Nat
      /\ base \in AllBases /\ base' = base /\ rt' = rt /\ rt = "idle"
      /\ ex = [pc |-> ex.pc, msg |-> ex.msg]
  <2>1. /\ timeout \in Timeouts /\ base \in AllBases /\ ex = [pc |-> ex.pc, msg |-> ex.msg]
    BY BaseAssumption DEF DataTyped
  <2>2. base' = base /\ rt' = rt /\ rt = "idle"
    BY DEF Lifecycle, on_configure, on_cleanup, on_error, on_activate, on_deactivate,
       Unconfigure, RtMay
  <2>3. timeout' \in Timeouts
    BY <2>1 DEF Lifecycle, on_configure, on_cleanup, on_error, on_activate, on_deactivate,
       Unconfigure, DiffDriveConfigure, OmniWheelConfigure, MecanumConfigure,
       SteeringConfigure, TricycleConfigure
  <2>. QED
    BY <2>1, <2>2, <2>3, BaseAssumption
<1>m. missed' \in 0..MaxMissed
  <2>1. missed \in 0..MaxMissed /\ 0 \in 0..MaxMissed
    BY BaseAssumption DEF DataTyped
  <2>2. missed' \in {missed, 0}
    BY DEF Lifecycle, on_configure, on_cleanup, on_error, on_activate, on_deactivate,
       Unconfigure
  <2>. QED
    BY <2>1, <2>2
<1>n. /\ NoTwist \in TwistType' /\ NoRef \in TwistType' /\ FirstTwist \in TwistType'
      /\ NoTwist' = NoTwist /\ NoTwist \in TwistType
  <2>1. NoTwist \in TwistType' /\ NoRef \in TwistType' /\ NoTwist \in TwistType
    BY <1>0 DEF TwistType, NoTwist, NoRef, Twist, MaxAge
  <2>2. Twist(0, timeout' + 1) \in TwistType'
    BY <1>0 DEF TwistType, Twist, MaxAge
  <2>3. NoTwist' = NoTwist
    BY DEF NoTwist, Twist
  <2>. QED
    BY <2>1, <2>2, <2>3 DEF FirstTwist
<1>f. Forget => /\ box' \in TwistType' /\ command_msg' \in TwistType'
                /\ newest' \in TwistType' \cup {None}
  BY <1>n DEF Forget
<1>r. Reset => /\ box' \in TwistType' /\ command_msg' \in TwistType'
               /\ newest' \in TwistType' \cup {None} /\ ref' \in TwistType'
               /\ previous' \in Int \cup {NaN}
  BY <1>f, <1>n DEF Reset, DiffDriveReset, OmniWheelReset, SteeringReset, TricycleReset,
     DiffDriveResetBuffers, OmniWheelResetBuffers, DataTyped
<1>k. ASSUME UNCHANGED <<timeout, box, command_msg, ref, newest>>
      PROVE  /\ box' \in TwistType' /\ command_msg' \in TwistType' /\ ref' \in TwistType'
             /\ newest' \in TwistType' \cup {None}
  BY <1>k, SameTimeout DEF DataTyped
<1>1. CASE on_configure
  <2>1. /\ ex.pc = "idle" /\ ex' = ex /\ ex.msg = NoTwist
        /\ UNCHANGED <<wheels>> /\ handles' = "none" /\ lifecycle' = "inactive"
    BY <1>1 DEF on_configure, ExecutorRests
  <2>2. /\ box' \in TwistType' /\ command_msg' \in TwistType'
        /\ newest' \in TwistType' \cup {None} /\ ref' \in TwistType'
        /\ previous' \in Int \cup {NaN}
    BY <1>1, <1>f, <1>n DEF on_configure, DiffDriveConfigure, OmniWheelConfigure,
       MecanumConfigure, SteeringConfigure, TricycleConfigure, DiffDriveReset, OmniWheelReset,
       SteeringReset, TricycleReset, DiffDriveResetBuffers, OmniWheelResetBuffers,
       MecanumResetBuffers, DataTyped
  <2>. QED
    BY <1>0, <1>m, <1>n, <2>1, <2>2 DEF DataTyped, ExecutorRests, CycleIsActive
<1>2. CASE on_cleanup \/ on_error
  <2>1. /\ ex.pc = "idle" /\ ex' = ex /\ ex.msg = NoTwist /\ timeout' = timeout
        /\ UNCHANGED <<wheels>> /\ handles' = "none" /\ lifecycle' = "unconfigured"
    BY <1>2 DEF on_cleanup, on_error, Unconfigure, ExecutorRests
  <2>2. /\ box' \in TwistType' /\ command_msg' \in TwistType'
        /\ newest' \in TwistType' \cup {None} /\ ref' \in TwistType'
        /\ previous' \in Int \cup {NaN}
    BY <1>2, <1>r, <1>k, <2>1 DEF on_cleanup, on_error, MecanumCleanup, DataTyped
  <2>. QED
    BY <1>0, <1>m, <1>n, <2>1, <2>2 DEF DataTyped, ExecutorRests, CycleIsActive
<1>3. CASE on_activate
  <2>1. /\ timeout' = timeout /\ TwistType' = TwistType /\ wheels' = wheels
        /\ lifecycle' = "active"
    BY <1>3, SameTimeout DEF on_activate
  <2>2. /\ Stale(box) \in TwistType /\ Stale(command_msg) \in TwistType
        /\ Stale(ref) \in TwistType /\ Stale(ex.msg) \in TwistType
    BY <1>0, TwistTypes DEF DataTyped
  <2>3. handles' \in {"none", "held", "released"}
    BY <1>3 DEF on_activate, TricycleActivate, DataTyped
  <2>4. /\ box' \in {box, Stale(box), NoTwist, FirstTwist}
        /\ command_msg' \in {command_msg, Stale(command_msg), NoTwist, FirstTwist}
        /\ ref' \in {ref, Stale(ref), NoRef}
        /\ newest' \in {newest, None} /\ previous' \in {previous, 0}
    BY <1>3 DEF on_activate, DiffDriveActivate, OmniWheelActivate, MecanumActivate,
       SteeringActivate, TricycleActivate, Keep, MecanumResetBuffers, Forget
  <2>5. /\ box' \in TwistType /\ command_msg' \in TwistType /\ ref' \in TwistType
        /\ newest' \in TwistType \cup {None} /\ previous' \in Int \cup {NaN}
    BY <1>n, <2>1, <2>2, <2>4 DEF DataTyped
  <2>6. ex' = [pc |-> ex.pc, msg |-> ex'.msg] /\ ex'.msg \in {ex.msg, Stale(ex.msg)}
        /\ (ex.pc # "set" => ex' = ex)
    BY <1>0, <1>3 DEF on_activate
  <2>7. ex' \in [pc : {"idle", "set", "pose", "flag"}, msg : TwistType]
    BY <2>2, <2>6 DEF DataTyped
  <2>. QED
    BY <1>0, <1>m, <1>n, <2>1, <2>3, <2>5, <2>6, <2>7 DEF DataTyped, ExecutorRests, CycleIsActive
<1>4. CASE on_deactivate
  <2>1. timeout' = timeout /\ TwistType' = TwistType /\ ex' = ex /\ lifecycle' = "inactive"
    BY <1>4, SameTimeout DEF on_deactivate
  <2>2. /\ box' \in {box, FirstTwist} /\ command_msg' \in {command_msg, FirstTwist}
        /\ ref' \in {ref, NoRef} /\ newest' \in {newest, None} /\ previous' \in {previous, 0}
        /\ wheels' \in {wheels, 0, NaN} /\ handles' \in {handles, "released"}
    BY <1>4 DEF on_deactivate, DiffDriveDeactivate, OmniWheelDeactivate, MecanumDeactivate,
       SteeringDeactivate, TricycleDeactivate, DiffDriveResetBuffers, OmniWheelResetBuffers,
       MecanumResetBuffers, Forget, Reaches
  <2>. QED
    BY <1>0, <1>m, <1>n, <2>1, <2>2 DEF DataTyped, ExecutorRests, CycleIsActive
<1>. QED
  BY <1>1, <1>2, <1>3, <1>4 DEF Lifecycle

LEMMA NextTypeInv == TypeInv /\ [Next]_vars => TypeInv'
<1> SUFFICES ASSUME TypeInv, UNCHANGED vars PROVE TypeInv'
  BY UpdateTypeInv, CallbackTypeInv, LifecycleTypeInv DEF Next
<1>. QED
  BY SameTimeout DEF vars, config, node, drive, odom, TypeInv, DataTyped, ExecutorRests,
     CycleIsActive, NoTwist, Twist

\* The variables keep their types, however the two threads interleave.
THEOREM TypeCorrect == Spec => []TypeOK
<1>1. TypeInv /\ FlagsTyped => TypeOK
  BY TypeParts DEF TypeInv
<1>. QED
  BY <1>1, InitTypeInv, NextTypeInv, NextFlags, PTL DEF Spec

-----------------------------------------------------------------------------
(* The timeout, with both threads.                                           *)

UseOnce == {"mecanum", "steering", "tricycle"}

\* Three bases use a reference in one cycle: none is left for the next one.  It takes
\* that a cycle of mecanum reads its feedback, or else its reference stays.
ReferenceIsUsed == base \in UseOnce /\ rt \in {"idle", "reference"} => ~Moving(ref)
TimeoutInv == ReferenceIsUsed /\ ReferenceTimesOut

LEMMA NotMoving == ~Moving(NoRef) /\ ~Moving(NoTwist) /\ ~Moving(Brake) /\ ~Moving(FirstTwist)
<1>1. NaN \notin Velocities /\ 0 \notin Velocities
  <2>1. Velocities \subseteq Nat \ {0} /\ NaN \notin Int
    BY BaseAssumption
  <2>2. \A v \in Nat : v \in Int
    OBVIOUS
  <2>. QED
    BY <2>1, <2>2
<1>2. NoRef.vel = NaN /\ NoTwist.vel = NaN /\ Brake.vel = 0 /\ FirstTwist.vel \in {0, NaN}
  BY DEF NoRef, NoTwist, Brake, Twist, FirstTwist
<1>. QED
  BY <1>1, <1>2 DEF Moving

\* Aging and marking keep the velocity of a message.
LEMMA KeptVelocity ==
    ASSUME timeout \in Timeouts, NEW m \in TwistType
    PROVE  /\ Older(m).vel = m.vel /\ Stale(m).vel = m.vel /\ Older(m).fresh = m.fresh
           /\ Stale(m).age = m.age /\ Cleared(m).vel = NaN /\ Cleared(m).age = m.age
BY DEF Older, Stale, Cleared, TwistType

LEMMA InitTimeoutInv == Init => TimeoutInv
BY NotMoving DEF Init, TimeoutInv, ReferenceIsUsed, ReferenceTimesOut, TimesOut

\* A step of the topic gives these bases a reference in time, or none that moves.
LEMMA ReferenceInTime ==
    ASSUME TypeInv, base \in UseOnce, ~Moving(ref), UpdateReference
    PROVE  timeout # 0 /\ Moving(ref') => ref'.age <= timeout
<1>1. /\ command_msg \in TwistType /\ command_msg.age \in Nat /\ timeout \in Nat
      /\ ref' = ReferenceOf(command_msg).ref
  <2>1. command_msg \in TwistType /\ timeout \in Timeouts
        /\ ref' = ReferenceOf(command_msg).ref
    BY DEF TypeInv, DataTyped, UpdateReference
  <2>2. command_msg.age \in 0..MaxAge /\ MaxAge \in Nat /\ timeout \in Nat
    BY <2>1, TwistTypes
  <2>. QED
    BY <2>1, <2>2
<1>. USE NotMoving DEF Expired, Outcome, Moving, ReferenceOf
<1>2. CASE base = "mecanum"
  BY <1>1, <1>2 DEF MecanumReference
<1>3. CASE base = "steering"
  BY <1>1, <1>3 DEF SteeringReference
<1>4. CASE base = "tricycle"
  <2>1. 0 \notin Velocities
    BY BaseAssumption
  <2>2. CASE Expired(command_msg)
    <3>1. ref'.vel = 0
      BY <1>1, <1>4, <2>2 DEF TricycleReference, TwistType
    <3>. QED
      BY <2>1, <3>1
  <2>3. CASE ~Expired(command_msg)
    BY <1>1, <1>4, <2>3 DEF TricycleReference
  <2>. QED
    BY <2>2, <2>3
<1>. QED
  BY <1>2, <1>3, <1>4 DEF UseOnce

LEMMA NextTimeoutInv ==
    ASSUME "mecanum" \notin Unreadable, TypeInv, TimeoutInv, [Next]_vars
    PROVE  TimeoutInv'
<1>. USE DEF TimeoutInv, ReferenceIsUsed, ReferenceTimesOut, TimesOut, Moving,
             config, node, drive, odom
<1>0. /\ timeout \in Timeouts /\ base' = base /\ ref \in TwistType
      /\ rt \in {"idle", "reference", "odometry", "served", "write"}
  BY DEF TypeInv, DataTyped, Next, Update, Lifecycle, Callback, vars, UpdateRead,
     UpdateChained, UpdateReference, UpdateOdometry, UpdateUnread, UpdateServed, UpdateWrite,
     Tick, reference_callback, SetBox, set_odometry, SetPose, SetFlag, reset_odometry,
     on_configure, on_cleanup, on_error, on_activate, on_deactivate, Unconfigure
<1>1. CASE UpdateRead
  BY <1>0, <1>1 DEF UpdateRead, RtMay
<1>2. CASE UpdateChained
  BY <1>0, <1>2 DEF UpdateChained
<1>3. CASE UpdateReference
  <2>1. base \in UseOnce => (timeout # 0 /\ Moving(ref') => ref'.age <= timeout)
    BY <1>0, <1>3, ReferenceInTime DEF UpdateReference
  <2>2. rt' = "odometry" /\ UNCHANGED <<timeout, chained>>
    BY <1>3 DEF UpdateReference
  <2>. QED
    BY <1>0, <2>1, <2>2 DEF UseOnce
<1>4. CASE UpdateOdometry \/ UpdateServed
  <2>1. /\ UNCHANGED <<ref, timeout, chained>> /\ rt' \in {"idle", "served", "write"}
        /\ rt' = "idle" => Returns
    BY <1>4 DEF UpdateOdometry, UpdateServed
  <2>. QED
    BY <1>0, <2>1 DEF UseOnce, Returns
<1>5. CASE UpdateUnread
  <2>1. rt' = "idle" /\ (base \in UseOnce => ref' = NoRef)
    BY <1>5 DEF UpdateUnread, TricycleUnread, UseOnce
  <2>. QED
    BY <1>0, <2>1, NotMoving
<1>6. CASE UpdateWrite
  <2>1. rt' = "idle" /\ (base \in UseOnce => ref' = NoRef)
    BY <1>6 DEF UpdateWrite, DiffDriveWrite, DiffDriveLimit, OmniWheelWrite, MecanumWrite,
       SteeringWrite,
       TricycleWrite, UseOnce
  <2>. QED
    BY <1>0, <2>1, NotMoving
<1>7. CASE Lifecycle
  <2>1. rt = "idle" /\ rt' = "idle"
    BY <1>7 DEF Lifecycle, on_configure, on_cleanup, on_error, on_activate, on_deactivate,
       Unconfigure, RtMay
  <2>2. ref' \in {ref, Stale(ref), NoRef}
    BY <1>7 DEF Lifecycle, on_configure, on_cleanup, on_error, on_activate, on_deactivate,
       Reset, DiffDriveConfigure, OmniWheelConfigure, MecanumConfigure, SteeringConfigure,
       TricycleConfigure, DiffDriveReset, OmniWheelReset, SteeringReset, TricycleReset,
       DiffDriveResetBuffers, OmniWheelResetBuffers, MecanumResetBuffers, MecanumCleanup,
       DiffDriveActivate, OmniWheelActivate, MecanumActivate, SteeringActivate,
       TricycleActivate, Keep, DiffDriveDeactivate, OmniWheelDeactivate, MecanumDeactivate,
       SteeringDeactivate, TricycleDeactivate
  <2>3. Stale(ref).vel = ref.vel
    BY <1>0, KeptVelocity
  <2>. QED
    BY <1>0, <2>1, <2>2, <2>3, NotMoving
<1>8. CASE Callback
  BY <1>0, <1>8 DEF Callback, reference_callback, SetBox, set_odometry, SetPose, SetFlag,
     reset_odometry
<1>9. CASE Tick
  <2>1. rt = "idle" /\ rt' = "idle" /\ ref' \in {ref, Older(ref)}
    BY <1>9 DEF Tick
  <2>2. Older(ref).vel = ref.vel
    BY <1>0, KeptVelocity
  <2>. QED
    BY <1>0, <2>1, <2>2
<1>10. CASE UNCHANGED vars
  BY <1>0, <1>10 DEF vars
<1>. QED
  BY <1>1, <1>2, <1>3, <1>4, <1>5, <1>6, <1>7, <1>8, <1>9, <1>10 DEF Next, Update

\* No cycle of mecanum, steering or tricycle commands a reference of the topic that is
\* older than the timeout, whatever the callbacks do in between and whichever attempt
\* to lock a box fails.
THEOREM ReferencesTimeOut ==
    "mecanum" \notin Unreadable => (Spec => []ReferenceTimesOut)
<1> SUFFICES ASSUME "mecanum" \notin Unreadable PROVE Spec => []ReferenceTimesOut
  OBVIOUS
<1>1. TypeInv /\ TimeoutInv /\ [Next]_vars => TimeoutInv'
  BY NextTimeoutInv
<1>2. TimeoutInv => ReferenceTimesOut
  BY DEF TimeoutInv
<1>. QED
  BY <1>1, <1>2, InitTypeInv, NextTypeInv, InitTimeoutInv, PTL DEF Spec

-----------------------------------------------------------------------------
(* References of earlier activations, when handlers do not overlap.          *)

OneHandler == rt = "idle" \/ ex.pc = "idle"

Fresh(m) == Moving(m) => m.fresh

\* While a base is active all it may still command has arrived since its activation.
ActiveFresh ==
    lifecycle = "active" /\ base # "tricycle" =>
        Fresh(box) /\ Fresh(command_msg) /\ Fresh(ref) /\ Fresh(ex.msg)

\* The bases that keep their buffers over an activation have emptied them before, and
\* take no messages until then.
NothingWaits ==
    lifecycle # "active" /\ base \in KeepsReference =>
        /\ ~Moving(box) /\ ~Moving(command_msg) /\ ~Moving(ref)
        /\ ~subscriber_is_active /\ ex.pc # "set"

FreshInv == OneHandler /\ ActiveFresh /\ NothingWaits

LEMMA InitFreshInv == Init => FreshInv
BY NotMoving DEF Init, FreshInv, OneHandler, ActiveFresh, NothingWaits, Fresh, ExIdle

LEMMA FreshTwists ==
    /\ Fresh(NoTwist) /\ Fresh(NoRef) /\ Fresh(Brake) /\ Fresh(FirstTwist)
    /\ \A vel, age : Twist(vel, age).fresh
BY NotMoving DEF Fresh, Twist

LEMMA DerivedFresh ==
    ASSUME timeout \in Timeouts, NEW m \in TwistType, Fresh(m)
    PROVE  /\ Fresh(Older(m)) /\ Fresh(Cleared(m)) /\ Fresh([m EXCEPT !.vel = 0])
           /\ ~Moving(m) => ~Moving(Older(m)) /\ ~Moving(Stale(m)) /\ Fresh(Stale(m))
<1>1. NaN \notin Velocities /\ 0 \notin Velocities
  BY NotMoving DEF Moving, NoRef, Brake
<1>. QED
  BY <1>1 DEF Fresh, Moving, Older, Cleared, Stale, TwistType

\* A step of the topic makes nothing of an earlier activation of what is not.
LEMMA OutcomeFresh ==
    ASSUME TypeInv, Fresh(command_msg), Fresh(ref)
    PROVE  Fresh(ReferenceOf(command_msg).ref) /\ Fresh(ReferenceOf(command_msg).msg)
<1>. DEFINE Ok(out) == Fresh(out.ref) /\ Fresh(out.msg)
            m == command_msg
<1>1. /\ m \in TwistType /\ timeout \in Timeouts /\ base \in AllBases
      /\ timeout \in Nat
  BY BaseAssumption DEF TypeInv, DataTyped
<1>2. /\ Fresh(m) /\ Fresh(Cleared(m)) /\ Fresh([m EXCEPT !.vel = 0])
      /\ Fresh(Brake) /\ Fresh(NoRef) /\ Fresh(ref) /\ Fresh(Latched(m))
  BY <1>1, FreshTwists, DerivedFresh DEF Latched
<1>3. Ok(DiffDriveReference(m)) /\ Ok(OmniWheelReference(m))
  BY <1>2 DEF DiffDriveReference, OmniWheelReference, Outcome
<1>4. Ok(MecanumReference(m))
  BY <1>1, <1>2 DEF MecanumReference, Outcome
<1>5. Ok(SteeringReference(m))
  BY <1>1, <1>2 DEF SteeringReference, Outcome
<1>6. Ok(TricycleReference(m))
  BY <1>2 DEF TricycleReference, Outcome
<1>. QED
  BY <1>1, <1>3, <1>4, <1>5, <1>6 DEF ReferenceOf, AllBases

LEMMA NextOneHandler == Overlap = FALSE /\ OneHandler /\ [Next]_vars => OneHandler'
<1> SUFFICES ASSUME Overlap = FALSE, OneHandler, [Next]_vars PROVE OneHandler'
  OBVIOUS
<1>. USE DEF OneHandler
<1>1. CASE Update
  <2>1. ex' = ex
    BY <1>1 DEF Update, UpdateRead, UpdateChained, UpdateReference, UpdateOdometry,
       UpdateUnread, UpdateServed, UpdateWrite
  <2>2. rt = "idle" => ex.pc = "idle"
    BY <1>1 DEF Update, UpdateRead, UpdateChained, UpdateReference, UpdateOdometry,
       UpdateUnread, UpdateServed, UpdateWrite, RtMay
  <2>. QED
    BY <2>1, <2>2
<1>2. CASE Lifecycle \/ Tick
  BY <1>2 DEF Lifecycle, on_configure, on_cleanup, on_error, on_activate, on_deactivate,
     Unconfigure, RtMay, Tick
<1>3. CASE Callback
  <2>1. rt' = rt /\ (rt = "idle" \/ ex' = ex \/ ex'.pc = "idle")
    BY <1>3 DEF Callback, reference_callback, SetBox, set_odometry, SetPose, SetFlag,
       reset_odometry, ExMay, ExIdle
  <2>. QED
    BY <2>1, <1>3 DEF Callback, reference_callback, SetBox, set_odometry, SetPose, SetFlag,
       reset_odometry, ExMay, ExIdle
<1>4. CASE UNCHANGED vars
  BY <1>4 DEF vars
<1>. QED
  BY <1>1, <1>2, <1>3, <1>4 DEF Next

LEMMA NextFreshInv ==
    ASSUME Overlap = FALSE, "mecanum" \notin Unreadable, TypeInv, ReferenceIsUsed, FreshInv,
           [Next]_vars
    PROVE  FreshInv'
<1>. USE DEF FreshInv, ActiveFresh, NothingWaits, config, node, drive, odom
<1>0. /\ timeout \in Timeouts /\ base \in AllBases /\ box \in TwistType
      /\ command_msg \in TwistType /\ ref \in TwistType
      /\ ex = [pc |-> ex.pc, msg |-> ex.msg] /\ ex.msg \in TwistType
  BY BaseAssumption DEF TypeInv, DataTyped
<1>h. OneHandler'
  BY NextOneHandler
<1>f. /\ Fresh(NoTwist) /\ Fresh(NoRef) /\ Fresh(Brake) /\ Fresh(FirstTwist)
      /\ ~Moving(NoRef) /\ ~Moving(NoTwist) /\ ~Moving(Brake) /\ ~Moving(FirstTwist)
  BY FreshTwists, NotMoving
<1>1. CASE Update
  <2>1. lifecycle = "active" /\ UNCHANGED <<lifecycle, base, subscriber_is_active, ex>>
    BY <1>1 DEF TypeInv, CycleIsActive, Update, UpdateRead, UpdateChained, UpdateReference,
       UpdateOdometry, UpdateUnread, UpdateServed, UpdateWrite, RtMay
  <2> SUFFICES ASSUME base # "tricycle" PROVE Fresh(box') /\ Fresh(command_msg') /\ Fresh(ref')
    BY <1>0, <1>h, <2>1 DEF Fresh, Moving
  <2>2. Fresh(box) /\ Fresh(command_msg) /\ Fresh(ref)
    BY <2>1
  <2>3. CASE UpdateRead
    BY <2>2, <2>3 DEF UpdateRead
  <2>4. CASE UpdateChained
    BY <2>2, <2>4, FreshTwists DEF UpdateChained, Fresh
  <2>5. CASE UpdateReference
    <3>1. /\ ref' = ReferenceOf(command_msg).ref /\ command_msg' = ReferenceOf(command_msg).msg
          /\ box' \in {box, ReferenceOf(command_msg).msg}
      BY <2>5 DEF UpdateReference
    <3>. QED
      BY <2>2, <3>1, OutcomeFresh
  <2>6. CASE UpdateOdometry \/ UpdateServed
    BY <2>2, <2>6 DEF UpdateOdometry, UpdateServed
  <2>7. CASE UpdateUnread
    BY <1>f, <2>2, <2>7 DEF UpdateUnread, DiffDriveUnread, DiffDriveLimit, OmniWheelUnread, MecanumUnread,
       TricycleUnread
  <2>8. CASE UpdateWrite
    BY <1>f, <2>2, <2>8 DEF UpdateWrite, DiffDriveWrite, DiffDriveLimit, OmniWheelWrite, MecanumWrite,
       SteeringWrite, TricycleWrite
  <2>. QED
    BY <1>1, <2>3, <2>4, <2>5, <2>6, <2>7, <2>8 DEF Update
<1>2. CASE on_configure \/ on_cleanup \/ on_error
  <2>1. /\ lifecycle' # "active" /\ ex.pc = "idle" /\ ex' = ex /\ base' = base
    BY <1>2 DEF on_configure, on_cleanup, on_error, Unconfigure, TypeInv, ExecutorRests
  <2>2. base \in KeepsReference =>
            /\ box' = FirstTwist /\ command_msg' = FirstTwist /\ ref' = NoRef
            /\ subscriber_is_active' = FALSE
    BY <1>2 DEF on_configure, on_cleanup, on_error, Reset, DiffDriveConfigure,
       OmniWheelConfigure, DiffDriveReset, OmniWheelReset, DiffDriveResetBuffers,
       OmniWheelResetBuffers, Forget, KeepsReference
  <2>. QED
    BY <1>f, <1>h, <2>1, <2>2 DEF Moving
<1>3. CASE on_activate
  <2>1. /\ rt = "idle" /\ ex.pc = "idle" /\ ex' = ex /\ ex.msg = NoTwist /\ base' = base
        /\ lifecycle = "inactive" /\ lifecycle' = "active"
    BY <1>3 DEF on_activate, RtMay, TypeInv, ExecutorRests
  <2>2. CASE base \in KeepsReference
    <3>1. ~Moving(box) /\ ~Moving(command_msg) /\ ~Moving(ref)
      BY <2>1, <2>2
    <3>2. box' = Stale(box) /\ command_msg' = Stale(command_msg) /\ ref' = Stale(ref)
      BY <1>3, <2>2 DEF on_activate, DiffDriveActivate, OmniWheelActivate, Keep, KeepsReference
    <3>3. Fresh(Stale(box)) /\ Fresh(Stale(command_msg)) /\ Fresh(Stale(ref))
      BY <1>0, <3>1, DerivedFresh DEF Fresh
    <3>. QED
      BY <1>f, <1>h, <2>1, <3>2, <3>3 DEF Fresh, Moving
  <2>3. CASE base = "mecanum"
    BY <1>3, <1>f, <1>h, <2>1, <2>3 DEF on_activate, MecanumActivate, MecanumResetBuffers,
       Forget, Fresh, Moving
  <2>4. CASE base = "steering"
    <3>1. box' = NoTwist /\ command_msg' = NoTwist /\ ref' = Stale(ref)
      BY <1>3, <2>1, <2>4 DEF on_activate, SteeringActivate, Attempts
    <3>2. ~Moving(ref)
      BY <2>1, <2>4 DEF ReferenceIsUsed, UseOnce
    <3>3. Fresh(Stale(ref))
      BY <1>0, <3>2, DerivedFresh DEF Fresh
    <3>. QED
      BY <1>f, <1>h, <2>1, <3>1, <3>3 DEF Fresh, Moving
  <2>5. CASE base = "tricycle"
    BY <1>h, <2>1, <2>5 DEF KeepsReference
  <2>. QED
    BY <1>0, <2>2, <2>3, <2>4, <2>5 DEF AllBases, KeepsReference
<1>4. CASE on_deactivate
  <2>1. /\ lifecycle' = "inactive" /\ ex.pc = "idle" /\ ex' = ex /\ base' = base
    BY <1>4 DEF on_deactivate, RtMay
  <2>2. base \in KeepsReference =>
            /\ box' = FirstTwist /\ command_msg' = FirstTwist /\ ref' = NoRef
            /\ subscriber_is_active' = FALSE
    BY <1>4 DEF on_deactivate, DiffDriveDeactivate, OmniWheelDeactivate,
       DiffDriveResetBuffers, OmniWheelResetBuffers, Forget, KeepsReference
  <2>. QED
    BY <1>f, <1>h, <2>1, <2>2 DEF Moving
<1>5. CASE Callback
  <2>0. UNCHANGED <<lifecycle, base, subscriber_is_active, command_msg, ref>>
    BY <1>5 DEF Callback, reference_callback, SetBox, set_odometry, SetPose, SetFlag,
       reset_odometry
  <2>1. ASSUME NEW vel \in Velocities \cup {NaN}, NEW age \in 0..MaxAge,
               reference_callback(Twist(vel, age))
        PROVE  FreshInv'
    <3>1. ex'.msg \in {Twist(vel, age), NoTwist} /\ box' = box
      BY <1>0, <2>1 DEF reference_callback
    <3>2. Fresh(ex'.msg)
      BY <1>f, <3>1, FreshTwists DEF Fresh
    <3>3. base \in KeepsReference => subscriber_is_active
      BY <2>1 DEF reference_callback, Takes, DiffDriveTakes, OmniWheelTakes, KeepsReference
    <3>. QED
      BY <1>h, <2>0, <3>1, <3>2, <3>3 DEF Fresh, Moving
  <2>2. CASE SetBox
    BY <1>0, <1>f, <1>h, <2>0, <2>2 DEF SetBox, ExIdle, Fresh, Moving
  <2>3. CASE set_odometry \/ SetPose \/ SetFlag \/ reset_odometry
    <3>1. box' = box /\ ex'.msg \in {ex.msg, NoTwist} /\ (ex'.pc = "set" => ex.pc = "set")
      BY <1>0, <2>3 DEF set_odometry, SetPose, SetFlag, reset_odometry, ExIdle
    <3>. QED
      BY <1>f, <1>h, <2>0, <3>1 DEF Fresh, Moving
  <2>. QED
    BY <1>5, <2>1, <2>2, <2>3 DEF Callback
<1>6. CASE Tick
  <2>1. /\ UNCHANGED <<lifecycle, base, subscriber_is_active>>
        /\ box' = Older(box) /\ command_msg' = Older(command_msg)
        /\ ref' \in {ref, Older(ref)}
        /\ ex'.pc = ex.pc /\ ex'.msg \in {ex.msg, Older(ex.msg)}
    BY <1>0, <1>6 DEF Tick
  <2>2. ASSUME NEW m \in TwistType
        PROVE  (Fresh(m) => Fresh(Older(m))) /\ (~Moving(m) => ~Moving(Older(m)))
    BY <1>0, KeptVelocity DEF Fresh, Moving
  <2>. QED
    BY <1>0, <1>h, <2>1, <2>2 DEF Fresh, Moving
<1>7. CASE UNCHANGED vars
  BY <1>h, <1>7 DEF vars, Fresh, Moving
<1>. QED
  BY <1>1, <1>2, <1>3, <1>4, <1>5, <1>6, <1>7 DEF Next, Lifecycle

\* What a cycle hands to the wheels has arrived since the activation.
THEOREM NothingStaleIsCommanded ==
    Overlap = FALSE /\ "mecanum" \notin Unreadable => (Spec => []CommandsFresh)
<1> SUFFICES ASSUME Overlap = FALSE, "mecanum" \notin Unreadable PROVE Spec => []CommandsFresh
  OBVIOUS
<1>1. TypeInv /\ TimeoutInv /\ [Next]_vars => TimeoutInv'
  BY NextTimeoutInv
<1>2. TypeInv /\ TimeoutInv /\ FreshInv /\ [Next]_vars => FreshInv'
  BY NextFreshInv DEF TimeoutInv
<1>3. TypeInv /\ FreshInv => CommandsFresh
  BY DEF TypeInv, CycleIsActive, FreshInv, ActiveFresh, Fresh, CommandsFresh
<1>. QED
  BY <1>1, <1>2, <1>3, InitTypeInv, NextTypeInv, InitTimeoutInv, InitFreshInv, PTL DEF Spec

-----------------------------------------------------------------------------
(* The newest message, when handlers do not overlap.                         *)

\* What a cycle makes of a message when it has used it, or when it is expired.
Dropped(m) ==
    \/ base \in {"mecanum", "steering"} /\ m.vel = NaN /\ (timeout = 0 \/ Expired(newest))
    \/ base = "tricycle" /\ m.vel = 0 /\ Expired(newest)

\* The box holds the newest message, unless a cycle has dropped it.
BoxIsNewest ==
    /\ newest = None => ~Moving(box)
    /\ newest # None => box.age = newest.age /\ (box.vel = newest.vel \/ Dropped(box))

\* A cycle of the topic works on what is in the box; two bases latch nothing else.
CopyIsBox == rt = "reference" => command_msg = box /\ ~chained
LatchedIsOfTopic == base \in KeepsReference /\ ~chained /\ newest = None => ~Moving(ref)

NewestInv == BoxIsNewest /\ CopyIsBox /\ LatchedIsOfTopic /\ CommandsNewest /\ UsedOnce

LEMMA InitNewestInv == Init => NewestInv
BY NotMoving DEF Init, NewestInv, BoxIsNewest, CopyIsBox, LatchedIsOfTopic, CommandsNewest,
   UsedOnce

\* What a step of the topic hands to the wheels, and what it leaves in the box.
LEMMA ReferenceIsNewest ==
    ASSUME Overlap = FALSE, TypeInv, OneHandler, ReferenceIsUsed, NewestInv, ~chained,
           UpdateReference
    PROVE  /\ BoxIsNewest' /\ LatchedIsOfTopic'
           /\ Moving(ref') => newest # None
           /\ Moving(ref') /\ ref'.vel # newest.vel
                  => base \in KeepsReference /\ ~Finite(newest)
           /\ newest # None /\ Finite(newest) /\ ~Expired(newest) /\ timeout # 0
                  => ref'.vel = newest.vel
           /\ timeout = 0 /\ base \in {"mecanum", "steering"} /\ Moving(ref')
                  => ~Finite(box') /\ ~Finite(command_msg')
<1>1. /\ command_msg = box /\ rt = "reference"
      /\ UNCHANGED <<base, timeout, newest, chained>>
  BY DEF UpdateReference, config, node, NewestInv, CopyIsBox
<1>2. /\ box \in TwistType /\ timeout \in Nat /\ base \in AllBases
      /\ newest # None => newest \in TwistType
  BY BaseAssumption DEF TypeInv, DataTyped
<1>3. /\ ref' = ReferenceOf(box).ref /\ command_msg' = ReferenceOf(box).msg
      /\ box' = IF ReferenceOf(box).back THEN ReferenceOf(box).msg ELSE box
  <2>1. ex.pc # "set"
    BY <1>1 DEF OneHandler
  <2>. QED
    BY <1>1, <2>1 DEF UpdateReference, Attempts
<1>c. Cleared(box).vel = NaN /\ Cleared(box).age = box.age
      /\ [box EXCEPT !.vel = 0].vel = 0 /\ [box EXCEPT !.vel = 0].age = box.age
  BY <1>2 DEF Cleared, TwistType
<1>n. NaN \notin Velocities /\ 0 \notin Velocities
  BY NotMoving DEF NoRef, Brake, Moving
<1>b. /\ newest = None => box.vel \notin Velocities
      /\ newest # None => box.age = newest.age /\ (box.vel = newest.vel \/ Dropped(box))
      /\ newest # None => (Expired(box) <=> Expired(newest))
  BY DEF NewestInv, BoxIsNewest, Moving, Expired
<1>l. base \in KeepsReference /\ newest = None => ~Moving(ref)
  BY DEF NewestInv, LatchedIsOfTopic
<1>. USE DEF Moving, Finite, Outcome
\* It is enough to look at the velocities.
<1>u. ASSUME newest = None => box'.vel \notin Velocities,
             box'.age = box.age,
             newest # None =>
                 \/ box'.vel = newest.vel
                 \/ /\ base \in {"mecanum", "steering"} /\ box'.vel = NaN
                    /\ timeout = 0 \/ Expired(newest)
                 \/ base = "tricycle" /\ box'.vel = 0 /\ Expired(newest)
      PROVE  BoxIsNewest'
  BY <1>1, <1>b, <1>u DEF BoxIsNewest, Dropped, Expired
<1>v. ASSUME box' = box PROVE BoxIsNewest'
  BY <1>1, <1>b, <1>u, <1>v DEF Dropped
<1>4. CASE base \in KeepsReference
  <2>1. box' = box /\ ref' = IF (base = "omni_wheel" \/ timeout # 0) /\ Expired(box) THEN Brake
                            ELSE Latched(box)
    BY <1>3, <1>4 DEF ReferenceOf, DiffDriveReference, OmniWheelReference, KeepsReference
  <2>2. ~Dropped(box) /\ base \notin {"mecanum", "steering"} /\ BoxIsNewest'
    BY <1>4, <1>v, <2>1 DEF Dropped, KeepsReference
  <2>3. newest # None => box.vel = newest.vel
    BY <1>b, <2>2
  <2>4. newest = None => ~Moving(ref)
    BY <1>4, <1>l
  <2>5. CASE ref' = Brake /\ Expired(box)
    BY <1>1, <1>4, <1>b, <1>n, <2>2, <2>5 DEF Brake, LatchedIsOfTopic
  <2>6. CASE ref' = box /\ Finite(box)
    BY <1>1, <1>4, <1>b, <2>2, <2>3, <2>6 DEF LatchedIsOfTopic
  <2>7. CASE ref' = ref /\ ~Finite(box)
    BY <1>1, <1>4, <1>b, <2>2, <2>3, <2>4, <2>7 DEF LatchedIsOfTopic
  <2>. QED
    BY <2>1, <2>5, <2>6, <2>7 DEF Latched
<1>6. CASE base \in {"mecanum", "steering"}
  <2>1. ~Moving(ref)
    BY <1>1, <1>6 DEF ReferenceIsUsed, UseOnce
  <2>0. base \notin KeepsReference /\ LatchedIsOfTopic'
    BY <1>1, <1>6 DEF KeepsReference, LatchedIsOfTopic
  <2>2. CASE ~Finite(box)
    <3>1. box' = box /\ ref' = ref
      BY <1>3, <1>6, <2>2 DEF ReferenceOf, MecanumReference, SteeringReference
    <3>2. newest # None /\ Finite(newest) => timeout = 0 \/ Expired(newest)
      BY <1>b, <1>6, <2>2 DEF Dropped
    <3>. QED
      BY <1>v, <2>0, <2>1, <3>1, <3>2
  <2>3. CASE Finite(box) /\ timeout = 0
    <3>1. ref' = box /\ box' = Cleared(box) /\ command_msg' = Cleared(box)
      BY <1>3, <1>6, <2>3 DEF ReferenceOf, MecanumReference, SteeringReference
    <3>2. newest # None => box.vel = newest.vel
      BY <1>b, <1>6, <2>3 DEF Dropped
    <3>3. BoxIsNewest'
      BY <1>c, <1>n, <1>u, <1>6, <2>3, <3>1
    <3>. QED
      BY <1>b, <1>c, <1>1, <2>0, <2>3, <3>1, <3>2, <3>3
  <2>4. CASE Finite(box) /\ timeout # 0 /\ ~Expired(box)
    <3>1. ref' = box /\ box' = box
      BY <1>3, <1>6, <2>4 DEF ReferenceOf, MecanumReference, SteeringReference
    <3>2. newest # None => box.vel = newest.vel
      BY <1>b, <1>6, <2>4 DEF Dropped
    <3>. QED
      BY <1>b, <1>v, <2>0, <2>4, <3>1, <3>2
  <2>5. CASE Finite(box) /\ timeout # 0 /\ Expired(box)
    <3>1. ref'.vel \in {0, NaN} /\ box' = Cleared(box)
      BY <1>3, <1>6, <2>5
      DEF ReferenceOf, MecanumReference, SteeringReference, Brake, NoRef
    <3>2. newest # None => Expired(newest)
      BY <1>b, <2>5
    <3>3. BoxIsNewest'
      BY <1>c, <1>n, <1>u, <1>6, <2>5, <3>1, <3>2
    <3>. QED
      BY <1>n, <2>0, <2>5, <3>1, <3>2, <3>3
  <2>. QED
    BY <2>2, <2>3, <2>4, <2>5
<1>7. CASE base = "tricycle"
  <2>0. base \notin KeepsReference /\ LatchedIsOfTopic'
    BY <1>1, <1>7 DEF KeepsReference, LatchedIsOfTopic
  <2>1. CASE Expired(box)
    <3>1. ref' = [box EXCEPT !.vel = 0] /\ box' = [box EXCEPT !.vel = 0]
      BY <1>3, <1>7, <2>1 DEF ReferenceOf, TricycleReference
    <3>2. newest # None => Expired(newest)
      BY <1>b, <2>1
    <3>3. BoxIsNewest'
      BY <1>c, <1>n, <1>u, <1>7, <3>1, <3>2
    <3>. QED
      BY <1>7, <1>c, <1>n, <2>0, <3>1, <3>2, <3>3
  <2>2. CASE ~Expired(box)
    <3>1. ref' = box /\ box' = box
      BY <1>3, <1>7, <2>2 DEF ReferenceOf, TricycleReference
    <3>2. newest # None => box.vel = newest.vel
      BY <1>b, <1>7, <2>2 DEF Dropped
    <3>. QED
      BY <1>7, <1>b, <1>v, <2>0, <2>2, <3>1, <3>2
  <2>. QED
    BY <2>1, <2>2
<1>. QED
  <2>1. base \in KeepsReference \/ base \in {"mecanum", "steering"} \/ base = "tricycle"
    BY <1>2 DEF AllBases, KeepsReference
  <2>. QED
    BY <1>4, <1>6, <1>7, <2>1

LEMMA NextNewestInv ==
    ASSUME Overlap = FALSE, "mecanum" \notin Unreadable, TypeInv, ReferenceIsUsed, FreshInv,
           NewestInv, [Next]_vars
    PROVE  NewestInv'
<1>. USE DEF NewestInv, config, node, drive, odom
<1>0. /\ timeout \in Timeouts /\ base \in AllBases /\ box \in TwistType
      /\ command_msg \in TwistType /\ ref \in TwistType /\ timeout \in Nat
      /\ newest # None => newest \in TwistType
      /\ ex = [pc |-> ex.pc, msg |-> ex.msg] /\ ex.msg \in TwistType
      /\ OneHandler
  BY BaseAssumption DEF TypeInv, DataTyped, FreshInv
<1>m. ~Moving(NoRef) /\ ~Moving(NoTwist) /\ ~Moving(FirstTwist)
  BY NotMoving
\* Only a step that comes to the odometry has something to show.
<1>o. ASSUME rt' # "odometry" PROVE CommandsNewest' /\ UsedOnce'
  BY <1>o DEF CommandsNewest, UsedOnce
<1>b. ASSUME UNCHANGED <<base, timeout, newest, box>> PROVE BoxIsNewest'
  BY <1>b DEF BoxIsNewest, Dropped, Moving, Expired
<1>1. CASE UpdateRead
  <2>1. ex.pc # "set" /\ rt = "idle"
    BY <1>0, <1>1 DEF UpdateRead, RtMay
  <2>2. command_msg' = box /\ rt' = "reference" /\ UNCHANGED <<base, timeout, newest, box>>
        /\ ~chained /\ UNCHANGED <<ref, chained>>
    BY <1>1, <2>1 DEF UpdateRead, Attempts
  <2>. QED
    BY <1>b, <1>o, <2>2 DEF CopyIsBox, LatchedIsOfTopic, Moving
<1>2. CASE UpdateChained
  <2>1. chained /\ rt' = "odometry" /\ UNCHANGED <<base, timeout, newest, box, chained>>
    BY <1>2 DEF UpdateChained
  <2>. QED
    BY <1>b, <2>1 DEF CopyIsBox, LatchedIsOfTopic, CommandsNewest, UsedOnce
<1>3. CASE UpdateReference
  <2>1. rt' = "odometry" /\ UNCHANGED <<base, timeout, newest, chained>>
    BY <1>3 DEF UpdateReference
  <2>2. ~chained
    BY <1>3 DEF UpdateReference, CopyIsBox
  <2>. QED
    BY <1>0, <1>3, <2>1, <2>2, ReferenceIsNewest
    DEF CopyIsBox, CommandsNewest, UsedOnce, Finite, Expired, Moving
<1>4. CASE UpdateOdometry \/ UpdateServed \/ UpdateUnread \/ UpdateWrite
  <2>1. /\ UNCHANGED <<base, timeout, newest, box, chained>>
        /\ rt' \in {"idle", "served", "write"} /\ ref' \in {ref, NoRef}
    BY <1>4 DEF UpdateOdometry, UpdateServed, UpdateUnread, UpdateWrite, DiffDriveUnread,
       OmniWheelUnread, MecanumUnread, TricycleUnread, DiffDriveWrite, DiffDriveLimit, OmniWheelWrite,
       MecanumWrite, SteeringWrite, TricycleWrite
  <2>. QED
    BY <1>b, <1>m, <1>o, <2>1 DEF CopyIsBox, LatchedIsOfTopic, Moving
<1>5. CASE Lifecycle
  <2>0. rt = "idle" /\ rt' = "idle" /\ base' = base /\ ex.pc = "idle"
    BY <1>0, <1>5 DEF Lifecycle, on_configure, on_cleanup, on_error, on_activate,
       on_deactivate, Unconfigure, RtMay
  <2>f. ASSUME Forget, base \in KeepsReference => ref' = NoRef PROVE NewestInv'
    <3>1. newest' = None /\ ~Moving(box')
      BY <1>m, <2>f DEF Forget, Moving, FirstTwist
    <3>. QED
      BY <1>m, <1>o, <2>0, <2>f, <3>1 DEF BoxIsNewest, CopyIsBox, LatchedIsOfTopic, Moving
  <2>k. ASSUME UNCHANGED <<timeout, newest, ref>>, box' \in {box, Stale(box)},
               base \notin KeepsReference
        PROVE  NewestInv'
    <3>1. box'.vel = box.vel /\ box'.age = box.age
      BY <1>0, <2>k, KeptVelocity
    <3>. QED
      BY <1>o, <2>0, <2>k, <3>1 DEF BoxIsNewest, Dropped, Moving, Expired, CopyIsBox, LatchedIsOfTopic
  <2>1. CASE on_configure
    <3>1. Forget /\ (base \in KeepsReference => ref' = NoRef)
      BY <2>1 DEF on_configure, DiffDriveConfigure, OmniWheelConfigure, MecanumConfigure,
         SteeringConfigure, TricycleConfigure, DiffDriveReset, OmniWheelReset, SteeringReset,
         TricycleReset, DiffDriveResetBuffers, OmniWheelResetBuffers, MecanumResetBuffers
    <3>. QED
      BY <2>f, <3>1
  <2>2. CASE on_cleanup \/ on_error
    <3>1. \/ Forget /\ (base \in KeepsReference => ref' = NoRef)
          \/ UNCHANGED <<timeout, newest, ref, box>> /\ base = "mecanum"
      BY <2>2 DEF on_cleanup, on_error, Unconfigure, MecanumCleanup, Reset, DiffDriveReset,
         OmniWheelReset, SteeringReset, TricycleReset, DiffDriveResetBuffers,
         OmniWheelResetBuffers
    <3>. QED
      BY <2>f, <2>k, <3>1 DEF KeepsReference
  <2>3. CASE on_activate
    <3>1. CASE base \in KeepsReference
      <4>1. /\ box' = Stale(box) /\ ref' = Stale(ref) /\ UNCHANGED <<timeout, newest>>
            /\ lifecycle # "active"
        BY <2>3, <3>1 DEF on_activate, DiffDriveActivate, OmniWheelActivate, Keep, KeepsReference
      <4>2. ~Moving(ref)
        BY <3>1, <4>1 DEF FreshInv, NothingWaits
      <4>3. box'.vel = box.vel /\ box'.age = box.age /\ ref'.vel = ref.vel
        BY <1>0, <4>1, KeptVelocity
      <4>4. BoxIsNewest'
        BY <2>0, <4>1, <4>3 DEF BoxIsNewest, Dropped, Moving, Expired
      <4>. QED
        BY <1>o, <2>0, <4>2, <4>3, <4>4 DEF Moving, CopyIsBox, LatchedIsOfTopic
    <3>2. CASE base = "mecanum"
      BY <2>3, <2>f, <3>2 DEF on_activate, MecanumActivate, MecanumResetBuffers, KeepsReference
    <3>3. CASE base = "steering"
      <4>1. box' = NoTwist /\ newest' = None
        BY <2>0, <2>3, <3>3 DEF on_activate, SteeringActivate, Attempts
      <4>. QED
        BY <1>m, <1>o, <2>0, <3>3, <4>1 DEF BoxIsNewest, Moving, CopyIsBox, LatchedIsOfTopic,
           KeepsReference
    <3>4. CASE base = "tricycle"
      BY <2>3, <2>k, <3>4 DEF on_activate, TricycleActivate, KeepsReference
    <3>. QED
      BY <1>0, <3>1, <3>2, <3>3, <3>4 DEF AllBases, KeepsReference
  <2>4. CASE on_deactivate
    <3>1. \/ Forget /\ (base \in KeepsReference => ref' = NoRef)
          \/ UNCHANGED <<timeout, newest, ref, box>> /\ base \in {"steering", "tricycle"}
      BY <2>4 DEF on_deactivate, DiffDriveDeactivate, OmniWheelDeactivate, MecanumDeactivate,
         SteeringDeactivate, TricycleDeactivate, DiffDriveResetBuffers, OmniWheelResetBuffers,
         MecanumResetBuffers
    <3>. QED
      BY <2>f, <2>k, <3>1 DEF KeepsReference
  <2>. QED
    BY <1>5, <2>1, <2>2, <2>3, <2>4 DEF Lifecycle
<1>6. CASE SetBox
  <2>1. /\ rt = "idle" /\ rt' = "idle" /\ UNCHANGED <<base, timeout, chained, ref>>
        /\ box' = ex.msg /\ newest' = ex.msg
    BY <1>0, <1>6 DEF SetBox, OneHandler
  <2>2. ex.msg # None
    BY <1>0, TwistTypes
  <2>. QED
    BY <1>o, <2>1, <2>2 DEF BoxIsNewest, CopyIsBox, LatchedIsOfTopic
<1>7. CASE Callback /\ ~SetBox
  <2>1. /\ UNCHANGED <<base, timeout, chained, ref, box, newest, rt, command_msg>>
    BY <1>7 DEF Callback, reference_callback, set_odometry, SetPose, SetFlag, reset_odometry
  <2>. QED
    BY <1>b, <2>1 DEF CopyIsBox, LatchedIsOfTopic, Moving, CommandsNewest, UsedOnce, Finite,
       Expired
<1>8. CASE Tick
  <2>1. /\ rt = "idle" /\ rt' = "idle" /\ UNCHANGED <<base, timeout, chained>>
        /\ box' = Older(box) /\ newest' = IF newest = None THEN None ELSE Older(newest)
        /\ ref' \in {ref, Older(ref)}
    BY <1>8 DEF Tick
  <2>2. /\ box'.vel = box.vel /\ ref'.vel = ref.vel
        /\ newest # None => newest'.vel = newest.vel /\ newest' # None
    BY <1>0, <2>1, KeptVelocity, TwistTypes
  <2>3. newest # None => box.age = newest.age /\ box'.age = newest'.age
                         /\ (Expired(newest) => Expired(newest)')
    <3>1. newest # None => box.age = newest.age /\ newest.age \in 0..MaxAge
      BY <1>0, TwistTypes DEF BoxIsNewest
    <3>2. newest # None => box'.age = newest'.age /\ newest'.age >= newest.age
      BY <1>0, <2>1, <3>1, TwistTypes DEF Older, TwistType
    <3>3. newest # None => newest.age \in Int /\ newest'.age \in Int
      <4>1. newest # None => newest \in TwistType /\ newest' \in TwistType
        BY <1>0, <2>1, TwistTypes
      <4>2. \A m \in TwistType : m.age \in Int
        BY DEF TwistType
      <4>. QED
        BY <4>1, <4>2
    <3>4. timeout' = timeout /\ timeout \in Int
      BY <1>0, <2>1
    <3>. QED
      BY <3>1, <3>2, <3>3, <3>4 DEF Expired
  <2>4. BoxIsNewest'
    BY <2>1, <2>2, <2>3 DEF BoxIsNewest, Dropped, Moving
  <2>. QED
    BY <1>o, <2>1, <2>2, <2>4 DEF CopyIsBox, LatchedIsOfTopic, Moving
<1>9. CASE UNCHANGED vars
  BY <1>b, <1>9 DEF vars, CopyIsBox, LatchedIsOfTopic, Moving, CommandsNewest, UsedOnce, Finite,
     Expired
<1>. QED
  BY <1>1, <1>2, <1>3, <1>4, <1>5, <1>6, <1>7, <1>8, <1>9 DEF Next, Update

\* A cycle that follows the topic commands the newest message, or none.
THEOREM NewestIsCommanded ==
    Overlap = FALSE /\ "mecanum" \notin Unreadable => (Spec => []CommandsNewest)
<1> SUFFICES ASSUME Overlap = FALSE, "mecanum" \notin Unreadable PROVE Spec => []CommandsNewest
  OBVIOUS
<1>1. TypeInv /\ TimeoutInv /\ [Next]_vars => TimeoutInv'
  BY NextTimeoutInv
<1>2. TypeInv /\ TimeoutInv /\ FreshInv /\ [Next]_vars => FreshInv'
  BY NextFreshInv DEF TimeoutInv
<1>3. TypeInv /\ TimeoutInv /\ FreshInv /\ NewestInv /\ [Next]_vars => NewestInv'
  BY NextNewestInv DEF TimeoutInv
<1>4. NewestInv => CommandsNewest
  BY DEF NewestInv
<1>. QED
  BY <1>1, <1>2, <1>3, <1>4, InitTypeInv, NextTypeInv, InitTimeoutInv, InitFreshInv,
     InitNewestInv, PTL DEF Spec

\* With a timeout of zero no reference of mecanum or steering is commanded twice.
THEOREM ReferencesAreUsedOnce ==
    Overlap = FALSE /\ "mecanum" \notin Unreadable => (Spec => []UsedOnce)
<1> SUFFICES ASSUME Overlap = FALSE, "mecanum" \notin Unreadable PROVE Spec => []UsedOnce
  OBVIOUS
<1>1. TypeInv /\ TimeoutInv /\ [Next]_vars => TimeoutInv'
  BY NextTimeoutInv
<1>2. TypeInv /\ TimeoutInv /\ FreshInv /\ [Next]_vars => FreshInv'
  BY NextFreshInv DEF TimeoutInv
<1>3. TypeInv /\ TimeoutInv /\ FreshInv /\ NewestInv /\ [Next]_vars => NewestInv'
  BY NextNewestInv DEF TimeoutInv
<1>4. NewestInv => UsedOnce
  BY DEF NewestInv
<1>. QED
  BY <1>1, <1>2, <1>3, <1>4, InitTypeInv, NextTypeInv, InitTimeoutInv, InitFreshInv,
     InitNewestInv, PTL DEF Spec

-----------------------------------------------------------------------------
(* The limiter of diff_drive.                                                *)

\* Every cycle without feedback takes the memory of the limiter a step further from
\* the speed of the wheels, a written command brings them together; a stopped base
\* remembers zero; and the wheels are written from a reference only.
Ahead(n) ==
    /\ previous - Speed(wheels) <= n * Reach
    /\ Speed(wheels) - previous <= n * Reach

LimiterKnows ==
    base = "diff_drive" =>
        /\ previous \in Int /\ Speed(wheels) \in Int
        /\ missed < MaxMissed => Ahead(missed)
        /\ lifecycle # "active" => previous = 0 /\ Speed(wheels) = 0
        /\ rt \in {"served", "write"} => Finite(ref)

LEMMA InitLimiterKnows == Init => LimiterKnows
BY BaseAssumption DEF Init, LimiterKnows, Speed, Ahead

\* One step more.
LEMMA Steps ==
    ASSUME NEW n \in Nat
    PROVE  /\ n * Reach \in Nat /\ (n + 1) * Reach = n * Reach + Reach
           /\ 0 * Reach = 0 /\ Reach \in Nat
BY BaseAssumption

\* What a cycle of diff_drive makes of its command, with or without feedback.
LEMMA LimitedCommand ==
    ASSUME TypeInv, LimiterKnows, base = "diff_drive", Finite(ref), DiffDriveLimit
    PROVE  /\ previous' \in Int
           /\ previous' - previous <= Reach /\ previous - previous' <= Reach
<1>1. previous \in Int /\ ref.vel \in Speeds
  BY DEF LimiterKnows, TypeInv, DataTyped, TwistType, Speeds
<1>2. ref.vel \in Int
  <2>1. Velocities \subseteq Int /\ 0 \in Int
    BY BaseAssumption
  <2>. QED
    BY <1>1, <2>1 DEF Speeds, Finite
<1>. QED
  BY <1>1, <1>2, Limited DEF DiffDriveLimit

\* What a cycle writes to the wheels of diff_drive.
LEMMA LimitedWrite ==
    ASSUME TypeInv, LimiterKnows, base = "diff_drive", UpdateWrite
    PROVE  /\ previous' \in Int /\ previous' = wheels' /\ ref' = ref
           /\ wheels' - previous <= Reach /\ previous - wheels' <= Reach
<1>1. Finite(ref) /\ DiffDriveLimit /\ wheels' = previous'
  BY DEF LimiterKnows, UpdateWrite, DiffDriveWrite
<1>2. /\ previous' \in Int
      /\ previous' - previous <= Reach /\ previous - previous' <= Reach
  BY <1>1, LimitedCommand
<1>3. ref' = ref
  BY <1>1 DEF DiffDriveLimit
<1>. QED
  BY <1>1, <1>2, <1>3

\* A cycle without feedback.
LEMMA MissedCommand ==
    ASSUME TypeInv, LimiterKnows, base = "diff_drive", UpdateUnread
    PROVE  previous' \in Int /\ (missed' < MaxMissed => Ahead(missed)')
<1>1. wheels' = wheels /\ Finite(ref) /\ DiffDriveLimit /\ Misses
  BY DEF UpdateUnread, DiffDriveUnread, Returns
<1>2. /\ previous' \in Int
      /\ previous' - previous <= Reach /\ previous - previous' <= Reach
  BY <1>1, LimitedCommand
<1>3. ASSUME missed' < MaxMissed PROVE Ahead(missed)'
  <2>1. missed \in Nat /\ MaxMissed \in Nat
    BY BaseAssumption DEF TypeInv, DataTyped
  <2>2. missed < MaxMissed /\ missed' = missed + 1
    BY <1>1, <1>3, <2>1 DEF Misses
  <2>3. /\ previous \in Int /\ Speed(wheels) \in Int /\ Speed(wheels)' = Speed(wheels)
        /\ previous - Speed(wheels) <= missed * Reach
        /\ Speed(wheels) - previous <= missed * Reach
    BY <1>1, <2>2 DEF LimiterKnows, Ahead, Speed
  <2>4. /\ missed * Reach \in Nat /\ missed' * Reach = missed * Reach + Reach
        /\ Reach \in Nat
    BY <2>1, <2>2, Steps
  <2>5. \A p, q, w, m, r \in Int :
            p - w <= m /\ w - p <= m /\ q - p <= r /\ p - q <= r
            => q - w <= m + r /\ w - q <= m + r
    OBVIOUS
  <2>6. /\ previous' - Speed(wheels) <= missed * Reach + Reach
        /\ Speed(wheels) - previous' <= missed * Reach + Reach
    <3>1. missed * Reach \in Int /\ Reach \in Int
      BY <2>4
    <3>. QED
      BY <1>2, <2>3, <2>5, <3>1
  <2>. QED
    BY <2>3, <2>4, <2>6 DEF Ahead
<1>. QED
  BY <1>2, <1>3

LEMMA NextLimiterKnows == TypeInv /\ LimiterKnows /\ [Next]_vars => LimiterKnows'
<1> SUFFICES ASSUME TypeInv, LimiterKnows, [Next]_vars PROVE LimiterKnows'
  OBVIOUS
<1> SUFFICES ASSUME base = "diff_drive", base' = base PROVE LimiterKnows'
  <2>1. base' = base
    BY DEF Next, Update, Lifecycle, Callback, vars, UpdateRead, UpdateChained,
       UpdateReference, UpdateOdometry, UpdateUnread, UpdateServed, UpdateWrite, Tick,
       reference_callback, SetBox, set_odometry, SetPose, SetFlag, reset_odometry,
       on_configure, on_cleanup, on_error, on_activate, on_deactivate, Unconfigure, config
  <2>. QED
    BY <2>1 DEF LimiterKnows
<1>. USE DEF LimiterKnows, config, node, drive, odom
<1>z. 0 \in Int /\ NaN \notin Int /\ Speed(0) = 0 /\ Speed(NaN) = 0
  BY BaseAssumption DEF Speed
<1>m. missed \in 0..MaxMissed /\ missed * Reach \in Nat /\ 0 * Reach = 0
  <2>1. missed \in 0..MaxMissed /\ missed \in Nat /\ 0 \in Nat
    BY BaseAssumption DEF TypeInv, DataTyped
  <2>. QED
    BY <2>1, Steps
<1>1. CASE UpdateRead \/ UpdateChained \/ UpdateReference
  BY <1>1 DEF UpdateRead, UpdateChained, UpdateReference, Speed, Ahead
<1>2. CASE UpdateOdometry
  BY <1>2 DEF UpdateOdometry, Returns, Finite, Speed, Ahead
<1>3. CASE UpdateUnread
  <2>1. rt' = "idle" /\ UNCHANGED <<wheels, lifecycle>> /\ lifecycle = "active"
    BY <1>3 DEF UpdateUnread, TypeInv, CycleIsActive
  <2>. QED
    BY <1>3, <2>1, MissedCommand DEF Speed
<1>4. CASE UpdateServed
  BY <1>4 DEF UpdateServed, Finite, Speed, Ahead
<1>5. CASE UpdateWrite
  <2>1. rt' = "idle" /\ missed' = 0 /\ lifecycle' = lifecycle /\ lifecycle = "active"
    BY <1>5 DEF UpdateWrite, TypeInv, CycleIsActive
  <2>2. previous' \in Int /\ Speed(wheels)' = previous'
    BY <1>5, <1>z, LimitedWrite DEF Speed
  <2>3. Ahead(missed)'
    BY <1>m, <2>1, <2>2 DEF Ahead
  <2>. QED
    BY <2>1, <2>2, <2>3
<1>6. CASE Lifecycle
  <2>1. rt = "idle" /\ rt' = "idle"
    BY <1>6 DEF Lifecycle, on_configure, on_cleanup, on_error, on_activate, on_deactivate,
       Unconfigure, RtMay
  <2>2. CASE on_configure \/ on_cleanup \/ on_error
    <3>1. lifecycle # "active" /\ wheels' = wheels /\ previous' = 0 /\ missed' = missed
      BY <2>2 DEF on_configure, on_cleanup, on_error, Unconfigure, Reset,
         DiffDriveConfigure, DiffDriveReset, DiffDriveResetBuffers
    <3>. QED
      BY <1>z, <2>1, <3>1 DEF Speed, Ahead
  <2>3. CASE on_activate
    <3>1. /\ lifecycle # "active"
          /\ wheels' = wheels /\ previous' = previous /\ missed' = missed
      BY <2>3 DEF on_activate, DiffDriveActivate, Keep
    <3>. QED
      BY <2>1, <3>1 DEF Speed, Ahead
  <2>4. CASE on_deactivate
    <3>1. wheels' = 0 /\ previous' = 0 /\ missed' = 0
      BY <2>4 DEF on_deactivate, DiffDriveDeactivate, DiffDriveResetBuffers
    <3>. QED
      BY <1>z, <1>m, <2>1, <3>1 DEF Ahead, Speed
  <2>. QED
    BY <1>6, <2>2, <2>3, <2>4 DEF Lifecycle
<1>7. CASE Callback
  BY <1>7 DEF Callback, reference_callback, SetBox, set_odometry, SetPose, SetFlag,
     reset_odometry, Finite, Speed, Ahead
<1>8. CASE Tick
  <2>1. rt' = "idle" /\ UNCHANGED <<previous, missed, wheels, lifecycle>>
    BY <1>8 DEF Tick
  <2>. QED
    BY <2>1 DEF Speed, Ahead
<1>9. CASE UNCHANGED vars
  BY <1>9 DEF vars, Finite, Speed, Ahead
<1>. QED
  BY <1>1, <1>2, <1>3, <1>4, <1>5, <1>6, <1>7, <1>8, <1>9 DEF Next, Update

\* No cycle of diff_drive changes the speed of its wheels by more than the limiter
\* allows for the cycles since it last wrote them: over a timeout, a change of the
\* mode, a new activation, and whatever the executor does meanwhile.
THEOREM WheelsDoNotJump == Spec => DiffDriveLimited
<1>1. TypeInv /\ LimiterKnows /\ [Next]_vars
      => [base = "diff_drive" /\ missed < MaxMissed => ~Jumps(missed + 1)]_vars
  <2> SUFFICES ASSUME TypeInv, LimiterKnows, [Next]_vars,
                      base = "diff_drive", missed < MaxMissed, Jumps(missed + 1)
               PROVE  FALSE
    OBVIOUS
  <2>n. missed \in Nat /\ missed * Reach \in Nat /\ Reach \in Nat
        /\ (missed + 1) * Reach = missed * Reach + Reach
    <3>1. missed \in Nat
      BY BaseAssumption DEF TypeInv, DataTyped
    <3>. QED
      BY <3>1, Steps
  <2>1. /\ previous \in Int /\ Speed(wheels) \in Int /\ rt = "write"
        /\ previous - Speed(wheels) <= missed * Reach
        /\ Speed(wheels) - previous <= missed * Reach
    BY DEF LimiterKnows, Jumps, Ahead
  <2>2. wheels' # wheels
    BY <2>1, <2>n DEF Jumps
  <2>3. UpdateWrite
    BY <2>1, <2>2 DEF Next, Update, Lifecycle, Callback, vars, UpdateRead, UpdateChained,
       UpdateReference, UpdateOdometry, UpdateUnread, UpdateServed, Tick,
       reference_callback, SetBox, set_odometry, SetPose, SetFlag, reset_odometry,
       on_configure, on_cleanup, on_error, on_activate, on_deactivate, Unconfigure,
       RtMay, drive
  <2>4. wheels' \in Int /\ wheels' - previous <= Reach /\ previous - wheels' <= Reach
    BY <2>3, LimitedWrite
  <2>5. Speed(wheels') = wheels'
    BY <2>4, BaseAssumption DEF Speed
  <2>6. \/ wheels' - Speed(wheels) > missed * Reach + Reach
        \/ Speed(wheels) - wheels' > missed * Reach + Reach
    BY <2>n, <2>5 DEF Jumps
  <2>7. \A p, q, w, m, r \in Int :
            p - w <= m /\ w - p <= m /\ q - p <= r /\ p - q <= r
            => ~(q - w > m + r) /\ ~(w - q > m + r)
    OBVIOUS
  <2>8. missed * Reach \in Int /\ Reach \in Int
    BY <2>n
  <2>. QED
    BY <2>1, <2>4, <2>6, <2>7, <2>8
<1>. QED
  BY <1>1, InitTypeInv, NextTypeInv, InitLimiterKnows, NextLimiterKnows, PTL
  DEF Spec, DiffDriveLimited
=============================================================================
