---------------------- MODULE CommandReferences_proofs ----------------------
(****************************************************************************)
(* Theorems about the controllers that pass references on, for every set of  *)
(* values and of controllers.                                                *)
(****************************************************************************)
EXTENDS CommandReferences, TLAPS

USE DEF Joints

AllValues == Values \cup {Here, Zero, NaN, Inf, None}

-----------------------------------------------------------------------------
\* What is made of messages are messages.
LEMMA MessageTypes ==
    /\ NoMessage \in MessageType /\ NoMessage.fresh
    /\ NoMessage.val = None /\ None \notin {NaN, Inf}
    /\ HereMessage \in MessageType /\ HereMessage.fresh /\ ~isnan(HereMessage)
    /\ ~isnan(Message(Zero, TRUE))
    /\ \A v \in AllValues, w \in BOOLEAN :
           Message(v, w) \in MessageType /\ Message(v, w).fresh /\ Message(v, w).val = v
BY ReferencesAssumption DEF MessageType, NoMessage, HereMessage, Message, AllValues, isnan

LEMMA DerivedTypes ==
    ASSUME NEW m \in MessageType
    PROVE  /\ Part(m) \in MessageType /\ Part(m).val = m.val /\ Part(m).fresh = m.fresh
           /\ Stale(m) \in MessageType /\ Stale(m).val = m.val
           /\ [m EXCEPT !.val = None] \in MessageType /\ [m EXCEPT !.val = NaN] \in MessageType
           /\ Both(m) \in [Joints -> MessageType]
           /\ \A i \in Joints : Both(m)[i].val = m.val /\ Both(m)[i].fresh = m.fresh
<1>1. /\ Part(m) \in MessageType /\ Part(m).val = m.val /\ Part(m).fresh = m.fresh
      /\ Stale(m) \in MessageType /\ Stale(m).val = m.val
      /\ [m EXCEPT !.val = None] \in MessageType /\ [m EXCEPT !.val = NaN] \in MessageType
  BY DEF MessageType, Part, Stale
<1>. QED
  BY <1>1 DEF Both

\* A write leaves each command interface as it is or gives it what is asked.
LEMMA WriteType ==
    ASSUME NEW asked \in [Joints -> MessageType], NEW J \in SUBSET Joints,
           output \in [Joints -> MessageType], Write(asked, J)
    PROVE  /\ output' \in [Joints -> MessageType]
           /\ \A i \in Joints : output'[i] # output[i] => i \in J /\ output'[i] = asked[i]
<1>. PICK failed \in SUBSET (J \cap Lossy) :
         output' = [i \in Joints |-> IF i \in J \ failed THEN asked[i] ELSE output[i]]
  BY DEF Write
<1>. QED
  OBVIOUS

\* The forward controllers write the first of their joints.
LEMMA ForwardWrites ==
    ASSUME ForwardWrite
    PROVE  \E n \in Int : output' = [i \in Joints |-> IF i <= n THEN Part(copy) ELSE output[i]]
<1>1. \A i \in Lossy : i - 1 \in Int
  BY ReferencesAssumption
<1>2. {2} \cup {i - 1 : i \in Lossy} \subseteq Int /\ {0} \subseteq Int
  BY <1>1
<1>. QED
  BY <1>2 DEF ForwardWrite

-----------------------------------------------------------------------------
(* Type correctness.  It takes that what the forward controllers keep is     *)
(* finite, or no command, since they pass on what they keep.                 *)

Proper(m) == m.val \notin {NaN, Inf}
ForwardFinite ==
    controller = "forward" => Proper(box) /\ Proper(copy) /\ Proper(ex.msg)
TypeInv == TypeOK /\ ForwardFinite

\* Every request is a message.
LEMMA RequestTypes == \A m \in Requests : m \in MessageType /\ m.fresh
<1> SUFFICES ASSUME NEW m \in Requests PROVE m \in MessageType /\ m.fresh
  OBVIOUS
<1>1. CASE m \in {Message(v, TRUE) : v \in Values \cup {NaN, Inf}}
  <2>1. PICK v \in Values \cup {NaN, Inf} : m = Message(v, TRUE)
    BY <1>1
  <2>. QED
    BY <2>1, MessageTypes DEF AllValues
<1>2. CASE m \in {Message(v, FALSE) : v \in Values}
  <2>1. PICK v \in Values : m = Message(v, FALSE)
    BY <1>2
  <2>. QED
    BY <2>1, MessageTypes DEF AllValues
<1>. QED
  BY <1>1, <1>2 DEF Requests

LEMMA InitTypeInv == Init => TypeInv
<1> SUFFICES ASSUME Init PROVE TypeInv
  OBVIOUS
<1>1. /\ Both(NoMessage) \in [Joints -> MessageType]
      /\ Both(Message(Zero, TRUE)) \in [Joints -> MessageType]
      /\ \A i \in Joints : Proper(Both(NoMessage)[i])
      /\ \A i \in Joints : ~isnan(Both(Message(Zero, TRUE))[i])
  <2>1. NoMessage \in MessageType /\ Message(Zero, TRUE) \in MessageType
    BY MessageTypes DEF AllValues
  <2>2. \A i \in Joints : /\ Both(NoMessage)[i].val = None
                         /\ Both(Message(Zero, TRUE))[i].val = Message(Zero, TRUE).val
    BY <2>1, DerivedTypes, MessageTypes
  <2>. QED
    BY <2>1, <2>2, DerivedTypes, MessageTypes DEF Proper, isnan
<1>2. ex \in [pc : {"idle", "lock", "locked", "state_locked"}, msg : MessageType]
      /\ ex.msg = NoMessage
  BY MessageTypes DEF Init, ExIdle
<1>3. /\ ref \in [Joints -> MessageType] /\ last \in [Joints -> MessageType]
      /\ commanded \in [Joints -> MessageType] /\ output \in [Joints -> MessageType]
      /\ \A i \in Joints : ~isnan(last[i]) /\ Proper(output[i])
  BY <1>1 DEF Init
<1>4. /\ box \in MessageType /\ copy \in MessageType /\ newest \in MessageType
      /\ ForwardFinite
  BY <1>2, MessageTypes DEF Init, ForwardFinite, Proper
<1>5. /\ controller \in Controllers /\ chained \in BOOLEAN /\ subscribed \in BOOLEAN
      /\ lost \in BOOLEAN
  BY Zenon DEF Init
<1>6. /\ lifecycle \in {"unconfigured", "inactive", "active", "finalized"}
      /\ stored \in 0..2
      /\ state_box \in Measurements /\ state_copy \in Measurements
      /\ measured \in Measurements
      /\ rt \in {"idle", "reference", "write"}
  BY DEF Init, Measurements
<1>7. TypeOK
  BY <1>2, <1>3, <1>4, <1>5, <1>6, Zenon DEF TypeOK, Proper
<1>. QED
  BY <1>4, <1>7 DEF TypeInv

LEMMA CallbackTypeInv == TypeInv /\ Callback => TypeInv'
<1> SUFFICES ASSUME TypeInv, Callback PROVE TypeInv'
  OBVIOUS
<1>. USE DEF TypeInv, TypeOK, ForwardFinite, Proper, node, references, rule, states
<1>1. CASE \E m \in Requests : reference_callback(m)
  <2>1. PICK m \in Requests : reference_callback(m)
    BY <1>1
  <2>2. m \in MessageType
    BY RequestTypes
  <2>3. ex' = [pc |-> "lock", msg |-> m]
    BY <2>1 DEF reference_callback
  <2>4. controller = "forward" => Proper(m)
    BY <2>1 DEF reference_callback, Takes, PidTakes, ForwardTakes, Pids, isfinite
  <2>. QED
    BY <2>1, <2>2, <2>3, <2>4 DEF reference_callback
<1>2. CASE LockBox
  BY <1>2 DEF LockBox
<1>3. CASE SetBox
  BY <1>3, MessageTypes DEF SetBox, ExIdle
<1>4. CASE measured_state_callback
  BY <1>4 DEF measured_state_callback
<1>5. CASE SetState
  BY <1>5, MessageTypes DEF SetState, ExIdle, Measurements
<1>. QED
  BY <1>1, <1>2, <1>3, <1>4, <1>5 DEF Callback

\* What a preceding controller writes.
LEMMA ChainedReference ==
    ASSUME UpdateChained, ref \in [Joints -> MessageType]
    PROVE  /\ ref' \in [Joints -> MessageType]
           /\ \A i \in Joints : ref'[i] = ref[i] \/ ref'[i].fresh
<1>1. PICK n \in 0..2, v \in Values \cup {None, Inf} :
          ref' = [i \in Joints |-> IF i <= n THEN Message(v, TRUE) ELSE ref[i]]
  BY DEF UpdateChained
<1>2. Message(v, TRUE) \in MessageType /\ Message(v, TRUE).fresh
  BY MessageTypes DEF AllValues
<1>. QED
  BY <1>1, <1>2

LEMMA UpdateTypeInv == TypeInv /\ Update => TypeInv'
<1> SUFFICES ASSUME TypeInv, Update PROVE TypeInv'
  OBVIOUS
<1>. USE DEF TypeInv, TypeOK, ForwardFinite, Proper, node, references, rule, states
<1>1. CASE UpdateRead
  BY <1>1 DEF UpdateRead
<1>2. CASE UpdateChained
  <2>1. ref' \in [Joints -> MessageType]
    BY <1>2, ChainedReference
  <2>. QED
    BY <1>2, <2>1 DEF UpdateChained
<1>3. CASE UpdateReference
  <2>1. CASE controller \in Pids /\ PidReference
    <3>1. copy' \in MessageType /\ box' \in MessageType
      BY <2>1, DerivedTypes DEF PidReference
    <3>2. ref' \in [Joints -> MessageType]
      BY <2>1, DerivedTypes DEF PidReference
    <3>3. controller # "forward"
      BY <2>1 DEF Pids
    <3>. QED
      BY <1>3, <3>1, <3>2, <3>3 DEF UpdateReference
  <2>2. CASE controller = "admittance" /\ AdmittanceReference
    <3>1. ref' \in [Joints -> MessageType]
      BY <2>2, DerivedTypes DEF AdmittanceReference
    <3>. QED
      BY <1>3, <2>2, <3>1 DEF UpdateReference, AdmittanceReference
  <2>. QED
    BY <1>3, <2>1, <2>2 DEF UpdateReference
<1>4. CASE UpdateWrite
  <2>0. TypeOK /\ (state_box' = state_box) /\ UNCHANGED <<node, box, copy, newest, ex>> /\ rt' = "idle"
    BY <1>4 DEF UpdateWrite
  <2>1. CASE controller = "forward" /\ ForwardWrite
    <3>1. Part(copy) \in MessageType /\ Proper(Part(copy))
      BY <2>1, DerivedTypes
    <3>2. PICK n \in Int :
            output' = [i \in Joints |-> IF i <= n THEN Part(copy) ELSE output[i]]
      BY <2>1, ForwardWrites
    <3>3. output' \in [Joints -> MessageType] /\ \A i \in Joints : Proper(output'[i])
      BY <2>1, <3>1, <3>2
    <3>. QED
      BY <2>0, <2>1, <3>3 DEF ForwardWrite
  <2>2. CASE controller = "gpio" /\ GpioWrite
    <3>1. output' \in [Joints -> MessageType]
      <4>1. Both(copy) \in [Joints -> MessageType]
        BY DerivedTypes
      <4>2. CASE copy.val = None
        BY <2>2, <4>2 DEF GpioWrite
      <4>3. CASE copy.val # None
        <5>1. PICK J \in SUBSET Joints : Write(Both(copy), J)
          BY <2>2, <4>3 DEF GpioWrite
        <5>. QED
          BY <4>1, <5>1, WriteType
      <4>. QED
        BY <4>2, <4>3
    <3>2. controller \notin Pids \cup {"forward"}
      BY <2>2 DEF Pids
    <3>. QED
      BY <2>0, <2>2, <3>1, <3>2 DEF GpioWrite
  <2>3. CASE controller \in Pids /\ PidWrite
    <3>1. /\ output' \in [Joints -> MessageType]
          /\ \A i \in Joints : output'[i] # output[i] =>
                 isfinite(ref[i]) /\ output'[i] = ref[i]
      BY <2>3, WriteType DEF PidWrite, PidMeasure
    <3>2. controller # "gpio" /\ controller # "forward"
      BY <2>3 DEF Pids
    <3>3. \A i \in Joints : Proper(output'[i])
      BY <2>3, <3>1, <3>2 DEF isfinite
    <3>4. measured' \in Measurements /\ state_copy' \in Measurements
      BY <2>3 DEF PidWrite, Measurements, PidMeasure
    <3>. QED
      BY <2>0, <2>3, <3>1, <3>2, <3>3, <3>4 DEF PidWrite, PidMeasure
  <2>4. CASE controller = "admittance" /\ AdmittanceWrite
    <3>1. ref' \in [Joints -> MessageType] /\ \A i \in Joints : ~isnan(ref'[i])
      BY <2>4 DEF AdmittanceWrite, isnan, read_state_reference_interfaces
    <3>2. commanded' \in [Joints -> MessageType] /\ lost' \in BOOLEAN
      <4>1. lost' \in BOOLEAN
        BY <2>4 DEF AdmittanceWrite, AdmittanceRule
      <4>2. \A i \in Joints : [ref'[i] EXCEPT !.val = NaN] \in MessageType
        BY <3>1, DerivedTypes
      <4>. QED
        BY <2>4, <3>1, <4>1, <4>2 DEF AdmittanceWrite, AdmittanceRule
    <3>3. output' \in [Joints -> MessageType]
      BY <2>4, <3>2, WriteType DEF AdmittanceWrite
    <3>4. /\ last' = ref' /\ controller \notin Pids \cup {"forward"}
          /\ UNCHANGED <<state_copy, measured>>
      BY <2>4 DEF AdmittanceWrite, Pids
    <3>. QED
      BY <2>0, <2>4, <3>1, <3>2, <3>3, <3>4 DEF isnan
  <2>. QED
    BY <1>4, <2>1, <2>2, <2>3, <2>4 DEF UpdateWrite
<1>. QED
  BY <1>1, <1>2, <1>3, <1>4 DEF Update

LEMMA LifecycleTypeInv == TypeInv /\ Lifecycle => TypeInv'
<1> SUFFICES ASSUME TypeInv, Lifecycle PROVE TypeInv'
  OBVIOUS
<1>. USE DEF TypeInv, TypeOK, ForwardFinite, Proper, node, references, rule, states
<1>1. CASE on_configure
  <2>1. stored' \in 0..2 /\ subscribed' \in BOOLEAN
    BY <1>1 DEF on_configure, ForwardConfigure, GpioConfigure, PidConfigure, AdmittanceConfigure
  <2>2. box' \in MessageType /\ state_box' \in Measurements
    BY <1>1 DEF on_configure, Measurements, ForwardConfigure, GpioConfigure, PidConfigure,
        AdmittanceConfigure
  <2>. QED
    BY <1>1, <2>1, <2>2 DEF on_configure, Pids, ForwardConfigure, GpioConfigure, PidConfigure,
        AdmittanceConfigure
<1>2. CASE on_cleanup
  BY <1>2 DEF on_cleanup
<1>3. CASE on_activate
  <2>1. chained' \in BOOLEAN /\ Stale(box) \in MessageType /\ Stale(box).val = box.val
    BY <1>3, DerivedTypes DEF on_activate, GpioActivate
  <2>2. CASE controller \in {"forward", "gpio"} /\ ForwardActivate
    <3>1. /\ copy' \in MessageType /\ box' \in MessageType
          /\ controller = "forward" => Proper(copy') /\ Proper(box')
      BY <2>1, <2>2, MessageTypes DEF ForwardActivate
    <3>. QED
      BY <1>3, <2>1, <2>2, <3>1 DEF on_activate, ForwardActivate, GpioActivate
  <2>3. CASE controller \in Pids /\ \E first \in BOOLEAN : PidActivate(first)
    <3>1. PICK first \in BOOLEAN : PidActivate(first)
      BY <2>3
    <3>2. copy' \in MessageType /\ box' \in MessageType
      BY <3>1 DEF PidActivate
    <3>3. Both(NoMessage) \in [Joints -> MessageType]
          /\ Both(HereMessage) \in [Joints -> MessageType]
      BY MessageTypes, DerivedTypes
    <3>4. ref' \in [Joints -> MessageType]
      BY <3>1, <3>3 DEF PidActivate
    <3>5. state_box' \in Measurements /\ measured' \in Measurements
      BY <3>1 DEF PidActivate, Measurements
    <3>6. controller # "forward"
      BY <2>3 DEF Pids
    <3>. QED
      BY <1>3, <2>1, <3>1, <3>2, <3>4, <3>5, <3>6 DEF on_activate, PidActivate, GpioActivate
  <2>4. CASE controller = "admittance" /\ AdmittanceActivate
    <3>1. ref' \in [Joints -> MessageType] /\ lost' = lost
      BY <2>4, DerivedTypes DEF AdmittanceActivate
    <3>2. /\ last' \in [Joints -> MessageType] /\ commanded' \in [Joints -> MessageType]
          /\ \A i \in Joints : ~isnan(last'[i])
      <4>1. Both(HereMessage) \in [Joints -> MessageType]
        BY MessageTypes, DerivedTypes
      <4>. QED
        BY <2>4, <4>1 DEF AdmittanceActivate, read_state_from_hardware
    <3>3. copy' \in MessageType /\ box' \in MessageType
      BY <2>1, <2>4, MessageTypes DEF AdmittanceActivate
    <3>4. UNCHANGED states /\ controller \notin Pids \cup {"forward"}
      BY <2>4 DEF AdmittanceActivate, Pids
    <3>5. /\ lifecycle' = "active"
          /\ UNCHANGED <<controller, subscribed, stored, output, newest, rt, ex>>
      BY <1>3 DEF on_activate
    <3>. QED
      BY <2>1, <2>4, <3>1, <3>2, <3>3, <3>4, <3>5 DEF isnan
  <2>. QED
    BY <1>3, <2>2, <2>3, <2>4 DEF on_activate, GpioActivate
<1>4. CASE ActivateError
  BY <1>4 DEF ActivateError, on_error
<1>5. CASE on_deactivate
  <2>1. /\ state_box' \in Measurements /\ state_copy' \in Measurements
        /\ measured' \in Measurements
    BY <1>5 DEF on_deactivate, Aged, Old, Measurements, GpioDeactivate
  <2>2. /\ copy' \in MessageType /\ box' \in MessageType
        /\ ref' \in [Joints -> MessageType] /\ UNCHANGED <<last, commanded>>
        /\ lost' \in BOOLEAN
        /\ controller = "forward" => Proper(copy') /\ Proper(box')
    <3>1. CASE controller \in {"forward", "gpio"} /\ ForwardDeactivate
      BY <3>1, MessageTypes DEF ForwardDeactivate
    <3>2. CASE controller \in Pids /\ PidDeactivate
      <4>1. ref' \in [Joints -> MessageType]
        BY <3>2, DerivedTypes DEF PidDeactivate
      <4>. QED
        BY <3>2, <4>1 DEF Pids, PidDeactivate
    <3>3. CASE controller = "admittance" /\ AdmittanceDeactivate
      BY <3>3, MessageTypes, DerivedTypes DEF AdmittanceDeactivate
    <3>. QED
      BY <1>5, <3>1, <3>2, <3>3 DEF on_deactivate, GpioDeactivate
  <2>. QED
    BY <1>5, <2>1, <2>2, MessageTypes DEF on_deactivate, GpioDeactivate
<1>. QED
  BY <1>1, <1>2, <1>3, <1>4, <1>5 DEF Lifecycle

\* Every step keeps the types.
LEMMA NextTypeInv == TypeInv /\ [Next]_vars => TypeInv'
<1> SUFFICES ASSUME TypeInv, [Next]_vars PROVE TypeInv'
  OBVIOUS
<1>1. CASE UNCHANGED vars
  BY <1>1 DEF vars, node, references, rule, states, TypeInv, TypeOK, ForwardFinite, Proper, isnan
<1>. QED
  BY <1>1, CallbackTypeInv, UpdateTypeInv, LifecycleTypeInv DEF Next

\* The variables keep their types: the forward and PID controllers never command what is
\* not finite, and what the admittance controller falls back on is always a number.
THEOREM TypeCorrect == Spec => []TypeOK
<1>1. Spec => []TypeInv
  BY InitTypeInv, NextTypeInv, PTL DEF Spec
<1>2. TypeInv => TypeOK
  BY DEF TypeInv
<1>. QED
  BY <1>1, <1>2, PTL

-----------------------------------------------------------------------------
(* No command of an earlier activation.  While a forward controller is       *)
(* active, what it copied is fresh, and so is the box, unless the executor is *)
(* inside it and about to overwrite it: the attempt to clear the box can only *)
(* have failed for that.                                                     *)

ExecutorFresh == ex.msg.fresh
ForwardFresh ==
    lifecycle = "active" /\ controller \in {"forward", "gpio"} =>
        copy.fresh /\ (ex.pc # "locked" => box.fresh)
PidFresh ==
    lifecycle = "active" /\ controller = "pid" =>
        measured # "old" /\ (chained => \A i \in Joints : ref[i].fresh)
Cycle ==
    /\ rt # "idle" => lifecycle = "active"
    /\ rt = "reference" => ~chained
FreshInv == TypeInv /\ ExecutorFresh /\ ForwardFresh /\ PidFresh /\ Cycle

LEMMA InitFreshInv == Init => FreshInv
BY InitTypeInv, MessageTypes
   DEF Init, FreshInv, ExecutorFresh, ForwardFresh, PidFresh, Cycle, ExIdle

LEMMA CallbackFreshInv == FreshInv /\ Callback => FreshInv'
<1> SUFFICES ASSUME FreshInv, Callback PROVE FreshInv'
  OBVIOUS
<1>. USE DEF ExecutorFresh, ForwardFresh, PidFresh, Cycle, node, references, rule, states
<1>0. TypeInv'
  BY CallbackTypeInv DEF FreshInv
<1>. ex \in [pc : {"idle", "lock", "locked", "state_locked"}, msg : MessageType]
  BY DEF FreshInv, TypeInv, TypeOK
<1>1. CASE \E m \in Requests : reference_callback(m)
  <2>1. PICK m \in Requests : reference_callback(m)
    BY <1>1
  <2>2. m.fresh
    BY RequestTypes
  <2>. QED
    BY <1>0, <2>1, <2>2 DEF FreshInv, reference_callback
<1>2. CASE LockBox
  BY <1>0, <1>2 DEF FreshInv, LockBox
<1>3. CASE SetBox
  BY <1>0, <1>3, MessageTypes DEF FreshInv, SetBox, ExIdle
<1>4. CASE measured_state_callback
  BY <1>0, <1>4 DEF FreshInv, measured_state_callback
<1>5. CASE SetState
  BY <1>0, <1>5, MessageTypes DEF FreshInv, SetState, ExIdle
<1>. QED
  BY <1>1, <1>2, <1>3, <1>4, <1>5 DEF Callback

LEMMA UpdateFreshInv == FreshInv /\ Update => FreshInv'
<1> SUFFICES ASSUME FreshInv, Update PROVE FreshInv'
  OBVIOUS
<1>. USE DEF ExecutorFresh, ForwardFresh, PidFresh, Cycle, node, references, rule, states
<1>0. TypeInv'
  BY UpdateTypeInv DEF FreshInv
<1>1. CASE UpdateRead
  BY <1>0, <1>1 DEF FreshInv, UpdateRead, Free
<1>2. CASE UpdateChained
  <2>1. PidFresh'
    <3>1. \A i \in Joints : ref'[i] = ref[i] \/ ref'[i].fresh
      BY <1>2, ChainedReference DEF FreshInv, TypeInv, TypeOK
    <3>. QED
      BY <1>2, <3>1 DEF FreshInv, UpdateChained
  <2>. QED
    BY <1>0, <1>2, <2>1 DEF FreshInv, UpdateChained
<1>3. CASE UpdateReference
  <2>1. controller \notin {"forward", "gpio"}
    BY <1>3 DEF UpdateReference, Pids
  <2>2. ~chained
    BY <1>3 DEF FreshInv, UpdateReference
  <2>. QED
    BY <1>0, <1>3, <2>1, <2>2 DEF FreshInv, UpdateReference
<1>4. CASE UpdateWrite
  <2>1. PidFresh'
    <3>1. CASE controller = "pid"
      BY <1>4, <3>1 DEF FreshInv, UpdateWrite, PidWrite, Pids, PidMeasure
    <3>2. CASE controller # "pid"
      BY <1>4, <3>2 DEF UpdateWrite
    <3>. QED
      BY <3>1, <3>2
  <2>. QED
    BY <1>0, <1>4, <2>1 DEF FreshInv, UpdateWrite
<1>. QED
  BY <1>1, <1>2, <1>3, <1>4 DEF Update

LEMMA LifecycleFreshInv == FreshInv /\ Lifecycle => FreshInv'
<1> SUFFICES ASSUME FreshInv, Lifecycle PROVE FreshInv'
  OBVIOUS
<1>. USE DEF ExecutorFresh, ForwardFresh, PidFresh, Cycle, node, references, rule, states
<1>0. TypeInv'
  BY LifecycleTypeInv DEF FreshInv
<1>1. CASE on_activate
  <2>1. ForwardFresh'
    BY <1>1, MessageTypes DEF on_activate, ForwardActivate, Pids, Free, GpioActivate
  <2>2. PidFresh'
    <3>1. CASE controller = "pid"
      <4>1. PICK first \in BOOLEAN : PidActivate(first)
        BY <1>1, <3>1 DEF on_activate, GpioActivate
      <4>2. ref' = Both(HereMessage) \/ ref' = Both(NoMessage)
        BY <3>1, <4>1 DEF PidActivate
      <4>3. \A i \in Joints : ref'[i].fresh
        BY <4>2, MessageTypes, DerivedTypes
      <4>. QED
        BY <4>1, <4>3 DEF PidActivate
    <3>2. CASE controller # "pid"
      BY <1>1, <3>2 DEF on_activate, GpioActivate
    <3>. QED
      BY <3>1, <3>2
  <2>3. ExecutorFresh' /\ Cycle'
    BY <1>1 DEF FreshInv, on_activate, GpioActivate
  <2>. QED
    BY <1>0, <2>1, <2>2, <2>3 DEF FreshInv
<1>2. CASE on_configure \/ on_cleanup \/ ActivateError \/ on_deactivate
  <2>1. lifecycle' # "active" /\ rt' = "idle" /\ ex' = ex
    BY <1>2 DEF on_configure, on_cleanup, ActivateError, on_deactivate, ForwardConfigure,
        GpioConfigure, PidConfigure, AdmittanceConfigure, on_error, GpioDeactivate
  <2>. QED
    BY <1>0, <2>1 DEF FreshInv
<1>. QED
  BY <1>1, <1>2 DEF Lifecycle

LEMMA NextFreshInv == FreshInv /\ [Next]_vars => FreshInv'
<1> SUFFICES ASSUME FreshInv, [Next]_vars PROVE FreshInv'
  OBVIOUS
<1>1. CASE UNCHANGED vars
  BY <1>1, NextTypeInv
     DEF vars, node, references, rule, states, FreshInv, ExecutorFresh, ForwardFresh, PidFresh, Cycle
<1>. QED
  BY <1>1, CallbackFreshInv, UpdateFreshInv, LifecycleFreshInv DEF Next

-----------------------------------------------------------------------------
\* Only the end of a cycle writes commands, and writes what the invariant says is
\* fresh.
LEMMA StepWritesFresh == FreshInv /\ [Next]_vars => [WritesFresh]_vars
<1> SUFFICES ASSUME FreshInv, [Next]_vars PROVE WritesFresh \/ UNCHANGED vars
  OBVIOUS
<1>1. CASE UNCHANGED output
  BY <1>1 DEF WritesFresh
<1>2. CASE UpdateWrite
  <2>. USE DEF FreshInv, TypeInv, TypeOK
  <2>1. lifecycle = "active" /\ UNCHANGED <<controller, chained, copy>>
    BY <1>2 DEF UpdateWrite, Cycle, node
  <2>2. CASE controller = "forward" /\ ForwardWrite
    <3>1. PICK n \in Int :
            output' = [i \in Joints |-> IF i <= n THEN Part(copy) ELSE output[i]]
      BY <2>2, ForwardWrites
    <3>2. Part(copy).fresh
      BY <2>1, <2>2, DerivedTypes DEF ForwardFresh
    <3>3. \A i \in Joints : output'[i] # output[i] => output'[i].fresh
      BY <3>1, <3>2
    <3>. QED
      BY <2>1, <2>2, <3>3 DEF WritesFresh
  <2>3. CASE controller = "gpio" /\ GpioWrite
    <3>1. CASE copy.val = None
      BY <2>3, <3>1 DEF GpioWrite, WritesFresh
    <3>2. CASE copy.val # None
      <4>1. PICK J \in SUBSET Joints : Write(Both(copy), J)
        BY <2>3, <3>2 DEF GpioWrite
      <4>2. Both(copy) \in [Joints -> MessageType]
            /\ \A i \in Joints : Both(copy)[i].fresh = copy.fresh
        BY DerivedTypes
      <4>3. \A i \in Joints : output'[i] # output[i] => output'[i].fresh
        BY <2>1, <2>3, <4>1, <4>2, WriteType DEF ForwardFresh
      <4>. QED
        BY <2>3, <4>3 DEF WritesFresh
    <3>. QED
      BY <3>1, <3>2
  <2>4. CASE controller \in Pids /\ PidWrite
    <3>1. \A i \in Joints : output'[i] # output[i] =>
              measured' # "none" /\ output'[i] = ref[i]
      BY <2>4, WriteType DEF PidWrite, PidMeasure
    <3>2. controller = "pid" => measured' # "old" /\ measured' \in Measurements
      BY <2>1, <2>4 DEF PidWrite, PidFresh, Measurements, PidMeasure
    <3>. QED
      BY <2>1, <2>4, <3>1, <3>2 DEF WritesFresh, Pids, PidFresh, Measurements
  <2>5. CASE controller = "admittance"
    BY <2>5 DEF WritesFresh
  <2>. QED
    BY <1>2, <2>2, <2>3, <2>4, <2>5 DEF UpdateWrite
<1>. QED
  BY <1>1, <1>2
     DEF Next, Callback, reference_callback, LockBox, SetBox, measured_state_callback, SetState,
         Update, UpdateRead, UpdateChained, UpdateReference,
         Lifecycle, on_configure, on_cleanup, on_activate, ActivateError, on_deactivate, vars

\* No joint is given a command that was put into its place before the activation.
THEOREM NoStaleCommand == Spec => CommandsFresh
<1>1. Spec => []FreshInv
  BY InitFreshInv, NextFreshInv, PTL DEF Spec
<1>. QED
  BY <1>1, StepWritesFresh, PTL DEF Spec, CommandsFresh

=============================================================================
