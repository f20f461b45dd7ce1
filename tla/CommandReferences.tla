-------------------------- MODULE CommandReferences --------------------------
(****************************************************************************)
(* The controllers that pass references on joint by joint: the forward       *)
(* command controllers (forward), the GPIO command controller (gpio), the    *)
(* PID controller, on state interfaces (pid) or on measured states from a    *)
(* topic (pid_external), and the admittance controller.  A subscriber puts   *)
(* the last message into a box; update() copies it out, or has a preceding   *)
(* controller write the reference interfaces in chained mode, and writes the *)
(* command interfaces in every cycle.  A behaviour is one of one controller. *)
(*                                                                           *)
(* The real-time thread runs update() and the life cycle, the executor the   *)
(* topic callbacks, and any step of one may come between two of the other.   *)
(* The executor locks a box to write it; update() only tries to.             *)
(*                                                                           *)
(* There are two joints.  A message is one value for both; when it is not    *)
(* whole, it has too few values, or only its first group is well formed.     *)
(* What PID and admittance compute is left out: a command interface holds    *)
(* the reference its command was computed from, unless that was infinite.    *)
(* The forward controller is that of several joints; the one of several      *)
(* interfaces of a joint, which appends its interface types to those of an   *)
(* earlier configuration as the GPIO controller does, is left out.           *)
(* The definitions Faulty... are the mutants that the properties are tried on.*)
(****************************************************************************)
EXTENDS Integers

CONSTANTS
    Controllers,  \* those of this instance
    Values,       \* the values clients and preceding controllers ask for
    Lossy,        \* the joints whose command interfaces may fail to be written
    Here,         \* the value of the joints' own position
    Zero,         \* the value that the members of the admittance controller start with
    NaN, Inf,     \* a value that is not a number; an infinite one
    None          \* no command

AllControllers == {"forward", "gpio", "pid", "pid_external", "admittance"}

ASSUME ReferencesAssumption ==
    /\ Controllers \subseteq AllControllers
    /\ Lossy \subseteq 1..2
    /\ Values \cap {Here, Zero, NaN, Inf, None} = {}
    /\ {NaN, Inf, None} \cap {Here, Zero} = {}
    /\ NaN # Inf /\ NaN # None /\ Inf # None

VARIABLES
    controller,   \* which controller this is
    lifecycle,
    chained,      \* is_in_chained_mode()
    subscribed,   \* the subscription exists: it is never given up
    stored,       \* gpio: how often the interface types have been appended
    box,          \* rt_command_, input_ref_, input_joint_command_
    copy,         \* joint_commands_, gpio_commands_, current_ref_, joint_command_msg_
    ref,          \* ordered_exported_reference_interfaces_, of two joints
    last,         \* admittance: last_reference_
    commanded,    \* admittance: last_commanded_
    lost,         \* admittance: admittance_state_ is not a number any more
    state_box,    \* pid_external: measured_state_
    state_copy,   \* pid_external: current_state_
    measured,     \* measured_state_values_
    output,       \* the command interfaces of the two joints
    newest,       \* history: the last message put into the box while active, not chained
    rt, ex        \* the real-time thread: pc; the executor: pc and message

node == <<controller, lifecycle, chained, subscribed, stored>>
states == <<state_box, state_copy, measured>>
rule == <<last, commanded, lost>>
references == <<copy, ref, rule>>
vars == <<node, box, references, states, output, newest, rt, ex>>

Pids == {"pid", "pid_external"}
Chainable == Pids \cup {"admittance"}

\* fresh: put into its place since the last activation.  It is kept track of in what the
\* controllers clear: the box and the copy of forward and gpio, the references of pid.
Tracked == {"forward", "gpio", "pid"}
Message(val, whole) == [val |-> val, whole |-> whole, fresh |-> TRUE]
NoMessage == Message(None, TRUE)
HereMessage == Message(Here, TRUE)
Stale(m) == IF controller \in Tracked THEN [m EXCEPT !.fresh = FALSE] ELSE m

\* The tests of the code: a place without a command holds what is not a number.
isfinite(m) == m.val \notin {NaN, Inf, None}
isnan(m) == m.val \in {NaN, None}

\* What a message asks of each joint.
Joints == 1..2
Part(m) == [m EXCEPT !.whole = TRUE]
Both(m) == [i \in Joints |-> Part(m)]

\* A measured state is none, of this activation (new), or of one before (old).
Measurements == {"none", "old", "new"}
Old(s) == IF s = "new" /\ controller \in Tracked THEN "old" ELSE s

ExIdle == [pc |-> "idle", msg |-> NoMessage]

\* An attempt to lock a box fails while the executor is inside it.
Free == ex.pc # "locked"
StateFree == ex.pc # "state_locked"

Init ==
    /\ controller \in Controllers
    /\ lifecycle = "unconfigured" /\ chained = FALSE /\ subscribed = FALSE /\ stored = 0
    /\ box = NoMessage /\ copy = NoMessage /\ ref = Both(NoMessage)
    /\ last = Both(Message(Zero, TRUE)) /\ commanded = last /\ lost = FALSE
    /\ state_box = "none" /\ state_copy = "none" /\ measured = "none"
    /\ output = Both(NoMessage)
    /\ newest = NoMessage
    /\ rt = "idle" /\ ex = ExIdle

-----------------------------------------------------------------------------
(* The executor.                                                             *)

\* Which messages are put into the box.  PID, which forgets the names of its
\* joints in on_cleanup, checks the number of values.
ForwardTakes(m) == isfinite(m)
PidTakes(m) == m.whole /\ lifecycle # "unconfigured"
Takes(m) ==
    /\ controller = "forward" => ForwardTakes(m)
    /\ controller \in Pids => PidTakes(m)

\* What clients send; a value that is not finite comes for both joints.
Requests ==
    {Message(v, TRUE) : v \in Values \cup {NaN, Inf}} \cup {Message(v, FALSE) : v \in Values}

reference_callback(m) ==
    /\ ex.pc = "idle" /\ subscribed
    /\ Takes(m)
    /\ ex' = [pc |-> "lock", msg |-> m]
    /\ UNCHANGED <<node, box, references, states, output, newest, rt>>

LockBox ==
    /\ ex.pc = "lock"
    /\ ex' = [ex EXCEPT !.pc = "locked"]
    /\ UNCHANGED <<node, box, references, states, output, newest, rt>>

SetBox ==
    /\ ex.pc = "locked"
    /\ box' = ex.msg
    /\ newest' = IF lifecycle = "active" /\ ~chained /\ controller \notin Pids
                 THEN ex.msg ELSE newest
    /\ ex' = ExIdle
    /\ UNCHANGED <<node, references, states, output, rt>>

\* The topic of measured states, which has a box of its own.
measured_state_callback ==
    /\ controller = "pid_external"
    /\ ex.pc = "idle" /\ subscribed /\ lifecycle # "unconfigured"
    /\ ex' = [ex EXCEPT !.pc = "state_locked"]
    /\ UNCHANGED <<node, box, references, states, output, newest, rt>>

SetState ==
    /\ ex.pc = "state_locked"
    /\ state_box' = "new"
    /\ ex' = ExIdle
    /\ UNCHANGED <<node, box, references, state_copy, measured, output, newest, rt>>

Callback ==
    \/ \E m \in Requests : reference_callback(m)
    \/ LockBox \/ SetBox
    \/ measured_state_callback \/ SetState

-----------------------------------------------------------------------------
(* The real-time thread: update().                                           *)

FaultyUpdateRead ==
    /\ rt = "idle" /\ lifecycle = "active" /\ ~chained
    /\ copy' = IF Free THEN box ELSE NoMessage
    /\ box' = IF Free THEN NoMessage ELSE box
    /\ rt' = IF controller \in Chainable THEN "reference" ELSE "write"
    /\ UNCHANGED <<node, ref, rule, states, output, newest, ex>>

\* A cycle starts with the message in the box, or with that of the cycle before.
UpdateRead ==
    /\ rt = "idle" /\ lifecycle = "active" /\ ~chained
    /\ copy' = IF Free THEN box ELSE copy
    /\ rt' = IF controller \in Chainable THEN "reference" ELSE "write"
    /\ UNCHANGED <<node, box, ref, rule, states, output, newest, ex>>

\* In chained mode a preceding controller writes the references of the first n joints
\* before, which may be none; None stands for what is not a number, as after a reset.
UpdateChained ==
    /\ rt = "idle" /\ lifecycle = "active" /\ chained
    /\ \E n \in 0..2, v \in Values \cup {None, Inf} :
           ref' = [i \in Joints |-> IF i <= n THEN Message(v, TRUE) ELSE ref[i]]
    /\ rt' = "write"
    /\ UNCHANGED <<node, box, copy, rule, states, output, newest, ex>>

\* update_reference_from_subscribers() of PID takes a reference once: it writes the
\* cleared copy back, also over a message that has come since it read the box.
PidReference ==
    /\ ref' = IF isnan(copy) THEN ref ELSE Both(copy)
    /\ copy' = [copy EXCEPT !.val = None]
    /\ box' = IF Free THEN copy' ELSE box

\* That of the admittance controller writes its reference again in every cycle, to
\* the joints it has a value for.
AdmittanceReference ==
    /\ ref' = [i \in Joints |-> IF copy.val # None /\ (copy.whole \/ i = 1)
                               THEN Part(copy) ELSE ref[i]]
    /\ UNCHANGED <<box, copy>>

UpdateReference ==
    /\ rt = "reference"
    /\ \/ controller \in Pids /\ PidReference
       \/ controller = "admittance" /\ AdmittanceReference
    /\ rt' = "write"
    /\ UNCHANGED <<node, rule, states, output, newest, ex>>

\* The command interface of each joint of J is given what asked holds for it; each of
\* the writes may fail that may fail at all.
Write(asked, J) ==
    \E failed \in SUBSET (J \cap Lossy) :
        output' = [i \in Joints |-> IF i \in J \ failed THEN asked[i] ELSE output[i]]

\* The forward controllers do not write a command of the wrong size at all, and stop
\* at the first write that fails.
ForwardWrite ==
    /\ \E n \in IF copy.val # None /\ copy.whole
              THEN {2} \cup {i - 1 : i \in Lossy} ELSE {0} :
           output' = [i \in Joints |-> IF i <= n THEN Part(copy) ELSE output[i]]
    /\ UNCHANGED <<ref, rule, state_copy, measured>>

\* The groups before a malformed one are written.
GpioWrite ==
    /\ IF copy.val # None THEN Write(Both(copy), IF copy.whole THEN Joints ELSE {1})
       ELSE UNCHANGED output
    /\ UNCHANGED <<ref, rule, state_copy, measured>>

\* What the state interfaces or the topic give.
PidMeasure ==
    IF controller = "pid"
    THEN measured' \in {measured, "new"} /\ UNCHANGED state_copy
    ELSE /\ state_copy' = IF StateFree THEN state_box ELSE state_copy
         /\ measured' = state_copy'

\* Without a reference and a measurement the last command stays.
PidWrite ==
    /\ PidMeasure
    /\ Write(ref, {i \in Joints : isfinite(ref[i]) /\ measured' # "none"})
    /\ UNCHANGED <<ref, rule>>

\* A reference that is not a number is replaced by the last one.
read_state_reference_interfaces ==
    [i \in Joints |-> IF isnan(ref[i]) THEN last[i] ELSE ref[i]]

\* The admittance rule adds to the references what it integrates.  An infinite one may
\* leave that not a number, depending on the kinematics, and so it stays for all joints.
\* In a cycle that cannot solve the kinematics the references are the command.
AdmittanceRule ==
    /\ lost' \in IF \E i \in Joints : ref'[i].val = Inf THEN {lost, TRUE} ELSE {lost}
    /\ \E solved \in BOOLEAN :
           commanded' = [i \in Joints |-> IF lost' /\ solved THEN [ref'[i] EXCEPT !.val = NaN]
                                         ELSE ref'[i]]

FaultyAdmittanceWrite ==
    /\ ref' = read_state_reference_interfaces
    /\ last' = ref
    /\ AdmittanceRule
    /\ Write(commanded', Joints)
    /\ UNCHANGED <<state_copy, measured>>

AdmittanceWrite ==
    /\ ref' = read_state_reference_interfaces
    /\ last' = ref'
    /\ AdmittanceRule
    /\ Write(commanded', Joints)
    /\ UNCHANGED <<state_copy, measured>>

UpdateWrite ==
    /\ rt = "write"
    /\ \/ controller = "forward" /\ ForwardWrite
       \/ controller = "gpio" /\ GpioWrite
       \/ controller \in Pids /\ PidWrite
       \/ controller = "admittance" /\ AdmittanceWrite
    /\ rt' = "idle"
    /\ UNCHANGED <<node, box, copy, state_box, newest, ex>>

Update == UpdateRead \/ UpdateChained \/ UpdateReference \/ UpdateWrite

-----------------------------------------------------------------------------
(* The life cycle.                                                           *)

ForwardConfigure == UNCHANGED <<stored, box, state_box>>
AdmittanceConfigure == UNCHANGED <<stored, box, state_box>>

\* The types of the interfaces are appended to those of an earlier configuration.
GpioConfigure ==
    /\ stored' = IF stored < 2 THEN stored + 1 ELSE stored
    /\ UNCHANGED <<box, state_box>>

\* PID puts its copy into the box, resized but not cleared.
PidConfigure ==
    /\ Free /\ StateFree
    /\ box' = copy /\ state_box' = "none"
    /\ UNCHANGED stored

on_configure ==
    /\ rt = "idle" /\ lifecycle = "unconfigured"
    /\ lifecycle' = "inactive" /\ subscribed' = TRUE
    /\ \/ controller = "forward" /\ ForwardConfigure
       \/ controller = "gpio" /\ GpioConfigure
       \/ controller \in Pids /\ PidConfigure
       \/ controller = "admittance" /\ AdmittanceConfigure
    /\ UNCHANGED <<controller, chained, references, state_copy, measured, output, newest,
                   rt, ex>>

on_cleanup ==
    /\ rt = "idle" /\ lifecycle = "inactive"
    /\ lifecycle' = "unconfigured"
    /\ UNCHANGED <<controller, chained, subscribed, stored, box, references, states,
                   output, newest, rt, ex>>

FaultyForwardActivate ==
    /\ copy' = NoMessage /\ box' = Stale(box)
    /\ UNCHANGED <<ref, rule, states>>

ForwardActivate ==
    /\ copy' = NoMessage
    /\ box' = IF Free THEN NoMessage ELSE Stale(box)
    /\ UNCHANGED <<ref, rule, states>>

\* After a second configuration it finds fewer interfaces than types.
InterfacesMatch == stored = 1
GpioActivate == InterfacesMatch /\ ForwardActivate

\* PID reads the box and writes the same back, then has no reference, or the state
\* measured for its first.  With measured states from the topic the last of them
\* has been replaced by that of an earlier activation before it is looked at.
PidActivate(first) ==
    /\ copy' = IF Free THEN box ELSE copy
    /\ state_box' = IF StateFree THEN state_copy ELSE state_box
    /\ measured' = "none"
    /\ ref' = IF /\ first
                 /\ controller = "pid" \/ (StateFree /\ state_box' # "none")
              THEN Both(HereMessage) ELSE Both(NoMessage)
    /\ UNCHANGED <<box, rule, state_copy>>

\* The position of the joints, or, when one cannot be read, what they were last given.
read_state_from_hardware ==
    {Both(HereMessage), commanded}

\* It is the last reference, unless it is not a number.  The box is left as it is.
AdmittanceActivate ==
    /\ copy' = NoMessage
    /\ last' \in read_state_from_hardware
    /\ \A i \in Joints : ~isnan(last'[i])
    /\ commanded' = last'
    /\ UNCHANGED <<box, ref, lost, states>>

\* The controller manager sets the mode of a chainable controller before.
on_activate ==
    /\ rt = "idle" /\ lifecycle = "inactive"
    /\ lifecycle' = "active"
    /\ chained' \in IF controller \in Chainable THEN BOOLEAN ELSE {FALSE}
    /\ \/ controller = "forward" /\ ForwardActivate
       \/ controller = "gpio" /\ GpioActivate
       \/ controller \in Pids /\ \E first \in BOOLEAN : PidActivate(first)
       \/ controller = "admittance" /\ AdmittanceActivate
    /\ UNCHANGED <<controller, subscribed, stored, output, newest, rt, ex>>

\* The activation of the admittance controller fails when positions cannot be read and
\* its last commands were not numbers; its on_error() succeeds, the GPIO controller has
\* none.
on_error ==
    /\ controller = "admittance" /\ \E i \in Joints : isnan(commanded[i])
    /\ lifecycle' = "unconfigured"

ActivateError ==
    /\ rt = "idle" /\ lifecycle = "inactive"
    /\ \/ controller = "gpio" /\ ~InterfacesMatch /\ lifecycle' = "finalized"
       \/ on_error
    /\ UNCHANGED <<controller, chained, subscribed, stored, box, references, states,
                   output, newest, rt, ex>>

\* The robot may be moved until the next activation.
Aged ==
    /\ state_box' = Old(state_box) /\ state_copy' = Old(state_copy)
    /\ measured' = Old(measured)

ForwardDeactivate ==
    /\ copy' = NoMessage
    /\ box' = IF Free THEN NoMessage ELSE box
    /\ UNCHANGED <<ref, rule>>
GpioDeactivate == ForwardDeactivate

\* PID has no on_deactivate: its reference interfaces stay as they are.
PidDeactivate ==
    /\ ref' = [i \in Joints |-> Stale(ref[i])]
    /\ UNCHANGED <<box, copy, rule>>

\* Admittance clears its reference interfaces and the copy, and the state of its rule.
AdmittanceDeactivate ==
    /\ copy' = NoMessage /\ ref' = Both(NoMessage) /\ lost' = FALSE
    /\ UNCHANGED <<box, last, commanded>>

on_deactivate ==
    /\ rt = "idle" /\ lifecycle = "active"
    /\ lifecycle' = "inactive"
    /\ \/ controller = "forward" /\ ForwardDeactivate
       \/ controller = "gpio" /\ GpioDeactivate
       \/ controller \in Pids /\ PidDeactivate
       \/ controller = "admittance" /\ AdmittanceDeactivate
    /\ Aged
    /\ newest' = NoMessage
    /\ UNCHANGED <<controller, chained, subscribed, stored, output, rt, ex>>

Lifecycle == on_configure \/ on_cleanup \/ on_activate \/ ActivateError \/ on_deactivate

Next == Callback \/ Update \/ Lifecycle

Spec == Init /\ [][Next]_vars

Written ==
    /\ UpdateWrite
    /\ output' = CASE controller \in {"forward", "gpio"} -> Both(copy)
                   [] controller \in Pids -> ref'
                   [] controller = "admittance" -> commanded'

\* The cycle is periodic: an active controller finds the box free again and again, and
\* can write all its command interfaces again and again.
FairSpec ==
    /\ Spec
    /\ []<>(lifecycle # "active" \/ chained) \/ []<><<UpdateRead /\ Free>>_vars
    /\ SF_vars(Written)

-----------------------------------------------------------------------------
(* Properties.                                                               *)

MessageType ==
    [val : Values \cup {Here, Zero, NaN, Inf, None}, whole : BOOLEAN, fresh : BOOLEAN]

\* The variables keep their types.  With that the forward and PID controllers never
\* command a value that is not finite; the GPIO controller does when it is asked to, and
\* the admittance controller once it was given an infinite reference, as it tests only
\* for NaN.  The reference it falls back on is always a number.
TypeOK ==
    /\ controller \in Controllers
    /\ lifecycle \in {"unconfigured", "inactive", "active", "finalized"}
    /\ chained \in BOOLEAN /\ subscribed \in BOOLEAN /\ stored \in 0..2
    /\ box \in MessageType /\ copy \in MessageType /\ newest \in MessageType
    /\ ref \in [Joints -> MessageType] /\ last \in [Joints -> MessageType]
    /\ commanded \in [Joints -> MessageType] /\ lost \in BOOLEAN
    /\ output \in [Joints -> MessageType]
    /\ state_box \in Measurements /\ state_copy \in Measurements
    /\ measured \in Measurements
    /\ rt \in {"idle", "reference", "write"}
    /\ ex \in [pc : {"idle", "lock", "locked", "state_locked"}, msg : MessageType]
    /\ \A i \in Joints : ~isnan(last[i])
    /\ controller \in Pids \cup {"forward"} =>
           \A i \in Joints : output[i].val \notin {NaN, Inf}

\* A joint is never given a command that was put into its place before the activation,
\* however the message's callback and the clearing of the box interleave: not by the
\* forward and GPIO controllers, and not by PID in chained mode, on a state measured
\* since.  A message counts from when it is put into the box, though its callback may
\* have begun before.  The others do not clear what an earlier activation has left.
WritesFresh ==
    \A i \in Joints : output'[i] # output[i] =>
        /\ controller \in {"forward", "gpio"} => output'[i].fresh
        /\ controller = "pid" => measured' = "new" /\ (chained => output'[i].fresh)
CommandsFresh == [][WritesFresh]_vars

\* Of the messages of an activation the newest, of finite values, gets to the interfaces of all
\* joints, also when an update could not lock the box, or could not write some of
\* them.  It does not with PID, which may overwrite it with its cleared copy, nor with
\* admittance after an infinite reference.
Arrives(m) ==
    /\ newest = m /\ m.whole /\ controller \notin Pids
    /\ controller = "admittance" => ~lost
    /\ lifecycle = "active" /\ ~chained
NewestIsCommanded ==
    \A v \in Values :
        LET m == Message(v, TRUE) IN
        Arrives(m) ~> (output = Both(m) \/ ~Arrives(m))
=============================================================================
