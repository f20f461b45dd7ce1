--------------------------- MODULE Trajectory_proofs ---------------------------
(****************************************************************************)
(* Theorems about the sampling of trajectories, for any set of accepted      *)
(* messages, any steps of the cycle and any update period: the search that   *)
(* starts where the last one ended finds the right segment all the same, and *)
(* positions are deduced before they are used.                               *)
(****************************************************************************)
EXTENDS Trajectory, WellFoundedInduction, TLAPS

-----------------------------------------------------------------------------
(* Messages, and the search for a segment.                                   *)

Message(m) ==
    /\ m.at \in Seq(Nat) /\ Len(m.at) > 0 /\ m.given \subseteq DOMAIN m.at
    /\ m.offset \in Int /\ m.offset <= MaxTime
    /\ \A i \in 1..Len(m.at) - 1 : m.at[i] < m.at[i + 1]

LEMMA AreMessages == \A m \in Trajectories \cup {Hold} : Message(m)
<1>1. ASSUME NEW m \in Trajectories PROVE Message(m)
  <2>1. /\ m.at \in Seq(Nat) /\ Len(m.at) > 0 /\ m.given \subseteq DOMAIN m.at
        /\ \A i \in 1..Len(m.at) - 1 : m.at[i] < m.at[i + 1]
        /\ m.offset \in Int /\ m.offset <= m.at[Len(m.at)]
        /\ m.at[Len(m.at)] < MaxTime /\ MaxTime \in Nat
    BY TrajectoryAssumption
  <2>2. m.at[Len(m.at)] \in Nat
    BY <2>1
  <2>. QED
    BY <2>1, <2>2 DEF Message
<1>2. Message(Hold)
  BY TrajectoryAssumption DEF Message, Hold
<1>. QED
  BY <1>1, <1>2

LEMMA PointsTyped ==
    ASSUME NEW m, Message(m)
    PROVE  /\ Last(m) \in Nat /\ Last(m) > 0 /\ DOMAIN m.at = 1..Last(m)
           /\ \A i \in 1..Last(m) : m.at[i] \in Nat
           /\ \A i \in 1..Last(m) - 1 : m.at[i] < m.at[i + 1]
BY DEF Message, Last

\* A set of naturals has a least one.
LEMMA LeastNat ==
    ASSUME NEW T, T \subseteq Nat, T # {}
    PROVE  \E x \in T : \A y \in T : x <= y
<1>1. \E x \in T : \A y \in T : ~(<<y, x>> \in OpToRel(<, Nat))
  BY NatLessThanWellFounded, WFMin, Zenon
<1>2. PICK x \in T : \A y \in T : ~(<<y, x>> \in OpToRel(<, Nat))
  BY <1>1
<1>3. ASSUME NEW y \in T PROVE x <= y
  <2>1. x \in Nat /\ y \in Nat
    OBVIOUS
  <2>2. ~(y < x)
    BY <1>2, <1>3, <2>1 DEF OpToRel
  <2>. QED
    BY <2>1, <2>2
<1>. QED
  BY <1>3

\* The times rise from every point to every later one.
LEMMA TimesRise ==
    ASSUME NEW m, Message(m),
           NEW i \in 1..Last(m), NEW j \in 1..Last(m), i < j
    PROVE  m.at[i] < m.at[j]
<1> DEFINE T == {k \in 1..Last(m) : i < k /\ ~(m.at[i] < m.at[k])}
<1>0. /\ Last(m) \in Nat /\ \A k \in 1..Last(m) : m.at[k] \in Nat
      /\ \A k \in 1..Last(m) - 1 : m.at[k] < m.at[k + 1]
  BY PointsTyped
<1> SUFFICES ASSUME ~(m.at[i] < m.at[j]) PROVE FALSE
  OBVIOUS
<1>1. T \subseteq Nat /\ T # {}
  BY <1>0
<1>2. PICK x \in T : \A y \in T : x <= y
  <2> HIDE DEF T
  <2>. QED
    BY <1>1, LeastNat
<1>3. /\ x \in Nat /\ x \in 1..Last(m) /\ i < x /\ ~(m.at[i] < m.at[x])
      /\ x - 1 \in 1..Last(m) - 1 /\ x - 1 \in 1..Last(m) /\ (x - 1) + 1 = x
  BY <1>0
<1>4. m.at[x - 1] < m.at[x] /\ x - 1 \notin T
  <2>1. m.at[x - 1] < m.at[(x - 1) + 1]
    BY <1>0, <1>3
  <2>2. ~(x <= x - 1)
    BY <1>3
  <2>3. x - 1 \notin T
    BY <1>2, <2>2, Zenon
  <2>. QED
    BY <1>3, <2>1, <2>3
<1>5. i = x - 1 \/ m.at[i] < m.at[x - 1]
  BY <1>3, <1>4
<1>. QED
  BY <1>0, <1>3, <1>4, <1>5

\* The least segment found, which CHOOSE returns.
LEMMA FirstFound ==
    ASSUME NEW found, found \subseteq Nat, found # {}
    PROVE  (CHOOSE j \in found : \A k \in found : j <= k) \in found
<1>1. \E j \in found : \A k \in found : j <= k
  BY LeastNat
<1>. QED
  BY <1>1

\* A search from a point that is not past t finds nothing only after the end.
LEMMA NothingFoundAtEnd ==
    ASSUME NEW m, Message(m), NEW idx \in 1..Last(m), NEW t \in Int,
           m.at[idx] <= t, \A i \in idx..Last(m) : ~Within(m, i, t)
    PROVE  m.at[Last(m)] <= t
<1> DEFINE T == {k \in idx..Last(m) : t < m.at[k]}
<1>0. Last(m) \in Nat /\ \A k \in 1..Last(m) : m.at[k] \in Nat
  BY PointsTyped
<1> SUFFICES ASSUME ~(m.at[Last(m)] <= t) PROVE FALSE
  OBVIOUS
<1>1. T \subseteq Nat /\ T # {}
  <2>1. Last(m) \in T
    BY <1>0
  <2>. QED
    BY <1>0, <2>1
<1>2. PICK x \in T : \A y \in T : x <= y
  <2> HIDE DEF T
  <2>. QED
    BY <1>1, LeastNat
<1>3. /\ x \in Nat /\ x \in idx..Last(m) /\ t < m.at[x] /\ x # idx
      /\ x - 1 \in idx..Last(m) /\ (x - 1) + 1 = x /\ x - 1 < Last(m)
  BY <1>0
<1>4. x - 1 \notin T
  <2>1. ~(x <= x - 1)
    BY <1>3
  <2>. QED
    BY <1>2, <2>1, Zenon
<1>5. m.at[x - 1] <= t
  BY <1>0, <1>3, <1>4
<1>6. Within(m, x - 1, t)
  BY <1>3, <1>5 DEF Within
<1>. QED
  BY <1>3, <1>6

-----------------------------------------------------------------------------
(* What a sample returns, and the store it leaves.                           *)

Stores(m) == [idx : 1..Last(m), known : SUBSET (1..Last(m))]

\* Before the first point, in segment i, or past the end of the search.
SampledEarly(m, st, t, r) ==
    /\ t < m.at[1]
    /\ r.segment = Segment(TRUE, 1, 1, TRUE)
    /\ r.store = [idx |-> st.idx, known |-> Deduce(st.known, 1)]

SampledIn(m, st, t, monotonic, r, i) ==
    /\ i \in st.idx..Last(m) - 1 /\ Within(m, i, t) /\ m.at[1] <= t
    /\ r.segment = Segment(TRUE, i, i + 1, i \in st.known)
    /\ r.store = [idx |-> NextIdx(i, st.idx, monotonic), known |-> Deduce(st.known, i + 1)]

SampledPast(m, st, t, r) ==
    LET known == Recover(m, st.known)
        inLast == Last(m) \in known
    IN  /\ m.at[1] <= t /\ \A i \in st.idx..Last(m) : ~Within(m, i, t)
        /\ r.segment = Segment(inLast, IF inLast THEN Last(m) ELSE Last(m) + 1,
                               Last(m) + 1, TRUE)
        /\ r.store = [idx |-> Last(m), known |-> known]

LEMMA SampleCases ==
    ASSUME NEW m, Message(m), NEW st \in Stores(m), NEW t \in Int, NEW before \in Int,
           NEW monotonic \in BOOLEAN, NEW r, r = sample(m, st, t, before, monotonic)
    PROVE  \/ t < before /\ r.segment = Nowhere /\ r.store = st
           \/ before <= t /\ SampledEarly(m, st, t, r)
           \/ before <= t /\ \E i \in Int : SampledIn(m, st, t, monotonic, r, i)
           \/ before <= t /\ SampledPast(m, st, t, r)
<1> DEFINE found == {i \in st.idx..Last(m) : Within(m, i, t)}
           i == CHOOSE j \in found : \A k \in found : j <= k
           known == Recover(m, st.known)
           inLast == Last(m) \in known
<1>0. /\ Last(m) \in Nat /\ Last(m) > 0 /\ st.idx \in 1..Last(m)
      /\ \A k \in 1..Last(m) : m.at[k] \in Nat
      /\ m.at[1] \in Nat
  <2>1. Last(m) \in Nat /\ Last(m) > 0 /\ \A k \in 1..Last(m) : m.at[k] \in Nat
    BY PointsTyped
  <2>. QED
    BY <2>1 DEF Stores
<1>1. CASE t < before
  <2>1. ~(t >= before)
    BY <1>1
  <2>2. r = [segment |-> Nowhere, store |-> st]
    BY <1>1, <2>1, Zenon DEF sample
  <2>. QED
    BY <1>1, <2>2
<1>2. CASE before <= t /\ t < m.at[1]
  <2>1. r = [segment |-> Segment(TRUE, 1, 1, TRUE),
             store |-> [st EXCEPT !.known = Deduce(@, 1)]]
    <3>1. ~(t < before) /\ ~(t >= m.at[1]) /\ t >= before
      BY <1>0, <1>2
    <3>. QED
      BY <1>2, <3>1, Zenon DEF sample
  <2>2. [st EXCEPT !.known = Deduce(@, 1)] = [idx |-> st.idx, known |-> Deduce(st.known, 1)]
    BY DEF Stores
  <2>3. SampledEarly(m, st, t, r)
    BY <1>2, <2>1, <2>2 DEF SampledEarly
  <2>. QED
    BY <1>2, <2>3
<1>3. CASE before <= t /\ m.at[1] <= t /\ found # {}
  <2>1. found \subseteq Nat
    BY <1>0
  <2>2. i \in found
    <3> HIDE DEF found
    <3>. QED
      BY <1>3, <2>1, FirstFound
  <2>3. r = [segment |-> Segment(TRUE, i, i + 1, i \in st.known),
             store |-> [idx |-> NextIdx(i, st.idx, monotonic),
                        known |-> Deduce(st.known, i + 1)]]
    <3>1. ~(t < before) /\ ~(t < m.at[1]) /\ t >= before /\ t >= m.at[1]
      BY <1>0, <1>3
    <3>. QED
      BY <1>3, <3>1, Zenon DEF sample
  <2>4. i \in st.idx..Last(m) - 1 /\ Within(m, i, t) /\ i \in Int
    <3>1. i \in st.idx..Last(m) /\ Within(m, i, t)
      <4> HIDE DEF i
      <4>. QED
        BY <2>2
    <3> HIDE DEF i
    <3>. QED
      BY <1>0, <3>1 DEF Within
  <2> HIDE DEF i
  <2>5. /\ r.segment = Segment(TRUE, i, i + 1, i \in st.known)
        /\ r.store = [idx |-> NextIdx(i, st.idx, monotonic), known |-> Deduce(st.known, i + 1)]
    BY <2>3
  <2>. QED
    BY <1>3, <2>4, <2>5 DEF SampledIn
<1>4. CASE before <= t /\ m.at[1] <= t /\ found = {}
  <2>1. ~(t < before) /\ ~(t < m.at[1]) /\ t >= before /\ t >= m.at[1]
    BY <1>0, <1>4
  <2>2. r = [segment |-> Segment(inLast, IF inLast THEN Last(m) ELSE Last(m) + 1,
                                 Last(m) + 1, TRUE),
             store |-> [idx |-> Last(m), known |-> known]]
    BY <1>4, <2>1, Zenon DEF sample
  <2>3. \A k \in st.idx..Last(m) : ~Within(m, k, t)
    BY <1>4
  <2>4. /\ r.segment = Segment(inLast, IF inLast THEN Last(m) ELSE Last(m) + 1,
                               Last(m) + 1, TRUE)
        /\ r.store = [idx |-> Last(m), known |-> known]
    BY <2>2
  <2>. QED
    BY <1>4, <2>3, <2>4 DEF SampledPast
<1>. QED
  BY <1>0, <1>1, <1>2, <1>3, <1>4

\* A sample keeps what is known, and returns a store and a segment of the message.
LEMMA SampleTyped ==
    ASSUME NEW m, Message(m), NEW st \in Stores(m), NEW t \in Int, NEW before \in Int,
           NEW monotonic \in BOOLEAN, NEW r, r = sample(m, st, t, before, monotonic)
    PROVE  r.store \in Stores(m) /\ st.known \subseteq r.store.known
           /\ r.segment \in Segments(m)
<1>0. Last(m) \in Nat /\ Last(m) > 0 /\ st.idx \in 1..Last(m) /\ st.known \subseteq 1..Last(m)
  BY PointsTyped DEF Stores
<1>1. CASE r.segment = Nowhere /\ r.store = st
  BY <1>0, <1>1 DEF Nowhere, Segment, Segments
<1>2. CASE SampledEarly(m, st, t, r)
  BY <1>0, <1>2 DEF SampledEarly, Deduce, Segment, Segments, Stores
<1>3. CASE \E i \in Int : SampledIn(m, st, t, monotonic, r, i)
  BY <1>0, <1>3 DEF SampledIn, Deduce, NextIdx, Segment, Segments, Stores
<1>4. CASE SampledPast(m, st, t, r)
  <2>1. st.known \subseteq Recover(m, st.known) /\ Recover(m, st.known) \subseteq 1..Last(m)
    BY <1>0 DEF Recover
  <2>. QED
    BY <1>0, <1>4, <2>1 DEF SampledPast, Segment, Segments, Stores
<1>. QED
  BY <1>1, <1>2, <1>3, <1>4, SampleCases
-----------------------------------------------------------------------------
(* Types, with what the code keeps true of its clocks.                       *)

FlagsTyped == sampled_already \in BOOLEAN /\ queried \in BOOLEAN

MessageTyped ==
    /\ trajectory_msg \in Trajectories \cup {Hold}
    /\ store \in Stores(trajectory_msg)
    /\ trajectory_msg.given \subseteq store.known
    /\ desired \in Segments(trajectory_msg) /\ next \in Segments(trajectory_msg)

TimesTyped ==
    /\ time_before_traj_msg \in Int /\ traj_time \in Int
    /\ time_before_traj_msg <= traj_time /\ traj_time <= MaxTime

\* Only the trajectory that holds position after the activation is unsampled.
HoldsFirst == ~sampled_already => /\ trajectory_msg = Hold /\ store.idx = 1
                                  /\ time_before_traj_msg = 0

TypeInv == FlagsTyped /\ MessageTyped /\ TimesTyped /\ HoldsFirst

LEMMA InitTypeInv == Init => TypeInv
<1> SUFFICES ASSUME Init PROVE TypeInv
  OBVIOUS
<1>1. FlagsTyped /\ HoldsFirst
  BY DEF Init, FlagsTyped, HoldsFirst
<1>2. MessageTyped
  <2>1. Last(Hold) = 1 /\ Hold.given = {1}
    BY DEF Last, Hold
  <2>. QED
    BY <2>1 DEF Init, MessageTyped, Stores, Segments, Segment, Nowhere
<1>3. TimesTyped
  BY TrajectoryAssumption DEF Init, TimesTyped
<1>. QED
  BY <1>1, <1>2, <1>3 DEF TypeInv

LEMMA TwiceTyped ==
    ASSUME NEW m, Message(m), NEW st \in Stores(m), NEW t \in Int, NEW before \in Int,
           SampleTwice(m, st, t, before)
    PROVE  /\ store' \in Stores(m) /\ st.known \subseteq store'.known
           /\ desired' \in Segments(m) /\ next' \in Segments(m)
           /\ traj_time' = t /\ time_before_traj_msg' = before
<1> DEFINE now == sample(m, st, t, before, TRUE)
           ahead == sample(m, now.store, t + UpdatePeriod, before, FALSE)
<1>1. /\ traj_time' = t /\ time_before_traj_msg' = before
      /\ desired' = now.segment /\ next' = ahead.segment /\ store' = ahead.store
  BY DEF SampleTwice
<1>2. now.store \in Stores(m) /\ st.known \subseteq now.store.known /\ now.segment \in Segments(m)
  BY SampleTyped
<1>3. t + UpdatePeriod \in Int
  BY TrajectoryAssumption
<1>4. /\ ahead.store \in Stores(m) /\ now.store.known \subseteq ahead.store.known
      /\ ahead.segment \in Segments(m)
  <2> HIDE DEF now
  <2>. QED
    BY <1>2, <1>3, SampleTyped
<1>. QED
  BY <1>1, <1>2, <1>4, Zenon

\* The two samples of any cycle, with what they find: m is the message they take, st
\* the store and t the time they start from.
Cycle(m, st, t) ==
    /\ Message(m) /\ st \in Stores(m) /\ m.given \subseteq st.known
    /\ t \in Int /\ time_before_traj_msg' \in Int /\ time_before_traj_msg' <= t /\ t <= MaxTime
    /\ SampleTwice(m, st, t, time_before_traj_msg')
    /\ trajectory_msg' = m /\ sampled_already' = TRUE

\* The first cycle of a message.
LEMMA ReplaceIsCycle ==
    ASSUME NEW m \in Trajectories, trajectory_msg' = m, FirstCycle(m, Updated(m), m.offset)
    PROVE  Cycle(m, Updated(m), m.offset)
<1>1. Message(m)
  BY AreMessages
<1>2. m.offset \in Int /\ m.offset <= MaxTime /\ m.given \subseteq 1..Last(m) /\ 1 \in 1..Last(m)
  <2>1. DOMAIN m.at = 1..Last(m) /\ 1 \in 1..Last(m)
    BY <1>1, PointsTyped
  <2>. QED
    BY <1>1, <2>1 DEF Message
<1>3. Updated(m) \in Stores(m) /\ m.given \subseteq Updated(m).known
  BY <1>2 DEF Updated, Stores
<1>4. SampleTwice(m, Updated(m), m.offset, m.offset) /\ sampled_already' = TRUE
  BY DEF FirstCycle, IsSampled
<1>5. time_before_traj_msg' = m.offset
  BY <1>4 DEF SampleTwice
<1>. QED
  BY <1>1, <1>2, <1>3, <1>4, <1>5 DEF Cycle

\* Any other cycle: time goes on by a step at most, and the first one of the
\* trajectory that holds position is at time 0.
LEMMA ContinueIsCycle ==
    ASSUME TypeInv, NEW step \in Steps, Continue(step)
    PROVE  /\ queried' = queried
           /\ \E t \in Int :
                  /\ Cycle(trajectory_msg, store, t)
                  /\ \/ sampled_already /\ traj_time <= t /\ t <= traj_time + step
                     \/ ~sampled_already /\ t = 0
<1>0. /\ MaxTime \in Nat /\ step \in Nat
      /\ traj_time \in Int /\ traj_time <= MaxTime
      /\ time_before_traj_msg \in Int /\ time_before_traj_msg <= traj_time
  BY TrajectoryAssumption DEF TypeInv, TimesTyped
<1>1. /\ Message(trajectory_msg) /\ store \in Stores(trajectory_msg)
      /\ trajectory_msg.given \subseteq store.known
  BY AreMessages DEF TypeInv, MessageTyped
<1>2. trajectory_msg' = trajectory_msg /\ queried' = queried
  BY DEF Continue
<1> DEFINE t == IF traj_time + step < MaxTime THEN traj_time + step ELSE MaxTime
<1>3. CASE sampled_already
  <2>1. SampleTwice(trajectory_msg, store, t, time_before_traj_msg) /\ sampled_already' = sampled_already
    BY <1>3, Zenon DEF Continue
  <2>2. t \in Int /\ traj_time <= t /\ t <= traj_time + step /\ t <= MaxTime
        /\ time_before_traj_msg <= t
    BY <1>0
  <2> HIDE DEF t
  <2>3. time_before_traj_msg' = time_before_traj_msg
    BY <2>1 DEF SampleTwice
  <2>4. sampled_already' = TRUE
    BY <1>3, <2>1, Zenon DEF TypeInv, FlagsTyped
  <2>5. Cycle(trajectory_msg, store, t)
    BY <1>0, <1>1, <1>2, <2>1, <2>2, <2>3, <2>4, Zenon DEF Cycle
  <2>. QED
    BY <1>2, <1>3, <2>2, <2>5, Zenon
<1>4. CASE ~sampled_already
  <2>1. SampleTwice(trajectory_msg, store, time_before_traj_msg, time_before_traj_msg)
        /\ sampled_already' = TRUE
    BY <1>4, Zenon DEF Continue, FirstCycle, IsSampled
  <2>2. time_before_traj_msg' = time_before_traj_msg /\ time_before_traj_msg = 0
    BY <1>4, <2>1 DEF SampleTwice, TypeInv, HoldsFirst
  <2>3. Cycle(trajectory_msg, store, 0)
    BY <1>0, <1>1, <1>2, <2>1, <2>2 DEF Cycle
  <2>. QED
    BY <1>2, <1>4, <2>3
<1>. QED
  BY <1>3, <1>4

LEMMA CycleTyped ==
    ASSUME NEW m \in Trajectories \cup {Hold}, NEW st, NEW t, Cycle(m, st, t),
           queried' \in BOOLEAN
    PROVE  TypeInv'
<1>1. /\ store' \in Stores(m) /\ st.known \subseteq store'.known
      /\ desired' \in Segments(m) /\ next' \in Segments(m) /\ traj_time' = t
  BY TwiceTyped DEF Cycle
<1>2. MessageTyped'
  BY <1>1 DEF Cycle, MessageTyped
<1>3. TimesTyped'
  BY <1>1 DEF Cycle, TimesTyped
<1>4. FlagsTyped' /\ HoldsFirst'
  BY DEF Cycle, FlagsTyped, HoldsFirst
<1>. QED
  BY <1>2, <1>3, <1>4 DEF TypeInv

LEMMA NextTypeInv == TypeInv /\ [Next]_vars => TypeInv'
<1> SUFFICES ASSUME TypeInv, [Next]_vars PROVE TypeInv'
  OBVIOUS
<1>1. CASE Replace
  <2>1. PICK m \in Trajectories : /\ trajectory_msg' = m
                                  /\ FirstCycle(m, Updated(m), m.offset)
                                  /\ queried' = FALSE
    BY <1>1 DEF Replace
  <2>. QED
    BY <2>1, ReplaceIsCycle, CycleTyped
<1>2. ASSUME NEW step \in Steps, Continue(step) PROVE TypeInv'
  <2>1. queried' \in BOOLEAN /\ trajectory_msg \in Trajectories \cup {Hold}
    BY <1>2, ContinueIsCycle, Zenon DEF TypeInv, FlagsTyped, MessageTyped
  <2>. QED
    BY <1>2, <2>1, ContinueIsCycle, CycleTyped
<1>3. ASSUME NEW t \in QueryTimes, query_state_service(t) PROVE TypeInv'
  <2>1. /\ trajectory_msg' = trajectory_msg /\ sampled_already' = sampled_already
        /\ time_before_traj_msg' = time_before_traj_msg /\ traj_time' = traj_time
        /\ desired' = desired /\ next' = next /\ queried' = TRUE /\ sampled_already
        /\ store' = sample(trajectory_msg, store, t, time_before_traj_msg, TRUE).store
    BY <1>3 DEF query_state_service
  <2>2. Message(trajectory_msg) /\ store \in Stores(trajectory_msg) /\ t \in Int
        /\ time_before_traj_msg \in Int
    BY AreMessages, TrajectoryAssumption DEF TypeInv, MessageTyped, TimesTyped
  <2>3. store' \in Stores(trajectory_msg) /\ store.known \subseteq store'.known
    BY <2>1, <2>2, SampleTyped
  <2>4. MessageTyped'
    BY <2>1, <2>3 DEF TypeInv, MessageTyped
  <2>5. TimesTyped'
    BY <2>1 DEF TypeInv, TimesTyped
  <2>6. FlagsTyped' /\ HoldsFirst'
    BY <2>1 DEF TypeInv, FlagsTyped, HoldsFirst
  <2>. QED
    BY <2>4, <2>5, <2>6 DEF TypeInv
<1>4. CASE UNCHANGED vars
  BY <1>4 DEF vars, TypeInv, FlagsTyped, MessageTyped, TimesTyped, HoldsFirst
<1>. QED
  BY <1>1, <1>2, <1>3, <1>4 DEF Next

\* The store of the trajectory in use holds one of its points to search from and
\* positions of its points only, and the segments of the samples are its own:
\* update() and query_state never leave the search of another trajectory.
THEOREM TypeCorrect == Spec => []TypeOK
<1>1. TypeInv => TypeOK
  <2> SUFFICES ASSUME TypeInv PROVE TypeOK
    OBVIOUS
  <2>1. DOMAIN trajectory_msg.at = 1..Last(trajectory_msg)
    BY AreMessages, PointsTyped DEF TypeInv, MessageTyped
  <2>. QED
    BY <2>1 DEF TypeInv, TypeOK, FlagsTyped, MessageTyped, TimesTyped, Stores
<1>. QED
  BY <1>1, InitTypeInv, NextTypeInv, PTL DEF Spec

-----------------------------------------------------------------------------
(* The search, which starts where the last one ended.                        *)

\* The segment a time falls into, or the end of the message.
InSegment(m, s, t) ==
    IF s.end_segment = Last(m) + 1 THEN t >= m.at[Last(m)]
    ELSE \/ s.start_segment = 1 /\ s.end_segment = 1 /\ t < m.at[1]
         \/ s.end_segment = s.start_segment + 1 /\ Within(m, s.start_segment, t)

\* Nothing before the start of the search is missed; the look-ahead of the cycle
\* at time t may have ended it.
Arrived(m, idx, t) == idx = 1 \/ m.at[idx] <= t
EndedAhead(m, idx, t) == idx = Last(m) /\ m.at[Last(m)] <= t + UpdatePeriod
Reached(m, idx, t) == Arrived(m, idx, t) \/ EndedAhead(m, idx, t)

\* A search from a point that was passed finds the segment.
LEMMA SampleFinds ==
    ASSUME NEW m, Message(m), NEW st \in Stores(m), NEW t \in Int, NEW before \in Int,
           before <= t, NEW monotonic \in BOOLEAN,
           NEW r, r = sample(m, st, t, before, monotonic),
           Arrived(m, st.idx, t)
    PROVE  /\ InSegment(m, r.segment, t) /\ Arrived(m, r.store.idx, t)
           /\ ~monotonic => \/ r.store.idx = st.idx
                            \/ r.store.idx = Last(m) /\ m.at[Last(m)] <= t
<1>0. /\ Last(m) \in Nat /\ Last(m) > 0 /\ st.idx \in 1..Last(m)
      /\ \A k \in 1..Last(m) : m.at[k] \in Nat
  BY PointsTyped DEF Stores
<1>1. CASE SampledEarly(m, st, t, r)
  BY <1>0, <1>1 DEF SampledEarly, InSegment, Segment, Arrived
<1>2. ASSUME NEW i \in Int, SampledIn(m, st, t, monotonic, r, i)
      PROVE  /\ InSegment(m, r.segment, t) /\ Arrived(m, r.store.idx, t)
             /\ ~monotonic => r.store.idx = st.idx
  <2>1. /\ i \in 1..Last(m) - 1 /\ Within(m, i, t)
        /\ r.segment.start_segment = i /\ r.segment.end_segment = i + 1
        /\ r.store.idx = NextIdx(i, st.idx, monotonic)
    BY <1>0, <1>2 DEF SampledIn, Segment
  <2>2. InSegment(m, r.segment, t)
    BY <1>0, <2>1 DEF InSegment
  <2>3. r.store.idx = i \/ r.store.idx = st.idx
    BY <2>1 DEF NextIdx
  <2>. QED
    BY <2>1, <2>2, <2>3 DEF NextIdx, Within, Arrived
<1>3. CASE SampledPast(m, st, t, r)
  <2>1. r.store.idx = Last(m) /\ r.segment.end_segment = Last(m) + 1
    BY <1>3 DEF SampledPast, Segment
  <2>2. m.at[st.idx] <= t /\ \A i \in st.idx..Last(m) : ~Within(m, i, t)
    BY <1>3 DEF SampledPast, Arrived
  <2>3. m.at[Last(m)] <= t
    BY <1>0, <2>2, NothingFoundAtEnd
  <2>. QED
    BY <1>0, <2>1, <2>3 DEF InSegment, Arrived
<1>. QED
  BY <1>1, <1>2, <1>3, SampleCases

\* After the look-ahead has ended the search the message counts as played out.
LEMMA SampleStaysAtEnd ==
    ASSUME NEW m, Message(m), NEW st \in Stores(m), NEW t \in Int, NEW before \in Int,
           before <= t, NEW monotonic \in BOOLEAN,
           NEW r, r = sample(m, st, t, before, monotonic), st.idx = Last(m)
    PROVE  /\ r.store.idx = Last(m)
           /\ InSegment(m, r.segment, t) \/ r.segment.end_segment = Last(m) + 1
<1>0. Last(m) \in Nat /\ Last(m) > 0
  BY PointsTyped
<1>1. CASE SampledEarly(m, st, t, r)
  BY <1>0, <1>1 DEF SampledEarly, InSegment, Segment
<1>2. CASE SampledPast(m, st, t, r)
  BY <1>0, <1>2 DEF SampledPast, Segment
<1>3. \A i \in Int : ~SampledIn(m, st, t, monotonic, r, i)
  <2>1. \A i \in Int : i \notin st.idx..Last(m) - 1
    BY <1>0
  <2>. QED
    BY <2>1, Zenon DEF SampledIn
<1>4. ~(t < before)
  OBVIOUS
<1>. QED
  BY <1>1, <1>2, <1>3, <1>4, SampleCases, Zenon

\* The two samples of a cycle.
LEMMA TwiceFinds ==
    ASSUME NEW m, NEW st, NEW t, Cycle(m, st, t), Reached(m, st.idx, t)
    PROVE  /\ Reached(m, store'.idx, t)
           /\ InSegment(m, next', t + UpdatePeriod)
           /\ \/ InSegment(m, desired', t)
              \/ desired'.end_segment = Last(m) + 1 /\ InSegment(m, desired', t + UpdatePeriod)
<1> DEFINE before == time_before_traj_msg'
           now == sample(m, st, t, before, TRUE)
           ahead == sample(m, now.store, t + UpdatePeriod, before, FALSE)
<1>1. /\ Message(m) /\ st \in Stores(m) /\ t \in Int /\ before \in Int /\ before <= t
      /\ desired' = now.segment /\ next' = ahead.segment /\ store' = ahead.store
  BY DEF Cycle, SampleTwice
<1>2. /\ UpdatePeriod \in Nat /\ Last(m) \in Nat /\ Last(m) > 0 /\ st.idx \in 1..Last(m)
      /\ \A k \in 1..Last(m) : m.at[k] \in Nat
  BY <1>1, PointsTyped, TrajectoryAssumption DEF Stores
<1>3. now.store \in Stores(m)
  BY <1>1, SampleTyped
<1>4. /\ Reached(m, now.store.idx, t)
      /\ \/ InSegment(m, now.segment, t)
         \/ now.segment.end_segment = Last(m) + 1 /\ EndedAhead(m, st.idx, t)
  <2> HIDE DEF before
  <2>1. CASE Arrived(m, st.idx, t)
    <3>1. InSegment(m, now.segment, t) /\ Arrived(m, now.store.idx, t)
      BY <1>1, <2>1, SampleFinds
    <3>. QED
      BY <3>1, Zenon DEF Reached
  <2>2. CASE EndedAhead(m, st.idx, t)
    <3>1. \A monotonic \in BOOLEAN : \A r :
              r = sample(m, st, t, before, monotonic) =>
                  /\ r.store.idx = Last(m)
                  /\ InSegment(m, r.segment, t) \/ r.segment.end_segment = Last(m) + 1
      BY <1>1, <2>2, SampleStaysAtEnd DEF EndedAhead
    <3>2. /\ now.store.idx = Last(m)
          /\ InSegment(m, now.segment, t) \/ now.segment.end_segment = Last(m) + 1
      BY <3>1, Zenon
    <3> HIDE DEF now
    <3>. QED
      BY <2>2, <3>2 DEF Reached, EndedAhead
  <2>. QED
    BY <2>1, <2>2 DEF Reached
<1> HIDE DEF now
<1>5. t + UpdatePeriod \in Int /\ before <= t + UpdatePeriod
  BY <1>1, <1>2
<1>6. now.store.idx \in 1..Last(m) /\ Arrived(m, now.store.idx, t + UpdatePeriod)
  <2>1. now.store.idx \in 1..Last(m)
    BY <1>3 DEF Stores
  <2>. QED
    BY <1>1, <1>2, <1>4, <2>1 DEF Reached, Arrived, EndedAhead
<1>7. /\ InSegment(m, ahead.segment, t + UpdatePeriod)
      /\ \/ ahead.store.idx = now.store.idx
         \/ ahead.store.idx = Last(m) /\ m.at[Last(m)] <= t + UpdatePeriod
  <2> HIDE DEF before
  <2>1. \A monotonic \in BOOLEAN : \A r :
            r = sample(m, now.store, t + UpdatePeriod, before, monotonic) =>
                /\ InSegment(m, r.segment, t + UpdatePeriod)
                /\ ~monotonic => \/ r.store.idx = now.store.idx
                                 \/ r.store.idx = Last(m) /\ m.at[Last(m)] <= t + UpdatePeriod
    BY <1>1, <1>3, <1>5, <1>6, SampleFinds
  <2>. QED
    BY <2>1, Zenon
<1> HIDE DEF ahead
<1>8. Reached(m, ahead.store.idx, t)
  BY <1>4, <1>7 DEF Reached, EndedAhead
<1>9. EndedAhead(m, st.idx, t) /\ now.segment.end_segment = Last(m) + 1
        => InSegment(m, now.segment, t + UpdatePeriod)
  BY <1>1, <1>2 DEF EndedAhead, InSegment
<1>. QED
  BY <1>1, <1>4, <1>7, <1>8, <1>9, Zenon

\* Unless query_state has moved it, the search starts at a point that is not past
\* the time of the cycle, or the look-ahead has ended it.
SearchInv ==
    /\ ~queried => Reached(trajectory_msg, store.idx, traj_time)
    /\ PlaysOutInTime

LEMMA CycleSearches ==
    ASSUME NEW m, NEW st, NEW t, Cycle(m, st, t), Reached(m, st.idx, t)
    PROVE  SearchInv'
<1>1. traj_time' = t /\ trajectory_msg' = m
  BY DEF Cycle, SampleTwice
<1>. QED
  BY <1>1, TwiceFinds DEF SearchInv, PlaysOutInTime, IsSegment, InSegment, AtEnd

LEMMA ReachedLater ==
    ASSUME NEW m, Message(m), NEW idx \in 1..Last(m), NEW t \in Int, NEW u \in Int, t <= u,
           Reached(m, idx, t)
    PROVE  Reached(m, idx, u)
<1>1. UpdatePeriod \in Nat /\ m.at[idx] \in Nat /\ m.at[Last(m)] \in Nat
  BY PointsTyped, TrajectoryAssumption
<1>. QED
  BY <1>1 DEF Reached, Arrived, EndedAhead

LEMMA NextSearchInv == TypeInv /\ TypeInv' /\ SearchInv /\ [Next]_vars => SearchInv'
<1> SUFFICES ASSUME TypeInv, TypeInv', SearchInv, [Next]_vars PROVE SearchInv'
  OBVIOUS
<1>1. CASE Replace
  <2>1. PICK m \in Trajectories : /\ trajectory_msg' = m
                                  /\ FirstCycle(m, Updated(m), m.offset)
    BY <1>1 DEF Replace
  <2>2. Reached(m, Updated(m).idx, m.offset)
    BY DEF Updated, Reached, Arrived
  <2>. QED
    BY <2>1, <2>2, ReplaceIsCycle, CycleSearches
<1>2. ASSUME NEW step \in Steps, Continue(step) PROVE SearchInv'
  <2>1. PICK t \in Int : /\ Cycle(trajectory_msg, store, t)
                         /\ \/ sampled_already /\ traj_time <= t
                            \/ ~sampled_already /\ t = 0
    BY <1>2, ContinueIsCycle
  <2>2. queried' = queried
    BY <1>2, ContinueIsCycle
  <2>3. CASE queried
    BY <2>2, <2>3 DEF SearchInv, PlaysOutInTime
  <2>4. CASE ~queried /\ sampled_already
    <3>1. /\ Message(trajectory_msg) /\ store.idx \in 1..Last(trajectory_msg)
          /\ traj_time \in Int
      BY AreMessages DEF TypeInv, MessageTyped, TimesTyped, Stores
    <3>2. Reached(trajectory_msg, store.idx, t)
      BY <2>1, <2>4, <3>1, ReachedLater DEF SearchInv
    <3>. QED
      BY <2>1, <3>2, CycleSearches
  <2>5. CASE ~queried /\ ~sampled_already
    <3>1. Reached(trajectory_msg, store.idx, t)
      BY <2>5 DEF TypeInv, HoldsFirst, Reached, Arrived
    <3>. QED
      BY <2>1, <3>1, CycleSearches
  <2>. QED
    BY <2>3, <2>4, <2>5
<1>3. ASSUME NEW t \in QueryTimes, query_state_service(t) PROVE SearchInv'
  BY <1>3 DEF query_state_service, SearchInv, PlaysOutInTime
<1>4. CASE UNCHANGED vars
  BY <1>4 DEF vars, SearchInv, PlaysOutInTime, IsSegment, AtEnd
<1>. QED
  BY <1>1, <1>2, <1>3, <1>4 DEF Next

\* The samples of a cycle lie in the segments its times fall into, and a trajectory
\* is played out at most one update period early, though the search only starts
\* where the last one ended: whatever the steps, scaling factors and replacements,
\* as long as query_state has not sampled the message.
THEOREM PlayedOutInTime == Spec => []PlaysOutInTime
<1>1. Init => SearchInv
  BY DEF Init, SearchInv, PlaysOutInTime, Reached, Arrived
<1>2. SearchInv => PlaysOutInTime
  BY DEF SearchInv
<1>. QED
  BY <1>1, <1>2, InitTypeInv, NextTypeInv, NextSearchInv, PTL DEF Spec

-----------------------------------------------------------------------------
(* Positions.                                                                *)

\* Every point that has passed is known, but the last one, which is recovered.
Passed(m, known, t) ==
    \A i \in 1..Last(m) : (i = 1 \/ i < Last(m)) /\ m.at[i] <= t => i \in known

\* Every point whose segment has begun is known.
Begun(m, known, t) ==
    \A i \in 1..Last(m) : i = 1 \/ (i < Last(m) /\ m.at[i - 1] <= t) => i \in known

\* A search that has come to the last point has left every other one known.
EndIsKnown(m, st) == st.idx = Last(m) => \A i \in 1..Last(m) - 1 : i \in st.known

\* What Deducible says of two points in a row.
LEMMA GapIsLong ==
    ASSUME NEW m, Message(m), Deducible(m), NEW i \in 1..Last(m),
           i \notin m.given, 1 < i, i < Last(m)
    PROVE  /\ i - 1 \in 1..Last(m) /\ m.at[i] \in Nat /\ m.at[i - 1] \in Nat
           /\ m.at[i - 1] + UpdatePeriod < m.at[i] /\ m.offset < m.at[i]
           /\ \A step \in Steps : m.at[i - 1] + step < m.at[i]
<1>1. /\ DOMAIN m.at = 1..Last(m) /\ Last(m) \in Nat /\ \A k \in 1..Last(m) : m.at[k] \in Nat
  BY PointsTyped
<1>2. i - 1 \in 1..Last(m) /\ m.at[i] \in Nat /\ m.at[i - 1] \in Nat
  BY <1>1
<1>3. /\ m.offset < m.at[i]
      /\ \A step \in Steps \cup {UpdatePeriod} : m.at[i] - m.at[i - 1] > step
  BY <1>1 DEF Deducible
<1>4. Steps \subseteq Nat /\ UpdatePeriod \in Nat
  BY TrajectoryAssumption
<1>. QED
  BY <1>2, <1>3, <1>4

\* Times of points a segment or more apart.
LEMMA TimesRiseAll ==
    ASSUME NEW m, Message(m), NEW i \in 1..Last(m), NEW j \in 1..Last(m), i <= j
    PROVE  m.at[i] <= m.at[j] /\ m.at[i] \in Nat /\ m.at[j] \in Nat
<1>1. m.at[i] \in Nat /\ m.at[j] \in Nat
  BY PointsTyped
<1>2. CASE i = j
  BY <1>1, <1>2
<1>3. CASE i < j
  BY <1>1, <1>3, TimesRise
<1>. QED
  BY <1>1, <1>2, <1>3

\* What has begun by one cycle has not passed by the next one without being known.
LEMMA BegunThenPassed ==
    ASSUME NEW m, Message(m), Deducible(m), NEW known, m.given \subseteq known,
           NEW t \in Int, NEW u \in Int, NEW step \in Steps \cup {UpdatePeriod},
           u <= t + step, Begun(m, known, t)
    PROVE  Passed(m, known, u)
<1> SUFFICES ASSUME NEW i \in 1..Last(m), i = 1 \/ i < Last(m), m.at[i] <= u,
                    i \notin known
             PROVE  FALSE
  BY DEF Passed
<1>1. Last(m) \in Nat /\ 1 < i /\ i < Last(m) /\ i \notin m.given
  <2>1. i # 1
    BY Zenon DEF Begun
  <2>2. Last(m) \in Nat
    BY PointsTyped
  <2>. QED
    BY <2>1, <2>2
<1>2. /\ m.at[i - 1] + step < m.at[i] /\ m.at[i] \in Nat /\ m.at[i - 1] \in Nat
  BY <1>1, GapIsLong
<1>3. ~(m.at[i - 1] <= t)
  BY <1>1 DEF Begun
<1>4. step \in Nat
  BY TrajectoryAssumption
<1>. QED
  BY <1>2, <1>3, <1>4

\* A first cycle comes before the points that have to be deduced.
LEMMA NothingPassedFirst ==
    ASSUME NEW m, Message(m), Deducible(m)
    PROVE  Passed(m, m.given, m.offset)
<1> SUFFICES ASSUME NEW i \in 1..Last(m), i = 1 \/ i < Last(m), m.at[i] <= m.offset,
                    i \notin m.given
             PROVE  FALSE
  BY DEF Passed
<1>1. DOMAIN m.at = 1..Last(m) /\ m.at[i] \in Nat /\ m.offset \in Int
  BY PointsTyped DEF Message
<1>2. CASE i = 1
  BY <1>1, <1>2 DEF Deducible
<1>3. CASE i # 1
  BY <1>1, <1>3, GapIsLong
<1>. QED
  BY <1>2, <1>3

\* Where the search has come to the last point, or will at the next look-ahead.
LEMMA EndedIsKnown ==
    ASSUME NEW m, Message(m), Deducible(m), NEW st \in Stores(m), m.given \subseteq st.known,
           NEW t \in Int, Reached(m, st.idx, t), Begun(m, st.known, t)
    PROVE  EndIsKnown(m, st)
<1> SUFFICES ASSUME st.idx = Last(m), NEW i \in 1..Last(m) - 1, i \notin st.known
             PROVE  FALSE
  BY DEF EndIsKnown
<1>1. /\ Last(m) \in Nat /\ Last(m) > 0 /\ i \in 1..Last(m) /\ i < Last(m)
      /\ Last(m) \in 1..Last(m) /\ UpdatePeriod \in Nat
  BY PointsTyped, TrajectoryAssumption
<1>2. i \notin m.given /\ 1 < i
  <2>1. i # 1
    BY <1>1, Zenon DEF Begun
  <2>. QED
    BY <1>1, <2>1
<1>3. /\ m.at[i - 1] \in Nat /\ m.at[i] \in Nat /\ m.at[i - 1] + UpdatePeriod < m.at[i]
  BY <1>1, <1>2, GapIsLong
<1>4. m.at[i] < m.at[Last(m)] /\ m.at[Last(m)] \in Nat
  BY <1>1, TimesRise, PointsTyped
<1>5. m.at[Last(m)] <= t + UpdatePeriod
  BY <1>1, <1>4 DEF Reached, Arrived, EndedAhead
<1>6. m.at[i - 1] <= t
  BY <1>1, <1>3, <1>4, <1>5
<1>. QED
  BY <1>1, <1>6 DEF Begun

\* A sample for which nothing unknown has passed is computed from positions, and
\* leaves known every point whose segment has begun.
LEMMA SampleKnows ==
    ASSUME NEW m, Message(m), Deducible(m), NEW st \in Stores(m), m.given \subseteq st.known,
           NEW t \in Int, NEW before \in Int, before <= t, NEW monotonic \in BOOLEAN,
           NEW r, r = sample(m, st, t, before, monotonic),
           Arrived(m, st.idx, t) \/ (EndIsKnown(m, st) /\ st.idx = Last(m)),
           Passed(m, st.known, t)
    PROVE  Begun(m, r.store.known, t) /\ r.segment.sound
<1>0. /\ Last(m) \in Nat /\ Last(m) > 0 /\ 1 \in 1..Last(m) /\ st.idx \in 1..Last(m)
      /\ \A k \in 1..Last(m) : m.at[k] \in Nat
      /\ st.known \subseteq r.store.known
  BY PointsTyped, SampleTyped DEF Stores
<1>1. r.segment.sound
  <2>1. CASE r.segment.sound = TRUE
    BY <2>1
  <2>2. ASSUME NEW i \in Int, SampledIn(m, st, t, monotonic, r, i)
        PROVE  r.segment.sound
    <3>1. i \in st.idx..Last(m) - 1 /\ m.at[i] <= t
      BY <2>2, Zenon DEF SampledIn, Within
    <3>2. i \in 1..Last(m) /\ i < Last(m)
      BY <1>0, <3>1
    <3>3. i \in st.known
      BY <3>1, <3>2, Zenon DEF Passed
    <3>4. r.segment = Segment(TRUE, i, i + 1, i \in st.known)
      BY <2>2 DEF SampledIn
    <3>5. r.segment.sound = (i \in st.known)
      BY <3>4 DEF Segment
    <3>. QED
      BY <3>3, <3>5, Zenon
  <2>3. ~(t < before)
    OBVIOUS
  <2>4. SampledEarly(m, st, t, r) \/ SampledPast(m, st, t, r) => r.segment.sound = TRUE
    BY DEF SampledEarly, SampledPast, Segment
  <2>. QED
    BY <2>1, <2>2, <2>3, <2>4, SampleCases, Zenon
<1>2. ASSUME NEW k \in 1..Last(m), k \notin st.known, k # 1, k < Last(m), m.at[k - 1] <= t
      PROVE  k \in r.store.known
  <2>1. /\ k - 1 \in 1..Last(m) /\ k - 1 < Last(m) /\ (k - 1) + 1 = k /\ k \in 1..Last(m) - 1
        /\ m.at[k] \in Nat /\ m.at[k - 1] \in Nat
    BY <1>0, <1>2
  <2>2. t < m.at[k]
    <3>1. ~(m.at[k] <= t)
      BY <1>2, Zenon DEF Passed
    <3>. QED
      BY <2>1, <3>1
  <2>3. Within(m, k - 1, t)
    BY <1>2, <2>1, <2>2 DEF Within
  <2>4. m.at[1] <= t
    <3>1. m.at[1] <= m.at[k - 1] /\ m.at[1] \in Nat
      BY <1>0, <2>1, TimesRiseAll
    <3>. QED
      BY <1>2, <2>1, <3>1
  <2>5. ~(t < m.at[1]) /\ ~(t < before)
    BY <1>0, <2>4
  <2>6. ASSUME NEW i \in Int, SampledIn(m, st, t, monotonic, r, i)
        PROVE  k \in r.store.known
    <3>1. i \in st.idx..Last(m) - 1 /\ m.at[i] <= t /\ t < m.at[i + 1]
      BY <2>6, Zenon DEF SampledIn, Within
    <3>2. i \in 1..Last(m) /\ i + 1 \in 1..Last(m)
      BY <1>0, <3>1
    <3>3. ~(k <= i)
      <4> SUFFICES ASSUME k <= i PROVE FALSE
        OBVIOUS
      <4>1. m.at[k] <= m.at[i] /\ m.at[i] \in Nat
        BY <3>2, TimesRiseAll
      <4>. QED
        BY <2>1, <2>2, <3>1, <4>1
    <3>4. ~(i + 1 <= k - 1)
      <4> SUFFICES ASSUME i + 1 <= k - 1 PROVE FALSE
        OBVIOUS
      <4>1. m.at[i + 1] <= m.at[k - 1] /\ m.at[i + 1] \in Nat
        BY <2>1, <3>2, TimesRiseAll
      <4>. QED
        BY <1>2, <2>1, <3>1, <4>1
    <3>5. i + 1 = k
      BY <2>1, <3>2, <3>3, <3>4
    <3>6. r.store.known = Deduce(st.known, i + 1)
      BY <2>6 DEF SampledIn
    <3>. QED
      BY <3>5, <3>6 DEF Deduce
  <2>7. ASSUME SampledPast(m, st, t, r) PROVE FALSE
    <3>1. \A i \in st.idx..Last(m) : ~Within(m, i, t)
      BY <2>7, Zenon DEF SampledPast
    <3>2. k - 1 \notin st.idx..Last(m)
      BY <2>3, <3>1, Zenon
    <3>3. k <= st.idx
      BY <1>0, <2>1, <3>2
    <3>4. m.at[k] <= m.at[st.idx] /\ m.at[st.idx] \in Nat
      BY <1>0, <3>3, TimesRiseAll
    <3>5. ~Arrived(m, st.idx, t)
      BY <1>2, <2>1, <2>2, <3>3, <3>4 DEF Arrived
    <3>6. k \in st.known
      BY <2>1, <3>5, Zenon DEF EndIsKnown
    <3>. QED
      BY <1>2, <3>6
  <2>. QED
    BY <2>5, <2>6, <2>7, SampleCases, Zenon DEF SampledEarly
<1>3. 1 \in r.store.known
  <2>1. CASE m.at[1] <= t
    <3>1. 1 \in st.known
      BY <1>0, <2>1, Zenon DEF Passed
    <3>. QED
      BY <1>0, <3>1
  <2>2. CASE ~(m.at[1] <= t)
    <3>1. SampledEarly(m, st, t, r)
      <4>1. ~(t < before)
        OBVIOUS
      <4>. QED
        BY <2>2, <4>1, SampleCases, Zenon DEF SampledIn, SampledPast
    <3>. QED
      BY <3>1 DEF SampledEarly, Deduce
  <2>. QED
    BY <2>1, <2>2
<1>. QED
  <2>1. ASSUME NEW k \in 1..Last(m), k = 1 \/ (k < Last(m) /\ m.at[k - 1] <= t)
        PROVE  k \in r.store.known
    BY <1>0, <1>2, <1>3, <2>1
  <2>. QED
    BY <1>1, <2>1, Zenon DEF Begun

\* The look-ahead that comes to the end of a message finds positions there.
LEMMA EndIsValid ==
    ASSUME NEW m, Message(m), NEW st \in Stores(m), NEW t \in Int, NEW before \in Int,
           before <= t, NEW monotonic \in BOOLEAN,
           NEW r, r = sample(m, st, t, before, monotonic),
           Arrived(m, st.idx, t), Passed(m, st.known, t)
    PROVE  r.segment.valid
<1>0. /\ Last(m) \in Nat /\ Last(m) > 0 /\ 1 \in 1..Last(m) /\ st.idx \in 1..Last(m)
  BY PointsTyped DEF Stores
<1>1. ASSUME SampledPast(m, st, t, r) PROVE r.segment.valid
  <2>1. /\ r.segment.valid = (Last(m) \in Recover(m, st.known)) /\ m.at[1] <= t
        /\ \A i \in st.idx..Last(m) : ~Within(m, i, t)
    BY <1>1 DEF SampledPast, Segment
  <2>2. CASE Last(m) = 1
    <3>1. Last(m) \in st.known
      BY <1>0, <2>1, <2>2 DEF Passed
    <3>2. Recover(m, st.known) = st.known
      BY <2>2 DEF Recover
    <3>. QED
      BY <2>1, <3>1, <3>2, Zenon
  <2>3. CASE Last(m) # 1
    <3>1. Last(m) > 1 /\ Last(m) - 1 \in 1..Last(m) /\ Last(m) - 1 < Last(m)
          /\ Last(m) \in 1..Last(m)
      BY <1>0, <2>3
    <3>2. m.at[st.idx] <= t
      BY <2>1 DEF Arrived
    <3>3. m.at[Last(m)] <= t
      BY <1>0, <2>1, <3>2, NothingFoundAtEnd
    <3>4. m.at[Last(m) - 1] <= t
      <4>1. m.at[Last(m) - 1] <= m.at[Last(m)] /\ m.at[Last(m) - 1] \in Nat
            /\ m.at[Last(m)] \in Nat
        BY <3>1, TimesRiseAll
      <4>. QED
        BY <3>3, <4>1
    <3>5. Last(m) - 1 \in st.known
      BY <3>1, <3>4, Zenon DEF Passed
    <3>6. Last(m) \in Recover(m, st.known)
      BY <3>1, <3>5 DEF Recover
    <3>. QED
      BY <2>1, <3>6, Zenon
  <2>. QED
    BY <2>2, <2>3
<1>2. SampledEarly(m, st, t, r) => r.segment.valid = TRUE
  BY DEF SampledEarly, Segment
<1>3. \A i \in Int : SampledIn(m, st, t, monotonic, r, i) => r.segment.valid = TRUE
  BY DEF SampledIn, Segment
<1>4. ~(t < before)
  OBVIOUS
<1>. QED
  BY <1>1, <1>2, <1>3, <1>4, SampleCases, Zenon

\* The two samples of a cycle.
LEMMA TwiceKnows ==
    ASSUME NEW m, NEW st, NEW t, Deducible(m), Cycle(m, st, t),
           Reached(m, st.idx, t), Arrived(m, st.idx, t) \/ EndIsKnown(m, st),
           Passed(m, st.known, t)
    PROVE  /\ Begun(m, store'.known, t)
           /\ desired'.sound /\ next'.sound /\ next'.valid
<1> DEFINE before == time_before_traj_msg'
           now == sample(m, st, t, before, TRUE)
           ahead == sample(m, now.store, t + UpdatePeriod, before, FALSE)
<1>1. /\ Message(m) /\ st \in Stores(m) /\ t \in Int /\ before \in Int /\ before <= t
      /\ m.given \subseteq st.known
      /\ desired' = now.segment /\ next' = ahead.segment /\ store' = ahead.store
  BY DEF Cycle, SampleTwice
<1>2. /\ UpdatePeriod \in Nat /\ t + UpdatePeriod \in Int /\ before <= t + UpdatePeriod
      /\ Last(m) \in Nat /\ Last(m) > 0
  BY <1>1, PointsTyped, TrajectoryAssumption
<1>3. now.store \in Stores(m) /\ st.known \subseteq now.store.known
  BY <1>1, SampleTyped
<1>4. Arrived(m, st.idx, t) \/ (EndIsKnown(m, st) /\ st.idx = Last(m))
  BY DEF Reached, EndedAhead
<1> HIDE DEF before
<1>5. Begun(m, now.store.known, t) /\ now.segment.sound
  <2>1. \A monotonic \in BOOLEAN : \A r :
            r = sample(m, st, t, before, monotonic) =>
                Begun(m, r.store.known, t) /\ r.segment.sound
    BY <1>1, <1>4, SampleKnows
  <2>. QED
    BY <2>1, Zenon
<1>6. Reached(m, now.store.idx, t)
  <2>1. CASE Arrived(m, st.idx, t)
    <3>1. Arrived(m, now.store.idx, t)
      BY <1>1, <2>1, SampleFinds
    <3>. QED
      BY <3>1, Zenon DEF Reached
  <2>2. CASE EndedAhead(m, st.idx, t)
    <3>1. \A monotonic \in BOOLEAN : \A r :
              r = sample(m, st, t, before, monotonic) => r.store.idx = Last(m)
      <4>1. st.idx = Last(m)
        BY <2>2, Zenon DEF EndedAhead
      <4>. QED
        BY <1>1, <4>1, SampleStaysAtEnd
    <3>2. now.store.idx = Last(m)
      BY <3>1, Zenon
    <3> HIDE DEF now
    <3>. QED
      BY <2>2, <3>2 DEF Reached, EndedAhead
  <2>. QED
    BY <2>1, <2>2 DEF Reached
<1> HIDE DEF now
<1>7. Arrived(m, now.store.idx, t + UpdatePeriod)
  <2>1. now.store.idx \in 1..Last(m) /\ \A k \in 1..Last(m) : m.at[k] \in Nat
    BY <1>1, <1>3, PointsTyped DEF Stores
  <2>. QED
    BY <1>1, <1>2, <1>6, <2>1 DEF Reached, Arrived, EndedAhead
<1>8. m.given \subseteq now.store.known
  BY <1>1, <1>3
<1>9. Passed(m, now.store.known, t + UpdatePeriod)
  <2>1. t + UpdatePeriod <= t + UpdatePeriod /\ UpdatePeriod \in Steps \cup {UpdatePeriod}
    BY <1>1, <1>2
  <2>. QED
    BY <1>1, <1>2, <1>5, <1>8, <2>1, BegunThenPassed
<1>10. ahead.segment.sound /\ ahead.segment.valid /\ now.store.known \subseteq ahead.store.known
  <2>1. \A monotonic \in BOOLEAN : \A r :
            r = sample(m, now.store, t + UpdatePeriod, before, monotonic) => r.segment.sound
    BY <1>1, <1>2, <1>3, <1>7, <1>8, <1>9, SampleKnows
  <2>2. \A monotonic \in BOOLEAN : \A r :
            r = sample(m, now.store, t + UpdatePeriod, before, monotonic) =>
                r.segment.valid /\ now.store.known \subseteq r.store.known
    BY <1>1, <1>2, <1>3, <1>7, <1>9, EndIsValid, SampleTyped
  <2>. QED
    BY <2>1, <2>2, Zenon
<1>11. Begun(m, ahead.store.known, t)
  <2> HIDE DEF ahead
  <2>. QED
    BY <1>5, <1>10 DEF Begun
<1> HIDE DEF ahead
<1>. QED
  BY <1>1, <1>5, <1>10, <1>11, Zenon

\* Unless query_state has moved the search, what the trajectory in use needs next
\* has been deduced.
KnownInv ==
    /\ sampled_already /\ ~queried => Begun(trajectory_msg, store.known, traj_time)
    /\ InterpolatesFromPositions

LEMMA CycleKnows ==
    ASSUME NEW m, NEW st, NEW t, Deducible(m), Cycle(m, st, t),
           Reached(m, st.idx, t), Arrived(m, st.idx, t) \/ EndIsKnown(m, st),
           Passed(m, st.known, t)
    PROVE  KnownInv'
<1>1. traj_time' = t /\ trajectory_msg' = m
  BY DEF Cycle, SampleTwice
<1>2. /\ Begun(m, store'.known, t)
      /\ desired'.sound /\ next'.sound /\ next'.valid
  BY TwiceKnows
<1>. QED
  BY <1>1, <1>2, Zenon DEF KnownInv, InterpolatesFromPositions

AllDeducible == \A m \in Trajectories : Deducible(m)

LEMMA HoldIsDeducible == Deducible(Hold)
<1>1. Last(Hold) = 1 /\ DOMAIN Hold.at = {1} /\ Hold.given = {1}
  BY DEF Last, Hold
<1>. QED
  BY <1>1 DEF Deducible

LEMMA NextKnownInv ==
    ASSUME AllDeducible, TypeInv, SearchInv, KnownInv, [Next]_vars
    PROVE  KnownInv'
<1>1. CASE Replace
  <2>1. PICK m \in Trajectories : /\ trajectory_msg' = m
                                  /\ FirstCycle(m, Updated(m), m.offset)
    BY <1>1 DEF Replace
  <2>2. Cycle(m, Updated(m), m.offset) /\ Message(m) /\ Deducible(m)
    BY <2>1, ReplaceIsCycle, AreMessages DEF AllDeducible
  <2>3. Arrived(m, Updated(m).idx, m.offset) /\ Reached(m, Updated(m).idx, m.offset)
    BY DEF Updated, Reached, Arrived
  <2>4. Passed(m, Updated(m).known, m.offset)
    BY <2>2, NothingPassedFirst DEF Updated
  <2>. QED
    BY <2>2, <2>3, <2>4, CycleKnows
<1>2. ASSUME NEW step \in Steps, Continue(step) PROVE KnownInv'
  <2>0. queried' = queried
    BY <1>2, ContinueIsCycle
  <2>1. PICK t \in Int :
            /\ Cycle(trajectory_msg, store, t)
            /\ \/ sampled_already /\ traj_time <= t /\ t <= traj_time + step
               \/ ~sampled_already /\ t = 0
    BY <1>2, ContinueIsCycle
  <2>2. /\ Message(trajectory_msg) /\ store \in Stores(trajectory_msg)
        /\ trajectory_msg.given \subseteq store.known /\ Deducible(trajectory_msg)
        /\ store.idx \in 1..Last(trajectory_msg) /\ traj_time \in Int
    BY AreMessages, HoldIsDeducible DEF AllDeducible, TypeInv, MessageTyped, TimesTyped, Stores
  <2>3. CASE queried
    BY <2>0, <2>3, Zenon DEF KnownInv, InterpolatesFromPositions
  <2>4. CASE ~queried /\ sampled_already
    <3>1. /\ Reached(trajectory_msg, store.idx, traj_time)
          /\ Begun(trajectory_msg, store.known, traj_time)
          /\ traj_time <= t /\ t <= traj_time + step
      BY <2>1, <2>4, Zenon DEF SearchInv, KnownInv
    <3>2. Reached(trajectory_msg, store.idx, t)
      BY <2>2, <3>1, ReachedLater
    <3>3. EndIsKnown(trajectory_msg, store)
      BY <2>2, <3>1, EndedIsKnown
    <3>4. Passed(trajectory_msg, store.known, t)
      BY <2>2, <3>1, BegunThenPassed
    <3>. QED
      BY <2>1, <2>2, <3>2, <3>3, <3>4, CycleKnows
  <2>5. CASE ~queried /\ ~sampled_already
    <3>1. trajectory_msg = Hold /\ store.idx = 1 /\ t = 0
      BY <2>1, <2>5 DEF TypeInv, HoldsFirst
    <3>2. Arrived(trajectory_msg, store.idx, t) /\ Reached(trajectory_msg, store.idx, t)
      BY <3>1 DEF Reached, Arrived
    <3>3. {1} = trajectory_msg.given /\ Last(trajectory_msg) = 1
      BY <3>1 DEF Hold, Last
    <3>4. Passed(trajectory_msg, store.known, t)
      BY <2>2, <3>3 DEF Passed
    <3>. QED
      BY <2>1, <2>2, <3>2, <3>4, CycleKnows
  <2>. QED
    BY <2>3, <2>4, <2>5
<1>3. ASSUME NEW t \in QueryTimes, query_state_service(t) PROVE KnownInv'
  BY <1>3, Zenon DEF query_state_service, KnownInv, InterpolatesFromPositions
<1>4. CASE UNCHANGED vars
  BY <1>4, Zenon DEF vars, KnownInv, InterpolatesFromPositions
<1>. QED
  BY <1>1, <1>2, <1>3, <1>4 DEF Next

\* By the time update() samples a segment its first point has positions, given or
\* deduced, and a sample it judges is never one of a point without them: for every
\* message whose missing positions can be deduced, as long as query_state has not
\* sampled it.
THEOREM PositionsComeFirst == AllDeducible => (Spec => []InterpolatesFromPositions)
<1> SUFFICES ASSUME AllDeducible PROVE Spec => []InterpolatesFromPositions
  OBVIOUS
<1>1. Init => SearchInv /\ KnownInv
  BY DEF Init, SearchInv, PlaysOutInTime, Reached, Arrived, KnownInv, InterpolatesFromPositions
<1>2. KnownInv => InterpolatesFromPositions
  BY DEF KnownInv
<1>3. TypeInv /\ SearchInv /\ KnownInv /\ [Next]_vars => KnownInv'
  BY NextKnownInv
<1>. QED
  BY <1>1, <1>2, <1>3, InitTypeInv, NextTypeInv, NextSearchInv, PTL DEF Spec
=============================================================================
