------------------------------ MODULE Trajectory ------------------------------
(****************************************************************************)
(* Sampling a joint trajectory: class Trajectory with its two users, the     *)
(* update() cycle, which samples twice, and the query_state service.         *)
(*                                                                           *)
(* Points are numbered from 1, so Len(at) + 1 stands for end(), and times    *)
(* are counted from trajectory_start_time_.  Of a point's data the model     *)
(* keeps whether its positions are filled: a point given by velocities or    *)
(* accelerations gets them when the segment before it is sampled.            *)
(* Interpolation is by splines, the default.                                 *)
(****************************************************************************)
EXTENDS Integers, Sequences

CONSTANTS
    Trajectories, \* accepted messages: the times of the points, the points that
                  \* come with positions, and how far header.stamp lies back at the
                  \* first sample (0 for a zero header.stamp)
    Steps,        \* period * scaling_factor_ of a cycle
    UpdatePeriod, \* update_period_
    QueryTimes,   \* the times query_state is asked for
    MaxTime       \* bound: traj_time_ stops there, after the end of every message

\* What validate_trajectory_msg has let through: points in strictly rising order.
ASSUME TrajectoryAssumption ==
    /\ UpdatePeriod \in Nat \ {0} /\ MaxTime \in Nat
    /\ Steps \subseteq Nat /\ QueryTimes \subseteq Int
    /\ \A m \in Trajectories :
           /\ m.at \in Seq(Nat) /\ Len(m.at) > 0 /\ m.given \subseteq DOMAIN m.at
           /\ m.offset \in Int /\ m.offset <= m.at[Len(m.at)]
           /\ m.at[Len(m.at)] < MaxTime
           /\ \A i \in 1..Len(m.at) - 1 : m.at[i] < m.at[i + 1]

VARIABLES
    trajectory_msg,       \* the current message
    store,                \* last_sample_idx_, and the points with positions
    sampled_already,
    time_before_traj_msg,
    traj_time,
    desired,              \* the sample at traj_time_ of the last cycle
    next,                 \* the sample for the next cycle, which update() judges
    queried               \* history: query_state has sampled this message

vars == <<trajectory_msg, store, sampled_already, time_before_traj_msg, traj_time,
          desired, next, queried>>

\* A sample: its segment, and whether it was computed from filled positions only.
\* Otherwise the code reads an empty vector.
Segment(valid, first, last, sound) ==
    [valid |-> valid, start_segment |-> first, end_segment |-> last, sound |-> sound]
Nowhere == Segment(FALSE, 0, 0, TRUE)

-----------------------------------------------------------------------------
(* Trajectory::sample() on message m.                                        *)

Last(m) == Len(m.at)

Within(m, i, t) == i < Last(m) /\ m.at[i] <= t /\ t < m.at[i + 1]

\* Where the next search starts after segment i was found.
FaultyNextIdx(i, idx, monotonic) == IF monotonic THEN i + 1 ELSE idx
NextIdx(i, idx, monotonic) == IF monotonic THEN i ELSE idx

\* Sampling the segment that ends in point i fills that point's positions.
Deduce(known, i) == known \cup {i}

\* Past the end: the last point recovers positions that were never deduced.
FaultyRecover(m, known) == known
Recover(m, known) ==
    IF Last(m) > 1 /\ Last(m) - 1 \in known THEN known \cup {Last(m)} ELSE known

\* The segment around time t, searched from where the last search ended, and the
\* store it leaves.  Passing the end moves the search there in every case.
sample(m, st, t, before, monotonic) ==
    LET found == {i \in st.idx..Last(m) : Within(m, i, t)}
        i == CHOOSE j \in found : \A k \in found : j <= k
        known == Recover(m, st.known)
        inLast == Last(m) \in known
    IN  CASE t < before -> [segment |-> Nowhere, store |-> st]
          [] t >= before /\ t < m.at[1] ->
                 [segment |-> Segment(TRUE, 1, 1, TRUE),
                  store |-> [st EXCEPT !.known = Deduce(@, 1)]]
          [] t >= before /\ t >= m.at[1] /\ found # {} ->
                 [segment |-> Segment(TRUE, i, i + 1, i \in st.known),
                  store |-> [idx |-> NextIdx(i, st.idx, monotonic),
                             known |-> Deduce(st.known, i + 1)]]
          [] t >= before /\ t >= m.at[1] /\ found = {} ->
                 [segment |-> Segment(inLast, IF inLast THEN Last(m) ELSE Last(m) + 1,
                                      Last(m) + 1, TRUE),
                  store |-> [idx |-> Last(m), known |-> known]]

-----------------------------------------------------------------------------
(* The controller.                                                           *)

\* A new message is installed by Trajectory::update().
FaultyUpdated(m) == [idx |-> store.idx, known |-> m.given]
Updated(m) == [idx |-> 1, known |-> m.given]

Hold == [at |-> <<0>>, given |-> {1}, offset |-> 0]

\* Activation installs the trajectory that holds position.
Init ==
    /\ trajectory_msg = Hold /\ store = [idx |-> 1, known |-> {1}]
    /\ sampled_already = FALSE
    /\ time_before_traj_msg = 0 /\ traj_time = 0
    /\ desired = Nowhere /\ next = Nowhere
    /\ queried = FALSE

\* The two samples of a cycle: at the time of the cycle and, without moving the
\* search on, at the time of the next one.
SampleTwice(m, st, t, before) ==
    LET now == sample(m, st, t, before, TRUE)
        ahead == sample(m, now.store, t + UpdatePeriod, before, FALSE)
    IN  /\ traj_time' = t /\ time_before_traj_msg' = before
        /\ desired' = now.segment /\ next' = ahead.segment
        /\ store' = ahead.store

FaultyIsSampled == FALSE
IsSampled == TRUE

\* The first cycle of a message: the point before it is the current state, now.
FirstCycle(m, st, offset) ==
    /\ SampleTwice(m, st, offset, offset)
    /\ sampled_already' = IsSampled

\* A cycle that takes a new message from the buffer.
Replace ==
    \E m \in Trajectories :
        /\ trajectory_msg' = m
        /\ FirstCycle(m, Updated(m), m.offset)
        /\ queried' = FALSE

\* A cycle that goes on with the message it has; step is period * scaling_factor_.
Continue(step) ==
    /\ IF sampled_already
         THEN /\ SampleTwice(trajectory_msg, store,
                             IF traj_time + step < MaxTime THEN traj_time + step ELSE MaxTime,
                             time_before_traj_msg)
              /\ UNCHANGED sampled_already
         ELSE FirstCycle(trajectory_msg, store, time_before_traj_msg)
    /\ UNCHANGED <<trajectory_msg, queried>>

\* query_state samples the trajectory the controller is playing, and moves its
\* search on.  A query before the first cycle of a message is left out.
query_state_service(t) ==
    /\ sampled_already
    /\ store' = sample(trajectory_msg, store, t, time_before_traj_msg, TRUE).store
    /\ queried' = TRUE
    /\ UNCHANGED <<trajectory_msg, sampled_already, time_before_traj_msg, traj_time,
                   desired, next>>

Next ==
    \/ Replace
    \/ \E step \in Steps : Continue(step)
    \/ \E t \in QueryTimes : query_state_service(t)

\* update() is called again and again, with a positive scaling factor now and then.
Spec == Init /\ [][Next]_vars /\ WF_vars(\E step \in Steps \ {0} : Continue(step))

-----------------------------------------------------------------------------
(* Properties.                                                               *)

Segments(m) == [valid : BOOLEAN, start_segment : 0..Last(m) + 1,
                end_segment : 0..Last(m) + 1, sound : BOOLEAN]

TypeOK ==
    /\ trajectory_msg \in Trajectories \cup {Hold}
    /\ store.idx \in DOMAIN trajectory_msg.at
    /\ trajectory_msg.given \subseteq store.known
    /\ store.known \subseteq DOMAIN trajectory_msg.at
    /\ sampled_already \in BOOLEAN /\ queried \in BOOLEAN
    /\ time_before_traj_msg \in Int /\ traj_time \in Int
    /\ desired \in Segments(trajectory_msg) /\ next \in Segments(trajectory_msg)

AtEnd(s) == s.end_segment = Last(trajectory_msg) + 1

\* What the documentation of sample() says of the iterators, for a time t.
IsSegment(s, t) ==
    IF AtEnd(s) THEN t >= trajectory_msg.at[Last(trajectory_msg)]
    ELSE \/ s.start_segment = 1 /\ s.end_segment = 1 /\ t < trajectory_msg.at[1]
         \/ /\ s.end_segment = s.start_segment + 1
            /\ Within(trajectory_msg, s.start_segment, t)

\* The samples of a cycle are those of the segments their times fall into, though
\* the search only starts where the last one ended, and the look-ahead may have
\* ended it; a trajectory is played out at most one update period early.
PlaysOutInTime ==
    sampled_already /\ ~queried =>
        /\ IsSegment(next, traj_time + UpdatePeriod)
        /\ \/ IsSegment(desired, traj_time)
           \/ AtEnd(desired) /\ IsSegment(desired, traj_time + UpdatePeriod)

\* The same whatever was asked of query_state.
QueriedPlaysOutInTime ==
    sampled_already => IsSegment(next, traj_time + UpdatePeriod)

\* The messages whose missing positions can be deduced: a point without them needs
\* a cycle in the segment before it, unless it is the last one, which is recovered.
\* The segment before the first point starts at the current state.
Deducible(m) ==
    \A i \in DOMAIN m.at \ m.given :
        /\ i = 1 => m.offset < m.at[1]
        /\ 1 < i /\ i < Last(m) =>
               /\ m.offset < m.at[i]
               /\ \A step \in Steps \cup {UpdatePeriod} : m.at[i] - m.at[i - 1] > step

\* Positions are deduced before they are used: by the time a segment is sampled,
\* its first point has them, and a sample update() acts on has positions.
InterpolatesFromPositions ==
    sampled_already /\ ~queried => desired.sound /\ next.sound /\ next.valid

\* What a step that replaces the trajectory does, if it changes anything.
Replaced == trajectory_msg' # trajectory_msg \/ traj_time' < traj_time \/ (queried /\ ~queried')

\* A trajectory is played out, unless it is replaced time and again.
TrajectoryEnds == []<><<Replaced>>_vars \/ []<>AtEnd(next)
===============================================================================
