---------------------------- MODULE StewardProofs ----------------------------
(* Proofs about the steward, for any validators, scores, bounds and epochs.     *)
(*                                                                              *)
(* What must hold of the state account is stated of any account st, with the    *)
(* validators m that its indices stand for and the history s, so that it can    *)
(* be followed through the parts of an instruction: what the handler changes,   *)
(* then remove_validator or maybe_transition.                                   *)
EXTENDS Steward, SequenceTheorems, FiniteSetTheorems, WellFoundedInduction, TLAPS

\* The state account.
State ==
    [state_tag : Tags, num_pool_validators : 0 .. MAX_VALIDATORS,
     validators_added : 0 .. MAX_VALIDATORS, scores : [Indices -> Nat],
     sorted_score_indices : [Indices -> 0 .. SORTED_INDEX_DEFAULT],
     delegations : [Indices -> 0 .. MAX_VALIDATORS],
     instant_unstake : SUBSET Indices, progress : SUBSET Indices,
     validators_to_remove : SUBSET Indices,
     validators_for_immediate_removal : SUBSET Indices,
     current_epoch : 1 .. MaxEpoch, next_cycle_epoch : Nat,
     range_exceeded : BOOLEAN, flags : SUBSET Flags]

\* An entry of the stake pool's validator list.
Entry == [vote : Votes, status : {"Active", "Deactivating", "ReadyForRemoval"}, until : Nat]

\* The accounts that are not the steward's.
PoolOk ==
    /\ clock \in [epoch : 1 .. MaxEpoch, part : 0 .. 2]
    /\ pool \in [list : Seq(Entry), last_update_epoch : Nat]

\* What is kept about the cycle and the epoch.
History ==
    [ranked : SUBSET Votes, late : BOOLEAN, checked : SUBSET Votes, visits : [Votes -> Nat]]

\* How many validators the indices stand for.
Total(st) == st.num_pool_validators + st.validators_added

\* The state account is one of this epoch or an earlier one, and within its capacity.
StateOk(st, m, s) ==
    /\ st \in State
    /\ m \in Seq(Votes) /\ Len(m) = Total(st) /\ Total(st) <= MAX_VALIDATORS
    /\ st.current_epoch <= epoch
    /\ s \in History

\* Flags and state of the machine agree.
CycleOk(st) ==
    /\ "COMPUTE_DELEGATIONS" \in st.flags => "COMPUTE_SCORE" \in st.flags
    /\ st.state_tag = "ComputeDelegations" => "COMPUTE_SCORE" \in st.flags
    /\ st.current_epoch = epoch /\ st.state_tag # "RebalanceDirected"
           => "REBALANCE_DIRECTED_COMPLETE" \in st.flags
    /\ st.state_tag \in {"ComputeInstantUnstake", "Rebalance"} /\ st.current_epoch = epoch
           => "COMPUTE_DELEGATIONS" \in st.flags /\ epoch < st.next_cycle_epoch

\* Validators with a share of the stake.
Sharing(st) == {i \in Indices : st.delegations[i] > 0}

\* Shares fit, and there are none while they are about to be computed.
SharesOk(st) ==
    /\ \A i \in Sharing(st) : st.delegations[i] >= Cardinality(Sharing(st))
    /\ \/ st.state_tag = "ComputeDelegations"
       \/ st.state_tag = "ComputeScores" /\ st.progress # {}
       => st.delegations = Zeros

\* What is kept by index is about the validator that the index stands for.
DataOk(st, m) ==
    \A i \in 0 .. st.num_pool_validators - 1 :
        /\ st.scores[i] \in {0, Score[m[i + 1]]}
        /\ i \in st.instant_unstake => m[i + 1] \in Delinquent
        /\ st.delegations[i] > 0 => st.scores[i] > 0

\* Whose bit of progress is set was scored or checked, and when a phase is over all were.
SkipOk(st, m, s) ==
    \A i \in 0 .. st.num_pool_validators - 1 :
        /\ \/ st.state_tag = "ComputeScores" /\ i \in st.progress
           \/ st.state_tag = "ComputeDelegations"
           => m[i + 1] \in s.ranked
        /\ st.current_epoch = epoch
               /\ \/ st.state_tag = "ComputeInstantUnstake" /\ i \in st.progress
                  \/ st.state_tag = "Rebalance"
           => m[i + 1] \in s.checked

\* The loop of this epoch is over: nothing starts it again before the next.
LoopOver(st) ==
    /\ st.state_tag = "Idle" /\ {"REBALANCE", "COMPUTE_DELEGATIONS"} \subseteq st.flags
    /\ epoch < st.next_cycle_epoch

\* Nobody was rebalanced twice; somebody only in the loop of this epoch, and then
\* progress knows of it as long as the loop runs.
OnceOk(st, m, s) ==
    /\ \A v \in Votes : s.visits[v] <= 1
    /\ \A v \in Votes : s.visits[v] > 0 =>
           st.current_epoch = epoch /\ (st.state_tag = "Rebalance" \/ LoopOver(st))
    /\ \A i \in 0 .. st.num_pool_validators - 1 :
           st.state_tag = "Rebalance" /\ s.visits[m[i + 1]] > 0 => i \in st.progress

\* All that must hold of the account, apart from the indices' agreement with the pool.
AllOk(st, m, s) ==
    /\ StateOk(st, m, s)
    /\ CycleOk(st)
    /\ SharesOk(st)
    /\ DataOk(st, m)
    /\ SkipOk(st, m, s)
    /\ OnceOk(st, m, s)

\* The fields that no transition touches.
SameFields(st, to) ==
    /\ to.num_pool_validators = st.num_pool_validators
    /\ to.validators_added = st.validators_added
    /\ to.scores = st.scores
    /\ to.sorted_score_indices = st.sorted_score_indices
    /\ to.validators_to_remove = st.validators_to_remove
    /\ to.validators_for_immediate_removal = st.validators_for_immediate_removal
    /\ to.current_epoch = st.current_epoch
    /\ to.next_cycle_epoch = st.next_cycle_epoch
    /\ to.range_exceeded = st.range_exceeded

\* The fields that only additions, removals and epoch maintenance touch.
SameMarks(st, to) ==
    /\ to.validators_to_remove = st.validators_to_remove
    /\ to.validators_for_immediate_removal = st.validators_for_immediate_removal
    /\ to.current_epoch = st.current_epoch

\* What maybe_transition may do, state by state.
IdleFlags(st) ==
    IF epoch >= st.next_cycle_epoch THEN st.flags \ {"COMPUTE_SCORE", "COMPUTE_DELEGATIONS"}
    ELSE st.flags

\* ... every validator of the cycle has its score.
Scored(st, to) ==
    /\ st.state_tag = "ComputeScores" /\ to.state_tag = "ComputeDelegations"
    /\ is_complete(st) /\ to.progress = {}
    /\ to.delegations = Zeros /\ to.instant_unstake = st.instant_unstake
    /\ to.flags = st.flags \cup {"COMPUTE_SCORE"}

\* ... the delegations are computed.
Delegated(st, to) ==
    /\ st.state_tag = "ComputeDelegations" /\ to.state_tag = "Idle"
    /\ to.progress = st.progress /\ to.delegations = st.delegations
    /\ to.instant_unstake = st.instant_unstake /\ to.flags = st.flags

\* ... idle: a cycle begins, the loop begins, or neither.
Waited(st, to) ==
    /\ st.state_tag = "Idle" /\ to.delegations = st.delegations
    /\ to.instant_unstake \subseteq st.instant_unstake
    /\ \/ /\ to.state_tag = "ComputeScores" /\ to.progress = {}
          /\ "REBALANCE_DIRECTED_COMPLETE" \in IdleFlags(st)
          /\ "COMPUTE_DELEGATIONS" \notin IdleFlags(st)
          /\ to.flags = IdleFlags(st)
       \/ /\ to.state_tag = "Idle"
          /\ \/ to.flags = IdleFlags(st) \cup {"POST_LOOP_IDLE"}
             \/ to.flags = IdleFlags(st) \cup {"PRE_LOOP_IDLE"}
       \/ /\ to.state_tag = "ComputeInstantUnstake" /\ to.progress = {}
          /\ "REBALANCE" \notin IdleFlags(st)
          /\ "REBALANCE_DIRECTED_COMPLETE" \in IdleFlags(st)
                 => "COMPUTE_DELEGATIONS" \in IdleFlags(st)
          /\ to.flags = IdleFlags(st) \cup {"PRE_LOOP_IDLE"}

\* ... every validator of the cycle is checked for instant unstake.
Checked(st, to) ==
    /\ st.state_tag = "ComputeInstantUnstake" /\ to.state_tag = "Rebalance"
    /\ is_complete(st) /\ to.progress = {}
    /\ to.delegations = st.delegations /\ to.instant_unstake = st.instant_unstake
    /\ to.flags = st.flags \cup {"COMPUTE_INSTANT_UNSTAKES"}

\* ... every validator of the cycle is rebalanced.
Rebalanced(st, to) ==
    /\ st.state_tag = "Rebalance" /\ to.state_tag = "Idle"
    /\ to.progress = st.progress /\ to.delegations = st.delegations
    /\ to.instant_unstake = st.instant_unstake
    /\ to.flags = st.flags \cup {"REBALANCE"}

\* ... the directed stake is moved, or its time is over.
Directed(st, to) ==
    /\ st.state_tag = "RebalanceDirected" /\ to.state_tag = "Idle"
    /\ to.progress = st.progress /\ to.delegations = st.delegations
    /\ to.instant_unstake = st.instant_unstake
    /\ to.flags = st.flags \cup {"REBALANCE_DIRECTED_COMPLETE"}

\* A step of the machine, or none.
Moved(st, to) ==
    /\ to \in State /\ SameFields(st, to)
    /\ \/ to = st /\ st.state_tag # "Idle"
       \/ Scored(st, to) \/ Delegated(st, to) \/ Waited(st, to)
       \/ Checked(st, to) \/ Rebalanced(st, to) \/ Directed(st, to)

-----------------------------------------------------------------------------
(* Transitions                                                              *)

\* The end of the ranking is marked by a number.
LEMMA DefaultIndex == SORTED_INDEX_DEFAULT \in Nat
BY DEF SORTED_INDEX_DEFAULT

\* An account without shares.
LEMMA ZerosType == Zeros \in [Indices -> 0 .. MAX_VALIDATORS]
BY StewardAssumption, DefaultIndex DEF Zeros

\* A handler that is not ready to move leaves the account as it is.
LEMMA SameMoves ==
    ASSUME NEW st \in State, st.state_tag # "Idle"
    PROVE  Moved(st, st)
BY DEF Moved, SameFields

\* maybe_transition does one of these things.
LEMMA TransitionMoves ==
    ASSUME PoolOk, NEW st \in State
    PROVE  Moved(st, maybe_transition(st))
<1> DEFINE to == maybe_transition(st)
<1>1. clock.part \in 0 .. 2 /\ epoch \in Nat
    BY StewardAssumption DEF PoolOk, epoch
<1>2. CASE st.state_tag = "ComputeScores"
    <2>1. to = transition_compute_scores(st)
        BY <1>2 DEF maybe_transition
    <2>2. CASE ~(is_complete(st))
        BY <1>2, <2>1, <2>2, SameMoves DEF transition_compute_scores
    <2>3. CASE is_complete(st)
        <3> DEFINE flags == st.flags \cup {"COMPUTE_SCORE"}
        <3>1. flags \in SUBSET Flags
            BY DEF State, Flags
        <3>2. to = [st EXCEPT !.state_tag = "ComputeDelegations", !.progress = {},
                            !.delegations = Zeros, !.flags = flags]
            BY <2>1, <2>3 DEF transition_compute_scores, State
        <3> HIDE DEF flags
        <3>3. to \in State /\ SameFields(st, to)
            <4>1. "ComputeDelegations" \in Tags /\ Zeros \in [Indices -> 0 .. MAX_VALIDATORS]
                BY ZerosType DEF Tags
            <4>2. to \in State
                BY <3>1, <3>2, <4>1 DEF State
            <4>3. SameFields(st, to)
                BY <3>2 DEF State, SameFields
            <4>. QED  BY <4>2, <4>3
        <3>4. Scored(st, to)
            BY <1>2, <2>3, <3>2 DEF State, Scored, flags
        <3>. QED  BY <3>3, <3>4 DEF Moved
    <2>. QED  BY <2>2, <2>3
<1>3. CASE st.state_tag = "ComputeDelegations"
    <2>1. to = transition_compute_delegations(st)
        BY <1>3 DEF maybe_transition
    <2>2. CASE "COMPUTE_DELEGATIONS" \notin st.flags
        BY <1>3, <2>1, <2>2, SameMoves DEF transition_compute_delegations
    <2>3. CASE "COMPUTE_DELEGATIONS" \in st.flags
        <3>1. to = [st EXCEPT !.state_tag = "Idle"]
            BY <2>1, <2>3 DEF transition_compute_delegations
        <3>2. to \in State /\ SameFields(st, to)
            BY <3>1 DEF State, SameFields, Tags
        <3>3. Delegated(st, to)
            BY <1>3, <3>1 DEF State, Delegated
        <3>. QED  BY <3>2, <3>3 DEF Moved
    <2>. QED  BY <2>2, <2>3
<1>4. CASE st.state_tag = "ComputeInstantUnstake"
    <2>1. to = transition_compute_instant_unstake(st)
        BY <1>4 DEF maybe_transition
    <2>2. CASE ~(is_complete(st))
        BY <1>4, <2>1, <2>2, SameMoves DEF transition_compute_instant_unstake
    <2>3. CASE is_complete(st)
        <3> DEFINE flags == st.flags \cup {"COMPUTE_INSTANT_UNSTAKES"}
        <3>1. flags \in SUBSET Flags
            BY DEF State, Flags
        <3>2. to = [st EXCEPT !.state_tag = "Rebalance", !.progress = {}, !.flags = flags]
            BY <2>1, <2>3 DEF transition_compute_instant_unstake, State
        <3> HIDE DEF flags
        <3>3. to \in State /\ SameFields(st, to)
            BY <3>1, <3>2 DEF State, SameFields, Tags
        <3>4. Checked(st, to)
            BY <1>4, <2>3, <3>2 DEF State, Checked, flags
        <3>. QED  BY <3>3, <3>4 DEF Moved
    <2>. QED  BY <2>2, <2>3
<1>5. CASE st.state_tag = "Rebalance"
    <2>1. to = transition_rebalance(st)
        BY <1>5 DEF maybe_transition
    <2>2. CASE ~(is_complete(st))
        BY <1>5, <2>1, <2>2, SameMoves DEF transition_rebalance
    <2>3. CASE is_complete(st)
        <3> DEFINE flags == st.flags \cup {"REBALANCE"}
        <3>1. flags \in SUBSET Flags
            BY DEF State, Flags
        <3>2. to = [st EXCEPT !.state_tag = "Idle", !.flags = flags]
            BY <2>1, <2>3 DEF transition_rebalance, State
        <3> HIDE DEF flags
        <3>3. to \in State /\ SameFields(st, to)
            BY <3>1, <3>2 DEF State, SameFields, Tags
        <3>4. Rebalanced(st, to)
            BY <1>5, <2>3, <3>2 DEF State, Rebalanced, flags
        <3>. QED  BY <3>3, <3>4 DEF Moved
    <2>. QED  BY <2>2, <2>3
<1>6. CASE st.state_tag = "RebalanceDirected"
    <2>1. to = transition_rebalance_directed(st)
        BY <1>6 DEF maybe_transition
    <2>2. CASE ~("REBALANCE_DIRECTED_COMPLETE" \in st.flags \/ clock.part >= 1)
        BY <1>6, <2>1, <2>2, SameMoves DEF transition_rebalance_directed
    <2>3. CASE "REBALANCE_DIRECTED_COMPLETE" \in st.flags \/ clock.part >= 1
        <3> DEFINE flags == st.flags \cup {"REBALANCE_DIRECTED_COMPLETE"}
        <3>1. flags \in SUBSET Flags
            BY DEF State, Flags
        <3>2. to = [st EXCEPT !.state_tag = "Idle", !.flags = flags]
            BY <2>1, <2>3 DEF transition_rebalance_directed, State
        <3> HIDE DEF flags
        <3>3. to \in State /\ SameFields(st, to)
            BY <3>1, <3>2 DEF State, SameFields, Tags
        <3>4. Directed(st, to)
            BY <1>6, <2>3, <3>2 DEF State, Directed, flags
        <3>. QED  BY <3>3, <3>4 DEF Moved
    <2>. QED  BY <2>2, <2>3
<1>7. CASE st.state_tag = "Idle"
    <2>1. to = transition_idle(st)
        BY <1>7 DEF maybe_transition
    <2> DEFINE now == IF epoch >= st.next_cycle_epoch
                      THEN [st EXCEPT !.flags = @ \ {"COMPUTE_SCORE", "COMPUTE_DELEGATIONS"},
                                      !.instant_unstake = {}, !.progress = {}]
                      ELSE st
               enter(tag) == [now EXCEPT !.state_tag = tag, !.progress = {},
                                         !.instant_unstake = {}]
               begins == /\ "REBALANCE_DIRECTED_COMPLETE" \in now.flags
                         /\ "COMPUTE_DELEGATIONS" \notin now.flags
                         /\ clock.part >= 1
    <2>2. /\ now \in State /\ SameFields(st, now) /\ now.flags = IdleFlags(st)
          /\ now.state_tag = "Idle" /\ now.delegations = st.delegations
          /\ now.instant_unstake \subseteq st.instant_unstake
        <3>1. CASE epoch >= st.next_cycle_epoch
            <4> DEFINE flags == st.flags \ {"COMPUTE_SCORE", "COMPUTE_DELEGATIONS"}
            <4>1. flags \in SUBSET Flags
                BY DEF State
            <4>2. now = [st EXCEPT !.flags = flags, !.instant_unstake = {}, !.progress = {}]
                BY <3>1 DEF State
            <4>3. IdleFlags(st) = flags
                BY <3>1 DEF IdleFlags
            <4> HIDE DEF flags, now
            <4>. QED  BY <1>7, <4>1, <4>2, <4>3 DEF State, SameFields
        <3>2. CASE ~(epoch >= st.next_cycle_epoch)
            BY <1>7, <3>2 DEF SameFields, IdleFlags
        <3>. QED  BY <3>1, <3>2
    <2>3. to = IF begins THEN enter("ComputeScores")
               ELSE IF "REBALANCE" \in now.flags
               THEN [now EXCEPT !.flags = @ \cup {"POST_LOOP_IDLE"}]
               ELSE [(IF clock.part >= 2 THEN enter("ComputeInstantUnstake") ELSE now)
                        EXCEPT !.flags = @ \cup {"PRE_LOOP_IDLE"}]
        BY <2>1 DEF transition_idle
    <2> HIDE DEF now
    <2>4. CASE begins
        <3> DEFINE flags == now.flags
        <3>1. flags \in SUBSET Flags
            BY <2>2 DEF State, Flags
        <3>2. to = [now EXCEPT !.state_tag = "ComputeScores", !.progress = {},
                             !.instant_unstake = {}, !.flags = flags]
            BY <2>2, <2>3, <2>4 DEF State
        <3> HIDE DEF flags
        <3>3. to \in State /\ SameFields(now, to)
            <4>1. "ComputeScores" \in Tags
                BY DEF Tags
            <4>2. to \in State
                BY <2>2, <3>1, <3>2, <4>1 DEF State
            <4>3. SameFields(now, to)
                BY <2>2, <3>2 DEF State, SameFields
            <4>. QED  BY <4>2, <4>3
        <3>4. SameFields(st, to)
            BY <2>2, <3>3 DEF SameFields
        <3>5. Waited(st, to)
            BY <1>1, <1>7, <2>2, <2>4, <3>2 DEF State, Waited, flags
        <3>. QED  BY <3>3, <3>4, <3>5 DEF Moved
    <2>5. CASE ~begins /\ "REBALANCE" \in now.flags
        <3> DEFINE flags == now.flags \cup {"POST_LOOP_IDLE"}
        <3>1. flags \in SUBSET Flags
            BY <2>2 DEF State, Flags
        <3>2. to = [now EXCEPT !.flags = flags]
            BY <2>2, <2>3, <2>5 DEF State
        <3> HIDE DEF flags
        <3>3. to \in State /\ SameFields(now, to)
            BY <2>2, <3>1, <3>2 DEF State, SameFields, Tags
        <3>4. SameFields(st, to)
            BY <2>2, <3>3 DEF SameFields
        <3>5. Waited(st, to)
            BY <1>1, <1>7, <2>2, <2>5, <3>2 DEF State, Waited, flags
        <3>. QED  BY <3>3, <3>4, <3>5 DEF Moved
    <2>6. CASE ~begins /\ "REBALANCE" \notin now.flags /\ clock.part >= 2
        <3> DEFINE flags == now.flags \cup {"PRE_LOOP_IDLE"}
        <3>1. flags \in SUBSET Flags
            BY <2>2 DEF State, Flags
        <3>2. to = [now EXCEPT !.state_tag = "ComputeInstantUnstake", !.progress = {},
                             !.instant_unstake = {}, !.flags = flags]
            BY <2>2, <2>3, <2>6 DEF State
        <3> HIDE DEF flags
        <3>3. to \in State /\ SameFields(now, to)
            <4>1. "ComputeInstantUnstake" \in Tags
                BY DEF Tags
            <4>2. to \in State
                BY <2>2, <3>1, <3>2, <4>1 DEF State
            <4>3. SameFields(now, to)
                BY <2>2, <3>2 DEF State, SameFields
            <4>. QED  BY <4>2, <4>3
        <3>4. SameFields(st, to)
            BY <2>2, <3>3 DEF SameFields
        <3>5. Waited(st, to)
            BY <1>1, <1>7, <2>2, <2>6, <3>2 DEF State, Waited, flags
        <3>. QED  BY <3>3, <3>4, <3>5 DEF Moved
    <2>7. CASE ~begins /\ "REBALANCE" \notin now.flags /\ ~(clock.part >= 2)
        <3> DEFINE flags == now.flags \cup {"PRE_LOOP_IDLE"}
        <3>1. flags \in SUBSET Flags
            BY <2>2 DEF State, Flags
        <3>2. to = [now EXCEPT !.flags = flags]
            BY <2>2, <2>3, <2>7 DEF State
        <3> HIDE DEF flags
        <3>3. to \in State /\ SameFields(now, to)
            BY <2>2, <3>1, <3>2 DEF State, SameFields, Tags
        <3>4. SameFields(st, to)
            BY <2>2, <3>3 DEF SameFields
        <3>5. Waited(st, to)
            BY <1>1, <1>7, <2>2, <2>7, <3>2 DEF State, Waited, flags
        <3>. QED  BY <3>3, <3>4, <3>5 DEF Moved
    <2>. QED  BY <2>4, <2>5, <2>6, <2>7
<1>. QED  BY <1>2, <1>3, <1>4, <1>5, <1>6, <1>7 DEF State, Tags

\* Flags and state agree after a transition.
LEMMA MovedCycle ==
    ASSUME PoolOk, NEW st \in State, CycleOk(st), NEW to, Moved(st, to),
           st.current_epoch <= epoch
    PROVE  CycleOk(to)
<1>1. epoch \in Nat /\ st.next_cycle_epoch \in Nat
    BY StewardAssumption DEF PoolOk, epoch, State
<1>2. CASE to = st
    BY <1>2
<1>3. CASE Scored(st, to) \/ Delegated(st, to) \/ Checked(st, to)
           \/ Rebalanced(st, to) \/ Directed(st, to)
    BY <1>3 DEF Moved, SameFields, CycleOk, Scored, Delegated, Checked, Rebalanced, Directed
<1>4. CASE Waited(st, to)
    BY <1>1, <1>4 DEF Moved, SameFields, CycleOk, Waited, IdleFlags
<1>. QED  BY <1>2, <1>3, <1>4 DEF Moved

\* There are no shares of which none is one.
LEMMA NoShares ==
    ASSUME NEW st \in State, st.delegations = Zeros
    PROVE  Sharing(st) = {}
BY DEF Sharing, Zeros

\* There are finitely many shares.
LEMMA SharingFinite ==
    ASSUME NEW st
    PROVE  IsFiniteSet(Sharing(st))
<1>1. IsFiniteSet(Indices)
    BY StewardAssumption, DefaultIndex, FS_Interval DEF Indices
<1>. QED  BY <1>1, FS_Subset DEF Sharing

\* A transition changes no share, but takes all when it begins to compute them.
LEMMA MovedShares ==
    ASSUME NEW st \in State, SharesOk(st), NEW to, Moved(st, to)
    PROVE  SharesOk(to)
<1>1. CASE to = st
    BY <1>1
<1>2. CASE Scored(st, to)
    <2>1. to \in State /\ to.delegations = Zeros /\ to.progress = {}
        BY <1>2 DEF Moved, Scored
    <2>. QED  BY <2>1, NoShares DEF SharesOk
<1>3. CASE Delegated(st, to) \/ Waited(st, to) \/ Checked(st, to)
           \/ Rebalanced(st, to) \/ Directed(st, to)
    <2>1. to.delegations = st.delegations /\ Sharing(to) = Sharing(st)
        BY <1>3 DEF Delegated, Waited, Checked, Rebalanced, Directed, Sharing
    <2>2. /\ to.state_tag # "ComputeDelegations"
          /\ to.state_tag = "ComputeScores" => to.progress = {}
        BY <1>3 DEF Delegated, Waited, Checked, Rebalanced, Directed
    <2>3. \A i \in Sharing(st) : st.delegations[i] >= Cardinality(Sharing(st))
        BY DEF SharesOk
    <2>4. \A i \in Sharing(to) : to.delegations[i] >= Cardinality(Sharing(to))
        BY <2>1, <2>3
    <2>. QED  BY <2>2, <2>4 DEF SharesOk
<1>. QED  BY <1>1, <1>2, <1>3 DEF Moved

\* A transition leaves scores, and takes bits of instant unstake and shares at most.
LEMMA MovedData ==
    ASSUME NEW st \in State, NEW m, DataOk(st, m), NEW to, Moved(st, to)
    PROVE  DataOk(to, m)
<1>1. /\ to.num_pool_validators = st.num_pool_validators
      /\ to.scores = st.scores /\ to.instant_unstake \subseteq st.instant_unstake
    BY DEF Moved, SameFields, Scored, Delegated, Waited, Checked, Rebalanced, Directed
<1>2. to.delegations = st.delegations \/ to.delegations = Zeros
    BY DEF Moved, Scored, Delegated, Waited, Checked, Rebalanced, Directed
<1>3. 0 .. st.num_pool_validators - 1 \subseteq Indices
    BY StewardAssumption DEF State, Indices
<1>. QED  BY <1>1, <1>2, <1>3 DEF DataOk, Zeros

\* A phase ends only when progress is complete.
LEMMA MovedSkip ==
    ASSUME NEW st \in State, NEW m, NEW s, SkipOk(st, m, s), NEW to, Moved(st, to)
    PROVE  SkipOk(to, m, s)
<1>1. CASE to = st
    BY <1>1
<1>2. CASE Scored(st, to)
    BY <1>2 DEF Moved, SameFields, Scored, SkipOk, is_complete
<1>3. CASE Checked(st, to)
    BY <1>3 DEF Moved, SameFields, Checked, SkipOk, is_complete
<1>4. CASE Delegated(st, to) \/ Waited(st, to) \/ Rebalanced(st, to) \/ Directed(st, to)
    BY <1>4 DEF Delegated, Waited, Rebalanced, Directed, SkipOk
<1>. QED  BY <1>1, <1>2, <1>3, <1>4 DEF Moved

\* An index below num_pool_validators stands for a validator.
LEMMA IndexOfValidator ==
    ASSUME NEW st, NEW m, NEW s, StateOk(st, m, s), NEW i \in 0 .. st.num_pool_validators - 1
    PROVE  i \in Indices /\ i + 1 \in DOMAIN m /\ m[i + 1] \in Votes
<1>1. /\ st.num_pool_validators \in Nat /\ st.validators_added \in Nat
      /\ st.num_pool_validators <= MAX_VALIDATORS /\ MAX_VALIDATORS \in Nat
      /\ m \in Seq(Votes) /\ Len(m) = st.num_pool_validators + st.validators_added
    BY StewardAssumption DEF StateOk, State, Total
<1>. QED  BY <1>1 DEF Indices

\* The loop ends in a state in which no transition starts it again.
LEMMA MovedOnce ==
    ASSUME PoolOk, NEW st, NEW m, NEW s, StateOk(st, m, s), CycleOk(st), OnceOk(st, m, s),
           NEW to, Moved(st, to)
    PROVE  OnceOk(to, m, s)
<1>1. epoch \in Nat /\ st.next_cycle_epoch \in Nat
    BY StewardAssumption DEF PoolOk, epoch, State, StateOk
<1>2. to.next_cycle_epoch = st.next_cycle_epoch /\ to.current_epoch = st.current_epoch
      /\ to.num_pool_validators = st.num_pool_validators
    BY DEF Moved, SameFields
<1>3. ASSUME NEW v \in Votes, s.visits[v] > 0
      PROVE  st.current_epoch = epoch /\ (to.state_tag = "Rebalance" \/ LoopOver(to))
    <2>1. st.current_epoch = epoch /\ (st.state_tag = "Rebalance" \/ LoopOver(st))
        BY <1>3 DEF OnceOk
    <2>2. CASE st.state_tag = "Rebalance"
        <3>1. "COMPUTE_DELEGATIONS" \in st.flags /\ epoch < st.next_cycle_epoch
            BY <2>1, <2>2 DEF CycleOk
        <3>2. to = st \/ Rebalanced(st, to)
            BY <2>2 DEF Moved, Scored, Delegated, Waited, Checked, Directed
        <3>. QED  BY <1>2, <2>1, <2>2, <3>1, <3>2 DEF Rebalanced, LoopOver
    <2>3. CASE LoopOver(st)
        <3>1. Waited(st, to)
            BY <2>3 DEF Moved, LoopOver, Scored, Delegated, Checked, Rebalanced, Directed
        <3>2. IdleFlags(st) = st.flags
            BY <1>1, <2>3 DEF LoopOver, IdleFlags
        <3>. QED  BY <1>2, <2>1, <2>3, <3>1, <3>2 DEF Waited, LoopOver
    <2>. QED  BY <2>1, <2>2, <2>3
<1>4. ASSUME NEW i \in 0 .. to.num_pool_validators - 1, to.state_tag = "Rebalance",
             s.visits[m[i + 1]] > 0
      PROVE  i \in to.progress
    <2> i \in 0 .. st.num_pool_validators - 1 /\ m[i + 1] \in Votes
        BY <1>2, IndexOfValidator
    <2>1. CASE to = st
        BY <1>4, <2>1 DEF OnceOk
    <2>2. CASE Checked(st, to)
        <3>1. st.state_tag = "Rebalance" \/ st.state_tag = "Idle"
            BY <1>4 DEF OnceOk, LoopOver
        <3>. QED  BY <2>2, <3>1 DEF Checked
    <2>. QED  BY <1>4, <2>1, <2>2 DEF Moved, Scored, Delegated, Waited, Rebalanced, Directed
<1>. QED  BY <1>2, <1>3, <1>4 DEF OnceOk

\* All of it is kept by maybe_transition.
LEMMA TransitionKeeps ==
    ASSUME PoolOk, NEW st, NEW m, NEW s, AllOk(st, m, s)
    PROVE  AllOk(maybe_transition(st), m, s) /\ SameMarks(st, maybe_transition(st))
<1> DEFINE to == maybe_transition(st)
<1>1. /\ st \in State /\ StateOk(st, m, s) /\ CycleOk(st) /\ SharesOk(st) /\ DataOk(st, m)
      /\ SkipOk(st, m, s) /\ OnceOk(st, m, s) /\ st.current_epoch <= epoch
    BY DEF AllOk, StateOk
<1>2. Moved(st, to)
    BY <1>1, TransitionMoves
<1> HIDE DEF to
<1>3. StateOk(to, m, s)
    BY <1>1, <1>2 DEF StateOk, Moved, SameFields, Total
<1>4. CycleOk(to) /\ SharesOk(to)
    BY <1>1, <1>2, MovedCycle, MovedShares
<1>5. DataOk(to, m) /\ SkipOk(to, m, s) /\ OnceOk(to, m, s)
    BY <1>1, <1>2, MovedData, MovedSkip, MovedOnce
<1>6. SameMarks(st, to)
    BY <1>2 DEF Moved, SameFields, SameMarks
<1>. QED  BY <1>3, <1>4, <1>5, <1>6 DEF AllOk, to

-----------------------------------------------------------------------------
(* Removal                                                                  *)

\* The index at which remove_validator finds what it stores at i.
Shifted(index, n, i) == IF i \in index .. n THEN i + 1 ELSE i

\* RemoveAt takes one element out and moves the later ones down.
LEMMA RemoveAtEffect ==
    ASSUME NEW S, NEW m \in Seq(S), NEW k \in 1 .. Len(m)
    PROVE  /\ RemoveAt(m, k) \in Seq(S)
           /\ Len(RemoveAt(m, k)) = Len(m) - 1
           /\ \A i \in 1 .. Len(m) - 1 :
                  RemoveAt(m, k)[i] = IF i < k THEN m[i] ELSE m[i + 1]
<1> DEFINE u == SubSeq(m, 1, k - 1)
           v == SubSeq(m, k + 1, Len(m))
<1>1. /\ u \in Seq(S) /\ Len(u) = k - 1
      /\ \A i \in 1 .. k - 1 : u[i] = m[i]
    OBVIOUS
<1>2. /\ v \in Seq(S) /\ Len(v) = Len(m) - k
      /\ \A i \in 1 .. Len(m) - k : v[i] = m[k + i]
    OBVIOUS
<1> HIDE DEF u, v
<1>3. /\ u \o v \in Seq(S) /\ Len(u \o v) = Len(u) + Len(v)
      /\ \A i \in 1 .. Len(u) + Len(v) :
             (u \o v)[i] = IF i <= Len(u) THEN u[i] ELSE v[i - Len(u)]
    BY <1>1, <1>2, ConcatProperties
<1>4. RemoveAt(m, k) = u \o v
    BY DEF RemoveAt, u, v
<1>5. ASSUME NEW i \in 1 .. Len(m) - 1
      PROVE  (u \o v)[i] = IF i < k THEN m[i] ELSE m[i + 1]
    <2>1. CASE i < k
        BY <1>1, <1>2, <1>3, <2>1
    <2>2. CASE ~(i < k)
        <3>1. /\ i - (k - 1) \in 1 .. Len(m) - k /\ ~(i <= k - 1) /\ k + (i - (k - 1)) = i + 1
              /\ i \in 1 .. Len(u) + Len(v)
            BY <1>1, <1>2, <2>2
        <3>2. (u \o v)[i] = v[i - (k - 1)]
            BY <1>1, <1>3, <3>1
        <3>3. v[i - (k - 1)] = m[i + 1]
            BY <1>2, <3>1
        <3>. QED  BY <2>2, <3>2, <3>3
    <2>. QED  BY <2>1, <2>2
<1>6. Len(u) + Len(v) = Len(m) - 1
    BY <1>1, <1>2
<1>. QED  BY <1>3, <1>4, <1>5, <1>6

\* Where remove_validator looks is within the arrays.
LEMMA ShiftedIndex ==
    ASSUME NEW index \in Nat, NEW n \in Indices, NEW i \in Indices \ {n}
    PROVE  Shifted(index, n, i) \in Indices
BY StewardAssumption DEF Indices, Shifted

\* A shifted array has the type of the array.
LEMMA ShiftArrayType ==
    ASSUME NEW S, 0 \in S, NEW f \in [Indices -> S], NEW index \in Nat, NEW n \in Indices
    PROVE  ShiftArray(f, index, n) \in [Indices -> S]
<1>1. \A i \in Indices \ {n} : i \in index .. n => i + 1 \in Indices
    BY ShiftedIndex DEF Shifted
<1>. QED  BY <1>1 DEF ShiftArray

\* So has a shifted bit mask.
LEMMA ShiftBitsEffect ==
    ASSUME NEW bits, NEW index \in Nat, NEW n
    PROVE  /\ ShiftBits(bits, index, n) \in SUBSET Indices
           /\ \A i \in Indices \ {n} :
                  i \in ShiftBits(bits, index, n) <=> Shifted(index, n, i) \in bits
           /\ n \notin ShiftBits(bits, index, n)
BY DEF ShiftBits, Shifted

\* A ranking stays one.
LEMMA RenumberType ==
    ASSUME NEW sorted \in [Indices -> 0 .. SORTED_INDEX_DEFAULT], NEW index \in Nat,
           NEW n \in Indices
    PROVE  Renumber(sorted, index, n) \in [Indices -> 0 .. SORTED_INDEX_DEFAULT]
<1> DEFINE places == {j \in Indices : sorted[j] = index}
           from   == IF places = {} THEN n ELSE Min(places)
           moved(j) == IF j \in from .. n THEN sorted[j + 1] ELSE sorted[j]
<1>1. ASSUME NEW j \in Indices, j < n
      PROVE  moved(j) \in 0 .. SORTED_INDEX_DEFAULT
    <2>1. j + 1 \in Indices
        BY <1>1, StewardAssumption DEF Indices
    <2>. QED  BY <2>1
<1>2. Renumber(sorted, index, n) =
          [j \in Indices |->
              IF j = n THEN SORTED_INDEX_DEFAULT
              ELSE IF j < n /\ moved(j) > index THEN moved(j) - 1
              ELSE IF j < n THEN moved(j) ELSE sorted[j]]
    BY DEF Renumber
<1> HIDE DEF moved
<1>3. ASSUME NEW j \in Indices
      PROVE  Renumber(sorted, index, n)[j] \in 0 .. SORTED_INDEX_DEFAULT
    <2>0. Renumber(sorted, index, n)[j] =
              IF j = n THEN SORTED_INDEX_DEFAULT
              ELSE IF j < n /\ moved(j) > index THEN moved(j) - 1
              ELSE IF j < n THEN moved(j) ELSE sorted[j]
        BY <1>2
    <2>1. CASE j = n
        BY <2>0, <2>1, DefaultIndex
    <2>2. CASE j # n /\ j < n
        <3>1. moved(j) \in 0 .. SORTED_INDEX_DEFAULT
            BY <1>1, <2>2
        <3>2. moved(j) > index => moved(j) - 1 \in 0 .. SORTED_INDEX_DEFAULT
            <4>1. \A x \in 0 .. SORTED_INDEX_DEFAULT : x > index => x - 1 \in 0 .. SORTED_INDEX_DEFAULT
                BY DefaultIndex
            <4>. QED  BY <3>1, <4>1
        <3>. QED  BY <2>0, <2>2, <3>1, <3>2
    <2>3. CASE j # n /\ ~(j < n)
        <3>1. sorted[j] \in 0 .. SORTED_INDEX_DEFAULT
            OBVIOUS
        <3>. QED  BY <2>0, <2>3, <3>1
    <2>. QED  BY <2>1, <2>2, <2>3
<1>. QED  BY <1>2, <1>3

\* What remove_validator does.
Removed(st, to, index) ==
    /\ to \in State
    /\ to.num_pool_validators =
           IF index < st.num_pool_validators THEN st.num_pool_validators - 1
           ELSE st.num_pool_validators
    /\ Total(to) = Total(st) - 1
    /\ to.state_tag = st.state_tag /\ to.flags = st.flags
    /\ to.current_epoch = st.current_epoch /\ to.next_cycle_epoch = st.next_cycle_epoch
    /\ LET n == to.num_pool_validators IN
       /\ to.scores = ShiftArray(st.scores, index, n)
       /\ to.delegations = ShiftArray(st.delegations, index, n)
       /\ to.instant_unstake = ShiftBits(st.instant_unstake, index, n)
       /\ to.progress = ShiftBits(st.progress, index, n)
    /\ to.validators_to_remove = ShiftBits(st.validators_to_remove, index, Total(to))
    /\ to.validators_for_immediate_removal =
           ShiftBits(st.validators_for_immediate_removal, index, Total(to))

\* remove_validator does that.
LEMMA RemovalEffect ==
    ASSUME NEW st, NEW m, NEW s, StateOk(st, m, s), NEW index \in Indices, index < Total(st)
    PROVE  Removed(st, remove_validator(st, index), index)
<1> DEFINE scored == index < st.num_pool_validators
           n == IF scored THEN st.num_pool_validators - 1 ELSE st.num_pool_validators
           last == st.num_pool_validators + st.validators_added - 1
           to == remove_validator(st, index)
<1>1. /\ index \in Nat /\ MAX_VALIDATORS \in Nat
      /\ st.num_pool_validators \in Nat /\ st.validators_added \in Nat
      /\ st.num_pool_validators + st.validators_added <= MAX_VALIDATORS
      /\ index < st.num_pool_validators + st.validators_added
    BY StewardAssumption DEF StateOk, State, Total, Indices
<1>2. /\ n \in Indices /\ n \in 0 .. MAX_VALIDATORS /\ last - n \in 0 .. MAX_VALIDATORS
      /\ n + (last - n) = last
    BY <1>1 DEF Indices
<1>3. to = [st EXCEPT !.num_pool_validators = n,
                      !.validators_added = last - n,
                      !.scores = ShiftArray(st.scores, index, n),
                      !.delegations = ShiftArray(st.delegations, index, n),
                      !.instant_unstake = ShiftBits(st.instant_unstake, index, n),
                      !.progress = ShiftBits(st.progress, index, n),
                      !.validators_to_remove = ShiftBits(st.validators_to_remove, index, last),
                      !.validators_for_immediate_removal =
                          ShiftBits(st.validators_for_immediate_removal, index, last),
                      !.sorted_score_indices = Renumber(st.sorted_score_indices, index, n)]
    BY DEF remove_validator, StateOk, State
<1> HIDE DEF n, last, to
<1>4. /\ ShiftArray(st.scores, index, n) \in [Indices -> Nat]
      /\ ShiftArray(st.delegations, index, n) \in [Indices -> 0 .. MAX_VALIDATORS]
      /\ Renumber(st.sorted_score_indices, index, n) \in [Indices -> 0 .. SORTED_INDEX_DEFAULT]
    <2>1. /\ st.scores \in [Indices -> Nat] /\ st.delegations \in [Indices -> 0 .. MAX_VALIDATORS]
          /\ st.sorted_score_indices \in [Indices -> 0 .. SORTED_INDEX_DEFAULT]
          /\ 0 \in Nat /\ 0 \in 0 .. MAX_VALIDATORS
        BY <1>1 DEF StateOk, State
    <2>. QED  BY <1>1, <1>2, <2>1, ShiftArrayType, RenumberType
<1>5. /\ ShiftBits(st.instant_unstake, index, n) \in SUBSET Indices
      /\ ShiftBits(st.progress, index, n) \in SUBSET Indices
      /\ ShiftBits(st.validators_to_remove, index, last) \in SUBSET Indices
      /\ ShiftBits(st.validators_for_immediate_removal, index, last) \in SUBSET Indices
    BY <1>1, ShiftBitsEffect
<1>6. /\ to \in State /\ to.num_pool_validators = n /\ to.validators_added = last - n
      /\ to.state_tag = st.state_tag /\ to.flags = st.flags
      /\ to.current_epoch = st.current_epoch /\ to.next_cycle_epoch = st.next_cycle_epoch
      /\ to.scores = ShiftArray(st.scores, index, n)
      /\ to.delegations = ShiftArray(st.delegations, index, n)
      /\ to.instant_unstake = ShiftBits(st.instant_unstake, index, n)
      /\ to.progress = ShiftBits(st.progress, index, n)
      /\ to.validators_to_remove = ShiftBits(st.validators_to_remove, index, last)
      /\ to.validators_for_immediate_removal =
             ShiftBits(st.validators_for_immediate_removal, index, last)
    BY <1>2, <1>3, <1>4, <1>5 DEF StateOk, State
<1>7. Total(to) = last /\ Total(st) - 1 = last
    BY <1>1, <1>2, <1>6 DEF Total, last
<1>. QED  BY <1>6, <1>7 DEF Removed, n, to

\* After a removal every index of the cycle stands for the validator that Shifted gives.
LEMMA RemovalFollows ==
    ASSUME NEW st, NEW m, NEW s, StateOk(st, m, s), NEW index \in Indices, index < Total(st),
           NEW to, Removed(st, to, index), NEW i \in 0 .. to.num_pool_validators - 1
    PROVE  LET g == Shifted(index, to.num_pool_validators, i) IN
           /\ g \in 0 .. st.num_pool_validators - 1
           /\ RemoveAt(m, index + 1)[i + 1] = m[g + 1]
           /\ to.scores[i] = st.scores[g]
           /\ to.delegations[i] = st.delegations[g]
           /\ i \in to.instant_unstake <=> g \in st.instant_unstake
           /\ i \in to.progress <=> g \in st.progress
<1> DEFINE n == to.num_pool_validators
           g == Shifted(index, n, i)
<1>1. /\ index \in Nat /\ MAX_VALIDATORS \in Nat
      /\ st.num_pool_validators \in Nat /\ st.validators_added \in Nat
      /\ st.num_pool_validators + st.validators_added <= MAX_VALIDATORS
      /\ index < st.num_pool_validators + st.validators_added
      /\ m \in Seq(Votes) /\ Len(m) = st.num_pool_validators + st.validators_added
    BY StewardAssumption, DefaultIndex DEF StateOk, State, Total, Indices
<1>2. n = IF index < st.num_pool_validators THEN st.num_pool_validators - 1
          ELSE st.num_pool_validators
    BY DEF Removed
<1>3. n \in Indices /\ i \in Indices \ {n} /\ i \in Nat /\ i < n
    <2>1. i \in 0 .. n - 1
        OBVIOUS
    <2> HIDE DEF n
    <2>2. n \in Nat /\ n < MAX_VALIDATORS
        BY <1>1, <1>2
    <2>. QED  BY <1>1, <2>1, <2>2 DEF Indices
<1>4. g \in 0 .. st.num_pool_validators - 1 /\ (i < index => g = i) /\ (~(i < index) => g = i + 1)
    <2>1. CASE i < index
        BY <1>1, <1>2, <1>3, <2>1 DEF Shifted
    <2>2. CASE ~(i < index)
        BY <1>1, <1>2, <1>3, <2>2 DEF Shifted
    <2>. QED  BY <2>1, <2>2
<1>5. RemoveAt(m, index + 1)[i + 1] = m[g + 1]
    <2>1. index + 1 \in 1 .. Len(m) /\ i + 1 \in 1 .. Len(m) - 1
        BY <1>1, <1>2, <1>3
    <2>2. RemoveAt(m, index + 1)[i + 1] = IF i + 1 < index + 1 THEN m[i + 1] ELSE m[(i + 1) + 1]
        <3>1. \A j \in 1 .. Len(m) - 1 :
                  RemoveAt(m, index + 1)[j] = IF j < index + 1 THEN m[j] ELSE m[j + 1]
            BY <1>1, <2>1, RemoveAtEffect
        <3>. QED  BY <2>1, <3>1
    <2>3. i + 1 < index + 1 <=> i < index
        BY <1>1, <1>3
    <2>. QED  BY <1>3, <1>4, <2>2, <2>3
<1>6. to.scores[i] = st.scores[g] /\ to.delegations[i] = st.delegations[g]
    <2>1. /\ to.scores = ShiftArray(st.scores, index, n)
          /\ to.delegations = ShiftArray(st.delegations, index, n)
        BY DEF Removed
    <2>2. st.scores \in [Indices -> Nat] /\ st.delegations \in [Indices -> Nat] /\ 0 \in Nat
        BY <1>1 DEF StateOk, State
    <2> HIDE DEF n
    <2>3. \A j \in Indices \ {n} :
              ShiftArray(st.scores, index, n)[j] = st.scores[Shifted(index, n, j)]
        BY <1>1, <1>3, ShiftedIndex DEF ShiftArray, Shifted
    <2>4. \A j \in Indices \ {n} :
              ShiftArray(st.delegations, index, n)[j] = st.delegations[Shifted(index, n, j)]
        BY <1>1, <1>3, ShiftedIndex DEF ShiftArray, Shifted
    <2>. QED  BY <1>3, <2>1, <2>3, <2>4
<1>7. /\ i \in to.instant_unstake <=> g \in st.instant_unstake
      /\ i \in to.progress <=> g \in st.progress
    <2>1. /\ to.instant_unstake = ShiftBits(st.instant_unstake, index, n)
          /\ to.progress = ShiftBits(st.progress, index, n)
        BY DEF Removed
    <2> HIDE DEF n
    <2>. QED  BY <1>1, <1>3, <2>1, ShiftBitsEffect
<1>. QED  BY <1>4, <1>5, <1>6, <1>7

\* A removal takes one share at most and leaves the others as they are.
LEMMA RemovalShares ==
    ASSUME NEW st, NEW m, NEW s, StateOk(st, m, s), NEW index \in Indices, index < Total(st),
           SharesOk(st), NEW to, Removed(st, to, index)
    PROVE  SharesOk(to)
<1> DEFINE n == to.num_pool_validators
           g == [i \in Sharing(to) |-> Shifted(index, n, i)]
<1>1. /\ index \in Nat /\ n \in Nat /\ MAX_VALIDATORS \in Nat /\ n \in Indices
      /\ st.delegations \in [Indices -> Nat] /\ to.delegations \in [Indices -> Nat]
    <2>1. /\ index \in Nat /\ MAX_VALIDATORS \in Nat
          /\ st.num_pool_validators \in Nat /\ st.validators_added \in Nat
          /\ st.num_pool_validators + st.validators_added <= MAX_VALIDATORS
          /\ index < st.num_pool_validators + st.validators_added
        BY StewardAssumption, DefaultIndex DEF StateOk, State, Total, Indices
    <2>2. n \in Indices
        BY <2>1 DEF Removed, Indices
    <2>3. st \in State /\ to \in State
        BY DEF StateOk, Removed
    <2>4. /\ st.delegations \in [Indices -> 0 .. MAX_VALIDATORS]
          /\ to.delegations \in [Indices -> 0 .. MAX_VALIDATORS]
        BY <2>3 DEF State
    <2> HIDE DEF n
    <2>5. n \in Nat
        BY <2>1, <2>2 DEF Indices
    <2>. QED  BY <2>1, <2>2, <2>4, <2>5
<1>2. to.delegations = ShiftArray(st.delegations, index, n)
    BY DEF Removed
<1> HIDE DEF n
<1>3. /\ to.delegations[n] = 0
      /\ \A i \in Indices \ {n} : /\ Shifted(index, n, i) \in Indices
                                  /\ to.delegations[i] = st.delegations[Shifted(index, n, i)]
    <2>1. /\ ShiftArray(st.delegations, index, n)[n] = 0
          /\ \A i \in Indices \ {n} :
                 /\ Shifted(index, n, i) \in Indices
                 /\ ShiftArray(st.delegations, index, n)[i] = st.delegations[Shifted(index, n, i)]
        BY <1>1, ShiftedIndex DEF ShiftArray, Shifted
    <2>. QED  BY <1>2, <2>1
<1>4. n \notin Sharing(to) /\ Sharing(to) \subseteq Indices
    BY <1>3 DEF Sharing
<1>5. \A i \in Sharing(to) : /\ Shifted(index, n, i) \in Sharing(st)
                             /\ to.delegations[i] = st.delegations[Shifted(index, n, i)]
    BY <1>1, <1>3, <1>4 DEF Sharing
<1>6. \A i, j \in Sharing(to) : Shifted(index, n, i) = Shifted(index, n, j) => i = j
    BY <1>1, <1>4 DEF Shifted, Indices
<1>7. g \in Injection(Sharing(to), Sharing(st))
    BY <1>5, <1>6 DEF Injection, IsInjective
<1>8. IsFiniteSet(Sharing(st)) /\ IsFiniteSet(Sharing(to))
    BY <1>1, SharingFinite
<1>9. /\ Cardinality(Sharing(to)) <= Cardinality(Sharing(st))
      /\ Cardinality(Sharing(to)) \in Nat /\ Cardinality(Sharing(st)) \in Nat
    BY <1>7, <1>8, FS_Injection, FS_CardinalityType
<1>10. ASSUME NEW i \in Sharing(to)
       PROVE  to.delegations[i] >= Cardinality(Sharing(to))
    <2>1. /\ Shifted(index, n, i) \in Sharing(st)
          /\ to.delegations[i] = st.delegations[Shifted(index, n, i)]
        BY <1>5
    <2>2. st.delegations[Shifted(index, n, i)] >= Cardinality(Sharing(st))
        BY <2>1 DEF SharesOk
    <2>3. st.delegations[Shifted(index, n, i)] \in Nat
        BY <1>1, <2>1 DEF Sharing
    <2>. QED  BY <1>9, <2>1, <2>2, <2>3
<1>11. ASSUME \/ to.state_tag = "ComputeDelegations"
              \/ to.state_tag = "ComputeScores" /\ to.progress # {}
       PROVE  to.delegations = Zeros
    <2>1. /\ to.state_tag = st.state_tag
          /\ to.progress = ShiftBits(st.progress, index, n)
        BY DEF Removed, n
    <2>2. to.progress # {} => st.progress # {}
        BY <2>1 DEF ShiftBits
    <2>3. st.delegations = Zeros
        BY <1>11, <2>1, <2>2 DEF SharesOk
    <2>4. \A i \in Indices : to.delegations[i] = 0
        BY <1>3, <2>3 DEF Zeros
    <2>. QED  BY <1>1, <2>4 DEF Zeros
<1>. QED  BY <1>10, <1>11 DEF SharesOk

\* All of it is kept by remove_validator.
LEMMA RemovalKeeps ==
    ASSUME NEW st, NEW m, NEW s, AllOk(st, m, s), NEW index \in Indices, index < Total(st),
           NEW to, Removed(st, to, index)
    PROVE  AllOk(to, RemoveAt(m, index + 1), s)
<1> DEFINE mm == RemoveAt(m, index + 1)
           g(i) == Shifted(index, to.num_pool_validators, i)
<1>1. /\ StateOk(st, m, s) /\ CycleOk(st) /\ SharesOk(st) /\ DataOk(st, m)
      /\ SkipOk(st, m, s) /\ OnceOk(st, m, s)
    BY DEF AllOk
<1>2. /\ to.state_tag = st.state_tag /\ to.flags = st.flags /\ to \in State
      /\ to.current_epoch = st.current_epoch /\ to.next_cycle_epoch = st.next_cycle_epoch
      /\ Total(to) = Total(st) - 1
    BY DEF Removed
<1>3. StateOk(to, mm, s)
    <2>1. /\ index \in Nat /\ MAX_VALIDATORS \in Nat /\ Total(st) \in Nat
          /\ Total(st) <= MAX_VALIDATORS /\ m \in Seq(Votes) /\ Len(m) = Total(st)
        BY <1>1, StewardAssumption, DefaultIndex DEF StateOk, State, Total, Indices
    <2>2. index + 1 \in 1 .. Len(m)
        BY <2>1
    <2>3. mm \in Seq(Votes) /\ Len(mm) = Len(m) - 1
        BY <2>1, <2>2, RemoveAtEffect
    <2> HIDE DEF mm
    <2>4. Len(mm) = Total(to) /\ Total(to) <= MAX_VALIDATORS
        BY <1>2, <2>1, <2>3
    <2>. QED  BY <1>1, <1>2, <2>3, <2>4 DEF StateOk
<1>4. \A i \in 0 .. to.num_pool_validators - 1 :
          /\ g(i) \in 0 .. st.num_pool_validators - 1
          /\ mm[i + 1] = m[g(i) + 1]
          /\ to.scores[i] = st.scores[g(i)]
          /\ to.delegations[i] = st.delegations[g(i)]
          /\ i \in to.instant_unstake <=> g(i) \in st.instant_unstake
          /\ i \in to.progress <=> g(i) \in st.progress
    BY <1>1, RemovalFollows
<1> HIDE DEF g, mm
<1>5. CycleOk(to)
    BY <1>1, <1>2 DEF CycleOk
<1>6. SharesOk(to)
    BY <1>1, RemovalShares
<1>7. DataOk(to, mm)
    <2> SUFFICES ASSUME NEW i \in 0 .. to.num_pool_validators - 1
                 PROVE  /\ to.scores[i] \in {0, Score[mm[i + 1]]}
                        /\ i \in to.instant_unstake => mm[i + 1] \in Delinquent
                        /\ to.delegations[i] > 0 => to.scores[i] > 0
        BY DEF DataOk
    <2>1. /\ st.scores[g(i)] \in {0, Score[m[g(i) + 1]]}
          /\ g(i) \in st.instant_unstake => m[g(i) + 1] \in Delinquent
          /\ st.delegations[g(i)] > 0 => st.scores[g(i)] > 0
        BY <1>1, <1>4 DEF DataOk
    <2>. QED  BY <1>4, <2>1
<1>8. SkipOk(to, mm, s)
    BY <1>1, <1>2, <1>4 DEF SkipOk
<1>9. OnceOk(to, mm, s)
    <2>1. LoopOver(to) <=> LoopOver(st)
        BY <1>2 DEF LoopOver
    <2>2. ASSUME NEW i \in 0 .. to.num_pool_validators - 1,
                 to.state_tag = "Rebalance", s.visits[mm[i + 1]] > 0
          PROVE  i \in to.progress
        <3>1. s.visits[m[g(i) + 1]] > 0 /\ g(i) \in 0 .. st.num_pool_validators - 1
            BY <1>4, <2>2
        <3>2. g(i) \in st.progress
            BY <1>1, <1>2, <2>2, <3>1 DEF OnceOk
        <3>. QED  BY <1>4, <3>2
    <2>. QED  BY <1>1, <1>2, <2>1, <2>2 DEF OnceOk
<1>. QED  BY <1>3, <1>5, <1>6, <1>7, <1>8, <1>9 DEF AllOk, mm

-----------------------------------------------------------------------------
(* The indices and the pool's validator list                                *)

\* A set of natural numbers that is not empty has a least element.
LEMMA LeastIn ==
    ASSUME NEW S \in SUBSET Nat, S # {}
    PROVE  Min(S) \in S /\ \A j \in S : Min(S) <= j
<1> DEFINE R == {ss \in Nat \X Nat : ss[1] < ss[2]}
<1>1. IsWellFoundedOn(R, Nat)
    BY NatLessThanWellFounded DEF OpToRel
<1>2. PICK n \in S : \A m \in S : ~(<<m, n>> \in R)
    <2> HIDE DEF R
    <2>. QED  BY <1>1, WFMin
<1>3. \A m \in S : ~(m < n)
    BY <1>2
<1>4. \A m \in S : n <= m
    BY <1>3
<1>. QED  BY <1>4 DEF Min

\* A set that has 0 and with every number the next one has all of them.
LEMMA AllNumbers ==
    ASSUME NEW S, 0 \in S, \A n \in Nat : n \in S => n + 1 \in S
    PROVE  Nat \subseteq S
<1> SUFFICES ASSUME Nat \ S # {} PROVE FALSE
    OBVIOUS
<1> DEFINE n == Min(Nat \ S)
<1>1. n \in Nat \ S /\ \A m \in Nat \ S : n <= m
    BY LeastIn
<1> HIDE DEF n
<1>2. n - 1 \in Nat /\ n - 1 \in S
    BY <1>1
<1>. QED  BY <1>1, <1>2

\* An increasing map of an interval into itself is the identity.
LEMMA IncreasingIdentity ==
    ASSUME NEW n \in Nat, NEW e \in [1 .. n -> 1 .. n],
           \A j, k \in 1 .. n : j < k => e[j] < e[k]
    PROVE  \A k \in 1 .. n : e[k] = k
<1> DEFINE Low == {j \in Nat : j \in 1 .. n => e[j] >= j}
           High == {j \in Nat : n - j \in 1 .. n => e[n - j] <= n - j}
<1>1. 0 \in Low
    OBVIOUS
<1>2. ASSUME NEW j \in Low
      PROVE  j + 1 \in Low
    <2> SUFFICES ASSUME j + 1 \in 1 .. n
                 PROVE  e[j + 1] >= j + 1
        OBVIOUS
    <2>1. CASE j = 0
        BY <2>1
    <2>2. CASE j # 0
        <3>1. j \in 1 .. n /\ j < j + 1
            BY <2>2
        <3>2. e[j] < e[j + 1] /\ e[j] >= j
            BY <3>1
        <3>. QED  BY <3>1, <3>2
    <2>. QED  BY <2>1, <2>2
<1>3. Nat \subseteq Low
    BY <1>1, <1>2, AllNumbers
<1>4. 0 \in High
    OBVIOUS
<1>5. ASSUME NEW j \in High
      PROVE  j + 1 \in High
    <2> SUFFICES ASSUME n - (j + 1) \in 1 .. n
                 PROVE  e[n - (j + 1)] <= n - (j + 1)
        OBVIOUS
    <2>1. n - j \in 1 .. n /\ n - (j + 1) < n - j
        OBVIOUS
    <2>2. e[n - (j + 1)] < e[n - j] /\ e[n - j] <= n - j
        BY <2>1
    <2>. QED  BY <2>1, <2>2
<1>6. Nat \subseteq High
    BY <1>4, <1>5, AllNumbers
<1>7. ASSUME NEW k \in 1 .. n
      PROVE  e[k] = k
    <2>1. e[k] >= k
        BY <1>3
    <2>2. n - k \in High
        BY <1>6
    <2>3. n - (n - k) = k
        OBVIOUS
    <2>4. e[k] <= k
        BY <2>2, <2>3
    <2>. QED  BY <2>1, <2>4
<1>. QED  BY <1>7

\* The validator list is the mirror without the validators that were dropped: e gives
\* the place of each entry.  Only marked validators are leaving or dropped; in the
\* steward's own epoch only those for immediate removal can have been dropped, since
\* the stake of the others is not inactive before the next.
Embedding(e) ==
    /\ \A j, k \in DOMAIN e : j < k => e[j] < e[k]
    /\ \A k \in DOMAIN e :
           /\ pool.list[k].vote = mirror[e[k]]
           /\ pool.list[k].status = "Active" <=> e[k] - 1 \notin Marked(steward)
           /\ steward.current_epoch = epoch /\ e[k] - 1 \in steward.validators_to_remove
                  => pool.list[k].status = "Deactivating" /\ pool.list[k].until > epoch
    /\ \A i \in 1 .. Len(mirror) : (\A k \in DOMAIN e : e[k] # i) =>
           /\ i - 1 \in Marked(steward)
           /\ steward.current_epoch = epoch
                  => i - 1 \in steward.validators_for_immediate_removal

\* The indices: marks within them, of one kind each, an embedding of the list, and no
\* validator twice.
AlignInv ==
    /\ Marked(steward) \subseteq 0 .. Len(mirror) - 1
    /\ steward.validators_to_remove \cap steward.validators_for_immediate_removal = {}
    /\ \E e \in [1 .. Len(pool.list) -> 1 .. Len(mirror)] : Embedding(e)
    /\ \A i, j \in 1 .. Len(mirror) : mirror[i] = mirror[j] => i = j

\* The inductive invariant.
StewardInv == PoolOk /\ AllOk(steward, mirror, seen) /\ AlignInv

\* When the lengths agree the list is the mirror.
LEMMA EqualLengths ==
    ASSUME StewardInv, OneToOne
    PROVE  /\ Len(pool.list) = Len(mirror)
           /\ [k \in 1 .. Len(mirror) |-> k] \in [1 .. Len(pool.list) -> 1 .. Len(mirror)]
           /\ Embedding([k \in 1 .. Len(mirror) |-> k])
           /\ \A k \in 1 .. Len(mirror) : pool.list[k].vote = mirror[k]
<1>1. Len(pool.list) = Len(mirror) /\ Len(mirror) \in Nat
    BY DEF StewardInv, AllOk, StateOk, OneToOne, Total
<1>2. PICK e \in [1 .. Len(pool.list) -> 1 .. Len(mirror)] : Embedding(e)
    BY DEF StewardInv, AlignInv
<1>3. \A k \in 1 .. Len(mirror) : e[k] = k
    <2>1. e \in [1 .. Len(mirror) -> 1 .. Len(mirror)]
        BY <1>1, <1>2
    <2>2. \A j, k \in 1 .. Len(mirror) : j < k => e[j] < e[k]
        BY <1>2, <2>1 DEF Embedding
    <2>. QED  BY <1>1, <2>1, <2>2, IncreasingIdentity
<1>4. e = [k \in 1 .. Len(mirror) |-> k]
    BY <1>1, <1>2, <1>3
<1>5. \A k \in 1 .. Len(mirror) : pool.list[k].vote = mirror[k]
    BY <1>1, <1>2, <1>3 DEF Embedding
<1>. QED  BY <1>1, <1>2, <1>4, <1>5

-----------------------------------------------------------------------------
(* The instructions: the state account                                      *)

\* The ranking, the marks and the range are not what the invariants speak of.
LEMMA SameCycleKeeps ==
    ASSUME NEW st, NEW m, NEW s, AllOk(st, m, s), NEW to \in State,
           to.num_pool_validators = st.num_pool_validators,
           to.validators_added = st.validators_added, to.scores = st.scores,
           to.delegations = st.delegations, to.instant_unstake = st.instant_unstake,
           to.progress = st.progress, to.state_tag = st.state_tag, to.flags = st.flags,
           to.current_epoch = st.current_epoch, to.next_cycle_epoch = st.next_cycle_epoch
    PROVE  AllOk(to, m, s)
<1>1. StateOk(to, m, s)
    BY DEF AllOk, StateOk, Total
<1>2. CycleOk(to)
    BY DEF AllOk, CycleOk
<1>3. SharesOk(to)
    <2>1. Sharing(to) = Sharing(st) /\ SharesOk(st)
        BY DEF AllOk, Sharing
    <2>. QED  BY <2>1 DEF SharesOk
<1>4. DataOk(to, m)
    BY DEF AllOk, DataOk
<1>5. SkipOk(to, m, s)
    BY DEF AllOk, SkipOk
<1>6. OnceOk(to, m, s)
    <2>1. LoopOver(to) <=> LoopOver(st)
        BY DEF LoopOver
    <2>. QED  BY <2>1 DEF AllOk, OnceOk
<1>. QED  BY <1>1, <1>2, <1>3, <1>4, <1>5, <1>6 DEF AllOk

\* auto_add_validator_to_pool: the new validator has an index after all others.
LEMMA AddKeeps ==
    ASSUME StewardInv, NEW vote \in Votes, auto_add_validator_to_pool(vote)
    PROVE  AllOk(steward', mirror', seen')
<1>1. /\ steward' = [steward EXCEPT !.validators_added = @ + 1] /\ seen' = seen
      /\ mirror' = Append(mirror, vote)
      /\ Total(steward) + 1 <= MAX_VALIDATORS
    BY DEF auto_add_validator_to_pool, add_validator_check, remove_validator_check, OneToOne, Total
<1>2. AllOk(steward, mirror, seen) /\ StateOk(steward, mirror, seen) /\ steward \in State
    BY DEF StewardInv, AllOk, StateOk
<1>3. /\ steward.num_pool_validators \in Nat /\ steward.validators_added \in Nat
      /\ mirror \in Seq(Votes) /\ Len(mirror) = Total(steward)
      /\ Total(steward) = steward.num_pool_validators + steward.validators_added
      /\ MAX_VALIDATORS \in Nat
    BY <1>2, StewardAssumption, DefaultIndex DEF StateOk, State, Total
<1>4. /\ steward' \in State
      /\ steward'.validators_added = steward.validators_added + 1
      /\ steward'.num_pool_validators = steward.num_pool_validators
      /\ steward'.scores = steward.scores /\ steward'.delegations = steward.delegations
      /\ steward'.instant_unstake = steward.instant_unstake
      /\ steward'.progress = steward.progress /\ steward'.state_tag = steward.state_tag
      /\ steward'.flags = steward.flags /\ steward'.current_epoch = steward.current_epoch
      /\ steward'.next_cycle_epoch = steward.next_cycle_epoch
    <2>1. steward.validators_added + 1 \in 0 .. MAX_VALIDATORS
        BY <1>1, <1>3
    <2>. QED  BY <1>1, <1>2, <2>1 DEF State
<1>5. /\ mirror' \in Seq(Votes) /\ Len(mirror') = Len(mirror) + 1
      /\ \A i \in 0 .. steward.num_pool_validators - 1 : mirror'[i + 1] = mirror[i + 1]
    <2>1. \A i \in 0 .. steward.num_pool_validators - 1 : i + 1 \in 1 .. Len(mirror)
        BY <1>3
    <2>. QED  BY <1>1, <1>3, <2>1, AppendProperties
<1>6. StateOk(steward', mirror', seen')
    BY <1>1, <1>2, <1>3, <1>4, <1>5 DEF StateOk, Total
<1>7. CycleOk(steward')
    BY <1>2, <1>4 DEF AllOk, CycleOk
<1>8. SharesOk(steward')
    <2>1. Sharing(steward') = Sharing(steward) /\ SharesOk(steward)
        BY <1>2, <1>4 DEF AllOk, Sharing
    <2>. QED  BY <1>4, <2>1 DEF SharesOk
<1>9. DataOk(steward', mirror')
    BY <1>2, <1>4, <1>5 DEF AllOk, DataOk
<1>10. SkipOk(steward', mirror', seen')
    BY <1>1, <1>2, <1>4, <1>5 DEF AllOk, SkipOk
<1>11. OnceOk(steward', mirror', seen')
    <2>1. LoopOver(steward') <=> LoopOver(steward)
        BY <1>4 DEF LoopOver
    <2>. QED  BY <1>1, <1>2, <1>4, <1>5, <2>1 DEF AllOk, OnceOk
<1>. QED  BY <1>6, <1>7, <1>8, <1>9, <1>10, <1>11 DEF AllOk

\* auto_remove_validator_from_pool only marks.
LEMMA MarkKeeps ==
    ASSUME StewardInv, NEW index \in Indices, NEW inactive \in BOOLEAN,
           auto_remove_validator_from_pool(index, inactive)
    PROVE  AllOk(steward', mirror', seen')
<1>1. AllOk(steward, mirror, seen) /\ steward \in State /\ seen' = seen /\ mirror' = mirror
    BY DEF StewardInv, AllOk, StateOk, auto_remove_validator_from_pool
<1>2. steward' = IF inactive
                 THEN [steward EXCEPT !.validators_for_immediate_removal = @ \cup {index}]
                 ELSE [steward EXCEPT !.validators_to_remove = @ \cup {index}]
    BY DEF auto_remove_validator_from_pool
<1>3. CASE inactive
    BY <1>1, <1>2, <1>3, SameCycleKeeps DEF State
<1>4. CASE ~inactive
    BY <1>1, <1>2, <1>4, SameCycleKeeps DEF State
<1>. QED  BY <1>3, <1>4

\* In an epoch that the steward has not begun yet nobody was rebalanced.
LEMMA NoVisits ==
    ASSUME NEW st, NEW m, NEW s, StateOk(st, m, s), OnceOk(st, m, s),
           \/ st.current_epoch < epoch /\ epoch \in Nat
           \/ st.state_tag \notin {"Rebalance", "Idle"}
    PROVE  \A v \in Votes : s.visits[v] = 0
<1>1. s.visits \in [Votes -> Nat] /\ st.current_epoch \in Nat
    BY StewardAssumption DEF StateOk, State, History
<1>2. \A v \in Votes : ~(s.visits[v] > 0)
    BY <1>1 DEF OnceOk, LoopOver
<1>. QED  BY <1>1, <1>2

\* Epoch maintenance, with or without a removal before it.
LEMMA MaintenanceKeeps ==
    ASSUME PoolOk, NEW st, AllOk(st, mirror', seen), st.current_epoch < epoch,
           epoch_maintenance(st)
    PROVE  AllOk(steward', mirror', seen')
<1>1. seen' = seen /\ StateOk(st, mirror', seen) /\ st \in State /\ OnceOk(st, mirror', seen)
      /\ CycleOk(st) /\ SharesOk(st) /\ DataOk(st, mirror') /\ SkipOk(st, mirror', seen)
    BY DEF epoch_maintenance, AllOk, StateOk
<1>2. epoch \in Nat /\ epoch \in 1 .. MaxEpoch /\ st.current_epoch \in Nat
    BY <1>1, StewardAssumption DEF PoolOk, epoch, State
<1>3. \A v \in Votes : seen.visits[v] = 0
    BY <1>1, <1>2, NoVisits
<1>4. \A i \in 0 .. st.num_pool_validators - 1 : mirror'[i + 1] \in Votes
    BY <1>1, IndexOfValidator
<1>5. CASE Marked(st) = {}
    <2> DEFINE flags == (st.flags \cap {"COMPUTE_SCORE", "COMPUTE_DELEGATIONS"})
                            \cup {"EPOCH_MAINTENANCE"}
    <2>1. flags \in SUBSET Flags /\ ("COMPUTE_DELEGATIONS" \in flags => "COMPUTE_SCORE" \in flags)
        BY <1>1 DEF CycleOk, State, Flags
    <2>2. steward' = [st EXCEPT !.current_epoch = epoch, !.flags = flags, !.progress = {},
                                !.instant_unstake = {}, !.state_tag = "RebalanceDirected"]
        BY <1>1, <1>5 DEF epoch_maintenance, State
    <2> HIDE DEF flags
    <2>3. /\ steward' \in State /\ steward'.current_epoch = epoch /\ steward'.flags = flags
          /\ steward'.progress = {} /\ steward'.instant_unstake = {}
          /\ steward'.state_tag = "RebalanceDirected"
          /\ steward'.num_pool_validators = st.num_pool_validators
          /\ steward'.validators_added = st.validators_added
          /\ steward'.scores = st.scores /\ steward'.delegations = st.delegations
        BY <1>1, <1>2, <2>1, <2>2 DEF State, Tags
    <2>4. StateOk(steward', mirror', seen')
        BY <1>1, <1>2, <2>3 DEF StateOk, Total
    <2>5. CycleOk(steward')
        BY <2>1, <2>3 DEF CycleOk
    <2>6. SharesOk(steward')
        <3>1. Sharing(steward') = Sharing(st)
            BY <2>3 DEF Sharing
        <3>. QED  BY <1>1, <2>3, <3>1 DEF SharesOk
    <2>7. DataOk(steward', mirror')
        BY <1>1, <2>3 DEF DataOk
    <2>8. SkipOk(steward', mirror', seen') /\ OnceOk(steward', mirror', seen')
        BY <1>1, <1>3, <2>3 DEF SkipOk, OnceOk
    <2>. QED  BY <2>4, <2>5, <2>6, <2>7, <2>8 DEF AllOk
<1>6. CASE Marked(st) # {}
    <2> DEFINE flags == st.flags \ {"EPOCH_MAINTENANCE"}
    <2>1. flags \in SUBSET Flags /\ ("COMPUTE_DELEGATIONS" \in flags => "COMPUTE_SCORE" \in flags)
          /\ (st.state_tag = "ComputeDelegations" => "COMPUTE_SCORE" \in flags)
        BY <1>1 DEF CycleOk, State, Flags
    <2>2. steward' = [st EXCEPT !.flags = flags]
        BY <1>1, <1>6 DEF epoch_maintenance, State
    <2> HIDE DEF flags
    <2>3. /\ steward' \in State /\ steward'.current_epoch = st.current_epoch
          /\ steward'.flags = flags /\ steward'.state_tag = st.state_tag
          /\ steward'.progress = st.progress /\ steward'.instant_unstake = st.instant_unstake
          /\ steward'.num_pool_validators = st.num_pool_validators
          /\ steward'.validators_added = st.validators_added
          /\ steward'.scores = st.scores /\ steward'.delegations = st.delegations
        BY <1>1, <2>1, <2>2 DEF State
    <2>4. StateOk(steward', mirror', seen')
        BY <1>1, <2>3 DEF StateOk, Total
    <2>5. CycleOk(steward')
        BY <1>2, <2>1, <2>3 DEF CycleOk
    <2>6. SharesOk(steward')
        <3>1. Sharing(steward') = Sharing(st)
            BY <2>3 DEF Sharing
        <3>. QED  BY <1>1, <2>3, <3>1 DEF SharesOk
    <2>7. DataOk(steward', mirror')
        BY <1>1, <2>3 DEF DataOk
    <2>8. SkipOk(steward', mirror', seen')
        BY <1>1, <2>3 DEF SkipOk
    <2>9. OnceOk(steward', mirror', seen')
        BY <1>1, <1>3, <1>4, <2>3 DEF OnceOk
    <2>. QED  BY <2>4, <2>5, <2>6, <2>7, <2>8, <2>9 DEF AllOk
<1>. QED  BY <1>5, <1>6

\* The place that the ranking is searched for is in it or at its end.
LEMMA PlaceInRange ==
    ASSUME NEW st, NEW score, NEW len \in Nat
    PROVE  PlaceFor(st, score, len) \in 0 .. len
<1> DEFINE stops == {j \in 0 .. len - 1 : \/ st.sorted_score_indices[j] \notin Indices
                                          \/ st.scores[st.sorted_score_indices[j]] < score}
<1>1. stops \in SUBSET Nat /\ \A j \in stops : j <= len
    OBVIOUS
<1>2. PlaceFor(st, score, len) = IF stops = {} THEN len ELSE Min(stops)
    BY DEF PlaceFor
<1> HIDE DEF stops
<1>3. CASE stops = {}
    BY <1>2, <1>3
<1>4. CASE stops # {}
    <2>1. Min(stops) \in stops
        BY <1>1, <1>4, LeastIn
    <2>2. Min(stops) \in Nat /\ Min(stops) <= len
        BY <1>1, <2>1
    <2>. QED  BY <1>2, <1>4, <2>2
<1>. QED  BY <1>3, <1>4

\* Insertion keeps the type of the ranking.
LEMMA InsertType ==
    ASSUME NEW sorted \in [Indices -> 0 .. SORTED_INDEX_DEFAULT], NEW index \in Indices,
           NEW at \in Nat, NEW len \in Nat
    PROVE  insert_sorted_index(sorted, index, at, len) \in [Indices -> 0 .. SORTED_INDEX_DEFAULT]
<1>1. index \in 0 .. SORTED_INDEX_DEFAULT
    BY StewardAssumption, DefaultIndex DEF Indices
<1>2. ASSUME NEW j \in Indices, j \in at + 1 .. len
      PROVE  sorted[j - 1] \in 0 .. SORTED_INDEX_DEFAULT
    <2>1. j - 1 \in Indices
        BY <1>2, StewardAssumption, DefaultIndex DEF Indices
    <2>. QED  BY <2>1
<1>. QED  BY <1>1, <1>2 DEF insert_sorted_index

\* The account that a new cycle of scoring begins with.
LEMMA ResetEffect ==
    ASSUME StewardInv, steward.state_tag = "ComputeScores", OneToOne
    PROVE  LET st == reset_state_for_new_cycle(steward) IN
           /\ StateOk(st, mirror, seen) /\ CycleOk(st) /\ st.state_tag = "ComputeScores"
           /\ st.scores = Zeros /\ st.delegations = Zeros
           /\ st.instant_unstake = {} /\ st.progress = {}
           /\ st.validators_to_remove = steward.validators_to_remove
           /\ st.validators_for_immediate_removal = steward.validators_for_immediate_removal
           /\ st.current_epoch = steward.current_epoch
           /\ st.num_pool_validators = Len(mirror)
           /\ st.validators_added = 0
<1> DEFINE st == reset_state_for_new_cycle(steward)
           flags == steward.flags \cap {"EPOCH_MAINTENANCE", "REBALANCE_DIRECTED_COMPLETE"}
           next == epoch + num_epochs_between_scoring
<1>1. /\ StateOk(steward, mirror, seen) /\ steward \in State /\ CycleOk(steward)
    BY DEF StewardInv, AllOk, StateOk
<1>2. /\ Len(pool.list) = Len(mirror) /\ Len(mirror) \in 0 .. MAX_VALIDATORS
      /\ Zeros \in [Indices -> 0 .. MAX_VALIDATORS] /\ Zeros \in [Indices -> Nat]
      /\ 0 \in 0 .. MAX_VALIDATORS /\ mirror \in Seq(Votes)
    <2>1. MAX_VALIDATORS \in Nat
        BY StewardAssumption, DefaultIndex
    <2>2. Len(pool.list) = Len(mirror) /\ mirror \in Seq(Votes) /\ Len(mirror) <= MAX_VALIDATORS
        BY <1>1 DEF OneToOne, StateOk, Total
    <2>. QED  BY <2>1, <2>2 DEF Zeros
<1>3. next \in Nat /\ flags \in SUBSET Flags
    BY <1>1, StewardAssumption DEF StewardInv, PoolOk, epoch, State
<1>4. st = [steward EXCEPT !.scores = Zeros, !.progress = {}, !.delegations = Zeros,
                !.instant_unstake = {}, !.range_exceeded = FALSE, !.next_cycle_epoch = next,
                !.flags = flags, !.num_pool_validators = Len(mirror), !.validators_added = 0]
    BY <1>1, <1>2 DEF reset_state_for_new_cycle, State
<1>5. "COMPUTE_DELEGATIONS" \notin flags
      /\ ("REBALANCE_DIRECTED_COMPLETE" \in steward.flags => "REBALANCE_DIRECTED_COMPLETE" \in flags)
    OBVIOUS
<1> HIDE DEF flags, next, st
<1>6. /\ st \in State /\ st.state_tag = "ComputeScores"
      /\ st.scores = Zeros /\ st.delegations = Zeros
      /\ st.instant_unstake = {} /\ st.progress = {} /\ st.flags = flags
      /\ st.validators_to_remove = steward.validators_to_remove
      /\ st.validators_for_immediate_removal = steward.validators_for_immediate_removal
      /\ st.current_epoch = steward.current_epoch
      /\ st.num_pool_validators = Len(mirror) /\ st.validators_added = 0
    BY <1>1, <1>2, <1>3, <1>4 DEF State
<1>7. StateOk(st, mirror, seen)
    BY <1>1, <1>2, <1>6 DEF StateOk, Total
<1>8. CycleOk(st)
    BY <1>1, <1>5, <1>6 DEF CycleOk
<1>. QED  BY <1>6, <1>7, <1>8 DEF st

\* compute_score: the score stored at an index is that of its validator.
LEMMA ScoreKeeps ==
    ASSUME StewardInv, NEW index \in Indices, compute_score(index)
    PROVE  AllOk(steward', mirror', seen') /\ SameMarks(steward, steward')
<1> DEFINE st    == IF Restarts THEN reset_state_for_new_cycle(steward) ELSE steward
           vote  == pool.list[index + 1].vote
           score == IF index \in Marked(st) THEN 0 ELSE Score[vote]
           stored == [st EXCEPT !.scores[index] = score]
           len   == Cardinality(st.progress)
           at    == PlaceFor(stored, score, len)
           sorted == insert_sorted_index(st.sorted_score_indices, index, at, len)
           to == [stored EXCEPT !.sorted_score_indices = insert_sorted_index(@, index, at, len),
                                !.progress = @ \cup {index}]
           late == \/ ~Restarts /\ seen.late
                   \/ index \notin st.progress /\ index >= st.num_pool_validators
<1>1. /\ PoolOk /\ AllOk(steward, mirror, seen) /\ StateOk(steward, mirror, seen)
      /\ CycleOk(steward) /\ SharesOk(steward) /\ DataOk(steward, mirror)
      /\ SkipOk(steward, mirror, seen) /\ OnceOk(steward, mirror, seen)
    BY DEF StewardInv, AllOk
<1>2. /\ steward.state_tag = "ComputeScores" /\ OneToOne /\ index < Len(pool.list)
      /\ mirror' = mirror
      /\ seen' = [seen EXCEPT !.ranked = IF Restarts THEN {vote}
                              ELSE IF index \in st.progress THEN @ ELSE @ \cup {vote},
                              !.late = late]
      /\ \/ index \in st.progress /\ steward' = maybe_transition(st)
         \/ index \notin st.progress /\ steward' = maybe_transition(to)
    BY DEF compute_score, state_checks
<1>3. /\ index + 1 \in 1 .. Len(mirror) /\ vote = mirror[index + 1] /\ vote \in Votes
      /\ Len(mirror) = Len(pool.list)
    <2>1. Len(mirror) = Len(pool.list) /\ Len(mirror) \in Nat /\ mirror \in Seq(Votes)
        BY <1>1, <1>2, EqualLengths DEF StateOk
    <2>2. index + 1 \in 1 .. Len(mirror)
        BY <1>2, <2>1 DEF Indices
    <2>. QED  BY <1>2, <2>1, <2>2, EqualLengths
<1>4. \A v \in Votes : seen.visits[v] = 0
    BY <1>1, <1>2, NoVisits
<1>5. /\ StateOk(st, mirror, seen) /\ st \in State /\ CycleOk(st)
      /\ st.state_tag = "ComputeScores" /\ SameMarks(steward, st)
      /\ Restarts => /\ st.scores = Zeros /\ st.delegations = Zeros
                     /\ st.instant_unstake = {} /\ st.progress = {}
      /\ ~Restarts => st = steward /\ st.progress # {} /\ st.delegations = Zeros
    <2>1. CASE Restarts
        <3>1. st = reset_state_for_new_cycle(steward)
            BY <2>1
        <3>. QED  BY <1>2, <2>1, <3>1, ResetEffect DEF StateOk, SameMarks
    <2>2. CASE ~Restarts
        BY <1>1, <1>2, <2>2 DEF Restarts, StateOk, SharesOk, SameMarks
    <2>. QED  BY <2>1, <2>2
<1>6. CASE index \in st.progress
    <2>1. ~Restarts /\ st = steward
        BY <1>5, <1>6
    <2>2. seen' = seen
        <3>1. seen \in History
            BY <1>1 DEF StateOk
        <3>2. late = seen.late
            BY <1>6, <2>1, <3>1 DEF History
        <3> HIDE DEF late, st
        <3>. QED  BY <1>2, <1>6, <2>1, <3>1, <3>2 DEF History
    <2>. QED  BY <1>1, <1>2, <1>6, <2>1, <2>2, TransitionKeeps
<1>7. CASE index \notin st.progress
    <2> HIDE DEF st, late
    <2>1. score \in Nat /\ score \in {0, Score[vote]}
        BY <1>3, StewardAssumption
    <2> HIDE DEF score, vote
    <2>2. len \in Nat
        <3>1. IsFiniteSet(st.progress)
            <4>1. IsFiniteSet(Indices) /\ st.progress \in SUBSET Indices
                BY <1>5, StewardAssumption, DefaultIndex, FS_Interval DEF Indices, State
            <4>. QED  BY <4>1, FS_Subset
        <3>. QED  BY <3>1, FS_CardinalityType
    <2> HIDE DEF len
    <2>3. at \in Nat
        BY <2>2, PlaceInRange
    <2> HIDE DEF at
    <2>4. sorted \in [Indices -> 0 .. SORTED_INDEX_DEFAULT]
        BY <1>5, <2>2, <2>3, InsertType DEF State
    <2>5. to = [st EXCEPT !.scores = [st.scores EXCEPT ![index] = score],
                          !.sorted_score_indices = sorted,
                          !.progress = st.progress \cup {index}]
        BY <1>5 DEF State
    <2> HIDE DEF sorted, to
    <2>6. /\ to \in State
          /\ to.scores = [st.scores EXCEPT ![index] = score]
          /\ to.progress = st.progress \cup {index}
          /\ to.num_pool_validators = st.num_pool_validators
          /\ to.validators_added = st.validators_added
          /\ to.delegations = st.delegations /\ to.instant_unstake = st.instant_unstake
          /\ to.state_tag = st.state_tag /\ to.flags = st.flags /\ SameMarks(st, to)
          /\ to.current_epoch = st.current_epoch /\ to.next_cycle_epoch = st.next_cycle_epoch
        <3>1. [st.scores EXCEPT ![index] = score] \in [Indices -> Nat]
            BY <1>5, <2>1 DEF State
        <3>2. st.progress \cup {index} \in SUBSET Indices
            BY <1>5 DEF State
        <3>. QED  BY <1>5, <2>4, <2>5, <3>1, <3>2 DEF State, SameMarks
    <2>7. /\ seen' \in History /\ seen'.visits = seen.visits /\ seen'.checked = seen.checked
          /\ vote \in seen'.ranked /\ (~Restarts => seen.ranked \subseteq seen'.ranked)
        <3>1. seen \in History /\ vote \in Votes /\ late \in BOOLEAN
            BY <1>1, <1>3 DEF StateOk, late
        <3>2. CASE Restarts
            <4>1. seen' = [seen EXCEPT !.ranked = {vote}, !.late = late]
                BY <1>2, <3>2
            <4>. QED  BY <3>1, <3>2, <4>1 DEF History
        <3>3. CASE ~Restarts
            <4>1. seen' = [seen EXCEPT !.ranked = @ \cup {vote}, !.late = late]
                BY <1>2, <1>7, <3>3
            <4>. QED  BY <3>1, <3>3, <4>1 DEF History
        <3>. QED  BY <3>2, <3>3
    <2>8. StateOk(to, mirror, seen')
        BY <1>5, <2>6, <2>7 DEF StateOk, Total
    <2>9. CycleOk(to)
        BY <1>5, <2>6 DEF CycleOk
    <2>10. to.delegations = Zeros
        BY <1>5, <2>6
    <2>11. SharesOk(to)
        BY <2>6, <2>10, NoShares DEF SharesOk
    <2>12. DataOk(to, mirror)
        <3> SUFFICES ASSUME NEW i \in 0 .. to.num_pool_validators - 1
                     PROVE  /\ to.scores[i] \in {0, Score[mirror[i + 1]]}
                            /\ i \in to.instant_unstake => mirror[i + 1] \in Delinquent
                            /\ ~(to.delegations[i] > 0)
            BY DEF DataOk
        <3>1. i \in Indices
            BY <2>8, IndexOfValidator
        <3>2. ~(to.delegations[i] > 0)
            BY <2>10, <3>1 DEF Zeros
        <3>3. st.scores[i] \in {0, Score[mirror[i + 1]]}
              /\ (i \in st.instant_unstake => mirror[i + 1] \in Delinquent)
            <4>1. CASE Restarts
                BY <1>5, <3>1, <4>1 DEF Zeros
            <4>2. CASE ~Restarts
                BY <1>1, <1>5, <2>6, <4>2 DEF DataOk
            <4>. QED  BY <4>1, <4>2
        <3>4. to.scores[i] = IF i = index THEN score ELSE st.scores[i]
            BY <1>5, <2>6, <3>1 DEF State
        <3>. QED  BY <1>3, <2>1, <2>6, <3>2, <3>3, <3>4
    <2>13. SkipOk(to, mirror, seen')
        <3> SUFFICES ASSUME NEW i \in 0 .. to.num_pool_validators - 1, i \in to.progress
                     PROVE  mirror[i + 1] \in seen'.ranked
            BY <1>5, <2>6 DEF SkipOk
        <3>1. CASE i = index
            BY <1>3, <2>7, <3>1
        <3>2. CASE i # index
            <4>1. i \in st.progress /\ ~Restarts
                BY <1>5, <2>6, <3>2
            <4>2. i \in 0 .. steward.num_pool_validators - 1 /\ i \in steward.progress
                BY <1>5, <2>6, <4>1
            <4>3. mirror[i + 1] \in seen.ranked
                BY <1>1, <1>2, <4>2 DEF SkipOk
            <4>. QED  BY <2>7, <4>1, <4>3
        <3>. QED  BY <3>1, <3>2
    <2>14. OnceOk(to, mirror, seen')
        BY <1>4, <1>5, <2>6, <2>7 DEF OnceOk
    <2>15. AllOk(to, mirror, seen')
        BY <2>8, <2>9, <2>11, <2>12, <2>13, <2>14 DEF AllOk
    <2>16. SameMarks(steward, to) /\ steward' = maybe_transition(to)
        BY <1>2, <1>5, <1>7, <2>6 DEF SameMarks
    <2>17. AllOk(steward', mirror, seen') /\ SameMarks(to, steward')
        BY <1>1, <2>15, <2>16, TransitionKeeps
    <2>. QED  BY <1>2, <2>16, <2>17 DEF SameMarks
<1>. QED  BY <1>6, <1>7

\* select_validators_to_delegate takes a prefix of the ranking that holds only validators of
\* the cycle with a score.
LEMMA SelectedPrefix ==
    ASSUME NEW m, NEW s, StateOk(steward, m, s), SelectOk
    PROVE  \E k \in Nat :
               /\ k <= steward.num_pool_validators
               /\ select_validators_to_delegate
                      = {steward.sorted_score_indices[j] : j \in 0 .. k - 1}
               /\ \A j \in 0 .. k - 1 : j \notin Ends
<1> DEFINE n == steward.num_pool_validators
           k == IF Ends # {} /\ Min(Ends) < num_delegation_validators
                THEN Min(Ends) ELSE num_delegation_validators
<1>1. n \in Nat /\ num_delegation_validators \in Nat
    BY StewardAssumption, DefaultIndex DEF StateOk, State
<1>2. k \in Nat /\ k <= n /\ \A j \in 0 .. k - 1 : j \notin Ends
    <2>1. CASE Ends = {}
        BY <1>1, <2>1 DEF SelectOk
    <2>2. CASE Ends # {}
        <3>1. Ends \in SUBSET Nat /\ \A j \in Ends : j <= n - 1
            BY <1>1 DEF Ends
        <3>2. Min(Ends) \in Ends /\ \A j \in Ends : Min(Ends) <= j
            BY <2>2, <3>1, LeastIn
        <3>3. Min(Ends) \in Nat /\ Min(Ends) <= n - 1
            BY <3>1, <3>2
        <3>4. k \in Nat /\ k <= Min(Ends)
            BY <1>1, <2>2, <3>3
        <3> HIDE DEF k
        <3>5. ASSUME NEW j \in 0 .. k - 1
              PROVE  j \notin Ends
            <4>1. j \in Nat /\ j < Min(Ends)
                BY <3>3, <3>4
            <4>. QED  BY <3>2, <3>3, <4>1
        <3>. QED  BY <1>1, <3>3, <3>4, <3>5
    <2>. QED  BY <2>1, <2>2
<1>3. select_validators_to_delegate = {steward.sorted_score_indices[j] : j \in 0 .. k - 1}
    BY DEF select_validators_to_delegate
<1> HIDE DEF k
<1>. QED  BY <1>2, <1>3

\* Who is selected is a validator of the cycle and has a score.
LEMMA SelectedHaveScores ==
    ASSUME NEW m, NEW s, StateOk(steward, m, s), SelectOk
    PROVE  \A i \in select_validators_to_delegate :
               i \in 0 .. steward.num_pool_validators - 1 /\ steward.scores[i] > 0
<1> DEFINE n == steward.num_pool_validators
<1>1. /\ n \in Nat /\ n <= MAX_VALIDATORS /\ MAX_VALIDATORS \in Nat
      /\ steward.scores \in [Indices -> Nat]
      /\ steward.sorted_score_indices \in [Indices -> Nat]
    <2>1. steward.sorted_score_indices \in [Indices -> 0 .. SORTED_INDEX_DEFAULT]
        BY DEF StateOk, State
    <2>2. steward.sorted_score_indices \in [Indices -> Nat]
        BY <2>1, DefaultIndex
    <2>. QED  BY <2>2, StewardAssumption, DefaultIndex DEF StateOk, State
<1>2. PICK k \in Nat :
          /\ k <= n /\ \A j \in 0 .. k - 1 : j \notin Ends
          /\ select_validators_to_delegate = {steward.sorted_score_indices[j] : j \in 0 .. k - 1}
    BY SelectedPrefix
<1>3. ASSUME NEW j \in 0 .. n - 1, j \notin Ends
      PROVE  LET i == steward.sorted_score_indices[j] IN
             i \in 0 .. n - 1 /\ steward.scores[i] > 0
    <2> DEFINE i == steward.sorted_score_indices[j]
    <2>1. i \in Nat
        BY <1>1 DEF Indices
    <2>2. ~(i >= n) /\ steward.scores[i] # 0
        BY <1>3 DEF Ends
    <2> HIDE DEF i
    <2>3. i \in 0 .. n - 1 /\ i \in Indices
        BY <1>1, <2>1, <2>2 DEF Indices
    <2>4. steward.scores[i] \in Nat
        BY <1>1, <2>3
    <2>. QED  BY <2>2, <2>3, <2>4 DEF i
<1>4. \A j \in 0 .. k - 1 : j \in 0 .. n - 1
    BY <1>1, <1>2
<1>. QED  BY <1>2, <1>3, <1>4

\* compute_delegations: as many equal shares as there are validators that get one.
LEMMA DelegationKeeps ==
    ASSUME StewardInv, compute_delegations
    PROVE  AllOk(steward', mirror', seen') /\ SameMarks(steward, steward')
<1> DEFINE chosen == select_validators_to_delegate
           shares == [i \in Indices |-> IF i \in chosen THEN Cardinality(chosen)
                                        ELSE steward.delegations[i]]
           flags == steward.flags \cup {"COMPUTE_DELEGATIONS"}
           st == [steward EXCEPT !.delegations = shares, !.flags = flags]
<1>1. /\ PoolOk /\ StateOk(steward, mirror, seen) /\ steward \in State
      /\ CycleOk(steward) /\ SharesOk(steward) /\ DataOk(steward, mirror)
      /\ SkipOk(steward, mirror, seen) /\ OnceOk(steward, mirror, seen)
    BY DEF StewardInv, AllOk, StateOk
<1>2. /\ steward.state_tag = "ComputeDelegations" /\ steward.current_epoch = epoch
      /\ SelectOk /\ mirror' = mirror /\ seen' = seen
      /\ steward' = maybe_transition([steward EXCEPT
             !.delegations = [i \in Indices |-> IF i \in chosen THEN Cardinality(chosen) ELSE @[i]],
             !.flags = @ \cup {"COMPUTE_DELEGATIONS"}])
    BY DEF compute_delegations, state_checks
<1>3. steward' = maybe_transition(st)
    BY <1>1, <1>2 DEF State
<1>4. /\ \A i \in chosen : i \in 0 .. steward.num_pool_validators - 1 /\ steward.scores[i] > 0
      /\ \A i \in chosen : i \in Indices
    BY <1>1, <1>2, SelectedHaveScores, IndexOfValidator
<1> HIDE DEF chosen
<1>5. /\ steward.delegations = Zeros /\ MAX_VALIDATORS \in Nat
      /\ steward.num_pool_validators \in 0 .. MAX_VALIDATORS
    BY <1>1, <1>2, StewardAssumption, DefaultIndex DEF SharesOk, State
<1>6. IsFiniteSet(chosen) /\ Cardinality(chosen) \in 0 .. MAX_VALIDATORS
    <2> DEFINE cycle == 0 .. steward.num_pool_validators - 1
    <2>1. IsFiniteSet(cycle) /\ Cardinality(cycle) = steward.num_pool_validators
        <3>1. 0 \in Int /\ steward.num_pool_validators - 1 \in Int
            BY <1>5
        <3>2. IsFiniteSet(cycle) /\ Cardinality(cycle) =
                  IF 0 > steward.num_pool_validators - 1 THEN 0
                  ELSE (steward.num_pool_validators - 1) - 0 + 1
            BY <3>1, FS_Interval
        <3> HIDE DEF cycle
        <3>. QED  BY <1>5, <3>2
    <2>2. chosen \in SUBSET cycle
        BY <1>4
    <2> HIDE DEF cycle
    <2>3. IsFiniteSet(chosen) /\ Cardinality(chosen) <= steward.num_pool_validators
        BY <2>1, <2>2, FS_Subset
    <2>4. Cardinality(chosen) \in Nat
        BY <2>3, FS_CardinalityType
    <2>. QED  BY <1>5, <2>3, <2>4
<1>7. /\ shares \in [Indices -> 0 .. MAX_VALIDATORS]
      /\ \A i \in Indices : shares[i] = IF i \in chosen THEN Cardinality(chosen) ELSE 0
    BY <1>5, <1>6 DEF Zeros
<1>8. flags \in SUBSET Flags /\ "COMPUTE_DELEGATIONS" \in flags /\ steward.flags \subseteq flags
    BY <1>1 DEF State, Flags
<1> HIDE DEF shares, flags
<1>9. /\ st \in State /\ st.state_tag = "ComputeDelegations"
      /\ st.flags = flags /\ st.delegations = shares
      /\ st.num_pool_validators = steward.num_pool_validators
      /\ st.validators_added = steward.validators_added /\ st.scores = steward.scores
      /\ st.instant_unstake = steward.instant_unstake
      /\ st.progress = steward.progress /\ st.current_epoch = steward.current_epoch
      /\ st.next_cycle_epoch = steward.next_cycle_epoch /\ SameMarks(steward, st)
    BY <1>1, <1>2, <1>7, <1>8 DEF State, SameMarks
<1> HIDE DEF st
<1>10. steward' = [st EXCEPT !.state_tag = "Idle"]
    BY <1>3, <1>8, <1>9 DEF maybe_transition, transition_compute_delegations
<1>11. /\ steward' \in State /\ steward'.state_tag = "Idle"
       /\ steward'.flags = flags /\ steward'.delegations = shares
       /\ steward'.num_pool_validators = steward.num_pool_validators
       /\ steward'.validators_added = steward.validators_added
       /\ steward'.scores = steward.scores
       /\ steward'.instant_unstake = steward.instant_unstake
       /\ steward'.current_epoch = steward.current_epoch /\ SameMarks(steward, steward')
    BY <1>9, <1>10 DEF State, Tags, SameMarks
<1>12. StateOk(steward', mirror', seen')
    BY <1>1, <1>2, <1>11 DEF StateOk, Total
<1>13. CycleOk(steward')
    BY <1>1, <1>2, <1>8, <1>11 DEF CycleOk
<1>14. SharesOk(steward')
    <2>1. Sharing(steward') \subseteq chosen
        BY <1>7, <1>11 DEF Sharing
    <2>2. Cardinality(Sharing(steward')) <= Cardinality(chosen)
        BY <1>6, <2>1, FS_Subset
    <2>3. \A i \in Sharing(steward') : steward'.delegations[i] = Cardinality(chosen)
        BY <1>7, <1>11, <2>1 DEF Sharing
    <2>4. Cardinality(Sharing(steward')) \in Nat
        BY SharingFinite, FS_CardinalityType
    <2>. QED  BY <1>6, <1>11, <2>2, <2>3, <2>4 DEF SharesOk
<1>15. DataOk(steward', mirror')
    <2> SUFFICES ASSUME NEW i \in 0 .. steward.num_pool_validators - 1
                 PROVE  /\ steward.scores[i] \in {0, Score[mirror[i + 1]]}
                        /\ i \in steward.instant_unstake => mirror[i + 1] \in Delinquent
                        /\ shares[i] > 0 => steward.scores[i] > 0
        BY <1>2, <1>11 DEF DataOk
    <2>1. i \in Indices
        BY <1>1, IndexOfValidator
    <2>2. shares[i] > 0 => i \in chosen
        BY <1>7, <2>1
    <2>. QED  BY <1>1, <1>4, <2>2 DEF DataOk
<1>16. SkipOk(steward', mirror', seen')
    BY <1>11 DEF SkipOk
<1>17. OnceOk(steward', mirror', seen')
    <2>1. \A v \in Votes : seen.visits[v] = 0
        BY <1>1, <1>2, NoVisits
    <2>2. seen' = seen /\ \A v \in Votes : seen'.visits[v] = 0
        BY <1>2, <2>1
    <2>3. steward'.state_tag # "Rebalance"
        BY <1>11
    <2>. QED  BY <2>2, <2>3 DEF OnceOk
<1>. QED  BY <1>11, <1>12, <1>13, <1>14, <1>15, <1>16, <1>17 DEF AllOk

\* compute_instant_unstake: the bit set at an index is that of its validator.
LEMMA UnstakeKeeps ==
    ASSUME StewardInv, NEW index \in Indices, compute_instant_unstake(index)
    PROVE  AllOk(steward', mirror', seen') /\ SameMarks(steward, steward')
<1> DEFINE vote == pool.list[index + 1].vote
           bits == IF index \in Marked(steward) THEN steward.instant_unstake
                   ELSE IF vote \in Delinquent THEN steward.instant_unstake \cup {index}
                   ELSE steward.instant_unstake \ {index}
           done == steward.progress \cup {index}
           st == [steward EXCEPT !.instant_unstake = bits, !.progress = done]
<1>1. /\ PoolOk /\ StateOk(steward, mirror, seen) /\ steward \in State /\ seen \in History
      /\ CycleOk(steward) /\ SharesOk(steward) /\ DataOk(steward, mirror)
      /\ SkipOk(steward, mirror, seen) /\ OnceOk(steward, mirror, seen)
    BY DEF StewardInv, AllOk, StateOk
<1>2. /\ steward.state_tag = "ComputeInstantUnstake" /\ OneToOne /\ index < Len(pool.list)
      /\ mirror' = mirror /\ seen' = [seen EXCEPT !.checked = @ \cup {vote}]
      /\ steward' = maybe_transition([steward EXCEPT
             !.instant_unstake = IF index \in Marked(steward) THEN @
                                 ELSE IF vote \in Delinquent THEN @ \cup {index} ELSE @ \ {index},
             !.progress = @ \cup {index}])
    BY DEF compute_instant_unstake, state_checks
<1>3. steward' = maybe_transition(st)
    BY <1>1, <1>2 DEF State
<1>4. vote = mirror[index + 1] /\ vote \in Votes
    <2>1. Len(mirror) = Len(pool.list) /\ Len(mirror) \in Nat /\ mirror \in Seq(Votes)
        BY <1>1, <1>2, EqualLengths DEF StateOk
    <2>2. index + 1 \in 1 .. Len(mirror)
        BY <1>2, <2>1 DEF Indices
    <2>. QED  BY <1>2, <2>1, <2>2, EqualLengths
<1>5. /\ bits \in SUBSET Indices /\ done \in SUBSET Indices
      /\ \A i \in bits : i \in steward.instant_unstake \/ (i = index /\ vote \in Delinquent)
    BY <1>1 DEF State
<1> HIDE DEF bits, vote
<1>6. /\ st \in State /\ st.state_tag = "ComputeInstantUnstake"
      /\ st.instant_unstake = bits /\ st.progress = done
      /\ st.num_pool_validators = steward.num_pool_validators
      /\ st.validators_added = steward.validators_added /\ st.scores = steward.scores
      /\ st.delegations = steward.delegations /\ st.flags = steward.flags
      /\ st.current_epoch = steward.current_epoch
      /\ st.next_cycle_epoch = steward.next_cycle_epoch /\ SameMarks(steward, st)
    BY <1>1, <1>2, <1>5 DEF State, SameMarks
<1> HIDE DEF st
<1>7. /\ seen' \in History /\ seen'.visits = seen.visits
      /\ seen'.checked = seen.checked \cup {vote}
    BY <1>1, <1>2, <1>4 DEF History
<1>8. StateOk(st, mirror, seen')
    BY <1>1, <1>6, <1>7 DEF StateOk, Total
<1>9. CycleOk(st)
    BY <1>1, <1>2, <1>6 DEF CycleOk
<1>10. SharesOk(st)
    <2>1. Sharing(st) = Sharing(steward)
        BY <1>6 DEF Sharing
    <2>. QED  BY <1>1, <1>6, <2>1 DEF SharesOk
<1>11. DataOk(st, mirror)
    BY <1>1, <1>4, <1>5, <1>6 DEF DataOk
<1>12. SkipOk(st, mirror, seen')
    BY <1>1, <1>2, <1>4, <1>6, <1>7 DEF SkipOk
<1>13. OnceOk(st, mirror, seen')
    <2>1. \A v \in Votes : seen.visits[v] = 0
        BY <1>1, <1>2, NoVisits
    <2>. QED  BY <1>6, <1>7, <2>1 DEF OnceOk
<1>14. AllOk(st, mirror, seen')
    BY <1>8, <1>9, <1>10, <1>11, <1>12, <1>13 DEF AllOk
<1>15. AllOk(steward', mirror, seen') /\ SameMarks(st, steward')
    BY <1>1, <1>3, <1>14, TransitionKeeps
<1>. QED  BY <1>2, <1>6, <1>15 DEF SameMarks

\* When a validator gives up its share, those that others have still fit.
LEMMA GiveUpShares ==
    ASSUME NEW st \in State, SharesOk(st), NEW index \in Indices, st.delegations[index] > 0,
           NEW to \in State, to.delegations = GiveUp(st, index)
    PROVE  /\ \A i \in Indices : to.delegations[i] > 0 => st.delegations[i] > 0
           /\ \A i \in Sharing(to) : to.delegations[i] >= Cardinality(Sharing(to))
<1> DEFINE d == st.delegations
           f == to.delegations
<1>1. d \in [Indices -> Nat] /\ f \in [Indices -> Nat] /\ st.num_pool_validators \in Nat
      /\ \A i \in Indices : i \in Nat
    <2>1. MAX_VALIDATORS \in Nat
        BY StewardAssumption, DefaultIndex
    <2>2. d \in [Indices -> 0 .. MAX_VALIDATORS] /\ f \in [Indices -> 0 .. MAX_VALIDATORS]
          /\ st.num_pool_validators \in 0 .. MAX_VALIDATORS
        BY DEF State
    <2>. QED  BY <2>1, <2>2 DEF Indices
<1>2. \A i \in Indices : f[i] = IF i = index THEN 0
                                ELSE IF i < st.num_pool_validators /\ d[i] > 1
                                THEN d[i] - 1 ELSE d[i]
    BY DEF GiveUp
<1> HIDE DEF d, f
<1>3. \A i \in Indices : f[i] > 0 => d[i] > 0
    BY <1>1, <1>2
<1>4. index \in Sharing(st) /\ index \notin Sharing(to) /\ Sharing(to) \subseteq Sharing(st)
    BY <1>1, <1>2, <1>3 DEF Sharing, d, f
<1>5. /\ IsFiniteSet(Sharing(st)) /\ IsFiniteSet(Sharing(to))
      /\ Cardinality(Sharing(to)) \in Nat /\ Cardinality(Sharing(st)) \in Nat
    BY SharingFinite, FS_CardinalityType
<1>6. Cardinality(Sharing(to)) <= Cardinality(Sharing(st)) - 1
    <2> DEFINE rest == Sharing(st) \ {index}
    <2>1. IsFiniteSet(rest) /\ Cardinality(rest) = Cardinality(Sharing(st)) - 1
        BY <1>4, <1>5, FS_RemoveElement
    <2>2. Sharing(to) \in SUBSET rest
        BY <1>4
    <2> HIDE DEF rest
    <2>3. Cardinality(Sharing(to)) <= Cardinality(rest)
        BY <2>1, <2>2, FS_Subset
    <2>. QED  BY <2>1, <2>3
<1>7. ASSUME NEW i \in Sharing(to)
      PROVE  f[i] >= Cardinality(Sharing(to))
    <2>1. i \in Indices /\ i \in Sharing(st) /\ i # index
        BY <1>4 DEF Sharing
    <2>2. d[i] >= Cardinality(Sharing(st)) /\ d[i] \in Nat
        BY <1>1, <2>1 DEF SharesOk, d
    <2>3. f[i] = d[i] - 1 \/ f[i] = d[i]
        BY <1>1, <1>2, <2>1
    <2>. QED  BY <1>5, <1>6, <2>2, <2>3
<1>. QED  BY <1>3, <1>7 DEF d, f

\* rebalance up to the transition: progress knows of whom it counts.
LEMMA StakeMoved ==
    ASSUME StewardInv, steward.state_tag = "Rebalance", steward.current_epoch = epoch, OneToOne,
           NEW index \in Indices, index < Len(pool.list),
           NEW st \in State,
           st = [steward EXCEPT !.progress = steward.progress \cup {index},
                                !.delegations = st.delegations],
           \/ st.delegations = steward.delegations
           \/ steward.delegations[index] > 0 /\ st.delegations = GiveUp(steward, index),
           NEW s,
           \/ s = seen
           \/ /\ index \notin steward.progress /\ index < steward.num_pool_validators
              /\ s = [seen EXCEPT !.visits[pool.list[index + 1].vote] = @ + 1]
    PROVE  AllOk(st, mirror, s) /\ SameMarks(steward, st)
<1> DEFINE vote == pool.list[index + 1].vote
<1>1. /\ PoolOk /\ StateOk(steward, mirror, seen) /\ steward \in State /\ seen \in History
      /\ CycleOk(steward) /\ SharesOk(steward) /\ DataOk(steward, mirror)
      /\ SkipOk(steward, mirror, seen) /\ OnceOk(steward, mirror, seen)
    BY DEF StewardInv, AllOk, StateOk
<1>2. index + 1 \in 1 .. Len(mirror) /\ vote = mirror[index + 1] /\ vote \in Votes
    <2>1. Len(mirror) = Len(pool.list) /\ Len(mirror) \in Nat /\ mirror \in Seq(Votes)
        BY <1>1, EqualLengths DEF StateOk
    <2>2. index + 1 \in 1 .. Len(mirror)
        BY <2>1 DEF Indices
    <2>. QED  BY <2>1, <2>2, EqualLengths
<1>3. /\ st.state_tag = "Rebalance" /\ st.progress = steward.progress \cup {index}
      /\ st.num_pool_validators = steward.num_pool_validators
      /\ st.validators_added = steward.validators_added /\ st.scores = steward.scores
      /\ st.instant_unstake = steward.instant_unstake /\ st.flags = steward.flags
      /\ st.current_epoch = epoch
      /\ st.next_cycle_epoch = steward.next_cycle_epoch /\ SameMarks(steward, st)
    BY <1>1 DEF State, SameMarks
<1>4. /\ \A i \in Indices : st.delegations[i] > 0 => steward.delegations[i] > 0
      /\ \A i \in Sharing(st) : st.delegations[i] >= Cardinality(Sharing(st))
    <2>1. CASE st.delegations = steward.delegations
        <3>1. Sharing(st) = Sharing(steward)
            BY <2>1 DEF Sharing
        <3>. QED  BY <1>1, <2>1, <3>1 DEF SharesOk
    <2>2. CASE steward.delegations[index] > 0 /\ st.delegations = GiveUp(steward, index)
        BY <1>1, <2>2, GiveUpShares
    <2>. QED  BY <2>1, <2>2
<1>5. /\ s \in History /\ s.ranked = seen.ranked /\ s.checked = seen.checked
      /\ \/ s.visits = seen.visits
         \/ /\ index \notin steward.progress /\ index < steward.num_pool_validators
            /\ s.visits = [seen.visits EXCEPT ![vote] = @ + 1]
    <2>1. CASE s = seen
        BY <1>1, <2>1
    <2>2. CASE /\ index \notin steward.progress /\ index < steward.num_pool_validators
               /\ s = [seen EXCEPT !.visits[vote] = @ + 1]
        <3>1. s = [seen EXCEPT !.visits = [seen.visits EXCEPT ![vote] = @ + 1]]
            BY <1>1, <2>2 DEF History
        <3>2. [seen.visits EXCEPT ![vote] = @ + 1] \in [Votes -> Nat]
            BY <1>1, <1>2 DEF History
        <3>. QED  BY <1>1, <2>2, <3>1, <3>2 DEF History
    <2>. QED  BY <2>1, <2>2
<1>6. StateOk(st, mirror, s)
    BY <1>1, <1>3, <1>5 DEF StateOk, Total
<1>7. CycleOk(st)
    BY <1>1, <1>3 DEF CycleOk
<1>8. SharesOk(st)
    BY <1>3, <1>4 DEF SharesOk
<1>9. DataOk(st, mirror)
    <2>1. \A i \in 0 .. st.num_pool_validators - 1 : i \in Indices
        BY <1>6, IndexOfValidator
    <2>. QED  BY <1>1, <1>3, <1>4, <2>1 DEF DataOk
<1>10. SkipOk(st, mirror, s)
    BY <1>1, <1>3, <1>5 DEF SkipOk
<1>11. OnceOk(st, mirror, s)
    <2>1. seen.visits \in [Votes -> Nat]
        BY <1>1 DEF History
    <2>2. CASE s.visits = seen.visits
        BY <1>1, <1>3, <2>2 DEF OnceOk
    <2>3. CASE /\ index \notin steward.progress /\ index < steward.num_pool_validators
               /\ s.visits = [seen.visits EXCEPT ![vote] = @ + 1]
        <3>1. index \in 0 .. steward.num_pool_validators - 1
            BY <1>1, <2>3 DEF Indices, State
        <3>2. seen.visits[vote] = 0
            <4>1. ~(seen.visits[mirror[index + 1]] > 0)
                BY <1>1, <2>3, <3>1 DEF OnceOk
            <4>. QED  BY <1>2, <2>1, <4>1
        <3>3. s.visits[vote] = 1 /\ \A v \in Votes \ {vote} : s.visits[v] = seen.visits[v]
            BY <1>2, <2>1, <2>3, <3>2
        <3>4. \A v \in Votes : s.visits[v] <= 1
            BY <1>1, <3>3 DEF OnceOk
        <3>5. ASSUME NEW i \in 0 .. st.num_pool_validators - 1, s.visits[mirror[i + 1]] > 0
              PROVE  i \in st.progress
            <4>1. i + 1 \in 1 .. Len(mirror) /\ mirror[i + 1] \in Votes /\ i \in Nat
                BY <1>1, <1>3, IndexOfValidator DEF StateOk, Indices
            <4>2. CASE mirror[i + 1] = vote
                <5>1. i + 1 = index + 1
                    BY <1>2, <4>1, <4>2 DEF StewardInv, AlignInv
                <5>2. i = index
                    BY <3>1, <4>1, <5>1
                <5>. QED  BY <1>3, <5>2
            <4>3. CASE mirror[i + 1] # vote
                <5>1. seen.visits[mirror[i + 1]] > 0
                    BY <3>3, <3>5, <4>1, <4>3
                <5>. QED  BY <1>1, <1>3, <5>1 DEF OnceOk
            <4>. QED  BY <4>2, <4>3
        <3>. QED  BY <1>3, <3>4, <3>5 DEF OnceOk
    <2>. QED  BY <1>5, <2>2, <2>3
<1>. QED  BY <1>3, <1>6, <1>7, <1>8, <1>9, <1>10, <1>11 DEF AllOk

\* rebalance.
LEMMA RebalanceKeeps ==
    ASSUME StewardInv, NEW index \in Indices,
           NEW outcome \in {"InTransit", "Settled", "InstantUnstake"}, rebalance(index, outcome)
    PROVE  AllOk(steward', mirror', seen') /\ SameMarks(steward, steward')
<1> DEFINE gives == outcome = "InstantUnstake" /\ steward.delegations[index] > 0
           progress == steward.progress \cup {index}
           done == [steward EXCEPT !.progress = progress]
           given == [done EXCEPT !.delegations = GiveUp(steward, index)]
<1>1. /\ steward.state_tag = "Rebalance" /\ steward.current_epoch = epoch /\ OneToOne
      /\ index < Len(pool.list) /\ mirror' = mirror
      /\ seen' = IF outcome # "InTransit" /\ index < steward.num_pool_validators
                 THEN [seen EXCEPT !.visits[pool.list[index + 1].vote] = @ + 1] ELSE seen
    BY DEF rebalance, state_checks
<1>2. steward \in State /\ PoolOk
    BY DEF StewardInv, AllOk, StateOk
<1>3. progress \in SUBSET Indices
    BY <1>2 DEF State
<1> HIDE DEF progress
<1>4. /\ done \in State /\ done.delegations = steward.delegations
      /\ done = [steward EXCEPT !.progress = progress, !.delegations = done.delegations]
    BY <1>2, <1>3 DEF State
<1>5. CASE outcome = "InTransit"
    <2>1. steward' = done /\ seen' = seen
        BY <1>1, <1>2, <1>5 DEF rebalance, progress, State
    <2> HIDE DEF done
    <2>. QED  BY <1>1, <1>4, <2>1, StakeMoved DEF progress
<1>6. CASE outcome # "InTransit"
    <2>1. /\ index \notin steward.progress
          /\ steward' = maybe_transition(IF gives THEN given ELSE done)
        BY <1>2, <1>6 DEF rebalance, RebalanceStake, progress, State
    <2>2. \/ seen' = seen
          \/ /\ index \notin steward.progress /\ index < steward.num_pool_validators
             /\ seen' = [seen EXCEPT !.visits[pool.list[index + 1].vote] = @ + 1]
        BY <1>1, <2>1
    <2>3. CASE gives
        <3>1. GiveUp(steward, index) \in [Indices -> 0 .. MAX_VALIDATORS]
            <4>1. steward.delegations \in [Indices -> 0 .. MAX_VALIDATORS] /\ MAX_VALIDATORS \in Nat
                BY <1>2, StewardAssumption, DefaultIndex DEF State
            <4>. QED  BY <4>1 DEF GiveUp
        <3>2. /\ given \in State /\ given.delegations = GiveUp(steward, index)
              /\ given = [steward EXCEPT !.progress = progress, !.delegations = given.delegations]
            BY <1>2, <1>3, <3>1 DEF State
        <3>3. steward.delegations[index] > 0 /\ steward' = maybe_transition(given)
            BY <2>1, <2>3
        <3> HIDE DEF given
        <3>4. AllOk(given, mirror, seen') /\ SameMarks(steward, given)
            BY <1>1, <2>2, <3>2, <3>3, StakeMoved DEF progress
        <3>5. AllOk(steward', mirror, seen') /\ SameMarks(given, steward')
            BY <1>2, <3>3, <3>4, TransitionKeeps
        <3>. QED  BY <1>1, <3>4, <3>5 DEF SameMarks
    <2>4. CASE ~gives
        <3>1. steward' = maybe_transition(done)
            BY <2>1, <2>4
        <3> HIDE DEF done
        <3>2. AllOk(done, mirror, seen') /\ SameMarks(steward, done)
            BY <1>1, <1>4, <2>2, StakeMoved DEF progress
        <3>3. AllOk(steward', mirror, seen') /\ SameMarks(done, steward')
            BY <1>2, <3>1, <3>2, TransitionKeeps
        <3>. QED  BY <1>1, <3>2, <3>3 DEF SameMarks
    <2>. QED  BY <2>3, <2>4
<1>. QED  BY <1>5, <1>6

\* The flag that all directed targets are done changes nothing else.
LEMMA TargetsKeep ==
    ASSUME NEW st, NEW m, NEW s, AllOk(st, m, s), NEW done
    PROVE  AllOk(AllTargets(st, done), m, s) /\ SameMarks(st, AllTargets(st, done))
<1>1. CASE done # Targets
    BY <1>1 DEF AllTargets, SameMarks
<1>2. CASE done = Targets
    <2> DEFINE flags == st.flags \cup {"REBALANCE_DIRECTED_COMPLETE"}
               to == [st EXCEPT !.flags = flags]
    <2>1. /\ st \in State /\ StateOk(st, m, s) /\ CycleOk(st) /\ SharesOk(st) /\ DataOk(st, m)
          /\ SkipOk(st, m, s) /\ OnceOk(st, m, s)
        BY DEF AllOk, StateOk
    <2>2. AllTargets(st, done) = to
        BY <1>2, <2>1 DEF AllTargets, State
    <2>3. flags \in SUBSET Flags
        BY <2>1 DEF State, Flags
    <2>4. /\ to \in State /\ to.flags = flags /\ to.state_tag = st.state_tag
          /\ to.num_pool_validators = st.num_pool_validators
          /\ to.validators_added = st.validators_added /\ to.scores = st.scores
          /\ to.delegations = st.delegations /\ to.instant_unstake = st.instant_unstake
          /\ to.progress = st.progress /\ to.current_epoch = st.current_epoch
          /\ to.next_cycle_epoch = st.next_cycle_epoch /\ SameMarks(st, to)
        BY <2>1, <2>3 DEF State, SameMarks
    <2> HIDE DEF to
    <2>5. StateOk(to, m, s) /\ DataOk(to, m) /\ SkipOk(to, m, s)
        BY <2>1, <2>4 DEF StateOk, Total, DataOk, SkipOk
    <2>6. CycleOk(to)
        BY <2>1, <2>4 DEF CycleOk
    <2>7. SharesOk(to)
        <3>1. Sharing(to) = Sharing(st)
            BY <2>4 DEF Sharing
        <3>. QED  BY <2>1, <2>4, <3>1 DEF SharesOk
    <2>8. OnceOk(to, m, s)
        <3>1. LoopOver(st) => LoopOver(to)
            BY <2>4 DEF LoopOver
        <3>. QED  BY <2>1, <2>4, <3>1 DEF OnceOk
    <2>. QED  BY <2>2, <2>4, <2>5, <2>6, <2>7, <2>8 DEF AllOk
<1>. QED  BY <1>1, <1>2

\* rebalance_directed, for a target in the list or not.
LEMMA DirectedKeeps ==
    ASSUME StewardInv, NEW target,
           rebalance_directed(target) \/ rebalance_directed_absent(target)
    PROVE  AllOk(steward', mirror', seen') /\ SameMarks(steward, steward')
<1>1. PoolOk /\ AllOk(steward, mirror, seen)
    BY DEF StewardInv
<1>2. PICK done : steward' = maybe_transition(AllTargets(steward, done))
    BY DEF rebalance_directed, rebalance_directed_absent
<1>3. mirror' = mirror /\ seen' = seen
    BY DEF rebalance_directed, rebalance_directed_absent
<1> DEFINE st == AllTargets(steward, done)
<1>4. AllOk(st, mirror, seen) /\ SameMarks(steward, st)
    BY <1>1, TargetsKeep
<1> HIDE DEF st
<1>5. AllOk(maybe_transition(st), mirror, seen) /\ SameMarks(st, maybe_transition(st))
    BY <1>1, <1>4, TransitionKeeps
<1>. QED  BY <1>2, <1>3, <1>4, <1>5 DEF SameMarks, st

\* The cranks work on the state account alone, and leave the marks as they are.
LEMMA CrankKeeps ==
    ASSUME StewardInv, Scoring \/ Rebalancing \/ idle
    PROVE  /\ AllOk(steward', mirror', seen') /\ SameMarks(steward, steward')
           /\ pool' = pool /\ clock' = clock /\ mirror' = mirror
<1>1. ASSUME NEW index \in Indices, compute_score(index)
      PROVE  /\ AllOk(steward', mirror', seen') /\ SameMarks(steward, steward')
             /\ pool' = pool /\ clock' = clock /\ mirror' = mirror
    <2>1. pool' = pool /\ clock' = clock /\ mirror' = mirror
        BY <1>1 DEF compute_score
    <2>. QED  BY <1>1, <2>1, ScoreKeeps
<1>2. ASSUME compute_delegations
      PROVE  /\ AllOk(steward', mirror', seen') /\ SameMarks(steward, steward')
             /\ pool' = pool /\ clock' = clock /\ mirror' = mirror
    <2>1. pool' = pool /\ clock' = clock /\ mirror' = mirror
        BY <1>2 DEF compute_delegations
    <2>. QED  BY <1>2, <2>1, DelegationKeeps
<1>3. ASSUME NEW index \in Indices, compute_instant_unstake(index)
      PROVE  /\ AllOk(steward', mirror', seen') /\ SameMarks(steward, steward')
             /\ pool' = pool /\ clock' = clock /\ mirror' = mirror
    <2>1. pool' = pool /\ clock' = clock /\ mirror' = mirror
        BY <1>3 DEF compute_instant_unstake
    <2>. QED  BY <1>3, <2>1, UnstakeKeeps
<1>4. ASSUME NEW index \in Indices, NEW outcome \in {"InTransit", "Settled", "InstantUnstake"},
             rebalance(index, outcome)
      PROVE  /\ AllOk(steward', mirror', seen') /\ SameMarks(steward, steward')
             /\ pool' = pool /\ clock' = clock /\ mirror' = mirror
    <2>1. pool' = pool /\ clock' = clock /\ mirror' = mirror
        BY <1>4 DEF rebalance
    <2>. QED  BY <1>4, <2>1, RebalanceKeeps
<1>5. ASSUME compute_score_early \/ idle \/ transition_unchecked
      PROVE  /\ AllOk(steward', mirror', seen') /\ SameMarks(steward, steward')
             /\ pool' = pool /\ clock' = clock /\ mirror' = mirror
    <2>1. /\ steward' = maybe_transition(steward) /\ seen' = seen
          /\ pool' = pool /\ clock' = clock /\ mirror' = mirror
        BY <1>5 DEF compute_score_early, idle, transition_unchecked
    <2>2. PoolOk /\ AllOk(steward, mirror, seen)
        BY DEF StewardInv
    <2>3. /\ AllOk(maybe_transition(steward), mirror, seen)
          /\ SameMarks(steward, maybe_transition(steward))
        BY <2>2, TransitionKeeps
    <2>. QED  BY <2>1, <2>3
<1>6. ASSUME NEW target, rebalance_directed(target) \/ rebalance_directed_absent(target)
      PROVE  /\ AllOk(steward', mirror', seen') /\ SameMarks(steward, steward')
             /\ pool' = pool /\ clock' = clock /\ mirror' = mirror
    <2>1. pool' = pool /\ clock' = clock /\ mirror' = mirror
        BY <1>6 DEF rebalance_directed, rebalance_directed_absent
    <2>. QED  BY <1>6, <2>1, DirectedKeeps
<1>. QED  BY <1>1, <1>2, <1>3, <1>4, <1>5, <1>6 DEF Scoring, Rebalancing

\* What was shown with the epoch before the step holds after it, if that is the same.
LEMMA SameEpoch ==
    ASSUME AllOk(steward', mirror', seen'), epoch' = epoch
    PROVE  AllOk(steward, mirror, seen)'
<1>1. StateOk(steward, mirror, seen)'
    BY DEF AllOk, StateOk, Total
<1>2. CycleOk(steward)'
    BY DEF AllOk, CycleOk
<1>3. SharesOk(steward)'
    BY DEF AllOk, SharesOk, Sharing
<1>4. DataOk(steward, mirror)'
    BY DEF AllOk, DataOk
<1>5. SkipOk(steward, mirror, seen)'
    BY DEF AllOk, SkipOk
<1>6. OnceOk(steward, mirror, seen)'
    BY DEF AllOk, OnceOk, LoopOver
<1>. QED  BY <1>1, <1>2, <1>3, <1>4, <1>5, <1>6 DEF AllOk

-----------------------------------------------------------------------------
(* The instructions: the indices                                            *)

\* The indices are as they were when neither list, mirror nor marks change, in an epoch
\* that is the same or that the steward has not begun.
LEMMA SameIndices ==
    ASSUME AlignInv, SameMarks(steward, steward'), pool'.list = pool.list, mirror' = mirror,
           epoch' = epoch \/ steward'.current_epoch # epoch'
    PROVE  AlignInv'
<1>1. PICK e \in [1 .. Len(pool.list) -> 1 .. Len(mirror)] : Embedding(e)
    BY DEF AlignInv
<1>2. Embedding(e)'
    BY <1>1 DEF Embedding, Marked, SameMarks
<1>3. e \in [1 .. Len(pool'.list) -> 1 .. Len(mirror')]
    BY <1>1
<1>. QED  BY <1>2, <1>3 DEF AlignInv, Marked, SameMarks

\* A new epoch makes nothing true of the account that speaks of this epoch.
LEMMA TickKeeps ==
    ASSUME StewardInv, Tick
    PROVE  StewardInv'
<1>1. /\ PoolOk /\ StateOk(steward, mirror, seen) /\ steward \in State /\ seen \in History
      /\ CycleOk(steward) /\ SharesOk(steward) /\ DataOk(steward, mirror)
      /\ SkipOk(steward, mirror, seen) /\ OnceOk(steward, mirror, seen)
      /\ AllOk(steward, mirror, seen) /\ AlignInv
    BY DEF StewardInv, AllOk, StateOk
<1>2. PICK late \in BOOLEAN : steward' = [steward EXCEPT !.range_exceeded = @ \/ late]
    BY DEF Tick
<1>3. /\ steward' \in State
      /\ steward'.num_pool_validators = steward.num_pool_validators
      /\ steward'.validators_added = steward.validators_added
      /\ steward'.scores = steward.scores /\ steward'.delegations = steward.delegations
      /\ steward'.instant_unstake = steward.instant_unstake
      /\ steward'.progress = steward.progress /\ steward'.state_tag = steward.state_tag
      /\ steward'.flags = steward.flags /\ steward'.current_epoch = steward.current_epoch
      /\ steward'.next_cycle_epoch = steward.next_cycle_epoch /\ SameMarks(steward, steward')
    <2>1. (steward.range_exceeded \/ late) \in BOOLEAN
        OBVIOUS
    <2>. QED  BY <1>1, <1>2, <2>1 DEF State, SameMarks
<1>4. pool' = pool /\ mirror' = mirror
    BY DEF Tick
<1>5. CASE clock.part < 2 /\ clock' = [clock EXCEPT !.part = @ + 1] /\ seen' = seen
    <2>1. clock' \in [epoch : 1 .. MaxEpoch, part : 0 .. 2] /\ epoch' = epoch
        BY <1>1, <1>5 DEF PoolOk, epoch
    <2>2. PoolOk'
        BY <1>1, <1>4, <2>1 DEF PoolOk
    <2>3. AllOk(steward', mirror', seen')
        BY <1>1, <1>3, <1>4, <1>5, SameCycleKeeps
    <2>4. AllOk(steward, mirror, seen)'
        BY <2>1, <2>3, SameEpoch
    <2>5. AlignInv'
        BY <1>1, <1>3, <1>4, <2>1, SameIndices
    <2>. QED  BY <2>2, <2>4, <2>5 DEF StewardInv
<1>6. CASE /\ epoch < MaxEpoch /\ clock' = [epoch |-> epoch + 1, part |-> 0]
           /\ seen' = [seen EXCEPT !.checked = {}, !.visits = [v \in Votes |-> 0]]
    <2>1. /\ clock' \in [epoch : 1 .. MaxEpoch, part : 0 .. 2] /\ epoch' = epoch + 1
          /\ epoch \in Nat
        BY <1>1, <1>6, StewardAssumption DEF PoolOk, epoch
    <2>2. PoolOk'
        BY <1>1, <1>4, <2>1 DEF PoolOk
    <2>3. /\ steward'.current_epoch <= epoch' /\ steward'.current_epoch # epoch'
          /\ steward.current_epoch \in Nat
        BY <1>1, <1>3, <2>1, StewardAssumption DEF StateOk, State
    <2>4. /\ seen' \in History /\ seen'.ranked = seen.ranked
          /\ seen'.visits = [v \in Votes |-> 0]
        BY <1>1, <1>6 DEF History
    <2>5. StateOk(steward, mirror, seen)'
        BY <1>1, <1>3, <1>4, <2>3, <2>4 DEF StateOk, Total
    <2>6. CycleOk(steward)'
        BY <1>1, <1>3, <2>3 DEF CycleOk
    <2>7. SharesOk(steward)'
        BY <1>1, <1>3 DEF SharesOk, Sharing
    <2>8. DataOk(steward, mirror)'
        BY <1>1, <1>3, <1>4 DEF DataOk
    <2>9. SkipOk(steward, mirror, seen)'
        BY <1>1, <1>3, <1>4, <2>3, <2>4 DEF SkipOk
    <2>10. OnceOk(steward, mirror, seen)'
        <3>1. \A v \in Votes : seen'.visits[v] = 0
            BY <2>4
        <3>2. \A i \in 0 .. steward'.num_pool_validators - 1 : mirror'[i + 1] \in Votes
            BY <1>1, <1>3, <1>4, IndexOfValidator
        <3>. QED  BY <3>1, <3>2 DEF OnceOk
    <2>11. AlignInv'
        BY <1>1, <1>3, <1>4, <2>3, SameIndices
    <2>. QED  BY <2>2, <2>5, <2>6, <2>7, <2>8, <2>9, <2>10, <2>11 DEF StewardInv, AllOk
<1>. QED  BY <1>5, <1>6 DEF Tick

\* A step that does not touch accounts other than the steward's.
LEMMA CranksPreserve ==
    ASSUME StewardInv, Scoring \/ Rebalancing \/ idle
    PROVE  StewardInv'
<1>1. /\ AllOk(steward', mirror', seen') /\ SameMarks(steward, steward')
      /\ pool' = pool /\ clock' = clock /\ mirror' = mirror
    BY CrankKeeps
<1>2. PoolOk'
    BY <1>1 DEF StewardInv, PoolOk
<1>3. epoch' = epoch
    BY <1>1 DEF epoch
<1>4. AllOk(steward, mirror, seen)'
    BY <1>1, <1>3, SameEpoch
<1>5. AlignInv'
    BY <1>1, <1>3, SameIndices DEF StewardInv
<1>. QED  BY <1>2, <1>4, <1>5 DEF StewardInv

\* update_stake_pool readies only entries whose stake is inactive, none of those that
\* leave at the end of this epoch.
LEMMA UpdatePreserves ==
    ASSUME StewardInv, update_stake_pool
    PROVE  StewardInv'
<1>1. /\ PoolOk /\ AllOk(steward, mirror, seen) /\ AlignInv
      /\ pool.list \in Seq(Entry) /\ Len(pool.list) \in Nat
    BY DEF StewardInv, PoolOk
<1>2. /\ steward' = steward /\ clock' = clock /\ mirror' = mirror /\ seen' = seen
      /\ epoch' = epoch
    BY DEF update_stake_pool, epoch
<1>3. /\ pool'.last_update_epoch = epoch
      /\ pool' = [list |-> pool'.list, last_update_epoch |-> epoch]
      /\ pool'.list = [k \in 1 .. Len(pool.list) |->
                IF pool.list[k].status = "Deactivating" /\ pool.list[k].until <= epoch
                THEN [pool.list[k] EXCEPT !.status = "ReadyForRemoval"]
                ELSE pool.list[k]]
    BY <1>1 DEF update_stake_pool
<1>4. \A k \in 1 .. Len(pool.list) : pool.list[k] \in Entry
    BY <1>1
<1>5. \A k \in 1 .. Len(pool.list) :
          /\ pool'.list[k] \in Entry
          /\ pool'.list[k].vote = pool.list[k].vote
          /\ pool'.list[k].status = "Active" <=> pool.list[k].status = "Active"
          /\ ~(pool.list[k].status = "Deactivating" /\ pool.list[k].until <= epoch)
                 => pool'.list[k] = pool.list[k]
    <2> SUFFICES ASSUME NEW k \in 1 .. Len(pool.list)
                 PROVE  /\ pool'.list[k] \in Entry
                        /\ pool'.list[k].vote = pool.list[k].vote
                        /\ pool'.list[k].status = "Active" <=> pool.list[k].status = "Active"
                        /\ ~(pool.list[k].status = "Deactivating" /\ pool.list[k].until <= epoch)
                               => pool'.list[k] = pool.list[k]
        OBVIOUS
    <2>1. pool'.list[k] = IF pool.list[k].status = "Deactivating" /\ pool.list[k].until <= epoch
                          THEN [pool.list[k] EXCEPT !.status = "ReadyForRemoval"]
                          ELSE pool.list[k]
        BY <1>3
    <2>2. pool.list[k] \in Entry
        BY <1>4
    <2>. QED  BY <2>1, <2>2 DEF Entry
<1>6. pool'.list \in Seq(Entry) /\ Len(pool'.list) = Len(pool.list)
    <2>1. pool'.list \in [1 .. Len(pool.list) -> Entry]
        BY <1>3, <1>5
    <2>. QED  BY <1>1, <2>1
<1>7. PoolOk'
    <2>1. epoch \in Nat
        BY <1>1, StewardAssumption DEF PoolOk, epoch
    <2>. QED  BY <1>1, <1>2, <1>3, <1>6, <2>1 DEF PoolOk
<1>8. AllOk(steward, mirror, seen)'
    BY <1>1, <1>2, SameEpoch
<1>9. AlignInv'
    <2>1. PICK e \in [1 .. Len(pool.list) -> 1 .. Len(mirror)] : Embedding(e)
        BY <1>1 DEF AlignInv
    <2>2. \A k \in 1 .. Len(pool.list) :
              steward.current_epoch = epoch /\ e[k] - 1 \in steward.validators_to_remove
                  => pool'.list[k].status = "Deactivating" /\ pool'.list[k].until > epoch
        <3> SUFFICES ASSUME NEW k \in 1 .. Len(pool.list),
                            steward.current_epoch = epoch, e[k] - 1 \in steward.validators_to_remove
                     PROVE  pool'.list[k].status = "Deactivating" /\ pool'.list[k].until > epoch
            OBVIOUS
        <3>1. pool.list[k].status = "Deactivating" /\ pool.list[k].until > epoch
            BY <2>1 DEF Embedding
        <3>2. pool.list[k].until \in Nat /\ epoch \in Nat
            BY <1>1, <1>4, StewardAssumption DEF PoolOk, epoch, Entry
        <3>3. pool'.list[k] = pool.list[k]
            BY <1>5, <3>1, <3>2
        <3>. QED  BY <3>1, <3>3
    <2>3. Embedding(e)'
        BY <1>2, <1>5, <2>1, <2>2 DEF Embedding, Marked
    <2>4. e \in [1 .. Len(pool'.list) -> 1 .. Len(mirror')]
        BY <1>2, <1>6, <2>1
    <2>. QED  BY <1>1, <1>2, <2>3, <2>4 DEF AlignInv, Marked
<1>. QED  BY <1>7, <1>8, <1>9 DEF StewardInv

\* cleanup_removed_validator_entries drops entries that are leaving, which are marked;
\* in the steward's epoch for immediate removal.
LEMMA CleanupPreserves ==
    ASSUME StewardInv, cleanup_removed_validator_entries
    PROVE  StewardInv'
<1> DEFINE kept == {k \in 1 .. Len(pool.list) : pool.list[k].status # "ReadyForRemoval"}
           n == Cardinality(kept)
<1>1. /\ PoolOk /\ AllOk(steward, mirror, seen) /\ AlignInv
      /\ clock \in [epoch : 1 .. MaxEpoch, part : 0 .. 2]
      /\ pool \in [list : Seq(Entry), last_update_epoch : Nat]
      /\ pool.list \in Seq(Entry) /\ Len(pool.list) \in Nat
    BY DEF StewardInv, PoolOk
<1>2. /\ steward' = steward /\ clock' = clock /\ mirror' = mirror /\ seen' = seen
      /\ epoch' = epoch
    BY DEF cleanup_removed_validator_entries, epoch
<1>3. PICK at \in [1 .. n -> kept] :
          /\ \A j, k \in DOMAIN at : j < k => at[j] < at[k]
          /\ pool' = [pool EXCEPT !.list = [k \in DOMAIN at |-> @[at[k]]]]
    <2>1. kept = {k \in DOMAIN pool.list : pool.list[k].status # "ReadyForRemoval"}
        BY <1>1
    <2>. QED  BY <2>1 DEF cleanup_removed_validator_entries
<1>4. IsFiniteSet(kept) /\ n \in Nat
    <2>1. IsFiniteSet(1 .. Len(pool.list)) /\ kept \in SUBSET (1 .. Len(pool.list))
        BY <1>1, FS_Interval
    <2> HIDE DEF kept
    <2>2. IsFiniteSet(kept)
        BY <2>1, FS_Subset
    <2>. QED  BY <2>2, FS_CardinalityType
<1>5. kept \subseteq 1 .. Len(pool.list)
    OBVIOUS
<1>6. \A k \in kept : \E j \in 1 .. n : at[j] = k
    <2> HIDE DEF kept, n
    <2>1. \A j, k \in 1 .. n : at[j] = at[k] => j = k
        <3> SUFFICES ASSUME NEW j \in 1 .. n, NEW k \in 1 .. n, at[j] = at[k], j # k
                     PROVE  FALSE
            OBVIOUS
        <3>1. at[j] \in Nat /\ at[k] \in Nat
            BY <1>3, <1>5, <1>1
        <3>2. at[j] < at[k] \/ at[k] < at[j]
            BY <1>3, <1>4
        <3>. QED  BY <3>1, <3>2
    <2>2. at \in Injection(1 .. n, kept)
        BY <1>3, <2>1 DEF Injection, IsInjective
    <2>3. Cardinality(1 .. n) = n
        BY <1>4, FS_Interval
    <2>4. at \in Surjection(1 .. n, kept)
        BY <1>4, <2>2, <2>3, FS_Injection DEF n
    <2>. QED  BY <2>4 DEF Surjection
<1> HIDE DEF kept, n
<1>7. /\ pool'.list = [k \in 1 .. n |-> pool.list[at[k]]]
      /\ pool' = [list |-> pool'.list, last_update_epoch |-> pool.last_update_epoch]
    BY <1>1, <1>3
<1>8. \A k \in 1 .. n : at[k] \in 1 .. Len(pool.list) /\ pool.list[at[k]] \in Entry
    BY <1>1, <1>3, <1>5
<1>9. pool'.list \in Seq(Entry) /\ Len(pool'.list) = n
    BY <1>4, <1>7, <1>8
<1>10. PoolOk'
    <2>1. pool.last_update_epoch \in Nat
        BY <1>1
    <2>2. PICK list \in Seq(Entry) :
              pool' = [list |-> list, last_update_epoch |-> pool.last_update_epoch]
        BY <1>7, <1>9
    <2>3. pool' \in [list : Seq(Entry), last_update_epoch : Nat]
        BY <2>1, <2>2
    <2>. QED  BY <1>1, <1>2, <2>3 DEF PoolOk
<1>11. AllOk(steward, mirror, seen)'
    BY <1>1, <1>2, SameEpoch
<1>12. AlignInv'
    <2>1. PICK e \in [1 .. Len(pool.list) -> 1 .. Len(mirror)] : Embedding(e)
        BY <1>1 DEF AlignInv
    <2>2. PICK f : f = [k \in 1 .. n |-> e[at[k]]]
        OBVIOUS
    <2>3. f \in [1 .. n -> 1 .. Len(mirror)] /\ \A k \in 1 .. n : f[k] = e[at[k]]
        BY <1>8, <2>1, <2>2
    <2>4. \A j, k \in 1 .. n : j < k => f[j] < f[k]
        BY <1>3, <1>8, <2>1, <2>3 DEF Embedding
    <2>5. \A k \in 1 .. n : pool'.list[k] = pool.list[at[k]]
        BY <1>7
    <2>6. \A k \in 1 .. n :
              /\ pool'.list[k].vote = mirror[f[k]]
              /\ pool'.list[k].status = "Active" <=> f[k] - 1 \notin Marked(steward)
              /\ steward.current_epoch = epoch /\ f[k] - 1 \in steward.validators_to_remove
                     => pool'.list[k].status = "Deactivating" /\ pool'.list[k].until > epoch
        BY <1>8, <2>1, <2>3, <2>5 DEF Embedding
    <2>7. ASSUME NEW i \in 1 .. Len(mirror), \A k \in 1 .. n : f[k] # i
          PROVE  /\ i - 1 \in Marked(steward)
                 /\ steward.current_epoch = epoch
                        => i - 1 \in steward.validators_for_immediate_removal
        <3>1. CASE \A k \in 1 .. Len(pool.list) : e[k] # i
            BY <2>1, <3>1 DEF Embedding
        <3>2. CASE \E k \in 1 .. Len(pool.list) : e[k] = i
            <4>1. PICK k \in 1 .. Len(pool.list) : e[k] = i
                BY <3>2
            <4>2. k \notin kept
                BY <1>6, <2>3, <2>7, <4>1
            <4>3. pool.list[k].status = "ReadyForRemoval"
                BY <4>2 DEF kept
            <4>4. /\ i - 1 \in Marked(steward)
                  /\ ~(steward.current_epoch = epoch /\ i - 1 \in steward.validators_to_remove)
                BY <2>1, <4>1, <4>3 DEF Embedding
            <4>. QED  BY <4>4 DEF Marked
        <3>. QED  BY <3>1, <3>2
    <2>8. Embedding(f)'
        BY <1>2, <2>3, <2>4, <2>6, <2>7 DEF Embedding, Marked
    <2>9. f \in [1 .. Len(pool'.list) -> 1 .. Len(mirror')]
        BY <1>2, <1>9, <2>3
    <2>. QED  BY <1>1, <1>2, <2>8, <2>9 DEF AlignInv, Marked
<1>. QED  BY <1>10, <1>11, <1>12 DEF StewardInv

\* auto_add_validator_to_pool appends to the list and, with the lengths equal, at the
\* same place to what the indices stand for.
LEMMA AddPreserves ==
    ASSUME StewardInv, NEW vote \in Votes, auto_add_validator_to_pool(vote)
    PROVE  StewardInv'
<1> DEFINE L == Len(mirror)
           entry == [vote |-> vote, status |-> "Active", until |-> 0]
<1>1. /\ PoolOk /\ AlignInv /\ OneToOne /\ clock' = clock /\ epoch' = epoch
      /\ pool \in [list : Seq(Entry), last_update_epoch : Nat]
      /\ \A k \in DOMAIN pool.list : pool.list[k].vote # vote
      /\ steward' = [steward EXCEPT !.validators_added = @ + 1]
      /\ pool' = [pool EXCEPT !.list = Append(@, entry)]
      /\ mirror' = Append(mirror, vote)
    BY DEF StewardInv, PoolOk, auto_add_validator_to_pool, add_validator_check,
           remove_validator_check, epoch
<1>2. /\ pool.list \in Seq(Entry) /\ mirror \in Seq(Votes) /\ L \in Nat /\ entry \in Entry
      /\ steward \in State
    BY <1>1 DEF StewardInv, AllOk, StateOk, Entry
<1>3. AllOk(steward, mirror, seen)'
    BY <1>1, AddKeeps, SameEpoch
<1>4. /\ steward'.current_epoch = steward.current_epoch
      /\ steward'.validators_to_remove = steward.validators_to_remove
      /\ steward'.validators_for_immediate_removal = steward.validators_for_immediate_removal
    BY <1>1, <1>2 DEF State
<1>5. Len(pool.list) = L /\ \A k \in 1 .. L : pool.list[k].vote = mirror[k]
    BY <1>1, EqualLengths
<1>6. PICK e : e = [k \in 1 .. L |-> k]
    OBVIOUS
<1>7. e \in [1 .. L -> 1 .. L] /\ Embedding(e)
    BY <1>1, <1>6, EqualLengths
<1>8. PICK list \in Seq(Entry) : list = Append(pool.list, entry)
    BY <1>2, AppendProperties
<1>9. pool' = [pool EXCEPT !.list = list]
    BY <1>1, <1>8
<1>10. pool' \in [list : Seq(Entry), last_update_epoch : Nat] /\ pool'.list = list
    BY <1>1, <1>9
<1>11. PoolOk'
    BY <1>1, <1>10 DEF PoolOk
<1>12. /\ Len(list) = L + 1 /\ list[L + 1] = entry
       /\ \A k \in 1 .. L : list[k] = pool.list[k]
    BY <1>2, <1>5, <1>8, AppendProperties
<1>13. /\ Len(mirror') = L + 1 /\ mirror'[L + 1] = vote
       /\ \A k \in 1 .. L : mirror'[k] = mirror[k]
    BY <1>1, <1>2, AppendProperties
<1> HIDE DEF L, entry
<1>14. Marked(steward') = Marked(steward) /\ Marked(steward) \subseteq 0 .. L - 1
    BY <1>1, <1>4 DEF Marked, AlignInv, L
<1>15. PICK f : f = [k \in 1 .. L + 1 |-> k]
    OBVIOUS
<1>16. Embedding(f)'
    <2>1. \A k \in 1 .. L :
              /\ list[k].vote = mirror'[k]
              /\ list[k].status = "Active" <=> k - 1 \notin Marked(steward)
              /\ steward.current_epoch = epoch /\ k - 1 \in steward.validators_to_remove
                     => list[k].status = "Deactivating" /\ list[k].until > epoch
        BY <1>6, <1>7, <1>12, <1>13 DEF Embedding
    <2>2. /\ list[L + 1].vote = mirror'[L + 1] /\ list[L + 1].status = "Active"
          /\ (L + 1) - 1 \notin Marked(steward)
        BY <1>2, <1>12, <1>13, <1>14 DEF entry
    <2>3. (L + 1) - 1 \notin steward.validators_to_remove
        BY <2>2 DEF Marked
    <2>4. \A k \in 1 .. L + 1 : k \in 1 .. L \/ k = L + 1
        BY <1>2
    <2>5. \A k \in 1 .. L + 1 :
              /\ list[k].vote = mirror'[k]
              /\ list[k].status = "Active" <=> k - 1 \notin Marked(steward)
              /\ steward.current_epoch = epoch /\ k - 1 \in steward.validators_to_remove
                     => list[k].status = "Deactivating" /\ list[k].until > epoch
        BY <2>1, <2>2, <2>3, <2>4
    <2>6. DOMAIN f = 1 .. L + 1 /\ \A k \in 1 .. L + 1 : f[k] = k
        BY <1>15
    <2>7. \A i \in 1 .. Len(mirror') : \E k \in DOMAIN f : f[k] = i
        BY <1>13, <2>6
    <2>8. \A j, k \in DOMAIN f : j < k => f[j] < f[k]
        BY <2>6
    <2>9. \A k \in DOMAIN f :
              /\ pool'.list[k].vote = mirror'[f[k]]
              /\ pool'.list[k].status = "Active" <=> f[k] - 1 \notin Marked(steward')
              /\ steward'.current_epoch = epoch' /\ f[k] - 1 \in steward'.validators_to_remove
                     => pool'.list[k].status = "Deactivating" /\ pool'.list[k].until > epoch'
        <3>1. epoch' = epoch /\ pool'.list = list
            BY <1>1, <1>10
        <3>. QED  BY <1>4, <1>14, <2>5, <2>6, <3>1
    <2>. QED  BY <2>7, <2>8, <2>9 DEF Embedding
<1>17. \A i, j \in 1 .. L + 1 : mirror'[i] = mirror'[j] => i = j
    <2>1. \A i, j \in 1 .. L : mirror[i] = mirror[j] => i = j
        BY <1>1 DEF AlignInv, L
    <2>2. \A i \in 1 .. L : mirror[i] # vote
        <3>1. DOMAIN pool.list = 1 .. L
            BY <1>2, <1>5
        <3>. QED  BY <1>1, <1>5, <3>1
    <2>3. \A i \in 1 .. L + 1 : i \in 1 .. L \/ i = L + 1
        BY <1>2
    <2>. QED  BY <1>13, <2>1, <2>2, <2>3
<1>18. AlignInv'
    <2>1. f \in [1 .. Len(pool'.list) -> 1 .. Len(mirror')]
        BY <1>10, <1>12, <1>13, <1>15
    <2>2. Marked(steward') \subseteq 0 .. Len(mirror') - 1
        BY <1>2, <1>13, <1>14
    <2>. QED  BY <1>1, <1>4, <1>13, <1>16, <1>17, <2>1, <2>2 DEF AlignInv
<1>. QED  BY <1>3, <1>11, <1>18 DEF StewardInv

\* auto_remove_validator_from_pool marks the index at which the entry is that it makes leave.
LEMMA MarkPreserves ==
    ASSUME StewardInv, NEW index \in Indices, NEW inactive \in BOOLEAN,
           auto_remove_validator_from_pool(index, inactive)
    PROVE  StewardInv'
<1> DEFINE L == Len(mirror)
           until == IF inactive THEN epoch ELSE epoch + 1
           entry == [pool.list[index + 1] EXCEPT !.status = "Deactivating", !.until = until]
<1>1. /\ PoolOk /\ AlignInv /\ OneToOne /\ clock' = clock /\ epoch' = epoch
      /\ pool \in [list : Seq(Entry), last_update_epoch : Nat]
      /\ index < Len(pool.list) /\ pool.list[index + 1].status = "Active"
      /\ pool' = [pool EXCEPT !.list[index + 1].status = "Deactivating",
                              !.list[index + 1].until = IF inactive THEN epoch ELSE epoch + 1]
      /\ mirror' = mirror
    BY DEF StewardInv, PoolOk, auto_remove_validator_from_pool, remove_validator_check, epoch
<1>2. /\ pool.list \in Seq(Entry) /\ mirror \in Seq(Votes) /\ L \in Nat /\ steward \in State
      /\ epoch \in Nat /\ index \in Nat
    BY <1>1, StewardAssumption DEF StewardInv, AllOk, StateOk, PoolOk, epoch, Indices
<1>3. AllOk(steward, mirror, seen)'
    BY <1>1, MarkKeeps, SameEpoch
<1>4. Len(pool.list) = L
    BY <1>1, EqualLengths
<1>5. index + 1 \in 1 .. L /\ pool.list[index + 1] \in Entry /\ (index + 1) - 1 = index
    BY <1>1, <1>2, <1>4
<1>6. /\ entry \in Entry /\ entry.vote = pool.list[index + 1].vote
      /\ entry.status = "Deactivating" /\ entry.until = until
    <2>1. until \in Nat
        BY <1>2
    <2> HIDE DEF until
    <2>. QED  BY <1>5, <2>1 DEF Entry
<1>7. PICK e : e = [k \in 1 .. L |-> k]
    OBVIOUS
<1>8. e \in [1 .. L -> 1 .. L] /\ Embedding(e)
    BY <1>1, <1>7, EqualLengths
<1>9. PICK list : list = [pool.list EXCEPT ![index + 1] = entry]
    OBVIOUS
<1>10. pool' = [pool EXCEPT !.list = list]
    BY <1>1, <1>2, <1>4, <1>5, <1>9
<1> HIDE DEF entry
<1>11. /\ list \in Seq(Entry) /\ Len(list) = L /\ list[index + 1] = entry
       /\ \A k \in 1 .. L : k # index + 1 => list[k] = pool.list[k]
    <2>1. pool.list \in [1 .. L -> Entry]
        BY <1>2, <1>4
    <2>2. list \in [1 .. L -> Entry]
        BY <1>5, <1>6, <1>9, <2>1
    <2>. QED  BY <1>2, <1>5, <1>9, <2>1, <2>2
<1>12. pool' \in [list : Seq(Entry), last_update_epoch : Nat] /\ pool'.list = list
    BY <1>1, <1>10, <1>11
<1>13. PoolOk'
    BY <1>1, <1>12 DEF PoolOk
<1>14. index \notin Marked(steward)
    BY <1>1, <1>5, <1>7, <1>8 DEF Embedding
<1>15. /\ steward'.current_epoch = steward.current_epoch
       /\ Marked(steward') = Marked(steward) \cup {index}
       /\ ~inactive => steward'.validators_to_remove = steward.validators_to_remove \cup {index}
       /\ inactive => steward'.validators_to_remove = steward.validators_to_remove
       /\ steward'.validators_to_remove \cap steward'.validators_for_immediate_removal = {}
    <2>1. steward' = IF inactive
                     THEN [steward EXCEPT !.validators_for_immediate_removal = @ \cup {index}]
                     ELSE [steward EXCEPT !.validators_to_remove = @ \cup {index}]
        BY DEF auto_remove_validator_from_pool
    <2>2. steward.validators_to_remove \cap steward.validators_for_immediate_removal = {}
        BY <1>1 DEF AlignInv
    <2>3. CASE inactive
        BY <1>2, <1>14, <2>1, <2>2, <2>3 DEF State, Marked
    <2>4. CASE ~inactive
        BY <1>2, <1>14, <2>1, <2>2, <2>4 DEF State, Marked
    <2>. QED  BY <2>3, <2>4
<1>16. Embedding(e)'
    <2>1. \A k \in 1 .. L : k # index + 1 => k - 1 # index
        BY <1>2
    <2>2. \A k \in 1 .. L : k # index + 1 =>
              /\ list[k].vote = mirror[k]
              /\ list[k].status = "Active" <=> k - 1 \notin Marked(steward')
              /\ steward'.current_epoch = epoch /\ k - 1 \in steward'.validators_to_remove
                     => list[k].status = "Deactivating" /\ list[k].until > epoch
        BY <1>7, <1>8, <1>11, <1>15, <2>1 DEF Embedding
    <2>3. /\ list[index + 1].vote = mirror[index + 1] /\ list[index + 1].status # "Active"
          /\ index \in Marked(steward')
        BY <1>1, <1>5, <1>6, <1>11, <1>15, EqualLengths
    <2>4. /\ index \in steward'.validators_to_remove => ~inactive
          /\ ~inactive => list[index + 1].until > epoch
        BY <1>2, <1>6, <1>11, <1>14, <1>15 DEF Marked
    <2>5. \A k \in 1 .. L :
              /\ list[k].vote = mirror[k]
              /\ list[k].status = "Active" <=> k - 1 \notin Marked(steward')
              /\ steward'.current_epoch = epoch /\ k - 1 \in steward'.validators_to_remove
                     => list[k].status = "Deactivating" /\ list[k].until > epoch
        BY <1>5, <1>6, <1>11, <2>2, <2>3, <2>4
    <2>6. DOMAIN e = 1 .. L /\ \A k \in 1 .. L : e[k] = k
        BY <1>7
    <2>7. \A i \in 1 .. Len(mirror') : \E k \in DOMAIN e : e[k] = i
        BY <1>1, <2>6
    <2>8. \A j, k \in DOMAIN e : j < k => e[j] < e[k]
        BY <2>6
    <2>9. \A k \in DOMAIN e :
              /\ pool'.list[k].vote = mirror'[e[k]]
              /\ pool'.list[k].status = "Active" <=> e[k] - 1 \notin Marked(steward')
              /\ steward'.current_epoch = epoch' /\ e[k] - 1 \in steward'.validators_to_remove
                     => pool'.list[k].status = "Deactivating" /\ pool'.list[k].until > epoch'
        <3>1. epoch' = epoch /\ pool'.list = list /\ mirror' = mirror
            BY <1>1, <1>12
        <3>. QED  BY <2>5, <2>6, <3>1
    <2>. QED  BY <2>7, <2>8, <2>9 DEF Embedding
<1>17. AlignInv'
    <2>1. e \in [1 .. Len(pool'.list) -> 1 .. Len(mirror')]
        BY <1>1, <1>8, <1>11, <1>12
    <2>2. Marked(steward') \subseteq 0 .. Len(mirror') - 1
        BY <1>1, <1>2, <1>5, <1>15 DEF AlignInv
    <2>. QED  BY <1>1, <1>15, <1>16, <2>1, <2>2 DEF AlignInv
<1>. QED  BY <1>3, <1>13, <1>17 DEF StewardInv

\* remove_validator on an index whose entry is no longer in the list: everything at a
\* later index moves with the validator it stands for.
LEMMA RemovalAligned ==
    ASSUME AlignInv, StateOk(steward, mirror, seen), NEW index \in Indices,
           index < Total(steward), NEW to, Removed(steward, to, index),
           NEW e \in [1 .. Len(pool.list) -> 1 .. Len(mirror)], Embedding(e),
           \A k \in DOMAIN e : e[k] # index + 1,
           mirror' = RemoveAt(mirror, index + 1), pool' = pool, epoch' = epoch,
           steward'.validators_to_remove = to.validators_to_remove,
           steward'.validators_for_immediate_removal = to.validators_for_immediate_removal,
           steward'.current_epoch = steward.current_epoch \/ Marked(to) = {}
    PROVE  AlignInv'
<1> DEFINE L == Len(mirror)
           g(i) == Shifted(index, L - 1, i)
           N == Len(pool.list)
<1>1. /\ L \in Nat /\ mirror \in Seq(Votes) /\ L = Total(steward) /\ index \in Nat
      /\ L <= MAX_VALIDATORS /\ index < L /\ MAX_VALIDATORS \in Nat
    BY StewardAssumption, DefaultIndex DEF StateOk, Indices
<1>2. Total(to) = L - 1
    BY <1>1 DEF Removed
<1>3. /\ mirror' \in Seq(Votes) /\ Len(mirror') = L - 1
      /\ \A i \in 1 .. L - 1 : mirror'[i] = IF i < index + 1 THEN mirror[i] ELSE mirror[i + 1]
    <2>1. index + 1 \in 1 .. Len(mirror)
        BY <1>1
    <2>. QED  BY <1>1, <2>1, RemoveAtEffect
<1>4. \A i \in 0 .. L - 2 :
          /\ g(i) = IF i < index THEN i ELSE i + 1
          /\ g(i) \in 0 .. L - 1 /\ i \in Indices \ {L - 1}
          /\ mirror'[i + 1] = mirror[g(i) + 1]
    <2> SUFFICES ASSUME NEW i \in 0 .. L - 2
                 PROVE  /\ g(i) = IF i < index THEN i ELSE i + 1
                        /\ g(i) \in 0 .. L - 1 /\ i \in Indices \ {L - 1}
                        /\ mirror'[i + 1] = mirror[g(i) + 1]
        OBVIOUS
    <2>1. g(i) = IF i < index THEN i ELSE i + 1
        BY <1>1 DEF Shifted
    <2>2. g(i) \in 0 .. L - 1 /\ i \in Indices \ {L - 1}
        BY <1>1, <2>1 DEF Indices
    <2>3. i + 1 \in 1 .. L - 1 /\ (i + 1 < index + 1 <=> i < index)
        BY <1>1
    <2>4. mirror'[i + 1] = IF i + 1 < index + 1 THEN mirror[i + 1] ELSE mirror[(i + 1) + 1]
        BY <1>3, <2>3
    <2>. QED  BY <2>1, <2>2, <2>3, <2>4
<1>5. /\ steward'.validators_to_remove = ShiftBits(steward.validators_to_remove, index, L - 1)
      /\ steward'.validators_for_immediate_removal =
             ShiftBits(steward.validators_for_immediate_removal, index, L - 1)
    BY <1>2 DEF Removed
<1>6. \A i \in 0 .. L - 2 :
          /\ i \in steward'.validators_to_remove <=> g(i) \in steward.validators_to_remove
          /\ i \in steward'.validators_for_immediate_removal
                 <=> g(i) \in steward.validators_for_immediate_removal
    BY <1>1, <1>4, <1>5, ShiftBitsEffect
<1>7. \A i \in 0 .. L - 2 : i \in Marked(steward') <=> g(i) \in Marked(steward)
    BY <1>6 DEF Marked
<1>8. Marked(steward') \subseteq 0 .. L - 2
    <2> SUFFICES ASSUME NEW i \in Marked(steward')
                 PROVE  i \in 0 .. L - 2
        OBVIOUS
    <2>1. i \in Indices \ {L - 1} /\ g(i) \in Marked(steward)
        <3>1. \A bits : i \in ShiftBits(bits, index, L - 1)
                            => i \in Indices \ {L - 1} /\ g(i) \in bits
            BY DEF ShiftBits, Shifted
        <3> HIDE DEF g
        <3>. QED  BY <1>5, <3>1 DEF Marked
    <2>2. g(i) \in 0 .. L - 1
        BY <2>1 DEF AlignInv
    <2>3. /\ i \in Nat /\ (i \in index .. L - 1 => g(i) = i + 1)
          /\ i \notin index .. L - 1 => g(i) = i
        BY <1>1, <2>1 DEF Indices, Shifted
    <2> HIDE DEF g
    <2>. QED  BY <1>1, <2>1, <2>2, <2>3
<1>9. steward'.validators_to_remove \cap steward'.validators_for_immediate_removal = {}
    <2> SUFFICES ASSUME NEW i \in steward'.validators_to_remove,
                        i \in steward'.validators_for_immediate_removal
                 PROVE  FALSE
        OBVIOUS
    <2>1. i \in 0 .. L - 2
        BY <1>8 DEF Marked
    <2>2. /\ g(i) \in steward.validators_to_remove
          /\ g(i) \in steward.validators_for_immediate_removal
        BY <1>6, <2>1
    <2>. QED  BY <2>2 DEF AlignInv
<1>10. \A i, j \in 1 .. L - 1 : mirror'[i] = mirror'[j] => i = j
    <2> SUFFICES ASSUME NEW i \in 1 .. L - 1, NEW j \in 1 .. L - 1, mirror'[i] = mirror'[j]
                 PROVE  i = j
        OBVIOUS
    <2>1. /\ i - 1 \in 0 .. L - 2 /\ j - 1 \in 0 .. L - 2
          /\ (i - 1) + 1 = i /\ (j - 1) + 1 = j
        BY <1>1
    <2>2. mirror[g(i - 1) + 1] = mirror[g(j - 1) + 1]
        BY <1>4, <2>1
    <2>3. g(i - 1) + 1 \in 1 .. L /\ g(j - 1) + 1 \in 1 .. L
        BY <1>1, <1>4, <2>1, SMTT(30)
    <2>4. g(i - 1) + 1 = g(j - 1) + 1
        BY <2>2, <2>3 DEF AlignInv
    <2>5. /\ g(i - 1) = IF i - 1 < index THEN i - 1 ELSE (i - 1) + 1
          /\ g(j - 1) = IF j - 1 < index THEN j - 1 ELSE (j - 1) + 1
        BY <1>4, <2>1
    <2> HIDE DEF g
    <2>. QED  BY <1>1, <2>4, <2>5
<1> HIDE DEF g, L
<1>11. PICK f : f = [k \in 1 .. N |-> IF e[k] < index + 1 THEN e[k] ELSE e[k] - 1]
    OBVIOUS
<1>12. /\ DOMAIN f = 1 .. N /\ DOMAIN e = 1 .. N
       /\ \A k \in 1 .. N : e[k] \in 1 .. L /\ e[k] # index + 1
    BY <1>11 DEF L
<1>13. \A k \in 1 .. N : f[k] = IF e[k] < index + 1 THEN e[k] ELSE e[k] - 1
    BY <1>11
<1>14. \A k \in 1 .. N : /\ f[k] \in 1 .. L - 1 /\ f[k] - 1 \in 0 .. L - 2
                         /\ g(f[k] - 1) = e[k] - 1
                         /\ (f[k] - 1) + 1 = f[k] /\ (e[k] - 1) + 1 = e[k]
    <2> SUFFICES ASSUME NEW k \in 1 .. N
                 PROVE  /\ f[k] \in 1 .. L - 1 /\ f[k] - 1 \in 0 .. L - 2
                        /\ g(f[k] - 1) = e[k] - 1
                        /\ (f[k] - 1) + 1 = f[k] /\ (e[k] - 1) + 1 = e[k]
        OBVIOUS
    <2>1. /\ e[k] \in 1 .. L /\ e[k] # index + 1
          /\ f[k] = IF e[k] < index + 1 THEN e[k] ELSE e[k] - 1
        BY <1>12, <1>13
    <2>2. f[k] \in 1 .. L - 1 /\ f[k] - 1 \in 0 .. L - 2
        BY <1>1, <2>1
    <2>3. g(f[k] - 1) = IF f[k] - 1 < index THEN f[k] - 1 ELSE (f[k] - 1) + 1
        BY <1>4, <2>2
    <2>4. f[k] - 1 < index <=> e[k] < index + 1
        BY <1>1, <2>1
    <2>5. g(f[k] - 1) = e[k] - 1
        BY <1>1, <2>1, <2>3, <2>4
    <2>. QED  BY <1>1, <2>1, <2>2, <2>5
<1>15. \A j, k \in 1 .. N : j < k => f[j] < f[k]
    <2> SUFFICES ASSUME NEW j \in 1 .. N, NEW k \in 1 .. N, j < k
                 PROVE  f[j] < f[k]
        OBVIOUS
    <2>1. e[j] < e[k]
        BY <1>12 DEF Embedding
    <2>2. /\ e[j] \in 1 .. L /\ e[k] \in 1 .. L /\ e[j] # index + 1 /\ e[k] # index + 1
          /\ f[j] = IF e[j] < index + 1 THEN e[j] ELSE e[j] - 1
          /\ f[k] = IF e[k] < index + 1 THEN e[k] ELSE e[k] - 1
        BY <1>12, <1>13
    <2>. QED  BY <1>1, <2>1, <2>2
<1>16. ASSUME NEW k \in 1 .. N
       PROVE  /\ pool.list[k].vote = mirror'[f[k]]
              /\ pool.list[k].status = "Active" <=> f[k] - 1 \notin Marked(steward')
              /\ steward'.current_epoch = epoch /\ f[k] - 1 \in steward'.validators_to_remove
                     => pool.list[k].status = "Deactivating" /\ pool.list[k].until > epoch
    <2>1. /\ pool.list[k].vote = mirror[e[k]]
          /\ pool.list[k].status = "Active" <=> e[k] - 1 \notin Marked(steward)
          /\ steward.current_epoch = epoch /\ e[k] - 1 \in steward.validators_to_remove
                 => pool.list[k].status = "Deactivating" /\ pool.list[k].until > epoch
        BY <1>12 DEF Embedding
    <2>2. /\ mirror'[f[k]] = mirror[e[k]]
          /\ f[k] - 1 \in Marked(steward') <=> e[k] - 1 \in Marked(steward)
          /\ f[k] - 1 \in steward'.validators_to_remove
                 <=> e[k] - 1 \in steward.validators_to_remove
        BY <1>4, <1>6, <1>7, <1>14
    <2>3. CASE steward'.current_epoch = steward.current_epoch
        BY <2>1, <2>2, <2>3
    <2>4. CASE Marked(to) = {}
        <3>1. f[k] - 1 \notin steward'.validators_to_remove
            BY <2>4 DEF Marked
        <3>. QED  BY <2>1, <2>2, <3>1
    <2>. QED  BY <2>3, <2>4
<1>17. ASSUME NEW i \in 1 .. L - 1, \A k \in 1 .. N : f[k] # i
       PROVE  /\ i - 1 \in Marked(steward')
              /\ steward'.current_epoch = epoch
                     => i - 1 \in steward'.validators_for_immediate_removal
    <2>1. i - 1 \in 0 .. L - 2
        BY <1>1
    <2>2. /\ g(i - 1) = IF i - 1 < index THEN i - 1 ELSE (i - 1) + 1
          /\ g(i - 1) \in 0 .. L - 1
        BY <1>4, <2>1
    <2>3. \A k \in 1 .. N : e[k] # g(i - 1) + 1
        <3> SUFFICES ASSUME NEW k \in 1 .. N, e[k] = g(i - 1) + 1
                     PROVE  FALSE
            OBVIOUS
        <3>1. f[k] # i /\ f[k] = IF e[k] < index + 1 THEN e[k] ELSE e[k] - 1
            BY <1>13, <1>17
        <3>. QED  BY <1>1, <2>2, <3>1
    <2>4. g(i - 1) + 1 \in 1 .. Len(mirror) /\ (g(i - 1) + 1) - 1 = g(i - 1)
        BY <1>1, <2>2 DEF L
    <2>5. /\ g(i - 1) \in Marked(steward)
          /\ steward.current_epoch = epoch
                 => g(i - 1) \in steward.validators_for_immediate_removal
        BY <1>12, <2>3, <2>4 DEF Embedding
    <2>6. /\ i - 1 \in Marked(steward')
          /\ i - 1 \in steward'.validators_for_immediate_removal
                 <=> g(i - 1) \in steward.validators_for_immediate_removal
        BY <1>6, <1>7, <2>1, <2>5
    <2>7. Marked(to) # {}
        BY <2>6 DEF Marked
    <2>. QED  BY <2>5, <2>6, <2>7
<1>18. Embedding(f)'
    BY <1>3, <1>12, <1>15, <1>16, <1>17 DEF Embedding
<1>19. f \in [1 .. N -> 1 .. L - 1]
    BY <1>11, <1>14
<1>20. f \in [1 .. Len(pool'.list) -> 1 .. Len(mirror')]
    BY <1>3, <1>19
<1>21. Marked(steward') \subseteq 0 .. Len(mirror') - 1
    BY <1>1, <1>3, <1>8
<1>. QED  BY <1>3, <1>9, <1>10, <1>18, <1>20, <1>21 DEF AlignInv

\* Epoch maintenance ends with the marks of st; a new epoch begins when there are none.
LEMMA MaintenanceMarks ==
    ASSUME NEW st \in State, epoch_maintenance(st)
    PROVE  /\ steward'.validators_to_remove = st.validators_to_remove
           /\ steward'.validators_for_immediate_removal = st.validators_for_immediate_removal
           /\ steward'.current_epoch = st.current_epoch \/ Marked(st) = {}
           /\ pool' = pool /\ clock' = clock /\ epoch' = epoch
           /\ steward.current_epoch < epoch
           /\ \A k \in DOMAIN pool.list : pool.list[k].status = "Active"
<1>1. CASE Marked(st) = {}
    BY <1>1 DEF epoch_maintenance, State, epoch
<1>2. CASE Marked(st) # {}
    BY <1>2 DEF epoch_maintenance, State, epoch
<1>. QED  BY <1>1, <1>2

\* epoch_maintenance without a removal.
LEMMA MaintenancePreserves ==
    ASSUME StewardInv, epoch_maintenance_only
    PROVE  StewardInv'
<1>1. /\ PoolOk /\ AllOk(steward, mirror, seen) /\ AlignInv /\ steward \in State
      /\ epoch_maintenance(steward) /\ mirror' = mirror
    BY DEF StewardInv, AllOk, StateOk, epoch_maintenance_only
<1>2. /\ steward'.validators_to_remove = steward.validators_to_remove
      /\ steward'.validators_for_immediate_removal = steward.validators_for_immediate_removal
      /\ steward'.current_epoch = steward.current_epoch \/ Marked(steward) = {}
      /\ pool' = pool /\ clock' = clock /\ epoch' = epoch
      /\ steward.current_epoch < epoch
    BY <1>1, MaintenanceMarks
<1>3. PoolOk'
    BY <1>1, <1>2 DEF PoolOk
<1>4. AllOk(steward, mirror, seen)'
    BY <1>1, <1>2, MaintenanceKeeps, SameEpoch
<1>5. AlignInv'
    <2>1. CASE steward'.current_epoch = steward.current_epoch
        BY <1>1, <1>2, <2>1, SameIndices DEF SameMarks
    <2>2. CASE Marked(steward) = {}
        <3>1. PICK e \in [1 .. Len(pool.list) -> 1 .. Len(mirror)] : Embedding(e)
            BY <1>1 DEF AlignInv
        <3>2. Embedding(e)'
            BY <1>1, <1>2, <2>2, <3>1 DEF Embedding, Marked
        <3>3. e \in [1 .. Len(pool'.list) -> 1 .. Len(mirror')]
            BY <1>1, <1>2, <3>1
        <3>. QED  BY <1>1, <1>2, <3>2, <3>3 DEF AlignInv, Marked
    <2>. QED  BY <1>2, <2>1, <2>2
<1>. QED  BY <1>3, <1>4, <1>5 DEF StewardInv

\* epoch_maintenance with a removal: every entry of the list is active, so that none is
\* at a marked index.
LEMMA MaintenanceRemovePreserves ==
    ASSUME StewardInv, NEW index \in Indices, epoch_maintenance_remove(index)
    PROVE  StewardInv'
<1>1. /\ PoolOk /\ AllOk(steward, mirror, seen) /\ AlignInv /\ StateOk(steward, mirror, seen)
      /\ index \in Marked(steward) /\ index < Total(steward)
      /\ mirror' = RemoveAt(mirror, index + 1)
    BY DEF StewardInv, AllOk, epoch_maintenance_remove, Removable, Total
<1>2. PICK to : to = remove_validator(steward, index)
    OBVIOUS
<1>3. Removed(steward, to, index) /\ epoch_maintenance(to)
    BY <1>1, <1>2, RemovalEffect DEF epoch_maintenance_remove
<1>4. to \in State /\ to.current_epoch = steward.current_epoch
    BY <1>3 DEF Removed
<1>5. /\ steward'.validators_to_remove = to.validators_to_remove
      /\ steward'.validators_for_immediate_removal = to.validators_for_immediate_removal
      /\ steward'.current_epoch = to.current_epoch \/ Marked(to) = {}
      /\ pool' = pool /\ clock' = clock /\ epoch' = epoch
      /\ steward.current_epoch < epoch
      /\ \A k \in DOMAIN pool.list : pool.list[k].status = "Active"
    BY <1>3, <1>4, MaintenanceMarks
<1>6. PoolOk'
    BY <1>1, <1>5 DEF PoolOk
<1>7. AllOk(to, mirror', seen)
    BY <1>1, <1>3, RemovalKeeps
<1>8. AllOk(steward, mirror, seen)'
    BY <1>1, <1>3, <1>4, <1>5, <1>7, MaintenanceKeeps, SameEpoch
<1>9. PICK e \in [1 .. Len(pool.list) -> 1 .. Len(mirror)] : Embedding(e)
    BY <1>1 DEF AlignInv
<1>10. \A k \in DOMAIN e : e[k] # index + 1
    <2> SUFFICES ASSUME NEW k \in DOMAIN e, e[k] = index + 1
                 PROVE  FALSE
        OBVIOUS
    <2>1. k \in DOMAIN pool.list
        BY <1>1, <1>9 DEF PoolOk
    <2>2. e[k] - 1 = index
        BY DEF Indices
    <2>. QED  BY <1>1, <1>5, <1>9, <2>1, <2>2 DEF Embedding
<1>11. AlignInv'
    BY <1>1, <1>3, <1>4, <1>5, <1>9, <1>10, RemovalAligned
<1>. QED  BY <1>6, <1>8, <1>11 DEF StewardInv

\* As many validators for immediate removal as entries are missing from the list: those
\* are the missing ones.
LEMMA AllMissing ==
    ASSUME NEW N \in Nat, NEW L \in Nat, NEW e \in [1 .. N -> 1 .. L],
           \A j, k \in 1 .. N : j < k => e[j] < e[k],
           NEW V \in SUBSET (0 .. L - 1), L = N + Cardinality(V),
           \A i \in 1 .. L : (\A k \in 1 .. N : e[k] # i) => i - 1 \in V
    PROVE  \A i \in V : \A k \in 1 .. N : e[k] # i + 1
<1> DEFINE R == {e[k] : k \in 1 .. N}
           D == (1 .. L) \ R
           W == {i \in 1 .. L : i - 1 \in V}
           up == [i \in V |-> i + 1]
<1>1. IsFiniteSet(1 .. L) /\ Cardinality(1 .. L) = L
    BY FS_Interval
<1>2. IsFiniteSet(1 .. N) /\ Cardinality(1 .. N) = N
    BY FS_Interval
<1>3. IsFiniteSet(0 .. L - 1)
    BY FS_Interval
<1>4. IsFiniteSet(V) /\ Cardinality(V) \in Nat
    BY <1>3, FS_Subset, FS_CardinalityType
<1>5. \A j, k \in 1 .. N : e[j] = e[k] => j = k
    <2> SUFFICES ASSUME NEW j \in 1 .. N, NEW k \in 1 .. N, e[j] = e[k], j # k
                 PROVE  FALSE
        OBVIOUS
    <2>1. e[j] \in Nat /\ e[k] \in Nat
        OBVIOUS
    <2>2. e[j] < e[k] \/ e[k] < e[j]
        OBVIOUS
    <2>. QED  BY <2>1, <2>2
<1>6. Cardinality(R) = N
    <2>1. e \in Injection(1 .. N, R)
        BY <1>5 DEF Injection, IsInjective
    <2>2. e \in Surjection(1 .. N, R)
        BY DEF Surjection
    <2>3. ExistsBijection(1 .. N, R)
        BY <2>1, <2>2 DEF ExistsBijection, Bijection
    <2> HIDE DEF R
    <2>. QED  BY <1>2, <2>3, FS_Bijection
<1>7. R \subseteq 1 .. L
    OBVIOUS
<1>8. W \in SUBSET (1 .. L) /\ D \in SUBSET W
    OBVIOUS
<1>9. Cardinality(W) = Cardinality(V) /\ IsFiniteSet(W)
    <2>1. up \in Injection(V, W)
        <3>1. \A i \in V : i \in Nat /\ i + 1 \in W
            OBVIOUS
        <3> HIDE DEF W
        <3>2. up \in [V -> W]
            BY <3>1
        <3>3. \A i, j \in V : up[i] = up[j] => i = j
            BY <3>1
        <3>. QED  BY <3>2, <3>3 DEF Injection, IsInjective
    <2>2. up \in Surjection(V, W)
        <3>1. \A i \in W : i - 1 \in V /\ up[i - 1] = i
            OBVIOUS
        <3>2. up \in [V -> W]
            BY <2>1 DEF Injection
        <3> HIDE DEF W, up
        <3>. QED  BY <3>1, <3>2 DEF Surjection
    <2>3. ExistsBijection(V, W)
        BY <2>1, <2>2 DEF ExistsBijection, Bijection
    <2> HIDE DEF W, up
    <2>. QED  BY <1>4, <2>3, FS_Bijection
<1> HIDE DEF R, W, up
<1>10. Cardinality(D) = Cardinality(1 .. L) - Cardinality((1 .. L) \cap R)
    BY <1>1, FS_Difference
<1>11. (1 .. L) \cap R = R
    BY <1>7
<1>12. Cardinality(D) = Cardinality(W)
    <2>1. Cardinality((1 .. L) \cap R) = N
        BY <1>6, <1>11
    <2>2. Cardinality(D) = L - N
        BY <1>1, <1>10, <2>1
    <2> HIDE DEF D
    <2>. QED  BY <1>4, <1>9, <2>2
<1>13. D = W
    <2> HIDE DEF D
    <2>. QED  BY <1>8, <1>9, <1>12, FS_Subset
<1>14. ASSUME NEW i \in V, NEW k \in 1 .. N, e[k] = i + 1
       PROVE  FALSE
    <2>1. i + 1 \in W
        BY DEF W
    <2>2. i + 1 \in R
        BY <1>14 DEF R
    <2>. QED  BY <1>13, <2>1, <2>2
<1>. QED  BY <1>14

\* instant_remove_validator: the list is shorter by those for immediate removal, so that
\* all of these were dropped from it.
LEMMA InstantRemovePreserves ==
    ASSUME StewardInv, NEW index \in Indices, instant_remove_validator(index)
    PROVE  StewardInv'
<1>1. /\ PoolOk /\ AllOk(steward, mirror, seen) /\ AlignInv /\ StateOk(steward, mirror, seen)
      /\ steward.current_epoch = epoch
      /\ index \in steward.validators_for_immediate_removal /\ index < Total(steward)
      /\ Total(steward) = Len(pool.list) + Cardinality(steward.validators_for_immediate_removal)
      /\ mirror' = RemoveAt(mirror, index + 1) /\ seen' = seen
      /\ pool' = pool /\ clock' = clock /\ epoch' = epoch
    BY DEF StewardInv, AllOk, instant_remove_validator, Removable, Total, epoch
<1>2. PICK to : to = remove_validator(steward, index)
    OBVIOUS
<1>3. Removed(steward, to, index) /\ steward' = to
    BY <1>1, <1>2, RemovalEffect DEF instant_remove_validator
<1>4. PoolOk'
    BY <1>1 DEF PoolOk
<1>5. AllOk(steward', mirror', seen')
    BY <1>1, <1>3, RemovalKeeps
<1>6. AllOk(steward, mirror, seen)'
    BY <1>1, <1>5, SameEpoch
<1>7. PICK e \in [1 .. Len(pool.list) -> 1 .. Len(mirror)] : Embedding(e)
    BY <1>1 DEF AlignInv
<1>8. \A k \in DOMAIN e : e[k] # index + 1
    <2>1. /\ Len(pool.list) \in Nat /\ Len(mirror) \in Nat /\ Len(mirror) = Total(steward)
        BY <1>1 DEF PoolOk, StateOk
    <2>2. steward.validators_for_immediate_removal \in SUBSET (0 .. Len(mirror) - 1)
        BY <1>1 DEF AlignInv, Marked
    <2>3. \A j, k \in 1 .. Len(pool.list) : j < k => e[j] < e[k]
        BY <1>7 DEF Embedding
    <2>4. \A i \in 1 .. Len(mirror) : (\A k \in 1 .. Len(pool.list) : e[k] # i)
              => i - 1 \in steward.validators_for_immediate_removal
        BY <1>1, <1>7 DEF Embedding
    <2>5. \A i \in steward.validators_for_immediate_removal :
              \A k \in 1 .. Len(pool.list) : e[k] # i + 1
        BY <1>1, <2>1, <2>2, <2>3, <2>4, AllMissing
    <2>. QED  BY <1>1, <1>7, <2>5
<1>9. steward'.current_epoch = steward.current_epoch
    BY <1>3 DEF Removed
<1>10. AlignInv'
    BY <1>1, <1>3, <1>7, <1>8, <1>9, RemovalAligned
<1>. QED  BY <1>4, <1>6, <1>10 DEF StewardInv

-----------------------------------------------------------------------------
(* The invariant                                                            *)

\* A steward that was set up for the validators of the pool.
LEMMA InitInv == Init => StewardInv
<1> SUFFICES ASSUME Init PROVE StewardInv
    OBVIOUS
<1> DEFINE L == Len(Initial)
<1>1. /\ clock = [epoch |-> 1, part |-> 0] /\ mirror = Initial /\ epoch = 1
      /\ pool = [list |-> [k \in DOMAIN Initial |->
                             [vote |-> Initial[k], status |-> "Active", until |-> 0]],
                 last_update_epoch |-> 1]
      /\ seen = [ranked |-> {}, late |-> FALSE, checked |-> {}, visits |-> [v \in Votes |-> 0]]
    BY DEF Init, epoch
<1>2. /\ Initial \in Seq(Votes) /\ L \in Nat /\ L \in 0 .. MAX_VALIDATORS /\ MAX_VALIDATORS \in Nat
      /\ MaxEpoch \in Nat \ {0} /\ num_epochs_between_scoring \in Nat
      /\ \A i, j \in 1 .. L : Initial[i] = Initial[j] => i = j
    BY StewardAssumption, DefaultIndex DEF IsInjective
<1>3. /\ steward.state_tag = "RebalanceDirected" /\ steward.num_pool_validators = L
      /\ steward.validators_added = 0 /\ steward.scores = Zeros /\ steward.delegations = Zeros
      /\ steward.instant_unstake = {} /\ steward.progress = {}
      /\ steward.validators_to_remove = {} /\ steward.validators_for_immediate_removal = {}
      /\ steward.current_epoch = 1 /\ steward.flags = {} /\ steward \in State
    <2>1. [i \in Indices |-> SORTED_INDEX_DEFAULT] \in [Indices -> 0 .. SORTED_INDEX_DEFAULT]
        BY DefaultIndex
    <2>2. Zeros \in [Indices -> Nat] /\ Zeros \in [Indices -> 0 .. MAX_VALIDATORS]
        BY ZerosType DEF Zeros
    <2>3. /\ 1 \in 1 .. MaxEpoch /\ 1 + num_epochs_between_scoring \in Nat
          /\ 0 \in 0 .. MAX_VALIDATORS
        BY <1>2
    <2>. QED  BY <1>2, <2>1, <2>2, <2>3 DEF Init, State, Tags
<1>4. PoolOk
    <2>1. PICK list : list = [k \in 1 .. L |->
                                 [vote |-> Initial[k], status |-> "Active", until |-> 0]]
        OBVIOUS
    <2>2. list \in [1 .. L -> Entry]
        BY <1>2, <2>1 DEF Entry
    <2>3. list \in Seq(Entry)
        BY <1>2, <2>2
    <2>4. pool = [list |-> list, last_update_epoch |-> 1]
        BY <1>1, <1>2, <2>1
    <2>5. clock \in [epoch : 1 .. MaxEpoch, part : 0 .. 2]
        BY <1>1, <1>2
    <2>. QED  BY <2>3, <2>4, <2>5 DEF PoolOk
<1>5. /\ Len(pool.list) = L
      /\ \A k \in 1 .. L : pool.list[k].vote = Initial[k] /\ pool.list[k].status = "Active"
    <2>1. pool.list = [k \in 1 .. L |-> [vote |-> Initial[k], status |-> "Active", until |-> 0]]
        BY <1>1, <1>2
    <2>. QED  BY <1>2, <2>1
<1>6. StateOk(steward, mirror, seen)
    BY <1>1, <1>2, <1>3 DEF StateOk, Total, History
<1>7. CycleOk(steward)
    BY <1>3 DEF CycleOk
<1>8. \A i \in Indices : steward.delegations[i] = 0
    BY <1>3 DEF Zeros
<1>9. SharesOk(steward)
    BY <1>3, <1>8 DEF SharesOk, Sharing
<1>10. \A i \in 0 .. steward.num_pool_validators - 1 : i \in Indices /\ mirror[i + 1] \in Votes
    BY <1>1, <1>2, <1>3 DEF Indices
<1>11. DataOk(steward, mirror)
    <2>1. \A i \in Indices : steward.scores[i] = 0
        BY <1>3 DEF Zeros
    <2>. QED  BY <1>3, <1>8, <1>10, <2>1 DEF DataOk
<1>12. SkipOk(steward, mirror, seen)
    BY <1>3 DEF SkipOk
<1>13. OnceOk(steward, mirror, seen)
    BY <1>1, <1>3 DEF OnceOk
<1>14. AlignInv
    <2>1. PICK e : e = [k \in 1 .. L |-> k]
        OBVIOUS
    <2>2. e \in [1 .. Len(pool.list) -> 1 .. Len(mirror)]
        BY <1>1, <1>5, <2>1
    <2>3. Embedding(e)
        BY <1>1, <1>3, <1>5, <2>1 DEF Embedding, Marked
    <2>. QED  BY <1>1, <1>2, <1>3, <2>2, <2>3 DEF AlignInv, Marked
<1>. QED  BY <1>4, <1>6, <1>7, <1>9, <1>11, <1>12, <1>13, <1>14 DEF StewardInv, AllOk

\* The invariant does not depend on which targets are rebalanced and who has failed.
LEMMA SameStatePreserves ==
    ASSUME StewardInv, UNCHANGED <<steward, pool, clock, mirror, seen>>
    PROVE  StewardInv'
<1>1. /\ steward' = steward /\ pool' = pool /\ clock' = clock /\ mirror' = mirror
      /\ seen' = seen /\ epoch' = epoch
    BY DEF epoch
<1>2. PoolOk'
    BY <1>1 DEF StewardInv, PoolOk
<1>3. AllOk(steward, mirror, seen)'
    BY <1>1, SameEpoch DEF StewardInv
<1>4. AlignInv'
    BY <1>1, SameIndices DEF StewardInv, SameMarks
<1>. QED  BY <1>2, <1>3, <1>4 DEF StewardInv

\* Every step keeps the invariant.
LEMMA StepInv == StewardInv /\ [Next]_vars => StewardInv'
<1> SUFFICES ASSUME StewardInv, [Next]_vars PROVE StewardInv'
    OBVIOUS
<1>1. CASE UNCHANGED vars
    BY <1>1, SameStatePreserves DEF vars
<1>2. CASE PoolStep
    BY <1>2, UpdatePreserves, CleanupPreserves DEF PoolStep
<1>3. CASE Membership
    <2>1. ASSUME NEW vote \in Votes, VoteAccountCloses(vote) PROVE StewardInv'
        BY <2>1, SameStatePreserves DEF VoteAccountCloses
    <2>. QED  BY <1>3, <2>1, AddPreserves, MarkPreserves DEF Membership
<1>4. CASE Maintenance
    BY <1>4, MaintenancePreserves, MaintenanceRemovePreserves, InstantRemovePreserves
       DEF Maintenance
<1>5. CASE Scoring \/ Rebalancing \/ idle
    BY <1>5, CranksPreserve
<1>6. CASE Tick
    BY <1>6, TickKeeps
<1>. QED  BY <1>1, <1>2, <1>3, <1>4, <1>5, <1>6 DEF Next, Crank

\* Flags, progress, history and indices of the steward agree at every step, for any
\* number of validators, any scores and any order of cranks, additions, removals of both
\* kinds, updates of the pool and epochs.
THEOREM StewardInvariant == Spec => []StewardInv
<1>1. Init => StewardInv
    BY InitInv
<1>2. StewardInv /\ [Next]_vars => StewardInv'
    BY StepInv
<1>. QED  BY <1>1, <1>2, PTL DEF Spec

\* The state account and its history always have their types, and the indices stand for
\* num_pool_validators + validators_added validators.
THEOREM StewardTyped == Spec => []TypeOK
<1>1. StewardInv => TypeOK
    BY DEF StewardInv, AllOk, StateOk, State, Total, History, TypeOK
<1>. QED  BY <1>1, StewardInvariant, PTL

\* Whenever the checks of a crank on epoch, removals and length succeed, the steward's
\* indices stand for the validators of the pool's list.
THEOREM AlwaysAligned == Spec => []Aligned
<1>1. StewardInv => Aligned
    <2> SUFFICES ASSUME StewardInv, OneToOne
                 PROVE  mirror = [k \in DOMAIN pool.list |-> pool.list[k].vote]
        BY DEF Aligned
    <2>1. pool.list \in Seq(Entry) /\ mirror \in Seq(Votes) /\ Len(mirror) \in Nat
        BY DEF StewardInv, PoolOk, AllOk, StateOk
    <2>2. /\ Len(pool.list) = Len(mirror)
          /\ \A k \in 1 .. Len(mirror) : pool.list[k].vote = mirror[k]
        BY EqualLengths
    <2>3. DOMAIN pool.list = 1 .. Len(mirror) /\ mirror \in [1 .. Len(mirror) -> Votes]
        BY <2>1, <2>2
    <2>. QED  BY <2>2, <2>3
<1>. QED  BY <1>1, StewardInvariant, PTL

\* Scores, instant unstake bits and shares stay with the validator they are about,
\* whatever remove_validator moves.
THEOREM DataAlwaysFollows == Spec => []DataFollows
<1>1. StewardInv => DataFollows
    BY DEF StewardInv, AllOk, DataOk, DataFollows
<1>. QED  BY <1>1, StewardInvariant, PTL

\* No validator of the cycle is skipped: not when scores turn into delegations, not when
\* the checks for instant unstake turn into moves of stake.
THEOREM NobodySkipped == Spec => []NoneSkipped
<1>1. StewardInv => NoneSkipped
    BY DEF StewardInv, AllOk, SkipOk, NoneSkipped
<1>. QED  BY <1>1, StewardInvariant, PTL

\* No validator of the cycle is rebalanced twice in an epoch.
THEOREM OnlyRebalancedOnce == Spec => []RebalancedOnce
<1>1. StewardInv => RebalancedOnce
    BY DEF StewardInv, AllOk, OnceOk, RebalancedOnce
<1>. QED  BY <1>1, StewardInvariant, PTL

\* The shares that compute_delegations promises never add up to more than the pool, also
\* after rebalance gave one up and remove_validator took one out.
THEOREM SharesAlwaysFit == Spec => []SharesFit
<1>1. StewardInv => SharesFit
    BY DEF StewardInv, AllOk, SharesOk, Sharing, SharesFit
<1>. QED  BY <1>1, StewardInvariant, PTL

\* The loop of instant unstake and rebalance runs only in a cycle that is not over, on
\* its delegations and after the directed stake.
THEOREM AlwaysInCycle == Spec => []InCycle
<1>1. StewardInv => InCycle
    BY DEF StewardInv, AllOk, CycleOk, InCycle
<1>. QED  BY <1>1, StewardInvariant, PTL

-----------------------------------------------------------------------------
(* The ranking                                                              *)

\* The first len entries of the ranking are the indices in S, each once, best first.
Ranked(sorted, scores, len, S) ==
    /\ \A p \in 0 .. len - 1 : sorted[p] \in S
    /\ \A p, q \in 0 .. len - 1 :
           p < q => sorted[p] # sorted[q] /\ scores[sorted[p]] >= scores[sorted[q]]
    /\ \A i \in S : \E p \in 0 .. len - 1 : sorted[p] = i

\* While only validators of the cycle are scored, the ranking holds those scored so far,
\* and in the end all of them.
RankOk(st, s) ==
    ~s.late =>
        /\ st.state_tag = "ComputeScores" =>
               /\ st.progress \subseteq 0 .. st.num_pool_validators - 1
               /\ Ranked(st.sorted_score_indices, st.scores, Cardinality(st.progress), st.progress)
        /\ st.state_tag = "ComputeDelegations" =>
               Ranked(st.sorted_score_indices, st.scores, st.num_pool_validators,
                      0 .. st.num_pool_validators - 1)

\* PlaceFor finds the first place whose entry has a lower score.
LEMMA PlaceSplits ==
    ASSUME NEW st, NEW score \in Nat, NEW len \in Nat,
           \A p \in 0 .. len - 1 : /\ st.sorted_score_indices[p] \in Indices
                                   /\ st.scores[st.sorted_score_indices[p]] \in Nat
    PROVE  LET at == PlaceFor(st, score, len) IN
           /\ at \in 0 .. len
           /\ \A p \in 0 .. len - 1 : p < at => st.scores[st.sorted_score_indices[p]] >= score
           /\ at < len => st.scores[st.sorted_score_indices[at]] < score
<1> DEFINE stops == {j \in 0 .. len - 1 : \/ st.sorted_score_indices[j] \notin Indices
                                          \/ st.scores[st.sorted_score_indices[j]] < score}
           at == PlaceFor(st, score, len)
<1>1. at = IF stops = {} THEN len ELSE Min(stops)
    BY DEF PlaceFor
<1>2. stops \in SUBSET Nat /\ \A j \in 0 .. len - 1 :
          j \in stops <=> st.scores[st.sorted_score_indices[j]] < score
    OBVIOUS
<1>3. \A j \in stops : j \in 0 .. len - 1
    OBVIOUS
<1> HIDE DEF stops, at
<1>4. CASE stops = {}
    <2>1. at = len
        BY <1>1, <1>4
    <2>2. \A p \in 0 .. len - 1 : ~(st.scores[st.sorted_score_indices[p]] < score)
        BY <1>2, <1>4
    <2>3. \A p \in 0 .. len - 1 : st.scores[st.sorted_score_indices[p]] >= score
        BY <2>2
    <2>. QED  BY <2>1, <2>3 DEF at
<1>5. CASE stops # {}
    <2>1. at \in stops /\ \A j \in stops : at <= j
        BY <1>1, <1>2, <1>5, LeastIn
    <2>2. at \in 0 .. len - 1
        BY <1>3, <2>1
    <2>3. ASSUME NEW p \in 0 .. len - 1, p < at
          PROVE  st.scores[st.sorted_score_indices[p]] >= score
        <3>1. p \notin stops
            BY <2>1, <2>2, <2>3
        <3>2. ~(st.scores[st.sorted_score_indices[p]] < score)
            BY <1>2, <3>1
        <3>. QED  BY <3>2
    <2>4. st.scores[st.sorted_score_indices[at]] < score
        BY <1>2, <2>1, <2>2
    <2>. QED  BY <2>2, <2>3, <2>4 DEF at
<1>. QED  BY <1>4, <1>5

\* Insertion into a ranking gives a ranking.
LEMMA InsertRanked ==
    ASSUME NEW sorted \in [Indices -> 0 .. SORTED_INDEX_DEFAULT], NEW scores \in [Indices -> Nat],
           NEW S \in SUBSET Indices, NEW len \in Nat, len \in Indices,
           NEW index \in Indices \ S, NEW score \in Nat, NEW at \in 0 .. len,
           Ranked(sorted, scores, len, S),
           \A p \in 0 .. len - 1 : p < at => scores[sorted[p]] >= score,
           at < len => scores[sorted[at]] < score
    PROVE  Ranked(insert_sorted_index(sorted, index, at, len), [scores EXCEPT ![index] = score],
                  len + 1, S \cup {index})
<1> DEFINE new == insert_sorted_index(sorted, index, at, len)
           rated == [scores EXCEPT ![index] = score]
           old(p) == IF p < at THEN p ELSE p - 1
<1>1. \A p \in 0 .. len : p \in Indices
    BY StewardAssumption, DefaultIndex DEF Indices
<1>2. /\ new[at] = index
      /\ \A p \in 0 .. len : p # at => old(p) \in 0 .. len - 1 /\ new[p] = sorted[old(p)]
    BY <1>1 DEF insert_sorted_index
<1>3. /\ \A p \in 0 .. len - 1 : sorted[p] \in S
      /\ \A p, q \in 0 .. len - 1 :
             p < q => sorted[p] # sorted[q] /\ scores[sorted[p]] >= scores[sorted[q]]
      /\ \A i \in S : \E p \in 0 .. len - 1 : sorted[p] = i
    BY DEF Ranked
<1>4. /\ rated[index] = score
      /\ \A i \in S : i # index /\ rated[i] = scores[i] /\ scores[i] \in Nat
    OBVIOUS
<1>5. \A p, q \in 0 .. len : p # at /\ q # at /\ p < q => old(p) < old(q)
    OBVIOUS
<1> HIDE DEF new, rated, old
<1>6. ASSUME NEW p \in 0 .. len
      PROVE  new[p] \in S \cup {index}
    BY <1>2, <1>3
<1>7. ASSUME NEW p \in 0 .. len, NEW q \in 0 .. len, p < q
      PROVE  new[p] # new[q] /\ rated[new[p]] >= rated[new[q]]
    <2>1. CASE p = at
        <3>1. q # at /\ at < len /\ old(q) \in 0 .. len - 1 /\ at <= old(q) /\ at \in 0 .. len - 1
            BY <1>2, <1>7, <2>1 DEF old
        <3>2. new[q] = sorted[old(q)] /\ sorted[old(q)] \in S /\ sorted[at] \in S
            BY <1>2, <1>3, <3>1
        <3>3. scores[sorted[at]] >= scores[sorted[old(q)]]
            <4>1. CASE at = old(q)
                <5>1. scores[sorted[at]] \in Nat /\ scores[sorted[old(q)]] = scores[sorted[at]]
                    BY <1>4, <3>2, <4>1
                <5>. QED  BY <5>1
            <4>2. CASE at # old(q)
                BY <1>3, <3>1, <4>2
            <4>. QED  BY <4>1, <4>2
        <3>4. /\ scores[sorted[at]] < score /\ scores[sorted[at]] \in Nat
              /\ scores[sorted[old(q)]] \in Nat
            BY <1>4, <3>1, <3>2
        <3>5. score >= scores[sorted[old(q)]]
            BY <3>3, <3>4
        <3>. QED  BY <1>2, <1>4, <2>1, <3>2, <3>5
    <2>2. CASE q = at
        <3>1. p # at /\ p \in 0 .. len - 1 /\ old(p) = p /\ p < at
            BY <1>7, <2>2 DEF old
        <3>2. new[p] = sorted[p] /\ sorted[p] \in S
            BY <1>2, <1>3, <3>1
        <3>3. scores[sorted[p]] >= score
            BY <3>1
        <3>. QED  BY <1>2, <1>4, <2>2, <3>2, <3>3
    <2>3. CASE p # at /\ q # at
        <3>1. old(p) \in 0 .. len - 1 /\ old(q) \in 0 .. len - 1 /\ old(p) < old(q)
            BY <1>2, <1>5, <1>7, <2>3
        <3>2. /\ new[p] = sorted[old(p)] /\ new[q] = sorted[old(q)]
              /\ sorted[old(p)] \in S /\ sorted[old(q)] \in S
            BY <1>2, <1>3, <2>3, <3>1
        <3>3. /\ sorted[old(p)] # sorted[old(q)]
              /\ scores[sorted[old(p)]] >= scores[sorted[old(q)]]
            BY <1>3, <3>1
        <3>. QED  BY <1>4, <3>2, <3>3
    <2>. QED  BY <2>1, <2>2, <2>3
<1>8. ASSUME NEW i \in S \cup {index}
      PROVE  \E p \in 0 .. len : new[p] = i
    <2>1. CASE i = index
        BY <1>2, <2>1
    <2>2. CASE i \in S
        <3>1. PICK p \in 0 .. len - 1 : sorted[p] = i
            BY <1>3, <2>2
        <3> DEFINE q == IF p < at THEN p ELSE p + 1
        <3>2. q \in 0 .. len /\ q # at /\ old(q) = p
            BY DEF old
        <3> HIDE DEF q
        <3>3. new[q] = i
            BY <1>2, <3>1, <3>2
        <3>. QED  BY <3>2, <3>3
    <2>. QED  BY <2>1, <2>2
<1>9. (len + 1) - 1 = len
    OBVIOUS
<1>10. Ranked(new, rated, len + 1, S \cup {index})
    BY <1>6, <1>7, <1>8, <1>9 DEF Ranked
<1>. QED  BY <1>10 DEF new, rated

\* The index that an entry of a ranking gets when index is removed.
Lowered(index, i) == IF i > index THEN i - 1 ELSE i

\* No place before from holds index; from does, or it is not past the n that stay.
FirstPlace(sorted, index, n, from) ==
    /\ \A j \in Indices : j < from => sorted[j] # index
    /\ (from \in Indices /\ sorted[from] = index) \/ from <= n

\* What a renumbered ranking holds at a place: the entry that was there, or past from the
\* next one, lowered.
ClosedUp(new, sorted, index, n, from) ==
    \A j \in Indices : j < n =>
        /\ j < from => new[j] = Lowered(index, sorted[j])
        /\ from \in Indices /\ sorted[from] = index /\ j >= from
               => new[j] = Lowered(index, sorted[j + 1])

\* Renumber closes the gap that the removed index leaves in the ranking.
LEMMA RenumberEffect ==
    ASSUME NEW sorted \in [Indices -> 0 .. SORTED_INDEX_DEFAULT], NEW index \in Indices,
           NEW n \in Indices, NEW from \in Nat, FirstPlace(sorted, index, n, from)
    PROVE  ClosedUp(Renumber(sorted, index, n), sorted, index, n, from)
<1>0. /\ \A j \in Indices : j < from => sorted[j] # index
      /\ (from \in Indices /\ sorted[from] = index) \/ from <= n
    BY DEF FirstPlace
<1> DEFINE places == {j \in Indices : sorted[j] = index}
           start  == IF places = {} THEN n ELSE Min(places)
           moved(j) == IF j \in start .. n THEN sorted[j + 1] ELSE sorted[j]
           new == Renumber(sorted, index, n)
<1>1. /\ places \in SUBSET Nat /\ MAX_VALIDATORS \in Nat /\ n \in Nat
      /\ \A j \in Indices : j \in places <=> sorted[j] = index
    BY StewardAssumption, DefaultIndex DEF Indices
<1>2. \A j \in places : j \in Indices /\ j \in Nat
    BY DEF Indices
<1>3. \A j \in Indices : j < n => new[j] = Lowered(index, moved(j))
    BY DEF Renumber, Lowered, Indices
<1> HIDE DEF places, new
<1>4. start \in Nat /\ (places # {} => start \in places /\ \A j \in places : start <= j)
    BY <1>1, LeastIn
<1>5. \A j \in Indices : j < from /\ j < n => ~(j \in start .. n)
    <2> SUFFICES ASSUME NEW j \in Indices, j < from, j < n, j >= start
                 PROVE  FALSE
        BY <1>4 DEF Indices
    <2>1. j \in Nat
        BY DEF Indices
    <2>2. CASE places = {}
        BY <1>0, <1>1, <2>1, <2>2
    <2>3. CASE places # {}
        <3>1. start \in places /\ start \in Indices /\ start < from
            BY <1>2, <1>4, <2>1, <2>3
        <3>. QED  BY <1>0, <1>1, <3>1
    <2>. QED  BY <2>2, <2>3
<1>6. from \in Indices /\ sorted[from] = index => start = from
    <2> SUFFICES ASSUME from \in Indices, sorted[from] = index PROVE start = from
        OBVIOUS
    <2>1. from \in places
        BY <1>1
    <2>2. start \in places /\ start <= from /\ start \in Indices
        BY <1>2, <1>4, <2>1
    <2>3. ~(start < from)
        BY <1>0, <1>1, <2>2
    <2>. QED  BY <1>4, <2>2, <2>3
<1> HIDE DEF start
<1>7. ASSUME NEW j \in Indices, j < n
      PROVE  /\ j < from => new[j] = Lowered(index, sorted[j])
             /\ from \in Indices /\ sorted[from] = index /\ j >= from
                      => new[j] = Lowered(index, sorted[j + 1])
    <2>1. j < from => moved(j) = sorted[j]
        BY <1>5, <1>7
    <2>2. from \in Indices /\ sorted[from] = index /\ j >= from => moved(j) = sorted[j + 1]
        BY <1>1, <1>4, <1>6, <1>7 DEF Indices
    <2> HIDE DEF moved
    <2>. QED  BY <1>3, <1>7, <2>1, <2>2
<1>. QED  BY <1>7 DEF new, ClosedUp

\* Removal from a ranking gives a ranking: of the indices as they are after the removal.
LEMMA RenumberRanked ==
    ASSUME NEW sorted \in [Indices -> 0 .. SORTED_INDEX_DEFAULT], NEW scores \in [Indices -> Nat],
           NEW index \in Indices, NEW n \in Indices, NEW S \in SUBSET Indices, NEW len \in Nat,
           \/ index <= n /\ S \subseteq 0 .. n
           \/ index >= n /\ S \subseteq 0 .. n - 1,
           len <= IF index \in S THEN n + 1 ELSE n,
           Ranked(sorted, scores, len, S)
    PROVE  Ranked(Renumber(sorted, index, n), ShiftArray(scores, index, n),
                  IF index \in S THEN len - 1 ELSE len, ShiftBits(S, index, n))
<1> DEFINE new == Renumber(sorted, index, n)
           rated == ShiftArray(scores, index, n)
           size == IF index \in S THEN len - 1 ELSE len
           T == ShiftBits(S, index, n)
<1>1. /\ \A p \in 0 .. len - 1 : sorted[p] \in S
      /\ \A p, q \in 0 .. len - 1 :
             p < q => sorted[p] # sorted[q] /\ scores[sorted[p]] >= scores[sorted[q]]
      /\ \A i \in S : \E p \in 0 .. len - 1 : sorted[p] = i
    BY DEF Ranked
<1>2. MAX_VALIDATORS \in Nat /\ n \in Nat /\ index \in Nat /\ n < MAX_VALIDATORS
      /\ \A p \in 0 .. n : p \in Indices
    BY StewardAssumption, DefaultIndex DEF Indices
<1>3. \A i \in S \ {index} : /\ i \in Nat /\ Lowered(index, i) \in Indices \ {n}
                             /\ Shifted(index, n, Lowered(index, i)) = i
    BY <1>2 DEF Lowered, Shifted, Indices
<1>4. /\ T \in SUBSET Indices /\ n \notin T
      /\ \A i \in Indices \ {n} : i \in T <=> Shifted(index, n, i) \in S
    BY <1>2, ShiftBitsEffect
<1>5. \A i \in Indices \ {n} : rated[i] = scores[Shifted(index, n, i)]
    BY DEF ShiftArray, Shifted
<1>6. \A i \in S \ {index} : /\ Lowered(index, i) \in T
                             /\ rated[Lowered(index, i)] = scores[i]
    BY <1>3, <1>4, <1>5
<1>7. \A i \in T : /\ Shifted(index, n, i) \in S \ {index}
                   /\ Lowered(index, Shifted(index, n, i)) = i
    <2> SUFFICES ASSUME NEW i \in T
                 PROVE  /\ Shifted(index, n, i) \in S \ {index}
                        /\ Lowered(index, Shifted(index, n, i)) = i
        OBVIOUS
    <2>1. i \in Indices \ {n} /\ i \in Nat /\ Shifted(index, n, i) \in S
        BY <1>4 DEF Indices
    <2>2. Shifted(index, n, i) \in 0 .. n
        <3>1. S \subseteq 0 .. n
            BY <1>2
        <3>. QED  BY <2>1, <3>1
    <2>3. CASE i \in index .. n
        BY <1>2, <2>1, <2>3 DEF Shifted, Lowered
    <2>4. CASE i \notin index .. n
        <3>1. Shifted(index, n, i) = i /\ i < index
            BY <1>2, <2>1, <2>2, <2>4 DEF Shifted
        <3>. QED  BY <1>2, <2>1, <3>1 DEF Lowered
    <2>. QED  BY <2>3, <2>4
\* from: the place of index, or the end of the ranking
<1>8. \E from \in Nat :
          /\ from <= len
          /\ \A j \in 0 .. len - 1 : j < from => sorted[j] # index
          /\ \/ index \in S /\ from < len /\ sorted[from] = index
             \/ index \notin S /\ from = len
    <2>1. CASE index \in S
        <3>1. PICK p \in 0 .. len - 1 : sorted[p] = index
            BY <1>1, <2>1
        <3>2. \A j \in 0 .. len - 1 : j < p => sorted[j] # index
            BY <1>1, <3>1
        <3>. QED  BY <2>1, <3>1, <3>2
    <2>2. CASE index \notin S
        BY <1>1, <2>2
    <2>. QED  BY <2>1, <2>2
<1>9. PICK from \in Nat :
          /\ from <= len
          /\ \A j \in 0 .. len - 1 : j < from => sorted[j] # index
          /\ \/ index \in S /\ from < len /\ sorted[from] = index
             \/ index \notin S /\ from = len
    BY <1>8
<1> DEFINE old(p) == IF p < from THEN p ELSE p + 1
<1>10. size \in Int /\ size <= n /\ size <= len
    BY <1>2
<1>11. \A p \in 0 .. size - 1 : /\ p \in Indices /\ p < n /\ old(p) \in 0 .. len - 1
                                /\ old(p) # from /\ new[p] = Lowered(index, sorted[old(p)])
    <2>1. \A j \in Indices : j < n =>
               /\ j < from => new[j] = Lowered(index, sorted[j])
               /\ from \in Indices /\ sorted[from] = index /\ j >= from
                      => new[j] = Lowered(index, sorted[j + 1])
        <3>1. from \in Nat
            BY <1>9
        <3>2. FirstPlace(sorted, index, n, from)
            BY <1>2, <1>9 DEF FirstPlace, Indices
        <3>3. ClosedUp(new, sorted, index, n, from)
            BY <3>1, <3>2, RenumberEffect
        <3> HIDE DEF new
        <3>. QED  BY <3>3 DEF ClosedUp
    <2> SUFFICES ASSUME NEW p \in 0 .. size - 1
                 PROVE  /\ p \in Indices /\ p < n /\ old(p) \in 0 .. len - 1
                        /\ old(p) # from /\ new[p] = Lowered(index, sorted[old(p)])
        OBVIOUS
    <2>2. p \in Indices /\ p < n /\ p \in Nat /\ p < size
        BY <1>2, <1>10
    <2> HIDE DEF new
    <2>3. CASE p < from
        BY <1>9, <1>10, <2>1, <2>2, <2>3
    <2>4. CASE ~(p < from)
        <3>1. index \in S /\ sorted[from] = index /\ from < len /\ p < len - 1
            BY <1>9, <2>2, <2>4
        <3>2. from \in Indices /\ p >= from
            BY <1>2, <1>9, <2>2, <2>4, <3>1
        <3>3. new[p] = Lowered(index, sorted[p + 1])
            BY <2>1, <2>2, <3>1, <3>2
        <3>. QED  BY <1>9, <2>2, <2>4, <3>1, <3>3
    <2>. QED  BY <2>3, <2>4
<1>12. \A p \in 0 .. len - 1 : p # from => sorted[p] # index
    <2>1. CASE index \in S
        BY <1>1, <1>9, <2>1
    <2>2. CASE index \notin S
        BY <1>1, <2>2
    <2>. QED  BY <2>1, <2>2
<1>13. \A p \in 0 .. size - 1 : sorted[old(p)] \in S \ {index}
    BY <1>1, <1>11, <1>12
<1>14. \A p, q \in 0 .. size - 1 : p < q => old(p) < old(q)
    BY <1>9
<1>15. \A p \in 0 .. len - 1 : p # from => \E q \in 0 .. size - 1 : old(q) = p
    <2> SUFFICES ASSUME NEW p \in 0 .. len - 1, p # from
                 PROVE  \E q \in 0 .. size - 1 : old(q) = p
        OBVIOUS
    <2> DEFINE q == IF p < from THEN p ELSE p - 1
    <2>1. q \in 0 .. size - 1 /\ old(q) = p
        BY <1>9
    <2>. QED  BY <2>1
<1> HIDE DEF new, rated, size, T, old
<1>16. ASSUME NEW p \in 0 .. size - 1
       PROVE  new[p] \in T
    BY <1>6, <1>11, <1>13
<1>17. ASSUME NEW p \in 0 .. size - 1, NEW q \in 0 .. size - 1, p < q
       PROVE  new[p] # new[q] /\ rated[new[p]] >= rated[new[q]]
    <2> DEFINE x == sorted[old(p)]
               y == sorted[old(q)]
    <2>1. /\ x \in S \ {index} /\ y \in S \ {index} /\ x # y /\ scores[x] >= scores[y]
          /\ new[p] = Lowered(index, x) /\ new[q] = Lowered(index, y)
        BY <1>1, <1>11, <1>13, <1>14, <1>17
    <2> HIDE DEF x, y
    <2>2. new[p] # new[q]
        BY <1>3, <2>1
    <2>3. rated[new[p]] = scores[x] /\ rated[new[q]] = scores[y]
        BY <1>6, <2>1
    <2>. QED  BY <2>1, <2>2, <2>3
<1>18. ASSUME NEW i \in T
       PROVE  \E p \in 0 .. size - 1 : new[p] = i
    <2> DEFINE x == Shifted(index, n, i)
    <2>1. x \in S \ {index} /\ Lowered(index, x) = i
        BY <1>7
    <2> HIDE DEF x
    <2>2. PICK p \in 0 .. len - 1 : sorted[p] = x
        BY <1>1, <2>1
    <2>3. p # from
        BY <1>9, <2>1, <2>2
    <2>4. PICK q \in 0 .. size - 1 : old(q) = p
        BY <1>15, <2>3
    <2>. QED  BY <1>11, <2>1, <2>2, <2>4
<1>19. Ranked(new, rated, size, T)
    BY <1>16, <1>17, <1>18 DEF Ranked
<1>. QED  BY <1>19 DEF new, rated, size, T

\* Progress is as long as it was, less one if index was in it.
LEMMA ShiftedCount ==
    ASSUME NEW index \in Indices, NEW n \in Indices, NEW S \in SUBSET Indices,
           \/ index <= n /\ S \subseteq 0 .. n
           \/ index >= n /\ S \subseteq 0 .. n - 1
    PROVE  /\ IsFiniteSet(S) /\ Cardinality(S) \in Nat
           /\ Cardinality(S) <= IF index \in S THEN n + 1 ELSE n
           /\ Cardinality(ShiftBits(S, index, n)) =
                  IF index \in S THEN Cardinality(S) - 1 ELSE Cardinality(S)
<1> DEFINE T == ShiftBits(S, index, n)
           R == S \ {index}
<1>1. MAX_VALIDATORS \in Nat /\ n \in Nat /\ index \in Nat /\ S \subseteq 0 .. n
    BY StewardAssumption, DefaultIndex DEF Indices
<1>2. /\ IsFiniteSet(0 .. n) /\ Cardinality(0 .. n) = n + 1
    <2>1. /\ IsFiniteSet(0 .. n)
          /\ Cardinality(0 .. n) = IF 0 > n THEN 0 ELSE n - 0 + 1
        BY <1>1, FS_Interval
    <2>. QED  BY <1>1, <2>1
<1>3. IsFiniteSet(S) /\ Cardinality(S) <= n + 1 /\ Cardinality(S) \in Nat
    BY <1>1, <1>2, FS_Subset, FS_CardinalityType
<1>4. index \notin S => Cardinality(S) <= n
    <2>1. CASE index <= n
        <3>1. /\ IsFiniteSet((0 .. n) \ {index})
              /\ Cardinality((0 .. n) \ {index}) = Cardinality(0 .. n) - 1
            <4>1. index \in 0 .. n
                BY <1>1, <2>1
            <4>. QED  BY <1>2, <4>1, FS_RemoveElement
        <3>2. index \notin S => S \subseteq (0 .. n) \ {index}
            BY <1>1
        <3>3. index \notin S => Cardinality(S) <= Cardinality((0 .. n) \ {index})
            BY <3>1, <3>2, FS_Subset
        <3>. QED  BY <1>1, <1>2, <3>1, <3>3
    <2>2. CASE ~(index <= n)
        <3>1. S \subseteq (0 .. n) \ {n} /\ n \in 0 .. n
            BY <1>1, <2>2
        <3>2. /\ IsFiniteSet((0 .. n) \ {n})
              /\ Cardinality((0 .. n) \ {n}) = Cardinality(0 .. n) - 1
            BY <1>2, <3>1, FS_RemoveElement
        <3>3. Cardinality(S) <= Cardinality((0 .. n) \ {n})
            BY <3>1, <3>2, FS_Subset
        <3>. QED  BY <1>1, <1>2, <3>2, <3>3
    <2>. QED  BY <2>1, <2>2
<1>5. IsFiniteSet(R) /\ Cardinality(R) = IF index \in S THEN Cardinality(S) - 1 ELSE Cardinality(S)
    <2>1. CASE index \in S
        BY <1>3, <2>1, FS_RemoveElement
    <2>2. CASE index \notin S
        <3>1. R = S
            BY <2>2
        <3>. QED  BY <1>3, <2>2, <3>1
    <2>. QED  BY <2>1, <2>2
<1>6. Cardinality(T) = Cardinality(R)
    <2> DEFINE f == [i \in R |-> Lowered(index, i)]
    <2>1. \A i \in R : Lowered(index, i) \in T /\ Shifted(index, n, Lowered(index, i)) = i
        <3>1. \A i \in R : Lowered(index, i) \in Indices \ {n} /\ Shifted(index, n, Lowered(index, i)) = i
            BY <1>1 DEF Lowered, Shifted, Indices
        <3>2. \A i \in Indices \ {n} : i \in T <=> Shifted(index, n, i) \in S
            BY <1>1, ShiftBitsEffect
        <3>. QED  BY <3>1, <3>2
    <2>2. ASSUME NEW i \in T
          PROVE  Shifted(index, n, i) \in R /\ Lowered(index, Shifted(index, n, i)) = i
        <3>1. i \in Indices \ {n} /\ i \in Nat /\ Shifted(index, n, i) \in 0 .. n
              /\ Shifted(index, n, i) \in S
            <4>1. i \in Indices \ {n} /\ Shifted(index, n, i) \in S
                BY <1>1, ShiftBitsEffect
            <4>2. Shifted(index, n, i) \in 0 .. n
                BY <1>1, <4>1
            <4>3. i \in Nat
                BY <4>1 DEF Indices
            <4>. QED  BY <4>1, <4>2, <4>3
        <3>2. CASE i \in index .. n
            BY <1>1, <3>1, <3>2 DEF Shifted, Lowered
        <3>3. CASE i \notin index .. n
            <4>1. Shifted(index, n, i) = i /\ i < index
                BY <1>1, <3>1, <3>3 DEF Shifted
            <4>. QED  BY <1>1, <3>1, <4>1 DEF Lowered
        <3>. QED  BY <3>2, <3>3
    <2> HIDE DEF T, R
    <2>3. f \in [R -> T]
        BY <2>1
    <2>4. \A i, j \in R : f[i] = f[j] => i = j
        BY <2>1
    <2>5. \A i \in T : \E j \in R : f[j] = i
        BY <2>2
    <2>6. f \in Bijection(R, T)
        BY <2>3, <2>4, <2>5, SMT DEF Bijection, Injection, Surjection, IsInjective
    <2>7. ExistsBijection(R, T)
        BY <2>6 DEF ExistsBijection
    <2>. QED  BY <1>5, <2>7, FS_Bijection
<1>. QED  BY <1>3, <1>4, <1>5, <1>6 DEF T

\* A ranking is one in a state that has the same progress, scores and number of validators.
LEMMA SameRank ==
    ASSUME NEW st, NEW to, NEW s, RankOk(st, s),
           to.state_tag = st.state_tag, to.progress = st.progress, to.scores = st.scores,
           to.sorted_score_indices = st.sorted_score_indices,
           to.num_pool_validators = st.num_pool_validators
    PROVE  RankOk(to, s)
BY DEF RankOk

\* remove_validator keeps the ranking.
LEMMA RemovalRank ==
    ASSUME NEW st, NEW m, NEW s, StateOk(st, m, s), NEW index \in Indices, index < Total(st),
           RankOk(st, s)
    PROVE  RankOk(remove_validator(st, index), s)
<1> DEFINE to == remove_validator(st, index)
           n == to.num_pool_validators
           num == st.num_pool_validators
<1>1. Removed(st, to, index)
    BY RemovalEffect
<1>2. to.sorted_score_indices = Renumber(st.sorted_score_indices, index, n)
    BY DEF remove_validator, StateOk, State
<1> HIDE DEF to
<1>3. /\ n = IF index < num THEN num - 1 ELSE num
      /\ to.scores = ShiftArray(st.scores, index, n)
      /\ to.progress = ShiftBits(st.progress, index, n) /\ to.state_tag = st.state_tag
    BY <1>1 DEF Removed
<1>4. /\ st.scores \in [Indices -> Nat] /\ st.progress \in SUBSET Indices
      /\ st.sorted_score_indices \in [Indices -> 0 .. SORTED_INDEX_DEFAULT]
      /\ num \in Nat /\ index \in Nat /\ n \in Nat /\ n \in Indices
      /\ (0 .. num - 1) \in SUBSET Indices
    <2>1. /\ st.scores \in [Indices -> Nat] /\ st.progress \in SUBSET Indices
          /\ st.sorted_score_indices \in [Indices -> 0 .. SORTED_INDEX_DEFAULT]
          /\ num \in 0 .. MAX_VALIDATORS /\ st.validators_added \in 0 .. MAX_VALIDATORS
          /\ index < num + st.validators_added /\ num + st.validators_added <= MAX_VALIDATORS
        BY DEF StateOk, State, Total
    <2>2. MAX_VALIDATORS \in Nat /\ index \in Nat /\ index < MAX_VALIDATORS
        BY StewardAssumption, DefaultIndex DEF Indices
    <2> HIDE DEF n, num
    <2>3. num \in Nat /\ n \in Nat /\ n < MAX_VALIDATORS
        BY <1>3, <2>1, <2>2
    <2>. QED  BY <2>1, <2>2, <2>3 DEF Indices
<1> HIDE DEF n, num
<1>5. ASSUME NEW S \in SUBSET (0 .. num - 1)
      PROVE  /\ S \in SUBSET Indices
             /\ \/ index <= n /\ S \subseteq 0 .. n
                \/ index >= n /\ S \subseteq 0 .. n - 1
    <2>1. CASE index < num
        BY <1>3, <1>4, <2>1
    <2>2. CASE ~(index < num)
        BY <1>3, <1>4, <2>2
    <2>. QED  BY <2>1, <2>2
<1>6. ASSUME ~s.late, st.state_tag = "ComputeScores"
      PROVE  /\ to.progress \subseteq 0 .. n - 1
             /\ Ranked(to.sorted_score_indices, to.scores, Cardinality(to.progress), to.progress)
    <2> DEFINE S == st.progress
    <2>1. /\ S \in SUBSET (0 .. num - 1)
          /\ Ranked(st.sorted_score_indices, st.scores, Cardinality(S), S)
        BY <1>6 DEF RankOk, num
    <2>2. /\ S \in SUBSET Indices
          /\ \/ index <= n /\ S \subseteq 0 .. n
             \/ index >= n /\ S \subseteq 0 .. n - 1
        BY <1>5, <2>1
    <2>3. /\ IsFiniteSet(S) /\ Cardinality(S) \in Nat
          /\ Cardinality(S) <= IF index \in S THEN n + 1 ELSE n
          /\ Cardinality(to.progress) = IF index \in S THEN Cardinality(S) - 1 ELSE Cardinality(S)
        BY <1>3, <1>4, <2>2, ShiftedCount
    <2>4. Ranked(to.sorted_score_indices, to.scores, Cardinality(to.progress), to.progress)
        <3> HIDE DEF S
        <3> DEFINE len == Cardinality(S)
        <3>1. len \in Nat /\ len <= IF index \in S THEN n + 1 ELSE n
            BY <2>3
        <3>2. Ranked(st.sorted_score_indices, st.scores, len, S)
            BY <2>1
        <3>3. Cardinality(to.progress) = IF index \in S THEN len - 1 ELSE len
            BY <2>3
        <3>4. to.progress = ShiftBits(S, index, n)
            BY <1>3 DEF S
        <3> HIDE DEF len
        <3>5. Ranked(Renumber(st.sorted_score_indices, index, n), ShiftArray(st.scores, index, n),
                     IF index \in S THEN len - 1 ELSE len, ShiftBits(S, index, n))
            BY <1>4, <2>2, <3>1, <3>2, RenumberRanked
        <3>. QED  BY <1>2, <1>3, <3>3, <3>4, <3>5 DEF n
    <2>5. to.progress \subseteq 0 .. n - 1
        <3> SUFFICES ASSUME NEW i \in to.progress PROVE i \in 0 .. n - 1
            OBVIOUS
        <3>0. i \in ShiftBits(S, index, n)
            BY <1>3
        <3>1. i \in Indices \ {n} /\ Shifted(index, n, i) \in S
            BY <1>4, <3>0, ShiftBitsEffect
        <3>2. i \in Nat /\ i # n /\ Shifted(index, n, i) \in 0 .. num - 1
            BY <2>1, <3>1 DEF Indices
        <3>. QED  BY <1>3, <1>4, <3>2 DEF Shifted
    <2>. QED  BY <2>4, <2>5
<1>7. ASSUME ~s.late, st.state_tag = "ComputeDelegations"
      PROVE  Ranked(to.sorted_score_indices, to.scores, n, 0 .. n - 1)
    <2> DEFINE S == 0 .. num - 1
    <2>1. Ranked(st.sorted_score_indices, st.scores, num, S)
        BY <1>7 DEF RankOk, num
    <2>2. /\ S \in SUBSET Indices
          /\ \/ index <= n /\ S \subseteq 0 .. n
             \/ index >= n /\ S \subseteq 0 .. n - 1
        BY <1>5
    <2>3. /\ num <= IF index \in S THEN n + 1 ELSE n
          /\ n = IF index \in S THEN num - 1 ELSE num
        BY <1>3, <1>4
    <2>4. ShiftBits(S, index, n) = 0 .. n - 1
        <3>1. ASSUME NEW i \in ShiftBits(S, index, n) PROVE i \in 0 .. n - 1
            <4>1. i \in Indices \ {n} /\ Shifted(index, n, i) \in S
                <5> HIDE DEF S
                <5>. QED  BY <1>4, <3>1, ShiftBitsEffect
            <4>2. i \in Nat /\ i # n
                BY <4>1 DEF Indices
            <4>. QED  BY <1>3, <1>4, <4>1, <4>2 DEF Shifted
        <3>2. ASSUME NEW i \in 0 .. n - 1 PROVE i \in ShiftBits(S, index, n)
            <4>1. i \in Indices \ {n}
                <5>1. i \in Nat /\ i < n /\ i # n
                    BY <1>4, <3>2
                <5>2. MAX_VALIDATORS \in Nat /\ n <= MAX_VALIDATORS - 1
                    BY <1>4, StewardAssumption, DefaultIndex DEF Indices
                <5>. QED  BY <1>4, <5>1, <5>2 DEF Indices
            <4>2. Shifted(index, n, i) \in S
                BY <1>3, <1>4 DEF Shifted
            <4>. QED  BY <1>4, <4>1, <4>2, ShiftBitsEffect
        <3>. QED  BY <3>1, <3>2
    <2> HIDE DEF S
    <2>5. Ranked(Renumber(st.sorted_score_indices, index, n), ShiftArray(st.scores, index, n),
                 IF index \in S THEN num - 1 ELSE num, ShiftBits(S, index, n))
        BY <1>4, <2>1, <2>2, <2>3, RenumberRanked
    <2>. QED  BY <1>2, <1>3, <2>3, <2>4, <2>5 DEF n
<1>. QED  BY <1>3, <1>6, <1>7 DEF RankOk, to, n

\* A transition keeps the ranking: when all are scored it holds all.
LEMMA MovedRank ==
    ASSUME NEW st \in State, NEW to, NEW s, RankOk(st, s), Moved(st, to)
    PROVE  RankOk(to, s)
<1> SUFFICES ASSUME ~s.late PROVE RankOk(to, s)
    BY DEF RankOk
<1>1. SameFields(st, to)
    BY DEF Moved
<1>2. CASE to = st
    BY <1>2
<1>3. CASE Scored(st, to)
    <2> DEFINE num == st.num_pool_validators
    <2>1. /\ num \in Nat /\ st.progress = 0 .. num - 1
          /\ Ranked(st.sorted_score_indices, st.scores, Cardinality(st.progress), st.progress)
        <3>1. /\ 0 .. num - 1 \subseteq st.progress /\ st.progress \subseteq 0 .. num - 1
              /\ Ranked(st.sorted_score_indices, st.scores, Cardinality(st.progress), st.progress)
            BY <1>3 DEF Scored, is_complete, RankOk
        <3>2. num \in Nat
            BY StewardAssumption, DefaultIndex DEF State
        <3>. QED  BY <3>1, <3>2
    <2>2. Cardinality(st.progress) = num
        <3>1. Cardinality(0 .. num - 1) = IF 0 > num - 1 THEN 0 ELSE (num - 1) - 0 + 1
            <4>1. 0 \in Int /\ num - 1 \in Int
                BY <2>1
            <4>. QED  BY <4>1, FS_Interval
        <3>. QED  BY <2>1, <3>1
    <2>. QED  BY <1>1, <1>3, <2>1, <2>2 DEF Scored, RankOk, SameFields
<1>4. CASE Waited(st, to) /\ to.state_tag = "ComputeScores"
    <2>1. to.progress = {} /\ Cardinality({}) = 0
        BY <1>4, FS_EmptySet DEF Waited
    <2>. QED  BY <1>4, <2>1 DEF RankOk, Ranked
<1>5. CASE to.state_tag \notin {"ComputeScores", "ComputeDelegations"}
    BY <1>5 DEF RankOk
<1>. QED  BY <1>2, <1>3, <1>4, <1>5 DEF Moved, Delegated, Waited, Checked, Rebalanced, Directed

\* compute_score keeps the ranking.
LEMMA ScoreRank ==
    ASSUME StewardInv, RankOk(steward, seen), NEW index \in Indices, compute_score(index)
    PROVE  RankOk(steward', seen')
<1> DEFINE st    == IF Restarts THEN reset_state_for_new_cycle(steward) ELSE steward
           vote  == pool.list[index + 1].vote
           score == IF index \in Marked(st) THEN 0 ELSE Score[vote]
           stored == [st EXCEPT !.scores[index] = score]
           len   == Cardinality(st.progress)
           at    == PlaceFor(stored, score, len)
           to == [stored EXCEPT !.sorted_score_indices = insert_sorted_index(@, index, at, len),
                                !.progress = @ \cup {index}]
           late == \/ ~Restarts /\ seen.late
                   \/ index \notin st.progress /\ index >= st.num_pool_validators
           num == st.num_pool_validators
<1> SUFFICES ASSUME ~seen'.late PROVE RankOk(steward', seen')
    BY DEF RankOk
<1>1. /\ PoolOk /\ StateOk(steward, mirror, seen) /\ steward \in State /\ seen \in History
    BY DEF StewardInv, AllOk, StateOk
<1>2. /\ steward.state_tag = "ComputeScores" /\ OneToOne /\ index < Len(pool.list)
      /\ seen'.late = late
      /\ \/ index \in st.progress /\ steward' = maybe_transition(st)
         \/ index \notin st.progress /\ steward' = maybe_transition(to)
    <2>1. seen'.late = late
        BY <1>1 DEF compute_score, History
    <2>. QED  BY <2>1 DEF compute_score, state_checks
<1>3. /\ st \in State /\ st.state_tag = "ComputeScores"
      /\ st.progress \subseteq 0 .. num - 1
      /\ Ranked(st.sorted_score_indices, st.scores, len, st.progress)
      /\ index \notin st.progress => index < num
    <2>1. CASE Restarts
        <3>1. /\ st \in State /\ st.state_tag = "ComputeScores" /\ st.progress = {}
              /\ num = Len(mirror)
            BY <1>2, <2>1, ResetEffect DEF StateOk
        <3>2. Len(mirror) = Len(pool.list)
            BY <1>1, <1>2 DEF StateOk, OneToOne, Total
        <3>3. Cardinality({}) = 0
            BY FS_EmptySet
        <3>4. index < num
            BY <1>2, <3>1, <3>2
        <3>5. len = 0
            BY <3>1, <3>3
        <3> HIDE DEF st, len
        <3>6. \A sorted, scores : Ranked(sorted, scores, 0, {})
            <4>1. 0 .. 0 - 1 = {}
                OBVIOUS
            <4>. QED  BY <4>1 DEF Ranked
        <3>7. Ranked(st.sorted_score_indices, st.scores, len, st.progress)
            BY <3>1, <3>5, <3>6
        <3>. QED  BY <3>1, <3>4, <3>7
    <2>2. CASE ~Restarts
        <3>1. ~seen.late /\ ~(index \notin st.progress /\ index >= num)
            BY <1>2, <2>2
        <3>2. st = steward
            BY <2>2
        <3>3. num \in Nat /\ index \in Nat
            BY <1>1, <3>2, StewardAssumption, DefaultIndex DEF State, Indices
        <3>4. index \notin st.progress => index < num
            BY <3>1, <3>3
        <3>5. /\ steward.progress \subseteq 0 .. steward.num_pool_validators - 1
              /\ Ranked(steward.sorted_score_indices, steward.scores,
                        Cardinality(steward.progress), steward.progress)
            BY <1>2, <3>1 DEF RankOk
        <3> HIDE DEF st
        <3>. QED  BY <1>1, <1>2, <3>2, <3>4, <3>5
    <2>. QED  BY <2>1, <2>2
<1> HIDE DEF st, late
<1>4. CASE index \in st.progress
    <2>1. RankOk(st, seen')
        BY <1>3 DEF RankOk
    <2>2. steward' = maybe_transition(st)
        BY <1>2, <1>4
    <2>. QED  BY <1>1, <1>3, <2>1, <2>2, TransitionMoves, MovedRank
<1>5. CASE index \notin st.progress
    <2> DEFINE S == st.progress
               rated == [st.scores EXCEPT ![index] = score]
               sorted == insert_sorted_index(st.sorted_score_indices, index, at, len)
    <2>1. score \in Nat
        <3>1. vote \in Votes
            <4>1. pool.list \in Seq(Entry) /\ index + 1 \in 1 .. Len(pool.list)
                BY <1>1, <1>2 DEF PoolOk, Indices
            <4>2. pool.list[index + 1] \in Entry
                BY <4>1
            <4>. QED  BY <4>2 DEF Entry
        <3>. QED  BY <3>1, StewardAssumption
    <2> HIDE DEF score
    <2>2. /\ S \in SUBSET Indices /\ st.scores \in [Indices -> Nat] /\ num \in 0 .. MAX_VALIDATORS
          /\ st.sorted_score_indices \in [Indices -> 0 .. SORTED_INDEX_DEFAULT]
        BY <1>3 DEF State
    <2>3. IsFiniteSet(S) /\ len \in Nat /\ len \in Indices
        <3> DEFINE n == MAX_VALIDATORS - 1
        <3>1. n \in Indices /\ index <= n /\ S \subseteq 0 .. n
            BY <2>2, StewardAssumption, DefaultIndex DEF Indices
        <3>2. /\ IsFiniteSet(S) /\ Cardinality(S) \in Nat
              /\ Cardinality(S) <= IF index \in S THEN n + 1 ELSE n
            <4> HIDE DEF n, S
            <4>. QED  BY <2>2, <3>1, ShiftedCount
        <3>3. Cardinality(S) <= n
            BY <1>5, <3>2
        <3> HIDE DEF S
        <3>4. len = Cardinality(S)
            BY DEF S
        <3> HIDE DEF len
        <3>. QED  BY <3>2, <3>3, <3>4, StewardAssumption, DefaultIndex DEF Indices
    <2>4. /\ stored.sorted_score_indices = st.sorted_score_indices
          /\ stored.scores = rated
        BY <1>3 DEF State
    <2>5. /\ to.sorted_score_indices = sorted /\ to.progress = S \cup {index}
          /\ to.scores = rated /\ to.num_pool_validators = num /\ to.state_tag = "ComputeScores"
        BY <1>3 DEF State
    <2> HIDE DEF stored, len
    <2>6. \A p \in 0 .. len - 1 : /\ st.sorted_score_indices[p] \in S
                                  /\ rated[st.sorted_score_indices[p]]
                                         = st.scores[st.sorted_score_indices[p]]
                                  /\ st.scores[st.sorted_score_indices[p]] \in Nat
        <3>1. \A p \in 0 .. len - 1 : st.sorted_score_indices[p] \in S
            BY <1>3 DEF Ranked
        <3>2. \A i \in S : rated[i] = st.scores[i] /\ st.scores[i] \in Nat
            BY <1>5, <2>2
        <3>. QED  BY <3>1, <3>2
    <2>7. /\ at \in 0 .. len
          /\ \A p \in 0 .. len - 1 : p < at => st.scores[st.sorted_score_indices[p]] >= score
          /\ at < len => st.scores[st.sorted_score_indices[at]] < score
        <3>1. \A p \in 0 .. len - 1 : /\ stored.sorted_score_indices[p] \in Indices
                                      /\ stored.scores[stored.sorted_score_indices[p]] \in Nat
            BY <2>2, <2>4, <2>6
        <3>2. /\ at \in 0 .. len
              /\ \A p \in 0 .. len - 1 :
                     p < at => stored.scores[stored.sorted_score_indices[p]] >= score
              /\ at < len => stored.scores[stored.sorted_score_indices[at]] < score
            BY <2>1, <2>3, <3>1, PlaceSplits
        <3>3. at < len => at \in 0 .. len - 1
            BY <2>3, <3>2
        <3> HIDE DEF at
        <3>. QED  BY <2>4, <2>6, <3>2, <3>3
    <2> HIDE DEF at
    <2>8. Ranked(sorted, rated, len + 1, S \cup {index})
        BY <1>3, <1>5, <2>1, <2>2, <2>3, <2>7, InsertRanked
    <2>9. Cardinality(S \cup {index}) = len + 1
        BY <1>5, <2>3, FS_AddElement DEF len
    <2>10. S \cup {index} \subseteq 0 .. num - 1
        <3>1. index \in 0 .. num - 1
            BY <1>3, <1>5, <2>2 DEF Indices
        <3>. QED  BY <1>3, <3>1
    <2>11. RankOk(to, seen')
        BY <2>5, <2>8, <2>9, <2>10 DEF RankOk
    <2>12. to \in State
        <3>1. rated \in [Indices -> Nat] /\ S \cup {index} \in SUBSET Indices
            BY <2>1, <2>2
        <3>2. at \in Nat
            BY <2>3, <2>7
        <3>3. sorted \in [Indices -> 0 .. SORTED_INDEX_DEFAULT]
            BY <2>2, <2>3, <3>2, InsertType
        <3>4. to = [st EXCEPT !.scores = rated, !.sorted_score_indices = sorted,
                              !.progress = S \cup {index}]
            BY <1>3 DEF State, stored
        <3> HIDE DEF rated, sorted, S, to
        <3>. QED  BY <1>3, <3>1, <3>3, <3>4 DEF State
    <2>13. steward' = maybe_transition(to)
        BY <1>2, <1>5
    <2> HIDE DEF to
    <2>. QED  BY <1>1, <2>11, <2>12, <2>13, TransitionMoves, MovedRank
<1>. QED  BY <1>4, <1>5

\* The ranking does not depend on the history but for late.
LEMMA SameLate ==
    ASSUME NEW st, NEW s, NEW s2, s2.late = s.late, RankOk(st, s)
    PROVE  RankOk(st, s2)
BY DEF RankOk

\* An account that is not scoring and not about to share has nothing to keep.
LEMMA NoRank ==
    ASSUME NEW st, NEW s, st.state_tag \notin {"ComputeScores", "ComputeDelegations"}
    PROVE  RankOk(st, s)
BY DEF RankOk

\* maybe_transition keeps the ranking.
LEMMA TransitionRank ==
    ASSUME PoolOk, NEW st \in State, NEW s, RankOk(st, s)
    PROVE  RankOk(maybe_transition(st), s)
BY TransitionMoves, MovedRank

\* The cranks keep the ranking.
LEMMA CrankRank ==
    ASSUME StewardInv, RankOk(steward, seen), Scoring \/ Rebalancing \/ idle
    PROVE  RankOk(steward', seen')
<1>1. PoolOk /\ steward \in State /\ seen \in History
    BY DEF StewardInv, AllOk, StateOk
<1>2. ASSUME compute_score_early \/ idle \/ transition_unchecked
      PROVE  RankOk(steward', seen')
    <2>1. steward' = maybe_transition(steward) /\ seen' = seen
        BY <1>2 DEF compute_score_early, idle, transition_unchecked
    <2>. QED  BY <1>1, <2>1, TransitionRank
<1>3. ASSUME compute_delegations
      PROVE  RankOk(steward', seen')
    <2> DEFINE shares == [i \in Indices |-> IF i \in select_validators_to_delegate
                                            THEN Cardinality(select_validators_to_delegate)
                                            ELSE steward.delegations[i]]
               flags == steward.flags \cup {"COMPUTE_DELEGATIONS"}
               st == [steward EXCEPT !.delegations = shares, !.flags = flags]
    <2>1. steward.state_tag = "ComputeDelegations" /\ seen' = seen /\ steward' = maybe_transition(st)
        BY <1>1, <1>3 DEF compute_delegations, state_checks, State
    <2> HIDE DEF shares
    <2>2. st.state_tag = "ComputeDelegations" /\ st.flags = flags
        BY <1>1, <2>1 DEF State
    <2> HIDE DEF st
    <2>3. steward' = [st EXCEPT !.state_tag = "Idle"]
        BY <2>1, <2>2 DEF maybe_transition, transition_compute_delegations
    <2>4. steward'.state_tag = "Idle"
        BY <1>1, <2>3 DEF st, State
    <2>. QED  BY <2>4, NoRank
<1>4. ASSUME NEW index \in Indices, compute_instant_unstake(index)
      PROVE  RankOk(steward', seen')
    <2>1. PICK unstake \in SUBSET Indices :
              steward' = maybe_transition([steward EXCEPT !.instant_unstake = unstake,
                                                          !.progress = @ \cup {index}])
        <3> DEFINE vote == pool.list[index + 1].vote
                   bits == IF index \in Marked(steward) THEN steward.instant_unstake
                           ELSE IF vote \in Delinquent THEN steward.instant_unstake \cup {index}
                           ELSE steward.instant_unstake \ {index}
        <3>1. bits \in SUBSET Indices
            BY <1>1 DEF State
        <3>2. steward' = maybe_transition([steward EXCEPT !.instant_unstake = bits,
                                                          !.progress = @ \cup {index}])
            BY <1>1, <1>4 DEF compute_instant_unstake, State
        <3>. QED  BY <3>1, <3>2
    <2> DEFINE st == [steward EXCEPT !.instant_unstake = unstake, !.progress = @ \cup {index}]
    <2>2. steward.state_tag = "ComputeInstantUnstake"
        BY <1>4 DEF compute_instant_unstake, state_checks
    <2>3. st \in State /\ st.state_tag = "ComputeInstantUnstake"
        BY <1>1, <2>2 DEF State
    <2>4. steward' = maybe_transition(st)
        BY <2>1
    <2> HIDE DEF st
    <2>. QED  BY <1>1, <2>3, <2>4, NoRank, TransitionRank
<1>5. ASSUME NEW index \in Indices, NEW outcome, rebalance(index, outcome)
      PROVE  RankOk(steward', seen')
    <2>1. steward.state_tag = "Rebalance"
        BY <1>5 DEF rebalance, state_checks
    <2> DEFINE done == [steward EXCEPT !.progress = @ \cup {index}]
               given == [done EXCEPT !.delegations = GiveUp(steward, index)]
    <2>2. /\ done \in State /\ done.state_tag = "Rebalance"
          /\ given.state_tag = "Rebalance" /\ given \in State
        <3>1. done \in State /\ done.state_tag = "Rebalance"
            BY <1>1, <2>1 DEF State
        <3>2. GiveUp(steward, index) \in [Indices -> 0 .. MAX_VALIDATORS]
            BY <1>1, StewardAssumption, DefaultIndex DEF State, GiveUp
        <3> HIDE DEF done
        <3>. QED  BY <3>1, <3>2 DEF State
    <2>3. steward' \in {done, maybe_transition(done), maybe_transition(given)}
        BY <1>5 DEF rebalance, RebalanceStake
    <2> HIDE DEF done, given
    <2>4. RankOk(done, seen') /\ RankOk(given, seen')
        BY <2>2, NoRank
    <2>. QED  BY <1>1, <2>2, <2>3, <2>4, TransitionRank
<1>6. ASSUME NEW target, rebalance_directed(target) \/ rebalance_directed_absent(target)
      PROVE  RankOk(steward', seen')
    <2>1. PICK done : steward' = maybe_transition(AllTargets(steward, done))
        BY <1>6 DEF rebalance_directed, rebalance_directed_absent
    <2>2. seen' = seen
        BY <1>6 DEF rebalance_directed, rebalance_directed_absent
    <2> DEFINE st == AllTargets(steward, done)
    <2>3. /\ st \in State /\ st.state_tag = steward.state_tag /\ st.progress = steward.progress
          /\ st.scores = steward.scores /\ st.num_pool_validators = steward.num_pool_validators
          /\ st.sorted_score_indices = steward.sorted_score_indices
        <3>1. CASE done = Targets
            BY <1>1, <3>1 DEF AllTargets, State, Flags
        <3>2. CASE done # Targets
            BY <1>1, <3>2 DEF AllTargets
        <3>. QED  BY <3>1, <3>2
    <2>4. steward' = maybe_transition(st)
        BY <2>1
    <2> HIDE DEF st
    <2>5. RankOk(st, seen)
        BY <2>3, SameRank
    <2>. QED  BY <1>1, <2>2, <2>3, <2>4, <2>5, TransitionRank
<1>. QED  BY <1>2, <1>3, <1>4, <1>5, <1>6, ScoreRank DEF Scoring, Rebalancing

\* Epoch maintenance ends the scoring that was under way, or leaves it as it is.
LEMMA MaintenanceRank ==
    ASSUME NEW st \in State, RankOk(st, seen), epoch_maintenance(st)
    PROVE  RankOk(steward', seen')
<1>1. seen' = seen
    BY DEF epoch_maintenance
<1>2. CASE Marked(st) = {}
    <2>1. steward'.state_tag = "RebalanceDirected"
        BY <1>2 DEF epoch_maintenance, State
    <2>. QED  BY <2>1, NoRank
<1>3. CASE Marked(st) # {}
    <2>1. steward' = [st EXCEPT !.flags = @ \ {"EPOCH_MAINTENANCE"}]
        BY <1>3 DEF epoch_maintenance
    <2>2. /\ steward'.state_tag = st.state_tag /\ steward'.progress = st.progress
          /\ steward'.scores = st.scores
          /\ steward'.num_pool_validators = st.num_pool_validators
          /\ steward'.sorted_score_indices = st.sorted_score_indices
        BY <2>1 DEF State
    <2>3. RankOk(steward', seen)
        BY <2>2, SameRank
    <2>. QED  BY <1>1, <2>3
<1>. QED  BY <1>2, <1>3

\* Every step keeps the ranking.
LEMMA RankStep ==
    ASSUME StewardInv, RankOk(steward, seen), [Next]_vars
    PROVE  RankOk(steward', seen')
<1>1. steward \in State /\ seen \in History /\ StateOk(steward, mirror, seen)
    BY DEF StewardInv, AllOk, StateOk
<1>2. CASE UNCHANGED vars \/ PoolStep
    BY <1>2 DEF vars, PoolStep, update_stake_pool, cleanup_removed_validator_entries
<1>3. CASE Membership
    <2>1. /\ steward'.state_tag = steward.state_tag /\ steward'.progress = steward.progress
          /\ steward'.scores = steward.scores
          /\ steward'.num_pool_validators = steward.num_pool_validators
          /\ steward'.sorted_score_indices = steward.sorted_score_indices
          /\ seen' = seen
        BY <1>1, <1>3
           DEF Membership, auto_add_validator_to_pool, auto_remove_validator_from_pool,
               VoteAccountCloses, State
    <2>. QED  BY <2>1, SameRank
<1>4. CASE Tick
    <2>1. PICK late \in BOOLEAN : steward' = [steward EXCEPT !.range_exceeded = @ \/ late]
        BY <1>4 DEF Tick
    <2>2. /\ steward'.state_tag = steward.state_tag /\ steward'.progress = steward.progress
          /\ steward'.scores = steward.scores
          /\ steward'.num_pool_validators = steward.num_pool_validators
          /\ steward'.sorted_score_indices = steward.sorted_score_indices
        BY <1>1, <2>1 DEF State
    <2>3. seen'.late = seen.late
        BY <1>1, <1>4 DEF Tick, History
    <2>. QED  BY <2>2, <2>3, SameRank, SameLate
<1>5. ASSUME NEW index \in Indices, Removable(index)
      PROVE  /\ remove_validator(steward, index) \in State
             /\ RankOk(remove_validator(steward, index), seen)
    <2>1. index < Total(steward)
        BY <1>5 DEF Removable, Total
    <2>2. Removed(steward, remove_validator(steward, index), index)
        BY <1>1, <2>1, RemovalEffect
    <2>. QED  BY <1>1, <2>1, <2>2, RemovalRank DEF Removed
<1>6. CASE Maintenance
    <2>1. ASSUME epoch_maintenance_only PROVE RankOk(steward', seen')
        BY <1>1, <2>1, MaintenanceRank DEF epoch_maintenance_only
    <2>2. ASSUME NEW index \in Indices, epoch_maintenance_remove(index)
          PROVE  RankOk(steward', seen')
        BY <1>5, <2>2, MaintenanceRank DEF epoch_maintenance_remove
    <2>3. ASSUME NEW index \in Indices, instant_remove_validator(index)
          PROVE  RankOk(steward', seen')
        BY <1>5, <2>3 DEF instant_remove_validator
    <2>. QED  BY <1>6, <2>1, <2>2, <2>3 DEF Maintenance
<1>7. CASE Scoring \/ Rebalancing \/ idle
    BY <1>7, CrankRank
<1>. QED  BY <1>2, <1>3, <1>4, <1>6, <1>7 DEF Next, Crank

\* Nothing is ranked at the start.
LEMMA InitRank == Init => RankOk(steward, seen)
BY NoRank DEF Init

\* The step that ends ComputeDelegations with shares is compute_delegations.
LEMMA OnlyDelegations ==
    ASSUME StewardInv, [Next]_vars, steward.state_tag = "ComputeDelegations",
           steward'.state_tag = "Idle", ~compute_delegations
    PROVE  steward'.delegations = Zeros
<1>1. /\ PoolOk /\ steward \in State /\ steward.delegations = Zeros
      /\ StateOk(steward, mirror, seen)
    BY DEF StewardInv, AllOk, StateOk, SharesOk
<1>2. ASSUME NEW st \in State, st.state_tag = "ComputeDelegations", st.delegations = Zeros,
             steward' = maybe_transition(st)
      PROVE  steward'.delegations = Zeros
    <2>1. Delegated(st, steward')
        BY <1>1, <1>2, TransitionMoves DEF Moved, Scored, Waited, Checked, Rebalanced, Directed
    <2>. QED  BY <1>2, <2>1 DEF Delegated
<1>3. ASSUME UNCHANGED vars \/ PoolStep \/ Membership \/ Tick
      PROVE  FALSE
    <2>1. steward'.state_tag = steward.state_tag
        <3>1. CASE UNCHANGED vars \/ PoolStep
            BY <3>1 DEF vars, PoolStep, update_stake_pool, cleanup_removed_validator_entries
        <3>2. CASE Membership
            BY <1>1, <3>2
               DEF Membership, auto_add_validator_to_pool, auto_remove_validator_from_pool,
                   VoteAccountCloses, State
        <3>3. CASE Tick
            <4>1. PICK late \in BOOLEAN : steward' = [steward EXCEPT !.range_exceeded = @ \/ late]
                BY <3>3 DEF Tick
            <4>. QED  BY <1>1, <4>1 DEF State
        <3>. QED  BY <1>3, <3>1, <3>2, <3>3
    <2>. QED  BY <2>1
<1>4. ASSUME NEW st \in State, st.state_tag = "ComputeDelegations", epoch_maintenance(st)
      PROVE  FALSE
    <2>1. steward'.state_tag \in {"RebalanceDirected", "ComputeDelegations"}
        BY <1>4 DEF epoch_maintenance, State
    <2>. QED  BY <2>1
<1>5. ASSUME Maintenance
      PROVE  FALSE
    <2>1. ASSUME NEW index \in Indices, Removable(index)
          PROVE  /\ remove_validator(steward, index) \in State
                 /\ remove_validator(steward, index).state_tag = "ComputeDelegations"
        <3>1. index < Total(steward)
            BY <2>1 DEF Removable, Total
        <3>2. Removed(steward, remove_validator(steward, index), index)
            BY <1>1, <3>1, RemovalEffect
        <3>. QED  BY <3>2 DEF Removed
    <2>2. ASSUME epoch_maintenance_only PROVE FALSE
        BY <1>1, <1>4, <2>2 DEF epoch_maintenance_only
    <2>3. ASSUME NEW index \in Indices, epoch_maintenance_remove(index) PROVE FALSE
        BY <1>4, <2>1, <2>3 DEF epoch_maintenance_remove
    <2>4. ASSUME NEW index \in Indices, instant_remove_validator(index) PROVE FALSE
        BY <2>1, <2>4 DEF instant_remove_validator
    <2>. QED  BY <1>5, <2>2, <2>3, <2>4 DEF Maintenance
<1>6. ASSUME compute_score_early \/ transition_unchecked
      PROVE  steward'.delegations = Zeros
    BY <1>1, <1>2, <1>6 DEF compute_score_early, transition_unchecked
<1>7. ASSUME NEW target, rebalance_directed_absent(target)
      PROVE  steward'.delegations = Zeros
    <2> DEFINE st == AllTargets(steward, rebalanced \cup {target})
    <2>1. st \in State /\ st.state_tag = "ComputeDelegations" /\ st.delegations = Zeros
        BY <1>1 DEF AllTargets, State, Flags
    <2>2. steward' = maybe_transition(st)
        BY <1>7 DEF rebalance_directed_absent
    <2> HIDE DEF st
    <2>. QED  BY <1>2, <2>1, <2>2
<1>8. /\ ~idle /\ \A index \in Indices : ~compute_score(index) /\ ~compute_instant_unstake(index)
      /\ \A index \in Indices : \A outcome : ~rebalance(index, outcome)
      /\ \A target : ~rebalance_directed(target)
    BY DEF idle, compute_score, compute_instant_unstake, rebalance, rebalance_directed, state_checks
<1>. QED  BY <1>3, <1>5, <1>6, <1>7, <1>8 DEF Next, Crank, Scoring, Rebalancing

\* What compute_delegations promises: equal shares for the selected, none for the others.
LEMMA DelegationShares ==
    ASSUME StewardInv, compute_delegations
    PROVE  \A i \in Indices : steward'.delegations[i] =
               IF i \in select_validators_to_delegate
               THEN Cardinality(select_validators_to_delegate) ELSE 0
<1> DEFINE chosen == select_validators_to_delegate
           shares == [i \in Indices |-> IF i \in chosen THEN Cardinality(chosen)
                                        ELSE steward.delegations[i]]
           flags == steward.flags \cup {"COMPUTE_DELEGATIONS"}
           st == [steward EXCEPT !.delegations = shares, !.flags = flags]
<1>1. steward.state_tag = "ComputeDelegations" /\ steward \in State
    BY DEF compute_delegations, state_checks, StewardInv, AllOk, StateOk
<1>2. steward.delegations = Zeros
    BY <1>1 DEF StewardInv, AllOk, SharesOk
<1>3. steward' = maybe_transition(st)
    BY <1>1 DEF compute_delegations, State
<1> HIDE DEF chosen
<1>4. \A i \in Indices : shares[i] = IF i \in chosen THEN Cardinality(chosen) ELSE 0
    BY <1>2 DEF Zeros
<1> HIDE DEF shares
<1>5. st.state_tag = "ComputeDelegations" /\ st.flags = flags /\ st.delegations = shares
    BY <1>1 DEF State
<1>6. steward' = [st EXCEPT !.state_tag = "Idle"]
    BY <1>3, <1>5 DEF maybe_transition, transition_compute_delegations
<1>7. steward'.delegations = shares
    BY <1>1, <1>5, <1>6 DEF State
<1>. QED  BY <1>4, <1>7 DEF chosen

\* From a ranking of all validators, the selected are the best.
LEMMA BestSelected ==
    ASSUME StewardInv, RankOk(steward, seen), ~seen.late, compute_delegations,
           NEW i \in 0 .. steward.num_pool_validators - 1,
           NEW j \in 0 .. steward.num_pool_validators - 1,
           steward'.delegations[i] > 0, steward'.delegations[j] = 0
    PROVE  steward.scores[i] >= steward.scores[j]
<1> DEFINE n == steward.num_pool_validators
           sorted == steward.sorted_score_indices
           chosen == select_validators_to_delegate
<1>1. /\ StateOk(steward, mirror, seen) /\ SelectOk
      /\ steward.state_tag = "ComputeDelegations" /\ n \in Nat
    BY StewardAssumption, DefaultIndex
       DEF StewardInv, AllOk, compute_delegations, state_checks, StateOk, State
<1>2. /\ \A i1 \in 0 .. n - 1 : \E p \in 0 .. n - 1 : sorted[p] = i1
      /\ \A p, q \in 0 .. n - 1 : p < q => steward.scores[sorted[p]] >= steward.scores[sorted[q]]
    BY <1>1 DEF RankOk, Ranked
<1>3. i \in Indices /\ j \in Indices
    BY <1>1, IndexOfValidator
<1>4. i \in chosen /\ j \notin chosen
    BY <1>3, DelegationShares
<1>5. PICK k \in Nat : k <= n /\ chosen = {sorted[p] : p \in 0 .. k - 1}
    BY <1>1, SelectedPrefix
<1>6. PICK p \in 0 .. k - 1 : sorted[p] = i
    BY <1>4, <1>5
<1>7. PICK q \in 0 .. n - 1 : sorted[q] = j
    BY <1>2
<1> HIDE DEF chosen
<1>8. ~(q \in 0 .. k - 1)
    BY <1>4, <1>5, <1>7
<1>9. p \in 0 .. n - 1 /\ p < q
    BY <1>1, <1>5, <1>8
<1>. QED  BY <1>2, <1>6, <1>7, <1>9

\* compute_delegations gives its shares to the best scores, for any number of validators and
\* shares, in whichever order validators were scored and whoever was removed meanwhile, in a
\* cycle in which nobody was scored who had joined after it began.
THEOREM BestAlwaysChosen == Spec => BestChosen
<1> DEFINE RankInv == StewardInv /\ RankOk(steward, seen)
<1>1. Init => RankInv
    BY InitInv, InitRank
<1>2. RankInv /\ [Next]_vars => RankInv'
    BY StepInv, RankStep
<1>3. RankInv /\ [Next]_vars => [~seen.late => ChoosesBest]_vars
    <2> SUFFICES ASSUME RankInv, [Next]_vars, ~seen.late,
                        steward.state_tag = "ComputeDelegations", steward'.state_tag = "Idle",
                        NEW i \in 0 .. steward.num_pool_validators - 1,
                        NEW j \in 0 .. steward.num_pool_validators - 1,
                        steward'.delegations[i] > 0, steward'.delegations[j] = 0
                 PROVE  steward.scores[i] >= steward.scores[j]
        BY DEF ChoosesBest
    <2>1. CASE compute_delegations
        BY <2>1, BestSelected
    <2>2. CASE ~compute_delegations
        <3>1. steward'.delegations = Zeros
            BY <2>2, OnlyDelegations
        <3>2. i \in Indices
            BY IndexOfValidator DEF StewardInv, AllOk
        <3>3. steward'.delegations[i] = 0
            BY <3>1, <3>2 DEF Zeros
        <3>. QED  BY <3>3
    <2>. QED  BY <2>1, <2>2
<1> HIDE DEF RankInv
<1>. QED  BY <1>1, <1>2, <1>3, PTL DEF Spec, BestChosen
=============================================================================
