------------------------------- MODULE Steward -------------------------------
(* The steward of a stake pool (programs/steward): a state machine that, once   *)
(* per epoch, cleans up after removed validators, moves the directed stake,     *)
(* scores the validators when a cycle begins, shares the stake among the best,  *)
(* marks those to be unstaked at once and moves the stake.  Anybody may crank   *)
(* it, one validator per instruction and in any order, while validators are     *)
(* added to and removed from the pool.  Its arrays are indexed like the pool's  *)
(* validator list, of which it must know every change.                          *)
(*                                                                              *)
(* A bit mask is the set of indices whose bit is set; a delegation 1/d is d and *)
(* 0/1 is 0.  The lamports, which only decide how much is moved, and the raw    *)
(* scores, which are kept like the scores, are left out.                        *)
EXTENDS Naturals, FiniteSets, Sequences, SequencesExt

CONSTANTS
    Votes,                          \* vote accounts
    Initial,                        \* validator list at the start
    Candidates,                     \* validators that may be added
    Failing,                        \* validators whose stake or vote account may cease
    Delinquent,                     \* validators that are to be unstaked at once
    Targets,                        \* targets of directed stake
    Score,                          \* what validator_score computes
    num_delegation_validators,
    num_epochs_between_scoring,
    MAX_VALIDATORS,
    MaxEpoch                        \* bound on the clock

SORTED_INDEX_DEFAULT == 65535

ASSUME StewardAssumption ==
    /\ Initial \in Seq(Votes) /\ IsInjective(Initial) /\ Len(Initial) <= MAX_VALIDATORS
    /\ Candidates \subseteq Votes /\ Failing \subseteq Votes
    /\ Delinquent \subseteq Votes /\ Targets \subseteq Votes
    /\ Score \in [Votes -> Nat]
    /\ num_delegation_validators \in Nat \ {0}
    /\ num_epochs_between_scoring \in Nat \ {0}
    /\ MAX_VALIDATORS \in 0 .. SORTED_INDEX_DEFAULT
    /\ MaxEpoch \in Nat \ {0}

VARIABLES
    steward,      \* the state account
    pool,         \* the stake pool: validator list and epoch of its last update
    clock,        \* epoch, and part of the epoch: 1 from compute_score_epoch_progress,
                  \* 2 from instant_unstake_epoch_progress
    rebalanced,   \* directed targets whose staked_last_updated_epoch is the epoch
    failed,       \* validators whose vote account was closed, or whose stake was found
                  \* deactivated
    mirror,       \* history: the validators that the steward's indices stand for
    seen          \* history: who was scored since scoring began and whether one of
                  \* them had joined late, and, this epoch, who was checked for
                  \* instant unstake and how often each was rebalanced

vars == <<steward, pool, clock, rebalanced, failed, mirror, seen>>

Indices == 0 .. MAX_VALIDATORS - 1

Tags == {"ComputeScores", "ComputeDelegations", "Idle", "ComputeInstantUnstake",
         "Rebalance", "RebalanceDirected"}

Flags == {"COMPUTE_SCORE", "COMPUTE_DELEGATIONS", "EPOCH_MAINTENANCE", "PRE_LOOP_IDLE",
          "COMPUTE_INSTANT_UNSTAKES", "REBALANCE", "POST_LOOP_IDLE",
          "REBALANCE_DIRECTED_COMPLETE"}

epoch == clock.epoch

Zeros == [i \in Indices |-> 0]

Marked(st) == st.validators_to_remove \cup st.validators_for_immediate_removal

Init ==
    /\ clock = [epoch |-> 1, part |-> 0]
    /\ pool = [list |-> [k \in DOMAIN Initial |->
                            [vote |-> Initial[k], status |-> "Active", until |-> 0]],
               last_update_epoch |-> 1]
    /\ steward = [state_tag |-> "RebalanceDirected",
                  num_pool_validators |-> Len(Initial),
                  validators_added |-> 0,
                  scores |-> Zeros,
                  sorted_score_indices |-> [i \in Indices |-> SORTED_INDEX_DEFAULT],
                  delegations |-> Zeros,
                  instant_unstake |-> {},
                  progress |-> {},
                  validators_to_remove |-> {},
                  validators_for_immediate_removal |-> {},
                  current_epoch |-> 1,
                  next_cycle_epoch |-> 1 + num_epochs_between_scoring,
                  range_exceeded |-> FALSE,
                  flags |-> {}]
    /\ rebalanced = {}
    /\ failed = {}
    /\ mirror = Initial
    /\ seen = [ranked |-> {}, late |-> FALSE, checked |-> {}, visits |-> [v \in Votes |-> 0]]

-----------------------------------------------------------------------------
(* Transitions of the state machine.                                          *)

is_complete(st) == 0 .. st.num_pool_validators - 1 \subseteq st.progress

transition_compute_scores(st) ==
    IF is_complete(st)
    THEN [st EXCEPT !.state_tag = "ComputeDelegations", !.progress = {},
                    !.delegations = Zeros, !.flags = @ \cup {"COMPUTE_SCORE"}]
    ELSE st

transition_compute_delegations(st) ==
    IF "COMPUTE_DELEGATIONS" \in st.flags THEN [st EXCEPT !.state_tag = "Idle"] ELSE st

\* Variant: a new cycle does not clear the flags of the last one.
transition_idle_without_clearing(st) ==
    LET enter(tag) == [st EXCEPT !.state_tag = tag, !.progress = {}, !.instant_unstake = {}]
    IN  CASE /\ "REBALANCE_DIRECTED_COMPLETE" \in st.flags
             /\ "COMPUTE_DELEGATIONS" \notin st.flags
             /\ clock.part >= 1                             -> enter("ComputeScores")
          [] OTHER -> IF "REBALANCE" \notin st.flags /\ clock.part >= 2
                      THEN enter("ComputeInstantUnstake") ELSE st

transition_idle(st) ==
    LET due == epoch >= st.next_cycle_epoch
        now == IF due
               THEN [st EXCEPT !.flags = @ \ {"COMPUTE_SCORE", "COMPUTE_DELEGATIONS"},
                               !.instant_unstake = {}, !.progress = {}]
               ELSE st
        enter(tag) == [now EXCEPT !.state_tag = tag, !.progress = {}, !.instant_unstake = {}]
    IN  CASE /\ "REBALANCE_DIRECTED_COMPLETE" \in now.flags
             /\ "COMPUTE_DELEGATIONS" \notin now.flags
             /\ clock.part >= 1               -> enter("ComputeScores")
          [] OTHER ->
             IF "REBALANCE" \in now.flags
             THEN [now EXCEPT !.flags = @ \cup {"POST_LOOP_IDLE"}]
             ELSE [(IF clock.part >= 2 THEN enter("ComputeInstantUnstake") ELSE now)
                      EXCEPT !.flags = @ \cup {"PRE_LOOP_IDLE"}]

transition_compute_instant_unstake(st) ==
    IF is_complete(st)
    THEN [st EXCEPT !.state_tag = "Rebalance", !.progress = {},
                    !.flags = @ \cup {"COMPUTE_INSTANT_UNSTAKES"}]
    ELSE st

\* Variant: the loop's end is not recorded.
transition_rebalance_unrecorded(st) ==
    IF is_complete(st) THEN [st EXCEPT !.state_tag = "Idle"] ELSE st

\* No instruction sets RESET_TO_IDLE, so its branch is left out.
transition_rebalance(st) ==
    IF is_complete(st)
    THEN [st EXCEPT !.state_tag = "Idle", !.flags = @ \cup {"REBALANCE"}]
    ELSE st

transition_rebalance_directed(st) ==
    IF "REBALANCE_DIRECTED_COMPLETE" \in st.flags \/ clock.part >= 1
    THEN [st EXCEPT !.state_tag = "Idle", !.flags = @ \cup {"REBALANCE_DIRECTED_COMPLETE"}]
    ELSE st

maybe_transition(st) ==
    CASE st.state_tag = "ComputeScores"         -> transition_compute_scores(st)
      [] st.state_tag = "ComputeDelegations"    -> transition_compute_delegations(st)
      [] st.state_tag = "Idle"                  -> transition_idle(st)
      [] st.state_tag = "ComputeInstantUnstake" -> transition_compute_instant_unstake(st)
      [] st.state_tag = "Rebalance"             -> transition_rebalance(st)
      [] st.state_tag = "RebalanceDirected"     -> transition_rebalance_directed(st)

\* The handlers that transition before they look at anything end when the tag changes.
Transitions == maybe_transition(steward).state_tag # steward.state_tag

-----------------------------------------------------------------------------
(* The validator list and the indices.                                        *)

OneToOne ==
    steward.num_pool_validators + steward.validators_added = Len(pool.list)

\* Variant: does not compare the lengths.
remove_validator_check_epoch == steward.current_epoch = epoch

remove_validator_check == steward.current_epoch = epoch /\ OneToOne

add_validator_check ==
    remove_validator_check /\ steward.validators_for_immediate_removal = {}

state_checks(tags) ==
    /\ steward.state_tag \in tags
    /\ steward.current_epoch = epoch
    /\ steward.validators_for_immediate_removal = {}
    /\ OneToOne

\* bits with those from index on moved one down, the last one, n, cleared
ShiftBits(bits, index, n) ==
    {i \in Indices \ {n} : IF i \in index .. n THEN i + 1 \in bits ELSE i \in bits}

\* Variant: only the last element is cleared.
ClearLast(f, index, n) == [f EXCEPT ![n] = 0]

ShiftArray(f, index, n) ==
    [i \in Indices |-> IF i = n THEN 0 ELSE IF i \in index .. n THEN f[i + 1] ELSE f[i]]

\* sorted without the entry index, entries above it renumbered
Renumber(sorted, index, n) ==
    LET places == {j \in Indices : sorted[j] = index}
        from   == IF places = {} THEN n ELSE Min(places)
        moved(j) == IF j \in from .. n THEN sorted[j + 1] ELSE sorted[j]
    IN  [j \in Indices |->
            IF j = n THEN SORTED_INDEX_DEFAULT
            ELSE IF j < n /\ moved(j) > index THEN moved(j) - 1
            ELSE IF j < n THEN moved(j) ELSE sorted[j]]

Removable(index) ==
    /\ index \in Marked(steward)
    /\ index < steward.num_pool_validators + steward.validators_added

\* Variant: progress stays where it is.
remove_validator_keeping_progress(st, index) ==
    LET scored == index < st.num_pool_validators
        n == IF scored THEN st.num_pool_validators - 1 ELSE st.num_pool_validators
        m == st.num_pool_validators + st.validators_added - 1
    IN  [st EXCEPT !.num_pool_validators = n,
                   !.validators_added = m - n,
                   !.scores = ShiftArray(@, index, n),
                   !.delegations = ShiftArray(@, index, n),
                   !.instant_unstake = ShiftBits(@, index, n),
                   !.progress = @ \ {n},
                   !.validators_to_remove = ShiftBits(@, index, m),
                   !.validators_for_immediate_removal = ShiftBits(@, index, m),
                   !.sorted_score_indices = Renumber(@, index, n)]

remove_validator(st, index) ==
    LET scored == index < st.num_pool_validators
        n == IF scored THEN st.num_pool_validators - 1 ELSE st.num_pool_validators
        m == st.num_pool_validators + st.validators_added - 1
    IN  [st EXCEPT !.num_pool_validators = n,
                   !.validators_added = m - n,
                   !.scores = ShiftArray(@, index, n),
                   !.delegations = ShiftArray(@, index, n),
                   !.instant_unstake = ShiftBits(@, index, n),
                   !.progress = ShiftBits(@, index, n),
                   !.validators_to_remove = ShiftBits(@, index, m),
                   !.validators_for_immediate_removal = ShiftBits(@, index, m),
                   !.sorted_score_indices = Renumber(@, index, n)]

\* A validator that meets the voting and stake minimums joins the pool.
auto_add_validator_to_pool(vote) ==
    /\ add_validator_check
    /\ Len(pool.list) + 1 <= MAX_VALIDATORS
    /\ vote \in Candidates \ failed
    /\ \A k \in DOMAIN pool.list : pool.list[k].vote # vote
    /\ steward' = [steward EXCEPT !.validators_added = @ + 1]
    /\ pool' = [pool EXCEPT !.list = Append(@, [vote |-> vote, status |-> "Active", until |-> 0])]
    /\ mirror' = Append(mirror, vote)
    /\ UNCHANGED <<clock, rebalanced, failed, seen>>

\* A vote account is closed.  That of a validator outside the pool only keeps it out.
VoteAccountCloses(vote) ==
    /\ vote \in Failing \ failed
    /\ \E k \in DOMAIN pool.list : pool.list[k].vote = vote
    /\ failed' = failed \cup {vote}
    /\ UNCHANGED <<steward, pool, clock, rebalanced, mirror, seen>>

\* The vote account is closed or the stake deactivated.
\* inactive: the stake is inactive already, and the entry can go in this epoch
auto_remove_validator_from_pool(index, inactive) ==
    LET entry == pool.list[index + 1] IN
    /\ remove_validator_check
    /\ index < Len(pool.list)
    /\ entry.vote \in Failing
    /\ entry.status = "Active"
    /\ pool' = [pool EXCEPT !.list[index + 1].status = "Deactivating",
                            !.list[index + 1].until = IF inactive THEN epoch ELSE epoch + 1]
    /\ steward' = IF inactive
                  THEN [steward EXCEPT !.validators_for_immediate_removal = @ \cup {index}]
                  ELSE [steward EXCEPT !.validators_to_remove = @ \cup {index}]
    /\ failed' = failed \cup {entry.vote}
    /\ UNCHANGED <<clock, rebalanced, mirror, seen>>

\* Instructions of the stake pool program: entries whose stake is inactive become
\* ready for removal, and are dropped.
update_stake_pool ==
    /\ pool' = [list |-> [k \in DOMAIN pool.list |->
                    IF pool.list[k].status = "Deactivating" /\ pool.list[k].until <= epoch
                    THEN [pool.list[k] EXCEPT !.status = "ReadyForRemoval"]
                    ELSE pool.list[k]],
                last_update_epoch |-> epoch]
    /\ UNCHANGED <<steward, clock, rebalanced, failed, mirror, seen>>

cleanup_removed_validator_entries ==
    LET kept == {k \in DOMAIN pool.list : pool.list[k].status # "ReadyForRemoval"} IN
    /\ \E at \in [1 .. Cardinality(kept) -> kept] :
           /\ \A j, k \in DOMAIN at : j < k => at[j] < at[k]
           /\ pool' = [pool EXCEPT !.list = [k \in DOMAIN at |-> @[at[k]]]]
    /\ UNCHANGED <<steward, clock, rebalanced, failed, mirror, seen>>

\* st is the state after a removal, if one was asked for
epoch_maintenance(st) ==
    /\ pool.last_update_epoch = epoch
    /\ steward.current_epoch < epoch
    /\ \A k \in DOMAIN pool.list : pool.list[k].status = "Active"
    /\ steward.num_pool_validators + steward.validators_added =
           Len(pool.list) + Cardinality(steward.validators_to_remove)
                          + Cardinality(steward.validators_for_immediate_removal)
    /\ steward' =
           IF Marked(st) = {}
           THEN [st EXCEPT !.current_epoch = epoch,
                           !.flags = (@ \cap {"COMPUTE_SCORE", "COMPUTE_DELEGATIONS"})
                                        \cup {"EPOCH_MAINTENANCE"},
                           !.progress = {}, !.instant_unstake = {},
                           !.state_tag = "RebalanceDirected"]
           ELSE [st EXCEPT !.flags = @ \ {"EPOCH_MAINTENANCE"}]
    /\ UNCHANGED <<pool, clock, rebalanced, failed, seen>>

epoch_maintenance_only == epoch_maintenance(steward) /\ UNCHANGED mirror

epoch_maintenance_remove(index) ==
    /\ Removable(index)
    /\ epoch_maintenance(remove_validator(steward, index))
    /\ mirror' = RemoveAt(mirror, index + 1)

\* Variant: waits until no validator is leaving.
instant_remove_when_quiet(index) ==
    /\ steward.current_epoch = epoch
    /\ pool.last_update_epoch = epoch
    /\ index \in steward.validators_for_immediate_removal
    /\ \A k \in DOMAIN pool.list : pool.list[k].status = "Active"
    /\ steward.num_pool_validators + steward.validators_added =
           Len(pool.list) + Cardinality(steward.validators_for_immediate_removal)
    /\ Removable(index)
    /\ steward' = remove_validator(steward, index)
    /\ mirror' = RemoveAt(mirror, index + 1)
    /\ UNCHANGED <<pool, clock, rebalanced, failed, seen>>

instant_remove_validator(index) ==
    LET leaving == {k \in DOMAIN pool.list : pool.list[k].status # "Active"} IN
    /\ steward.current_epoch = epoch
    /\ pool.last_update_epoch = epoch
    /\ index \in steward.validators_for_immediate_removal
    /\ Cardinality(leaving) = Cardinality(steward.validators_to_remove)
    /\ \A k \in leaving : pool.list[k].status # "ReadyForRemoval"
    /\ steward.num_pool_validators + steward.validators_added =
           Len(pool.list) + Cardinality(steward.validators_for_immediate_removal)
    /\ Removable(index)
    /\ steward' = remove_validator(steward, index)
    /\ mirror' = RemoveAt(mirror, index + 1)
    /\ UNCHANGED <<pool, clock, rebalanced, failed, seen>>

-----------------------------------------------------------------------------
(* The cranks.                                                                *)

\* Variant: does not look for a place.
PlaceLast(st, score, len) == len

\* position of the first entry below score; an entry that is no index ends the search
PlaceFor(st, score, len) ==
    LET stops == {j \in 0 .. len - 1 : \/ st.sorted_score_indices[j] \notin Indices
                                       \/ st.scores[st.sorted_score_indices[j]] < score}
    IN  IF stops = {} THEN len ELSE Min(stops)

insert_sorted_index(sorted, index, at, len) ==
    [j \in Indices |-> IF j = at THEN index
                       ELSE IF j \in at + 1 .. len THEN sorted[j - 1] ELSE sorted[j]]

reset_state_for_new_cycle(st) ==
    [st EXCEPT !.scores = Zeros, !.progress = {}, !.delegations = Zeros,
               !.instant_unstake = {}, !.range_exceeded = FALSE,
               !.next_cycle_epoch = epoch + num_epochs_between_scoring,
               !.flags = @ \cap {"EPOCH_MAINTENANCE", "REBALANCE_DIRECTED_COMPLETE"},
               !.num_pool_validators = Len(pool.list), !.validators_added = 0]

\* scoring starts, or starts again
Restarts ==
    steward.progress = {} \/ epoch > steward.current_epoch \/ steward.range_exceeded

compute_score(index) ==
    LET st    == IF Restarts THEN reset_state_for_new_cycle(steward) ELSE steward
        vote  == pool.list[index + 1].vote
        score == IF index \in Marked(st) THEN 0 ELSE Score[vote]
        stored == [st EXCEPT !.scores[index] = score]
        len   == Cardinality(st.progress)
        at    == PlaceFor(stored, score, len)
    IN
    /\ state_checks({"ComputeScores"})
    /\ index < Len(pool.list)
    /\ \/ /\ index \in st.progress
          /\ steward' = maybe_transition(st)
       \/ /\ index \notin st.progress
          /\ at < len => st.sorted_score_indices[at] \in Indices
          /\ steward' = maybe_transition([stored EXCEPT
                 !.sorted_score_indices = insert_sorted_index(@, index, at, len),
                 !.progress = @ \cup {index}])
    /\ seen' = [seen EXCEPT
           !.ranked = IF Restarts THEN {vote}
                      ELSE IF index \in st.progress THEN @ ELSE @ \cup {vote},
           !.late = \/ ~Restarts /\ @
                    \/ index \notin st.progress /\ index >= st.num_pool_validators]
    /\ UNCHANGED <<pool, clock, rebalanced, failed, mirror>>

\* compute_score called in another state only makes the transition that is due
compute_score_early ==
    /\ state_checks(Tags \ {"ComputeScores"})
    /\ pool.list # <<>>
    /\ Transitions
    /\ steward' = maybe_transition(steward)
    /\ UNCHANGED <<pool, clock, rebalanced, failed, mirror, seen>>

\* select_validators_to_delegate: how many of the first indices of the ranking;
\* it aborts on an index beyond the scores and on a prefix longer than the ranking
Ends == {j \in 0 .. steward.num_pool_validators - 1 :
            LET i == steward.sorted_score_indices[j] IN
            i >= steward.num_pool_validators \/ steward.scores[i] = 0}

SelectOk ==
    IF Ends = {}
    THEN num_delegation_validators <= steward.num_pool_validators
    ELSE steward.sorted_score_indices[Min(Ends)] < steward.num_pool_validators

select_validators_to_delegate ==
    LET k == IF Ends # {} /\ Min(Ends) < num_delegation_validators
             THEN Min(Ends) ELSE num_delegation_validators
    IN  {steward.sorted_score_indices[j] : j \in 0 .. k - 1}

compute_delegations ==
    LET chosen == select_validators_to_delegate IN
    /\ state_checks({"ComputeDelegations"})
    /\ epoch < steward.next_cycle_epoch
    /\ SelectOk
    /\ steward' = maybe_transition([steward EXCEPT
           !.delegations = [i \in Indices |-> IF i \in chosen THEN Cardinality(chosen) ELSE @[i]],
           !.flags = @ \cup {"COMPUTE_DELEGATIONS"}])
    /\ UNCHANGED <<pool, clock, rebalanced, failed, mirror, seen>>

idle ==
    /\ state_checks({"Idle"})
    /\ steward' = maybe_transition(steward)
    /\ UNCHANGED <<pool, clock, rebalanced, failed, mirror, seen>>

\* compute_instant_unstake and rebalance first make the transition that is due,
\* before any check, and end there
transition_unchecked ==
    /\ Transitions
    /\ steward' = maybe_transition(steward)
    /\ UNCHANGED <<pool, clock, rebalanced, failed, mirror, seen>>

compute_instant_unstake(index) ==
    LET vote == pool.list[index + 1].vote IN
    /\ ~Transitions
    /\ state_checks({"ComputeInstantUnstake"})
    /\ index < Len(pool.list)
    /\ epoch < steward.next_cycle_epoch
    /\ clock.part >= 2
    /\ index \notin steward.progress
    /\ steward' = maybe_transition([steward EXCEPT
           !.instant_unstake = IF index \in Marked(steward) THEN @
                               ELSE IF vote \in Delinquent THEN @ \cup {index} ELSE @ \ {index},
           !.progress = @ \cup {index}])
    /\ seen' = [seen EXCEPT !.checked = @ \cup {vote}]
    /\ UNCHANGED <<pool, clock, rebalanced, failed, mirror>>

\* Variant: keeps the share that the others get.
GiveUpNothing(st, index) ==
    [i \in Indices |-> IF i # index /\ i < st.num_pool_validators /\ st.delegations[i] > 1
                       THEN st.delegations[i] - 1 ELSE st.delegations[i]]

\* delegations after all of a validator's stake was taken: its share goes to the others
GiveUp(st, index) ==
    [i \in Indices |-> IF i = index THEN 0
                       ELSE IF i < st.num_pool_validators /\ st.delegations[i] > 1
                       THEN st.delegations[i] - 1 ELSE st.delegations[i]]

\* StewardStateV2::rebalance; some stake is taken because of instant unstake, or not
\* (the code looks index up in the ranking by raw score: the same, in another order)
RebalanceStake(index, unstaked) ==
    LET done  == [steward EXCEPT !.progress = @ \cup {index}]
        gives == unstaked /\ steward.delegations[index] > 0
    IN
    /\ epoch < steward.next_cycle_epoch
    /\ index \notin steward.progress
    /\ unstaked => /\ index \in steward.instant_unstake \ Marked(steward)
                   /\ index < steward.num_pool_validators
                   /\ \E j \in 0 .. steward.num_pool_validators - 1 :
                          steward.sorted_score_indices[j] = index
    /\ steward' = maybe_transition(
           IF gives THEN [done EXCEPT !.delegations = GiveUp(steward, index)] ELSE done)

\* outcome: stake in transit since earlier, stake moved or left as it is, or some of
\* it taken because of instant unstake; see FindsRank for when stake cannot be moved
rebalance(index, outcome) ==
    /\ ~Transitions
    /\ state_checks({"Rebalance"})
    /\ index < Len(pool.list)
    /\ pool.list[index + 1].vote \in failed => index \in steward.validators_to_remove
    /\ \/ /\ outcome = "InTransit"
          /\ steward' = [steward EXCEPT !.progress = @ \cup {index}]
       \/ /\ outcome # "InTransit"
          /\ RebalanceStake(index, outcome = "InstantUnstake")
    /\ seen' = IF outcome # "InTransit" /\ index < steward.num_pool_validators
               THEN [seen EXCEPT !.visits[pool.list[index + 1].vote] = @ + 1] ELSE seen
    /\ UNCHANGED <<pool, clock, rebalanced, failed, mirror>>

AllTargets(st, done) ==
    IF done = Targets THEN [st EXCEPT !.flags = @ \cup {"REBALANCE_DIRECTED_COMPLETE"}] ELSE st

\* A target that is not in the validator list is passed over, whatever the state.
rebalance_directed_absent(target) ==
    LET st == AllTargets(steward, rebalanced \cup {target}) IN
    /\ \A k \in DOMAIN pool.list : pool.list[k].vote # target
    /\ rebalanced' = rebalanced \cup {target}
    /\ steward' = maybe_transition(st)
    /\ UNCHANGED <<pool, clock, failed, mirror, seen>>

rebalance_directed(target) ==
    LET before == maybe_transition(AllTargets(steward, rebalanced)) IN
    /\ \E k \in DOMAIN pool.list : pool.list[k].vote = target
    /\ steward.state_tag = "RebalanceDirected"
    /\ \/ /\ before.state_tag # "RebalanceDirected"
          /\ steward' = before
          /\ UNCHANGED rebalanced
       \/ /\ before.state_tag = "RebalanceDirected"
          /\ state_checks({"RebalanceDirected"})
          /\ rebalanced' = rebalanced \cup {target}
          /\ steward' = maybe_transition(AllTargets(steward, rebalanced'))
    /\ UNCHANGED <<pool, clock, failed, mirror, seen>>

\* Slots pass; scoring that is under way may have taken too long.
Tick ==
    /\ \/ /\ clock.part < 2
          /\ clock' = [clock EXCEPT !.part = @ + 1]
          /\ UNCHANGED <<rebalanced, seen>>
       \/ /\ clock.part = 2 /\ epoch < MaxEpoch
          /\ clock' = [epoch |-> epoch + 1, part |-> 0]
          /\ rebalanced' = {}
          /\ seen' = [seen EXCEPT !.checked = {}, !.visits = [v \in Votes |-> 0]]
    /\ \E late \in IF steward.state_tag = "ComputeScores" THEN BOOLEAN ELSE {FALSE} :
           steward' = [steward EXCEPT !.range_exceeded = @ \/ late]
    /\ UNCHANGED <<pool, failed, mirror>>

-----------------------------------------------------------------------------

PoolStep ==
    \/ update_stake_pool
    \/ cleanup_removed_validator_entries

Membership ==
    \/ \E vote \in Votes : auto_add_validator_to_pool(vote)
    \/ \E index \in Indices, inactive \in BOOLEAN :
           auto_remove_validator_from_pool(index, inactive)
    \/ \E vote \in Votes : VoteAccountCloses(vote)

Maintenance ==
    \/ epoch_maintenance_only
    \/ \E index \in Indices : epoch_maintenance_remove(index)
    \/ \E index \in Indices : instant_remove_validator(index)

Scoring ==
    \/ \E index \in Indices : compute_score(index)
    \/ compute_score_early
    \/ compute_delegations

Rebalancing ==
    \/ \E index \in Indices : compute_instant_unstake(index)
    \/ \E index \in Indices, outcome \in {"InTransit", "Settled", "InstantUnstake"} :
           rebalance(index, outcome)
    \/ transition_unchecked
    \/ \E target \in Targets : rebalance_directed(target)
    \/ \E target \in Targets : rebalance_directed_absent(target)

Crank == PoolStep \/ Maintenance \/ Scoring \/ Rebalancing \/ idle

Next == Crank \/ Membership \/ Tick

Spec == Init /\ [][Next]_vars

\* increase_ and decrease_stake_calculation fail for an index that is not among the
\* first num_pool_validators of the ranking, by score or by raw score.  Both hold all
\* indices of the cycle if no other was scored.
FindsRank(index) == index < steward.num_pool_validators /\ ~seen.late

\* Instructions that succeed whatever the stakes are and though the history of a closed
\* vote account is not updated any more.  A validator with such an account has to be
\* removed before its index can be cranked.
SureCrank ==
    \/ PoolStep \/ Maintenance \/ compute_score_early \/ compute_delegations \/ idle
    \/ transition_unchecked
    \/ \E target \in Targets : rebalance_directed(target) \/ rebalance_directed_absent(target)
    \/ \E index \in 0 .. Len(pool.list) - 1 :
           LET closed == pool.list[index + 1].vote \in failed
               marked == index \in Marked(steward)
           IN  \/ closed /\ \E inactive \in BOOLEAN :
                                auto_remove_validator_from_pool(index, inactive)
               \/ (closed => marked) /\ (compute_score(index) \/ compute_instant_unstake(index))
               \/ (marked \/ FindsRank(index)) /\ rebalance(index, "Settled")

\* Everybody may crank and somebody does, in any order, as long as a crank that is sure
\* to succeed changes anything; time passes.  The rest happens at will.
LiveSpec == Spec /\ WF_vars(SureCrank) /\ WF_vars(Tick)

-----------------------------------------------------------------------------

\* Types of the state account, and of the history kept about it.
TypeOK ==
    /\ steward \in [state_tag : Tags, num_pool_validators : 0 .. MAX_VALIDATORS,
                    validators_added : 0 .. MAX_VALIDATORS, scores : [Indices -> Nat],
                    sorted_score_indices : [Indices -> 0 .. SORTED_INDEX_DEFAULT],
                    delegations : [Indices -> 0 .. MAX_VALIDATORS],
                    instant_unstake : SUBSET Indices, progress : SUBSET Indices,
                    validators_to_remove : SUBSET Indices,
                    validators_for_immediate_removal : SUBSET Indices,
                    current_epoch : 1 .. MaxEpoch, next_cycle_epoch : Nat,
                    range_exceeded : BOOLEAN, flags : SUBSET Flags]
    /\ mirror \in Seq(Votes)
    /\ Len(mirror) = steward.num_pool_validators + steward.validators_added
    /\ seen \in [ranked : SUBSET Votes, late : BOOLEAN, checked : SUBSET Votes,
                visits : [Votes -> Nat]]

\* Whenever the checks that every crank makes on epoch, pending removals and length
\* succeed, the steward's indices stand for the very validators of the pool's list,
\* however additions, removals of both kinds, clean-ups and epochs were interleaved.
Aligned ==
    (/\ steward.current_epoch = epoch
     /\ steward.validators_for_immediate_removal = {}
     /\ OneToOne)
        => mirror = [k \in DOMAIN pool.list |-> pool.list[k].vote]

\* remove_validator moves all that is known about a validator with it: below
\* num_pool_validators a score is that of the validator the index stands for, only
\* delinquent ones are marked for instant unstake, and stake is promised only to
\* validators with a score.
DataFollows ==
    \A i \in 0 .. steward.num_pool_validators - 1 :
        /\ steward.scores[i] \in {0, Score[mirror[i + 1]]}
        /\ i \in steward.instant_unstake => mirror[i + 1] \in Delinquent
        /\ steward.delegations[i] > 0 => steward.scores[i] > 0

\* Delegations are computed only when every validator of the cycle was scored, and
\* stake moves only when every one was checked in this epoch, though progress is
\* kept by index and indices move.
NoneSkipped ==
    \A i \in 0 .. steward.num_pool_validators - 1 :
        /\ steward.state_tag = "ComputeDelegations" => mirror[i + 1] \in seen.ranked
        /\ steward.state_tag = "Rebalance" /\ steward.current_epoch = epoch
               => mirror[i + 1] \in seen.checked

\* No validator of the cycle is rebalanced twice in an epoch, whatever is cranked and
\* removed: the loop runs once, and a removal does not make its progress forget
\* anybody.  (The caps on what is unstaked rely on it.)
RebalancedOnce == \A v \in Votes : seen.visits[v] <= 1

\* The shares promised never add up to more than the pool: d is at least the number
\* of validators that have a share, for each share 1/d, also after shares were given up.
SharesFit ==
    LET sharing == {i \in Indices : steward.delegations[i] > 0} IN
    \A i \in sharing : steward.delegations[i] >= Cardinality(sharing)

\* The loop of instant unstake and rebalance runs only on delegations of a cycle that
\* is not over and after the directed stake: handlers that transition before they
\* check anything cannot bring it about otherwise.
InCycle ==
    steward.state_tag \in {"ComputeInstantUnstake", "Rebalance"} /\ steward.current_epoch = epoch
        => /\ {"COMPUTE_SCORE", "COMPUTE_DELEGATIONS", "REBALANCE_DIRECTED_COMPLETE"}
                  \subseteq steward.flags
           /\ epoch < steward.next_cycle_epoch

\* The step that computes delegations gives shares to the best scores: nobody without
\* a share has a better one than somebody with a share.
ChoosesBest ==
    steward.state_tag = "ComputeDelegations" /\ steward'.state_tag = "Idle" =>
        \A i, j \in 0 .. steward.num_pool_validators - 1 :
            steward'.delegations[i] > 0 /\ steward'.delegations[j] = 0
                => steward.scores[i] >= steward.scores[j]

\* compute_delegations chooses the best scores, in whichever order validators were
\* scored and whoever was removed meanwhile, provided that only validators of the
\* cycle were scored: the claim is false without this, see AdditionsWait.
BestChosen == [][~seen.late => ChoosesBest]_vars

\* Once time stands still and nobody stops cranking, the loop of the last epoch is
\* finished: no order of removals, additions, cranks and closed vote accounts leaves the
\* machine waiting, unless it works on a ranking for which a validator was scored that
\* had joined after scoring began (AdditionsWait).
LoopCompletes ==
    <>[](\/ steward.current_epoch = epoch /\ "REBALANCE" \in steward.flags
         \/ /\ steward.state_tag \in {"ComputeScores", "ComputeDelegations", "Rebalance"}
            /\ seen.late)

\* steward_state.rs says of num_pool_validators, which is set when scoring starts, that
\* "validator additions later won't be considered": the ranking that delegations are
\* computed from would hold only validators of the cycle.
AdditionsWait ==
    steward.state_tag = "ComputeDelegations" =>
        \A j \in 0 .. steward.num_pool_validators - 1 :
            steward.sorted_score_indices[j] < steward.num_pool_validators

\* The doc of select_validators_to_delegate: "If there are fewer than
\* num_delegation_validators validators with non-zero scores, all non-zero scores are
\* selected."  Stated of the validators of the cycle when only those were scored.
FewAreAllSelected ==
    LET nonzero == {i \in 0 .. steward.num_pool_validators - 1 : steward.scores[i] > 0} IN
    (/\ steward.state_tag = "ComputeDelegations"
     /\ ~seen.late
     /\ Cardinality(nonzero) < num_delegation_validators)
        => SelectOk /\ select_validators_to_delegate = nonzero
=============================================================================
