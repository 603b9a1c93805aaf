--------------------------- MODULE MCSquadsVoting ---------------------------
(* One transaction and up to three voters: an autonomous multisig, and a       *)
(* controlled one whose config authority c changes members, threshold, time    *)
(* lock, rent collector and itself while the transaction is being voted on.    *)
EXTENDS SquadsLifecycle

CONSTANTS a, b, c, l

All == <<Permission>>

Only(initial) == [k \in Keys |-> IF k \in initial THEN All ELSE <<>>]

\* Three members with threshold 2, or a controlled multisig of two or one: the proposal
\* account is then allocated for one, and the multisig may grow to three members before
\* a proposal is cancelled.
MCMultisigCreateArgs ==
    {[config_authority |-> NoKey, threshold |-> 2, time_lock |-> 0,
      rent_collector |-> a, members |-> Only(Keys)]} \cup
    {[config_authority |-> c, threshold |-> Cardinality(initial), time_lock |-> 0,
      rent_collector |-> a, members |-> Only(initial)] : initial \in {{a, b}, {a}}}

MCConfigActionLists == 
    {<<[type |-> "AddMember", new_member |-> [key |-> a, permissions |-> {}]],
       [type |-> "RemoveMember", old_member |-> a]>>,
     <<[type |-> "ChangeThreshold", new_threshold |-> 3],
       [type |-> "SetRentCollector", new_rent_collector |-> NoKey]>>,
     <<[type |-> "RemoveMember", old_member |-> c]>>,
     <<[type |-> "AddSpendingLimit", limit |-> l],
       [type |-> "RemoveSpendingLimit", limit |-> l]>>}

MCNewMembers == {[key |-> k, permissions |-> {"Vote"}] : k \in {b, c}}
=============================================================================
