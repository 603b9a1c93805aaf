---------------------------- MODULE MCSquadsBatch ----------------------------
(* Two transactions of all kinds, batches of up to two, on a multisig of two;  *)
(* a config transaction raises the time lock or removes a voter while the      *)
(* other one is voted on, and executions may be nested.                        *)
EXTENDS SquadsLifecycle

CONSTANTS a, b

All == <<Permission>>

MCMultisigCreateArgs ==
    {[config_authority |-> NoKey, threshold |-> 1, time_lock |-> 0,
      rent_collector |-> a, members |-> [k \in Keys |-> IF k = a THEN All ELSE <<{"Vote", "Execute"}>>]]}

MCConfigActionLists == 
    {<<[type |-> "SetTimeLock", new_time_lock |-> 1]>>,
     <<[type |-> "RemoveMember", old_member |-> b]>>}

MCNewMembers == {}
=============================================================================
