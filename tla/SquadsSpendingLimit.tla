------------------------- MODULE SquadsSpendingLimit -------------------------
(***************************************************************************)
(* One spending limit account of a Squads v4 multisig: the keys listed in  *)
(* it may send up to `amount` tokens per period out of a vault without a   *)
(* vote.  The account is created and removed by a config transaction or    *)
(* the config authority (module SquadsMultisig, where it is only a key);   *)
(* members may join and leave the multisig at any time.                    *)
(***************************************************************************)
EXTENDS Integers, FiniteSets

CONSTANTS
    Keys,           \* keys that may be members of the limit or the multisig
    Destinations,   \* accounts funds can be sent to
    LimitArgs,      \* arguments spending limits are created with
    VaultFunds,     \* balance of the vault at the start
    MaxTime         \* bound on the clock

\* `period` is Period::to_seconds, and 0 for OneTime, which has none.
SpendingLimitArgs ==
    [amount : Nat, period : Nat, members : SUBSET Keys, destinations : SUBSET Destinations]

ASSUME LimitArgsAssumption == LimitArgs \subseteq SpendingLimitArgs
ASSUME FundsAssumption == VaultFunds \in Nat /\ MaxTime \in Nat

VARIABLES
    limit,     \* the SpendingLimit account
    vault,     \* balance of the vault's account for the limit's mint
    members,   \* members of the multisig
    clock,     \* Clock::get()?.unix_timestamp
    opened,    \* history: when the account was created
    spent,     \* history: amounts sent since then, by period
    total,     \* history: their sum
    removed    \* history: keys whose last membership change was a removal

vars == <<limit, vault, members, clock, opened, spent, total, removed>>

SpendingLimit ==
    [amount : Nat, period : Nat, members : SUBSET Keys, destinations : SUBSET Destinations,
     remaining_amount : Nat, last_reset : Nat]

\* The invariant of the account excludes amount 0, so this is no account.
NoLimit ==
    [amount |-> 0, period |-> 0, members |-> {}, destinations |-> {},
     remaining_amount |-> 0, last_reset |-> 0]

Exists == limit.amount # 0

\* SpendingLimit::invariant; a set of members has no duplicates.
invariant(args) == args.amount # 0 /\ args.members # {}

-----------------------------------------------------------------------------

\* The account is filled in by ConfigAction::AddSpendingLimit and by
\* multisig_add_spending_limit in the same way.
AddSpendingLimit(args) ==
    /\ ~Exists
    /\ invariant(args)
    /\ limit' = [amount |-> args.amount, period |-> args.period, members |-> args.members,
                 destinations |-> args.destinations, remaining_amount |-> args.amount,
                 last_reset |-> clock]
    /\ opened' = clock
    /\ spent' = [n \in 0 .. MaxTime |-> 0]
    /\ total' = 0
    /\ UNCHANGED <<vault, members, clock, removed>>

RemoveSpendingLimit ==
    /\ Exists
    /\ limit' = NoLimit
    /\ opened' = 0
    /\ spent' = [n \in 0 .. MaxTime |-> 0]
    /\ total' = 0
    /\ UNCHANGED <<vault, members, clock, removed>>

\* Variants: the new period starts at the time of the call, and the start of
\* the period is not moved.
ResetToNow(l, now) ==
    IF l.period # 0 /\ now - l.last_reset > l.period
    THEN [l EXCEPT !.remaining_amount = l.amount, !.last_reset = now]
    ELSE l

ResetRemainingOnly(l, now) ==
    IF l.period # 0 /\ now - l.last_reset > l.period
    THEN [l EXCEPT !.remaining_amount = l.amount]
    ELSE l

\* The reset at the start of spending_limit_use.
ResetIfPassed(l, now) ==
    IF l.period # 0 /\ now - l.last_reset > l.period
    THEN [l EXCEPT !.remaining_amount = l.amount,
                   !.last_reset = @ + ((now - @) \div l.period) * l.period]
    ELSE l

\* History: the period that now is in.  Periods are counted from the creation of the
\* account; one has passed when more than its length has.  OneTime has only one.
PeriodAt(now) ==
    IF limit.period = 0 \/ now = opened THEN 0 ELSE (now - opened - 1) \div limit.period

spending_limit_use(member, amount, destination) ==
    LET l == ResetIfPassed(limit, clock)
    IN  /\ Exists
        /\ member \in limit.members
        /\ limit.destinations # {} => destination \in limit.destinations
        /\ amount <= l.remaining_amount
        /\ amount <= vault
        /\ limit' = [l EXCEPT !.remaining_amount = @ - amount]
        /\ vault' = vault - amount
        /\ spent' = [spent EXCEPT ![PeriodAt(clock)] = @ + amount]
        /\ total' = total + amount
        /\ UNCHANGED <<members, clock, opened, removed>>

\* Membership changes of the multisig do not touch the account.
AddMember(k) ==
    /\ k \notin members
    /\ members' = members \cup {k}
    /\ removed' = removed \ {k}
    /\ UNCHANGED <<limit, vault, clock, opened, spent, total>>

RemoveMember(k) ==
    /\ k \in members
    /\ members # {k}
    /\ members' = members \ {k}
    /\ removed' = removed \cup {k}
    /\ UNCHANGED <<limit, vault, clock, opened, spent, total>>

Tick ==
    /\ clock < MaxTime
    /\ clock' = clock + 1
    /\ UNCHANGED <<limit, vault, members, opened, spent, total, removed>>

Init ==
    /\ limit = NoLimit
    /\ vault = VaultFunds
    /\ members = Keys
    /\ clock = 0
    /\ opened = 0
    /\ spent = [n \in 0 .. MaxTime |-> 0]
    /\ total = 0
    /\ removed = {}

Next ==
    \/ \E args \in LimitArgs : AddSpendingLimit(args)
    \/ RemoveSpendingLimit
    \/ \E member \in Keys, destination \in Destinations, amount \in 0 .. vault :
          spending_limit_use(member, amount, destination)
    \/ \E k \in Keys : AddMember(k) \/ RemoveMember(k)
    \/ Tick

Spec == Init /\ [][Next]_vars

-----------------------------------------------------------------------------
(* Properties *)

\* The account holds values of its struct: remaining_amount never underflows.
TypeOK ==
    /\ limit \in SpendingLimit
    /\ vault \in Nat
    /\ members \in SUBSET Keys
    /\ clock \in 0 .. MaxTime
    /\ opened \in Nat
    /\ spent \in [0 .. MaxTime -> Nat]
    /\ total \in Nat
    /\ removed \in SUBSET Keys

\* "The amount of tokens that can be spent in a period": the periods are counted
\* from the creation of the account, whenever the limit is used, and in none of
\* them more than `amount` is sent.  The reset is lazy and may skip periods.
SpentPerPeriod ==
    Exists /\ limit.period # 0 => \A n \in 0 .. MaxTime : spent[n] <= limit.amount

\* Over its life the limit lets out no more than `amount` for every period that
\* began, and `amount` in all when it is OneTime:
\* total <= amount * (1 + (clock - opened) / period), multiplied out.
LifetimeBound ==
    Exists =>
        IF limit.period = 0
        THEN total <= limit.amount
        ELSE total * limit.period <= limit.amount * (limit.period + (clock - opened))

\* config_transaction.rs:68-69: when a member is removed from the multisig, "the
\* removed member will not be able to use it anymore".
RemovedMemberCannotSpend ==
    \A k \in removed, d \in Destinations : ~ENABLED spending_limit_use(k, 1, d)
=============================================================================
