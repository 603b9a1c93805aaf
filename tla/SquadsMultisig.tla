---------------------------- MODULE SquadsMultisig ----------------------------
(***************************************************************************)
(* The Squads v4 multisig program: one multisig account, the transactions  *)
(* (config, vault, batch) created under it, their proposals, and the       *)
(* instructions that create, vote on, execute, cancel and close them.      *)
(*                                                                         *)
(* An instruction is atomic: it either completes or reverts, so a failed   *)
(* `require!` is a disabled action.  Vault and batch execution is the      *)
(* exception that matters: it calls out (CPI) to arbitrary programs, this  *)
(* one included, between its checks and the write back of the accounts it  *)
(* loaded.  `frames` is the stack of executions in progress; while it is   *)
(* not empty, the steps taken are the instructions invoked from inside.    *)
(***************************************************************************)
EXTENDS Naturals, Sequences, FiniteSets, SequencesExt

CONSTANTS
    Keys,              \* public keys that appear in the instance
    NoKey,             \* Pubkey::default(), and the None of an Option<Pubkey>
    LimitKeys,         \* create keys of spending limit accounts
    MAX_TIME_LOCK,
    MultisigCreateArgs,\* arguments multisig_create is called with
    ConfigActionLists, \* action lists config transactions are created with
    NewMembers,        \* members the config authority may add
    NewThresholds,     \* thresholds the config authority may set
    NewTimeLocks,      \* time locks the config authority may set
    Kinds,             \* kinds of transaction created in the instance
    MaxIndex,          \* bound on transaction_index
    MaxBatchSize,      \* bound on batch.size
    MaxTime,           \* bound on the clock
    MaxDepth           \* bound on nested executions (CPI depth)

Permission == {"Initiate", "Vote", "Execute"}
Status == {"Draft", "Active", "Rejected", "Approved", "Executed", "Cancelled"}
Index == 1 .. MaxIndex
OptionalKey == Keys \cup {NoKey}

\* The account struct.  `members` is the sorted Vec grouped by key: <<>> for a
\* key that is no member, <<p>> for a member with permissions p, and more than
\* one entry only inside config_transaction_execute, before invariant() runs.
Multisig ==
    [config_authority : OptionalKey, threshold : Nat, time_lock : Nat,
     transaction_index : Nat, stale_transaction_index : Nat,
     rent_collector : OptionalKey, members : [Keys -> Seq(SUBSET Permission)]]

Member == [key : Keys, permissions : SUBSET Permission]

ConfigAction ==
    [type : {"AddMember"}, new_member : Member]
        \cup [type : {"RemoveMember"}, old_member : Keys]
        \cup [type : {"ChangeThreshold"}, new_threshold : Nat]
        \cup [type : {"SetTimeLock"}, new_time_lock : Nat]
        \cup [type : {"AddSpendingLimit", "RemoveSpendingLimit"}, limit : LimitKeys]
        \cup [type : {"SetRentCollector"}, new_rent_collector : OptionalKey]

\* Only the status' timestamp of Approved is ever read; the others are 0 here.
\* `space` is the number of members the account was allocated for.
NoProposal ==
    [status |-> "NoAccount", timestamp |-> 0, approved |-> {}, rejected |-> {},
     cancelled |-> {}, space |-> 0]

Proposal ==
    [status : Status \cup {"NoAccount"}, timestamp : Nat, approved : SUBSET Keys,
     rejected : SUBSET Keys, cancelled : SUBSET Keys, space : Nat]

\* ConfigTransaction, VaultTransaction and Batch share one address per index.
\* `accounts` are the numbers of the VaultBatchTransaction accounts that exist.
\* The creator is read for batches only.
NoTransaction ==
    [kind |-> "NoAccount", actions |-> <<>>, creator |-> NoKey, size |-> 0,
     executed_transaction_index |-> 0, accounts |-> {}]

Transaction ==
    [kind : {"NoAccount", "Config", "Vault", "Batch"}, actions : Seq(ConfigAction),
     creator : OptionalKey, size : Nat, executed_transaction_index : Nat,
     accounts : SUBSET (Nat \ {0})]

\* An execution in progress: the copies of the accounts it will write back and
\* the accounts no instruction of the message may get as writable.
Frame ==
    [index : Index, proposal : Proposal, transaction : Transaction,
     protected : SUBSET ({"proposal", "batch"} \X Index)]

ASSUME KeysAssumption == IsFiniteSet(Keys) /\ NoKey \notin Keys
ASSUME BoundsAssumption ==
    /\ MaxIndex \in Nat /\ MaxBatchSize \in Nat /\ MaxTime \in Nat /\ MaxDepth \in Nat
    /\ MAX_TIME_LOCK \in Nat
ASSUME ArgumentsAssumption ==
    /\ ConfigActionLists \subseteq Seq(ConfigAction)
    /\ NewMembers \subseteq Member
    /\ NewThresholds \subseteq Nat
    /\ NewTimeLocks \subseteq Nat
    /\ Kinds \subseteq {"Config", "Vault", "Batch"}

VARIABLES
    multisig,       \* the Multisig account
    spendingLimits, \* create keys of the SpendingLimit accounts that exist
    transactions,   \* transaction accounts by index
    proposals,      \* proposal accounts by index
    clock,          \* Clock::get()?.unix_timestamp
    frames,         \* executions in progress, innermost last
    ledger          \* history: per index the numbers of the batch transactions
                    \* executed, in order, then 0 when the proposal is Executed

vars == <<multisig, spendingLimits, transactions, proposals, clock, frames, ledger>>

-----------------------------------------------------------------------------
(* Multisig *)

Holders(ms, permission) ==
    {k \in Keys : \E n \in DOMAIN ms.members[k] : permission \in ms.members[k][n]}

Voters(ms) == Holders(ms, "Vote")

num_voters(ms) == Cardinality(Voters(ms))

is_member(ms, key) == ms.members[key] # <<>>

num_members(ms) == Cardinality({k \in Keys : is_member(ms, k)})

member_has_permission(ms, key, permission) == key \in Holders(ms, permission)

invariant(ms) ==
    /\ \A k \in Keys : Len(ms.members[k]) <= 1
    /\ Holders(ms, "Initiate") # {}
    /\ Holders(ms, "Execute") # {}
    /\ Voters(ms) # {}
    /\ ms.threshold > 0
    /\ ms.threshold <= num_voters(ms)
    /\ ms.stale_transaction_index <= ms.transaction_index
    /\ ms.time_lock <= MAX_TIME_LOCK

\* Variant that forgets to make prior transactions stale.
invalidate_nothing(ms) == ms

invalidate_prior_transactions(ms) ==
    [ms EXCEPT !.stale_transaction_index = ms.transaction_index]

\* Variants one too low and one too high.
cutoff_too_low(ms) == num_voters(ms) - ms.threshold
cutoff_too_high(ms) == num_voters(ms) - ms.threshold + 2

\* Number of rejections that make a proposal Rejected.
cutoff(ms) == num_voters(ms) - ms.threshold + 1

Autonomous(ms) == ms.config_authority = NoKey

Stale(i) == i <= multisig.stale_transaction_index

-----------------------------------------------------------------------------
(* Proposal *)

ProposalAccount(i) == <<"proposal", i>>
BatchAccount(i) == <<"batch", i>>

\* The account can be passed as writable to the instruction: no execution in
\* progress protects it.  execute_message checks its own protected accounts
\* only; those of the outer executions are kept by the runtime, which lets an
\* instruction pass on as writable only what it was itself given as writable.
Writable(account) ==
    \A n \in DOMAIN frames : account \notin frames[n].protected

\* Whether the vote lists fit the account when it is saved.
Fits(p) ==
    Cardinality(p.approved) + Cardinality(p.rejected) + Cardinality(p.cancelled)
        <= 3 * p.space

approve(p, member, threshold, now) ==
    LET q == [p EXCEPT !.rejected = @ \ {member}, !.approved = @ \cup {member}]
    IN  IF Cardinality(q.approved) >= threshold
        THEN [q EXCEPT !.status = "Approved", !.timestamp = now]
        ELSE q

reject(p, member, needed) ==
    LET q == [p EXCEPT !.approved = @ \ {member}, !.rejected = @ \cup {member}]
    IN  IF Cardinality(q.rejected) >= needed
        THEN [q EXCEPT !.status = "Rejected", !.timestamp = 0]
        ELSE q

cancel(p, member, threshold) ==
    LET q == [p EXCEPT !.cancelled = @ \cup {member}]
    IN  IF Cardinality(q.cancelled) >= threshold
        THEN [q EXCEPT !.status = "Cancelled", !.timestamp = 0]
        ELSE q

SaveProposal(i, p) == proposals' = [proposals EXCEPT ![i] = p]

proposal_create(creator, i, draft) ==
    /\ i <= multisig.transaction_index
    /\ ~Stale(i)
    /\ \/ member_has_permission(multisig, creator, "Initiate")
       \/ member_has_permission(multisig, creator, "Vote")
    /\ proposals[i].status = "NoAccount"
    /\ Writable(ProposalAccount(i))
    /\ SaveProposal(i, [NoProposal EXCEPT !.status = IF draft THEN "Draft" ELSE "Active",
                                          !.space = num_members(multisig)])
    /\ UNCHANGED <<multisig, spendingLimits, transactions, clock, frames, ledger>>

proposal_activate(member, i) ==
    /\ member_has_permission(multisig, member, "Initiate")
    /\ proposals[i].status = "Draft"
    /\ ~Stale(i)
    /\ Writable(ProposalAccount(i))
    /\ SaveProposal(i, [proposals[i] EXCEPT !.status = "Active"])
    /\ UNCHANGED <<multisig, spendingLimits, transactions, clock, frames, ledger>>

\* Variant of MayVote without the staleness check.
MayVoteWhenStale(member, i) ==
    /\ member_has_permission(multisig, member, "Vote")
    /\ proposals[i].status = "Active"
    /\ Writable(ProposalAccount(i))

\* ProposalVote::validate for Vote::Approve and Vote::Reject.
MayVote(member, i) ==
    /\ member_has_permission(multisig, member, "Vote")
    /\ proposals[i].status = "Active"
    /\ ~Stale(i)
    /\ Writable(ProposalAccount(i))

proposal_approve(member, i) ==
    /\ MayVote(member, i)
    /\ member \notin proposals[i].approved
    /\ LET p == approve(proposals[i], member, multisig.threshold, clock)
       IN  Fits(p) /\ SaveProposal(i, p)
    /\ UNCHANGED <<multisig, spendingLimits, transactions, clock, frames, ledger>>

proposal_reject(member, i) ==
    /\ MayVote(member, i)
    /\ member \notin proposals[i].rejected
    /\ LET p == reject(proposals[i], member, cutoff(multisig))
       IN  Fits(p) /\ SaveProposal(i, p)
    /\ UNCHANGED <<multisig, spendingLimits, transactions, clock, frames, ledger>>

\* ProposalVote::validate for Vote::Cancel, and the vote: the cancellations of
\* keys that are no longer members are dropped first.
MayCancel(member, i) ==
    /\ member_has_permission(multisig, member, "Vote")
    /\ proposals[i].status = "Approved"
    /\ Writable(ProposalAccount(i))

RetainMembers(p) ==
    [p EXCEPT !.cancelled = {k \in @ : is_member(multisig, k)}]

WithCancellation(member, i) ==
    cancel(RetainMembers(proposals[i]), member, multisig.threshold)

proposal_cancel(member, i) ==
    /\ MayCancel(member, i)
    /\ member \notin RetainMembers(proposals[i]).cancelled
    /\ Fits(WithCancellation(member, i))
    /\ SaveProposal(i, WithCancellation(member, i))
    /\ UNCHANGED <<multisig, spendingLimits, transactions, clock, frames, ledger>>

\* Variant that leaves the account as it was allocated.
realloc_never(p, members_length) == p

\* Proposal::realloc_if_needed
realloc_if_needed(p, members_length) ==
    [p EXCEPT !.space = IF @ >= members_length THEN @ ELSE members_length]

\* The proposal as proposal_cancel_v2 saves it, and all that the instruction checks.
Reallocated(member, i) ==
    realloc_if_needed(WithCancellation(member, i), num_members(multisig))

MayCancelV2(member, i) ==
    /\ MayCancel(member, i)
    /\ member \notin RetainMembers(proposals[i]).cancelled
    /\ Fits(Reallocated(member, i))

proposal_cancel_v2(member, i) ==
    /\ MayCancelV2(member, i)
    /\ SaveProposal(i, Reallocated(member, i))
    /\ UNCHANGED <<multisig, spendingLimits, transactions, clock, frames, ledger>>

-----------------------------------------------------------------------------
(* Creation of transactions *)

\* The next index gets the transaction account; the other fields are zero.
CreateTransaction(creator, tx) ==
    LET i == multisig.transaction_index + 1
    IN  /\ i <= MaxIndex
        /\ member_has_permission(multisig, creator, "Initiate")
        /\ transactions[i].kind = "NoAccount"
        /\ multisig' = [multisig EXCEPT !.transaction_index = i]
        /\ invariant(multisig')
        /\ transactions' = [transactions EXCEPT ![i] = tx]
        /\ UNCHANGED <<spendingLimits, proposals, clock, frames, ledger>>

config_transaction_create(creator, actions) ==
    /\ "Config" \in Kinds
    /\ Autonomous(multisig)
    /\ actions # <<>>
    /\ \A n \in DOMAIN actions :
          actions[n].type = "SetTimeLock" => actions[n].new_time_lock <= MAX_TIME_LOCK
    /\ CreateTransaction(creator,
                         [NoTransaction EXCEPT !.kind = "Config", !.actions = actions])

vault_transaction_create(creator) ==
    /\ "Vault" \in Kinds
    /\ CreateTransaction(creator, [NoTransaction EXCEPT !.kind = "Vault"])

batch_create(creator) ==
    /\ "Batch" \in Kinds
    /\ CreateTransaction(creator,
                         [NoTransaction EXCEPT !.kind = "Batch", !.creator = creator])

batch_add_transaction(member, i) ==
    LET batch == transactions[i]
    IN  /\ batch.kind = "Batch"
        /\ member_has_permission(multisig, member, "Initiate")
        /\ member = batch.creator
        /\ proposals[i].status = "Draft"
        /\ Writable(BatchAccount(i))
        /\ batch.size < MaxBatchSize
        /\ batch.size + 1 \notin batch.accounts
        /\ transactions' = [transactions EXCEPT
                               ![i].size = @ + 1,
                               ![i].accounts = @ \cup {batch.size + 1}]
        /\ UNCHANGED <<multisig, spendingLimits, proposals, clock, frames, ledger>>

-----------------------------------------------------------------------------
(* Execution of config transactions *)

\* What the actions work on: the mutable part of the multisig and the
\* spending limit accounts.
Settings ==
    [members : [Keys -> Seq(SUBSET Permission)], threshold : Nat, time_lock : Nat,
     rent_collector : OptionalKey, limits : SUBSET LimitKeys]

add_member(s, member) ==
    [s EXCEPT !.members[member.key] = Append(@, member.permissions)]

\* When the key was added twice the binary search may hit either entry.
remove_member(s, key) ==
    {[s EXCEPT !.members[key] = RemoveAt(@, n)] : n \in DOMAIN s.members[key]}

\* The outcomes of one action; none when it fails.
ApplyAction(s, action) ==
    CASE action.type = "AddMember" -> {add_member(s, action.new_member)}
      [] action.type = "RemoveMember" -> remove_member(s, action.old_member)
      [] action.type = "ChangeThreshold" -> {[s EXCEPT !.threshold = action.new_threshold]}
      [] action.type = "SetTimeLock" -> {[s EXCEPT !.time_lock = action.new_time_lock]}
      [] action.type = "AddSpendingLimit" ->
            IF action.limit \in s.limits THEN {}
            ELSE {[s EXCEPT !.limits = @ \cup {action.limit}]}
      [] action.type = "RemoveSpendingLimit" ->
            IF action.limit \notin s.limits THEN {}
            ELSE {[s EXCEPT !.limits = @ \ {action.limit}]}
      [] action.type = "SetRentCollector" ->
            {[s EXCEPT !.rent_collector = action.new_rent_collector]}

ApplyActions(s, actions) ==
    FoldLeft(LAMBDA outcomes, action : UNION {ApplyAction(t, action) : t \in outcomes},
             {s}, actions) \cap Settings

CurrentSettings ==
    [members |-> multisig.members, threshold |-> multisig.threshold,
     time_lock |-> multisig.time_lock, rent_collector |-> multisig.rent_collector,
     limits |-> spendingLimits]

\* The actions that call invalidate_prior_transactions.
ConsensusAction == {"AddMember", "RemoveMember", "ChangeThreshold", "SetTimeLock"}

\* The multisig after the loop.  transaction_index does not change in it, so one
\* invalidation is the same as one per action; without a consensus action only
\* the rent collector can have been assigned.
AfterActions(ms, s, actions) ==
    IF \E n \in DOMAIN actions : actions[n].type \in ConsensusAction
    THEN invalidate_prior_transactions(
            [ms EXCEPT !.members = s.members, !.threshold = s.threshold,
                       !.time_lock = s.time_lock, !.rent_collector = s.rent_collector])
    ELSE [ms EXCEPT !.rent_collector = s.rent_collector]

\* The checks the three execute instructions share.
MayExecute(member, i) ==
    /\ member_has_permission(multisig, member, "Execute")
    /\ proposals[i].status = "Approved"
    /\ clock >= proposals[i].timestamp + multisig.time_lock
    /\ Writable(ProposalAccount(i))

Executed(p) == [p EXCEPT !.status = "Executed", !.timestamp = 0]

\* Variant that executes stale config transactions, as is right for the others.
config_execute_when_stale(member, i) ==
    /\ transactions[i].kind = "Config"
    /\ MayExecute(member, i)
    /\ \E s \in ApplyActions(CurrentSettings, transactions[i].actions) :
          /\ multisig' = AfterActions(multisig, s, transactions[i].actions)
          /\ spendingLimits' = s.limits
    /\ invariant(multisig')
    /\ SaveProposal(i, Executed(proposals[i]))
    /\ ledger' = [ledger EXCEPT ![i] = Append(@, 0)]
    /\ UNCHANGED <<transactions, clock, frames>>

config_transaction_execute(member, i) ==
    /\ transactions[i].kind = "Config"
    /\ MayExecute(member, i)
    /\ ~Stale(i)
    /\ \E s \in ApplyActions(CurrentSettings, transactions[i].actions) :
          /\ multisig' = AfterActions(multisig, s, transactions[i].actions)
          /\ spendingLimits' = s.limits
    /\ invariant(multisig')
    /\ SaveProposal(i, Executed(proposals[i]))
    /\ ledger' = [ledger EXCEPT ![i] = Append(@, 0)]
    /\ UNCHANGED <<transactions, clock, frames>>

-----------------------------------------------------------------------------
(* Execution of vault transactions and batches *)

\* The accounts are loaded and checked, and the message starts to run.
Invoke(i, protected) ==
    /\ Len(frames) < MaxDepth
    /\ frames' = Append(frames, [index |-> i, proposal |-> proposals[i],
                                 transaction |-> transactions[i],
                                 protected |-> protected])
    /\ UNCHANGED <<multisig, spendingLimits, transactions, proposals, clock, ledger>>

\* Variants that protect no account from the message.
vault_execute_unprotected(member, i) ==
    /\ transactions[i].kind = "Vault"
    /\ MayExecute(member, i)
    /\ Invoke(i, {})

batch_execute_unprotected(member, i) ==
    /\ transactions[i].kind = "Batch"
    /\ MayExecute(member, i)
    /\ Writable(BatchAccount(i))
    /\ transactions[i].executed_transaction_index + 1 \in transactions[i].accounts
    /\ Invoke(i, {})

vault_transaction_execute(member, i) ==
    /\ transactions[i].kind = "Vault"
    /\ MayExecute(member, i)
    /\ Invoke(i, {ProposalAccount(i)})

batch_execute_transaction(member, i) ==
    /\ transactions[i].kind = "Batch"
    /\ MayExecute(member, i)
    /\ Writable(BatchAccount(i))
    /\ transactions[i].executed_transaction_index + 1 \in transactions[i].accounts
    /\ Invoke(i, {ProposalAccount(i), BatchAccount(i)})

\* The message of the innermost execution has run: the handler ends and the
\* copies it loaded are written back.
Innermost == frames[Len(frames)]

Return(p) ==
    /\ frames' = SubSeq(frames, 1, Len(frames) - 1)
    /\ SaveProposal(Innermost.index, p)
    /\ UNCHANGED <<multisig, spendingLimits, clock>>

vault_transaction_return ==
    /\ frames # <<>>
    /\ Innermost.transaction.kind = "Vault"
    /\ Return(Executed(Innermost.proposal))
    /\ ledger' = [ledger EXCEPT ![Innermost.index] = Append(@, 0)]
    /\ UNCHANGED transactions

\* Variants: the position in the batch is not advanced, and the end of the
\* batch is missed by one.
batch_return_in_place ==
    /\ frames # <<>>
    /\ Innermost.transaction.kind = "Batch"
    /\ LET batch == Innermost.transaction
           n == batch.executed_transaction_index + 1
       IN  /\ batch.size >= n
           /\ Return(IF n = batch.size THEN Executed(Innermost.proposal)
                                       ELSE Innermost.proposal)
           /\ UNCHANGED transactions
           /\ ledger' = [ledger EXCEPT ![Innermost.index] =
                             @ \o (IF n = batch.size THEN <<n, 0>> ELSE <<n>>)]

batch_return_never_last ==
    /\ frames # <<>>
    /\ Innermost.transaction.kind = "Batch"
    /\ LET batch == Innermost.transaction
           n == batch.executed_transaction_index + 1
       IN  /\ batch.size >= n
           /\ Return(Innermost.proposal)
           /\ transactions' = [transactions EXCEPT
                  ![Innermost.index] = [batch EXCEPT !.executed_transaction_index = n]]
           /\ ledger' = [ledger EXCEPT ![Innermost.index] = Append(@, n)]

batch_transaction_return ==
    /\ frames # <<>>
    /\ Innermost.transaction.kind = "Batch"
    /\ LET batch == Innermost.transaction
           n == batch.executed_transaction_index + 1
       IN  /\ batch.size >= n
           /\ Return(IF n = batch.size THEN Executed(Innermost.proposal)
                                       ELSE Innermost.proposal)
           /\ transactions' = [transactions EXCEPT
                  ![Innermost.index] = [batch EXCEPT !.executed_transaction_index = n]]
           /\ ledger' = [ledger EXCEPT ![Innermost.index] =
                             @ \o (IF n = batch.size THEN <<n, 0>> ELSE <<n>>)]

-----------------------------------------------------------------------------
(* Instructions of the config authority *)

\* Variants without the authority check and without the final invariant().
ConfigureByAnyone(ms) ==
    /\ multisig' = ms
    /\ invariant(ms)
    /\ UNCHANGED <<spendingLimits, transactions, proposals, clock, frames, ledger>>

ConfigureUnchecked(ms) ==
    /\ ~Autonomous(multisig)
    /\ multisig' = ms
    /\ UNCHANGED <<spendingLimits, transactions, proposals, clock, frames, ledger>>

\* MultisigConfig: nobody signs for Pubkey::default().
Configure(ms) ==
    /\ ~Autonomous(multisig)
    /\ multisig' = ms
    /\ invariant(ms)
    /\ UNCHANGED <<spendingLimits, transactions, proposals, clock, frames, ledger>>

multisig_add_member(new_member) ==
    /\ ~is_member(multisig, new_member.key)
    /\ Configure(invalidate_prior_transactions(add_member(multisig, new_member)))

multisig_remove_member(old_member) ==
    /\ num_members(multisig) > 1
    /\ \E ms \in remove_member(multisig, old_member) :
          Configure(invalidate_prior_transactions(ms))

multisig_change_threshold(new_threshold) ==
    Configure(invalidate_prior_transactions([multisig EXCEPT !.threshold = new_threshold]))

multisig_set_time_lock(time_lock) ==
    Configure(invalidate_prior_transactions([multisig EXCEPT !.time_lock = time_lock]))

multisig_set_config_authority(config_authority) ==
    Configure(invalidate_prior_transactions(
                 [multisig EXCEPT !.config_authority = config_authority]))

multisig_set_rent_collector(rent_collector) ==
    Configure([multisig EXCEPT !.rent_collector = rent_collector])

multisig_add_spending_limit(limit) ==
    /\ ~Autonomous(multisig)
    /\ limit \notin spendingLimits
    /\ spendingLimits' = spendingLimits \cup {limit}
    /\ UNCHANGED <<multisig, transactions, proposals, clock, frames, ledger>>

multisig_remove_spending_limit(limit) ==
    /\ ~Autonomous(multisig)
    /\ limit \in spendingLimits
    /\ spendingLimits' = spendingLimits \ {limit}
    /\ UNCHANGED <<multisig, transactions, proposals, clock, frames, ledger>>

-----------------------------------------------------------------------------
(* Reclaiming the rent of accounts *)

\* Variant that treats a stale Approved proposal like a stale Active one.
CanCloseWhenStale(i) ==
    \/ proposals[i].status \in {"Rejected", "Executed", "Cancelled"}
    \/ Stale(i)

\* can_close of a vault transaction or a batch ...
CanCloseVault(i) ==
    \/ proposals[i].status \in {"Rejected", "Executed", "Cancelled"}
    \/ proposals[i].status \in {"Draft", "Active", "NoAccount"} /\ Stale(i)

\* ... and of a config transaction, which cannot be executed once stale.
CanCloseConfig(i) ==
    CanCloseVault(i) \/ (proposals[i].status = "Approved" /\ Stale(i))

\* The proposal, if there is one, and the transaction account are closed.
CloseAccounts(i) ==
    /\ multisig.rent_collector # NoKey
    /\ Writable(ProposalAccount(i))
    /\ SaveProposal(i, NoProposal)
    /\ transactions' = [transactions EXCEPT ![i] = NoTransaction]
    /\ UNCHANGED <<multisig, spendingLimits, clock, frames, ledger>>

config_transaction_accounts_close(i) ==
    /\ transactions[i].kind = "Config"
    /\ CanCloseConfig(i)
    /\ CloseAccounts(i)

vault_transaction_accounts_close(i) ==
    /\ transactions[i].kind = "Vault"
    /\ CanCloseVault(i)
    /\ CloseAccounts(i)

vault_batch_transaction_account_close(i) ==
    /\ transactions[i].kind = "Batch"
    /\ multisig.rent_collector # NoKey
    /\ transactions[i].size \in transactions[i].accounts
    /\ proposals[i].status # "NoAccount"
    /\ CanCloseVault(i)
    /\ Writable(BatchAccount(i))
    /\ transactions' = [transactions EXCEPT ![i].size = @ - 1,
                                            ![i].accounts = @ \ {transactions[i].size}]
    /\ UNCHANGED <<multisig, spendingLimits, proposals, clock, frames, ledger>>

batch_accounts_close(i) ==
    /\ transactions[i].kind = "Batch"
    /\ CanCloseVault(i)
    /\ transactions[i].size = 0
    /\ Writable(BatchAccount(i))
    /\ CloseAccounts(i)

-----------------------------------------------------------------------------
(* The specification *)

multisig_create(args) ==
    [config_authority |-> args.config_authority, threshold |-> args.threshold,
     time_lock |-> args.time_lock, transaction_index |-> 0,
     stale_transaction_index |-> 0, rent_collector |-> args.rent_collector,
     members |-> args.members]

ASSUME CreateAssumption ==
    MultisigCreateArgs \subseteq
        [config_authority : OptionalKey, threshold : Nat, time_lock : Nat,
         rent_collector : OptionalKey, members : [Keys -> Seq(SUBSET Permission)]]

\* The state multisig_create leaves.
Init ==
    /\ multisig \in {multisig_create(args) : args \in MultisigCreateArgs}
    /\ invariant(multisig)
    /\ spendingLimits = {}
    /\ transactions = [i \in Index |-> NoTransaction]
    /\ proposals = [i \in Index |-> NoProposal]
    /\ clock = 0
    /\ frames = <<>>
    /\ ledger = [i \in Index |-> <<>>]

\* Time passes between transactions, not inside one.
Tick ==
    /\ frames = <<>>
    /\ clock < MaxTime
    /\ clock' = clock + 1
    /\ UNCHANGED <<multisig, spendingLimits, transactions, proposals, frames, ledger>>

ProposalStep ==
    \E member \in Keys, i \in Index :
        \/ \E draft \in BOOLEAN : proposal_create(member, i, draft)
        \/ proposal_activate(member, i)
        \/ proposal_approve(member, i)
        \/ proposal_reject(member, i)
        \/ proposal_cancel(member, i)
        \/ proposal_cancel_v2(member, i)

TransactionStep ==
    \E member \in Keys :
        \/ \E actions \in ConfigActionLists : config_transaction_create(member, actions)
        \/ vault_transaction_create(member)
        \/ batch_create(member)
        \/ \E i \in Index : batch_add_transaction(member, i)

ExecuteStep ==
    \/ \E member \in Keys, i \in Index :
          \/ config_transaction_execute(member, i)
          \/ vault_transaction_execute(member, i)
          \/ batch_execute_transaction(member, i)
    \/ vault_transaction_return
    \/ batch_transaction_return

ConfigStep ==
    \/ \E new_member \in NewMembers : multisig_add_member(new_member)
    \/ \E old_member \in Keys : multisig_remove_member(old_member)
    \/ \E new_threshold \in NewThresholds : multisig_change_threshold(new_threshold)
    \/ \E time_lock \in NewTimeLocks : multisig_set_time_lock(time_lock)
    \/ \E key \in OptionalKey : multisig_set_config_authority(key)
    \/ \E key \in OptionalKey : multisig_set_rent_collector(key)
    \/ \E limit \in LimitKeys : multisig_add_spending_limit(limit)
    \/ \E limit \in LimitKeys : multisig_remove_spending_limit(limit)

CloseStep ==
    \E i \in Index :
        \/ config_transaction_accounts_close(i)
        \/ vault_transaction_accounts_close(i)
        \/ vault_batch_transaction_account_close(i)
        \/ batch_accounts_close(i)

Next == Tick \/ ProposalStep \/ TransactionStep \/ ExecuteStep \/ ConfigStep \/ CloseStep

Spec == Init /\ [][Next]_vars

\* Executors keep trying to execute approved batches, a call that was made
\* returns, and time passes.  Nothing is assumed of anyone else.
Fairness ==
    /\ WF_vars(Tick)
    /\ WF_vars(vault_transaction_return)
    /\ WF_vars(batch_transaction_return)
    /\ \A i \in Index : WF_vars(\E member \in Keys : batch_execute_transaction(member, i))

LiveSpec == Spec /\ Fairness

-----------------------------------------------------------------------------
(* Properties *)

\* Every account holds values of its struct, and transaction_index its bound.
TypeOK ==
    /\ multisig \in Multisig
    /\ multisig.transaction_index <= MaxIndex
    /\ spendingLimits \in SUBSET LimitKeys
    /\ transactions \in [Index -> Transaction]
    /\ proposals \in [Index -> Proposal]
    /\ clock \in Nat
    /\ frames \in Seq(Frame)
    /\ ledger \in [Index -> Seq(Nat)]

\* The multisig account satisfies Multisig::invariant at all times, whichever
\* instruction, config transaction or nested call changed it last.
MultisigSound == invariant(multisig)

\* A proposal that can still be decided, or was decided under the current
\* configuration, counts only votes of keys that may vote now, no key is counted
\* on both sides, and its status is the one its votes give: an open proposal is
\* below both limits, a decided one has reached its limit.  This is what
\* invalidate_prior_transactions is for: votes are never recounted.
FreshVotesCount ==
    \A i \in Index :
        LET p == proposals[i]
        IN  ~Stale(i) /\ p.status # "NoAccount" =>
                /\ p.approved \cup p.rejected \subseteq Voters(multisig)
                /\ p.approved \cap p.rejected = {}
                /\ p.status \in {"Draft", "Active"} =>
                      /\ Cardinality(p.approved) < multisig.threshold
                      /\ Cardinality(p.rejected) < cutoff(multisig)
                /\ p.status = "Approved" => Cardinality(p.approved) >= multisig.threshold
                /\ p.status = "Rejected" => Cardinality(p.rejected) >= cutoff(multisig)

\* "The cutoff must be such that it is impossible for the remaining voters to
\* reach the approval threshold": under the configuration that rejected it, the
\* voters who did not reject a Rejected proposal are fewer than the threshold.
RejectionIsFinal ==
    \A i \in Index :
        ~Stale(i) /\ proposals[i].status = "Rejected" =>
            Cardinality(Voters(multisig) \ proposals[i].rejected) < multisig.threshold

\* An open proposal never runs out of voters: while it is Active and not stale
\* some voter has not voted on it, so it can always be decided.
NoLimbo ==
    \A i \in Index :
        ~Stale(i) /\ proposals[i].status = "Active" =>
            Voters(multisig) \ (proposals[i].approved \cup proposals[i].rejected) # {}

\* A config or vault transaction is executed at most once, and a batch executes
\* its transactions 1, 2, 3, ... each once, and is completed once: across votes,
\* cancellations, nested executions, closed accounts and proposals created again
\* for the same index.
ExecutedOnceInOrder ==
    \A i \in Index :
        \A n \in DOMAIN ledger[i] :
            \/ ledger[i][n] = n
            \/ ledger[i][n] = 0 /\ n = Len(ledger[i])

\* The copies an execution in progress writes back are still what the accounts
\* hold: nothing the message calls changes them, so no update is lost.
NoLostUpdate ==
    \A n \in DOMAIN frames :
        /\ proposals[frames[n].index] = frames[n].proposal
        /\ transactions[frames[n].index] = frames[n].transaction

\* Any voter can cancel an Approved proposal they have not cancelled, however
\* many members joined since the account was allocated (proposal_cancel_v2
\* reallocates it), unless an execution in progress protects the account.
CancelNeverStuck ==
    \A i \in Index, m \in Voters(multisig) :
        ( /\ proposals[i].status = "Approved" /\ m \notin proposals[i].cancelled
          /\ Writable(ProposalAccount(i)) ) => MayCancelV2(m, i)

\* What is executed is a transaction whose proposal is Approved when it takes
\* effect, and a config transaction moreover is not stale.
OnlyApprovedExecutes ==
    [][\A i \in Index :
          ledger'[i] # ledger[i] =>
              /\ proposals[i].status = "Approved"
              /\ transactions[i].kind # "NoAccount"
              /\ transactions[i].kind = "Config" => ~Stale(i)]_vars

\* An autonomous multisig changes its members, threshold or time lock only by
\* executing a config transaction, and never becomes a controlled one.
ConfigByConsent ==
    [][Autonomous(multisig) =>
          /\ Autonomous(multisig')
          /\ \/ /\ multisig'.members = multisig.members
                /\ multisig'.threshold = multisig.threshold
                /\ multisig'.time_lock = multisig.time_lock
             \/ \E i \in Index : /\ transactions[i].kind = "Config"
                                  /\ ledger'[i] # ledger[i]]_vars

\* Once stale, a proposal is never activated, voted on or decided again: it can
\* be closed or, if it was Approved before, be cancelled or (not for a config
\* transaction) executed.
StaleIsFinal ==
    [][\A i \in Index :
          Stale(i) /\ proposals'[i] # proposals[i] =>
              \/ proposals'[i].status = "NoAccount"
              \/ /\ proposals[i].status = "Approved"
                 /\ proposals'[i].status \in {"Approved", "Cancelled", "Executed"}
                 /\ proposals'[i].approved = proposals[i].approved
                 /\ proposals'[i].status = "Executed" =>
                       transactions[i].kind # "Config"]_vars

\* What is voted on does not change: from activation on, and as long as it may
\* still be executed, a transaction keeps its account, and a batch its size and
\* its transaction accounts.
PayloadFrozen ==
    [][\A i \in Index :
          \/ proposals[i].status = "Active" /\ ~Stale(i)
          \/ proposals[i].status = "Approved"
                /\ ~(transactions[i].kind = "Config" /\ Stale(i))
          => transactions'[i] =
                [transactions[i] EXCEPT
                    !.executed_transaction_index = transactions'[i].executed_transaction_index]]_vars

\* An approved batch that has a transaction is executed to its end, or is
\* cancelled: closed accounts, configuration changes and nested executions
\* cannot block it.  (Approved early enough for the time lock to end in MaxTime.)
BatchesFinish ==
    \A i \in Index :
        /\ transactions[i].kind = "Batch" /\ transactions[i].size > 0
        /\ proposals[i].status = "Approved"
        /\ proposals[i].timestamp + MAX_TIME_LOCK <= MaxTime
        ~> proposals[i].status # "Approved"
=============================================================================
