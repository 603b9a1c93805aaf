# A TLA+ verification of the programs in anchor-community

`src/` is a directory of production Anchor programs for Solana (lending, AMMs,
exchanges, staking, bridges and a multisig). They share no code and do not
call each other; each is a system of its own. This project models three
whose correctness is a protocol rather than arithmetic:

* the **Squads v4 multisig program** (`src/programs/v4/programs/squads_multisig_program`);
* the **Wormhole Native Token Transfers** manager with its transceiver
  (`src/programs/native-token-transfers/solana`);
* the **StakeNet steward** (`src/programs/stakenet/programs/steward`), the state
  machine that runs a stake pool.

## Inventory

### Squads v4

| Component | State | Operations | What is hard |
| --- | --- | --- | --- |
| multisig account (`state/multisig.rs`, `multisig_create.rs`, `multisig_config.rs`) | members with permissions, threshold, time lock, config authority, rent collector, `transaction_index`, `stale_transaction_index` | create; for a controlled multisig add/remove member, set threshold, time lock, config authority, rent collector, add/remove spending limit | every path that changes who decides must invalidate what is open |
| proposals (`state/proposal.rs`, `proposal_*.rs`) | status, votes, size of the account | create, activate, approve, reject, cancel, cancel_v2 | votes are never recounted; off-by-one of the cutoff; accounts too small for members who joined later |
| config transactions (`config_transaction_*.rs`) | list of actions | create, execute | several actions, one check at the end; must not run when stale |
| vault transactions and batches (`vault_transaction_*.rs`, `batch_*.rs`, `executable_transaction_message.rs`) | message(s), creator, size, position in the batch | create, add to a batch, execute | execution calls arbitrary programs, this one included, between loading accounts and writing them back |
| closing accounts (`transaction_accounts_close.rs`) | existence of accounts | four close instructions | an index whose proposal was closed can get a new proposal |
| spending limits (`state/spending_limit.rs`, `spending_limit_use.rs`) | allowance, period, remaining amount, last reset | add, remove, use | lazy reset over several periods |
| transaction buffers (`transaction_buffer_*.rs`, `vault_transaction_create_from_buffer.rs`) | uploaded parts of a message | create, extend, close, create the transaction | upload interleaved with closing and permission changes |
| program config (`program_config*.rs`) | authority, creation fee, treasury | init, three setters | little |

The components meet in shared accounts. An index is handed out by the multisig
account; the transaction account and the proposal account derive their
addresses from it; executing a config transaction changes the multisig account,
which changes who may vote on, execute and cancel every other proposal, and
makes earlier ones stale. Instructions are atomic and serialised by the
runtime, so there are no data races. The concurrency is that of *instructions
interleaved by different members* and of *nested calls*: a vault message may
call the program again while its own execution is not finished. There is no
persistence besides the accounts, no message passing, no retry and no timeout
other than the time lock.

What makes it correct: only what enough current voters approved is executed;
once, in order, and as it was when they voted; an open proposal can always be
decided; what is dead stays dead; nothing an execution calls can make it lose
an update; a spending limit is kept.

### Native Token Transfers (NTT)

A manager program on each chain locks or burns tokens and mints or unlocks what
was taken on another; transceivers carry its messages.

| Component | State | Operations | What is hard |
| --- | --- | --- | --- |
| rate limiter (`queue/rate_limit.rs`) | limit, capacity at the last use, its time | capacity now, consume or delay, refill, set limit | rounding, backflow and changed limits in any order |
| trimmed amounts (`ntt-messages/trimmed_amount.rs`) | - | trim, untrim, remove dust | chains with different decimals |
| outbound (`transfer.rs`, `queue/outbox.rs`, `release_outbound.rs`) | outbox items: amount, release time, who sent it | transfer in both modes, release by each transceiver | delay, transceivers added later |
| inbound (`receive_message.rs`, `redeem.rs`, `queue/inbox.rs`, `release_inbound.rs`) | validated messages, inbox items: votes, release status | receive, redeem, release in both modes | anybody relays, in any order and repeatedly; votes outlive the enabling of who cast them |
| administration (`admin/mod.rs`, transceiver `admin.rs`) | config: paused, threshold, enabled transceivers; peers | pause, set peer, limits, threshold, register, deregister | every change falls between two steps of some transfer |
| ownership (`transfer_ownership.rs`) and mint authority (`transfer_token_authority.rs`) | owner, pending owner, pending authority; upgrade and mint authority in other programs | transfer, claim, one-step transfer; set, accept, claim, revert | authorities held by three programs must agree; wrong addresses |

Correct means: what circulates is backed by what is locked, an item is paid out
once and only if enough enabled transceivers attest to it, a transfer between
chains that stay connected arrives, the limits bound what passes in a window,
and no hand-over ends with an authority nobody can use.

### StakeNet steward

| Component | State | Operations | What is hard |
| --- | --- | --- | --- |
| state machine (`state/steward_state.rs`) | state tag, flags, progress bits, scores, ranking, delegations, instant unstake bits | one crank per validator and phase: score, delegate, check, rebalance; idle; the transitions | anybody cranks, in any order; epochs end in any phase |
| membership (`auto_add_*`, `auto_remove_*`, `instant_remove_validator.rs`, `epoch_maintenance.rs`) | number of validators scored and added, removal bits | add, mark for removal, remove now or with the next epoch | all arrays are indexed like the validator list of the stake pool, which another program shortens |
| administration, parameters, directed stake tickets, validator history | - | - | not modelled |

Correct means: the steward's index `i` is the pool's validator `i` whenever it
acts; each validator is scored, checked and rebalanced once; stake goes to the
best, never more than there is; and an epoch's loop is always completed if cranking goes on.

### The other programs

They are listed in `PROJECT.json` with the reason they are left out: most of
their logic is 128- to 256-bit fixed-point arithmetic (AMM curves, margin and
interest), which TLC's 32-bit integers and small instances say nothing about.
OpenBook's event heap and Marinade are protocols in part and candidates. The
programs have about 590000 lines together; the three modelled here are a small part of them.

## Modules

| Module | Models |
| --- | --- |
| `SquadsMultisig` | multisig account, config authority, proposals, transactions of all three kinds, nested execution, closing; its properties |
| `TransactionLifecycle` | the abstract specification: phases absent, pending, passed, done, dead of each transaction |
| `SquadsLifecycle` | the refinement mapping from `SquadsMultisig` to `TransactionLifecycle` |
| `SquadsSpendingLimit` | one spending limit account, its use and the members' comings and goings |
| `SquadsTransactionBuffer` | the buffers messages are uploaded to in pieces, and the transactions created from them |
| `NttRateLimit`, `NttTrimmedAmount` | the rate limiter and the amounts, as operators |
| `NttLimiter` | one limiter over time, with an observer who opens windows |
| `NttManager` | the managers of several chains, their transceivers and administration |
| `TokenTransfers` | the abstract specification of a bridge: transfers are sent, and paid out once |
| `NttBridge` | all chains together: conservation of tokens, delivery, and the refinement mapping to `TokenTransfers` |
| `NttAdmin` | ownership, upgrade authority and mint authority |
| `Steward` | the steward's state machine and its validators, with the stake pool |
| `SquadsMultisigProofs`, `SquadsVoteProofs`, `SquadsSpendingLimitProofs`, `SquadsTransactionBufferProofs`, `NttLimiterProofs`, `NttAdminProofs`, `NttManagerProofs`, `StewardProofs` | theorems |
| `MC*` | instances for TLC |

`NttManager` is built on `NttRateLimit` and `NttTrimmedAmount`, and `NttBridge` on
`NttManager`. Definitions keep the names of the source (`proposal_approve`,
`consume_or_delay`, `transition_idle`, ...). `PROJECT.json` maps each to its lines.
Definitions introduced by the comment "Variant" are deliberately wrong
versions of the definition that follows them; no specification uses them, and
they serve to see that each property can fail (`PROJECT.json`, "mutants").

### SquadsMultisig: state and code

* `multisig` is the account. `members` maps each key to the sequence of
  permission sets listed for it: the sorted `Vec` grouped by key. More than one
  entry is possible only inside `config_transaction_execute`, where `AddMember`
  does not look for duplicates and `invariant()` runs after the last action; a
  binary search in such a list may hit either entry, so `remove_member` has
  several outcomes.
* `proposals[i]`, `transactions[i]` are the accounts derived from index `i`, or
  `NoProposal`/`NoTransaction`. A transaction account is of one kind. The
  message of a vault transaction is not modelled; what matters of a batch is its
  size, its position and which of its transaction accounts exist.
  `proposals[i].space` is the number of members the account was allocated for
  (`Proposal::size`); a save succeeds when the three vote lists fit (`Fits`).
* `frames` is the stack of executions in progress. `vault_transaction_execute`
  and `batch_execute_transaction` are two steps each: the first does the checks
  and pushes a frame with *copies* of the accounts it loaded and the accounts it
  protects; the `..._return` step writes the copies back and ends the
  instruction. In between, every instruction of the program may run, as the
  message's calls, unless it needs as writable an account that some frame
  protects (`Writable`). `execute_message` checks only its own protected accounts;
  that an inner frame cannot get at an outer one's is the runtime's rule that a call
  passes on as writable only what the caller got as writable. A message that
  fails reverts everything since the outermost instruction, which is the same as
  never starting it, so there is no failing return. Signers are not restricted
  inside a frame: the model allows more than the chain does.
* `ledger` is history: for each index the numbers of the batch transactions that
  ran, in order, and a final 0 when the proposal was marked Executed.
* `Init` is the state `multisig_create` leaves. `Tick` advances the clock between
  instructions. Only the timestamp of `Approved` is ever read by the code; the
  other timestamps are constant 0.

A failed `require!`, a missing account or an overflow aborts the instruction, so
each is a guard. The five groups `ProposalStep`, `TransactionStep`,
`ExecuteStep`, `ConfigStep`, `CloseStep` together are the instructions of `lib.rs`
except those of buffers, spending limit use (the other two modules) and program
config.

### SquadsSpendingLimit

The account with `amount`, `period` (0 for `OneTime`), `remaining_amount`,
`last_reset`, the keys that may use it and the destinations; the balance of the
vault, so that a transfer can fail; the members of the multisig, who come and go
independently of the limit. `opened`, `spent` (by the period since the creation), `total`, `removed` are history.
Mint and decimals checks are left out.

### SquadsTransactionBuffer

`buffers` maps the seeds (creator, `buffer_index`) of the accounts that exist to
the accounts. Closing one frees its address, so a late
`transaction_buffer_extend` may meet another buffer than the one it was sent for;
`life` numbers the buffers and `declared` keeps, as history, what each was created
with. Every instruction can come at any time with any piece, which covers pieces
lost, repeated and out of order. The hash function and the set of byte strings
that parse are parameters. Lengths are naturals: a piece is bounded by the size of
an instruction, far below the u16 the code casts lengths to. Rent and the
reallocation of the transaction account are left out, and so is the other way to
create vault transactions (`SquadsMultisig` has it).

### NttLimiter

`rate_limit` is the account; `Consume`, `Refill`, `SetLimit`, `SetPeer` are the calls the
manager makes, through the operators of `NttRateLimit` that translate the code,
division included. `start`, `admitted`, `returned`, `raised`, `top` are the history of a
window that `Observe` may open at any time, so that a property of the open window
is a property of all windows. `set_peer` decides by `last_tx_timestamp = 0`
whether the limiter is new, as the code does.

### NttManager and NttBridge

Every variable is indexed by chain. `config`, `registered`, `peers`,
`transceiver_peers` and the two kinds of limiters are the accounts of the
administration; `outbox` is a sequence of items, `inbox` a function from what the
address of the item is derived from (`keccak256`: the message without the managers'
addresses) to the item. `vaas` is the set of messages transceivers have sent: it
only grows and every instruction that uses one leaves it there, which makes
messages late, reordered and repeated. `validated` is what each transceiver has
accepted. The action groups are the instructions of the manager and of the
built-in transceiver; a `Faulty` transceiver may attest to a message of `Phantoms`
that nobody sent. Solana programs on both sides: the model of a foreign chain is
the Solana manager too. Token fees and hooks, session authorities and the Wormhole
core bridge's own checks are left out; the signature of the owner is `NttAdmin`'s.

`NttBridge` adds nothing to the behaviour but the fairness of relayers. Its amounts
are compared in the smallest unit of all chains. To `TokenTransfers` a transfer is an outbox
item (`Ticket`), it is pending until the inbox item of its message is `Released`, and what users hold is their balances.

### NttAdmin

The two fields of the config account, the `PendingTokenAuthority` account, and the
authorities that the loader and the token program keep (external state, changed
also from outside the program). `Unusable` addresses can be named by mistake and never
sign. An SPL multisig is one that the token authority is part of (`SharedMultisigs`)
or not. `unchecked` records that the one-step transfer was used, which by its name and
its comment gives up the protection.

### Steward

* `steward` is the state account. A bit mask is the set of its indices, an array a
  function on `Indices`; a share `1/d` is the number `d`. `sorted_score_indices` keeps its
  stale tail, since the code never clears it. `range_exceeded` stands for the comparison
  of the slot with `start_computing_scores_slot`.
* `pool` is the stake pool: validator list and epoch of the last update. The stake pool
  program is external; two of its instructions matter, the update that makes
  deactivated entries ready for removal and the clean-up that drops them.
* `clock` has an epoch and three parts, separated by the thresholds
  `compute_score_epoch_progress` and `instant_unstake_epoch_progress`. The parameters do
  not force the first to come before the second; the model, like the deployed
  parameters, does.
* `mirror` is history: the validator each index of the steward was meant for, changed
  only by the steward's own additions and removals. `seen` counts who was scored,
  checked and rebalanced; `seen.late` says that a validator was scored in this cycle
  whose index is not below `num_pool_validators`.
* A crank with an index is an action with that index. The handlers differ in
  whether they transition before or after the checks: `transition_unchecked`
  is the early return of `compute_instant_unstake` and `rebalance`, which comes
  before every check; `compute_score_early` that of `compute_score`, which comes
  after `state_checks`; `rebalance_directed_absent` marks a target that is not in
  the list in any state.
* How much stake moves is left out; `rebalance` has one of three outcomes, of which only
  taking stake by instant unstake changes the delegations. It fails for a closed vote account whose
  validator is not marked for removal. When stake has to be moved for an index that the rankings lack
  it fails as well; as the stakes are left out the action may succeed there (there may be nothing to
  move), but fairness does not rely on it (`FindsRank`). What `validator_score` and
  `instant_unstake_validator` compute are the constants `Score` and `Delinquent`. That the
  validator history is recent enough is assumed as long as the vote account is open. A vote account may be closed at any
  time (`VoteAccountCloses`) and `failed` remembers it until the validator is removed and after; a stake counts as deactivated when
  `auto_remove_validator_from_pool` notices it.
* A panic (`PlaceFor` meeting an entry that is no index, `select_validators_to_delegate`
  reading beyond the scores) aborts the instruction and is a guard.

## Runs

| Run | Question | Instance |
| --- | --- | --- |
| `squads_voting` | are decisions those of the current voters whoever changes the multisig during the vote, does it stay valid, what is left of the config authority's power when it resigns, and can everybody cancel however the membership grew? | 3 keys, 1 index; 3 voters with threshold 2, or a config authority and 1 or 2 members at first; all its instructions with valid and invalid arguments; config transactions that remove a voter or raise the threshold |
| `squads_batch` | do transactions of all kinds run in order, unchanged since the vote, once, also inside one another, and come to an end, and is one that another makes stale left alone? | 2 members, 2 indices, 2 transactions per batch, time lock raised or a voter removed, nesting 2 |
| `squads_spending_limit` | is the allowance kept per period and in all? | limits of 1 and 2 tokens, periods 1, 2 and none, time 0..6 |
| `squads_buffer` | is what is created from a buffer what its creator declared, once? | 2 creators, 3 buffers, pieces of up to 2 bits, messages of up to 3, a hash with collisions |
| `ntt_rate_limit` | how much can pass in a window? | limits 0, 2 and 5, amounts 0, 1 and 3, duration 3, time 1..8 |
| `ntt_quorum` | who approves an incoming transfer, whatever the owner does meanwhile? | 3 transceivers, one faulty, thresholds 1 to 3, a real and a phantom message |
| `ntt_bridge` | are tokens conserved, and do transfers arrive? | a locking and a burning chain with 2 and 1 decimals, a transfer each way, delays, pauses, limits |
| `ntt_admin` | can a hand-over go wrong? | 2 users, an unusable address, 2 SPL multisigs |
| `steward_cycle` | does the steward keep its indices, its cycle and its shares in order? | 2 validators and 1 that may join, 2 that may fail, 1 delinquent, 1 directed target, 3 epochs, scoring every 2 |
| `squads_removed_member`, `steward_additions`, `steward_few` | what comments say and the code does not do (below) | instances of `squads_spending_limit` and `steward_cycle`, the latter with a score for everybody |

Properties of Squads, with what would break them:

* `FreshVotesCount`: a proposal that is not stale counts only votes of keys that may
  vote now, each on one side, and its status is what the counts say. It
  fails as soon as one configuration change forgets to invalidate.
* `OnlyApprovedExecutes`, `ConfigByConsent`, `StaleIsFinal`: what a step may do. Execution needs
  approval, and for config transactions freshness; an autonomous multisig changes
  only by an executed config transaction and stays autonomous.
* `RejectionIsFinal` and `NoLimbo` pin the cutoff from both sides.
* `PayloadFrozen`: from activation until it can no longer be executed a
  transaction keeps its account and a batch its content.
* `ExecutedOnceInOrder`, `NoLostUpdate`: nested execution. Without
  `protected_accounts` TLC finds a vault transaction that runs itself.
* `ImplementsLifecycle`: every behaviour is one of `TransactionLifecycle`: phases
  only move forward, through proposals closed and created again, too.
* `CancelNeverStuck`: every check that `proposal_cancel_v2` makes (`MayCancelV2`, the fit of the
  votes in the account included) succeeds for every voter who has not cancelled an approved
  proposal, unless an execution in progress protects the account. It fails without the reallocation.
* `BatchesFinish` (liveness), `SpentPerPeriod`, `LifetimeBound`.
* `CreatedAsDeclared` relates a transaction to the creation of the buffer it came
  from, across all that happened in between; `UsedOnce` is why the buffer is closed
  in the same instruction.

Properties of NTT:

* `WindowBound`: what passes undelayed in any window is at most the highest limit,
  its refill over the window, the backflow and what the owner added.
  It fails when a change of the limit restarts the bucket. `BucketSound`: the assertion of `capacity_at` holds, and a
  bucket left alone is full, although growth is divided.
* `ThresholdReachable`, `VotesAttested`, `ApprovedByThreshold`: at the moment of
  approval, at least `threshold` transceivers that are enabled *then* hold the
  message; bits cast earlier by one since disabled do not count, and no id is
  handed out twice. `ReleaseForward`: the status of an item moves forward only, its time is
  fixed by the first approval, and users' tokens grow only with it.
* `Backed`: locked = circulating + under way, in common units, at all times.
* `ImplementsTransfers`: every behaviour is one of `TokenTransfers`. Where `Backed` compares sums over
  the chains that mint, this follows each transfer and the users of all chains: nobody loses or gets tokens but by a transfer, which is paid
  once, where it was sent to, with the value that was taken. It fails if the sender is charged
  the dust that the message does not carry, which `Backed` does not notice on a chain that locks.
* `Delivery` (liveness): if two chains stay connected from some time on, through a
  fixed set of transceivers that is large enough, a transfer is paid out, whatever the owners did
  before: votes may have been cast by transceivers disabled since, or be enough already under a lowered
  threshold. It fails when a transceiver may redeem an item only once.
* `HandoverLocked`, `NeverLockedOut`, `MintHandover`: while a hand-over is open the
  upgrade authority is with `upgrade_lock`, from which both sides can get it; only the
  one-step transfer can give the program to an address that cannot sign; the mint authority
  leaves only while paused, and after two steps only to the address named last.

Properties of the steward:

* `Aligned`: when the checks that cranks make on epoch, removals and *length* succeed, the
  lists are equal, not only equally long. It fails if `auto_remove_validator_from_pool`
  does not compare lengths, since the index then means different validators to the two programs.
* `DataFollows`, `NoneSkipped`, `RebalancedOnce`: what is known of a validator, and
  that it was dealt with, moves with it when indices shift in the middle of a phase.
* `SharesFit`: shares add up to at most the pool. `BestChosen`: they go to the best, if only
  validators of the cycle were scored.
* `InCycle`: transitions made before any check do not start the loop on delegations of
  an old cycle or before the directed stake.
* `LoopCompletes` (liveness): the loop of the last epoch is completed, also when vote accounts
  are closed during it, unless a validator that joined late was scored for the ranking in use (`AdditionsWait`).
  It does not hold of a pool with fewer validators than `num_delegation_validators`, all of them with a score
  (`FewAreAllSelected`): the instance of `steward_cycle` has a validator that stays and whose score is 0, which keeps
  `select_validators_to_delegate` from failing. With a score for everybody these two are the only
  ways to be stuck: TLC checked that once, with such a pool excused as well.

**Bounds.** Two transactions are enough for one to make the other stale and for one
to be executed inside the other; executions in progress never share an index, so
two indices give a nesting of two, and deeper nesting is covered by the proofs. `squads_voting` has one transaction,
during which every other instruction may change the multisig; that one transaction changes it while another is voted on is in
`squads_batch`. Three voters with threshold 2 is the
smallest multisig in which approval, rejection and a split vote are all
possible. Two transactions in
a batch have a first and a last. `MaxTime` covers time lock and approval; for
spending limits three periods of length 2 include skipping one. Three buffers at
two addresses mean that an address is used again; pieces of up to two bits over-
and undershoot messages of one to three, and the weak hash makes the size check
matter.
For NTT, a duration of 3 with limits 2 and 5 makes every division round, and time 8 has two full
refills; three transceivers with thresholds 1 to 3 include
every way of losing or gaining one between votes; an amount of 25 with 2 decimals leaves
dust on a chain with 1, and the limits delay transfers in both directions. For the steward, two
initial validators, one of which can fail, and one that joins and can fail, have
removals below, at and above `num_pool_validators`; three epochs hold the end of a cycle, a
scoring and the loop after it. Its safety properties were also checked once on
larger instances (all three validators failing, 3.4 million states; three
initial validators and one more), in which a vote account closes only as its validator is removed. `BestChosen` was also checked once
with three validators of the cycle and one share, so that one is inserted before, between or after two others and a removal shifts
entries on both sides of it.
The theorems remove these bounds for the invariants they cover. `ntt_rate_limit` bounds the
history by a state constraint, which `NttLimiterProofs` does without.

**Symmetry** is not used: keys, chains and validators differ by role in every
instance, and temporal properties are checked.

**Deadlock** is not checked: all steps are requests of users, and a system in
which everything is decided, or whose clock has reached its bound, may rest.

**Fairness.** Nothing in the programs schedules anything, so fairness is that of the people who
call them, assumed only where calls need no particular signer or where calling
is somebody's task:

* `squads_batch` (`BatchesFinish`): time passes, a call that was made returns (the runtime's
  compute budget ends every transaction) and executors keep trying the approved
  batches, whose messages succeed. Voters may change their minds for ever, and an
  approved *empty* batch can only be cancelled (`BatchesFinish` requires a transaction).
* `ntt_bridge` (`Delivery`): time passes, and for each item and transceiver somebody eventually
  relays, receives, redeems and releases what can be (weak fairness; all four
  are permissionless). An item whose delay goes beyond `MaxTime` is excused.
* `steward_cycle` (`LoopCompletes`): time passes, and *some* crank that changes anything is made
  as long as there is one (weak fairness of `SureCrank` as a whole, the repository's keeper loop `crank_steward`).
  Only instructions that cannot fail count: not the score or check of a validator whose vote account is closed, since its
  history may be out of date, not its rebalance, and not the rebalance of an index that the rankings may
  lack. The keeper also removes validators whose vote account is closed (`_handle_delinquent_validators`). Nothing is assumed
  about the order; additions, closing of vote accounts and removals for other reasons are not fair.

## Findings

Three comments disagree with the code, each with a run in which TLC exhibits the
difference.

* `state/config_transaction.rs:68` (Squads) says that a removed member can no longer use a
  spending limit; only the limit's own list is checked
  (`RemovedMemberCannotSpend`), as `state/spending_limit.rs:41` says.
* `state/steward_state.rs:700` (steward) says that validators added after scoring has begun
  are not considered. `compute_score` accepts their indices, which are at or above
  `num_pool_validators`: they enter the ranking and the count of scores made
  (`AdditionsWait`). `select_validators_to_delegate` then indexes the scores, cut to
  `num_pool_validators`, beyond their end, and `compute_delegations` fails until the next epoch; or the
  ranking lacks a validator of the cycle. The repository's keeper never does it
  (`get_unprogressed_validators` stops at `num_pool_validators`); the program does not prevent it.
* `state/steward_state.rs:1221` (steward) says that all non-zero scores are selected when there are fewer than
  `num_delegation_validators`. With fewer validators in the pool than that and no score of 0,
  `select_validators_to_delegate` slices the ranking beyond its end and panics (`FewAreAllSelected`): `compute_delegations` fails
  for the rest of the epoch and in the following ones until the pool has grown, a score is 0 or the parameter is lowered.

Noticed while modelling or proving, without a run:

* Steward: the comment of `compute_delegations` (`state/steward_state.rs:796`) says that it finds the top validators. It takes the head of
  the ranking, and after additions were scored (`AdditionsWait`) the ranking need not be in the order of the scores: `remove_validator`
  shifts scores only below `num_pool_validators` but renumbers the ranking throughout. With scores a 3, b 1, c 2 and d, which joins
  late, 4: d and a are scored, b is removed, which makes d's entry mean an index whose score is 0, so that c, scored next, is
  put in front of a; when d is removed too the only share goes to c. The attempt to prove `BestChosen` without its
  premise `~seen.late` led to this; the premise is what the comment at line 700 promises.
* Squads `proposal_create.rs:56` says that proposals are created for existing transactions
  only; an index whose accounts were closed passes the check. It is harmless, as
  `ImplementsLifecycle` and `ExecutedOnceInOrder` show: the transaction account never comes back.
* Squads `state/spending_limit.rs:85` says that a OneTime limit can be used once; it can be
  used until it is exhausted. `state/transaction_buffer.rs:19` says that the buffer's
  `vault_index` is that of the transaction; the field is never read. `state/proposal.rs:191`
  says that a Draft proposal can be voted on, while votes require `Active`.
  `transaction_buffer_create.rs:72` and `errors.rs:89` say 4000 bytes where `MAX_BUFFER_SIZE` is 10128.
* Steward: nothing sets `RESET_TO_IDLE`, although comments in `compute_instant_unstake` and `rebalance`
  give it as the reason for transitioning first.
* Steward: `remove_validator_from_pool` and `add_validator_to_pool` of `spl_passthrough.rs`, for the
  administrator, check the epoch but not that lengths agree, unlike their `auto_` counterparts;
  `remove_validator_check_epoch`, the variant that breaks `Aligned`, is that check. The administrator must
  not use them between a clean-up of the pool and the removal by the steward.

## Proofs

`SquadsMultisigProofs`, for every finite set of keys, action lists, thresholds,
nesting depth and bound on the indices:

* `TypeCorrect`: `Spec => []TypeOK`, one lemma per group of actions. The type invariants
  of `SquadsMultisig`, `SquadsSpendingLimit`, `NttLimiter`, `NttAdmin` and `Steward` are proved and
  not run; those of the other modules are run as well.
* `ExecutionInvariant`: `Spec => []ExecInv`. `ExecutedOnceInOrder` is about the ledger
  only and not inductive. `ExecInv` adds, per index, that an index not yet handed
  out has no accounts and no history; that once the proposal was marked Executed
  either it still is or the transaction account is gone (for ever, indices are
  not reused); and that an unfinished batch's position is the length of its
  ledger. Per frame, it says that the copies equal the accounts, that the proposal
  is Approved, that the accounts are protected, and that no two frames share an index. The last
  two are what `protected_accounts` buys: `WritableIsFree` turns a `Writable`
  guard into "no frame holds it", so that each action touches only free accounts.
* `ExecutedOnce`: `Spec => []ExecutedOnceInOrder`; `WriteBackIsSafe`:
  `Spec => []NoLostUpdate`. Both follow from `ExecInv`.

`SquadsVoteProofs`, on top of these, under the same assumptions. About thirty actions, some of them nested
in executions, can write the multisig, proposals and transactions; `StepEffect` shows that a step has
one of a dozen *effects* (`Configured`, `Opened`, `Voted`, `ConfigExecuted`, `Ran`, `Closed`, ...), and
each property is proved once per effect:

* `MultisigAlwaysSound` (`[]MultisigSound`): every writer of the account calls `invariant()`.
* `VotesStayFresh` (`[]FreshVotesCount`): the voters of a proposal that is not stale are present members with the
  permission, and the number of its votes agrees with its status and with the threshold as it is now. It is inductive with
  `MultisigSound`, because a change of members or threshold calls `invalidate_prior_transactions` and so
  makes every proposal there is stale. `RejectionsAreFinal` and `OpenProposalsHaveVoters` follow from it by counting.
* `ExecutionNeedsApproval`, `ChangesNeedConsent`, `StaleStaysFinal`, `PayloadStaysFrozen`: the action properties
  `OnlyApprovedExecutes`, `ConfigByConsent`, `StaleIsFinal` and `PayloadFrozen`.
* `CancelIsNeverStuck` (`[]CancelNeverStuck`). `SpaceInv` says that the approvals and rejections fit in the room for one list, and that
  a proposal that is not stale has room for all members: it was created under the present rules. A vote on such a proposal is by
  a present voter on one side only (`FreshVotesCount`), so both lists together are within the members (`VotersWithinMembers`); on
  a stale one nobody votes. A cancellation drops those who left, so the third list is within the members as well, for whom the
  account is enlarged (`CancellationFits`). That the three lists share one account is essential: the first two
  may be of members who left and the third of more members than were ever there before.
* `ProgramImplementsLifecycle`: `Spec => ImplementsLifecycle`. Initial states map to initial states, and `LifecycleStep`
  matches each effect with a step of `TransactionLifecycle` or a stutter; closing one account after another of a
  finished transaction is a stutter or an `Abandon`.

`SquadsSpendingLimitProofs`: `LimitTypeCorrect` (no underflow, `last_reset` not in the
future) and `LimitIsKept`: `Spec => []LifetimeBound`. The strengthening
`AllowanceInv` says that `last_reset` is `n` whole periods after the creation, and
that what was sent plus what remains is at most `n + 1` allowances: a refill is
paid for by the periods `last_reset` moves over. `PeriodIsKept`: `Spec => []SpentPerPeriod`, from
`PeriodInv`: what was sent in the period that `last_reset` begins and what remains are together within the amount, and later
periods are untouched. The case that needs thought is a reset at a time that is exactly the end of a period: what remains
then can be sent in the period that ends and in the one that begins, and neither exceeds the amount, because nothing
was sent before in the one that ends.

`SquadsTransactionBufferProofs`: `BufferTypeCorrect`, `CreationIsFaithful`
(`[]CreatedAsDeclared`) and `CreationIsOnce` (`[]UsedOnce`), for every hash function.
The strengthening `BufferInv` adds what buffers still open owe to the future:
each carries the declaration of its own life (`Carries`), and no life is shared by
two buffers or by a buffer and a transaction (`Apart`).

`NttLimiterProofs`, for all limits, amounts and durations: `LimiterTypeCorrect`,
`BucketIsSound` (`[]BucketSound`) and `WindowIsBounded` (`[]WindowBound`). The inductive invariant
`LimiterInv` says that what was admitted *plus what the bucket holds* is within the bound
(`Balanced`), with the refill counted only up to the last use: a transfer moves from one to the other, and
`Grown` shows that bringing the bucket up to date keeps it, in spite of the rounding. A limiter not
touched since the window began has let nothing through (`Untouched`).

`NttAdminProofs`, for any users, addresses and SPL multisigs: `AdminTypeCorrect`, `HandoverIsLocked`,
`OwnerCanSign` (`[]NeverLockedOut`) and the action property `MintHandoverIsSafe`, from one invariant `AdminInv`.

`NttManagerProofs`, for any finite set of chains, decimals, transceivers, limits, attestations and administration:

* `TypeCorrect` and `ThresholdStaysReachable` (`[]ThresholdReachable`) from `AccountInv`, the conjunction of
  `AdminInv` (types of the config, ids of transceivers are below `BITS`, the threshold is between 1 and the number of enabled
  bits), `LimitInv`, `MessageInv`, `InboxInv` and `TokenInv`. It holds of everything a message may say, sent or made up.
* `VotesAreAttestations` (`[]VotesAttested`): a bit in an inbox item stands for a transceiver that delivered just this
  message. The strengthening is that ids are injective and never reassigned, also when a transceiver is deregistered.
* `ApprovalNeedsThreshold` (`ApprovedByThreshold`): an item leaves `NotApproved` only in a step in which as many different enabled
  transceivers as the threshold have attested to it. `ItemsMoveForward`: `ReleaseForward`.
* `LockedBacksTheRest`: `Backed` always, *if* `Honest` holds: no transceiver attests to what nobody sent, and peers
  are registered with the decimals they have. (The code trusts both; without `Honest` the claim is false.) `DecimalsInv`
  says that the decimals of peers are right and that an amount in an outbox has no more decimals than either side, so that trimming
  at the sender and untrimming at the receiver lose nothing (`UntrimKeepsValue`). `SentInv` says
  that every message at a receiver is the one in its sender's outbox, so that an item is released once for one transfer. Each step
  then changes locked, circulating and flying by amounts that cancel.
* `BridgeImplementsTransfers`: `Spec => ImplementsTransfers`, also if `Honest` holds. `SendRefines` matches a transfer with a `Send`: the item has
  an id not used before and a value equal to what the sender lost. `PayRefines` matches a release with a `Pay`: by `SentInv` the item was
  sent, to this chain, it is still pending as its status was `ReleaseAfter`, and by `DecimalsInv` untrimming gives its value. `Quiet`
  shows that all other instructions, relays and votes included, are stuttering.

  `pow10` and the sums are recursive functions and folds. What is needed of them is proved by sets instead of
  by a rule with an operator as parameter: a set of naturals that holds 0 and with each number the next one is the set of all
  (`SetInduction`, from `LeastElement`), applied to the set of exponents or of cardinalities for which the claim holds.

`StewardProofs`, for any validators, scores, failures, number of epochs and capacity up to what `sorted_score_indices` can
hold. What must hold of the state account is a predicate `AllOk(st, m, s)` of *any* account, the validators its indices
stand for and the history, so that it can be followed through an instruction: what the handler writes, then `remove_validator`
(`RemovalKeeps`) or `maybe_transition` (`TransitionKeeps`, from the description `Moved` of what each state may turn into).
`StewardInvariant` proves `[]StewardInv`, and these follow from it:

* `StewardTyped` (`[]TypeOK`), with the number of validators within `MAX_VALIDATORS`.
* `AlwaysInCycle` (`[]InCycle`). `CycleOk` adds which flags each state implies, in the steward's own epoch: the handlers that
  transition before they check anything are harmless because of these.
* `SharesAlwaysFit` (`[]SharesFit`). `SharesOk` adds that there are no shares while scores are computed, so that
  `compute_delegations` writes the only ones. Giving up a share takes one from the count and one from each denominator.
* `DataAlwaysFollows` (`[]DataFollows`), `NobodySkipped` (`[]NoneSkipped`), `OnlyRebalancedOnce` (`[]RebalancedOnce`). `SkipOk` adds
  that each bit of `progress` stands for a validator that was scored or checked; `OnceOk` that who was rebalanced has its bit as long as
  the loop runs, and that the loop does not start again once it is over (`LoopOver`).
* `AlwaysAligned` (`[]Aligned`). `AlignInv` says that the pool's list is embedded in the steward's indices by an increasing map
  that misses only marked ones, and in the steward's own epoch only those for immediate removal (an entry marked
  for the end of the epoch has stake that is still active). When the lengths agree such a map is the
  identity (`IncreasingIdentity`). `epoch_maintenance` removes only a missed index because all entries are active,
  `instant_remove_validator` because as many are missing as are marked for it (`AllMissing`).

* `BestAlwaysChosen` (`BestChosen`). `RankOk` says that, as long as `seen.late` is false, the ranking up to the number of
  validators scored is a permutation of their indices, in the order of their scores (`Ranked`). `PlaceSplits` shows that the place
  `insert_sorted_index` finds separates scores at least as high from lower ones, `InsertRanked` that inserting there keeps the ranking,
  `RenumberRanked` that `remove_validator` keeps it too, since it drops the one entry and lowers those above as it shifts the scores
  (`ShiftedCount`, `RemovalRank`). When all are scored, the selected are a prefix (`SelectedPrefix`), and whoever is not in a prefix
  of a sorted list is not better (`BestSelected`).

TLC checked `StewardInv`, `RankOk` and, of Squads, `SpaceInv` on the instances of the runs before they were proved.

Assumptions on constants: `KeysAssumption` (finitely many keys, the null key is
none), finitely many chains, bounds are naturals, the duration is positive, addresses of different kinds are distinct,
arguments have the types of the instructions, `MAX_VALIDATORS` is at most `SORTED_INDEX_DEFAULT`
(5000 and `u16::MAX` in the code), made-up messages have the type of messages (`PhantomsAssumption`), the chains that mint
start without supply (`BridgedAssumption`). TLC evaluates them in every run.

Only model-checked are the three liveness properties, `BatchesFinish`, `Delivery` and `LoopCompletes`, which are out of the
prover's reach; every other property of a passing run is a theorem. What the fold in `ApplyActions` computes is not
proved; it is intersected with `Settings` so that its type is known without induction over the list.

## Not modelled

* Squads: program config (three setters), serialisation, rent, the content of messages.
* NTT: fees and hooks of token extensions, lookup tables, broadcasts, the quoter, governance, the
  checks of the Wormhole core bridge, transceivers other than the built-in one beyond what the
  manager sees of them.
* Steward: lamports, caps on unstaking and the arithmetic of delegations and scores; the
  lamports of directed stake, its tickets and whitelist; pausing; the administrator's
  instructions; the validator history program.
* The other programs of the repository, for the reasons given in `PROJECT.json`.

## Plan

Done: the three systems above, with all their safety properties proved. Next: program config of Squads, a composition of
spending limits with `SquadsMultisig`, the administrator of the steward, and OpenBook's event heap.
