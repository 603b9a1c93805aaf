------------------------ MODULE SquadsMultisigProofs ------------------------
(***************************************************************************)
(* Proofs about SquadsMultisig for every set of keys, every bound and      *)
(* every argument the instructions are called with.                        *)
(***************************************************************************)
EXTENDS SquadsMultisig, SequenceTheorems, FiniteSetTheorems, TLAPS

-----------------------------------------------------------------------------
(* What the helpers return *)

\* Closing an account leaves the empty value of its type.
LEMMA EmptyAccountTypes == NoProposal \in Proposal /\ NoTransaction \in Transaction
  BY DEF NoProposal, Proposal, Status, NoTransaction, Transaction, OptionalKey

\* A vote leaves a proposal.
LEMMA VoteTypes ==
    ASSUME NEW p \in Proposal, NEW member \in Keys, NEW limit \in Nat, NEW now \in Nat
    PROVE  /\ approve(p, member, limit, now) \in Proposal
           /\ reject(p, member, limit) \in Proposal
           /\ cancel(p, member, limit) \in Proposal
           /\ Executed(p) \in Proposal
           /\ realloc_if_needed(p, limit) \in Proposal
  BY DEF approve, reject, cancel, Executed, realloc_if_needed, Proposal, Status

\* Removing an entry leaves a sequence over the same set.
LEMMA RemoveAtType ==
    ASSUME NEW T, NEW s \in Seq(T), NEW n \in DOMAIN s
    PROVE  RemoveAt(s, n) \in Seq(T)
  <1>1. n \in 1 .. Len(s)
    OBVIOUS
  <1>2. SubSeq(s, 1, n - 1) \in Seq(T) /\ SubSeq(s, n + 1, Len(s)) \in Seq(T)
    BY <1>1, SubSeqProperties
  <1> QED
    BY <1>2, ConcatProperties DEF RemoveAt

\* Adding or removing a member leaves a multisig.
LEMMA AddMemberType ==
    ASSUME NEW ms \in Multisig, NEW member \in Member
    PROVE  add_member(ms, member) \in Multisig
  <1>1. member.key \in Keys /\ member.permissions \in SUBSET Permission
    BY DEF Member
  <1>2. Append(ms.members[member.key], member.permissions) \in Seq(SUBSET Permission)
    BY <1>1, AppendProperties DEF Multisig
  <1> QED
    BY <1>1, <1>2 DEF add_member, Multisig

LEMMA RemoveMemberType ==
    ASSUME NEW ms \in Multisig, NEW key \in Keys, NEW removed \in remove_member(ms, key)
    PROVE  removed \in Multisig
  <1>1. PICK n \in DOMAIN ms.members[key] :
           removed = [ms EXCEPT !.members[key] = RemoveAt(@, n)]
    BY DEF remove_member
  <1>2. RemoveAt(ms.members[key], n) \in Seq(SUBSET Permission)
    BY RemoveAtType DEF Multisig
  <1> QED
    BY <1>1, <1>2 DEF Multisig

\* The members and the voters of a multisig can be counted.
LEMMA CountTypes ==
    ASSUME NEW ms
    PROVE  /\ IsFiniteSet(Voters(ms))
           /\ num_members(ms) \in Nat
           /\ num_voters(ms) \in Nat
  <1>1. IsFiniteSet({k \in Keys : is_member(ms, k)}) /\ IsFiniteSet(Voters(ms))
    BY KeysAssumption, FS_Subset DEF Voters, Holders
  <1> QED
    BY <1>1, FS_CardinalityType DEF num_members, num_voters

-----------------------------------------------------------------------------
(* Type correctness *)

LEMMA InitTypeOK == Init => TypeOK
  <1> SUFFICES ASSUME Init PROVE TypeOK
    OBVIOUS
  <1>1. multisig \in Multisig /\ multisig.transaction_index = 0
    BY CreateAssumption DEF Init, multisig_create, Multisig
  <1> QED
    BY <1>1, EmptyAccountTypes, BoundsAssumption DEF Init, TypeOK

LEMMA ProposalStepTypeOK == TypeOK /\ ProposalStep => TypeOK'
  <1> SUFFICES ASSUME TypeOK, ProposalStep PROVE TypeOK'
    OBVIOUS
  <1>1. PICK member \in Keys, i \in Index :
           \/ \E draft \in BOOLEAN : proposal_create(member, i, draft)
           \/ proposal_activate(member, i)
           \/ proposal_approve(member, i)
           \/ proposal_reject(member, i)
           \/ proposal_cancel(member, i)
           \/ proposal_cancel_v2(member, i)
    BY DEF ProposalStep
  <1> DEFINE Rest == UNCHANGED <<multisig, spendingLimits, transactions, clock, frames, ledger>>
  <1>2. ASSUME NEW p \in Proposal, SaveProposal(i, p), Rest
        PROVE  TypeOK'
    BY <1>2 DEF SaveProposal, TypeOK
  <1>3. /\ proposals[i] \in Proposal
        /\ multisig.threshold \in Nat
        /\ clock \in Nat
        /\ num_members(multisig) \in Nat
    BY CountTypes DEF TypeOK, Multisig
  <1>4. ASSUME NEW draft \in BOOLEAN, proposal_create(member, i, draft)
        PROVE  TypeOK'
    <2> DEFINE p == [NoProposal EXCEPT !.status = IF draft THEN "Draft" ELSE "Active",
                                       !.space = num_members(multisig)]
    <2>1. p \in Proposal
      BY <1>3 DEF NoProposal, Proposal, Status
    <2>2. SaveProposal(i, p) /\ Rest
      BY <1>4 DEF proposal_create
    <2> QED
      BY <1>2, <2>1, <2>2
  <1>5. CASE proposal_activate(member, i)
    <2>1. [proposals[i] EXCEPT !.status = "Active"] \in Proposal
      BY <1>3 DEF Proposal, Status
    <2> QED
      BY <1>2, <1>5, <2>1 DEF proposal_activate
  <1>6. CASE proposal_approve(member, i)
    <2>1. approve(proposals[i], member, multisig.threshold, clock) \in Proposal
      BY <1>3, VoteTypes
    <2> QED
      BY <1>2, <1>6, <2>1 DEF proposal_approve
  <1>7. CASE proposal_reject(member, i)
    <2>1. reject(proposals[i], member, cutoff(multisig)) \in Proposal
      BY <1>3 DEF reject, Proposal, Status
    <2> QED
      BY <1>2, <1>7, <2>1 DEF proposal_reject
  <1>8. RetainMembers(proposals[i]) \in Proposal
    BY <1>3 DEF RetainMembers, Proposal
  <1>9. WithCancellation(member, i) \in Proposal
    BY <1>3, <1>8, VoteTypes DEF WithCancellation
  <1>10. CASE proposal_cancel(member, i)
    BY <1>2, <1>9, <1>10 DEF proposal_cancel
  <1>11. CASE proposal_cancel_v2(member, i)
    <2>1. realloc_if_needed(WithCancellation(member, i), num_members(multisig)) \in Proposal
      BY <1>3, <1>9, VoteTypes
    <2> QED
      BY <1>2, <1>11, <2>1 DEF proposal_cancel_v2, Reallocated
  <1> QED
    BY <1>1, <1>4, <1>5, <1>6, <1>7, <1>10, <1>11

\* The three create instructions differ in the account they initialise only.
LEMMA CreateTransactionTypeOK ==
    ASSUME TypeOK, NEW creator \in Keys, NEW tx \in Transaction,
           CreateTransaction(creator, tx)
    PROVE  TypeOK'
  <1> DEFINE i == multisig.transaction_index + 1
  <1>1. i \in Index
    BY BoundsAssumption DEF CreateTransaction, TypeOK, Multisig, Index
  <1>2. multisig' \in Multisig /\ multisig'.transaction_index <= MaxIndex
    <2>1. i \in Nat /\ i <= MaxIndex
      BY <1>1, BoundsAssumption DEF Index
    <2>2. multisig' = [multisig EXCEPT !.transaction_index = i]
      BY DEF CreateTransaction
    <2> QED
      BY <2>1, <2>2 DEF TypeOK, Multisig
  <1>3. transactions' \in [Index -> Transaction]
    BY <1>1 DEF CreateTransaction, TypeOK
  <1> QED
    BY <1>2, <1>3 DEF CreateTransaction, TypeOK

LEMMA TransactionStepTypeOK == TypeOK /\ TransactionStep => TypeOK'
  <1> SUFFICES ASSUME TypeOK, TransactionStep PROVE TypeOK'
    OBVIOUS
  <1>1. PICK member \in Keys :
           \/ \E actions \in ConfigActionLists : config_transaction_create(member, actions)
           \/ vault_transaction_create(member)
           \/ batch_create(member)
           \/ \E i \in Index : batch_add_transaction(member, i)
    BY DEF TransactionStep
  <1>2. ASSUME NEW actions \in ConfigActionLists, config_transaction_create(member, actions)
        PROVE  TypeOK'
    <2>1. [NoTransaction EXCEPT !.kind = "Config", !.actions = actions] \in Transaction
      BY ArgumentsAssumption DEF NoTransaction, Transaction, OptionalKey
    <2> QED
      BY <1>2, <2>1, CreateTransactionTypeOK DEF config_transaction_create
  <1>3. CASE vault_transaction_create(member)
    <2>1. [NoTransaction EXCEPT !.kind = "Vault"] \in Transaction
      BY EmptyAccountTypes DEF Transaction, OptionalKey
    <2> QED
      BY <1>3, <2>1, CreateTransactionTypeOK DEF vault_transaction_create
  <1>4. CASE batch_create(member)
    <2>1. [NoTransaction EXCEPT !.kind = "Batch", !.creator = member] \in Transaction
      BY EmptyAccountTypes DEF Transaction, OptionalKey
    <2> QED
      BY <1>4, <2>1, CreateTransactionTypeOK DEF batch_create
  <1>5. ASSUME NEW i \in Index, batch_add_transaction(member, i)
        PROVE  TypeOK'
    <2>1. transactions[i] \in Transaction
      BY DEF TypeOK
    <2>2. /\ transactions[i].size + 1 \in Nat
          /\ transactions[i].accounts \cup {transactions[i].size + 1} \in SUBSET (Nat \ {0})
      BY <2>1 DEF Transaction
    <2>3. transactions' \in [Index -> Transaction]
      BY <1>5, <2>1, <2>2 DEF batch_add_transaction, TypeOK, Transaction
    <2> QED
      BY <1>5, <2>3 DEF batch_add_transaction, TypeOK
  <1> QED
    BY <1>1, <1>2, <1>3, <1>4, <1>5

\* Loading the accounts of an execution and writing them back.
LEMMA InvokeTypeOK ==
    ASSUME TypeOK, NEW i \in Index,
           NEW protected \in SUBSET {ProposalAccount(i), BatchAccount(i)},
           Invoke(i, protected)
    PROVE  TypeOK'
  <1>1. protected \in SUBSET ({"proposal", "batch"} \X Index)
    BY DEF ProposalAccount, BatchAccount
  <1>2. [index |-> i, proposal |-> proposals[i], transaction |-> transactions[i],
         protected |-> protected] \in Frame
    BY <1>1 DEF Frame, TypeOK
  <1> QED
    BY <1>2, AppendProperties DEF Invoke, TypeOK

LEMMA ExecuteStepTypeOK == TypeOK /\ ExecuteStep => TypeOK'
  <1> SUFFICES ASSUME TypeOK, ExecuteStep PROVE TypeOK'
    OBVIOUS
  <1>1. ASSUME NEW member \in Keys, NEW i \in Index, config_transaction_execute(member, i)
        PROVE  TypeOK'
    <2>1. PICK s \in Settings :
             /\ multisig' = AfterActions(multisig, s, transactions[i].actions)
             /\ spendingLimits' = s.limits
      BY <1>1 DEF config_transaction_execute, ApplyActions
    <2>2. multisig' \in Multisig /\ multisig'.transaction_index <= MaxIndex
      BY <2>1 DEF AfterActions, invalidate_prior_transactions, Settings, TypeOK, Multisig
    <2>3. spendingLimits' \in SUBSET LimitKeys
      BY <2>1 DEF Settings
    <2>4. Executed(proposals[i]) \in Proposal
      BY DEF TypeOK, Executed, Proposal, Status
    <2>5. ledger' \in [Index -> Seq(Nat)]
      BY <1>1, AppendProperties DEF config_transaction_execute, TypeOK
    <2> QED
      BY <1>1, <2>2, <2>3, <2>4, <2>5
      DEF config_transaction_execute, SaveProposal, TypeOK
  <1>2. ASSUME NEW member \in Keys, NEW i \in Index, vault_transaction_execute(member, i)
        PROVE  TypeOK'
    BY <1>2, InvokeTypeOK DEF vault_transaction_execute
  <1>3. ASSUME NEW member \in Keys, NEW i \in Index, batch_execute_transaction(member, i)
        PROVE  TypeOK'
    BY <1>3, InvokeTypeOK DEF batch_execute_transaction
  <1>4. ASSUME frames # <<>>
        PROVE  /\ Innermost \in Frame
               /\ SubSeq(frames, 1, Len(frames) - 1) \in Seq(Frame)
    <2>1. Len(frames) \in 1 .. Len(frames)
      BY <1>4, EmptySeq, LenProperties DEF TypeOK
    <2> QED
      BY <2>1, SubSeqProperties DEF Innermost, TypeOK
  <1>5. CASE vault_transaction_return
    <2>1. Innermost \in Frame /\ frames' \in Seq(Frame)
      BY <1>4, <1>5 DEF vault_transaction_return, Return
    <2>2. Executed(Innermost.proposal) \in Proposal /\ Innermost.index \in Index
      BY <2>1 DEF Executed, Frame, Proposal, Status
    <2>3. ledger' \in [Index -> Seq(Nat)]
      BY <1>5, <2>2, AppendProperties DEF vault_transaction_return, TypeOK
    <2> QED
      BY <1>5, <2>1, <2>2, <2>3 DEF vault_transaction_return, Return, SaveProposal, TypeOK
  <1>6. CASE batch_transaction_return
    <2> DEFINE batch == Innermost.transaction
               n == batch.executed_transaction_index + 1
               p == IF n = batch.size THEN Executed(Innermost.proposal)
                                      ELSE Innermost.proposal
               entries == IF n = batch.size THEN <<n, 0>> ELSE <<n>>
    <2>1. Innermost \in Frame /\ frames' \in Seq(Frame)
      BY <1>4, <1>6 DEF batch_transaction_return, Return
    <2>2. p \in Proposal /\ Innermost.index \in Index /\ batch \in Transaction
      BY <2>1 DEF Executed, Frame, Proposal, Status
    <2>3. [batch EXCEPT !.executed_transaction_index = n] \in Transaction /\ n \in Nat
      BY <2>2 DEF Transaction
    <2>4. entries \in Seq(Nat)
      BY <2>3
    <2>5. ledger' \in [Index -> Seq(Nat)]
      <3>1. ledger' = [ledger EXCEPT ![Innermost.index] = @ \o entries]
        BY <1>6 DEF batch_transaction_return
      <3>2. ledger[Innermost.index] \o entries \in Seq(Nat)
        BY <2>2, <2>4, ConcatProperties DEF TypeOK
      <3> QED
        BY <3>1, <3>2 DEF TypeOK
    <2>6. /\ SaveProposal(Innermost.index, p)
          /\ transactions' = [transactions EXCEPT
                 ![Innermost.index] = [batch EXCEPT !.executed_transaction_index = n]]
          /\ UNCHANGED <<multisig, spendingLimits, clock>>
      BY <1>6 DEF batch_transaction_return, Return
    <2> QED
      BY <2>1, <2>2, <2>3, <2>5, <2>6 DEF SaveProposal, TypeOK
  <1> QED
    BY <1>1, <1>2, <1>3, <1>5, <1>6 DEF ExecuteStep

LEMMA ConfigStepTypeOK == TypeOK /\ ConfigStep => TypeOK'
  <1> SUFFICES ASSUME TypeOK, ConfigStep PROVE TypeOK'
    OBVIOUS
  <1>1. ASSUME NEW ms \in Multisig,
               ms.transaction_index = multisig.transaction_index,
               Configure(invalidate_prior_transactions(ms)) \/ Configure(ms)
        PROVE  TypeOK'
    BY <1>1 DEF Configure, invalidate_prior_transactions, TypeOK, Multisig
  <1>2. ASSUME NEW new_member \in NewMembers, multisig_add_member(new_member)
        PROVE  TypeOK'
    <2>1. new_member \in Member
      BY ArgumentsAssumption
    <2>2. /\ add_member(multisig, new_member) \in Multisig
          /\ add_member(multisig, new_member).transaction_index = multisig.transaction_index
      BY <2>1, AddMemberType DEF TypeOK, add_member, Multisig
    <2> QED
      BY <1>1, <1>2, <2>2 DEF multisig_add_member
  <1>3. ASSUME NEW old_member \in Keys, multisig_remove_member(old_member)
        PROVE  TypeOK'
    <2>1. PICK ms \in remove_member(multisig, old_member) :
             Configure(invalidate_prior_transactions(ms))
      BY <1>3 DEF multisig_remove_member
    <2>2. ms \in Multisig
      BY RemoveMemberType DEF TypeOK
    <2>3. ms.transaction_index = multisig.transaction_index
      BY DEF remove_member, TypeOK, Multisig
    <2> QED
      BY <1>1, <2>1, <2>2, <2>3
  <1>4. ASSUME NEW t \in NewThresholds, multisig_change_threshold(t)
        PROVE  TypeOK'
    <2> DEFINE ms == [multisig EXCEPT !.threshold = t]
    <2>1. ms \in Multisig /\ ms.transaction_index = multisig.transaction_index
      BY ArgumentsAssumption DEF TypeOK, Multisig
    <2> QED
      BY <1>1, <1>4, <2>1 DEF multisig_change_threshold
  <1>5. ASSUME NEW t \in NewTimeLocks, multisig_set_time_lock(t)
        PROVE  TypeOK'
    <2> DEFINE ms == [multisig EXCEPT !.time_lock = t]
    <2>1. ms \in Multisig /\ ms.transaction_index = multisig.transaction_index
      BY ArgumentsAssumption DEF TypeOK, Multisig
    <2> QED
      BY <1>1, <1>5, <2>1 DEF multisig_set_time_lock
  <1>6. ASSUME NEW key \in OptionalKey,
               multisig_set_config_authority(key) \/ multisig_set_rent_collector(key)
        PROVE  TypeOK'
    <2>1. ASSUME NEW ms, ms = [multisig EXCEPT !.config_authority = key]
                           \/ ms = [multisig EXCEPT !.rent_collector = key]
          PROVE  ms \in Multisig /\ ms.transaction_index = multisig.transaction_index
      BY <2>1 DEF TypeOK, Multisig
    <2> QED
      BY <1>1, <1>6, <2>1 DEF multisig_set_config_authority, multisig_set_rent_collector
  <1>7. ASSUME NEW limit \in LimitKeys,
               multisig_add_spending_limit(limit) \/ multisig_remove_spending_limit(limit)
        PROVE  TypeOK'
    BY <1>7 DEF multisig_add_spending_limit, multisig_remove_spending_limit, TypeOK
  <1> QED
    BY <1>2, <1>3, <1>4, <1>5, <1>6, <1>7 DEF ConfigStep

LEMMA CloseStepTypeOK == TypeOK /\ CloseStep => TypeOK'
  <1> SUFFICES ASSUME TypeOK, CloseStep PROVE TypeOK'
    OBVIOUS
  <1>1. ASSUME NEW i \in Index, CloseAccounts(i)
        PROVE  TypeOK'
    BY <1>1, EmptyAccountTypes DEF CloseAccounts, SaveProposal, TypeOK
  <1>2. ASSUME NEW i \in Index, vault_batch_transaction_account_close(i)
        PROVE  TypeOK'
    <2>1. transactions[i] \in Transaction
      BY DEF TypeOK
    <2>2. /\ transactions[i].size - 1 \in Nat
          /\ transactions[i].accounts \ {transactions[i].size} \in SUBSET (Nat \ {0})
      BY <1>2, <2>1 DEF vault_batch_transaction_account_close, Transaction
    <2>3. transactions' \in [Index -> Transaction]
      BY <1>2, <2>1, <2>2 DEF vault_batch_transaction_account_close, TypeOK, Transaction
    <2> QED
      BY <1>2, <2>3 DEF vault_batch_transaction_account_close, TypeOK
  <1> QED
    BY <1>1, <1>2
    DEF CloseStep, config_transaction_accounts_close, vault_transaction_accounts_close,
        batch_accounts_close

\* Every account always holds a value of its struct's type and the transaction
\* index stays within its bound, whatever instructions are called and nested.
THEOREM TypeCorrect == Spec => []TypeOK
  <1>1. TypeOK /\ [Next]_vars => TypeOK'
    <2> SUFFICES ASSUME TypeOK, [Next]_vars PROVE TypeOK'
      OBVIOUS
    <2>1. CASE Tick
      BY <2>1 DEF Tick, TypeOK
    <2>2. CASE UNCHANGED vars
      BY <2>2 DEF vars, TypeOK
    <2> QED
      BY <2>1, <2>2, ProposalStepTypeOK, TransactionStepTypeOK, ExecuteStepTypeOK,
         ConfigStepTypeOK, CloseStepTypeOK DEF Next
  <1> QED
    BY InitTypeOK, <1>1, PTL DEF Spec

-----------------------------------------------------------------------------
(* Executed at most once: the inductive invariant *)

\* The proposal of i was marked Executed at some time.
Completed(i) == \E n \in DOMAIN ledger[i] : ledger[i][n] = 0

\* The entries of the ledger are 1, 2, 3, ... and a 0 can only be the last one.
LedgerShape(i) ==
    \A n \in DOMAIN ledger[i] :
        ledger[i][n] = n \/ (ledger[i][n] = 0 /\ n = Len(ledger[i]))

\* What the accounts of index i say about what was executed.  ExecutedOnceInOrder
\* alone is not inductive: nothing in it keeps an Executed proposal from running
\* again, or ties the position in a batch to what ran.
AccountInv(i) ==
    /\ i > multisig.transaction_index =>
          /\ proposals[i].status = "NoAccount"
          /\ transactions[i].kind = "NoAccount"
          /\ ledger[i] = <<>>
    /\ LedgerShape(i)
    /\ Completed(i) =>
          transactions[i].kind = "NoAccount" \/ proposals[i].status = "Executed"
    /\ ~Completed(i) /\ transactions[i].kind = "Batch" =>
          Len(ledger[i]) = transactions[i].executed_transaction_index
    /\ ~Completed(i) /\ transactions[i].kind \in {"Config", "Vault"} => ledger[i] = <<>>

\* An execution in progress protects the accounts it will write back.
FrameInv(f) ==
    /\ proposals[f.index] = f.proposal
    /\ transactions[f.index] = f.transaction
    /\ f.proposal.status = "Approved"
    /\ f.transaction.kind \in {"Vault", "Batch"}
    /\ ProposalAccount(f.index) \in f.protected
    /\ f.transaction.kind = "Batch" => BatchAccount(f.index) \in f.protected

FramesInv ==
    /\ \A n \in DOMAIN frames : FrameInv(frames[n])
    /\ \A n, k \in DOMAIN frames : frames[n].index = frames[k].index => n = k

ExecInv == (\A i \in Index : AccountInv(i)) /\ FramesInv

\* An account that can be passed as writable belongs to no execution in progress.
LEMMA WritableIsFree ==
    ASSUME FramesInv, NEW i \in Index,
           \/ Writable(ProposalAccount(i))
           \/ transactions[i].kind = "Batch" /\ Writable(BatchAccount(i))
    PROVE  \A n \in DOMAIN frames : frames[n].index # i
  BY DEF FramesInv, FrameInv, Writable

\* Changing accounts that no execution in progress holds keeps FramesInv.
LEMMA FramesUntouched ==
    ASSUME FramesInv, TypeOK, frames' = frames, NEW i,
           \A n \in DOMAIN frames : frames[n].index # i,
           \A j \in Index \ {i} : proposals'[j] = proposals[j]
                                   /\ transactions'[j] = transactions[j]
    PROVE  FramesInv'
  <1>1. \A n \in DOMAIN frames : frames[n].index \in Index \ {i}
    <2>1. \A n \in DOMAIN frames : frames[n] \in Frame
      BY ElementOfSeq DEF TypeOK
    <2> QED
      BY <2>1 DEF Frame
  <1> QED
    BY <1>1 DEF FramesInv, FrameInv

\* AccountInv(j) depends on the accounts of j and the transaction index only.
LEMMA AccountsUntouched ==
    ASSUME NEW j \in Index, AccountInv(j),
           proposals'[j] = proposals[j], transactions'[j] = transactions[j],
           ledger'[j] = ledger[j], multisig'.transaction_index >= multisig.transaction_index,
           multisig.transaction_index \in Nat, multisig'.transaction_index \in Nat
    PROVE  AccountInv(j)'
  <1>1. j > multisig'.transaction_index => j > multisig.transaction_index
    BY DEF Index
  <1> QED
    BY <1>1 DEF AccountInv, LedgerShape, Completed

LEMMA InitExecInv == Init => ExecInv
  BY DEF Init, ExecInv, AccountInv, LedgerShape, Completed, FramesInv, FrameInv,
         NoProposal, NoTransaction

\* A step that changes only proposal i, and not when it is Executed.
LEMMA ProposalChangeExecInv ==
    ASSUME TypeOK, TypeOK', ExecInv, NEW i \in Index, NEW p, SaveProposal(i, p),
           UNCHANGED <<multisig, transactions, frames, ledger>>,
           Writable(ProposalAccount(i)),
           i <= multisig.transaction_index,
           proposals[i].status # "Executed"
    PROVE  ExecInv'
  <1>1. \A j \in Index \ {i} : proposals'[j] = proposals[j]
    BY DEF SaveProposal, TypeOK
  <1>2. FramesInv'
    BY <1>1, WritableIsFree, FramesUntouched DEF ExecInv
  <1>3. ASSUME NEW j \in Index
        PROVE  AccountInv(j)'
    <2>1. CASE j # i
      BY <1>1, <2>1, AccountsUntouched DEF ExecInv, TypeOK, Multisig
    <2>2. CASE j = i
      <3>1. AccountInv(i) /\ multisig.transaction_index \in Nat /\ i \in Nat
        BY DEF ExecInv, TypeOK, Multisig, Index
      <3> QED
        BY <2>2, <3>1 DEF AccountInv, LedgerShape, Completed
    <2> QED
      BY <2>1, <2>2
  <1> QED
    BY <1>2, <1>3 DEF ExecInv

LEMMA ProposalStepExecInv == TypeOK /\ TypeOK' /\ ExecInv /\ ProposalStep => ExecInv'
  <1> SUFFICES ASSUME TypeOK, TypeOK', ExecInv, ProposalStep PROVE ExecInv'
    OBVIOUS
  <1>1. PICK member \in Keys, i \in Index :
           \/ \E draft \in BOOLEAN : proposal_create(member, i, draft)
           \/ proposal_activate(member, i)
           \/ proposal_approve(member, i)
           \/ proposal_reject(member, i)
           \/ proposal_cancel(member, i)
           \/ proposal_cancel_v2(member, i)
    BY DEF ProposalStep
  <1>2. /\ Writable(ProposalAccount(i))
        /\ \E p : SaveProposal(i, p)
        /\ UNCHANGED <<multisig, transactions, frames, ledger>>
        /\ proposals[i].status # "Executed"
        /\ i <= multisig.transaction_index \/ proposals[i].status # "NoAccount"
    <2>1. ASSUME NEW draft \in BOOLEAN, proposal_create(member, i, draft)
          PROVE  <1>2!:
      BY <2>1 DEF proposal_create
    <2>2. CASE proposal_activate(member, i)
      BY <2>2 DEF proposal_activate
    <2>3. CASE proposal_approve(member, i)
      BY <2>3 DEF proposal_approve, MayVote
    <2>4. CASE proposal_reject(member, i)
      BY <2>4 DEF proposal_reject, MayVote
    <2>5. CASE proposal_cancel(member, i)
      BY <2>5 DEF proposal_cancel, MayCancel
    <2>6. CASE proposal_cancel_v2(member, i)
      BY <2>6 DEF proposal_cancel_v2, MayCancelV2, MayCancel
    <2> QED
      BY <1>1, <2>1, <2>2, <2>3, <2>4, <2>5, <2>6
  <1>3. i <= multisig.transaction_index
    BY <1>2 DEF ExecInv, AccountInv, TypeOK, Multisig, Index
  <1> QED
    BY <1>2, <1>3, ProposalChangeExecInv

LEMMA TransactionStepExecInv ==
    TypeOK /\ TypeOK' /\ ExecInv /\ TransactionStep => ExecInv'
  <1> SUFFICES ASSUME TypeOK, TypeOK', ExecInv, TransactionStep PROVE ExecInv'
    OBVIOUS
  <1>1. ASSUME NEW creator, NEW tx, CreateTransaction(creator, tx),
               tx.executed_transaction_index = 0
        PROVE  ExecInv'
    <2> DEFINE i == multisig.transaction_index + 1
    <2>1. /\ i \in Index /\ i > multisig.transaction_index
          /\ multisig.transaction_index \in Nat
          /\ multisig'.transaction_index = i
      BY <1>1, BoundsAssumption DEF CreateTransaction, TypeOK, Multisig, Index
    <2>2. \A j \in Index \ {i} : proposals'[j] = proposals[j]
                                  /\ transactions'[j] = transactions[j]
      BY <1>1 DEF CreateTransaction, TypeOK
    <2>3. transactions'[i] = tx /\ proposals'[i] = proposals[i] /\ ledger' = ledger
      BY <1>1, <2>1 DEF CreateTransaction, TypeOK
    <2>4. /\ ledger[i] = <<>>
          /\ transactions[i].kind = "NoAccount"
          /\ proposals[i].status = "NoAccount"
      BY <2>1 DEF ExecInv, AccountInv
    <2>5. \A n \in DOMAIN frames : frames[n].index # i
      BY <2>1, <2>4 DEF ExecInv, FramesInv, FrameInv
    <2>6. FramesInv'
      BY <1>1, <2>2, <2>5, FramesUntouched DEF ExecInv, CreateTransaction
    <2>7. ASSUME NEW j \in Index
          PROVE  AccountInv(j)'
      <3>1. CASE j # i
        BY <2>1, <2>2, <2>3, <3>1, AccountsUntouched DEF ExecInv
      <3>2. CASE j = i
        <4>1. ~(j > multisig'.transaction_index)
          BY <2>1, <3>2
        <4>2. ~Completed(j)' /\ LedgerShape(j)' /\ ledger'[j] = <<>> /\ Len(ledger'[j]) = 0
          BY <2>3, <2>4, <3>2 DEF Completed, LedgerShape
        <4> QED
          BY <1>1, <2>3, <3>2, <4>1, <4>2 DEF AccountInv
      <3> QED
        BY <3>1, <3>2
    <2> QED
      BY <2>6, <2>7 DEF ExecInv
  <1>2. ASSUME NEW member \in Keys, NEW i \in Index, batch_add_transaction(member, i)
        PROVE  ExecInv'
    <2>1. \A j \in Index \ {i} : transactions'[j] = transactions[j]
      BY <1>2 DEF batch_add_transaction, TypeOK
    <2>2. FramesInv'
      BY <1>2, <2>1, WritableIsFree, FramesUntouched DEF ExecInv, batch_add_transaction
    <2>3. /\ transactions'[i].kind = transactions[i].kind
          /\ transactions'[i].executed_transaction_index
                = transactions[i].executed_transaction_index
      BY <1>2 DEF batch_add_transaction, TypeOK, Transaction
    <2>4. UNCHANGED <<multisig, proposals, ledger>>
      BY <1>2 DEF batch_add_transaction
    <2>5. ASSUME NEW j \in Index
          PROVE  AccountInv(j)'
      <3>1. CASE j # i
        BY <2>1, <2>4, <3>1, AccountsUntouched DEF ExecInv, TypeOK, Multisig
      <3>2. CASE j = i
        BY <2>3, <2>4, <3>2 DEF ExecInv, AccountInv, LedgerShape, Completed
      <3> QED
        BY <3>1, <3>2
    <2> QED
      BY <2>2, <2>5 DEF ExecInv
  <1>3. ASSUME NEW creator \in Keys, NEW actions, config_transaction_create(creator, actions)
        PROVE  ExecInv'
    BY <1>1, <1>3 DEF config_transaction_create, NoTransaction
  <1>4. ASSUME NEW creator \in Keys, vault_transaction_create(creator)
        PROVE  ExecInv'
    BY <1>1, <1>4 DEF vault_transaction_create, NoTransaction
  <1>5. ASSUME NEW creator \in Keys, batch_create(creator)
        PROVE  ExecInv'
    BY <1>1, <1>5 DEF batch_create, NoTransaction
  <1> QED
    BY <1>2, <1>3, <1>4, <1>5 DEF TransactionStep

\* Appending the next transaction of a batch, or the last one and the end, to a
\* ledger that holds the transactions before it.
LEMMA LedgerAppend ==
    ASSUME NEW s \in Seq(Nat), \A n \in DOMAIN s : s[n] = n, NEW e \in Seq(Nat),
           \/ e = <<Len(s) + 1>>
           \/ e = <<Len(s) + 1, 0>>
    PROVE  \A n \in DOMAIN (s \o e) :
              (s \o e)[n] = n \/ ((s \o e)[n] = 0 /\ n = Len(s \o e))
  <1>1. /\ s \o e \in Seq(Nat)
        /\ Len(s \o e) = Len(s) + Len(e)
        /\ \A n \in 1 .. Len(s) + Len(e) :
              (s \o e)[n] = IF n <= Len(s) THEN s[n] ELSE e[n - Len(s)]
    BY ConcatProperties
  <1>2. Len(e) \in {1, 2} /\ Len(s) \in Nat
    BY LenProperties
  <1> SUFFICES ASSUME NEW n \in 1 .. Len(s) + Len(e)
               PROVE  (s \o e)[n] = n \/ ((s \o e)[n] = 0 /\ n = Len(s \o e))
    BY <1>1, LenProperties
  <1>3. CASE n <= Len(s)
    <2>1. n \in DOMAIN s
      BY <1>2, <1>3, LenProperties
    <2> QED
      BY <1>1, <1>3, <2>1
  <1>4. CASE n > Len(s)
    <2>1. (s \o e)[n] = e[n - Len(s)]
      BY <1>1, <1>2, <1>4
    <2>2. n - Len(s) \in 1 .. Len(e)
      BY <1>2, <1>4
    <2>3. CASE e = <<Len(s) + 1>>
      BY <1>1, <1>2, <2>1, <2>2, <2>3
    <2>4. CASE e = <<Len(s) + 1, 0>>
      <3>1. Len(e) = 2 /\ e[1] = Len(s) + 1 /\ e[2] = 0
        BY <2>4
      <3>2. n = Len(s) + 1 \/ n = Len(s) + 2
        BY <1>2, <2>2, <3>1
      <3> QED
        BY <1>1, <1>2, <2>1, <3>1, <3>2
    <2> QED
      BY <2>3, <2>4
  <1> QED
    BY <1>2, <1>3, <1>4

\* A step that executes (the next part of) an approved transaction i which no
\* other execution in progress holds.
LEMMA ExecutionExecInv ==
    ASSUME TypeOK, TypeOK', NEW i \in Index, AccountInv(i),
           proposals[i].status = "Approved",
           multisig'.transaction_index = multisig.transaction_index,
           \/ /\ transactions[i].kind \in {"Config", "Vault"}
              /\ transactions'[i] = transactions[i]
              /\ proposals'[i].status = "Executed"
              /\ ledger'[i] = Append(ledger[i], 0)
           \/ /\ transactions[i].kind = "Batch"
              /\ transactions'[i].kind = "Batch"
              /\ transactions'[i].executed_transaction_index
                    = transactions[i].executed_transaction_index + 1
              /\ \/ /\ proposals'[i].status = "Approved"
                    /\ ledger'[i] = ledger[i]
                                     \o <<transactions[i].executed_transaction_index + 1>>
                 \/ /\ proposals'[i].status = "Executed"
                    /\ ledger'[i] = ledger[i]
                                     \o <<transactions[i].executed_transaction_index + 1, 0>>
    PROVE  AccountInv(i)'
  <1>1. /\ ledger[i] \in Seq(Nat) /\ ledger'[i] \in Seq(Nat)
        /\ transactions[i].executed_transaction_index \in Nat
        /\ i <= multisig.transaction_index
        /\ transactions[i].kind # "NoAccount"
    <2>1. ledger[i] \in Seq(Nat) /\ ledger'[i] \in Seq(Nat)
      BY DEF TypeOK
    <2>2. transactions[i].executed_transaction_index \in Nat
      BY DEF TypeOK, Transaction
    <2>3. multisig.transaction_index \in Nat /\ i \in Nat
      BY DEF TypeOK, Multisig, Index
    <2>4. i <= multisig.transaction_index
      BY <2>3 DEF AccountInv
    <2> QED
      BY <2>1, <2>2, <2>4
  <1>2. ~Completed(i)
    BY <1>1 DEF AccountInv
  <1>3. \A n \in DOMAIN ledger[i] : ledger[i][n] = n
    BY <1>2 DEF AccountInv, LedgerShape, Completed
  <1>4. ~(i > multisig'.transaction_index)
    BY <1>1 DEF TypeOK, Multisig, Index
  <1>5. CASE transactions[i].kind \in {"Config", "Vault"}
    <2>1. ledger[i] = <<>>
      BY <1>2, <1>5 DEF AccountInv
    <2>2. ledger'[i] = <<0>>
      BY <1>5, <2>1
    <2>3. LedgerShape(i)' /\ Completed(i)'
      BY <2>2 DEF LedgerShape, Completed
    <2> QED
      BY <1>4, <1>5, <2>3 DEF AccountInv
  <1>6. CASE transactions[i].kind = "Batch"
    <2> DEFINE k == transactions[i].executed_transaction_index + 1
    <2>1. Len(ledger[i]) + 1 = k /\ k \in Nat \ {0}
      <3>1. Len(ledger[i]) = transactions[i].executed_transaction_index
        BY <1>2, <1>6 DEF AccountInv
      <3> HIDE DEF k
      <3>2. k = transactions[i].executed_transaction_index + 1
        BY DEF k
      <3> QED
        BY <1>1, <3>1, <3>2
    <2>2. CASE proposals'[i].status = "Approved" /\ ledger'[i] = ledger[i] \o <<k>>
      <3>1. LedgerShape(i)'
        BY <1>1, <1>3, <2>1, <2>2, LedgerAppend DEF LedgerShape
      <3>2. /\ Len(ledger'[i]) = k
            /\ \A n \in 1 .. k : ledger'[i][n] = IF n <= Len(ledger[i]) THEN ledger[i][n] ELSE k
        BY <1>1, <2>1, <2>2, ConcatProperties
      <3>3. ~Completed(i)'
        <4>1. DOMAIN ledger'[i] = 1 .. k /\ DOMAIN ledger[i] = 1 .. Len(ledger[i])
          BY <1>1, <3>2, LenProperties
        <4>2. ASSUME NEW n \in 1 .. k
              PROVE  ledger'[i][n] # 0
          <5>1. CASE n <= Len(ledger[i])
            <6>1. n \in DOMAIN ledger[i] /\ n # 0
              BY <2>1, <4>1, <5>1
            <6> QED
              BY <1>3, <3>2, <5>1, <6>1
          <5>2. CASE ~(n <= Len(ledger[i]))
            BY <2>1, <3>2, <5>2
          <5> QED
            BY <5>1, <5>2
        <4> QED
          BY <4>1, <4>2 DEF Completed
      <3> QED
        BY <1>4, <1>6, <2>1, <2>2, <3>1, <3>2, <3>3 DEF AccountInv
    <2>3. CASE proposals'[i].status = "Executed" /\ ledger'[i] = ledger[i] \o <<k, 0>>
      <3>1. LedgerShape(i)'
        <4>1. <<k, 0>> \in Seq(Nat) /\ <<k, 0>> = <<Len(ledger[i]) + 1, 0>>
          BY <2>1
        <4>2. \A n \in DOMAIN (ledger[i] \o <<k, 0>>) :
                 \/ (ledger[i] \o <<k, 0>>)[n] = n
                 \/ (ledger[i] \o <<k, 0>>)[n] = 0 /\ n = Len(ledger[i] \o <<k, 0>>)
          BY <1>1, <1>3, <4>1, LedgerAppend
        <4> QED
          BY <2>3, <4>2 DEF LedgerShape
      <3>2. Completed(i)'
        <4>1. /\ Len(ledger'[i]) = Len(ledger[i]) + 2
              /\ ledger'[i][Len(ledger[i]) + 2] = 0
          BY <1>1, <2>1, <2>3, ConcatProperties
        <4> QED
          BY <1>1, <2>1, <4>1, LenProperties DEF Completed
      <3> QED
        BY <1>4, <1>6, <2>3, <3>1, <3>2 DEF AccountInv
    <2> QED
      BY <1>6, <2>2, <2>3
  <1> QED
    BY <1>5, <1>6

\* A new execution: its accounts are protected and no other execution holds them.
LEMMA InvokeExecInv ==
    ASSUME TypeOK, TypeOK', ExecInv, NEW i \in Index, NEW protected, Invoke(i, protected),
           Writable(ProposalAccount(i)), proposals[i].status = "Approved",
           transactions[i].kind \in {"Vault", "Batch"},
           ProposalAccount(i) \in protected,
           transactions[i].kind = "Batch" => BatchAccount(i) \in protected
    PROVE  ExecInv'
  <1> DEFINE f == [index |-> i, proposal |-> proposals[i],
                   transaction |-> transactions[i], protected |-> protected]
  <1>1. frames \in Seq(Frame) /\ frames' \in Seq(Frame) /\ frames' = Append(frames, f)
    BY DEF TypeOK, Invoke
  <1>2. /\ Len(frames) \in Nat /\ DOMAIN frames = 1 .. Len(frames)
        /\ DOMAIN frames' = 1 .. Len(frames) + 1
        /\ \A n \in 1 .. Len(frames) : frames'[n] = frames[n]
        /\ frames'[Len(frames) + 1] = f
    BY <1>1, LenProperties, AppendProperties
  <1>3. \A n \in DOMAIN frames : frames[n].index # i
    BY WritableIsFree DEF ExecInv
  <1>4. ASSUME NEW n \in DOMAIN frames'
        PROVE  FrameInv(frames[n])'
    <2>1. UNCHANGED <<proposals, transactions>>
      BY DEF Invoke
    <2>2. CASE n \in DOMAIN frames
      BY <1>2, <2>1, <2>2 DEF ExecInv, FramesInv, FrameInv
    <2>3. CASE n = Len(frames) + 1
      BY <1>2, <2>1, <2>3 DEF FrameInv
    <2> QED
      BY <1>2, <2>2, <2>3
  <1>5. \A n, k \in DOMAIN frames' : frames'[n].index = frames'[k].index => n = k
    BY <1>2, <1>3 DEF ExecInv, FramesInv
  <1>6. \A j \in Index : AccountInv(j)'
    BY AccountsUntouched DEF ExecInv, Invoke, TypeOK, Multisig
  <1> QED
    BY <1>4, <1>5, <1>6 DEF ExecInv, FramesInv

\* The innermost execution ends: it executed index i, the others are untouched.
LEMMA ReturnExecInv ==
    ASSUME TypeOK, TypeOK', ExecInv, frames # <<>>, NEW p, Return(p),
           NEW i \in Index, i = Innermost.index, AccountInv(i)',
           \A j \in Index \ {i} : transactions'[j] = transactions[j]
                                   /\ ledger'[j] = ledger[j]
    PROVE  ExecInv'
  <1>1. frames \in Seq(Frame) /\ Len(frames) \in Nat \ {0}
        /\ DOMAIN frames = 1 .. Len(frames)
    BY LenProperties, EmptySeq DEF TypeOK
  <1>2. /\ DOMAIN frames' = 1 .. Len(frames) - 1
        /\ \A n \in 1 .. Len(frames) - 1 : frames'[n] = frames[n]
    <2>1. frames' = SubSeq(frames, 1, Len(frames) - 1) /\ frames' \in Seq(Frame)
      BY DEF Return, TypeOK
    <2>2. /\ Len(frames') = Len(frames) - 1
          /\ \A n \in 1 .. Len(frames) - 1 : frames'[n] = frames[1 + n - 1]
      BY <1>1, <2>1
    <2>3. DOMAIN frames' = 1 .. Len(frames')
      BY <2>1, LenProperties
    <2>4. \A n \in 1 .. Len(frames) - 1 : 1 + n - 1 = n
      BY <1>1
    <2> QED
      BY <2>2, <2>3, <2>4
  <1>4. \A j \in Index \ {i} : proposals'[j] = proposals[j]
    BY DEF Return, SaveProposal, TypeOK
  <1>5. ASSUME NEW n \in DOMAIN frames'
        PROVE  FrameInv(frames[n])'
    <2>1. n \in DOMAIN frames /\ n # Len(frames) /\ Len(frames) \in DOMAIN frames
      BY <1>1, <1>2
    <2>2. frames[n] \in Frame
      BY <1>1, <2>1, ElementOfSeq
    <2>3. frames[n].index # i
      BY <2>1 DEF ExecInv, FramesInv, Innermost
    <2>4. frames[n].index \in Index \ {i}
      BY <2>2, <2>3 DEF Frame
    <2> QED
      BY <1>2, <1>4, <2>1, <2>4 DEF ExecInv, FramesInv, FrameInv
  <1>6. \A n, k \in DOMAIN frames' : frames'[n].index = frames'[k].index => n = k
    BY <1>1, <1>2 DEF ExecInv, FramesInv
  <1>7. ASSUME NEW j \in Index
        PROVE  AccountInv(j)'
    <2>1. multisig' = multisig /\ multisig.transaction_index \in Nat
      BY DEF Return, TypeOK, Multisig
    <2>2. CASE j # i
      BY <1>4, <2>1, <2>2, AccountsUntouched DEF ExecInv
    <2> QED
      BY <2>2
  <1> QED
    BY <1>5, <1>6, <1>7 DEF ExecInv, FramesInv

LEMMA ExecuteStepExecInv == TypeOK /\ TypeOK' /\ ExecInv /\ ExecuteStep => ExecInv'
  <1> SUFFICES ASSUME TypeOK, TypeOK', ExecInv, ExecuteStep PROVE ExecInv'
    OBVIOUS
  <1>1. ASSUME NEW member \in Keys, NEW i \in Index, config_transaction_execute(member, i)
        PROVE  ExecInv'
    <2>1. /\ transactions' = transactions /\ frames' = frames
          /\ transactions[i].kind = "Config"
          /\ proposals[i].status = "Approved"
          /\ Writable(ProposalAccount(i))
          /\ proposals' = [proposals EXCEPT ![i] = Executed(proposals[i])]
          /\ ledger' = [ledger EXCEPT ![i] = Append(@, 0)]
      BY <1>1 DEF config_transaction_execute, MayExecute, SaveProposal
    <2>2. /\ proposals'[i].status = "Executed"
          /\ ledger'[i] = Append(ledger[i], 0)
          /\ \A j \in Index \ {i} : proposals'[j] = proposals[j] /\ ledger'[j] = ledger[j]
      BY <2>1 DEF TypeOK, Executed, Proposal
    <2>3. /\ multisig'.transaction_index = multisig.transaction_index
          /\ multisig.transaction_index \in Nat
      <3>1. PICK s : multisig' = AfterActions(multisig, s, transactions[i].actions)
        BY <1>1 DEF config_transaction_execute
      <3> QED
        BY <3>1 DEF AfterActions, invalidate_prior_transactions, TypeOK, Multisig
    <2>4. FramesInv'
      BY <2>1, <2>2, WritableIsFree, FramesUntouched DEF ExecInv
    <2>5. ASSUME NEW j \in Index
          PROVE  AccountInv(j)'
      <3>1. CASE j # i
        BY <2>1, <2>2, <2>3, <3>1, AccountsUntouched DEF ExecInv
      <3>2. CASE j = i
        BY <2>1, <2>2, <2>3, <3>2, ExecutionExecInv DEF ExecInv
      <3> QED
        BY <3>1, <3>2
    <2> QED
      BY <2>4, <2>5 DEF ExecInv
  <1>2. ASSUME NEW member \in Keys, NEW i \in Index, vault_transaction_execute(member, i)
        PROVE  ExecInv'
    BY <1>2, InvokeExecInv DEF vault_transaction_execute, MayExecute
  <1>3. ASSUME NEW member \in Keys, NEW i \in Index, batch_execute_transaction(member, i)
        PROVE  ExecInv'
    BY <1>3, InvokeExecInv DEF batch_execute_transaction, MayExecute
  <1>4. ASSUME frames # <<>>
        PROVE  /\ Innermost.index \in Index
               /\ FrameInv(Innermost)
    <2>1. frames \in Seq(Frame) /\ Len(frames) \in 1 .. Len(frames)
          /\ Len(frames) \in DOMAIN frames
      BY <1>4, LenProperties, EmptySeq DEF TypeOK
    <2>2. frames[Len(frames)] \in Frame
      BY <2>1, ElementOfSeq
    <2>3. FrameInv(frames[Len(frames)])
      BY <2>1 DEF ExecInv, FramesInv
    <2> QED
      BY <2>2, <2>3 DEF Innermost, Frame
  <1>5. CASE vault_transaction_return
    <2>0. PICK i \in Index : i = Innermost.index
      BY <1>4, <1>5 DEF vault_transaction_return
    <2>1. /\ frames # <<>> /\ Return(Executed(Innermost.proposal))
          /\ Innermost.transaction.kind = "Vault"
          /\ transactions' = transactions
          /\ ledger' = [ledger EXCEPT ![i] = Append(@, 0)]
      BY <1>5, <2>0 DEF vault_transaction_return
    <2>2. /\ i \in Index /\ transactions[i].kind = "Vault"
          /\ proposals[i].status = "Approved"
          /\ Innermost.proposal = proposals[i]
      BY <1>4, <2>0, <2>1 DEF FrameInv
    <2>3. /\ proposals'[i].status = "Executed"
          /\ ledger'[i] = Append(ledger[i], 0)
          /\ \A j \in Index \ {i} : ledger'[j] = ledger[j]
      BY <2>0, <2>1, <2>2 DEF Return, SaveProposal, TypeOK, Executed, Proposal
    <2>4. AccountInv(i)'
      BY <2>1, <2>2, <2>3, ExecutionExecInv DEF ExecInv, Return
    <2> QED
      BY <2>0, <2>1, <2>3, <2>4, ReturnExecInv
  <1>6. CASE batch_transaction_return
    <2>0. PICK i \in Index : i = Innermost.index
      BY <1>4, <1>6 DEF batch_transaction_return
    <2> DEFINE k == transactions[i].executed_transaction_index + 1
               last == k = transactions[i].size
    <2>1. frames # <<>> /\ Innermost.transaction.kind = "Batch"
      BY <1>6 DEF batch_transaction_return
    <2>2. /\ i \in Index /\ Innermost.transaction = transactions[i]
          /\ proposals[i].status = "Approved"
          /\ Innermost.proposal = proposals[i]
      BY <1>4, <2>0, <2>1 DEF FrameInv
    <2>3. /\ Return(IF last THEN Executed(proposals[i]) ELSE proposals[i])
          /\ transactions' = [transactions EXCEPT
                 ![i] = [transactions[i] EXCEPT !.executed_transaction_index = k]]
          /\ ledger' = [ledger EXCEPT ![i] = @ \o (IF last THEN <<k, 0>> ELSE <<k>>)]
      BY <1>6, <2>0, <2>2 DEF batch_transaction_return
    <2>4. /\ transactions'[i].kind = "Batch"
          /\ transactions'[i].executed_transaction_index = k
          /\ \A j \in Index \ {i} : transactions'[j] = transactions[j]
                                       /\ ledger'[j] = ledger[j]
      BY <2>1, <2>2, <2>3 DEF TypeOK, Transaction
    <2>5. /\ last => proposals'[i].status = "Executed" /\ ledger'[i] = ledger[i] \o <<k, 0>>
          /\ ~last => proposals'[i].status = "Approved" /\ ledger'[i] = ledger[i] \o <<k>>
      BY <2>0, <2>2, <2>3 DEF Return, SaveProposal, TypeOK, Executed, Proposal
    <2>6. AccountInv(i)'
      BY <2>1, <2>2, <2>3, <2>4, <2>5, ExecutionExecInv DEF ExecInv, Return
    <2> QED
      BY <2>0, <2>1, <2>3, <2>4, <2>6, ReturnExecInv
  <1> QED
    BY <1>1, <1>2, <1>3, <1>5, <1>6 DEF ExecuteStep

LEMMA ConfigStepExecInv == TypeOK /\ TypeOK' /\ ExecInv /\ ConfigStep => ExecInv'
  <1> SUFFICES ASSUME TypeOK, TypeOK', ExecInv, ConfigStep PROVE ExecInv'
    OBVIOUS
  <1>1. /\ UNCHANGED <<transactions, proposals, frames, ledger>>
        /\ multisig'.transaction_index = multisig.transaction_index
    BY DEF ConfigStep, Configure, TypeOK, Multisig, multisig_add_member,
       multisig_remove_member, multisig_change_threshold, multisig_set_time_lock,
       multisig_set_config_authority, multisig_set_rent_collector,
       multisig_add_spending_limit, multisig_remove_spending_limit,
       invalidate_prior_transactions, add_member, remove_member
  <1> QED
    BY <1>1, AccountsUntouched DEF ExecInv, FramesInv, FrameInv, TypeOK, Multisig

LEMMA CloseStepExecInv == TypeOK /\ TypeOK' /\ ExecInv /\ CloseStep => ExecInv'
  <1> SUFFICES ASSUME TypeOK, TypeOK', ExecInv, CloseStep PROVE ExecInv'
    OBVIOUS
  <1>1. ASSUME NEW i \in Index, CloseAccounts(i)
        PROVE  ExecInv'
    <2>1. /\ Writable(ProposalAccount(i)) /\ UNCHANGED <<multisig, frames, ledger>>
          /\ proposals'[i] = NoProposal /\ transactions'[i] = NoTransaction
          /\ \A j \in Index \ {i} : proposals'[j] = proposals[j]
                                       /\ transactions'[j] = transactions[j]
      BY <1>1 DEF CloseAccounts, SaveProposal, TypeOK
    <2>2. FramesInv'
      BY <2>1, WritableIsFree, FramesUntouched DEF ExecInv
    <2>3. ASSUME NEW j \in Index
          PROVE  AccountInv(j)'
      <3>1. CASE j # i
        BY <2>1, <3>1, AccountsUntouched DEF ExecInv, TypeOK, Multisig
      <3>2. CASE j = i
        BY <2>1, <3>2 DEF ExecInv, AccountInv, LedgerShape, Completed,
           NoProposal, NoTransaction
      <3> QED
        BY <3>1, <3>2
    <2> QED
      BY <2>2, <2>3 DEF ExecInv
  <1>2. ASSUME NEW i \in Index, vault_batch_transaction_account_close(i)
        PROVE  ExecInv'
    <2>1. /\ transactions[i].kind = "Batch" /\ Writable(BatchAccount(i))
          /\ UNCHANGED <<multisig, proposals, frames, ledger>>
          /\ transactions'[i].kind = "Batch"
          /\ transactions'[i].executed_transaction_index
                = transactions[i].executed_transaction_index
          /\ \A j \in Index \ {i} : transactions'[j] = transactions[j]
      BY <1>2 DEF vault_batch_transaction_account_close, TypeOK, Transaction
    <2>2. FramesInv'
      BY <2>1, WritableIsFree, FramesUntouched DEF ExecInv
    <2>3. ASSUME NEW j \in Index
          PROVE  AccountInv(j)'
      <3>1. CASE j # i
        BY <2>1, <3>1, AccountsUntouched DEF ExecInv, TypeOK, Multisig
      <3>2. CASE j = i
        BY <2>1, <3>2 DEF ExecInv, AccountInv, LedgerShape, Completed
      <3> QED
        BY <3>1, <3>2
    <2> QED
      BY <2>2, <2>3 DEF ExecInv
  <1> QED
    BY <1>1, <1>2 DEF CloseStep, config_transaction_accounts_close,
       vault_transaction_accounts_close, batch_accounts_close

\* ExecInv is inductive (given the types).
THEOREM ExecutionInvariant == Spec => []ExecInv
  <1>1. TypeOK /\ TypeOK' /\ ExecInv /\ [Next]_vars => ExecInv'
    <2> SUFFICES ASSUME TypeOK, TypeOK', ExecInv, [Next]_vars PROVE ExecInv'
      OBVIOUS
    <2>1. CASE Tick \/ UNCHANGED vars
      BY <2>1, AccountsUntouched
         DEF Tick, vars, ExecInv, FramesInv, FrameInv, TypeOK, Multisig
    <2> QED
      BY <2>1, ProposalStepExecInv, TransactionStepExecInv, ExecuteStepExecInv,
         ConfigStepExecInv, CloseStepExecInv DEF Next
  <1> QED
    BY InitExecInv, TypeCorrect, <1>1, PTL DEF Spec

\* No transaction, and no transaction of a batch, is ever executed twice or out
\* of order, for any members, thresholds, action lists, nesting depth and number
\* of transactions.
THEOREM ExecutedOnce == Spec => []ExecutedOnceInOrder
  <1>1. ExecInv => ExecutedOnceInOrder
    BY DEF ExecInv, AccountInv, LedgerShape, ExecutedOnceInOrder
  <1> QED
    BY <1>1, ExecutionInvariant, PTL

\* What an execution writes back when its message has run is what the accounts
\* hold: the protected accounts of execute_message suffice, at any depth.
THEOREM WriteBackIsSafe == Spec => []NoLostUpdate
  <1>1. ExecInv => NoLostUpdate
    BY DEF ExecInv, FramesInv, FrameInv, NoLostUpdate
  <1> QED
    BY <1>1, ExecutionInvariant, PTL

=============================================================================
