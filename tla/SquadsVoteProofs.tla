--------------------------- MODULE SquadsVoteProofs ---------------------------
(***************************************************************************)
(* Votes, configuration changes and the life of a transaction: proofs for  *)
(* every set of keys, every bound and every argument of the instructions.  *)
(* They rest on the types and the execution invariant of                   *)
(* SquadsMultisigProofs.                                                   *)
(***************************************************************************)
EXTENDS SquadsLifecycle, SquadsMultisigProofs

-----------------------------------------------------------------------------
(* What a step may do to the accounts: the cases the proofs below go by *)

\* Time passes, a message starts to run, a spending limit comes or goes.
Quiet == UNCHANGED <<multisig, transactions, proposals, ledger>>

\* Who votes, how many are needed and what is stale stay as they are.
SameRules ==
    /\ multisig'.members = multisig.members
    /\ multisig'.threshold = multisig.threshold
    /\ multisig'.time_lock = multisig.time_lock
    /\ multisig'.config_authority = multisig.config_authority
    /\ multisig'.stale_transaction_index = multisig.stale_transaction_index

\* Whatever changes the rules makes all transactions stale.
Reconfigured ==
    /\ invariant(multisig')
    /\ multisig'.transaction_index = multisig.transaction_index
    /\ SameRules \/ multisig'.stale_transaction_index = multisig.transaction_index

OnlyProposal(i) ==
    /\ UNCHANGED <<multisig, transactions, ledger>>
    /\ \A j \in Index \ {i} : proposals'[j] = proposals[j]

OnlyTransaction(i) ==
    /\ UNCHANGED <<proposals, ledger>>
    /\ \A j \in Index \ {i} : transactions'[j] = transactions[j]

Opened(i) ==
    /\ OnlyProposal(i)
    /\ proposals[i].status = "NoAccount"
    /\ i <= multisig.transaction_index /\ ~Stale(i)
    /\ proposals'[i].status \in {"Draft", "Active"}
    /\ proposals'[i].approved = {} /\ proposals'[i].rejected = {}
    /\ proposals'[i].space = num_members(multisig)

Activated(i) ==
    /\ OnlyProposal(i)
    /\ proposals[i].status = "Draft" /\ ~Stale(i)
    /\ proposals'[i] = [proposals[i] EXCEPT !.status = "Active"]

Voted(i) ==
    /\ OnlyProposal(i)
    /\ proposals[i].status = "Active" /\ ~Stale(i)
    /\ \E member \in Voters(multisig) :
          \/ proposals'[i] = approve(proposals[i], member, multisig.threshold, clock)
          \/ proposals'[i] = reject(proposals[i], member, cutoff(multisig))

CancelVoted(i) ==
    /\ OnlyProposal(i)
    /\ proposals[i].status = "Approved"
    /\ proposals'[i].status \in {"Approved", "Cancelled"}
    /\ proposals'[i].approved = proposals[i].approved
    /\ proposals'[i].rejected = proposals[i].rejected
    /\ proposals'[i].space >= proposals[i].space

Created(i) ==
    /\ OnlyTransaction(i)
    /\ i = multisig.transaction_index + 1
    /\ multisig' = [multisig EXCEPT !.transaction_index = i]
    /\ invariant(multisig')
    /\ transactions'[i].kind # "NoAccount"

\* A transaction is added to a draft batch, or one of a dead batch is closed.
Resized(i) ==
    /\ OnlyTransaction(i)
    /\ UNCHANGED multisig
    /\ transactions[i].kind = "Batch" /\ transactions'[i].kind = "Batch"
    /\ proposals[i].status = "Draft" \/ CanCloseVault(i)

ConfigExecuted(i) ==
    /\ UNCHANGED transactions
    /\ transactions[i].kind = "Config"
    /\ proposals[i].status = "Approved" /\ ~Stale(i)
    /\ proposals' = [proposals EXCEPT ![i] = Executed(proposals[i])]
    /\ ledger' = [ledger EXCEPT ![i] = Append(@, 0)]
    /\ Reconfigured
    /\ multisig'.config_authority = multisig.config_authority

\* The message of a vault transaction, or of one transaction of a batch, has run.
Ran(i) ==
    /\ UNCHANGED multisig
    /\ transactions[i].kind \in {"Vault", "Batch"}
    /\ proposals[i].status = "Approved"
    /\ \A j \in Index \ {i} : /\ proposals'[j] = proposals[j]
                              /\ transactions'[j] = transactions[j]
                              /\ ledger'[j] = ledger[j]
    /\ \E n \in Nat : transactions'[i] =
                         [transactions[i] EXCEPT !.executed_transaction_index = n]
    /\ \/ /\ proposals'[i] = Executed(proposals[i])
          /\ \E s \in Seq(Nat) : ledger'[i] = Append(s, 0)
       \/ /\ proposals'[i] = proposals[i]
          /\ \E n \in Nat \ {0} : ledger'[i] = Append(ledger[i], n)

Closed(i) ==
    /\ UNCHANGED <<multisig, ledger>>
    /\ \A j \in Index \ {i} : /\ proposals'[j] = proposals[j]
                              /\ transactions'[j] = transactions[j]
    /\ proposals'[i] = NoProposal
    /\ transactions'[i] = NoTransaction
    /\ transactions[i].kind # "NoAccount"
    /\ \/ CanCloseVault(i)
       \/ transactions[i].kind = "Config" /\ CanCloseConfig(i)

Configured ==
    /\ UNCHANGED <<transactions, proposals, ledger>>
    /\ ~Autonomous(multisig)
    /\ Reconfigured

Effect ==
    \/ Quiet
    \/ Configured
    \/ \E i \in Index : \/ Opened(i) \/ Activated(i) \/ Voted(i) \/ CancelVoted(i)
                        \/ Created(i) \/ Resized(i)
                        \/ ConfigExecuted(i) \/ Ran(i) \/ Closed(i)

\* The instructions on proposals have one of the listed effects,
LEMMA ProposalStepEffect == TypeOK /\ ProposalStep => Effect
  <1> SUFFICES ASSUME TypeOK, NEW member \in Keys, NEW i \in Index,
                      \/ \E draft \in BOOLEAN : proposal_create(member, i, draft)
                      \/ proposal_activate(member, i)
                      \/ proposal_approve(member, i)
                      \/ proposal_reject(member, i)
                      \/ proposal_cancel(member, i)
                      \/ proposal_cancel_v2(member, i)
               PROVE  Effect
    BY DEF ProposalStep
  <1>1. proposals[i] \in Proposal
    BY DEF TypeOK
  <1>2. ASSUME NEW p, SaveProposal(i, p), UNCHANGED <<multisig, transactions, ledger>>
        PROVE  OnlyProposal(i) /\ proposals'[i] = p
    BY <1>2 DEF OnlyProposal, SaveProposal, TypeOK
  <1>3. ASSUME NEW draft \in BOOLEAN, proposal_create(member, i, draft)
        PROVE  Opened(i)
    <2> DEFINE p == [NoProposal EXCEPT !.status = IF draft THEN "Draft" ELSE "Active",
                                       !.space = num_members(multisig)]
    <2>1. /\ p.status \in {"Draft", "Active"} /\ p.approved = {} /\ p.rejected = {}
          /\ p.space = num_members(multisig)
      BY DEF NoProposal
    <2>2. OnlyProposal(i) /\ proposals'[i] = p
      BY <1>2, <1>3 DEF proposal_create
    <2> HIDE DEF p
    <2> QED
      BY <1>3, <2>1, <2>2 DEF proposal_create, Opened
  <1>4. CASE proposal_activate(member, i)
    BY <1>2, <1>4 DEF proposal_activate, Activated, Effect
  <1>5. CASE proposal_approve(member, i)
    BY <1>2, <1>5 DEF proposal_approve, MayVote, Voted, Effect, Voters, member_has_permission
  <1>6. CASE proposal_reject(member, i)
    BY <1>2, <1>6 DEF proposal_reject, MayVote, Voted, Effect, Voters, member_has_permission
  <1>7. ASSUME proposals[i].status = "Approved"
        PROVE  /\ WithCancellation(member, i).status \in {"Approved", "Cancelled"}
               /\ WithCancellation(member, i).approved = proposals[i].approved
               /\ WithCancellation(member, i).rejected = proposals[i].rejected
               /\ WithCancellation(member, i).space = proposals[i].space
               /\ proposals[i].space \in Nat
               /\ WithCancellation(member, i) \in Proposal
    <2>1. /\ RetainMembers(proposals[i]) \in Proposal
          /\ RetainMembers(proposals[i]).status = "Approved"
          /\ RetainMembers(proposals[i]).approved = proposals[i].approved
          /\ RetainMembers(proposals[i]).rejected = proposals[i].rejected
          /\ RetainMembers(proposals[i]).space = proposals[i].space
          /\ proposals[i].space \in Nat
      BY <1>1, <1>7 DEF RetainMembers, Proposal
    <2>2. ASSUME NEW p \in Proposal, p.status = "Approved", NEW t
          PROVE  /\ cancel(p, member, t).status \in {"Approved", "Cancelled"}
                 /\ cancel(p, member, t).approved = p.approved
                 /\ cancel(p, member, t).rejected = p.rejected
                 /\ cancel(p, member, t).space = p.space
                 /\ cancel(p, member, t) \in Proposal
      BY <2>2 DEF cancel, Proposal, Status
    <2> QED
      BY <2>1, <2>2 DEF WithCancellation
  <1>8. CASE proposal_cancel(member, i)
    BY <1>2, <1>7, <1>8 DEF proposal_cancel, MayCancel, CancelVoted, Effect
  <1>9. CASE proposal_cancel_v2(member, i)
    <2> DEFINE p == realloc_if_needed(WithCancellation(member, i), num_members(multisig))
    <2>1. OnlyProposal(i) /\ proposals'[i] = p /\ proposals[i].status = "Approved"
      BY <1>2, <1>9 DEF proposal_cancel_v2, MayCancelV2, MayCancel, Reallocated
    <2>2. /\ p.status = WithCancellation(member, i).status
          /\ p.approved = WithCancellation(member, i).approved
          /\ p.rejected = WithCancellation(member, i).rejected
          /\ p.space >= WithCancellation(member, i).space
      BY <1>7, <2>1, CountTypes DEF realloc_if_needed, Proposal
    <2> HIDE DEF p
    <2> QED
      BY <1>7, <2>1, <2>2 DEF CancelVoted, Effect
  <1> QED
    BY <1>3, <1>4, <1>5, <1>6, <1>8, <1>9 DEF Effect

\* so do those that create transactions,
LEMMA TransactionStepEffect == TypeOK /\ TransactionStep => Effect
  <1> SUFFICES ASSUME TypeOK, TransactionStep PROVE Effect
    OBVIOUS
  <1>1. ASSUME NEW creator, NEW tx, CreateTransaction(creator, tx), tx.kind # "NoAccount"
        PROVE  Effect
    <2> DEFINE i == multisig.transaction_index + 1
    <2>1. i \in Index
      BY <1>1, BoundsAssumption DEF CreateTransaction, TypeOK, Multisig, Index
    <2>2. transactions'[i] = tx /\ \A j \in Index \ {i} : transactions'[j] = transactions[j]
      BY <1>1, <2>1 DEF CreateTransaction, TypeOK
    <2>3. Created(i)
      BY <1>1, <2>2 DEF CreateTransaction, Created, OnlyTransaction
    <2> QED
      BY <2>1, <2>3 DEF Effect
  <1>2. ASSUME NEW member \in Keys, NEW i \in Index, batch_add_transaction(member, i)
        PROVE  Effect
    <2>1. transactions'[i].kind = "Batch"
      BY <1>2 DEF batch_add_transaction, TypeOK, Transaction
    <2>2. OnlyTransaction(i)
      BY <1>2 DEF batch_add_transaction, OnlyTransaction, TypeOK
    <2> QED
      BY <1>2, <2>1, <2>2 DEF batch_add_transaction, Resized, Effect
  <1> QED
    BY <1>1, <1>2 DEF TransactionStep, config_transaction_create, vault_transaction_create,
       batch_create, NoTransaction

\* those that execute them,
LEMMA ExecuteStepEffect == TypeOK /\ ExecInv /\ ExecuteStep => Effect
  <1> SUFFICES ASSUME TypeOK, ExecInv, ExecuteStep PROVE Effect
    OBVIOUS
  <1>1. ASSUME NEW member \in Keys, NEW i \in Index, config_transaction_execute(member, i)
        PROVE  Effect
    <2>1. PICK s : multisig' = AfterActions(multisig, s, transactions[i].actions)
      BY <1>1 DEF config_transaction_execute
    <2>2. /\ SameRules \/ multisig'.stale_transaction_index = multisig.transaction_index
          /\ multisig'.transaction_index = multisig.transaction_index
          /\ multisig'.config_authority = multisig.config_authority
      BY <2>1 DEF AfterActions, invalidate_prior_transactions, SameRules, TypeOK, Multisig
    <2>3. ConfigExecuted(i)
      BY <1>1, <2>2 DEF config_transaction_execute, MayExecute, SaveProposal,
         ConfigExecuted, Reconfigured
    <2> QED
      BY <2>3 DEF Effect
  <1>2. ASSUME NEW member \in Keys, NEW i \in Index,
               vault_transaction_execute(member, i) \/ batch_execute_transaction(member, i)
        PROVE  Effect
    BY <1>2 DEF vault_transaction_execute, batch_execute_transaction, Invoke, Quiet, Effect
  <1>3. ASSUME frames # <<>>
        PROVE  /\ Innermost.index \in Index
               /\ FrameInv(Innermost)
    <2>1. frames \in Seq(Frame) /\ Len(frames) \in DOMAIN frames
      BY <1>3, LenProperties, EmptySeq DEF TypeOK
    <2>2. frames[Len(frames)] \in Frame
      BY <2>1, ElementOfSeq
    <2> QED
      BY <2>1, <2>2 DEF Innermost, Frame, ExecInv, FramesInv
  <1>4. CASE vault_transaction_return
    <2>1. PICK i \in Index : i = Innermost.index
      BY <1>3, <1>4 DEF vault_transaction_return
    <2>2. /\ proposals[i] = Innermost.proposal /\ proposals[i].status = "Approved"
          /\ transactions[i].kind = "Vault"
      BY <1>3, <1>4, <2>1 DEF vault_transaction_return, FrameInv
    <2>3. /\ UNCHANGED <<multisig, transactions>>
          /\ proposals' = [proposals EXCEPT ![i] = Executed(proposals[i])]
          /\ ledger' = [ledger EXCEPT ![i] = Append(@, 0)]
      BY <1>4, <2>1, <2>2 DEF vault_transaction_return, Return, SaveProposal
    <2>4. /\ proposals'[i] = Executed(proposals[i])
          /\ ledger[i] \in Seq(Nat) /\ ledger'[i] = Append(ledger[i], 0)
          /\ \A j \in Index \ {i} : proposals'[j] = proposals[j] /\ ledger'[j] = ledger[j]
      BY <2>3 DEF TypeOK
    <2>5. \E n \in Nat : transactions'[i] =
                            [transactions[i] EXCEPT !.executed_transaction_index = n]
      BY <2>3 DEF TypeOK, Transaction
    <2> QED
      BY <2>2, <2>3, <2>4, <2>5 DEF Ran, Effect
  <1>5. CASE batch_transaction_return
    <2>1. PICK i \in Index : i = Innermost.index
      BY <1>3, <1>5 DEF batch_transaction_return
    <2> DEFINE n == transactions[i].executed_transaction_index + 1
               last == n = transactions[i].size
    <2>2. /\ proposals[i] = Innermost.proposal /\ proposals[i].status = "Approved"
          /\ transactions[i] = Innermost.transaction /\ transactions[i].kind = "Batch"
      BY <1>3, <1>5, <2>1 DEF batch_transaction_return, FrameInv
    <2>3. /\ UNCHANGED multisig
          /\ proposals' = [proposals EXCEPT ![i] = IF last THEN Executed(proposals[i])
                                                   ELSE proposals[i]]
          /\ transactions' = [transactions EXCEPT
                 ![i] = [transactions[i] EXCEPT !.executed_transaction_index = n]]
          /\ ledger' = [ledger EXCEPT ![i] = @ \o (IF last THEN <<n, 0>> ELSE <<n>>)]
      BY <1>5, <2>1, <2>2 DEF batch_transaction_return, Return, SaveProposal
    <2>4. n \in Nat \ {0} /\ ledger[i] \in Seq(Nat)
      BY DEF TypeOK, Transaction
    <2>5. /\ transactions'[i] = [transactions[i] EXCEPT !.executed_transaction_index = n]
          /\ \A j \in Index \ {i} : /\ proposals'[j] = proposals[j]
                                    /\ transactions'[j] = transactions[j]
                                    /\ ledger'[j] = ledger[j]
      BY <2>3 DEF TypeOK
    <2>6. \/ /\ proposals'[i] = Executed(proposals[i])
             /\ ledger'[i] = ledger[i] \o <<n, 0>>
          \/ /\ proposals'[i] = proposals[i]
             /\ ledger'[i] = ledger[i] \o <<n>>
      BY <2>3 DEF TypeOK
    <2> HIDE DEF n
    <2>7. /\ ledger[i] \o <<n, 0>> = Append(Append(ledger[i], n), 0)
          /\ ledger[i] \o <<n>> = Append(ledger[i], n)
          /\ Append(ledger[i], n) \in Seq(Nat)
      BY <2>4, AppendProperties, ConcatProperties
    <2>8. \E k \in Nat : transactions'[i] =
                            [transactions[i] EXCEPT !.executed_transaction_index = k]
      BY <2>4, <2>5
    <2>9. \/ /\ proposals'[i] = Executed(proposals[i])
             /\ \E s \in Seq(Nat) : ledger'[i] = Append(s, 0)
          \/ /\ proposals'[i] = proposals[i]
             /\ \E k \in Nat \ {0} : ledger'[i] = Append(ledger[i], k)
      BY <2>4, <2>6, <2>7
    <2>10. Ran(i)
      BY <2>2, <2>3, <2>5, <2>8, <2>9 DEF Ran
    <2> QED
      BY <2>10 DEF Effect
  <1> QED
    BY <1>1, <1>2, <1>4, <1>5 DEF ExecuteStep

\* those of the config authority,
LEMMA ConfigStepEffect == TypeOK /\ ConfigStep => Effect
  <1> SUFFICES ASSUME TypeOK, ConfigStep PROVE Effect
    OBVIOUS
  <1>1. ASSUME NEW ms, ms.transaction_index = multisig.transaction_index,
               "stale_transaction_index" \in DOMAIN ms,
               "transaction_index" \in DOMAIN ms,
               Configure(invalidate_prior_transactions(ms))
        PROVE  Effect
    BY <1>1 DEF Configure, invalidate_prior_transactions, Configured, Reconfigured, Effect
  <1>2. ASSUME NEW new_member \in NewMembers, multisig_add_member(new_member)
        PROVE  Effect
    <2> DEFINE ms == add_member(multisig, new_member)
    <2>1. ms \in Multisig /\ ms.transaction_index = multisig.transaction_index
      BY AddMemberType, ArgumentsAssumption DEF TypeOK, add_member, Multisig
    <2> QED
      BY <1>1, <1>2, <2>1 DEF multisig_add_member, Multisig
  <1>3. ASSUME NEW old_member \in Keys, multisig_remove_member(old_member)
        PROVE  Effect
    <2>1. PICK ms \in remove_member(multisig, old_member) :
             Configure(invalidate_prior_transactions(ms))
      BY <1>3 DEF multisig_remove_member
    <2>2. ms \in Multisig /\ ms.transaction_index = multisig.transaction_index
      BY RemoveMemberType DEF TypeOK, remove_member, Multisig
    <2> QED
      BY <1>1, <2>1, <2>2 DEF Multisig
  <1>4. ASSUME NEW t, multisig_change_threshold(t) \/ multisig_set_time_lock(t)
                         \/ multisig_set_config_authority(t)
        PROVE  Effect
    <2>1. PICK ms : /\ \/ ms = [multisig EXCEPT !.threshold = t]
                       \/ ms = [multisig EXCEPT !.time_lock = t]
                       \/ ms = [multisig EXCEPT !.config_authority = t]
                    /\ Configure(invalidate_prior_transactions(ms))
      BY <1>4 DEF multisig_change_threshold, multisig_set_time_lock,
         multisig_set_config_authority
    <2>2. /\ DOMAIN ms = DOMAIN multisig
          /\ ms.transaction_index = multisig.transaction_index
      BY <2>1 DEF TypeOK, Multisig
    <2>3. {"transaction_index", "stale_transaction_index"} \subseteq DOMAIN multisig
      BY DEF TypeOK, Multisig
    <2> QED
      BY <1>1, <2>1, <2>2, <2>3
  <1>5. ASSUME NEW key, multisig_set_rent_collector(key)
        PROVE  Effect
    BY <1>5 DEF multisig_set_rent_collector, Configure, Configured, Reconfigured, SameRules,
       Effect, TypeOK, Multisig
  <1>6. ASSUME NEW limit,
               multisig_add_spending_limit(limit) \/ multisig_remove_spending_limit(limit)
        PROVE  Effect
    BY <1>6 DEF multisig_add_spending_limit, multisig_remove_spending_limit, Quiet, Effect
  <1> QED
    BY <1>2, <1>3, <1>4, <1>5, <1>6 DEF ConfigStep

\* and those that close accounts.
LEMMA CloseStepEffect == TypeOK /\ CloseStep => Effect
  <1> SUFFICES ASSUME TypeOK, CloseStep PROVE Effect
    OBVIOUS
  <1>1. ASSUME NEW i \in Index, CloseAccounts(i), transactions[i].kind # "NoAccount",
               CanCloseVault(i) \/ (transactions[i].kind = "Config" /\ CanCloseConfig(i))
        PROVE  Effect
    <2>1. Closed(i)
      BY <1>1 DEF CloseAccounts, SaveProposal, Closed, TypeOK
    <2> QED
      BY <2>1 DEF Effect
  <1>2. ASSUME NEW i \in Index, vault_batch_transaction_account_close(i)
        PROVE  Effect
    <2>1. Resized(i)
      BY <1>2 DEF vault_batch_transaction_account_close, Resized, OnlyTransaction, TypeOK,
         Transaction
    <2> QED
      BY <2>1 DEF Effect
  <1> QED
    BY <1>1, <1>2 DEF CloseStep, config_transaction_accounts_close,
       vault_transaction_accounts_close, batch_accounts_close

\* Every step has one of the effects.
LEMMA StepEffect == TypeOK /\ ExecInv /\ [Next]_vars => Effect
  <1>1. Tick \/ UNCHANGED vars => Effect
    BY DEF Tick, vars, Quiet, Effect
  <1> QED
    BY <1>1, ProposalStepEffect, TransactionStepEffect, ExecuteStepEffect, ConfigStepEffect,
       CloseStepEffect DEF Next

-----------------------------------------------------------------------------
(* Votes *)

\* FreshVotesCount for one proposal account.
Counts(p) ==
    /\ p.approved \cup p.rejected \subseteq Voters(multisig)
    /\ p.approved \cap p.rejected = {}
    /\ p.status \in {"Draft", "Active"} =>
          /\ Cardinality(p.approved) < multisig.threshold
          /\ Cardinality(p.rejected) < cutoff(multisig)
    /\ p.status = "Approved" => Cardinality(p.approved) >= multisig.threshold
    /\ p.status = "Rejected" => Cardinality(p.rejected) >= cutoff(multisig)

\* The numbers compared are numbers.
LEMMA VoteNumbers ==
    ASSUME TypeOK, MultisigSound
    PROVE  /\ multisig.threshold \in Nat \ {0}
           /\ num_voters(multisig) \in Nat
           /\ cutoff(multisig) \in Nat \ {0}
           /\ cutoff(multisig) = num_voters(multisig) - multisig.threshold + 1
           /\ \A S \in SUBSET Keys : IsFiniteSet(S) /\ Cardinality(S) \in Nat
  <1>1. multisig.threshold \in Nat \ {0} /\ num_voters(multisig) \in Nat
        /\ multisig.threshold <= num_voters(multisig)
    BY CountTypes DEF TypeOK, Multisig, MultisigSound, invariant
  <1>2. \A S \in SUBSET Keys : IsFiniteSet(S) /\ Cardinality(S) \in Nat
    BY KeysAssumption, FS_Subset, FS_CardinalityType
  <1> QED
    BY <1>1, <1>2 DEF cutoff

\* A vote for, moved from the other side if need be, leaves a proposal that is
\* decided exactly when the threshold is reached.
LEMMA ApproveCounts ==
    ASSUME TypeOK, MultisigSound, NEW p \in Proposal, p.status = "Active", Counts(p),
           NEW member \in Voters(multisig)
    PROVE  Counts(approve(p, member, multisig.threshold, clock))
  <1> DEFINE A == p.approved \cup {member}
             R == p.rejected \ {member}
             q == approve(p, member, multisig.threshold, clock)
  <1>1. q.approved = A /\ q.rejected = R
        /\ q.status = IF Cardinality(A) >= multisig.threshold THEN "Approved" ELSE "Active"
    BY DEF approve, Proposal
  <1>2. A \cup R \subseteq Voters(multisig) /\ A \cap R = {}
    BY DEF Counts
  <1>3. R \in SUBSET p.rejected /\ p.rejected \in SUBSET Keys /\ A \in SUBSET Keys
    BY DEF Proposal, Voters, Holders
  <1>4. Cardinality(R) <= Cardinality(p.rejected)
        /\ Cardinality(R) \in Nat /\ Cardinality(p.rejected) \in Nat /\ Cardinality(A) \in Nat
    BY <1>3, VoteNumbers, FS_Subset, FS_CardinalityType
  <1>5. Cardinality(R) < cutoff(multisig)
    BY <1>4, VoteNumbers DEF Counts
  <1> HIDE DEF A, R, q
  <1>6. multisig.threshold \in Nat
    BY VoteNumbers
  <1> QED
    BY <1>1, <1>2, <1>4, <1>5, <1>6 DEF Counts, q

\* The same for reject.
LEMMA RejectCounts ==
    ASSUME TypeOK, MultisigSound, NEW p \in Proposal, p.status = "Active", Counts(p),
           NEW member \in Voters(multisig)
    PROVE  Counts(reject(p, member, cutoff(multisig)))
  <1> DEFINE A == p.approved \ {member}
             R == p.rejected \cup {member}
             q == reject(p, member, cutoff(multisig))
  <1>1. q.approved = A /\ q.rejected = R
        /\ q.status = IF Cardinality(R) >= cutoff(multisig) THEN "Rejected" ELSE "Active"
    BY DEF reject, Proposal
  <1>2. A \cup R \subseteq Voters(multisig) /\ A \cap R = {}
    BY DEF Counts
  <1>3. A \in SUBSET p.approved /\ p.approved \in SUBSET Keys /\ R \in SUBSET Keys
    BY DEF Proposal, Voters, Holders
  <1>4. Cardinality(A) <= Cardinality(p.approved)
        /\ Cardinality(A) \in Nat /\ Cardinality(p.approved) \in Nat /\ Cardinality(R) \in Nat
    BY <1>3, VoteNumbers, FS_Subset, FS_CardinalityType
  <1>5. Cardinality(A) < multisig.threshold
    BY <1>4, VoteNumbers DEF Counts
  <1> HIDE DEF A, R, q
  <1>6. cutoff(multisig) \in Nat
    BY VoteNumbers
  <1> QED
    BY <1>1, <1>2, <1>4, <1>5, <1>6 DEF Counts, q

\* The multisig account satisfies Multisig::invariant in every state.
LEMMA SoundStep == MultisigSound /\ Effect => MultisigSound'
  BY DEF MultisigSound, Effect, Quiet, Configured, Reconfigured, Opened, Activated, Voted,
     CancelVoted, OnlyProposal, Created, Resized, ConfigExecuted, Ran, Closed

\* The threshold and the members stay sound (Multisig::invariant): every instruction
\* that changes them, and every config transaction that is executed, checks it again.
THEOREM MultisigAlwaysSound == Spec => []MultisigSound
  <1>1. Init => MultisigSound
    BY DEF Init, MultisigSound
  <1>2. TypeOK /\ ExecInv /\ MultisigSound /\ [Next]_vars => MultisigSound'
    BY StepEffect, SoundStep
  <1> QED
    BY <1>1, <1>2, TypeCorrect, ExecutionInvariant, PTL DEF Spec

\* Votes are counted alike before and after a step that keeps the rules.
LEMMA SameRulesCount ==
    ASSUME SameRules, NEW p, Counts(p)
    PROVE  /\ p.approved \cup p.rejected \subseteq Voters(multisig')
           /\ p.approved \cap p.rejected = {}
           /\ p.status \in {"Draft", "Active"} =>
                 /\ Cardinality(p.approved) < multisig'.threshold
                 /\ Cardinality(p.rejected) < cutoff(multisig')
           /\ p.status = "Approved" => Cardinality(p.approved) >= multisig'.threshold
           /\ p.status = "Rejected" => Cardinality(p.rejected) >= cutoff(multisig')
  <1>1. Voters(multisig') = Voters(multisig) /\ multisig'.threshold = multisig.threshold
    BY DEF SameRules, Voters, Holders
  <1>2. cutoff(multisig') = cutoff(multisig)
    BY <1>1 DEF cutoff, num_voters
  <1> QED
    BY <1>1, <1>2 DEF Counts

\* Each effect keeps the votes of fresh proposals in order.
LEMMA FreshVotesStep ==
    TypeOK /\ ExecInv /\ MultisigSound /\ FreshVotesCount /\ Effect => FreshVotesCount'
  <1> SUFFICES ASSUME TypeOK, ExecInv, MultisigSound, FreshVotesCount, Effect,
                      NEW j \in Index,
                      ~Stale(j)', proposals'[j].status # "NoAccount"
               PROVE  /\ proposals'[j].approved \cup proposals'[j].rejected
                            \subseteq Voters(multisig')
                      /\ proposals'[j].approved \cap proposals'[j].rejected = {}
                      /\ proposals'[j].status \in {"Draft", "Active"} =>
                            /\ Cardinality(proposals'[j].approved) < multisig'.threshold
                            /\ Cardinality(proposals'[j].rejected) < cutoff(multisig')
                      /\ proposals'[j].status = "Approved" =>
                            Cardinality(proposals'[j].approved) >= multisig'.threshold
                      /\ proposals'[j].status = "Rejected" =>
                            Cardinality(proposals'[j].rejected) >= cutoff(multisig')
    BY DEF FreshVotesCount
  <1> DEFINE Goal == /\ proposals'[j].approved \cup proposals'[j].rejected
                           \subseteq Voters(multisig')
                     /\ proposals'[j].approved \cap proposals'[j].rejected = {}
                     /\ proposals'[j].status \in {"Draft", "Active"} =>
                           /\ Cardinality(proposals'[j].approved) < multisig'.threshold
                           /\ Cardinality(proposals'[j].rejected) < cutoff(multisig')
                     /\ proposals'[j].status = "Approved" =>
                           Cardinality(proposals'[j].approved) >= multisig'.threshold
                     /\ proposals'[j].status = "Rejected" =>
                           Cardinality(proposals'[j].rejected) >= cutoff(multisig')
  <1>1. proposals[j] \in Proposal /\ j \in Nat /\ multisig.transaction_index \in Nat
    BY DEF TypeOK, Index, Multisig
  <1>2. ~Stale(j) /\ proposals[j].status # "NoAccount" => Counts(proposals[j])
    BY DEF FreshVotesCount, Counts
  <1>3. ASSUME SameRules PROVE ~Stale(j)
    BY <1>3 DEF SameRules, Stale
  <1>4. ASSUME SameRules, Counts(proposals'[j]) PROVE Goal
    BY <1>4, SameRulesCount
  <1>5. ASSUME SameRules, proposals'[j] = proposals[j] PROVE Goal
    BY <1>2, <1>3, <1>4, <1>5
  <1>6. multisig' = multisig => SameRules
    BY DEF SameRules
  <1>7. ASSUME Reconfigured,
               \/ proposals'[j] = proposals[j]
               \/ proposals'[j] = Executed(proposals[j]) /\ proposals[j].status = "Approved"
        PROVE  Goal
    <2>1. proposals[j].status # "NoAccount"
      BY <1>7
    <2>2. j <= multisig.transaction_index
      BY <1>1, <2>1 DEF ExecInv, AccountInv
    <2>3. SameRules
      BY <1>7, <2>2 DEF Reconfigured, Stale
    <2>4. CASE proposals'[j] = Executed(proposals[j])
      <3>1. /\ proposals'[j].approved = proposals[j].approved
            /\ proposals'[j].rejected = proposals[j].rejected
            /\ proposals'[j].status = "Executed"
        BY <1>1, <2>4 DEF Executed, Proposal
      <3>2. Counts(proposals'[j])
        BY <1>2, <1>3, <2>1, <2>3, <3>1 DEF Counts
      <3> QED
        BY <1>4, <2>3, <3>2
    <2> QED
      BY <1>5, <1>7, <2>3, <2>4
  <1>8. CASE Quiet
    BY <1>5, <1>6, <1>8 DEF Quiet
  <1>9. CASE Configured
    BY <1>7, <1>9 DEF Configured
  <1>10. ASSUME NEW i \in Index,
                Opened(i) \/ Activated(i) \/ Voted(i) \/ CancelVoted(i)
         PROVE  Goal
    <2>1. OnlyProposal(i) /\ SameRules
      BY <1>6, <1>10 DEF Opened, Activated, Voted, CancelVoted, OnlyProposal
    <2>2. CASE i # j
      BY <1>5, <2>1, <2>2 DEF OnlyProposal
    <2>3. CASE i = j /\ Opened(i)
      <3>1. Cardinality({}) = 0
        BY FS_EmptySet
      <3>2. Counts(proposals'[j])
        BY <2>3, <3>1, VoteNumbers DEF Opened, Counts
      <3> QED
        BY <1>4, <2>1, <3>2
    <2>4. CASE i = j /\ Activated(i)
      <3>1. Counts(proposals[j])
        BY <1>2, <2>4 DEF Activated
      <3>2. Counts(proposals'[j])
        BY <1>1, <2>4, <3>1 DEF Activated, Counts, Proposal
      <3> QED
        BY <1>4, <2>1, <3>2
    <2>5. CASE i = j /\ Voted(i)
      <3>1. Counts(proposals[j]) /\ proposals[j].status = "Active"
        BY <1>2, <2>5 DEF Voted
      <3>2. Counts(proposals'[j])
        BY <1>1, <2>5, <3>1, ApproveCounts, RejectCounts DEF Voted
      <3> QED
        BY <1>4, <2>1, <3>2
    <2>6. CASE i = j /\ CancelVoted(i)
      <3>1. Counts(proposals[j])
        BY <1>2, <1>3, <2>1, <2>6 DEF CancelVoted
      <3>2. Counts(proposals'[j])
        BY <2>6, <3>1 DEF CancelVoted, Counts
      <3> QED
        BY <1>4, <2>1, <3>2
    <2> QED
      BY <1>10, <2>2, <2>3, <2>4, <2>5, <2>6
  <1>11. ASSUME NEW i \in Index, Created(i) \/ Resized(i)
         PROVE  Goal
    <2>1. SameRules
      BY <1>6, <1>11 DEF Created, Resized, SameRules, TypeOK, Multisig
    <2> QED
      BY <1>5, <1>11, <2>1 DEF Created, Resized, OnlyTransaction
  <1>12. ASSUME NEW i \in Index, ConfigExecuted(i)
         PROVE  Goal
    <2>1. \/ proposals'[j] = proposals[j]
          \/ proposals'[j] = Executed(proposals[j]) /\ proposals[j].status = "Approved"
      BY <1>12 DEF ConfigExecuted, TypeOK
    <2> QED
      BY <1>7, <1>12, <2>1 DEF ConfigExecuted
  <1>13. ASSUME NEW i \in Index, Ran(i)
         PROVE  Goal
    <2>1. \/ proposals'[j] = proposals[j]
          \/ proposals'[j] = Executed(proposals[j]) /\ proposals[j].status = "Approved"
      BY <1>13 DEF Ran
    <2>2. Reconfigured
      BY <1>6, <1>13 DEF Ran, Reconfigured, MultisigSound
    <2> QED
      BY <1>7, <2>1, <2>2
  <1>14. ASSUME NEW i \in Index, Closed(i)
         PROVE  Goal
    <2>1. i # j
      BY <1>14 DEF Closed, NoProposal
    <2> QED
      BY <1>5, <1>6, <1>14, <2>1 DEF Closed
  <1> QED
    BY <1>8, <1>9, <1>10, <1>11, <1>12, <1>13, <1>14 DEF Effect

\* A proposal that is not stale counts only votes of keys that may vote now, each
\* on one side, and its status is what the counts say: votes, cancellations,
\* configuration changes by either route and nested executions in any order
\* leave nothing to recount.
THEOREM VotesStayFresh == Spec => []FreshVotesCount
  <1>1. Init => FreshVotesCount
    BY DEF Init, FreshVotesCount, NoProposal
  <1>2. TypeOK /\ ExecInv /\ MultisigSound /\ FreshVotesCount /\ [Next]_vars
           => FreshVotesCount'
    BY StepEffect, FreshVotesStep
  <1> QED
    BY <1>1, <1>2, TypeCorrect, ExecutionInvariant, MultisigAlwaysSound, PTL DEF Spec

\* The cutoff is right from one side: under the rules that rejected a proposal the
\* voters left could not have approved it.
THEOREM RejectionsAreFinal == Spec => []RejectionIsFinal
  <1>1. TypeOK /\ MultisigSound /\ FreshVotesCount => RejectionIsFinal
    <2> SUFFICES ASSUME TypeOK, MultisigSound, FreshVotesCount, NEW i \in Index,
                        ~Stale(i), proposals[i].status = "Rejected"
                 PROVE  Cardinality(Voters(multisig) \ proposals[i].rejected)
                            < multisig.threshold
      BY DEF RejectionIsFinal
    <2> DEFINE R == proposals[i].rejected
               V == Voters(multisig)
    <2>1. R \subseteq V /\ Cardinality(R) >= cutoff(multisig)
      BY DEF FreshVotesCount
    <2>2. R \in SUBSET Keys /\ V \in SUBSET Keys
      BY DEF TypeOK, Proposal, Voters, Holders
    <2>3. V \cap R = R
      BY <2>1
    <2>4. Cardinality(V \ R) = Cardinality(V) - Cardinality(R)
      BY <2>2, <2>3, VoteNumbers, FS_Difference
    <2>5. Cardinality(R) \in Nat /\ Cardinality(V) = num_voters(multisig)
      BY <2>2, VoteNumbers DEF num_voters
    <2> QED
      BY <2>1, <2>4, <2>5, VoteNumbers
  <1> QED
    BY <1>1, TypeCorrect, MultisigAlwaysSound, VotesStayFresh, PTL

\* And from the other side: an open proposal always has a voter left.
THEOREM OpenProposalsHaveVoters == Spec => []NoLimbo
  <1>1. TypeOK /\ MultisigSound /\ FreshVotesCount => NoLimbo
    <2> SUFFICES ASSUME TypeOK, MultisigSound, FreshVotesCount, NEW i \in Index,
                        ~Stale(i), proposals[i].status = "Active",
                        Voters(multisig) \ (proposals[i].approved \cup proposals[i].rejected)
                           = {}
                 PROVE  FALSE
      BY DEF NoLimbo
    <2> DEFINE A == proposals[i].approved
               R == proposals[i].rejected
               V == Voters(multisig)
    <2>1. /\ A \cup R \subseteq V
          /\ Cardinality(A) < multisig.threshold
          /\ Cardinality(R) < cutoff(multisig)
      BY DEF FreshVotesCount
    <2>2. A \in SUBSET Keys /\ R \in SUBSET Keys /\ A \cap R \in SUBSET Keys
      BY DEF TypeOK, Proposal
    <2>3. Cardinality(A \cup R) = Cardinality(A) + Cardinality(R) - Cardinality(A \cap R)
      BY <2>2, VoteNumbers, FS_Union
    <2>4. V = A \cup R
      BY <2>1
    <2>5. /\ Cardinality(A) \in Nat /\ Cardinality(R) \in Nat
          /\ Cardinality(A \cap R) \in Nat
      BY <2>2, VoteNumbers
    <2>6. num_voters(multisig) = Cardinality(A \cup R)
      BY <2>4 DEF num_voters
    <2> HIDE DEF A, R, V
    <2> QED
      BY <2>1, <2>3, <2>5, <2>6, VoteNumbers
  <1> QED
    BY <1>1, TypeCorrect, MultisigAlwaysSound, VotesStayFresh, PTL

-----------------------------------------------------------------------------
(* The size of the accounts *)

\* The votes for and against a proposal fit into a third of its account, and while it
\* is not stale so do the members there are.
Roomy(p, i) ==
    /\ Cardinality(p.approved) + Cardinality(p.rejected) <= p.space
    /\ ~Stale(i) /\ p.status # "NoAccount" => num_members(multisig) <= p.space

SpaceInv == \A i \in Index : Roomy(proposals[i], i)

\* Voters who are counted on one side only are not more than the members.
LEMMA VotersWithinMembers ==
    ASSUME TypeOK, NEW A \in SUBSET Keys, NEW R \in SUBSET Keys,
           A \cup R \subseteq Voters(multisig), A \cap R = {}
    PROVE  Cardinality(A) + Cardinality(R) <= num_members(multisig)
  <1> DEFINE M == {k \in Keys : is_member(multisig, k)}
  <1>1. \A k \in Voters(multisig) : k \in M
    <2> SUFFICES ASSUME NEW k \in Voters(multisig) PROVE k \in M
      OBVIOUS
    <2>1. k \in Keys /\ \E n \in DOMAIN multisig.members[k] : TRUE
      BY DEF Voters, Holders
    <2>2. multisig.members[k] # <<>>
      BY <2>1
    <2> QED
      BY <2>1, <2>2 DEF is_member
  <1>2. M \in SUBSET Keys /\ A \cup R \in SUBSET M
    BY <1>1
  <1>3. \A S \in SUBSET Keys : IsFiniteSet(S) /\ Cardinality(S) \in Nat
    BY KeysAssumption, FS_Subset, FS_CardinalityType
  <1> HIDE DEF M
  <1>4. Cardinality(A \cup R) <= Cardinality(M)
    BY <1>2, <1>3, FS_Subset
  <1>5. Cardinality(A \cup R) = Cardinality(A) + Cardinality(R) - Cardinality(A \cap R)
    BY <1>3, FS_Union
  <1>6. Cardinality(A \cap R) = 0
    BY FS_EmptySet
  <1>7. Cardinality(A) \in Nat /\ Cardinality(R) \in Nat /\ Cardinality(M) \in Nat
    BY <1>2, <1>3
  <1> QED
    BY <1>4, <1>5, <1>6, <1>7 DEF M, num_members

\* Each effect leaves enough room.
LEMMA SpaceStep ==
    ASSUME TypeOK, TypeOK', ExecInv, FreshVotesCount', SpaceInv, Effect
    PROVE  SpaceInv'
  <1> SUFFICES ASSUME NEW j \in Index
               PROVE  Roomy(proposals[j], j)'
    BY DEF SpaceInv
  <1>1. /\ proposals[j] \in Proposal /\ j \in Nat /\ multisig.transaction_index \in Nat
        /\ proposals[j].space \in Nat
    BY DEF TypeOK, Index, Multisig, Proposal
  <1>2. Roomy(proposals[j], j)
    BY DEF SpaceInv
  <1>3. num_members(multisig) \in Nat
    BY CountTypes
  <1>4. \A S \in SUBSET Keys : Cardinality(S) \in Nat
    BY KeysAssumption, FS_Subset, FS_CardinalityType
  <1>5. /\ Cardinality(proposals[j].approved) \in Nat
        /\ Cardinality(proposals[j].rejected) \in Nat
    BY <1>1, <1>4 DEF Proposal
  <1>6. ASSUME SameRules
        PROVE  num_members(multisig') = num_members(multisig) /\ Stale(j)' = Stale(j)
    BY <1>6 DEF SameRules, num_members, is_member, Stale
  <1>7. ASSUME SameRules,
               /\ proposals'[j].approved = proposals[j].approved
               /\ proposals'[j].rejected = proposals[j].rejected
               /\ proposals'[j].space \in Nat /\ proposals'[j].space >= proposals[j].space
               /\ proposals'[j].status # "NoAccount" => proposals[j].status # "NoAccount"
        PROVE  Roomy(proposals[j], j)'
    BY <1>1, <1>2, <1>3, <1>5, <1>6, <1>7 DEF Roomy
  <1>8. multisig' = multisig => SameRules
    BY DEF SameRules
  <1>9. ASSUME SameRules, proposals'[j] = proposals[j]
        PROVE  Roomy(proposals[j], j)'
    BY <1>1, <1>7, <1>9
  <1>10. ASSUME Reconfigured,
                \/ proposals'[j] = proposals[j]
                \/ proposals'[j] = Executed(proposals[j]) /\ proposals[j].status = "Approved"
         PROVE  Roomy(proposals[j], j)'
    <2>1. /\ proposals'[j].approved = proposals[j].approved
          /\ proposals'[j].rejected = proposals[j].rejected
          /\ proposals'[j].space = proposals[j].space
          /\ proposals'[j].status # "NoAccount" => proposals[j].status # "NoAccount"
      BY <1>1, <1>10 DEF Executed, Proposal
    <2>2. CASE SameRules
      BY <1>1, <1>7, <2>1, <2>2
    <2>3. CASE ~SameRules
      <3>1. proposals[j].status # "NoAccount" => j <= multisig.transaction_index
        BY <1>1 DEF ExecInv, AccountInv
      <3>2. proposals[j].status # "NoAccount" => Stale(j)'
        BY <1>10, <2>3, <3>1 DEF Reconfigured, Stale
      <3> QED
        BY <1>2, <2>1, <3>2 DEF Roomy
    <2> QED
      BY <2>2, <2>3
  <1>11. CASE Quiet
    BY <1>8, <1>9, <1>11 DEF Quiet
  <1>12. CASE Configured
    BY <1>10, <1>12 DEF Configured
  <1>13. ASSUME NEW i \in Index,
                Opened(i) \/ Activated(i) \/ Voted(i) \/ CancelVoted(i)
         PROVE  Roomy(proposals[j], j)'
    <2>1. OnlyProposal(i) /\ SameRules
      BY <1>8, <1>13 DEF Opened, Activated, Voted, CancelVoted, OnlyProposal
    <2>2. CASE i # j
      BY <1>9, <2>1, <2>2 DEF OnlyProposal
    <2>3. CASE i = j /\ Opened(i)
      <3>1. Cardinality({}) = 0
        BY FS_EmptySet
      <3>2. /\ proposals'[j].approved = {} /\ proposals'[j].rejected = {}
            /\ proposals'[j].space = num_members(multisig)
        BY <2>3 DEF Opened
      <3> QED
        BY <1>3, <1>6, <2>1, <3>1, <3>2 DEF Roomy
    <2>4. CASE i = j /\ Activated(i)
      <3>1. /\ proposals'[j].approved = proposals[j].approved
            /\ proposals'[j].rejected = proposals[j].rejected
            /\ proposals'[j].space = proposals[j].space
            /\ proposals[j].status # "NoAccount"
        BY <1>1, <2>4 DEF Activated, Proposal
      <3> QED
        BY <1>1, <1>7, <2>1, <3>1
    <2>5. CASE i = j /\ Voted(i)
      <3>1. /\ proposals'[j].space = proposals[j].space
            /\ proposals'[j].status # "NoAccount"
            /\ ~Stale(j) /\ proposals[j].status = "Active"
        BY <1>1, <2>5 DEF Voted, approve, reject, Proposal
      <3>2. num_members(multisig) <= proposals[j].space
        BY <1>2, <3>1 DEF Roomy
      <3>3. /\ proposals'[j].approved \cup proposals'[j].rejected \subseteq Voters(multisig)
            /\ proposals'[j].approved \cap proposals'[j].rejected = {}
        <4>1. Voters(multisig') = Voters(multisig)
          BY <2>1 DEF SameRules, Voters, Holders
        <4>2. ~Stale(j)'
          BY <1>6, <2>1, <3>1
        <4> QED
          BY <3>1, <4>1, <4>2 DEF FreshVotesCount
      <3>4. proposals'[j].approved \in SUBSET Keys /\ proposals'[j].rejected \in SUBSET Keys
        BY DEF TypeOK, Proposal
      <3>5. Cardinality(proposals'[j].approved) + Cardinality(proposals'[j].rejected)
                <= num_members(multisig)
        BY <3>3, <3>4, VotersWithinMembers
      <3>6. /\ Cardinality(proposals'[j].approved) \in Nat
            /\ Cardinality(proposals'[j].rejected) \in Nat
        BY <1>4, <3>4
      <3> QED
        BY <1>1, <1>3, <1>6, <2>1, <3>1, <3>2, <3>5, <3>6 DEF Roomy
    <2>6. CASE i = j /\ CancelVoted(i)
      <3>1. proposals'[j].space \in Nat
        BY DEF TypeOK, Proposal
      <3> QED
        BY <1>7, <2>1, <2>6, <3>1 DEF CancelVoted
    <2> QED
      BY <1>13, <2>2, <2>3, <2>4, <2>5, <2>6
  <1>14. ASSUME NEW i \in Index, Created(i) \/ Resized(i)
         PROVE  Roomy(proposals[j], j)'
    <2>1. SameRules
      BY <1>8, <1>14 DEF Created, Resized, SameRules, TypeOK, Multisig
    <2> QED
      BY <1>9, <1>14, <2>1 DEF Created, Resized, OnlyTransaction
  <1>15. ASSUME NEW i \in Index, ConfigExecuted(i)
         PROVE  Roomy(proposals[j], j)'
    <2>1. \/ proposals'[j] = proposals[j]
          \/ proposals'[j] = Executed(proposals[j]) /\ proposals[j].status = "Approved"
      BY <1>15 DEF ConfigExecuted, TypeOK
    <2> QED
      BY <1>10, <1>15, <2>1 DEF ConfigExecuted
  <1>16. ASSUME NEW i \in Index, Ran(i)
         PROVE  Roomy(proposals[j], j)'
    <2>1. /\ proposals'[j].approved = proposals[j].approved
          /\ proposals'[j].rejected = proposals[j].rejected
          /\ proposals'[j].space = proposals[j].space
          /\ proposals'[j].status # "NoAccount" => proposals[j].status # "NoAccount"
      <3>1. \/ proposals'[j] = proposals[j]
            \/ proposals'[j] = Executed(proposals[j]) /\ proposals[j].status = "Approved"
        BY <1>16 DEF Ran
      <3> QED
        BY <1>1, <3>1 DEF Executed, Proposal
    <2> QED
      BY <1>1, <1>7, <1>8, <1>16, <2>1 DEF Ran
  <1>17. ASSUME NEW i \in Index, Closed(i)
         PROVE  Roomy(proposals[j], j)'
    <2>1. CASE i # j
      BY <1>8, <1>9, <1>17, <2>1 DEF Closed
    <2>2. CASE i = j
      <3>1. proposals'[j] = NoProposal /\ Cardinality({}) = 0
        BY <1>17, <2>2, FS_EmptySet DEF Closed
      <3> QED
        BY <3>1 DEF Roomy, NoProposal
    <2> QED
      BY <2>1, <2>2
  <1> QED
    BY <1>11, <1>12, <1>13, <1>14, <1>15, <1>16, <1>17 DEF Effect

\* With enough room the cancellation of a voter fits: those who cancelled are members,
\* for whom the account is reallocated, and the other votes fit as they are.
LEMMA CancellationFits ==
    ASSUME TypeOK, SpaceInv, NEW i \in Index, NEW m \in Voters(multisig)
    PROVE  Fits(Reallocated(m, i))
  <1> DEFINE p == proposals[i]
             C == {k \in p.cancelled : is_member(multisig, k)} \cup {m}
             M == {k \in Keys : is_member(multisig, k)}
             r == Reallocated(m, i)
             N == num_members(multisig)
  <1>1. /\ p \in Proposal /\ p.space \in Nat /\ N \in Nat /\ multisig.threshold \in Nat
        /\ p.approved \in SUBSET Keys /\ p.rejected \in SUBSET Keys
    BY CountTypes DEF TypeOK, Proposal, Multisig
  <1>2. /\ r.approved = p.approved /\ r.rejected = p.rejected /\ r.cancelled = C
        /\ r.space = IF p.space >= N THEN p.space ELSE N
    <2> DEFINE q == RetainMembers(p)
    <2>1. /\ q \in Proposal /\ q.approved = p.approved /\ q.rejected = p.rejected
          /\ q.space = p.space /\ q.cancelled = {k \in p.cancelled : is_member(multisig, k)}
      BY <1>1 DEF RetainMembers, Proposal
    <2> HIDE DEF q
    <2>2. /\ cancel(q, m, multisig.threshold) \in Proposal
          /\ cancel(q, m, multisig.threshold).approved = q.approved
          /\ cancel(q, m, multisig.threshold).rejected = q.rejected
          /\ cancel(q, m, multisig.threshold).space = q.space
          /\ cancel(q, m, multisig.threshold).cancelled = q.cancelled \cup {m}
      <3>1. m \in Keys
        BY DEF Voters, Holders
      <3> QED
        BY <2>1, <3>1 DEF cancel, Proposal, Status
    <2>3. r = realloc_if_needed(cancel(q, m, multisig.threshold), N)
      BY DEF Reallocated, WithCancellation, q
    <2> HIDE DEF p, N, C, r
    <2>4. r.approved = q.approved /\ r.rejected = q.rejected /\ r.cancelled = q.cancelled \cup {m}
          /\ r.space = IF q.space >= N THEN q.space ELSE N
      BY <2>2, <2>3 DEF realloc_if_needed, Proposal
    <2> QED
      BY <2>1, <2>4 DEF C
  <1>3. m \in M
    <2>1. m \in Keys /\ \E n \in DOMAIN multisig.members[m] : TRUE
      BY DEF Voters, Holders
    <2>2. multisig.members[m] # <<>>
      BY <2>1
    <2> QED
      BY <2>1, <2>2 DEF is_member
  <1>4. C \in SUBSET M /\ M \in SUBSET Keys
    BY <1>1, <1>3 DEF Proposal
  <1>5. \A S \in SUBSET Keys : IsFiniteSet(S) /\ Cardinality(S) \in Nat
    BY KeysAssumption, FS_Subset, FS_CardinalityType
  <1>6. N = Cardinality(M)
    BY DEF num_members
  <1> HIDE DEF C, M, r, N
  <1>7. Cardinality(C) <= N /\ Cardinality(C) \in Nat
    <2>1. IsFiniteSet(M) /\ C \in SUBSET Keys
      BY <1>4, <1>5
    <2> QED
      BY <1>4, <1>5, <1>6, <2>1, FS_Subset
  <1>8. Cardinality(p.approved) + Cardinality(p.rejected) <= p.space
    BY DEF SpaceInv, Roomy
  <1>9. Cardinality(p.approved) \in Nat /\ Cardinality(p.rejected) \in Nat
    BY <1>1, <1>5
  <1> HIDE DEF p
  <1>10. Cardinality(r.approved) + Cardinality(r.rejected) + Cardinality(r.cancelled)
             <= 3 * r.space
    BY <1>1, <1>2, <1>7, <1>8, <1>9
  <1> QED
    BY <1>10 DEF Fits, r

\* A cancellation is never refused for lack of space, for any number of members who
\* joined or left since the account was allocated: proposal_cancel_v2 accepts every voter
\* who has not cancelled an Approved proposal that no execution holds.
THEOREM CancelIsNeverStuck == Spec => []CancelNeverStuck
  <1>1. Init => SpaceInv
    <2>1. Cardinality({}) = 0
      BY FS_EmptySet
    <2>2. ASSUME Init, NEW i \in Index
          PROVE  proposals[i] = NoProposal
      BY <2>2 DEF Init
    <2>3. ASSUME Init, NEW i \in Index
          PROVE  Roomy(proposals[i], i)
      BY <2>1, <2>2, <2>3 DEF Roomy, NoProposal
    <2> QED
      BY <2>3 DEF SpaceInv
  <1>2. TypeOK /\ TypeOK' /\ ExecInv /\ FreshVotesCount' /\ SpaceInv /\ [Next]_vars => SpaceInv'
    BY StepEffect, SpaceStep
  <1>3. TypeOK /\ SpaceInv => CancelNeverStuck
    <2> SUFFICES ASSUME TypeOK, SpaceInv, NEW i \in Index, NEW m \in Voters(multisig),
                        proposals[i].status = "Approved", m \notin proposals[i].cancelled,
                        Writable(ProposalAccount(i))
                 PROVE  MayCancelV2(m, i)
      BY DEF CancelNeverStuck
    <2>1. member_has_permission(multisig, m, "Vote")
      BY DEF member_has_permission, Voters
    <2>2. m \notin RetainMembers(proposals[i]).cancelled
      BY DEF RetainMembers, TypeOK, Proposal
    <2>3. Fits(Reallocated(m, i))
      BY CancellationFits
    <2> QED
      BY <2>1, <2>2, <2>3 DEF MayCancelV2, MayCancel
  <1> QED
    BY <1>1, <1>2, <1>3, TypeCorrect, ExecutionInvariant, VotesStayFresh, PTL DEF Spec

-----------------------------------------------------------------------------
(* What a step may never do *)

\* The ledger of i grows only by an execution of i.
LEMMA LedgerGrows ==
    ASSUME TypeOK, Effect, NEW i \in Index, ledger'[i] # ledger[i]
    PROVE  ConfigExecuted(i) \/ Ran(i)
  <1>1. ASSUME NEW k \in Index, ConfigExecuted(k) PROVE k = i
    BY <1>1 DEF ConfigExecuted, TypeOK
  <1>2. ASSUME NEW k \in Index, Ran(k) PROVE k = i
    BY <1>2 DEF Ran
  <1> QED
    BY <1>1, <1>2 DEF Effect, Quiet, Configured, Opened, Activated, Voted, CancelVoted,
       OnlyProposal, Created, Resized, OnlyTransaction, Closed

\* Nothing is executed without an approval that stands when it takes effect, and a
\* stale config transaction not at all.
THEOREM ExecutionNeedsApproval == Spec => OnlyApprovedExecutes
  <1> DEFINE A == \A i \in Index :
                     ledger'[i] # ledger[i] =>
                         /\ proposals[i].status = "Approved"
                         /\ transactions[i].kind # "NoAccount"
                         /\ transactions[i].kind = "Config" => ~Stale(i)
  <1>1. TypeOK /\ ExecInv /\ [Next]_vars => A
    <2> SUFFICES ASSUME TypeOK, Effect, NEW i \in Index, ledger'[i] # ledger[i]
                 PROVE  /\ proposals[i].status = "Approved"
                        /\ transactions[i].kind # "NoAccount"
                        /\ transactions[i].kind = "Config" => ~Stale(i)
      BY StepEffect
    <2> QED
      BY LedgerGrows DEF ConfigExecuted, Ran
  <1> QED
    BY <1>1, TypeCorrect, ExecutionInvariant, PTL DEF Spec, OnlyApprovedExecutes

\* An autonomous multisig stays autonomous and changes its rules only by executing
\* a config transaction.
THEOREM ChangesNeedConsent == Spec => ConfigByConsent
  <1> DEFINE A == Autonomous(multisig) =>
                     /\ Autonomous(multisig')
                     /\ \/ /\ multisig'.members = multisig.members
                           /\ multisig'.threshold = multisig.threshold
                           /\ multisig'.time_lock = multisig.time_lock
                        \/ \E i \in Index : /\ transactions[i].kind = "Config"
                                             /\ ledger'[i] # ledger[i]
  <1>1. TypeOK /\ ExecInv /\ [Next]_vars => A
    <2> SUFFICES ASSUME TypeOK, Effect, Autonomous(multisig) PROVE A
      BY StepEffect
    <2>1. ASSUME NEW i \in Index, ConfigExecuted(i)
          PROVE  A
      <3>1. ledger'[i] = Append(ledger[i], 0) /\ ledger[i] \in Seq(Nat)
        BY <2>1 DEF ConfigExecuted, TypeOK
      <3>2. Len(ledger'[i]) = Len(ledger[i]) + 1 /\ Len(ledger[i]) \in Nat
        BY <3>1, AppendProperties, LenProperties
      <3>3. ledger'[i] # ledger[i]
        BY <3>2
      <3> QED
        BY <2>1, <3>3 DEF ConfigExecuted, Autonomous
    <2>2. ASSUME NEW i \in Index, Created(i)
          PROVE  A
      BY <2>2 DEF Created, Autonomous, TypeOK, Multisig
    <2>3. multisig' = multisig => A
      BY DEF Autonomous
    <2> QED
      BY <2>1, <2>2, <2>3 DEF Effect, Quiet, Configured, Opened, Activated, Voted,
         CancelVoted, OnlyProposal, Resized, Ran, Closed
  <1> QED
    BY <1>1, TypeCorrect, ExecutionInvariant, PTL DEF Spec, ConfigByConsent

\* Once stale, a proposal is only closed or, if it was approved before, cancelled or
\* executed.
THEOREM StaleStaysFinal == Spec => StaleIsFinal
  <1> DEFINE A == \A i \in Index :
                     Stale(i) /\ proposals'[i] # proposals[i] =>
                         \/ proposals'[i].status = "NoAccount"
                         \/ /\ proposals[i].status = "Approved"
                            /\ proposals'[i].status \in {"Approved", "Cancelled", "Executed"}
                            /\ proposals'[i].approved = proposals[i].approved
                            /\ proposals'[i].status = "Executed" =>
                                  transactions[i].kind # "Config"
  <1>1. TypeOK /\ ExecInv /\ [Next]_vars => A
    <2> SUFFICES ASSUME TypeOK, Effect, NEW i \in Index, Stale(i),
                        proposals'[i] # proposals[i]
                 PROVE  \/ proposals'[i].status = "NoAccount"
                        \/ /\ proposals[i].status = "Approved"
                           /\ proposals'[i].status \in {"Approved", "Cancelled", "Executed"}
                           /\ proposals'[i].approved = proposals[i].approved
                           /\ proposals'[i].status = "Executed" =>
                                 transactions[i].kind # "Config"
      BY StepEffect
    <2>1. PICK k \in Index : CancelVoted(k) \/ Opened(k) \/ Activated(k) \/ Voted(k)
                                \/ ConfigExecuted(k) \/ Ran(k) \/ Closed(k)
      BY DEF Effect, Quiet, Configured, Created, Resized, OnlyTransaction
    <2>2. k = i
      BY <2>1 DEF CancelVoted, Opened, Activated, Voted, OnlyProposal, ConfigExecuted, Ran,
         Closed, TypeOK
    <2>3. CASE CancelVoted(i)
      BY <2>3 DEF CancelVoted
    <2>4. CASE Ran(i)
      <3>1. proposals[i] \in Proposal
        BY DEF TypeOK
      <3> QED
        BY <2>4, <3>1 DEF Ran, Executed, Proposal
    <2>5. CASE Closed(i)
      BY <2>5 DEF Closed, NoProposal
    <2> QED
      BY <2>1, <2>2, <2>3, <2>4, <2>5 DEF Opened, Activated, Voted, ConfigExecuted
  <1> QED
    BY <1>1, TypeCorrect, ExecutionInvariant, PTL DEF Spec, StaleIsFinal

\* What was put to the vote is what is executed: neither the account nor the
\* content of a transaction changes while it is voted on or may be executed.
THEOREM PayloadStaysFrozen == Spec => PayloadFrozen
  <1> DEFINE A == \A i \in Index :
                     \/ proposals[i].status = "Active" /\ ~Stale(i)
                     \/ proposals[i].status = "Approved"
                           /\ ~(transactions[i].kind = "Config" /\ Stale(i))
                     => transactions'[i] =
                           [transactions[i] EXCEPT !.executed_transaction_index =
                                transactions'[i].executed_transaction_index]
  <1>1. TypeOK /\ ExecInv /\ [Next]_vars => A
    <2> SUFFICES ASSUME TypeOK, ExecInv, Effect, NEW i \in Index,
                        \/ proposals[i].status = "Active" /\ ~Stale(i)
                        \/ proposals[i].status = "Approved"
                              /\ ~(transactions[i].kind = "Config" /\ Stale(i))
                 PROVE  transactions'[i] =
                           [transactions[i] EXCEPT !.executed_transaction_index =
                                transactions'[i].executed_transaction_index]
      BY StepEffect
    <2>1. transactions[i] \in Transaction
      BY DEF TypeOK
    <2>2. CASE transactions'[i] = transactions[i]
      BY <2>1, <2>2 DEF Transaction
    <2>3. ASSUME NEW n \in Nat,
                 transactions'[i] = [transactions[i] EXCEPT !.executed_transaction_index = n]
          PROVE  transactions'[i] =
                    [transactions[i] EXCEPT !.executed_transaction_index =
                         transactions'[i].executed_transaction_index]
      BY <2>1, <2>3 DEF Transaction
    <2>4. ~CanCloseVault(i) /\ (transactions[i].kind = "Config" => ~CanCloseConfig(i))
      BY DEF CanCloseVault, CanCloseConfig
    <2>5. i <= multisig.transaction_index /\ multisig.transaction_index \in Nat /\ i \in Nat
      BY DEF ExecInv, AccountInv, TypeOK, Multisig, Index
    <2>6. ASSUME NEW k \in Index, Created(k) \/ Resized(k) \/ Closed(k)
          PROVE  transactions'[i] = transactions[i]
      BY <2>4, <2>5, <2>6 DEF Created, Resized, Closed, OnlyTransaction
    <2> QED
      BY <2>2, <2>3, <2>6 DEF Effect, Quiet, Configured, Opened, Activated, Voted,
         CancelVoted, OnlyProposal, ConfigExecuted, Ran
  <1> QED
    BY <1>1, TypeCorrect, ExecutionInvariant, PTL DEF Spec, PayloadFrozen

-----------------------------------------------------------------------------
(* The program implements TransactionLifecycle *)

phases == [i \in Index |-> PhaseOf(i)]

\* The transaction stays in its phase or is given up.
Kept(j) ==
    \/ PhaseOf(j)' = PhaseOf(j)
    \/ PhaseOf(j) \in {"pending", "passed"} /\ PhaseOf(j)' = "dead"

\* The steps of the abstract specification, by what they do to the phases.
LEMMA AbandonPhases ==
    ASSUME \A j \in Index : Kept(j)
    PROVE  Lifecycle!Next
  <1> DEFINE voided == {j \in Index : PhaseOf(j)' # PhaseOf(j)}
  <1>1. \A j \in voided : phases[j] \in {"pending", "passed"}
    BY DEF phases, Kept
  <1>2. phases' = [j \in Index |-> IF j \in voided THEN "dead" ELSE phases[j]]
    BY DEF phases, Kept
  <1>3. voided \in SUBSET Index
    OBVIOUS
  <1> HIDE DEF voided
  <1>4. Lifecycle!Abandon(voided)
    BY <1>1, <1>2, <1>3 DEF Lifecycle!Abandon, phases, Index
  <1> QED
    BY <1>3, <1>4 DEF Lifecycle!Next, Index

\* The last approval passes one transaction,
LEMMA PassPhases ==
    ASSUME NEW i \in Index, PhaseOf(i) = "pending", PhaseOf(i)' = "passed",
           \A j \in Index \ {i} : PhaseOf(j)' = PhaseOf(j)
    PROVE  Lifecycle!Next
  <1>1. Lifecycle!Pass(i)
    BY DEF Lifecycle!Pass, Index
  <1> QED
    BY <1>1 DEF Lifecycle!Next, Index

\* a new transaction is the next one,
LEMMA CreatePhases ==
    ASSUME NEW i \in Index, PhaseOf(i) = "absent", PhaseOf(i)' = "pending",
           \A j \in Index : j < i => PhaseOf(j) # "absent",
           \A j \in Index \ {i} : PhaseOf(j)' = PhaseOf(j)
    PROVE  Lifecycle!Next
  <1>1. \A j \in 1 .. i - 1 : j \in Index /\ j < i
    BY BoundsAssumption DEF Index
  <1>2. Lifecycle!Create(i)
    BY <1>1 DEF Lifecycle!Create, Index
  <1> QED
    BY <1>2 DEF Lifecycle!Next, Index

\* an execution finishes one and may void others,
LEMMA ExecutePhases ==
    ASSUME NEW i \in Index, PhaseOf(i) = "passed", PhaseOf(i)' = "done",
           \A j \in Index \ {i} : Kept(j)
    PROVE  Lifecycle!Next
  <1> DEFINE voided == {j \in Index \ {i} : PhaseOf(j)' # PhaseOf(j)}
  <1>1. \A j \in voided : phases[j] \in {"pending", "passed"}
    BY DEF phases, Kept
  <1>2. phases' = [j \in Index |-> IF j = i THEN "done"
                                   ELSE IF j \in voided THEN "dead" ELSE phases[j]]
    BY DEF phases, Kept
  <1>3. voided \in SUBSET Index /\ i \notin voided /\ phases[i] = "passed"
    BY DEF phases
  <1> HIDE DEF voided
  <1>4. Lifecycle!Execute(i, voided)
    BY <1>1, <1>2, <1>3 DEF Lifecycle!Execute, phases, Index
  <1> QED
    BY <1>3, <1>4 DEF Lifecycle!Next, Index

\* An index whose accounts do not change keeps its phase, or is given up when the
\* rules change.
LEMMA UntouchedPhase ==
    ASSUME TypeOK, NEW j \in Index, proposals'[j] = proposals[j],
           transactions'[j] = transactions[j], ledger'[j] = ledger[j],
           multisig'.transaction_index = multisig.transaction_index,
           \/ multisig'.stale_transaction_index = multisig.stale_transaction_index
           \/ multisig'.stale_transaction_index = multisig.transaction_index
    PROVE  /\ Kept(j)
           /\ multisig'.stale_transaction_index = multisig.stale_transaction_index
                 => PhaseOf(j)' = PhaseOf(j)
  <1>1. j \in Nat /\ multisig.transaction_index \in Nat
    BY DEF TypeOK, Multisig, Index
  <1>2. CASE multisig'.stale_transaction_index = multisig.stale_transaction_index
    BY <1>2 DEF Kept, PhaseOf, Done, Passed, Undecided, Stale
  <1>3. CASE multisig'.stale_transaction_index = multisig.transaction_index
    <2>1. CASE j > multisig.transaction_index
      BY <2>1 DEF Kept, PhaseOf
    <2>2. CASE ~(j > multisig.transaction_index)
      <3>1. Stale(j)'
        BY <1>1, <1>3, <2>2 DEF Stale
      <3>2. Done(j)' = Done(j) /\ Passed(j)' = (Passed(j) /\ transactions[j].kind # "Config")
            /\ ~Undecided(j)'
        BY <3>1 DEF Done, Passed, Undecided
      <3> QED
        BY <1>2, <2>2, <3>2 DEF Kept, PhaseOf, Passed
    <2> QED
      BY <2>1, <2>2
  <1> QED
    BY <1>2, <1>3

\* Neither ledger nor rules change: the phase of i follows from its accounts.
LEMMA ProposalPhase ==
    ASSUME TypeOK, ExecInv, NEW i \in Index, i <= multisig.transaction_index,
           UNCHANGED <<multisig, ledger>>
    PROVE  /\ Done(i) => PhaseOf(i) = "done" /\ PhaseOf(i)' = "done"
           /\ ~Done(i) =>
                 /\ PhaseOf(i) = IF transactions[i].kind = "NoAccount" THEN "dead"
                                 ELSE IF Passed(i) THEN "passed"
                                 ELSE IF Undecided(i) THEN "pending" ELSE "dead"
                 /\ PhaseOf(i)' = IF transactions'[i].kind = "NoAccount" THEN "dead"
                                  ELSE IF Passed(i)' THEN "passed"
                                  ELSE IF Undecided(i)' THEN "pending" ELSE "dead"
  <1>1. ~(i > multisig.transaction_index)
    BY DEF TypeOK, Multisig, Index
  <1>2. Done(i)' = Done(i)
    BY DEF Done
  <1> QED
    BY <1>1, <1>2 DEF PhaseOf

\* and so every effect is a step of the lifecycle or none.
LEMMA LifecycleStep ==
    TypeOK /\ ExecInv /\ MultisigSound /\ Effect => [Lifecycle!Next]_phases
  <1> SUFFICES ASSUME TypeOK, ExecInv, MultisigSound, Effect PROVE Lifecycle!Next
    OBVIOUS
  <1>1. multisig.transaction_index \in Nat /\ multisig.stale_transaction_index \in Nat
        /\ multisig.stale_transaction_index <= multisig.transaction_index
    BY DEF TypeOK, Multisig, MultisigSound, invariant
  <1>2. ASSUME NEW i \in Index, UNCHANGED multisig,
               \A j \in Index \ {i} : /\ proposals'[j] = proposals[j]
                                      /\ transactions'[j] = transactions[j]
                                      /\ ledger'[j] = ledger[j]
        PROVE  \A j \in Index \ {i} : PhaseOf(j)' = PhaseOf(j) /\ Kept(j)
    BY <1>2, UntouchedPhase DEF Kept
  <1>3. ASSUME NEW i \in Index,
               proposals[i].status # "NoAccount" \/ transactions[i].kind # "NoAccount"
        PROVE  i <= multisig.transaction_index
    BY <1>1, <1>3 DEF ExecInv, AccountInv, Index
  <1>4. CASE Quiet
    BY <1>4, UntouchedPhase, AbandonPhases DEF Quiet
  <1>5. CASE Configured
    BY <1>5, UntouchedPhase, AbandonPhases DEF Configured, Reconfigured, SameRules
  <1>6. ASSUME NEW i \in Index, Opened(i) \/ Activated(i) PROVE Lifecycle!Next
    <2>1. /\ UNCHANGED <<multisig, ledger, transactions>> /\ ~Stale(i)
          /\ proposals[i].status \in {"NoAccount", "Draft"}
          /\ proposals'[i].status \in {"Draft", "Active"}
          /\ i <= multisig.transaction_index
          /\ \A j \in Index \ {i} : proposals'[j] = proposals[j]
      <3>1. proposals[i] \in Proposal
        BY DEF TypeOK
      <3> QED
        BY <1>3, <1>6, <3>1 DEF Opened, Activated, OnlyProposal, Proposal
    <2>2. PhaseOf(i)' = PhaseOf(i)
      <3>1. Undecided(i) /\ Undecided(i)' /\ ~Passed(i) /\ ~Passed(i)'
        BY <2>1 DEF Undecided, Passed, Stale
      <3> QED
        BY <2>1, <3>1, ProposalPhase
    <2>3. \A j \in Index : Kept(j)
      BY <1>2, <2>1, <2>2 DEF Kept
    <2> QED
      BY <2>3, AbandonPhases
  <1>7. ASSUME NEW i \in Index, Voted(i) PROVE Lifecycle!Next
    <2>1. /\ UNCHANGED <<multisig, ledger, transactions>> /\ ~Stale(i) /\ ~Stale(i)'
          /\ proposals[i].status = "Active"
          /\ i <= multisig.transaction_index
          /\ \A j \in Index \ {i} : proposals'[j] = proposals[j]
      BY <1>3, <1>7 DEF Voted, OnlyProposal, Stale
    <2>2. proposals'[i].status \in {"Active", "Approved", "Rejected"}
      <3>1. proposals[i] \in Proposal
        BY DEF TypeOK
      <3> QED
        BY <1>7, <2>1, <3>1 DEF Voted, approve, reject, Proposal
    <2>3. ~Passed(i) /\ Undecided(i)
      BY <2>1 DEF Passed, Undecided
    <2>4. CASE proposals'[i].status = "Active"
      <3>1. ~Passed(i)' /\ Undecided(i)'
        BY <2>1, <2>4 DEF Passed, Undecided
      <3>2. PhaseOf(i)' = PhaseOf(i)
        BY <2>1, <2>3, <3>1, ProposalPhase
      <3>3. \A j \in Index : Kept(j)
        BY <1>2, <2>1, <3>2 DEF Kept
      <3> QED
        BY <3>3, AbandonPhases
    <2>5. CASE proposals'[i].status = "Approved"
      <3>1. Passed(i)'
        BY <2>1, <2>5 DEF Passed
      <3>2. CASE Done(i) \/ transactions[i].kind = "NoAccount"
        <4>1. PhaseOf(i)' = PhaseOf(i)
          BY <2>1, <3>2, ProposalPhase
        <4>2. \A j \in Index : Kept(j)
          BY <1>2, <2>1, <4>1 DEF Kept
        <4> QED
          BY <4>2, AbandonPhases
      <3>3. CASE ~(Done(i) \/ transactions[i].kind = "NoAccount")
        <4>1. PhaseOf(i) = "pending" /\ PhaseOf(i)' = "passed"
          BY <2>1, <2>3, <3>1, <3>3, ProposalPhase
        <4> QED
          BY <1>2, <2>1, <4>1, PassPhases
      <3> QED
        BY <3>2, <3>3
    <2>6. CASE proposals'[i].status = "Rejected"
      <3>1. ~Passed(i)' /\ ~Undecided(i)'
        BY <2>6 DEF Passed, Undecided
      <3>2. Kept(i)
        BY <2>1, <2>3, <3>1, ProposalPhase DEF Kept
      <3>3. \A j \in Index : Kept(j)
        BY <1>2, <2>1, <3>2
      <3> QED
        BY <3>3, AbandonPhases
    <2> QED
      BY <2>2, <2>4, <2>5, <2>6
  <1>8. ASSUME NEW i \in Index, CancelVoted(i) PROVE Lifecycle!Next
    <2>1. /\ UNCHANGED <<multisig, ledger, transactions>>
          /\ proposals[i].status = "Approved"
          /\ proposals'[i].status \in {"Approved", "Cancelled"}
          /\ i <= multisig.transaction_index
          /\ \A j \in Index \ {i} : proposals'[j] = proposals[j]
      BY <1>3, <1>8 DEF CancelVoted, OnlyProposal
    <2>2. ~Undecided(i) /\ ~Undecided(i)' /\ (Passed(i)' => Passed(i))
      BY <2>1 DEF Undecided, Passed, Stale
    <2>3. Kept(i)
      BY <2>1, <2>2, ProposalPhase DEF Kept
    <2>4. \A j \in Index : Kept(j)
      BY <1>2, <2>1, <2>3
    <2> QED
      BY <2>4, AbandonPhases
  <1>9. ASSUME NEW i \in Index, Created(i) PROVE Lifecycle!Next
    <2>1. /\ i = multisig.transaction_index + 1
          /\ multisig'.transaction_index = i
          /\ multisig'.stale_transaction_index = multisig.stale_transaction_index
          /\ UNCHANGED <<proposals, ledger>>
          /\ transactions'[i].kind # "NoAccount"
          /\ \A j \in Index \ {i} : transactions'[j] = transactions[j]
      BY <1>9 DEF Created, OnlyTransaction, TypeOK, Multisig
    <2>2. PhaseOf(i) = "absent"
      BY <1>1, <2>1 DEF PhaseOf
    <2>3. proposals[i].status = "NoAccount" /\ ledger[i] = <<>>
      BY <1>1, <2>1 DEF ExecInv, AccountInv
    <2>4. ~Done(i)' /\ ~Passed(i)' /\ Undecided(i)'
      BY <1>1, <2>1, <2>3 DEF Done, Passed, Undecided, Stale
    <2>5. PhaseOf(i)' = "pending"
      BY <1>1, <2>1, <2>4 DEF PhaseOf
    <2>6. \A j \in Index : j < i => PhaseOf(j) # "absent"
      BY <1>1, <2>1 DEF PhaseOf, Index
    <2>7. ASSUME NEW j \in Index \ {i} PROVE PhaseOf(j)' = PhaseOf(j)
      <3>1. (j > multisig'.transaction_index) = (j > multisig.transaction_index)
        BY <1>1, <2>1 DEF Index
      <3> QED
        BY <2>1, <3>1 DEF PhaseOf, Done, Passed, Undecided, Stale
    <2> QED
      BY <2>2, <2>5, <2>6, <2>7, CreatePhases
  <1>10. ASSUME NEW i \in Index, Resized(i) PROVE Lifecycle!Next
    <2>1. /\ UNCHANGED <<multisig, ledger, proposals>>
          /\ transactions'[i].kind = transactions[i].kind
          /\ \A j \in Index \ {i} : transactions'[j] = transactions[j]
      BY <1>10 DEF Resized, OnlyTransaction
    <2>2. PhaseOf(i)' = PhaseOf(i)
      BY <2>1 DEF PhaseOf, Done, Passed, Undecided, Stale
    <2>3. \A j \in Index : Kept(j)
      BY <1>2, <2>1, <2>2 DEF Kept
    <2> QED
      BY <2>3, AbandonPhases
  <1>11. ASSUME NEW i \in Index, ConfigExecuted(i) \/ Ran(i)
         PROVE  PhaseOf(i) = "passed"
    <2>1. /\ proposals[i].status = "Approved" /\ i <= multisig.transaction_index
          /\ transactions[i].kind # "NoAccount" /\ Passed(i)
      BY <1>3, <1>11 DEF ConfigExecuted, Ran, Passed
    <2>2. ~Done(i)
      BY <2>1 DEF ExecInv, AccountInv, Completed, Done
    <2> QED
      BY <1>1, <2>1, <2>2 DEF PhaseOf, Index
  <1>12. ASSUME NEW i \in Index, NEW s \in Seq(Nat), ledger'[i] = Append(s, 0),
                i <= multisig.transaction_index,
                multisig'.transaction_index = multisig.transaction_index
         PROVE  PhaseOf(i)' = "done"
    <2>1. Len(s) + 1 \in DOMAIN ledger'[i] /\ ledger'[i][Len(s) + 1] = 0
      BY <1>12, AppendProperties, LenProperties
    <2>2. Done(i)'
      BY <2>1 DEF Done
    <2> QED
      BY <1>1, <1>12, <2>2 DEF PhaseOf, Index
  <1>13. ASSUME NEW i \in Index, ConfigExecuted(i) PROVE Lifecycle!Next
    <2>1. /\ ledger'[i] = Append(ledger[i], 0) /\ ledger[i] \in Seq(Nat)
          /\ multisig'.transaction_index = multisig.transaction_index
          /\ i <= multisig.transaction_index
          /\ \A j \in Index \ {i} : /\ proposals'[j] = proposals[j]
                                    /\ transactions'[j] = transactions[j]
                                    /\ ledger'[j] = ledger[j]
      BY <1>3, <1>13 DEF ConfigExecuted, Reconfigured, TypeOK
    <2>2. PhaseOf(i)' = "done"
      BY <1>12, <2>1
    <2>3. \A j \in Index \ {i} : Kept(j)
      BY <1>13, <2>1, UntouchedPhase DEF ConfigExecuted, Reconfigured, SameRules
    <2> QED
      BY <1>11, <1>13, <2>2, <2>3, ExecutePhases
  <1>14. ASSUME NEW i \in Index, Ran(i) PROVE Lifecycle!Next
    <2>1. UNCHANGED multisig /\ i <= multisig.transaction_index
      BY <1>3, <1>14 DEF Ran
    <2>2. \A j \in Index \ {i} : PhaseOf(j)' = PhaseOf(j) /\ Kept(j)
      BY <1>2, <1>14, <2>1 DEF Ran
    <2>3. CASE \E s \in Seq(Nat) : ledger'[i] = Append(s, 0)
      BY <1>11, <1>12, <1>14, <2>1, <2>2, <2>3, ExecutePhases
    <2>4. ASSUME NEW n \in Nat \ {0}, ledger'[i] = Append(ledger[i], n),
                 proposals'[i] = proposals[i]
          PROVE  Lifecycle!Next
      <3>1. ledger[i] \in Seq(Nat) /\ Len(ledger[i]) \in Nat
            /\ DOMAIN ledger[i] = 1 .. Len(ledger[i])
            /\ DOMAIN ledger'[i] = 1 .. Len(ledger[i]) + 1
            /\ \A m \in 1 .. Len(ledger[i]) : ledger'[i][m] = ledger[i][m]
            /\ ledger'[i][Len(ledger[i]) + 1] = n
        BY <2>4, AppendProperties, LenProperties DEF TypeOK
      <3>a. \A m \in DOMAIN ledger'[i] :
              ledger'[i][m] = 0 => m \in DOMAIN ledger[i] /\ ledger[i][m] = 0
        <4> SUFFICES ASSUME NEW m \in DOMAIN ledger'[i], ledger'[i][m] = 0
                     PROVE  m \in DOMAIN ledger[i] /\ ledger[i][m] = 0
          OBVIOUS
        <4>1. m # Len(ledger[i]) + 1
          BY <2>4, <3>1
        <4>2. m \in 1 .. Len(ledger[i])
          BY <3>1, <4>1
        <4> QED
          BY <3>1, <4>2
      <3>b. \A m \in DOMAIN ledger[i] :
              ledger[i][m] = 0 => m \in DOMAIN ledger'[i] /\ ledger'[i][m] = 0
        BY <3>1
      <3>2. Done(i)' <=> Done(i)
        BY <3>a, <3>b, Zenon DEF Done
      <3>3. transactions'[i].kind = transactions[i].kind
        BY <1>14 DEF Ran, TypeOK, Transaction
      <3>4. PhaseOf(i)' = PhaseOf(i)
        BY <2>1, <2>4, <3>2, <3>3 DEF PhaseOf, Passed, Undecided, Stale
      <3>5. \A j \in Index : Kept(j)
        BY <2>2, <3>4 DEF Kept
      <3> QED
        BY <3>5, AbandonPhases
    <2> QED
      BY <1>14, <2>3, <2>4 DEF Ran
  <1>15. ASSUME NEW i \in Index, Closed(i) PROVE Lifecycle!Next
    <2>1. /\ UNCHANGED <<multisig, ledger>> /\ i <= multisig.transaction_index
          /\ transactions'[i].kind = "NoAccount"
      BY <1>3, <1>15 DEF Closed, NoTransaction
    <2>2. Kept(i)
      BY <2>1, ProposalPhase DEF Kept
    <2>3. \A j \in Index : Kept(j)
      BY <1>2, <1>15, <2>1, <2>2 DEF Closed
    <2> QED
      BY <2>3, AbandonPhases
  <1> QED
    BY <1>4, <1>5, <1>6, <1>7, <1>8, <1>9, <1>10, <1>13, <1>14, <1>15 DEF Effect

\* Every behaviour of the multisig program is one of TransactionLifecycle: numbered
\* in order, passed once, executed once and only when passed, dead for ever.
THEOREM ProgramImplementsLifecycle == Spec => ImplementsLifecycle
  <1>1. Init => Lifecycle!Init
    <2> SUFFICES ASSUME Init PROVE Lifecycle!Init
      OBVIOUS
    <2>1. multisig.transaction_index = 0
      BY CreateAssumption DEF Init, multisig_create
    <2>2. \A i \in Index : PhaseOf(i) = "absent"
      BY <2>1 DEF PhaseOf, Index
    <2> QED
      BY <2>2 DEF Lifecycle!Init, Index
  <1>2. TypeOK /\ ExecInv /\ MultisigSound /\ [Next]_vars
           => [Lifecycle!Next]_[i \in Index |-> PhaseOf(i)]
    BY StepEffect, LifecycleStep DEF phases
  <1> QED
    BY <1>1, <1>2, TypeCorrect, ExecutionInvariant, MultisigAlwaysSound, PTL
    DEF Spec, ImplementsLifecycle, Lifecycle!Spec

=============================================================================
