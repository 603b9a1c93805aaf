--------------------------- MODULE SquadsLifecycle ---------------------------
(***************************************************************************)
(* The multisig program implements TransactionLifecycle.  The phase of a   *)
(* transaction is read off the accounts and the ledger of what ran.        *)
(***************************************************************************)
EXTENDS SquadsMultisig

\* The transaction, or the last one of the batch, has run.
Done(i) == \E n \in DOMAIN ledger[i] : ledger[i][n] = 0

\* The transaction may still be executed: approved, its account exists, and a
\* config transaction is not stale.
Passed(i) ==
    /\ proposals[i].status = "Approved"
    /\ transactions[i].kind = "Config" => ~Stale(i)

\* It may still be put to the vote or is being voted on.
Undecided(i) ==
    /\ proposals[i].status \in {"NoAccount", "Draft", "Active"}
    /\ ~Stale(i)

PhaseOf(i) ==
    IF i > multisig.transaction_index THEN "absent"
    ELSE IF Done(i) THEN "done"
    ELSE IF transactions[i].kind = "NoAccount" THEN "dead"
    ELSE IF Passed(i) THEN "passed"
    ELSE IF Undecided(i) THEN "pending"
    ELSE "dead"

Lifecycle == INSTANCE TransactionLifecycle WITH phase <- [i \in Index |-> PhaseOf(i)]

\* Every behaviour of the program is one of the lifecycle's: no vote, nested
\* execution, closed account, invalidation or proposal created again brings a
\* transaction back, passes it twice or executes it without being passed.
ImplementsLifecycle == Lifecycle!Spec
=============================================================================
