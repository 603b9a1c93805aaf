------------------------- MODULE TransactionLifecycle -------------------------
(***************************************************************************)
(* What the multisig program promises about the transactions of one        *)
(* multisig, without votes, accounts, clocks or nested calls: they are     *)
(* numbered in the order of creation, each is passed at most once and      *)
(* executed at most once, only after it was passed, and one that is dead   *)
(* (rejected, cancelled, stale before it was passed, or closed) or done    *)
(* stays so for ever.                                                      *)
(***************************************************************************)
EXTENDS Naturals

CONSTANT MaxIndex

VARIABLE phase

Phase == {"absent", "pending", "passed", "done", "dead"}

Init == phase = [i \in 1 .. MaxIndex |-> "absent"]

\* The transaction gets the lowest number that was never used.
Create(i) ==
    /\ phase[i] = "absent"
    /\ \A j \in 1 .. i - 1 : phase[j] # "absent"
    /\ phase' = [phase EXCEPT ![i] = "pending"]

\* The voters decide for it.
Pass(i) ==
    /\ phase[i] = "pending"
    /\ phase' = [phase EXCEPT ![i] = "passed"]

\* It is executed.  Executing one may void others: changing who votes voids what
\* was not passed.
Execute(i, voided) ==
    /\ phase[i] = "passed"
    /\ i \notin voided
    /\ \A j \in voided : phase[j] \in {"pending", "passed"}
    /\ phase' = [j \in 1 .. MaxIndex |-> IF j = i THEN "done"
                                         ELSE IF j \in voided THEN "dead" ELSE phase[j]]

\* Undecided or passed transactions are given up.
Abandon(voided) ==
    /\ \A j \in voided : phase[j] \in {"pending", "passed"}
    /\ phase' = [j \in 1 .. MaxIndex |-> IF j \in voided THEN "dead" ELSE phase[j]]

Next ==
    \/ \E i \in 1 .. MaxIndex : Create(i) \/ Pass(i)
    \/ \E i \in 1 .. MaxIndex, voided \in SUBSET (1 .. MaxIndex) : Execute(i, voided)
    \/ \E voided \in SUBSET (1 .. MaxIndex) : Abandon(voided)

Spec == Init /\ [][Next]_phase
=============================================================================
