--------------------------- MODULE TokenTransfers ---------------------------
(***************************************************************************)
(* What a bridge promises its users, without messages, transceivers,       *)
(* votes, limits, decimals or custody: tokens that leave a chain come to   *)
(* the chain they were sent to once and in full, and nobody gets tokens    *)
(* that were not sent.  Amounts on all chains are in the same unit.        *)
(***************************************************************************)
EXTENDS Naturals

CONSTANTS Chains, Ids

VARIABLES
    holdings,   \* holdings[c]: tokens of the users of c
    pending,    \* the transfers that were sent and not yet paid out
    used        \* the numbers of all transfers ever sent

vars == <<holdings, pending, used>>

Init ==
    /\ holdings \in [Chains -> Nat]
    /\ pending = {}
    /\ used = {}

Send(c, transfer) ==
    /\ transfer.id \notin used
    /\ transfer.amount <= holdings[c]
    /\ holdings' = [holdings EXCEPT ![c] = @ - transfer.amount]
    /\ pending' = pending \cup {transfer}
    /\ used' = used \cup {transfer.id}

Pay(transfer) ==
    /\ holdings' = [holdings EXCEPT ![transfer.to] = @ + transfer.amount]
    /\ pending' = pending \ {transfer}
    /\ UNCHANGED used

Next ==
    \/ \E c \in Chains : \E d \in Chains \ {c}, amount \in 0 .. holdings[c], id \in Ids :
           Send(c, [id |-> id, to |-> d, amount |-> amount])
    \/ \E transfer \in pending : Pay(transfer)

Spec == Init /\ [][Next]_vars
=============================================================================
