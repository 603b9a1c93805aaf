------------------------------ MODULE NttBridge ------------------------------
(***************************************************************************)
(* The managers of all chains taken together: tokens are neither created   *)
(* nor lost between the chains, and transfers arrive.                      *)
(***************************************************************************)
EXTENDS NttManager, FiniteSetsExt

(* On the chains that burn and mint, all tokens came over the bridge.      *)
ASSUME BridgedAssumption == \A c \in Chains \ Locking : Supply[c] = 0

\* No transceiver attests to what nobody sent, and the owners register their peers
\* with the decimals that the token has there.
Honest ==
    /\ Faulty = {} \/ Phantoms = {}
    /\ \A d \in Chains : PeerDecimals[d] \subseteq {Decimals[d]}

\* An amount in units of the smallest denomination in use.
InUnits(amount, decimals) ==
    amount * pow10[Max({Decimals[c] : c \in Chains}) - decimals]

Items == {x \in Chains \X (1..MaxTransfers) : x[2] \in DOMAIN outbox[x[1]]}

\* Item i of chain c was paid out on the chain it went to.
Arrived(c, i) ==
    LET k == keccak256(Message(c, i))
    IN  k \in DOMAIN inbox[k.to_chain] /\ inbox[k.to_chain][k].release_status = Released

InFlight == {x \in Items : ~Arrived(x[1], x[2])}

\* What was taken from the sender of an item.
Sent(x) ==
    LET amount == outbox[x[1]][x[2]].amount IN InUnits(amount.amount, amount.decimals)

(* What is locked is exactly what circulates on the chains that mint plus  *)
(* what is on its way (transfer_lock, transfer_burn, release_inbound_mint, *)
(* release_inbound_unlock), whatever is delayed, disabled or repeated and  *)
(* although the chains count in different decimals: an item is paid out at *)
(* most once, with the amount that was taken, so that unlocking never      *)
(* lacks tokens where one chain locks.                                     *)
Backed ==
    SumFunction([c \in Locking |-> InUnits(custody[c], Decimals[c])]) =
        SumFunction([c \in Chains \ Locking |-> InUnits(balance[c], Decimals[c])]) +
        SumFunction([x \in InFlight |-> Sent(x)])

-----------------------------------------------------------------------------
(* The bridge as TokenTransfers.  A transfer is what its outbox item says. *)

Ticket(x) ==
    [id |-> x, to |-> outbox[x[1]][x[2]].recipient_chain, amount |-> Sent(x)]

Holdings == [c \in Chains |-> InUnits(balance[c], Decimals[c])]

Pending == {Ticket(x) : x \in InFlight}

Transfers ==
    INSTANCE TokenTransfers WITH
        Ids <- Chains \X (1..MaxTransfers),
        holdings <- Holdings,
        pending <- Pending,
        used <- Items

(* Users lose tokens only by sending them and get tokens only by a release *)
(* that pays out one transfer, not paid before, where it was sent to and   *)
(* to the last unit, however its messages were repeated, reordered, voted  *)
(* for again, delayed or converted (redeem, release_inbound).  Backed adds *)
(* up the chains that mint; this follows each transfer, and the users of   *)
(* the chains that lock.                                                   *)
ImplementsTransfers == Transfers!Spec

-----------------------------------------------------------------------------
(* Liveness.  Nothing in the programs schedules anything; sending,         *)
(* receiving, redeeming and releasing need no particular signer, and       *)
(* relayers repeat them until they succeed.                                *)

Relay(c, t, i) == i \in DOMAIN outbox[c] /\ release_outbound(c, t, i)

Deliver(c, t, i) ==
    \E vaa \in vaas : /\ vaa[1] = t /\ vaa[2].from_chain = c /\ vaa[2].id = i
                      /\ receive_message(vaa[2].to_chain, t, vaa[2])

Vote(c, t, i) ==
    \E d \in Chains : \E v \in validated[d] :
        /\ v[1] = t /\ v[2].from_chain = c /\ v[2].id = i
        /\ redeem(d, t, v[2])

PayOut(c, i) ==
    \E d \in Chains : \E k \in DOMAIN inbox[d] :
        /\ k.from_chain = c /\ k.id = i
        /\ release_inbound_mint(d, k) \/ release_inbound_unlock(d, k)

Fairness ==
    /\ WF_vars(Tick)
    /\ \A c \in Chains, i \in 1..MaxTransfers :
           /\ WF_vars(PayOut(c, i))
           /\ \A t \in Transceivers :
                  /\ WF_vars(Relay(c, t, i))
                  /\ WF_vars(Deliver(c, t, i))
                  /\ WF_vars(Vote(c, t, i))

LiveSpec == Spec /\ Fairness

\* Transceivers that can carry a message from c to d.
Carriers(c, d) ==
    {t \in Transceivers :
        /\ Enabled(c, t) /\ Enabled(d, t)
        /\ <<t, c>> \in DOMAIN transceiver_peers[d]
        /\ transceiver_peers[d][t, c] = c}

\* Both sides are open and know each other, and the transceivers in `links`
\* connect them and are enough.
Connected(c, d, links) ==
    /\ ~config[c].paused /\ ~config[d].paused
    /\ peers[d][c].address = c
    /\ links \subseteq Carriers(c, d)
    /\ Cardinality(links) >= config[d].threshold

\* Item i of c is paid out on d, or was sent elsewhere, or is delayed beyond the
\* end of the modelled time.
Settled(c, d, i) ==
    /\ i \in DOMAIN outbox[c]
    /\ LET k == keccak256(Message(c, i))
       IN  \/ Arrived(c, i)
           \/ k.to_chain # d \/ outbox[c][i].recipient_ntt_manager # d
           \/ outbox[c][i].release_timestamp > MaxTime
           \/ /\ k \in DOMAIN inbox[d]
              /\ inbox[d][k].release_status.release_timestamp > MaxTime

(* A transfer is paid out on the other chain if from some time on the two  *)
(* chains stay connected: whatever the owners did before (transceivers     *)
(* disabled between two votes, the threshold lowered below the votes an    *)
(* item already has, pauses), somebody can always complete it.             *)
Delivery ==
    \A c \in Chains : \A d \in Chains \ {c}, links \in SUBSET Transceivers \ {{}}, i \in 1..MaxTransfers :
        <>[]Connected(c, d, links) => (i \in DOMAIN outbox[c] ~> Settled(c, d, i))
=============================================================================
