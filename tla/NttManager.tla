----------------------------- MODULE NttManager -----------------------------
(***************************************************************************)
(* Native Token Transfers: the manager program deployed on several chains, *)
(* and the transceivers that carry its messages between them.  A transfer  *)
(* locks or burns tokens and puts an item into the outbox; each enabled    *)
(* transceiver may send it; on the other chain each transceiver that       *)
(* receives the message votes for it (redeem), and when `threshold` of the *)
(* enabled ones have, the item may be released, at once or after the delay *)
(* of the rate limiter.                                                    *)
(*                                                                         *)
(* Every instruction is one step; one that fails changes nothing and is no *)
(* step.  The owner's signature on the administrative instructions, and    *)
(* the authority to mint, are the subject of NttAdmin.                     *)
(***************************************************************************)
EXTENDS NttRateLimit, NttTrimmedAmount, Sequences, FiniteSets

CONSTANTS
    Chains,         \* chain ids; also the address of the manager on each
    Locking,        \* chains whose manager is in locking mode (the others burn)
    Decimals,       \* Decimals[c]: decimals of the token on c
    Transceivers,   \* transceiver programs
    BITS,           \* Bitmap::BITS
    \* The deployment the behaviours start from
    Registered,     \* sequence of transceivers registered on every chain
    Threshold,      \* threshold on every chain
    Limit,          \* Limit[c]: all rate limits on chain c
    Supply,         \* Supply[c]: tokens of the users of c
    \* What users and owners may ask for
    Amounts,        \* Amounts[c]
    Queueing,       \* values of should_queue
    Administered,   \* chains whose owner acts
    Registrable, Deregistrable, NewThresholds, Pauses,
    PeerAddresses,  \* addresses set_peer gets
    EmitterAddresses, \* addresses set_transceiver_peer gets
    PeerDecimals,   \* PeerDecimals[d]: token_decimals set_peer gets for d
    NewLimits,      \* NewLimits[c]
    \* Messages nobody sent, and the transceivers that may attest to them
    Phantoms, Faulty,
    MaxTransfers,   \* bound on the outbox of each chain
    LastTransfer,   \* bound on the time of a transfer
    MaxTime         \* bound on the clock

ASSUME DeploymentAssumption ==
    /\ IsFiniteSet(Chains)
    /\ Locking \subseteq Chains
    /\ Administered \subseteq Chains
    /\ Decimals \in [Chains -> Nat]
    /\ Registered \in Seq(Transceivers)
    /\ \A i, j \in DOMAIN Registered : Registered[i] = Registered[j] => i = j
    /\ BITS \in Nat /\ Len(Registered) <= BITS
    /\ Threshold \in 1..Len(Registered)
    /\ Limit \in [Chains -> Nat]
    /\ Supply \in [Chains -> Nat]
    /\ NewThresholds \subseteq Nat
    /\ Pauses \subseteq BOOLEAN
    /\ Queueing \subseteq BOOLEAN
    /\ \A c \in Chains : Amounts[c] \subseteq Nat /\ NewLimits[c] \subseteq Nat
    /\ \A d \in Chains : PeerDecimals[d] \subseteq Nat
    /\ Registrable \subseteq Transceivers
    /\ Faulty \subseteq Transceivers
    /\ MaxTransfers \in Nat

VARIABLES
    config,             \* config[c]: the Config account
    registered,         \* registered[c]: ids of the RegisteredTransceiver accounts
    peers,              \* peers[c][d]: the NttManagerPeer account
    transceiver_peers,  \* transceiver_peers[c][t, d]: the TransceiverPeer account of t
    inbox_rate_limit,   \* inbox_rate_limit[c][d]
    outbox_rate_limit,  \* outbox_rate_limit[c]
    outbox,             \* outbox[c]: sequence of OutboxItem accounts
    vaas,               \* messages sent: pairs of a transceiver and a message
    validated,          \* validated[c]: ValidatedTransceiverMessage accounts
    inbox,              \* inbox[c]: InboxItem accounts by content
    balance,            \* balance[c]: tokens of the users
    custody,            \* custody[c]: tokens of the custody account
    now                 \* current_timestamp()

outboxVars == <<outbox, vaas>>
inboxVars == <<validated, inbox>>
adminVars == <<config, registered, peers, transceiver_peers>>
limitVars == <<inbox_rate_limit, outbox_rate_limit>>
tokenVars == <<balance, custody>>
vars == <<adminVars, limitVars, outboxVars, inboxVars, tokenVars, now>>

-----------------------------------------------------------------------------
(* Accounts                                                                *)

Config == [paused : BOOLEAN, next_transceiver_id : Nat, threshold : Nat \ {0},
           enabled_transceivers : SUBSET (0..BITS - 1)]

NttManagerPeer == [address : Chains \cup PeerAddresses, token_decimals : Nat]

NttManagerMessage ==
    [from_chain : Chains, id : Nat, source_ntt_manager : Chains \cup PeerAddresses,
     recipient_ntt_manager : Chains \cup PeerAddresses, to_chain : Chains,
     amount : TrimmedAmount]

ASSUME PhantomsAssumption == Phantoms \subseteq NttManagerMessage

OutboxItem ==
    [amount : TrimmedAmount, recipient_chain : Chains,
     recipient_ntt_manager : Chains \cup PeerAddresses,
     release_timestamp : Nat, released : SUBSET (0..BITS - 1)]

NotApproved == [tag |-> "NotApproved", release_timestamp |-> 0]
ReleaseAfter(timestamp) == [tag |-> "ReleaseAfter", release_timestamp |-> timestamp]
Released == [tag |-> "Released", release_timestamp |-> 0]

ReleaseStatus ==
    [tag : {"NotApproved", "ReleaseAfter", "Released"}, release_timestamp : Nat]

InboxItem ==
    [amount : Nat, votes : SUBSET (0..BITS - 1), release_status : ReleaseStatus]

\* What the address of an inbox item is derived from: the message without the
\* addresses of the two managers.
keccak256(message) ==
    [from_chain |-> message.from_chain, id |-> message.id,
     to_chain |-> message.to_chain, amount |-> message.amount]

\* The programs registered on c, and the enabled ones among them.
IsRegistered(c, t) == t \in DOMAIN registered[c]
Enabled(c, t) ==
    IsRegistered(c, t) /\ registered[c][t] \in config[c].enabled_transceivers

-----------------------------------------------------------------------------
(* Initial state: initialize, register_transceiver, set_threshold, set_peer *)

Init ==
    /\ config = [c \in Chains |->
                    [paused |-> FALSE, next_transceiver_id |-> Len(Registered),
                     threshold |-> Threshold,
                     enabled_transceivers |-> 0..Len(Registered) - 1]]
    /\ registered = [c \in Chains |->
                        [t \in {Registered[i] : i \in DOMAIN Registered} |->
                            (CHOOSE i \in DOMAIN Registered : Registered[i] = t) - 1]]
    /\ peers = [c \in Chains |-> [d \in Chains \ {c} |->
                    [address |-> d, token_decimals |-> Decimals[d]]]]
    /\ transceiver_peers = [c \in Chains |->
            [p \in {Registered[i] : i \in DOMAIN Registered} \X (Chains \ {c}) |-> p[2]]]
    /\ inbox_rate_limit = [c \in Chains |-> [d \in Chains \ {c} |-> new(Limit[c])]]
    /\ outbox_rate_limit = [c \in Chains |-> new(Limit[c])]
    /\ outbox = [c \in Chains |-> <<>>]
    /\ vaas = {}
    /\ validated = [c \in Chains |-> {}]
    /\ inbox = [c \in Chains |-> [k \in {} |-> NotApproved]]
    /\ balance = Supply
    /\ custody = [c \in Chains |-> 0]
    /\ now = 1

-----------------------------------------------------------------------------
(* Outbound: transfer.rs, release_outbound.rs                              *)

\* insert_into_outbox: the item, the outbound limit and the backflow.
insert_into_outbox(c, d, trimmed, amount, should_queue) ==
    LET fits == Fits(outbox_rate_limit[c], now, amount)
    IN  /\ fits \/ should_queue
        /\ outbox_rate_limit' =
               [outbox_rate_limit EXCEPT ![c] = consume_or_delay(@, now, amount)]
        /\ inbox_rate_limit' = IF fits
               THEN [inbox_rate_limit EXCEPT ![c][d] = refill(@, now, amount)]
               ELSE inbox_rate_limit
        /\ outbox' = [outbox EXCEPT ![c] = Append(@,
               [amount |-> trimmed,
                recipient_chain |-> d,
                recipient_ntt_manager |-> peers[c][d].address,
                release_timestamp |-> ReleaseTimestamp(outbox_rate_limit[c], now, amount),
                released |-> {}])]

\* Variant: the sender is charged the amount before the dust was removed.
TransferChargingDust(c, d, amount, should_queue) ==
    LET to_decimals == peers[c][d].token_decimals
        kept == WithoutDust(amount, Decimals[c], to_decimals)
    IN  /\ now <= LastTransfer
        /\ Len(outbox[c]) < MaxTransfers
        /\ ~config[c].paused
        /\ config[c].enabled_transceivers # {}
        /\ d \in DOMAIN peers[c]
        /\ RemoveDustOk(amount, Decimals[c], to_decimals)
        /\ amount <= balance[c]
        /\ balance' = [balance EXCEPT ![c] = @ - amount]
        /\ insert_into_outbox(c, d, trim(amount, Decimals[c], to_decimals), kept, should_queue)
        /\ UNCHANGED <<adminVars, vaas, inboxVars, now>>

\* What transfer_lock and transfer_burn have in common.
Transfer(c, d, amount, should_queue) ==
    LET to_decimals == peers[c][d].token_decimals
        kept == WithoutDust(amount, Decimals[c], to_decimals)
    IN  /\ now <= LastTransfer
        /\ Len(outbox[c]) < MaxTransfers
        /\ ~config[c].paused
        /\ config[c].enabled_transceivers # {}
        /\ d \in DOMAIN peers[c]
        /\ RemoveDustOk(amount, Decimals[c], to_decimals)
        /\ kept <= balance[c]
        /\ balance' = [balance EXCEPT ![c] = @ - kept]
        /\ insert_into_outbox(c, d, trim(amount, Decimals[c], to_decimals), kept, should_queue)
        /\ UNCHANGED <<adminVars, vaas, inboxVars, now>>

transfer_burn(c, d, amount, should_queue) ==
    /\ c \notin Locking
    /\ Transfer(c, d, amount, should_queue)
    /\ UNCHANGED custody

\* Variant: the amount that is locked still contains the dust.
lock_with_dust(c, d, amount, should_queue) ==
    /\ c \in Locking
    /\ Transfer(c, d, amount, should_queue)
    /\ custody' = [custody EXCEPT ![c] = @ + amount]

transfer_lock(c, d, amount, should_queue) ==
    /\ c \in Locking
    /\ Transfer(c, d, amount, should_queue)
    /\ custody' = [custody EXCEPT ![c] =
           @ + WithoutDust(amount, Decimals[c], peers[c][d].token_decimals)]

\* The message of item i of the outbox of c.
Message(c, i) ==
    [from_chain |-> c, id |-> i, source_ntt_manager |-> c,
     recipient_ntt_manager |-> outbox[c][i].recipient_ntt_manager,
     to_chain |-> outbox[c][i].recipient_chain, amount |-> outbox[c][i].amount]

\* release_outbound of the built-in transceiver, and mark_outbox_item_as_released
\* called by another one before it sends.
release_outbound(c, t, i) ==
    /\ ~config[c].paused
    /\ Enabled(c, t)
    /\ registered[c][t] \notin outbox[c][i].released
    /\ outbox[c][i].release_timestamp <= now
    /\ outbox' = [outbox EXCEPT ![c][i].released = @ \cup {registered[c][t]}]
    /\ vaas' = vaas \cup {<<t, Message(c, i)>>}
    /\ UNCHANGED <<adminVars, limitVars, inboxVars, tokenVars, now>>

-----------------------------------------------------------------------------
(* Inbound: receive_message.rs, redeem.rs, release_inbound.rs              *)

receive_message(c, t, message) ==
    /\ ~config[c].paused
    /\ <<t, message.from_chain>> \in DOMAIN transceiver_peers[c]
    /\ transceiver_peers[c][t, message.from_chain] = message.from_chain
    /\ message.to_chain = c
    /\ ~ \E v \in validated[c] : /\ v[1] = t
                                 /\ v[2].from_chain = message.from_chain
                                 /\ v[2].id = message.id
    /\ validated' = [validated EXCEPT ![c] = @ \cup {<<t, message>>}]
    /\ UNCHANGED <<adminVars, limitVars, outboxVars, inbox, tokenVars, now>>

\* A transceiver program that attests to what was never sent.
misattest(c, t, message) ==
    /\ message.to_chain = c
    /\ validated' = [validated EXCEPT ![c] = @ \cup {<<t, message>>}]
    /\ UNCHANGED <<adminVars, limitVars, outboxVars, inbox, tokenVars, now>>

\* Variant: votes of transceivers that were disabled since count, too.
count_all_votes(votes, enabled) == Cardinality(votes)

count_enabled_votes(votes, enabled) == Cardinality(votes \cap enabled)

\* The inbox item before the vote: init_if_needed.
ItemOf(c, message) ==
    IF keccak256(message) \in DOMAIN inbox[c]
    THEN inbox[c][keccak256(message)]
    ELSE [amount |-> untrim(message.amount, Decimals[c]), votes |-> {},
          release_status |-> NotApproved]

PutItem(c, message, item) ==
    inbox' = [inbox EXCEPT ![c] = [k \in DOMAIN @ \cup {keccak256(message)} |->
                  IF k = keccak256(message) THEN item ELSE @[k]]]

\* Variant: an item that is approved already may be approved again.
release_after_any(status) == TRUE

\* InboxItem::release_after returns Ok.
release_after(status) == status = NotApproved

\* Variant: a transceiver votes once, so a repeated redeem fails.
MayRedeemOnce(c, t, message) ==
    /\ message.from_chain \in DOMAIN peers[c]
    /\ peers[c][message.from_chain].address = message.source_ntt_manager
    /\ message.to_chain = c
    /\ message.recipient_ntt_manager = c
    /\ Enabled(c, t)
    /\ UntrimOk(message.amount, Decimals[c])
    /\ registered[c][t] \notin ItemOf(c, message).votes

MayRedeem(c, t, message) ==
    /\ config[c].threshold > 0
    /\ message.from_chain \in DOMAIN peers[c]
    /\ peers[c][message.from_chain].address = message.source_ntt_manager
    /\ message.to_chain = c
    /\ message.recipient_ntt_manager = c
    /\ Enabled(c, t)
    /\ UntrimOk(message.amount, Decimals[c])

redeem(c, t, message) ==
    LET d == message.from_chain
        item == ItemOf(c, message)
        amount == untrim(message.amount, Decimals[c])
        votes == item.votes \cup {registered[c][t]}
        timestamp == ReleaseTimestamp(inbox_rate_limit[c][d], now, amount)
    IN  /\ MayRedeem(c, t, message)
        /\ IF count_enabled_votes(votes, config[c].enabled_transceivers) < config[c].threshold
           THEN /\ PutItem(c, message, [item EXCEPT !.votes = votes])
                /\ UNCHANGED limitVars
           ELSE /\ release_after(item.release_status)
                /\ PutItem(c, message, [item EXCEPT !.votes = votes,
                                           !.release_status = ReleaseAfter(timestamp)])
                /\ inbox_rate_limit' =
                       [inbox_rate_limit EXCEPT ![c][d] = consume_or_delay(@, now, amount)]
                /\ outbox_rate_limit' = IF Fits(inbox_rate_limit[c][d], now, amount)
                       THEN [outbox_rate_limit EXCEPT ![c] = refill(@, now, amount)]
                       ELSE outbox_rate_limit
        /\ UNCHANGED <<adminVars, outboxVars, validated, tokenVars, now>>

\* InboxItem::try_release returns true.
try_release(status) ==
    status.tag = "ReleaseAfter" /\ status.release_timestamp <= now

\* What release_inbound_mint and release_inbound_unlock have in common.
release_inbox_item(c, k) ==
    /\ ~config[c].paused
    /\ try_release(inbox[c][k].release_status)
    /\ inbox' = [inbox EXCEPT ![c][k].release_status = Released]
    /\ balance' = [balance EXCEPT ![c] = @ + inbox[c][k].amount]
    /\ UNCHANGED <<adminVars, limitVars, outboxVars, validated, now>>

release_inbound_mint(c, k) ==
    /\ c \notin Locking
    /\ release_inbox_item(c, k)
    /\ UNCHANGED custody

release_inbound_unlock(c, k) ==
    /\ c \in Locking
    /\ inbox[c][k].amount <= custody[c]
    /\ release_inbox_item(c, k)
    /\ custody' = [custody EXCEPT ![c] = @ - inbox[c][k].amount]

-----------------------------------------------------------------------------
(* Administration: admin/mod.rs, wormhole/instructions/admin.rs            *)

set_peer(c, d, address, token_decimals, limit) ==
    /\ d # c
    /\ peers' = [peers EXCEPT ![c] = [x \in DOMAIN @ \cup {d} |->
           IF x = d THEN [address |-> address, token_decimals |-> token_decimals] ELSE @[x]]]
    /\ inbox_rate_limit' =
           [inbox_rate_limit EXCEPT ![c] = [x \in DOMAIN @ \cup {d} |->
               IF x # d THEN @[x]
               ELSE IF d \in DOMAIN @ THEN UpdateLimit(@[d], now, limit) ELSE new(limit)]]
    /\ UNCHANGED <<config, registered, transceiver_peers, outbox_rate_limit, outboxVars,
                   inboxVars, tokenVars, now>>

\* Only once for each chain: the account is created with `init`.
set_transceiver_peer(c, t, d, address) ==
    /\ <<t, d>> \notin DOMAIN transceiver_peers[c]
    /\ transceiver_peers' = [transceiver_peers EXCEPT ![c] =
           [p \in DOMAIN @ \cup {<<t, d>>} |-> IF p = <<t, d>> THEN address ELSE @[p]]]
    /\ UNCHANGED <<config, registered, peers, limitVars, outboxVars, inboxVars, tokenVars, now>>

\* Variant: ids are handed out by counting the enabled transceivers.
id_by_count(c, t) ==
    IF IsRegistered(c, t) THEN registered[c][t] ELSE Cardinality(config[c].enabled_transceivers)

\* The id of t on c, a new one the first time.
transceiver_id(c, t) ==
    IF IsRegistered(c, t) THEN registered[c][t] ELSE config[c].next_transceiver_id

register_transceiver(c, t) ==
    LET id == transceiver_id(c, t)
    IN  /\ id < BITS
        /\ registered' = [registered EXCEPT ![c] =
               [x \in DOMAIN @ \cup {t} |-> IF x = t THEN id ELSE @[x]]]
        /\ config' = [config EXCEPT
               ![c].next_transceiver_id = IF IsRegistered(c, t) THEN @ ELSE @ + 1,
               ![c].enabled_transceivers = @ \cup {id}]
        /\ UNCHANGED <<peers, transceiver_peers, limitVars, outboxVars, inboxVars, tokenVars, now>>

SetConfig(c, new_config) ==
    /\ config' = [config EXCEPT ![c] = new_config]
    /\ UNCHANGED <<registered, peers, transceiver_peers, limitVars, outboxVars, inboxVars,
                   tokenVars, now>>

\* Variant: the threshold stays as it is.
deregister_keeping_threshold(c, t) ==
    LET enabled == config[c].enabled_transceivers \ {registered[c][t]}
    IN  /\ Enabled(c, t)
        /\ enabled # {}
        /\ SetConfig(c, [config[c] EXCEPT !.enabled_transceivers = enabled])

deregister_transceiver(c, t) ==
    LET enabled == config[c].enabled_transceivers \ {registered[c][t]}
    IN  /\ Enabled(c, t)
        /\ enabled # {}
        /\ SetConfig(c, [config[c] EXCEPT !.enabled_transceivers = enabled,
                                          !.threshold = Lowest(@, Cardinality(enabled))])

set_threshold(c, threshold) ==
    /\ threshold <= Cardinality(config[c].enabled_transceivers)
    /\ threshold # 0
    /\ SetConfig(c, [config[c] EXCEPT !.threshold = threshold])

set_paused(c, paused) ==
    SetConfig(c, [config[c] EXCEPT !.paused = paused])

set_outbound_limit(c, limit) ==
    /\ outbox_rate_limit' = [outbox_rate_limit EXCEPT ![c] = set_limit(@, now, limit)]
    /\ UNCHANGED <<adminVars, inbox_rate_limit, outboxVars, inboxVars, tokenVars, now>>

set_inbound_limit(c, d, limit) ==
    /\ d \in DOMAIN inbox_rate_limit[c]
    /\ inbox_rate_limit' = [inbox_rate_limit EXCEPT ![c][d] = set_limit(@, now, limit)]
    /\ UNCHANGED <<adminVars, outbox_rate_limit, outboxVars, inboxVars, tokenVars, now>>

-----------------------------------------------------------------------------

Tick ==
    /\ now < MaxTime
    /\ now' = now + 1
    /\ UNCHANGED <<adminVars, limitVars, outboxVars, inboxVars, tokenVars>>

Outbound(c) ==
    \/ \E d \in Chains, amount \in Amounts[c], should_queue \in Queueing :
           \/ transfer_burn(c, d, amount, should_queue)
           \/ transfer_lock(c, d, amount, should_queue)
    \/ \E t \in Transceivers, i \in DOMAIN outbox[c] : release_outbound(c, t, i)

Inbound(c) ==
    \/ \E vaa \in vaas : receive_message(c, vaa[1], vaa[2])
    \/ \E t \in Faulty, message \in Phantoms : misattest(c, t, message)
    \/ \E v \in validated[c] : redeem(c, v[1], v[2])
    \/ \E k \in DOMAIN inbox[c] : release_inbound_mint(c, k) \/ release_inbound_unlock(c, k)

Administration(c) ==
    \/ \E d \in Chains, address \in PeerAddresses, limit \in NewLimits[c] :
           \E token_decimals \in PeerDecimals[d] :
               set_peer(c, d, address, token_decimals, limit)
    \/ \E t \in Transceivers, d \in Chains, address \in EmitterAddresses :
           set_transceiver_peer(c, t, d, address)
    \/ \E t \in Registrable : register_transceiver(c, t)
    \/ \E t \in Deregistrable : deregister_transceiver(c, t)
    \/ \E threshold \in NewThresholds : set_threshold(c, threshold)
    \/ \E paused \in Pauses : set_paused(c, paused)
    \/ \E limit \in NewLimits[c] :
           \/ set_outbound_limit(c, limit)
           \/ \E d \in Chains : set_inbound_limit(c, d, limit)

Next ==
    \/ Tick
    \/ \E c \in Chains : Outbound(c) \/ Inbound(c)
    \/ \E c \in Administered : Administration(c)

Spec == Init /\ [][Next]_vars

-----------------------------------------------------------------------------
(* Properties                                                              *)

(* The accounts hold values of their structs: ids fit the bitmap, limiters *)
(* and token accounts never underflow, every peer has its limiter.         *)
TypeOK ==
    /\ config \in [Chains -> Config]
    /\ \A c \in Chains :
           /\ DOMAIN registered[c] \subseteq Transceivers
           /\ \A t \in DOMAIN registered[c] :
                  registered[c][t] \in 0..BITS - 1 /\ registered[c][t] < config[c].next_transceiver_id
           /\ \A d \in DOMAIN peers[c] : d # c /\ peers[c][d] \in NttManagerPeer
           /\ DOMAIN inbox_rate_limit[c] = DOMAIN peers[c]
           /\ \A d \in DOMAIN peers[c] : inbox_rate_limit[c][d] \in RateLimitState
           /\ outbox[c] \in Seq(OutboxItem)
           /\ validated[c] \subseteq Transceivers \X NttManagerMessage
           /\ \A k \in DOMAIN inbox[c] : inbox[c][k] \in InboxItem
    /\ outbox_rate_limit \in [Chains -> RateLimitState]
    /\ vaas \subseteq Transceivers \X NttManagerMessage
    /\ balance \in [Chains -> Nat]
    /\ custody \in [Chains -> Nat]
    /\ now \in Nat \ {0}

(* deregister_transceiver, set_threshold and register_transceiver in any   *)
(* order leave a threshold the enabled transceivers can reach, so that     *)
(* redeem can approve.                                                     *)
ThresholdReachable ==
    \A c \in Chains :
        config[c].threshold \in 1..Cardinality(config[c].enabled_transceivers)

\* Transceivers of chain c that delivered the message item k stands for.
Attesting(c, k) ==
    {t \in DOMAIN registered[c] : \E v \in validated[c] : v[1] = t /\ keccak256(v[2]) = k}

(* A vote is an attestation: every bit of `votes` belongs to a registered  *)
(* transceiver whose program holds the message, however transceivers were  *)
(* registered, disabled and enabled again since, and ids are not shared.   *)
VotesAttested ==
    \A c \in Chains :
        /\ \A t, u \in DOMAIN registered[c] : registered[c][t] = registered[c][u] => t = u
        /\ \A k \in DOMAIN inbox[c] : \A id \in inbox[c][k].votes :
               \E t \in Attesting(c, k) : registered[c][t] = id

(* An inbox item is approved only in a state where at least `threshold`    *)
(* transceivers that are enabled now hold its message (redeem): a vote of  *)
(* a transceiver that was disabled meanwhile does not count, and messages  *)
(* with the same id but another content do not help each other.            *)
ApprovedByThreshold ==
    [][\A c \in Chains : \A k \in DOMAIN inbox'[c] :
          /\ inbox'[c][k].release_status # NotApproved
          /\ k \in DOMAIN inbox[c] => inbox[c][k].release_status = NotApproved
          => Cardinality({t \in Attesting(c, k) : Enabled(c, t)}) >= config[c].threshold]_vars

Rank(status) ==
    CASE status.tag = "NotApproved" -> 0
      [] status.tag = "ReleaseAfter" -> 1
      [] status.tag = "Released" -> 2

(* ReleaseStatus is "a state machine that moves forward" (inbox.rs): an    *)
(* item is never removed or resized, its status changes only to the next   *)
(* one, its release time is fixed by the first approval, and the users'    *)
(* tokens grow only with a step to Released, by the amount of the item.    *)
ReleaseForward ==
    [][\A c \in Chains :
          /\ \A k \in DOMAIN inbox[c] :
                 /\ k \in DOMAIN inbox'[c]
                 /\ inbox'[c][k].amount = inbox[c][k].amount
                 /\ inbox[c][k].votes \subseteq inbox'[c][k].votes
                 /\ \/ inbox'[c][k].release_status = inbox[c][k].release_status
                    \/ Rank(inbox'[c][k].release_status) = Rank(inbox[c][k].release_status) + 1
          /\ balance'[c] > balance[c] =>
                 \E k \in DOMAIN inbox[c] :
                     /\ inbox[c][k].release_status.tag = "ReleaseAfter"
                     /\ inbox'[c][k].release_status = Released
                     /\ balance'[c] = balance[c] + inbox[c][k].amount]_vars
=============================================================================
