----------------------------- MODULE NttLimiter -----------------------------
(***************************************************************************)
(* One rate limiter over time, with every call the manager makes to it:    *)
(* transfers in its direction (consume_or_delay), transfers in the other   *)
(* direction (refill), changes of the limit by the owner, and set_peer,    *)
(* which replaces a limiter that was never used.                           *)
(***************************************************************************)
EXTENDS NttRateLimit

CONSTANTS
    Amounts,        \* amounts of transfers
    Limits,         \* limits the owner sets
    MaxTime         \* bound on the clock

ASSUME AmountsAssumption == Amounts \subseteq Nat
ASSUME LimitsAssumption == Limits \subseteq Nat
ASSUME MaxTimeAssumption == MaxTime \in Nat

VARIABLES
    rate_limit,     \* the RateLimitState of the account
    now,            \* current_timestamp(), never 0
    \* History of the window that Observe opened last.
    start,          \* when it was opened
    admitted,       \* amount of the transfers that were not delayed
    returned,       \* amount that flowed back
    raised,         \* sum of the increases of the limit
    top             \* highest limit in force

vars == <<rate_limit, now, start, admitted, returned, raised, top>>

(* The limiter holds values of its struct: consume_or_delay's subtraction  *)
(* never underflows.                                                       *)
TypeOK ==
    /\ rate_limit \in RateLimitState
    /\ now \in Nat \ {0}
    /\ start \in 1..now
    /\ admitted \in Nat
    /\ returned \in Nat
    /\ raised \in Nat
    /\ top \in Nat

Init ==
    /\ \E limit \in Limits : rate_limit = new(limit) /\ top = limit
    /\ now = 1
    /\ start = 1
    /\ admitted = 0
    /\ returned = 0
    /\ raised = 0

Consume(amount) ==
    /\ rate_limit' = consume_or_delay(rate_limit, now, amount)
    /\ admitted' = IF Fits(rate_limit, now, amount) THEN admitted + amount ELSE admitted
    /\ UNCHANGED <<now, start, returned, raised, top>>

Refill(amount) ==
    /\ rate_limit' = refill(rate_limit, now, amount)
    /\ returned' = returned + amount
    /\ UNCHANGED <<now, start, admitted, raised, top>>

Raise(limit) ==
    /\ raised' = IF limit > rate_limit.limit THEN raised + limit - rate_limit.limit ELSE raised
    /\ top' = IF limit > top THEN limit ELSE top
    /\ UNCHANGED <<now, start, admitted, returned>>

SetLimit(limit) ==
    /\ rate_limit' = set_limit(rate_limit, now, limit)
    /\ Raise(limit)

SetPeer(limit) ==
    /\ rate_limit' = UpdateLimit(rate_limit, now, limit)
    /\ Raise(limit)

Tick ==
    /\ now < MaxTime
    /\ now' = now + 1
    /\ UNCHANGED <<rate_limit, start, admitted, returned, raised, top>>

(* The observer begins a new window.                                       *)
Observe ==
    /\ start' = now
    /\ admitted' = 0
    /\ returned' = 0
    /\ raised' = 0
    /\ top' = rate_limit.limit
    /\ UNCHANGED <<rate_limit, now>>

Next ==
    \/ \E amount \in Amounts : Consume(amount) \/ Refill(amount)
    \/ \E limit \in Limits : SetLimit(limit) \/ SetPeer(limit)
    \/ Tick
    \/ Observe

Spec == Init /\ [][Next]_vars

-----------------------------------------------------------------------------
(* Properties                                                              *)

(* In every window of time the transfers that pass without delay amount to *)
(* at most the highest limit, plus what the bucket gains at that limit     *)
(* while the window lasts, plus what came back and what the owner added:   *)
(* consume_or_delay, refill, set_limit and set_peer in any order, rounding *)
(* included.  (Multiplied by the duration to stay with integers.)          *)
WindowBound ==
    admitted * RATE_LIMIT_DURATION <=
        (returned + raised) * RATE_LIMIT_DURATION + top * (RATE_LIMIT_DURATION + now - start)

(* A bucket is never fuller than its limit nor used in the future (the     *)
(* assertion of capacity_at), and one left alone for RATE_LIMIT_DURATION   *)
(* is full whatever its limit: rounding in capacity_at loses nothing then. *)
BucketSound ==
    /\ rate_limit.capacity_at_last_tx <= rate_limit.limit
    /\ rate_limit.last_tx_timestamp <= now
    /\ now - rate_limit.last_tx_timestamp >= RATE_LIMIT_DURATION
           => capacity_at(rate_limit, now) = rate_limit.limit
=============================================================================
