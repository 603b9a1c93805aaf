---------------------------- MODULE NttRateLimit ----------------------------
(***************************************************************************)
(* The rate limiter of Native Token Transfers (queue/rate_limit.rs): a     *)
(* bucket of `limit` tokens that fills up in RATE_LIMIT_DURATION seconds.  *)
(* A transfer that fits takes its amount out, one that does not is delayed *)
(* by RATE_LIMIT_DURATION and takes nothing.                               *)
(*                                                                         *)
(* The operators are the methods of RateLimitState as functions from the   *)
(* state before to the state after, with the time passed in.  Intermediate *)
(* results are u128 or saturating u64 in the code and are cut to `limit`   *)
(* at the end, so natural numbers compute the same.                        *)
(***************************************************************************)
EXTENDS Integers

CONSTANT RATE_LIMIT_DURATION

ASSUME DurationAssumption == RATE_LIMIT_DURATION \in Nat \ {0}

RateLimitState ==
    [limit : Nat, capacity_at_last_tx : Nat, last_tx_timestamp : Nat]

AtMost(bound, x) == IF x > bound THEN bound ELSE x

new(limit) ==
    [limit |-> limit, capacity_at_last_tx |-> limit, last_tx_timestamp |-> 0]

\* Variant: the formula the comment in the code calls "morally" right, which
\* divides first.
capacity_divided_first(s, now) ==
    AtMost(s.limit, s.capacity_at_last_tx +
                    (s.limit \div RATE_LIMIT_DURATION) * (now - s.last_tx_timestamp))

capacity_at(s, now) ==
    AtMost(s.limit, s.capacity_at_last_tx +
                    ((now - s.last_tx_timestamp) * s.limit) \div RATE_LIMIT_DURATION)

WithCapacity(s, capacity, now) ==
    [s EXCEPT !.capacity_at_last_tx = capacity, !.last_tx_timestamp = now]

\* Variant: compares with the size of the bucket, not with what is in it.
fits_limit(s, now, amount) == s.limit >= amount

\* The two outcomes of consume_or_delay.
Fits(s, now, amount) == capacity_at(s, now) >= amount

consume_or_delay(s, now, amount) ==
    IF Fits(s, now, amount)
    THEN WithCapacity(s, capacity_at(s, now) - amount, now)
    ELSE s

ReleaseTimestamp(s, now, amount) ==
    IF Fits(s, now, amount) THEN now ELSE now + RATE_LIMIT_DURATION

refill(s, now, amount) ==
    WithCapacity(s, AtMost(s.limit, capacity_at(s, now) + amount), now)

set_limit(s, now, limit) ==
    LET moved == capacity_at(s, now) + limit - s.limit
    IN  [limit |-> limit,
         capacity_at_last_tx |-> AtMost(limit, IF moved < 0 THEN 0 ELSE moved),
         last_tx_timestamp |-> now]

\* Variant: every set_peer gives a full bucket.
ResetLimit(s, now, limit) == new(limit)

\* set_peer: a limiter whose last_tx_timestamp is 0 was never used.
UpdateLimit(s, now, limit) ==
    IF s.last_tx_timestamp = 0 THEN new(limit) ELSE set_limit(s, now, limit)
=============================================================================
