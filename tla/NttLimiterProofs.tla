-------------------------- MODULE NttLimiterProofs --------------------------
(***************************************************************************)
(* What a rate limiter lets through, for every limit, amount, duration and *)
(* length of the window: the types, BucketSound and WindowBound.           *)
(***************************************************************************)
EXTENDS NttLimiter, TLAPS

-----------------------------------------------------------------------------
(* Arithmetic                                                              *)

\* Products of natural numbers are natural numbers.
LEMMA ProductType ==
    ASSUME NEW x \in Nat, NEW y \in Nat
    PROVE  x * y \in Nat
BY SMT

\* Multiplication by a natural number keeps the order.
LEMMA ProductMonotone ==
    ASSUME NEW x \in Nat, NEW y \in Nat, NEW z \in Nat, x <= y
    PROVE  x * z <= y * z /\ z * x <= z * y
<1>1. PICK w \in Nat : y = x + w
    <2>1. y - x \in Nat /\ y = x + (y - x)
        BY SMT
    <2>. QED  BY <2>1
<1>2. y * z = x * z + w * z /\ z * y = z * x + z * w
    BY <1>1, SMT
<1>3. x * z \in Nat /\ w * z \in Nat /\ z * x \in Nat /\ z * w \in Nat
    BY ProductType
<1>. QED  BY <1>2, <1>3, SMT

\* Addition of zero.
LEMMA Zero ==
    ASSUME NEW x \in Nat
    PROVE  0 + x = x
BY SMT

\* The quotient `\div` rounds down, by less than one.
LEMMA Quotient ==
    ASSUME NEW x \in Nat, NEW d \in Nat \ {0}
    PROVE  /\ x \div d \in Nat
           /\ d * (x \div d) <= x
           /\ x < d * (x \div d) + d
BY Z3

-----------------------------------------------------------------------------
(* The operators of NttRateLimit                                           *)

\* capacity_at never exceeds the limit, grows from the stored capacity at the
\* rate limit / RATE_LIMIT_DURATION at most, and is the limit after a duration.
LEMMA CapacityBounds ==
    ASSUME NEW s \in RateLimitState, NEW t \in Nat, s.last_tx_timestamp <= t
    PROVE  /\ capacity_at(s, t) \in Nat
           /\ capacity_at(s, t) <= s.limit
           /\ RATE_LIMIT_DURATION * capacity_at(s, t) <=
                 RATE_LIMIT_DURATION * s.capacity_at_last_tx
                 + (t - s.last_tx_timestamp) * s.limit
           /\ t - s.last_tx_timestamp >= RATE_LIMIT_DURATION => capacity_at(s, t) = s.limit
<1> DEFINE D == RATE_LIMIT_DURATION
           e == t - s.last_tx_timestamp
           q == (e * s.limit) \div D
           x == s.capacity_at_last_tx + q
<1>1. /\ s.limit \in Nat /\ s.capacity_at_last_tx \in Nat /\ s.last_tx_timestamp \in Nat
      /\ D \in Nat \ {0} /\ e \in Nat
    BY DurationAssumption DEF RateLimitState
<1>2. e * s.limit \in Nat /\ D * s.capacity_at_last_tx \in Nat
    BY <1>1, ProductType
<1>3. q \in Nat /\ D * q <= e * s.limit /\ e * s.limit < D * q + D
    BY <1>1, <1>2, Quotient
<1>4. capacity_at(s, t) = IF x > s.limit THEN s.limit ELSE x
    BY DEF capacity_at, AtMost
<1>5. x \in Nat
    BY <1>1, <1>3
<1>6. capacity_at(s, t) \in Nat /\ capacity_at(s, t) <= s.limit /\ capacity_at(s, t) <= x
    BY <1>1, <1>4, <1>5
<1>7. D * capacity_at(s, t) <= D * s.capacity_at_last_tx + e * s.limit
    <2>1. D * capacity_at(s, t) <= D * x
        BY <1>1, <1>5, <1>6, ProductMonotone
    <2>2. D * x = D * s.capacity_at_last_tx + D * q
        <3> HIDE DEF q
        <3>. QED  BY <1>1, <1>3, SMT
    <2>3. D * q \in Nat /\ D * x \in Nat /\ D * capacity_at(s, t) \in Nat
        BY <1>1, <1>3, <1>5, <1>6, ProductType
    <2> HIDE DEF q, x, e
    <2>. QED  BY <2>1, <2>2, <2>3, <1>2, <1>3, SMT
<1>8. ASSUME e >= D PROVE capacity_at(s, t) = s.limit
    <2>1. D * s.limit <= e * s.limit
        BY <1>1, <1>8, ProductMonotone
    <2>2. q >= s.limit
        <3> SUFFICES ASSUME q + 1 <= s.limit PROVE FALSE
            BY <1>1, <1>3, SMT
        <3>1. D * (q + 1) <= D * s.limit
            BY <1>1, <1>3, ProductMonotone
        <3>2. D * (q + 1) = D * q + D
            <4> HIDE DEF q
            <4>. QED  BY <1>1, <1>3, SMT
        <3>3. D * q \in Nat /\ D * s.limit \in Nat
            BY <1>1, <1>3, ProductType
        <3> HIDE DEF q, e
        <3>. QED  BY <3>1, <3>2, <3>3, <2>1, <1>1, <1>2, <1>3, SMT
    <2>3. x >= s.limit
        <3> HIDE DEF q
        <3>. QED  BY <2>2, <1>1, <1>3, SMT
    <2> HIDE DEF x
    <2>. QED  BY <2>3, <1>1, <1>4, <1>5
<1>. QED  BY <1>6, <1>7, <1>8

-----------------------------------------------------------------------------
(* The inductive invariant                                                 *)

\* Up to when the bucket's gains are accounted for within the window.
Accounted ==
    IF rate_limit.last_tx_timestamp < start THEN start ELSE rate_limit.last_tx_timestamp

\* A limiter not touched since the window began has let nothing in or back.
Untouched ==
    rate_limit.last_tx_timestamp < start => admitted = 0 /\ returned = 0

\* What was admitted and what is left is what there was, what the bucket gained
\* until Accounted, what came back and what was added.
Balanced ==
    RATE_LIMIT_DURATION * (admitted + rate_limit.capacity_at_last_tx) <=
        RATE_LIMIT_DURATION * (returned + raised)
        + top * (RATE_LIMIT_DURATION + Accounted - start)

LimiterInv ==
    /\ TypeOK
    /\ rate_limit.capacity_at_last_tx <= rate_limit.limit
    /\ rate_limit.limit <= top
    /\ rate_limit.last_tx_timestamp <= now
    /\ Untouched
    /\ Balanced

\* The balance with the bucket brought up to date.
LEMMA Grown ==
    ASSUME LimiterInv
    PROVE  /\ capacity_at(rate_limit, now) \in Nat
           /\ capacity_at(rate_limit, now) <= rate_limit.limit
           /\ RATE_LIMIT_DURATION * (admitted + capacity_at(rate_limit, now)) <=
                 RATE_LIMIT_DURATION * (returned + raised)
                 + top * (RATE_LIMIT_DURATION + now - start)
<1> DEFINE D == RATE_LIMIT_DURATION
           cap == rate_limit.capacity_at_last_tx
           lim == rate_limit.limit
           last == rate_limit.last_tx_timestamp
           C == capacity_at(rate_limit, now)
<1>1. /\ D \in Nat \ {0} /\ cap \in Nat /\ lim \in Nat /\ last \in Nat /\ now \in Nat
      /\ start \in Nat /\ start <= now /\ admitted \in Nat /\ returned \in Nat
      /\ raised \in Nat /\ top \in Nat /\ cap <= lim /\ lim <= top /\ last <= now
    BY DurationAssumption DEF LimiterInv, TypeOK, RateLimitState
<1>2. /\ C \in Nat /\ C <= lim
      /\ D * C <= D * cap + (now - last) * lim
    BY <1>1, CapacityBounds DEF LimiterInv, TypeOK
<1>3. D * (admitted + C) = D * admitted + D * C
    <2> HIDE DEF C
    <2>. QED  BY <1>1, <1>2, SMT
<1>4. D * (returned + raised) \in Nat /\ D * admitted \in Nat /\ D * C \in Nat /\ D * cap \in Nat
    BY <1>1, <1>2, ProductType
<1>5. ASSUME last < start
      PROVE  D * (admitted + C) <= D * (returned + raised) + top * (D + now - start)
    <2>1. admitted = 0 /\ D * admitted = 0
        BY <1>1, <1>5, SMT DEF LimiterInv, Untouched
    <2>2. D * C <= D * top
        BY <1>1, <1>2, ProductMonotone
    <2>3. top * D <= top * (D + now - start)
        BY <1>1, ProductMonotone
    <2>4. D * top = top * D /\ top * D \in Nat /\ D + now - start \in Nat
        BY <1>1, ProductType, SMT
    <2>5. top * (D + now - start) \in Nat
        BY <1>1, <2>4, ProductType
    <2> HIDE DEF C
    <2>. QED  BY <1>2, <1>3, <1>4, <2>1, <2>2, <2>3, <2>4, <2>5, SMT
<1>6. ASSUME ~(last < start)
      PROVE  D * (admitted + C) <= D * (returned + raised) + top * (D + now - start)
    <2>1. D * (admitted + cap) <= D * (returned + raised) + top * (D + last - start)
        BY <1>6 DEF LimiterInv, Balanced, Accounted
    <2>2. (now - last) * lim <= (now - last) * top
        <3>1. now - last \in Nat
            BY <1>1
        <3>. QED  BY <1>1, <3>1, ProductMonotone
    <2>3. (now - last) * lim \in Nat /\ (now - last) * top \in Nat
        <3>1. now - last \in Nat
            BY <1>1
        <3>. QED  BY <1>1, <3>1, ProductType
    <2>4. /\ D * (admitted + cap) = D * admitted + D * cap
          /\ top * (D + now - start) = top * (D + last - start) + (now - last) * top
        BY <1>1, SMT
    <2>5. top * (D + last - start) \in Nat
        <3>1. D + last - start \in Nat
            BY <1>1, <1>6
        <3>. QED  BY <1>1, <3>1, ProductType
    <2>6. top * (D + now - start) \in Nat /\ D * (admitted + cap) \in Nat
        BY <2>3, <2>4, <2>5, <1>4
    <2> HIDE DEF C
    <2>. QED  BY <1>2, <1>3, <1>4, <2>1, <2>2, <2>3, <2>4, <2>5, <2>6, SMT
<1>. QED  BY <1>2, <1>5, <1>6

\* The invariant's numbers, for the proofs below.
LEMMA Numbers ==
    ASSUME LimiterInv
    PROVE  /\ RATE_LIMIT_DURATION \in Nat \ {0}
           /\ rate_limit \in RateLimitState
           /\ rate_limit.capacity_at_last_tx \in Nat
           /\ rate_limit.limit \in Nat
           /\ rate_limit.last_tx_timestamp \in Nat
           /\ now \in Nat \ {0} /\ start \in 1..now
           /\ admitted \in Nat /\ returned \in Nat /\ raised \in Nat /\ top \in Nat
BY DurationAssumption DEF LimiterInv, TypeOK, RateLimitState

\* A step that leaves the bucket up to date keeps the invariant if it keeps the
\* balance and the order of capacity, limit and top.
LEMMA UpToDate ==
    ASSUME LimiterInv,
           now' = now, start' = start,
           rate_limit' \in RateLimitState,
           rate_limit'.last_tx_timestamp = now,
           rate_limit'.capacity_at_last_tx <= rate_limit'.limit,
           rate_limit'.limit <= top',
           admitted' \in Nat, returned' \in Nat, raised' \in Nat, top' \in Nat,
           RATE_LIMIT_DURATION * (admitted' + rate_limit'.capacity_at_last_tx) <=
               RATE_LIMIT_DURATION * (returned' + raised')
               + top' * (RATE_LIMIT_DURATION + now - start)
    PROVE  LimiterInv'
<1>1. now \in Nat \ {0} /\ start \in 1..now
    BY Numbers
<1>2. ~(rate_limit'.last_tx_timestamp < start')
    BY <1>1
<1>3. Accounted' = now
    BY <1>2 DEF Accounted
<1>4. Balanced'
    BY <1>3 DEF Balanced
<1>5. Untouched'
    BY <1>2 DEF Untouched
<1>6. TypeOK'
    BY <1>1 DEF TypeOK
<1>. QED  BY <1>1, <1>4, <1>5, <1>6 DEF LimiterInv

\* The account set_peer and initialize create satisfies the invariant.
LEMMA InitInv == Init => LimiterInv
<1> SUFFICES ASSUME Init PROVE LimiterInv
    OBVIOUS
<1>1. PICK limit \in Limits : rate_limit = new(limit) /\ top = limit
    BY DEF Init
<1>2. limit \in Nat /\ RATE_LIMIT_DURATION \in Nat \ {0}
    BY LimitsAssumption, DurationAssumption
<1>3. /\ rate_limit \in RateLimitState /\ rate_limit.limit = limit
      /\ rate_limit.capacity_at_last_tx = limit /\ rate_limit.last_tx_timestamp = 0
    BY <1>1, <1>2 DEF new, RateLimitState
<1>4. /\ admitted = 0 /\ returned = 0 /\ raised = 0 /\ now = 1 /\ start = 1 /\ top = limit
    BY <1>1 DEF Init
<1>5. Accounted = 1
    BY <1>3, <1>4 DEF Accounted
<1>6. RATE_LIMIT_DURATION * (0 + limit)
          <= RATE_LIMIT_DURATION * (0 + 0) + limit * (RATE_LIMIT_DURATION + 1 - 1)
    BY <1>2, SMT
<1>7. Balanced
    BY <1>3, <1>4, <1>5, <1>6 DEF Balanced
<1>. QED  BY <1>2, <1>3, <1>4, <1>7 DEF LimiterInv, TypeOK, Untouched

\* consume_or_delay: what is admitted leaves the bucket.
LEMMA ConsumeInv ==
    ASSUME LimiterInv, NEW amount \in Amounts, Consume(amount)
    PROVE  LimiterInv'
<1> DEFINE C == capacity_at(rate_limit, now)
<1>1. amount \in Nat
    BY AmountsAssumption
<1>2. /\ C \in Nat /\ C <= rate_limit.limit
      /\ RATE_LIMIT_DURATION * (admitted + C) <=
            RATE_LIMIT_DURATION * (returned + raised) + top * (RATE_LIMIT_DURATION + now - start)
    BY Grown
<1>3. CASE Fits(rate_limit, now, amount)
    <2>1. /\ rate_limit' = [rate_limit EXCEPT !.capacity_at_last_tx = C - amount,
                                              !.last_tx_timestamp = now]
          /\ admitted' = admitted + amount
          /\ now' = now /\ start' = start /\ returned' = returned /\ raised' = raised /\ top' = top
        BY <1>3 DEF Consume, consume_or_delay, WithCapacity
    <2>2. C >= amount
        BY <1>3 DEF Fits
    <2>3. C - amount \in Nat /\ C - amount <= rate_limit.limit
        BY <1>1, <1>2, <2>2, Numbers
    <2>4. /\ rate_limit' \in RateLimitState /\ rate_limit'.limit = rate_limit.limit
          /\ rate_limit'.capacity_at_last_tx = C - amount /\ rate_limit'.last_tx_timestamp = now
        <3> HIDE DEF C
        <3>. QED  BY <2>1, <2>3, Numbers DEF RateLimitState
    <2>5. admitted' + rate_limit'.capacity_at_last_tx = admitted + C
        BY <1>1, <1>2, <2>1, <2>4, Numbers
    <2>6. rate_limit.limit <= top
        BY DEF LimiterInv
    <2> HIDE DEF C
    <2>. QED  BY <1>1, <1>2, <2>1, <2>3, <2>4, <2>5, <2>6, Numbers, UpToDate
<1>4. CASE ~Fits(rate_limit, now, amount)
    <2>1. UNCHANGED vars
        BY <1>4 DEF Consume, consume_or_delay, vars
    <2>. QED  BY <2>1 DEF vars, LimiterInv, TypeOK, Untouched, Balanced, Accounted
<1>. QED  BY <1>3, <1>4

\* refill: what flows back is in the bucket, or lost at its limit.
LEMMA RefillInv ==
    ASSUME LimiterInv, NEW amount \in Amounts, Refill(amount)
    PROVE  LimiterInv'
<1> DEFINE C == capacity_at(rate_limit, now)
           D == RATE_LIMIT_DURATION
           cap == AtMost(rate_limit.limit, C + amount)
<1>1. amount \in Nat
    BY AmountsAssumption
<1>2. /\ C \in Nat /\ C <= rate_limit.limit
      /\ D * (admitted + C) <= D * (returned + raised) + top * (D + now - start)
    BY Grown
<1>3. /\ rate_limit' = [rate_limit EXCEPT !.capacity_at_last_tx = cap,
                                          !.last_tx_timestamp = now]
      /\ returned' = returned + amount
      /\ now' = now /\ start' = start /\ admitted' = admitted /\ raised' = raised /\ top' = top
    BY DEF Refill, refill, WithCapacity
<1>4. cap \in Nat /\ cap <= rate_limit.limit /\ cap <= C + amount
    BY <1>1, <1>2, Numbers DEF AtMost
<1> HIDE DEF cap, C
<1>5. /\ rate_limit' \in RateLimitState /\ rate_limit'.limit = rate_limit.limit
      /\ rate_limit'.capacity_at_last_tx = cap /\ rate_limit'.last_tx_timestamp = now
    BY <1>3, <1>4, Numbers DEF RateLimitState
<1>6. D * (admitted + cap) <= D * (returned + amount + raised) + top * (D + now - start)
    <2>1. D * (admitted + cap) <= D * (admitted + C + amount)
        BY <1>1, <1>2, <1>4, Numbers, ProductMonotone
    <2>2. /\ D * (admitted + C + amount) = D * (admitted + C) + D * amount
          /\ D * (returned + amount + raised) = D * (returned + raised) + D * amount
        BY <1>1, <1>2, Numbers, SMT
    <2>3. /\ D * (admitted + cap) \in Nat /\ D * (admitted + C) \in Nat /\ D * amount \in Nat
          /\ D * (returned + raised) \in Nat /\ top * (D + now - start) \in Nat
        <3>1. D + now - start \in Nat
            BY Numbers
        <3>. QED  BY <3>1, <1>1, <1>2, <1>4, Numbers, ProductType
    <2>. QED  BY <2>1, <2>2, <2>3, <1>2, SMT
<1>7. rate_limit.limit <= top
    BY DEF LimiterInv
<1>. QED  BY <1>1, <1>3, <1>4, <1>5, <1>6, <1>7, Numbers, UpToDate

\* set_limit, alone and within set_peer.
LEMMA SetLimitInv ==
    ASSUME LimiterInv, NEW limit \in Limits, SetLimit(limit)
    PROVE  LimiterInv'
<1> DEFINE C == capacity_at(rate_limit, now)
           D == RATE_LIMIT_DURATION
           moved == C + limit - rate_limit.limit
           cap == AtMost(limit, IF moved < 0 THEN 0 ELSE moved)
<1>1. limit \in Nat
    BY LimitsAssumption
<1>2. /\ C \in Nat /\ C <= rate_limit.limit
      /\ D * (admitted + C) <= D * (returned + raised) + top * (D + now - start)
    BY Grown
<1>3. /\ rate_limit' = [limit |-> limit, capacity_at_last_tx |-> cap, last_tx_timestamp |-> now]
      /\ raised' = IF limit > rate_limit.limit THEN raised + limit - rate_limit.limit ELSE raised
      /\ top' = IF limit > top THEN limit ELSE top
      /\ now' = now /\ start' = start /\ admitted' = admitted /\ returned' = returned
    BY DEF SetLimit, Raise, set_limit
<1>4. /\ cap \in Nat /\ cap <= limit
      /\ raised' \in Nat /\ top' \in Nat /\ top <= top' /\ limit <= top'
      /\ cap <= C + (raised' - raised) /\ raised <= raised'
    <2> HIDE DEF C
    <2>. QED  BY <1>1, <1>2, <1>3, Numbers DEF AtMost
<1> HIDE DEF cap, C
<1>5. /\ rate_limit' \in RateLimitState /\ rate_limit'.limit = limit
      /\ rate_limit'.capacity_at_last_tx = cap /\ rate_limit'.last_tx_timestamp = now
    BY <1>1, <1>3, <1>4, Numbers DEF RateLimitState
<1>6. D * (admitted + cap) <= D * (returned + raised') + top' * (D + now - start)
    <2>0. PICK more \in Nat : raised' = raised + more
        <3>1. raised' - raised \in Nat /\ raised' = raised + (raised' - raised)
            BY <1>4, Numbers
        <3>. QED  BY <3>1
    <2>1. D * (admitted + cap) <= D * (admitted + C + more)
        <3>1. admitted + cap \in Nat /\ admitted + C + more \in Nat
              /\ admitted + cap <= admitted + C + more
            BY <2>0, <1>2, <1>4, Numbers
        <3>. QED  BY <3>1, Numbers, ProductMonotone
    <2>2. /\ D * (admitted + C + more) = D * (admitted + C) + D * more
          /\ D * (returned + raised') = D * (returned + raised) + D * more
        BY <2>0, <1>2, Numbers, SMT
    <2>3. D + now - start \in Nat
        BY Numbers
    <2>4. /\ D * (admitted + cap) \in Nat /\ D * (admitted + C) \in Nat /\ D * more \in Nat
          /\ D * (returned + raised) \in Nat /\ top * (D + now - start) \in Nat
          /\ top' * (D + now - start) \in Nat
        BY <2>0, <2>3, <1>2, <1>4, Numbers, ProductType
    <2>5. top * (D + now - start) <= top' * (D + now - start)
        BY <2>3, <1>4, Numbers, ProductMonotone
    <2>. QED  BY <2>1, <2>2, <2>4, <2>5, <1>2, SMT
<1>. QED  BY <1>1, <1>3, <1>4, <1>5, <1>6, Numbers, UpToDate

\* set_peer: set_limit, or a new bucket when nothing was ever admitted.
LEMMA SetPeerInv ==
    ASSUME LimiterInv, NEW limit \in Limits, SetPeer(limit)
    PROVE  LimiterInv'
<1>1. CASE rate_limit.last_tx_timestamp # 0
    <2>1. SetLimit(limit)
        BY <1>1 DEF SetPeer, UpdateLimit, SetLimit
    <2>. QED  BY <2>1, SetLimitInv
<1>2. CASE rate_limit.last_tx_timestamp = 0
    <2> DEFINE D == RATE_LIMIT_DURATION
    <2>1. limit \in Nat
        BY LimitsAssumption
    <2>2. /\ rate_limit' = [limit |-> limit, capacity_at_last_tx |-> limit, last_tx_timestamp |-> 0]
          /\ raised' = IF limit > rate_limit.limit THEN raised + limit - rate_limit.limit ELSE raised
          /\ top' = IF limit > top THEN limit ELSE top
          /\ now' = now /\ start' = start /\ admitted' = admitted /\ returned' = returned
        BY <1>2 DEF SetPeer, UpdateLimit, Raise, new
    <2>3. raised' \in Nat /\ top' \in Nat /\ limit <= top'
        BY <2>1, <2>2, Numbers
    <2>4. /\ rate_limit' \in RateLimitState /\ rate_limit'.limit = limit
          /\ rate_limit'.capacity_at_last_tx = limit /\ rate_limit'.last_tx_timestamp = 0
        BY <2>1, <2>2 DEF RateLimitState
    <2>5. 0 < start /\ start \in Nat
        BY Numbers
    <2>6. admitted = 0 /\ returned = 0
        BY <1>2, <2>5 DEF LimiterInv, Untouched
    <2>7. Accounted' = start
        BY <2>2, <2>4, <2>5 DEF Accounted
    <2>8. D * (0 + limit) <= D * (0 + raised') + top' * (D + start - start)
        <3>1. D * limit <= D * top'
            BY <2>1, <2>3, Numbers, ProductMonotone
        <3>2. D * limit \in Nat /\ D * top' \in Nat /\ D * raised' \in Nat
            BY <2>1, <2>3, Numbers, ProductType
        <3>3. PICK r \in Nat : r = raised'
            BY <2>3
        <3>4. 0 + limit = limit /\ 0 + r = r
            BY <2>1, Zero
        <3>5. D + start - start = D
            BY <2>5, Numbers
        <3>6. top' * D = D * top'
            BY <2>3, Numbers
        <3>7. D * limit <= D * r + D * top'
            BY <3>1, <3>2, <3>3
        <3>. QED  BY <3>3, <3>4, <3>5, <3>6, <3>7
    <2>9. Balanced'
        BY <2>2, <2>4, <2>6, <2>7, <2>8 DEF Balanced
    <2>10. TypeOK' /\ Untouched'
        BY <2>2, <2>3, <2>4, <2>6, Numbers DEF TypeOK, Untouched
    <2>. QED  BY <2>1, <2>2, <2>3, <2>4, <2>9, <2>10, Numbers DEF LimiterInv
<1>. QED  BY <1>1, <1>2

\* Time passes without touching the account.
LEMMA TickInv ==
    ASSUME LimiterInv, Tick
    PROVE  LimiterInv'
<1>1. /\ now' = now + 1 /\ rate_limit' = rate_limit /\ start' = start /\ admitted' = admitted
      /\ returned' = returned /\ raised' = raised /\ top' = top
    BY DEF Tick
<1>2. Accounted' = Accounted
    BY <1>1 DEF Accounted
<1>3. Balanced' /\ Untouched'
    BY <1>1, <1>2 DEF LimiterInv, Balanced, Untouched
<1>4. TypeOK'
    BY <1>1, Numbers DEF TypeOK
<1>5. rate_limit'.last_tx_timestamp <= now'
    BY <1>1, Numbers DEF LimiterInv
<1>. QED  BY <1>1, <1>3, <1>4, <1>5 DEF LimiterInv

\* The balance holds for a window that begins at any moment.
LEMMA ObserveInv ==
    ASSUME LimiterInv, Observe
    PROVE  LimiterInv'
<1> DEFINE D == RATE_LIMIT_DURATION
           cap == rate_limit.capacity_at_last_tx
<1>1. /\ now' = now /\ rate_limit' = rate_limit /\ start' = now /\ admitted' = 0
      /\ returned' = 0 /\ raised' = 0 /\ top' = rate_limit.limit
    BY DEF Observe
<1>2. /\ cap <= rate_limit.limit /\ rate_limit.last_tx_timestamp <= now
    BY DEF LimiterInv
<1>3. Accounted' = now
    BY <1>1, <1>2, Numbers DEF Accounted
<1>4. D * (0 + cap) <= D * (0 + 0) + rate_limit.limit * (D + now - now)
    <2>1. D * cap <= D * rate_limit.limit
        BY <1>2, Numbers, ProductMonotone
    <2>2. /\ 0 + cap = cap /\ D * (0 + 0) = 0 /\ D + now - now = D
          /\ rate_limit.limit * D = D * rate_limit.limit
        BY Numbers, SMT
    <2>3. D * cap \in Nat /\ D * rate_limit.limit \in Nat
        BY Numbers, ProductType
    <2>. QED  BY <2>1, <2>2, <2>3, SMT
<1>5. Balanced'
    BY <1>1, <1>3, <1>4 DEF Balanced
<1>6. TypeOK' /\ Untouched'
    BY <1>1, Numbers DEF TypeOK, Untouched
<1>. QED  BY <1>1, <1>2, <1>5, <1>6, Numbers DEF LimiterInv

\* Every step keeps the invariant.
LEMMA NextInv ==
    ASSUME LimiterInv, [Next]_vars
    PROVE  LimiterInv'
<1>1. ASSUME NEW amount \in Amounts, Consume(amount)
      PROVE  LimiterInv'
    BY <1>1, ConsumeInv
<1>2. ASSUME NEW amount \in Amounts, Refill(amount)
      PROVE  LimiterInv'
    BY <1>2, RefillInv
<1>3. ASSUME NEW limit \in Limits, SetLimit(limit)
      PROVE  LimiterInv'
    BY <1>3, SetLimitInv
<1>4. ASSUME NEW limit \in Limits, SetPeer(limit)
      PROVE  LimiterInv'
    BY <1>4, SetPeerInv
<1>5. CASE Tick
    BY <1>5, TickInv
<1>6. CASE Observe
    BY <1>6, ObserveInv
<1>7. CASE UNCHANGED vars
    BY <1>7 DEF vars, LimiterInv, TypeOK, Untouched, Balanced, Accounted
<1>. QED  BY <1>1, <1>2, <1>3, <1>4, <1>5, <1>6, <1>7 DEF Next

-----------------------------------------------------------------------------
(* Theorems                                                                *)

\* The limiter keeps its types, and the balance above, under any calls.
THEOREM LimiterBalanced == Spec => []LimiterInv
<1>1. Init => LimiterInv
    BY InitInv
<1>2. LimiterInv /\ [Next]_vars => LimiterInv'
    BY NextInv
<1>. QED  BY <1>1, <1>2, PTL DEF Spec

\* The capacity of a limiter never underflows and stays a natural number.
THEOREM LimiterTypeCorrect == Spec => []TypeOK
<1>1. LimiterInv => TypeOK
    BY DEF LimiterInv
<1>. QED  BY <1>1, LimiterBalanced, PTL

\* A bucket is never fuller than its limit, the assertion of capacity_at holds,
\* and after RATE_LIMIT_DURATION of rest the bucket is full, for every limit.
THEOREM BucketIsSound == Spec => []BucketSound
<1>1. LimiterInv => BucketSound
    <2> SUFFICES ASSUME LimiterInv PROVE BucketSound
        OBVIOUS
    <2>1. rate_limit.last_tx_timestamp <= now /\ rate_limit.capacity_at_last_tx <= rate_limit.limit
        BY DEF LimiterInv
    <2>2. now - rate_limit.last_tx_timestamp >= RATE_LIMIT_DURATION
              => capacity_at(rate_limit, now) = rate_limit.limit
        BY <2>1, Numbers, CapacityBounds
    <2>. QED  BY <2>1, <2>2 DEF BucketSound
<1>. QED  BY <1>1, LimiterBalanced, PTL

\* No sequence of transfers, flows back and changes of the limit admits more in
\* a window of time than the limits in force allow.
THEOREM WindowIsBounded == Spec => []WindowBound
<1>1. LimiterInv => WindowBound
    <2> SUFFICES ASSUME LimiterInv PROVE WindowBound
        OBVIOUS
    <2> DEFINE D == RATE_LIMIT_DURATION
               C == capacity_at(rate_limit, now)
    <2>1. /\ C \in Nat
          /\ D * (admitted + C) <= D * (returned + raised) + top * (D + now - start)
        BY Grown
    <2> HIDE DEF C
    <2>2. D * (admitted + C) = D * admitted + D * C /\ D * admitted = admitted * D
          /\ D * (returned + raised) = (returned + raised) * D
        BY <2>1, Numbers, SMT
    <2>3. D + now - start \in Nat
        BY Numbers
    <2>4. /\ D * C \in Nat /\ D * admitted \in Nat /\ (returned + raised) * D \in Nat
          /\ top * (D + now - start) \in Nat
        BY <2>1, <2>3, Numbers, ProductType
    <2>5. admitted * D <= (returned + raised) * D + top * (D + now - start)
        BY <2>1, <2>2, <2>4, SMT
    <2>. QED  BY <2>5 DEF WindowBound
<1>. QED  BY <1>1, LimiterBalanced, PTL
=============================================================================
