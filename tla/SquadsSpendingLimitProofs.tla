---------------------- MODULE SquadsSpendingLimitProofs ----------------------
(***************************************************************************)
(* What a spending limit lets out over its life, for any arguments, any    *)
(* length of time and any pattern of use.                                  *)
(***************************************************************************)
EXTENDS SquadsSpendingLimit, TLAPS

-----------------------------------------------------------------------------
(* Arithmetic of the reset *)

\* Whole periods that fit into a time.
LEMMA WholePeriods ==
    ASSUME NEW time \in Nat, NEW period \in Nat \ {0}
    PROVE  /\ time \div period \in Nat
           /\ (time \div period) * period <= time
  <1>1. time \div period \in Nat
    BY SMT
  <1>2. time = period * (time \div period) + (time % period)
        /\ time % period \in 0 .. period - 1
    BY SMT
  <1> QED
    BY <1>1, <1>2, SMT

\* Products are monotone.
LEMMA ProductMonotone ==
    ASSUME NEW x \in Nat, NEW y \in Nat, NEW factor \in Nat, x <= y
    PROVE  x * factor <= y * factor
  BY SMT

\* n + 1 periods of length P with the amount A each.
LEMMA PeriodsTimesAmount ==
    ASSUME NEW n \in Nat, NEW P \in Nat, NEW A \in Nat
    PROVE  (A * (n + 1)) * P = (n * P + P) * A
  <1> DEFINE nP == n * P
  <1>1. A * (n + 1) = A * n + A /\ A * n \in Nat
    BY SMT
  <1>2. (A * n + A) * P = (A * n) * P + A * P
    BY <1>1, SMT
  <1>3. (A * n) * P = nP * A /\ nP \in Nat /\ A * P = P * A
    BY SMT
  <1>4. (nP + P) * A = nP * A + P * A
    BY <1>3, SMT
  <1> QED
    BY <1>1, <1>2, <1>3, <1>4

-----------------------------------------------------------------------------
(* Type correctness *)

\* A reset keeps the types, never raises the remaining amount above the limit
\* and never moves last_reset into the future.
LEMMA ResetType ==
    ASSUME NEW l \in SpendingLimit, NEW now \in Nat, l.last_reset <= now,
           l.remaining_amount <= l.amount
    PROVE  LET r == ResetIfPassed(l, now)
           IN  /\ r \in SpendingLimit
               /\ r.amount = l.amount /\ r.period = l.period
               /\ r.remaining_amount <= r.amount
               /\ r.last_reset <= now
  <1> DEFINE k == (now - l.last_reset) \div l.period
  <1>1. /\ l.last_reset \in Nat /\ l.period \in Nat /\ l.amount \in Nat
        /\ now - l.last_reset \in Nat
    BY DEF SpendingLimit
  <1>2. CASE l.period # 0 /\ now - l.last_reset > l.period
    <2>1. k \in Nat /\ k * l.period <= now - l.last_reset
      BY <1>1, <1>2, WholePeriods
    <2>2. l.last_reset + k * l.period \in Nat /\ l.last_reset + k * l.period <= now
      BY <1>1, <2>1
    <2>3. ResetIfPassed(l, now) = [l EXCEPT !.remaining_amount = l.amount,
                                            !.last_reset = l.last_reset + k * l.period]
      BY <1>2 DEF ResetIfPassed, SpendingLimit
    <2> HIDE DEF k
    <2> DEFINE reset == l.last_reset + k * l.period
               r == ResetIfPassed(l, now)
    <2>4. r = [l EXCEPT !.remaining_amount = l.amount, !.last_reset = reset]
      BY <2>3
    <2> HIDE DEF reset, r
    <2>5. /\ r \in SpendingLimit /\ r.amount = l.amount /\ r.period = l.period
          /\ r.remaining_amount = l.amount /\ r.last_reset = reset
      BY <1>1, <2>2, <2>4 DEF SpendingLimit, reset
    <2> QED
      BY <1>1, <2>2, <2>5 DEF reset, r
  <1>3. CASE ~(l.period # 0 /\ now - l.last_reset > l.period)
    BY <1>3 DEF ResetIfPassed
  <1> QED
    BY <1>2, <1>3

\* Types, and what the reset needs to keep them.
TypeInv ==
    /\ TypeOK
    /\ limit.last_reset <= clock
    /\ limit.remaining_amount <= limit.amount

\* Every step keeps the types.
LEMMA TypeInvStep == TypeInv /\ [Next]_vars => TypeInv'
  <1> SUFFICES ASSUME TypeInv, [Next]_vars PROVE TypeInv'
    OBVIOUS
  <1> USE FundsAssumption
  <1>1. ASSUME NEW args \in LimitArgs, AddSpendingLimit(args)
        PROVE  TypeInv'
    <2>1. args \in SpendingLimitArgs
      BY LimitArgsAssumption
    <2> QED
      BY <1>1, <2>1 DEF AddSpendingLimit, TypeInv, TypeOK, SpendingLimit, SpendingLimitArgs
  <1>2. CASE RemoveSpendingLimit
    BY <1>2 DEF RemoveSpendingLimit, TypeInv, TypeOK, SpendingLimit, NoLimit
  <1>3. ASSUME NEW member \in Keys, NEW destination \in Destinations,
               NEW amount \in 0 .. vault, spending_limit_use(member, amount, destination)
        PROVE  TypeInv'
    <2> DEFINE l == ResetIfPassed(limit, clock)
    <2>1. /\ l \in SpendingLimit /\ l.remaining_amount <= l.amount
          /\ l.last_reset <= clock
      BY ResetType DEF TypeInv, TypeOK
    <2>2. /\ amount \in Nat /\ amount <= l.remaining_amount /\ amount <= vault
          /\ limit' = [l EXCEPT !.remaining_amount = @ - amount]
          /\ vault' = vault - amount /\ vault \in Nat
          /\ spent' = [spent EXCEPT ![PeriodAt(clock)] = @ + amount]
          /\ total' = total + amount
          /\ UNCHANGED <<members, clock, opened, removed>>
      BY <1>3 DEF spending_limit_use, TypeInv, TypeOK
    <2> HIDE DEF l
    <2>3. /\ limit' \in SpendingLimit /\ limit'.last_reset <= clock'
          /\ limit'.remaining_amount <= limit'.amount
      BY <2>1, <2>2 DEF SpendingLimit
    <2>4. spent' \in [0 .. MaxTime -> Nat]
      <3>1. PICK at : spent' = [spent EXCEPT ![at] = @ + amount]
        BY <2>2
      <3>2. spent \in [0 .. MaxTime -> Nat]
        BY DEF TypeInv, TypeOK
      <3>3. CASE at \in 0 .. MaxTime
        <4>1. spent[at] + amount \in Nat
          BY <2>2, <3>2, <3>3
        <4> QED
          BY <3>1, <3>2, <4>1
      <3>4. CASE at \notin 0 .. MaxTime
        BY <3>1, <3>2, <3>4
      <3> QED
        BY <3>3, <3>4
    <2>5. total' \in Nat /\ vault' \in Nat
      BY <2>2 DEF TypeInv, TypeOK
    <2> QED
      BY <2>2, <2>3, <2>4, <2>5 DEF TypeInv, TypeOK
  <1>4. ASSUME NEW k \in Keys, AddMember(k) \/ RemoveMember(k)
        PROVE  TypeInv'
    BY <1>4 DEF AddMember, RemoveMember, TypeInv, TypeOK
  <1>5. CASE Tick
    BY <1>5 DEF Tick, TypeInv, TypeOK, SpendingLimit
  <1>6. CASE UNCHANGED vars
    BY <1>6 DEF vars, TypeInv, TypeOK
  <1> QED
    BY <1>1, <1>2, <1>3, <1>4, <1>5, <1>6 DEF Next

\* There is no account at the start.
LEMMA InitTypeInv == Init => TypeInv
  BY FundsAssumption DEF Init, TypeInv, TypeOK, SpendingLimit, NoLimit

\* remaining_amount and last_reset never leave their range, for any arguments.
THEOREM LimitTypeCorrect == Spec => []TypeOK
  <1>1. TypeInv => TypeOK
    BY DEF TypeInv
  <1> QED
    BY <1>1, InitTypeInv, TypeInvStep, PTL DEF Spec

-----------------------------------------------------------------------------
(* The lifetime bound *)

\* last_reset is n whole periods after the creation, and what was sent together
\* with what can still be sent is covered by n + 1 periods.
Covered(n) ==
    /\ limit.last_reset = opened + n * limit.period
    /\ total + limit.remaining_amount <= limit.amount * (n + 1)

\* LifetimeBound is not inductive: it forgets that a refill is paid for by the
\* periods last_reset moved over.
AllowanceInv ==
    Exists =>
        /\ limit.period = 0 => total + limit.remaining_amount <= limit.amount
        /\ limit.period # 0 => \E n \in Nat : Covered(n)

\* A use is paid from what remains, a refill from the periods that have passed.
LEMMA UseAllowance ==
    ASSUME TypeInv, TypeInv', AllowanceInv,
           NEW member \in Keys, NEW destination \in Destinations, NEW amount \in 0 .. vault,
           spending_limit_use(member, amount, destination)
    PROVE  AllowanceInv'
  <1> DEFINE l == ResetIfPassed(limit, clock)
             P == limit.period
             A == limit.amount
             d == clock - limit.last_reset
  <1>1. /\ P \in Nat /\ A \in Nat /\ limit.last_reset \in Nat /\ opened \in Nat
        /\ total \in Nat /\ limit.remaining_amount \in Nat /\ amount \in Nat
        /\ clock \in Nat /\ d \in Nat
    <2>1. limit \in SpendingLimit /\ clock \in 0 .. MaxTime /\ vault \in Nat
          /\ opened \in Nat /\ total \in Nat /\ limit.last_reset <= clock
      BY DEF TypeInv, TypeOK
    <2>2. clock \in Nat /\ amount \in Nat
      BY <2>1, FundsAssumption
    <2> QED
      BY <2>1, <2>2 DEF SpendingLimit
  <1>2. l \in SpendingLimit /\ l.amount = A /\ l.period = P
    BY <1>1, ResetType DEF TypeInv, TypeOK
  <1>3. /\ Exists /\ amount <= l.remaining_amount
        /\ limit' = [l EXCEPT !.remaining_amount = @ - amount]
        /\ total' = total + amount /\ opened' = opened
    BY DEF spending_limit_use
  <1>4. /\ limit'.amount = A /\ limit'.period = P
        /\ limit'.last_reset = l.last_reset
        /\ total' + limit'.remaining_amount = total + l.remaining_amount
        /\ l.remaining_amount \in Nat
    BY <1>1, <1>2, <1>3 DEF SpendingLimit
  <1>5. CASE P # 0 /\ d > P
    <2>0. PICK k \in Nat : k = d \div P
      BY <1>1, <1>5, WholePeriods
    <2>1. /\ l.remaining_amount = A
          /\ l.last_reset = limit.last_reset + k * P
      BY <1>5, <2>0 DEF ResetIfPassed, TypeInv, TypeOK, SpendingLimit
    <2>2. k \in Nat /\ k >= 1
      BY <1>1, <1>5, <2>0, WholePeriods
    <2>3. PICK n \in Nat : Covered(n)
      BY <1>3, <1>5 DEF AllowanceInv
    <2>4. limit'.last_reset = opened + (n + k) * P
      BY <1>1, <1>4, <2>1, <2>2, <2>3 DEF Covered
    <2>5. A * (n + 1) + A <= A * (n + k + 1)
      BY <1>1, <2>2
    <2>6. total' + limit'.remaining_amount <= A * (n + k + 1)
      BY <1>1, <1>4, <2>1, <2>2, <2>3, <2>5 DEF Covered
    <2>7. Covered(n + k)'
      BY <1>3, <1>4, <2>2, <2>4, <2>6 DEF Covered
    <2> QED
      BY <1>4, <1>5, <2>2, <2>7 DEF AllowanceInv
  <1>6. CASE ~(P # 0 /\ d > P)
    <2>1. l = limit
      BY <1>6 DEF ResetIfPassed
    <2>2. CASE P = 0
      BY <1>3, <1>4, <2>1, <2>2 DEF AllowanceInv
    <2>3. CASE P # 0
      <3>1. PICK n \in Nat : Covered(n)
        BY <1>3, <2>3 DEF AllowanceInv
      <3>2. Covered(n)'
        BY <1>3, <1>4, <2>1, <3>1 DEF Covered
      <3> QED
        BY <1>4, <2>3, <3>2 DEF AllowanceInv
    <2> QED
      BY <2>2, <2>3
  <1> QED
    BY <1>5, <1>6

\* Nothing else touches it.
LEMMA AllowanceStep == TypeInv /\ TypeInv' /\ AllowanceInv /\ [Next]_vars => AllowanceInv'
  <1> SUFFICES ASSUME TypeInv, TypeInv', AllowanceInv, [Next]_vars PROVE AllowanceInv'
    OBVIOUS
  <1>1. ASSUME NEW args \in LimitArgs, AddSpendingLimit(args)
        PROVE  AllowanceInv'
    <2>1. args.amount \in Nat /\ args.period \in Nat /\ clock \in Nat
      BY LimitArgsAssumption, FundsAssumption DEF SpendingLimitArgs, TypeInv, TypeOK
    <2>2. /\ limit'.last_reset = opened' /\ opened' = clock /\ total' = 0
          /\ limit'.remaining_amount = args.amount /\ limit'.amount = args.amount
          /\ limit'.period = args.period
      BY <1>1 DEF AddSpendingLimit
    <2>3. Covered(0)'
      BY <2>1, <2>2 DEF Covered
    <2> QED
      BY <2>1, <2>2, <2>3 DEF AllowanceInv
  <1>2. CASE RemoveSpendingLimit
    BY <1>2 DEF RemoveSpendingLimit, AllowanceInv, Exists, NoLimit
  <1>3. CASE UNCHANGED <<limit, opened, total>>
    BY <1>3 DEF AllowanceInv, Covered, Exists
  <1>4. ASSUME NEW k \in Keys, AddMember(k) \/ RemoveMember(k)
        PROVE  AllowanceInv'
    BY <1>3, <1>4 DEF AddMember, RemoveMember
  <1>5. CASE Tick \/ UNCHANGED vars
    BY <1>3, <1>5 DEF Tick, vars
  <1> QED
    BY <1>1, <1>2, <1>4, <1>5, UseAllowance DEF Next

\* The amounts sent under a spending limit, over any time and pattern of use, stay
\* within `amount` per period since its creation (one of them when OneTime).
THEOREM LimitIsKept == Spec => []LifetimeBound
  <1>1. ASSUME TypeInv, AllowanceInv, Exists
        PROVE  LifetimeBound
    <2> DEFINE P == limit.period
               A == limit.amount
    <2>1. /\ P \in Nat /\ A \in Nat /\ opened \in Nat /\ total \in Nat
          /\ limit.remaining_amount \in Nat /\ clock \in Nat /\ limit.last_reset <= clock
      BY <1>1, FundsAssumption DEF TypeInv, TypeOK, SpendingLimit
    <2>2. CASE P = 0
      BY <1>1, <2>1, <2>2 DEF AllowanceInv, LifetimeBound
    <2>3. CASE P # 0
      <3>1. PICK n \in Nat : Covered(n)
        BY <1>1, <2>3 DEF AllowanceInv
      <3> DEFINE b == A * (n + 1)
      <3>2. total <= b /\ b \in Nat
        BY <2>1, <3>1 DEF Covered
      <3>3. total * P <= b * P
        BY <2>1, <3>2, ProductMonotone
      <3>4. n * P + P <= P + (clock - opened) /\ n * P \in Nat
        BY <2>1, <3>1 DEF Covered
      <3>5. b * P = (n * P + P) * A
        BY <2>1, PeriodsTimesAmount
      <3>6. (n * P + P) * A <= (P + (clock - opened)) * A
        <4>1. P + (clock - opened) \in Nat /\ n * P + P \in Nat
          BY <2>1, <3>4
        <4> QED
          BY <2>1, <3>4, <4>1, ProductMonotone
      <3>7. (P + (clock - opened)) * A = A * (P + (clock - opened))
        BY <2>1
      <3> QED
        BY <2>1, <2>3, <3>2, <3>3, <3>4, <3>5, <3>6, <3>7 DEF LifetimeBound
    <2> QED
      BY <2>2, <2>3
  <1>2. TypeInv /\ AllowanceInv => LifetimeBound
    BY <1>1 DEF LifetimeBound
  <1>3. Init => AllowanceInv
    BY DEF Init, AllowanceInv, Exists, NoLimit
  <1> QED
    BY <1>2, <1>3, InitTypeInv, TypeInvStep, AllowanceStep, PTL DEF Spec

-----------------------------------------------------------------------------
(* The bound per period *)

\* Division of K whole periods and a part of one.
LEMMA PeriodNumber ==
    ASSUME NEW K \in Nat, NEW P \in Nat \ {0}, NEW r \in 0 .. P - 1
    PROVE  (K * P + r) \div P = K
  <1> DEFINE x == K * P + r
             q == x \div P
  <1>1. x \in Nat /\ K * P \in Nat
    BY SMT
  <1>2. q \in Nat /\ q * P \in Nat
    BY <1>1, WholePeriods, SMT
  <1>3. q * P <= x /\ x < q * P + P
    <2>1. x = P * q + (x % P) /\ x % P \in 0 .. P - 1
      BY <1>1, SMT
    <2>2. P * q = q * P
      BY <1>2, SMT
    <2> HIDE DEF x, q
    <2> QED
      BY <1>1, <1>2, <2>1, <2>2
  <1> HIDE DEF q
  <1>4. ~(q < K)
    <2> SUFFICES ASSUME q < K PROVE FALSE
      OBVIOUS
    <2>1. (q + 1) * P <= K * P
      BY <1>2, ProductMonotone
    <2>2. (q + 1) * P = q * P + P
      BY <1>2, SMT
    <2> QED
      BY <1>1, <1>2, <1>3, <2>1, <2>2
  <1>5. ~(K < q)
    <2> SUFFICES ASSUME K < q PROVE FALSE
      OBVIOUS
    <2>1. (K + 1) * P <= q * P
      BY <1>2, ProductMonotone
    <2>2. (K + 1) * P = K * P + P
      BY SMT
    <2> QED
      BY <1>1, <1>2, <1>3, <2>1, <2>2
  <1> QED
    BY <1>2, <1>4, <1>5 DEF q

\* Whole periods and the rest.
LEMMA PeriodsAndRest ==
    ASSUME NEW time \in Nat, NEW period \in Nat \ {0}
    PROVE  \E rest \in 0 .. period - 1 : time = (time \div period) * period + rest
  <1>1. time = period * (time \div period) + (time % period)
        /\ time % period \in 0 .. period - 1
    BY SMT
  <1>2. time \div period \in Nat
    BY SMT
  <1>3. period * (time \div period) = (time \div period) * period
    BY <1>2, SMT
  <1> QED
    BY <1>1, <1>3

\* Products distribute.
LEMMA PeriodsAdd ==
    ASSUME NEW K \in Nat, NEW k \in Nat, NEW P \in Nat
    PROVE  k * P \in Nat /\ K * P \in Nat /\ (K + k) * P = K * P + k * P
  BY SMT

\* last_reset is the start of period K: what was sent in it is taken from what remains,
\* later ones are untouched, earlier ones within the limit.  A reset that falls on the
\* very end of a period leaves the rest of the allowance to that period, too.
KeptUpTo(K) ==
    /\ limit.last_reset = opened + K * limit.period
    /\ \A n \in 0 .. MaxTime :
           /\ n < K => spent[n] <= limit.amount
           /\ n = K => spent[n] + limit.remaining_amount <= limit.amount
           /\ n > K => spent[n] = 0
           /\ n + 1 = K /\ clock = limit.last_reset
                  => spent[n] + limit.remaining_amount <= limit.amount

\* SpentPerPeriod with what remains to be sent.
PeriodInv == Exists /\ limit.period # 0 => \E K \in Nat : KeptUpTo(K)

\* The period that a time belongs to, seen from the start of another one: at that start
\* it is the one before.
LEMMA PeriodFrom ==
    ASSUME TypeInv, limit.period # 0, NEW K \in Nat, NEW start \in Nat,
           start = opened + K * limit.period,
           start <= clock, clock <= start + limit.period
    PROVE  /\ clock > start \/ K = 0 => PeriodAt(clock) = K
           /\ clock = start /\ K # 0 => PeriodAt(clock) = K - 1
  <1> DEFINE P == limit.period
             KP == K * P
  <1>1. P \in Nat \ {0} /\ opened \in Nat /\ clock \in Nat /\ KP \in Nat
    <2>1. P \in Nat \ {0} /\ opened \in Nat /\ clock \in Nat
      BY FundsAssumption DEF TypeInv, TypeOK, SpendingLimit
    <2> QED
      BY <2>1, SMT
  <1>2. CASE clock > start
    <2> DEFINE r == clock - start - 1
    <2>1. r \in 0 .. P - 1
      BY <1>1, <1>2
    <2>2. clock - opened - 1 = KP + r /\ clock # opened
      BY <1>1, <1>2
    <2>3. (KP + r) \div P = K
      BY <1>1, <2>1, PeriodNumber
    <2> HIDE DEF r, KP
    <2> QED
      BY <1>1, <1>2, <2>2, <2>3 DEF PeriodAt
  <1>3. CASE clock = start /\ K = 0
    <2>1. clock = opened
      BY <1>1, <1>3
    <2> QED
      BY <1>3, <2>1 DEF PeriodAt
  <1>4. CASE clock = start /\ K # 0
    <2>1. K - 1 \in Nat /\ P - 1 \in 0 .. P - 1
      BY <1>1, <1>4
    <2>2. (K - 1) * P = KP - P
      <3>1. PICK j \in Nat : j = K - 1 /\ K = j + 1
        BY <2>1
      <3>2. (j + 1) * P = j * P + P /\ j * P \in Nat
        BY <1>1, SMT
      <3> QED
        BY <1>1, <3>1, <3>2
    <2>3. ((K - 1) * P + (P - 1)) \div P = K - 1
      BY <1>1, <2>1, PeriodNumber
    <2>4. (K - 1) * P \in Nat
      BY <1>1, <2>1, SMT
    <2>5. clock - opened - 1 = (K - 1) * P + (P - 1) /\ clock # opened
      <3> HIDE DEF KP, P
      <3>1. start = opened + KP
        BY DEF KP, P
      <3> QED
        BY <1>1, <1>4, <2>2, <2>4, <3>1
    <2> QED
      BY <1>4, <2>3, <2>5 DEF PeriodAt
  <1> QED
    BY <1>1, <1>2, <1>3, <1>4


\* A use within the period, or after others have passed.
LEMMA UsePeriod ==
    ASSUME TypeInv, PeriodInv,
           NEW member \in Keys, NEW destination \in Destinations, NEW amount \in 0 .. vault,
           spending_limit_use(member, amount, destination)
    PROVE  PeriodInv'
  <1> DEFINE l == ResetIfPassed(limit, clock)
             P == limit.period
             A == limit.amount
             d == clock - limit.last_reset
             at == PeriodAt(clock)
  <1>1. /\ P \in Nat /\ A \in Nat /\ limit.last_reset \in Nat /\ opened \in Nat
        /\ limit.remaining_amount \in Nat /\ limit.remaining_amount <= A
        /\ amount \in Nat /\ clock \in Nat /\ d \in Nat /\ MaxTime \in Nat
        /\ spent \in [0 .. MaxTime -> Nat]
    <2>1. limit \in SpendingLimit /\ clock \in 0 .. MaxTime /\ vault \in Nat
          /\ opened \in Nat /\ limit.last_reset <= clock
          /\ limit.remaining_amount <= limit.amount /\ spent \in [0 .. MaxTime -> Nat]
      BY DEF TypeInv, TypeOK
    <2>2. clock \in Nat /\ amount \in Nat
      BY <2>1, FundsAssumption
    <2> QED
      BY <2>1, <2>2, FundsAssumption DEF SpendingLimit
  <1>2. l \in SpendingLimit /\ l.amount = A /\ l.period = P
    BY <1>1, ResetType DEF TypeInv, TypeOK
  <1>3. /\ Exists /\ amount <= l.remaining_amount
        /\ limit' = [l EXCEPT !.remaining_amount = @ - amount]
        /\ opened' = opened /\ clock' = clock
        /\ spent' = [spent EXCEPT ![at] = @ + amount]
    BY DEF spending_limit_use
  <1>4. /\ limit'.amount = A /\ limit'.period = P
        /\ limit'.last_reset = l.last_reset
        /\ limit'.remaining_amount = l.remaining_amount - amount
        /\ l.remaining_amount \in Nat
    BY <1>1, <1>2, <1>3 DEF SpendingLimit
  <1>5. \A n \in 0 .. MaxTime : /\ spent[n] \in Nat
                                /\ spent'[n] = IF n = at THEN spent[n] + amount ELSE spent[n]
    BY <1>1, <1>3
  <1> SUFFICES ASSUME P # 0
               PROVE  \E K \in Nat : KeptUpTo(K)'
    BY <1>4 DEF PeriodInv
  <1>6. PICK K \in Nat : KeptUpTo(K)
    BY <1>3 DEF PeriodInv
  <1>7. /\ limit.last_reset = opened + K * P
        /\ \A n \in 0 .. MaxTime :
               /\ n < K => spent[n] <= A
               /\ n = K => spent[n] + limit.remaining_amount <= A
               /\ n > K => spent[n] = 0
               /\ n + 1 = K /\ clock = limit.last_reset
                      => spent[n] + limit.remaining_amount <= A
    BY <1>6 DEF KeptUpTo
  <1> HIDE DEF at
  <1>8. CASE ~(d > P)
    <2>1. l = limit
      BY <1>8 DEF ResetIfPassed
    <2>2. /\ limit.last_reset <= clock /\ clock <= limit.last_reset + P
      BY <1>1, <1>8
    <2>3. /\ clock > limit.last_reset \/ K = 0 => at = K
          /\ clock = limit.last_reset /\ K # 0 => at = K - 1
      BY <1>1, <1>7, <2>2, PeriodFrom DEF at
    <2>4. ASSUME NEW n \in 0 .. MaxTime
          PROVE  /\ n < K => spent'[n] <= A
                 /\ n = K => spent'[n] + (limit.remaining_amount - amount) <= A
                 /\ n > K => spent'[n] = 0
                 /\ n + 1 = K /\ clock = limit.last_reset
                        => spent'[n] + (limit.remaining_amount - amount) <= A
      <3>1. /\ spent[n] \in Nat
            /\ spent'[n] = IF n = at THEN spent[n] + amount ELSE spent[n]
            /\ n < K => spent[n] <= A
            /\ n = K => spent[n] + limit.remaining_amount <= A
            /\ n > K => spent[n] = 0
            /\ n + 1 = K /\ clock = limit.last_reset
                   => spent[n] + limit.remaining_amount <= A
        BY <1>5, <1>7
      <3>2. amount <= limit.remaining_amount
        BY <1>3, <2>1
      <3>3. CASE clock > limit.last_reset \/ K = 0
        <4>1. at = K /\ ~(n + 1 = K /\ clock = limit.last_reset) /\ n \in Nat
          BY <1>1, <2>3, <3>3
        <4> QED
          BY <1>1, <3>1, <3>2, <4>1
      <3>4. CASE clock = limit.last_reset /\ K # 0
        <4>1. at + 1 = K /\ n \in Nat /\ (n = at <=> n + 1 = K)
          BY <1>1, <2>3, <3>4
        <4>2. CASE n = at
          BY <1>1, <3>1, <3>2, <3>4, <4>1, <4>2
        <4>3. CASE n # at
          BY <1>1, <3>1, <3>2, <4>1, <4>3
        <4> QED
          BY <4>2, <4>3
      <3> QED
        BY <1>1, <2>2, <3>3, <3>4
    <2>5. KeptUpTo(K)'
      BY <1>3, <1>4, <1>7, <2>1, <2>4 DEF KeptUpTo
    <2> QED
      BY <2>5
  <1>9. CASE d > P
    <2>1. PICK k \in Nat : k = d \div P
      BY <1>1, WholePeriods
    <2>2. PICK r \in 0 .. P - 1 : d = k * P + r
      <3>1. d \in Nat /\ P \in Nat \ {0}
        BY <1>1
      <3> HIDE DEF d, P
      <3> QED
        BY <2>1, <3>1, PeriodsAndRest
    <2>3. l.remaining_amount = A /\ l.last_reset = limit.last_reset + k * P
      BY <1>9, <2>1 DEF ResetIfPassed, TypeInv, TypeOK, SpendingLimit
    <2>4. /\ k * P \in Nat /\ K * P \in Nat /\ (K + k) * P = K * P + k * P
      <3>1. P \in Nat
        BY <1>1
      <3> HIDE DEF P
      <3> QED
        BY <3>1, PeriodsAdd
    <2>5. k >= 1 /\ (r = 0 => k >= 2)
      <3>1. k # 0
        BY <1>1, <1>9, <2>2
      <3>2. k = 1 => k * P = P
        BY <1>1
      <3> QED
        BY <1>1, <1>9, <2>2, <3>1, <3>2
    <2> DEFINE start == l.last_reset
               N == K + k
    <2>6. r \in Nat /\ r <= P
      <3>1. P \in Nat
        BY <1>1
      <3> HIDE DEF P
      <3> QED
        BY <2>2, <3>1
    <2>7. PICK KP \in Nat : KP = K * P
      BY <2>4
    <2>8. PICK kP \in Nat : kP = k * P
      BY <2>4
    <2>9. start = opened + N * P /\ start \in Nat /\ N \in Nat /\ N # 0 /\ N > K
      <3>1. start = (opened + KP) + kP /\ N * P = KP + kP
        BY <1>7, <2>3, <2>4, <2>7, <2>8
      <3>2. N \in Nat /\ N # 0 /\ N > K
        BY <2>5
      <3> HIDE DEF start, N, P
      <3> QED
        BY <1>1, <2>7, <2>8, <3>1, <3>2
    <2>10. clock = start + r
      <3>1. start = limit.last_reset + kP /\ clock - limit.last_reset = kP + r
        BY <2>2, <2>3, <2>8
      <3>2. clock \in Nat /\ limit.last_reset \in Nat
        BY <1>1
      <3> HIDE DEF start, d
      <3> QED
        BY <2>8, <2>6, <3>1, <3>2
    <2> HIDE DEF start, N
    <2>11. /\ start <= clock /\ clock <= start + P
           /\ clock > start <=> r # 0
           /\ clock = start <=> r = 0
      <3>1. P \in Nat
        BY <1>1
      <3> HIDE DEF P
      <3> QED
        BY <2>9, <2>10, <2>6, <3>1
    <2>12. /\ r # 0 => at = N
           /\ r = 0 => at = N - 1
      <3>1. /\ clock > start \/ N = 0 => PeriodAt(clock) = N
            /\ clock = start /\ N # 0 => PeriodAt(clock) = N - 1
        BY <2>9, <2>11, PeriodFrom
      <3> QED
        BY <2>9, <2>11, <3>1 DEF at
    <2>13. r = 0 => N - 1 > K
      BY <2>5 DEF N
    <2>14. ASSUME NEW n \in 0 .. MaxTime
           PROVE  /\ n < N => spent'[n] <= A
                  /\ n = N => spent'[n] + (A - amount) <= A
                  /\ n > N => spent'[n] = 0
                  /\ n + 1 = N /\ clock = start => spent'[n] + (A - amount) <= A
      <3>1. /\ spent[n] \in Nat
            /\ spent'[n] = IF n = at THEN spent[n] + amount ELSE spent[n]
            /\ n < K => spent[n] <= A
            /\ n = K => spent[n] + limit.remaining_amount <= A
            /\ n > K => spent[n] = 0
        BY <1>5, <1>7
      <3>2. amount <= A
        BY <1>3, <2>3
      <3>3. spent[n] <= A
        BY <1>1, <3>1
      <3>4. CASE r # 0
        BY <1>1, <2>9, <2>11, <2>12, <3>1, <3>2, <3>3, <3>4
      <3>5. CASE r = 0
        BY <1>1, <2>9, <2>11, <2>12, <2>13, <3>1, <3>2, <3>3, <3>5
      <3> QED
        BY <3>4, <3>5
    <2>15. KeptUpTo(N)'
      BY <1>3, <1>4, <2>3, <2>9, <2>14 DEF KeptUpTo, start
    <2> QED
      BY <2>9, <2>15
  <1> QED
    BY <1>8, <1>9

\* Nothing else spends, and time only ends the case of the reset at the end of a period.
LEMMA PeriodStep == TypeInv /\ PeriodInv /\ [Next]_vars => PeriodInv'
  <1> SUFFICES ASSUME TypeInv, PeriodInv, [Next]_vars PROVE PeriodInv'
    OBVIOUS
  <1>1. ASSUME NEW args \in LimitArgs, AddSpendingLimit(args)
        PROVE  PeriodInv'
    <2>1. args.amount \in Nat /\ args.period \in Nat /\ clock \in Nat /\ MaxTime \in Nat
      BY LimitArgsAssumption, FundsAssumption DEF SpendingLimitArgs, TypeInv, TypeOK
    <2>2. /\ limit'.last_reset = opened' /\ opened' = clock
          /\ spent' = [n \in 0 .. MaxTime |-> 0]
          /\ limit'.remaining_amount = args.amount /\ limit'.amount = args.amount
          /\ limit'.period = args.period
      BY <1>1 DEF AddSpendingLimit
    <2>3. \A n \in 0 .. MaxTime : spent'[n] = 0 /\ ~(n + 1 = 0)
      BY <2>1, <2>2
    <2>4. KeptUpTo(0)'
      BY <2>1, <2>2, <2>3 DEF KeptUpTo
    <2> QED
      BY <2>4 DEF PeriodInv
  <1>2. CASE RemoveSpendingLimit
    BY <1>2 DEF RemoveSpendingLimit, PeriodInv, Exists, NoLimit
  <1>3. CASE UNCHANGED <<limit, opened, spent, clock>>
    BY <1>3 DEF PeriodInv, KeptUpTo, Exists
  <1>4. ASSUME NEW k \in Keys, AddMember(k) \/ RemoveMember(k)
        PROVE  PeriodInv'
    BY <1>3, <1>4 DEF AddMember, RemoveMember
  <1>5. CASE Tick
    <2>1. /\ limit' = limit /\ opened' = opened /\ spent' = spent /\ clock' = clock + 1
          /\ limit.last_reset <= clock /\ limit.last_reset \in Nat /\ clock \in Nat
      BY <1>5, FundsAssumption DEF Tick, TypeInv, TypeOK, SpendingLimit
    <2>2. clock' # limit'.last_reset
      BY <2>1
    <2>3. ASSUME NEW K \in Nat, KeptUpTo(K)
          PROVE  KeptUpTo(K)'
      BY <2>1, <2>2, <2>3 DEF KeptUpTo
    <2> QED
      BY <2>1, <2>3 DEF PeriodInv, Exists
  <1>6. CASE UNCHANGED vars
    BY <1>3, <1>6 DEF vars
  <1> QED
    BY <1>1, <1>2, <1>4, <1>5, <1>6, UsePeriod DEF Next

\* In no period since its creation a spending limit lets out more than its amount, though
\* spending_limit_use resets it only when it is used and may skip periods.
THEOREM PeriodIsKept == Spec => []SpentPerPeriod
  <1>1. TypeInv /\ PeriodInv => SpentPerPeriod
    <2> SUFFICES ASSUME TypeInv, PeriodInv, Exists, limit.period # 0, NEW n \in 0 .. MaxTime
                 PROVE  spent[n] <= limit.amount
      BY DEF SpentPerPeriod
    <2>1. PICK K \in Nat : KeptUpTo(K)
      BY DEF PeriodInv
    <2>2. /\ spent[n] \in Nat /\ limit.remaining_amount \in Nat /\ limit.amount \in Nat
          /\ n \in Nat
      BY FundsAssumption DEF TypeInv, TypeOK, SpendingLimit
    <2> QED
      BY <2>1, <2>2 DEF KeptUpTo
  <1>2. Init => PeriodInv
    BY DEF Init, PeriodInv, Exists, NoLimit
  <1> QED
    BY <1>1, <1>2, InitTypeInv, TypeInvStep, PeriodStep, PTL DEF Spec

=============================================================================
