-------------------------- MODULE NttTrimmedAmount --------------------------
(***************************************************************************)
(* Amounts on the wire (ntt-messages, trimmed_amount.rs).  A TrimmedAmount *)
(* carries its own number of decimals, the smallest of TRIMMED_DECIMALS    *)
(* and the decimals of the token on the two chains.                        *)
(***************************************************************************)
EXTENDS Integers

CONSTANTS
    TRIMMED_DECIMALS,
    U64_MAX

ASSUME TrimmedAssumption == TRIMMED_DECIMALS \in Nat /\ U64_MAX \in Nat

TrimmedAmount == [amount : Nat, decimals : Nat]

Lowest(x, y) == IF x < y THEN x ELSE y

\* 10u64.checked_pow
pow10[n \in Nat] == IF n = 0 THEN 1 ELSE 10 * pow10[n - 1]

Factor(from_decimals, to_decimals) ==
    IF from_decimals > to_decimals THEN pow10[from_decimals - to_decimals]
                                   ELSE pow10[to_decimals - from_decimals]

scale(amount, from_decimals, to_decimals) ==
    IF from_decimals > to_decimals
    THEN amount \div Factor(from_decimals, to_decimals)
    ELSE amount * Factor(from_decimals, to_decimals)

\* scale returns Ok: neither the power nor the product overflows.
ScaleOk(amount, from_decimals, to_decimals) ==
    /\ Factor(from_decimals, to_decimals) <= U64_MAX
    /\ scale(amount, from_decimals, to_decimals) <= U64_MAX

trim(amount, from_decimals, to_decimals) ==
    LET decimals == Lowest(TRIMMED_DECIMALS, Lowest(from_decimals, to_decimals))
    IN  [amount |-> scale(amount, from_decimals, decimals), decimals |-> decimals]

untrim(trimmed, to_decimals) == scale(trimmed.amount, trimmed.decimals, to_decimals)

UntrimOk(trimmed, to_decimals) == ScaleOk(trimmed.amount, trimmed.decimals, to_decimals)

\* remove_dust: what is left of `amount`, and whether both scalings succeed.
WithoutDust(amount, from_decimals, to_decimals) ==
    untrim(trim(amount, from_decimals, to_decimals), from_decimals)

RemoveDustOk(amount, from_decimals, to_decimals) ==
    LET trimmed == trim(amount, from_decimals, to_decimals)
    IN  /\ ScaleOk(amount, from_decimals, trimmed.decimals)
        /\ UntrimOk(trimmed, from_decimals)
=============================================================================
