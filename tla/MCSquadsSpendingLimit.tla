------------------------ MODULE MCSquadsSpendingLimit ------------------------
(* Limits of one and two tokens, one-time and periodic, some with a fixed      *)
(* destination, over three periods.                                            *)
EXTENDS SquadsSpendingLimit

CONSTANTS a, b, d, e

MCLimitArgs ==
    {[amount |-> 2, period |-> 2, members |-> {a}, destinations |-> {}],
     [amount |-> 1, period |-> 1, members |-> {a}, destinations |-> {d}],
     [amount |-> 2, period |-> 0, members |-> {a, b}, destinations |-> {d}],
     [amount |-> 0, period |-> 1, members |-> {a}, destinations |-> {}]}
=============================================================================
