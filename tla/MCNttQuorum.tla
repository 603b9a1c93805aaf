---------------------------- MODULE MCNttQuorum -----------------------------
(* One transfer, three transceivers of which one also attests to a message     *)
(* that was never sent, and the owner of the receiving chain who enables,      *)
(* disables, pauses and changes the threshold meanwhile.                       *)
EXTENDS NttManager

CONSTANTS A, B, X, t1, t2, t3

MCDecimals == [c \in Chains |-> IF c = A THEN 2 ELSE 1]
MCRegistered == <<t1, t2>>
MCLimit == [c \in Chains |-> IF c = A THEN 50 ELSE 3]
MCSupply == [c \in Chains |-> IF c = A THEN 30 ELSE 0]
MCAmounts == [c \in Chains |-> IF c = A THEN {25} ELSE {}]
MCPeerDecimals == [c \in Chains |-> {Decimals[c]}]
MCNewLimits == [c \in Chains |-> IF c = B THEN {3} ELSE {}]
MCPhantoms ==
    {[from_chain |-> A, id |-> 1, source_ntt_manager |-> A, recipient_ntt_manager |-> B,
      to_chain |-> B, amount |-> [amount |-> 3, decimals |-> 1]]}
=============================================================================
