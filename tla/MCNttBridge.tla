---------------------------- MODULE MCNttBridge -----------------------------
(* A chain that locks and a chain that burns, with one transfer each way over  *)
(* two transceivers, and an owner who pauses, disables and enables, and sets   *)
(* limits.                                                                     *)
EXTENDS NttBridge

CONSTANTS A, B, t1, t2

MCDecimals == [c \in Chains |-> IF c = A THEN 2 ELSE 1]
MCRegistered == <<t1, t2>>
MCLimit == [c \in Chains |-> IF c = A THEN 10 ELSE 2]
MCSupply == [c \in Chains |-> IF c = A THEN 30 ELSE 0]
MCAmounts == [c \in Chains |-> IF c = A THEN {25} ELSE {1}]
MCPeerDecimals == [c \in Chains |-> {Decimals[c]}]
MCNewLimits == [c \in Chains |-> IF c = B THEN {1} ELSE {}]
=============================================================================
