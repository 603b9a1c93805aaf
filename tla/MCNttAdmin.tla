----------------------------- MODULE MCNttAdmin -----------------------------
(* Two users, an address nobody can sign for, and two SPL multisigs.           *)
EXTENDS NttAdmin

CONSTANTS alice, bob, typo, shared, other
=============================================================================
