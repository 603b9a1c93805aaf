---------------------------- MODULE MCNttLimiter ----------------------------
(* A limiter of up to 5 tokens that fills up in 3 seconds; the history is      *)
(* bounded by a state constraint.                                              *)
EXTENDS NttLimiter

CONSTANT MaxHistory

Bounded == admitted <= MaxHistory /\ returned <= 3 /\ raised <= 5
=============================================================================
