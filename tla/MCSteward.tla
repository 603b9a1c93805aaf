------------------------------ MODULE MCSteward ------------------------------
(* Two validators and one that may join; all but one may fail.  Two get stake,  *)
(* and scores are computed every second epoch.                                  *)
EXTENDS Steward

CONSTANTS a, b, c

MCInitial == <<a, b>>

MCScore == [v \in Votes |-> CASE v = a -> 2 [] v = b -> 1 [] v = c -> 3]

\* b, which never fails, has no score: a pool that shrinks below the number of
\* validators that get stake always holds one that gets none
MCScoreZero == [v \in Votes |-> CASE v = a -> 2 [] v = b -> 0 [] v = c -> 3]
=============================================================================
