----------------------------- MODULE MCRateLimit -----------------------------
(* The TLC instances of RateLimit.                                         *)
EXTENDS RateLimit, TLC

(* A short window within a long one.                                       *)
BurstAndDaily == <<2, 4>>
BurstAndDailyCeilings == <<1, 3>>
(* One quota, alone.                                                       *)
OneWindow == <<3>>
OneCeiling == <<2>>

Symmetry == Permutations(Requests \ Unlucky)
=============================================================================
