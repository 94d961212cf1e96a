---------------------------- MODULE MCChallengeAuth ----------------------------
(***************************************************************************)
(* Small instances of ChallengeAuth for TLC.                               *)
(***************************************************************************)
EXTENDS ChallengeAuth, TLC

CONSTANTS k1, k2, v1, v2, r1, r2

\* No operator singles out a key, a challenge or a slot.
Symmetry ==
    Permutations(Keys) \cup Permutations(Values) \cup Permutations(Requests)
=============================================================================
