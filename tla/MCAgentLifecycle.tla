--------------------------- MODULE MCAgentLifecycle ---------------------------
(***************************************************************************)
(* Small instances of AgentLifecycle for TLC.                              *)
(***************************************************************************)
EXTENDS AgentLifecycle, TLC

CONSTANTS k1, k2, k3, p1, p2, a1, a2, b1, b2, r1, r2, r3

\* Slots, ids, keys and beats are interchangeable: no operator singles one out.
Symmetry ==
    Permutations(Requests) \cup Permutations(AgentIds)
    \cup Permutations(PlatformIds) \cup Permutations(Keys)
    \cup Permutations(Beats)
=============================================================================
