---------------------------- MODULE MCProvisioning ----------------------------
(***************************************************************************)
(* Small instances of Provisioning for TLC.                                *)
(***************************************************************************)
EXTENDS Provisioning, TLC

CONSTANTS k1, k2, p1, p2, a1, a2, c1, c2, n1, n2, v1, v2, r1, r2

\* No operator singles out an owner, an id, a name, a content or a slot.
Symmetry ==
    Permutations(Owners) \cup Permutations(PlatformIds) \cup Permutations(AgentIds)
    \cup Permutations(CapabilityIds) \cup Permutations(Names)
    \cup Permutations(Contents) \cup Permutations(Requests)
=============================================================================
