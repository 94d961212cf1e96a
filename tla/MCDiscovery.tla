----------------------------- MODULE MCDiscovery -----------------------------
(***************************************************************************)
(* A small instance of Discovery for TLC: a limit below 1, for which the   *)
(* default is used, one that is used as it is, and a first offset below 0. *)
(* A limit above the maximum gets the default, too.                        *)
(***************************************************************************)
EXTENDS Discovery, TLC

CONSTANTS a1, a2, a3

MCProfiles == {[visibility |-> "public", kind |-> "service"],
               [visibility |-> "unlisted", kind |-> "service"]}
MCFilters == {NoFilter, [online |-> TRUE, capability |-> FALSE],
              [online |-> TRUE, capability |-> TRUE]}
MCLimits == {0, 1}
MCFirstOffsets == {-1}
AgentSymmetry == Permutations(AgentIds)
=============================================================================
