--------------------------- MODULE AgentDirectory ---------------------------
(***************************************************************************)
(* What the registry promises about self-registered agents: a directory    *)
(* with one entry per agent, each changed by one atomic operation.         *)
(*                                                                         *)
(* The promise is deliberately last-writer-wins in Bind: ClaimAgent checks *)
(* that the agent is unclaimed in one statement and binds it in another,   *)
(* so a claim can be replaced by one that raced with it.  It never says    *)
(* that an entry is seen half changed, comes back after its removal, or is *)
(* entered twice for one key.                                              *)
(***************************************************************************)
CONSTANTS Keys, AgentIds, Beats, Null

VARIABLES
    directory,  \* agent id -> its entry, or Null
    gone        \* ids of removed agents

Init ==
    /\ directory = [a \in AgentIds |-> Null]
    /\ gone = {}

Listed(a) == directory[a] # Null

Enroll(a, k) ==
    /\ ~Listed(a) /\ a \notin gone
    /\ \A b \in AgentIds : Listed(b) => directory[b].key # k
    /\ directory' = [directory EXCEPT ![a] =
                        [key |-> k, owner |-> k, claimant |-> Null, beat |-> Null]]
    /\ UNCHANGED gone

Beat(a, b) ==
    /\ Listed(a)
    /\ directory' = [directory EXCEPT ![a].beat = b]
    /\ UNCHANGED gone

Bind(a, k) ==
    /\ Listed(a)
    /\ directory' = [directory EXCEPT ![a].owner = k, ![a].claimant = k]
    /\ UNCHANGED gone

Remove(a) ==
    /\ Listed(a)
    /\ directory' = [directory EXCEPT ![a] = Null]
    /\ gone' = gone \cup {a}

Next ==
    \E a \in AgentIds :
        \/ \E k \in Keys : Enroll(a, k) \/ Bind(a, k)
        \/ \E b \in Beats : Beat(a, b)
        \/ Remove(a)

Spec == Init /\ [][Next]_<<directory, gone>>
=============================================================================
