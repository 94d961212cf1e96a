----------------------------- MODULE RegistryDB -----------------------------
(***************************************************************************)
(* The Postgres tables the registry keeps about self-registered agents,    *)
(* and the row locks its transactions take on them.                        *)
(*                                                                         *)
(* The tables hold COMMITTED rows.  A transaction's own writes appear in   *)
(* them when it commits: nobody reads them earlier (READ COMMITTED is the  *)
(* level pool.Begin asks for), and the row lock every UPDATE, DELETE and   *)
(* ON CONFLICT takes keeps the row as the statement found it until then.   *)
(*                                                                         *)
(* An owner row is named by its public key: owner_id and public_key are    *)
(* one-to-one and no statement of the program deletes an owner.            *)
(***************************************************************************)
EXTENDS Integers, FiniteSets

CONSTANTS
    Keys,         \* Ed25519 public keys, of agents and of people
    PlatformIds,  \* plt_... ids the generator can draw
    AgentIds,     \* agt_... ids the generator can draw
    Beats,        \* what one heartbeat carries: its time and its endpoints
    Requests,     \* slots for HTTP requests the server handles concurrently
    Null          \* SQL NULL; also "no such row"

\* beat is what the last heartbeat wrote: last_seen_at and online in a
\* platform, tunnel_endpoint and mcp_endpoint in an agent.
PlatformRow == [owner : Keys, beat : Beats \cup {Null}]
AgentRow == [key : Keys, platform : PlatformIds, owner : Keys,
             claimed : BOOLEAN, beat : Beats \cup {Null}]

ASSUME NullAssumption ==
    Null \notin Keys \cup PlatformIds \cup AgentIds \cup Beats
                \cup PlatformRow \cup AgentRow

\* The generator prefixes every id with the kind of thing it names.
ASSUME IdsAssumption == PlatformIds \cap AgentIds = {}

VARIABLES
    owners,     \* keys that have a row in table owners
    platforms,  \* plt id -> row of table platforms, or Null
    agents,     \* agt id -> row of table agents, or Null
    retired,    \* ids whose row was deleted: a random id is never drawn twice
    held        \* request -> row locks its transaction holds

tables == <<owners, platforms, agents, retired>>

Locks == ({"owner"} \X Keys) \cup ({"platform"} \X PlatformIds)
         \cup ({"agent"} \X AgentIds)

DBTypeOK ==
    /\ owners \subseteq Keys
    /\ platforms \in [PlatformIds -> PlatformRow \cup {Null}]
    /\ agents \in [AgentIds -> AgentRow \cup {Null}]
    /\ retired \subseteq PlatformIds \cup AgentIds
    /\ held \in [Requests -> SUBSET Locks]

DBInit ==
    /\ owners = {}
    /\ platforms = [p \in PlatformIds |-> Null]
    /\ agents = [a \in AgentIds |-> Null]
    /\ retired = {}
    /\ held = [r \in Requests |-> {}]

(***************************************************************************)
(* Rows.                                                                   *)
(***************************************************************************)
Live(a) == agents[a] # Null
FreshAgents == {a \in AgentIds \ retired : agents[a] = Null}
FreshPlatforms == {p \in PlatformIds \ retired : platforms[p] = Null}

AgentsWith(k) == {a \in AgentIds : Live(a) /\ agents[a].key = k}

\* The UNIQUE index on agents.public_key refuses to insert k.
KeyTaken_Unindexed(k) == FALSE      \* faulty: the column without its index
KeyTaken(k) == AgentsWith(k) # {}

\* UPDATE ... WHERE id = $1: no row, no effect, no error.
Update(table, id, row) ==
    [table EXCEPT ![id] = IF @ = Null THEN Null ELSE row]

\* Agents that ON DELETE CASCADE removes with platform p.
Tenants(p) == {a \in AgentIds : Live(a) /\ agents[a].platform = p}

(***************************************************************************)
(* Locks: exclusive, one holder per row, kept to the end of a transaction. *)
(***************************************************************************)
Free(r, L) == \A q \in Requests \ {r} : held[q] \cap L = {}
Take(r, L) == Free(r, L) /\ held' = [held EXCEPT ![r] = @ \cup L]
Release(r) == held' = [held EXCEPT ![r] = {}]

OwnerLock(k) == <<"owner", k>>
\* The lock an UPDATE or DELETE asks for: none when its row is not there.
PlatformLock(p) == IF platforms[p] = Null THEN {} ELSE {<<"platform", p>>}
AgentLock(a) == IF Live(a) THEN {<<"agent", a>>} ELSE {}
=============================================================================
