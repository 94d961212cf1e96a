----------------------------- MODULE Provisioning -----------------------------
(***************************************************************************)
(* Platforms that a person provisions, with their tokens: several agents   *)
(* each, registered by name, and capabilities registered by name with the  *)
(* agents.                                                                 *)
(*                                                                         *)
(* A handler authenticates with one or two SELECTs, does its work in one   *)
(* statement that commits by itself, and may read the row again to answer. *)
(* Each of these is an action; other requests run between them.            *)
(* QuickIdentity and ClaimAgent commit several statements at once; how the *)
(* row locks make that atomic is the subject of AgentLifecycle.            *)
(***************************************************************************)
EXTENDS Integers

CONSTANTS
    Owners,        \* owner_ids; no statement deletes an owner
    PlatformIds,   \* plt_... ids the generator can draw
    AgentIds,      \* agt_... ids
    CapabilityIds, \* cap_... ids
    Names,         \* names of agents and of capabilities
    Contents,      \* what the columns hold that requests only overwrite
    Requests,      \* slots for requests the server handles concurrently
    Served,        \* bound: the operations an instance looks at
    Null

Ops == {"createPlatform", "quickIdentity", "deletePlatform", "heartbeat",
        "createAgent", "patchAgent", "deleteAgent", "claim",
        "createCapability", "patchCapability", "deleteCapability"}

\* content stands for description, version, visibility, the endpoints and, in
\* a capability, for permission, pricing, schemas and enabled.
AgentRow == [platform : PlatformIds, name : Names, owner : Owners,
             claimed : BOOLEAN, content : Contents]
CapabilityRow == [agent : AgentIds, name : Names, content : Contents]

ASSUME ServedAssumption == Served \subseteq Ops
ASSUME NullAssumption ==
    Null \notin Owners \cup PlatformIds \cup AgentIds \cup CapabilityIds
                \cup Names \cup Contents \cup AgentRow \cup CapabilityRow \cup Ops
\* The generator prefixes every id with the kind of thing it names.
ASSUME IdsAssumption ==
    /\ PlatformIds \cap AgentIds = {}
    /\ PlatformIds \cap CapabilityIds = {}
    /\ AgentIds \cap CapabilityIds = {}

VARIABLES
    platforms,    \* plt id -> owner_id of its row, or Null
    agents,       \* agt id -> row, or Null
    capabilities, \* cap id -> row, or Null
    retired,      \* ids whose row was deleted: a random id is never drawn twice
    ownersEver,   \* history: plt id -> everyone who has owned it
    req           \* request -> what its handler has read, and where it stands

tables == <<platforms, agents, capabilities, retired, ownersEver>>
vars == <<platforms, agents, capabilities, retired, ownersEver, req>>

Places == {"idle", "agent", "token", "work", "tunnels", "load", "done"}
Statuses == {"ok", "created", "deleted", "not_found", "unauthorized",
             "conflict", "failed"}

\* platform is the one in the path, or the agent's; token the one whose token
\* the caller presents; owner the caller, or what authentication has read.
Request == [op : Ops \cup {Null}, at : Places,
            platform : PlatformIds \cup {Null}, token : PlatformIds \cup {Null},
            agent : AgentIds \cup {Null}, capability : CapabilityIds \cup {Null},
            name : Names \cup {Null}, owner : Owners \cup {Null},
            content : Contents \cup {Null}, agents : SUBSET AgentIds,
            status : Statuses \cup {Null}]

NoRequest == [op |-> Null, at |-> "idle", platform |-> Null, token |-> Null,
              agent |-> Null, capability |-> Null, name |-> Null,
              owner |-> Null, content |-> Null, agents |-> {}, status |-> Null]

Init ==
    /\ platforms = [p \in PlatformIds |-> Null]
    /\ agents = [a \in AgentIds |-> Null]
    /\ capabilities = [c \in CapabilityIds |-> Null]
    /\ retired = {}
    /\ ownersEver = [p \in PlatformIds |-> {}]
    /\ req = [r \in Requests |-> NoRequest]

-----------------------------------------------------------------------------
(***************************************************************************)
(* Rows.                                                                   *)
(***************************************************************************)
Rows(table) == {id \in DOMAIN table : table[id] # Null}
Fresh(table) == DOMAIN table \ (Rows(table) \cup retired)
\* Ids a client can have been told.
Known(table) == Rows(table) \cup (DOMAIN table \cap retired)

AgentsOf(p) == {a \in Rows(agents) : agents[a].platform = p}
CapabilitiesOf(D) == {c \in Rows(capabilities) : capabilities[c].agent \in D}

\* What the UNIQUE constraint of ON CONFLICT finds.
AgentNamed_Unindexed(p, n) == {}    \* faulty: no UNIQUE(platform_id, name)
AgentNamed_Global(p, n) ==          \* faulty: UNIQUE(name)
    {a \in Rows(agents) : agents[a].name = n}
AgentNamed(p, n) == {a \in AgentsOf(p) : agents[a].name = n}
CapabilityNamed(a, n) ==
    {c \in CapabilitiesOf({a}) : capabilities[c].name = n}

Without(table, D) == [id \in DOMAIN table |-> IF id \in D THEN Null ELSE table[id]]

\* DELETE of agents, with the capabilities that go with them.
RemoveAgents(D) ==
    /\ agents' = Without(agents, D)
    /\ capabilities' = Without(capabilities, CapabilitiesOf(D))

(***************************************************************************)
(* Answers.                                                                *)
(***************************************************************************)
At(r, op, place) == req[r].op = op /\ req[r].at = place
InFlight(r) == req[r].at \notin {"idle", "done"}

Goto(r, place) == req' = [req EXCEPT ![r].at = place]
Answer(r, s) == req' = [req EXCEPT ![r].at = "done", ![r].status = s]
\* A statement that took effect, whose acknowledgement may be lost: 500.
Executed(r, s) == Answer(r, s) \/ Answer(r, "failed")

-----------------------------------------------------------------------------
(***************************************************************************)
(* Requests arrive.                                                        *)
(***************************************************************************)
Call(r, request) ==
    /\ req[r].at = "idle" /\ request.op \in Served
    /\ req' = [req EXCEPT ![r] = request]
    /\ UNCHANGED tables

OwnerCall(r) ==
    \E k \in Owners, n \in Names, v \in Contents :
        \/ Call(r, [NoRequest EXCEPT !.op = "createPlatform", !.at = "work", !.owner = k])
        \/ Call(r, [NoRequest EXCEPT !.op = "quickIdentity", !.at = "work",
                                     !.owner = k, !.name = n, !.content = v])

PlatformCall(r) ==
    \E p \in Known(platforms), k \in Owners :
        Call(r, [NoRequest EXCEPT !.op = "deletePlatform", !.at = "load",
                                  !.platform = p, !.owner = k])

TokenCall(r) ==
    \E p, t \in Known(platforms), n \in Names, v \in Contents :
        \/ \E D \in SUBSET Known(agents) :
              Call(r, [NoRequest EXCEPT !.op = "heartbeat", !.at = "token", !.platform = p,
                                        !.token = t, !.content = v, !.agents = D])
        \/ Call(r, [NoRequest EXCEPT !.op = "createAgent", !.at = "token", !.platform = p,
                                     !.token = t, !.name = n, !.content = v])

ClaimCall(r) ==
    \E a \in Known(agents), k \in Owners :
        Call(r, [NoRequest EXCEPT !.op = "claim", !.at = "load", !.agent = a, !.owner = k])

AgentCall(r) ==
    \E a \in Known(agents), t \in Known(platforms), n \in Names, v \in Contents :
        \/ Call(r, [NoRequest EXCEPT !.op = "patchAgent", !.at = "agent", !.agent = a,
                                     !.token = t, !.content = v])
        \/ Call(r, [NoRequest EXCEPT !.op = "deleteAgent", !.at = "agent", !.agent = a,
                                     !.token = t])
        \/ Call(r, [NoRequest EXCEPT !.op = "createCapability", !.at = "agent", !.agent = a,
                                     !.token = t, !.name = n, !.content = v])

\* The path names an agent and a capability; the statement goes by capability_id
\* alone, and nothing compares its agent with the one in the path.
CapabilityCall(r) ==
    \E a \in Known(agents), c \in Known(capabilities), t \in Known(platforms), v \in Contents :
        \/ Call(r, [NoRequest EXCEPT !.op = "patchCapability", !.at = "agent", !.agent = a,
                                     !.capability = c, !.token = t, !.content = v])
        \/ Call(r, [NoRequest EXCEPT !.op = "deleteCapability", !.at = "agent",
                                     !.agent = a, !.capability = c, !.token = t])

-----------------------------------------------------------------------------
(***************************************************************************)
(* Authentication with a platform token.                                   *)
(***************************************************************************)
PlatformAuthByAgent(r) ==
    /\ req[r].at = "agent"
    /\ IF req[r].agent \in Rows(agents)
         THEN req' = [req EXCEPT ![r].platform = agents[req[r].agent].platform,
                                 ![r].at = "token"]
         ELSE Answer(r, "not_found")
    /\ UNCHANGED tables

AuthenticatePlatform(r) ==
    /\ req[r].at = "token"
    /\ IF req[r].platform \notin Rows(platforms) THEN Answer(r, "not_found")
       ELSE IF req[r].token # req[r].platform THEN Answer(r, "unauthorized")
       ELSE req' = [req EXCEPT ![r].owner = platforms[req[r].platform], ![r].at = "work"]
    /\ UNCHANGED tables

-----------------------------------------------------------------------------
(***************************************************************************)
(* Platforms.                                                              *)
(***************************************************************************)
CreatePlatform(r) ==
    /\ At(r, "createPlatform", "work")
    /\ \E p \in Fresh(platforms) :
          /\ platforms' = [platforms EXCEPT ![p] = req[r].owner]
          /\ ownersEver' = [ownersEver EXCEPT ![p] = @ \cup {req[r].owner}]
    /\ Executed(r, "created")
    /\ UNCHANGED <<agents, capabilities, retired>>

\* The upsert of the owner, a personal platform and its agent, in one commit.
QuickIdentity(r) ==
    /\ At(r, "quickIdentity", "work")
    /\ \E p \in Fresh(platforms), a \in Fresh(agents) :
          /\ platforms' = [platforms EXCEPT ![p] = req[r].owner]
          /\ ownersEver' = [ownersEver EXCEPT ![p] = @ \cup {req[r].owner}]
          /\ agents' = [agents EXCEPT ![a] =
                [platform |-> p, name |-> req[r].name, owner |-> req[r].owner,
                 claimed |-> FALSE, content |-> req[r].content]]
    /\ Executed(r, "created")
    /\ UNCHANGED <<capabilities, retired>>

LoadOwnedPlatform_AnyOwner(r) ==    \* faulty: WHERE platform_id=$1
    /\ At(r, "deletePlatform", "load")
    /\ Goto(r, "work")
    /\ UNCHANGED tables
LoadOwnedPlatform(r) ==
    /\ At(r, "deletePlatform", "load")
    /\ IF platforms[req[r].platform] = req[r].owner
         THEN Goto(r, "work") ELSE Answer(r, "not_found")
    /\ UNCHANGED tables

\* ON DELETE CASCADE takes the platform's agents and their capabilities along.
DeletePlatform(r) ==
    /\ At(r, "deletePlatform", "work")
    /\ LET p == req[r].platform IN
         IF p \in Rows(platforms)
           THEN /\ platforms' = Without(platforms, {p})
                /\ RemoveAgents(AgentsOf(p))
                /\ retired' = retired \cup {p} \cup AgentsOf(p)
                                      \cup CapabilitiesOf(AgentsOf(p))
                /\ UNCHANGED ownersEver
                /\ Executed(r, "deleted")
           ELSE Answer(r, "failed") /\ UNCHANGED tables

\* last_seen_at is left to module HeartbeatWindow.
Heartbeat(r) ==
    /\ At(r, "heartbeat", "work")
    /\ IF req[r].platform \in Rows(platforms)
         THEN Goto(r, "tunnels") ELSE Answer(r, "failed")
    /\ UNCHANGED tables

\* WHERE agent_id=$2 AND platform_id=$1
Tunnelled_AnyPlatform(r, a) == a \in Rows(agents)   \* faulty: WHERE agent_id=$2
Tunnelled(r, a) == a \in AgentsOf(req[r].platform)
\* One statement per listed agent; its error, or no row, is ignored.
UpdateAgentTunnel(r) ==
    /\ At(r, "heartbeat", "tunnels")
    /\ \E a \in req[r].agents :
          /\ req' = [req EXCEPT ![r].agents = @ \ {a}]
          /\ \/ /\ Tunnelled(r, a)
                /\ agents' = [agents EXCEPT ![a].content = req[r].content]
             \/ UNCHANGED agents
    /\ UNCHANGED <<platforms, capabilities, retired, ownersEver>>

HeartbeatDone(r) ==
    /\ At(r, "heartbeat", "tunnels") /\ req[r].agents = {}
    /\ Answer(r, "ok")
    /\ UNCHANGED tables

-----------------------------------------------------------------------------
(***************************************************************************)
(* Agents.                                                                 *)
(***************************************************************************)
\* The agent the upsert returns is read again; or its answer is lost.
Upserted(r, a) ==
    \/ req' = [req EXCEPT ![r].agent = a, ![r].at = "load"]
    \/ Answer(r, "failed")

OnConflict_Reset(row, v) ==         \* faulty: claim_status is set again, too
    [row EXCEPT !.content = v, !.claimed = FALSE]
\* On conflict the row keeps its id, owner_id and claim_status.
OnConflict(row, v) == [row EXCEPT !.content = v]

UpsertAgent(r) ==
    LET p == req[r].platform
        named == AgentNamed(p, req[r].name)
    IN  /\ At(r, "createAgent", "work")
        /\ \/ \E a \in named :
                 /\ agents' = [agents EXCEPT ![a] = OnConflict(@, req[r].content)]
                 /\ Upserted(r, a)
           \/ /\ named = {} /\ p \in Rows(platforms)
              /\ \E a \in Fresh(agents) :
                    /\ agents' = [agents EXCEPT ![a] =
                          [platform |-> p, name |-> req[r].name, owner |-> req[r].owner,
                           claimed |-> FALSE, content |-> req[r].content]]
                    /\ Upserted(r, a)
           \/ /\ named = {} /\ p \notin Rows(platforms)    \* the foreign key
              /\ Answer(r, "failed") /\ UNCHANGED agents
        /\ UNCHANGED <<platforms, capabilities, retired, ownersEver>>

GetAgent(r) ==
    /\ At(r, "createAgent", "load")
    /\ Answer(r, IF req[r].agent \in Rows(agents) THEN "created" ELSE "failed")
    /\ UNCHANGED tables

UpdateAgent(r) ==
    /\ At(r, "patchAgent", "work")
    /\ IF req[r].agent \in Rows(agents)
         THEN /\ agents' = [agents EXCEPT ![req[r].agent].content = req[r].content]
              /\ Goto(r, "load") \/ Answer(r, "failed")
         ELSE Answer(r, "failed") /\ UNCHANGED agents
    /\ UNCHANGED <<platforms, capabilities, retired, ownersEver>>

\* patchAgent answers 200 whatever the second read finds.
ReloadAgent(r) ==
    /\ At(r, "patchAgent", "load")
    /\ Answer(r, "ok")
    /\ UNCHANGED tables

DeleteAgent_Unchecked(r) ==         \* faulty: RowsAffected is not looked at
    /\ At(r, "deleteAgent", "work")
    /\ RemoveAgents({req[r].agent})
    /\ retired' = retired \cup {req[r].agent} \cup CapabilitiesOf({req[r].agent})
    /\ Executed(r, "deleted")
    /\ UNCHANGED <<platforms, ownersEver>>
DeleteAgent(r) ==
    /\ At(r, "deleteAgent", "work")
    /\ LET a == req[r].agent IN
         IF a \in Rows(agents)
           THEN /\ RemoveAgents({a})
                /\ retired' = retired \cup {a} \cup CapabilitiesOf({a})
                /\ Executed(r, "deleted")
           ELSE Answer(r, "failed") /\ UNCHANGED <<agents, capabilities, retired>>
    /\ UNCHANGED <<platforms, ownersEver>>

ClaimFind(r) ==
    /\ At(r, "claim", "load")
    /\ LET a == req[r].agent IN
         IF a \notin Rows(agents) THEN Answer(r, "not_found")
         ELSE IF agents[a].claimed THEN Answer(r, "conflict")
         ELSE req' = [req EXCEPT ![r].platform = agents[a].platform, ![r].at = "work"]
    /\ UNCHANGED tables

\* UPDATE platforms SET owner_id, of the platform that ClaimFind has read.
BoundPlatforms_Kept(r) == platforms \* faulty: the agent alone is bound
BoundPlatforms(r) ==
    IF req[r].platform \in Rows(platforms)
      THEN [platforms EXCEPT ![req[r].platform] = req[r].owner] ELSE platforms

\* Each UPDATE changes its row if that is still there.
ClaimAgent(r) ==
    /\ At(r, "claim", "work")
    /\ agents' = IF req[r].agent \in Rows(agents)
                   THEN [agents EXCEPT ![req[r].agent].owner = req[r].owner,
                                       ![req[r].agent].claimed = TRUE]
                   ELSE agents
    /\ platforms' = BoundPlatforms(r)
    /\ ownersEver' = [p \in PlatformIds |-> ownersEver[p] \cup ({platforms'[p]} \ {Null})]
    /\ Executed(r, "ok")
    /\ UNCHANGED <<capabilities, retired>>

-----------------------------------------------------------------------------
(***************************************************************************)
(* Capabilities.                                                           *)
(***************************************************************************)
UpsertCapability(r) ==
    LET a == req[r].agent
        named == CapabilityNamed(a, req[r].name)
    IN  /\ At(r, "createCapability", "work")
        /\ \/ \E c \in named :
                 /\ capabilities' = [capabilities EXCEPT ![c].content = req[r].content]
                 /\ Executed(r, "created")
           \/ /\ named = {} /\ a \in Rows(agents)
              /\ \E c \in Fresh(capabilities) :
                    capabilities' = [capabilities EXCEPT ![c] =
                        [agent |-> a, name |-> req[r].name, content |-> req[r].content]]
              /\ Executed(r, "created")
           \/ /\ named = {} /\ a \notin Rows(agents)       \* the foreign key
              /\ Answer(r, "failed") /\ UNCHANGED capabilities
        /\ UNCHANGED <<platforms, agents, retired, ownersEver>>

UpdateCapability(r) ==
    /\ At(r, "patchCapability", "work")
    /\ LET c == req[r].capability IN
         IF c \in Rows(capabilities)
           THEN /\ capabilities' = [capabilities EXCEPT ![c].content = req[r].content]
                /\ Executed(r, "ok")
           ELSE Answer(r, "failed") /\ UNCHANGED capabilities
    /\ UNCHANGED <<platforms, agents, retired, ownersEver>>

DeleteCapability(r) ==
    /\ At(r, "deleteCapability", "work")
    /\ LET c == req[r].capability IN
         IF c \in Rows(capabilities)
           THEN /\ capabilities' = Without(capabilities, {c})
                /\ retired' = retired \cup {c}
                /\ Executed(r, "deleted")
           ELSE Answer(r, "failed") /\ UNCHANGED <<capabilities, retired>>
    /\ UNCHANGED <<platforms, agents, ownersEver>>

-----------------------------------------------------------------------------
\* Any statement but a tunnel update may fail without effect: 500.  A server
\* that dies does the same to all requests in flight.
StatementFails(r) ==
    /\ InFlight(r) /\ req[r].at # "tunnels"
    /\ ~At(r, "patchAgent", "load")
    /\ Answer(r, "failed")
    /\ UNCHANGED tables

Receive(r) ==
    /\ req[r].at = "done"
    /\ req' = [req EXCEPT ![r] = NoRequest]
    /\ UNCHANGED tables

Arrive(r) ==
    \/ OwnerCall(r) \/ PlatformCall(r) \/ TokenCall(r)
    \/ ClaimCall(r) \/ AgentCall(r) \/ CapabilityCall(r)

Handle(r) ==
    \/ PlatformAuthByAgent(r) \/ AuthenticatePlatform(r)
    \/ CreatePlatform(r) \/ QuickIdentity(r)
    \/ LoadOwnedPlatform(r) \/ DeletePlatform(r)
    \/ Heartbeat(r) \/ UpdateAgentTunnel(r) \/ HeartbeatDone(r)
    \/ UpsertAgent(r) \/ GetAgent(r) \/ UpdateAgent(r) \/ ReloadAgent(r)
    \/ DeleteAgent(r) \/ ClaimFind(r) \/ ClaimAgent(r)
    \/ UpsertCapability(r) \/ UpdateCapability(r) \/ DeleteCapability(r)

Next == \E r \in Requests : Arrive(r) \/ Handle(r) \/ StatementFails(r) \/ Receive(r)

Spec == Init /\ [][Next]_vars

-----------------------------------------------------------------------------
(***************************************************************************)
(* Properties.                                                             *)
(***************************************************************************)
\* Every variable has its type.
TypeOK ==
    /\ platforms \in [PlatformIds -> Owners \cup {Null}]
    /\ agents \in [AgentIds -> AgentRow \cup {Null}]
    /\ capabilities \in [CapabilityIds -> CapabilityRow \cup {Null}]
    /\ retired \subseteq PlatformIds \cup AgentIds \cup CapabilityIds
    /\ ownersEver \in [PlatformIds -> SUBSET Owners]
    /\ req \in [Requests -> Request]

\* Requests register under a parent that other requests delete, and a deletion
\* reaches two levels down: no agent outlives its platform, no capability its
\* agent.
NoOrphans ==
    /\ \A a \in Rows(agents) : agents[a].platform \in Rows(platforms)
    /\ \A c \in Rows(capabilities) : capabilities[c].agent \in Rows(agents)

\* "Keyed by (platform_id, name)", "keyed by (agent_id, name)": registrations
\* that overlap or are repeated never give one name to two.
NamesUnique ==
    /\ \A a, b \in Rows(agents) :
          agents[a].platform = agents[b].platform /\ agents[a].name = agents[b].name
              => a = b
    /\ \A c, d \in Rows(capabilities) :
          /\ capabilities[c].agent = capabilities[d].agent
          /\ capabilities[c].name = capabilities[d].name
          => c = d

\* A claim rebinds one agent and the platform and leaves the other agents, and
\* registrations already authenticated, with the owner they had.  So an agent's
\* owner may differ from its platform's, but never is one who had no part in it.
OwnerOwnedPlatform ==
    \A a \in Rows(agents) : agents[a].owner \in ownersEver[agents[a].platform]

HasRegistered(r) ==
    /\ req[r].agent \in Rows(agents)
    /\ agents[req[r].agent].platform = req[r].token
    /\ agents[req[r].agent].name = req[r].name

\* "On conflict the existing agent_id is returned": a registration answered 201
\* names an agent of the caller's platform with that name, or one deleted since.
RegisteredAsAsked ==
    \A r \in Requests : At(r, "createAgent", "done") /\ req[r].status = "created" =>
        HasRegistered(r) \/ req[r].agent \in retired

Deletes(r, op) == At(r, op, "done") /\ req[r].status = "deleted"

\* Deletions that overlap: at most one is told that it deleted the row.
DeletedOnce ==
    \A r, q \in Requests : r # q =>
        /\ Deletes(r, "deletePlatform") /\ Deletes(q, "deletePlatform") =>
              req[r].platform # req[q].platform
        /\ Deletes(r, "deleteAgent") /\ Deletes(q, "deleteAgent") =>
              req[r].agent # req[q].agent
        /\ Deletes(r, "deleteCapability") /\ Deletes(q, "deleteCapability") =>
              req[r].capability # req[q].capability

\* The token was compared, or the owner read, in an earlier statement, and the
\* write goes by an id alone.  Still a row of an agent is changed only under the
\* token of its platform, by a claim of that agent, or with its platform's deletion;
\* a platform only by a claim of one of its agents, or a deletion that someone
\* asked for who was its owner when that was checked.  A capability is changed
\* under the token of its platform, with its platform's deletion, or by a
\* call that names it in a path whose agent is of the caller's platform (or deleted
\* since): of a capability's own agent patchCapability and deleteCapability ask nothing.
AuthorizedBy(r, p) == req'[r] # req[r] /\ req[r].token = p
Addresses(r, c) ==
    /\ req'[r] # req[r]
    /\ At(r, "patchCapability", "work") \/ At(r, "deleteCapability", "work")
    /\ req[r].capability = c
    /\ req[r].agent \in AgentsOf(req[r].token) \cup retired
ClaimOf(p) ==
    \E r \in Requests :
        /\ At(r, "claim", "work") /\ req[r].platform = p
        /\ req[r].agent \in AgentsOf(p) \cup retired
DeletedWith(p) ==
    /\ platforms[p] # Null /\ platforms'[p] = Null
    /\ \E r \in Requests :
          /\ At(r, "deletePlatform", "work") /\ req[r].platform = p
          /\ req[r].owner \in ownersEver[p]
OnlyItsPlatformWrites ==
    [][/\ \A p \in Rows(platforms) : platforms'[p] # platforms[p] =>
             DeletedWith(p) \/ ClaimOf(p)
       /\ \A a \in Rows(agents) : agents'[a] # agents[a] =>
             LET p == agents[a].platform IN
             \/ DeletedWith(p)
             \/ \E r \in Requests : AuthorizedBy(r, p)
             \/ \E r \in Requests : At(r, "claim", "work") /\ req[r].agent = a
       /\ \A c \in Rows(capabilities) : capabilities'[c] # capabilities[c] =>
             LET p == agents[capabilities[c].agent].platform IN
             \/ DeletedWith(p)
             \/ \E r \in Requests : AuthorizedBy(r, p) \/ Addresses(r, c)]_vars

\* The tables implement the catalog: an agent's place in the tree is its
\* platform_id and name, a capability's its agent_id and name, and the owner of
\* a platform is read from its own row.  A statement that touched two agents of
\* one name, left something of a removed agent behind, or undid a claim would
\* be no change of the tree.
CapabilityEntry(c) == [id |-> c, content |-> capabilities[c].content]
CapabilitySlot(a, m) == {CapabilityEntry(c) : c \in CapabilityNamed(a, m)}

AgentEntry(a) ==
    [id |-> a, owner |-> agents[a].owner, claimed |-> agents[a].claimed,
     content |-> agents[a].content,
     capabilities |-> [m \in Names |-> CapabilitySlot(a, m)]]
AgentSlot(p, n) == {AgentEntry(a) : a \in AgentNamed(p, n)}

Branch(p) ==
    [owner |-> platforms[p], owners |-> ownersEver[p],
     agents |-> [n \in Names |-> AgentSlot(p, n)]]
Tree == [p \in PlatformIds |-> IF platforms[p] = Null THEN Null ELSE Branch(p)]

CapabilityEntries == [id : CapabilityIds, content : Contents]
AgentEntries == [id : AgentIds, owner : Owners, claimed : BOOLEAN, content : Contents,
                 capabilities : [Names -> SUBSET CapabilityEntries]]
Branches == [owner : Owners, owners : SUBSET Owners,
             agents : [Names -> SUBSET AgentEntries]]
ASSUME BranchAssumption == Null \notin Branches

Catalog == INSTANCE PlatformCatalog WITH
    catalog <- Tree,
    gone <- retired

CatalogSpec == Catalog!Spec

(***************************************************************************)
(* The inductive invariant.                                                *)
(***************************************************************************)
\* A retired id has no row.
RetiredGone ==
    /\ \A p \in Rows(platforms) : p \notin retired
    /\ \A a \in Rows(agents) : a \notin retired
    /\ \A c \in Rows(capabilities) : c \notin retired

OwnersKnown ==
    /\ \A p \in Rows(platforms) : platforms[p] \in ownersEver[p]
    /\ \A p \in PlatformIds : ownersEver[p] # {} => p \in Rows(platforms) \cup retired

ByAgent == {"patchAgent", "deleteAgent", "createCapability", "patchCapability",
            "deleteCapability"}
ByParam == {"heartbeat", "createAgent"}

\* What a request carries at each place.
Carries(r) ==
    /\ req[r].at = "agent" => req[r].op \in ByAgent
    /\ req[r].at = "token" => req[r].op \in ByAgent \cup ByParam /\ req[r].platform # Null
    /\ req[r].at = "tunnels" => req[r].op = "heartbeat"
    /\ req[r].op \in {"createPlatform", "quickIdentity", "deletePlatform", "claim"} =>
          req[r].owner # Null
    /\ req[r].op \in {"quickIdentity", "createAgent", "createCapability"} =>
          req[r].name # Null
    /\ req[r].op \in {"quickIdentity", "createAgent", "createCapability", "heartbeat",
                      "patchAgent", "patchCapability"} => req[r].content # Null
    /\ req[r].op \in {"deletePlatform", "heartbeat", "createAgent"} => req[r].platform # Null
    /\ req[r].op \in ByAgent \cup {"claim"} => req[r].agent # Null
    /\ req[r].op \in {"patchCapability", "deleteCapability"} => req[r].capability # Null
    /\ At(r, "claim", "work") => req[r].platform # Null

\* What it has read is still so, or the row is gone for good.
StillTrue(r) ==
    /\ req[r].op \in ByAgent /\ req[r].at \in {"token", "work", "load"} =>
          /\ req[r].agent \in Rows(agents) => agents[req[r].agent].platform = req[r].platform
          /\ req[r].agent \in Rows(agents) \cup retired
    /\ At(r, "claim", "work") =>
          /\ req[r].agent \in Rows(agents) => agents[req[r].agent].platform = req[r].platform
          /\ req[r].agent \in Rows(agents) \cup retired
    /\ req[r].op \in ByAgent \cup ByParam /\ req[r].at \in {"work", "tunnels", "load"} =>
          req[r].token = req[r].platform /\ req[r].platform # Null
    /\ At(r, "createAgent", "work") => req[r].owner \in ownersEver[req[r].platform]
    /\ At(r, "deletePlatform", "work") => req[r].owner \in ownersEver[req[r].platform]
    /\ req[r].op = "createAgent" /\ req[r].at = "load" =>
          HasRegistered(r) \/ req[r].agent \in retired
    /\ req[r].op \in {"patchCapability", "deleteCapability"} =>
          req[r].capability \in Rows(capabilities) \cup retired
    /\ Deletes(r, "deletePlatform") => req[r].platform \in retired
    /\ Deletes(r, "deleteAgent") => req[r].agent \in retired
    /\ Deletes(r, "deleteCapability") => req[r].capability \in retired

IInv ==
    /\ TypeOK
    /\ RetiredGone
    /\ NoOrphans
    /\ NamesUnique
    /\ OwnersKnown
    /\ OwnerOwnedPlatform
    /\ RegisteredAsAsked
    /\ DeletedOnce
    /\ \A r \in Requests : Carries(r) /\ StillTrue(r)
=============================================================================
