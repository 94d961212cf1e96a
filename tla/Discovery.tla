------------------------------- MODULE Discovery -------------------------------
(***************************************************************************)
(* What the registry tells about agents: discovery over HTTP, the tools of *)
(* its MCP endpoint, and the reads under a platform token.                 *)
(*                                                                         *)
(* An answer is put together from up to three statements: a count, a page  *)
(* of agents, and their capabilities.  No transaction holds them together, *)
(* and what other requests commit in between is Change.  The tables hold   *)
(* just the columns that the queries look at.                              *)
(***************************************************************************)
EXTENDS Integers, FiniteSets

CONSTANTS
    PlatformIds, AgentIds, CapabilityIds,   \* ids of rows
    Clients,        \* callers, each with one request at a time
    Profiles,       \* the [visibility, kind] that agents are registered with
    Filters,        \* what callers search for
    Times,          \* values of agents.created_at, no two rows the same
    Limits,         \* values of "limit" that callers send
    FirstOffsets,   \* values of "offset" that callers start with
    DefaultLimit,   \* 20
    MaxLimit,       \* 100
    Null

Visibilities == {"public", "unlisted", "private"}
Kinds == {"service", "principal"}

AgentRow == [platform : PlatformIds, visibility : Visibilities, kind : Kinds,
             created : Times]
Profile == [visibility : Visibilities, kind : Kinds]

\* The conditions a search may add; those on columns of the agent that nothing
\* else depends on (q, tags, platform_type, owner_id) are left out, and so are the
\* capabilities that a search for one of another name or permission passes over.
Filter == [online : BOOLEAN, capability : BOOLEAN]
NoFilter == [online |-> FALSE, capability |-> FALSE]

ASSUME FilterAssumption == Filters \subseteq Filter
ASSUME LimitAssumption ==
    /\ DefaultLimit \in Nat \ {0} /\ MaxLimit \in Nat
    /\ Limits \subseteq Int
    /\ FirstOffsets \subseteq {n \in Int : n <= 0}
ASSUME ProfileAssumption == Profiles \subseteq Profile
ASSUME TablesAssumption == Times \subseteq Nat /\ IsFiniteSet(AgentIds)
ASSUME NullAssumption == Null \notin BOOLEAN \cup AgentRow \cup AgentIds

VARIABLES
    platforms,    \* plt id -> the computed "online" of its row, or Null
    agents,       \* agt id -> row, or Null
    capabilities, \* cap id -> the agent of its row, or Null
    req,          \* client -> its request and what the handler has read for it
    mark,         \* history: what happened to the tables during that request
    walk          \* client -> the pages it has seen of one search, and history

tables == <<platforms, agents, capabilities>>
vars == <<platforms, agents, capabilities, req, mark, walk>>

Ops == {"none", "search", "agent", "get", "list", "price", "register", "notification"}
Places == {"idle", "count", "page", "find", "capabilities", "price", "insert", "done"}
Statuses == {"none", "ok", "not_found", "failed", "accepted"}

\* The object that a request names, where it names one.
Subject == PlatformIds \cup AgentIds \cup CapabilityIds \cup {Null}

\* page is the set of agents of an answer; nothing here depends on its order.
\* error: a statement failed in the database.
Request == [op : Ops, at : Places, filter : Filter, limit : Int, offset : Int,
            id : Subject, total : Nat, page : SUBSET AgentIds,
            shown : SUBSET CapabilityIds, error : BOOLEAN, status : Statuses]
\* due: what a lookup must find.  kept: the rows that are there since the page was
\* read.  moved: the result of a search changed after its count.
Mark == [due : SUBSET AgentIds, kept : SUBSET CapabilityIds, moved : BOOLEAN]
\* unseen: the agents of the first result that no page has shown.  left: since then
\* an agent left the result.
Walk == [on : BOOLEAN, filter : Filter, next : Nat, unseen : SUBSET AgentIds,
         left : BOOLEAN]

NoRequest == [op |-> "none", at |-> "idle", filter |-> NoFilter, limit |-> 0,
              offset |-> 0, id |-> Null, total |-> 0, page |-> {}, shown |-> {},
              error |-> FALSE, status |-> "none"]
NoMark == [due |-> {}, kept |-> {}, moved |-> FALSE]
NoWalk == [on |-> FALSE, filter |-> NoFilter, next |-> 0, unseen |-> {},
           left |-> FALSE]

Init ==
    /\ platforms = [p \in PlatformIds |-> Null]
    /\ agents = [a \in AgentIds |-> Null]
    /\ capabilities = [c \in CapabilityIds |-> Null]
    /\ req = [q \in Clients |-> NoRequest]
    /\ mark = [q \in Clients |-> NoMark]
    /\ walk = [q \in Clients |-> NoWalk]

-----------------------------------------------------------------------------
(***************************************************************************)
(* The queries.                                                            *)
(***************************************************************************)
Rows(table) == {id \in DOMAIN table : table[id] # Null}
CapabilitiesOf(D) == {c \in Rows(capabilities) : capabilities[c] \in D}

\* WHERE of DiscoverAgents.
Matches_Unlisted(a, f) ==           \* faulty: visibility <> 'private'
    /\ agents[a].visibility # "private" /\ agents[a].kind = "service"
    /\ f.online => platforms[agents[a].platform]
    /\ f.capability => CapabilitiesOf({a}) # {}
Matches(a, f) ==
    /\ agents[a].visibility = "public" /\ agents[a].kind = "service"
    /\ f.online => platforms[agents[a].platform]
    /\ f.capability => CapabilitiesOf({a}) # {}
Matching(f) == {a \in Rows(agents) : Matches(a, f)}

\* Agents before a in ORDER BY a.created_at DESC.
Newer(M, a) == {b \in M : agents[b].created > agents[a].created}

AppliedLimit_Raw(l) == IF l > MaxLimit THEN DefaultLimit ELSE l   \* faulty: keeps 0
AppliedLimit(l) == IF l <= 0 \/ l > MaxLimit THEN DefaultLimit ELSE l
AppliedOffset(o) == IF o < 0 THEN 0 ELSE o

\* LIMIT and OFFSET.
Slice_OneBased(M, o, l) ==          \* faulty: OFFSET counted from one
    {a \in M : Cardinality(Newer(M, a)) \in (o + 1) .. (o + l)}
Slice(M, o, l) == {a \in M : Cardinality(Newer(M, a)) \in o .. (o + l - 1)}

\* The agents that a lookup by id reads.
Found_AnyVisibility(r) ==           \* faulty: WHERE a.agent_id=$2 alone
    {a \in Rows(agents) : IF r.op = "list" THEN agents[a].platform = r.id ELSE a = r.id}
Found(r) ==
    CASE r.op = "agent" ->
            {a \in Rows(agents) \cap {r.id} : agents[a].visibility # "private"}
      [] r.op = "get" -> Rows(agents) \cap {r.id}
      [] OTHER -> {a \in Rows(agents) : agents[a].platform = r.id}

\* PostgreSQL wants a use of every argument in the statement, and the count
\* names offlineSecs ($1) only where it filters by it.
ArgumentsUsed(f) == f.online

-----------------------------------------------------------------------------
(***************************************************************************)
(* Requests.                                                               *)
(***************************************************************************)
InFlight(q) == req[q].at \notin {"idle", "done"}

\* What a caller may see of an agent, as the comments on discovery promise it:
\* search shows public services, a lookup hides private agents from strangers,
\* and a platform token reads its own agents.
Visible(r) ==
    {a \in Rows(agents) :
        CASE r.op = "search" -> agents[a].visibility = "public" /\ agents[a].kind = "service"
          [] r.op = "agent" -> a = r.id /\ agents[a].visibility \in {"public", "unlisted"}
          [] r.op = "get" -> a = r.id
          [] r.op = "list" -> agents[a].platform = r.id
          [] OTHER -> FALSE}

Lookups == {"agent", "get", "list"}
Due(r) == IF r.op \in Lookups THEN Visible(r) ELSE {}

Start(q, r) ==
    /\ req[q].at = "idle"
    /\ req' = [req EXCEPT ![q] = r]
    /\ mark' = [mark EXCEPT ![q] = [NoMark EXCEPT !.due = Due(r)]]
    /\ UNCHANGED tables

\* GET /v1/discover/agents, or the tool search_robot_agents, which has no offset.
\* A client asks for the first page of a search, or for the next one of the
\* search that it walks through: it goes on from the number of agents it got.
SearchRequest(f, l, o) ==
    [NoRequest EXCEPT !.op = "search", !.at = "count", !.filter = f, !.limit = l,
                      !.offset = o]
CallSearch(q) ==
    \E f \in Filters, l \in Limits, o \in FirstOffsets :
        /\ Start(q, SearchRequest(f, l, o))
        /\ walk' = [walk EXCEPT ![q] = [NoWalk EXCEPT !.on = TRUE, !.filter = f,
                                                     !.unseen = Matching(f)]]
CallNextPage(q) ==
    /\ walk[q].on
    /\ \E l \in Limits : Start(q, SearchRequest(walk[q].filter, l, walk[q].next))
    /\ UNCHANGED walk

\* GET /v1/discover/agents/:agent_id, get_agent_details and get_connection_info
\* ("agent"); GET /v1/agents/:agent_id ("get") and GET /v1/platforms/:platform_id/agents
\* ("list").  A client in the middle of a walk does nothing else.
CallLookup(q) ==
    /\ ~walk[q].on
    /\ \E op \in Lookups, id \in PlatformIds \cup AgentIds :
          /\ op = "list" <=> id \in PlatformIds
          /\ Start(q, [NoRequest EXCEPT !.op = op, !.at = "find", !.id = id])
    /\ UNCHANGED walk

\* The tools check_capability_price and register_identity; a message without an
\* id is a notification: it is accepted and nothing is done, whatever it names.
CallTool(q) ==
    /\ ~walk[q].on
    /\ \/ \E c \in CapabilityIds :
             Start(q, [NoRequest EXCEPT !.op = "price", !.at = "price", !.id = c])
       \/ Start(q, [NoRequest EXCEPT !.op = "register", !.at = "insert"])
       \/ Start(q, [NoRequest EXCEPT !.op = "notification", !.at = "done",
                                     !.status = "accepted"])
    /\ UNCHANGED walk

\* One statement of a handler: reads tables and nothing else.
Reads(q, r) == req' = [req EXCEPT ![q] = r] /\ UNCHANGED <<tables, walk>>
Read(q, r) == Reads(q, r) /\ UNCHANGED mark
ReadAgents(q, r) ==
    Reads(q, r) /\ mark' = [mark EXCEPT ![q] = [@ EXCEPT !.kept = Rows(capabilities)]]

CountAgents(q) ==
    /\ req[q].at = "count" /\ ArgumentsUsed(req[q].filter)
    /\ Read(q, [req[q] EXCEPT !.at = "page",
                              !.total = Cardinality(Matching(req[q].filter))])

\* No agents: capabilitiesByAgent returns without a statement.
LookedUp(r, P) ==
    IF P # {} THEN [r EXCEPT !.at = "capabilities", !.page = P]
    ELSE [r EXCEPT !.at = "done",
                   !.status = IF r.op \in {"agent", "get"} THEN "not_found" ELSE "ok"]

PageAgents(q) ==
    /\ req[q].at = "page"
    /\ ReadAgents(q, LookedUp(req[q], Slice(Matching(req[q].filter),
                                            AppliedOffset(req[q].offset),
                                            AppliedLimit(req[q].limit))))
FindAgents(q) ==
    /\ req[q].at = "find"
    /\ ReadAgents(q, LookedUp(req[q], Found(req[q])))

LoadCapabilities_OfFirst(q) ==      \* faulty: the capabilities of one agent
    /\ req[q].at = "capabilities"
    /\ Read(q, [req[q] EXCEPT !.at = "done", !.status = "ok",
                !.shown = CapabilitiesOf({CHOOSE a \in req[q].page : TRUE})])
LoadCapabilities(q) ==
    /\ req[q].at = "capabilities"
    /\ Read(q, [req[q] EXCEPT !.at = "done", !.status = "ok",
                              !.shown = CapabilitiesOf(req[q].page)])

CheckPrice(q) ==
    /\ req[q].at = "price"
    /\ Read(q, [req[q] EXCEPT !.at = "done",
                   !.status = IF req[q].id \in Rows(capabilities) THEN "ok" ELSE "not_found"])

\* A statement fails: the count for a reason of its own, any of them because the
\* database does.  Lookups of one object then answer as if it were not there.
Fails(q, e) ==
    Read(q, [req[q] EXCEPT !.at = "done", !.error = e,
               !.status = IF req[q].op \in {"agent", "get", "price"}
                          THEN "not_found" ELSE "failed"])
CountRefused(q) ==
    req[q].at = "count" /\ ~ArgumentsUsed(req[q].filter) /\ Fails(q, FALSE)
StatementFails(q) == InFlight(q) /\ Fails(q, TRUE)

\* The client gets its answer; a page of its search counts for the walk.
Receive(q) ==
    /\ req[q].at = "done"
    /\ req' = [req EXCEPT ![q] = NoRequest]
    /\ mark' = [mark EXCEPT ![q] = NoMark]
    /\ walk' = IF req[q].op = "search" /\ req[q].status = "ok"
               THEN [walk EXCEPT ![q] =
                      IF req[q].page = {} THEN NoWalk
                      ELSE [walk[q] EXCEPT
                              !.next = AppliedOffset(req[q].offset)
                                         + Cardinality(req[q].page),
                              !.unseen = walk[q].unseen \ req[q].page]]
               ELSE walk
    /\ UNCHANGED tables

-----------------------------------------------------------------------------
(***************************************************************************)
(* What other requests commit, one transaction each.  created_at is NOW(), *)
(* the start of a transaction that others may overtake: any free time.     *)
(***************************************************************************)
FreeTimes == Times \ {agents[a].created : a \in Rows(agents)}

AddPlatform(p) ==
    /\ platforms[p] = Null
    /\ platforms' = [platforms EXCEPT ![p] = FALSE]
AddAgent(a, row) ==
    /\ agents[a] = Null /\ row.created \in FreeTimes
    /\ agents' = [agents EXCEPT ![a] = row]

RegisterPlatform == \E p \in PlatformIds : AddPlatform(p) /\ UNCHANGED <<agents, capabilities>>
\* A heartbeat, and OfflineAfterSecs without one.
OnlineChanges ==
    /\ \E p \in Rows(platforms), b \in BOOLEAN : platforms' = [platforms EXCEPT ![p] = b]
    /\ UNCHANGED <<agents, capabilities>>
RegisterAgent ==
    /\ \E a \in AgentIds, row \in AgentRow :
          /\ [visibility |-> row.visibility, kind |-> row.kind] \in Profiles
          /\ platforms[row.platform] # Null /\ AddAgent(a, row)
    /\ UNCHANGED <<platforms, capabilities>>
\* PATCH /v1/agents/:agent_id, or registering the agent again.
PatchAgent ==
    /\ \E a \in Rows(agents), v \in Visibilities :
          /\ [visibility |-> v, kind |-> agents[a].kind] \in Profiles
          /\ agents' = [agents EXCEPT ![a] = [@ EXCEPT !.visibility = v]]
    /\ UNCHANGED <<platforms, capabilities>>

\* Deletes cascade.
RemoveAgents(D) ==
    /\ agents' = [a \in AgentIds |-> IF a \in D THEN Null ELSE agents[a]]
    /\ capabilities' = [c \in CapabilityIds |->
                          IF c \in CapabilitiesOf(D) THEN Null ELSE capabilities[c]]
RemoveAgent == \E a \in Rows(agents) : RemoveAgents({a}) /\ UNCHANGED platforms
RemovePlatform ==
    \E p \in Rows(platforms) :
        /\ platforms' = [platforms EXCEPT ![p] = Null]
        /\ RemoveAgents({a \in Rows(agents) : agents[a].platform = p})

AddCapability ==
    /\ \E c \in CapabilityIds, a \in Rows(agents) :
          /\ capabilities[c] = Null
          /\ capabilities' = [capabilities EXCEPT ![c] = a]
    /\ UNCHANGED <<platforms, agents>>
RemoveCapability ==
    /\ \E c \in Rows(capabilities) : capabilities' = [capabilities EXCEPT ![c] = Null]
    /\ UNCHANGED <<platforms, agents>>

\* The tool register_identity and POST /v1/identities: a personal platform and its
\* agent in one transaction; only services are visible at first.
InsertIdentity(a, row) ==
    /\ row.visibility = IF row.kind = "service" THEN "public" ELSE "private"
    /\ AddPlatform(row.platform) /\ AddAgent(a, row)
    /\ UNCHANGED capabilities

-----------------------------------------------------------------------------
\* History of one commit.
Moves(q) == \E f \in {req[q].filter} : Matching(f)' # Matching(f)
Loses(q) == \E f \in {walk[q].filter} : ~(Matching(f) \subseteq Matching(f)')
MarkAfter(q) ==
    [due |-> mark[q].due \cap Due(req[q])',
     kept |-> mark[q].kept \cap Rows(capabilities)',
     moved |-> mark[q].moved \/ (req[q].at = "page" /\ Moves(q))]
Observe ==
    /\ mark' = [q \in Clients |->
          IF InFlight(q) THEN MarkAfter(q)
          ELSE [mark[q] EXCEPT !.kept = @ \cap Rows(capabilities)']]
    /\ walk' = [q \in Clients |->
          IF walk[q].on /\ Loses(q)
          THEN [walk[q] EXCEPT !.left = TRUE, !.unseen = {}] ELSE walk[q]]

Change ==
    /\ \/ RegisterPlatform \/ OnlineChanges \/ RegisterAgent \/ PatchAgent
       \/ RemoveAgent \/ RemovePlatform \/ AddCapability \/ RemoveCapability
    /\ UNCHANGED req
    /\ Observe

RegisterIdentity(q) ==
    /\ req[q].at = "insert"
    /\ \E a \in AgentIds, row \in AgentRow : InsertIdentity(a, row)
    /\ req' = [req EXCEPT ![q] = [@ EXCEPT !.at = "done", !.status = "ok"]]
    /\ Observe

Next ==
    \/ Change
    \/ \E q \in Clients :
          \/ CallSearch(q) \/ CallNextPage(q) \/ CallLookup(q) \/ CallTool(q)
          \/ CountAgents(q) \/ CountRefused(q) \/ PageAgents(q) \/ FindAgents(q)
          \/ LoadCapabilities(q) \/ CheckPrice(q) \/ RegisterIdentity(q)
          \/ StatementFails(q) \/ Receive(q)

Spec == Init /\ [][Next]_vars

-----------------------------------------------------------------------------
(***************************************************************************)
(* Properties.                                                             *)
(***************************************************************************)
TypeOK ==
    /\ platforms \in [PlatformIds -> BOOLEAN \cup {Null}]
    /\ agents \in [AgentIds -> AgentRow \cup {Null}]
    /\ capabilities \in [CapabilityIds -> AgentIds \cup {Null}]
    /\ req \in [Clients -> Request]
    /\ mark \in [Clients -> Mark]
    /\ walk \in [Clients -> Walk]

Answered(r, op, status) ==
    r.at = "done" /\ r.op \in op /\ r.status \in status
PageRead(r) ==
    \/ r.op = "search" /\ r.at = "capabilities"
    \/ Answered(r, {"search"}, {"ok"})

\* A client that walks through a search, going on from the number of agents it
\* got until a page is empty, has seen every agent that matched when it began,
\* whatever limits it asked for and whoever registered meanwhile, unless some
\* agent stopped matching on the way (DiscoverAgents: ORDER BY created_at DESC
\* with LIMIT and OFFSET, a statement of its own for each page).
WalkDone(r, w) ==
    Answered(r, {"search"}, {"ok"}) /\ r.page = {} /\ w.on /\ ~w.left
        => w.unseen = {}
WalkComplete == \A q \in Clients : WalkDone(req[q], walk[q])

\* total and page come from two statements: unless the result changed between
\* them, the page has as many agents as total leaves at its offset, up to the limit.
Rest(r) == r.total - AppliedOffset(r.offset)
TotalOK(r, m) ==
    PageRead(r) /\ ~m.moved =>
        /\ Rest(r) >= AppliedLimit(r.limit)
             => Cardinality(r.page) = AppliedLimit(r.limit)
        /\ Rest(r) \in 0 .. AppliedLimit(r.limit)
             => Cardinality(r.page) = Rest(r)
        /\ Rest(r) < 0 => r.page = {}
TotalAgrees == \A q \in Clients : TotalOK(req[q], mark[q])

\* A lookup misses no agent that its caller could see all the time; of the agents
\* that any answer shows, it shows every capability that stayed registered.
\* Agents and capabilities are read by different statements (scanDiscovered,
\* loadAgents), and rows come and go between them.
AnswerOK(r, m) ==
    /\ Answered(r, Lookups, {"ok"}) => m.due \subseteq r.page
    /\ Answered(r, Lookups, {"not_found"}) /\ ~r.error => m.due = {}
    /\ Answered(r, {"search"} \cup Lookups, {"ok"}) =>
          {c \in m.kept : capabilities[c] \in r.page} \subseteq r.shown
AnswersCurrent == \A q \in Clients : AnswerOK(req[q], mark[q])

\* A step of a handler puts no agent into an answer that the caller may not see:
\* unlisted agents and principals stay out of every search, private ones out of
\* anonymous lookups (the comment on GetDiscoverAgent).
ShowsVisible ==
    [][\A q \in Clients : req[q].op # "none" =>
          req'[q].page \subseteq req[q].page \cup Visible(req[q])]_vars

\* README.md and deploy/README.md list agents with a bare GET /v1/discover/agents:
\* a search is answered unless the database fails.  The code refuses the ones
\* that do not ask for agents online (ArgumentsUsed).
SearchAnswered ==
    \A q \in Clients :
        req[q].at = "done" /\ req[q].op = "search" /\ ~req[q].error => req[q].status = "ok"

-----------------------------------------------------------------------------
(***************************************************************************)
(* The inductive invariant.                                                *)
(***************************************************************************)
TimesDiffer ==
    \A a, b \in Rows(agents) : agents[a].created = agents[b].created => a = b

\* What a handler has read by the time it is at some place.
HandlerOK(r, m) ==
    /\ r.at \in {"count", "page"} => r.op = "search"
    /\ r.at \in {"price", "insert"} => r.op \notin Lookups \cup {"search"}
    /\ r.at = "find" => r.op \in Lookups /\ m.due \subseteq Visible(r)
    /\ r.at = "capabilities" =>
          /\ r.op \in Lookups \cup {"search"} /\ r.page # {}
          /\ r.op \in Lookups => m.due \subseteq r.page
    /\ r.at \notin {"capabilities", "done"} => r.page = {}
    /\ m.kept \subseteq Rows(capabilities)

CountOK(r, m) ==
    r.at = "page" /\ ~m.moved =>
        r.total = Cardinality(Matching(r.filter))

\* The next page begins no later than at the first agent that is still unseen; the
\* page that is on its way counts as seen.
Rank(f, a) == Cardinality(Newer(Matching(f), a))
WalkOK(r, w) ==
    /\ r.op = "search" =>
          /\ w.on /\ r.filter = w.filter
          /\ AppliedOffset(r.offset) = w.next
    /\ w.on /\ ~w.left =>
          /\ w.unseen \subseteq Matching(w.filter)
          /\ \A a \in w.unseen : Rank(w.filter, a) >= w.next
          /\ PageRead(r) => \A a \in w.unseen \ r.page :
                Rank(w.filter, a) >= w.next + Cardinality(r.page)

IInv ==
    /\ TypeOK
    /\ TimesDiffer
    /\ \A q \in Clients : /\ HandlerOK(req[q], mark[q]) /\ CountOK(req[q], mark[q])
                          /\ WalkOK(req[q], walk[q])
    /\ AnswersCurrent
    /\ TotalAgrees
    /\ WalkComplete
=============================================================================
