------------------------ MODULE AgentLifecycleProofs ------------------------
(***************************************************************************)
(* Proofs about AgentLifecycle for any number of keys, ids and requests.   *)
(*                                                                         *)
(* IInv is inductive.  The argument has three parts:                       *)
(*   - a step either leaves the tables alone (Quiet) or is one of four     *)
(*     commits, and each of these keeps TablesOK;                          *)
(*   - every step lets the tables only evolve: rows keep their key and     *)
(*     platform, a deleted row's ids are retired, retired ids stay gone;   *)
(*   - what a request in flight has read survives such an evolution, so    *)
(*     RequestOK of the requests that do not move is kept.                 *)
(***************************************************************************)
EXTENDS AgentLifecycle, TLAPS

Quiet == UNCHANGED tables

Commit(r) ==
    RegisterInsert(r) \/ HeartbeatAgent(r) \/ ClaimPlatform(r) \/ DeleteCascade(r)

\* How a step may change the rows a request in flight has read.
Evolves ==
    /\ retired \subseteq retired'
    /\ \A a \in AgentIds : Live(a) =>
         IF Live(a)'
           THEN agents'[a].platform = agents[a].platform /\ agents'[a].key = agents[a].key
           ELSE a \in retired' /\ agents[a].platform \in retired'
    /\ \A a \in AgentIds : Live(a)' => Live(a) \/ a \notin retired
    /\ \A p \in PlatformIds : platforms[p] # Null => platforms'[p] # Null \/ p \in retired'
    /\ \A p \in PlatformIds : platforms'[p] # Null => platforms[p] # Null \/ p \notin retired

\* Rows are not NULL, and have the columns the schema gives them.
LEMMA Rows ==
    ASSUME DBTypeOK
    PROVE  /\ \A a \in AgentIds : Live(a) => agents[a] \in AgentRow
           /\ \A p \in PlatformIds : platforms[p] # Null => platforms[p] \in PlatformRow
           /\ \A row \in AgentRow \cup PlatformRow : row # Null
  BY NullAssumption DEF DBTypeOK, Live

\* A statement touches rows only as part of one of the four commits.
LEMMA QuietOrCommit ==
    ASSUME Next
    PROVE  Quiet \/ \E r \in Requests : Commit(r)
  <1> USE DEF Quiet, tables
  <1>1. ASSUME NEW r \in Requests, Call(r) \/ Receive(r) PROVE Quiet
    BY <1>1 DEF Call, RegisterCall, HeartbeatCall, ClaimCall, DeleteCall, Arrive,
                Receive
  <1>2. ASSUME NEW r \in Requests, Step(r) PROVE Quiet \/ Commit(r)
    <2>1. CASE RegisterFind(r) \/ RegisterOwner(r) \/ RegisterDuplicate(r)
      BY <2>1 DEF RegisterFind, RegisterOwner, UpsertOwner, RegisterDuplicate, EndWith
    <2>2. CASE HeartbeatAuth(r) \/ HeartbeatFind(r) \/ HeartbeatPlatform(r)
      BY <2>2 DEF HeartbeatAuth, HeartbeatFind, HeartbeatPlatform
    <2>3. CASE ClaimFind(r) \/ ClaimOwner(r) \/ ClaimAgentRow(r)
      BY <2>3 DEF ClaimFind, ClaimOwner, UpsertOwner, ClaimAgentRow
    <2>4. CASE DeleteCheck(r) \/ DeletePlatform(r)
      BY <2>4 DEF DeleteCheck, DeletePlatform
    <2> QED BY <1>2, <2>1, <2>2, <2>3, <2>4 DEF Step, Commit
  <1>3. ASSUME NEW r \in Requests, DeadlockVictim(r) \/ StatementFails(r) PROVE Quiet
    BY <1>3 DEF DeadlockVictim, StatementFails, EndWith
  <1>4. ServerCrash => Quiet
    BY DEF ServerCrash
  <1> QED BY <1>1, <1>2, <1>3, <1>4 DEF Next

-----------------------------------------------------------------------------
(***************************************************************************)
(* The commits.                                                            *)
(***************************************************************************)
\* An agent and its platform name each other, so no two agents share one.
LEMMA OneTenant ==
    ASSUME TypeOK, TablesOK, NEW a \in AgentIds, Live(a)
    PROVE  /\ platforms[agents[a].platform] # Null
           /\ agents[a].platform \in PlatformIds \ retired
           /\ Tenants(agents[a].platform) = {a}
           /\ \A b \in AgentIds : Live(b) /\ agents[b].platform = agents[a].platform => b = a
  <1>1. /\ agents[a].platform \in PlatformIds
        /\ platforms[agents[a].platform] # Null
    BY Rows DEF TypeOK, TablesOK, OwnerAgreement, AgentRow
  <1>2. agents[a].platform \notin retired
    BY <1>1 DEF TablesOK, RetiredGone
  <1>3. PICK c \in AgentIds : Tenants(agents[a].platform) = {c}
    BY <1>1 DEF TablesOK, PlatformPerAgent
  <1>4. a \in Tenants(agents[a].platform)
    BY DEF Tenants
  <1> QED BY <1>1, <1>2, <1>3, <1>4 DEF Tenants

LEMMA InsertKeepsTables ==
    ASSUME TypeOK, TablesOK, NEW r \in Requests, RequestOK(r), RegisterInsert(r)
    PROVE  DBTypeOK' /\ TablesOK' /\ Evolves
  <1> DEFINE k == req[r].key
  <1>1. k \in Keys /\ ~KeyTaken(k)
    BY DEF RegisterInsert, RequestOK, Called, At, InFlight
  <1>2. PICK a \in FreshAgents, p \in FreshPlatforms :
           /\ platforms' = [platforms EXCEPT ![p] = [owner |-> k, beat |-> Null]]
           /\ agents' = [agents EXCEPT ![a] = NewAgent(k, p)]
           /\ owners' = owners \cup {k}
           /\ retired' = retired
           /\ Release(r)
    BY DEF RegisterInsert
  <1>3. /\ a \in AgentIds /\ a \notin retired /\ ~Live(a)
        /\ p \in PlatformIds /\ p \notin retired /\ platforms[p] = Null
    BY DEF FreshAgents, FreshPlatforms, Live
  <1>4. /\ NewAgent(k, p) \in AgentRow
        /\ [owner |-> k, beat |-> Null] \in PlatformRow
    BY <1>1, <1>3 DEF NewAgent, AgentRow, PlatformRow
  <1>5. DBTypeOK'
    BY <1>1, <1>2, <1>3, <1>4 DEF TypeOK, DBTypeOK, Release
  <1>6. /\ Live(a)' /\ platforms'[p] # Null
        /\ agents'[a] = NewAgent(k, p)
        /\ platforms'[p] = [owner |-> k, beat |-> Null]
        /\ \A b \in AgentIds \ {a} : agents'[b] = agents[b]
        /\ \A q \in PlatformIds \ {p} : platforms'[q] = platforms[q]
    BY <1>2, <1>3, <1>4, NullAssumption DEF TypeOK, DBTypeOK, Live
  <1>7. \A b \in AgentIds : Live(b) => b # a /\ agents[b].platform # p
    BY <1>3, OneTenant
  <1>8. OwnerAgreement'
    BY <1>2, <1>3, <1>6, <1>7, OneTenant DEF TablesOK, OwnerAgreement, NewAgent, Live
  <1>9. OneAgentPerKey'
    BY <1>1, <1>3, <1>6 DEF TablesOK, OneAgentPerKey, KeyTaken, AgentsWith, NewAgent,
                          Live
  <1>10. PlatformPerAgent'
    <2> SUFFICES ASSUME NEW q \in PlatformIds, platforms'[q] # Null
                 PROVE  \E b \in AgentIds : Tenants(q)' = {b}
      BY DEF PlatformPerAgent
    <2>1. CASE q = p
      <3>1. Tenants(p)' = {a}
        BY <1>3, <1>6, <1>7 DEF Tenants, Live, NewAgent
      <3> QED BY <3>1, <2>1, <1>3
    <2>2. CASE q # p
      <3>1. Tenants(q)' = Tenants(q)
        BY <2>2, <1>3, <1>6 DEF Tenants, Live, NewAgent
      <3> QED BY <3>1, <2>2, <1>6 DEF TablesOK, PlatformPerAgent
    <2> QED BY <2>1, <2>2
  <1>11. HeartbeatWhole'
    BY <1>3, <1>6, <1>7, OneTenant DEF TablesOK, HeartbeatWhole, NewAgent, Live
  <1>12. UnclaimedIsSelfOwned'
    BY <1>3, <1>6 DEF TablesOK, UnclaimedIsSelfOwned, NewAgent, Live
  <1>13. RetiredGone'
    BY <1>2, <1>3, <1>6 DEF TablesOK, RetiredGone, Live
  <1>14. Evolves
    BY <1>2, <1>3, <1>6 DEF Evolves, Live
  <1> QED
    BY <1>5, <1>8, <1>9, <1>10, <1>11, <1>12, <1>13, <1>14 DEF TablesOK

\* The two UPDATEs of a heartbeat or a claim change the agent and its own
\* platform, or, when the agent was deleted meanwhile, nothing at all.
LEMMA PairedUpdate ==
    ASSUME TypeOK, TablesOK, NEW r \in Requests, RequestOK(r),
           At(r, "heartbeat", "agent") \/ At(r, "claim", "platform"),
           NEW rowA, NEW rowP,
           agents' = Update(agents, req[r].agent, rowA),
           platforms' = Update(platforms, req[r].platform, rowP)
    PROVE  /\ req[r].agent \in AgentIds
           /\ ~Live(req[r].agent) =>
                agents' = agents /\ platforms' = platforms
           /\ Live(req[r].agent) =>
                /\ req[r].platform = agents[req[r].agent].platform
                /\ agents' = [agents EXCEPT ![req[r].agent] = rowA]
                /\ platforms' = [platforms EXCEPT ![req[r].platform] = rowP]
  <1> DEFINE a == req[r].agent
             p == req[r].platform
  <1>1. a \in AgentIds /\ Drawn(a)
    BY DEF RequestOK, Called, At, InFlight
  <1>2. /\ p \in PlatformIds
        /\ Live(a) => agents[a].platform = p
        /\ ~Live(a) => p \in retired
    BY DEF RequestOK, OnTarget, At
  <1>3. ASSUME ~Live(a) PROVE agents' = agents /\ platforms' = platforms
    <2>1. agents[a] = Null /\ platforms[p] = Null
      BY <1>2, <1>3 DEF Live, TablesOK, RetiredGone
    <2> QED BY <2>1, <1>1, <1>2 DEF Update, TypeOK, DBTypeOK
  <1>4. ASSUME Live(a)
        PROVE  /\ agents' = [agents EXCEPT ![a] = rowA]
               /\ platforms' = [platforms EXCEPT ![p] = rowP]
    <2>1. agents[a] # Null /\ platforms[p] # Null
      BY <1>1, <1>2, <1>4, OneTenant DEF Live
    <2> QED BY <2>1, <1>1, <1>2 DEF Update, TypeOK, DBTypeOK
  <1> QED BY <1>1, <1>2, <1>3, <1>4

\* What a paired update must write for TablesOK to survive it.
LEMMA RewriteKeepsTables ==
    ASSUME TypeOK, TablesOK, NEW a \in AgentIds, Live(a),
           NEW rowA \in AgentRow, NEW rowP \in PlatformRow,
           rowA.key = agents[a].key, rowA.platform = agents[a].platform,
           rowA.owner = rowP.owner, rowA.beat = rowP.beat,
           ~rowA.claimed => rowA.owner = rowA.key,
           agents' = [agents EXCEPT ![a] = rowA],
           platforms' = [platforms EXCEPT ![agents[a].platform] = rowP],
           owners \subseteq owners', rowA.owner \in owners', retired' = retired
    PROVE  TablesOK' /\ Evolves
  <1> DEFINE p == agents[a].platform
  <1>1. /\ p \in PlatformIds /\ p \notin retired /\ a \notin retired
        /\ platforms[p] # Null
        /\ \A b \in AgentIds \ {a} : Live(b) => agents[b].platform # p
    BY OneTenant DEF TablesOK, RetiredGone
  <1>2. /\ Live(a)' /\ platforms'[p] # Null
        /\ agents'[a] = rowA /\ platforms'[p] = rowP
        /\ \A b \in AgentIds \ {a} : agents'[b] = agents[b]
        /\ \A q \in PlatformIds \ {p} : platforms'[q] = platforms[q]
    BY <1>1, NullAssumption DEF TypeOK, DBTypeOK, Live
  <1>3. OwnerAgreement'
    BY <1>1, <1>2, OneTenant DEF TablesOK, OwnerAgreement, Live
  <1>4. OneAgentPerKey'
    BY <1>2 DEF TablesOK, OneAgentPerKey, Live
  <1>5. PlatformPerAgent'
    <2> SUFFICES ASSUME NEW q \in PlatformIds, platforms'[q] # Null
                 PROVE  \E b \in AgentIds : Tenants(q)' = {b}
      BY DEF PlatformPerAgent
    <2>1. Tenants(q)' = Tenants(q)
      BY <1>2 DEF Tenants, Live
    <2>2. platforms[q] # Null
      BY <1>1, <1>2
    <2> QED BY <2>1, <2>2 DEF TablesOK, PlatformPerAgent
  <1>6. HeartbeatWhole'
    BY <1>1, <1>2, OneTenant DEF TablesOK, HeartbeatWhole, Live
  <1>7. UnclaimedIsSelfOwned'
    BY <1>2 DEF TablesOK, UnclaimedIsSelfOwned, Live
  <1>8. RetiredGone'
    BY <1>1, <1>2 DEF TablesOK, RetiredGone, Live
  <1>9. Evolves
    BY <1>1, <1>2 DEF Evolves, Live
  <1> QED BY <1>3, <1>4, <1>5, <1>6, <1>7, <1>8, <1>9 DEF TablesOK

\* When only owners grows, the tables stay right.
LEMMA SameRowsKeepTables ==
    ASSUME TypeOK, TablesOK, owners \subseteq owners',
           agents' = agents, platforms' = platforms, retired' = retired
    PROVE  TablesOK' /\ Evolves
  <1>1. /\ \A a \in AgentIds : Live(a)' <=> Live(a)
        /\ \A p \in PlatformIds : Tenants(p)' = Tenants(p)
    BY DEF Live, Tenants
  <1>2. TablesOK'
    BY <1>1 DEF TablesOK, OwnerAgreement, OneAgentPerKey, PlatformPerAgent,
                HeartbeatWhole, UnclaimedIsSelfOwned, RetiredGone
  <1>3. Evolves
    BY <1>1 DEF Evolves
  <1> QED BY <1>2, <1>3

LEMMA HeartbeatKeepsTables ==
    ASSUME TypeOK, TablesOK, NEW r \in Requests, RequestOK(r), HeartbeatAgent(r)
    PROVE  DBTypeOK' /\ TablesOK' /\ Evolves
  <1> DEFINE a == req[r].agent
             p == req[r].platform
             b == req[r].beat
             rowA == BeatenAgent(agents[a], b)
             rowP == BeatenPlatform(platforms[p], b)
  <1>1. /\ At(r, "heartbeat", "agent")
        /\ platforms' = Update(platforms, p, rowP)
        /\ agents' = Update(agents, a, rowA)
        /\ owners' = owners /\ retired' = retired /\ Release(r)
    BY DEF HeartbeatAgent, Committed
  <1>2. b \in Beats
    BY <1>1 DEF RequestOK, Called, At, InFlight
  <1>3. CASE ~Live(a)
    <2>1. agents' = agents /\ platforms' = platforms
      BY <1>1, <1>3, PairedUpdate
    <2> QED BY <2>1, <1>1, SameRowsKeepTables DEF TypeOK, DBTypeOK, Release
  <1>4. CASE Live(a)
    <2>1. /\ a \in AgentIds /\ p = agents[a].platform
          /\ agents' = [agents EXCEPT ![a] = rowA]
          /\ platforms' = [platforms EXCEPT ![p] = rowP]
      BY <1>1, <1>4, PairedUpdate
    <2>2. /\ agents[a] \in AgentRow /\ platforms[p] \in PlatformRow
          /\ p \in PlatformIds
          /\ agents[a].owner = platforms[p].owner
          /\ agents[a].owner \in owners
          /\ ~agents[a].claimed => agents[a].owner = agents[a].key
      BY <2>1, <1>4, Rows, OneTenant
         DEF TypeOK, TablesOK, OwnerAgreement, UnclaimedIsSelfOwned
    <2>3. /\ rowA \in AgentRow /\ rowP \in PlatformRow
          /\ rowA.key = agents[a].key /\ rowA.platform = p
          /\ rowA.owner = agents[a].owner /\ rowP.owner = platforms[p].owner
          /\ rowA.claimed = agents[a].claimed
          /\ rowA.beat = b /\ rowP.beat = b
      BY <1>2, <2>1, <2>2 DEF BeatenAgent, BeatenPlatform, AgentRow, PlatformRow
    <2>4. TablesOK' /\ Evolves
      <3>1. /\ rowA.key = agents[a].key /\ rowA.platform = agents[a].platform
            /\ rowA.owner = rowP.owner /\ rowA.beat = rowP.beat
            /\ platforms' = [platforms EXCEPT ![agents[a].platform] = rowP]
            /\ owners \subseteq owners' /\ rowA.owner \in owners'
            /\ retired' = retired
        BY <1>1, <2>1, <2>2, <2>3
      <3>2. ~rowA.claimed => rowA.owner = rowA.key
        BY <2>1, <2>2, <2>3
      <3> HIDE DEF a, p, rowA, rowP
      <3> QED BY <1>4, <2>1, <2>3, <3>1, <3>2, RewriteKeepsTables
    <2>5. DBTypeOK'
      BY <1>1, <2>1, <2>2, <2>3 DEF TypeOK, DBTypeOK, Release
    <2> QED BY <2>4, <2>5
  <1> QED BY <1>3, <1>4

LEMMA ClaimKeepsTables ==
    ASSUME TypeOK, TablesOK, NEW r \in Requests, RequestOK(r), ClaimPlatform(r)
    PROVE  DBTypeOK' /\ TablesOK' /\ Evolves
  <1> DEFINE a == req[r].agent
             p == req[r].platform
             k == req[r].key
             rowA == ClaimedAgent(agents[a], k)
             rowP == ClaimedPlatform(platforms[p], k)
  <1>1. /\ At(r, "claim", "platform")
        /\ platforms' = Update(platforms, p, rowP)
        /\ agents' = Update(agents, a, rowA)
        /\ owners' = owners \cup {k} /\ retired' = retired /\ Release(r)
    BY DEF ClaimPlatform, Committed
  <1>2. k \in Keys
    BY <1>1 DEF RequestOK, Called, At, InFlight
  <1>3. CASE ~Live(a)
    <2>1. agents' = agents /\ platforms' = platforms
      BY <1>1, <1>3, PairedUpdate
    <2> QED BY <2>1, <1>1, <1>2, SameRowsKeepTables DEF TypeOK, DBTypeOK, Release
  <1>4. CASE Live(a)
    <2>1. /\ a \in AgentIds /\ p = agents[a].platform
          /\ agents' = [agents EXCEPT ![a] = rowA]
          /\ platforms' = [platforms EXCEPT ![p] = rowP]
      BY <1>1, <1>4, PairedUpdate
    <2>2. /\ agents[a] \in AgentRow /\ platforms[p] \in PlatformRow
          /\ p \in PlatformIds
          /\ agents[a].beat = platforms[p].beat
      BY <2>1, <1>4, Rows, OneTenant DEF TypeOK, TablesOK, HeartbeatWhole
    <2>3. /\ rowA \in AgentRow /\ rowP \in PlatformRow
          /\ rowA.key = agents[a].key /\ rowA.platform = p
          /\ rowA.owner = k /\ rowP.owner = k /\ rowA.claimed
          /\ rowA.beat = agents[a].beat /\ rowP.beat = platforms[p].beat
      BY <1>2, <2>1, <2>2 DEF ClaimedAgent, ClaimedPlatform, AgentRow, PlatformRow
    <2>4. TablesOK' /\ Evolves
      <3>1. /\ rowA.key = agents[a].key /\ rowA.platform = agents[a].platform
            /\ rowA.owner = rowP.owner /\ rowA.beat = rowP.beat
            /\ platforms' = [platforms EXCEPT ![agents[a].platform] = rowP]
            /\ owners \subseteq owners' /\ rowA.owner \in owners'
            /\ retired' = retired
        BY <1>1, <2>1, <2>2, <2>3
      <3>2. ~rowA.claimed => rowA.owner = rowA.key
        BY <2>1, <2>2, <2>3
      <3> HIDE DEF a, p, rowA, rowP
      <3> QED BY <1>4, <2>1, <2>3, <3>1, <3>2, RewriteKeepsTables
    <2>5. DBTypeOK'
      BY <1>1, <1>2, <2>1, <2>2, <2>3 DEF TypeOK, DBTypeOK, Release
    <2> QED BY <2>4, <2>5
  <1> QED BY <1>3, <1>4

LEMMA DeleteKeepsTables ==
    ASSUME TypeOK, TablesOK, NEW r \in Requests, RequestOK(r), DeleteCascade(r)
    PROVE  DBTypeOK' /\ TablesOK' /\ Evolves
  <1> DEFINE p == req[r].platform
  <1>1. /\ platforms' = [platforms EXCEPT ![p] = Null]
        /\ agents' = [a \in AgentIds |-> IF a \in Tenants(p) THEN Null ELSE agents[a]]
        /\ retired' = retired \cup {p} \cup Tenants(p)
        /\ owners' = owners /\ Release(r)
    BY DEF DeleteCascade, Committed
  <1>2. p \in PlatformIds
    BY DEF DeleteCascade, RequestOK, Called, At, InFlight
  <1>3. /\ platforms'[p] = Null
        /\ \A q \in PlatformIds \ {p} : platforms'[q] = platforms[q]
        /\ \A a \in Tenants(p) : ~Live(a)' /\ agents[a].platform = p
        /\ \A a \in AgentIds \ Tenants(p) : agents'[a] = agents[a]
        /\ \A a \in AgentIds : Live(a)' => Live(a) /\ agents[a].platform # p
    BY <1>1, <1>2 DEF TypeOK, DBTypeOK, Live, Tenants
  <1>4. DBTypeOK'
    BY <1>1, <1>2 DEF TypeOK, DBTypeOK, Release, Tenants
  <1>5. OwnerAgreement'
    BY <1>1, <1>3, OneTenant DEF TablesOK, OwnerAgreement, Live, Tenants
  <1>6. OneAgentPerKey'
    BY <1>3 DEF TablesOK, OneAgentPerKey, Live, Tenants
  <1>7. PlatformPerAgent'
    <2> SUFFICES ASSUME NEW q \in PlatformIds, platforms'[q] # Null
                 PROVE  \E b \in AgentIds : Tenants(q)' = {b}
      BY DEF PlatformPerAgent
    <2>1. q # p /\ platforms[q] # Null
      BY <1>3
    <2>2. Tenants(q)' = Tenants(q)
      BY <1>3, <2>1 DEF Tenants, Live
    <2> QED BY <2>1, <2>2 DEF TablesOK, PlatformPerAgent
  <1>8. HeartbeatWhole'
    BY <1>3, OneTenant DEF TablesOK, HeartbeatWhole, Live, Tenants
  <1>9. UnclaimedIsSelfOwned'
    BY <1>3 DEF TablesOK, UnclaimedIsSelfOwned, Live, Tenants
  <1>10. RetiredGone'
    BY <1>1, <1>2, <1>3, IdsAssumption DEF TablesOK, RetiredGone, Live, Tenants
  <1>11. Evolves
    BY <1>1, <1>2, <1>3 DEF Evolves, Live, Tenants
  <1> QED
    BY <1>4, <1>5, <1>6, <1>7, <1>8, <1>9, <1>10, <1>11 DEF TablesOK

-----------------------------------------------------------------------------
(***************************************************************************)
(* The requests.                                                           *)
(***************************************************************************)
\* r moves by one statement: the other requests and their locks do not.
Moves(r) ==
    /\ req' \in [Requests -> Request]
    /\ held' \in [Requests -> SUBSET Locks]
    /\ held'[r] = {} \/ \E L : Free(r, L) /\ held'[r] = held[r] \cup L
    /\ \A q \in Requests \ {r} : req'[q] = req[q] /\ held'[q] = held[q]
    /\ RequestOK(r)'

\* A request at rest is only asked to have answered with its own agent.
LEMMA AtRest ==
    ASSUME NEW r \in Requests, req'[r].at \in {"idle", "done"}, Answered(r)'
    PROVE  RequestOK(r)'
  BY DEF RequestOK, Called, OnTarget, KeepsLock, InFlight, At

\* What a request has read or locked survives the steps of the others.
LEMMA Frame ==
    ASSUME TypeOK, TablesOK, Evolves, NEW r \in Requests, RequestOK(r),
           req'[r] = req[r], held'[r] = held[r]
    PROVE  RequestOK(r)'
  <1>1. /\ \A a \in AgentIds : Drawn(a) => Drawn(a)'
        /\ \A a \in AgentIds : Live(a)' /\ Drawn(a) => Live(a)
        /\ \A p \in PlatformIds : platforms[p] # Null \/ p \in retired
              => (platforms[p] # Null \/ p \in retired)'
    BY DEF Evolves, Drawn, TablesOK, RetiredGone
  <1>2. Called(r)'
    BY <1>1 DEF RequestOK, Called, InFlight
  <1>3. OnTarget(r)'
    <2> SUFFICES ASSUME req[r].op \in {"heartbeat", "claim"},
                        req[r].at \in {"owner", "platform", "agent"}
                 PROVE  /\ req[r].platform \in PlatformIds
                        /\ IF Live(req[r].agent)'
                             THEN agents'[req[r].agent].platform = req[r].platform
                             ELSE req[r].platform \in retired'
      BY DEF OnTarget
    <2>1. /\ req[r].agent \in AgentIds /\ Drawn(req[r].agent)
          /\ req[r].platform \in PlatformIds
          /\ Live(req[r].agent) => agents[req[r].agent].platform = req[r].platform
          /\ ~Live(req[r].agent) => req[r].platform \in retired
      BY DEF RequestOK, Called, OnTarget, InFlight
    <2>2. CASE Live(req[r].agent)
      BY <2>1, <2>2 DEF Evolves
    <2>3. CASE ~Live(req[r].agent)
      BY <1>1, <2>1, <2>3 DEF Evolves
    <2> QED BY <2>2, <2>3
  <1>4. KeepsLock(r)'
    <2>1. ASSUME At(r, "heartbeat", "agent") \/ At(r, "delete", "cascade")
          PROVE  PlatformLock(req[r].platform)' \subseteq held[r]
      <3>1. /\ req[r].platform \in PlatformIds
            /\ platforms[req[r].platform] # Null \/ req[r].platform \in retired
        BY <2>1, OneTenant DEF RequestOK, Called, OnTarget, At, InFlight
      <3>2. PlatformLock(req[r].platform) \subseteq held[r]
        BY <2>1 DEF RequestOK, KeepsLock
      <3> QED BY <3>1, <3>2 DEF PlatformLock, Evolves
    <2>2. ASSUME At(r, "claim", "platform")
          PROVE  AgentLock(req[r].agent)' \subseteq held[r]
      <3>1. req[r].agent \in AgentIds /\ Drawn(req[r].agent)
        BY <2>2 DEF RequestOK, Called, At, InFlight
      <3>2. AgentLock(req[r].agent) \subseteq held[r]
        BY <2>2 DEF RequestOK, KeepsLock
      <3> QED BY <1>1, <3>1, <3>2 DEF AgentLock
    <2> QED BY <2>1, <2>2 DEF KeepsLock, At
  <1>5. Answered(r)'
    BY DEF RequestOK, Answered, Evolves
  <1> QED BY <1>2, <1>3, <1>4, <1>5 DEF RequestOK

\* A request that arrives leaves everything else alone.
LEMMA ArriveMoves ==
    ASSUME IInv, NEW r \in Requests, NEW x \in Request, Arrive(r, x),
           x.status = Null, x.at \notin {"owner", "platform", "agent", "cascade"},
           InFlight(r)' => Called(r)'
    PROVE  Moves(r)
  <1>1. /\ req' = [req EXCEPT ![r] = x] /\ req'[r] = x
        /\ held' = held /\ UNCHANGED tables
    BY DEF Arrive, IInv, TypeOK
  <1>2. x.status \notin {"created", "existing"}
    BY StatusAssumption DEF Statuses
  <1>3. RequestOK(r)'
    BY <1>1, <1>2 DEF RequestOK, Called, OnTarget, KeepsLock, Answered, At, InFlight
  <1>4. \E L : Free(r, L) /\ held'[r] = held[r] \cup L
    <2>1. Free(r, {}) /\ held'[r] = held[r] \cup {}
      BY <1>1 DEF Free
    <2> QED BY <2>1
  <1> QED BY <1>1, <1>3, <1>4 DEF Moves, IInv, TypeOK, DBTypeOK

LEMMA CallMoves ==
    ASSUME IInv, NEW r \in Requests, Call(r)
    PROVE  Moves(r)
  <1>1. ASSUME NEW k \in Keys, RegisterCall(r, k) PROVE Moves(r)
    <2> DEFINE x == [NoRequest EXCEPT !.op = "register", !.at = "find",
                                      !.key = k]
    <2>1. /\ x \in Request /\ x.op = "register" /\ x.at = "find"
          /\ x.key = k /\ x.status = Null
      BY DEF NoRequest, Request, Ops, Places
    <2> HIDE DEF x
    <2>2. Arrive(r, x)
      BY <1>1 DEF x, RegisterCall
    <2>3. req'[r] = x /\ UNCHANGED tables
      BY <2>2 DEF Arrive, IInv, TypeOK
    <2>4. InFlight(r)' => Called(r)'
      BY <2>1, <2>2, <2>3 DEF Called, tables, Drawn, Live
    <2> QED BY <2>1, <2>2, <2>4, ArriveMoves
  <1>2. ASSUME NEW a \in AgentIds, NEW b \in Beats, HeartbeatCall(r, a, b) PROVE Moves(r)
    <2> DEFINE x == [NoRequest EXCEPT !.op = "heartbeat", !.at = "auth",
                                      !.agent = a, !.beat = b]
    <2>1. /\ x \in Request /\ x.op = "heartbeat" /\ x.at = "auth"
          /\ x.agent = a /\ x.beat = b /\ x.status = Null
      BY DEF NoRequest, Request, Ops, Places
    <2> HIDE DEF x
    <2>2. Arrive(r, x) /\ Drawn(a)
      BY <1>2 DEF x, HeartbeatCall
    <2>3. req'[r] = x /\ UNCHANGED tables
      BY <2>2 DEF Arrive, IInv, TypeOK
    <2>4. InFlight(r)' => Called(r)'
      BY <2>1, <2>2, <2>3 DEF Called, tables, Drawn, Live
    <2> QED BY <2>1, <2>2, <2>4, ArriveMoves
  <1>3. ASSUME NEW a \in AgentIds, NEW k \in Keys, ClaimCall(r, a, k) PROVE Moves(r)
    <2> DEFINE x == [NoRequest EXCEPT !.op = "claim", !.at = "find",
                                      !.agent = a, !.key = k]
    <2>1. /\ x \in Request /\ x.op = "claim" /\ x.at = "find"
          /\ x.agent = a /\ x.key = k /\ x.status = Null
      BY DEF NoRequest, Request, Ops, Places
    <2> HIDE DEF x
    <2>2. Arrive(r, x) /\ Drawn(a)
      BY <1>3 DEF x, ClaimCall
    <2>3. req'[r] = x /\ UNCHANGED tables
      BY <2>2 DEF Arrive, IInv, TypeOK
    <2>4. InFlight(r)' => Called(r)'
      BY <2>1, <2>2, <2>3 DEF Called, tables, Drawn, Live
    <2> QED BY <2>1, <2>2, <2>4, ArriveMoves
  <1>4. ASSUME NEW p \in PlatformIds, NEW k \in Keys, DeleteCall(r, p, k) PROVE Moves(r)
    <2> DEFINE x == [NoRequest EXCEPT !.op = "delete", !.at = "check",
                                      !.platform = p, !.key = k]
    <2>1. /\ x \in Request /\ x.op = "delete" /\ x.at = "check"
          /\ x.platform = p /\ x.key = k /\ x.status = Null
      BY DEF NoRequest, Request, Ops, Places
    <2> HIDE DEF x
    <2>2. Arrive(r, x) /\ (p \in retired \/ platforms[p] # Null)
      BY <1>4 DEF x, DeleteCall
    <2>3. req'[r] = x /\ UNCHANGED tables
      BY <2>2 DEF Arrive, IInv, TypeOK
    <2>4. InFlight(r)' => Called(r)'
      BY <2>1, <2>2, <2>3 DEF Called, tables, Drawn, Live
    <2> QED BY <2>1, <2>2, <2>4, ArriveMoves
  <1> QED BY <1>1, <1>2, <1>3, <1>4 DEF Call

\* A statement keeps, takes or releases locks and rewrites r's own request.
LEMMA StatementMoves ==
    ASSUME IInv, NEW r \in Requests, req' = [req EXCEPT ![r] = req'[r]],
           req'[r] \in Request,
           held' = held \/ Release(r) \/ \E L \in SUBSET Locks : Take(r, L),
           RequestOK(r)'
    PROVE  Moves(r)
  <1> USE DEF IInv, TypeOK, DBTypeOK
  <1>1. req' \in [Requests -> Request] /\ \A q \in Requests \ {r} : req'[q] = req[q]
    OBVIOUS
  <1>2. CASE held' = held
    <2>1. Free(r, {}) /\ held'[r] = held[r] \cup {}
      BY <1>2 DEF Free
    <2> QED BY <1>1, <1>2, <2>1 DEF Moves
  <1>3. CASE Release(r)
    BY <1>1, <1>3 DEF Moves, Release
  <1>4. ASSUME NEW L \in SUBSET Locks, Take(r, L) PROVE Moves(r)
    <2>1. /\ Free(r, L) /\ held' = [held EXCEPT ![r] = held[r] \cup L]
      BY <1>4 DEF Take
    <2>2. held' \in [Requests -> SUBSET Locks] /\ held'[r] = held[r] \cup L
      BY <2>1
    <2> QED BY <1>1, <2>1, <2>2 DEF Moves
  <1> QED BY <1>2, <1>3, <1>4

\* A request that ends keeps its other fields.
LEMMA Ended ==
    ASSUME NEW x \in Request, NEW s \in Statuses, NEW y,
           y = [x EXCEPT !.at = "done", !.status = s]
    PROVE  y \in Request /\ y.at = "done" /\ y.status = s
  BY DEF Request, Places

\* The locks a statement asks for are locks.
LEMMA LocksAreLocks ==
    /\ \A k \in Keys : {OwnerLock(k)} \in SUBSET Locks
    /\ \A p \in PlatformIds : PlatformLock(p) \in SUBSET Locks
    /\ \A a \in AgentIds : AgentLock(a) \in SUBSET Locks
  BY DEF OwnerLock, PlatformLock, AgentLock, Locks

\* A request that ends without naming an agent.
LEMMA EndMoves ==
    ASSUME IInv, NEW r \in Requests, NEW s \in Statuses, Answer(r, s),
           held' = held \/ Release(r), s \notin {"created", "existing"}
    PROVE  Moves(r)
  <1>1. /\ req' = [req EXCEPT ![r] = req'[r]]
        /\ req'[r] = [req[r] EXCEPT !.at = "done", !.status = s]
    BY DEF Answer, IInv, TypeOK
  <1>2. req'[r] \in Request /\ req'[r].at = "done" /\ req'[r].status = s
    <2>1. req[r] \in Request
      BY DEF IInv, TypeOK
    <2> QED BY <1>1, <2>1, Ended
  <1>3. RequestOK(r)'
    BY <1>2, AtRest DEF Answered
  <1> QED BY <1>1, <1>2, <1>3, StatementMoves

\* The owner upsert of a registration or a claim.
LEMMA OwnerMoves ==
    ASSUME IInv, NEW r \in Requests, RegisterOwner(r) \/ ClaimOwner(r)
    PROVE  Moves(r)
  <1> USE DEF IInv, TypeOK
  <1>1. PICK next \in {"insert", "agent"} :
           /\ req' = [req EXCEPT ![r].at = next]
           /\ req[r].op = (IF next = "insert" THEN "register" ELSE "claim")
           /\ req[r].at = "owner"
           /\ Take(r, {OwnerLock(req[r].key)})
           /\ UNCHANGED tables
    BY DEF RegisterOwner, ClaimOwner, UpsertOwner, Goto
  <1>2. /\ req'[r] = [req[r] EXCEPT !.at = next]
        /\ req' = [req EXCEPT ![r] = req'[r]]
    BY <1>1
  <1>3. req'[r] \in Request
    BY <1>2 DEF Request, Places
  <1>4. req[r].key \in Keys
    BY <1>1 DEF RequestOK, Called, InFlight
  <1>5. RequestOK(r)'
    BY <1>1, <1>2 DEF RequestOK, Called, OnTarget, KeepsLock, Answered, InFlight,
                      At, tables, Live, Drawn
  <1>6. \E L \in SUBSET Locks : Take(r, L)
    BY <1>1, <1>4, LocksAreLocks
  <1> QED BY <1>2, <1>3, <1>5, <1>6, StatementMoves

LEMMA RegisterMoves ==
    ASSUME IInv, NEW r \in Requests,
           RegisterFind(r) \/ RegisterInsert(r) \/ RegisterDuplicate(r)
    PROVE  Moves(r)
  <1> USE DEF IInv, TypeOK
  <1>1. CASE RegisterFind(r) /\ AgentsWith(req[r].key) # {}
    <2>1. PICK a \in AgentIds :
             /\ Live(a) /\ agents[a].key = req[r].key
             /\ req' = [req EXCEPT ![r].at = "done", ![r].status = "existing",
                                   ![r].agent = a, ![r].owner = agents[a].owner]
             /\ held' = held /\ UNCHANGED tables
      BY <1>1 DEF RegisterFind, AgentsWith
    <2>2. agents[a].owner \in Keys
      BY <2>1, Rows DEF AgentRow
    <2>3. /\ req' = [req EXCEPT ![r] = req'[r]]
          /\ req'[r] = [req[r] EXCEPT !.at = "done", !.status = "existing",
                                      !.agent = a, !.owner = agents[a].owner]
      BY <2>1
    <2>4. /\ req'[r] \in Request /\ req'[r].at = "done" /\ req'[r].agent = a
          /\ req'[r].key = req[r].key
      <3> DEFINE x == req[r]
                 y == req'[r]
                 k == agents[a].owner
      <3>1. x \in Request /\ "existing" \in Statuses /\ k \in Keys
        BY <2>2 DEF Statuses
      <3>2. y = [x EXCEPT !.at = "done", !.status = "existing", !.agent = a, !.owner = k]
        BY <2>3
      <3> HIDE DEF x, y, k
      <3>3. y \in Request /\ y.at = "done" /\ y.agent = a /\ y.key = x.key
        BY <3>1, <3>2 DEF Request, Places
      <3> QED BY <3>3 DEF x, y
    <2>5. RequestOK(r)'
      BY <2>1, <2>4, AtRest DEF Answered, tables, Live
    <2> QED BY <2>1, <2>3, <2>4, <2>5, StatementMoves
  <1>2. CASE RegisterFind(r) /\ AgentsWith(req[r].key) = {}
    <2>1. /\ At(r, "register", "find")
          /\ req' = [req EXCEPT ![r].at = "owner"]
          /\ held' = held /\ UNCHANGED tables
      BY <1>2 DEF RegisterFind, Goto
    <2>2. /\ req'[r] = [req[r] EXCEPT !.at = "owner"]
          /\ req' = [req EXCEPT ![r] = req'[r]]
      BY <2>1
    <2>3. req'[r] \in Request
      BY <2>2 DEF Request, Places
    <2>4. RequestOK(r)'
      BY <2>1, <2>2 DEF RequestOK, Called, OnTarget, KeepsLock, Answered, InFlight,
                        At, tables, Live
    <2> QED BY <2>1, <2>2, <2>3, <2>4, StatementMoves
  <1>3. CASE RegisterInsert(r)
    <2> DEFINE k == req[r].key
    <2>1. PICK a \in FreshAgents, p \in FreshPlatforms, s \in {"created", "failed"} :
             /\ agents' = [agents EXCEPT ![a] = NewAgent(k, p)]
             /\ req' = [req EXCEPT ![r].at = "done", ![r].status = s,
                                   ![r].agent = a, ![r].owner = k]
             /\ Release(r)
      BY <1>3 DEF RegisterInsert
    <2>2. k \in Keys /\ a \in AgentIds /\ p \in PlatformIds
      BY <1>3, <2>1 DEF RegisterInsert, RequestOK, Called, At, InFlight,
                        FreshAgents, FreshPlatforms
    <2>3. /\ req' = [req EXCEPT ![r] = req'[r]]
          /\ req'[r] = [req[r] EXCEPT !.at = "done", !.status = s,
                                      !.agent = a, !.owner = k]
      BY <2>1
    <2>4. /\ req'[r] \in Request /\ req'[r].at = "done" /\ req'[r].agent = a
          /\ req'[r].key = k
      <3> DEFINE x == req[r]
                 y == req'[r]
      <3>1. x \in Request /\ s \in Statuses /\ x.key = k
        BY DEF Statuses
      <3>2. y = [x EXCEPT !.at = "done", !.status = s, !.agent = a, !.owner = k]
        BY <2>3
      <3> HIDE DEF x, y, k
      <3>3. y \in Request /\ y.at = "done" /\ y.agent = a /\ y.key = k
        BY <2>2, <3>1, <3>2 DEF Request, Places
      <3> QED BY <3>3 DEF y
    <2>5. NewAgent(k, p) \in AgentRow /\ NewAgent(k, p).key = k
      BY <2>2 DEF NewAgent, AgentRow
    <2>6. Live(a)' /\ agents'[a].key = k
      BY <2>1, <2>2, <2>5, Rows DEF Live, DBTypeOK
    <2>7. RequestOK(r)'
      BY <2>2, <2>4, <2>6, AtRest DEF Answered, Live
    <2> QED BY <2>1, <2>3, <2>4, <2>7, StatementMoves
  <1>4. CASE RegisterDuplicate(r)
    BY <1>4, EndMoves DEF RegisterDuplicate, EndWith, Statuses
  <1> QED BY <1>1, <1>2, <1>3, <1>4

\* The statement is sent and the handler goes on to the next one.
LEMMA GotoMoves ==
    ASSUME IInv, NEW r \in Requests, NEW place \in Places, Goto(r, place),
           held' = held \/ \E L \in SUBSET Locks : Take(r, L),
           UNCHANGED tables, InFlight(r),
           OnTarget(r)', KeepsLock(r)'
    PROVE  Moves(r)
  <1>1. /\ req'[r] = [req[r] EXCEPT !.at = place]
        /\ req' = [req EXCEPT ![r] = req'[r]]
    BY DEF Goto, IInv, TypeOK
  <1>2. /\ req'[r] \in Request
        /\ req'[r].op = req[r].op /\ req'[r].key = req[r].key
        /\ req'[r].agent = req[r].agent /\ req'[r].beat = req[r].beat
        /\ req'[r].platform = req[r].platform /\ req'[r].status = req[r].status
    BY <1>1 DEF IInv, TypeOK, Request
  <1>3. Called(r)' /\ Answered(r)'
    BY <1>2 DEF IInv, RequestOK, Called, Answered, tables, Live, Drawn, InFlight
  <1> QED BY <1>1, <1>2, <1>3, StatementMoves DEF RequestOK

LEMMA HeartbeatMoves ==
    ASSUME IInv, NEW r \in Requests,
           \/ HeartbeatAuth(r) \/ HeartbeatFind(r)
           \/ HeartbeatPlatform(r) \/ HeartbeatAgent(r)
    PROVE  Moves(r)
  <1> DEFINE a == req[r].agent
             p == req[r].platform
  <1>0. req[r] \in Request
    BY DEF IInv, TypeOK
  <1>1. CASE HeartbeatAuth(r)
    <2>1. CASE Live(a)
      <3>1. Goto(r, "find") /\ held' = held /\ UNCHANGED tables /\ InFlight(r)
        BY <1>1, <2>1 DEF HeartbeatAuth, At, InFlight
      <3>2. req'[r].at = "find"
        BY <1>0, <3>1 DEF Goto, IInv, TypeOK
      <3>3. OnTarget(r)' /\ KeepsLock(r)'
        BY <3>2 DEF OnTarget, KeepsLock, At
      <3> QED BY <3>1, <3>3, GotoMoves DEF Places
    <2>2. CASE ~Live(a)
      BY <1>1, <2>2, EndMoves DEF HeartbeatAuth, Statuses
    <2> QED BY <2>1, <2>2
  <1>2. CASE HeartbeatFind(r)
    <2>1. CASE Live(a)
      <3>1. /\ req' = [req EXCEPT ![r].at = "platform",
                                  ![r].platform = agents[a].platform,
                                  ![r].owner = agents[a].owner]
            /\ held' = held /\ UNCHANGED tables
            /\ req[r].op = "heartbeat" /\ req[r].at = "find"
        BY <1>2, <2>1 DEF HeartbeatFind, At
      <3>2. /\ a \in AgentIds /\ Drawn(a) /\ req[r].beat \in Beats
            /\ req[r].status \notin {"created", "existing"} \/ req[r].op # "register"
        BY <3>1 DEF IInv, RequestOK, Called, InFlight
      <3>3. agents[a].platform \in PlatformIds /\ agents[a].owner \in Keys
        BY <2>1, <3>2, Rows DEF IInv, TypeOK, AgentRow
      <3>4. /\ req' = [req EXCEPT ![r] = req'[r]]
            /\ req'[r] = [req[r] EXCEPT !.at = "platform",
                                        !.platform = agents[a].platform,
                                        !.owner = agents[a].owner]
        BY <3>1 DEF IInv, TypeOK
      <3>5. /\ req'[r] \in Request /\ req'[r].at = "platform"
            /\ req'[r].platform = agents[a].platform /\ req'[r].op = "heartbeat"
            /\ req'[r].agent = a /\ req'[r].beat = req[r].beat
        <4> DEFINE x == req[r]
                   y == req'[r]
                   q == agents[a].platform
                   k == agents[a].owner
        <4>1. x \in Request /\ "platform" \in Places /\ q \in PlatformIds /\ k \in Keys
          BY <1>0, <3>3 DEF Places
        <4>2. y = [x EXCEPT !.at = "platform", !.platform = q, !.owner = k]
          BY <3>4
        <4> HIDE DEF x, y, q, k
        <4>3. /\ y \in Request /\ y.at = "platform" /\ y.platform = q /\ y.op = x.op
              /\ y.agent = x.agent /\ y.beat = x.beat
          BY <4>1, <4>2 DEF Request
        <4> QED BY <3>1, <4>3 DEF x, y, q
      <3>6. RequestOK(r)'
        BY <2>1, <3>1, <3>2, <3>3, <3>5
           DEF RequestOK, Called, OnTarget, KeepsLock, Answered, At, InFlight,
               tables, Live, Drawn
      <3> QED BY <3>1, <3>4, <3>5, <3>6, StatementMoves
    <2>2. CASE ~Live(a)
      BY <1>2, <2>2, EndMoves DEF HeartbeatFind, Statuses
    <2> QED BY <2>1, <2>2
  <1>3. CASE HeartbeatPlatform(r)
    <2>1. /\ At(r, "heartbeat", "platform") /\ InFlight(r)
          /\ Take(r, PlatformLock(p)) /\ Goto(r, "agent") /\ UNCHANGED tables
      BY <1>3 DEF HeartbeatPlatform, At, InFlight
    <2>2. p \in PlatformIds /\ OnTarget(r)
      BY <2>1 DEF IInv, RequestOK, OnTarget, At
    <2>3. /\ req'[r].at = "agent" /\ req'[r].op = "heartbeat"
          /\ req'[r].platform = p /\ req'[r].agent = a
      BY <1>0, <2>1 DEF Goto, IInv, TypeOK, Request, At
    <2>4. held'[r] = held[r] \cup PlatformLock(p)
      BY <2>1 DEF Take, IInv, TypeOK, DBTypeOK
    <2>5. OnTarget(r)'
      BY <2>1, <2>2, <2>3 DEF OnTarget, At, tables, Live
    <2>6. KeepsLock(r)'
      BY <2>1, <2>3, <2>4 DEF KeepsLock, At, tables, PlatformLock
    <2>7. \E L \in SUBSET Locks : Take(r, L)
      BY <2>1, <2>2, LocksAreLocks
    <2> QED BY <2>1, <2>5, <2>6, <2>7, GotoMoves DEF Places
  <1>4. CASE HeartbeatAgent(r)
    BY <1>4, EndMoves DEF HeartbeatAgent, Committed, Statuses
  <1> QED BY <1>1, <1>2, <1>3, <1>4

LEMMA ClaimMoves ==
    ASSUME IInv, NEW r \in Requests,
           ClaimFind(r) \/ ClaimAgentRow(r) \/ ClaimPlatform(r)
    PROVE  Moves(r)
  <1> DEFINE a == req[r].agent
             p == req[r].platform
  <1>0. req[r] \in Request
    BY DEF IInv, TypeOK
  <1>1. CASE ClaimFind(r) /\ Live(a) /\ ~agents[a].claimed
    <2>1. /\ req' = [req EXCEPT ![r].at = "owner",
                                ![r].platform = agents[a].platform]
          /\ held' = held /\ UNCHANGED tables
          /\ req[r].op = "claim" /\ req[r].at = "find"
      BY <1>1 DEF ClaimFind, At
    <2>2. a \in AgentIds /\ Drawn(a) /\ req[r].key \in Keys
      BY <2>1 DEF IInv, RequestOK, Called, InFlight
    <2>3. agents[a].platform \in PlatformIds
      BY <1>1, <2>2, Rows DEF IInv, TypeOK, AgentRow
    <2>4. /\ req' = [req EXCEPT ![r] = req'[r]]
          /\ req'[r] = [req[r] EXCEPT !.at = "owner",
                                      !.platform = agents[a].platform]
      BY <2>1 DEF IInv, TypeOK
    <2>5. /\ req'[r] \in Request /\ req'[r].at = "owner"
          /\ req'[r].platform = agents[a].platform /\ req'[r].op = "claim"
          /\ req'[r].agent = a /\ req'[r].key = req[r].key
      <3> DEFINE x == req[r]
                 y == req'[r]
                 q == agents[a].platform
      <3>1. x \in Request /\ "owner" \in Places /\ q \in PlatformIds
        BY <1>0, <2>3 DEF Places
      <3>2. y = [x EXCEPT !.at = "owner", !.platform = q]
        BY <2>4
      <3> HIDE DEF x, y, q
      <3>3. /\ y \in Request /\ y.at = "owner" /\ y.platform = q /\ y.op = x.op
            /\ y.agent = x.agent /\ y.key = x.key
        BY <3>1, <3>2 DEF Request
      <3> QED BY <2>1, <3>3 DEF x, y, q
    <2>6. RequestOK(r)'
      BY <1>1, <2>1, <2>2, <2>3, <2>5
         DEF RequestOK, Called, OnTarget, KeepsLock, Answered, At, InFlight,
             tables, Live, Drawn
    <2> QED BY <2>1, <2>4, <2>5, <2>6, StatementMoves
  <1>2. CASE ClaimFind(r) /\ ~(Live(a) /\ ~agents[a].claimed)
    BY <1>2, EndMoves DEF ClaimFind, Statuses
  <1>3. CASE ClaimAgentRow(r)
    <2>1. /\ At(r, "claim", "agent") /\ InFlight(r)
          /\ Take(r, AgentLock(a)) /\ Goto(r, "platform") /\ UNCHANGED tables
      BY <1>3 DEF ClaimAgentRow, At, InFlight
    <2>2. a \in AgentIds /\ OnTarget(r)
      BY <2>1 DEF IInv, RequestOK, Called, At
    <2>3. /\ req'[r].at = "platform" /\ req'[r].op = "claim"
          /\ req'[r].platform = p /\ req'[r].agent = a
      BY <1>0, <2>1 DEF Goto, IInv, TypeOK, Request, At
    <2>4. held'[r] = held[r] \cup AgentLock(a)
      BY <2>1 DEF Take, IInv, TypeOK, DBTypeOK
    <2>5. OnTarget(r)'
      BY <2>1, <2>2, <2>3 DEF OnTarget, At, tables, Live
    <2>6. KeepsLock(r)'
      BY <2>1, <2>3, <2>4 DEF KeepsLock, At, tables, AgentLock, Live
    <2>7. \E L \in SUBSET Locks : Take(r, L)
      BY <2>1, <2>2, LocksAreLocks
    <2> QED BY <2>1, <2>5, <2>6, <2>7, GotoMoves DEF Places
  <1>4. CASE ClaimPlatform(r)
    BY <1>4, EndMoves DEF ClaimPlatform, Committed, Statuses
  <1> QED BY <1>1, <1>2, <1>3, <1>4

LEMMA DeleteMoves ==
    ASSUME IInv, NEW r \in Requests,
           DeleteCheck(r) \/ DeletePlatform(r) \/ DeleteCascade(r)
    PROVE  Moves(r)
  <1> DEFINE p == req[r].platform
  <1>0. req[r] \in Request
    BY DEF IInv, TypeOK
  <1>1. CASE DeleteCheck(r)
    <2>1. CASE Goto(r, "platform")
      <3>1. held' = held /\ UNCHANGED tables /\ At(r, "delete", "check") /\ InFlight(r)
        BY <1>1 DEF DeleteCheck, At, InFlight
      <3>2. req'[r].at = "platform" /\ req'[r].op = "delete"
        BY <1>0, <2>1, <3>1 DEF Goto, IInv, TypeOK, Request, At
      <3>3. OnTarget(r)' /\ KeepsLock(r)'
        BY <3>2 DEF OnTarget, KeepsLock, At
      <3> QED BY <2>1, <3>1, <3>3, GotoMoves DEF Places
    <2>2. CASE Answer(r, "notfound")
      BY <1>1, <2>2, EndMoves DEF DeleteCheck, Statuses
    <2> QED BY <1>1, <2>1, <2>2 DEF DeleteCheck
  <1>2. CASE DeletePlatform(r)
    <2>1. /\ At(r, "delete", "platform") /\ InFlight(r)
          /\ Take(r, PlatformLock(p)) /\ UNCHANGED tables
      BY <1>2 DEF DeletePlatform, At, InFlight
    <2>2. p \in PlatformIds
      BY <2>1 DEF IInv, RequestOK, Called, At
    <2>3. CASE platforms[p] # Null
      <3>1. Goto(r, "cascade")
        BY <1>2, <2>3 DEF DeletePlatform
      <3>2. req'[r].at = "cascade" /\ req'[r].op = "delete" /\ req'[r].platform = p
        BY <1>0, <2>1, <3>1 DEF Goto, IInv, TypeOK, Request, At
      <3>3. held'[r] = held[r] \cup PlatformLock(p)
        BY <2>1 DEF Take, IInv, TypeOK, DBTypeOK
      <3>4. OnTarget(r)' /\ KeepsLock(r)'
        BY <2>1, <3>2, <3>3 DEF OnTarget, KeepsLock, At, tables, PlatformLock
      <3>5. \E L \in SUBSET Locks : Take(r, L)
        BY <2>1, <2>2, LocksAreLocks
      <3> QED BY <2>1, <3>1, <3>4, <3>5, GotoMoves DEF Places
    <2>4. CASE platforms[p] = Null
      <3>1. Answer(r, "failed")
        BY <1>2, <2>4 DEF DeletePlatform
      <3>2. held' = held
        BY <2>1, <2>4 DEF Take, PlatformLock, IInv, TypeOK, DBTypeOK
      <3> QED BY <3>1, <3>2, EndMoves DEF Statuses
    <2> QED BY <2>3, <2>4
  <1>3. CASE DeleteCascade(r)
    BY <1>3, EndMoves DEF DeleteCascade, Committed, Statuses
  <1> QED BY <1>1, <1>2, <1>3

LEMMA ReceiveMoves ==
    ASSUME IInv, NEW r \in Requests, Receive(r)
    PROVE  Moves(r)
  <1>1. req' = [req EXCEPT ![r] = req'[r]] /\ req'[r] = NoRequest /\ held' = held
    BY DEF Receive, IInv, TypeOK
  <1>2. req'[r] \in Request /\ req'[r].at = "idle" /\ req'[r].op = "none"
    BY <1>1 DEF NoRequest, Request, Ops, Places
  <1>3. RequestOK(r)'
    BY <1>2, AtRest DEF Answered
  <1> QED BY <1>1, <1>2, <1>3, StatementMoves

-----------------------------------------------------------------------------
(***************************************************************************)
(* The order in which transactions lock rows.                              *)
(***************************************************************************)
\* Between two lock statements a transaction holds nothing out of turn.
LEMMA NothingHeld ==
    ASSUME NEW r \in Requests, LocksInOrder(r),
           \/ req[r].at \in {"idle", "done", "auth", "find", "owner", "check"}
           \/ At(r, "heartbeat", "platform")
           \/ At(r, "delete", "platform")
    PROVE  held[r] = {}
  BY DEF LocksInOrder, At

\* A request that holds nothing is in order wherever it waits for no lock.
LEMMA EmptyHanded ==
    ASSUME NEW r \in Requests, held'[r] = {},
           req'[r].at \notin {"owner", "platform", "agent", "cascade"}
    PROVE  LocksInOrder(r)'
  BY DEF LocksInOrder

\* Only its own request and its own locks matter.
LEMMA OrderFrame ==
    ASSUME NEW r \in Requests, LocksInOrder(r), req'[r] = req[r], held'[r] = held[r]
    PROVE  LocksInOrder(r)'
  BY DEF LocksInOrder, At, OwnerLock

LEMMA AnswerInOrder ==
    ASSUME IInv, NEW r \in Requests, NEW s, Answer(r, s),
           held'[r] = {} \/ (held' = held /\ held[r] = {})
    PROVE  LocksInOrder(r)'
  <1>1. req'[r].at = "done" /\ held'[r] = {}
    <2>1. req'[r] = [req[r] EXCEPT !.at = "done", !.status = s] /\ req[r] \in Request
      BY DEF Answer, IInv, TypeOK
    <2> QED BY <2>1 DEF Request
  <1> QED BY <1>1, EmptyHanded

\* A transaction that ends, one way or another, holds nothing.
LEMMA EndInOrder ==
    ASSUME IInv, NEW r \in Requests, NEW s, Answer(r, s), Release(r)
    PROVE  LocksInOrder(r)'
  <1>1. held'[r] = {}
    BY DEF Release, IInv, TypeOK, DBTypeOK
  <1> QED BY <1>1, AnswerInOrder

\* A statement that is granted the locks L and goes on to the next place.
LEMMA GotoKeeps ==
    ASSUME IInv, NEW r \in Requests, NEW next, Goto(r, next), NEW L,
           \/ held' = held /\ L = {}
           \/ Take(r, L)
    PROVE  /\ req'[r].at = next /\ req'[r].op = req[r].op
           /\ req'[r].key = req[r].key /\ req'[r].agent = req[r].agent
           /\ req'[r].platform = req[r].platform
           /\ held'[r] = held[r] \cup L
  <1>1. req'[r] = [req[r] EXCEPT !.at = next] /\ req[r] \in Request
    BY DEF Goto, IInv, TypeOK
  <1>2. held'[r] = held[r] \cup L
    BY DEF Take, IInv, TypeOK, DBTypeOK
  <1> QED BY <1>1, <1>2 DEF Request

LEMMA CallInOrder ==
    ASSUME IInv, NEW r \in Requests, Call(r)
    PROVE  LocksInOrder(r)'
  <1>1. PICK x : Arrive(r, x) /\ x.at \in {"auth", "find", "check"}
    <2>1. ASSUME NEW k \in Keys, RegisterCall(r, k) PROVE \E x : Arrive(r, x) /\ x.at = "find"
      <3> DEFINE x == [NoRequest EXCEPT !.op = "register", !.at = "find", !.key = k]
      <3>1. Arrive(r, x) /\ x.at = "find"
        BY <2>1 DEF RegisterCall, NoRequest
      <3> QED BY <3>1
    <2>2. ASSUME NEW a \in AgentIds, NEW b \in Beats, HeartbeatCall(r, a, b) PROVE \E x : Arrive(r, x) /\ x.at = "auth"
      <3> DEFINE x == [NoRequest EXCEPT !.op = "heartbeat", !.at = "auth",
                                      !.agent = a, !.beat = b]
      <3>1. Arrive(r, x) /\ x.at = "auth"
        BY <2>2 DEF HeartbeatCall, NoRequest
      <3> QED BY <3>1
    <2>3. ASSUME NEW a \in AgentIds, NEW k \in Keys, ClaimCall(r, a, k) PROVE \E x : Arrive(r, x) /\ x.at = "find"
      <3> DEFINE x == [NoRequest EXCEPT !.op = "claim", !.at = "find",
                                      !.agent = a, !.key = k]
      <3>1. Arrive(r, x) /\ x.at = "find"
        BY <2>3 DEF ClaimCall, NoRequest
      <3> QED BY <3>1
    <2>4. ASSUME NEW p \in PlatformIds, NEW k \in Keys, DeleteCall(r, p, k) PROVE \E x : Arrive(r, x) /\ x.at = "check"
      <3> DEFINE x == [NoRequest EXCEPT !.op = "delete", !.at = "check",
                                      !.platform = p, !.key = k]
      <3>1. Arrive(r, x) /\ x.at = "check"
        BY <2>4 DEF DeleteCall, NoRequest
      <3> QED BY <3>1
    <2> QED BY <2>1, <2>2, <2>3, <2>4 DEF Call
  <1>2. req'[r] = x /\ held' = held /\ req[r].at = "idle"
    BY <1>1 DEF Arrive, IInv, TypeOK, NoRequest
  <1>3. held[r] = {}
    BY <1>2, NothingHeld DEF IInv
  <1> QED BY <1>1, <1>2, <1>3, EmptyHanded

LEMMA RegisterInOrder ==
    ASSUME IInv, NEW r \in Requests,
           RegisterFind(r) \/ RegisterOwner(r) \/ RegisterInsert(r) \/ RegisterDuplicate(r)
    PROVE  LocksInOrder(r)'
  <1>1. CASE RegisterFind(r)
    <2>1. held' = held /\ held[r] = {} /\ req[r].op = "register"
      BY <1>1, NothingHeld DEF RegisterFind, IInv, At
    <2>2. CASE Goto(r, "owner")
      <3>1. req'[r].at = "owner" /\ req'[r].op = "register"
        BY <2>1, <2>2, GotoKeeps
      <3> QED BY <2>1, <3>1 DEF LocksInOrder
    <2>3. ASSUME NEW a,
                 req' = [req EXCEPT ![r].at = "done", ![r].status = "existing",
                                    ![r].agent = a, ![r].owner = agents[a].owner]
          PROVE  LocksInOrder(r)'
      <3>1. req'[r].at = "done"
        <4>1. req'[r] = [req[r] EXCEPT !.at = "done", !.status = "existing",
                                       !.agent = a, !.owner = agents[a].owner]
          BY <2>3 DEF IInv, TypeOK
        <4>2. req[r] \in Request
          BY DEF IInv, TypeOK
        <4> QED BY <4>1, <4>2 DEF Request
      <3> QED BY <2>1, <3>1, EmptyHanded
    <2> QED BY <1>1, <2>2, <2>3 DEF RegisterFind
  <1>2. CASE RegisterOwner(r)
    <2>1. /\ Goto(r, "insert") /\ Take(r, {OwnerLock(req[r].key)})
          /\ req[r].op = "register" /\ held[r] = {}
      BY <1>2, NothingHeld DEF RegisterOwner, UpsertOwner, IInv
    <2>2. /\ At(r, "register", "insert")' /\ req'[r].key = req[r].key
          /\ held'[r] = {OwnerLock(req[r].key)}
      BY <2>1, GotoKeeps DEF At
    <2> QED BY <2>2 DEF LocksInOrder, At, OwnerLock
  <1>3. CASE RegisterInsert(r)
    <2>1. held'[r] = {}
      BY <1>3 DEF RegisterInsert, Release, IInv, TypeOK, DBTypeOK
    <2>2. req'[r].at = "done"
      <3>1. PICK a, s : req' = [req EXCEPT ![r].at = "done", ![r].status = s,
                                         ![r].agent = a, ![r].owner = req[r].key]
        BY <1>3 DEF RegisterInsert
      <3>2. req'[r] = [req[r] EXCEPT !.at = "done", !.status = s,
                                     !.agent = a, !.owner = req[r].key]
        BY <3>1 DEF IInv, TypeOK
      <3>3. req[r] \in Request
        BY DEF IInv, TypeOK
      <3> QED BY <3>2, <3>3 DEF Request
    <2> QED BY <2>1, <2>2, EmptyHanded
  <1>4. CASE RegisterDuplicate(r)
    BY <1>4, EndInOrder DEF RegisterDuplicate, EndWith
  <1> QED BY <1>1, <1>2, <1>3, <1>4

LEMMA HeartbeatInOrder ==
    ASSUME IInv, NEW r \in Requests,
           HeartbeatAuth(r) \/ HeartbeatFind(r) \/ HeartbeatPlatform(r) \/ HeartbeatAgent(r)
    PROVE  LocksInOrder(r)'
  <1>1. CASE HeartbeatAuth(r) \/ HeartbeatFind(r)
    <2>1. held' = held /\ held[r] = {} /\ req[r].op = "heartbeat"
      BY <1>1, NothingHeld DEF HeartbeatAuth, HeartbeatFind, IInv, At
    <2>2. CASE Goto(r, "find")
      <3>1. req'[r].at = "find"
        BY <2>1, <2>2, GotoKeeps
      <3> QED BY <2>1, <3>1, EmptyHanded
    <2>3. CASE Answer(r, "notfound")
      BY <2>1, <2>3, AnswerInOrder
    <2>4. ASSUME NEW p, NEW k,
                 req' = [req EXCEPT ![r].at = "platform", ![r].platform = p, ![r].owner = k]
          PROVE  LocksInOrder(r)'
      <3>1. req'[r] = [req[r] EXCEPT !.at = "platform", !.platform = p, !.owner = k]
        BY <2>4 DEF IInv, TypeOK
      <3>2. req'[r].at = "platform" /\ req'[r].op = "heartbeat"
        BY <2>1, <3>1 DEF IInv, TypeOK, Request
      <3> QED BY <2>1, <3>2 DEF LocksInOrder
    <2> QED BY <1>1, <2>2, <2>3, <2>4 DEF HeartbeatAuth, HeartbeatFind
  <1>2. CASE HeartbeatPlatform(r)
    <2> DEFINE L == PlatformLock(req[r].platform)
    <2>1. /\ Goto(r, "agent") /\ Take(r, L)
          /\ req[r].op = "heartbeat" /\ held[r] = {}
      BY <1>2, NothingHeld DEF HeartbeatPlatform, IInv, At
    <2>2. /\ At(r, "heartbeat", "agent")' /\ req'[r].platform = req[r].platform
          /\ held'[r] = held[r] \cup L
      <3> HIDE DEF L
      <3> QED BY <2>1, GotoKeeps DEF At
    <2> QED BY <2>1, <2>2 DEF LocksInOrder, At, PlatformLock
  <1>3. CASE HeartbeatAgent(r)
    BY <1>3, EndInOrder DEF HeartbeatAgent, Committed
  <1> QED BY <1>1, <1>2, <1>3

LEMMA ClaimInOrder ==
    ASSUME IInv, NEW r \in Requests,
           ClaimFind(r) \/ ClaimOwner(r) \/ ClaimAgentRow(r) \/ ClaimPlatform(r)
    PROVE  LocksInOrder(r)'
  <1>1. CASE ClaimFind(r)
    <2>1. held' = held /\ held[r] = {} /\ req[r].op = "claim"
      BY <1>1, NothingHeld DEF ClaimFind, IInv, At
    <2>2. CASE \E s : Answer(r, s)
      BY <2>1, <2>2, AnswerInOrder
    <2>3. ASSUME NEW p, req' = [req EXCEPT ![r].at = "owner", ![r].platform = p]
          PROVE  LocksInOrder(r)'
      <3>1. req'[r] = [req[r] EXCEPT !.at = "owner", !.platform = p]
        BY <2>3 DEF IInv, TypeOK
      <3>2. req'[r].at = "owner" /\ req'[r].op = "claim"
        BY <2>1, <3>1 DEF IInv, TypeOK, Request
      <3> QED BY <2>1, <3>2 DEF LocksInOrder
    <2> QED BY <1>1, <2>2, <2>3 DEF ClaimFind
  <1>2. CASE ClaimOwner(r)
    <2>1. /\ Goto(r, "agent") /\ Take(r, {OwnerLock(req[r].key)})
          /\ req[r].op = "claim" /\ held[r] = {}
      BY <1>2, NothingHeld DEF ClaimOwner, UpsertOwner, IInv
    <2>2. /\ At(r, "claim", "agent")' /\ req'[r].key = req[r].key
          /\ held'[r] = {OwnerLock(req[r].key)}
      BY <2>1, GotoKeeps DEF At
    <2> QED BY <2>2 DEF LocksInOrder, At, OwnerLock
  <1>3. CASE ClaimAgentRow(r)
    <2> DEFINE L == AgentLock(req[r].agent)
    <2>1. /\ At(r, "claim", "agent") /\ Goto(r, "platform") /\ Take(r, L)
      BY <1>3 DEF ClaimAgentRow
    <2>2. \A lock \in held[r] : lock = OwnerLock(req[r].key)
      BY <2>1 DEF IInv, LocksInOrder, At
    <2>3. /\ At(r, "claim", "platform")'
          /\ req'[r].key = req[r].key /\ req'[r].agent = req[r].agent
          /\ held'[r] = held[r] \cup L
      BY <2>1, GotoKeeps DEF At
    <2> QED BY <2>2, <2>3 DEF LocksInOrder, At, AgentLock, OwnerLock
  <1>4. CASE ClaimPlatform(r)
    BY <1>4, EndInOrder DEF ClaimPlatform, Committed
  <1> QED BY <1>1, <1>2, <1>3, <1>4

LEMMA DeleteInOrder ==
    ASSUME IInv, NEW r \in Requests,
           DeleteCheck(r) \/ DeletePlatform(r) \/ DeleteCascade(r)
    PROVE  LocksInOrder(r)'
  <1>1. CASE DeleteCheck(r)
    <2>1. held' = held /\ held[r] = {} /\ req[r].op = "delete"
      BY <1>1, NothingHeld DEF DeleteCheck, IInv, At
    <2>2. CASE Goto(r, "platform")
      <3>1. req'[r].at = "platform" /\ req'[r].op = "delete"
        BY <2>1, <2>2, GotoKeeps
      <3> QED BY <2>1, <3>1 DEF LocksInOrder
    <2> QED BY <1>1, <2>1, <2>2, AnswerInOrder DEF DeleteCheck
  <1>2. CASE DeletePlatform(r)
    <2> DEFINE L == PlatformLock(req[r].platform)
    <2>1. Take(r, L) /\ req[r].op = "delete" /\ held[r] = {}
      BY <1>2, NothingHeld DEF DeletePlatform, IInv, At
    <2>2. CASE Goto(r, "cascade")
      <3>1. /\ At(r, "delete", "cascade")' /\ req'[r].platform = req[r].platform
            /\ held'[r] = held[r] \cup L
        <4> HIDE DEF L
        <4> QED BY <2>1, <2>2, GotoKeeps DEF At
      <3> QED BY <2>1, <3>1 DEF LocksInOrder, At, PlatformLock
    <2>3. CASE platforms[req[r].platform] = Null /\ Answer(r, "failed")
      <3>1. held' = held
        BY <2>1, <2>3 DEF Take, PlatformLock, IInv, TypeOK, DBTypeOK
      <3> QED BY <2>1, <2>3, <3>1, AnswerInOrder
    <2> QED BY <1>2, <2>2, <2>3 DEF DeletePlatform
  <1>3. CASE DeleteCascade(r)
    BY <1>3, EndInOrder DEF DeleteCascade, Committed
  <1> QED BY <1>1, <1>2, <1>3

LEMMA ReceiveInOrder ==
    ASSUME IInv, NEW r \in Requests, Receive(r)
    PROVE  LocksInOrder(r)'
  <1>1. req'[r].at = "idle" /\ held' = held /\ held[r] = {}
    BY NothingHeld DEF Receive, NoRequest, IInv, TypeOK
  <1> QED BY <1>1, EmptyHanded

-----------------------------------------------------------------------------
(***************************************************************************)
(* Steps.                                                                  *)
(***************************************************************************)
\* Whatever request moves, it moves alone.
LEMMA OneMoves ==
    ASSUME IInv, Next, ~ServerCrash
    PROVE  \E r \in Requests : Moves(r) /\ LocksInOrder(r)'
  <1>1. PICK r \in Requests :
           \/ Call(r) \/ Step(r) \/ Receive(r)
           \/ DeadlockVictim(r) \/ StatementFails(r)
    BY DEF Next
  <1>2. CASE Call(r)
    BY <1>2, CallMoves, CallInOrder
  <1>3. CASE Step(r)
    <2>1. Moves(r)
      BY <1>3, OwnerMoves, RegisterMoves, HeartbeatMoves, ClaimMoves, DeleteMoves
         DEF Step
    <2>2. LocksInOrder(r)'
      BY <1>3, RegisterInOrder, HeartbeatInOrder, ClaimInOrder, DeleteInOrder DEF Step
    <2> QED BY <2>1, <2>2
  <1>4. CASE Receive(r)
    BY <1>4, ReceiveMoves, ReceiveInOrder
  <1>5. CASE DeadlockVictim(r) \/ StatementFails(r)
    <2>1. PICK s \in {"deadlock", "failed"} : Answer(r, s) /\ Release(r)
      BY <1>5 DEF DeadlockVictim, StatementFails, EndWith
    <2> QED BY <2>1, EndMoves, EndInOrder DEF Statuses
  <1> QED BY <1>1, <1>2, <1>3, <1>4, <1>5

\* Every step keeps the tables right and lets them only evolve.
LEMMA TablesStep ==
    ASSUME IInv, [Next]_vars
    PROVE  /\ owners' \subseteq Keys
           /\ platforms' \in [PlatformIds -> PlatformRow \cup {Null}]
           /\ agents' \in [AgentIds -> AgentRow \cup {Null}]
           /\ retired' \subseteq PlatformIds \cup AgentIds
           /\ TablesOK' /\ Evolves
  <1>1. CASE Quiet \/ UNCHANGED vars
    BY <1>1, SameRowsKeepTables DEF Quiet, tables, vars, IInv, TypeOK, DBTypeOK
  <1>2. ASSUME NEW r \in Requests, Commit(r)
        PROVE  DBTypeOK' /\ TablesOK' /\ Evolves
    BY <1>2, InsertKeepsTables, HeartbeatKeepsTables, ClaimKeepsTables,
       DeleteKeepsTables DEF Commit, IInv
  <1> QED BY <1>1, <1>2, QuietOrCommit DEF DBTypeOK

LEMMA Inductive ==
    ASSUME IInv, [Next]_vars
    PROVE  IInv'
  <1>1. /\ TablesOK' /\ Evolves
        /\ TypeOK /\ TablesOK
        /\ \A r \in Requests : RequestOK(r) /\ LocksInOrder(r)
    BY TablesStep DEF IInv
  <1>2. CASE UNCHANGED vars
    <2>1. req' = req /\ held' = held
      BY <1>2 DEF vars
    <2>2. \A r \in Requests : RequestOK(r)' /\ LocksInOrder(r)'
      BY <1>1, <2>1, Frame, OrderFrame
    <2> QED BY <1>1, <2>1, <2>2, TablesStep
            DEF IInv, TypeOK, DBTypeOK, LocksExclusive
  <1>3. CASE ServerCrash
    <2>1. /\ req' = [r \in Requests |-> NoRequest]
          /\ held' = [r \in Requests |-> {}]
      BY <1>3 DEF ServerCrash
    <2>2. \A r \in Requests : RequestOK(r)' /\ LocksInOrder(r)'
      <3> TAKE r \in Requests
      <3>1. req'[r].at = "idle" /\ req'[r].op = "none" /\ held'[r] = {}
        BY <2>1 DEF NoRequest
      <3>2. LocksInOrder(r)'
        BY <3>1, EmptyHanded
      <3> QED BY <3>1, <3>2, AtRest DEF Answered
    <2>3. NoRequest \in Request
      BY DEF NoRequest, Request, Ops, Places
    <2> QED BY <1>1, <2>1, <2>2, <2>3, TablesStep
            DEF IInv, TypeOK, DBTypeOK, LocksExclusive
  <1>4. ASSUME NEW r \in Requests, Moves(r), LocksInOrder(r)' PROVE IInv'
    <2>1. \A q \in Requests \ {r} : RequestOK(q)' /\ LocksInOrder(q)'
      BY <1>1, <1>4, Frame, OrderFrame DEF Moves
    <2>2. TypeOK'
      BY <1>4, TablesStep DEF Moves, TypeOK, DBTypeOK
    <2>3. LocksExclusive'
      BY <1>4 DEF Moves, IInv, LocksExclusive, Free
    <2> QED BY <1>1, <1>4, <2>1, <2>2, <2>3 DEF Moves, IInv
  <1> QED BY <1>2, <1>3, <1>4, OneMoves

LEMMA Initial ==
    ASSUME Init
    PROVE  IInv
  <1>1. /\ TypeOK /\ LocksExclusive
        /\ \A a \in AgentIds : ~Live(a)
        /\ \A p \in PlatformIds : platforms[p] = Null
    BY DEF Init, DBInit, TypeOK, DBTypeOK, LocksExclusive, NoRequest, Request,
           Ops, Places, Live
  <1>2. TablesOK
    BY <1>1 DEF TablesOK, OwnerAgreement, OneAgentPerKey, PlatformPerAgent,
                HeartbeatWhole, UnclaimedIsSelfOwned, RetiredGone
  <1>3. ASSUME NEW r \in Requests PROVE RequestOK(r) /\ LocksInOrder(r)
    <2>1. req[r].at = "idle" /\ req[r].op = "none" /\ held[r] = {}
      BY DEF Init, DBInit, NoRequest
    <2>2. RequestOK(r)
      BY <2>1 DEF RequestOK, Called, OnTarget, KeepsLock, Answered, InFlight, At
    <2> QED BY <2>1, <2>2 DEF LocksInOrder
  <1> QED BY <1>1, <1>2, <1>3 DEF IInv

-----------------------------------------------------------------------------
(***************************************************************************)
(* Theorems.                                                               *)
(***************************************************************************)
\* The strengthened invariant holds in every reachable state, whatever the
\* number of keys, ids, heartbeats and concurrent requests.
THEOREM Invariance == Spec => []IInv
  <1>1. Init => IInv
    BY Initial
  <1>2. IInv /\ [Next]_vars => IInv'
    BY Inductive
  <1> QED BY <1>1, <1>2, PTL DEF Spec

\* Rows, requests and locks always have the types the schema and the handlers
\* give them.
THEOREM TypeCorrect == Spec => []TypeOK
  <1>1. IInv => TypeOK
    BY DEF IInv
  <1> QED BY <1>1, Invariance, PTL

\* ClaimAgent's two UPDATEs never leave an agent and its platform with two
\* owners, and an agent never points at a deleted platform.
THEOREM OwnersAgree == Spec => []OwnerAgreement
  <1>1. IInv => OwnerAgreement
    BY DEF IInv, TablesOK
  <1> QED BY <1>1, Invariance, PTL

\* SelfRegister never makes two agents of one public key.
THEOREM KeysIdentifyAgents == Spec => []OneAgentPerKey
  <1>1. IInv => OneAgentPerKey
    BY DEF IInv, TablesOK
  <1> QED BY <1>1, Invariance, PTL

\* No failed registration and no racing deletion leaves an orphan platform.
THEOREM NoOrphanPlatform == Spec => []PlatformPerAgent
  <1>1. IInv => PlatformPerAgent
    BY DEF IInv, TablesOK
  <1> QED BY <1>1, Invariance, PTL

\* AgentHeartbeat's two UPDATEs are seen together or not at all.
THEOREM HeartbeatsWhole == Spec => []HeartbeatWhole
  <1>1. IInv => HeartbeatWhole
    BY DEF IInv, TablesOK
  <1> QED BY <1>1, Invariance, PTL

\* An agent nobody claimed belongs to the owner of its own key.
THEOREM UnclaimedSelfOwned == Spec => []UnclaimedIsSelfOwned
  <1>1. IInv => UnclaimedIsSelfOwned
    BY DEF IInv, TablesOK
  <1> QED BY <1>1, Invariance, PTL

\* A registration is answered with an agent of the caller's own key.
THEOREM AnswersOwnAgent == Spec => []AnsweredWithOwnAgent
  <1>1. IInv => AnsweredWithOwnAgent
    BY DEF IInv, RequestOK, Answered, AnsweredWithOwnAgent
  <1> QED BY <1>1, Invariance, PTL

\* Who waits for whom: the holder of a lock that a waiting request asks for.
LEMMA Waiting ==
    ASSUME IInv, NEW q \in Requests, NEW t \in Requests, WaitsFor(q, t),
           Wanted(t) # {}
    PROVE  \/ At(t, "claim", "platform")
           \/ At(t, "heartbeat", "agent") \/ At(t, "delete", "cascade")
           \/ At(t, "claim", "agent") /\ req[q].at = "owner"
  <1>1. PICK lock : lock \in Wanted(q) /\ lock \in held[t]
    BY DEF WaitsFor
  <1>2. LocksInOrder(t)
    BY DEF IInv
  <1>3. CASE lock = OwnerLock(req[t].key)
    <2>1. req[q].at = "owner"
      BY <1>1, <1>3 DEF Wanted, OwnerLock, PlatformLock, AgentLock, TenantLocks
    <2>2. ~At(t, "register", "insert")
      BY DEF Wanted, At
    <2> QED BY <1>1, <1>2, <2>1, <2>2 DEF LocksInOrder, OwnerLock
  <1>4. CASE lock # OwnerLock(req[t].key)
    BY <1>1, <1>2, <1>4 DEF LocksInOrder
  <1> QED BY <1>3, <1>4

\* Claims wait for heartbeats or deletions, which wait for claims.
LEMMA Crossing ==
    ASSUME IInv, NEW q \in Requests, NEW t \in Requests, WaitsFor(q, t)
    PROVE  /\ At(q, "claim", "platform") =>
                At(t, "heartbeat", "agent") \/ At(t, "delete", "cascade")
           /\ At(q, "heartbeat", "agent") \/ At(q, "delete", "cascade")
              \/ At(q, "claim", "agent") => At(t, "claim", "platform")
  <1>1. PICK lock : lock \in Wanted(q) /\ lock \in held[t]
    BY DEF WaitsFor
  <1>2. LocksInOrder(t)
    BY DEF IInv
  <1>3. ASSUME At(q, "claim", "platform")
        PROVE  At(t, "heartbeat", "agent") \/ At(t, "delete", "cascade")
    <2>1. lock[1] = "platform"
      BY <1>1, <1>3 DEF Wanted, At, PlatformLock
    <2> QED BY <1>1, <1>2, <2>1 DEF LocksInOrder, OwnerLock
  <1>4. ASSUME \/ At(q, "heartbeat", "agent") \/ At(q, "delete", "cascade")
               \/ At(q, "claim", "agent")
        PROVE  At(t, "claim", "platform")
    <2>1. lock[1] = "agent"
      BY <1>1, <1>4 DEF Wanted, At, AgentLock, TenantLocks
    <2> QED BY <1>1, <1>2, <2>1 DEF LocksInOrder, OwnerLock
  <1> QED BY <1>3, <1>4

\* Any number of concurrent transactions of the four handlers can deadlock only
\* through a claim and a heartbeat or deletion caught between their two locks.
THEOREM DeadlocksNeedClaims == Spec => []DeadlockNeedsClaim
  <1>1. ASSUME IInv PROVE DeadlockNeedsClaim
    <2> SUFFICES ASSUME NEW S \in SUBSET Requests, S # {},
                        \A q \in S : \E t \in S : WaitsFor(q, t)
                 PROVE  /\ \E q \in S : At(q, "claim", "platform")
                        /\ \E q \in S : At(q, "heartbeat", "agent") \/ At(q, "delete", "cascade")
      BY DEF DeadlockNeedsClaim
    <2> DEFINE Claim(t) == At(t, "claim", "platform")
               Beat(t) == At(t, "heartbeat", "agent") \/ At(t, "delete", "cascade")
    <2>1. \A t \in S : Wanted(t) # {}
      BY DEF WaitsFor
    <2>2. PICK q \in S, t \in S : WaitsFor(q, t)
      OBVIOUS
    <2>3. Claim(t) \/ Beat(t) \/ At(t, "claim", "agent")
      BY <1>1, <2>1, <2>2, Waiting
    <2>4. PICK u \in S : WaitsFor(t, u)
      BY <2>2
    <2>5. \E v \in S : Claim(v) \/ Beat(v)
      BY <1>1, <2>3, <2>4, Crossing
    <2>6. PICK v \in S : Claim(v) \/ Beat(v)
      BY <2>5
    <2>7. PICK w \in S : WaitsFor(v, w)
      BY <2>6
    <2>8. (Claim(v) => Beat(w)) /\ (Beat(v) => Claim(w))
      BY <1>1, <2>7, Crossing
    <2> QED BY <2>6, <2>8
  <1> QED BY <1>1, Invariance, PTL
=============================================================================
