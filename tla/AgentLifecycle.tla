--------------------------- MODULE AgentLifecycle ---------------------------
(***************************************************************************)
(* The life of a self-registered agent in the registry:                    *)
(*                                                                         *)
(*   POST   /v1/agents                      selfRegister, SelfRegister     *)
(*   POST   /v1/agents/:agent_id/heartbeat  agentHeartbeat, AgentHeartbeat *)
(*   POST   /v1/agents/:agent_id/claim      claimAgent, ClaimAgent         *)
(*   DELETE /v1/platforms/:platform_id      deletePlatform, DeletePlatform *)
(*                                                                         *)
(* Each request runs one SQL statement per step, so the statements of      *)
(* concurrent requests interleave as they do in Postgres.  req[r].at names *)
(* the statement r sends next.  A statement that must wait for a row lock  *)
(* is a step whose Take is not yet enabled.  The last statement of a       *)
(* transaction and its COMMIT are one step.                                *)
(*                                                                         *)
(* Left out: requests refused before the first statement (bad JSON, a      *)
(* malformed key, a wrong signature), which change nothing; names,         *)
(* descriptions, capabilities and the wallet address.                      *)
(***************************************************************************)
EXTENDS RegistryDB

VARIABLE req    \* request slot -> the request it serves

vars == <<owners, platforms, agents, retired, held, req>>

Ops == {"none", "register", "heartbeat", "claim", "delete"}
Places == {"idle", "auth", "find", "owner", "insert", "platform", "agent",
           "check", "cascade", "done"}
\* What the handler answers.  201: created.  200: existing, ok.  404: notfound.
\* 409: already.  500: duplicate (a unique violation), deadlock, failed.
Statuses == {"created", "existing", "ok", "notfound", "already",
             "duplicate", "deadlock", "failed"}
ASSUME StatusAssumption == Null \notin Statuses

Request == [op : Ops, at : Places, key : Keys \cup {Null},
            agent : AgentIds \cup {Null}, platform : PlatformIds \cup {Null},
            owner : Keys \cup {Null}, beat : Beats \cup {Null},
            status : Statuses \cup {Null}]

NoRequest == [op |-> "none", at |-> "idle", key |-> Null, agent |-> Null,
              platform |-> Null, owner |-> Null, beat |-> Null,
              status |-> Null]

Init == DBInit /\ req = [r \in Requests |-> NoRequest]

At(r, op, place) == req[r].op = op /\ req[r].at = place
InFlight(r) == req[r].at \notin {"idle", "done"}
Registering == {r \in Requests : req[r].op = "register" /\ InFlight(r)}

Goto(r, place) == req' = [req EXCEPT ![r].at = place]
Answer(r, s) == req' = [req EXCEPT ![r].at = "done", ![r].status = s]
EndWith_Leaked(r, s) ==             \* faulty: no deferred Rollback
    Answer(r, s) /\ UNCHANGED <<tables, held>>
\* The transaction ends without a write: an early return's deferred Rollback.
EndWith(r, s) == Answer(r, s) /\ Release(r) /\ UNCHANGED tables
\* A handler whose Commit returned an error answers 500, and yet the commit
\* may have happened: the connection broke before the acknowledgement.
Committed(r, s) == (Answer(r, s) \/ Answer(r, "failed")) /\ Release(r)

-----------------------------------------------------------------------------
(***************************************************************************)
(* Requests arrive.                                                        *)
(***************************************************************************)
Arrive(r, request) ==
    /\ req[r] = NoRequest
    /\ req' = [req EXCEPT ![r] = request]
    /\ UNCHANGED <<tables, held>>

\* Bound: an id is left for every registration in flight.
RegisterCall(r, k) ==
    /\ Cardinality(FreshAgents) > Cardinality(Registering)
    /\ Cardinality(FreshPlatforms) > Cardinality(Registering)
    /\ Arrive(r, [NoRequest EXCEPT !.op = "register", !.at = "find",
                                   !.key = k])

\* Only ids the server has handed out are ever asked about.
Drawn(a) == a \in retired \/ Live(a)

HeartbeatCall(r, a, b) ==
    /\ Drawn(a)
    /\ Arrive(r, [NoRequest EXCEPT !.op = "heartbeat", !.at = "auth",
                                   !.agent = a, !.beat = b])

ClaimCall(r, a, k) ==
    /\ Drawn(a)
    /\ Arrive(r, [NoRequest EXCEPT !.op = "claim", !.at = "find",
                                   !.agent = a, !.key = k])

\* ownerAuth: the caller's token was issued to an existing owner.
DeleteCall(r, p, k) ==
    /\ k \in owners
    /\ p \in retired \/ platforms[p] # Null
    /\ Arrive(r, [NoRequest EXCEPT !.op = "delete", !.at = "check",
                                   !.platform = p, !.key = k])

-----------------------------------------------------------------------------
(***************************************************************************)
(* SelfRegister: SELECT by key, upsert the auto-owner, then insert the     *)
(* auto-platform and the agent and commit.                                 *)
(***************************************************************************)
RegisterFind(r) ==
    LET found == AgentsWith(req[r].key) IN
    /\ At(r, "register", "find")
    /\ IF found = {}
         THEN Goto(r, "owner")
         ELSE \E a \in found :
                req' = [req EXCEPT ![r].at = "done", ![r].status = "existing",
                                   ![r].agent = a, ![r].owner = agents[a].owner]
    /\ UNCHANGED <<tables, held>>

\* INSERT INTO owners ... ON CONFLICT DO UPDATE: waits for, then holds, the row.
UpsertOwner(r, next) ==
    /\ req[r].at = "owner"
    /\ Take(r, {OwnerLock(req[r].key)})
    /\ Goto(r, next)
    /\ UNCHANGED tables

RegisterOwner(r) == req[r].op = "register" /\ UpsertOwner(r, "insert")

NewAgent(k, p) ==
    [key |-> k, platform |-> p, owner |-> k, claimed |-> FALSE, beat |-> Null]

RegisterInsert(r) ==
    /\ At(r, "register", "insert")
    /\ ~KeyTaken(req[r].key)
    /\ \E a \in FreshAgents, p \in FreshPlatforms :
         LET k == req[r].key IN
         /\ owners' = owners \cup {k}
         /\ platforms' = [platforms EXCEPT ![p] = [owner |-> k, beat |-> Null]]
         /\ agents' = [agents EXCEPT ![a] = NewAgent(k, p)]
         /\ retired' = retired
         /\ \E s \in {"created", "failed"} :
              req' = [req EXCEPT ![r].at = "done", ![r].status = s,
                                 ![r].agent = a, ![r].owner = k]
         /\ Release(r)

RegisterDuplicate_Orphan(r) ==      \* faulty: the inserts are no transaction
    /\ At(r, "register", "insert")
    /\ KeyTaken(req[r].key)
    /\ \E p \in FreshPlatforms :
         platforms' = [platforms EXCEPT ![p] = [owner |-> req[r].key, beat |-> Null]]
    /\ Answer(r, "duplicate") /\ Release(r)
    /\ UNCHANGED <<owners, agents, retired>>
\* Another request inserted this key after RegisterFind missed it.
RegisterDuplicate(r) ==
    /\ At(r, "register", "insert")
    /\ KeyTaken(req[r].key)
    /\ EndWith(r, "duplicate")

-----------------------------------------------------------------------------
(***************************************************************************)
(* agentSigAuth reads the agent's key outside any transaction, then        *)
(* AgentHeartbeat reads the row and updates its platform and the agent.    *)
(***************************************************************************)
HeartbeatAuth(r) ==
    /\ At(r, "heartbeat", "auth")
    /\ IF Live(req[r].agent) THEN Goto(r, "find") ELSE Answer(r, "notfound")
    /\ UNCHANGED <<tables, held>>

HeartbeatFind_ForUpdate(r) ==       \* faulty: SELECT ... FOR UPDATE
    LET a == req[r].agent IN
    /\ At(r, "heartbeat", "find")
    /\ Live(a)
    /\ Take(r, AgentLock(a))
    /\ req' = [req EXCEPT ![r].at = "platform", ![r].platform = agents[a].platform,
                          ![r].owner = agents[a].owner]
    /\ UNCHANGED tables
HeartbeatFind(r) ==
    LET a == req[r].agent IN
    /\ At(r, "heartbeat", "find")
    /\ IF Live(a)
         THEN req' = [req EXCEPT ![r].at = "platform",
                                 ![r].platform = agents[a].platform,
                                 ![r].owner = agents[a].owner]
         ELSE Answer(r, "notfound")
    /\ UNCHANGED <<tables, held>>

HeartbeatPlatform_Unlocked(r) ==    \* faulty: s.Pool.Exec in place of tx.Exec
    /\ At(r, "heartbeat", "platform")
    /\ Free(r, PlatformLock(req[r].platform))
    /\ Goto(r, "agent")
    /\ UNCHANGED <<tables, held>>
HeartbeatPlatform(r) ==
    /\ At(r, "heartbeat", "platform")
    /\ Take(r, PlatformLock(req[r].platform))
    /\ Goto(r, "agent")
    /\ UNCHANGED tables

BeatenPlatform_Late(row, b) == row  \* faulty: last_seen_at is left for later
BeatenPlatform(row, b) == [row EXCEPT !.beat = b]
BeatenAgent(row, b) == [row EXCEPT !.beat = b]

HeartbeatAgent(r) ==
    LET a == req[r].agent
        p == req[r].platform
    IN
    /\ At(r, "heartbeat", "agent")
    /\ Free(r, AgentLock(a))
    /\ platforms' = Update(platforms, p, BeatenPlatform(platforms[p], req[r].beat))
    /\ agents' = Update(agents, a, BeatenAgent(agents[a], req[r].beat))
    /\ UNCHANGED <<owners, retired>>
    /\ Committed(r, "ok")

-----------------------------------------------------------------------------
(***************************************************************************)
(* ClaimAgent: SELECT claim_status (no FOR UPDATE), upsert the claimant,   *)
(* UPDATE the agent, then UPDATE its platform and commit.                  *)
(***************************************************************************)
ClaimFind(r) ==
    LET a == req[r].agent IN
    /\ At(r, "claim", "find")
    /\ IF ~Live(a) THEN Answer(r, "notfound")
       ELSE IF agents[a].claimed THEN Answer(r, "already")
       ELSE req' = [req EXCEPT ![r].at = "owner",
                               ![r].platform = agents[a].platform]
    /\ UNCHANGED <<tables, held>>

ClaimOwner(r) == req[r].op = "claim" /\ UpsertOwner(r, "agent")

ClaimAgentRow(r) ==
    /\ At(r, "claim", "agent")
    /\ Take(r, AgentLock(req[r].agent))
    /\ Goto(r, "platform")
    /\ UNCHANGED tables

ClaimedAgent_Rekeyed(row, k) ==     \* faulty: the claimant's key is stored too
    [row EXCEPT !.owner = k, !.key = k, !.claimed = TRUE]
ClaimedAgent(row, k) == [row EXCEPT !.owner = k, !.claimed = TRUE]
ClaimedPlatform_Kept(row, k) == row \* faulty: the second UPDATE is forgotten
ClaimedPlatform(row, k) == [row EXCEPT !.owner = k]

ClaimPlatform(r) ==
    LET a == req[r].agent
        p == req[r].platform
        k == req[r].key
    IN
    /\ At(r, "claim", "platform")
    /\ Free(r, PlatformLock(p))
    /\ owners' = owners \cup {k}
    /\ agents' = Update(agents, a, ClaimedAgent(agents[a], k))
    /\ platforms' = Update(platforms, p, ClaimedPlatform(platforms[p], k))
    /\ retired' = retired
    /\ Committed(r, "ok")

-----------------------------------------------------------------------------
(***************************************************************************)
(* loadOwnedPlatform checks the owner in a statement of its own; then one  *)
(* autocommitted DELETE locks the platform and cascades to its agents.     *)
(***************************************************************************)
DeleteCheck(r) ==
    LET p == req[r].platform IN
    /\ At(r, "delete", "check")
    /\ IF platforms[p] # Null /\ platforms[p].owner = req[r].key
         THEN Goto(r, "platform")
         ELSE Answer(r, "notfound")
    /\ UNCHANGED <<tables, held>>

DeletePlatform(r) ==
    LET p == req[r].platform IN
    /\ At(r, "delete", "platform")
    /\ Take(r, PlatformLock(p))
    /\ IF platforms[p] # Null THEN Goto(r, "cascade") ELSE Answer(r, "failed")
    /\ UNCHANGED tables

TenantLocks(p) == {<<"agent", a>> : a \in Tenants(p)}

DeleteCascade(r) ==
    LET p == req[r].platform IN
    /\ At(r, "delete", "cascade")
    /\ Free(r, TenantLocks(p))
    /\ platforms' = [platforms EXCEPT ![p] = Null]
    /\ agents' = [a \in AgentIds |-> IF a \in Tenants(p) THEN Null ELSE agents[a]]
    /\ retired' = retired \cup {p} \cup Tenants(p)
    /\ owners' = owners
    /\ Committed(r, "ok")

-----------------------------------------------------------------------------
(***************************************************************************)
(* Failures.                                                               *)
(***************************************************************************)
\* The locks r's next statement asks for.
Wanted(r) ==
    CASE req[r].at = "owner" -> {OwnerLock(req[r].key)}
      [] req[r].at = "platform" -> PlatformLock(req[r].platform)
      [] req[r].at = "agent" -> AgentLock(req[r].agent)
      [] req[r].at = "cascade" -> TenantLocks(req[r].platform)
      [] OTHER -> {}

WaitsFor(q, r) == q # r /\ Wanted(q) \cap held[r] # {}

\* r is on a cycle of the wait-for graph.
Deadlocked(r) ==
    \E S \in SUBSET Requests :
        /\ r \in S
        /\ \A q \in S : /\ \E t \in S : WaitsFor(q, t)
                        /\ \E t \in S : WaitsFor(t, q)

\* Postgres aborts a transaction that closes a cycle; the handler answers 500.
DeadlockVictim(r) == Deadlocked(r) /\ EndWith(r, "deadlock")

\* Any statement can fail: a lost connection, a full disk, an exhausted pool.
StatementFails(r) == InFlight(r) /\ EndWith(r, "failed")

\* The answer reaches the client, or the connection is gone.
Receive(r) ==
    /\ req[r].at = "done"
    /\ req' = [req EXCEPT ![r] = NoRequest]
    /\ UNCHANGED <<tables, held>>

\* The server process dies and systemd restarts it.  Postgres rolls back the
\* transactions of its connections; committed rows stay.
ServerCrash ==
    /\ \E r \in Requests : req[r] # NoRequest
    /\ req' = [r \in Requests |-> NoRequest]
    /\ held' = [r \in Requests |-> {}]
    /\ UNCHANGED tables

-----------------------------------------------------------------------------
Call(r) ==
    \/ \E k \in Keys : RegisterCall(r, k)
    \/ \E a \in AgentIds, b \in Beats : HeartbeatCall(r, a, b)
    \/ \E a \in AgentIds, k \in Keys : ClaimCall(r, a, k)
    \/ \E p \in PlatformIds, k \in Keys : DeleteCall(r, p, k)

Step(r) ==
    \/ RegisterFind(r) \/ RegisterOwner(r)
    \/ RegisterInsert(r) \/ RegisterDuplicate(r)
    \/ HeartbeatAuth(r) \/ HeartbeatFind(r)
    \/ HeartbeatPlatform(r) \/ HeartbeatAgent(r)
    \/ ClaimFind(r) \/ ClaimOwner(r) \/ ClaimAgentRow(r) \/ ClaimPlatform(r)
    \/ DeleteCheck(r) \/ DeletePlatform(r) \/ DeleteCascade(r)

Next ==
    \/ \E r \in Requests :
         \/ Call(r) \/ Step(r) \/ Receive(r)
         \/ DeadlockVictim(r) \/ StatementFails(r)
    \/ ServerCrash

Spec == Init /\ [][Next]_vars

(***************************************************************************)
(* A handler's goroutine keeps running, so its next statement is sent; a   *)
(* lock request that is granted again and again is granted to each waiter  *)
(* in turn (Postgres queues them), hence strong fairness; and the deadlock *)
(* detector runs after deadlock_timeout.                                   *)
(***************************************************************************)
Fairness ==
    \A r \in Requests : SF_vars(Step(r)) /\ WF_vars(DeadlockVictim(r))

FairSpec == Spec /\ Fairness

-----------------------------------------------------------------------------
(***************************************************************************)
(* Properties.                                                             *)
(***************************************************************************)
\* Every variable has its type: rows are complete rows, requests are requests.
TypeOK == DBTypeOK /\ req \in [Requests -> Request]

\* An agent's platform row exists and has the agent's owner, and that owner
\* exists: no crash, lost race or half-done claim of "Bind agent and its
\* auto-platform to the real owner" leaves the two rows with two owners.
OwnerAgreement ==
    \A a \in AgentIds : Live(a) =>
        /\ platforms[agents[a].platform] # Null
        /\ platforms[agents[a].platform].owner = agents[a].owner
        /\ agents[a].owner \in owners

\* However registrations race, a public key identifies at most one agent.
OneAgentPerKey ==
    \A a, b \in AgentIds :
        Live(a) /\ Live(b) /\ agents[a].key = agents[b].key => a = b

\* "One per agent": every auto-platform has exactly one agent, so neither a
\* failed registration nor a racing deletion leaves an orphan behind.
PlatformPerAgent ==
    \A p \in PlatformIds : platforms[p] # Null =>
        \E a \in AgentIds : Tenants(p) = {a}

\* last_seen_at (platform) and the endpoints (agent) come from the same
\* heartbeat, although two statements of a transaction write them.
HeartbeatWhole ==
    \A a \in AgentIds : Live(a) =>
        agents[a].beat = platforms[agents[a].platform].beat

\* Until it is claimed, an agent belongs to the owner made from its own key.
UnclaimedIsSelfOwned ==
    \A a \in AgentIds : Live(a) /\ ~agents[a].claimed =>
        agents[a].owner = agents[a].key

\* A registration is answered with an agent of the caller's key, or with one
\* that was deleted meanwhile: what remains of idempotence under races.
AnsweredWithOwnAgent ==
    \A r \in Requests :
        req[r].op = "register" /\ req[r].status \in {"created", "existing"} =>
            \/ req[r].agent \in retired
            \/ Live(req[r].agent) /\ agents[req[r].agent].key = req[r].key

\* The step that ends r's transaction may write the row that lock protects: r
\* holds the lock, or is granted it in that very step.
MayWrite(r, lock) ==
    /\ lock \in held[r] \cup Wanted(r)
    /\ InFlight(r) /\ ~InFlight(r)'
    /\ Free(r, {lock})

\* A commit changes or deletes an existing row only under the lock of the row:
\* every write of the code is covered by a lock that outlives it.
WritesAreLocked ==
    [][/\ \A a \in AgentIds : Live(a) /\ agents'[a] # agents[a] =>
            \E r \in Requests : MayWrite(r, <<"agent", a>>)
       /\ \A p \in PlatformIds : platforms[p] # Null /\ platforms'[p] # platforms[p] =>
            \E r \in Requests : MayWrite(r, <<"platform", p>>)]_vars

\* While a row lives its key and platform never change, a claim is never
\* undone, and its owner changes only in a step that leaves it claimed.
IdentityStable ==
    [][\A a \in AgentIds : Live(a) /\ Live(a)' =>
        /\ agents'[a].key = agents[a].key
        /\ agents'[a].platform = agents[a].platform
        /\ agents[a].claimed => agents'[a].claimed
        /\ agents'[a].owner # agents[a].owner => agents'[a].claimed]_vars

\* Heartbeats and deletions lock the platform before its agents, claims the
\* agent before its platform.  Whenever requests wait for one another, one of
\* each kind is caught between its two locks: claims alone, or heartbeats,
\* deletions and registrations without a claim, never deadlock.
DeadlockNeedsClaim ==
    \A S \in SUBSET Requests :
        /\ S # {}
        /\ \A q \in S : \E t \in S : WaitsFor(q, t)
        => /\ \E q \in S : At(q, "claim", "platform")
           /\ \E q \in S : At(q, "heartbeat", "agent") \/ At(q, "delete", "cascade")

\* Every request is answered or dies with the server: no handler waits for
\* ever for a lock, whatever the other requests do.
EveryRequestAnswered ==
    \A r \in Requests : InFlight(r) ~> ~InFlight(r)

\* The tables implement the abstract directory: owner and last heartbeat are
\* read from the PLATFORM row, key and claimant from the agent row, so a step is
\* a directory step only if the transaction changed both rows together.
Claimant(row) == IF row.claimed THEN row.owner ELSE Null

Entry(a) ==
    LET p == agents[a].platform IN
    [key |-> agents[a].key, owner |-> platforms[p].owner,
     claimant |-> Claimant(agents[a]), beat |-> platforms[p].beat]

EntryType == [key : Keys, owner : Keys, claimant : Keys \cup {Null},
              beat : Beats \cup {Null}]
ASSUME EntryAssumption == Null \notin EntryType

Listing == [a \in AgentIds |-> IF Live(a) THEN Entry(a) ELSE Null]

Directory == INSTANCE AgentDirectory WITH
    directory <- Listing,
    gone <- retired \cap AgentIds

DirectorySpec == Directory!Spec

(***************************************************************************)
(* The inductive invariant: the properties above, what a request in flight *)
(* relies on, and the discipline of ids and locks that keeps it true.      *)
(***************************************************************************)
\* A retired id has no row; as fresh ids are not retired, none ever returns.
RetiredGone ==
    /\ \A a \in AgentIds \cap retired : ~Live(a)
    /\ \A p \in PlatformIds \cap retired : platforms[p] = Null

LocksExclusive ==
    \A q, r \in Requests : q # r => held[q] \cap held[r] = {}

\* What a request in flight was called with.
Called(r) ==
    InFlight(r) =>
        /\ req[r].op \in {"register", "claim", "delete"} => req[r].key \in Keys
        /\ req[r].op \in {"heartbeat", "claim"} =>
              req[r].agent \in AgentIds /\ Drawn(req[r].agent)
        /\ req[r].op = "heartbeat" => req[r].beat \in Beats
        /\ req[r].op = "delete" =>
              /\ req[r].platform \in PlatformIds
              /\ req[r].platform \in retired \/ platforms[req[r].platform] # Null

\* The platform a heartbeat or a claim read is still its agent's platform, or
\* both rows are gone for good: its second UPDATE never hits a stranger's row.
OnTarget(r) ==
    /\ req[r].op \in {"heartbeat", "claim"}
    /\ req[r].at \in {"owner", "platform", "agent"}
    => /\ req[r].platform \in PlatformIds
       /\ IF Live(req[r].agent)
            THEN agents[req[r].agent].platform = req[r].platform
            ELSE req[r].platform \in retired

\* The first row a transaction updated stays locked, as long as it exists.
KeepsLock(r) ==
    /\ At(r, "heartbeat", "agent") \/ At(r, "delete", "cascade") =>
          PlatformLock(req[r].platform) \subseteq held[r]
    /\ At(r, "claim", "platform") => AgentLock(req[r].agent) \subseteq held[r]

Answered(r) ==
    req[r].op = "register" /\ req[r].status \in {"created", "existing"} =>
        /\ req[r].agent \in AgentIds
        /\ \/ req[r].agent \in retired
           \/ Live(req[r].agent) /\ agents[req[r].agent].key = req[r].key

\* The statements that wait for a lock, and the rows a transaction may have
\* locked before each: a heartbeat that waits for the agent row holds nothing
\* but its platform, a claim that waits for the platform row no platform.
LocksInOrder(r) ==
    /\ req[r].at = "owner" => req[r].op \in {"register", "claim"}
    /\ req[r].at = "platform" => req[r].op \in {"heartbeat", "claim", "delete"}
    /\ req[r].at = "agent" => req[r].op \in {"heartbeat", "claim"}
    /\ req[r].at = "cascade" => req[r].op = "delete"
    /\ \A lock \in held[r] :
          \/ /\ lock = OwnerLock(req[r].key)
             /\ \/ At(r, "register", "insert")
                \/ At(r, "claim", "agent") \/ At(r, "claim", "platform")
          \/ /\ lock = <<"agent", req[r].agent>>
             /\ At(r, "claim", "platform")
          \/ /\ lock = <<"platform", req[r].platform>>
             /\ At(r, "heartbeat", "agent") \/ At(r, "delete", "cascade")

RequestOK(r) == Called(r) /\ OnTarget(r) /\ KeepsLock(r) /\ Answered(r)

TablesOK ==
    /\ OwnerAgreement
    /\ OneAgentPerKey
    /\ PlatformPerAgent
    /\ HeartbeatWhole
    /\ UnclaimedIsSelfOwned
    /\ RetiredGone

IInv ==
    /\ TypeOK
    /\ TablesOK
    /\ LocksExclusive
    /\ \A r \in Requests : RequestOK(r) /\ LocksInOrder(r)

(***************************************************************************)
(* What comments and documentation say and races refute.                   *)
(***************************************************************************)
\* "Verify agent exists and is unclaimed" (ClaimAgent): a claim is final.
ClaimIsFinal ==
    [][\A a \in AgentIds : Live(a) /\ Live(a)' /\ agents[a].claimed =>
        agents'[a].owner = agents[a].owner]_vars
=============================================================================
