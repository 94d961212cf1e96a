# Robot Agent Registry: a TLA+ verification project

The registry is a Go HTTP server over PostgreSQL (`cmd/registry`, `internal/`,
`db/migrations`) with a Python SDK (`sdk/python/roboar`).  Robots register
themselves under an Ed25519 key, send heartbeats, are claimed by people, and are
found by others through discovery.  This directory holds TLA+ modules of its
core, the TLC configurations that check them, and proofs checked by TLAPS.

## 1. The system

| Component | State | Operations | Where |
|---|---|---|---|
| Agent lifecycle | rows of `owners`, `platforms`, `agents`; row locks; requests in flight | `SelfRegister`, `agentSigAuth` + `AgentHeartbeat`, `ClaimAgent`, `loadOwnedPlatform` + `DeletePlatform` | `internal/store/self_register.go`, `internal/server/self_register.go`, `*/platforms.go` |
| Owner login | map of pending challenges under a mutex; `owners`; tokens | `createOwner`, `authChallenge`, `authVerify`, `NewChallenge`, `VerifyChallenge`, `IssueJWT` | `internal/auth/auth.go`, `internal/server/owners.go` |
| Heartbeat timing | the SDK's loop, requests on their way, `last_seen_at` | `_heartbeat_loop`, `VerifyAgentRequest`, `AgentHeartbeat`, the computed `online` | `sdk/python/roboar/robot_agent.py`, `internal/auth/agent_sig.go`, `internal/store/agents.go` |
| Provisioning | rows of `platforms` with their tokens, several `agents` each, `capabilities` | `createPlatform`, `QuickIdentity`, `platformAuthBy...`, `createAgent` (`UpsertAgent`), `createCapability`, patches and deletions, the platform's `heartbeat` | `internal/server/{server,agents,platforms}.go`, `internal/store/{agents,capabilities,identities,platforms}.go` |
| Discovery, MCP endpoint | none of their own | `DiscoverAgents`, `GetDiscoverAgent`, `loadAgents`, `capabilitiesByAgent`, the five JSON-RPC tools | `internal/{store,server}/discovery.go`, `internal/store/{agents,capabilities}.go`, `internal/server/mcp.go` |
| Migrations | `schema_migrations`, the schema, DDL locks | `main`, `Store.Migrate` | `cmd/registry/main.go`, `internal/store/store.go` |
| SDK keys and CLI | key and session files | `load_or_create`, `register`, `login` | `sdk/python/roboar/{keys,session,cli}.py` |
| SDK agent | `agent_id`, `owner_id`, handlers | `start`, `_register`, MCP server | `robot_agent.py` |
| SDK platform agent | stop event | `start`, `stop`, `heartbeat_once` | `agent.py` |

How they interact.  Handlers run concurrently, one goroutine per request, and
share only the database (through a connection pool) and the challenge map
(under its mutex).  No handler holds anything in memory between requests except
that map.  The SDK talks to the server over HTTP.  Everything else that is
shared goes through SQL transactions at READ COMMITTED, so what matters is which
statements belong to one transaction, which rows each one locks, and what a
statement has read before it waited.

What is hard in it: two claims, or two first registrations, at once; claims,
heartbeats and deletions that lock the same two rows in different orders; checks
made in one statement and relied on in another; failures, crashes and lost commit
acknowledgements between the statements of a transaction; a challenge taken
under a mutex and judged after it; clocks that differ, requests that are late,
and an "online" that is computed from them; a token compared two statements before
the write it allows; upserts of one name and deletions of a parent while a child
is registered; answers put together from a count, a page and a list of
capabilities that were read at different times, and pages counted off a list that
changes; a key file that several starts create, read and leave half written; instances
that migrate one database while others crash, are
restarted or serve.  `PROJECT.json` lists each of these
hazards at its line with the properties that cover it.

What makes each part correct:

* lifecycle: an agent and its platform have one owner, a key has one agent, a
  platform one agent, and a heartbeat is written whole, whatever interleaves;
  the tables behave like a directory with atomic operations; nobody waits for
  ever;
* login: a challenge is accepted once, for its key, in its time, and a token
  exists only after that;
* timing: "online" bounds the age of the last heartbeat, and a healthy agent
  stays online;
* provisioning: nothing is orphaned, a name is given once, a platform token
  reaches only its platform's agents, and no agent belongs to somebody who had no
  part in its platform (a call about a capability is authorised by the agent in its
  path; the code does not compare that agent with the capability's);
* discovery: a walk through the pages misses nobody who stays, total and page agree,
  answers show all that was there and nobody whom the caller may not see;
* SDK agents: starts on one machine go on as one agent, whose heartbeats may be late or
  fail but are never refused for the key, and told that there is no such agent only when
  it was removed; and they come to know its owner;
* migrations: schema and record agree after any crash, whoever serves has the schema
  it needs, and every instance comes to serve.

## 2. The modules

| Module | Models |
|---|---|
| `RegistryDB` | the tables, the unique index, the cascade, ids, row locks |
| `AgentLifecycle` | the four operations on self-registered agents, statement by statement (EXTENDS `RegistryDB`) |
| `AgentDirectory` | the abstract specification of the same: one entry per agent, atomic `Enroll`, `Beat`, `Bind`, `Remove` |
| `MCAgentLifecycle` | constants and symmetry for TLC |
| `AgentLifecycleProofs`, `AgentLifecycleSteps` | the proofs about `AgentLifecycle`: invariants, then action properties and the refinement |
| `HeartbeatWindow`, `HeartbeatWindowProofs` | time in heartbeats, and proofs |
| `ChallengeAuth`, `MCChallengeAuth`, `ChallengeAuthProofs` | the login, its instances, and proofs |
| `Provisioning`, `MCProvisioning`, `ProvisioningProofs` | platforms with tokens, several agents each and capabilities; its instances, and proofs |
| `PlatformCatalog` | the abstract specification of the same: a tree of platforms, agents and capabilities that each request changes once or not at all |
| `Discovery`, `MCDiscovery`, `DiscoveryProofs` | searches, lookups and MCP tools among changes of the tables; its instances, and proofs |
| `RobotHost`, `RobotHostProofs` | SDK processes on one machine with their key file, composed with `AgentDirectory` (INSTANCE), and proofs |
| `Migrations`, `MCMigrations`, `MigrationsProofs` | start-up migrations of several instances; its instances, and proofs |
| `SchemaUpgrade` | the abstract specification of the same: a schema that goes from release to release, and processes that serve on it |

### AgentLifecycle and RegistryDB

`platforms` and `agents` are functions from ids to rows or `Null`; they hold
*committed* rows.  `req[r]` is the request a handler serves; `req[r].at` names the
SQL statement it sends next, and each statement is one action:

| Code | Actions |
|---|---|
| `SelfRegister`: SELECT by key; upsert of the owner; inserts and COMMIT; the unique violation | `RegisterFind`, `RegisterOwner`, `RegisterInsert`, `RegisterDuplicate` |
| `agentSigAuth`'s `GetAgentPublicKey`; `AgentHeartbeat`: SELECT; UPDATE platforms; UPDATE agents and COMMIT | `HeartbeatAuth`, `HeartbeatFind`, `HeartbeatPlatform`, `HeartbeatAgent` |
| `ClaimAgent`: SELECT and check; upsert; UPDATE agents; UPDATE platforms and COMMIT | `ClaimFind`, `ClaimOwner`, `ClaimAgentRow`, `ClaimPlatform` |
| `loadOwnedPlatform`; the DELETE locks the platform; it cascades and commits | `DeleteCheck`, `DeletePlatform`, `DeleteCascade` |
| any statement's error, Postgres' deadlock detector, the answer, the server's death and restart | `StatementFails`, `DeadlockVictim`, `Receive`, `ServerCrash` |

A transaction's writes reach the tables in its last action.  That is exact: under
READ COMMITTED nobody sees them earlier, and each UPDATE, DELETE or ON CONFLICT
takes the lock of its row (`held`) when the code's statement runs and keeps it
until the transaction ends, so nobody changes the row in between.
`WritesAreLocked` checks (and a proof confirms) that this discipline really covers
every write.  A statement that has to wait is an action that is not enabled;
when its row has been deleted meanwhile it locks and changes nothing and goes
on, as an UPDATE of no row does.  `Committed` answers 200 or, when the
acknowledgement is lost, 500 after the same commit.  The `CONSTANTS` are sets;
ids are drawn fresh and never again (`retired`).

### AgentDirectory

What a client may rely on.  `Bind` is last-writer-wins on purpose: the code checks
"unclaimed" in one statement and binds in another, so an exclusive `Bind` would
not be implemented (see `ClaimIsFinal` below).  The refinement mapping reads owner
and last heartbeat from the *platform* row and key and claim from the *agent*
row: a step is a directory step only if both rows change together.

### ChallengeAuth

`challenges` is `Manager.challenges`.  The critical section of `VerifyChallenge`
(`VerifyTake`) and what follows the `Unlock` (`VerifyCheck`) are two steps, so that
other requests run in between; the owner's row and the JWT are a third
(`IssueJWT`).  `Restart` empties the map.  `issued` and `logins` are history, used by
properties and to draw random challenges only once.  A signature is a Boolean: was it
made with the private key of `key`.

### HeartbeatWindow

One agent and its clock (`skew`); `beats` are the heartbeat requests on their way,
more than one when a broken connection made the loop go on while the server was
still working.  `Begin` fixes `NOW()`, which Postgres evaluates at the start of the
transaction; `Commit` writes it, however late.  `Fresh` is the window of
`VerifyAgentRequest`, `Online` the expression of the SQL queries.  `Lose` drops a
request silently; `ConnectionFails` is a loss the loop notices.
`lastSent` is history.  Time passes in seconds; `Due` makes the promises of the
constants (`MaxDelay`, `MaxWait`, and for a `Reliable` agent that it sends on time).

### Provisioning

The same tables seen from the other side of the program: platforms that a
logged-in owner creates, whose token may register any number of agents by name,
and capabilities by name with the agents.  It has its own, smaller tables
(`platforms` holds just the owner, `agents` and `capabilities` a row or `Null`),
because none of its handlers holds a lock between two statements: each
statement commits by itself.

| Code | Actions |
|---|---|
| `platformAuthByAgent`: `GetAgentPlatformID`; `authenticatePlatform`: `GetPlatformTokenHash` and the comparison | `PlatformAuthByAgent`, `AuthenticatePlatform` |
| `createPlatform`; `quickIdentity` | `CreatePlatform`, `QuickIdentity` |
| `loadOwnedPlatform`; `DeletePlatform` with its two-level cascade | `LoadOwnedPlatform`, `DeletePlatform` |
| `heartbeat`: the platform's row; one `UpdateAgentTunnel` per listed agent; the answer | `Heartbeat`, `UpdateAgentTunnel`, `HeartbeatDone` |
| `createAgent`: `UpsertAgent`, then `GetAgent` | `UpsertAgent`, `GetAgent` |
| `patchAgent`: UPDATE, then the read of the answer; `deleteAgent` | `UpdateAgent`, `ReloadAgent`, `DeleteAgent` |
| `ClaimAgent`: its SELECT; its updates and COMMIT | `ClaimFind`, `ClaimAgent` |
| `createCapability`, `patchCapability`, `deleteCapability` | `UpsertCapability`, `UpdateCapability`, `DeleteCapability` |
| an error of any statement, or the server's death; the answer arrives | `StatementFails`, `Receive` |

`content` stands for all columns that a request only overwrites.  `req[r].token` is
the platform whose token the caller presents (so `token # platform` is a wrong
token), and a statement that took effect may still be answered 500
(`Executed`).  A client names ids it can have been told (`Known`: living or deleted), and
the agent and the capability in a path are any two of them (`CapabilityCall`):
`patchCapability` and `deleteCapability` pass on the `capability_id` alone, whatever agent
the row belongs to.  A server that dies fails
every request in flight; nothing else is lost, so `StatementFails` for
each of them says the same.  A tunnel update fails without notice, as in the code:
its branch `UNCHANGED agents` is there also when the row matches.  `ownersEver` is
history.  `QuickIdentity` and the updates of `ClaimAgent` are one action each although
they are transactions of several statements: their row locks, deadlocks and failures
are the subject of `AgentLifecycle`, which shows them atomic.

Here a platform has many agents, and a claim binds one of them with the
platform.  The others, and agents registered by a request that authenticated before
the claim, keep the former owner.  So the property is `OwnerOwnedPlatform` (an owner
had a part in the platform) and not the `OwnerAgreement` of self-registered agents.
For the same reason `OnlyItsPlatformWrites` asks of a deletion's caller that the platform
was theirs when `loadOwnedPlatform` looked, not that it still is.  Of a capability it
asks less than of an agent: that it changes under its platform's token, with its
platform's deletion, or by a call that names it in a path whose agent was of the caller's
platform (`Addresses`).

### PlatformCatalog

What the three tables amount to for a client: a tree.  `catalog[p]` is a platform's branch,
with its owner and, by name, agents; each agent has an owner and a claim of its own and, by
name, capabilities.  Nothing can be orphaned in a tree, and two agents of one name would
be two entries of one slot, which no operation makes.  The operations are `OpenEmpty`, `OpenWith`,
`Close`, `Transfer` (platforms); `Enroll`, `Rewrite`, `Bind`, `Dismiss` (agents); `Equip`,
`Retune`, `Strip` (capabilities); each is one change at one place of the tree.  The mapping in
`Provisioning` (`Tree`) finds an agent's place by `platform_id` and `name`, a capability's by
`agent_id` and `name`, as the UNIQUE constraints do.  It has no requests: authentication, readings
that went stale, lost answers and failures are all stutters, and the mapped step is the
one statement that commits.  `Enroll` may come with any earlier owner of
the platform, and `Transfer` is a claim whose agent was deleted after its SELECT: both happen in the
code, so the abstract specification allows them.

### Migrations

`name[i]` is the loop variable of `Migrate` in instance `i`, `at[i]` the statement it
runs next.  `Apply` takes the lock that ALTER TABLE needs (`ddl`: one lock for all
altered tables, since every migration alters or creates the same few) and fails when
what it adds exists and its statements do not say IF NOT EXISTS (`Repeatable`:
0001 and 0003; 0002 adds its columns without).  `Record` fails on the primary key.
Schema and record change together in `Commit`.  `Fail` is a crash, a lost
connection or a failing statement; `CommitUnacknowledged` a commit the process
does not learn of; `Deploy` puts another binary (`embedded`: the migrations it brings) in
place, newer or older.  Migrations are only ever appended in filename order, as in
`db/migrations`.  After `Exit` the process is started again: that is
`Restart=always` of `deploy/registry.service`.

### SchemaUpgrade

What the start promises whoever runs it: the schema is always that of a release
(`Release(n)`, the migrations up to `n`), goes to the next one together with its record, and a
process serves only on a schema that has all of its own release.  The mapping is `schema`,
`recorded` and, for a process that serves, the release of its binary.  An abstract
`Upgrade` does not say who made it, so that lost races, rollbacks, unrecorded
acknowledgements and restarts are stutters; `CommitUnacknowledged` is an upgrade too.

### Discovery

The tables hold what the queries look at: `platforms[p]` is the computed `online`, an
agent has its platform, visibility, kind and `created_at`, a capability its agent.
`req[q]` is the request of client `q` with what its handler has read so far; each
statement is one action:

| Code | Actions |
|---|---|
| `discoverAgents`, `mcpSearchAgents`: the call, from a first page or on with a walk | `CallSearch`, `CallNextPage` |
| `DiscoverAgents`: COUNT, or its refusal; the page | `CountAgents`, `CountRefused`, `PageAgents` |
| `GetDiscoverAgent`, `GetAgent`, `ListAgentsByPlatform` | `CallLookup`, `FindAgents` |
| `capabilitiesByAgent` | `LoadCapabilities` |
| `handleMCP`, `dispatchMCPTool`: price, registration, a notification | `CallTool`, `CheckPrice`, `RegisterIdentity` |
| a statement's error; the answer | `StatementFails`, `Receive` |
| every commit of other requests: registrations, patches, heartbeats and their absence, deletions with their cascade, capabilities | `Change` |

No transaction holds the statements of an answer together, so `Change` may come between
any two.  `ORDER BY created_at DESC` is `Newer`, with LIMIT and OFFSET as `Slice` of the
ranks; `created_at` is the start of a transaction that others may overtake, hence any free
time, in the past of rows that exist too.  No two rows have the same time: with equal
times PostgreSQL may order them differently in each statement, and a walk could miss one.
The conditions on `q`, `tags`, `platform_type` and `owner_id` are left out: nothing else
depends on those columns.  `ArgumentsUsed` is the rule of PostgreSQL and pgx that a
statement takes exactly the arguments that it names.  A walk (`walk`) is what a client
does with the offset: it adds the number of agents it got, until a page is empty.
`mark` and `walk` hold the history that the properties compare an answer with.

### RobotHost

`proc[p]` is one process that runs `Agent.start()`; `file` is the key file they share
(`~/.roboar/agent_key` by default).  `Path.exists`, the opening of the file (which empties
it) and the writing of the seed are three steps, so that two starts interleave and a
process may die between them.

| Code | Actions |
|---|---|
| `load_or_create`: `exists`, `from_private_bytes`; `generate_keypair`: open, write | `Start`, `CheckKey`, `ReadKey`, `OpenKey`, `WriteKey` |
| `_register`: POST /v1/agents at the server; its answer, or the exception of `expect` | `HandleRegister`, `Registered` |
| `_send_heartbeat`; `VerifyAgentRequest` on a timestamp outside the window; the rest of `agentSigAuth` and the SELECT; the UPDATEs; the 200 or the error | `SendHeartbeat`, `RefuseLate`, `FindAgent`, `UpdateAgent`, `HeartbeatAnswered` |
| the exception that the loop prints; the end of a process or of `start` | `HeartbeatFails`, `Dies` |
| people claim agents and delete platforms | `Claim`, `Remove` |

The registry is `AgentDirectory` itself (`Registry == INSTANCE AgentDirectory WITH ...`):
each change of it is one of its operations, and `AgentLifecycleSteps` proves that the
server's code implements them.  That an answer reports an owner read two steps earlier,
or an error for a registration that happened, is in the actions.  The
server is done with a request before its process dies or gives it up; one that goes on
later is the subject of `HeartbeatWindow` and `AgentLifecycle`.  There is no clock here: any
heartbeat of a registered agent may turn out late or early (`RefuseLate`), and when
that happens is the subject of `HeartbeatWindow`.  What a heartbeat reports plays no part
(`Beats` has one element).  `mishap` is history: whether a creation of the key file raced
with another, or ended in the middle.

## 3. What is checked

Passing runs:

| Run (cfg) | Instance | Properties |
|---|---|---|
| `agent_pair` (`MCAgentPair`) | 2 agents, 2 keys, 2 beats, 2 requests; ~147,000 states | `OneAgentPerKey`, `PlatformPerAgent`, `OwnerAgreement`, `HeartbeatWhole`, `AnsweredWithOwnAgent`, `IdentityStable`, `DirectorySpec` |
| `agent_trio` (`MCAgentTrio`) | 1 agent, 1 key, 3 requests, no symmetry; ~73,000 states | `DeadlockNeedsClaim`, `IInv`, `WritesAreLocked`, `EveryRequestAnswered` |
| `challenge_auth` (`MCChallengeAuth`) | 2 keys, 2 challenges, 2 requests, TTL 1, time 0..2; ~438,000 states | `LoginsFresh`, `TokensBacked`, `IInv`, `OneTimeUse` |
| `heartbeat_lossy` (`HeartbeatLossy`) | window 2, offline 3, delays to 6, clock to 8; ~356,000 states | `OnlineMeansRecent`, `IInv` |
| `heartbeat_reliable` (`HeartbeatReliable`) | interval 2, delay 1, offline 5, clock to 24; ~2,100 states | `StaysOnline`, `AttemptEnds` |
| `provisioning` (`MCProvisioning`) | all operations; 1 platform, 2 agents, 2 capabilities, 2 owners, 1 name, 2 requests; ~500,000 states | `OwnerOwnedPlatform`, `DeletedOnce`, `IInv`, `CatalogSpec`, `OnlyItsPlatformWrites` |
| `platform_tokens` (`MCPlatformTokens`) | 7 operations; 2 platforms, 2 owners, 2 agents, 1 capability, 1 name, 2 contents, 2 requests; ~1,077,000 states | `RegisteredAsAsked`, `OnlyItsPlatformWrites` |
| `migrations` (`MCMigrations`) | 3 instances, 3 files, 2 interruptions, no symmetry; ~361,000 states | `RecordedIffApplied`, `ServingHasSchema`, `NeverCommittedTwice`, `IInv`, `UpgradeSpec`, `EveryInstanceServes` |
| `discovery` (`MCDiscovery`) | 1 client, 1 platform, 3 agents, 1 capability, limits 0 and 1 (default and maximum 2), offset -1 and on; ~495,000 states | `WalkComplete`, `TotalAgrees`, `AnswersCurrent`, `ShowsVisible` |
| `robot_host` (`MCRobotHost`) | 2 processes, 2 keys, 2 agents, 1 person, no symmetry; ~107,000 states | `KeyKept`, `SameAgent`, `IInv`, `OwnerRefreshed` |

Each `IInv` includes the module's `TypeOK` (and `Provisioning`'s also `NoOrphans` and
`NamesUnique`, that of `Migrations` also `AppliedInOrder`), so these are not listed again.
`DirectorySpec`, `CatalogSpec` and `UpgradeSpec` are refinements: TLC checks each step against the
abstract module.

The bounds.  Three requests on one agent give the longest wait cycles two rows
allow with a bystander, and a claim, a heartbeat and a deletion at once; with two
agents, two requests suffice because an invariant about two rows is broken by two
transactions.  Ids are never reused, so an instance with one agent id has one
life of an agent, with two also a registration after a deletion.  In
`MCAgentLifecycle` symmetry covers every constant set, since no operator
distinguishes elements, and is not used with liveness.  The heartbeat runs
keep the ratios of the code's 60/60/30 seconds small; the delays exceed window plus
wait, so that late, stale and refused beats all occur; deadlock checking is off
there, because the clock stops at `Horizon`, and in `migrations`, because
instances that all serve do nothing more once `MaxInterruptions` is used up.

The provisioning runs use the smallest tables that can answer their question.  The first has
all operations and, on one platform, two owners, so that one can delete what the other claimed.
With one name its two agents, and an agent's two capabilities, live one after the other: several
agents alive on one platform, and a cascade over them, rest on the proofs.  In
`platform_tokens` two platforms have an agent of the same name each, and a capability is
patched and deleted through either's path; two contents make every write visible.  There
`Served` leaves out claims, which would multiply the tables by the owner and status of each
agent, deletions of platforms and `patchAgent`; the first run has these.  Two
requests suffice because a request's reading is only ever
made stale by one other request's write.  The three migrations are those of
`db/migrations`, with their repeatability; three instances give a winner, a loser of
the race and a bystander that serves.  What the bounds leave open the proofs close.

In `discovery` three agents and pages of one or two give walks of several pages with
an agent before and behind the page; limit 0 asks for the default (so does a limit above the
maximum, which only the proof covers); one client suffices, since clients share nothing
but the tables, and everything another one can do to those is in `Change`.  In `robot_host` two
processes race for the file, two keys tell a key that was replaced from the one
before, and two agents allow one registration after a removal.

Runs that TLC refutes, each a sentence of a comment or of an answer that the code
does not keep (`findings` in `PROJECT.json` quote them):

| Run | Sentence | What happens |
|---|---|---|
| `claim_is_final` | ClaimAgent "Verify agent exists and is unclaimed" | both claims read "unclaimed"; the second replaces the owner made by the first |
| `search_answers` | "curl .../v1/discover/agents" lists agents (README, deploy/README) | a search without `online=true` is answered 500: its COUNT names no `$1`, but gets that argument |

More is reachable in the models that a reader should know of, and that no property
excludes.  Two first registrations of one key overlap: one is answered 500
(`RegisterDuplicate`), although the comment on `selfRegister` calls it idempotent; the
next attempt finds the agent.  An agent is deleted between the SELECT of its claim
and the updates: the platform alone changes hands, and the claim is answered 200
(`Provisioning!ClaimAgent`).  A lost answer leaves the heartbeat loop in `urlopen`, which
has no timeout: without `Reliable`, `AttemptEnds` fails.  A process that dies between
opening and writing the key file leaves it empty, and every later start fails in
`ReadKey`; two first starts that race may leave one process with a key that is in no
file (`mishap`; `KeyKept` says that nothing else does this).  A loop whose agent was
removed is answered 404 until its process is started again.  A claim that commits
between `loadOwnedPlatform` and the DELETE lets the former owner delete the
claimant's platform; a heartbeat may answer the owner it read before a claim; a second
challenge for a key ends the first before its 300 seconds are over.  A capability may be patched
or deleted by a call whose path names an agent of another platform, since the statement
goes by `capability_id` alone (`OnlyItsPlatformWrites` asks more of agents than of
capabilities).  A heartbeat that waits longer than the window, or comes from a clock that is
off, is answered 401 although agent and key are right (`RefuseLate`).

Every property of a passing run has a mutant in `PROJECT.json`: a faulty
form of one definition (its name is that of the definition and a suffix, its
comment says which bug it is), with which TLC finds the property violated.

Fairness.  `AgentLifecycle!FairSpec` assumes strong fairness of each request's next
statement: its goroutine keeps running, and Postgres grants a row lock to its
waiters in the order they asked, so a request that could be granted again and
again is not passed over for ever.  It assumes weak fairness of the deadlock
detector, which runs after `deadlock_timeout`.  It does not assume that requests
arrive, fail, or that the server crashes.  `HeartbeatWindow!FairSpec` assumes that
the loop's coroutine is scheduled and that the server handles what reaches it; it
does not assume that anything reaches it, nor that a loss is noticed.
`Migrations!FairSpec` assumes weak fairness of each instance's next step: a process
runs on, Postgres hands the table lock on when its holder ends, and systemd starts a
process again that exited (`Restart=always`, `RestartSec=5`, which stays below its
default limit of five starts in ten seconds).  Interruptions are bounded, never
assumed.  `RobotHost!FairSpec` assumes weak fairness of the loop itself (it wakes up, and takes its
answer), and strong fairness of `FindAgent`, `UpdateAgent` and the arrival of a 200: an
attempt may fail, or come too late, now and then, but what is tried again and again
succeeds at times; so the machine's clock is not off by more than the window for ever.  That a failure
is noticed at all is the abstraction of this module, whose counterpart is
`HeartbeatWindow`.  `OwnerRefreshed` needs nothing of people, starts or registrations.
`Provisioning` and `Discovery` state no liveness: their handlers wait for nothing.

## 4. What is proved

TLAPS proves the following for all values of the constants that satisfy the
assumptions named in the modules (`NullAssumption`, `IdsAssumption`,
`StatusAssumption`, `EntryAssumption`, `ChallengeAssumption`, `AnswerAssumption`,
`BranchAssumption`, `NoneAssumption`,
`InstanceAssumption`, `FilesAssumption`, `InterruptionsAssumption`,
`ServedAssumption`, `FilterAssumption`, `ProfileAssumption`, `TablesAssumption`,
`FileAssumption`: `Null` is none of the values, ids of different kinds differ, times
and counts are naturals, `Served` are operations of the module;
`LimitAssumption`: first offsets are at most 0 and the default limit is not;
`TimeAssumption`, `ReliableAssumption`: see below).  Nothing else is assumed.

* `AgentLifecycleProofs`: `IInv` is inductive, hence `TypeOK`, `OwnerAgreement`,
  `OneAgentPerKey`, `PlatformPerAgent`, `HeartbeatWhole`, `UnclaimedIsSelfOwned`,
  `AnsweredWithOwnAgent`; and `DeadlockNeedsClaim`.
* `AgentLifecycleSteps`: `IdentityStable`, `WritesAreLocked`, and
  `ImplementsDirectory` (`Spec => Directory!Spec`).
* `HeartbeatWindowProofs`: `OnlineMeansRecent`, `StaysOnline`.
* `ChallengeAuthProofs`: `TypeOK`, `LoginsFresh`, `TokensBacked`, `OneTimeUse`.
* `ProvisioningProofs`: `IInv`, hence `OwnerOwnedPlatform`, `NoOrphans`, `NamesUnique`,
  `RegisteredAsAsked`, `DeletedOnce`; the action property `OnlyItsPlatformWrites`; and
  `ImplementsCatalog` (`Spec => CatalogSpec`).
* `DiscoveryProofs`: `IInv` (its run checks the conjuncts that say something of answers), hence `TypeOK`, `WalkComplete`, `TotalAgrees`,
  `AnswersCurrent`; and the action property `ShowsVisible`.
* `RobotHostProofs`: `IInv`, hence `KeyKept` and `SameAgent`.
* `MigrationsProofs`: `IInv`, hence `RecordedIffApplied`, `AppliedInOrder`,
  `NeverCommittedTwice`; `ServingHasSchema`; and `ImplementsUpgrade` (`Spec => UpgradeSpec`).

The argument for the lifecycle.  `OwnerAgreement` alone is not inductive: a claim
writes the platform it *read* some statements ago.  `IInv` adds `OnTarget` (what
a heartbeat or a claim read is still the agent's platform, or both rows are gone
and their ids retired), which rests on `RetiredGone` (ids never return) and on
`IdentityStable` (no statement changes `platform_id`); `KeepsLock` and
`LocksExclusive` (the row updated first stays locked until the commit), which
`WritesAreLocked` needs; and `Called` (what a request in flight carries).
`PlatformPerAgent` makes the cascade of one deletion remove exactly one agent, so
that it is one `Remove` of the directory.  The preservation proof goes through
lemmas on what each commit does to the tables, one step per action.

The argument for deadlocks.  `LocksInOrder` says which rows a transaction has locked
at each statement that waits: a heartbeat at the agent row and a deletion at its cascade
hold only their platform; a claim at the platform row holds its agent and the claimant's
owner row; a claim at the agent row only that owner row; a transaction at the owner row none.  So in a set
of requests that all wait for one of the set, whoever waits for an owner row waits for one who
waits for something else (`Waiting`), whoever waits for an agent row waits for a
claim at its platform row, and that claim for a heartbeat or deletion that waits for an agent row
(`Crossing`).  Wherever one starts, two or three edges of the graph reach both a claim and a heartbeat or
deletion: no induction over the length of the cycle is needed, and the number of
requests does not matter.

The argument for the login.  A challenge is in the map (`PendingOK`), held by exactly
one request after `VerifyTake` (`HeldOK`), or spent (in `logins`): the three exclude
each other, which is why the check after the `Unlock` accepts it once.

The argument for timing.  A beat begun is at most `MaxWait` after its acceptance,
and was then at most `Window + skew` old (`BeatOK`); `Online` adds
`OfflineAfter`.  For `StaysOnline` the loop's next attempt is at most
`Interval + MaxDelay` after the last stamp (`InStep`), and the answer at
most `MaxDelay` later.  `ReliableAssumption` is the deployment's obligation that
makes it true: `Interval + 2 * MaxDelay < OfflineAfter` and
`MaxDelay + MaxSkew <= Window`.  With the defaults (30, 60, 60) it holds while
round trips stay below 15 seconds and no beat is lost; one failed beat
(30 s, failure, 30 s, beat) already reaches the 60-second threshold.

The argument for provisioning.  `StillTrue` says what a request in flight may still
rely on of what it has read: the agent is on the platform whose token was
compared, or its id is retired.  It survives other requests because every step
`Evolves`: ids are only added to `retired`, an agent keeps platform and name until
it is deleted, a capability its agent, and `ownersEver` only grows.  So the proof has
one lemma per kind of write (rows updated, added, removed: `TablesOK'` and
`Evolves`), one that keeps the other requests' readings (`OthersKeep`), and one
step per action that looks only at its own request.  `OnlyItsPlatformWrites`
follows: at the write, `token = platform` and `StillTrue` make the row's platform
the one whose token was presented.  For a capability `StillTrue` has only that it is there or
retired: nothing relates it to the agent of the path, so the property does not either, and
asks for the path's agent instead.  For platforms, `StillTrue` keeps that a deletion's caller is in
`ownersEver`, which only grows, and that a claim's agent is of the platform it
read, or retired.

The argument for the catalog.  `TreeOK` says that every row has a place: its parent's row is
there, and its slot holds it alone (`NoOrphans`, `NamesUnique`).  From it `TreeShape` gives the form of the
tree, and lemmas say what a write does to it: one that touches one agent, its
capabilities included, changes one slot (`OneSlotWritten`, `EntryWritten`), one that touches a
platform's row one branch (`OneBranchWritten`).  `RetiredGone` makes a drawn id new to the whole tree, and
`OwnersKnown` (an id that never had a row never had an owner) lets a
new branch start with one.  A cascade removes exactly the branch, or the entry, and retires
exactly the ids in it.

The argument for discovery.  `WalkOK` says where the next page begins: no later than at
the first agent that is still unseen, which has at least `next` newer ones before it
(`Rank`).  A page shows all ranks below `next` plus its size, so the unseen ones that
remain have at least that rank; registrations only push agents back, and a walk
that lost an agent makes no claim.  When a page is empty, an unseen agent would have
its rank beyond the end, but the ranks in a finite result with different times have no
gaps (lemma `Ranks`: they are an injection into a set of the same cardinality), so that a
page is as full as the result allows (`SliceSize`).  `TotalAgrees` is the same lemma and `CountOK` (the total is that of
the result as long as nothing moved).  `HandlerOK` keeps what a lookup must find within
what was read.

The argument for SDK agents.  `TrueTo`: an id that a process was told is of its key, or
the agent is gone; ids never return, keys are unique in the directory (`DirectoryOK`), and
a random key is nobody's, so neither restarts nor removals put a process on another
one's agent.  So the comparison of keys in `FindAgent` never fails, and an id that is not found is
gone; a late heartbeat is refused before either matters.  `CreationOK`: without a mishap at most one process is between the check and
the end of the write, the file is missing before the opening and empty after it, so that the
key that is written is the one every later start reads.

The argument for migrations.  `ddl` is exactly the instance between `Apply` and the
end of its transaction (`InstanceOK`), so between `Record`'s check of the primary
key and the commit nobody else records (`NeverCommittedTwice`); an instance has
passed only files in the schema, hence commits in order, and serves after the last
of its own.  For the upgrade: the migration that commits is not in the schema
(`NeverCommittedTwice`), all before it are (`InstanceOK`), and none after it can be, because a
later one would have this one below it (`AppliedInOrder`).  So the schema is exactly
the release before, and becomes the next.

Only model-checked: `EveryRequestAnswered`, `AttemptEnds`, `EveryInstanceServes` and
`OwnerRefreshed`, because liveness under fairness (and the ENABLED in it) is out of the
prover's reach.  Every other property of a passing run is a theorem.  The two sentences
that TLC refutes have, of course, no proof.

## 5. What is not modelled

Within the modelled operations: requests refused before their first statement
(a bad body, key or signature) change nothing and are left out; so are names,
descriptions, wallet addresses and declared capabilities, on which no branch
depends.  Foreign-key locks (FOR KEY SHARE on the owner) never conflict
with a lock that the program takes on another request's behalf without its own
upsert, and are left out.  Transactions that fail partway are rolled back by
Postgres; that is taken as given.  `ParseJWT`, `jwks` and `getMe` only read.

In `Provisioning`, `patchPlatform` is left out: it overwrites a platform's name, description
and tags; discovery shows the tags and filters by them, but no property depends on them.  So are the lists of platforms, which only read; so is `last_seen_at`, the subject of
`HeartbeatWindow`.  Parsing of migration files and the embedding are taken as given.

Of the MCP endpoint, the lists of tools, argument checks and wording of errors are left
out; of the SDK, the agent's own MCP server (no state between requests), the CLI with its
session file, the HTTP clients and `PlatformAgent`: a loop around the heartbeat
of `Provisioning`, whose `start` clears the stop event (a `stop()` just before it is
forgotten).  `RobotHost` has no torn seed, only an empty one: both make
`from_private_bytes` raise.

Not modelled: wallet derivation and models (pure data), configuration, the
shell scripts and CI, and the components of the plan below.

## 6. Plan

Done, with their proofs: A `RegistryDB` + `AgentLifecycle` + `AgentDirectory`,
B `HeartbeatWindow`, C `ChallengeAuth`, D `Migrations` + `SchemaUpgrade`,
E `Provisioning` + `PlatformCatalog`, F `Discovery`, G `RobotHost`.

To do, in this order:

1. The CLI: `auth register` (which replaces the owner's key before the registry accepts
   the new one), `auth login` and the session file, next to `RobotHost`'s key file.
2. `PlatformAgent`'s loop and stop event.
3. An abstract specification of the login (a challenge is spent once, by its key), implemented by
   `ChallengeAuth`, and the proof of the refinement.
