------------------------------ MODULE RobotHost ------------------------------
(***************************************************************************)
(* Agents of the SDK on one machine: Agent.start() of robot_agent.py, with *)
(* the key file they share (keys.py, by default ~/.roboar/agent_key) and   *)
(* the registry behind them.                                               *)
(*                                                                         *)
(* The registry is AgentDirectory, the specification that AgentLifecycle   *)
(* implements: here too every change of it is one of its operations.  A    *)
(* heartbeat that is lost without an error is the subject of               *)
(* HeartbeatWindow; here a loop notices its failures.                      *)
(***************************************************************************)
EXTENDS Naturals

CONSTANTS
    Procs,          \* processes that run an Agent
    Keys,           \* keypairs, named by their public key
    People,         \* keys of people who claim agents
    AgentIds,
    Missing, Empty, \* no key file, and one without a seed in it
    Null

ASSUME FileAssumption == Missing # Empty /\ {Missing, Empty} \cap Keys = {}

\* Nothing here depends on what a heartbeat reports, the endpoint and the time.
Beats == {"beat"}

\* An entry of the registry.
Entry == [key : Keys, owner : Keys \cup People, claimant : People \cup {Null},
          beat : Beats \cup {Null}]

ASSUME NullAssumption ==
    Null \notin Keys \cup People \cup AgentIds \cup Beats \cup Entry

VARIABLES
    file,       \* the key file: a key, Missing or Empty
    proc,       \* process -> the state of its Agent
    directory,  \* the registry: agent id -> its entry, or Null
    gone,       \* ids of removed agents
    mishap      \* history: did a creation of the key file go wrong

vars == <<file, proc, directory, gone, mishap>>

Registry == INSTANCE AgentDirectory WITH Keys <- Keys \cup People

Places == {"off", "check", "read", "create", "write", "registering",
           "asleep", "beating", "found", "answered"}
Creating == {"create", "write"}
Starting == {"check", "read"} \cup Creating
Loop == {"asleep", "beating", "found", "answered"}
Loaded == Loop \cup {"registering"}

Reply == [status : {"none", "ok", "not_found", "unauthorized", "late", "failed"},
          agent : AgentIds \cup {Null}, owner : Keys \cup People \cup {Null}]
Agent == [at : Places, key : Keys \cup {Null}, agent : AgentIds \cup {Null},
          owner : Keys \cup People \cup {Null}, reply : Reply]

NoReply == [status |-> "none", agent |-> Null, owner |-> Null]
Refusal(status) == [NoReply EXCEPT !.status = status]
Off == [at |-> "off", key |-> Null, agent |-> Null, owner |-> Null, reply |-> NoReply]

Init ==
    /\ file = Missing
    /\ proc = [p \in Procs |-> Off]
    /\ Registry!Init
    /\ mishap = FALSE

Becomes(p, a) == proc' = [proc EXCEPT ![p] = a]
registry == <<directory, gone>>

-----------------------------------------------------------------------------
(***************************************************************************)
(* The key: load_or_create.                                                *)
(***************************************************************************)
Start(p) ==
    /\ proc[p].at = "off"
    /\ Becomes(p, [Off EXCEPT !.at = "check"])
    /\ UNCHANGED <<file, registry, mishap>>

\* Two starts create a key at once.
Races(p) == \E q \in Procs \ {p} : proc[q].at \in Creating

CreateKey(p) ==
    /\ Becomes(p, [proc[p] EXCEPT !.at = "create"])
    /\ mishap' = (mishap \/ Races(p))
    /\ UNCHANGED <<file, registry>>

\* path.exists()
CheckKey_Generates(p) ==            \* faulty: as `roboar auth register` does
    /\ proc[p].at = "check"
    /\ CreateKey(p)
CheckKey(p) ==
    /\ proc[p].at = "check"
    /\ IF file = Missing THEN CreateKey(p)
       ELSE /\ Becomes(p, [proc[p] EXCEPT !.at = "read"])
            /\ UNCHANGED <<file, registry, mishap>>

\* from_private_bytes raises on a seed that is not whole, and start ends.
ReadKey(p) ==
    /\ proc[p].at = "read"
    /\ Becomes(p, IF file \in Keys
                  THEN [proc[p] EXCEPT !.at = "registering", !.key = file]
                  ELSE Off)
    /\ UNCHANGED <<file, registry, mishap>>

\* A random key is one that nobody has.
FreshKeys ==
    Keys \ ({file} \cup {proc[p].key : p \in Procs}
                   \cup {directory[a].key : a \in {b \in AgentIds : Registry!Listed(b)}})

\* write_bytes opens the file, which empties it, and then writes.
OpenKey(p) ==
    /\ proc[p].at = "create"
    /\ \E k \in FreshKeys : Becomes(p, [proc[p] EXCEPT !.at = "write", !.key = k])
    /\ file' = Empty
    /\ UNCHANGED <<registry, mishap>>
WriteKey(p) ==
    /\ proc[p].at = "write"
    /\ Becomes(p, [proc[p] EXCEPT !.at = "registering"])
    /\ file' = proc[p].key
    /\ UNCHANGED <<registry, mishap>>

-----------------------------------------------------------------------------
(***************************************************************************)
(* Registration.  The registry answers with the agent of the key, or       *)
(* enrolls one; the answer may be an error although it did.                *)
(***************************************************************************)
AgentOf_Any(k) == {a \in AgentIds : Registry!Listed(a)}     \* faulty: no WHERE
AgentOf(k) == {a \in AgentIds : Registry!Listed(a) /\ directory[a].key = k}

Replies(p, at, r) == Becomes(p, [proc[p] EXCEPT !.at = at, !.reply = r])

HandleRegister(p) ==
    /\ proc[p].at = "registering" /\ proc[p].reply = NoReply
    /\ \/ /\ \E a \in AgentOf(proc[p].key) :
                Replies(p, "registering",
                        [status |-> "ok", agent |-> a, owner |-> directory[a].owner])
          /\ UNCHANGED registry
       \/ /\ AgentOf(proc[p].key) = {}
          /\ \E a \in AgentIds :
                /\ Registry!Enroll(a, proc[p].key)
                /\ \/ Replies(p, "registering",
                              [status |-> "ok", agent |-> a, owner |-> proc[p].key])
                   \/ Replies(p, "registering", Refusal("failed"))
       \/ Replies(p, "registering", Refusal("failed")) /\ UNCHANGED registry
    /\ UNCHANGED <<file, mishap>>

\* expect() raises on an error, and start ends.
Registered(p) ==
    /\ proc[p].at = "registering" /\ proc[p].reply # NoReply
    /\ Becomes(p, IF proc[p].reply.status = "ok"
                  THEN [proc[p] EXCEPT !.at = "asleep", !.agent = proc[p].reply.agent,
                                       !.owner = proc[p].reply.owner, !.reply = NoReply]
                  ELSE Off)
    /\ UNCHANGED <<file, registry, mishap>>

-----------------------------------------------------------------------------
(***************************************************************************)
(* The heartbeat loop.                                                     *)
(***************************************************************************)
SendHeartbeat(p) ==
    /\ proc[p].at = "asleep"
    /\ Replies(p, "beating", NoReply)
    /\ UNCHANGED <<file, registry, mishap>>

\* agentSigAuth reads the key first, and judges the timestamp before the signature:
\* a heartbeat that took too long, or comes of a clock that is off, is answered 401
\* whatever its signature.  How late is late is the subject of HeartbeatWindow.
RefuseLate(p) ==
    /\ proc[p].at = "beating" /\ Registry!Listed(proc[p].agent)
    /\ Replies(p, "answered", Refusal("late"))
    /\ UNCHANGED <<file, registry, mishap>>

\* The rest of agentSigAuth for one in time, and the SELECT that reads the owner.
FindAgent(p) ==
    LET a == proc[p].agent IN
    /\ proc[p].at = "beating"
    /\ IF ~Registry!Listed(a) THEN Replies(p, "answered", Refusal("not_found"))
       ELSE IF directory[a].key # proc[p].key
            THEN Replies(p, "answered", Refusal("unauthorized"))
            ELSE Replies(p, "found",
                         [status |-> "ok", agent |-> a, owner |-> directory[a].owner])
    /\ UNCHANGED <<file, registry, mishap>>

\* The updates; of an agent removed meanwhile there is none, and the answer is 200.
UpdateAgent(p) ==
    LET a == proc[p].agent IN
    /\ proc[p].at = "found"
    /\ Becomes(p, [proc[p] EXCEPT !.at = "answered"])
    /\ IF Registry!Listed(a) THEN Registry!Beat(a, "beat") ELSE UNCHANGED registry
    /\ UNCHANGED <<file, mishap>>

Asleep(p, owner) == [proc[p] EXCEPT !.at = "asleep", !.owner = owner, !.reply = NoReply]

HeartbeatAnswered_Kept(p) ==        \* faulty: owner_id is that of the registration
    /\ proc[p].at = "answered"
    /\ Becomes(p, Asleep(p, proc[p].owner))
    /\ UNCHANGED <<file, registry, mishap>>
HeartbeatAnswered(p) ==
    /\ proc[p].at = "answered"
    /\ Becomes(p, Asleep(p, IF proc[p].reply.status = "ok" THEN proc[p].reply.owner
                            ELSE proc[p].owner))
    /\ UNCHANGED <<file, registry, mishap>>

\* The connection, or a statement, fails at any point: the loop prints it.
HeartbeatFails(p) ==
    /\ proc[p].at \in Loop \ {"asleep"}
    /\ Becomes(p, Asleep(p, proc[p].owner))
    /\ UNCHANGED <<file, registry, mishap>>

\* The process dies, or start raises (the MCP port is taken).
Dies(p) ==
    /\ proc[p].at # "off"
    /\ Becomes(p, Off)
    /\ mishap' = (mishap \/ proc[p].at = "write")
    /\ UNCHANGED <<file, registry>>

-----------------------------------------------------------------------------
\* People claim agents, and delete platforms.
Claim == \E a \in AgentIds, k \in People : Registry!Bind(a, k)
Remove == \E a \in AgentIds : Registry!Remove(a)
PeopleAct == (Claim \/ Remove) /\ UNCHANGED <<file, proc, mishap>>

Next ==
    \/ PeopleAct
    \/ \E p \in Procs :
          \/ Start(p) \/ CheckKey(p) \/ ReadKey(p) \/ OpenKey(p) \/ WriteKey(p)
          \/ HandleRegister(p) \/ Registered(p)
          \/ SendHeartbeat(p) \/ RefuseLate(p) \/ FindAgent(p) \/ UpdateAgent(p)
          \/ HeartbeatAnswered(p) \/ HeartbeatFails(p) \/ Dies(p)

Spec == Init /\ [][Next]_vars

\* The loop runs on, and what it sends does not fail, or come too late, for ever.
FairSpec ==
    /\ Spec
    /\ \A p \in Procs :
          /\ WF_vars(SendHeartbeat(p) \/ HeartbeatAnswered(p))
          /\ SF_vars(FindAgent(p)) /\ SF_vars(UpdateAgent(p))
          /\ SF_vars(HeartbeatAnswered(p) /\ proc[p].reply.status = "ok")

-----------------------------------------------------------------------------
(***************************************************************************)
(* Properties.                                                             *)
(***************************************************************************)
TypeOK ==
    /\ file \in Keys \cup {Missing, Empty}
    /\ proc \in [Procs -> Agent]
    /\ directory \in [AgentIds -> Entry \cup {Null}]
    /\ gone \subseteq AgentIds
    /\ mishap \in BOOLEAN

\* "Loads or generates an Ed25519 keypair": unless two starts created a key at
\* once, or a start died while it wrote, the file is whole and holds the key that
\* every process runs with, so that the next start goes on as the same agent
\* (load_or_create checks, opens and writes in three steps).
KeyKept ==
    ~mishap =>
        /\ \A p \in Procs : proc[p].at \in Loaded => file = proc[p].key
        /\ file = Empty => \E p \in Procs : proc[p].at = "write"

\* "Self-registers with the registry (idempotent, safe to restart)": processes with
\* one key run as one agent.  A loop that keeps the id it was once told may be refused
\* a heartbeat that comes late, but none for its key, and is told that there is no
\* such agent only when that was removed, which is for good.  Meanwhile restarts,
\* removals and claims change the directory.
SameAgent ==
    \A p \in Procs : proc[p].at \in Loop =>
        LET a == proc[p].agent IN
        /\ a \in gone \/ AgentOf(proc[p].key) = {a}
        /\ proc[p].reply.status # "unauthorized"
        /\ proc[p].reply.status = "not_found" => a \in gone

\* "Refresh owner_id: it changes when a human claims the agent": a loop that goes
\* on, with an agent that stays registered, comes to know whoever claimed it last.
OwnerRefreshed ==
    \A p \in Procs, k \in People :
        <>[](/\ proc[p].at \in Loop /\ Registry!Listed(proc[p].agent)
             /\ directory[proc[p].agent].owner = k)
            => <>[](proc[p].owner = k)

-----------------------------------------------------------------------------
(***************************************************************************)
(* The inductive invariant.                                                *)
(***************************************************************************)
DirectoryOK ==
    /\ \A a, b \in AgentIds :
          Registry!Listed(a) /\ Registry!Listed(b) /\ directory[a].key = directory[b].key
              => a = b
    /\ \A a \in gone : ~Registry!Listed(a)

\* While nothing went wrong, one start at a time creates the file.
CreationOK ==
    ~mishap =>
        /\ \A p, q \in Procs :
              proc[p].at \in Creating /\ proc[q].at \in Creating => p = q
        /\ \A p \in Procs : /\ proc[p].at = "create" => file = Missing
                            /\ proc[p].at = "write" => file = Empty

\* An id that a process was told is that of its key, as long as it is listed.
TrueTo(a, k) == a \in AgentIds /\ (a \in gone \/ (Registry!Listed(a) /\ directory[a].key = k))

ProcOK(r) ==
    /\ r.at \in Starting => r.reply = NoReply
    /\ r.at \in Loaded \cup {"write"} => r.key \in Keys
    /\ r.at = "registering" /\ r.reply.status = "ok" => TrueTo(r.reply.agent, r.key)
    /\ r.at \in Loop =>
          /\ TrueTo(r.agent, r.key)
          /\ r.reply.status # "unauthorized"
          /\ r.reply.status = "not_found" => r.agent \in gone

IInv ==
    /\ TypeOK
    /\ DirectoryOK
    /\ CreationOK
    /\ \A p \in Procs : ProcOK(proc[p])
    /\ KeyKept
=============================================================================
