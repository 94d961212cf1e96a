--------------------------- MODULE PlatformCatalog ---------------------------
(***************************************************************************)
(* What the registry promises about provisioned platforms: a tree.  A      *)
(* platform has an owner and, by name, agents; an agent has an owner of    *)
(* its own and, by name, capabilities.  A request changes the tree once,   *)
(* at one place, or not at all.                                            *)
(*                                                                         *)
(* In a tree nothing is orphaned and a name means one thing.  It is not    *)
(* promised that an agent's owner is its platform's: Bind changes one      *)
(* agent and the platform, and Enroll may come with an earlier owner.      *)
(***************************************************************************)
CONSTANTS Owners, PlatformIds, AgentIds, CapabilityIds, Names, Contents, Null

VARIABLES
    catalog,    \* platform id -> its branch of the tree, or Null
    gone        \* ids of everything that was removed

\* A slot, of agents or of capabilities, holds one entry or none.
Slots == [n \in Names |-> {}]
Filled(slots) == UNION {slots[n] : n \in Names}
Ids(entries) == {e.id : e \in entries}

Listed == {p \in PlatformIds : catalog[p] # Null}
AgentsIn(p) == Filled(catalog[p].agents)
CapabilitiesIn(entries) == UNION {Filled(e.capabilities) : e \in entries}

NewAgent(a) ==
    a \notin gone /\ \A p \in Listed : a \notin Ids(AgentsIn(p))
NewCapability(c) ==
    c \notin gone /\ \A p \in Listed : c \notin Ids(CapabilitiesIn(AgentsIn(p)))

Agent(a, k, v) ==
    [id |-> a, owner |-> k, claimed |-> FALSE, content |-> v, capabilities |-> Slots]
Capability(c, v) == [id |-> c, content |-> v]

Init ==
    /\ catalog = [p \in PlatformIds |-> Null]
    /\ gone = {}

-----------------------------------------------------------------------------
(***************************************************************************)
(* Platforms.                                                              *)
(***************************************************************************)
Branch(k, agents) == [owner |-> k, owners |-> {k}, agents |-> agents]

Open(p, k, agents) ==
    /\ p \notin Listed \cup gone
    /\ catalog' = [catalog EXCEPT ![p] = Branch(k, agents)]
    /\ UNCHANGED gone

\* A platform comes alone, or with its first agent.
OpenEmpty(p, k) == Open(p, k, Slots)
OpenWith(p, k, n, a, v) ==
    /\ NewAgent(a)
    /\ Open(p, k, [Slots EXCEPT ![n] = {Agent(a, k, v)}])

Close(p) ==
    /\ p \in Listed
    /\ catalog' = [catalog EXCEPT ![p] = Null]
    /\ gone' = gone \cup {p} \cup Ids(AgentsIn(p)) \cup Ids(CapabilitiesIn(AgentsIn(p)))

\* What is left of a claim whose agent was removed.
Transfer(p, k) ==
    /\ p \in Listed
    /\ catalog' = [catalog EXCEPT ![p].owner = k, ![p].owners = @ \cup {k}]
    /\ UNCHANGED gone

-----------------------------------------------------------------------------
(***************************************************************************)
(* Agents of a platform p, with the name n.                                *)
(***************************************************************************)
Put(p, n, entries) == catalog' = [catalog EXCEPT ![p].agents[n] = entries]

\* The owner had the platform when the registration was authenticated.
Enroll(p, n, a, k, v) ==
    /\ p \in Listed /\ catalog[p].agents[n] = {}
    /\ k \in catalog[p].owners /\ NewAgent(a)
    /\ Put(p, n, {Agent(a, k, v)})
    /\ UNCHANGED gone

\* Registered again, or patched: the agent keeps its id, owner and claim.
Rewrite(p, n, v) ==
    /\ p \in Listed
    /\ \E e \in catalog[p].agents[n] : Put(p, n, {[e EXCEPT !.content = v]})
    /\ UNCHANGED gone

Bind(p, n, k) ==
    /\ p \in Listed
    /\ \E e \in catalog[p].agents[n] :
          catalog' = [catalog EXCEPT
              ![p].owner = k, ![p].owners = @ \cup {k},
              ![p].agents[n] = {[e EXCEPT !.owner = k, !.claimed = TRUE]}]
    /\ UNCHANGED gone

Dismiss(p, n) ==
    /\ p \in Listed
    /\ \E e \in catalog[p].agents[n] :
          gone' = gone \cup {e.id} \cup Ids(CapabilitiesIn({e}))
    /\ Put(p, n, {})

-----------------------------------------------------------------------------
(***************************************************************************)
(* Capabilities of that agent, with the name m.                            *)
(***************************************************************************)
Equipped(e, m, entries) == [e EXCEPT !.capabilities[m] = entries]

Equip(p, n, m, c, v) ==
    /\ p \in Listed /\ NewCapability(c)
    /\ \E e \in catalog[p].agents[n] :
          /\ e.capabilities[m] = {}
          /\ Put(p, n, {Equipped(e, m, {Capability(c, v)})})
    /\ UNCHANGED gone

Retune(p, n, m, v) ==
    /\ p \in Listed
    /\ \E e \in catalog[p].agents[n] : \E d \in e.capabilities[m] :
          Put(p, n, {Equipped(e, m, {[d EXCEPT !.content = v]})})
    /\ UNCHANGED gone

Strip(p, n, m) ==
    /\ p \in Listed
    /\ \E e \in catalog[p].agents[n] : \E d \in e.capabilities[m] :
          /\ Put(p, n, {Equipped(e, m, {})})
          /\ gone' = gone \cup {d.id}

-----------------------------------------------------------------------------
PlatformChange(p) ==
    \/ Close(p)
    \/ \E k \in Owners : OpenEmpty(p, k) \/ Transfer(p, k)
    \/ \E k \in Owners, n \in Names, a \in AgentIds, v \in Contents : OpenWith(p, k, n, a, v)

AgentChange(p, n) ==
    \/ \E a \in AgentIds, k \in Owners, v \in Contents : Enroll(p, n, a, k, v)
    \/ \E v \in Contents : Rewrite(p, n, v)
    \/ \E k \in Owners : Bind(p, n, k)
    \/ Dismiss(p, n)

CapabilityChange(p, n, m) ==
    \/ \E c \in CapabilityIds, v \in Contents : Equip(p, n, m, c, v)
    \/ \E v \in Contents : Retune(p, n, m, v)
    \/ Strip(p, n, m)

Next ==
    \E p \in PlatformIds :
        \/ PlatformChange(p)
        \/ \E n \in Names : AgentChange(p, n)
        \/ \E n, m \in Names : CapabilityChange(p, n, m)

Spec == Init /\ [][Next]_<<catalog, gone>>
=============================================================================
