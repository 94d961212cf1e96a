-------------------------- MODULE ProvisioningProofs --------------------------
(***************************************************************************)
(* Proofs about Provisioning, for any number of owners, ids, names and     *)
(* requests, and any set of operations served.                             *)
(*                                                                         *)
(* A step changes one request and, perhaps, the tables.  TablesOK is what  *)
(* IInv says of the tables, Evolves what any step leaves of what a request *)
(* has read: Preserves puts the two together, and the lemmas before the    *)
(* theorem show them for each kind of write.                               *)
(*                                                                         *)
(* The last part proves that the tables implement PlatformCatalog: every   *)
(* row has one place in the tree (TreeOK), and a statement writes one slot *)
(* of it, or one branch.                                                   *)
(***************************************************************************)
EXTENDS Provisioning, TLAPS

TablesOK ==
    /\ platforms \in [PlatformIds -> Owners \cup {Null}]
    /\ agents \in [AgentIds -> AgentRow \cup {Null}]
    /\ capabilities \in [CapabilityIds -> CapabilityRow \cup {Null}]
    /\ retired \subseteq PlatformIds \cup AgentIds \cup CapabilityIds
    /\ ownersEver \in [PlatformIds -> SUBSET Owners]
    /\ RetiredGone
    /\ NoOrphans
    /\ NamesUnique
    /\ OwnersKnown
    /\ OwnerOwnedPlatform

SameAgent(a) ==
    /\ a \in Rows(agents')
    /\ agents'[a].platform = agents[a].platform /\ agents'[a].name = agents[a].name
SameCapability(c) == c \in Rows(capabilities') /\ capabilities'[c].agent = capabilities[c].agent

Evolves ==
    /\ retired \subseteq retired'
    /\ \A a \in Rows(agents) : SameAgent(a) \/ a \in retired'
    /\ \A c \in Rows(capabilities) : SameCapability(c) \/ c \in retired'
    /\ \A p \in PlatformIds : ownersEver[p] \subseteq ownersEver'[p]

Registered(r) ==
    At(r, "createAgent", "done") /\ req[r].status = "created" =>
        HasRegistered(r) \/ req[r].agent \in retired

\* Another request's reading stays true.
LEMMA OthersKeep ==
    ASSUME IInv, TablesOK', Evolves, NEW q \in Requests, req'[q] = req[q]
    PROVE  Carries(q)' /\ StillTrue(q)' /\ Registered(q)'
  <1>1. Carries(q)'
    BY DEF IInv, Carries, At
  <1>2. req[q] \in Request
    BY DEF IInv, TypeOK
  <1>3. \A a \in Rows(agents) \cup retired :
            (SameAgent(a) /\ a \in Rows(agents)) \/ (a \in retired' /\ a \notin Rows(agents'))
    BY DEF Evolves, TablesOK, RetiredGone, Rows
  <1>4. \A c \in Rows(capabilities) \cup retired :
            (SameCapability(c) /\ c \in Rows(capabilities))
            \/ (c \in retired' /\ c \notin Rows(capabilities'))
    BY DEF Evolves, TablesOK, RetiredGone, Rows
  <1>6. StillTrue(q)'
    <2>1. StillTrue(q) /\ Carries(q)
      BY DEF IInv
    <2>2. (req[q].op \in ByAgent /\ req[q].at \in {"token", "work", "load"} =>
              /\ req[q].agent \in Rows(agents') => agents'[req[q].agent].platform = req[q].platform
              /\ req[q].agent \in Rows(agents') \cup retired')
      BY <1>3, <2>1 DEF StillTrue, SameAgent
    <2>3. At(q, "claim", "work") =>
              /\ req[q].agent \in Rows(agents') => agents'[req[q].agent].platform = req[q].platform
              /\ req[q].agent \in Rows(agents') \cup retired'
      BY <1>3, <2>1 DEF StillTrue, SameAgent
    <2>4. At(q, "createAgent", "work") => req[q].owner \in ownersEver'[req[q].platform]
      BY <1>2, <2>1 DEF StillTrue, Carries, Evolves, At, Request
    <2>9. At(q, "deletePlatform", "work") => req[q].owner \in ownersEver'[req[q].platform]
      BY <1>2, <2>1 DEF StillTrue, Carries, Evolves, At, Request
    <2>5. req[q].op = "createAgent" /\ req[q].at = "load" =>
              HasRegistered(q)' \/ req[q].agent \in retired'
      BY <1>3, <2>1 DEF StillTrue, HasRegistered, SameAgent, Evolves
    <2>6. req[q].op \in {"patchCapability", "deleteCapability"} =>
              req[q].capability \in Rows(capabilities') \cup retired'
      BY <1>4, <2>1 DEF StillTrue, SameCapability
    <2>7. /\ Deletes(q, "deletePlatform") => req[q].platform \in retired'
          /\ Deletes(q, "deleteAgent") => req[q].agent \in retired'
          /\ Deletes(q, "deleteCapability") => req[q].capability \in retired'
      BY <2>1 DEF StillTrue, Evolves
    <2>8. req[q].op \in ByAgent \cup ByParam /\ req[q].at \in {"work", "tunnels", "load"} =>
              req[q].token = req[q].platform /\ req[q].platform # Null
      BY <2>1 DEF StillTrue
    <2> QED BY <2>2, <2>3, <2>4, <2>5, <2>6, <2>7, <2>8, <2>9
        DEF StillTrue, At, Deletes, Rows, ByAgent, ByParam
  <1>7. Registered(q)'
    BY <1>3 DEF IInv, RegisteredAsAsked, Registered, HasRegistered, SameAgent, Evolves, At
  <1> QED BY <1>1, <1>6, <1>7

\* A step of one request, which deletes only what was there.
LEMMA Preserves ==
    ASSUME IInv, TablesOK', Evolves, NEW r \in Requests,
           req' \in [Requests -> Request],
           \A q \in Requests \ {r} : req'[q] = req[q],
           Carries(r)', StillTrue(r)', Registered(r)',
           Deletes(r, "deletePlatform")' => req'[r].platform \notin retired,
           Deletes(r, "deleteAgent")' => req'[r].agent \notin retired,
           Deletes(r, "deleteCapability")' => req'[r].capability \notin retired
    PROVE  IInv'
  <1>1. \A q \in Requests : Carries(q)' /\ StillTrue(q)' /\ Registered(q)'
    BY OthersKeep
  <1>2. RegisteredAsAsked'
    BY <1>1 DEF RegisteredAsAsked, Registered
  <1>3. \A q \in Requests \ {r} :
            /\ Deletes(q, "deletePlatform")' => req'[q].platform \in retired
            /\ Deletes(q, "deleteAgent")' => req'[q].agent \in retired
            /\ Deletes(q, "deleteCapability")' => req'[q].capability \in retired
    BY DEF IInv, StillTrue, Deletes, At
  <1>4. DeletedOnce'
    <2> SUFFICES ASSUME NEW p \in Requests, NEW q \in Requests, p # q
        PROVE  /\ Deletes(p, "deletePlatform")' /\ Deletes(q, "deletePlatform")' =>
                     req'[p].platform # req'[q].platform
               /\ Deletes(p, "deleteAgent")' /\ Deletes(q, "deleteAgent")' =>
                     req'[p].agent # req'[q].agent
               /\ Deletes(p, "deleteCapability")' /\ Deletes(q, "deleteCapability")' =>
                     req'[p].capability # req'[q].capability
      BY DEF DeletedOnce
    <2>1. CASE p # r /\ q # r
      <3>1. req'[p] = req[p] /\ req'[q] = req[q]
        BY <2>1
      <3> QED BY <3>1 DEF IInv, DeletedOnce, Deletes, At
    <2>2. CASE p = r \/ q = r
      BY <1>3, <2>2
    <2> QED BY <2>1, <2>2
  <1> QED BY <1>1, <1>2, <1>4 DEF IInv, TypeOK, TablesOK

\* An answer.
LEMMA Answers ==
    ASSUME IInv, TablesOK', Evolves, NEW r \in Requests, NEW s \in Statuses,
           InFlight(r), Answer(r, s),
           req[r].op = "createAgent" /\ s = "created" => HasRegistered(r)' \/ req[r].agent \in retired',
           s = "deleted" =>
              /\ req[r].op = "deletePlatform" => req[r].platform \in retired' \ retired
              /\ req[r].op = "deleteAgent" => req[r].agent \in retired' \ retired
              /\ req[r].op = "deleteCapability" => req[r].capability \in retired' \ retired
    PROVE  IInv'
  <1>1. req \in [Requests -> Request]
    BY DEF IInv, TypeOK
  <1>2. /\ req' \in [Requests -> Request]
        /\ \A q \in Requests \ {r} : req'[q] = req[q]
    <2>1. [req[r] EXCEPT !.at = "done", !.status = s] \in Request
      BY <1>1 DEF Request, Places
    <2>2. req' = [req EXCEPT ![r] = [req[r] EXCEPT !.at = "done", !.status = s]]
      BY DEF Answer
    <2> HIDE DEF Request
    <2> QED BY <1>1, <2>1, <2>2
  <1>3. /\ req'[r].at = "done" /\ req'[r].status = s
        /\ req'[r].op = req[r].op /\ req'[r].platform = req[r].platform
        /\ req'[r].token = req[r].token /\ req'[r].agent = req[r].agent
        /\ req'[r].capability = req[r].capability /\ req'[r].name = req[r].name
        /\ req'[r].owner = req[r].owner /\ req'[r].content = req[r].content
    BY <1>1 DEF Answer, Request
  <1>4. Carries(r)'
    BY <1>3 DEF IInv, Carries, At
  <1>5. \A c \in Rows(capabilities) \cup retired :
            (SameCapability(c) /\ c \in Rows(capabilities))
            \/ (c \in retired' /\ c \notin Rows(capabilities'))
    BY DEF Evolves, TablesOK, RetiredGone, Rows
  <1>6. StillTrue(r)'
    <2>1. StillTrue(r)
      BY DEF IInv
    <2>2. req[r].op \in {"patchCapability", "deleteCapability"} =>
              req[r].capability \in Rows(capabilities') \cup retired'
      BY <1>5, <2>1 DEF StillTrue, SameCapability
    <2> QED BY <1>3, <2>2 DEF StillTrue, At, Deletes, Rows
  <1>7. Registered(r)'
    BY <1>3 DEF Registered, At
  <1> QED BY <1>2, <1>3, <1>4, <1>6, <1>7, Preserves DEF Deletes, At

-----------------------------------------------------------------------------
(***************************************************************************)
(* What the statements do to the tables.                                   *)
(***************************************************************************)
LEMMA SameTables ==
    ASSUME IInv, UNCHANGED tables
    PROVE  TablesOK' /\ Evolves
  BY DEF IInv, TypeOK, tables, TablesOK, Evolves, SameAgent, SameCapability, Rows,
     RetiredGone, NoOrphans, NamesUnique, OwnersKnown, OwnerOwnedPlatform

\* UPDATEs that leave every agent its platform and name.
LEMMA AgentsUpdated ==
    ASSUME IInv, UNCHANGED <<capabilities, retired>>,
           platforms' \in [PlatformIds -> Owners \cup {Null}],
           Rows(platforms') = Rows(platforms),
           ownersEver' \in [PlatformIds -> SUBSET Owners],
           \A p \in PlatformIds : ownersEver[p] \subseteq ownersEver'[p],
           OwnersKnown',
           agents' \in [AgentIds -> AgentRow \cup {Null}],
           Rows(agents') = Rows(agents),
           \A a \in Rows(agents) :
              /\ agents'[a].platform = agents[a].platform
              /\ agents'[a].name = agents[a].name
              /\ agents'[a].owner \in ownersEver'[agents[a].platform]
    PROVE  TablesOK' /\ Evolves
  <1>1. TablesOK'
    <2>1. RetiredGone' /\ NoOrphans'
      BY DEF IInv, RetiredGone, NoOrphans, Rows
    <2>2. NamesUnique'
      BY DEF IInv, NamesUnique, Rows
    <2>3. OwnerOwnedPlatform'
      BY DEF OwnerOwnedPlatform, Rows
    <2> QED BY <2>1, <2>2, <2>3 DEF IInv, TypeOK, TablesOK
  <1>2. Evolves
    BY DEF Evolves, SameAgent, SameCapability, Rows
  <1> QED BY <1>1, <1>2

\* An INSERT of an agent, perhaps with its platform.
LEMMA AgentAdded ==
    ASSUME IInv, UNCHANGED <<capabilities, retired>>,
           platforms' \in [PlatformIds -> Owners \cup {Null}],
           Rows(platforms) \subseteq Rows(platforms'),
           \A p \in Rows(platforms') : p \notin retired,
           ownersEver' \in [PlatformIds -> SUBSET Owners],
           \A p \in PlatformIds : ownersEver[p] \subseteq ownersEver'[p],
           OwnersKnown',
           NEW a \in Fresh(agents), NEW row \in AgentRow,
           row.platform \in Rows(platforms'),
           row.owner \in ownersEver'[row.platform],
           AgentNamed(row.platform, row.name) = {},
           agents' = [agents EXCEPT ![a] = row]
    PROVE  TablesOK' /\ Evolves /\ a \in Rows(agents') /\ agents'[a] = row
  <1> USE DEF Rows
  <1>1. /\ a \in AgentIds /\ agents[a] = Null /\ a \notin retired /\ row # Null
        /\ agents \in [AgentIds -> AgentRow \cup {Null}]
    BY NullAssumption DEF IInv, TypeOK, Fresh
  <1>2. /\ agents' \in [AgentIds -> AgentRow \cup {Null}] /\ agents'[a] = row
        /\ a \in Rows(agents') /\ Rows(agents') = Rows(agents) \cup {a}
        /\ \A b \in Rows(agents) : agents'[b] = agents[b]
    BY <1>1
  <1>3. RetiredGone' /\ NoOrphans'
    BY <1>1, <1>2 DEF IInv, RetiredGone, NoOrphans
  <1>4. NamesUnique'
    BY <1>1, <1>2 DEF IInv, NamesUnique, AgentNamed, AgentsOf
  <1>5. OwnerOwnedPlatform'
    BY <1>1, <1>2 DEF IInv, OwnerOwnedPlatform, TypeOK, AgentRow
  <1>6. Evolves
    BY <1>1, <1>2 DEF Evolves, SameAgent, SameCapability
  <1> QED BY <1>2, <1>3, <1>4, <1>5, <1>6 DEF IInv, TypeOK, TablesOK

\* A DELETE of platforms P or agents D with all that cascades from them.
LEMMA RowsRemoved ==
    ASSUME IInv, NEW P, NEW D,
           P \subseteq Rows(platforms), D \subseteq Rows(agents),
           \A p \in P : AgentsOf(p) \subseteq D,
           platforms' = Without(platforms, P), RemoveAgents(D),
           retired' = retired \cup P \cup D \cup CapabilitiesOf(D),
           UNCHANGED ownersEver
    PROVE  TablesOK' /\ Evolves
  <1> USE DEF Rows
  <1>1. /\ platforms' \in [PlatformIds -> Owners \cup {Null}]
        /\ Rows(platforms') = Rows(platforms) \ P
        /\ \A p \in Rows(platforms') : platforms'[p] = platforms[p]
    BY DEF IInv, TypeOK, Without
  <1>2. /\ agents' \in [AgentIds -> AgentRow \cup {Null}]
        /\ Rows(agents') = Rows(agents) \ D
        /\ \A a \in Rows(agents') : agents'[a] = agents[a]
    BY DEF IInv, TypeOK, Without, RemoveAgents
  <1>3. /\ capabilities' \in [CapabilityIds -> CapabilityRow \cup {Null}]
        /\ Rows(capabilities') = Rows(capabilities) \ CapabilitiesOf(D)
        /\ \A c \in Rows(capabilities') : capabilities'[c] = capabilities[c]
    BY DEF IInv, TypeOK, Without, RemoveAgents
  <1>4. retired' \subseteq PlatformIds \cup AgentIds \cup CapabilityIds
    BY DEF IInv, TypeOK, CapabilitiesOf
  <1>5. RetiredGone'
    BY <1>1, <1>2, <1>3, IdsAssumption DEF IInv, TypeOK, RetiredGone, CapabilitiesOf
  <1>6. NoOrphans'
    BY <1>1, <1>2, <1>3 DEF IInv, NoOrphans, CapabilitiesOf, AgentsOf
  <1>7. NamesUnique'
    BY <1>2, <1>3 DEF IInv, NamesUnique
  <1>8. OwnersKnown' /\ OwnerOwnedPlatform'
    BY <1>1, <1>2 DEF IInv, OwnersKnown, OwnerOwnedPlatform
  <1>9. Evolves
    BY <1>2, <1>3 DEF Evolves, SameAgent, SameCapability
  <1> QED BY <1>1, <1>2, <1>3, <1>4, <1>5, <1>6, <1>7, <1>8, <1>9 DEF IInv, TypeOK, TablesOK

\* An UPDATE of a capability leaves it its agent and name.
LEMMA CapabilityUpdated ==
    ASSUME IInv, UNCHANGED <<platforms, agents, retired, ownersEver>>,
           NEW c \in Rows(capabilities), NEW v \in Contents,
           capabilities' = [capabilities EXCEPT ![c].content = v]
    PROVE  TablesOK' /\ Evolves
  <1> USE DEF Rows
  <1>1. capabilities \in [CapabilityIds -> CapabilityRow \cup {Null}] /\ capabilities[c] \in CapabilityRow
    BY DEF IInv, TypeOK
  <1>2. [capabilities[c] EXCEPT !.content = v] \in CapabilityRow
    BY <1>1 DEF CapabilityRow
  <1>3. /\ capabilities' \in [CapabilityIds -> CapabilityRow \cup {Null}]
        /\ Rows(capabilities') = Rows(capabilities)
    BY <1>1, <1>2, NullAssumption
  <1>4. \A d \in Rows(capabilities) : capabilities'[d].agent = capabilities[d].agent
                                     /\ capabilities'[d].name = capabilities[d].name
    BY <1>1 DEF CapabilityRow
  <1>5. RetiredGone' /\ NoOrphans' /\ NamesUnique'
    BY <1>3, <1>4 DEF IInv, RetiredGone, NoOrphans, NamesUnique
  <1>6. OwnersKnown' /\ OwnerOwnedPlatform'
    BY DEF IInv, OwnersKnown, OwnerOwnedPlatform
  <1>7. Evolves
    BY <1>3, <1>4 DEF Evolves, SameAgent, SameCapability
  <1> QED BY <1>3, <1>5, <1>6, <1>7 DEF IInv, TypeOK, TablesOK

\* An INSERT of a capability.
LEMMA CapabilityAdded ==
    ASSUME IInv, UNCHANGED <<platforms, agents, retired, ownersEver>>,
           NEW c \in Fresh(capabilities), NEW row \in CapabilityRow,
           row.agent \in Rows(agents),
           CapabilityNamed(row.agent, row.name) = {},
           capabilities' = [capabilities EXCEPT ![c] = row]
    PROVE  TablesOK' /\ Evolves
  <1> USE DEF Rows
  <1>1. /\ c \in CapabilityIds /\ capabilities[c] = Null /\ c \notin retired /\ row # Null
        /\ capabilities \in [CapabilityIds -> CapabilityRow \cup {Null}]
    BY NullAssumption DEF IInv, TypeOK, Fresh
  <1>2. /\ capabilities' \in [CapabilityIds -> CapabilityRow \cup {Null}]
        /\ capabilities'[c] = row /\ Rows(capabilities') = Rows(capabilities) \cup {c}
        /\ \A d \in Rows(capabilities) : capabilities'[d] = capabilities[d]
    BY <1>1
  <1>3. RetiredGone' /\ NoOrphans'
    BY <1>1, <1>2 DEF IInv, RetiredGone, NoOrphans
  <1>4. NamesUnique'
    BY <1>1, <1>2 DEF IInv, NamesUnique, CapabilityNamed, CapabilitiesOf
  <1>5. OwnersKnown' /\ OwnerOwnedPlatform'
    BY DEF IInv, OwnersKnown, OwnerOwnedPlatform
  <1>6. Evolves
    BY <1>1, <1>2 DEF Evolves, SameAgent, SameCapability
  <1> QED BY <1>2, <1>3, <1>4, <1>5, <1>6 DEF IInv, TypeOK, TablesOK

\* A DELETE of a capability.
LEMMA CapabilityRemoved ==
    ASSUME IInv, UNCHANGED <<platforms, agents, ownersEver>>,
           NEW c \in Rows(capabilities),
           capabilities' = Without(capabilities, {c}), retired' = retired \cup {c}
    PROVE  TablesOK' /\ Evolves
  <1> USE DEF Rows
  <1>1. /\ capabilities' \in [CapabilityIds -> CapabilityRow \cup {Null}]
        /\ Rows(capabilities') = Rows(capabilities) \ {c}
        /\ \A d \in Rows(capabilities') : capabilities'[d] = capabilities[d]
        /\ c \in CapabilityIds
    BY DEF IInv, TypeOK, Without
  <1>2. RetiredGone'
    BY <1>1, IdsAssumption DEF IInv, TypeOK, RetiredGone
  <1>3. NoOrphans' /\ NamesUnique'
    <2>1. NoOrphans'
      BY <1>1 DEF IInv, NoOrphans
    <2>2. /\ agents' = agents /\ Rows(agents') = Rows(agents)
          /\ Rows(capabilities') \subseteq Rows(capabilities)
      BY <1>1
    <2>3. NamesUnique
      BY DEF IInv
    <2>4. NamesUnique'
      <3> HIDE DEF Rows
      <3>1. ASSUME NEW d \in Rows(capabilities'), NEW e \in Rows(capabilities'),
                   capabilities'[d].agent = capabilities'[e].agent,
                   capabilities'[d].name = capabilities'[e].name
            PROVE  d = e
        <4>1. capabilities'[d] = capabilities[d] /\ capabilities'[e] = capabilities[e]
          BY <1>1
        <4> QED BY <2>2, <2>3, <3>1, <4>1 DEF NamesUnique
      <3> QED BY <2>2, <2>3, <3>1 DEF NamesUnique
    <2> QED BY <2>1, <2>4
  <1>4. OwnersKnown' /\ OwnerOwnedPlatform'
    BY DEF IInv, OwnersKnown, OwnerOwnedPlatform
  <1>5. Evolves
    BY <1>1 DEF Evolves, SameAgent, SameCapability
  <1> QED BY <1>1, <1>2, <1>3, <1>4, <1>5 DEF IInv, TypeOK, TablesOK

-----------------------------------------------------------------------------
(***************************************************************************)
(* Requests that arrive.                                                   *)
(***************************************************************************)
\* What the arrival of x must provide.
WellFormed(x) ==
    /\ x.status = Null
    /\ \/ x.at = "work" /\ x.op = "createPlatform"
       \/ x.at = "work" /\ x.op = "quickIdentity" /\ x.name # Null /\ x.content # Null
       \/ x.at = "load" /\ x.op = "deletePlatform" /\ x.platform # Null
       \/ x.at = "load" /\ x.op = "claim" /\ x.agent # Null
       \/ x.at = "agent" /\ x.op \in ByAgent /\ x.agent # Null
       \/ x.at = "token" /\ x.op \in ByParam /\ x.platform # Null /\ x.content # Null
    /\ x.at \in {"work", "load"} => x.owner # Null
    /\ x.op \in {"createAgent", "createCapability"} => x.name # Null
    /\ x.op \in {"createCapability", "patchAgent", "patchCapability"} => x.content # Null
    /\ x.op \in {"patchCapability", "deleteCapability"} =>
          x.capability \in Known(capabilities)

LEMMA Arrived ==
    ASSUME IInv, NEW r \in Requests, NEW x \in Request, Call(r, x), WellFormed(x)
    PROVE  IInv'
  <1> HIDE DEF Request
  <1>1. /\ req' \in [Requests -> Request] /\ req'[r] = x
        /\ \A q \in Requests \ {r} : req'[q] = req[q]
    BY DEF Call, IInv, TypeOK
  <1>2. TablesOK' /\ Evolves /\ UNCHANGED tables
    BY SameTables DEF Call
  <1>3. x.capability \in Known(capabilities) => x.capability # Null
    BY NullAssumption DEF Known, Rows, IInv, TypeOK
  <1>4. Carries(r)'
    BY <1>1, <1>3 DEF WellFormed, Carries, At, ByAgent, ByParam
  <1>5. StillTrue(r)'
    BY <1>1, <1>2 DEF WellFormed, StillTrue, At, Deletes, ByAgent, ByParam, Known, Rows, tables
  <1>6. ~At(r, "createAgent", "done")' /\ ~Deletes(r, "deletePlatform")'
        /\ ~Deletes(r, "deleteAgent")' /\ ~Deletes(r, "deleteCapability")'
    BY <1>1 DEF WellFormed, At, Deletes
  <1> QED BY <1>1, <1>2, <1>4, <1>5, <1>6, Preserves DEF Registered

LEMMA Arrivals ==
    ASSUME IInv, NEW r \in Requests, Arrive(r)
    PROVE  IInv'
  <1> USE DEF ByAgent, ByParam
  <1>1. /\ Known(platforms) \subseteq PlatformIds /\ Known(agents) \subseteq AgentIds
        /\ Known(capabilities) \subseteq CapabilityIds
    BY DEF IInv, TypeOK, Known, Rows
  <1>2. /\ \A p \in PlatformIds : p # Null
        /\ \A a \in AgentIds : a # Null
        /\ \A c \in CapabilityIds : c # Null
        /\ \A k \in Owners : k # Null
        /\ \A n \in Names : n # Null
        /\ \A v \in Contents : v # Null
    BY NullAssumption
  <1>3. NoRequest \in Request
    BY DEF NoRequest, Request, Places
  <1>4. CASE OwnerCall(r)
    <2> PICK k \in Owners, n \in Names, v \in Contents :
            \/ Call(r, [NoRequest EXCEPT !.op = "createPlatform", !.at = "work", !.owner = k])
            \/ Call(r, [NoRequest EXCEPT !.op = "quickIdentity", !.at = "work",
                                         !.owner = k, !.name = n, !.content = v])
      BY <1>4 DEF OwnerCall
    <2> DEFINE x == [NoRequest EXCEPT !.op = "createPlatform", !.at = "work", !.owner = k]
               y == [NoRequest EXCEPT !.op = "quickIdentity", !.at = "work",
                                      !.owner = k, !.name = n, !.content = v]
    <2>1. x \in Request /\ WellFormed(x)
      BY <1>2 DEF NoRequest, Request, Places, Ops, WellFormed
    <2>2. y \in Request /\ WellFormed(y)
      BY <1>2 DEF NoRequest, Request, Places, Ops, WellFormed
    <2> QED BY <2>1, <2>2, Arrived
  <1>5. CASE PlatformCall(r)
    <2> PICK p \in Known(platforms), k \in Owners :
            Call(r, [NoRequest EXCEPT !.op = "deletePlatform", !.at = "load",
                                      !.platform = p, !.owner = k])
      BY <1>5 DEF PlatformCall
    <2> DEFINE x == [NoRequest EXCEPT !.op = "deletePlatform", !.at = "load",
                                      !.platform = p, !.owner = k]
    <2>1. x \in Request /\ WellFormed(x)
      BY <1>1, <1>2 DEF NoRequest, Request, Places, Ops, WellFormed
    <2> QED BY <2>1, Arrived
  <1>6. CASE TokenCall(r)
    <2> PICK p \in Known(platforms), t \in Known(platforms), n \in Names, v \in Contents :
            \/ \E D \in SUBSET Known(agents) :
                  Call(r, [NoRequest EXCEPT !.op = "heartbeat", !.at = "token", !.platform = p,
                                            !.token = t, !.content = v, !.agents = D])
            \/ Call(r, [NoRequest EXCEPT !.op = "createAgent", !.at = "token", !.platform = p,
                                         !.token = t, !.name = n, !.content = v])
      BY <1>6 DEF TokenCall
    <2> DEFINE x(D) == [NoRequest EXCEPT !.op = "heartbeat", !.at = "token", !.platform = p,
                                         !.token = t, !.content = v, !.agents = D]
               y == [NoRequest EXCEPT !.op = "createAgent", !.at = "token", !.platform = p,
                                      !.token = t, !.name = n, !.content = v]
    <2>1. ASSUME NEW D \in SUBSET Known(agents) PROVE x(D) \in Request /\ WellFormed(x(D))
      BY <1>1, <1>2 DEF NoRequest, Request, Places, Ops, WellFormed
    <2>2. y \in Request /\ WellFormed(y)
      BY <1>1, <1>2 DEF NoRequest, Request, Places, Ops, WellFormed
    <2> HIDE DEF y
    <2>3. ASSUME NEW D \in SUBSET Known(agents), Call(r, x(D)) PROVE IInv'
      <3> HIDE DEF x
      <3> QED BY <2>1, <2>3, Arrived
    <2> QED BY <2>2, <2>3, Arrived DEF y
  <1>7. CASE ClaimCall(r)
    <2> PICK a \in Known(agents), k \in Owners :
            Call(r, [NoRequest EXCEPT !.op = "claim", !.at = "load", !.agent = a, !.owner = k])
      BY <1>7 DEF ClaimCall
    <2> DEFINE x == [NoRequest EXCEPT !.op = "claim", !.at = "load", !.agent = a, !.owner = k]
    <2>1. x \in Request /\ WellFormed(x)
      BY <1>1, <1>2 DEF NoRequest, Request, Places, Ops, WellFormed
    <2> QED BY <2>1, Arrived
  <1>8. CASE AgentCall(r)
    <2> PICK a \in Known(agents), t \in Known(platforms), n \in Names, v \in Contents :
            \/ Call(r, [NoRequest EXCEPT !.op = "patchAgent", !.at = "agent", !.agent = a,
                                         !.token = t, !.content = v])
            \/ Call(r, [NoRequest EXCEPT !.op = "deleteAgent", !.at = "agent", !.agent = a,
                                         !.token = t])
            \/ Call(r, [NoRequest EXCEPT !.op = "createCapability", !.at = "agent", !.agent = a,
                                         !.token = t, !.name = n, !.content = v])
      BY <1>8 DEF AgentCall
    <2> DEFINE x == [NoRequest EXCEPT !.op = "patchAgent", !.at = "agent", !.agent = a,
                                      !.token = t, !.content = v]
               y == [NoRequest EXCEPT !.op = "deleteAgent", !.at = "agent", !.agent = a,
                                      !.token = t]
               z == [NoRequest EXCEPT !.op = "createCapability", !.at = "agent", !.agent = a,
                                      !.token = t, !.name = n, !.content = v]
    <2>1. x \in Request /\ WellFormed(x)
      BY <1>1, <1>2 DEF NoRequest, Request, Places, Ops, WellFormed
    <2>2. y \in Request /\ WellFormed(y)
      BY <1>1, <1>2 DEF NoRequest, Request, Places, Ops, WellFormed
    <2>3. z \in Request /\ WellFormed(z)
      BY <1>1, <1>2 DEF NoRequest, Request, Places, Ops, WellFormed
    <2> QED BY <2>1, <2>2, <2>3, Arrived
  <1>9. CASE CapabilityCall(r)
    <2> PICK a \in Known(agents), c \in Known(capabilities), t \in Known(platforms),
             v \in Contents :
            \/ Call(r, [NoRequest EXCEPT !.op = "patchCapability", !.at = "agent", !.agent = a,
                                         !.capability = c, !.token = t, !.content = v])
            \/ Call(r, [NoRequest EXCEPT !.op = "deleteCapability", !.at = "agent",
                                         !.agent = a, !.capability = c, !.token = t])
      BY <1>9 DEF CapabilityCall
    <2> DEFINE x == [NoRequest EXCEPT !.op = "patchCapability", !.at = "agent", !.agent = a,
                                      !.capability = c, !.token = t, !.content = v]
               y == [NoRequest EXCEPT !.op = "deleteCapability", !.at = "agent",
                                      !.agent = a, !.capability = c, !.token = t]
    <2>1. x \in Request /\ WellFormed(x)
      BY <1>1, <1>2 DEF NoRequest, Request, Places, Ops, WellFormed
    <2>2. y \in Request /\ WellFormed(y)
      BY <1>1, <1>2 DEF NoRequest, Request, Places, Ops, WellFormed
    <2> QED BY <2>1, <2>2, Arrived
  <1> QED BY <1>4, <1>5, <1>6, <1>7, <1>8, <1>9 DEF Arrive

-----------------------------------------------------------------------------
(***************************************************************************)
(* Handlers.                                                               *)
(***************************************************************************)
\* A handler goes on to its next statement.
LEMMA GoesOn ==
    ASSUME IInv, TablesOK', Evolves, NEW r \in Requests, NEW x \in Request,
           req' = [req EXCEPT ![r] = x],
           x.at \notin {"idle", "done"}, Carries(r)', StillTrue(r)'
    PROVE  IInv'
  <1> HIDE DEF Request
  <1>1. /\ req' \in [Requests -> Request] /\ req'[r] = x
        /\ \A q \in Requests \ {r} : req'[q] = req[q]
    BY DEF IInv, TypeOK
  <1>2. ~At(r, "createAgent", "done")' /\ ~Deletes(r, "deletePlatform")'
        /\ ~Deletes(r, "deleteAgent")' /\ ~Deletes(r, "deleteCapability")'
    BY <1>1 DEF At, Deletes
  <1> QED BY <1>1, <1>2, Preserves DEF Registered

\* An answer that registers and deletes nothing.
LEMMA PlainAnswer ==
    ASSUME IInv, TablesOK', Evolves, NEW r \in Requests, NEW s \in Statuses,
           InFlight(r), Answer(r, s), s # "deleted",
           req[r].op = "createAgent" => s # "created"
    PROVE  IInv'
  BY Answers

LEMMA ByAgentStep ==
    ASSUME IInv, NEW r \in Requests, PlatformAuthByAgent(r)
    PROVE  IInv'
  <1> DEFINE a == req[r].agent
  <1>1. TablesOK' /\ Evolves /\ req[r].at = "agent"
    BY SameTables DEF PlatformAuthByAgent
  <1>2. req[r] \in Request /\ Carries(r) /\ StillTrue(r)
    BY DEF IInv, TypeOK
  <1>3. CASE a \in Rows(agents)
    <2> DEFINE x == [req[r] EXCEPT !.platform = agents[a].platform, !.at = "token"]
    <2>1. agents[a] \in AgentRow /\ agents[a].platform \in PlatformIds
      BY <1>3 DEF IInv, TypeOK, Rows, AgentRow
    <2>2. req' = [req EXCEPT ![r] = x] /\ UNCHANGED tables
      BY <1>3 DEF PlatformAuthByAgent
    <2>3. x \in Request
      BY <1>2, <2>1 DEF Request, Places
    <2>4. /\ req'[r].platform = agents[a].platform /\ req'[r].at = "token"
          /\ req'[r].op = req[r].op /\ req'[r].agent = a /\ req'[r].status = req[r].status
          /\ req'[r].name = req[r].name /\ req'[r].content = req[r].content
          /\ req'[r].capability = req[r].capability /\ req'[r].owner = req[r].owner
          /\ x.at = "token"
      BY <1>2, <2>2 DEF Request, IInv, TypeOK
    <2> HIDE DEF x
    <2>5. Carries(r)'
      BY <1>1, <1>2, <2>1, <2>4, NullAssumption DEF Carries, At, ByAgent, ByParam
    <2>6. StillTrue(r)'
      BY <1>1, <1>2, <1>3, <2>2, <2>4 DEF StillTrue, Carries, At, Deletes, ByAgent, ByParam,
         Rows, tables
    <2> QED BY <1>1, <2>2, <2>3, <2>4, <2>5, <2>6, GoesOn
  <1>4. CASE a \notin Rows(agents)
    BY <1>1, <1>4, PlainAnswer DEF PlatformAuthByAgent, InFlight, Statuses
  <1> QED BY <1>3, <1>4

LEMMA ByTokenStep ==
    ASSUME IInv, NEW r \in Requests, AuthenticatePlatform(r)
    PROVE  IInv'
  <1> DEFINE p == req[r].platform
  <1>1. TablesOK' /\ Evolves /\ req[r].at = "token"
    BY SameTables DEF AuthenticatePlatform
  <1>2. req[r] \in Request /\ Carries(r) /\ StillTrue(r)
    BY DEF IInv, TypeOK
  <1>3. CASE p \in Rows(platforms) /\ req[r].token = p
    <2> DEFINE x == [req[r] EXCEPT !.owner = platforms[p], !.at = "work"]
    <2>1. platforms[p] \in Owners /\ platforms[p] \in ownersEver[p] /\ p # Null
      BY <1>3, NullAssumption DEF IInv, TypeOK, Rows, OwnersKnown
    <2>2. req' = [req EXCEPT ![r] = x] /\ UNCHANGED tables
      BY <1>3 DEF AuthenticatePlatform
    <2>3. x \in Request
      BY <1>2, <2>1 DEF Request, Places
    <2>4. /\ req'[r].owner = platforms[p] /\ req'[r].at = "work"
          /\ req'[r].op = req[r].op /\ req'[r].agent = req[r].agent /\ req'[r].platform = p
          /\ req'[r].name = req[r].name /\ req'[r].content = req[r].content
          /\ req'[r].capability = req[r].capability /\ req'[r].token = p
          /\ x.at = "work"
      BY <1>2, <1>3, <2>2 DEF Request, IInv, TypeOK
    <2> HIDE DEF x
    <2>5. Carries(r)'
      BY <1>1, <1>2, <2>1, <2>4 DEF Carries, At, ByAgent, ByParam
    <2>6. StillTrue(r)'
      BY <1>1, <1>2, <2>1, <2>2, <2>4 DEF StillTrue, Carries, At, Deletes, ByAgent, ByParam,
         Rows, tables
    <2> QED BY <1>1, <2>2, <2>3, <2>4, <2>5, <2>6, GoesOn
  <1>4. CASE ~(p \in Rows(platforms) /\ req[r].token = p)
    BY <1>1, <1>4, PlainAnswer DEF AuthenticatePlatform, InFlight, Statuses
  <1> QED BY <1>3, <1>4

\* INSERT INTO platforms, the common part of createPlatform and quickIdentity.
LEMMA PlatformAdded ==
    ASSUME IInv, NEW p \in Fresh(platforms), NEW k \in Owners,
           platforms' = [platforms EXCEPT ![p] = k],
           ownersEver' = [ownersEver EXCEPT ![p] = @ \cup {k}], UNCHANGED retired
    PROVE  /\ platforms' \in [PlatformIds -> Owners \cup {Null}]
           /\ ownersEver' \in [PlatformIds -> SUBSET Owners]
           /\ p \in PlatformIds /\ platforms[p] = Null
           /\ Rows(platforms') = Rows(platforms) \cup {p}
           /\ \A q \in Rows(platforms') : q \notin retired
           /\ \A q \in PlatformIds : ownersEver[q] \subseteq ownersEver'[q]
           /\ k \in ownersEver'[p]
           /\ OwnersKnown'
           /\ AgentsOf(p) = {}
  <1> USE DEF Rows
  <1>1. /\ platforms \in [PlatformIds -> Owners \cup {Null}]
        /\ ownersEver \in [PlatformIds -> SUBSET Owners]
        /\ p \in PlatformIds /\ p \notin retired /\ platforms[p] = Null /\ k # Null
    BY NullAssumption DEF IInv, TypeOK, Fresh
  <1>2. /\ platforms' \in [PlatformIds -> Owners \cup {Null}]
        /\ platforms'[p] = k /\ \A q \in PlatformIds \ {p} : platforms'[q] = platforms[q]
        /\ ownersEver' \in [PlatformIds -> SUBSET Owners]
        /\ ownersEver'[p] = ownersEver[p] \cup {k}
        /\ \A q \in PlatformIds \ {p} : ownersEver'[q] = ownersEver[q]
    BY <1>1
  <1>3. Rows(platforms') = Rows(platforms) \cup {p}
    BY <1>1, <1>2
  <1>4. OwnersKnown'
    BY <1>1, <1>2 DEF OwnersKnown, IInv
  <1>5. \A q \in Rows(platforms') : q \notin retired
    BY <1>1, <1>3 DEF IInv, RetiredGone
  <1>6. AgentsOf(p) = {}
    BY <1>1 DEF AgentsOf, IInv, NoOrphans
  <1> QED BY <1>1, <1>2, <1>3, <1>4, <1>5, <1>6

LEMMA CreatePlatformStep ==
    ASSUME IInv, NEW r \in Requests, CreatePlatform(r)
    PROVE  IInv'
  <1>1. req[r].owner \in Owners /\ req[r].op = "createPlatform" /\ req[r].at = "work"
    BY DEF IInv, TypeOK, Request, Carries, CreatePlatform, At
  <1>2. PICK p \in Fresh(platforms) :
          /\ platforms' = [platforms EXCEPT ![p] = req[r].owner]
          /\ ownersEver' = [ownersEver EXCEPT ![p] = @ \cup {req[r].owner}]
    BY DEF CreatePlatform
  <1>3. UNCHANGED <<agents, capabilities, retired>> /\ Executed(r, "created")
    BY DEF CreatePlatform
  <1> DEFINE k == req[r].owner
  <1>4. k \in Owners /\ platforms' = [platforms EXCEPT ![p] = k]
        /\ ownersEver' = [ownersEver EXCEPT ![p] = @ \cup {k}]
    BY <1>1, <1>2
  <1> HIDE DEF k
  <1>5. /\ platforms' \in [PlatformIds -> Owners \cup {Null}]
        /\ ownersEver' \in [PlatformIds -> SUBSET Owners]
        /\ Rows(platforms') = Rows(platforms) \cup {p}
        /\ \A q \in Rows(platforms') : q \notin retired
        /\ \A q \in PlatformIds : ownersEver[q] \subseteq ownersEver'[q]
        /\ OwnersKnown'
    BY <1>3, <1>4, PlatformAdded
  <1>6. TablesOK'
    <2>1. RetiredGone' /\ NoOrphans' /\ NamesUnique'
      BY <1>3, <1>5 DEF IInv, RetiredGone, NoOrphans, NamesUnique, Rows
    <2>2. ASSUME NEW a \in Rows(agents) PROVE agents[a].platform \in PlatformIds
      BY DEF IInv, TypeOK, NoOrphans, Rows
    <2>3. OwnerOwnedPlatform'
      BY <1>3, <1>5, <2>2 DEF IInv, OwnerOwnedPlatform, Rows
    <2> QED BY <1>3, <1>5, <2>1, <2>3 DEF IInv, TypeOK, TablesOK
  <1>7. Evolves
    BY <1>3, <1>5 DEF Evolves, SameAgent, SameCapability, Rows
  <1> QED BY <1>1, <1>3, <1>6, <1>7, PlainAnswer DEF Executed, InFlight, Statuses

LEMMA QuickIdentityStep ==
    ASSUME IInv, NEW r \in Requests, QuickIdentity(r)
    PROVE  IInv'
  <1> DEFINE k == req[r].owner
  <1>1. /\ k \in Owners /\ req[r].name \in Names /\ req[r].content \in Contents
        /\ req[r].op = "quickIdentity" /\ req[r].at = "work"
    BY DEF IInv, TypeOK, Request, Carries, QuickIdentity, At
  <1>2. PICK p \in Fresh(platforms), a \in Fresh(agents) :
          /\ platforms' = [platforms EXCEPT ![p] = k]
          /\ ownersEver' = [ownersEver EXCEPT ![p] = @ \cup {k}]
          /\ agents' = [agents EXCEPT ![a] =
                [platform |-> p, name |-> req[r].name, owner |-> req[r].owner,
                 claimed |-> FALSE, content |-> req[r].content]]
    BY DEF QuickIdentity
  <1>3. UNCHANGED <<capabilities, retired>> /\ Executed(r, "created")
    BY DEF QuickIdentity
  <1> DEFINE row == [platform |-> p, name |-> req[r].name, owner |-> req[r].owner,
                     claimed |-> FALSE, content |-> req[r].content]
  <1>4. agents' = [agents EXCEPT ![a] = row]
    BY <1>2
  <1>5. p \in PlatformIds
    BY DEF IInv, TypeOK, Fresh
  <1>6. row \in AgentRow /\ row.platform = p /\ row.owner = k
    BY <1>1, <1>5 DEF AgentRow
  <1> HIDE DEF k, row
  <1>7. /\ platforms' \in [PlatformIds -> Owners \cup {Null}]
        /\ ownersEver' \in [PlatformIds -> SUBSET Owners]
        /\ Rows(platforms') = Rows(platforms) \cup {p}
        /\ \A q \in Rows(platforms') : q \notin retired
        /\ \A q \in PlatformIds : ownersEver[q] \subseteq ownersEver'[q]
        /\ k \in ownersEver'[p] /\ OwnersKnown' /\ AgentsOf(p) = {}
    BY <1>1, <1>2, <1>3, PlatformAdded
  <1>8. AgentNamed(row.platform, row.name) = {}
    BY <1>6, <1>7 DEF AgentNamed
  <1>9. TablesOK' /\ Evolves
    BY <1>3, <1>4, <1>6, <1>7, <1>8, AgentAdded
  <1> QED BY <1>1, <1>3, <1>9, PlainAnswer DEF Executed, InFlight, Statuses

LEMMA DeletePlatformStep ==
    ASSUME IInv, NEW r \in Requests, DeletePlatform(r)
    PROVE  IInv'
  <1> DEFINE p == req[r].platform
  <1>1. req[r].op = "deletePlatform" /\ req[r].at = "work"
    BY DEF DeletePlatform, At
  <1>2. CASE p \in Rows(platforms)
    <2> DEFINE D == AgentsOf(p)
    <2>1. /\ platforms' = Without(platforms, {p}) /\ RemoveAgents(D)
          /\ retired' = retired \cup {p} \cup D \cup CapabilitiesOf(D)
          /\ UNCHANGED ownersEver /\ Executed(r, "deleted")
      BY <1>2 DEF DeletePlatform
    <2>2. D \subseteq Rows(agents)
      BY DEF AgentsOf
    <2>3. TablesOK' /\ Evolves
      <3> HIDE DEF p
      <3>1. \A q \in {p} : AgentsOf(q) \subseteq D
        OBVIOUS
      <3> HIDE DEF D
      <3> QED BY <1>2, <2>1, <2>2, <3>1, RowsRemoved
    <2>4. p \in retired' \ retired
      BY <1>2, <2>1 DEF IInv, RetiredGone
    <2>5. CASE Answer(r, "deleted")
      BY <1>1, <2>3, <2>4, <2>5, Answers DEF InFlight, Statuses
    <2>6. CASE Answer(r, "failed")
      BY <1>1, <2>3, <2>6, PlainAnswer DEF InFlight, Statuses
    <2> QED BY <2>1, <2>5, <2>6 DEF Executed
  <1>3. CASE p \notin Rows(platforms)
    BY <1>1, <1>3, SameTables, PlainAnswer DEF DeletePlatform, InFlight, Statuses
  <1> QED BY <1>2, <1>3

\* A handler goes on and keeps what it has read.
LEMMA Advances ==
    ASSUME IInv, TablesOK', Evolves, NEW r \in Requests, InFlight(r),
           NEW place \in {"work", "tunnels", "load"}, Goto(r, place),
           place = "tunnels" => req[r].op = "heartbeat",
           req[r].op # "createAgent",
           req[r].op \in ByAgent \cup ByParam => req[r].at = "work",
           req[r].op # "claim",
           req[r].op = "deletePlatform" => req[r].owner \in ownersEver'[req[r].platform]
    PROVE  IInv'
  <1> DEFINE x == [req[r] EXCEPT !.at = place]
  <1>1. req[r] \in Request /\ Carries(r) /\ StillTrue(r)
    BY DEF IInv, TypeOK
  <1>2. req' = [req EXCEPT ![r] = x] /\ x \in Request
    BY <1>1 DEF Goto, Request, Places
  <1>3. /\ req'[r].at = place /\ x.at = place /\ req'[r].status = req[r].status
        /\ req'[r].op = req[r].op /\ req'[r].agent = req[r].agent
        /\ req'[r].platform = req[r].platform /\ req'[r].token = req[r].token
        /\ req'[r].name = req[r].name /\ req'[r].content = req[r].content
        /\ req'[r].capability = req[r].capability /\ req'[r].owner = req[r].owner
    BY <1>1 DEF Goto, Request, IInv, TypeOK
  <1> HIDE DEF x
  <1>4. Carries(r)'
    BY <1>1, <1>3 DEF Carries, At
  <1>5. \A a \in Rows(agents) \cup retired :
            (SameAgent(a) /\ a \in Rows(agents)) \/ (a \in retired' /\ a \notin Rows(agents'))
    BY DEF Evolves, TablesOK, RetiredGone, Rows
  <1>6. \A c \in Rows(capabilities) \cup retired :
            (SameCapability(c) /\ c \in Rows(capabilities))
            \/ (c \in retired' /\ c \notin Rows(capabilities'))
    BY DEF Evolves, TablesOK, RetiredGone, Rows
  <1>7. req[r].op \in ByAgent =>
            /\ req[r].agent \in Rows(agents') => agents'[req[r].agent].platform = req[r].platform
            /\ req[r].agent \in Rows(agents') \cup retired'
    BY <1>1, <1>5 DEF StillTrue, SameAgent
  <1>8. req[r].op \in {"patchCapability", "deleteCapability"} =>
            req[r].capability \in Rows(capabilities') \cup retired'
    BY <1>1, <1>6 DEF StillTrue, SameCapability
  <1>9. StillTrue(r)'
    BY <1>1, <1>3, <1>7, <1>8 DEF StillTrue, At, Deletes, Rows, ByAgent, ByParam
  <1> QED BY <1>2, <1>3, <1>4, <1>9, GoesOn

LEMMA LoadOwnedPlatformStep ==
    ASSUME IInv, NEW r \in Requests, LoadOwnedPlatform(r)
    PROVE  IInv'
  <1>1. /\ req[r].op = "deletePlatform" /\ req[r].at = "load"
        /\ TablesOK' /\ Evolves
    BY SameTables DEF LoadOwnedPlatform, At
  <1>2. CASE platforms[req[r].platform] = req[r].owner /\ Goto(r, "work")
    <2>1. req[r].platform \in PlatformIds /\ req[r].owner # Null
      BY <1>1 DEF Carries, Request, IInv, TypeOK
    <2>2. req[r].owner \in ownersEver[req[r].platform] /\ ownersEver' = ownersEver
      BY <1>2, <2>1 DEF LoadOwnedPlatform, tables, Rows, OwnersKnown, IInv, TypeOK
    <2> QED BY <1>1, <1>2, <2>2, Advances DEF InFlight, ByAgent, ByParam
  <1>3. CASE Answer(r, "not_found")
    BY <1>1, <1>3, PlainAnswer DEF InFlight, Statuses
  <1> QED BY <1>2, <1>3 DEF LoadOwnedPlatform

LEMMA HeartbeatStep ==
    ASSUME IInv, NEW r \in Requests, Heartbeat(r) \/ HeartbeatDone(r)
    PROVE  IInv'
  <1>1. /\ req[r].op = "heartbeat" /\ req[r].at \in {"work", "tunnels"}
        /\ TablesOK' /\ Evolves
    BY SameTables DEF Heartbeat, HeartbeatDone, At
  <1>2. CASE req[r].at = "work" /\ Goto(r, "tunnels")
    BY <1>1, <1>2, Advances DEF InFlight
  <1>3. CASE Answer(r, "failed") \/ Answer(r, "ok")
    BY <1>1, <1>3, PlainAnswer DEF InFlight, Statuses
  <1> QED BY <1>2, <1>3 DEF Heartbeat, HeartbeatDone, At

\* An UPDATE of an agent's content.
LEMMA ContentUpdated ==
    ASSUME IInv, UNCHANGED <<platforms, capabilities, retired, ownersEver>>,
           NEW a \in Rows(agents), NEW v \in Contents,
           agents' = [agents EXCEPT ![a].content = v]
    PROVE  /\ TablesOK' /\ Evolves /\ a \in Rows(agents')
           /\ agents'[a].platform = agents[a].platform /\ agents'[a].name = agents[a].name
  <1> USE DEF Rows
  <1>1. agents \in [AgentIds -> AgentRow \cup {Null}] /\ agents[a] \in AgentRow
    BY DEF IInv, TypeOK
  <1>2. [agents[a] EXCEPT !.content = v] \in AgentRow
    BY <1>1 DEF AgentRow
  <1>3. agents' \in [AgentIds -> AgentRow \cup {Null}] /\ Rows(agents') = Rows(agents)
    BY <1>1, <1>2, NullAssumption
  <1>4. \A b \in Rows(agents) :
            /\ agents'[b].platform = agents[b].platform
            /\ agents'[b].name = agents[b].name
            /\ agents'[b].owner = agents[b].owner
    BY <1>1 DEF AgentRow
  <1>5. \A b \in Rows(agents) : agents'[b].owner \in ownersEver'[agents[b].platform]
    BY <1>4 DEF IInv, OwnerOwnedPlatform
  <1>6. /\ platforms' \in [PlatformIds -> Owners \cup {Null}]
        /\ ownersEver' \in [PlatformIds -> SUBSET Owners]
        /\ Rows(platforms') = Rows(platforms) /\ OwnersKnown'
        /\ \A p \in PlatformIds : ownersEver[p] \subseteq ownersEver'[p]
    BY DEF IInv, TypeOK, OwnersKnown
  <1> HIDE DEF Rows
  <1>7. TablesOK' /\ Evolves
    BY <1>3, <1>4, <1>5, <1>6, AgentsUpdated
  <1> QED BY <1>3, <1>4, <1>7

LEMMA TunnelStep ==
    ASSUME IInv, NEW r \in Requests, UpdateAgentTunnel(r)
    PROVE  IInv'
  <1>1. req[r].op = "heartbeat" /\ req[r].at = "tunnels" /\ req[r] \in Request
        /\ Carries(r) /\ StillTrue(r)
    BY DEF UpdateAgentTunnel, At, IInv, TypeOK
  <1>2. PICK a \in req[r].agents :
          /\ req' = [req EXCEPT ![r].agents = @ \ {a}]
          /\ \/ /\ Tunnelled(r, a)
                /\ agents' = [agents EXCEPT ![a].content = req[r].content]
             \/ UNCHANGED agents
    BY DEF UpdateAgentTunnel
  <1>3. UNCHANGED <<platforms, capabilities, retired, ownersEver>>
    BY DEF UpdateAgentTunnel
  <1>4. TablesOK' /\ Evolves
    <2>1. CASE UNCHANGED agents
      BY <1>3, <2>1, SameTables DEF tables
    <2>2. CASE Tunnelled(r, a) /\ agents' = [agents EXCEPT ![a].content = req[r].content]
      <3>1. a \in Rows(agents) /\ req[r].content \in Contents
        BY <1>1, <2>2 DEF Tunnelled, AgentsOf, Carries, Request
      <3> QED BY <1>3, <2>2, <3>1, ContentUpdated
    <2> QED BY <1>2, <2>1, <2>2
  <1> DEFINE x == [req[r] EXCEPT !.agents = @ \ {a}]
  <1>5. req' = [req EXCEPT ![r] = x] /\ x \in Request
    BY <1>1, <1>2 DEF Request
  <1>6. /\ req'[r].at = "tunnels" /\ x.at = "tunnels" /\ req'[r].status = req[r].status
        /\ req'[r].op = "heartbeat" /\ req'[r].agent = req[r].agent
        /\ req'[r].platform = req[r].platform /\ req'[r].token = req[r].token
        /\ req'[r].name = req[r].name /\ req'[r].content = req[r].content
        /\ req'[r].capability = req[r].capability /\ req'[r].owner = req[r].owner
    BY <1>1, <1>2 DEF Request, IInv, TypeOK
  <1> HIDE DEF x
  <1>7. Carries(r)' /\ StillTrue(r)'
    BY <1>1, <1>6 DEF Carries, StillTrue, At, Deletes, ByAgent, ByParam
  <1> QED BY <1>4, <1>5, <1>6, <1>7, GoesOn

LEMMA UpsertAgentStep ==
    ASSUME IInv, NEW r \in Requests, UpsertAgent(r)
    PROVE  IInv'
  <1> DEFINE p == req[r].platform
             named == AgentNamed(p, req[r].name)
  <1>1. /\ req[r].op = "createAgent" /\ req[r].at = "work" /\ req[r] \in Request
        /\ Carries(r) /\ StillTrue(r)
    BY DEF UpsertAgent, At, IInv, TypeOK
  <1>2. /\ p \in PlatformIds /\ req[r].token = p /\ req[r].name \in Names
        /\ req[r].content \in Contents /\ req[r].owner \in ownersEver[p]
        /\ req[r].owner \in Owners
    BY <1>1 DEF StillTrue, Carries, Request, At, ByParam, IInv, TypeOK
  <1>3. UNCHANGED <<platforms, capabilities, retired, ownersEver>>
    BY DEF UpsertAgent
  \* Wherever the agent comes from, the handler goes on to read it.
  <1>4. ASSUME NEW a \in Rows(agents'), TablesOK', Evolves, Upserted(r, a),
               agents'[a].platform = p, agents'[a].name = req[r].name
        PROVE  IInv'
    <2> DEFINE x == [req[r] EXCEPT !.agent = a, !.at = "load"]
    <2>1. CASE req' = [req EXCEPT ![r].agent = a, ![r].at = "load"]
      <3>0. a \in AgentIds
        BY <1>4 DEF TablesOK, Rows
      <3>1. req' = [req EXCEPT ![r] = x]
        BY <2>1
      <3>2. x \in Request
        BY <1>1, <3>0 DEF Request, Places
      <3>3. /\ req'[r].at = "load" /\ x.at = "load" /\ req'[r].status = req[r].status
            /\ req'[r].op = "createAgent" /\ req'[r].agent = a
            /\ req'[r].platform = p /\ req'[r].token = p
            /\ req'[r].name = req[r].name /\ req'[r].content = req[r].content
            /\ req'[r].capability = req[r].capability /\ req'[r].owner = req[r].owner
        BY <1>1, <1>2, <3>1 DEF Request, IInv, TypeOK
      <3> HIDE DEF x
      <3>4. Carries(r)'
        BY <1>1, <3>0, <3>3 DEF Carries, At, ByAgent, ByParam
      <3>5. StillTrue(r)'
        BY <1>1, <1>2, <1>4, <3>3, NullAssumption
        DEF StillTrue, HasRegistered, At, Deletes, ByAgent, ByParam, Rows
      <3> QED BY <1>4, <3>1, <3>2, <3>3, <3>4, <3>5, GoesOn
    <2>2. CASE Answer(r, "failed")
      BY <1>1, <1>4, <2>2, PlainAnswer DEF InFlight, Statuses
    <2> QED BY <1>4, <2>1, <2>2 DEF Upserted
  <1>5. ASSUME NEW a \in named, agents' = [agents EXCEPT ![a].content = req[r].content],
               Upserted(r, a)
        PROVE  IInv'
    <2>1. a \in Rows(agents) /\ agents[a].platform = p /\ agents[a].name = req[r].name
      BY DEF AgentNamed, AgentsOf
    <2>2. /\ TablesOK' /\ Evolves /\ a \in Rows(agents')
          /\ agents'[a].platform = p /\ agents'[a].name = req[r].name
      <3> HIDE DEF p, named
      <3> QED BY <1>2, <1>3, <1>5, <2>1, ContentUpdated
    <2> QED BY <1>4, <1>5, <2>2
  <1>6. ASSUME named = {}, p \in Rows(platforms), NEW a \in Fresh(agents),
               agents' = [agents EXCEPT ![a] =
                  [platform |-> p, name |-> req[r].name, owner |-> req[r].owner,
                   claimed |-> FALSE, content |-> req[r].content]],
               Upserted(r, a)
        PROVE  IInv'
    <2> DEFINE row == [platform |-> p, name |-> req[r].name, owner |-> req[r].owner,
                       claimed |-> FALSE, content |-> req[r].content]
    <2>1. /\ row \in AgentRow /\ row.platform = p /\ row.name = req[r].name
          /\ row.owner = req[r].owner /\ agents' = [agents EXCEPT ![a] = row]
      BY <1>2, <1>6 DEF AgentRow
    <2>2. AgentNamed(row.platform, row.name) = {}
      BY <1>6
    <2>3. /\ platforms' \in [PlatformIds -> Owners \cup {Null}]
          /\ ownersEver' \in [PlatformIds -> SUBSET Owners]
          /\ platforms' = platforms /\ ownersEver' = ownersEver
          /\ Rows(platforms) \subseteq Rows(platforms')
          /\ \A q \in Rows(platforms') : q \notin retired
          /\ \A q \in PlatformIds : ownersEver[q] \subseteq ownersEver'[q]
          /\ OwnersKnown'
      BY <1>3 DEF IInv, TypeOK, RetiredGone, OwnersKnown, Rows
    <2> HIDE DEF row, p, named
    <2>4. row.platform \in Rows(platforms') /\ row.owner \in ownersEver'[row.platform]
      BY <1>2, <1>6, <2>1, <2>3
    <2>5. UNCHANGED <<capabilities, retired>>
      BY <1>3
    <2>6. TablesOK' /\ Evolves /\ a \in Rows(agents') /\ agents'[a] = row
      BY <2>1, <2>2, <2>3, <2>4, <2>5, AgentAdded
    <2> QED BY <1>4, <1>6, <2>1, <2>6
  <1>7. CASE Answer(r, "failed") /\ UNCHANGED agents
    BY <1>1, <1>3, <1>7, SameTables, PlainAnswer DEF tables, InFlight, Statuses
  <1> QED BY <1>5, <1>6, <1>7 DEF UpsertAgent, OnConflict

LEMMA GetAgentStep ==
    ASSUME IInv, NEW r \in Requests, GetAgent(r) \/ ReloadAgent(r)
    PROVE  IInv'
  <1>1. TablesOK' /\ Evolves /\ req[r].at = "load" /\ UNCHANGED tables
    BY SameTables DEF GetAgent, ReloadAgent, At
  <1>2. CASE GetAgent(r)
    <2>1. req[r].op = "createAgent" /\ StillTrue(r)
      BY <1>2 DEF GetAgent, At, IInv
    <2>2. HasRegistered(r) \/ req[r].agent \in retired
      BY <1>1, <2>1 DEF StillTrue
    <2>3. CASE Answer(r, "created") /\ req[r].agent \in Rows(agents)
      <3>1. HasRegistered(r)
        BY <2>2, <2>3 DEF HasRegistered, IInv, RetiredGone
      <3>2. req \in [Requests -> Request]
        BY DEF IInv, TypeOK
      <3>3. HasRegistered(r)'
        BY <1>1, <2>3, <3>1, <3>2 DEF HasRegistered, Answer, tables, Rows, Request
      <3> QED BY <1>1, <2>1, <2>3, <3>3, Answers DEF InFlight, Statuses
    <2>4. CASE Answer(r, "failed")
      BY <1>1, <2>4, PlainAnswer DEF InFlight, Statuses
    <2> QED BY <1>2, <2>3, <2>4 DEF GetAgent
  <1>3. CASE ReloadAgent(r)
    BY <1>1, <1>3, PlainAnswer DEF ReloadAgent, At, InFlight, Statuses
  <1> QED BY <1>2, <1>3

LEMMA UpdateAgentStep ==
    ASSUME IInv, NEW r \in Requests, UpdateAgent(r)
    PROVE  IInv'
  <1> DEFINE a == req[r].agent
             v == req[r].content
  <1>1. /\ req[r].op = "patchAgent" /\ req[r].at = "work" /\ v \in Contents
        /\ UNCHANGED <<platforms, capabilities, retired, ownersEver>>
    BY DEF UpdateAgent, At, IInv, TypeOK, Carries, Request
  <1>2. CASE a \in Rows(agents)
    <2>1. agents' = [agents EXCEPT ![a].content = v]
      BY <1>2 DEF UpdateAgent
    <2>2. TablesOK' /\ Evolves
      <3> HIDE DEF a, v
      <3> QED BY <1>1, <1>2, <2>1, ContentUpdated
    <2>3. CASE Goto(r, "load")
      BY <1>1, <2>2, <2>3, Advances DEF InFlight, ByAgent
    <2>4. CASE Answer(r, "failed")
      BY <1>1, <2>2, <2>4, PlainAnswer DEF InFlight, Statuses
    <2> QED BY <1>2, <2>3, <2>4 DEF UpdateAgent
  <1>3. CASE a \notin Rows(agents)
    BY <1>1, <1>3, SameTables, PlainAnswer DEF UpdateAgent, tables, InFlight, Statuses
  <1> QED BY <1>2, <1>3

LEMMA DeleteAgentStep ==
    ASSUME IInv, NEW r \in Requests, DeleteAgent(r)
    PROVE  IInv'
  <1> DEFINE a == req[r].agent
  <1>1. /\ req[r].op = "deleteAgent" /\ req[r].at = "work"
        /\ UNCHANGED <<platforms, ownersEver>>
    BY DEF DeleteAgent, At
  <1>2. CASE a \in Rows(agents)
    <2>1. /\ RemoveAgents({a}) /\ Executed(r, "deleted")
          /\ retired' = retired \cup {a} \cup CapabilitiesOf({a})
      BY <1>2 DEF DeleteAgent
    <2>2. TablesOK' /\ Evolves
      <3> HIDE DEF a
      <3>1. platforms' = Without(platforms, {})
        BY <1>1 DEF Without, IInv, TypeOK
      <3>2. retired' = retired \cup {} \cup {a} \cup CapabilitiesOf({a})
        BY <2>1
      <3>3. {} \subseteq Rows(platforms) /\ {a} \subseteq Rows(agents)
            /\ \A p \in {} : AgentsOf(p) \subseteq {a}
        BY <1>2
      <3> QED BY <1>1, <2>1, <3>1, <3>2, <3>3, RowsRemoved
    <2>3. a \in retired' \ retired
      BY <1>2, <2>1 DEF IInv, RetiredGone
    <2>4. CASE Answer(r, "deleted")
      BY <1>1, <2>2, <2>3, <2>4, Answers DEF InFlight, Statuses
    <2>5. CASE Answer(r, "failed")
      BY <1>1, <2>2, <2>5, PlainAnswer DEF InFlight, Statuses
    <2> QED BY <2>1, <2>4, <2>5 DEF Executed
  <1>3. CASE a \notin Rows(agents)
    BY <1>1, <1>3, SameTables, PlainAnswer DEF DeleteAgent, tables, InFlight, Statuses
  <1> QED BY <1>2, <1>3

LEMMA ClaimFindStep ==
    ASSUME IInv, NEW r \in Requests, ClaimFind(r)
    PROVE  IInv'
  <1> DEFINE a == req[r].agent
             x == [req[r] EXCEPT !.platform = agents[a].platform, !.at = "work"]
  <1>1. /\ TablesOK' /\ Evolves /\ UNCHANGED tables
        /\ req[r].op = "claim" /\ req[r].at = "load"
    BY SameTables DEF ClaimFind, At
  <1>2. req[r] \in Request /\ Carries(r) /\ StillTrue(r)
    BY DEF IInv, TypeOK
  <1>3. CASE a \in Rows(agents) /\ ~agents[a].claimed
    <2>1. agents[a] \in AgentRow /\ agents[a].platform \in PlatformIds
      BY <1>3 DEF IInv, TypeOK, Rows, AgentRow
    <2>2. req' = [req EXCEPT ![r] = x]
      BY <1>3 DEF ClaimFind
    <2>3. x \in Request
      BY <1>2, <2>1 DEF Request, Places
    <2>4. /\ req'[r].platform = agents[a].platform /\ req'[r].at = "work"
          /\ req'[r].op = "claim" /\ req'[r].agent = a /\ req'[r].status = req[r].status
          /\ req'[r].name = req[r].name /\ req'[r].content = req[r].content
          /\ req'[r].capability = req[r].capability /\ req'[r].owner = req[r].owner
          /\ x.at = "work"
      BY <1>1, <1>2, <2>2 DEF Request, IInv, TypeOK
    <2> HIDE DEF x
    <2>5. Carries(r)'
      BY <1>1, <1>2, <2>1, <2>4, NullAssumption DEF Carries, At, ByAgent, ByParam
    <2>6. StillTrue(r)'
      BY <1>1, <1>2, <1>3, <2>4 DEF StillTrue, Carries, At, Deletes, ByAgent, ByParam,
         Rows, tables
    <2> QED BY <1>1, <2>2, <2>3, <2>4, <2>5, <2>6, GoesOn
  <1>4. CASE ~(a \in Rows(agents) /\ ~agents[a].claimed)
    BY <1>1, <1>4, PlainAnswer DEF ClaimFind, InFlight, Statuses
  <1> QED BY <1>3, <1>4

LEMMA ClaimAgentStep ==
    ASSUME IInv, NEW r \in Requests, ClaimAgent(r)
    PROVE  IInv'
  <1> DEFINE a == req[r].agent
             p == req[r].platform
             k == req[r].owner
  <1> USE DEF Rows
  <1>1. /\ req[r].op = "claim" /\ req[r].at = "work"
        /\ k \in Owners /\ p \in PlatformIds
        /\ a \in Rows(agents) => agents[a].platform = p
    BY DEF ClaimAgent, At, IInv, TypeOK, Carries, StillTrue, Request
  <1>2. /\ UNCHANGED <<capabilities, retired>> /\ Executed(r, "ok")
        /\ platforms' = IF p \in Rows(platforms) THEN [platforms EXCEPT ![p] = k] ELSE platforms
        /\ agents' = IF a \in Rows(agents)
                       THEN [agents EXCEPT ![a].owner = k, ![a].claimed = TRUE] ELSE agents
        /\ ownersEver' = [q \in PlatformIds |-> ownersEver[q] \cup ({platforms'[q]} \ {Null})]
    BY DEF ClaimAgent, BoundPlatforms
  <1> HIDE DEF a, p, k
  <1>3. /\ platforms \in [PlatformIds -> Owners \cup {Null}]
        /\ ownersEver \in [PlatformIds -> SUBSET Owners]
        /\ agents \in [AgentIds -> AgentRow \cup {Null}]
    BY DEF IInv, TypeOK
  <1>4. /\ platforms' \in [PlatformIds -> Owners \cup {Null}]
        /\ Rows(platforms') = Rows(platforms)
        /\ p \in Rows(platforms) => platforms'[p] = k
    BY <1>1, <1>2, <1>3, NullAssumption
  <1>5. /\ ownersEver' \in [PlatformIds -> SUBSET Owners]
        /\ \A q \in PlatformIds : ownersEver[q] \subseteq ownersEver'[q]
        /\ OwnersKnown'
    BY <1>2, <1>3, <1>4, NullAssumption DEF IInv, OwnersKnown
  <1>6. p \in Rows(platforms) => k \in ownersEver'[p]
    BY <1>1, <1>2, <1>4, NullAssumption
  <1>7. /\ agents' \in [AgentIds -> AgentRow \cup {Null}] /\ Rows(agents') = Rows(agents)
        /\ \A b \in Rows(agents) :
              /\ agents'[b].platform = agents[b].platform
              /\ agents'[b].name = agents[b].name
              /\ agents'[b].owner = IF b = a THEN k ELSE agents[b].owner
    <2>1. CASE a \in Rows(agents)
      <3> DEFINE row == [agents[a] EXCEPT !.owner = k, !.claimed = TRUE]
      <3>1. agents[a] \in AgentRow /\ a \in AgentIds
        BY <1>3, <2>1
      <3>2. /\ row \in AgentRow /\ row.platform = agents[a].platform
            /\ row.name = agents[a].name /\ row.owner = k
        BY <1>1, <3>1 DEF AgentRow
      <3>3. agents' = [agents EXCEPT ![a] = row]
        BY <1>2, <2>1
      <3>4. row # Null
        BY <3>2, NullAssumption
      <3> HIDE DEF row
      <3>5. /\ agents' \in [AgentIds -> AgentRow \cup {Null}] /\ agents'[a] = row
            /\ \A b \in AgentIds : b # a => agents'[b] = agents[b]
        BY <1>3, <3>1, <3>2, <3>3
      <3>6. Rows(agents') = Rows(agents)
        BY <1>3, <2>1, <3>4, <3>5
      <3>7. ASSUME NEW b \in Rows(agents)
            PROVE  /\ agents'[b].platform = agents[b].platform
                   /\ agents'[b].name = agents[b].name
                   /\ agents'[b].owner = IF b = a THEN k ELSE agents[b].owner
        <4>1. b \in AgentIds
          BY <1>3
        <4>2. CASE b = a
          BY <3>2, <3>5, <4>2
        <4>3. CASE b # a
          BY <3>5, <4>1, <4>3
        <4> QED BY <4>2, <4>3
      <3> QED BY <3>5, <3>6, <3>7
    <2>2. CASE a \notin Rows(agents)
      BY <1>2, <1>3, <2>2
    <2> QED BY <2>1, <2>2
  <1>8. ASSUME NEW b \in Rows(agents)
        PROVE  agents'[b].owner \in ownersEver'[agents[b].platform]
    <2>1. agents[b].platform \in Rows(platforms)
          /\ agents[b].owner \in ownersEver[agents[b].platform]
      BY DEF IInv, NoOrphans, OwnerOwnedPlatform
    <2> QED BY <1>1, <1>3, <1>5, <1>6, <1>7, <2>1
  <1> HIDE DEF Rows
  <1>9. TablesOK' /\ Evolves
    BY <1>2, <1>4, <1>5, <1>7, <1>8, AgentsUpdated
  <1> QED BY <1>1, <1>2, <1>9, PlainAnswer DEF Executed, InFlight, Statuses

LEMMA UpsertCapabilityStep ==
    ASSUME IInv, NEW r \in Requests, UpsertCapability(r)
    PROVE  IInv'
  <1> DEFINE a == req[r].agent
             v == req[r].content
             named == CapabilityNamed(a, req[r].name)
  <1>1. /\ req[r].op = "createCapability" /\ req[r].at = "work"
        /\ UNCHANGED <<platforms, agents, retired, ownersEver>>
    BY DEF UpsertCapability, At
  <1>2. a \in AgentIds /\ v \in Contents /\ req[r].name \in Names
    BY <1>1 DEF IInv, TypeOK, Carries, Request, ByAgent
  <1>3. ASSUME TablesOK', Evolves, Executed(r, "created")
        PROVE  IInv'
    BY <1>1, <1>3, PlainAnswer DEF Executed, InFlight, Statuses
  <1>4. ASSUME NEW c \in named,
               capabilities' = [capabilities EXCEPT ![c].content = req[r].content],
               Executed(r, "created")
        PROVE  IInv'
    <2>1. c \in Rows(capabilities)
      BY DEF CapabilityNamed, CapabilitiesOf
    <2>2. TablesOK' /\ Evolves
      <3> HIDE DEF a, named
      <3>1. capabilities' = [capabilities EXCEPT ![c].content = v]
        BY <1>4
      <3> HIDE DEF v
      <3> QED BY <1>1, <1>2, <2>1, <3>1, CapabilityUpdated
    <2> QED BY <1>3, <1>4, <2>2
  <1>5. ASSUME named = {}, a \in Rows(agents), NEW c \in Fresh(capabilities),
               capabilities' = [capabilities EXCEPT ![c] =
                  [agent |-> a, name |-> req[r].name, content |-> req[r].content]],
               Executed(r, "created")
        PROVE  IInv'
    <2> DEFINE row == [agent |-> a, name |-> req[r].name, content |-> req[r].content]
    <2>1. /\ row \in CapabilityRow /\ row.agent = a /\ row.name = req[r].name
          /\ capabilities' = [capabilities EXCEPT ![c] = row]
      BY <1>2, <1>5 DEF CapabilityRow
    <2>2. CapabilityNamed(row.agent, row.name) = {} /\ row.agent \in Rows(agents)
      BY <1>5
    <2>3. TablesOK' /\ Evolves
      <3> HIDE DEF row, a, v, named
      <3> QED BY <1>1, <2>1, <2>2, CapabilityAdded
    <2> QED BY <1>3, <1>5, <2>3
  <1>6. CASE Answer(r, "failed") /\ UNCHANGED capabilities
    BY <1>1, <1>6, SameTables, PlainAnswer DEF tables, InFlight, Statuses
  <1> QED BY <1>4, <1>5, <1>6 DEF UpsertCapability

LEMMA UpdateCapabilityStep ==
    ASSUME IInv, NEW r \in Requests, UpdateCapability(r)
    PROVE  IInv'
  <1> DEFINE c == req[r].capability
             v == req[r].content
  <1>1. /\ req[r].op = "patchCapability" /\ req[r].at = "work" /\ v \in Contents
        /\ UNCHANGED <<platforms, agents, retired, ownersEver>>
    BY DEF UpdateCapability, At, IInv, TypeOK, Carries, Request
  <1>2. CASE c \in Rows(capabilities)
    <2>1. capabilities' = [capabilities EXCEPT ![c].content = v] /\ Executed(r, "ok")
      BY <1>2 DEF UpdateCapability
    <2>2. TablesOK' /\ Evolves
      <3> HIDE DEF c, v
      <3> QED BY <1>1, <1>2, <2>1, CapabilityUpdated
    <2> QED BY <1>1, <2>1, <2>2, PlainAnswer DEF Executed, InFlight, Statuses
  <1>3. CASE c \notin Rows(capabilities)
    BY <1>1, <1>3, SameTables, PlainAnswer DEF UpdateCapability, tables, InFlight, Statuses
  <1> QED BY <1>2, <1>3

LEMMA DeleteCapabilityStep ==
    ASSUME IInv, NEW r \in Requests, DeleteCapability(r)
    PROVE  IInv'
  <1> DEFINE c == req[r].capability
  <1>1. /\ req[r].op = "deleteCapability" /\ req[r].at = "work"
        /\ UNCHANGED <<platforms, agents, ownersEver>>
    BY DEF DeleteCapability, At
  <1>2. CASE c \in Rows(capabilities)
    <2>1. /\ capabilities' = Without(capabilities, {c}) /\ retired' = retired \cup {c}
          /\ Executed(r, "deleted")
      BY <1>2 DEF DeleteCapability
    <2>2. TablesOK' /\ Evolves
      <3> HIDE DEF c
      <3> QED BY <1>1, <1>2, <2>1, CapabilityRemoved
    <2>3. c \in retired' \ retired
      BY <1>2, <2>1 DEF IInv, RetiredGone
    <2>4. CASE Answer(r, "deleted")
      BY <1>1, <2>2, <2>3, <2>4, Answers DEF InFlight, Statuses
    <2>5. CASE Answer(r, "failed")
      BY <1>1, <2>2, <2>5, PlainAnswer DEF InFlight, Statuses
    <2> QED BY <2>1, <2>4, <2>5 DEF Executed
  <1>3. CASE c \notin Rows(capabilities)
    BY <1>1, <1>3, SameTables, PlainAnswer DEF DeleteCapability, tables, InFlight, Statuses
  <1> QED BY <1>2, <1>3

LEMMA StatementFailsStep ==
    ASSUME IInv, NEW r \in Requests, StatementFails(r)
    PROVE  IInv'
  BY SameTables, PlainAnswer DEF StatementFails, Statuses

LEMMA ReceiveStep ==
    ASSUME IInv, NEW r \in Requests, Receive(r)
    PROVE  IInv'
  <1>1. TablesOK' /\ Evolves
    BY SameTables DEF Receive
  <1>2. NoRequest \in Request
    BY DEF NoRequest, Request, Ops, Places, Statuses
  <1>3. /\ req' \in [Requests -> Request] /\ req'[r] = NoRequest
        /\ \A q \in Requests \ {r} : req'[q] = req[q]
    BY <1>2 DEF Receive, IInv, TypeOK
  <1>4. NoRequest.op = Null /\ NoRequest.at = "idle" /\ NoRequest.status = Null
    BY DEF NoRequest
  <1>5. Null \notin Ops
    BY NullAssumption
  <1>6. Carries(r)' /\ StillTrue(r)' /\ Registered(r)' /\ ~Deletes(r, "deletePlatform")'
        /\ ~Deletes(r, "deleteAgent")' /\ ~Deletes(r, "deleteCapability")'
    BY <1>3, <1>4, <1>5
    DEF Carries, StillTrue, Registered, Deletes, At, ByAgent, ByParam, Ops
  <1> QED BY <1>1, <1>3, <1>6, Preserves
-----------------------------------------------------------------------------
LEMMA Step ==
    ASSUME IInv, Next
    PROVE  IInv'
  <1>1. PICK r \in Requests : Arrive(r) \/ Handle(r) \/ StatementFails(r) \/ Receive(r)
    BY DEF Next
  <1>2. CASE Arrive(r)
    BY <1>2, Arrivals
  <1>3. CASE StatementFails(r)
    BY <1>3, StatementFailsStep
  <1>4. CASE Receive(r)
    BY <1>4, ReceiveStep
  <1>5. CASE Handle(r)
    <2>1. CASE PlatformAuthByAgent(r)
      BY <2>1, ByAgentStep
    <2>2. CASE AuthenticatePlatform(r)
      BY <2>2, ByTokenStep
    <2>3. CASE CreatePlatform(r)
      BY <2>3, CreatePlatformStep
    <2>4. CASE QuickIdentity(r)
      BY <2>4, QuickIdentityStep
    <2>5. CASE LoadOwnedPlatform(r)
      BY <2>5, LoadOwnedPlatformStep
    <2>6. CASE DeletePlatform(r)
      BY <2>6, DeletePlatformStep
    <2>7. CASE Heartbeat(r) \/ HeartbeatDone(r)
      BY <2>7, HeartbeatStep
    <2>8. CASE UpdateAgentTunnel(r)
      BY <2>8, TunnelStep
    <2>9. CASE UpsertAgent(r)
      BY <2>9, UpsertAgentStep
    <2>10. CASE GetAgent(r) \/ ReloadAgent(r)
      BY <2>10, GetAgentStep
    <2>11. CASE UpdateAgent(r)
      BY <2>11, UpdateAgentStep
    <2>12. CASE DeleteAgent(r)
      BY <2>12, DeleteAgentStep
    <2>13. CASE ClaimFind(r)
      BY <2>13, ClaimFindStep
    <2>14. CASE ClaimAgent(r)
      BY <2>14, ClaimAgentStep
    <2>15. CASE UpsertCapability(r)
      BY <2>15, UpsertCapabilityStep
    <2>16. CASE UpdateCapability(r)
      BY <2>16, UpdateCapabilityStep
    <2>17. CASE DeleteCapability(r)
      BY <2>17, DeleteCapabilityStep
    <2> QED BY <1>5, <2>1, <2>2, <2>3, <2>4, <2>5, <2>6, <2>7, <2>8, <2>9, <2>10, <2>11,
        <2>12, <2>13, <2>14, <2>15, <2>16, <2>17 DEF Handle
  <1> QED BY <1>1, <1>2, <1>3, <1>4, <1>5

LEMMA Initially ==
    ASSUME Init
    PROVE  IInv
  <1> USE DEF Init
  <1>1. Rows(platforms) = {} /\ Rows(agents) = {} /\ Rows(capabilities) = {}
    BY DEF Rows
  <1>2. NoRequest \in Request
    BY DEF NoRequest, Request, Ops, Places, Statuses
  <1>3. TypeOK
    BY <1>2 DEF TypeOK
  <1>4. RetiredGone /\ NoOrphans /\ NamesUnique /\ OwnersKnown /\ OwnerOwnedPlatform
    BY <1>1 DEF RetiredGone, NoOrphans, NamesUnique, OwnersKnown, OwnerOwnedPlatform
  <1>5. \A r \in Requests : req[r] = NoRequest
    OBVIOUS
  <1>6. NoRequest.op = Null /\ NoRequest.at = "idle"
    BY DEF NoRequest
  <1>7. Null \notin Ops
    BY NullAssumption
  <1>8. RegisteredAsAsked /\ DeletedOnce
    BY <1>5, <1>6 DEF RegisteredAsAsked, DeletedOnce, Deletes, At
  <1>9. ASSUME NEW r \in Requests
        PROVE  Carries(r) /\ StillTrue(r)
    <2>1. req[r].op = Null /\ req[r].at = "idle"
      BY <1>5, <1>6
    <2> HIDE DEF Init
    <2> QED BY <2>1, <1>7 DEF Carries, StillTrue, Deletes, At, ByAgent, ByParam, Ops
  <1> QED BY <1>3, <1>4, <1>8, <1>9 DEF IInv

\* Whatever the requests and their order, the tables and what each handler has
\* read of them agree as IInv says.
THEOREM Invariance == Spec => []IInv
  <1>1. Init => IInv
    BY Initially
  <1>2. IInv /\ [Next]_vars => IInv'
    <2> SUFFICES ASSUME IInv, [Next]_vars
        PROVE  IInv'
      OBVIOUS
    <2>1. CASE Next
      BY <2>1, Step
    <2>2. CASE UNCHANGED vars
      BY <2>2 DEF vars, IInv, TypeOK, RetiredGone, NoOrphans, NamesUnique, OwnersKnown,
         OwnerOwnedPlatform, RegisteredAsAsked, HasRegistered, DeletedOnce, Deletes,
         Carries, StillTrue, At, Rows
    <2> QED BY <2>1, <2>2
  <1> QED BY <1>1, <1>2, PTL DEF Spec

\* Claims and registrations authenticated before them leave no agent with an
\* owner who never owned its platform.
THEOREM OwnersHadAPart == Spec => []OwnerOwnedPlatform
  <1>1. IInv => OwnerOwnedPlatform
    BY DEF IInv
  <1> QED BY <1>1, Invariance, PTL

\* The deletions of a parent, at any moment, leave no orphan.
THEOREM NoneOrphaned == Spec => []NoOrphans
  <1>1. IInv => NoOrphans
    BY DEF IInv
  <1> QED BY <1>1, Invariance, PTL

\* Upserts that overlap never give one name to two.
THEOREM OneNameEach == Spec => []NamesUnique
  <1>1. IInv => NamesUnique
    BY DEF IInv
  <1> QED BY <1>1, Invariance, PTL

\* A registration answered 201 names the agent it asked for.
THEOREM RegistersAsAsked == Spec => []RegisteredAsAsked
  <1>1. IInv => RegisteredAsAsked
    BY DEF IInv
  <1> QED BY <1>1, Invariance, PTL

\* No two overlapping deletions are told they deleted the same row.
THEOREM DeletesOnce == Spec => []DeletedOnce
  <1>1. IInv => DeletedOnce
    BY DEF IInv
  <1> QED BY <1>1, Invariance, PTL
-----------------------------------------------------------------------------
\* The conjuncts of OnlyItsPlatformWrites.
AgentWritten(a) ==
    LET p == agents[a].platform IN
    \/ DeletedWith(p)
    \/ \E r \in Requests : AuthorizedBy(r, p)
    \/ \E r \in Requests : At(r, "claim", "work") /\ req[r].agent = a
CapabilityWritten(c) ==
    LET p == agents[capabilities[c].agent].platform IN
    \/ DeletedWith(p)
    \/ \E r \in Requests : AuthorizedBy(r, p) \/ Addresses(r, c)
Written ==
    /\ \A a \in Rows(agents) : agents'[a] # agents[a] => AgentWritten(a)
    /\ \A c \in Rows(capabilities) : capabilities'[c] # capabilities[c] => CapabilityWritten(c)

\* A statement that goes by agent_id, under the token of the agent's platform.
LEMMA ByItsToken ==
    ASSUME IInv, NEW r \in Requests, req'[r].at # req[r].at,
           req[r].op \in ByAgent \cup {"createAgent"}, req[r].at = "work"
    PROVE  /\ AuthorizedBy(r, req[r].platform)
           /\ req[r].op \in ByAgent /\ req[r].agent \in Rows(agents) =>
                 AuthorizedBy(r, agents[req[r].agent].platform)
  BY DEF IInv, StillTrue, AuthorizedBy, ByParam

LEMMA Moves ==
    ASSUME IInv, NEW r \in Requests, req[r].at = "work",
           \/ \E s \in Statuses : Answer(r, s)
           \/ Goto(r, "load")
           \/ \E a \in AgentIds : Upserted(r, a)
    PROVE  req'[r].at # req[r].at
  <1>1. req \in [Requests -> Request] /\ req[r] \in Request
    BY DEF IInv, TypeOK
  <1>2. ASSUME NEW s \in Statuses, Answer(r, s) PROVE req'[r].at = "done"
    BY <1>1, <1>2 DEF Answer, Request
  <1>3. ASSUME Goto(r, "load") PROVE req'[r].at = "load"
    BY <1>1, <1>3 DEF Goto, Request
  <1>4. ASSUME NEW a \in AgentIds, Upserted(r, a) PROVE req'[r].at \in {"load", "done"}
    <2>1. CASE Answer(r, "failed")
      BY <1>2, <2>1 DEF Statuses
    <2>2. CASE req' = [req EXCEPT ![r].agent = a, ![r].at = "load"]
      BY <1>1, <2>2 DEF Request
    <2> QED BY <1>4, <2>1, <2>2 DEF Upserted
  <1> QED BY <1>2, <1>3, <1>4

LEMMA OnlyAgent ==
    ASSUME IInv, NEW a \in Rows(agents), UNCHANGED capabilities, AgentWritten(a),
           \A b \in AgentIds \ {a} : agents'[b] = agents[b]
    PROVE  Written
  BY DEF Written, Rows, IInv, TypeOK

LEMMA OnlyCapability ==
    ASSUME IInv, NEW c \in Rows(capabilities), UNCHANGED agents, CapabilityWritten(c),
           \A d \in CapabilityIds \ {c} : capabilities'[d] = capabilities[d]
    PROVE  Written
  BY DEF Written, Rows, IInv, TypeOK

LEMMA AgentWrites ==
    ASSUME IInv, NEW r \in Requests,
           UpdateAgentTunnel(r) \/ UpsertAgent(r) \/ UpdateAgent(r) \/ ClaimAgent(r)
    PROVE  Written
  <1>1. UNCHANGED capabilities /\ req[r] \in Request /\ agents \in [AgentIds -> AgentRow \cup {Null}]
        /\ StillTrue(r)
    BY DEF UpdateAgentTunnel, UpsertAgent, UpdateAgent, ClaimAgent, IInv, TypeOK
  <1>2. CASE UNCHANGED agents
    BY <1>1, <1>2 DEF Written
  <1>3. CASE UpdateAgentTunnel(r)
    <2>1. PICK a \in req[r].agents :
            /\ req' = [req EXCEPT ![r].agents = @ \ {a}]
            /\ \/ /\ Tunnelled(r, a)
                  /\ agents' = [agents EXCEPT ![a].content = req[r].content]
               \/ UNCHANGED agents
      BY <1>3 DEF UpdateAgentTunnel
    <2>2. CASE Tunnelled(r, a) /\ agents' = [agents EXCEPT ![a].content = req[r].content]
      <3>1. a \in Rows(agents) /\ agents[a].platform = req[r].platform
        BY <2>2 DEF Tunnelled, AgentsOf
      <3>2. req[r].token = req[r].platform
        BY <1>1, <1>3 DEF UpdateAgentTunnel, StillTrue, At, ByParam
      <3>3. req'[r].agents # req[r].agents
        BY <2>1 DEF IInv, TypeOK, Request
      <3>4. AgentWritten(a)
        BY <3>1, <3>2, <3>3 DEF AgentWritten, AuthorizedBy
      <3>5. \A b \in AgentIds \ {a} : agents'[b] = agents[b]
        BY <1>1, <2>2
      <3> QED BY <1>1, <3>1, <3>4, <3>5, OnlyAgent
    <2> QED BY <1>2, <2>1, <2>2
  <1>4. CASE UpsertAgent(r)
    <2>1. req[r].op = "createAgent" /\ req[r].at = "work"
      BY <1>4 DEF UpsertAgent, At
    <2>2. ASSUME NEW a \in AgentNamed(req[r].platform, req[r].name), Upserted(r, a),
                 agents' = [agents EXCEPT ![a].content = req[r].content]
          PROVE  Written
      <3>1. a \in Rows(agents) /\ agents[a].platform = req[r].platform /\ a \in AgentIds
        BY <1>1 DEF AgentNamed, AgentsOf, Rows
      <3>2. AuthorizedBy(r, agents[a].platform)
        BY <2>1, <2>2, <3>1, Moves, ByItsToken
      <3>3. AgentWritten(a)
        BY <3>2 DEF AgentWritten
      <3>4. \A b \in AgentIds \ {a} : agents'[b] = agents[b]
        BY <1>1, <2>2
      <3> QED BY <1>1, <3>1, <3>3, <3>4, OnlyAgent
    <2>3. ASSUME NEW a \in Fresh(agents), NEW row, agents' = [agents EXCEPT ![a] = row]
          PROVE  Written
      BY <1>1, <2>3 DEF Written, Fresh
    <2> QED BY <1>2, <1>4, <2>2, <2>3 DEF UpsertAgent, OnConflict
  <1>5. CASE UpdateAgent(r) /\ req[r].agent \in Rows(agents)
    <2>1. /\ req[r].op = "patchAgent" /\ req[r].at = "work" /\ req[r].op \in ByAgent
          /\ agents' = [agents EXCEPT ![req[r].agent].content = req[r].content]
      BY <1>5 DEF UpdateAgent, At, ByAgent
    <2>2. req'[r].at # req[r].at
      BY <1>5, <2>1, Moves DEF UpdateAgent, Statuses
    <2>3. AgentWritten(req[r].agent)
      BY <1>5, <2>1, <2>2, ByItsToken DEF AgentWritten
    <2>4. \A b \in AgentIds \ {req[r].agent} : agents'[b] = agents[b]
      BY <1>1, <2>1
    <2> QED BY <1>1, <1>5, <2>3, <2>4, OnlyAgent
  <1>6. CASE ClaimAgent(r) /\ req[r].agent \in Rows(agents)
    <2>1. /\ At(r, "claim", "work")
          /\ agents' = [agents EXCEPT ![req[r].agent].owner = req[r].owner,
                                      ![req[r].agent].claimed = TRUE]
      BY <1>6 DEF ClaimAgent
    <2>2. AgentWritten(req[r].agent)
      BY <2>1 DEF AgentWritten
    <2>3. \A b \in AgentIds \ {req[r].agent} : agents'[b] = agents[b]
      BY <1>1, <2>1
    <2> QED BY <1>1, <1>6, <2>2, <2>3, OnlyAgent
  <1>7. CASE (UpdateAgent(r) \/ ClaimAgent(r)) /\ req[r].agent \notin Rows(agents)
    BY <1>2, <1>7 DEF UpdateAgent, ClaimAgent
  <1> QED BY <1>3, <1>4, <1>5, <1>6, <1>7

LEMMA CapabilityWrites ==
    ASSUME IInv, NEW r \in Requests,
           UpsertCapability(r) \/ UpdateCapability(r) \/ DeleteCapability(r)
    PROVE  Written
  <1>1. /\ UNCHANGED agents /\ capabilities \in [CapabilityIds -> CapabilityRow \cup {Null}]
        /\ req[r].at = "work" /\ req[r].op \in ByAgent /\ StillTrue(r)
    BY DEF UpsertCapability, UpdateCapability, DeleteCapability, At, ByAgent, IInv, TypeOK
  <1>2. CASE UNCHANGED capabilities
    BY <1>1, <1>2 DEF Written
  \* The capability that is registered again hangs on the agent in the path.
  <1>3. ASSUME NEW c \in Rows(capabilities), capabilities[c].agent = req[r].agent,
               \E s \in Statuses : Answer(r, s),
               \A d \in CapabilityIds \ {c} : capabilities'[d] = capabilities[d]
        PROVE  Written
    <2>1. req[r].agent \in Rows(agents)
      BY <1>3 DEF IInv, NoOrphans
    <2>2. AuthorizedBy(r, agents[capabilities[c].agent].platform)
      BY <1>1, <1>3, <2>1, Moves, ByItsToken
    <2> QED BY <1>1, <1>3, <2>2, OnlyCapability DEF CapabilityWritten
  <1>4. CASE UpsertCapability(r)
    <2>1. ASSUME NEW c \in CapabilityNamed(req[r].agent, req[r].name),
                 capabilities' = [capabilities EXCEPT ![c].content = req[r].content],
                 Executed(r, "created")
          PROVE  Written
      <3>1. c \in Rows(capabilities) /\ capabilities[c].agent = req[r].agent
        BY DEF CapabilityNamed, CapabilitiesOf
      <3>2. \A d \in CapabilityIds \ {c} : capabilities'[d] = capabilities[d]
        BY <1>1, <2>1
      <3>3. \E s \in Statuses : Answer(r, s)
        BY <2>1 DEF Executed, Statuses
      <3> QED BY <1>3, <3>1, <3>2, <3>3
    <2>2. ASSUME NEW c \in Fresh(capabilities), NEW row,
                 capabilities' = [capabilities EXCEPT ![c] = row]
          PROVE  Written
      BY <1>1, <2>2 DEF Written, Fresh
    <2> QED BY <1>2, <1>4, <2>1, <2>2 DEF UpsertCapability
  <1>5. CASE UpdateCapability(r) \/ DeleteCapability(r)
    <2> DEFINE c == req[r].capability
    <2>1. CASE c \notin Rows(capabilities)
      BY <1>2, <1>5, <2>1 DEF UpdateCapability, DeleteCapability
    <2>2. CASE c \in Rows(capabilities)
      <3>1. At(r, "patchCapability", "work") \/ At(r, "deleteCapability", "work")
        BY <1>5 DEF UpdateCapability, DeleteCapability
      <3>2. \A d \in CapabilityIds \ {c} : capabilities'[d] = capabilities[d]
        BY <1>1, <1>5, <2>2 DEF UpdateCapability, DeleteCapability, Without
      <3>3. \E s \in Statuses : Answer(r, s)
        BY <1>5, <2>2 DEF UpdateCapability, DeleteCapability, Executed, Statuses
      <3>4. req'[r] # req[r]
        BY <1>1, <3>3, Moves
      \* The agent in the path is of the platform whose token was compared.
      <3>5. req[r].agent \in AgentsOf(req[r].token) \cup retired
        BY <1>1 DEF StillTrue, AgentsOf
      <3>6. CapabilityWritten(c)
        BY <3>1, <3>4, <3>5 DEF CapabilityWritten, Addresses
      <3> QED BY <1>1, <2>2, <3>2, <3>6, OnlyCapability
    <2> QED BY <2>1, <2>2
  <1> QED BY <1>4, <1>5

LEMMA RowDeletions ==
    ASSUME IInv, NEW r \in Requests, DeletePlatform(r) \/ DeleteAgent(r)
    PROVE  Written
  <1>1. /\ agents \in [AgentIds -> AgentRow \cup {Null}]
        /\ capabilities \in [CapabilityIds -> CapabilityRow \cup {Null}]
        /\ platforms \in [PlatformIds -> Owners \cup {Null}]
    BY DEF IInv, TypeOK
  <1>2. CASE UNCHANGED agents /\ UNCHANGED capabilities
    BY <1>2 DEF Written
  <1>3. ASSUME NEW D, RemoveAgents(D), \A a \in D \cap Rows(agents) : AgentWritten(a),
               \A c \in CapabilitiesOf(D) : CapabilityWritten(c)
        PROVE  Written
    BY <1>1, <1>3 DEF Written, RemoveAgents, Without, CapabilitiesOf, Rows
  <1>4. CASE DeletePlatform(r) /\ req[r].platform \in Rows(platforms)
    <2> DEFINE p == req[r].platform
    <2>1. RemoveAgents(AgentsOf(p)) /\ platforms' = Without(platforms, {p})
      BY <1>4 DEF DeletePlatform
    <2>2. DeletedWith(p)
      BY <1>4, <2>1 DEF DeletePlatform, DeletedWith, Without, Rows, IInv, StillTrue
    <2>3. \A a \in AgentsOf(p) : AgentWritten(a)
      BY <2>2 DEF AgentWritten, AgentsOf
    <2>4. \A c \in CapabilitiesOf(AgentsOf(p)) : CapabilityWritten(c)
      BY <2>2 DEF CapabilityWritten, CapabilitiesOf, AgentsOf
    <2> QED BY <1>3, <2>1, <2>3, <2>4
  <1>5. CASE DeleteAgent(r) /\ req[r].agent \in Rows(agents)
    <2> DEFINE a == req[r].agent
    <2>1. /\ RemoveAgents({a}) /\ Executed(r, "deleted")
          /\ req[r].op \in ByAgent \cup {"createAgent"} /\ req[r].op \in ByAgent
          /\ req[r].at = "work"
      BY <1>5 DEF DeleteAgent, At, ByAgent
    <2>2. req'[r].at # req[r].at
      BY <2>1, Moves DEF Executed, Statuses
    <2>3. AuthorizedBy(r, agents[a].platform)
      BY <1>5, <2>1, <2>2, ByItsToken
    <2>4. AgentWritten(a)
      BY <2>3 DEF AgentWritten
    <2>5. \A c \in CapabilitiesOf({a}) : CapabilityWritten(c)
      BY <2>3 DEF CapabilityWritten, CapabilitiesOf
    <2> QED BY <1>3, <2>1, <2>4, <2>5
  <1>6. CASE DeletePlatform(r) /\ req[r].platform \notin Rows(platforms)
    BY <1>2, <1>6 DEF DeletePlatform, tables
  <1>7. CASE DeleteAgent(r) /\ req[r].agent \notin Rows(agents)
    BY <1>2, <1>7 DEF DeleteAgent
  <1> QED BY <1>4, <1>5, <1>6, <1>7

LEMMA ArrivalsWriteNothing ==
    ASSUME NEW r \in Requests, Arrive(r)
    PROVE  UNCHANGED tables
  <1>1. \A x : Call(r, x) => UNCHANGED tables
    BY DEF Call
  <1>2. CASE OwnerCall(r)
    BY <1>1, <1>2, Zenon DEF OwnerCall
  <1>3. CASE PlatformCall(r)
    BY <1>1, <1>3, Zenon DEF PlatformCall
  <1>4. CASE TokenCall(r)
    BY <1>1, <1>4, Zenon DEF TokenCall
  <1>5. CASE ClaimCall(r)
    BY <1>1, <1>5, Zenon DEF ClaimCall
  <1>6. CASE AgentCall(r)
    BY <1>1, <1>6, Zenon DEF AgentCall
  <1>7. CASE CapabilityCall(r)
    BY <1>1, <1>7, Zenon DEF CapabilityCall
  <1> QED BY <1>2, <1>3, <1>4, <1>5, <1>6, <1>7 DEF Arrive

\* A platform goes, or changes its owner, at the hands of a deletion whose caller
\* was its owner when that was checked, or of a claim of one of its agents.
PlatformsWritten ==
    \A p \in Rows(platforms) : platforms'[p] # platforms[p] => DeletedWith(p) \/ ClaimOf(p)

LEMMA PlatformWrites ==
    ASSUME IInv, NEW r \in Requests, Arrive(r) \/ Handle(r) \/ StatementFails(r) \/ Receive(r)
    PROVE  PlatformsWritten
  <1>1. /\ platforms \in [PlatformIds -> Owners \cup {Null}]
        /\ req[r] \in Request /\ Carries(r) /\ StillTrue(r)
    BY DEF IInv, TypeOK
  <1>2. CASE UNCHANGED platforms
    BY <1>2 DEF PlatformsWritten
  <1>3. CASE Arrive(r)
    BY <1>2, <1>3, ArrivalsWriteNothing DEF tables
  <1>4. CASE CreatePlatform(r) \/ QuickIdentity(r)
    \* A new platform's row was not there.
    <2>1. PICK p \in Fresh(platforms) : \E k : platforms' = [platforms EXCEPT ![p] = k]
      BY <1>4 DEF CreatePlatform, QuickIdentity
    <2> QED BY <1>1, <2>1 DEF Fresh, Rows, PlatformsWritten
  <1>5. CASE DeletePlatform(r)
    <2>1. CASE req[r].platform \in Rows(platforms)
      <3> DEFINE p == req[r].platform
      <3>1. /\ At(r, "deletePlatform", "work") /\ p \in Rows(platforms)
            /\ platforms' = Without(platforms, {p})
        BY <1>5, <2>1 DEF DeletePlatform
      <3>2. DeletedWith(p)
        BY <1>1, <3>1 DEF DeletedWith, Without, Rows, StillTrue
      <3>3. \A q \in Rows(platforms) : q # p => platforms'[q] = platforms[q]
        BY <3>1 DEF Without, Rows
      <3> QED BY <3>2, <3>3 DEF PlatformsWritten
    <2>2. CASE req[r].platform \notin Rows(platforms)
      BY <1>2, <1>5, <2>2 DEF DeletePlatform, tables
    <2> QED BY <2>1, <2>2
  <1>6. CASE ClaimAgent(r)
    <2> DEFINE p == req[r].platform
    <2>1. At(r, "claim", "work") /\ platforms' = BoundPlatforms(r)
      BY <1>6 DEF ClaimAgent
    <2>2. \A q \in Rows(platforms) : q # p => platforms'[q] = platforms[q]
      BY <1>1, <2>1 DEF BoundPlatforms, Rows
    <2>3. req[r].agent \in AgentsOf(p) \cup retired
      BY <1>1, <2>1 DEF StillTrue, AgentsOf
    <2>4. ClaimOf(p)
      BY <2>1, <2>3 DEF ClaimOf
    <2> QED BY <2>2, <2>4 DEF PlatformsWritten
  <1>7. CASE \/ PlatformAuthByAgent(r) \/ AuthenticatePlatform(r) \/ LoadOwnedPlatform(r)
             \/ Heartbeat(r) \/ HeartbeatDone(r) \/ GetAgent(r) \/ ReloadAgent(r)
             \/ ClaimFind(r) \/ StatementFails(r) \/ Receive(r)
    BY <1>2, <1>7 DEF PlatformAuthByAgent, AuthenticatePlatform, LoadOwnedPlatform,
       Heartbeat, HeartbeatDone, GetAgent, ReloadAgent, ClaimFind, StatementFails,
       Receive, tables
  <1>8. CASE \/ UpdateAgentTunnel(r) \/ UpsertAgent(r) \/ UpdateAgent(r) \/ DeleteAgent(r)
             \/ UpsertCapability(r) \/ UpdateCapability(r) \/ DeleteCapability(r)
    BY <1>2, <1>8 DEF UpdateAgentTunnel, UpsertAgent, UpdateAgent, DeleteAgent,
       UpsertCapability, UpdateCapability, DeleteCapability
  <1> QED BY <1>3, <1>4, <1>5, <1>6, <1>7, <1>8 DEF Handle

\* Between the comparison of the token, or of the owner, and the write, no other
\* request can put the agent that was named under another platform.
THEOREM OnlyItsPlatform == Spec => OnlyItsPlatformWrites
  <1>1. IInv /\ [Next]_vars => Written \/ UNCHANGED vars
    <2> SUFFICES ASSUME IInv, Next
        PROVE  Written
      OBVIOUS
    <2>1. PICK r \in Requests : Arrive(r) \/ Handle(r) \/ StatementFails(r) \/ Receive(r)
      BY DEF Next
    <2>2. CASE UNCHANGED agents /\ UNCHANGED capabilities
      BY <2>2 DEF Written
    <2>3. CASE Arrive(r)
      BY <2>2, <2>3, ArrivalsWriteNothing DEF tables
    <2>4. CASE StatementFails(r) \/ Receive(r)
      BY <2>2, <2>4 DEF StatementFails, Receive, tables
    <2>5. CASE \/ PlatformAuthByAgent(r) \/ AuthenticatePlatform(r) \/ LoadOwnedPlatform(r)
               \/ Heartbeat(r) \/ HeartbeatDone(r) \/ GetAgent(r) \/ ReloadAgent(r)
               \/ ClaimFind(r) \/ CreatePlatform(r)
      BY <2>2, <2>5 DEF PlatformAuthByAgent, AuthenticatePlatform, LoadOwnedPlatform,
         Heartbeat, HeartbeatDone, GetAgent, ReloadAgent, ClaimFind, CreatePlatform, tables
    <2>6. CASE QuickIdentity(r)
      <3>1. PICK a \in Fresh(agents) : \E row : agents' = [agents EXCEPT ![a] = row]
        BY <2>6 DEF QuickIdentity
      <3>2. UNCHANGED capabilities
        BY <2>6 DEF QuickIdentity
      <3> QED BY <3>1, <3>2 DEF Written, Fresh, Rows, IInv, TypeOK
    <2>7. CASE DeletePlatform(r) \/ DeleteAgent(r)
      BY <2>7, RowDeletions
    <2>8. CASE UpdateAgentTunnel(r) \/ UpsertAgent(r) \/ UpdateAgent(r) \/ ClaimAgent(r)
      BY <2>8, AgentWrites
    <2>9. CASE UpsertCapability(r) \/ UpdateCapability(r) \/ DeleteCapability(r)
      BY <2>9, CapabilityWrites
    <2> QED BY <2>1, <2>3, <2>4, <2>5, <2>6, <2>7, <2>8, <2>9 DEF Handle
  <1>2. IInv /\ [Next]_vars => PlatformsWritten \/ UNCHANGED vars
    BY PlatformWrites DEF Next
  <1>3. IInv /\ [Next]_vars =>
          [/\ \A p \in Rows(platforms) : platforms'[p] # platforms[p] =>
                 DeletedWith(p) \/ ClaimOf(p)
           /\ \A a \in Rows(agents) : agents'[a] # agents[a] =>
                 LET p == agents[a].platform IN
                 \/ DeletedWith(p)
                 \/ \E r \in Requests : AuthorizedBy(r, p)
                 \/ \E r \in Requests : At(r, "claim", "work") /\ req[r].agent = a
           /\ \A c \in Rows(capabilities) : capabilities'[c] # capabilities[c] =>
                 LET p == agents[capabilities[c].agent].platform IN
                 \/ DeletedWith(p)
                 \/ \E r \in Requests : AuthorizedBy(r, p) \/ Addresses(r, c)]_vars
    BY <1>1, <1>2 DEF Written, PlatformsWritten, AgentWritten, CapabilityWritten
  <1> QED BY <1>3, Invariance, PTL DEF Spec, OnlyItsPlatformWrites
-----------------------------------------------------------------------------
(***************************************************************************)
(* The tables as a tree.                                                   *)
(***************************************************************************)
\* Every row has its place in the tree, and has it alone.
TreeOK ==
    /\ DOMAIN platforms = PlatformIds
    /\ DOMAIN agents = AgentIds
    /\ DOMAIN capabilities = CapabilityIds
    /\ ownersEver \in [PlatformIds -> SUBSET Owners]
    /\ \A a \in Rows(agents) :
          /\ a \in AgentIds /\ agents[a] \in AgentRow
          /\ agents[a].platform \in Rows(platforms) /\ agents[a].name \in Names
          /\ AgentNamed(agents[a].platform, agents[a].name) = {a}
          /\ AgentEntry(a) \in AgentEntries
    /\ \A c \in Rows(capabilities) :
          /\ c \in CapabilityIds /\ capabilities[c] \in CapabilityRow
          /\ capabilities[c].agent \in Rows(agents) /\ capabilities[c].name \in Names
          /\ CapabilityNamed(capabilities[c].agent, capabilities[c].name) = {c}
    /\ \A p \in Rows(platforms) : p \in PlatformIds /\ Branch(p) \in Branches

LEMMA RowsHavePlaces == TablesOK => TreeOK
  <1> SUFFICES ASSUME TablesOK PROVE TreeOK
    OBVIOUS
  <1>1. /\ agents \in [AgentIds -> AgentRow \cup {Null}]
        /\ capabilities \in [CapabilityIds -> CapabilityRow \cup {Null}]
        /\ platforms \in [PlatformIds -> Owners \cup {Null}]
        /\ ownersEver \in [PlatformIds -> SUBSET Owners]
    BY DEF TablesOK
  <1>2. ASSUME NEW c \in Rows(capabilities)
        PROVE  /\ c \in CapabilityIds /\ capabilities[c] \in CapabilityRow
               /\ capabilities[c].agent \in Rows(agents) /\ capabilities[c].name \in Names
               /\ CapabilityNamed(capabilities[c].agent, capabilities[c].name) = {c}
    <2>1. c \in CapabilityIds /\ capabilities[c] \in CapabilityRow
      BY <1>1 DEF Rows
    <2>2. capabilities[c].agent \in Rows(agents) /\ capabilities[c].name \in Names
      BY <2>1 DEF TablesOK, NoOrphans, CapabilityRow
    <2>3. CapabilityNamed(capabilities[c].agent, capabilities[c].name) = {c}
      BY DEF TablesOK, NamesUnique, CapabilityNamed, CapabilitiesOf
    <2> QED BY <2>1, <2>2, <2>3
  <1>3. ASSUME NEW a \in Rows(agents)
        PROVE  /\ a \in AgentIds /\ agents[a] \in AgentRow
               /\ agents[a].platform \in Rows(platforms) /\ agents[a].name \in Names
               /\ AgentNamed(agents[a].platform, agents[a].name) = {a}
               /\ AgentEntry(a) \in AgentEntries
    <2>1. a \in AgentIds /\ agents[a] \in AgentRow
      BY <1>1 DEF Rows
    <2>2. agents[a].platform \in Rows(platforms) /\ agents[a].name \in Names
      BY <2>1 DEF TablesOK, NoOrphans, AgentRow
    <2>3. AgentNamed(agents[a].platform, agents[a].name) = {a}
      BY DEF TablesOK, NamesUnique, AgentNamed, AgentsOf
    <2>4. \A m \in Names : CapabilitySlot(a, m) \in SUBSET CapabilityEntries
      BY <1>2 DEF CapabilitySlot, CapabilityNamed, CapabilitiesOf, CapabilityEntry,
         CapabilityEntries, CapabilityRow
    <2>5. AgentEntry(a) \in AgentEntries
      BY <2>1, <2>4 DEF AgentEntry, AgentEntries, AgentRow
    <2> QED BY <2>1, <2>2, <2>3, <2>5
  <1>4. ASSUME NEW p \in Rows(platforms) PROVE p \in PlatformIds /\ Branch(p) \in Branches
    <2>1. p \in PlatformIds /\ platforms[p] \in Owners /\ ownersEver[p] \in SUBSET Owners
      BY <1>1 DEF Rows
    <2>2. \A n \in Names : AgentSlot(p, n) \in SUBSET AgentEntries
      BY <1>3 DEF AgentSlot, AgentNamed, AgentsOf
    <2> QED BY <2>1, <2>2 DEF Branch, Branches
  <1> QED BY <1>1, <1>2, <1>3, <1>4 DEF TreeOK

LEMMA RowsHavePlacesNext == TablesOK' => TreeOK'
  BY RowsHavePlaces, PTL


\* The branches of the tree are the platforms' rows, and a slot holds the row
\* of the agent that has its place.
TreeShape ==
    /\ Tree = [p \in PlatformIds |-> Tree[p]]
    /\ Catalog!Listed = Rows(platforms)
    /\ Rows(platforms) \subseteq PlatformIds
    /\ \A p \in PlatformIds \ Rows(platforms) : Tree[p] = Null
    /\ \A p \in Rows(platforms) :
          /\ Tree[p] = Branch(p)
          /\ Tree[p].agents = [n \in Names |-> AgentSlot(p, n)]
          /\ Tree[p].owner = platforms[p] /\ Tree[p].owners = ownersEver[p]
    /\ \A a \in Rows(agents) :
          /\ AgentSlot(agents[a].platform, agents[a].name) = {AgentEntry(a)}
          /\ AgentEntry(a).id = a /\ AgentEntry(a).owner = agents[a].owner
          /\ AgentEntry(a).claimed = agents[a].claimed
          /\ AgentEntry(a).content = agents[a].content
          /\ AgentEntry(a).capabilities = [m \in Names |-> CapabilitySlot(a, m)]
    /\ \A c \in Rows(capabilities) :
          CapabilitySlot(capabilities[c].agent, capabilities[c].name) = {CapabilityEntry(c)}

LEMMA Shape == TreeOK => TreeShape
  <1> SUFFICES ASSUME TreeOK PROVE TreeShape
    OBVIOUS
  <1>1. /\ \A p \in Rows(platforms) : Branch(p) # Null /\ p \in PlatformIds /\ platforms[p] # Null
        /\ \A p \in PlatformIds \ Rows(platforms) : platforms[p] = Null
    BY BranchAssumption DEF TreeOK, Rows
  <1>2. /\ \A p \in PlatformIds \ Rows(platforms) : Tree[p] = Null
        /\ \A p \in Rows(platforms) : Tree[p] = Branch(p)
        /\ Catalog!Listed = Rows(platforms)
        /\ Tree = [p \in PlatformIds |-> Tree[p]]
    BY <1>1 DEF Tree, Catalog!Listed
  <1>3. \A a \in Rows(agents) :
          AgentSlot(agents[a].platform, agents[a].name) = {AgentEntry(a)}
    BY DEF TreeOK, AgentSlot
  <1>4. \A c \in Rows(capabilities) :
          CapabilitySlot(capabilities[c].agent, capabilities[c].name) = {CapabilityEntry(c)}
    BY DEF TreeOK, CapabilitySlot
  <1>5. \A p \in Rows(platforms) :
          /\ Tree[p].agents = [n \in Names |-> AgentSlot(p, n)]
          /\ Tree[p].owner = platforms[p] /\ Tree[p].owners = ownersEver[p]
    <2> SUFFICES ASSUME NEW p \in Rows(platforms)
        PROVE  /\ Branch(p).agents = [n \in Names |-> AgentSlot(p, n)]
               /\ Branch(p).owner = platforms[p] /\ Branch(p).owners = ownersEver[p]
      BY <1>2
    <2> QED BY DEF Branch
  <1>6. \A a \in Rows(agents) :
          /\ AgentEntry(a).id = a /\ AgentEntry(a).owner = agents[a].owner
          /\ AgentEntry(a).claimed = agents[a].claimed
          /\ AgentEntry(a).content = agents[a].content
          /\ AgentEntry(a).capabilities = [m \in Names |-> CapabilitySlot(a, m)]
    BY DEF AgentEntry
  <1> QED BY <1>1, <1>2, <1>3, <1>4, <1>5, <1>6 DEF TreeShape

LEMMA ShapeNext == TreeOK' => TreeShape'
  BY Shape, PTL

\* The ids in the tree are those of the rows.
LEMMA IdsInTree ==
    ASSUME TreeOK
    PROVE  /\ \A p \in Rows(platforms) :
                 /\ Catalog!AgentsIn(p) = {AgentEntry(a) : a \in AgentsOf(p)}
                 /\ Catalog!Ids(Catalog!AgentsIn(p)) = AgentsOf(p)
           /\ \A D \in SUBSET Rows(agents) :
                 Catalog!Ids(Catalog!CapabilitiesIn({AgentEntry(a) : a \in D})) = CapabilitiesOf(D)
  <1>1. TreeShape
    BY Shape
  <1>2. ASSUME NEW p \in Rows(platforms)
        PROVE  /\ Catalog!AgentsIn(p) = {AgentEntry(a) : a \in AgentsOf(p)}
               /\ Catalog!Ids(Catalog!AgentsIn(p)) = AgentsOf(p)
    <2>1. \A n \in Names : Tree[p].agents[n] = AgentSlot(p, n)
      <3>1. Tree[p].agents = [n \in Names |-> AgentSlot(p, n)]
        BY <1>1 DEF TreeShape
      <3> QED BY <3>1
    <2>2. Catalog!AgentsIn(p) = UNION {AgentSlot(p, n) : n \in Names}
      BY <2>1 DEF Catalog!AgentsIn, Catalog!Filled
    <2>3. \A a \in AgentsOf(p) : agents[a].name \in Names /\ AgentEntry(a) \in AgentSlot(p, agents[a].name)
      BY <1>1 DEF TreeShape, TreeOK, AgentsOf
    <2>4. \A n \in Names : \A x \in AgentSlot(p, n) : \E a \in AgentsOf(p) : x = AgentEntry(a)
      BY DEF AgentSlot, AgentNamed
    <2>5. Catalog!AgentsIn(p) = {AgentEntry(a) : a \in AgentsOf(p)}
      BY <2>2, <2>3, <2>4
    <2>6. \A a \in AgentsOf(p) : AgentEntry(a).id = a
      BY <1>1 DEF TreeShape, AgentsOf
    <2> QED BY <2>5, <2>6 DEF Catalog!Ids
  <1>3. ASSUME NEW D \in SUBSET Rows(agents)
        PROVE  Catalog!Ids(Catalog!CapabilitiesIn({AgentEntry(a) : a \in D})) = CapabilitiesOf(D)
    <2>1. ASSUME NEW a \in D, NEW m \in Names
          PROVE  AgentEntry(a).capabilities[m] = CapabilitySlot(a, m)
      <3>1. AgentEntry(a).capabilities = [k \in Names |-> CapabilitySlot(a, k)]
        BY <1>1 DEF TreeShape
      <3> QED BY <3>1
    <2>2. Catalog!CapabilitiesIn({AgentEntry(a) : a \in D})
            = UNION {UNION {CapabilitySlot(a, m) : m \in Names} : a \in D}
      BY <2>1 DEF Catalog!CapabilitiesIn, Catalog!Filled
    <2>3. \A c \in CapabilitiesOf(D) : \E a \in D, m \in Names : CapabilityEntry(c) \in CapabilitySlot(a, m)
      BY <1>1 DEF TreeShape, TreeOK, CapabilitiesOf
    <2>4. \A a \in D, m \in Names : \A x \in CapabilitySlot(a, m) :
              \E c \in CapabilitiesOf(D) : x = CapabilityEntry(c)
      BY DEF CapabilitySlot, CapabilityNamed, CapabilitiesOf
    <2>5. Catalog!CapabilitiesIn({AgentEntry(a) : a \in D}) = {CapabilityEntry(c) : c \in CapabilitiesOf(D)}
      BY <2>2, <2>3, <2>4
    <2>6. \A c : CapabilityEntry(c).id = c
      BY DEF CapabilityEntry
    <2>7. {CapabilityEntry(c).id : c \in CapabilitiesOf(D)} = CapabilitiesOf(D)
      BY <2>6
    <2>8. Catalog!Ids({CapabilityEntry(c) : c \in CapabilitiesOf(D)}) = CapabilitiesOf(D)
      BY <2>7 DEF Catalog!Ids
    <2> QED BY <2>5, <2>8
  <1> QED BY <1>2, <1>3

\* What the generator draws is not in the tree.
LEMMA FreshIsNew ==
    ASSUME TreeOK
    PROVE  /\ \A a \in Fresh(agents) : Catalog!NewAgent(a)
           /\ \A c \in Fresh(capabilities) : Catalog!NewCapability(c)
  <1>1. Catalog!Listed = Rows(platforms)
    BY Shape DEF TreeShape
  <1>2. \A p \in Rows(platforms) :
          /\ Catalog!Ids(Catalog!AgentsIn(p)) \subseteq Rows(agents)
          /\ Catalog!Ids(Catalog!CapabilitiesIn(Catalog!AgentsIn(p))) \subseteq Rows(capabilities)
    <2>1. \A p : AgentsOf(p) \subseteq Rows(agents)
      BY DEF AgentsOf
    <2> QED BY <2>1, IdsInTree DEF CapabilitiesOf
  <1> QED BY <1>1, <1>2 DEF Fresh, Catalog!NewAgent, Catalog!NewCapability

\* A write that concerns one agent's row or its capabilities changes one slot.
LEMMA OtherSlots ==
    ASSUME TreeOK, TreeOK', NEW a \in AgentIds, NEW p, NEW n,
           a \in Rows(agents) => agents[a].platform = p /\ agents[a].name = n,
           a \in Rows(agents') => agents'[a].platform = p /\ agents'[a].name = n,
           \A b \in AgentIds \ {a} : agents'[b] = agents[b],
           \A c \in CapabilityIds : capabilities'[c] # capabilities[c] =>
              /\ c \in Rows(capabilities) => capabilities[c].agent = a
              /\ c \in Rows(capabilities') => capabilities'[c].agent = a
    PROVE  \A q \in PlatformIds, m \in Names :
              <<q, m>> # <<p, n>> => AgentSlot(q, m)' = AgentSlot(q, m)
  <1> SUFFICES ASSUME NEW q \in PlatformIds, NEW m \in Names, <<q, m>> # <<p, n>>
      PROVE  AgentSlot(q, m)' = AgentSlot(q, m)
    OBVIOUS
  <1> USE DEF Rows, AgentNamed, AgentsOf, CapabilityNamed, CapabilitiesOf
  <1>1. DOMAIN agents = AgentIds /\ DOMAIN agents' = AgentIds
        /\ DOMAIN capabilities = CapabilityIds /\ DOMAIN capabilities' = CapabilityIds
    BY DEF TreeOK
  <1>2. AgentNamed(q, m)' = AgentNamed(q, m) /\ a \notin AgentNamed(q, m)
    BY <1>1
  <1>3. ASSUME NEW b \in AgentNamed(q, m) PROVE AgentEntry(b)' = AgentEntry(b)
    <2>1. b \in AgentIds /\ b # a /\ agents'[b] = agents[b]
      BY <1>1, <1>2
    <2>2. ASSUME NEW k \in Names PROVE CapabilitySlot(b, k)' = CapabilitySlot(b, k)
      <3>1. CapabilityNamed(b, k)' = CapabilityNamed(b, k)
        BY <1>1, <2>1
      <3>2. \A c \in CapabilityNamed(b, k) : capabilities'[c] = capabilities[c]
        BY <1>1, <2>1
      <3> QED BY <3>1, <3>2 DEF CapabilitySlot, CapabilityEntry
    <2> QED BY <2>1, <2>2 DEF AgentEntry
  <1> QED BY <1>2, <1>3 DEF AgentSlot

LEMMA OneBranchWritten ==
    ASSUME TreeOK, TreeOK', NEW p \in PlatformIds,
           \A q \in PlatformIds \ {p} :
              /\ platforms'[q] = platforms[q] /\ ownersEver'[q] = ownersEver[q]
              /\ \A m \in Names : AgentSlot(q, m)' = AgentSlot(q, m)
    PROVE  Tree' = [Tree EXCEPT ![p] = Tree'[p]]
  <1>1. Tree = [q \in PlatformIds |-> Tree[q]] /\ Tree' = [q \in PlatformIds |-> Tree'[q]]
    BY Shape, ShapeNext DEF TreeShape
  <1>2. ASSUME NEW q \in PlatformIds \ {p} PROVE Tree'[q] = Tree[q]
    BY <1>2 DEF Tree, Branch
  <1> QED BY <1>1, <1>2

LEMMA PutStep ==
    ASSUME TreeOK, TreeOK', UNCHANGED <<platforms, ownersEver>>,
           NEW p \in Rows(platforms), NEW n \in Names,
           \A q \in PlatformIds, m \in Names :
              <<q, m>> # <<p, n>> => AgentSlot(q, m)' = AgentSlot(q, m)
    PROVE  Catalog!Put(p, n, AgentSlot(p, n)')
  <1>1. Rows(platforms') = Rows(platforms) /\ p \in PlatformIds /\ TreeShape /\ TreeShape'
    BY Shape, ShapeNext DEF Rows, TreeOK
  <1> DEFINE f == Tree[p].agents
             g == [f EXCEPT ![n] = AgentSlot(p, n)']
             x == [Tree[p] EXCEPT !.agents = g]
  <1>2. /\ Tree[p] = Branch(p) /\ f = [m \in Names |-> AgentSlot(p, m)]
        /\ Tree'[p] = Branch(p)'
    BY <1>1 DEF TreeShape
  <1>3. g = [m \in Names |-> AgentSlot(p, m)']
    <2>1. \A m \in Names : g[m] = AgentSlot(p, m)'
      BY <1>1, <1>2
    <2> QED BY <1>2, <2>1
  <1>4. x = Branch(p)'
    <2> HIDE DEF g
    <2> QED BY <1>2, <1>3 DEF Branch
  <1>5. Tree' = [Tree EXCEPT ![p] = Tree'[p]]
    BY <1>1, OneBranchWritten
  <1> QED BY <1>2, <1>4, <1>5 DEF Catalog!Put

LEMMA OneSlotWritten ==
    ASSUME TreeOK, TreeOK', UNCHANGED <<platforms, ownersEver>>,
           NEW p \in Rows(platforms), NEW n \in Names, NEW a \in AgentIds,
           a \in Rows(agents) => agents[a].platform = p /\ agents[a].name = n,
           a \in Rows(agents') => agents'[a].platform = p /\ agents'[a].name = n,
           \A b \in AgentIds \ {a} : agents'[b] = agents[b],
           \A c \in CapabilityIds : capabilities'[c] # capabilities[c] =>
              /\ c \in Rows(capabilities) => capabilities[c].agent = a
              /\ c \in Rows(capabilities') => capabilities'[c].agent = a
    PROVE  Catalog!Put(p, n, AgentSlot(p, n)')
  <1>1. \A q \in PlatformIds, m \in Names :
            <<q, m>> # <<p, n>> => AgentSlot(q, m)' = AgentSlot(q, m)
    BY OtherSlots
  <1> QED BY <1>1, PutStep

\* An agent that stays in its place.
LEMMA EntryWritten ==
    ASSUME TreeOK, TreeOK', UNCHANGED <<platforms, ownersEver>>,
           NEW a \in Rows(agents), a \in Rows(agents'),
           agents'[a].platform = agents[a].platform, agents'[a].name = agents[a].name,
           \A b \in AgentIds \ {a} : agents'[b] = agents[b],
           \A c \in CapabilityIds : capabilities'[c] # capabilities[c] =>
              /\ c \in Rows(capabilities) => capabilities[c].agent = a
              /\ c \in Rows(capabilities') => capabilities'[c].agent = a
    PROVE  /\ Catalog!Put(agents[a].platform, agents[a].name, {AgentEntry(a)'})
           /\ agents[a].platform \in PlatformIds \cap Catalog!Listed /\ agents[a].name \in Names
           /\ AgentEntry(a) \in Tree[agents[a].platform].agents[agents[a].name]
  <1>0. PICK p, n : p = agents[a].platform /\ n = agents[a].name
    OBVIOUS
  <1>1. TreeShape /\ TreeShape'
    BY Shape, ShapeNext
  <1>2. a \in AgentIds /\ p \in Rows(platforms) /\ p \in PlatformIds /\ n \in Names
    BY <1>0 DEF TreeOK
  <1>3. AgentSlot(p, n)' = {AgentEntry(a)'} /\ AgentSlot(p, n) = {AgentEntry(a)}
    BY <1>0, <1>1 DEF TreeShape
  <1>4. Catalog!Put(p, n, AgentSlot(p, n)')
    BY <1>0, <1>2, OneSlotWritten
  <1>5. Tree[p].agents = [m \in Names |-> AgentSlot(p, m)] /\ Catalog!Listed = Rows(platforms)
    BY <1>1, <1>2 DEF TreeShape
  <1> QED BY <1>0, <1>2, <1>3, <1>4, <1>5

LEMMA CatalogMoves ==
    ASSUME NEW p \in PlatformIds
    PROVE  /\ Catalog!PlatformChange(p) => Catalog!Next
           /\ \A n \in Names : Catalog!AgentChange(p, n) => Catalog!Next
           /\ \A n, m \in Names : Catalog!CapabilityChange(p, n, m) => Catalog!Next
  BY DEF Catalog!Next

LEMMA ContentRewritten ==
    ASSUME TreeOK, TreeOK', UNCHANGED <<platforms, capabilities, retired, ownersEver>>,
           NEW a \in Rows(agents), NEW v \in Contents,
           agents' = [agents EXCEPT ![a].content = v]
    PROVE  Catalog!Next
  <1> DEFINE p == agents[a].platform
             n == agents[a].name
             row == [agents[a] EXCEPT !.content = v]
  <1>1. a \in AgentIds /\ agents[a] \in AgentRow /\ DOMAIN agents = AgentIds
    BY DEF TreeOK
  <1>2. /\ row \in AgentRow /\ row.platform = p /\ row.name = n /\ row.content = v
        /\ row.owner = agents[a].owner /\ row.claimed = agents[a].claimed
    BY <1>1 DEF AgentRow
  <1>3. /\ agents'[a] = row /\ row # Null
        /\ \A b \in AgentIds \ {a} : agents'[b] = agents[b]
    BY <1>1, <1>2, NullAssumption
  <1> HIDE DEF row
  <1>4. a \in Rows(agents') /\ agents'[a].platform = p /\ agents'[a].name = n
    BY <1>1, <1>2, <1>3 DEF Rows, TreeOK
  <1>5. /\ Catalog!Put(p, n, {AgentEntry(a)'})
        /\ p \in PlatformIds \cap Catalog!Listed /\ n \in Names
        /\ AgentEntry(a) \in Tree[p].agents[n]
    BY <1>3, <1>4, EntryWritten
  <1>6. AgentEntry(a)' = [AgentEntry(a) EXCEPT !.content = v]
    <2>1. \A m \in Names : CapabilitySlot(a, m)' = CapabilitySlot(a, m)
      BY DEF CapabilitySlot, CapabilityNamed, CapabilitiesOf, CapabilityEntry, Rows
    <2>2. [m \in Names |-> CapabilitySlot(a, m)'] = [m \in Names |-> CapabilitySlot(a, m)]
      BY <2>1
    <2>3. /\ agents'[a].owner = agents[a].owner /\ agents'[a].claimed = agents[a].claimed
          /\ agents'[a].content = v
      BY <1>2, <1>3
    <2> DEFINE s == [m \in Names |-> CapabilitySlot(a, m)]
               e == [id |-> a, owner |-> agents[a].owner, claimed |-> agents[a].claimed,
                     content |-> agents[a].content, capabilities |-> s]
    <2>4. AgentEntry(a) = e
      BY DEF AgentEntry
    <2>5. AgentEntry(a)' = [id |-> a, owner |-> agents[a].owner, claimed |-> agents[a].claimed,
                            content |-> v, capabilities |-> s]
      BY <2>2, <2>3 DEF AgentEntry
    <2> HIDE DEF s
    <2> QED BY <2>4, <2>5
  <1>7. Catalog!Rewrite(p, n, v)
    BY <1>5, <1>6 DEF Catalog!Rewrite
  <1> QED BY <1>5, <1>7, CatalogMoves DEF Catalog!AgentChange

LEMMA AgentEnrolled ==
    ASSUME TreeOK, TreeOK', UNCHANGED <<platforms, capabilities, retired, ownersEver>>,
           NEW a \in Fresh(agents), NEW row \in AgentRow, row.claimed = FALSE,
           row.platform \in Rows(platforms), row.owner \in ownersEver[row.platform],
           AgentNamed(row.platform, row.name) = {},
           agents' = [agents EXCEPT ![a] = row]
    PROVE  Catalog!Next
  <1> DEFINE p == row.platform
             n == row.name
  <1>1. /\ DOMAIN agents = AgentIds /\ a \in AgentIds /\ a \notin Rows(agents)
        /\ DOMAIN capabilities = CapabilityIds
        /\ p \in PlatformIds /\ n \in Names /\ row.owner \in Owners /\ row.content \in Contents
        /\ row # Null
    BY NullAssumption DEF TreeOK, Fresh, AgentRow
  <1>2. /\ agents'[a] = row /\ a \in Rows(agents')
        /\ \A b \in AgentIds \ {a} : agents'[b] = agents[b]
    BY <1>1 DEF Rows
  <1>3. TreeShape /\ TreeShape'
    BY Shape, ShapeNext
  <1>4. AgentSlot(p, n)' = {AgentEntry(a)'}
    BY <1>2, <1>3 DEF TreeShape
  <1>5. Catalog!Put(p, n, AgentSlot(p, n)')
    <2> HIDE DEF p, n
    <2>1. /\ a \in Rows(agents) => agents[a].platform = p /\ agents[a].name = n
          /\ a \in Rows(agents') => agents'[a].platform = p /\ agents'[a].name = n
      BY <1>1, <1>2 DEF p, n
    <2>2. p \in Rows(platforms)
      BY DEF p
    <2> QED BY <1>1, <1>2, <2>1, <2>2, OneSlotWritten
  <1>6. AgentEntry(a)' = Catalog!Agent(a, row.owner, row.content)
    <2>1. CapabilitiesOf({a})' = {}
      BY <1>1, <1>2 DEF CapabilitiesOf, TreeOK, Rows
    <2>2. \A m \in Names : CapabilitySlot(a, m)' = {}
      BY <2>1 DEF CapabilitySlot, CapabilityNamed
    <2> QED BY <1>2, <2>2 DEF AgentEntry, Catalog!Agent, Catalog!Slots
  <1>7. Tree[p].agents[n] = {} /\ Tree[p].owners = ownersEver[p] /\ p \in Catalog!Listed
    <2>1. AgentSlot(p, n) = {}
      BY DEF AgentSlot
    <2>2. /\ Tree[p].agents = [m \in Names |-> AgentSlot(p, m)]
          /\ Tree[p].owners = ownersEver[p] /\ p \in Catalog!Listed
      BY <1>3 DEF TreeShape
    <2> QED BY <1>1, <2>1, <2>2
  <1>8. Catalog!Enroll(p, n, a, row.owner, row.content)
    BY <1>4, <1>5, <1>6, <1>7, FreshIsNew DEF Catalog!Enroll
  <1> QED BY <1>1, <1>8, CatalogMoves DEF Catalog!AgentChange

LEMMA AgentDismissed ==
    ASSUME TreeOK, TreeOK', UNCHANGED <<platforms, ownersEver>>,
           NEW a \in Rows(agents), RemoveAgents({a}),
           retired' = retired \cup {a} \cup CapabilitiesOf({a})
    PROVE  Catalog!Next
  <1>0. PICK p, n : p = agents[a].platform /\ n = agents[a].name
    OBVIOUS
  <1>1. TreeShape /\ TreeShape'
    BY Shape, ShapeNext
  <1>2. /\ a \in AgentIds /\ p \in Rows(platforms) /\ p \in PlatformIds /\ n \in Names
        /\ DOMAIN agents = AgentIds /\ DOMAIN capabilities = CapabilityIds
    BY <1>0 DEF TreeOK
  <1>3. /\ a \notin Rows(agents') /\ \A b \in AgentIds \ {a} : agents'[b] = agents[b]
        /\ \A c \in CapabilityIds : capabilities'[c] # capabilities[c] =>
              capabilities[c].agent = a /\ c \notin Rows(capabilities')
    BY <1>2 DEF RemoveAgents, Without, Rows, CapabilitiesOf
  <1>4. Catalog!Put(p, n, AgentSlot(p, n)')
    BY <1>0, <1>2, <1>3, OneSlotWritten
  <1>5. AgentSlot(p, n)' = {}
    <2>1. \A b \in Rows(agents') : b \in Rows(agents) /\ agents'[b] = agents[b] /\ b # a
      BY <1>2, <1>3 DEF Rows, TreeOK
    <2>2. \A b \in Rows(agents) : agents[b].platform = p /\ agents[b].name = n => b = a
      <3>1. AgentNamed(p, n) = {a}
        BY <1>0 DEF TreeOK
      <3> QED BY <3>1 DEF AgentNamed, AgentsOf
    <2>3. AgentNamed(p, n)' = {}
      BY <2>1, <2>2 DEF AgentNamed, AgentsOf
    <2> QED BY <2>3 DEF AgentSlot
  <1>6. /\ AgentSlot(p, n) = {AgentEntry(a)} /\ AgentEntry(a).id = a
        /\ Tree[p].agents = [m \in Names |-> AgentSlot(p, m)] /\ p \in Catalog!Listed
    BY <1>0, <1>1, <1>2 DEF TreeShape
  <1>7. AgentEntry(a) \in Tree[p].agents[n]
    BY <1>2, <1>6
  <1>8. Catalog!Ids(Catalog!CapabilitiesIn({AgentEntry(a)})) = CapabilitiesOf({a})
    <2>1. {a} \in SUBSET Rows(agents) /\ {AgentEntry(b) : b \in {a}} = {AgentEntry(a)}
      OBVIOUS
    <2> QED BY <2>1, IdsInTree
  <1>9. Catalog!Dismiss(p, n)
    BY <1>4, <1>5, <1>6, <1>7, <1>8 DEF Catalog!Dismiss
  <1> QED BY <1>2, <1>9, CatalogMoves DEF Catalog!AgentChange

\* A write to one capability changes one slot of its agent's entry.
LEMMA EntryEquipped ==
    ASSUME TreeOK, TreeOK', UNCHANGED <<platforms, agents, ownersEver>>,
           NEW a \in Rows(agents), NEW m \in Names, NEW c \in CapabilityIds,
           c \in Rows(capabilities) =>
              capabilities[c].agent = a /\ capabilities[c].name = m,
           c \in Rows(capabilities') =>
              capabilities'[c].agent = a /\ capabilities'[c].name = m,
           \A d \in CapabilityIds \ {c} : capabilities'[d] = capabilities[d]
    PROVE  \E p \in PlatformIds, n \in Names :
              /\ p \in Catalog!Listed
              /\ AgentEntry(a) \in Tree[p].agents[n]
              /\ AgentEntry(a).capabilities[m] = CapabilitySlot(a, m)
              /\ Catalog!Put(p, n, {Catalog!Equipped(AgentEntry(a), m, CapabilitySlot(a, m)')})
  <1>1. DOMAIN capabilities = CapabilityIds /\ DOMAIN capabilities' = CapabilityIds
        /\ a \in Rows(agents')
    BY DEF TreeOK, Rows
  <1>2. /\ Catalog!Put(agents[a].platform, agents[a].name, {AgentEntry(a)'})
        /\ agents[a].platform \in PlatformIds \cap Catalog!Listed /\ agents[a].name \in Names
        /\ AgentEntry(a) \in Tree[agents[a].platform].agents[agents[a].name]
    BY <1>1, EntryWritten
  <1>3. ASSUME NEW k \in Names \ {m} PROVE CapabilitySlot(a, k)' = CapabilitySlot(a, k)
    <2>1. CapabilityNamed(a, k)' = CapabilityNamed(a, k) /\ c \notin CapabilityNamed(a, k)
      BY <1>1 DEF CapabilityNamed, CapabilitiesOf, Rows
    <2>2. \A d \in CapabilityNamed(a, k) : capabilities'[d] = capabilities[d]
      BY <1>1, <2>1 DEF CapabilityNamed, CapabilitiesOf, Rows
    <2> QED BY <2>1, <2>2 DEF CapabilitySlot, CapabilityEntry
  <1> DEFINE s == [k \in Names |-> CapabilitySlot(a, k)]
             t == [s EXCEPT ![m] = CapabilitySlot(a, m)']
             e == [id |-> a, owner |-> agents[a].owner, claimed |-> agents[a].claimed,
                   content |-> agents[a].content, capabilities |-> s]
  <1>4. t = [k \in Names |-> CapabilitySlot(a, k)']
    <2>1. \A k \in Names : t[k] = CapabilitySlot(a, k)'
      BY <1>3
    <2> QED BY <2>1
  <1>5. AgentEntry(a) = e
    BY DEF AgentEntry
  <1>6. AgentEntry(a)' = [id |-> a, owner |-> agents[a].owner, claimed |-> agents[a].claimed,
                          content |-> agents[a].content, capabilities |-> t]
    BY <1>4 DEF AgentEntry
  <1>7. AgentEntry(a)' = Catalog!Equipped(AgentEntry(a), m, CapabilitySlot(a, m)')
    <2>1. e.capabilities = s
      OBVIOUS
    <2>2. Catalog!Equipped(e, m, CapabilitySlot(a, m)') = [e EXCEPT !.capabilities = t]
      BY <2>1 DEF Catalog!Equipped
    <2> HIDE DEF s, t
    <2> QED BY <1>5, <1>6, <2>2
  <1>8. AgentEntry(a).capabilities[m] = CapabilitySlot(a, m)
    BY <1>5
  <1> QED BY <1>2, <1>7, <1>8

LEMMA CapabilityEquipped ==
    ASSUME TreeOK, TreeOK', UNCHANGED <<platforms, agents, retired, ownersEver>>,
           NEW c \in Fresh(capabilities), NEW row \in CapabilityRow,
           row.agent \in Rows(agents), CapabilityNamed(row.agent, row.name) = {},
           capabilities' = [capabilities EXCEPT ![c] = row]
    PROVE  Catalog!Next
  <1> DEFINE a == row.agent
             m == row.name
  <1>1. /\ DOMAIN capabilities = CapabilityIds /\ c \in CapabilityIds /\ c \notin Rows(capabilities)
        /\ m \in Names /\ row.content \in Contents /\ row # Null
    BY NullAssumption DEF TreeOK, Fresh, CapabilityRow
  <1>2. /\ capabilities'[c] = row /\ c \in Rows(capabilities')
        /\ \A d \in CapabilityIds \ {c} : capabilities'[d] = capabilities[d]
    BY <1>1 DEF Rows
  <1>3. CapabilitySlot(a, m) = {} /\ CapabilitySlot(a, m)' = {Catalog!Capability(c, row.content)}
    <2>1. CapabilitySlot(a, m)' = {CapabilityEntry(c)'}
      BY <1>2, ShapeNext DEF TreeShape
    <2> QED BY <1>2, <2>1 DEF CapabilitySlot, CapabilityEntry, Catalog!Capability
  <1>4. PICK p \in PlatformIds, n \in Names :
              /\ p \in Catalog!Listed
              /\ AgentEntry(a) \in Tree[p].agents[n]
              /\ AgentEntry(a).capabilities[m] = CapabilitySlot(a, m)
              /\ Catalog!Put(p, n, {Catalog!Equipped(AgentEntry(a), m, CapabilitySlot(a, m)')})
    BY <1>1, <1>2, EntryEquipped
  <1>5. Catalog!Equip(p, n, m, c, row.content)
    BY <1>3, <1>4, FreshIsNew DEF Catalog!Equip
  <1> QED BY <1>1, <1>5, CatalogMoves DEF Catalog!CapabilityChange

LEMMA CapabilityRetuned ==
    ASSUME TreeOK, TreeOK', UNCHANGED <<platforms, agents, retired, ownersEver>>,
           NEW c \in Rows(capabilities), NEW v \in Contents,
           capabilities' = [capabilities EXCEPT ![c].content = v]
    PROVE  Catalog!Next
  <1>0. PICK a, m : a = capabilities[c].agent /\ m = capabilities[c].name
    OBVIOUS
  <1> DEFINE row == [capabilities[c] EXCEPT !.content = v]
  <1>1. /\ c \in CapabilityIds /\ capabilities[c] \in CapabilityRow
        /\ DOMAIN capabilities = CapabilityIds /\ a \in Rows(agents) /\ m \in Names
    BY <1>0 DEF TreeOK
  <1>2. row \in CapabilityRow /\ row.agent = a /\ row.name = m /\ row.content = v
    BY <1>0, <1>1 DEF CapabilityRow
  <1>3. /\ capabilities'[c] = row /\ row # Null
        /\ \A d \in CapabilityIds \ {c} : capabilities'[d] = capabilities[d]
    BY <1>1, <1>2, NullAssumption
  <1> HIDE DEF row
  <1>4. c \in Rows(capabilities') /\ capabilities'[c].agent = a /\ capabilities'[c].name = m
    BY <1>1, <1>2, <1>3 DEF Rows, TreeOK
  <1>5. CapabilitySlot(a, m) = {CapabilityEntry(c)} /\ CapabilitySlot(a, m)' = {CapabilityEntry(c)'}
    BY <1>0, <1>4, Shape, ShapeNext DEF TreeShape
  <1>6. CapabilityEntry(c)' = [CapabilityEntry(c) EXCEPT !.content = v]
    BY <1>2, <1>3 DEF CapabilityEntry
  <1>7. PICK p \in PlatformIds, n \in Names :
              /\ p \in Catalog!Listed
              /\ AgentEntry(a) \in Tree[p].agents[n]
              /\ AgentEntry(a).capabilities[m] = CapabilitySlot(a, m)
              /\ Catalog!Put(p, n, {Catalog!Equipped(AgentEntry(a), m, CapabilitySlot(a, m)')})
    BY <1>0, <1>1, <1>3, <1>4, EntryEquipped
  <1>8. Catalog!Retune(p, n, m, v)
    BY <1>5, <1>6, <1>7 DEF Catalog!Retune
  <1> QED BY <1>1, <1>8, CatalogMoves DEF Catalog!CapabilityChange

LEMMA CapabilityStripped ==
    ASSUME TreeOK, TreeOK', UNCHANGED <<platforms, agents, ownersEver>>,
           NEW c \in Rows(capabilities), capabilities' = Without(capabilities, {c}),
           retired' = retired \cup {c}
    PROVE  Catalog!Next
  <1>0. PICK a, m : a = capabilities[c].agent /\ m = capabilities[c].name
    OBVIOUS
  <1>1. /\ c \in CapabilityIds /\ DOMAIN capabilities = CapabilityIds
        /\ a \in Rows(agents) /\ m \in Names
    BY <1>0 DEF TreeOK
  <1>2. /\ capabilities'[c] = Null /\ c \notin Rows(capabilities')
        /\ \A d \in CapabilityIds \ {c} : capabilities'[d] = capabilities[d]
    BY <1>1 DEF Without, Rows
  <1>3. CapabilitySlot(a, m) = {CapabilityEntry(c)} /\ CapabilitySlot(a, m)' = {}
    <2>1. \A d \in Rows(capabilities') : d \in Rows(capabilities) /\ capabilities'[d] = capabilities[d] /\ d # c
      BY <1>1, <1>2 DEF Rows, TreeOK
    <2>2. CapabilityNamed(a, m) = {c}
      BY <1>0 DEF TreeOK
    <2>3. CapabilityNamed(a, m)' = {}
      BY <2>1, <2>2 DEF CapabilityNamed, CapabilitiesOf
    <2> QED BY <2>2, <2>3 DEF CapabilitySlot
  <1>4. PICK p \in PlatformIds, n \in Names :
              /\ p \in Catalog!Listed
              /\ AgentEntry(a) \in Tree[p].agents[n]
              /\ AgentEntry(a).capabilities[m] = CapabilitySlot(a, m)
              /\ Catalog!Put(p, n, {Catalog!Equipped(AgentEntry(a), m, CapabilitySlot(a, m)')})
    BY <1>0, <1>1, <1>2, EntryEquipped
  <1>5. CapabilityEntry(c).id = c
    BY DEF CapabilityEntry
  <1>6. Catalog!Strip(p, n, m)
    BY <1>3, <1>4, <1>5 DEF Catalog!Strip
  <1> QED BY <1>1, <1>6, CatalogMoves DEF Catalog!CapabilityChange

LEMMA PlatformOpened ==
    ASSUME TreeOK, TreeOK', UNCHANGED retired,
           NEW p \in Fresh(platforms), NEW k \in Owners, ownersEver[p] = {},
           DOMAIN platforms = PlatformIds,
           platforms' = [platforms EXCEPT ![p] = k],
           ownersEver' = [ownersEver EXCEPT ![p] = @ \cup {k}],
           \A q \in PlatformIds \ {p}, m \in Names : AgentSlot(q, m)' = AgentSlot(q, m)
    PROVE  Catalog!Open(p, k, [n \in Names |-> AgentSlot(p, n)'])
  <1>1. p \in PlatformIds /\ p \notin Rows(platforms) /\ p \notin retired
        /\ k # Null /\ platforms'[p] = k /\ ownersEver'[p] = {k}
    BY NullAssumption DEF Fresh, TreeOK
  <1>2. p \in Rows(platforms') /\ TreeShape /\ TreeShape'
    BY <1>1, Shape, ShapeNext DEF Rows
  <1>3. Tree'[p] = Branch(p)' /\ Branch(p)' = Catalog!Branch(k, [n \in Names |-> AgentSlot(p, n)'])
    BY <1>1, <1>2 DEF TreeShape, Branch, Catalog!Branch
  <1>4. Tree' = [Tree EXCEPT ![p] = Tree'[p]]
    <2>1. \A q \in PlatformIds \ {p} : platforms'[q] = platforms[q] /\ ownersEver'[q] = ownersEver[q]
      BY DEF TreeOK
    <2> QED BY <1>1, <2>1, OneBranchWritten
  <1>5. p \notin Catalog!Listed \cup retired
    BY <1>1, <1>2 DEF TreeShape
  <1> QED BY <1>3, <1>4, <1>5 DEF Catalog!Open

LEMMA OpenedEmpty ==
    ASSUME TreeOK, TreeOK', UNCHANGED <<agents, capabilities, retired>>,
           NEW p \in Fresh(platforms), NEW k \in Owners, ownersEver[p] = {},
           DOMAIN platforms = PlatformIds,
           platforms' = [platforms EXCEPT ![p] = k],
           ownersEver' = [ownersEver EXCEPT ![p] = @ \cup {k}]
    PROVE  Catalog!Next
  <1>1. \A q \in PlatformIds, m \in Names : AgentSlot(q, m)' = AgentSlot(q, m)
    BY DEF AgentSlot, AgentNamed, AgentsOf, AgentEntry, CapabilitySlot, CapabilityEntry,
       CapabilityNamed, CapabilitiesOf, Rows
  <1>2. p \in PlatformIds /\ p \notin Rows(platforms)
    BY DEF Fresh
  <1>3. AgentsOf(p) = {}
    BY <1>2 DEF AgentsOf, TreeOK
  <1>4. \A n \in Names : AgentSlot(p, n)' = {}
    BY <1>1, <1>2, <1>3 DEF AgentSlot, AgentNamed
  <1>5. [n \in Names |-> AgentSlot(p, n)'] = Catalog!Slots
    BY <1>4 DEF Catalog!Slots
  <1>6. Catalog!Open(p, k, [n \in Names |-> AgentSlot(p, n)'])
    BY <1>1, PlatformOpened
  <1>7. Catalog!OpenEmpty(p, k)
    BY <1>5, <1>6 DEF Catalog!OpenEmpty
  <1> QED BY <1>2, <1>7, CatalogMoves DEF Catalog!PlatformChange

LEMMA OpenedWith ==
    ASSUME TreeOK, TreeOK', UNCHANGED <<capabilities, retired>>,
           NEW p \in Fresh(platforms), NEW k \in Owners, ownersEver[p] = {},
           DOMAIN platforms = PlatformIds,
           platforms' = [platforms EXCEPT ![p] = k],
           ownersEver' = [ownersEver EXCEPT ![p] = @ \cup {k}],
           NEW a \in Fresh(agents), NEW row \in AgentRow,
           row.platform = p, row.owner = k, row.claimed = FALSE,
           agents' = [agents EXCEPT ![a] = row]
    PROVE  Catalog!Next
  <1> DEFINE n == row.name
  <1>1. /\ p \in PlatformIds /\ p \notin Rows(platforms)
        /\ a \in AgentIds /\ a \notin Rows(agents) /\ DOMAIN agents = AgentIds
        /\ n \in Names /\ row.content \in Contents /\ row # Null
        /\ DOMAIN capabilities = CapabilityIds
    BY NullAssumption DEF Fresh, TreeOK, AgentRow
  <1>2. /\ agents'[a] = row /\ a \in Rows(agents')
        /\ \A b \in AgentIds \ {a} : agents'[b] = agents[b]
    BY <1>1 DEF Rows
  <1>3. \A q \in PlatformIds, m \in Names :
            <<q, m>> # <<p, n>> => AgentSlot(q, m)' = AgentSlot(q, m)
    BY <1>1, <1>2, OtherSlots
  <1>4. Catalog!Open(p, k, [m \in Names |-> AgentSlot(p, m)'])
    <2>1. \A q \in PlatformIds \ {p}, m \in Names : AgentSlot(q, m)' = AgentSlot(q, m)
      BY <1>3
    <2> QED BY <2>1, PlatformOpened
  <1>5. AgentEntry(a)' = Catalog!Agent(a, k, row.content)
    <2>1. CapabilitiesOf({a})' = {}
      BY <1>1, <1>2 DEF CapabilitiesOf, TreeOK, Rows
    <2>2. \A m \in Names : CapabilitySlot(a, m)' = {}
      BY <2>1 DEF CapabilitySlot, CapabilityNamed
    <2> QED BY <1>2, <2>2 DEF AgentEntry, Catalog!Agent, Catalog!Slots
  <1>6. AgentSlot(p, n)' = {AgentEntry(a)'}
    BY <1>2, ShapeNext DEF TreeShape
  <1>7. \A m \in Names \ {n} : AgentSlot(p, m)' = {}
    <2>1. AgentsOf(p) = {}
      BY <1>1 DEF AgentsOf, TreeOK
    <2>2. \A m \in Names : AgentSlot(p, m) = {}
      BY <2>1 DEF AgentSlot, AgentNamed
    <2> QED BY <1>1, <1>3, <2>2
  <1>8. [m \in Names |-> AgentSlot(p, m)']
          = [Catalog!Slots EXCEPT ![n] = {Catalog!Agent(a, k, row.content)}]
    BY <1>1, <1>5, <1>6, <1>7 DEF Catalog!Slots
  <1>9. Catalog!OpenWith(p, k, n, a, row.content)
    BY <1>4, <1>8, FreshIsNew DEF Catalog!OpenWith
  <1> QED BY <1>1, <1>9, CatalogMoves DEF Catalog!PlatformChange

LEMMA PlatformClosed ==
    ASSUME TreeOK, TreeOK', UNCHANGED ownersEver,
           NEW p \in Rows(platforms), DOMAIN platforms = PlatformIds,
           platforms' = Without(platforms, {p}), RemoveAgents(AgentsOf(p)),
           retired' = retired \cup {p} \cup AgentsOf(p) \cup CapabilitiesOf(AgentsOf(p))
    PROVE  Catalog!Next
  <1>1. /\ p \in PlatformIds /\ platforms'[p] = Null
        /\ \A q \in PlatformIds \ {p} : platforms'[q] = platforms[q]
        /\ DOMAIN agents = AgentIds /\ DOMAIN capabilities = CapabilityIds
    BY DEF Without, Rows, TreeOK
  <1>2. ASSUME NEW q \in PlatformIds \ {p}, NEW m \in Names
        PROVE  AgentSlot(q, m)' = AgentSlot(q, m)
    <2>1. AgentNamed(q, m)' = AgentNamed(q, m)
      BY <1>1 DEF RemoveAgents, Without, AgentNamed, AgentsOf, Rows
    <2>2. ASSUME NEW b \in AgentNamed(q, m) PROVE AgentEntry(b)' = AgentEntry(b)
      <3>1. b \in AgentIds /\ b \notin AgentsOf(p) /\ agents'[b] = agents[b]
        BY <1>1 DEF RemoveAgents, Without, AgentNamed, AgentsOf, Rows
      <3>2. ASSUME NEW k \in Names PROVE CapabilitySlot(b, k)' = CapabilitySlot(b, k)
        <4>1. CapabilityNamed(b, k)' = CapabilityNamed(b, k)
          BY <1>1, <3>1 DEF RemoveAgents, Without, CapabilityNamed, CapabilitiesOf, Rows
        <4>2. \A c \in CapabilityNamed(b, k) : capabilities'[c] = capabilities[c]
          BY <1>1, <3>1 DEF RemoveAgents, Without, CapabilityNamed, CapabilitiesOf, Rows
        <4> QED BY <4>1, <4>2 DEF CapabilitySlot, CapabilityEntry
      <3> QED BY <3>1, <3>2 DEF AgentEntry
    <2> QED BY <2>1, <2>2 DEF AgentSlot
  <1>3. Tree' = [Tree EXCEPT ![p] = Tree'[p]]
    BY <1>1, <1>2, OneBranchWritten
  <1>4. Tree'[p] = Null
    BY <1>1, ShapeNext DEF TreeShape, Rows
  <1>5. p \in Catalog!Listed
    BY Shape DEF TreeShape
  <1>6. /\ Catalog!Ids(Catalog!AgentsIn(p)) = AgentsOf(p)
        /\ Catalog!Ids(Catalog!CapabilitiesIn(Catalog!AgentsIn(p))) = CapabilitiesOf(AgentsOf(p))
    <2>1. AgentsOf(p) \in SUBSET Rows(agents)
      BY DEF AgentsOf
    <2> QED BY <2>1, IdsInTree
  <1>7. Catalog!Close(p)
    BY <1>3, <1>4, <1>5, <1>6 DEF Catalog!Close
  <1> QED BY <1>1, <1>7, CatalogMoves DEF Catalog!PlatformChange

\* A claim: the platform changes hands, and with it the agent if it is there.
LEMMA Transferred ==
    ASSUME TreeOK, TreeOK', UNCHANGED <<agents, capabilities, retired>>,
           NEW p \in Rows(platforms), NEW k \in Owners, DOMAIN platforms = PlatformIds,
           platforms' = [platforms EXCEPT ![p] = k],
           ownersEver' = [ownersEver EXCEPT ![p] = @ \cup {k}]
    PROVE  Catalog!Next
  <1>1. /\ p \in PlatformIds /\ k # Null /\ platforms'[p] = k /\ p \in Rows(platforms')
        /\ ownersEver'[p] = ownersEver[p] \cup {k}
        /\ \A q \in PlatformIds \ {p} : platforms'[q] = platforms[q] /\ ownersEver'[q] = ownersEver[q]
    BY NullAssumption DEF Rows, TreeOK
  <1>2. \A q \in PlatformIds, m \in Names : AgentSlot(q, m)' = AgentSlot(q, m)
    BY DEF AgentSlot, AgentNamed, AgentsOf, AgentEntry, CapabilitySlot, CapabilityEntry,
       CapabilityNamed, CapabilitiesOf, Rows
  <1>3. TreeShape /\ TreeShape'
    BY Shape, ShapeNext
  <1> DEFINE f == [n \in Names |-> AgentSlot(p, n)]
  <1>4. Tree[p] = Branch(p) /\ Tree'[p] = Branch(p)' /\ p \in Catalog!Listed
    BY <1>1, <1>3 DEF TreeShape
  <1>5. Branch(p) = [owner |-> platforms[p], owners |-> ownersEver[p], agents |-> f]
    BY DEF Branch
  <1>6. Branch(p)' = [owner |-> k, owners |-> ownersEver[p] \cup {k}, agents |-> f]
    <2>1. [n \in Names |-> AgentSlot(p, n)'] = f
      BY <1>1, <1>2
    <2> QED BY <1>1, <2>1 DEF Branch
  <1>7. Tree' = [Tree EXCEPT ![p] = Tree'[p]]
    BY <1>1, <1>2, OneBranchWritten
  <1>8. Tree' = [Tree EXCEPT ![p].owner = k, ![p].owners = @ \cup {k}]
    <2> HIDE DEF f
    <2>1. Tree = [q \in PlatformIds |-> Tree[q]]
      BY <1>3 DEF TreeShape
    <2>2. [Tree[p] EXCEPT !.owner = k, !.owners = @ \cup {k}] = Tree'[p]
      <3> DEFINE b1 == [owner |-> k, owners |-> ownersEver[p], agents |-> f]
      <3>1. [Tree[p] EXCEPT !.owner = k] = b1
        BY <1>4, <1>5
      <3>2. [b1 EXCEPT !.owners = @ \cup {k}] = Tree'[p]
        BY <1>4, <1>6
      <3> HIDE DEF b1
      <3>3. [Tree[p] EXCEPT !.owner = k, !.owners = @ \cup {k}]
              = [[Tree[p] EXCEPT !.owner = k] EXCEPT !.owners = @ \cup {k}]
        OBVIOUS
      <3> QED BY <3>1, <3>2, <3>3
    <2> QED BY <1>1, <1>7, <2>1, <2>2
  <1>9. Catalog!Transfer(p, k)
    BY <1>4, <1>8 DEF Catalog!Transfer
  <1> QED BY <1>1, <1>9, CatalogMoves DEF Catalog!PlatformChange

LEMMA Bound ==
    ASSUME TreeOK, TreeOK', UNCHANGED <<capabilities, retired>>,
           NEW p \in Rows(platforms), NEW k \in Owners, DOMAIN platforms = PlatformIds,
           platforms' = [platforms EXCEPT ![p] = k],
           ownersEver' = [ownersEver EXCEPT ![p] = @ \cup {k}],
           NEW a \in Rows(agents), agents[a].platform = p,
           agents' = [agents EXCEPT ![a].owner = k, ![a].claimed = TRUE]
    PROVE  Catalog!Next
  <1>0. PICK n : n = agents[a].name
    OBVIOUS
  <1>1. /\ p \in PlatformIds /\ k # Null /\ platforms'[p] = k /\ p \in Rows(platforms')
        /\ ownersEver'[p] = ownersEver[p] \cup {k}
        /\ \A q \in PlatformIds \ {p} : platforms'[q] = platforms[q] /\ ownersEver'[q] = ownersEver[q]
        /\ n \in Names /\ a \in AgentIds /\ agents[a] \in AgentRow /\ DOMAIN agents = AgentIds
    BY <1>0, NullAssumption DEF Rows, TreeOK
  <1> DEFINE row == [agents[a] EXCEPT !.owner = k, !.claimed = TRUE]
  <1>2. /\ row \in AgentRow /\ row.platform = p /\ row.name = n /\ row.content = agents[a].content
        /\ row.owner = k /\ row.claimed = TRUE
    BY <1>0, <1>1 DEF AgentRow
  <1>3. /\ agents'[a] = row /\ row # Null
        /\ \A b \in AgentIds \ {a} : agents'[b] = agents[b]
    BY <1>1, <1>2, NullAssumption
  <1> HIDE DEF row
  <1>4. a \in Rows(agents') /\ agents'[a].platform = p /\ agents'[a].name = n
    BY <1>1, <1>2, <1>3 DEF Rows, TreeOK
  <1>5. \A q \in PlatformIds, m \in Names :
            <<q, m>> # <<p, n>> => AgentSlot(q, m)' = AgentSlot(q, m)
    BY <1>0, <1>1, <1>3, <1>4, OtherSlots
  <1>6. TreeShape /\ TreeShape'
    BY Shape, ShapeNext
  <1>7. AgentSlot(p, n) = {AgentEntry(a)} /\ AgentSlot(p, n)' = {AgentEntry(a)'}
    BY <1>0, <1>4, <1>6 DEF TreeShape
  <1> DEFINE x == [AgentEntry(a) EXCEPT !.owner = k, !.claimed = TRUE]
             f == [m \in Names |-> AgentSlot(p, m)]
             g == [f EXCEPT ![n] = {x}]
  <1>8. AgentEntry(a)' = x
    <2> DEFINE s == [m \in Names |-> CapabilitySlot(a, m)]
    <2>1. \A m \in Names : CapabilitySlot(a, m)' = CapabilitySlot(a, m)
      BY DEF CapabilitySlot, CapabilityNamed, CapabilitiesOf, CapabilityEntry, Rows
    <2>2. [m \in Names |-> CapabilitySlot(a, m)'] = s
      BY <2>1
    <2>3. AgentEntry(a) = [id |-> a, owner |-> agents[a].owner, claimed |-> agents[a].claimed,
                           content |-> agents[a].content, capabilities |-> s]
      BY DEF AgentEntry
    <2>4. /\ agents'[a].owner = k /\ agents'[a].claimed = TRUE
          /\ agents'[a].content = agents[a].content
      BY <1>2, <1>3
    <2>5. AgentEntry(a)' = [id |-> a, owner |-> k, claimed |-> TRUE,
                            content |-> agents[a].content, capabilities |-> s]
      BY <2>2, <2>4 DEF AgentEntry
    <2> HIDE DEF s
    <2> DEFINE e1 == [id |-> a, owner |-> k, claimed |-> agents[a].claimed,
                      content |-> agents[a].content, capabilities |-> s]
    <2>6. [AgentEntry(a) EXCEPT !.owner = k] = e1
      BY <2>3
    <2>7. [e1 EXCEPT !.claimed = TRUE] = AgentEntry(a)'
      <3>1. PICK t : t = TRUE
        OBVIOUS
      <3>2. AgentEntry(a)' = [id |-> a, owner |-> k, claimed |-> t,
                              content |-> agents[a].content, capabilities |-> s]
        BY <2>5, <3>1
      <3>3. [e1 EXCEPT !.claimed = t] = AgentEntry(a)'
        BY <3>2
      <3> QED BY <3>1, <3>3
    <2> HIDE DEF e1
    <2>8. x = [[AgentEntry(a) EXCEPT !.owner = k] EXCEPT !.claimed = TRUE]
      OBVIOUS
    <2> QED BY <2>6, <2>7, <2>8
  <1>9. Tree[p] = Branch(p) /\ Tree'[p] = Branch(p)' /\ p \in Catalog!Listed
    BY <1>1, <1>6 DEF TreeShape
  <1>10. Branch(p) = [owner |-> platforms[p], owners |-> ownersEver[p], agents |-> f]
    BY DEF Branch
  <1>11. Branch(p)' = [owner |-> k, owners |-> ownersEver[p] \cup {k}, agents |-> g]
    <2>1. [m \in Names |-> AgentSlot(p, m)'] = g
      <3> HIDE DEF x
      <3>1. \A m \in Names : g[m] = AgentSlot(p, m)'
        BY <1>1, <1>5, <1>7, <1>8
      <3> QED BY <3>1
    <2> HIDE DEF g
    <2> QED BY <1>1, <2>1 DEF Branch
  <1>12. Tree' = [Tree EXCEPT ![p] = Tree'[p]]
    BY <1>1, <1>5, OneBranchWritten
  <1>13. Tree' = [Tree EXCEPT ![p].owner = k, ![p].owners = @ \cup {k}, ![p].agents[n] = {x}]
    <2>1. Tree = [q \in PlatformIds |-> Tree[q]]
      BY <1>6 DEF TreeShape
    <2>2. [Tree[p] EXCEPT !.owner = k, !.owners = @ \cup {k}, !.agents[n] = {x}] = Tree'[p]
      <3> HIDE DEF f, x
      <3>0. PICK w, y : w = ownersEver[p] /\ y = ownersEver[p] \cup {k}
        OBVIOUS
      <3> DEFINE b1 == [owner |-> k, owners |-> w, agents |-> f]
                 b2 == [owner |-> k, owners |-> y, agents |-> f]
      <3>1. [Tree[p] EXCEPT !.owner = k] = b1
        BY <1>9, <1>10, <3>0
      <3>2. [b1 EXCEPT !.owners = @ \cup {k}] = b2
        <4>1. [b1 EXCEPT !.owners = y] = b2 /\ b1.owners = w
          OBVIOUS
        <4> HIDE DEF b1, b2
        <4>2. [b1 EXCEPT !.owners = @ \cup {k}] = [b1 EXCEPT !.owners = y]
          BY <3>0, <4>1
        <4> QED BY <4>1, <4>2
      <3>3. b2.agents = f /\ [b2 EXCEPT !.agents = g] = Tree'[p]
        <4> HIDE DEF g
        <4>1. Tree'[p] = [owner |-> k, owners |-> y, agents |-> g]
          BY <1>9, <1>11, <3>0
        <4> QED BY <4>1
      <3>4. [b2 EXCEPT !.agents = [@ EXCEPT ![n] = {x}]] = Tree'[p]
        <4> HIDE DEF b2
        <4> QED BY <3>3
      <3> HIDE DEF b1, b2
      <3>5. [Tree[p] EXCEPT !.owner = k, !.owners = @ \cup {k}, !.agents[n] = {x}]
              = [[[Tree[p] EXCEPT !.owner = k] EXCEPT !.owners = @ \cup {k}]
                   EXCEPT !.agents = [@ EXCEPT ![n] = {x}]]
        OBVIOUS
      <3> QED BY <3>1, <3>2, <3>4, <3>5
    <2> HIDE DEF x
    <2> QED BY <1>1, <1>12, <2>1, <2>2
  <1>14. AgentEntry(a) \in Tree[p].agents[n]
    BY <1>1, <1>7, <1>9, <1>10
  <1>15. Catalog!Bind(p, n, k)
    BY <1>9, <1>13, <1>14 DEF Catalog!Bind
  <1> QED BY <1>1, <1>15, CatalogMoves DEF Catalog!AgentChange

(***************************************************************************)
(* Every commit is one change of the tree, or none.                        *)
(***************************************************************************)
CatalogStep == Catalog!Next \/ UNCHANGED <<Tree, retired>>

LEMMA TreesOK ==
    ASSUME IInv, IInv'
    PROVE  TreeOK /\ TreeOK'
  <1>1. TablesOK /\ TablesOK'
    BY DEF IInv, TypeOK, TablesOK
  <1> QED BY <1>1, RowsHavePlaces, RowsHavePlacesNext

LEMMA SameTree ==
    ASSUME IInv, IInv', UNCHANGED <<platforms, agents, capabilities, retired, ownersEver>>
    PROVE  CatalogStep
  <1>1. TreeOK /\ TreeOK'
    BY TreesOK
  <1>2. \A q \in PlatformIds, m \in Names : AgentSlot(q, m)' = AgentSlot(q, m)
    BY DEF AgentSlot, AgentNamed, AgentsOf, AgentEntry, CapabilitySlot, CapabilityEntry,
       CapabilityNamed, CapabilitiesOf, Rows
  <1>3. ASSUME NEW q \in PlatformIds PROVE Tree'[q] = Tree[q]
    <2>1. Branch(q)' = Branch(q)
      BY <1>2 DEF Branch
    <2>2. Rows(platforms') = Rows(platforms)
      BY DEF Rows
    <2>3. TreeShape /\ TreeShape'
      BY <1>1, Shape, ShapeNext
    <2>4. CASE q \in Rows(platforms)
      <3>1. Tree[q] = Branch(q) /\ Tree'[q] = Branch(q)'
        BY <2>2, <2>3, <2>4 DEF TreeShape
      <3> QED BY <2>1, <3>1
    <2>5. CASE q \notin Rows(platforms)
      BY <2>2, <2>3, <2>5 DEF TreeShape
    <2> QED BY <2>4, <2>5
  <1>4. Tree = [q \in PlatformIds |-> Tree[q]] /\ Tree' = [q \in PlatformIds |-> Tree'[q]]
    BY <1>1, Shape, ShapeNext DEF TreeShape
  <1>5. Tree' = Tree
    BY <1>3, <1>4
  <1> QED BY <1>5 DEF CatalogStep

LEMMA FreshUnowned ==
    ASSUME IInv, NEW p \in Fresh(platforms)
    PROVE  ownersEver[p] = {} /\ DOMAIN platforms = PlatformIds
  BY DEF IInv, OwnersKnown, TypeOK, Fresh

LEMMA PlatformWritesTree ==
    ASSUME IInv, IInv', NEW r \in Requests,
           CreatePlatform(r) \/ QuickIdentity(r) \/ DeletePlatform(r)
    PROVE  CatalogStep
  <1>1. TreeOK /\ TreeOK'
    BY TreesOK
  <1>2. req[r] \in Request /\ Carries(r)
    BY DEF IInv, TypeOK
  <1>3. CASE CreatePlatform(r)
    <2>1. req[r].owner \in Owners
      BY <1>2, <1>3 DEF CreatePlatform, At, Carries, Request
    <2>2. PICK p \in Fresh(platforms) :
            /\ platforms' = [platforms EXCEPT ![p] = req[r].owner]
            /\ ownersEver' = [ownersEver EXCEPT ![p] = @ \cup {req[r].owner}]
      BY <1>3 DEF CreatePlatform
    <2>3. UNCHANGED <<agents, capabilities, retired>>
      BY <1>3 DEF CreatePlatform
    <2> QED BY <1>1, <2>1, <2>2, <2>3, FreshUnowned, OpenedEmpty DEF CatalogStep
  <1>4. CASE QuickIdentity(r)
    <2>1. req[r].owner \in Owners /\ req[r].name \in Names /\ req[r].content \in Contents
      BY <1>2, <1>4 DEF QuickIdentity, At, Carries, Request
    <2>2. PICK p \in Fresh(platforms), a \in Fresh(agents) :
            /\ platforms' = [platforms EXCEPT ![p] = req[r].owner]
            /\ ownersEver' = [ownersEver EXCEPT ![p] = @ \cup {req[r].owner}]
            /\ agents' = [agents EXCEPT ![a] =
                  [platform |-> p, name |-> req[r].name, owner |-> req[r].owner,
                   claimed |-> FALSE, content |-> req[r].content]]
      BY <1>4 DEF QuickIdentity
    <2>3. UNCHANGED <<capabilities, retired>>
      BY <1>4 DEF QuickIdentity
    <2> DEFINE row == [platform |-> p, name |-> req[r].name, owner |-> req[r].owner,
                       claimed |-> FALSE, content |-> req[r].content]
    <2>4. p \in PlatformIds
      BY FreshUnowned DEF Fresh
    <2>5. /\ row \in AgentRow /\ row.platform = p /\ row.owner = req[r].owner
          /\ row.claimed = FALSE /\ agents' = [agents EXCEPT ![a] = row]
      BY <2>1, <2>2, <2>4 DEF AgentRow
    <2> HIDE DEF row
    <2>6. ownersEver[p] = {} /\ DOMAIN platforms = PlatformIds
      BY FreshUnowned
    <2>7. Catalog!Next
      <3>1. PICK k \in Owners, x \in AgentRow : k = req[r].owner /\ x = row
        BY <2>1, <2>5
      <3>2. /\ platforms' = [platforms EXCEPT ![p] = k]
            /\ ownersEver' = [ownersEver EXCEPT ![p] = @ \cup {k}]
            /\ x.platform = p /\ x.owner = k /\ x.claimed = FALSE
            /\ agents' = [agents EXCEPT ![a] = x]
        BY <2>2, <2>5, <3>1
      <3> QED BY <1>1, <2>3, <2>6, <3>2, OpenedWith
    <2> QED BY <2>7 DEF CatalogStep
  <1>5. CASE DeletePlatform(r)
    <2> DEFINE p == req[r].platform
    <2>1. CASE p \notin Rows(platforms)
      BY <1>5, <2>1, SameTree DEF DeletePlatform, tables
    <2>2. CASE p \in Rows(platforms)
      <3>1. /\ platforms' = Without(platforms, {p}) /\ RemoveAgents(AgentsOf(p))
            /\ retired' = retired \cup {p} \cup AgentsOf(p) \cup CapabilitiesOf(AgentsOf(p))
            /\ UNCHANGED ownersEver
        BY <1>5, <2>2 DEF DeletePlatform
      <3>2. DOMAIN platforms = PlatformIds
        BY DEF IInv, TypeOK
      <3> HIDE DEF p
      <3> QED BY <1>1, <2>2, <3>1, <3>2, PlatformClosed DEF CatalogStep
    <2> QED BY <2>1, <2>2
  <1> QED BY <1>3, <1>4, <1>5

LEMMA AgentWritesTree ==
    ASSUME IInv, IInv', NEW r \in Requests,
           UpdateAgentTunnel(r) \/ UpsertAgent(r) \/ UpdateAgent(r) \/ DeleteAgent(r)
    PROVE  CatalogStep
  <1>1. TreeOK /\ TreeOK'
    BY TreesOK
  <1>2. req[r] \in Request /\ Carries(r) /\ StillTrue(r)
    BY DEF IInv, TypeOK
  \* An UPDATE of the content of one agent, or no change.
  <1>3. ASSUME UNCHANGED <<platforms, capabilities, retired, ownersEver>>,
               req[r].content \in Contents,
               \/ UNCHANGED agents
               \/ \E a \in Rows(agents) : agents' = [agents EXCEPT ![a].content = req[r].content]
        PROVE  CatalogStep
    BY <1>1, <1>3, SameTree, ContentRewritten DEF CatalogStep
  <1>4. CASE UpdateAgentTunnel(r)
    <2>1. req[r].content \in Contents
      BY <1>2, <1>4 DEF UpdateAgentTunnel, At, Carries, Request
    <2> QED BY <1>3, <1>4, <2>1 DEF UpdateAgentTunnel, Tunnelled, AgentsOf
  <1>5. CASE UpdateAgent(r)
    <2>1. req[r].content \in Contents
      BY <1>2, <1>5 DEF UpdateAgent, At, Carries, Request
    <2> QED BY <1>3, <1>5, <2>1 DEF UpdateAgent
  <1>6. CASE UpsertAgent(r)
    <2> DEFINE p == req[r].platform
               named == AgentNamed(p, req[r].name)
    <2>1. /\ req[r].op = "createAgent" /\ req[r].at = "work"
          /\ UNCHANGED <<platforms, capabilities, retired, ownersEver>>
      BY <1>6 DEF UpsertAgent, At
    <2>2. /\ req[r].name \in Names /\ req[r].content \in Contents
          /\ p \in PlatformIds /\ req[r].owner \in ownersEver[p]
          /\ req[r].owner \in Owners
      BY <1>2, <2>1 DEF Carries, StillTrue, At, Request, IInv, TypeOK
    <2>3. CASE \E a \in named : agents' = [agents EXCEPT ![a] = OnConflict(@, req[r].content)]
      <3>1. \A a \in named : a \in Rows(agents)
        BY DEF AgentNamed, AgentsOf
      <3> QED BY <1>3, <2>1, <2>2, <2>3, <3>1 DEF OnConflict
    <2>4. ASSUME named = {}, p \in Rows(platforms), NEW a \in Fresh(agents),
                 agents' = [agents EXCEPT ![a] =
                    [platform |-> p, name |-> req[r].name, owner |-> req[r].owner,
                     claimed |-> FALSE, content |-> req[r].content]]
          PROVE  CatalogStep
      <3> DEFINE row == [platform |-> p, name |-> req[r].name, owner |-> req[r].owner,
                         claimed |-> FALSE, content |-> req[r].content]
      <3>1. /\ row \in AgentRow /\ row.platform = p /\ row.owner = req[r].owner
            /\ row.name = req[r].name
            /\ row.claimed = FALSE /\ agents' = [agents EXCEPT ![a] = row]
        BY <2>2, <2>4 DEF AgentRow
      <3> HIDE DEF row
      <3> QED BY <1>1, <2>1, <2>2, <2>4, <3>1, AgentEnrolled DEF CatalogStep
    <2>5. CASE UNCHANGED agents
      BY <2>1, <2>5, SameTree
    <2> QED BY <1>6, <2>3, <2>4, <2>5 DEF UpsertAgent
  <1>7. CASE DeleteAgent(r)
    <2>1. CASE req[r].agent \notin Rows(agents)
      BY <1>7, <2>1, SameTree DEF DeleteAgent
    <2>2. CASE req[r].agent \in Rows(agents)
      BY <1>1, <1>7, <2>2, AgentDismissed DEF DeleteAgent, CatalogStep
    <2> QED BY <2>1, <2>2
  <1> QED BY <1>4, <1>5, <1>6, <1>7

LEMMA ClaimWritesTree ==
    ASSUME IInv, IInv', NEW r \in Requests, ClaimAgent(r)
    PROVE  CatalogStep
  <1> DEFINE a == req[r].agent
             p == req[r].platform
             k == req[r].owner
  <1>1. TreeOK /\ TreeOK' /\ DOMAIN platforms = PlatformIds
        /\ ownersEver \in [PlatformIds -> SUBSET Owners]
    BY TreesOK DEF IInv, TypeOK
  <1>2. /\ req[r].op = "claim" /\ req[r].at = "work"
        /\ k \in Owners /\ p \in PlatformIds
        /\ a \in Rows(agents) => agents[a].platform = p
    BY DEF ClaimAgent, At, IInv, TypeOK, Carries, StillTrue, Request
  <1>3. /\ UNCHANGED <<capabilities, retired>>
        /\ platforms' = IF p \in Rows(platforms) THEN [platforms EXCEPT ![p] = k] ELSE platforms
        /\ agents' = IF a \in Rows(agents)
                       THEN [agents EXCEPT ![a].owner = k, ![a].claimed = TRUE] ELSE agents
        /\ ownersEver' = [q \in PlatformIds |-> ownersEver[q] \cup ({platforms'[q]} \ {Null})]
    BY DEF ClaimAgent, BoundPlatforms
  <1> HIDE DEF a, p, k
  <1>4. \A q \in PlatformIds : ownersEver[q] \cup ({platforms[q]} \ {Null}) = ownersEver[q]
    BY <1>1 DEF IInv, OwnersKnown, Rows
  <1>5. CASE p \notin Rows(platforms)
    <2>1. a \notin Rows(agents)
      BY <1>2, <1>5 DEF IInv, NoOrphans
    <2>2. platforms' = platforms /\ agents' = agents
      BY <1>3, <1>5, <2>1
    <2>3. ownersEver' = ownersEver
      <3>1. \A q \in PlatformIds : ownersEver'[q] = ownersEver[q]
        BY <1>3, <1>4, <2>2
      <3> QED BY <1>1, <1>3, <3>1
    <2> QED BY <1>3, <2>2, <2>3, SameTree
  <1>6. CASE p \in Rows(platforms)
    <2>1. platforms' = [platforms EXCEPT ![p] = k] /\ k # Null
      BY <1>2, <1>3, <1>6, NullAssumption
    <2>2. ownersEver' = [ownersEver EXCEPT ![p] = @ \cup {k}]
      <3>1. \A q \in PlatformIds :
              ownersEver'[q] = IF q = p THEN ownersEver[q] \cup {k} ELSE ownersEver[q]
        BY <1>1, <1>2, <1>3, <1>4, <2>1
      <3> QED BY <1>1, <1>2, <1>3, <3>1
    <2>3. CASE a \in Rows(agents)
      BY <1>1, <1>2, <1>3, <1>6, <2>1, <2>2, <2>3, Bound DEF CatalogStep
    <2>4. CASE a \notin Rows(agents)
      BY <1>1, <1>2, <1>3, <1>6, <2>1, <2>2, <2>4, Transferred DEF CatalogStep
    <2> QED BY <2>3, <2>4
  <1> QED BY <1>5, <1>6

LEMMA CapabilityWritesTree ==
    ASSUME IInv, IInv', NEW r \in Requests,
           UpsertCapability(r) \/ UpdateCapability(r) \/ DeleteCapability(r)
    PROVE  CatalogStep
  <1>1. TreeOK /\ TreeOK'
    BY TreesOK
  <1>2. req[r] \in Request /\ Carries(r) /\ UNCHANGED <<platforms, agents, ownersEver>>
    BY DEF IInv, TypeOK, UpsertCapability, UpdateCapability, DeleteCapability
  <1>3. CASE UNCHANGED <<capabilities, retired>>
    BY <1>2, <1>3, SameTree
  <1>4. CASE UpsertCapability(r)
    <2> DEFINE a == req[r].agent
               named == CapabilityNamed(a, req[r].name)
    <2>1. /\ req[r].name \in Names /\ req[r].content \in Contents /\ a \in AgentIds
          /\ UNCHANGED retired
      BY <1>2, <1>4 DEF UpsertCapability, At, Carries, Request, ByAgent
    <2>2. CASE \E c \in named : capabilities' = [capabilities EXCEPT ![c].content = req[r].content]
      <3>1. \A c \in named : c \in Rows(capabilities)
        BY DEF CapabilityNamed, CapabilitiesOf
      <3> QED BY <1>1, <1>2, <2>1, <2>2, <3>1, CapabilityRetuned DEF CatalogStep
    <2>3. ASSUME named = {}, a \in Rows(agents), NEW c \in Fresh(capabilities),
                 capabilities' = [capabilities EXCEPT ![c] =
                    [agent |-> a, name |-> req[r].name, content |-> req[r].content]]
          PROVE  CatalogStep
      <3> DEFINE row == [agent |-> a, name |-> req[r].name, content |-> req[r].content]
      <3>1. /\ row \in CapabilityRow /\ row.agent = a /\ row.name = req[r].name
            /\ capabilities' = [capabilities EXCEPT ![c] = row]
        BY <2>1, <2>3 DEF CapabilityRow
      <3> HIDE DEF row
      <3> QED BY <1>1, <1>2, <2>1, <2>3, <3>1, CapabilityEquipped DEF CatalogStep
    <2>4. CASE UNCHANGED capabilities
      BY <1>3, <2>1, <2>4
    <2> QED BY <1>4, <2>2, <2>3, <2>4 DEF UpsertCapability
  <1>5. CASE UpdateCapability(r)
    <2>1. req[r].content \in Contents /\ UNCHANGED retired
      BY <1>2, <1>5 DEF UpdateCapability, At, Carries, Request
    <2>2. CASE req[r].capability \in Rows(capabilities)
      BY <1>1, <1>2, <1>5, <2>1, <2>2, CapabilityRetuned DEF UpdateCapability, CatalogStep
    <2>3. CASE req[r].capability \notin Rows(capabilities)
      BY <1>3, <1>5, <2>1, <2>3 DEF UpdateCapability
    <2> QED BY <2>2, <2>3
  <1>6. CASE DeleteCapability(r)
    <2>1. CASE req[r].capability \in Rows(capabilities)
      BY <1>1, <1>2, <1>6, <2>1, CapabilityStripped DEF DeleteCapability, CatalogStep
    <2>2. CASE req[r].capability \notin Rows(capabilities)
      BY <1>3, <1>6, <2>2 DEF DeleteCapability
    <2> QED BY <2>1, <2>2
  <1> QED BY <1>4, <1>5, <1>6

\* The tables implement the catalog: whatever the requests overlap, each commit
\* changes the tree of platforms, agents and capabilities at one place, as one
\* of the catalog's operations, or not at all.
THEOREM ImplementsCatalog == Spec => CatalogSpec
  <1>1. Init => Catalog!Init
    <2> SUFFICES ASSUME Init PROVE Catalog!Init
      OBVIOUS
    <2>1. Rows(platforms) = {}
      BY DEF Init, Rows
    <2>2. Tree = [p \in PlatformIds |-> Null]
      <3>1. TreeOK
        BY Initially, RowsHavePlaces DEF IInv, TypeOK, TablesOK
      <3>2. TreeShape
        BY <3>1, Shape
      <3> QED BY <2>1, <3>2 DEF TreeShape
    <2>3. retired = {}
      BY DEF Init
    <2> QED BY <2>2, <2>3 DEF Catalog!Init
  <1>2. IInv /\ IInv' /\ [Next]_vars => [Catalog!Next]_<<Tree, retired>>
    <2> SUFFICES ASSUME IInv, IInv', [Next]_vars
        PROVE  CatalogStep
      BY DEF CatalogStep
    <2>1. CASE UNCHANGED vars
      BY <2>1, SameTree DEF vars
    <2>2. CASE Next
      <3>1. PICK r \in Requests : Arrive(r) \/ Handle(r) \/ StatementFails(r) \/ Receive(r)
        BY <2>2 DEF Next
      <3>2. CASE UNCHANGED tables
        BY <3>2, SameTree DEF tables
      <3>3. CASE Arrive(r)
        BY <3>2, <3>3, ArrivalsWriteNothing
      <3>4. CASE StatementFails(r) \/ Receive(r)
        BY <3>2, <3>4 DEF StatementFails, Receive
      <3>5. CASE \/ PlatformAuthByAgent(r) \/ AuthenticatePlatform(r) \/ LoadOwnedPlatform(r)
                 \/ Heartbeat(r) \/ HeartbeatDone(r) \/ GetAgent(r) \/ ReloadAgent(r)
                 \/ ClaimFind(r)
        BY <3>2, <3>5 DEF PlatformAuthByAgent, AuthenticatePlatform, LoadOwnedPlatform,
           Heartbeat, HeartbeatDone, GetAgent, ReloadAgent, ClaimFind
      <3>6. CASE CreatePlatform(r) \/ QuickIdentity(r) \/ DeletePlatform(r)
        BY <3>6, PlatformWritesTree
      <3>7. CASE UpdateAgentTunnel(r) \/ UpsertAgent(r) \/ UpdateAgent(r) \/ DeleteAgent(r)
        BY <3>7, AgentWritesTree
      <3>8. CASE ClaimAgent(r)
        BY <3>8, ClaimWritesTree
      <3>9. CASE UpsertCapability(r) \/ UpdateCapability(r) \/ DeleteCapability(r)
        BY <3>9, CapabilityWritesTree
      <3> QED BY <3>1, <3>3, <3>4, <3>5, <3>6, <3>7, <3>8, <3>9 DEF Handle
    <2> QED BY <2>1, <2>2
  <1> QED BY <1>1, <1>2, Invariance, PTL DEF Spec, CatalogSpec, Catalog!Spec
=============================================================================
