------------------------- MODULE AgentLifecycleSteps -------------------------
(***************************************************************************)
(* What a step of the registry may do, proved from the invariant of        *)
(* AgentLifecycleProofs: identities are stable, and every step is one      *)
(* operation of the abstract directory or leaves it alone.                 *)
(*                                                                         *)
(* Each of the four commits is described once, by what it does to the      *)
(* rows; the theorems only look at these four descriptions.                *)
(***************************************************************************)
EXTENDS AgentLifecycleProofs

\* A new agent a of key k, with its platform p.
Inserts(a, p, k) ==
    /\ k \in Keys /\ ~KeyTaken(k)
    /\ ~Live(a) /\ a \notin retired /\ platforms[p] = Null
    /\ agents'[a] # Null /\ agents'[a] = NewAgent(k, p)
    /\ platforms'[p] = [owner |-> k, beat |-> Null]
    /\ \A b \in AgentIds \ {a} : agents'[b] = agents[b]
    /\ \A q \in PlatformIds \ {p} : platforms'[q] = platforms[q]
    /\ retired' = retired

\* The agent a and its platform p are given new rows; all others stay.
Rewrites(a, p, rowA, rowP) ==
    /\ Live(a) /\ agents'[a] # Null /\ agents[a].platform = p
    /\ agents'[a] = rowA /\ platforms'[p] = rowP
    /\ \A b \in AgentIds \ {a} : agents'[b] = agents[b]
    /\ \A q \in PlatformIds \ {p} : platforms'[q] = platforms[q]
    /\ retired' = retired

\* The platform p and its agents are gone.
Removes(p) ==
    /\ platforms'[p] = Null
    /\ \A a \in Tenants(p) : agents'[a] = Null
    /\ \A a \in AgentIds \ Tenants(p) : agents'[a] = agents[a]
    /\ \A q \in PlatformIds \ {p} : platforms'[q] = platforms[q]
    /\ retired' = retired \cup {p} \cup Tenants(p)

SameRows == agents' = agents /\ platforms' = platforms /\ retired' = retired

LEMMA InsertEffect ==
    ASSUME IInv, NEW r \in Requests, RegisterInsert(r)
    PROVE  \E a \in AgentIds, p \in PlatformIds, k \in Keys : Inserts(a, p, k)
  <1> DEFINE k == req[r].key
  <1>1. k \in Keys /\ ~KeyTaken(k)
    BY DEF IInv, RegisterInsert, RequestOK, Called, At, InFlight
  <1>2. PICK a \in FreshAgents, p \in FreshPlatforms :
           /\ platforms' = [platforms EXCEPT ![p] = [owner |-> k, beat |-> Null]]
           /\ agents' = [agents EXCEPT ![a] = NewAgent(k, p)]
           /\ retired' = retired
    BY DEF RegisterInsert
  <1>3. /\ a \in AgentIds /\ a \notin retired /\ ~Live(a)
        /\ p \in PlatformIds /\ platforms[p] = Null
    BY DEF FreshAgents, FreshPlatforms, Live
  <1>4. NewAgent(k, p) \in AgentRow
    BY <1>1, <1>3 DEF NewAgent, AgentRow
  <1>5. Inserts(a, p, k)
    BY <1>1, <1>2, <1>3, <1>4, NullAssumption DEF Inserts, IInv, TypeOK, DBTypeOK, Live
  <1> QED BY <1>1, <1>3, <1>5

LEMMA PairEffect ==
    ASSUME IInv, NEW r \in Requests,
           At(r, "heartbeat", "agent") \/ At(r, "claim", "platform"),
           NEW rowA, rowA # Null, NEW rowP,
           agents' = Update(agents, req[r].agent, rowA),
           platforms' = Update(platforms, req[r].platform, rowP),
           retired' = retired
    PROVE  \/ SameRows
           \/ Rewrites(req[r].agent, req[r].platform, rowA, rowP)
  <1> DEFINE a == req[r].agent  p == req[r].platform
  <1>1. RequestOK(r) /\ TypeOK /\ TablesOK
    BY DEF IInv
  <1>2. CASE ~Live(a)
    BY <1>1, <1>2, PairedUpdate DEF SameRows
  <1>3. CASE Live(a)
    <2>1. /\ a \in AgentIds /\ p = agents[a].platform
          /\ agents' = [agents EXCEPT ![a] = rowA]
          /\ platforms' = [platforms EXCEPT ![p] = rowP]
      BY <1>1, <1>3, PairedUpdate
    <2>2. p \in PlatformIds
      BY <1>1, <1>3, <2>1, OneTenant
    <2> QED BY <1>1, <1>3, <2>1, <2>2 DEF Rewrites, TypeOK, DBTypeOK, Live
  <1> QED BY <1>2, <1>3

LEMMA DeleteEffect ==
    ASSUME IInv, NEW r \in Requests, DeleteCascade(r)
    PROVE  \E p \in PlatformIds : Removes(p)
  <1>1. PICK p \in PlatformIds : p = req[r].platform
    BY DEF IInv, DeleteCascade, RequestOK, Called, At, InFlight
  <1>2. /\ platforms' = [platforms EXCEPT ![p] = Null]
        /\ agents' = [a \in AgentIds |-> IF a \in Tenants(p) THEN Null ELSE agents[a]]
        /\ retired' = retired \cup {p} \cup Tenants(p)
    BY <1>1 DEF DeleteCascade, Committed
  <1>3. Removes(p)
    BY <1>2 DEF Removes, Tenants, IInv, TypeOK, DBTypeOK
  <1> QED BY <1>3

\* Every step is one of these, with all the reader needs to know of the rows.
LEMMA Effects ==
    ASSUME IInv, [Next]_vars
    PROVE  \/ SameRows
           \/ \E a \in AgentIds, p \in PlatformIds, k \in Keys : Inserts(a, p, k)
           \/ \E a \in AgentIds, p \in PlatformIds, b \in Beats :
                Rewrites(a, p, BeatenAgent(agents[a], b), BeatenPlatform(platforms[p], b))
           \/ \E a \in AgentIds, p \in PlatformIds, k \in Keys :
                Rewrites(a, p, ClaimedAgent(agents[a], k), ClaimedPlatform(platforms[p], k))
           \/ \E p \in PlatformIds : Removes(p)
  <1>1. CASE UNCHANGED vars \/ Quiet
    BY <1>1 DEF vars, tables, Quiet, SameRows
  <1>2. ASSUME NEW r \in Requests, HeartbeatAgent(r)
        PROVE  \/ SameRows
               \/ \E a \in AgentIds, p \in PlatformIds, b \in Beats :
                    Rewrites(a, p, BeatenAgent(agents[a], b), BeatenPlatform(platforms[p], b))
    <2>1. PICK a \in AgentIds, p \in PlatformIds, b \in Beats :
            a = req[r].agent /\ p = req[r].platform /\ b = req[r].beat
      BY <1>2 DEF IInv, HeartbeatAgent, RequestOK, Called, OnTarget, At, InFlight
    <2>2. CASE ~Live(a)
      <3>1. agents' = agents /\ platforms' = platforms
        BY <1>2, <2>1, <2>2, PairedUpdate DEF HeartbeatAgent, IInv
      <3> QED BY <1>2, <3>1 DEF HeartbeatAgent, SameRows
    <2>3. CASE Live(a)
      <3> DEFINE rowA == BeatenAgent(agents[a], b)
                 rowP == BeatenPlatform(platforms[p], b)
      <3>1. rowA # Null
        <4>1. rowA \in AgentRow
          BY <2>3, Rows DEF BeatenAgent, AgentRow, IInv, TypeOK
        <4> QED BY <4>1, NullAssumption
      <3>2. /\ agents' = Update(agents, a, rowA) /\ platforms' = Update(platforms, p, rowP)
            /\ At(r, "heartbeat", "agent") /\ retired' = retired
        BY <1>2, <2>1 DEF HeartbeatAgent
      <3> HIDE DEF rowA, rowP
      <3>3. SameRows \/ Rewrites(a, p, rowA, rowP)
        BY <2>1, <3>1, <3>2, PairEffect
      <3> QED BY <3>3 DEF rowA, rowP
    <2> QED BY <2>2, <2>3
  <1>3. ASSUME NEW r \in Requests, ClaimPlatform(r)
        PROVE  \/ SameRows
               \/ \E a \in AgentIds, p \in PlatformIds, k \in Keys :
                    Rewrites(a, p, ClaimedAgent(agents[a], k), ClaimedPlatform(platforms[p], k))
    <2>1. PICK a \in AgentIds, p \in PlatformIds, k \in Keys :
            a = req[r].agent /\ p = req[r].platform /\ k = req[r].key
      BY <1>3 DEF IInv, ClaimPlatform, RequestOK, Called, OnTarget, At, InFlight
    <2>2. CASE ~Live(a)
      <3>1. agents' = agents /\ platforms' = platforms
        BY <1>3, <2>1, <2>2, PairedUpdate DEF ClaimPlatform, IInv
      <3> QED BY <1>3, <3>1 DEF ClaimPlatform, SameRows
    <2>3. CASE Live(a)
      <3> DEFINE rowA == ClaimedAgent(agents[a], k)
                 rowP == ClaimedPlatform(platforms[p], k)
      <3>1. rowA # Null
        <4>1. rowA \in AgentRow
          BY <2>3, Rows DEF ClaimedAgent, AgentRow, IInv, TypeOK
        <4> QED BY <4>1, NullAssumption
      <3>2. /\ agents' = Update(agents, a, rowA) /\ platforms' = Update(platforms, p, rowP)
            /\ At(r, "claim", "platform") /\ retired' = retired
        BY <1>3, <2>1 DEF ClaimPlatform
      <3> HIDE DEF rowA, rowP
      <3>3. SameRows \/ Rewrites(a, p, rowA, rowP)
        BY <2>1, <3>1, <3>2, PairEffect
      <3> QED BY <3>3 DEF rowA, rowP
    <2> QED BY <2>2, <2>3
  <1> QED BY <1>1, <1>2, <1>3, InsertEffect, DeleteEffect, QuietOrCommit DEF Commit
-----------------------------------------------------------------------------
(***************************************************************************)
(* Identity.                                                               *)
(***************************************************************************)
\* A claim or a heartbeat never changes who an agent is, nor undoes a claim.
THEOREM StableIdentity == Spec => IdentityStable
  <1> DEFINE Stable ==
        \A a \in AgentIds : Live(a) /\ Live(a)' =>
            /\ agents'[a].key = agents[a].key
            /\ agents'[a].platform = agents[a].platform
            /\ agents[a].claimed => agents'[a].claimed
            /\ agents'[a].owner # agents[a].owner => agents'[a].claimed
  <1>1. ASSUME IInv, [Next]_vars PROVE Stable
    <2>1. \A a \in AgentIds : Live(a) => agents[a] \in AgentRow
      BY <1>1, Rows DEF IInv, TypeOK
    <2>2. CASE SameRows
      BY <2>2 DEF SameRows
    <2>3. ASSUME NEW a \in AgentIds, NEW p \in PlatformIds, NEW k \in Keys,
                 Inserts(a, p, k)
          PROVE  Stable
      BY <2>3 DEF Inserts
    <2>4. ASSUME NEW a \in AgentIds, NEW p \in PlatformIds, NEW b \in Beats,
                 Rewrites(a, p, BeatenAgent(agents[a], b), BeatenPlatform(platforms[p], b))
          PROVE  Stable
      BY <2>1, <2>4 DEF Rewrites, BeatenAgent, AgentRow
    <2>5. ASSUME NEW a \in AgentIds, NEW p \in PlatformIds, NEW k \in Keys,
                 Rewrites(a, p, ClaimedAgent(agents[a], k), ClaimedPlatform(platforms[p], k))
          PROVE  Stable
      <3> DEFINE x == agents[a]  y == [x EXCEPT !.owner = k, !.claimed = TRUE]
      <3>1. x \in AgentRow /\ agents'[a] = y
        BY <2>1, <2>5 DEF Rewrites, ClaimedAgent
      <3>2. y.key = x.key /\ y.platform = x.platform /\ y.claimed
        BY <3>1 DEF AgentRow
      <3> HIDE DEF y
      <3> QED BY <3>1, <3>2, <2>5 DEF Rewrites
    <2>6. ASSUME NEW p \in PlatformIds, Removes(p) PROVE Stable
      BY <2>6 DEF Removes, Live
    <2> QED BY <1>1, <2>2, <2>3, <2>4, <2>5, <2>6, Effects
  <1> QED BY <1>1, Invariance, PTL DEF Spec, IdentityStable

-----------------------------------------------------------------------------
(***************************************************************************)
(* Refinement: Listing, read half from the agent rows and half from the    *)
(* platform rows, moves as AgentDirectory's directory does.                *)
(***************************************************************************)
Gone == retired \cap AgentIds

LEMMA Listed ==
    ASSUME IInv, NEW a \in AgentIds
    PROVE  /\ Listing[a] # Null <=> Live(a)
           /\ Live(a) => Listing[a] = Entry(a) /\ Entry(a) \in EntryType
  <1>1. CASE ~Live(a)
    BY <1>1 DEF Listing
  <1>2. CASE Live(a)
    <2>1. agents[a] \in AgentRow /\ platforms[agents[a].platform] \in PlatformRow
      BY <1>2, Rows, OneTenant DEF IInv, TypeOK
    <2>2. Entry(a) \in EntryType
      BY <2>1 DEF Entry, Claimant, EntryType, AgentRow, PlatformRow
    <2> QED BY <1>2, <2>2, EntryAssumption DEF Listing
  <1> QED BY <1>1, <1>2

\* Only the entries of agents whose rows change can change.
LEMMA OthersListed ==
    ASSUME IInv, NEW S \in SUBSET AgentIds, NEW p \in PlatformIds,
           \A b \in AgentIds \ S : agents'[b] = agents[b],
           \A q \in PlatformIds \ {p} : platforms'[q] = platforms[q],
           \A b \in AgentIds \ S : Live(b) => agents[b].platform # p
    PROVE  \A b \in AgentIds \ S : Listing'[b] = Listing[b]
  <1> SUFFICES ASSUME NEW b \in AgentIds \ S PROVE Listing'[b] = Listing[b]
    OBVIOUS
  <1>1. Live(b)' <=> Live(b)
    BY DEF Live
  <1>2. Live(b) => agents[b].platform \in PlatformIds
    BY OneTenant DEF IInv
  <1> QED BY <1>1, <1>2 DEF Listing, Entry

LEMMA EnrollStep ==
    ASSUME IInv, IInv', NEW a \in AgentIds, NEW p \in PlatformIds, NEW k \in Keys,
           Inserts(a, p, k)
    PROVE  Directory!Enroll(a, k)
  <1>1. \A b \in AgentIds \ {a} : Listing'[b] = Listing[b]
    <2>1. \A b \in AgentIds : Live(b) => agents[b].platform # p
      BY OneTenant DEF Inserts, IInv
    <2> QED BY <2>1, OthersListed DEF Inserts
  <1>2. Listing'[a] = [key |-> k, owner |-> k, claimant |-> Null, beat |-> Null]
    <2>1. /\ agents'[a].key = k /\ agents'[a].platform = p /\ ~agents'[a].claimed
          /\ agents'[a].claimed \in BOOLEAN
          /\ platforms'[p].owner = k /\ platforms'[p].beat = Null
      BY DEF Inserts, NewAgent
    <2>2. Listing'[a] = [key |-> agents'[a].key, owner |-> platforms'[p].owner,
                         claimant |-> Claimant(agents'[a]), beat |-> platforms'[p].beat]
      BY <2>1 DEF Inserts, Listing, Entry, Live
    <2>3. Claimant(agents'[a]) = Null
      BY <2>1 DEF Claimant
    <2> QED BY <2>1, <2>2, <2>3
  <1>3. Listing' = [Listing EXCEPT ![a] =
                      [key |-> k, owner |-> k, claimant |-> Null, beat |-> Null]]
    BY <1>1, <1>2 DEF Listing
  <1>4. \A b \in AgentIds : Listing[b] # Null => Listing[b].key # k
    <2> SUFFICES ASSUME NEW b \in AgentIds, Listing[b] # Null PROVE Listing[b].key # k
      OBVIOUS
    <2>1. Live(b) /\ Listing[b] = Entry(b)
      BY Listed
    <2> QED BY <2>1 DEF Inserts, KeyTaken, AgentsWith, Entry
  <1>5. Listing[a] = Null /\ a \notin Gone /\ Gone' = Gone
    BY Listed DEF Inserts, Gone
  <1> QED BY <1>3, <1>4, <1>5 DEF Directory!Enroll, Directory!Listed, Gone

LEMMA RewriteStep ==
    ASSUME IInv, IInv', NEW a \in AgentIds, NEW p \in PlatformIds, NEW rowA, NEW rowP,
           Rewrites(a, p, rowA, rowP), rowA.platform = p
    PROVE  /\ Listing[a] # Null /\ Gone' = Gone
           /\ Listing[a] = Entry(a) /\ Entry(a) \in EntryType
           /\ Listing' = [Listing EXCEPT ![a] =
                            [key |-> rowA.key, owner |-> rowP.owner,
                             claimant |-> Claimant(rowA), beat |-> rowP.beat]]
  <1>1. Live(a) /\ agents[a].platform = p /\ Gone' = Gone
    BY DEF Rewrites, Gone
  <1>2. \A b \in AgentIds \ {a} : Listing'[b] = Listing[b]
    <2>1. \A b \in AgentIds \ {a} : Live(b) => agents[b].platform # p
      BY <1>1, OneTenant DEF IInv
    <2> QED BY <2>1, OthersListed DEF Rewrites
  <1>3. Listing'[a] = [key |-> rowA.key, owner |-> rowP.owner,
                       claimant |-> Claimant(rowA), beat |-> rowP.beat]
    BY DEF Rewrites, Listing, Entry, Live
  <1>4. Listing' = [Listing EXCEPT ![a] =
                      [key |-> rowA.key, owner |-> rowP.owner,
                       claimant |-> Claimant(rowA), beat |-> rowP.beat]]
    BY <1>2, <1>3 DEF Listing
  <1> QED BY <1>1, <1>4, Listed

LEMMA BeatStep ==
    ASSUME IInv, IInv', NEW a \in AgentIds, NEW p \in PlatformIds, NEW b \in Beats,
           Rewrites(a, p, BeatenAgent(agents[a], b), BeatenPlatform(platforms[p], b))
    PROVE  Directory!Beat(a, b)
  <1> DEFINE x == agents[a]  y == platforms[p]
             rowA == [x EXCEPT !.beat = b]  rowP == [y EXCEPT !.beat = b]
  <1>1. x \in AgentRow /\ y \in PlatformRow /\ x.platform = p
    BY Rows, OneTenant DEF Rewrites, IInv, TypeOK
  <1>2. /\ rowA.key = x.key /\ rowA.platform = p /\ Claimant(rowA) = Claimant(x)
        /\ rowP.owner = y.owner /\ rowP.beat = b
    BY <1>1 DEF AgentRow, PlatformRow, Claimant
  <1>3. Rewrites(a, p, rowA, rowP)
    BY DEF BeatenAgent, BeatenPlatform
  <1> HIDE DEF rowA, rowP
  <1>4. /\ Listing[a] # Null /\ Gone' = Gone /\ Entry(a) \in EntryType
        /\ Listing[a] = Entry(a)
        /\ Listing' = [Listing EXCEPT ![a] =
                         [key |-> x.key, owner |-> y.owner,
                          claimant |-> Claimant(x), beat |-> b]]
    BY <1>2, <1>3, RewriteStep
  <1>5. Entry(a) = [key |-> x.key, owner |-> y.owner,
                    claimant |-> Claimant(x), beat |-> y.beat]
    BY <1>1 DEF Entry
  <1>6. [Entry(a) EXCEPT !.beat = b] = [key |-> x.key, owner |-> y.owner,
                                        claimant |-> Claimant(x), beat |-> b]
    BY <1>5
  <1>7. Listing' = [Listing EXCEPT ![a].beat = b]
    BY <1>4, <1>6
  <1> QED BY <1>4, <1>7 DEF Directory!Beat, Directory!Listed, Gone

LEMMA BindStep ==
    ASSUME IInv, IInv', NEW a \in AgentIds, NEW p \in PlatformIds, NEW k \in Keys,
           Rewrites(a, p, ClaimedAgent(agents[a], k), ClaimedPlatform(platforms[p], k))
    PROVE  Directory!Bind(a, k)
  <1> DEFINE x == agents[a]  y == platforms[p]
             rowA == [x EXCEPT !.owner = k, !.claimed = TRUE]
             rowP == [y EXCEPT !.owner = k]
  <1>1. x \in AgentRow /\ y \in PlatformRow /\ x.platform = p
    BY Rows, OneTenant DEF Rewrites, IInv, TypeOK
  <1>2. /\ rowA.key = x.key /\ rowA.platform = p /\ Claimant(rowA) = k
        /\ rowP.owner = k /\ rowP.beat = y.beat
    BY <1>1 DEF AgentRow, PlatformRow, Claimant
  <1>3. Rewrites(a, p, rowA, rowP)
    BY DEF ClaimedAgent, ClaimedPlatform
  <1> HIDE DEF rowA, rowP
  <1>4. /\ Listing[a] # Null /\ Gone' = Gone /\ Entry(a) \in EntryType
        /\ Listing[a] = Entry(a)
        /\ Listing' = [Listing EXCEPT ![a] =
                         [key |-> x.key, owner |-> k,
                          claimant |-> k, beat |-> y.beat]]
    BY <1>2, <1>3, RewriteStep
  <1>5. Entry(a) = [key |-> x.key, owner |-> y.owner,
                    claimant |-> Claimant(x), beat |-> y.beat]
    BY <1>1 DEF Entry
  <1>6. [Entry(a) EXCEPT !.owner = k, !.claimant = k] =
            [key |-> x.key, owner |-> k, claimant |-> k, beat |-> y.beat]
    <2> DEFINE e == Entry(a)  f == [e EXCEPT !.owner = k, !.claimant = k]
    <2>1. /\ f \in EntryType /\ f.owner = k /\ f.claimant = k
          /\ f.key = e.key /\ f.beat = e.beat
      BY <1>4 DEF EntryType
    <2> HIDE DEF f
    <2>2. f = [key |-> f.key, owner |-> f.owner, claimant |-> f.claimant, beat |-> f.beat]
      BY <2>1 DEF EntryType
    <2>3. e.key = x.key /\ e.beat = y.beat
      BY <1>5
    <2> QED BY <2>1, <2>2, <2>3 DEF f
  <1>7. Listing' = [Listing EXCEPT ![a].owner = k, ![a].claimant = k]
    BY <1>4, <1>6 DEF Listing
  <1> QED BY <1>4, <1>7 DEF Directory!Bind, Directory!Listed, Gone

LEMMA RemoveStep ==
    ASSUME IInv, IInv', NEW p \in PlatformIds, Removes(p)
    PROVE  \/ UNCHANGED <<Listing, Gone>>
           \/ \E a \in AgentIds : Directory!Remove(a)
  <1>1. \A b \in AgentIds \ Tenants(p) : Live(b) => agents[b].platform # p
    BY DEF Tenants
  <1>2. \A b \in AgentIds \ Tenants(p) : Listing'[b] = Listing[b]
    BY <1>1, OthersListed DEF Removes, Tenants
  <1>3. Gone' = Gone \cup Tenants(p)
    BY IdsAssumption DEF Removes, Gone, Tenants
  <1>4. CASE Tenants(p) = {}
    <2>1. Listing' = Listing
      BY <1>2, <1>4 DEF Listing
    <2> QED BY <2>1, <1>3, <1>4
  <1>5. CASE Tenants(p) # {}
    <2>1. PICK a \in Tenants(p) : TRUE
      BY <1>5
    <2>2. a \in AgentIds /\ Live(a) /\ agents[a].platform = p
      BY <2>1 DEF Tenants
    <2>3. Tenants(p) = {a}
      BY <2>2, OneTenant DEF IInv
    <2>4. Listing'[a] = Null
      BY <2>1, <2>2 DEF Removes, Listing, Live
    <2>5. Listing' = [Listing EXCEPT ![a] = Null]
      BY <1>2, <2>3, <2>4 DEF Listing
    <2>6. Listing[a] # Null
      BY <2>2, Listed
    <2> QED BY <1>3, <2>2, <2>3, <2>5, <2>6 DEF Directory!Remove, Directory!Listed, Gone
  <1> QED BY <1>4, <1>5

\* The registry's tables implement the abstract directory: every commit,
\* whatever it interleaves with, is one directory operation or none.
THEOREM ImplementsDirectory == Spec => DirectorySpec
  <1>1. ASSUME Init PROVE Directory!Init
    <2>1. \A a \in AgentIds : ~Live(a)
      BY <1>1 DEF Init, DBInit, Live
    <2>2. Listing = [a \in AgentIds |-> Null]
      BY <2>1 DEF Listing
    <2>3. Gone = {}
      BY <1>1 DEF Init, DBInit, Gone
    <2> QED BY <2>2, <2>3 DEF Directory!Init, Gone
  <1>2. ASSUME IInv, IInv', [Next]_vars
        PROVE  [Directory!Next]_<<Listing, Gone>>
    <2>1. CASE SameRows
      BY <2>1 DEF SameRows, Listing, Entry, Live, Gone
    <2>2. ASSUME NEW a \in AgentIds, NEW p \in PlatformIds, NEW k \in Keys,
                 Inserts(a, p, k)
          PROVE  Directory!Next
      BY <1>2, <2>2, EnrollStep DEF Directory!Next, Inserts
    <2>3. ASSUME NEW a \in AgentIds, NEW p \in PlatformIds, NEW b \in Beats,
                 Rewrites(a, p, BeatenAgent(agents[a], b), BeatenPlatform(platforms[p], b))
          PROVE  Directory!Next
      BY <1>2, <2>3, BeatStep DEF Directory!Next
    <2>4. ASSUME NEW a \in AgentIds, NEW p \in PlatformIds, NEW k \in Keys,
                 Rewrites(a, p, ClaimedAgent(agents[a], k), ClaimedPlatform(platforms[p], k))
          PROVE  Directory!Next
      BY <1>2, <2>4, BindStep DEF Directory!Next
    <2>5. ASSUME NEW p \in PlatformIds, Removes(p)
          PROVE  [Directory!Next]_<<Listing, Gone>>
      BY <1>2, <2>5, RemoveStep DEF Directory!Next
    <2> QED BY <1>2, <2>1, <2>2, <2>3, <2>4, <2>5, Effects
  <1> QED
    BY <1>1, <1>2, Invariance, PTL DEF Spec, DirectorySpec, Directory!Spec, Gone

-----------------------------------------------------------------------------
(***************************************************************************)
(* Locks.                                                                  *)
(***************************************************************************)
LEMMA WantedLocks ==
    ASSUME NEW r \in Requests
    PROVE  /\ req[r].at = "platform" => Wanted(r) = PlatformLock(req[r].platform)
           /\ req[r].at = "agent" => Wanted(r) = AgentLock(req[r].agent)
           /\ req[r].at = "cascade" => Wanted(r) = TenantLocks(req[r].platform)
  BY DEF Wanted

\* The transaction of r ends.
LEMMA Ends ==
    ASSUME TypeOK, NEW r \in Requests, NEW s, Committed(r, s)
    PROVE  ~InFlight(r)'
  <1>1. PICK t : req' = [req EXCEPT ![r].at = "done", ![r].status = t]
    BY DEF Committed, Answer
  <1>2. req'[r] = [req[r] EXCEPT !.at = "done", !.status = t]
    BY <1>1 DEF TypeOK
  <1>3. req'[r].at = "done"
    BY <1>2 DEF TypeOK, Request
  <1> QED BY <1>3 DEF InFlight

\* A lock r holds is free for r.
LEMMA HeldIsFree ==
    ASSUME IInv, NEW r \in Requests, NEW lock \in held[r]
    PROVE  Free(r, {lock})
  BY DEF IInv, LocksExclusive, Free

LEMMA HeartbeatLocked ==
    ASSUME IInv, NEW r \in Requests, HeartbeatAgent(r)
    PROVE  /\ \A a \in AgentIds : Live(a) /\ agents'[a] # agents[a] =>
                MayWrite(r, <<"agent", a>>)
           /\ \A p \in PlatformIds : platforms[p] # Null /\ platforms'[p] # platforms[p] =>
                MayWrite(r, <<"platform", p>>)
  <1>1. PICK a \in AgentIds, p \in PlatformIds : a = req[r].agent /\ p = req[r].platform
    BY DEF IInv, HeartbeatAgent, RequestOK, Called, OnTarget, At, InFlight
  <1>2. InFlight(r) /\ ~InFlight(r)' /\ req[r].at = "agent"
    BY Ends DEF HeartbeatAgent, At, InFlight, IInv
  <1>3. /\ \A b \in AgentIds : agents'[b] # agents[b] => b = a
        /\ \A q \in PlatformIds : platforms'[q] # platforms[q] => q = p
    BY <1>1 DEF HeartbeatAgent, Update, IInv, TypeOK, DBTypeOK
  <1>4. Live(a) => MayWrite(r, <<"agent", a>>)
    BY <1>1, <1>2, WantedLocks DEF HeartbeatAgent, AgentLock, MayWrite
  <1>5. platforms[p] # Null => MayWrite(r, <<"platform", p>>)
    <2>1. platforms[p] # Null => <<"platform", p>> \in held[r]
      BY <1>1 DEF HeartbeatAgent, IInv, RequestOK, KeepsLock, PlatformLock
    <2> QED BY <1>2, <2>1, HeldIsFree DEF MayWrite
  <1> QED BY <1>3, <1>4, <1>5

LEMMA ClaimLocked ==
    ASSUME IInv, NEW r \in Requests, ClaimPlatform(r)
    PROVE  /\ \A a \in AgentIds : Live(a) /\ agents'[a] # agents[a] =>
                MayWrite(r, <<"agent", a>>)
           /\ \A p \in PlatformIds : platforms[p] # Null /\ platforms'[p] # platforms[p] =>
                MayWrite(r, <<"platform", p>>)
  <1>1. PICK a \in AgentIds, p \in PlatformIds : a = req[r].agent /\ p = req[r].platform
    BY DEF IInv, ClaimPlatform, RequestOK, Called, OnTarget, At, InFlight
  <1>2. InFlight(r) /\ ~InFlight(r)' /\ req[r].at = "platform"
    BY Ends DEF ClaimPlatform, At, InFlight, IInv
  <1>3. /\ \A b \in AgentIds : agents'[b] # agents[b] => b = a
        /\ \A q \in PlatformIds : platforms'[q] # platforms[q] => q = p
    BY <1>1 DEF ClaimPlatform, Update, IInv, TypeOK, DBTypeOK
  <1>4. Live(a) => MayWrite(r, <<"agent", a>>)
    <2>1. Live(a) => <<"agent", a>> \in held[r]
      BY <1>1 DEF ClaimPlatform, IInv, RequestOK, KeepsLock, AgentLock
    <2> QED BY <1>2, <2>1, HeldIsFree DEF MayWrite
  <1>5. platforms[p] # Null => MayWrite(r, <<"platform", p>>)
    BY <1>1, <1>2, WantedLocks DEF ClaimPlatform, PlatformLock, MayWrite
  <1> QED BY <1>3, <1>4, <1>5

LEMMA DeleteLocked ==
    ASSUME IInv, NEW r \in Requests, DeleteCascade(r)
    PROVE  /\ \A a \in AgentIds : Live(a) /\ agents'[a] # agents[a] =>
                MayWrite(r, <<"agent", a>>)
           /\ \A p \in PlatformIds : platforms[p] # Null /\ platforms'[p] # platforms[p] =>
                MayWrite(r, <<"platform", p>>)
  <1>1. PICK p \in PlatformIds : p = req[r].platform
    BY DEF IInv, DeleteCascade, RequestOK, Called, At, InFlight
  <1>2. InFlight(r) /\ ~InFlight(r)' /\ req[r].at = "cascade"
    BY Ends DEF DeleteCascade, At, InFlight, IInv
  <1>3. /\ \A a \in AgentIds : agents'[a] # agents[a] => a \in Tenants(p)
        /\ \A q \in PlatformIds : platforms'[q] # platforms[q] => q = p
    BY <1>1 DEF DeleteCascade, IInv, TypeOK, DBTypeOK
  <1>4. ASSUME NEW a \in Tenants(p) PROVE MayWrite(r, <<"agent", a>>)
    <2>1. <<"agent", a>> \in TenantLocks(p) /\ Free(r, TenantLocks(p))
      BY <1>1 DEF TenantLocks, DeleteCascade
    <2>2. Free(r, {<<"agent", a>>})
      BY <2>1 DEF Free
    <2> QED BY <1>1, <1>2, <2>1, <2>2, WantedLocks DEF MayWrite
  <1>5. platforms[p] # Null => MayWrite(r, <<"platform", p>>)
    <2>1. platforms[p] # Null => <<"platform", p>> \in held[r]
      BY <1>1 DEF DeleteCascade, IInv, RequestOK, KeepsLock, PlatformLock
    <2> QED BY <1>2, <2>1, HeldIsFree DEF MayWrite
  <1> QED BY <1>3, <1>4, <1>5

\* Every write of an existing row is covered by that row's lock: the UPDATE
\* that took it belongs to the transaction that commits the write.
THEOREM LockedWrites == Spec => WritesAreLocked
  <1> DEFINE Locked ==
        /\ \A a \in AgentIds : Live(a) /\ agents'[a] # agents[a] =>
             \E r \in Requests : MayWrite(r, <<"agent", a>>)
        /\ \A p \in PlatformIds : platforms[p] # Null /\ platforms'[p] # platforms[p] =>
             \E r \in Requests : MayWrite(r, <<"platform", p>>)
  <1>1. ASSUME IInv, [Next]_vars PROVE Locked
    <2>1. CASE UNCHANGED vars \/ Quiet
      BY <2>1 DEF vars, tables, Quiet
    <2>2. ASSUME NEW r \in Requests, RegisterInsert(r) PROVE Locked
      BY <1>1, <2>2, InsertEffect DEF Inserts
    <2>3. ASSUME NEW r \in Requests, HeartbeatAgent(r) PROVE Locked
      BY <1>1, <2>3, HeartbeatLocked
    <2>4. ASSUME NEW r \in Requests, ClaimPlatform(r) PROVE Locked
      BY <1>1, <2>4, ClaimLocked
    <2>5. ASSUME NEW r \in Requests, DeleteCascade(r) PROVE Locked
      BY <1>1, <2>5, DeleteLocked
    <2> QED BY <1>1, <2>1, <2>2, <2>3, <2>4, <2>5, QuietOrCommit DEF Commit
  <1> QED BY <1>1, Invariance, PTL DEF Spec, WritesAreLocked, MayWrite
==============================================================================
