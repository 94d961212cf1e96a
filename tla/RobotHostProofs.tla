-------------------------- MODULE RobotHostProofs --------------------------
(***************************************************************************)
(* Proofs about RobotHost, for any number of processes, keys and agents.   *)
(*                                                                         *)
(* A step changes the Agent of one process, or the registry, or both.  So  *)
(* the invariant is kept in four parts: types, the registry (DirectoryOK), *)
(* what a process was told (ProcOK), and the key file (CreationOK and      *)
(* KeyKept).                                                               *)
(***************************************************************************)
EXTENDS RobotHost, TLAPS

\* What an operation of the registry does to it, and what it leaves alone: an id
\* keeps its key until it is gone, and then is gone for good.
RegistryStep ==
    /\ directory' \in [AgentIds -> Entry \cup {Null}]
    /\ gone \subseteq gone' /\ gone' \subseteq AgentIds
    /\ DirectoryOK'
    /\ \A a, k : TrueTo(a, k) => TrueTo(a, k)'

LEMMA StepUnchanged ==
    ASSUME TypeOK, DirectoryOK, UNCHANGED registry
    PROVE  RegistryStep
  BY DEF TypeOK, DirectoryOK, registry, RegistryStep, TrueTo, Registry!Listed

LEMMA StepEnroll ==
    ASSUME TypeOK, DirectoryOK, NEW a \in AgentIds, NEW k \in Keys, Registry!Enroll(a, k)
    PROVE  RegistryStep /\ TrueTo(a, k)'
  <1> DEFINE e == [key |-> k, owner |-> k, claimant |-> Null, beat |-> Null]
  <1>1. e \in Entry /\ e.key = k /\ e # Null
    BY NullAssumption DEF Entry
  <1>2. directory' = [directory EXCEPT ![a] = e] /\ gone' = gone
    BY DEF Registry!Enroll
  <1>3. /\ ~Registry!Listed(a) /\ a \notin gone
        /\ \A b \in AgentIds : Registry!Listed(b) => directory[b].key # k
    BY DEF Registry!Enroll
  <1> HIDE DEF e
  <1>4. /\ directory'[a] = e
        /\ \A b \in AgentIds : b # a => directory'[b] = directory[b]
    BY <1>2 DEF TypeOK
  <1>5. directory' \in [AgentIds -> Entry \cup {Null}]
    BY <1>1, <1>2 DEF TypeOK
  <1>6. DirectoryOK'
    BY <1>1, <1>2, <1>3, <1>4 DEF DirectoryOK, Registry!Listed
  <1>7. \A b, l : TrueTo(b, l) => TrueTo(b, l)'
    BY <1>2, <1>3, <1>4 DEF TrueTo, Registry!Listed
  <1>8. TrueTo(a, k)'
    BY <1>1, <1>4 DEF TrueTo, Registry!Listed
  <1> QED BY <1>2, <1>5, <1>6, <1>7, <1>8 DEF RegistryStep, TypeOK

\* Bind and Beat change an entry but not its key.
LEMMA StepUpdate ==
    ASSUME TypeOK, DirectoryOK, NEW a \in AgentIds, Registry!Listed(a),
           NEW e \in Entry, e.key = directory[a].key,
           directory' = [directory EXCEPT ![a] = e], gone' = gone
    PROVE  RegistryStep
  <1>1. /\ directory'[a] = e /\ e # Null
        /\ \A b \in AgentIds : b # a => directory'[b] = directory[b]
    BY NullAssumption DEF TypeOK
  <1>2. directory' \in [AgentIds -> Entry \cup {Null}]
    BY DEF TypeOK
  <1>3. DirectoryOK'
    BY <1>1 DEF DirectoryOK, Registry!Listed
  <1>4. \A b, l : TrueTo(b, l) => TrueTo(b, l)'
    BY <1>1 DEF TrueTo, Registry!Listed
  <1> QED BY <1>2, <1>3, <1>4 DEF RegistryStep, TypeOK

LEMMA EntryFields ==
    ASSUME NEW e \in Entry
    PROVE  /\ \A k \in People : [e EXCEPT !.owner = k, !.claimant = k] \in Entry
           /\ \A k : [e EXCEPT !.owner = k, !.claimant = k].key = e.key
           /\ \A b \in Beats : [e EXCEPT !.beat = b] \in Entry
           /\ \A b : [e EXCEPT !.beat = b].key = e.key
  BY DEF Entry

LEMMA StepBind ==
    ASSUME TypeOK, DirectoryOK, NEW a \in AgentIds, NEW k \in People, Registry!Bind(a, k)
    PROVE  RegistryStep
  <1> DEFINE e == [directory[a] EXCEPT !.owner = k, !.claimant = k]
  <1>1. directory[a] \in Entry /\ Registry!Listed(a)
    BY DEF TypeOK, Registry!Bind, Registry!Listed
  <1>2. directory' = [directory EXCEPT ![a] = e] /\ gone' = gone
    BY DEF Registry!Bind, TypeOK
  <1>3. e \in Entry /\ e.key = directory[a].key
    BY <1>1, EntryFields
  <1> HIDE DEF e
  <1> QED BY <1>1, <1>2, <1>3, StepUpdate

LEMMA StepBeat ==
    ASSUME TypeOK, DirectoryOK, NEW a \in AgentIds, NEW b \in Beats, Registry!Beat(a, b)
    PROVE  RegistryStep
  <1> DEFINE e == [directory[a] EXCEPT !.beat = b]
  <1>1. directory[a] \in Entry /\ Registry!Listed(a)
    BY DEF TypeOK, Registry!Beat, Registry!Listed
  <1>2. directory' = [directory EXCEPT ![a] = e] /\ gone' = gone
    BY DEF Registry!Beat, TypeOK
  <1>3. e \in Entry /\ e.key = directory[a].key
    BY <1>1, EntryFields
  <1> HIDE DEF e
  <1> QED BY <1>1, <1>2, <1>3, StepUpdate

LEMMA StepRemove ==
    ASSUME TypeOK, DirectoryOK, NEW a \in AgentIds, Registry!Remove(a)
    PROVE  RegistryStep
  <1>1. /\ directory' = [directory EXCEPT ![a] = Null] /\ gone' = gone \cup {a}
    BY DEF Registry!Remove
  <1>2. /\ directory'[a] = Null
        /\ \A b \in AgentIds : b # a => directory'[b] = directory[b]
    BY <1>1 DEF TypeOK
  <1>3. directory' \in [AgentIds -> Entry \cup {Null}]
    BY <1>1 DEF TypeOK
  <1>4. DirectoryOK'
    BY <1>1, <1>2 DEF DirectoryOK, Registry!Listed
  <1>5. \A b, l : TrueTo(b, l) => TrueTo(b, l)'
    BY <1>1, <1>2 DEF TrueTo, Registry!Listed
  <1> QED BY <1>1, <1>3, <1>4, <1>5 DEF RegistryStep, TypeOK

-----------------------------------------------------------------------------
\* A step of the registry leaves what any process was told true.
LEMMA ToldStays ==
    ASSUME RegistryStep, NEW r, ProcOK(r)
    PROVE  ProcOK(r)'
  <1>1. /\ TrueTo(r.reply.agent, r.key) => TrueTo(r.reply.agent, r.key)'
        /\ TrueTo(r.agent, r.key) => TrueTo(r.agent, r.key)'
        /\ gone \subseteq gone'
    BY DEF RegistryStep
  <1>2. r.at = "registering" /\ r.reply.status = "ok" => TrueTo(r.reply.agent, r.key)'
    BY <1>1 DEF ProcOK
  <1>3. r.at \in Loop => TrueTo(r.agent, r.key)'
    BY <1>1 DEF ProcOK
  <1>4. r.at \in Loop /\ r.reply.status = "not_found" => r.agent \in gone'
    BY <1>1 DEF ProcOK
  <1>5. /\ r.at \in Loop => r.reply.status # "unauthorized"
        /\ r.at \in Loaded \cup {"write"} => r.key \in Keys
        /\ r.at \in Starting => r.reply = NoReply
    BY DEF ProcOK
  <1> QED BY <1>2, <1>3, <1>4, <1>5 DEF ProcOK

LEMMA ProcsStay ==
    ASSUME IInv, RegistryStep, NEW p \in Procs, NEW x \in Agent, Becomes(p, x), ProcOK(x)'
    PROVE  \A q \in Procs : ProcOK(proc[q])'
  <1> SUFFICES ASSUME NEW q \in Procs PROVE ProcOK(proc[q])'
    OBVIOUS
  <1>1. PICK r : r = proc[q]
    OBVIOUS
  <1>2. ProcOK(r)'
    BY <1>1, ToldStays DEF IInv
  <1>3. IF q = p THEN proc'[q] = x ELSE proc'[q] = r
    BY <1>1 DEF Becomes, IInv, TypeOK
  <1>4. CASE q = p
    BY <1>3, <1>4 DEF ProcOK, TrueTo, Registry!Listed
  <1>5. CASE q # p
    BY <1>2, <1>3, <1>5 DEF ProcOK, TrueTo, Registry!Listed
  <1> QED BY <1>4, <1>5

FileOK == CreationOK /\ KeyKept

\* A step that leaves the file alone, and no process in the middle of its creation.
LEMMA FileStays ==
    ASSUME IInv, NEW p \in Procs, NEW x \in Agent, Becomes(p, x),
           UNCHANGED <<file, mishap>>,
           x.at \notin Creating, proc[p].at # "write",
           ~mishap /\ x.at \in Loaded => file = x.key
    PROVE  FileOK'
  <1>1. proc' = [proc EXCEPT ![p] = x] /\ proc \in [Procs -> Agent]
    BY DEF Becomes, IInv, TypeOK
  <1>2. proc'[p] = x /\ \A q \in Procs : q # p => proc'[q] = proc[q]
    BY <1>1
  <1>3. CreationOK'
    BY <1>2 DEF CreationOK, IInv, Creating
  <1>4. KeyKept'
    BY <1>2 DEF KeyKept, IInv, Creating
  <1> QED BY <1>3, <1>4 DEF FileOK

\* The pieces make the invariant.
LEMMA Pieces ==
    ASSUME IInv, RegistryStep, NEW p \in Procs, NEW x \in Agent, Becomes(p, x), ProcOK(x)',
           FileOK', file' \in Keys \cup {Missing, Empty}, mishap' \in BOOLEAN
    PROVE  IInv'
  <1>1. proc' \in [Procs -> Agent]
    BY DEF Becomes, IInv, TypeOK
  <1>2. TypeOK'
    BY <1>1 DEF RegistryStep, TypeOK
  <1>3. \A q \in Procs : ProcOK(proc[q])'
    BY ProcsStay
  <1> QED BY <1>2, <1>3 DEF IInv, RegistryStep, FileOK

-----------------------------------------------------------------------------
(***************************************************************************)
(* The key file.                                                           *)
(***************************************************************************)
LEMMA AtSet ==
    ASSUME NEW r \in Agent, NEW at \in Places
    PROVE  /\ [r EXCEPT !.at = at] \in Agent
           /\ [r EXCEPT !.at = at].at = at
           /\ [r EXCEPT !.at = at].key = r.key
           /\ [r EXCEPT !.at = at].agent = r.agent
           /\ [r EXCEPT !.at = at].reply = r.reply
  BY DEF Agent

LEMMA KeySet ==
    ASSUME NEW r \in Agent, NEW at \in Places, NEW k \in Keys
    PROVE  /\ [r EXCEPT !.at = at, !.key = k] \in Agent
           /\ [r EXCEPT !.at = at, !.key = k].at = at
           /\ [r EXCEPT !.at = at, !.key = k].key = k
           /\ [r EXCEPT !.at = at, !.key = k].reply = r.reply
  BY DEF Agent

LEMMA ReplySet ==
    ASSUME NEW r \in Agent, NEW at \in Places, NEW m \in Reply
    PROVE  /\ [r EXCEPT !.at = at, !.reply = m] \in Agent
           /\ [r EXCEPT !.at = at, !.reply = m].at = at
           /\ [r EXCEPT !.at = at, !.reply = m].key = r.key
           /\ [r EXCEPT !.at = at, !.reply = m].agent = r.agent
           /\ [r EXCEPT !.at = at, !.reply = m].reply = m
  BY DEF Agent

LEMMA PlacesKnown ==
    {"check", "read", "create", "write", "registering", "asleep", "beating", "found",
     "answered"} \subseteq Places
  BY DEF Places

LEMMA OffFields ==
    /\ Off \in Agent /\ Off.at = "off"
    /\ [Off EXCEPT !.at = "check"] \in Agent
    /\ [Off EXCEPT !.at = "check"].at = "check"
    /\ [Off EXCEPT !.at = "check"].reply = NoReply
  BY DEF Off, Agent, Reply, NoReply, Places

\* A process outside Loaded and "write" has nothing to be true to.
LEMMA NothingTold ==
    ASSUME NEW r, r.at \notin Loaded, r.at # "write", r.reply = NoReply
    PROVE  ProcOK(r)'
  BY DEF ProcOK, Loaded, Loop

\* Steps that leave the file, the history and the registry alone.
LEMMA QuietStep ==
    ASSUME IInv, NEW p \in Procs, NEW x \in Agent, Becomes(p, x),
           UNCHANGED <<file, registry, mishap>>, ProcOK(x),
           x.at \notin Creating, proc[p].at # "write",
           ~mishap /\ x.at \in Loaded => file = x.key
    PROVE  IInv'
  <1>1. RegistryStep
    BY StepUnchanged DEF IInv
  <1>2. ProcOK(x)'
    BY <1>1, ToldStays
  <1>3. FileOK'
    BY FileStays
  <1> QED BY <1>1, <1>2, <1>3, Pieces DEF IInv, TypeOK

LEMMA StartKeeps ==
    ASSUME IInv, NEW p \in Procs, Start(p)
    PROVE  IInv'
  <1>x. PICK x : x = [Off EXCEPT !.at = "check"]
    OBVIOUS
  <1>1. Becomes(p, x) /\ UNCHANGED <<file, registry, mishap>> /\ proc[p].at = "off"
    BY <1>x DEF Start
  <1>2. x \in Agent /\ x.at = "check" /\ x.reply = NoReply
    BY <1>x, OffFields
  <1>3. ProcOK(x)
    BY <1>2 DEF ProcOK, Loaded, Loop
  <1> QED BY <1>1, <1>2, <1>3, QuietStep DEF Creating, Loaded, Loop

LEMMA CheckKeyKeeps ==
    ASSUME IInv, NEW p \in Procs, CheckKey(p)
    PROVE  IInv'
  <1>0. proc[p] \in Agent /\ proc[p].at = "check"
    BY DEF CheckKey, IInv, TypeOK
  <1>1. CASE file # Missing
    <2>x. PICK x : x = [proc[p] EXCEPT !.at = "read"]
      OBVIOUS
    <2>1. Becomes(p, x) /\ UNCHANGED <<file, registry, mishap>>
      BY <1>1, <2>x DEF CheckKey
    <2>2. x \in Agent /\ x.at = "read" /\ x.reply = NoReply
      <3>1. proc[p].reply = NoReply
        BY <1>0 DEF IInv, ProcOK, Starting
      <3> QED BY <1>0, <2>x, <3>1, AtSet, PlacesKnown
    <2>3. ProcOK(x)
      BY <2>2 DEF ProcOK, Loaded, Loop
    <2> QED BY <1>0, <2>1, <2>2, <2>3, QuietStep DEF Creating, Loaded, Loop
  <1>2. CASE file = Missing
    <2>x. PICK x : x = [proc[p] EXCEPT !.at = "create"]
      OBVIOUS
    <2>1. /\ Becomes(p, x) /\ UNCHANGED <<file, registry>>
          /\ mishap' = (mishap \/ Races(p))
      BY <1>2, <2>x DEF CheckKey, CreateKey
    <2>2. x \in Agent /\ x.at = "create" /\ x.reply = NoReply
      <3>1. proc[p].reply = NoReply
        BY <1>0 DEF IInv, ProcOK, Starting
      <3> QED BY <1>0, <2>x, <3>1, AtSet, PlacesKnown
    <2>3. RegistryStep
      BY <2>1, StepUnchanged DEF IInv
    <2>4. ProcOK(x)'
      BY <2>2, NothingTold DEF Loaded, Loop
    <2>5. proc'[p] = x /\ \A q \in Procs : q # p => proc'[q] = proc[q]
      BY <2>1 DEF Becomes, IInv, TypeOK
    <2>6. ASSUME ~mishap'
          PROVE  ~mishap /\ \A q \in Procs : q # p => proc[q].at \notin Creating
      BY <2>1, <2>6 DEF Races
    <2>7. CreationOK'
      BY <1>2, <2>1, <2>2, <2>5, <2>6 DEF CreationOK, IInv, Creating
    <2>8. KeyKept'
      BY <1>2, <2>1, <2>2, <2>5, <2>6, FileAssumption
         DEF KeyKept, IInv, Creating, Loaded, Loop
    <2>9. mishap' \in BOOLEAN
      BY <2>1 DEF IInv, TypeOK
    <2> QED BY <2>1, <2>2, <2>3, <2>4, <2>7, <2>8, <2>9, Pieces DEF FileOK, IInv, TypeOK
  <1> QED BY <1>1, <1>2

LEMMA ReadKeyKeeps ==
    ASSUME IInv, NEW p \in Procs, ReadKey(p)
    PROVE  IInv'
  <1>0. /\ proc[p] \in Agent /\ proc[p].at = "read"
        /\ UNCHANGED <<file, registry, mishap>>
    BY DEF ReadKey, IInv, TypeOK
  <1>1. CASE file \in Keys
    <2>x. PICK x : x = [proc[p] EXCEPT !.at = "registering", !.key = file]
      OBVIOUS
    <2>1. Becomes(p, x)
      BY <1>1, <2>x DEF ReadKey
    <2>2. x \in Agent /\ x.at = "registering" /\ x.key = file /\ x.reply = proc[p].reply
      <3>1. PICK r \in Agent, k \in Keys : r = proc[p] /\ k = file
        BY <1>0, <1>1
      <3>2. x = [r EXCEPT !.at = "registering", !.key = k]
        BY <2>x, <3>1
      <3>3. "registering" \in Places
        BY PlacesKnown
      <3>4. /\ [r EXCEPT !.at = "registering", !.key = k] \in Agent
            /\ [r EXCEPT !.at = "registering", !.key = k].at = "registering"
            /\ [r EXCEPT !.at = "registering", !.key = k].key = k
            /\ [r EXCEPT !.at = "registering", !.key = k].reply = r.reply
        BY <3>1, <3>3 DEF Agent
      <3> QED BY <3>1, <3>2, <3>4, Zenon
    <2>3. ProcOK(x)
      <3>1. proc[p].reply = NoReply
        BY <1>0 DEF IInv, ProcOK, Starting
      <3> QED BY <1>1, <2>2, <3>1 DEF ProcOK, NoReply, Loop, Starting
    <2> QED BY <1>0, <2>1, <2>2, <2>3, QuietStep DEF Creating
  <1>2. CASE file \notin Keys
    <2>1. Becomes(p, Off)
      BY <1>2 DEF ReadKey
    <2>2. ProcOK(Off)
      BY OffFields DEF ProcOK, Loaded, Loop
    <2> QED BY <1>0, <2>1, <2>2, OffFields, QuietStep DEF Creating, Loaded, Loop
  <1> QED BY <1>1, <1>2

LEMMA OpenKeyKeeps ==
    ASSUME IInv, NEW p \in Procs, OpenKey(p)
    PROVE  IInv'
  <1>1. PICK r \in Agent, k \in Keys : /\ r = proc[p] /\ r.at = "create" /\ r.reply = NoReply
                                     /\ Becomes(p, [r EXCEPT !.at = "write", !.key = k])
    BY DEF OpenKey, FreshKeys, IInv, TypeOK, ProcOK, Starting, Creating
  <1>2. PICK x : x = [r EXCEPT !.at = "write", !.key = k]
    OBVIOUS
  <1>3. /\ x \in Agent /\ x.at = "write" /\ x.key \in Keys /\ x.reply = NoReply
        /\ Becomes(p, x)
    BY <1>1, <1>2 DEF Agent, Places
  <1>4. file' = Empty /\ UNCHANGED <<registry, mishap>>
    BY DEF OpenKey
  <1>5. RegistryStep
    BY <1>4, StepUnchanged DEF IInv
  <1>6. ProcOK(x)'
    BY <1>3 DEF ProcOK, Loop
  <1>7. proc'[p] = x /\ \A q \in Procs : q # p => proc'[q] = proc[q]
    BY <1>3 DEF Becomes, IInv, TypeOK
  <1>8. ~mishap => file = Missing
                        /\ \A q \in Procs : q # p => proc[q].at \notin Creating \cup Loaded
    <2>1. ~mishap => file = Missing
                          /\ \A q \in Procs : proc[q].at \in Creating => q = p
      BY <1>1 DEF IInv, CreationOK, Creating
    <2>2. \A q \in Procs : proc[q].at \in Loaded => proc[q].key \in Keys
      BY DEF IInv, ProcOK
    <2> QED BY <2>1, <2>2, FileAssumption DEF IInv, KeyKept
  <1>9. CreationOK' /\ KeyKept'
    BY <1>3, <1>4, <1>7, <1>8 DEF CreationOK, KeyKept, Creating, Loaded, Loop
  <1> QED BY <1>3, <1>4, <1>5, <1>6, <1>9, Pieces DEF FileOK, IInv, TypeOK

LEMMA WriteKeyKeeps ==
    ASSUME IInv, NEW p \in Procs, WriteKey(p)
    PROVE  IInv'
  <1>1. PICK r \in Agent : /\ r = proc[p] /\ r.at = "write" /\ r.reply = NoReply /\ r.key \in Keys
                         /\ Becomes(p, [r EXCEPT !.at = "registering"])
    BY DEF WriteKey, IInv, TypeOK, ProcOK, Starting, Creating
  <1>2. PICK x : x = [r EXCEPT !.at = "registering"]
    OBVIOUS
  <1>3. /\ x \in Agent /\ x.at = "registering" /\ x.key = r.key /\ x.reply = NoReply
        /\ Becomes(p, x)
    BY <1>1, <1>2 DEF Agent, Places
  <1>4. file' = x.key /\ UNCHANGED <<registry, mishap>>
    BY <1>1, <1>3 DEF WriteKey
  <1>5. RegistryStep
    BY <1>4, StepUnchanged DEF IInv
  <1>6. ProcOK(x)'
    BY <1>1, <1>3 DEF ProcOK, Loop, Starting, Creating, NoReply
  <1>7. proc'[p] = x /\ \A q \in Procs : q # p => proc'[q] = proc[q]
    BY <1>3 DEF Becomes, IInv, TypeOK
  <1>8. ~mishap => file = Empty
                        /\ \A q \in Procs : q # p => proc[q].at \notin Creating \cup Loaded
    <2>1. ~mishap => file = Empty
                          /\ \A q \in Procs : proc[q].at \in Creating => q = p
      BY <1>1 DEF IInv, CreationOK, Creating
    <2>2. \A q \in Procs : proc[q].at \in Loaded => proc[q].key \in Keys
      BY DEF IInv, ProcOK
    <2> QED BY <2>1, <2>2, FileAssumption DEF IInv, KeyKept
  <1>9. CreationOK' /\ KeyKept'
    BY <1>1, <1>3, <1>4, <1>7, <1>8, FileAssumption DEF CreationOK, KeyKept, Creating, Loaded, Loop
  <1> QED BY <1>1, <1>3, <1>4, <1>5, <1>6, <1>9, Pieces DEF FileOK, IInv, TypeOK

\* A process dies in the middle of the file: a mishap.
LEMMA DiesKeeps ==
    ASSUME IInv, NEW p \in Procs, Dies(p)
    PROVE  IInv'
  <1>1. /\ Becomes(p, Off) /\ UNCHANGED <<file, registry>>
        /\ mishap' = (mishap \/ proc[p].at = "write")
    BY DEF Dies
  <1>2. RegistryStep
    BY <1>1, StepUnchanged DEF IInv
  <1>3. Off \in Agent /\ Off.at = "off" /\ ProcOK(Off)'
    BY OffFields DEF ProcOK, Loop, Loaded, Starting, Creating
  <1>4. proc'[p] = Off /\ \A q \in Procs : q # p => proc'[q] = proc[q]
    BY <1>1 DEF Becomes, IInv, TypeOK
  <1>5. ~mishap' => ~mishap /\ proc[p].at # "write"
    BY <1>1
  <1>6. CreationOK' /\ KeyKept'
    BY <1>1, <1>3, <1>4, <1>5 DEF IInv, CreationOK, KeyKept, Creating, Loaded, Loop
  <1>7. mishap' \in BOOLEAN
    BY <1>1 DEF IInv, TypeOK
  <1> QED BY <1>1, <1>2, <1>3, <1>6, <1>7, Pieces DEF FileOK, IInv, TypeOK

-----------------------------------------------------------------------------
(***************************************************************************)
(* Registration and the loop.                                              *)
(***************************************************************************)
\* A loaded process goes on with its key.
LEMMA LoadedStep ==
    ASSUME IInv, NEW p \in Procs, NEW x \in Agent, Becomes(p, x), RegistryStep,
           UNCHANGED <<file, mishap>>, ProcOK(x)', proc[p].at \in Loaded,
           x = Off \/ (x.at \in Loaded /\ x.key = proc[p].key)
    PROVE  IInv'
  <1>1. x.at \notin Creating /\ proc[p].at # "write"
    BY OffFields DEF Loaded, Loop, Creating
  <1>2. ~mishap /\ x.at \in Loaded => file = x.key
    BY OffFields DEF Loaded, Loop, IInv, KeyKept
  <1>3. FileOK'
    BY <1>1, <1>2, FileStays
  <1> QED BY <1>3, Pieces DEF IInv, TypeOK

LEMMA RefusalType ==
    \A s \in {"not_found", "unauthorized", "late", "failed"} :
        Refusal(s) \in Reply /\ Refusal(s).status = s
  BY DEF Refusal, NoReply, Reply

LEMMA OffOK == Off \in Agent /\ ProcOK(Off)'
  BY OffFields DEF ProcOK, Loop, Loaded, Starting, Creating

LEMMA HandleRegisterKeeps ==
    ASSUME IInv, NEW p \in Procs, HandleRegister(p)
    PROVE  IInv'
  <1>1. PICK r \in Agent : r = proc[p] /\ r.at = "registering" /\ r.key \in Keys
    BY DEF HandleRegister, IInv, TypeOK, ProcOK, Loaded
  <1>2. UNCHANGED <<file, mishap>>
    BY DEF HandleRegister
  <1>3. ASSUME NEW m \in Reply, Replies(p, "registering", m), RegistryStep,
               m.status = "ok" => TrueTo(m.agent, r.key)'
        PROVE  IInv'
    <2>1. PICK x : x = [r EXCEPT !.at = "registering", !.reply = m]
      OBVIOUS
    <2>2. /\ x \in Agent /\ x.at = "registering" /\ x.key = r.key /\ x.reply = m
          /\ Becomes(p, x)
      BY <1>1, <1>3, <2>1 DEF Agent, Places, Replies
    <2>3. ProcOK(x)'
      BY <1>1, <1>3, <2>2 DEF ProcOK, Loop, Starting, Creating, TrueTo, Registry!Listed
    <2> QED BY <1>1, <1>2, <1>3, <2>2, <2>3, LoadedStep DEF Loaded
  <1>4. CASE Replies(p, "registering", Refusal("failed")) /\ UNCHANGED registry
    <2>1. RegistryStep
      BY <1>4, StepUnchanged DEF IInv
    <2> QED BY <1>3, <1>4, <2>1, RefusalType
  <1>5. ASSUME NEW a \in AgentOf(r.key), UNCHANGED registry,
               Replies(p, "registering",
                       [status |-> "ok", agent |-> a, owner |-> directory[a].owner])
        PROVE  IInv'
    <2>1. PICK m : m = [status |-> "ok", agent |-> a, owner |-> directory[a].owner]
      OBVIOUS
    <2>2. a \in AgentIds /\ TrueTo(a, r.key) /\ directory[a] \in Entry
      BY <1>5 DEF AgentOf, TrueTo, Registry!Listed, IInv, TypeOK
    <2>3. m \in Reply /\ m.agent = a
      BY <2>1, <2>2 DEF Reply, Entry
    <2>4. RegistryStep
      BY <1>5, StepUnchanged DEF IInv
    <2>5. TrueTo(a, r.key)'
      BY <2>2, <2>4 DEF RegistryStep
    <2> QED BY <1>3, <1>5, <2>1, <2>3, <2>4, <2>5 DEF TrueTo, Registry!Listed
  <1>6. ASSUME NEW a \in AgentIds, Registry!Enroll(a, r.key),
               \/ Replies(p, "registering",
                          [status |-> "ok", agent |-> a, owner |-> r.key])
               \/ Replies(p, "registering", Refusal("failed"))
        PROVE  IInv'
    <2>1. RegistryStep /\ TrueTo(a, r.key)'
      BY <1>1, <1>6, StepEnroll DEF IInv
    <2>2. PICK m : m = [status |-> "ok", agent |-> a, owner |-> r.key]
      OBVIOUS
    <2>3. m \in Reply /\ m.agent = a
      BY <1>1, <2>2 DEF Reply
    <2>4. CASE Replies(p, "registering", m)
      BY <1>3, <2>1, <2>3, <2>4 DEF TrueTo, Registry!Listed
    <2>5. CASE Replies(p, "registering", Refusal("failed"))
      BY <1>3, <2>1, <2>5, RefusalType
    <2> QED BY <1>6, <2>2, <2>4, <2>5
  <1> QED BY <1>1, <1>4, <1>5, <1>6 DEF HandleRegister

LEMMA RegisteredKeeps ==
    ASSUME IInv, NEW p \in Procs, Registered(p)
    PROVE  IInv'
  <1>1. PICK r \in Agent : r = proc[p] /\ r.at = "registering" /\ r.key \in Keys /\ ProcOK(r)
    BY DEF Registered, IInv, TypeOK, ProcOK, Loaded
  <1>2. UNCHANGED <<file, registry, mishap>>
    BY DEF Registered
  <1>3. RegistryStep
    BY <1>2, StepUnchanged DEF IInv
  <1>4. CASE r.reply.status = "ok"
    <2>1. PICK x : x = [r EXCEPT !.at = "asleep", !.agent = r.reply.agent,
                                 !.owner = r.reply.owner, !.reply = NoReply]
      OBVIOUS
    <2>2. /\ x \in Agent /\ x.at = "asleep" /\ x.key = r.key
          /\ x.agent = r.reply.agent /\ x.reply = NoReply
      BY <2>1 DEF Agent, Places, Reply, NoReply
    <2>3. Becomes(p, x)
      BY <1>1, <1>4, <2>1 DEF Registered
    <2>4. TrueTo(x.agent, x.key)
      BY <1>1, <1>4, <2>2 DEF ProcOK
    <2>5. ProcOK(x)
      BY <1>1, <2>2, <2>4 DEF ProcOK, NoReply, Starting, Creating
    <2>6. ProcOK(x)'
      BY <1>3, <2>5, ToldStays
    <2> QED BY <1>1, <1>2, <1>3, <2>2, <2>3, <2>6, LoadedStep DEF Loaded, Loop
  <1>5. CASE r.reply.status # "ok"
    <2>1. Becomes(p, Off)
      BY <1>1, <1>5 DEF Registered
    <2> QED BY <1>1, <1>2, <1>3, <2>1, OffOK, LoadedStep DEF Loaded
  <1> QED BY <1>4, <1>5

\* A process in its loop goes on in it with its agent and its key.
LEMMA LoopStep ==
    ASSUME IInv, NEW p \in Procs, NEW x \in Agent, Becomes(p, x), RegistryStep,
           UNCHANGED <<file, mishap>>, proc[p].at \in Loop, x.at \in Loop,
           x.key = proc[p].key, x.agent = proc[p].agent,
           x.reply.status # "unauthorized",
           x.reply.status = "not_found" => x.agent \in gone
    PROVE  IInv'
  <1>1. PICK r : r = proc[p]
    OBVIOUS
  <1>2. r.key \in Keys /\ TrueTo(r.agent, r.key)
    BY <1>1 DEF IInv, ProcOK, Loaded
  <1>3. ProcOK(x)
    BY <1>1, <1>2 DEF ProcOK, Loop, Starting, Creating
  <1>4. ProcOK(x)'
    BY <1>3, ToldStays
  <1> QED BY <1>4, LoadedStep DEF Loaded

LEMMA SendHeartbeatKeeps ==
    ASSUME IInv, NEW p \in Procs, SendHeartbeat(p)
    PROVE  IInv'
  <1>1. PICK r \in Agent : r = proc[p] /\ r.at = "asleep"
    BY DEF SendHeartbeat, IInv, TypeOK
  <1>2. PICK x : x = [r EXCEPT !.at = "beating", !.reply = NoReply]
    OBVIOUS
  <1>3. /\ x \in Agent /\ x.at = "beating" /\ x.key = r.key /\ x.agent = r.agent
        /\ x.reply.status = "none"
    BY <1>2 DEF Agent, Places, Reply, NoReply
  <1>4. Becomes(p, x) /\ UNCHANGED <<file, registry, mishap>>
    BY <1>1, <1>2 DEF SendHeartbeat, Replies
  <1>5. RegistryStep
    BY <1>4, StepUnchanged DEF IInv
  <1> QED BY <1>1, <1>3, <1>4, <1>5, LoopStep DEF Loop

LEMMA RefuseLateKeeps ==
    ASSUME IInv, NEW p \in Procs, RefuseLate(p)
    PROVE  IInv'
  <1>1. PICK r \in Agent : r = proc[p] /\ r.at = "beating"
    BY DEF RefuseLate, IInv, TypeOK
  <1>2. PICK m \in Reply : m = Refusal("late") /\ m.status = "late"
    BY RefusalType
  <1>3. PICK x : x = [r EXCEPT !.at = "answered", !.reply = m]
    OBVIOUS
  <1>4. /\ x \in Agent /\ x.at = "answered" /\ x.key = r.key /\ x.agent = r.agent
        /\ x.reply.status = "late"
    BY <1>2, <1>3 DEF Agent, Places
  <1>5. Becomes(p, x) /\ UNCHANGED <<file, registry, mishap>>
    BY <1>1, <1>2, <1>3 DEF RefuseLate, Replies
  <1>6. RegistryStep
    BY <1>5, StepUnchanged DEF IInv
  <1> QED BY <1>1, <1>4, <1>5, <1>6, LoopStep DEF Loop

\* A signature never fails: an agent that is listed has the key it was told with.
LEMMA FindAgentKeeps ==
    ASSUME IInv, NEW p \in Procs, FindAgent(p)
    PROVE  IInv'
  <1>1. PICK r \in Agent : r = proc[p] /\ r.at = "beating" /\ TrueTo(r.agent, r.key)
    BY DEF FindAgent, IInv, TypeOK, ProcOK, Loop
  <1>2. UNCHANGED <<file, registry, mishap>>
    BY DEF FindAgent
  <1>3. RegistryStep
    BY <1>2, StepUnchanged DEF IInv
  <1>4. ASSUME NEW at \in {"answered", "found"}, NEW m \in Reply, Replies(p, at, m),
               m.status # "unauthorized", m.status = "not_found" => r.agent \in gone
        PROVE  IInv'
    <2>1. PICK x : x = [r EXCEPT !.at = at, !.reply = m]
      OBVIOUS
    <2>2. x \in Agent /\ x.at \in Loop /\ x.key = r.key /\ x.agent = r.agent /\ x.reply = m
      BY <2>1 DEF Agent, Places, Loop
    <2>3. Becomes(p, x)
      BY <1>1, <1>4, <2>1 DEF Replies
    <2> QED BY <1>1, <1>2, <1>3, <1>4, <2>2, <2>3, LoopStep DEF Loop
  <1>5. CASE ~Registry!Listed(r.agent)
    <2>1. r.agent \in gone
      BY <1>1, <1>5 DEF TrueTo
    <2>2. Replies(p, "answered", Refusal("not_found"))
      BY <1>1, <1>5 DEF FindAgent
    <2> QED BY <1>4, <2>1, <2>2, RefusalType
  <1>6. CASE Registry!Listed(r.agent)
    <2>1. r.agent \in AgentIds /\ directory[r.agent].key = r.key
      BY <1>1, <1>6 DEF TrueTo, IInv, DirectoryOK
    <2>2. PICK m : m = [status |-> "ok", agent |-> r.agent,
                        owner |-> directory[r.agent].owner]
      OBVIOUS
    <2>3. Replies(p, "found", m)
      BY <1>1, <1>6, <2>1, <2>2 DEF FindAgent
    <2>4. m \in Reply /\ m.status = "ok"
      BY <1>6, <2>1, <2>2 DEF Reply, Entry, IInv, TypeOK, Registry!Listed
    <2> QED BY <1>4, <2>3, <2>4
  <1> QED BY <1>5, <1>6

LEMMA UpdateAgentKeeps ==
    ASSUME IInv, NEW p \in Procs, UpdateAgent(p)
    PROVE  IInv'
  <1>1. PICK r \in Agent : r = proc[p] /\ r.at = "found" /\ ProcOK(r)
    BY DEF UpdateAgent, IInv, TypeOK
  <1>2. PICK x : x = [r EXCEPT !.at = "answered"]
    OBVIOUS
  <1>3. /\ x \in Agent /\ x.at = "answered" /\ x.key = r.key /\ x.agent = r.agent
        /\ x.reply = r.reply
    BY <1>2 DEF Agent, Places
  <1>4. Becomes(p, x) /\ UNCHANGED <<file, mishap>>
    BY <1>1, <1>2 DEF UpdateAgent
  <1>5. RegistryStep
    <2>1. r.agent \in AgentIds
      BY <1>1 DEF ProcOK, TrueTo, Loop
    <2>2. Registry!Beat(r.agent, "beat") \/ UNCHANGED registry
      BY <1>1 DEF UpdateAgent
    <2>3. "beat" \in Beats
      BY DEF Beats
    <2> QED BY <2>1, <2>2, <2>3, StepBeat, StepUnchanged DEF IInv
  <1>6. /\ x.reply.status # "unauthorized"
        /\ x.reply.status = "not_found" => x.agent \in gone
    BY <1>1, <1>3 DEF ProcOK, Loop
  <1> QED BY <1>1, <1>3, <1>4, <1>5, <1>6, LoopStep DEF Loop

LEMMA SleepsKeeps ==
    ASSUME IInv, NEW p \in Procs, HeartbeatAnswered(p) \/ HeartbeatFails(p)
    PROVE  IInv'
  <1>1. PICK r \in Agent : r = proc[p] /\ r.at \in Loop
    BY DEF HeartbeatAnswered, HeartbeatFails, Loop, IInv, TypeOK
  <1>2. PICK o \in Keys \cup People \cup {Null} : Becomes(p, Asleep(p, o))
    <2>1. r.owner \in Keys \cup People \cup {Null}
          /\ r.reply.owner \in Keys \cup People \cup {Null}
      BY <1>1 DEF Agent, Reply
    <2> QED BY <1>1, <2>1 DEF HeartbeatAnswered, HeartbeatFails
  <1>3. PICK x : x = [r EXCEPT !.at = "asleep", !.owner = o, !.reply = NoReply]
    OBVIOUS
  <1>4. /\ x \in Agent /\ x.at = "asleep" /\ x.key = r.key /\ x.agent = r.agent
        /\ x.reply.status = "none"
    BY <1>3 DEF Agent, Places, Reply, NoReply
  <1>5. Becomes(p, x) /\ UNCHANGED <<file, registry, mishap>>
    BY <1>1, <1>2, <1>3 DEF HeartbeatAnswered, HeartbeatFails, Asleep
  <1>6. RegistryStep
    BY <1>5, StepUnchanged DEF IInv
  <1> QED BY <1>1, <1>4, <1>5, <1>6, LoopStep DEF Loop

LEMMA PeopleActKeeps ==
    ASSUME IInv, PeopleAct
    PROVE  IInv'
  <1>1. RegistryStep
    BY StepBind, StepRemove DEF PeopleAct, Claim, Remove, IInv
  <1>2. UNCHANGED <<file, proc, mishap>>
    BY DEF PeopleAct
  <1>3. TypeOK' /\ CreationOK' /\ KeyKept'
    BY <1>1, <1>2 DEF IInv, TypeOK, CreationOK, KeyKept, RegistryStep
  <1>4. ASSUME NEW q \in Procs PROVE ProcOK(proc[q])'
    <2>1. PICK r : r = proc[q]
      OBVIOUS
    <2>2. ProcOK(r)'
      BY <1>1, <2>1, ToldStays DEF IInv
    <2> QED BY <1>2, <2>1, <2>2 DEF ProcOK, TrueTo, Registry!Listed
  <1> QED BY <1>1, <1>3, <1>4 DEF IInv, RegistryStep

-----------------------------------------------------------------------------
\* The inductive invariant of a robot's host.
THEOREM Invariance == Spec => []IInv
  <1>1. Init => IInv
    <2> SUFFICES ASSUME Init PROVE IInv
      OBVIOUS
    <2>1. Off \in Agent /\ Off.at = "off" /\ Off.reply = NoReply
      BY OffFields DEF Off
    <2>2. \A p \in Procs : proc[p] = Off
      BY DEF Init
    <2>3. TypeOK
      BY <2>1, <2>2 DEF Init, TypeOK, Registry!Init
    <2>4. DirectoryOK
      BY DEF Init, DirectoryOK, Registry!Init, Registry!Listed
    <2>5. \A p \in Procs : ProcOK(proc[p])
      BY <2>1, <2>2 DEF ProcOK, Loaded, Loop
    <2>6. CreationOK /\ KeyKept
      BY <2>1, <2>2, FileAssumption DEF Init, CreationOK, KeyKept, Creating, Loaded, Loop
    <2> QED BY <2>3, <2>4, <2>5, <2>6 DEF IInv
  <1>2. IInv /\ [Next]_vars => IInv'
    <2> SUFFICES ASSUME IInv, [Next]_vars PROVE IInv'
      OBVIOUS
    <2>1. CASE PeopleAct
      BY <2>1, PeopleActKeeps
    <2>2. ASSUME NEW p \in Procs,
                 \/ Start(p) \/ CheckKey(p) \/ ReadKey(p) \/ OpenKey(p) \/ WriteKey(p)
                 \/ HandleRegister(p) \/ Registered(p) \/ Dies(p)
          PROVE  IInv'
      BY <2>2, StartKeeps, CheckKeyKeeps, ReadKeyKeeps, OpenKeyKeeps, WriteKeyKeeps,
         HandleRegisterKeeps, RegisteredKeeps, DiesKeeps
    <2>3. ASSUME NEW p \in Procs,
                 \/ SendHeartbeat(p) \/ RefuseLate(p) \/ FindAgent(p) \/ UpdateAgent(p)
                 \/ HeartbeatAnswered(p) \/ HeartbeatFails(p)
          PROVE  IInv'
      BY <2>3, SendHeartbeatKeeps, RefuseLateKeeps, FindAgentKeeps, UpdateAgentKeeps, SleepsKeeps
    <2>4. CASE UNCHANGED vars
      BY <2>4 DEF vars, IInv, TypeOK, DirectoryOK, CreationOK, ProcOK, TrueTo, KeyKept,
                  Registry!Listed
    <2> QED BY <2>1, <2>2, <2>3, <2>4 DEF Next
  <1> QED BY <1>1, <1>2, PTL DEF Spec

\* Unless creations of the key file overlap or die, the file is whole and holds the
\* key of every process.
THEOREM KeysKept == Spec => []KeyKept
  <1>1. IInv => KeyKept
    BY DEF IInv
  <1> QED BY <1>1, Invariance, PTL

\* Processes with one key run as one agent, whose heartbeats are never refused for their
\* key, nor for want of the agent until a removal ends it.
THEOREM SameAgents == Spec => []SameAgent
  <1>1. IInv => SameAgent
    <2> SUFFICES ASSUME IInv, NEW p \in Procs, proc[p].at \in Loop
                 PROVE  /\ proc[p].agent \in gone \/ AgentOf(proc[p].key) = {proc[p].agent}
                        /\ proc[p].reply.status # "unauthorized"
                        /\ proc[p].reply.status = "not_found" => proc[p].agent \in gone
      BY DEF SameAgent
    <2>1. /\ TrueTo(proc[p].agent, proc[p].key)
          /\ proc[p].reply.status # "unauthorized"
          /\ proc[p].reply.status = "not_found" => proc[p].agent \in gone
      BY DEF IInv, ProcOK
    <2>2. CASE proc[p].agent \notin gone
      <3>1. proc[p].agent \in AgentOf(proc[p].key)
        BY <2>1, <2>2 DEF TrueTo, AgentOf
      <3>2. \A a, b \in AgentOf(proc[p].key) : a = b
        BY DEF IInv, DirectoryOK, AgentOf
      <3> QED BY <2>1, <3>1, <3>2
    <2> QED BY <2>1, <2>2
  <1> QED BY <1>1, Invariance, PTL
=============================================================================
