--------------------------- MODULE MigrationsProofs ---------------------------
(***************************************************************************)
(* Proofs about Migrations: for any number of instances and migrations,    *)
(* whichever of them are repeatable, and any number of interruptions.      *)
(***************************************************************************)
EXTENDS Migrations, TLAPS

\* The locals of a step: what Exit and Commits do, in the form the cases use.
LEMMA ExitKeeps ==
    ASSUME IInv, NEW i \in Instances, Exit(i)
    PROVE  /\ at' = [at EXCEPT ![i] = "down"]
           /\ ddl' \in Instances \cup {None}
           /\ ddl' # i
           /\ \A j \in Instances \ {i} : ddl' = j <=> ddl = j
  BY InstanceAssumption DEF IInv, TypeOK, Exit, Goto, Unlocked

\* A step that commits no migration and moves one instance alone.
LEMMA Moves ==
    ASSUME IInv, NEW i \in Instances, NEW place \in Places, NEW n \in 1 .. Files + 1,
           at' = [at EXCEPT ![i] = place], name' = [name EXCEPT ![i] = n],
           UNCHANGED <<schema, recorded, embedded, interruptions>>,
           versionTable' \in BOOLEAN, versionTable => versionTable',
           ddl' \in Instances \cup {None},
           \A j \in Instances \ {i} : ddl' = j <=> ddl = j,
           InstanceOK(i)', place = "commit" => n \notin schema
    PROVE  IInv'
  <1>1. TypeOK'
    BY DEF IInv, TypeOK
  <1>2. RecordedIffApplied' /\ AppliedInOrder'
    BY DEF IInv, RecordedIffApplied, AppliedInOrder
  <1>3. NeverCommittedTwice'
    BY DEF IInv, TypeOK, NeverCommittedTwice
  <1>4. ASSUME NEW j \in Instances \ {i} PROVE InstanceOK(j)'
    <2>1. at'[j] = at[j] /\ name'[j] = name[j] /\ embedded'[j] = embedded[j]
      BY DEF IInv, TypeOK
    <2>2. InstanceOK(j) /\ (ddl' = j <=> ddl = j) /\ schema' = schema
      BY DEF IInv
    <2> QED BY <2>1, <2>2 DEF InstanceOK
  <1> QED BY <1>1, <1>2, <1>3, <1>4 DEF IInv

\* A commit: i adds its migration to schema and record, and leaves its place.
LEMMA CommitMoves ==
    ASSUME IInv, NEW i \in Instances, NEW place \in {"check", "down"},
           NEW n \in 1 .. Files + 1,
           at[i] = "commit", Commits(i),
           at' = [at EXCEPT ![i] = place], name' = [name EXCEPT ![i] = n],
           place = "check" => n = name[i] + 1,
           embedded' = embedded, interruptions' \in Nat,
           ddl' \in Instances \cup {None},
           ddl' # i, \A j \in Instances \ {i} : ddl' = j <=> ddl = j
    PROVE  IInv'
  <1>1. name[i] \in 1 .. Files /\ ddl = i
    BY FilesAssumption DEF IInv, TypeOK, InstanceOK
  <1>2. \A m \in 1 .. name[i] - 1 : m \in schema
    BY DEF IInv, InstanceOK
  <1>3. schema' = schema \cup {name[i]} /\ recorded' = schema'
        /\ versionTable' = versionTable
    BY DEF Commits, IInv, RecordedIffApplied
  <1>4. TypeOK'
    BY <1>1, <1>3 DEF IInv, TypeOK, Places
  <1>5. AppliedInOrder'
    <2> SUFFICES ASSUME NEW m \in schema', NEW l \in 1 .. m PROVE l \in schema'
      BY DEF AppliedInOrder
    <2>1. CASE m \in schema
      BY <1>3, <2>1 DEF IInv, AppliedInOrder
    <2>2. CASE m = name[i]
      BY <1>1, <1>2, <1>3, <2>2
    <2> QED BY <1>3, <2>1, <2>2
  <1>6. ASSUME NEW j \in Instances \ {i}
        PROVE  InstanceOK(j)' /\ at'[j] # "commit"
    <2>1. at'[j] = at[j] /\ name'[j] = name[j] /\ embedded'[j] = embedded[j]
      BY DEF IInv, TypeOK
    <2>2. InstanceOK(j) /\ ddl' # j /\ ddl # j /\ schema \subseteq schema'
      BY <1>1, <1>3 DEF IInv
    <2> QED BY <1>3, <2>1, <2>2 DEF InstanceOK
  <1>7. InstanceOK(i)' /\ at'[i] # "commit"
    <2>1. at'[i] = place /\ name'[i] = n
      BY DEF IInv, TypeOK
    <2>2. versionTable /\ name[i] \in schema' /\ schema \subseteq schema'
      BY <1>3 DEF IInv, InstanceOK
    <2>3. place = "check" => \A m \in 1 .. n - 1 : m \in schema'
      BY <1>1, <1>2, <2>2
    <2> QED BY <1>3, <2>1, <2>2, <2>3 DEF InstanceOK
  <1> QED BY <1>3, <1>4, <1>5, <1>6, <1>7
      DEF IInv, RecordedIffApplied, NeverCommittedTwice

\* An exit without a commit, of a binary that may have been replaced.
LEMMA ExitMoves ==
    ASSUME IInv, NEW i \in Instances, Exit(i), UNCHANGED <<database, name>>,
           embedded' \in [Instances -> 0 .. Files],
           \A j \in Instances \ {i} : embedded'[j] = embedded[j],
           interruptions' \in Nat
    PROVE  IInv'
  <1>1. TypeOK'
    BY ExitKeeps DEF IInv, TypeOK, Places, database
  <1>2. RecordedIffApplied' /\ AppliedInOrder'
    BY DEF IInv, RecordedIffApplied, AppliedInOrder, database
  <1>3. NeverCommittedTwice'
    BY ExitKeeps DEF IInv, TypeOK, NeverCommittedTwice, database
  <1>4. ASSUME NEW j \in Instances \ {i} PROVE InstanceOK(j)'
    <2>1. at'[j] = at[j] /\ name'[j] = name[j] /\ (ddl' = j <=> ddl = j)
      BY ExitKeeps DEF IInv, TypeOK, database
    <2> QED BY <2>1 DEF IInv, InstanceOK, database
  <1>5. InstanceOK(i)'
    BY ExitKeeps DEF IInv, TypeOK, InstanceOK
  <1> QED BY <1>1, <1>2, <1>3, <1>4, <1>5 DEF IInv

\* The invariant holds at the start and is kept by every step.
THEOREM Invariance == Spec => []IInv
  <1>1. ASSUME Init PROVE IInv
    <2>1. /\ schema \subseteq 1 .. Files /\ recorded \subseteq 1 .. Files
          /\ versionTable \in BOOLEAN /\ ddl \in Instances \cup {None}
          /\ at \in [Instances -> Places]
      BY <1>1 DEF Init, Places
    <2>2. name \in [Instances -> 1 .. Files + 1]
      BY <1>1, FilesAssumption DEF Init
    <2>3. embedded \in [Instances -> 0 .. Files] /\ interruptions \in Nat
      BY <1>1 DEF Init
    <2>4. \A i \in Instances : InstanceOK(i)
      BY <1>1, InstanceAssumption DEF Init, InstanceOK
    <2>5. RecordedIffApplied /\ AppliedInOrder /\ NeverCommittedTwice
      BY <1>1 DEF Init, RecordedIffApplied, AppliedInOrder, NeverCommittedTwice
    <2> QED BY <2>1, <2>2, <2>3, <2>4, <2>5 DEF IInv, TypeOK
  <1>2. IInv /\ [Next]_vars => IInv'
    <2> SUFFICES ASSUME IInv, [Next]_vars PROVE IInv'
      OBVIOUS
    <2>1. CASE UNCHANGED vars
      BY <2>1 DEF vars, IInv, TypeOK, RecordedIffApplied, AppliedInOrder,
         NeverCommittedTwice, InstanceOK
    <2>2. ASSUME NEW i \in Instances, Start(i) PROVE IInv'
      <3>1. /\ at' = [at EXCEPT ![i] = "create"] /\ name' = [name EXCEPT ![i] = 1]
            /\ UNCHANGED <<schema, recorded, embedded, interruptions, versionTable, ddl>>
        BY <2>2 DEF Start, Goto, database
      <3>2. InstanceOK(i)'
        BY <2>2, <3>1 DEF Start, IInv, TypeOK, InstanceOK
      <3>3. 1 \in 1 .. Files + 1
        BY FilesAssumption
      <3> QED BY <3>1, <3>2, <3>3, Moves DEF Places, IInv, TypeOK
    <2>3. ASSUME NEW i \in Instances, CreateVersionTable(i) PROVE IInv'
      <3>1. /\ at' = [at EXCEPT ![i] = "check"] /\ name' = [name EXCEPT ![i] = name[i]]
            /\ UNCHANGED <<schema, recorded, embedded, interruptions, ddl>>
            /\ versionTable' = TRUE
        BY <2>3 DEF CreateVersionTable, Goto, IInv, TypeOK
      <3>2. InstanceOK(i)'
        BY <2>3, <3>1 DEF CreateVersionTable, IInv, TypeOK, InstanceOK
      <3>3. name[i] \in 1 .. Files + 1
        BY DEF IInv, TypeOK
      <3> QED BY <3>1, <3>2, <3>3, Moves DEF Places, IInv, TypeOK
    <2>4. ASSUME NEW i \in Instances, Check(i) PROVE IInv'
      <3>1. name[i] \in 1 .. Files + 1 /\ name[i] <= embedded[i] /\ embedded[i] \in 0 .. Files
        BY <2>4 DEF Check, IInv, TypeOK
      <3>2. /\ at[i] = "check" /\ ddl # i /\ versionTable
            /\ \A m \in 1 .. name[i] - 1 : m \in schema
        BY <2>4 DEF Check, IInv, InstanceOK
      <3>3. UNCHANGED <<schema, recorded, embedded, interruptions, versionTable, ddl>>
        BY <2>4 DEF Check, database
      <3>4. CASE name[i] \in recorded
        <4>1. name[i] + 1 \in 1 .. Files + 1 /\ name[i] \in schema
          BY <3>1, <3>4, FilesAssumption DEF IInv, RecordedIffApplied
        <4>2. at' = [at EXCEPT ![i] = "check"] /\ name' = [name EXCEPT ![i] = name[i] + 1]
          BY <2>4, <3>2, <3>4 DEF Check, IInv, TypeOK
        <4>3. InstanceOK(i)'
          BY <3>1, <3>2, <3>3, <4>1, <4>2 DEF IInv, TypeOK, InstanceOK
        <4> QED BY <3>3, <4>1, <4>2, <4>3, Moves DEF Places, IInv, TypeOK
      <3>5. CASE name[i] \notin recorded
        <4>1. at' = [at EXCEPT ![i] = "apply"] /\ name' = [name EXCEPT ![i] = name[i]]
          BY <2>4, <3>5 DEF Check, Goto, IInv, TypeOK
        <4>2. InstanceOK(i)'
          BY <3>1, <3>2, <3>3, <4>1 DEF IInv, TypeOK, InstanceOK
        <4> QED BY <3>1, <3>3, <4>1, <4>2, Moves DEF Places, IInv, TypeOK
      <3> QED BY <3>4, <3>5
    <2>5. ASSUME NEW i \in Instances, Serve(i) PROVE IInv'
      <3>1. /\ at' = [at EXCEPT ![i] = "serving"] /\ name' = [name EXCEPT ![i] = name[i]]
            /\ UNCHANGED <<schema, recorded, embedded, interruptions, versionTable, ddl>>
        BY <2>5 DEF Serve, Goto, database, IInv, TypeOK
      <3>2. InstanceOK(i)'
        BY <2>5, <3>1 DEF Serve, IInv, TypeOK, InstanceOK
      <3>3. name[i] \in 1 .. Files + 1
        BY DEF IInv, TypeOK
      <3> QED BY <3>1, <3>2, <3>3, Moves DEF Places, IInv, TypeOK
    <2>6. ASSUME NEW i \in Instances, Apply(i) PROVE IInv'
      <3>1. CASE name[i] \in schema \ Repeatable
        BY <2>6, <3>1, ExitMoves DEF Apply, IInv, TypeOK
      <3>2. CASE name[i] \notin schema \ Repeatable
        <4>1. /\ at' = [at EXCEPT ![i] = "record"] /\ name' = [name EXCEPT ![i] = name[i]]
              /\ UNCHANGED <<schema, recorded, embedded, interruptions, versionTable>>
              /\ ddl' = i /\ ddl = None
          BY <2>6, <3>2 DEF Apply, Goto, database, IInv, TypeOK
        <4>2. InstanceOK(i)'
          BY <2>6, <4>1 DEF Apply, IInv, TypeOK, InstanceOK
        <4>3. name[i] \in 1 .. Files + 1
          BY DEF IInv, TypeOK
        <4> QED BY <4>1, <4>2, <4>3, Moves, InstanceAssumption DEF Places, IInv, TypeOK
      <3> QED BY <3>1, <3>2
    <2>7. ASSUME NEW i \in Instances, Record(i) PROVE IInv'
      <3>1. CASE name[i] \in recorded
        BY <2>7, <3>1, ExitMoves DEF Record, IInv, TypeOK
      <3>2. CASE name[i] \notin recorded
        <4>1. /\ at' = [at EXCEPT ![i] = "commit"] /\ name' = [name EXCEPT ![i] = name[i]]
              /\ UNCHANGED <<schema, recorded, embedded, interruptions, versionTable, ddl>>
          BY <2>7, <3>2 DEF Record, Goto, database, IInv, TypeOK
        <4>2. InstanceOK(i)'
          BY <2>7, <4>1 DEF Record, IInv, TypeOK, InstanceOK
        <4>3. name[i] \in 1 .. Files + 1 /\ name[i] \notin schema
          BY <3>2 DEF IInv, TypeOK, RecordedIffApplied
        <4> QED BY <4>1, <4>2, <4>3, Moves DEF Places, IInv, TypeOK
      <3> QED BY <3>1, <3>2
    <2>8. ASSUME NEW i \in Instances, Commit(i) PROVE IInv'
      <3>1. name[i] \in 1 .. Files /\ ddl = i
        BY <2>8, FilesAssumption DEF Commit, IInv, TypeOK, InstanceOK
      <3>2. /\ at[i] = "commit" /\ Commits(i) /\ ddl' = None
            /\ at' = [at EXCEPT ![i] = "check"] /\ name' = [name EXCEPT ![i] = name[i] + 1]
            /\ embedded' = embedded /\ interruptions' \in Nat
        BY <2>8 DEF Commit, Goto, IInv, TypeOK
      <3>3. name[i] + 1 \in 1 .. Files + 1
        BY <3>1, FilesAssumption
      <3> QED BY <3>1, <3>2, <3>3, CommitMoves, InstanceAssumption
    <2>9. ASSUME NEW i \in Instances, CommitUnacknowledged(i) PROVE IInv'
      <3>1. /\ at[i] = "commit" /\ Commits(i) /\ Exit(i)
            /\ name' = [name EXCEPT ![i] = name[i]] /\ name[i] \in 1 .. Files + 1
            /\ embedded' = embedded /\ interruptions' \in Nat
        BY <2>9 DEF CommitUnacknowledged, Interrupt, IInv, TypeOK
      <3> QED BY <3>1, ExitKeeps, CommitMoves
    <2>10. ASSUME NEW i \in Instances, Fail(i) \/ Deploy(i) PROVE IInv'
      BY <2>10, ExitMoves DEF Fail, Deploy, Interrupt, IInv, TypeOK
    <2> QED BY <2>1, <2>2, <2>3, <2>4, <2>5, <2>6, <2>7, <2>8, <2>9, <2>10
        DEF Next, Step
  <1> QED BY <1>1, <1>2, PTL DEF Spec

\* A migration is recorded exactly if it is in the schema.
THEOREM RecordsExact == Spec => []RecordedIffApplied
  <1>1. IInv => RecordedIffApplied
    BY DEF IInv
  <1> QED BY <1>1, Invariance, PTL

\* The schema is always that of a release.
THEOREM AppliesInOrder == Spec => []AppliedInOrder
  <1>1. IInv => AppliedInOrder
    BY DEF IInv
  <1> QED BY <1>1, Invariance, PTL

\* No migration is committed twice.
THEOREM CommitsOnce == Spec => []NeverCommittedTwice
  <1>1. IInv => NeverCommittedTwice
    BY DEF IInv
  <1> QED BY <1>1, Invariance, PTL

\* A process that serves has the schema of its binary.
THEOREM ServesItsSchema == Spec => []ServingHasSchema
  <1>1. IInv => ServingHasSchema
    BY DEF IInv, TypeOK, InstanceOK, ServingHasSchema
  <1> QED BY <1>1, Invariance, PTL

-----------------------------------------------------------------------------
(***************************************************************************)
(* Migrations implements SchemaUpgrade.                                    *)
(***************************************************************************)
\* A step that moves one instance and leaves the tables alone shows only
\* whether that instance serves, and which release.
LEMMA ServesMoves ==
    ASSUME IInv, NEW i \in Instances, NEW place \in Places,
           at' = [at EXCEPT ![i] = place],
           \A j \in Instances \ {i} : embedded'[j] = embedded[j]
    PROVE  Serves' = [Serves EXCEPT
                        ![i] = IF place = "serving" THEN embedded'[i] ELSE None]
  <1>1. at'[i] = place /\ \A j \in Instances \ {i} : at'[j] = at[j]
    BY DEF IInv, TypeOK
  <1> QED BY <1>1 DEF Serves

\* A move between two places at which an instance does not serve.
LEMMA MoveHidden ==
    ASSUME IInv, NEW i \in Instances, NEW place \in Places \ {"serving"},
           at' = [at EXCEPT ![i] = place], at[i] # "serving",
           \A j \in Instances \ {i} : embedded'[j] = embedded[j]
    PROVE  UNCHANGED Serves
  <1>1. Serves[i] = None /\ Serves = [j \in Instances |-> Serves[j]]
    BY DEF Serves
  <1>2. Serves' = [Serves EXCEPT ![i] = None]
    BY ServesMoves
  <1> QED BY <1>1, <1>2

\* An exit without a commit stops a process that serves, and else is hidden.
LEMMA ExitMaps ==
    ASSUME IInv, NEW i \in Instances, Exit(i), UNCHANGED database,
           \A j \in Instances \ {i} : embedded'[j] = embedded[j]
    PROVE  Upgrades!Stop(i) \/ UNCHANGED <<schema, recorded, Serves>>
  <1>1. at' = [at EXCEPT ![i] = "down"] /\ UNCHANGED <<schema, recorded>>
    BY DEF Exit, Goto, database
  <1>2. CASE at[i] = "serving"
    <2>1. Serves[i] = embedded[i] /\ embedded[i] \in 0 .. Files
      BY <1>2 DEF Serves, IInv, TypeOK
    <2>2. Serves' = [Serves EXCEPT ![i] = None]
      BY <1>1, ServesMoves DEF Places
    <2> QED BY <1>1, <2>1, <2>2, NoneAssumption DEF Upgrades!Stop
  <1>3. CASE at[i] # "serving"
    BY <1>1, <1>3, MoveHidden DEF Places
  <1> QED BY <1>2, <1>3

\* A commit makes the release before the migration the one that ends with it.
LEMMA CommitMaps ==
    ASSUME IInv, NEW i \in Instances, at[i] = "commit", Commits(i),
           NEW place \in {"check", "down"}, at' = [at EXCEPT ![i] = place],
           embedded' = embedded
    PROVE  \E n \in 0 .. Files - 1 : Upgrades!Upgrade(n)
  <1>1. name[i] \in 1 .. Files /\ name[i] \notin schema
        /\ \A m \in 1 .. name[i] - 1 : m \in schema
    BY FilesAssumption DEF IInv, TypeOK, InstanceOK, NeverCommittedTwice
  <1>2. \A m \in schema : m \in 1 .. Files /\ m < name[i]
    \* A later migration would have this one below it.
    <2> SUFFICES ASSUME NEW m \in schema, m >= name[i] PROVE FALSE
      BY <1>1, FilesAssumption DEF IInv, TypeOK
    <2>1. name[i] \in 1 .. m
      BY <1>1, FilesAssumption DEF IInv, TypeOK
    <2> QED BY <1>1, <2>1 DEF IInv, AppliedInOrder
  <1>3. schema = 1 .. name[i] - 1
    <2>1. ASSUME NEW m \in schema PROVE m \in 1 .. name[i] - 1
      BY <1>1, <1>2, FilesAssumption
    <2>2. ASSUME NEW m \in 1 .. name[i] - 1 PROVE m \in schema
      BY <1>1
    <2> QED BY <2>1, <2>2
  <1>4. schema' = 1 .. name[i]
    BY <1>1, <1>3, FilesAssumption DEF Commits
  <1>5. recorded = schema /\ recorded' = schema'
    BY DEF Commits, IInv, RecordedIffApplied
  <1>6. UNCHANGED Serves
    BY MoveHidden DEF Places
  <1>7. name[i] - 1 \in 0 .. Files - 1 /\ (name[i] - 1) + 1 = name[i]
    BY <1>1, FilesAssumption
  <1>8. Upgrades!Upgrade(name[i] - 1)
    BY <1>3, <1>4, <1>5, <1>6, <1>7 DEF Upgrades!Upgrade, Upgrades!Release
  <1> QED BY <1>7, <1>8

\* A process serves once the schema of its binary is there.
LEMMA ServeMaps ==
    ASSUME IInv, NEW i \in Instances, Serve(i)
    PROVE  \E n \in 0 .. Files : Upgrades!Serve(i, n)
  <1>1. /\ embedded[i] \in 0 .. Files /\ name[i] \in 1 .. Files + 1
        /\ embedded[i] < name[i] /\ embedded' = embedded
        /\ \A m \in 1 .. name[i] - 1 : m \in schema
    BY DEF Serve, IInv, TypeOK, InstanceOK
  <1>2. Upgrades!Release(embedded[i]) \subseteq schema
    BY <1>1, FilesAssumption DEF Upgrades!Release
  <1>3. Serves' = [Serves EXCEPT ![i] = embedded[i]]
    BY <1>1, ServesMoves DEF Serve, Goto, Places
  <1>4. Serves[i] = None /\ UNCHANGED <<schema, recorded>>
    BY DEF Serve, Serves, database
  <1> QED BY <1>1, <1>2, <1>3, <1>4 DEF Upgrades!Serve

\* Starts that race, fail and are repeated are one upgrade after another.
THEOREM ImplementsUpgrade == Spec => UpgradeSpec
  <1>1. Init => Upgrades!Init
    BY DEF Init, Serves, Upgrades!Init, Upgrades!Release
  <1>2. IInv /\ [Next]_vars => [Upgrades!Next]_<<schema, recorded, Serves>>
    <2> SUFFICES ASSUME IInv, [Next]_vars
                 PROVE  Upgrades!Next \/ UNCHANGED <<schema, recorded, Serves>>
      OBVIOUS
    <2>1. CASE UNCHANGED vars
      BY <2>1 DEF vars, Serves
    <2>2. ASSUME NEW i \in Instances, Start(i) \/ CreateVersionTable(i)
          PROVE  UNCHANGED <<schema, recorded, Serves>>
      BY <2>2, MoveHidden DEF Start, CreateVersionTable, Goto, database, Places
    <2>3. ASSUME NEW i \in Instances, Check(i)
          PROVE  UNCHANGED <<schema, recorded, Serves>>
      <3>1. CASE name[i] \in recorded
        BY <2>3, <3>1 DEF Check, Serves, database
      <3>2. CASE name[i] \notin recorded
        BY <2>3, <3>2, MoveHidden DEF Check, Goto, database, Places
      <3> QED BY <3>1, <3>2
    <2>4. ASSUME NEW i \in Instances, Serve(i)
          PROVE  Upgrades!Next
      BY <2>4, ServeMaps DEF Upgrades!Next
    <2>5. ASSUME NEW i \in Instances, Apply(i) \/ Record(i)
          PROVE  UNCHANGED <<schema, recorded, Serves>>
      BY <2>5, MoveHidden DEF Apply, Record, Exit, Goto, database, Places
    <2>6. ASSUME NEW i \in Instances, Commit(i) \/ CommitUnacknowledged(i)
          PROVE  Upgrades!Next
      BY <2>6, CommitMaps
         DEF Commit, CommitUnacknowledged, Exit, Goto, Upgrades!Next
    <2>7. ASSUME NEW i \in Instances, Fail(i)
          PROVE  Upgrades!Next \/ UNCHANGED <<schema, recorded, Serves>>
      BY <2>7, ExitMaps DEF Fail, Upgrades!Next
    <2>8. ASSUME NEW i \in Instances, Deploy(i)
          PROVE  Upgrades!Next \/ UNCHANGED <<schema, recorded, Serves>>
      <3>1. \A j \in Instances \ {i} : embedded'[j] = embedded[j]
        BY <2>8 DEF Deploy, IInv, TypeOK
      <3> QED BY <2>8, <3>1, ExitMaps DEF Deploy, Upgrades!Next
    <2> QED BY <2>1, <2>2, <2>3, <2>4, <2>5, <2>6, <2>7, <2>8 DEF Next, Step
  <1> QED BY <1>1, <1>2, Invariance, PTL DEF Spec, UpgradeSpec, Upgrades!Spec
=============================================================================
