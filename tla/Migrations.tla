------------------------------ MODULE Migrations ------------------------------
(***************************************************************************)
(* How a registry process brings the schema up to date when it starts      *)
(* (main, Store.Migrate), beside other processes that share the database:  *)
(* a second instance, or the backend of a killed one that still runs.      *)
(*                                                                         *)
(* Migration files are numbered in filename order.  Each is applied and    *)
(* recorded in one transaction.  Every error is log.Fatalf: the process    *)
(* exits, its transaction rolls back, and systemd starts it again.         *)
(***************************************************************************)
EXTENDS Integers

CONSTANTS
    Instances,        \* registry processes
    Files,            \* number of migrations ever written
    Repeatable,       \* those whose statements all say IF NOT EXISTS
    MaxInterruptions, \* bound: crashes, lost connections and deployments
    None

ASSUME FilesAssumption == Files \in Nat /\ Repeatable \subseteq 1 .. Files
ASSUME InstanceAssumption == None \notin Instances
ASSUME NoneAssumption == None \notin 0 .. Files
ASSUME InterruptionsAssumption == MaxInterruptions \in Nat

VARIABLES
    schema,         \* migrations whose changes are in the database
    versionTable,   \* table schema_migrations exists
    recorded,       \* its rows
    ddl,            \* the instance whose transaction locks the altered tables
    at,             \* instance -> what it does next
    name,           \* instance -> the loop variable of Migrate
    embedded,       \* instance -> migrations its binary brings along
    interruptions   \* counts what MaxInterruptions bounds

database == <<schema, versionTable, recorded>>
vars == <<schema, versionTable, recorded, ddl, at, name, embedded, interruptions>>

Places == {"down", "create", "check", "apply", "record", "commit", "serving"}

Init ==
    /\ schema = {} /\ versionTable = FALSE /\ recorded = {}
    /\ ddl = None
    /\ at = [i \in Instances |-> "down"]
    /\ name = [i \in Instances |-> 1]
    /\ embedded \in [Instances -> 0 .. Files]
    /\ interruptions = 0

Goto(i, place) == at' = [at EXCEPT ![i] = place]
Unlocked(i) == IF ddl = i THEN None ELSE ddl

\* log.Fatalf, or a kill: an open transaction is rolled back.
Exit(i) == Goto(i, "down") /\ ddl' = Unlocked(i)

-----------------------------------------------------------------------------
Start(i) ==
    /\ at[i] = "down"
    /\ Goto(i, "create")
    /\ name' = [name EXCEPT ![i] = 1]
    /\ UNCHANGED <<database, ddl, embedded, interruptions>>

CreateVersionTable(i) ==
    /\ at[i] = "create"
    /\ versionTable' = TRUE
    /\ Goto(i, "check")
    /\ UNCHANGED <<schema, recorded, ddl, name, embedded, interruptions>>

Check(i) ==
    /\ at[i] = "check" /\ name[i] <= embedded[i]
    /\ IF name[i] \in recorded
         THEN name' = [name EXCEPT ![i] = @ + 1] /\ UNCHANGED at
         ELSE Goto(i, "apply") /\ UNCHANGED name
    /\ UNCHANGED <<database, ddl, embedded, interruptions>>

\* After the last file Migrate returns and main serves.
Serve(i) ==
    /\ at[i] = "check" /\ name[i] > embedded[i]
    /\ Goto(i, "serving")
    /\ UNCHANGED <<database, ddl, name, embedded, interruptions>>

Apply_Autocommit(i) ==              \* faulty: s.Pool.Exec in place of tx.Exec
    /\ at[i] = "apply" /\ ddl = None
    /\ IF name[i] \in schema \ Repeatable
         THEN Exit(i) /\ UNCHANGED schema
         ELSE Goto(i, "record") /\ ddl' = i /\ schema' = schema \cup {name[i]}
    /\ UNCHANGED <<versionTable, recorded, name, embedded, interruptions>>
\* ALTER TABLE waits until no other transaction holds the table; what it adds
\* may exist by then.
Apply(i) ==
    /\ at[i] = "apply" /\ ddl = None
    /\ IF name[i] \in schema \ Repeatable
         THEN Exit(i)
         ELSE Goto(i, "record") /\ ddl' = i
    /\ UNCHANGED <<database, name, embedded, interruptions>>

Record_Keyless(i) ==                \* faulty: version is no primary key
    /\ at[i] = "record"
    /\ Goto(i, "commit") /\ ddl' = ddl
    /\ UNCHANGED <<database, name, embedded, interruptions>>
\* INSERT: the primary key refuses a version another instance has recorded.
Record(i) ==
    /\ at[i] = "record"
    /\ IF name[i] \in recorded THEN Exit(i) ELSE Goto(i, "commit") /\ ddl' = ddl
    /\ UNCHANGED <<database, name, embedded, interruptions>>

Commits(i) ==
    /\ schema' = schema \cup {name[i]}
    /\ recorded' = recorded \cup {name[i]}
    /\ UNCHANGED versionTable

Commit(i) ==
    /\ at[i] = "commit"
    /\ Commits(i)
    /\ Goto(i, "check") /\ ddl' = None
    /\ name' = [name EXCEPT ![i] = @ + 1]
    /\ UNCHANGED <<embedded, interruptions>>

-----------------------------------------------------------------------------
Interrupt ==
    /\ interruptions < MaxInterruptions
    /\ interruptions' = interruptions + 1

Fail_Logged(i) ==                   \* faulty: log.Printf in place of log.Fatalf
    /\ Interrupt
    /\ at[i] # "down"
    /\ Goto(i, "serving") /\ ddl' = Unlocked(i)
    /\ UNCHANGED <<database, name, embedded>>
Fail_NextFile(i) ==                 \* faulty: continue in place of return err
    /\ Interrupt
    /\ at[i] \in {"check", "apply", "record", "commit"}
    /\ Goto(i, "check") /\ ddl' = Unlocked(i)
    /\ name' = [name EXCEPT ![i] = @ + 1]
    /\ UNCHANGED <<database, embedded>>
\* A crash, a lost connection or a statement that fails, at any place.
Fail(i) ==
    /\ Interrupt
    /\ at[i] # "down"
    /\ Exit(i)
    /\ UNCHANGED <<database, name, embedded>>

\* The transaction commits and its acknowledgement is lost.
CommitUnacknowledged(i) ==
    /\ Interrupt
    /\ at[i] = "commit"
    /\ Commits(i)
    /\ Exit(i)
    /\ UNCHANGED <<name, embedded>>

\* A newer or an older binary is installed and the service restarted.
Deploy(i) ==
    /\ Interrupt
    /\ \E n \in 0 .. Files : embedded' = [embedded EXCEPT ![i] = n]
    /\ Exit(i)
    /\ UNCHANGED <<database, name>>

-----------------------------------------------------------------------------
Step(i) ==
    \/ Start(i) \/ CreateVersionTable(i) \/ Check(i) \/ Serve(i)
    \/ Apply(i) \/ Record(i) \/ Commit(i)

Next ==
    \E i \in Instances : Step(i) \/ Fail(i) \/ CommitUnacknowledged(i) \/ Deploy(i)

Spec == Init /\ [][Next]_vars

\* A process runs on, and systemd starts it again after RestartSec=5, slowly
\* enough never to meet its limit on starts (5 in 10 seconds).
FairSpec == Spec /\ \A i \in Instances : WF_vars(Step(i))

-----------------------------------------------------------------------------
(***************************************************************************)
(* Properties.                                                             *)
(***************************************************************************)
\* Every variable has its type.
TypeOK ==
    /\ schema \subseteq 1 .. Files /\ recorded \subseteq 1 .. Files
    /\ versionTable \in BOOLEAN
    /\ ddl \in Instances \cup {None}
    /\ at \in [Instances -> Places]
    /\ name \in [Instances -> 1 .. Files + 1]
    /\ embedded \in [Instances -> 0 .. Files]
    /\ interruptions \in Nat

\* "Each in its own transaction": wherever instances crash, race or lose a
\* connection, a migration is recorded exactly if it is in the schema, so none
\* is ever skipped and none that cannot be repeated blocks every later start.
RecordedIffApplied == recorded = schema

\* "In filename order": the schema is always that of some release, although
\* instances with different binaries apply migrations side by side.
AppliedInOrder == \A m \in schema : 1 .. m \subseteq schema

\* A process that serves requests finds every table and column its code uses.
ServingHasSchema ==
    \A i \in Instances :
        at[i] = "serving" => versionTable /\ 1 .. embedded[i] \subseteq schema

\* Although instances check, apply and record in separate statements, no
\* transaction comes to commit a migration that another has committed.
NeverCommittedTwice ==
    \A i \in Instances : at[i] = "commit" => name[i] \notin schema

\* Whatever an interruption leaves behind, every instance comes to serve again:
\* losing the race for a migration costs it a restart, never more.
EveryInstanceServes == \A i \in Instances : []<>(at[i] = "serving")

\* Starts that race, fail and are repeated with several binaries come down to an
\* upgrade of the schema by one release at a time, recorded as it is made, and to
\* processes that serve on a schema that has all of their own.
Serves == [i \in Instances |-> IF at[i] = "serving" THEN embedded[i] ELSE None]

Upgrades == INSTANCE SchemaUpgrade WITH
    applied <- schema,
    known <- recorded,
    serves <- Serves

UpgradeSpec == Upgrades!Spec

(***************************************************************************)
(* The inductive invariant.                                                *)
(***************************************************************************)
InstanceOK(i) ==
    /\ at[i] \in {"check", "apply", "record", "commit", "serving"} => versionTable
    /\ at[i] = "create" => name[i] = 1
    /\ at[i] \in {"record", "commit"} <=> ddl = i
    /\ at[i] \in {"check", "apply", "record", "commit", "serving"} =>
          \A m \in 1 .. name[i] - 1 : m \in schema
    /\ at[i] \in {"apply", "record", "commit"} => name[i] <= embedded[i]
    /\ at[i] = "serving" => name[i] > embedded[i]

IInv ==
    /\ TypeOK
    /\ RecordedIffApplied
    /\ AppliedInOrder
    /\ NeverCommittedTwice
    /\ \A i \in Instances : InstanceOK(i)
=============================================================================
