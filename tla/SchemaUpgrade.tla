---------------------------- MODULE SchemaUpgrade ----------------------------
(***************************************************************************)
(* What a start of the registry promises about the schema: that of one     *)
(* release after another, recorded with the same commit that makes it, and *)
(* a process that serves only on the schema of its own release or a later  *)
(* one.  How many processes start at once, and which of them fail, does    *)
(* not show.                                                               *)
(***************************************************************************)
EXTENDS Integers

CONSTANTS Instances, Files, None

VARIABLES
    applied,    \* the migrations in the database
    known,      \* those that the database says are in it
    serves      \* instance -> the release it serves, or None

\* Release n has the migrations 1 .. n.
Release(n) == 1 .. n

Init ==
    /\ applied = Release(0)
    /\ known = Release(0)
    /\ serves = [i \in Instances |-> None]

Upgrade(n) ==
    /\ applied = Release(n) /\ known = Release(n)
    /\ applied' = Release(n + 1) /\ known' = Release(n + 1)
    /\ UNCHANGED serves

Serve(i, n) ==
    /\ serves[i] = None /\ Release(n) \subseteq applied
    /\ serves' = [serves EXCEPT ![i] = n]
    /\ UNCHANGED <<applied, known>>

Stop(i) ==
    /\ serves[i] # None
    /\ serves' = [serves EXCEPT ![i] = None]
    /\ UNCHANGED <<applied, known>>

Next ==
    \/ \E n \in 0 .. Files - 1 : Upgrade(n)
    \/ \E i \in Instances : Stop(i) \/ \E n \in 0 .. Files : Serve(i, n)

Spec == Init /\ [][Next]_<<applied, known, serves>>
=============================================================================
