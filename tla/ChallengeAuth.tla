--------------------------- MODULE ChallengeAuth ---------------------------
(***************************************************************************)
(* How an owner logs in:                                                   *)
(*                                                                         *)
(*   POST /v1/owners                  createOwner                          *)
(*   POST /v1/owners/auth/challenge   authChallenge, Manager.NewChallenge  *)
(*   POST /v1/owners/auth/verify      authVerify, Manager.VerifyChallenge, *)
(*                                    Manager.IssueJWT                     *)
(*                                                                         *)
(* Pending challenges live in a map in memory, guarded by a mutex, one per *)
(* public key.  A request is one step per critical section or statement;   *)
(* what VerifyChallenge does after its Unlock is a step of its own.        *)
(*                                                                         *)
(* Left out: requests refused for a malformed body or key.                 *)
(***************************************************************************)
EXTENDS Integers

CONSTANTS
    Keys,         \* owners' public keys
    Values,       \* challenge strings: 32 random bytes, never drawn twice
    Requests,     \* slots for requests the server handles concurrently
    TTL,          \* challengeTTL
    AccessTTL,    \* accessTTL of the JWT
    MaxTime,      \* bound: the clock stops here
    Null

ASSUME ChallengeAssumption ==
    /\ TTL \in Nat /\ AccessTTL \in Nat /\ MaxTime \in Nat
    /\ Null \notin Keys \cup Values \cup [value : Values, expires : Nat]
                    \cup [key : Keys, at : Nat]

VARIABLES
    now,          \* time.Now() of the server
    owners,       \* keys with a row in table owners
    challenges,   \* Manager.challenges: key -> pending challenge, or Null
    issued,       \* history: challenge -> the key and time it was made for
    logins,       \* history: challenges accepted, with the time of the check
    tokens,       \* JWTs issued: owner, and the times it is valid from and to
    req           \* request slot -> the request it serves

vars == <<now, owners, challenges, issued, logins, tokens, req>>
history == <<issued, logins, tokens>>

Pending == [value : Values, expires : Nat]
Issue == [key : Keys, at : Nat]
Login == [key : Keys, value : Values, at : Nat]
Token == [owner : Keys, iat : Nat, exp : Nat]

Places == {"idle", "insert", "lookup", "store", "take", "check", "issue", "done"}
\* 201: created.  200: issued, ok.  409: conflict.  404: noowner.
\* 401: nochallenge, expired, mismatch, badsignature.  500: failed.
Statuses == {"created", "issued", "ok", "conflict", "noowner", "nochallenge",
             "expired", "mismatch", "badsignature", "failed"}
ASSUME AnswerAssumption == Null \notin Statuses

\* value and signed: the challenge a verify presents, and whether its signature
\* was made with the private key of key.  taken: the local variable pc.
Request == [at : Places, key : Keys \cup {Null}, value : Values \cup {Null},
            signed : BOOLEAN, taken : Pending \cup {Null},
            status : Statuses \cup {Null}]

NoRequest == [at |-> "idle", key |-> Null, value |-> Null, signed |-> FALSE,
              taken |-> Null, status |-> Null]

Init ==
    /\ now = 0
    /\ owners = {}
    /\ challenges = [k \in Keys |-> Null]
    /\ issued = [v \in Values |-> Null]
    /\ logins = {} /\ tokens = {}
    /\ req = [r \in Requests |-> NoRequest]

Goto(r, place) == req' = [req EXCEPT ![r].at = place]
Answer(r, s) == req' = [req EXCEPT ![r].at = "done", ![r].status = s]

-----------------------------------------------------------------------------
(***************************************************************************)
(* Requests arrive.                                                        *)
(***************************************************************************)
Arrive(r, request) ==
    /\ req[r] = NoRequest
    /\ req' = [req EXCEPT ![r] = request]
    /\ UNCHANGED <<now, owners, challenges, history>>

CreateOwnerCall(r, k) ==
    Arrive(r, [NoRequest EXCEPT !.at = "insert", !.key = k])

ChallengeCall(r, k) ==
    Arrive(r, [NoRequest EXCEPT !.at = "lookup", !.key = k])

\* A client presents any challenge that was ever answered, under any key.
VerifyCall(r, k, v, signed) ==
    /\ issued[v] # Null
    /\ Arrive(r, [NoRequest EXCEPT !.at = "take", !.key = k, !.value = v,
                                   !.signed = signed])

-----------------------------------------------------------------------------
(***************************************************************************)
(* createOwner: one INSERT; owners.public_key is UNIQUE.                   *)
(***************************************************************************)
InsertOwner(r) ==
    LET k == req[r].key IN
    /\ req[r].at = "insert"
    /\ owners' = owners \cup {k}
    /\ Answer(r, IF k \in owners THEN "conflict" ELSE "created")
    /\ UNCHANGED <<now, challenges, history>>

(***************************************************************************)
(* authChallenge: look the owner up, then store a new challenge under the  *)
(* mutex, in place of one that may be pending.                             *)
(***************************************************************************)
ChallengeLookup(r) ==
    /\ req[r].at = "lookup"
    /\ IF req[r].key \in owners THEN Goto(r, "store") ELSE Answer(r, "noowner")
    /\ UNCHANGED <<now, owners, challenges, history>>

NewChallenge(r) ==
    LET k == req[r].key IN
    /\ req[r].at = "store"
    /\ \E v \in Values :
         /\ issued[v] = Null
         /\ challenges' = [challenges EXCEPT ![k] = [value |-> v, expires |-> now + TTL]]
         /\ issued' = [issued EXCEPT ![v] = [key |-> k, at |-> now]]
         /\ req' = [req EXCEPT ![r].at = "done", ![r].status = "issued",
                               ![r].value = v]
    /\ UNCHANGED <<now, owners, logins, tokens>>

(***************************************************************************)
(* VerifyChallenge: take the entry out of the map under the mutex; after   *)
(* the Unlock compare time, value and signature.                           *)
(***************************************************************************)
TakenOut_OnSuccess(k) == challenges     \* faulty: the entry is left in the map
TakenOut(k) == [challenges EXCEPT ![k] = Null]

VerifyTake(r) ==
    LET k == req[r].key IN
    /\ req[r].at = "take"
    /\ challenges' = TakenOut(k)
    /\ IF challenges[k] = Null
         THEN Answer(r, "nochallenge")
         ELSE req' = [req EXCEPT ![r].at = "check", ![r].taken = challenges[k]]
    /\ UNCHANGED <<now, owners, history>>

\* time.Now().After(pc.expires)
Expired_Never(pc) == FALSE              \* faulty: expires is not compared
Expired(pc) == now > pc.expires

Refusal_AnyValue(call) ==               \* faulty: the values are not compared
    CASE Expired(call.taken) -> "expired"
      [] ~Expired(call.taken) /\ ~call.signed -> "badsignature"
      [] OTHER -> Null
Refusal(call) ==
    CASE Expired(call.taken) -> "expired"
      [] ~Expired(call.taken) /\ call.taken.value # call.value -> "mismatch"
      [] ~Expired(call.taken) /\ call.taken.value = call.value /\ ~call.signed
           -> "badsignature"
      [] OTHER -> Null

VerifyCheck(r) ==
    /\ req[r].at = "check"
    /\ IF Refusal(req[r]) # Null
         THEN Answer(r, Refusal(req[r])) /\ UNCHANGED logins
         ELSE /\ Goto(r, "issue")
              /\ logins' = logins \cup {[key |-> req[r].key,
                                         value |-> req[r].value, at |-> now]}
    /\ UNCHANGED <<now, owners, challenges, issued, tokens>>

\* authVerify goes on: read the owner's row, then IssueJWT.
JWT_Unbounded(k) ==                     \* faulty: counts from the epoch
    [owner |-> k, iat |-> now, exp |-> AccessTTL]
JWT(k) == [owner |-> k, iat |-> now, exp |-> now + AccessTTL]

IssueJWT(r) ==
    LET k == req[r].key IN
    /\ req[r].at = "issue"
    /\ IF k \in owners
         THEN tokens' = tokens \cup {JWT(k)} /\ Answer(r, "ok")
         ELSE UNCHANGED tokens /\ Answer(r, "failed")
    /\ UNCHANGED <<now, owners, challenges, issued, logins>>

-----------------------------------------------------------------------------
\* A statement of the database fails: a challenge already taken is lost.
StatementFails(r) ==
    /\ req[r].at \in {"insert", "lookup", "issue"}
    /\ Answer(r, "failed")
    /\ UNCHANGED <<now, owners, challenges, history>>

Receive(r) ==
    /\ req[r].at = "done"
    /\ req' = [req EXCEPT ![r] = NoRequest]
    /\ UNCHANGED <<now, owners, challenges, history>>

\* The process restarts: the map and the requests are lost; rows, and the
\* signing key derived from the configuration, are not.
Forgotten == [k \in Keys |-> Null]

Restart ==
    /\ challenges' = Forgotten
    /\ req' = [r \in Requests |-> NoRequest]
    /\ UNCHANGED <<now, owners, history>>

Tick ==
    /\ now < MaxTime
    /\ now' = now + 1
    /\ UNCHANGED <<owners, challenges, history, req>>

Call(r) ==
    \/ \E k \in Keys : CreateOwnerCall(r, k) \/ ChallengeCall(r, k)
    \/ \E k \in Keys, v \in Values, signed \in BOOLEAN : VerifyCall(r, k, v, signed)

Step(r) ==
    \/ InsertOwner(r) \/ ChallengeLookup(r) \/ NewChallenge(r)
    \/ VerifyTake(r) \/ VerifyCheck(r) \/ IssueJWT(r)

Next ==
    \/ \E r \in Requests : Call(r) \/ Step(r) \/ StatementFails(r) \/ Receive(r)
    \/ Restart \/ Tick

Spec == Init /\ [][Next]_vars

-----------------------------------------------------------------------------
(***************************************************************************)
(* Properties.                                                             *)
(***************************************************************************)
\* Every variable has its type.
TypeOK ==
    /\ now \in Nat /\ owners \subseteq Keys
    /\ challenges \in [Keys -> Pending \cup {Null}]
    /\ issued \in [Values -> Issue \cup {Null}]
    /\ logins \subseteq Login /\ tokens \subseteq Token
    /\ req \in [Requests -> Request]

\* "Checks a signed challenge and consumes it (one-time use)": of all the
\* verifications that race, are repeated or follow a restart, at most one
\* accepts a challenge.
OneTimeUse ==
    [][\A r \in Requests :
        req[r].at = "check" /\ req'[r].at = "issue" =>
            \A l \in logins : l.value # req[r].value]_vars

\* A challenge is accepted only for the key it was made for, only after it was
\* made and within its TTL, although the check runs after the Unlock.
LoginsFresh ==
    \A l \in logins :
        /\ issued[l.value] # Null
        /\ issued[l.value].key = l.key
        /\ issued[l.value].at <= l.at /\ l.at <= issued[l.value].at + TTL

\* Every token goes back to an accepted challenge of its owner's key, and ends
\* AccessTTL after it was issued.
TokensBacked ==
    \A t \in tokens :
        /\ t.exp = t.iat + AccessTTL
        /\ \E l \in logins : l.key = t.owner /\ l.at <= t.iat

(***************************************************************************)
(* The inductive invariant: a challenge is pending, or held by one         *)
(* request, or spent.                                                      *)
(***************************************************************************)
PendingOK ==
    \A k \in Keys : challenges[k] # Null =>
        LET v == challenges[k].value IN
        /\ issued[v] # Null /\ issued[v].key = k /\ issued[v].at <= now
        /\ challenges[k].expires = issued[v].at + TTL
        /\ \A l \in logins : l.value # v

Holds(r, v) == req[r].at = "check" /\ req[r].taken # Null /\ req[r].taken.value = v

HeldOK(r) ==
    req[r].at = "check" =>
        /\ req[r].taken # Null
        /\ LET v == req[r].taken.value IN
           /\ issued[v] # Null /\ issued[v].key = req[r].key
           /\ issued[v].at <= now /\ req[r].taken.expires = issued[v].at + TTL
           /\ \A l \in logins : l.value # v
           /\ \A k \in Keys : challenges[k] # Null => challenges[k].value # v
           /\ \A q \in Requests \ {r} : ~Holds(q, v)

CallOK(r) ==
    /\ req[r].at \in {"insert", "lookup", "store", "take", "check", "issue"} =>
          req[r].key \in Keys
    /\ req[r].at \in {"take", "check"} => req[r].value \in Values
    /\ req[r].at = "issue" =>
          \E l \in logins : l.key = req[r].key /\ l.at <= now

IInv ==
    /\ TypeOK
    /\ LoginsFresh
    /\ TokensBacked
    /\ PendingOK
    /\ \A r \in Requests : HeldOK(r) /\ CallOK(r)
=============================================================================
