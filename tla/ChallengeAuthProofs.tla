------------------------- MODULE ChallengeAuthProofs -------------------------
(***************************************************************************)
(* Every challenge buys at most one login, for any number of keys,         *)
(* challenges and concurrent requests: a challenge is pending, or held by  *)
(* one request, or spent, and never two of these.                          *)
(***************************************************************************)
EXTENDS ChallengeAuth, TLAPS

LEMMA Initial == Init => IInv
  <1> SUFFICES ASSUME Init PROVE IInv
    OBVIOUS
  <1>1. TypeOK
    BY DEF Init, TypeOK, NoRequest, Request, Places
  <1>2. LoginsFresh /\ TokensBacked /\ PendingOK
    BY DEF Init, LoginsFresh, TokensBacked, PendingOK
  <1>3. \A r \in Requests : HeldOK(r) /\ CallOK(r)
    BY DEF Init, NoRequest, HeldOK, CallOK
  <1> QED BY <1>1, <1>2, <1>3 DEF IInv

\* What VerifyChallenge accepts has the presented value and is not expired.
LEMMA Accepted ==
    ASSUME NEW call, Refusal(call) = Null
    PROVE  ~Expired(call.taken) /\ call.taken.value = call.value
  BY AnswerAssumption DEF Refusal, Statuses

\* A place where a request holds no challenge and no login.
Quiet(x) ==
    /\ x \in Request
    /\ x.at \notin {"check", "issue"}
    /\ x.at \in {"insert", "lookup", "store", "take"} => x.key \in Keys
    /\ x.at = "take" => x.value \in Values

\* A step after which its request holds nothing, and which at most drops
\* pending challenges and issues tokens that are backed.
LEMMA QuietMove ==
    ASSUME IInv, NEW r \in Requests, NEW x, Quiet(x),
           req' = [req EXCEPT ![r] = x],
           owners' \subseteq Keys,
           challenges' \in [Keys -> Pending \cup {Null}],
           \A k \in Keys : challenges'[k] \in {challenges[k], Null},
           tokens' \subseteq Token, TokensBacked',
           UNCHANGED <<now, issued, logins>>
    PROVE  IInv'
  <1>1. /\ req'[r] = x
        /\ \A q \in Requests \ {r} : req'[q] = req[q]
    BY DEF IInv, TypeOK
  <1>2. TypeOK'
    BY DEF IInv, TypeOK, Quiet
  <1>3. LoginsFresh'
    BY DEF IInv, LoginsFresh
  <1>4. PendingOK'
    BY DEF IInv, PendingOK
  <1>5. ASSUME NEW q \in Requests PROVE HeldOK(q)' /\ CallOK(q)'
    <2>1. CASE q = r
      BY <2>1, <1>1 DEF Quiet, HeldOK, CallOK
    <2>2. CASE q # r
      <3>1. req'[q] = req[q] /\ HeldOK(q) /\ CallOK(q)
        BY <2>2, <1>1 DEF IInv
      <3>2. ASSUME NEW s \in Requests \ {q}, NEW v, Holds(s, v)'
              PROVE  Holds(s, v)
        BY <1>1, <3>2 DEF Holds, Quiet
      <3> QED BY <3>1, <3>2 DEF HeldOK, CallOK
    <2> QED BY <2>1, <2>2
  <1> QED BY <1>2, <1>3, <1>4, <1>5 DEF IInv

LEMMA ArriveMove ==
    ASSUME IInv, NEW r \in Requests, NEW x, Quiet(x), Arrive(r, x)
    PROVE  IInv'
  BY QuietMove DEF Arrive, history, IInv, TypeOK, TokensBacked

LEMMA CallMove ==
    ASSUME IInv, NEW r \in Requests, Call(r)
    PROVE  IInv'
  <1>1. ASSUME NEW k \in Keys, CreateOwnerCall(r, k) PROVE IInv'
    <2>1. Quiet([NoRequest EXCEPT !.at = "insert", !.key = k])
      BY DEF Quiet, NoRequest, Request, Places
    <2> QED BY <1>1, <2>1, ArriveMove DEF CreateOwnerCall
  <1>2. ASSUME NEW k \in Keys, ChallengeCall(r, k) PROVE IInv'
    <2>1. Quiet([NoRequest EXCEPT !.at = "lookup", !.key = k])
      BY DEF Quiet, NoRequest, Request, Places
    <2> QED BY <1>2, <2>1, ArriveMove DEF ChallengeCall
  <1>3. ASSUME NEW k \in Keys, NEW v \in Values, NEW signed \in BOOLEAN,
               VerifyCall(r, k, v, signed)
        PROVE  IInv'
    <2>1. Quiet([NoRequest EXCEPT !.at = "take", !.key = k, !.value = v,
                                  !.signed = signed])
      BY DEF Quiet, NoRequest, Request, Places
    <2> QED BY <1>3, <2>1, ArriveMove DEF VerifyCall
  <1> QED BY <1>1, <1>2, <1>3 DEF Call

\* A request that is answered, or goes on to another quiet place.
LEMMA AnswerQuiet ==
    ASSUME TypeOK, NEW r \in Requests, NEW s \in Statuses, Answer(r, s)
    PROVE  \E x : Quiet(x) /\ req' = [req EXCEPT ![r] = x]
  <1> DEFINE x == req[r]  y == [x EXCEPT !.at = "done", !.status = s]
  <1>1. req[r] \in Request
    BY DEF TypeOK
  <1>2. Quiet(y)
    BY <1>1 DEF Quiet, Request, Places
  <1>3. req' = [req EXCEPT ![r] = y]
    BY DEF Answer
  <1> QED BY <1>2, <1>3

\* The steps of createOwner and authChallenge before the mutex, failures, and
\* the answers of authVerify that do not log in.
LEMMA QuietSteps ==
    ASSUME IInv, NEW r \in Requests,
           \/ InsertOwner(r) \/ ChallengeLookup(r)
           \/ StatementFails(r) \/ Receive(r)
    PROVE  IInv'
  <1> USE DEF history, IInv, TypeOK, TokensBacked, Statuses
  <1>1. CASE InsertOwner(r)
    <2>1. PICK s \in Statuses : Answer(r, s)
      BY <1>1 DEF InsertOwner
    <2>2. req[r].key \in Keys
      BY <1>1 DEF InsertOwner, CallOK
    <2> QED BY <1>1, <2>1, <2>2, AnswerQuiet, QuietMove DEF InsertOwner
  <1>2. CASE ChallengeLookup(r)
    <2>1. CASE req[r].key \in owners
      <3> DEFINE x == req[r]  y == [x EXCEPT !.at = "store"]
      <3>1. Quiet(y)
        BY <1>2 DEF ChallengeLookup, CallOK, Quiet, Request, Places
      <3>2. req' = [req EXCEPT ![r] = y]
        BY <1>2, <2>1 DEF ChallengeLookup, Goto
      <3> HIDE DEF y
      <3> QED BY <1>2, <3>1, <3>2, QuietMove DEF ChallengeLookup
    <2>2. CASE req[r].key \notin owners
      BY <1>2, <2>2, AnswerQuiet, QuietMove DEF ChallengeLookup
    <2> QED BY <2>1, <2>2
  <1>3. CASE StatementFails(r)
    BY <1>3, AnswerQuiet, QuietMove DEF StatementFails
  <1>4. CASE Receive(r)
    <2>1. Quiet(NoRequest)
      BY DEF Quiet, NoRequest, Request, Places
    <2> QED BY <1>4, <2>1, QuietMove DEF Receive
  <1> QED BY <1>1, <1>2, <1>3, <1>4

\* A new challenge is in no place yet, so it may replace a pending one.
LEMMA NewChallengeMove ==
    ASSUME IInv, NEW r \in Requests, NewChallenge(r)
    PROVE  IInv'
  <1>1. PICK k \in Keys : k = req[r].key
    BY DEF IInv, CallOK, NewChallenge
  <1>2. PICK v \in Values :
          /\ issued[v] = Null
          /\ challenges' = [challenges EXCEPT ![k] = [value |-> v, expires |-> now + TTL]]
          /\ issued' = [issued EXCEPT ![v] = [key |-> k, at |-> now]]
          /\ req' = [req EXCEPT ![r].at = "done", ![r].status = "issued",
                                ![r].value = v]
    BY <1>1 DEF NewChallenge
  <1> DEFINE x == req[r]
             y == [x EXCEPT !.at = "done", !.status = "issued", !.value = v]
  <1>3. y \in Request /\ y.at = "done"
    BY DEF IInv, TypeOK, Request, Places, Statuses
  <1>4. req' = [req EXCEPT ![r] = y]
    BY <1>2
  <1> HIDE DEF y
  <1>5. UNCHANGED <<now, owners, logins, tokens>>
    BY DEF NewChallenge
  <1>6. [value |-> v, expires |-> now + TTL] \in Pending
        /\ [key |-> k, at |-> now] \in Issue
    BY ChallengeAssumption DEF IInv, TypeOK, Pending, Issue
  <1>7. TypeOK'
    BY <1>2, <1>3, <1>4, <1>5, <1>6 DEF IInv, TypeOK
  <1>8. \A u \in Values : u # v => issued'[u] = issued[u]
    BY <1>2 DEF IInv, TypeOK
  <1>9. issued'[v] = [key |-> k, at |-> now] /\ issued'[v] # Null
    BY <1>2, <1>6, ChallengeAssumption DEF IInv, TypeOK, Issue
  <1>10. \A l \in logins : l.value \in Values /\ l.value # v
    BY <1>2 DEF IInv, LoginsFresh, TypeOK, Login
  <1>11. LoginsFresh'
    BY <1>5, <1>8, <1>10 DEF IInv, LoginsFresh
  <1>12. TokensBacked'
    BY <1>5 DEF IInv, TokensBacked
  <1>13. ASSUME NEW j \in Keys, challenges[j] # Null
         PROVE  challenges[j].value \in Values \ {v}
    BY <1>2, <1>13 DEF IInv, PendingOK, TypeOK, Pending
  <1>14. /\ challenges'[k] = [value |-> v, expires |-> now + TTL]
         /\ \A j \in Keys \ {k} : challenges'[j] = challenges[j]
    BY <1>2 DEF IInv, TypeOK
  <1>15. ASSUME NEW j \in Keys, challenges'[j] # Null
         PROVE  LET u == challenges'[j].value IN
                /\ issued'[u] # Null /\ issued'[u].key = j /\ issued'[u].at <= now
                /\ challenges'[j].expires = issued'[u].at + TTL
                /\ \A l \in logins : l.value # u
    <2>1. CASE j = k
      BY <2>1, <1>9, <1>10, <1>14 DEF IInv, TypeOK
    <2>2. CASE j # k
      BY <2>2, <1>8, <1>13, <1>14, <1>15 DEF IInv, PendingOK
    <2> QED BY <2>1, <2>2
  <1>16. PendingOK'
    BY <1>5, <1>15 DEF PendingOK
  <1>17. ASSUME NEW q \in Requests PROVE HeldOK(q)' /\ CallOK(q)'
    <2>1. CASE q = r
      BY <2>1, <1>3, <1>4 DEF IInv, TypeOK, HeldOK, CallOK
    <2>2. CASE q # r
      <3>1. req'[q] = req[q] /\ HeldOK(q) /\ CallOK(q) /\ req[q] \in Request
        BY <2>2, <1>4 DEF IInv, TypeOK
      <3>2. ASSUME NEW s \in Requests \ {q}, NEW w, Holds(s, w)'
            PROVE  Holds(s, w)
        BY <1>3, <1>4, <3>2 DEF Holds, IInv, TypeOK
      <3>3. CallOK(q)'
        BY <3>1, <1>5 DEF CallOK
      <3>4. CASE req[q].at = "check"
        <4>1. req[q].taken.value \in Values \ {v}
          BY <3>1, <3>4, <1>2 DEF HeldOK, Request, Pending
        <4>2. \A j \in Keys : challenges'[j] # Null =>
                challenges'[j].value # req[q].taken.value
          BY <4>1, <3>1, <3>4, <1>14 DEF HeldOK
        <4> QED BY <4>1, <4>2, <3>1, <3>2, <3>3, <3>4, <1>5, <1>8 DEF HeldOK
      <3> QED BY <3>1, <3>3, <3>4 DEF HeldOK
    <2> QED BY <2>1, <2>2
  <1> QED BY <1>7, <1>11, <1>12, <1>16, <1>17 DEF IInv

\* What was pending under one key is held by the request that took it.
LEMMA TakeMove ==
    ASSUME IInv, NEW r \in Requests, VerifyTake(r)
    PROVE  IInv'
  <1>1. PICK k \in Keys : k = req[r].key
    BY DEF IInv, CallOK, VerifyTake
  <1>2. challenges' = [challenges EXCEPT ![k] = Null]
    BY <1>1 DEF VerifyTake, TakenOut
  <1>3. UNCHANGED <<now, owners, issued, logins, tokens>>
    BY DEF VerifyTake, history
  <1>4. CASE challenges[k] = Null
    <2>1. PICK x : Quiet(x) /\ req' = [req EXCEPT ![r] = x]
      BY <1>1, <1>4, AnswerQuiet DEF VerifyTake, Statuses, IInv
    <2> QED BY <2>1, <1>2, <1>3, QuietMove DEF IInv, TypeOK, TokensBacked
  <1>5. CASE challenges[k] # Null
    <2> DEFINE x == req[r]
               y == [x EXCEPT !.at = "check", !.taken = challenges[k]]
    <2>1. /\ y \in Request /\ y.at = "check" /\ y.taken = challenges[k]
          /\ y.key = k /\ y.value = req[r].value /\ y.value \in Values
      BY <1>1, <1>5 DEF IInv, TypeOK, Request, Places, CallOK, VerifyTake
    <2>2. req' = [req EXCEPT ![r] = y]
      BY <1>1, <1>5 DEF VerifyTake
    <2> HIDE DEF y
    <2>3. /\ req'[r] = y
          /\ \A q \in Requests \ {r} : req'[q] = req[q]
      BY <2>2 DEF IInv, TypeOK
    <2>4. PICK pc \in Pending : pc = challenges[k] /\ pc # Null
      BY <1>5 DEF IInv, TypeOK
    <2>5. \A j \in Keys : challenges'[j] # Null =>
            j # k /\ challenges'[j] = challenges[j]
      BY <1>2 DEF IInv, TypeOK
    <2>6. \A j \in Keys \ {k} : challenges[j] # Null => challenges[j].value # pc.value
      BY <2>4 DEF IInv, PendingOK
    <2>7. TypeOK'
      BY <1>2, <1>3, <2>1, <2>2 DEF IInv, TypeOK
    <2>8. LoginsFresh' /\ TokensBacked'
      BY <1>3 DEF IInv, LoginsFresh, TokensBacked
    <2>9. PendingOK'
      BY <1>3, <2>5 DEF IInv, PendingOK
    <2>10. \A q \in Requests \ {r} : ~Holds(q, pc.value)
      BY <2>4 DEF IInv, HeldOK, Holds
    <2>11. HeldOK(r)' /\ CallOK(r)'
      <3>1. \A q \in Requests \ {r} : ~Holds(q, pc.value)'
        BY <2>3, <2>10 DEF Holds
      <3>2. /\ issued[pc.value] # Null /\ issued[pc.value].key = k
            /\ issued[pc.value].at <= now /\ pc.expires = issued[pc.value].at + TTL
            /\ \A l \in logins : l.value # pc.value
        BY <2>4 DEF IInv, PendingOK
      <3> QED BY <1>3, <2>1, <2>3, <2>4, <2>5, <2>6, <3>1, <3>2 DEF HeldOK, CallOK
    <2>12. ASSUME NEW q \in Requests \ {r} PROVE HeldOK(q)' /\ CallOK(q)'
      <3>1. req'[q] = req[q] /\ HeldOK(q) /\ CallOK(q)
        BY <2>3 DEF IInv
      <3>2. ASSUME NEW s \in Requests \ {q}, NEW w, Holds(s, w)', ~Holds(s, w)
            PROVE  s = r /\ w = pc.value
        BY <2>1, <2>3, <2>4, <3>2 DEF Holds
      <3> QED BY <1>3, <2>4, <2>5, <3>1, <3>2 DEF HeldOK, CallOK
    <2> QED BY <2>7, <2>8, <2>9, <2>11, <2>12 DEF IInv
  <1> QED BY <1>4, <1>5

\* An accepted challenge was held by this request alone; now it is spent.
LEMMA CheckMove ==
    ASSUME IInv, NEW r \in Requests, VerifyCheck(r)
    PROVE  IInv'
  <1>1. UNCHANGED <<now, owners, challenges, issued, tokens>>
    BY DEF VerifyCheck
  <1>2. CASE Refusal(req[r]) # Null
    <2>1. Refusal(req[r]) \in Statuses
      BY <1>2 DEF Refusal, Statuses
    <2>2. PICK x : Quiet(x) /\ req' = [req EXCEPT ![r] = x]
      BY <1>2, <2>1, AnswerQuiet DEF VerifyCheck, IInv
    <2>3. UNCHANGED logins
      BY <1>2 DEF VerifyCheck
    <2> QED BY <1>1, <2>2, <2>3, QuietMove DEF IInv, TypeOK, TokensBacked
  <1>3. CASE Refusal(req[r]) = Null
    <2> DEFINE x == req[r]  y == [x EXCEPT !.at = "issue"]
    <2>1. PICK v \in Values, k \in Keys : v = req[r].value /\ k = req[r].key
      BY DEF IInv, CallOK, VerifyCheck
    <2>2. /\ y \in Request /\ y.at = "issue" /\ y.key = k
          /\ req' = [req EXCEPT ![r] = y]
      BY <1>3, <2>1 DEF VerifyCheck, Goto, IInv, TypeOK, Request, Places
    <2> HIDE DEF y
    <2>3. /\ req'[r] = y
          /\ \A q \in Requests \ {r} : req'[q] = req[q]
      BY <2>2 DEF IInv, TypeOK
    <2>4. PICK l \in Login : /\ l.key = k /\ l.value = v /\ l.at = now
                             /\ logins' = logins \cup {l}
      BY <1>3, <2>1 DEF VerifyCheck, IInv, TypeOK, Login
    <2>5. /\ req[r].at = "check" /\ req[r].taken # Null
          /\ req[r].taken.value = v /\ ~Expired(req[r].taken)
          /\ issued[v] # Null /\ issued[v].key = k /\ issued[v].at <= now
          /\ req[r].taken.expires = issued[v].at + TTL
          /\ \A j \in Keys : challenges[j] # Null => challenges[j].value # v
          /\ \A q \in Requests \ {r} : ~Holds(q, v)
      BY <1>3, <2>1, Accepted DEF VerifyCheck, IInv, HeldOK
    <2>6. TypeOK'
      BY <1>1, <2>2, <2>4 DEF IInv, TypeOK
    <2>7. now <= issued[v].at + TTL
      <3>1. issued[v].at \in Nat /\ now \in Nat
        BY <2>5 DEF IInv, TypeOK, Issue
      <3> QED BY <2>5, <3>1, ChallengeAssumption DEF Expired
    <2>8. LoginsFresh'
      BY <1>1, <2>4, <2>5, <2>7 DEF IInv, LoginsFresh
    <2>9. TokensBacked'
      BY <1>1, <2>4 DEF IInv, TokensBacked
    <2>10. PendingOK'
      BY <1>1, <2>4, <2>5 DEF IInv, PendingOK
    <2>11. HeldOK(r)' /\ CallOK(r)'
      <3>1. l \in logins' /\ l.key = req'[r].key /\ l.at <= now'
        BY <1>1, <2>2, <2>3, <2>4 DEF IInv, TypeOK
      <3> QED BY <3>1, <2>2, <2>3 DEF HeldOK, CallOK
    <2>12. ASSUME NEW q \in Requests \ {r} PROVE HeldOK(q)' /\ CallOK(q)'
      <3>1. req'[q] = req[q] /\ HeldOK(q) /\ CallOK(q) /\ ~Holds(q, v)
        BY <2>3, <2>5 DEF IInv
      <3>2. ASSUME NEW s \in Requests \ {q}, NEW w, Holds(s, w)'
            PROVE  Holds(s, w)
        BY <2>2, <2>3, <3>2 DEF Holds
      <3>3. CallOK(q)'
        BY <1>1, <2>4, <3>1 DEF CallOK
      <3>4. HeldOK(q)'
        BY <1>1, <2>4, <3>1, <3>2 DEF HeldOK, Holds
      <3> QED BY <3>3, <3>4
    <2> QED BY <2>6, <2>8, <2>9, <2>10, <2>11, <2>12 DEF IInv
  <1> QED BY <1>2, <1>3

\* A token is issued only from "issue", which a login precedes.
LEMMA IssueMove ==
    ASSUME IInv, NEW r \in Requests, IssueJWT(r)
    PROVE  IInv'
  <1>1. UNCHANGED <<now, owners, challenges, issued, logins>>
    BY DEF IssueJWT
  <1>2. PICK x : Quiet(x) /\ req' = [req EXCEPT ![r] = x]
    BY AnswerQuiet DEF IssueJWT, Statuses, IInv
  <1>3. PICK k \in Keys : k = req[r].key
    BY DEF IInv, CallOK, IssueJWT
  <1>4. /\ JWT(k) \in Token /\ JWT(k).owner = k /\ JWT(k).iat = now
        /\ JWT(k).exp = now + AccessTTL
    BY ChallengeAssumption DEF JWT, Token, IInv, TypeOK
  <1>5. PICK l \in logins : l.key = k /\ l.at <= now
    BY <1>3 DEF IInv, CallOK, IssueJWT
  <1>6. tokens' \subseteq tokens \cup {JWT(k)}
    BY <1>3 DEF IssueJWT
  <1>7. tokens' \subseteq Token
    BY <1>4, <1>6 DEF IInv, TypeOK
  <1>8. TokensBacked'
    <2> SUFFICES ASSUME NEW t \in tokens'
                 PROVE  /\ t.exp = t.iat + AccessTTL
                        /\ \E m \in logins : m.key = t.owner /\ m.at <= t.iat
      BY <1>1 DEF TokensBacked
    <2>1. CASE t \in tokens
      BY <2>1 DEF IInv, TokensBacked
    <2>2. CASE t = JWT(k)
      BY <2>2, <1>4, <1>5
    <2> QED BY <1>6, <2>1, <2>2
  <1> QED BY <1>1, <1>2, <1>7, <1>8, QuietMove DEF IInv, TypeOK

LEMMA Inductive == IInv /\ [Next]_vars => IInv'
  <1> SUFFICES ASSUME IInv, [Next]_vars PROVE IInv'
    OBVIOUS
  <1>1. CASE \E r \in Requests : Call(r)
    BY <1>1, CallMove
  <1>2. CASE \E r \in Requests : Step(r)
    BY <1>2, QuietSteps, NewChallengeMove, TakeMove, CheckMove, IssueMove DEF Step
  <1>3. CASE \E r \in Requests : StatementFails(r) \/ Receive(r)
    BY <1>3, QuietSteps
  <1>4. CASE Restart
    <2>1. /\ challenges' = [k \in Keys |-> Null]
          /\ req' = [r \in Requests |-> NoRequest]
          /\ UNCHANGED <<now, owners, issued, logins, tokens>>
      BY <1>4 DEF Restart, Forgotten, history
    <2>2. NoRequest \in Request /\ NoRequest.at = "idle"
      BY DEF NoRequest, Request, Places
    <2>3. TypeOK'
      BY <2>1, <2>2 DEF IInv, TypeOK
    <2> QED BY <2>1, <2>2, <2>3
            DEF IInv, LoginsFresh, TokensBacked, PendingOK, HeldOK, CallOK
  <1>5. CASE Tick
    <2>1. /\ now' = now + 1
          /\ UNCHANGED <<owners, challenges, issued, logins, tokens, req>>
      BY <1>5 DEF Tick, history
    <2>2. TypeOK'
      BY <2>1 DEF IInv, TypeOK
    <2>3. LoginsFresh' /\ TokensBacked'
      BY <2>1 DEF IInv, LoginsFresh, TokensBacked
    <2>4. ASSUME NEW v \in Values, issued[v] # Null, issued[v].at <= now
          PROVE  issued[v].at <= now'
      BY <2>1, <2>4 DEF IInv, TypeOK, Issue
    <2>5. PendingOK'
      <3>1. \A k \in Keys : challenges[k] # Null => challenges[k].value \in Values
        BY DEF IInv, TypeOK, Pending
      <3> QED BY <2>1, <2>4, <3>1 DEF IInv, PendingOK
    <2>6. ASSUME NEW r \in Requests PROVE HeldOK(r)' /\ CallOK(r)'
      <3>1. HeldOK(r)'
        <4>1. req[r].taken # Null => req[r].taken.value \in Values
          BY DEF IInv, TypeOK, Request, Pending
        <4> QED BY <2>1, <2>4, <4>1 DEF IInv, HeldOK, Holds
      <3>2. \A l \in logins : l.at <= now => l.at <= now'
        BY <2>1 DEF IInv, TypeOK, Login
      <3> QED BY <2>1, <3>1, <3>2 DEF IInv, CallOK
    <2> QED BY <2>2, <2>3, <2>5, <2>6 DEF IInv
  <1>6. CASE UNCHANGED vars
    BY <1>6 DEF vars, IInv, TypeOK, LoginsFresh, TokensBacked, PendingOK,
                HeldOK, CallOK, Holds
  <1> QED BY <1>1, <1>2, <1>3, <1>4, <1>5, <1>6 DEF Next

-----------------------------------------------------------------------------
\* The inductive invariant holds in every reachable state.
THEOREM Invariance == Spec => []IInv
  BY Initial, Inductive, PTL DEF Spec

\* Every variable of the login service keeps its type.
THEOREM TypeCorrect == Spec => []TypeOK
  <1>1. IInv => TypeOK
    BY DEF IInv
  <1> QED BY <1>1, Invariance, PTL

\* VerifyChallenge accepts a challenge for its own key and within its TTL only.
THEOREM FreshLogins == Spec => []LoginsFresh
  <1>1. IInv => LoginsFresh
    BY DEF IInv
  <1> QED BY <1>1, Invariance, PTL

\* IssueJWT follows a login of the token's owner.
THEOREM BackedTokens == Spec => []TokensBacked
  <1>1. IInv => TokensBacked
    BY DEF IInv
  <1> QED BY <1>1, Invariance, PTL

\* VerifyChallenge accepts no challenge twice, however requests race and
\* whenever the server restarts.
THEOREM UsedOnce == Spec => OneTimeUse
  <1> DEFINE Once == \A r \in Requests :
                       req[r].at = "check" /\ req'[r].at = "issue" =>
                           \A l \in logins : l.value # req[r].value
  <1>1. ASSUME IInv, [Next]_vars PROVE [Once]_vars
    <2> SUFFICES ASSUME Next, NEW r \in Requests,
                        req[r].at = "check", req'[r].at = "issue"
                 PROVE  \A l \in logins : l.value # req[r].value
      BY <1>1
    <2>1. ASSUME NEW q \in Requests, NEW x, req' = [req EXCEPT ![q] = x],
                 x.at # "issue"
          PROVE  FALSE
      BY <2>1 DEF IInv, TypeOK
    <2>2. ASSUME NEW q \in Requests, NEW x, Quiet(x), req' = [req EXCEPT ![q] = x]
          PROVE  FALSE
      BY <2>1, <2>2 DEF Quiet
    <2>3. CASE \E q \in Requests : Call(q)
      <3>1. ASSUME NEW q \in Requests, NEW x, Arrive(q, x), x.at # "issue"
            PROVE  FALSE
        BY <2>1, <3>1 DEF Arrive
      <3>2. ASSUME NEW q \in Requests, NEW k \in Keys,
                   CreateOwnerCall(q, k) \/ ChallengeCall(q, k)
            PROVE  FALSE
        BY <3>1, <3>2 DEF CreateOwnerCall, ChallengeCall, NoRequest
      <3>3. ASSUME NEW q \in Requests, NEW k \in Keys, NEW v \in Values,
                   NEW signed \in BOOLEAN, VerifyCall(q, k, v, signed)
            PROVE  FALSE
        BY <3>1, <3>3 DEF VerifyCall, NoRequest
      <3> QED BY <2>3, <3>2, <3>3 DEF Call
    <2>4. CASE \E q \in Requests : StatementFails(q) \/ Receive(q)
      <3>1. PICK q \in Requests : StatementFails(q) \/ Receive(q)
        BY <2>4
      <3>2. CASE StatementFails(q)
        BY <2>2, <3>2, <1>1, AnswerQuiet DEF StatementFails, Statuses, IInv
      <3>3. CASE Receive(q)
        BY <2>1, <3>3 DEF Receive, NoRequest
      <3> QED BY <3>1, <3>2, <3>3
    <2>5. CASE \E q \in Requests : Step(q)
      <3>1. PICK q \in Requests : Step(q)
        BY <2>5
      <3>2. q = r
        BY <1>1, <3>1 DEF Step, InsertOwner, ChallengeLookup, NewChallenge,
              VerifyTake, VerifyCheck, IssueJWT, Goto, Answer, IInv, TypeOK
      <3>3. VerifyCheck(r)
        BY <3>1, <3>2 DEF Step, InsertOwner, ChallengeLookup, NewChallenge,
              VerifyTake, IssueJWT
      <3>4. CASE Refusal(req[r]) # Null
        BY <2>2, <3>3, <3>4, <1>1, AnswerQuiet DEF VerifyCheck, Refusal, Statuses, IInv
      <3>5. CASE Refusal(req[r]) = Null
        BY <1>1, <3>3, <3>5, Accepted DEF IInv, HeldOK
      <3> QED BY <3>4, <3>5
    <2>6. CASE Restart \/ Tick
      BY <2>6 DEF Restart, Tick, NoRequest
    <2> QED BY <2>3, <2>4, <2>5, <2>6 DEF Next
  <1> QED BY <1>1, Invariance, PTL DEF Spec, OneTimeUse
==============================================================================
