--------------------------- MODULE DiscoveryProofs ---------------------------
(***************************************************************************)
(* A client that walks through a search misses nothing that stays, and the *)
(* total agrees with the page when nothing changes between them: for any   *)
(* tables, limits, filters and clients.  Both rest on counting: the agents *)
(* of a result have the ranks 0 .. n-1 in ORDER BY created_at DESC, and a  *)
(* rank only grows while nothing leaves the result.                        *)
(***************************************************************************)
EXTENDS Discovery, FiniteSetTheorems, TLAPS

\* The ranks in a result are 0 .. n-1, each taken once.
LEMMA Ranks ==
    ASSUME TypeOK, TimesDiffer, NEW M, M \subseteq Rows(agents)
    PROVE  /\ IsFiniteSet(M) /\ Cardinality(M) \in Nat
           /\ \A a \in M : Cardinality(Newer(M, a)) \in 0 .. (Cardinality(M) - 1)
           /\ \A a, b \in M : Cardinality(Newer(M, a)) = Cardinality(Newer(M, b)) => a = b
           /\ \A k \in 0 .. (Cardinality(M) - 1) :
                 \E a \in M : Cardinality(Newer(M, a)) = k
  <1> DEFINE t(a) == agents[a].created
             R == [a \in M |-> Cardinality(Newer(M, a))]
             I == 0 .. (Cardinality(M) - 1)
  <1>1. Rows(agents) \subseteq AgentIds /\ \A a \in M : t(a) \in Int
    <2>1. Rows(agents) \subseteq AgentIds /\ \A a \in Rows(agents) : agents[a] \in AgentRow
      BY DEF TypeOK, Rows
    <2>2. \A a \in Rows(agents) : agents[a].created \in Times
      BY <2>1 DEF AgentRow
    <2>3. \A a \in Rows(agents) : agents[a].created \in Int
      <3>1. Times \subseteq Int
        BY TablesAssumption
      <3> QED BY <2>2, <3>1
    <2> QED BY <2>1, <2>3
  <1>2. \A a, b \in M : t(a) = t(b) => a = b
    BY DEF TimesDiffer
  <1>3. IsFiniteSet(M) /\ Cardinality(M) \in Nat
    BY <1>1, TablesAssumption, FS_Subset, FS_CardinalityType
  <1>4. \A a \in M : IsFiniteSet(Newer(M, a)) /\ Cardinality(Newer(M, a)) \in Nat
    BY <1>3, FS_Subset, FS_CardinalityType DEF Newer
  <1>5. ASSUME NEW a \in M, NEW b \in M, t(b) > t(a)
        PROVE  Cardinality(Newer(M, b)) < Cardinality(Newer(M, a))
    <2>1. Newer(M, b) \subseteq Newer(M, a) /\ b \in Newer(M, a) /\ b \notin Newer(M, b)
      BY <1>1, <1>5 DEF Newer
    <2>2. /\ Cardinality(Newer(M, b)) <= Cardinality(Newer(M, a))
          /\ Cardinality(Newer(M, a)) = Cardinality(Newer(M, b)) => Newer(M, a) = Newer(M, b)
      BY <2>1, <1>4, FS_Subset
    <2> QED BY <2>1, <2>2, <1>4
  <1>6. \A a, b \in M : R[a] = R[b] => a = b
    BY <1>1, <1>2, <1>4, <1>5
  <1>7. \A a \in M : R[a] \in I
    <2> SUFFICES ASSUME NEW a \in M PROVE R[a] \in I
      OBVIOUS
    <2>1. Newer(M, a) \subseteq M /\ a \notin Newer(M, a)
      BY <1>1 DEF Newer
    <2>2. /\ Cardinality(Newer(M, a)) <= Cardinality(M)
          /\ Cardinality(M) = Cardinality(Newer(M, a)) => M = Newer(M, a)
      BY <2>1, <1>3, FS_Subset
    <2> QED BY <2>1, <2>2, <1>3, <1>4
  <1>8. R \in Injection(M, I)
    BY <1>6, <1>7 DEF Injection, IsInjective
  <1>9. IsFiniteSet(I) /\ Cardinality(I) = Cardinality(M)
    <2>1. /\ IsFiniteSet(I)
          /\ Cardinality(I) = IF 0 > Cardinality(M) - 1 THEN 0 ELSE (Cardinality(M) - 1) - 0 + 1
      BY <1>3, FS_Interval
    <2> QED BY <2>1, <1>3
  <1>10. R \in Surjection(M, I)
    BY <1>8, <1>9, FS_Injection
  <1>11. \A k \in I : \E a \in M : R[a] = k
    BY <1>10 DEF Surjection
  <1> QED BY <1>3, <1>6, <1>7, <1>11

\* A page is as full as the result allows.
LEMMA SliceSize ==
    ASSUME TypeOK, TimesDiffer, NEW M, M \subseteq Rows(agents), NEW o \in Nat, NEW l \in Nat
    PROVE  /\ IsFiniteSet(Slice(M, o, l)) /\ Cardinality(Slice(M, o, l)) \in Nat
           /\ Cardinality(M) - o >= l => Cardinality(Slice(M, o, l)) = l
           /\ Cardinality(M) - o \in 0 .. l
                => Cardinality(Slice(M, o, l)) = Cardinality(M) - o
           /\ Cardinality(M) - o < 0 => Slice(M, o, l) = {}
           /\ Cardinality(Slice(M, o, l)) <= l
  <1> DEFINE n == Cardinality(M)
             S == Slice(M, o, l)
             last == IF n - o >= l THEN o + l - 1 ELSE n - 1
             R == [a \in S |-> Cardinality(Newer(M, a))]
  <1>1. /\ IsFiniteSet(M) /\ n \in Nat
        /\ \A a \in M : Cardinality(Newer(M, a)) \in 0 .. (n - 1)
        /\ \A a, b \in M : Cardinality(Newer(M, a)) = Cardinality(Newer(M, b)) => a = b
        /\ \A k \in 0 .. (n - 1) : \E a \in M : Cardinality(Newer(M, a)) = k
    BY Ranks
  <1>2. S \subseteq M
    BY DEF Slice
  <1>3. IsFiniteSet(S) /\ Cardinality(S) \in Nat
    BY <1>1, <1>2, FS_Subset, FS_CardinalityType
  <1>4. \A a \in S : R[a] \in o .. last
    BY <1>1 DEF Slice
  <1>5. \A a, b \in S : R[a] = R[b] => a = b
    BY <1>1, <1>2
  <1>6. \A k \in o .. last : \E a \in S : R[a] = k
    <2> SUFFICES ASSUME NEW k \in o .. last PROVE \E a \in S : R[a] = k
      OBVIOUS
    <2>1. PICK a \in M : Cardinality(Newer(M, a)) = k
      BY <1>1
    <2>2. a \in S
      BY <2>1, <1>1 DEF Slice
    <2> QED BY <2>1, <2>2
  <1>7. R \in Bijection(S, o .. last)
    BY <1>4, <1>5, <1>6 DEF Bijection, Injection, IsInjective, Surjection
  <1>8. Cardinality(o .. last) = Cardinality(S)
    <2>1. ExistsBijection(S, o .. last)
      BY <1>7 DEF ExistsBijection
    <2> HIDE DEF S, last
    <2> QED BY <1>3, <2>1, FS_Bijection
  <1>9. Cardinality(o .. last) = IF o > last THEN 0 ELSE last - o + 1
    <2>1. last \in Int
      BY <1>1
    <2> HIDE DEF last
    <2> QED BY <2>1, FS_Interval
  <1>10. n - o < 0 => S = {}
    BY <1>1, <1>4
  <1> QED BY <1>1, <1>3, <1>8, <1>9, <1>10

-----------------------------------------------------------------------------
\* What the invariant says about one client.
ClientOK(r, m, w) ==
    /\ HandlerOK(r, m) /\ CountOK(r, m) /\ WalkOK(r, w)
    /\ AnswerOK(r, m) /\ TotalOK(r, m) /\ WalkDone(r, w)

LEMMA Invariant ==
    IInv <=> /\ TypeOK /\ TimesDiffer
             /\ \A q \in Clients : ClientOK(req[q], mark[q], walk[q])
  BY DEF IInv, ClientOK, AnswersCurrent, TotalAgrees, WalkComplete

LEMMA Initial == Init => IInv
  <1> SUFFICES ASSUME Init PROVE IInv
    OBVIOUS
  <1>1. NoRequest \in Request /\ NoMark \in Mark /\ NoWalk \in Walk
    BY DEF NoRequest, NoMark, NoWalk, Request, Mark, Walk, Ops, Places, Statuses,
           Subject, Filter, NoFilter
  <1>2. TypeOK
    BY <1>1 DEF Init, TypeOK
  <1>3. TimesDiffer
    BY DEF Init, TimesDiffer, Rows
  <1>4. ClientOK(NoRequest, NoMark, NoWalk)
    BY DEF ClientOK, HandlerOK, CountOK, WalkOK, AnswerOK, TotalOK, WalkDone, PageRead,
           Answered, NoRequest, NoMark, NoWalk
  <1> QED BY <1>2, <1>3, <1>4, Invariant DEF Init

\* A step that changes the records of one client and no table.
LEMMA SameTables ==
    ASSUME UNCHANGED tables, NEW r, NEW m, NEW w, ClientOK(r, m, w)
    PROVE  ClientOK(r, m, w)'
  <1>1. HandlerOK(r, m)'
    <2>1. Visible(r)' = Visible(r)
      BY DEF tables, Visible, Rows
    <2> QED BY <2>1 DEF ClientOK, HandlerOK, tables, Rows
  <1>2. CountOK(r, m)'
    BY DEF ClientOK, CountOK, tables, Rows, Matching, Matches, CapabilitiesOf
  <1>3. WalkOK(r, w)'
    BY DEF ClientOK, WalkOK, tables, Rows, Matching, Matches, CapabilitiesOf, Rank, Newer,
           PageRead, Answered
  <1>4. AnswerOK(r, m)' /\ TotalOK(r, m)' /\ WalkDone(r, w)'
    BY DEF ClientOK, AnswerOK, TotalOK, WalkDone, Rest, tables, PageRead, Answered
  <1> QED BY <1>1, <1>2, <1>3, <1>4 DEF ClientOK

LEMMA ClientStep ==
    ASSUME IInv, NEW q \in Clients, NEW r \in Request, NEW m \in Mark, NEW w \in Walk,
           req' = [req EXCEPT ![q] = r], mark' = [mark EXCEPT ![q] = m],
           walk' = [walk EXCEPT ![q] = w], UNCHANGED tables, ClientOK(r, m, w)
    PROVE  IInv'
  <1>1. TypeOK' /\ TimesDiffer'
    BY DEF IInv, TypeOK, TimesDiffer, tables, Rows
  <1>2. ASSUME NEW p \in Clients PROVE ClientOK(req[p], mark[p], walk[p])'
    <2>1. PICK rr, mm, ww : /\ req'[p] = rr /\ mark'[p] = mm /\ walk'[p] = ww
                            /\ ClientOK(rr, mm, ww)
      <3>1. CASE p = q
        BY <3>1 DEF IInv, TypeOK
      <3>2. CASE p # q
        BY <3>2, Invariant DEF TypeOK
      <3> QED BY <3>1, <3>2
    <2>2. ClientOK(rr, mm, ww)'
      BY <2>1, SameTables
    <2> QED BY <2>1, <2>2 DEF ClientOK, HandlerOK, CountOK, WalkOK, AnswerOK, TotalOK,
                              WalkDone, PageRead, Answered, Rest, Visible
  <1> QED BY <1>1, <1>2 DEF IInv, ClientOK, AnswersCurrent, TotalAgrees, WalkComplete

-----------------------------------------------------------------------------
\* Requests begin.

\* What a walk promises between two pages.
WalkFits(w) ==
    w.on /\ ~w.left => /\ w.unseen \subseteq Matching(w.filter)
                      /\ \A a \in w.unseen : Rank(w.filter, a) >= w.next

\* A request that has read nothing yet.
Fresh(r) ==
    /\ r \in Request /\ r.page = {} /\ r.status # "ok" /\ r.status # "not_found"
    /\ \/ r.op = "search" /\ r.at = "count"
       \/ r.op \in Lookups /\ r.at = "find"
       \/ r.op \notin Lookups \cup {"search"} /\ r.at \in {"price", "insert", "done"}

LEMMA NoRequestType == NoRequest \in Request
  BY DEF NoRequest, Request, Ops, Places, Statuses, Subject, Filter, NoFilter

LEMMA StartStep ==
    ASSUME IInv, NEW q \in Clients, NEW r, Fresh(r), Start(q, r), NEW w \in Walk,
           walk' = [walk EXCEPT ![q] = w], WalkFits(w),
           r.op = "search" => /\ w.on /\ r.filter = w.filter
                              /\ AppliedOffset(r.offset) = w.next
    PROVE  IInv'
  <1> DEFINE m == [NoMark EXCEPT !.due = Due(r)]
  <1>1. m \in Mark /\ mark' = [mark EXCEPT ![q] = m]
    <2>1. Rows(agents) \subseteq AgentIds
      BY DEF IInv, TypeOK, Rows
    <2>2. Due(r) \in SUBSET AgentIds
      BY <2>1 DEF Due, Visible
    <2>3. m \in Mark
      BY <2>2 DEF NoMark, Mark
    <2> QED BY <2>3 DEF Start
  <1>2. req' = [req EXCEPT ![q] = r] /\ r \in Request /\ UNCHANGED tables
    BY DEF Start, Fresh
  <1>3. m.due = Due(r) /\ m.kept = {}
    BY DEF NoMark
  <1> HIDE DEF m
  <1>4. HandlerOK(r, m)
    <2>1. \/ r.op = "search" /\ r.at = "count"
          \/ r.op \in Lookups /\ r.at = "find"
          \/ r.op \notin Lookups \cup {"search"} /\ r.at \in {"price", "insert", "done"}
      BY DEF Fresh
    <2>2. r.op \in Lookups => Due(r) = Visible(r)
      BY DEF Due
    <2> QED BY <1>3, <2>1, <2>2 DEF HandlerOK, Fresh
  <1>5. CountOK(r, m) /\ TotalOK(r, m) /\ WalkDone(r, w) /\ AnswerOK(r, m)
    BY DEF CountOK, TotalOK, WalkDone, AnswerOK, PageRead, Answered, Fresh, Lookups
  <1>6. WalkOK(r, w)
    <2>1. ~PageRead(r)
      BY DEF PageRead, Answered, Fresh, Lookups
    <2> QED BY <2>1 DEF WalkOK, WalkFits
  <1> QED BY <1>1, <1>2, <1>4, <1>5, <1>6, ClientStep DEF ClientOK

LEMMA SearchRequestOK ==
    ASSUME NEW f \in Filter, NEW l \in Int, NEW o \in Int
    PROVE  Fresh(SearchRequest(f, l, o))
  <1>1. SearchRequest(f, l, o) \in Request
    BY NoRequestType DEF SearchRequest, Request, Ops, Places
  <1> QED BY <1>1 DEF Fresh, SearchRequest, NoRequest

LEMMA MatchingType ==
    ASSUME TypeOK, NEW f
    PROVE  /\ Matching(f) \subseteq Rows(agents) /\ Rows(agents) \subseteq AgentIds
           /\ Rows(capabilities) \subseteq CapabilityIds
           /\ IsFiniteSet(Matching(f)) /\ Cardinality(Matching(f)) \in Nat
  <1>1. Matching(f) \subseteq Rows(agents) /\ Rows(agents) \subseteq AgentIds
    BY DEF Matching, Rows, TypeOK
  <1>2. Rows(capabilities) \subseteq CapabilityIds
    BY DEF Rows, TypeOK
  <1> QED BY <1>1, <1>2, TablesAssumption, FS_Subset, FS_CardinalityType

LEMMA CallSearchStep == ASSUME IInv, NEW q \in Clients, CallSearch(q) PROVE IInv'
  <1>1. PICK f \in Filters, l \in Limits, o \in FirstOffsets :
          /\ Start(q, SearchRequest(f, l, o))
          /\ walk' = [walk EXCEPT ![q] = [NoWalk EXCEPT !.on = TRUE, !.filter = f,
                                                       !.unseen = Matching(f)]]
    BY DEF CallSearch
  <1> DEFINE r == SearchRequest(f, l, o)
             w == [NoWalk EXCEPT !.on = TRUE, !.filter = f, !.unseen = Matching(f)]
  <1>2. f \in Filter /\ l \in Int /\ o \in Int /\ o <= 0
    BY FilterAssumption, LimitAssumption
  <1>4. Fresh(r)
    BY <1>2, SearchRequestOK
  <1>5. w \in Walk /\ walk' = [walk EXCEPT ![q] = w]
    <2>1. Matching(f) \subseteq AgentIds
      BY MatchingType DEF IInv
    <2>2. w \in Walk
      BY <1>2, <2>1 DEF Walk, NoWalk
    <2> QED BY <1>1, <2>2
  <1>6. WalkFits(w)
    <2>1. \A a \in Matching(f) : Rank(f, a) \in Nat
      <3> SUFFICES ASSUME NEW a \in Matching(f) PROVE Rank(f, a) \in Nat
        OBVIOUS
      <3>1. IsFiniteSet(Newer(Matching(f), a))
        BY MatchingType, FS_Subset DEF IInv, Newer
      <3> QED BY <3>1, FS_CardinalityType DEF Rank
    <2>2. w.filter = f /\ w.next = 0 /\ w.unseen = Matching(f)
      BY DEF NoWalk
    <2> HIDE DEF w
    <2> QED BY <2>1, <2>2 DEF WalkFits
  <1>7. r.op = "search" => w.on /\ r.filter = w.filter /\ AppliedOffset(r.offset) = w.next
    BY <1>2 DEF SearchRequest, NoRequest, NoWalk, AppliedOffset
  <1> HIDE DEF r, w
  <1> QED BY <1>1, <1>4, <1>5, <1>6, <1>7, StartStep DEF r

LEMMA WalkInvariant ==
    ASSUME IInv, NEW q \in Clients
    PROVE  /\ req[q] \in Request /\ mark[q] \in Mark /\ walk[q] \in Walk
           /\ WalkFits(walk[q]) /\ ClientOK(req[q], mark[q], walk[q])
           /\ req = [req EXCEPT ![q] = req[q]] /\ mark = [mark EXCEPT ![q] = mark[q]]
           /\ walk = [walk EXCEPT ![q] = walk[q]]
  <1>1. ClientOK(req[q], mark[q], walk[q]) /\ TypeOK
    BY Invariant
  <1> QED BY <1>1 DEF TypeOK, ClientOK, WalkOK, WalkFits

LEMMA CallNextPageStep == ASSUME IInv, NEW q \in Clients, CallNextPage(q) PROVE IInv'
  <1>1. PICK l \in Limits :
          Start(q, SearchRequest(walk[q].filter, l, walk[q].next)) /\ UNCHANGED walk
    BY DEF CallNextPage
  <1> DEFINE r == SearchRequest(walk[q].filter, l, walk[q].next)
  <1>2. walk[q] \in Walk /\ walk[q].on /\ WalkFits(walk[q])
        /\ walk' = [walk EXCEPT ![q] = walk[q]]
    BY <1>1, WalkInvariant DEF CallNextPage
  <1>3. walk[q].filter \in Filter /\ walk[q].next \in Nat /\ l \in Int
    BY <1>2, LimitAssumption DEF Walk
  <1>5. Fresh(r)
    BY <1>3, SearchRequestOK
  <1>6. r.filter = walk[q].filter /\ AppliedOffset(r.offset) = walk[q].next
    BY <1>3 DEF SearchRequest, NoRequest, AppliedOffset
  <1> HIDE DEF r
  <1> QED BY <1>1, <1>2, <1>5, <1>6, StartStep DEF r

\* A request that is no search, from a client that walks through none.
LEMMA OtherStep ==
    ASSUME IInv, NEW q \in Clients, NEW r, Fresh(r), Start(q, r), r.op # "search",
           UNCHANGED walk
    PROVE  IInv'
  BY WalkInvariant, StartStep

LEMMA CallLookupStep == ASSUME IInv, NEW q \in Clients, CallLookup(q) PROVE IInv'
  <1>1. PICK op \in Lookups, id \in PlatformIds \cup AgentIds :
          Start(q, [NoRequest EXCEPT !.op = op, !.at = "find", !.id = id])
    BY DEF CallLookup
  <1> DEFINE r == [NoRequest EXCEPT !.op = op, !.at = "find", !.id = id]
  <1>2. r \in Request
    BY NoRequestType DEF Request, Ops, Places, Subject, Lookups
  <1>3. Fresh(r) /\ r.op # "search"
    BY <1>2 DEF Fresh, NoRequest, Lookups
  <1> HIDE DEF r
  <1> QED BY <1>1, <1>3, OtherStep DEF CallLookup, r

LEMMA CallToolStep == ASSUME IInv, NEW q \in Clients, CallTool(q) PROVE IInv'
  <1>1. CASE \E c \in CapabilityIds :
               Start(q, [NoRequest EXCEPT !.op = "price", !.at = "price", !.id = c])
    <2>1. PICK c \in CapabilityIds :
               Start(q, [NoRequest EXCEPT !.op = "price", !.at = "price", !.id = c])
      BY <1>1
    <2> DEFINE r == [NoRequest EXCEPT !.op = "price", !.at = "price", !.id = c]
    <2>2. r \in Request
      BY NoRequestType DEF Request, Ops, Places, Subject
    <2>3. Fresh(r) /\ r.op # "search"
      BY <2>2 DEF Fresh, NoRequest, Lookups
    <2> HIDE DEF r
    <2> QED BY <2>1, <2>3, OtherStep DEF CallTool, r
  <1>2. CASE Start(q, [NoRequest EXCEPT !.op = "register", !.at = "insert"])
    <2> DEFINE r == [NoRequest EXCEPT !.op = "register", !.at = "insert"]
    <2>2. r \in Request
      BY NoRequestType DEF Request, Ops, Places
    <2>3. Fresh(r) /\ r.op # "search"
      BY <2>2 DEF Fresh, NoRequest, Lookups
    <2> HIDE DEF r
    <2> QED BY <1>2, <2>3, OtherStep DEF CallTool, r
  <1>3. CASE Start(q, [NoRequest EXCEPT !.op = "notification", !.at = "done",
                                        !.status = "accepted"])
    <2> DEFINE r == [NoRequest EXCEPT !.op = "notification", !.at = "done",
                                      !.status = "accepted"]
    <2>2. r \in Request
      BY NoRequestType DEF Request, Ops, Places, Statuses
    <2>3. Fresh(r) /\ r.op # "search"
      BY <2>2 DEF Fresh, NoRequest, Lookups
    <2> HIDE DEF r
    <2> QED BY <1>3, <2>3, OtherStep DEF CallTool, r
  <1> QED BY <1>1, <1>2, <1>3 DEF CallTool

-----------------------------------------------------------------------------
\* Handlers read.

LEMMA ReadStep ==
    ASSUME IInv, NEW q \in Clients, NEW r \in Request, NEW m \in Mark, Reads(q, r),
           mark' = [mark EXCEPT ![q] = m], ClientOK(r, m, walk[q])
    PROVE  IInv'
  BY WalkInvariant, ClientStep DEF Reads

\* What the request of a client says before a step.
LEMMA Before ==
    ASSUME IInv, NEW q \in Clients
    PROVE  /\ req[q] \in Request /\ mark[q] \in Mark /\ TypeOK
           /\ HandlerOK(req[q], mark[q]) /\ CountOK(req[q], mark[q])
           /\ WalkOK(req[q], walk[q]) /\ AnswerOK(req[q], mark[q])
           /\ TotalOK(req[q], mark[q]) /\ WalkDone(req[q], walk[q])
  BY WalkInvariant, Invariant DEF ClientOK

LEMMA CountAgentsStep == ASSUME IInv, NEW q \in Clients, CountAgents(q) PROVE IInv'
  <1> DEFINE n == Cardinality(Matching(req[q].filter))
             r == [req[q] EXCEPT !.at = "page", !.total = n]
             m == mark[q]
  <1>1. n \in Nat
    BY Before, MatchingType
  <1>2. /\ r \in Request /\ r.at = "page" /\ r.op = req[q].op /\ r.filter = req[q].filter
        /\ r.offset = req[q].offset /\ r.page = req[q].page /\ r.total = n
    BY <1>1, Before DEF Request, Places
  <1>3. Reads(q, r) /\ mark' = [mark EXCEPT ![q] = m]
    BY WalkInvariant DEF CountAgents, Read
  <1>4. req[q].at = "count" /\ req[q].op = "search" /\ r.page = {}
    BY <1>2, Before DEF CountAgents, HandlerOK
  <1> HIDE DEF r
  <1>5. HandlerOK(r, m) /\ CountOK(r, m)
    BY <1>2, <1>4, Before DEF HandlerOK, CountOK
  <1>6. ~PageRead(r) /\ r.at # "done"
    BY <1>2 DEF PageRead, Answered
  <1>7. WalkOK(r, walk[q])
    BY <1>2, <1>4, <1>6, Before DEF WalkOK
  <1>8. TotalOK(r, m) /\ AnswerOK(r, m) /\ WalkDone(r, walk[q])
    BY <1>6 DEF TotalOK, AnswerOK, WalkDone, Answered
  <1> QED BY <1>2, <1>3, <1>5, <1>7, <1>8, ReadStep, Before DEF ClientOK

\* A statement fails: the answer is an error.
LEMMA FailsStep ==
    ASSUME IInv, NEW q \in Clients, NEW e \in BOOLEAN, Fails(q, e), req[q].op = "search" \/ e
    PROVE  IInv'
  <1> DEFINE s == IF req[q].op \in {"agent", "get", "price"} THEN "not_found" ELSE "failed"
             r == [req[q] EXCEPT !.at = "done", !.error = e, !.status = s]
             m == mark[q]
  <1>1. /\ r \in Request /\ r.at = "done" /\ r.op = req[q].op /\ r.filter = req[q].filter
        /\ r.offset = req[q].offset /\ r.status = s /\ r.error = e
    BY Before DEF Request, Places, Statuses
  <1>2. Reads(q, r) /\ mark' = [mark EXCEPT ![q] = m]
    BY WalkInvariant DEF Fails, Read
  <1>3. s # "ok"
    OBVIOUS
  <1>4. r.error \/ r.status # "not_found"
    BY <1>1
  <1> HIDE DEF r, s
  <1>5. HandlerOK(r, m) /\ CountOK(r, m)
    BY <1>1, Before DEF HandlerOK, CountOK
  <1>6. ~PageRead(r) /\ WalkDone(r, walk[q])
    BY <1>1, <1>3 DEF PageRead, Answered, WalkDone
  <1>7. WalkOK(r, walk[q]) /\ TotalOK(r, m)
    BY <1>1, <1>6, Before DEF WalkOK, TotalOK
  <1>8. AnswerOK(r, m)
    BY <1>1, <1>3, <1>4 DEF AnswerOK, Answered, Lookups
  <1> QED BY <1>1, <1>2, <1>5, <1>6, <1>7, <1>8, ReadStep, Before DEF ClientOK

\* The limit and the offset that a statement gets.
LEMMA Applied ==
    ASSUME NEW l \in Int, NEW o \in Int
    PROVE  AppliedLimit(l) \in Nat \ {0} /\ AppliedOffset(o) \in Nat
  BY LimitAssumption DEF AppliedLimit, AppliedOffset

LEMMA PageAgentsStep == ASSUME IInv, NEW q \in Clients, PageAgents(q) PROVE IInv'
  <1> DEFINE f == req[q].filter
             M == Matching(f)
             o == AppliedOffset(req[q].offset)
             l == AppliedLimit(req[q].limit)
             P == Slice(M, o, l)
             r == LookedUp(req[q], P)
             m == [mark[q] EXCEPT !.kept = Rows(capabilities)]
             w == walk[q]
  <1>1. /\ req[q].at = "page" /\ req[q].op = "search" /\ req[q].page = {}
        /\ w.on /\ w.filter = f /\ w.next = o /\ w \in Walk
    BY Before, WalkInvariant DEF PageAgents, HandlerOK, WalkOK
  <1>2. l \in Nat \ {0} /\ o \in Nat
    BY Before, Applied DEF Request
  <1>3. TypeOK /\ TimesDiffer
    BY DEF IInv
  <1>4. /\ M \subseteq Rows(agents) /\ Rows(agents) \subseteq AgentIds
        /\ Rows(capabilities) \subseteq CapabilityIds
    BY <1>3, MatchingType
  <1>5. P \subseteq M
    BY DEF Slice
  <1>6. /\ r \in Request /\ r.at \in {"capabilities", "done"} /\ r.op = "search"
        /\ r.filter = f /\ r.offset = req[q].offset /\ r.limit = req[q].limit
        /\ r.total = req[q].total /\ r.page = P /\ r.status \in Statuses
        /\ r.at = "capabilities" => P # {}
        /\ r.at = "done" => P = {} /\ r.status = "ok"
    <2> HIDE DEF P, f, o, l
    <2>1. P \in SUBSET AgentIds
      BY <1>4, <1>5
    <2> QED BY <1>1, <2>1, Before DEF LookedUp, Request, Places, Statuses, f
  <1>7. /\ m \in Mark /\ m.kept = Rows(capabilities) /\ m.moved = mark[q].moved
        /\ m.due = mark[q].due
    BY <1>4, Before DEF Mark
  <1>8. Reads(q, r) /\ mark' = [mark EXCEPT ![q] = m]
    BY Before DEF PageAgents, ReadAgents, TypeOK
  <1> HIDE DEF r, m, P, f, l, o, w
  <1>9. HandlerOK(r, m) /\ CountOK(r, m)
    BY <1>6, <1>7 DEF HandlerOK, CountOK, Lookups
  <1>10. /\ IsFiniteSet(P) /\ Cardinality(P) \in Nat /\ Cardinality(P) <= l
         /\ Cardinality(M) - o >= l => Cardinality(P) = l
         /\ Cardinality(M) - o \in 0 .. l => Cardinality(P) = Cardinality(M) - o
         /\ Cardinality(M) - o < 0 => P = {}
    BY <1>2, <1>3, <1>4, SliceSize DEF P
  <1>11. TotalOK(r, m)
    <2>1. ~m.moved => r.total = Cardinality(M)
      BY <1>1, <1>6, <1>7, Before DEF CountOK, f
    <2> QED BY <1>6, <1>10, <2>1 DEF TotalOK, Rest, l, o
  <1>12. \A a \in M : Rank(f, a) \in 0 .. (Cardinality(M) - 1)
    BY <1>3, <1>4, Ranks DEF Rank
  <1>13. ASSUME ~w.left
         PROVE  /\ w.unseen \subseteq M /\ \A a \in w.unseen : Rank(f, a) >= o
                /\ \A a \in w.unseen \ P : Rank(f, a) >= o + Cardinality(P)
                /\ P = {} => w.unseen = {}
    <2>1. w.unseen \subseteq M /\ \A a \in w.unseen : Rank(f, a) >= o
      BY <1>1, <1>13, Before DEF WalkOK, w
    <2>2. ASSUME NEW a \in w.unseen, a \notin P PROVE Rank(f, a) >= o + l
      <3>1. Rank(f, a) \notin o .. (o + l - 1)
        BY <2>1, <2>2 DEF P, Slice, Rank
      <3> QED BY <1>2, <1>12, <2>1, <3>1
    <2>3. \A a \in w.unseen \ P : Rank(f, a) >= o + Cardinality(P)
      <3> SUFFICES ASSUME NEW a \in w.unseen \ P PROVE Rank(f, a) >= o + Cardinality(P)
        OBVIOUS
      <3>1. Rank(f, a) \in Nat /\ Rank(f, a) >= o + l
        BY <1>12, <2>1, <2>2
      <3> QED BY <1>2, <1>10, <3>1
    <2>4. ASSUME P = {} PROVE w.unseen = {}
      <3>1. Cardinality(P) = 0
        BY <2>4, FS_EmptySet
      <3> SUFFICES ASSUME NEW a \in w.unseen PROVE FALSE
        OBVIOUS
      <3>2. Rank(f, a) \in 0 .. (Cardinality(M) - 1) /\ Rank(f, a) >= o
        BY <1>12, <2>1
      <3>3. Cardinality(M) \in Nat
        BY <1>3, MatchingType
      <3> QED BY <1>2, <1>10, <3>1, <3>2, <3>3
    <2> QED BY <2>1, <2>3, <2>4
  <1>14. WalkOK(r, w) /\ WalkDone(r, w)
    BY <1>1, <1>6, <1>13 DEF WalkOK, WalkDone, o
  <1>15. AnswerOK(r, m)
    <2>1. ASSUME Answered(r, {"search"} \cup Lookups, {"ok"})
          PROVE  {c \in m.kept : capabilities[c] \in r.page} = {}
      BY <1>6, <2>1 DEF Answered
    <2> QED BY <1>6, <2>1 DEF AnswerOK, Answered, Lookups
  <1> QED BY <1>6, <1>7, <1>8, <1>9, <1>11, <1>14, <1>15, ReadStep DEF ClientOK, w

LEMMA FindAgentsStep == ASSUME IInv, NEW q \in Clients, FindAgents(q) PROVE IInv'
  <1> DEFINE P == Found(req[q])
             r == LookedUp(req[q], P)
             m == [mark[q] EXCEPT !.kept = Rows(capabilities)]
  <1>1. /\ req[q].at = "find" /\ req[q].op \in Lookups /\ req[q].page = {}
        /\ mark[q].due \subseteq Visible(req[q])
    BY Before DEF FindAgents, HandlerOK
  <1>2. Rows(agents) \subseteq AgentIds /\ Rows(capabilities) \subseteq CapabilityIds
    BY MatchingType DEF IInv
  <1>3. Visible(req[q]) \subseteq P /\ P \subseteq Rows(agents)
    <2>1. CASE req[q].op = "agent"
      BY <2>1 DEF Visible, Found
    <2>2. CASE req[q].op = "get"
      BY <2>2 DEF Visible, Found
    <2>3. CASE req[q].op = "list"
      BY <2>3 DEF Visible, Found
    <2> QED BY <1>1, <2>1, <2>2, <2>3 DEF Lookups
  <1>4. /\ r \in Request /\ r.at \in {"capabilities", "done"} /\ r.op = req[q].op
        /\ r.page = P /\ r.status \in Statuses
        /\ r.at = "capabilities" => P # {}
        /\ r.at = "done" => P = {}
    <2> HIDE DEF P
    <2>1. P \in SUBSET AgentIds
      BY <1>2, <1>3
    <2> QED BY <1>1, <2>1, Before DEF LookedUp, Request, Places, Statuses
  <1>5. m \in Mark /\ m.kept = Rows(capabilities) /\ m.due = mark[q].due
    BY <1>2, Before DEF Mark
  <1>6. Reads(q, r) /\ mark' = [mark EXCEPT ![q] = m]
    BY Before DEF FindAgents, ReadAgents, TypeOK
  <1> HIDE DEF r, m, P
  <1>7. HandlerOK(r, m) /\ CountOK(r, m)
    BY <1>1, <1>3, <1>4, <1>5 DEF HandlerOK, CountOK
  <1>8. r.op # "search"
    BY <1>1, <1>4 DEF Lookups
  <1>9. TotalOK(r, m) /\ WalkDone(r, walk[q]) /\ ~PageRead(r)
    BY <1>8 DEF TotalOK, WalkDone, PageRead, Answered
  <1>10. WalkOK(r, walk[q])
    BY <1>8, <1>9, Before DEF WalkOK
  <1>11. AnswerOK(r, m)
    BY <1>1, <1>3, <1>4, <1>5 DEF AnswerOK, Answered
  <1> QED BY <1>4, <1>5, <1>6, <1>7, <1>9, <1>10, <1>11, ReadStep DEF ClientOK

LEMMA LoadCapabilitiesStep == ASSUME IInv, NEW q \in Clients, LoadCapabilities(q) PROVE IInv'
  <1> DEFINE C == CapabilitiesOf(req[q].page)
             r == [req[q] EXCEPT !.at = "done", !.status = "ok", !.shown = C]
             m == mark[q]
  <1>1. /\ req[q].at = "capabilities" /\ req[q].op \in Lookups \cup {"search"}
        /\ req[q].page # {}
        /\ req[q].op \in Lookups => m.due \subseteq req[q].page
    BY Before DEF LoadCapabilities, HandlerOK
  <1>2. m.kept \subseteq Rows(capabilities) /\ Rows(capabilities) \subseteq CapabilityIds
    BY Before, MatchingType DEF HandlerOK
  <1>3. C \subseteq CapabilityIds
    BY <1>2 DEF CapabilitiesOf
  <1>4. /\ r \in Request /\ r.at = "done" /\ r.op = req[q].op /\ r.filter = req[q].filter
        /\ r.offset = req[q].offset /\ r.limit = req[q].limit /\ r.total = req[q].total
        /\ r.page = req[q].page /\ r.status = "ok" /\ r.shown = C
    BY <1>3, Before DEF Request, Places, Statuses
  <1>5. Reads(q, r) /\ mark' = [mark EXCEPT ![q] = m]
    BY WalkInvariant DEF LoadCapabilities, Read
  <1>6. {c \in m.kept : capabilities[c] \in req[q].page} \subseteq C
    BY <1>2 DEF CapabilitiesOf
  <1> HIDE DEF r, C
  <1>7. HandlerOK(r, m) /\ CountOK(r, m)
    BY <1>2, <1>4 DEF HandlerOK, CountOK
  <1>8. PageRead(r) <=> PageRead(req[q])
    BY <1>1, <1>4 DEF PageRead, Answered
  <1>9. WalkOK(r, walk[q])
    BY <1>4, <1>8, Before DEF WalkOK
  <1>10. TotalOK(r, m)
    BY <1>4, <1>8, Before DEF TotalOK, Rest
  <1>11. WalkDone(r, walk[q])
    BY <1>1, <1>4 DEF WalkDone
  <1>12. AnswerOK(r, m)
    BY <1>1, <1>4, <1>6 DEF AnswerOK, Answered
  <1> QED BY <1>4, <1>5, <1>7, <1>9, <1>10, <1>11, <1>12, ReadStep, Before DEF ClientOK

LEMMA CheckPriceStep == ASSUME IInv, NEW q \in Clients, CheckPrice(q) PROVE IInv'
  <1> DEFINE s == IF req[q].id \in Rows(capabilities) THEN "ok" ELSE "not_found"
             r == [req[q] EXCEPT !.at = "done", !.status = s]
             m == mark[q]
  <1>1. req[q].at = "price" /\ req[q].op \notin Lookups \cup {"search"}
    BY Before DEF CheckPrice, HandlerOK
  <1>2. r \in Request /\ r.at = "done" /\ r.op = req[q].op
    BY Before DEF Request, Places, Statuses
  <1>3. Reads(q, r) /\ mark' = [mark EXCEPT ![q] = m]
    BY WalkInvariant DEF CheckPrice, Read
  <1> HIDE DEF r, s
  <1>4. HandlerOK(r, m) /\ CountOK(r, m)
    BY <1>2, Before DEF HandlerOK, CountOK
  <1>5. ~PageRead(r) /\ AnswerOK(r, m) /\ TotalOK(r, m) /\ WalkDone(r, walk[q])
    BY <1>1, <1>2 DEF PageRead, Answered, AnswerOK, TotalOK, WalkDone
  <1>6. WalkOK(r, walk[q])
    BY <1>1, <1>2, <1>5, Before DEF WalkOK
  <1> QED BY <1>2, <1>3, <1>4, <1>5, <1>6, ReadStep, Before DEF ClientOK

LEMMA ReceiveStep == ASSUME IInv, NEW q \in Clients, Receive(q) PROVE IInv'
  <1> DEFINE n == AppliedOffset(req[q].offset) + Cardinality(req[q].page)
             next == [walk[q] EXCEPT !.next = n, !.unseen = walk[q].unseen \ req[q].page]
             page == req[q].op = "search" /\ req[q].status = "ok"
             w == IF page THEN IF req[q].page = {} THEN NoWalk ELSE next ELSE walk[q]
  <1>1. walk' = [walk EXCEPT ![q] = w]
    <2>1. CASE page
      <3>1. walk' = [walk EXCEPT ![q] =
                      IF req[q].page = {} THEN NoWalk
                      ELSE [walk[q] EXCEPT !.next = n,
                                           !.unseen = walk[q].unseen \ req[q].page]]
        BY <2>1 DEF Receive
      <3> QED BY <2>1, <3>1
    <2>2. CASE ~page
      BY <2>2, WalkInvariant DEF Receive
    <2> QED BY <2>1, <2>2
  <1>2. NoMark \in Mark /\ NoWalk \in Walk
    BY DEF NoMark, NoWalk, Mark, Walk, Filter, NoFilter
  <1>3. ASSUME page, req[q].page # {} PROVE w \in Walk /\ WalkFits(w)
    <2>1. PageRead(req[q]) /\ walk[q].on
          /\ AppliedOffset(req[q].offset) = walk[q].next
      BY <1>3, Before DEF Receive, PageRead, Answered, WalkOK
    <2>2. walk[q].next \in Nat /\ walk[q] \in Walk
      BY WalkInvariant DEF Walk
    <2>3. IsFiniteSet(req[q].page) /\ Cardinality(req[q].page) \in Nat
      BY Before, TablesAssumption, FS_Subset, FS_CardinalityType DEF Request
    <2>4. n \in Nat
      BY <2>1, <2>2, <2>3
    <2>5. /\ next \in Walk /\ next.next = n /\ next.unseen = walk[q].unseen \ req[q].page
          /\ next.on = walk[q].on /\ next.filter = walk[q].filter
          /\ next.left = walk[q].left
      <3> HIDE DEF n
      <3> QED BY <2>2, <2>4 DEF Walk
    <2>6. WalkFits(next)
      <3>1. walk[q].on /\ ~walk[q].left =>
              /\ walk[q].unseen \subseteq Matching(walk[q].filter)
              /\ \A a \in walk[q].unseen \ req[q].page :
                    Rank(walk[q].filter, a) >= walk[q].next + Cardinality(req[q].page)
        BY <2>1, Before DEF WalkOK
      <3>2. n = walk[q].next + Cardinality(req[q].page)
        BY <2>1
      <3> HIDE DEF next, n
      <3> QED BY <2>5, <3>1, <3>2 DEF WalkFits
    <2>7. w = next
      BY <1>3
    <2> HIDE DEF next, w
    <2> QED BY <2>5, <2>6, <2>7
  <1>4. ASSUME page, req[q].page = {} PROVE w \in Walk /\ WalkFits(w)
    BY <1>2, <1>4 DEF WalkFits, NoWalk
  <1>5. ASSUME ~page PROVE w \in Walk /\ WalkFits(w)
    BY <1>5, WalkInvariant
  <1>6. w \in Walk /\ WalkFits(w)
    <2> HIDE DEF page, w
    <2> QED BY <1>3, <1>4, <1>5
  <1> HIDE DEF w
  <1>7. ClientOK(NoRequest, NoMark, w)
    <2>1. HandlerOK(NoRequest, NoMark) /\ CountOK(NoRequest, NoMark)
      BY DEF HandlerOK, CountOK, NoRequest, NoMark
    <2>2. AnswerOK(NoRequest, NoMark) /\ TotalOK(NoRequest, NoMark) /\ WalkDone(NoRequest, w)
      BY DEF AnswerOK, TotalOK, WalkDone, PageRead, Answered, NoRequest
    <2>3. WalkOK(NoRequest, w)
      BY <1>6 DEF WalkOK, WalkFits, PageRead, Answered, NoRequest
    <2> QED BY <2>1, <2>2, <2>3 DEF ClientOK
  <1>8. req' = [req EXCEPT ![q] = NoRequest] /\ mark' = [mark EXCEPT ![q] = NoMark]
        /\ UNCHANGED tables
    BY DEF Receive
  <1> QED BY <1>1, <1>2, <1>6, <1>7, <1>8, ClientStep, NoRequestType

-----------------------------------------------------------------------------
\* Other requests commit.

\* Rows come and go, and what the orders and the cascades look at stays.
TablesStep ==
    /\ platforms' \in [PlatformIds -> BOOLEAN \cup {Null}]
    /\ agents' \in [AgentIds -> AgentRow \cup {Null}]
    /\ capabilities' \in [CapabilityIds -> AgentIds \cup {Null}]
    /\ \A a \in Rows(agents) :
          a \in Rows(agents)' => agents'[a].created = agents[a].created
    /\ \A c \in Rows(capabilities) :
          c \in Rows(capabilities)' => capabilities'[c] = capabilities[c]
    /\ TimesDiffer'

LEMMA SameAgents ==
    ASSUME IInv, UNCHANGED agents
    PROVE  /\ agents' \in [AgentIds -> AgentRow \cup {Null}] /\ TimesDiffer'
           /\ \A a \in Rows(agents) :
                 a \in Rows(agents)' => agents'[a].created = agents[a].created
  BY DEF IInv, TypeOK, TimesDiffer, Rows

LEMMA SameCapabilities ==
    ASSUME IInv, UNCHANGED capabilities
    PROVE  /\ capabilities' \in [CapabilityIds -> AgentIds \cup {Null}]
           /\ \A c \in Rows(capabilities) :
                 c \in Rows(capabilities)' => capabilities'[c] = capabilities[c]
  BY DEF IInv, TypeOK, Rows

LEMMA AddAgentStep ==
    ASSUME IInv, NEW a \in AgentIds, NEW row \in AgentRow, AddAgent(a, row)
    PROVE  /\ agents' \in [AgentIds -> AgentRow \cup {Null}] /\ TimesDiffer'
           /\ \A b \in Rows(agents) :
                 b \in Rows(agents)' => agents'[b].created = agents[b].created
  <1>1. agents \in [AgentIds -> AgentRow \cup {Null}] /\ TimesDiffer
    BY DEF IInv, TypeOK
  <1>2. agents' = [agents EXCEPT ![a] = row] /\ agents[a] = Null
        /\ row.created \notin {agents[b].created : b \in Rows(agents)}
    BY DEF AddAgent, FreeTimes
  <1>3. agents' \in [AgentIds -> AgentRow \cup {Null}]
    BY <1>1, <1>2
  <1>4. \A b \in Rows(agents)' : b = a \/ (b \in Rows(agents) /\ agents'[b] = agents[b])
    BY <1>1, <1>2 DEF Rows
  <1>5. agents'[a] = row
    BY <1>1, <1>2
  <1>6. TimesDiffer'
    BY <1>1, <1>2, <1>4, <1>5 DEF TimesDiffer
  <1>7. \A b \in Rows(agents) : b # a
    BY <1>2 DEF Rows
  <1> QED BY <1>3, <1>4, <1>6, <1>7

LEMMA RemoveAgentsStep ==
    ASSUME IInv, NEW D, RemoveAgents(D)
    PROVE  /\ agents' \in [AgentIds -> AgentRow \cup {Null}] /\ TimesDiffer'
           /\ capabilities' \in [CapabilityIds -> AgentIds \cup {Null}]
           /\ \A a \in Rows(agents) :
                 a \in Rows(agents)' => agents'[a].created = agents[a].created
           /\ \A c \in Rows(capabilities) :
                 c \in Rows(capabilities)' => capabilities'[c] = capabilities[c]
  <1>1. TypeOK /\ TimesDiffer
    BY DEF IInv
  <1>2. agents' \in [AgentIds -> AgentRow \cup {Null}]
    BY <1>1 DEF RemoveAgents, TypeOK
  <1>3. capabilities' \in [CapabilityIds -> AgentIds \cup {Null}]
    BY <1>1 DEF RemoveAgents, TypeOK
  <1>4. \A a \in Rows(agents)' : a \in Rows(agents) /\ agents'[a] = agents[a]
    BY <1>1 DEF RemoveAgents, TypeOK, Rows
  <1>5. \A c \in Rows(capabilities)' : capabilities'[c] = capabilities[c]
    BY <1>1 DEF RemoveAgents, TypeOK, Rows
  <1>6. TimesDiffer'
    BY <1>1, <1>4 DEF TimesDiffer
  <1> QED BY <1>2, <1>3, <1>4, <1>5, <1>6

LEMMA ChangeTables == ASSUME IInv, Change PROVE TablesStep
  <1> TypeOK /\ TimesDiffer
    BY DEF IInv
  <1>1. CASE RegisterPlatform
    <2>1. platforms' \in [PlatformIds -> BOOLEAN \cup {Null}] /\ UNCHANGED <<agents, capabilities>>
      BY <1>1 DEF RegisterPlatform, AddPlatform, TypeOK
    <2> QED BY <2>1, SameAgents, SameCapabilities DEF TablesStep
  <1>2. CASE OnlineChanges
    <2>1. platforms' \in [PlatformIds -> BOOLEAN \cup {Null}] /\ UNCHANGED <<agents, capabilities>>
      BY <1>2 DEF OnlineChanges, TypeOK
    <2> QED BY <2>1, SameAgents, SameCapabilities DEF TablesStep
  <1>3. CASE RegisterAgent
    <2>1. PICK a \in AgentIds, row \in AgentRow : AddAgent(a, row)
      BY <1>3 DEF RegisterAgent
    <2>2. UNCHANGED <<platforms, capabilities>>
      BY <1>3 DEF RegisterAgent
    <2> QED BY <2>1, <2>2, AddAgentStep, SameCapabilities DEF TablesStep, TypeOK
  <1>4. CASE PatchAgent
    <2>1. PICK a \in Rows(agents), v \in Visibilities :
            agents' = [agents EXCEPT ![a] = [agents[a] EXCEPT !.visibility = v]]
      BY <1>4 DEF PatchAgent, TypeOK, Rows
    <2>2. UNCHANGED <<platforms, capabilities>>
      BY <1>4 DEF PatchAgent
    <2> DEFINE row == [agents[a] EXCEPT !.visibility = v]
    <2>3. a \in AgentIds /\ agents[a] \in AgentRow
      BY DEF Rows, TypeOK
    <2>4. row \in AgentRow /\ row.created = agents[a].created
      BY <2>3 DEF AgentRow
    <2> HIDE DEF row
    <2>5. agents' = [agents EXCEPT ![a] = row]
      BY <2>1 DEF row
    <2>6. agents' \in [AgentIds -> AgentRow \cup {Null}]
      BY <2>3, <2>4, <2>5 DEF TypeOK
    <2>7. \A b \in Rows(agents)' : b \in Rows(agents) /\ agents'[b].created = agents[b].created
      BY <2>3, <2>4, <2>5 DEF TypeOK, Rows
    <2>8. TimesDiffer'
      BY <2>7 DEF TimesDiffer
    <2> QED BY <2>2, <2>6, <2>7, <2>8, SameCapabilities DEF TablesStep, TypeOK
  <1>5. CASE RemoveAgent
    <2>1. PICK a \in Rows(agents) : RemoveAgents({a}) /\ UNCHANGED platforms
      BY <1>5 DEF RemoveAgent
    <2> QED BY <2>1, RemoveAgentsStep DEF TablesStep, TypeOK
  <1>6. CASE RemovePlatform
    <2>1. PICK p \in Rows(platforms) :
            /\ platforms' = [platforms EXCEPT ![p] = Null]
            /\ RemoveAgents({a \in Rows(agents) : agents[a].platform = p})
      BY <1>6 DEF RemovePlatform
    <2>2. platforms' \in [PlatformIds -> BOOLEAN \cup {Null}]
      BY <2>1 DEF TypeOK
    <2> QED BY <2>1, <2>2, RemoveAgentsStep DEF TablesStep
  <1>7. CASE AddCapability
    <2>1. PICK c \in CapabilityIds, a \in Rows(agents) :
            capabilities[c] = Null /\ capabilities' = [capabilities EXCEPT ![c] = a]
      BY <1>7 DEF AddCapability
    <2>2. UNCHANGED <<platforms, agents>> /\ a \in AgentIds
      BY <1>7 DEF AddCapability, Rows, TypeOK
    <2>3. /\ capabilities' \in [CapabilityIds -> AgentIds \cup {Null}]
          /\ \A d \in Rows(capabilities) : capabilities'[d] = capabilities[d]
      BY <2>1, <2>2 DEF TypeOK, Rows
    <2> QED BY <2>2, <2>3, SameAgents DEF TablesStep, TypeOK
  <1>8. CASE RemoveCapability
    <2>1. PICK c \in Rows(capabilities) : capabilities' = [capabilities EXCEPT ![c] = Null]
      BY <1>8 DEF RemoveCapability
    <2>2. UNCHANGED <<platforms, agents>>
      BY <1>8 DEF RemoveCapability
    <2>3. /\ capabilities' \in [CapabilityIds -> AgentIds \cup {Null}]
          /\ \A d \in Rows(capabilities)' : capabilities'[d] = capabilities[d]
      BY <2>1 DEF TypeOK, Rows
    <2> QED BY <2>2, <2>3, SameAgents DEF TablesStep, TypeOK
  <1> QED BY <1>1, <1>2, <1>3, <1>4, <1>5, <1>6, <1>7, <1>8 DEF Change

\* While nothing leaves a result, no agent in it comes earlier.
LEMMA RanksGrow ==
    ASSUME IInv, TablesStep, NEW f, Matching(f) \subseteq Matching(f)', NEW a \in Matching(f)
    PROVE  Rank(f, a)' \in Nat /\ Rank(f, a) \in Nat /\ Rank(f, a)' >= Rank(f, a)
  <1>1. Matching(f) \subseteq Rows(agents) /\ IsFiniteSet(Matching(f))
    BY MatchingType DEF IInv
  <1>2. Matching(f)' \subseteq Rows(agents)'
    BY DEF Matching
  <1>3. Rows(agents)' \subseteq AgentIds
    BY DEF Rows, TablesStep
  <1>4. IsFiniteSet(Matching(f)')
    BY <1>2, <1>3, TablesAssumption, FS_Subset
  <1>5. Newer(Matching(f), a) \subseteq Newer(Matching(f), a)'
    <2>1. \A b \in Matching(f) : agents'[b].created = agents[b].created
      BY <1>1, <1>2 DEF TablesStep
    <2> QED BY <2>1 DEF Newer
  <1>6. Newer(Matching(f), a)' \subseteq Matching(f)'
    BY DEF Newer
  <1>7. IsFiniteSet(Newer(Matching(f), a)')
    BY <1>4, <1>6, FS_Subset
  <1> DEFINE N == Newer(Matching(f), a)'
             O == Newer(Matching(f), a)
  <1>8. IsFiniteSet(O) /\ Cardinality(O) <= Cardinality(N) /\ Cardinality(N) \in Nat
        /\ Cardinality(O) \in Nat
    <2> HIDE DEF N, O
    <2>1. IsFiniteSet(N) /\ O \subseteq N
      BY <1>5, <1>7 DEF N, O
    <2> QED BY <2>1, FS_Subset, FS_CardinalityType
  <1> QED BY <1>8 DEF Rank

\* What Observe does to the history of a client.
LEMMA ObserveMark ==
    ASSUME IInv, TablesStep, Observe, NEW q \in Clients, NEW r, req[q] = r, req'[q] = r
    PROVE  /\ mark'[q] \in Mark /\ mark'[q].due \subseteq mark[q].due
           /\ r.at = "find" /\ r.op \in Lookups => mark'[q].due \subseteq Visible(r)'
           /\ mark'[q].kept = mark[q].kept \cap Rows(capabilities)'
  <1>1. mark[q] \in Mark
    BY Before
  <1>2. CASE InFlight(q)
    <2>1. mark'[q] = MarkAfter(q)
      BY <1>2 DEF Observe
    <2>2. Due(req[q])' = Due(r)'
      BY DEF Due, Visible, Rows
    <2>3. /\ mark'[q].due = mark[q].due \cap Due(r)'
          /\ mark'[q].kept = mark[q].kept \cap Rows(capabilities)'
      BY <2>1, <2>2 DEF MarkAfter
    <2>4. mark'[q] \in Mark
      BY <2>1, <1>1 DEF MarkAfter, Mark
    <2>5. r.op \in Lookups => Due(r)' = Visible(r)'
      BY DEF Due
    <2> QED BY <2>3, <2>4, <2>5
  <1>3. CASE ~InFlight(q)
    <2>1. mark'[q] = [mark[q] EXCEPT !.kept = mark[q].kept \cap Rows(capabilities)']
      BY <1>3 DEF Observe
    <2>2. r.at \in {"idle", "done"}
      BY <1>3 DEF InFlight
    <2> QED BY <1>1, <2>1, <2>2 DEF Mark
  <1> QED BY <1>2, <1>3

LEMMA ObserveMoved ==
    ASSUME IInv, Observe, NEW q \in Clients, NEW r, req[q] = r, ~mark'[q].moved
    PROVE  ~mark[q].moved /\ (r.at = "page" => Matching(r.filter)' = Matching(r.filter))
  <1>1. CASE InFlight(q)
    <2>1. mark'[q] = MarkAfter(q)
      BY <1>1 DEF Observe
    <2>2. mark'[q].moved = (mark[q].moved \/ (req[q].at = "page" /\ Moves(q)))
      BY <2>1 DEF MarkAfter
    <2>4. ~(mark[q].moved \/ (req[q].at = "page" /\ Moves(q)))
      BY <2>2, Zenon
    <2>3. ~Moves(q) => Matching(r.filter)' = Matching(r.filter)
      BY DEF Moves
    <2> QED BY <2>4, <2>3
  <1>2. CASE ~InFlight(q)
    <2>1. mark'[q] = [mark[q] EXCEPT !.kept = mark[q].kept \cap Rows(capabilities)']
      BY <1>2 DEF Observe
    <2>2. mark'[q].moved = mark[q].moved
      BY <2>1, Before DEF Mark
    <2>3. r.at # "page"
      BY <1>2 DEF InFlight
    <2> QED BY <2>2, <2>3
  <1> QED BY <1>1, <1>2

LEMMA ObserveWalk ==
    ASSUME IInv, Observe, NEW q \in Clients, NEW f, f = walk[q].filter
    PROVE  /\ walk'[q] \in Walk /\ walk'[q].on = walk[q].on
           /\ walk'[q].filter = walk[q].filter /\ walk'[q].next = walk[q].next
           /\ walk'[q].on /\ ~walk'[q].left =>
                 /\ ~walk[q].left /\ walk'[q].unseen = walk[q].unseen
                 /\ Matching(f) \subseteq Matching(f)'
  <1>1. walk[q] \in Walk
    BY WalkInvariant
  <1>2. CASE walk[q].on /\ Loses(q)
    <2>1. walk'[q] = [walk[q] EXCEPT !.left = TRUE, !.unseen = {}]
      BY <1>2 DEF Observe
    <2>2. /\ walk'[q] \in Walk /\ walk'[q].on = walk[q].on /\ walk'[q].left = TRUE
          /\ walk'[q].filter = walk[q].filter /\ walk'[q].next = walk[q].next
      BY <1>1, <2>1 DEF Walk
    <2> QED BY <2>2
  <1>3. CASE ~(walk[q].on /\ Loses(q))
    <2>1. walk'[q] = walk[q]
      BY <1>3 DEF Observe
    <2>2. walk[q].on => Matching(f) \subseteq Matching(f)'
      BY <1>3 DEF Loses
    <2> QED BY <1>1, <2>1, <2>2
  <1> QED BY <1>2, <1>3

\* A commit keeps the promises to a client whose request it does not touch.
LEMMA CommitClient ==
    ASSUME IInv, TablesStep, Observe, NEW q \in Clients, req'[q] = req[q]
    PROVE  ClientOK(req[q], mark[q], walk[q])'
  <1>1. PICK r, m, w, mm, ww :
          /\ r = req[q] /\ m = mark[q] /\ w = walk[q]
          /\ r = req'[q] /\ mm = mark'[q] /\ ww = walk'[q]
    OBVIOUS
  <1>2. /\ mm \in Mark /\ mm.due \subseteq m.due
        /\ r.at = "find" /\ r.op \in Lookups => mm.due \subseteq Visible(r)'
        /\ mm.kept = m.kept \cap Rows(capabilities)'
    BY <1>1, ObserveMark
  <1>9. ASSUME ~mm.moved
        PROVE  ~m.moved /\ (r.at = "page" => Matching(r.filter)' = Matching(r.filter))
    <2>1. ~mark'[q].moved
      BY <1>1, <1>9
    <2>2. req[q] = r /\ req'[q] = r /\ m = mark[q]
      BY <1>1
    <2>3. ~mark[q].moved /\ (r.at = "page" => Matching(r.filter)' = Matching(r.filter))
      BY <2>1, <2>2, ObserveMoved
    <2> QED BY <2>2, <2>3
  <1>3. /\ ww \in Walk /\ ww.on = w.on /\ ww.filter = w.filter /\ ww.next = w.next
        /\ ww.on /\ ~ww.left => /\ ~w.left /\ ww.unseen = w.unseen
                                /\ Matching(w.filter) \subseteq Matching(w.filter)'
    BY <1>1, ObserveWalk
  <1>4. /\ HandlerOK(r, m) /\ CountOK(r, m) /\ WalkOK(r, w)
        /\ AnswerOK(r, m) /\ TotalOK(r, m) /\ WalkDone(r, w) /\ w \in Walk /\ r \in Request
    BY <1>1, Before, WalkInvariant
  <1>5. HandlerOK(r, mm)'
    BY <1>2, <1>4 DEF HandlerOK
  <1>6. CountOK(r, mm)'
    <2> SUFFICES ASSUME r.at = "page", ~mm.moved
                 PROVE  r.total = Cardinality(Matching(r.filter)')
      BY DEF CountOK
    <2>1. ~m.moved /\ Matching(r.filter)' = Matching(r.filter)
      BY <1>9
    <2>2. r.total = Cardinality(Matching(r.filter))
      BY <1>4, <2>1 DEF CountOK
    <2> QED BY <2>1, <2>2
  <1>7. AnswerOK(r, mm)' /\ TotalOK(r, mm)' /\ WalkDone(r, ww)'
    <2>1. \A c \in mm.kept : c \in m.kept /\ capabilities'[c] = capabilities[c]
      BY <1>2, <1>4 DEF HandlerOK, TablesStep
    <2>2. AnswerOK(r, mm)'
      BY <1>2, <1>4, <2>1 DEF AnswerOK, Answered
    <2>3. TotalOK(r, mm)'
      <3>1. CASE mm.moved
        BY <3>1 DEF TotalOK
      <3>2. CASE ~mm.moved
        <4>1. ~m.moved
          BY <1>9, <3>2
        <4> QED BY <1>4, <4>1 DEF TotalOK, Rest, PageRead, Answered
      <3> QED BY <3>1, <3>2
    <2>4. WalkDone(r, ww)'
      BY <1>3, <1>4 DEF WalkDone, Answered
    <2> QED BY <2>2, <2>3, <2>4
  <1>8. WalkOK(r, ww)'
    <2>1. r.op = "search" => /\ ww.on /\ r.filter = ww.filter
                             /\ AppliedOffset(r.offset) = ww.next
      BY <1>3, <1>4 DEF WalkOK
    <2>2. ASSUME ww.on, ~ww.left
          PROVE  /\ ww.unseen \subseteq Matching(ww.filter)'
                 /\ \A a \in ww.unseen : Rank(ww.filter, a)' >= ww.next
                 /\ PageRead(r) => \A a \in ww.unseen \ r.page :
                       Rank(ww.filter, a)' >= ww.next + Cardinality(r.page)
      <3>1. /\ w.on /\ ~w.left /\ ww.unseen = w.unseen
            /\ Matching(w.filter) \subseteq Matching(w.filter)'
            /\ w.unseen \subseteq Matching(w.filter)
        BY <1>3, <1>4, <2>2 DEF WalkOK
      <3>2. PICK f : f = w.filter
        OBVIOUS
      <3>3. \A a \in w.unseen : /\ Rank(f, a)' \in Nat /\ Rank(f, a) \in Nat
                                /\ Rank(f, a)' >= Rank(f, a)
        BY <3>1, <3>2, RanksGrow
      <3>4. w.next \in Nat /\ Cardinality(r.page) \in Nat
        <4>1. r.page \subseteq AgentIds
          BY <1>4 DEF Request
        <4> QED BY <1>4, <4>1, TablesAssumption, FS_Subset, FS_CardinalityType DEF Walk
      <3>5. \A a \in w.unseen : Rank(f, a) >= w.next
        BY <1>4, <3>1, <3>2 DEF WalkOK
      <3>6. PageRead(r) => \A a \in w.unseen \ r.page :
              Rank(f, a) >= w.next + Cardinality(r.page)
        BY <1>4, <3>1, <3>2 DEF WalkOK
      <3>7. \A a \in w.unseen : Rank(f, a)' >= w.next
        BY <3>3, <3>4, <3>5
      <3>8. PageRead(r) => \A a \in w.unseen \ r.page :
              Rank(f, a)' >= w.next + Cardinality(r.page)
        <4> SUFFICES ASSUME PageRead(r), NEW a \in w.unseen \ r.page
                     PROVE  Rank(f, a)' >= w.next + Cardinality(r.page)
          OBVIOUS
        <4>1. Rank(f, a) >= w.next + Cardinality(r.page)
          BY <3>6
        <4> QED BY <3>3, <3>4, <4>1
      <3> QED BY <1>3, <3>1, <3>2, <3>7, <3>8
    <2> QED BY <2>1, <2>2 DEF WalkOK, PageRead, Answered
  <1> QED BY <1>1, <1>5, <1>6, <1>7, <1>8
          DEF ClientOK, HandlerOK, CountOK, WalkOK, AnswerOK, TotalOK, WalkDone, PageRead,
              Answered, Rest, Visible

LEMMA CommitTypes ==
    ASSUME IInv, TablesStep, Observe, req' \in [Clients -> Request],
           \A q \in Clients : req'[q].op = req[q].op
    PROVE  TypeOK'
  <1>1. ASSUME NEW q \in Clients PROVE mark'[q] \in Mark
    <2>1. mark[q] \in Mark
      BY Before
    <2>2. CASE InFlight(q)
      <3>1. mark'[q] = MarkAfter(q)
        BY <2>2 DEF Observe
      <3> QED BY <2>1, <3>1 DEF MarkAfter, Mark
    <2>3. CASE ~InFlight(q)
      <3>1. mark'[q] = [mark[q] EXCEPT !.kept = mark[q].kept \cap Rows(capabilities)']
        BY <2>3 DEF Observe
      <3> QED BY <2>1, <3>1 DEF Mark
    <2> QED BY <2>2, <2>3
  <1>2. mark' \in [Clients -> Mark]
    BY <1>1 DEF Observe
  <1>3. ASSUME NEW q \in Clients PROVE walk'[q] \in Walk
    BY ObserveWalk
  <1>4. walk' \in [Clients -> Walk]
    BY <1>3 DEF Observe
  <1> QED BY <1>2, <1>4 DEF TypeOK, TablesStep

LEMMA ChangeStep == ASSUME IInv, Change PROVE IInv'
  <1>1. TablesStep /\ Observe /\ req' = req /\ TimesDiffer'
    BY ChangeTables DEF Change, TablesStep
  <1>2. TypeOK'
    BY <1>1, CommitTypes DEF IInv, TypeOK
  <1>3. \A q \in Clients : ClientOK(req[q], mark[q], walk[q])'
    BY <1>1, CommitClient
  <1> QED BY <1>1, <1>2, <1>3 DEF IInv, ClientOK, AnswersCurrent, TotalAgrees, WalkComplete

\* The client of register_identity walks through no search and has read nothing.
LEMMA RegisterIdentityStep ==
    ASSUME IInv, NEW q \in Clients, RegisterIdentity(q) PROVE IInv'
  <1>1. PICK a \in AgentIds, row \in AgentRow : InsertIdentity(a, row)
    BY DEF RegisterIdentity
  <1>2. TablesStep
    <2>1. row.platform \in PlatformIds
      BY DEF AgentRow
    <2>2. platforms' \in [PlatformIds -> BOOLEAN \cup {Null}]
      BY <1>1, <2>1 DEF InsertIdentity, AddPlatform, IInv, TypeOK
    <2> QED BY <1>1, <2>2, AddAgentStep, SameCapabilities DEF InsertIdentity, TablesStep
  <1>0. PICK r : r = [req[q] EXCEPT !.at = "done", !.status = "ok"]
    OBVIOUS
  <1>3. /\ r \in Request /\ r.op = req[q].op /\ r.at = "done"
        /\ r.op \notin Lookups \cup {"search"}
    BY <1>0, Before DEF RegisterIdentity, HandlerOK, Request, Places, Statuses
  <1>4. req' = [req EXCEPT ![q] = r] /\ Observe
    BY <1>0 DEF RegisterIdentity
  <1>5. req' \in [Clients -> Request] /\ req'[q] = r
        /\ \A p \in Clients : p # q => req'[p] = req[p]
    BY <1>3, <1>4 DEF IInv, TypeOK
  <1>6. TypeOK'
    BY <1>2, <1>3, <1>4, <1>5, CommitTypes
  <1>7. ASSUME NEW p \in Clients, p # q PROVE ClientOK(req[p], mark[p], walk[p])'
    BY <1>2, <1>4, <1>5, <1>7, CommitClient
  <1>8. ClientOK(req[q], mark[q], walk[q])'
    <2>1. WalkFits(walk[q]) /\ walk[q] \in Walk
      BY WalkInvariant
    <2>2. PICK f, mm, ww : f = walk[q].filter /\ mm = mark'[q] /\ ww = walk'[q]
      OBVIOUS
    <2>3. /\ ww.filter = f /\ ww.next = walk[q].next
          /\ ww.on /\ ~ww.left =>
                /\ walk[q].on /\ ~walk[q].left /\ ww.unseen = walk[q].unseen
                /\ Matching(f) \subseteq Matching(f)'
      BY <1>4, <2>2, ObserveWalk
    <2>4. mm.kept \subseteq Rows(capabilities)'
      <3>1. CASE InFlight(q)
        <4>1. mark'[q] = MarkAfter(q)
          BY <1>4, <3>1 DEF Observe
        <4> QED BY <2>2, <4>1 DEF MarkAfter
      <3>2. CASE ~InFlight(q)
        BY <3>2 DEF InFlight, RegisterIdentity
      <3> QED BY <3>1, <3>2
    <2>5. HandlerOK(r, mm)' /\ CountOK(r, mm)'
      BY <1>3, <2>4 DEF HandlerOK, CountOK
    <2>6. AnswerOK(r, mm)' /\ TotalOK(r, mm)' /\ WalkDone(r, ww)' /\ ~PageRead(r)'
      BY <1>3 DEF AnswerOK, TotalOK, WalkDone, PageRead, Answered
    <2>7. ASSUME ww.on, ~ww.left
          PROVE  /\ ww.unseen \subseteq Matching(f)'
                 /\ \A x \in ww.unseen : Rank(f, x)' >= ww.next
      <3>1. /\ ww.unseen = walk[q].unseen /\ ww.unseen \subseteq Matching(f)
            /\ Matching(f) \subseteq Matching(f)'
            /\ \A x \in ww.unseen : Rank(f, x) >= ww.next
        BY <2>1, <2>2, <2>3, <2>7 DEF WalkFits
      <3>2. \A x \in ww.unseen : /\ Rank(f, x)' \in Nat /\ Rank(f, x) \in Nat
                                 /\ Rank(f, x)' >= Rank(f, x)
        BY <1>2, <3>1, RanksGrow
      <3>3. ww.next \in Nat
        BY <2>1, <2>3 DEF Walk
      <3> QED BY <3>1, <3>2, <3>3
    <2>8. WalkOK(r, ww)'
      BY <1>3, <2>3, <2>6, <2>7 DEF WalkOK, PageRead, Answered
    <2> QED BY <1>5, <2>2, <2>5, <2>6, <2>8
            DEF ClientOK, HandlerOK, CountOK, WalkOK, AnswerOK, TotalOK, WalkDone, PageRead,
                Answered, Rest, Visible
  <1>9. \A p \in Clients : ClientOK(req[p], mark[p], walk[p])'
    BY <1>7, <1>8
  <1> QED BY <1>2, <1>6, <1>9 DEF IInv, ClientOK, AnswersCurrent, TotalAgrees, WalkComplete,
                                  TablesStep

-----------------------------------------------------------------------------
LEMMA StutterStep == ASSUME IInv, UNCHANGED vars PROVE IInv'
  <1>1. TypeOK' /\ TimesDiffer'
    BY DEF IInv, TypeOK, TimesDiffer, vars, Rows
  <1>2. ASSUME NEW q \in Clients PROVE ClientOK(req[q], mark[q], walk[q])'
    <2>1. ClientOK(req[q], mark[q], walk[q])
      BY Invariant
    <2>2. PICK r, m, w : /\ r = req[q] /\ m = mark[q] /\ w = walk[q]
                         /\ r = req'[q] /\ m = mark'[q] /\ w = walk'[q]
      BY DEF vars
    <2>3. ClientOK(r, m, w)'
      BY <2>1, <2>2, SameTables DEF vars, tables
    <2> QED BY <2>2, <2>3 DEF ClientOK, HandlerOK, CountOK, WalkOK, AnswerOK, TotalOK,
                              WalkDone, PageRead, Answered, Rest, Visible
  <1> QED BY <1>1, <1>2 DEF IInv, ClientOK, AnswersCurrent, TotalAgrees, WalkComplete

LEMMA Step == IInv /\ [Next]_vars => IInv'
  <1> SUFFICES ASSUME IInv, [Next]_vars PROVE IInv'
    OBVIOUS
  <1>1. CASE UNCHANGED vars
    BY <1>1, StutterStep
  <1>2. CASE Change
    BY <1>2, ChangeStep
  <1>3. ASSUME NEW q \in Clients,
               \/ CallSearch(q) \/ CallNextPage(q) \/ CallLookup(q) \/ CallTool(q)
               \/ CountAgents(q) \/ CountRefused(q) \/ PageAgents(q) \/ FindAgents(q)
               \/ LoadCapabilities(q) \/ CheckPrice(q) \/ RegisterIdentity(q)
               \/ StatementFails(q) \/ Receive(q)
        PROVE  IInv'
    <2>1. CASE CallSearch(q) \/ CallNextPage(q) \/ CallLookup(q) \/ CallTool(q)
      BY <2>1, CallSearchStep, CallNextPageStep, CallLookupStep, CallToolStep
    <2>2. CASE CountAgents(q) \/ PageAgents(q) \/ FindAgents(q) \/ LoadCapabilities(q)
                 \/ CheckPrice(q)
      BY <2>2, CountAgentsStep, PageAgentsStep, FindAgentsStep, LoadCapabilitiesStep,
         CheckPriceStep
    <2>3. CASE CountRefused(q)
      <3>1. req[q].op = "search" /\ Fails(q, FALSE)
        BY <2>3, Before DEF CountRefused, HandlerOK
      <3> QED BY <3>1, FailsStep
    <2>4. CASE StatementFails(q)
      BY <2>4, FailsStep DEF StatementFails
    <2>5. CASE RegisterIdentity(q) \/ Receive(q)
      BY <2>5, RegisterIdentityStep, ReceiveStep
    <2> QED BY <1>3, <2>1, <2>2, <2>3, <2>4, <2>5
  <1> QED BY <1>1, <1>2, <1>3 DEF Next

\* The inductive invariant holds in every reachable state.
THEOREM DiscoveryInvariant == Spec => []IInv
  BY Initial, Step, PTL DEF Spec

\* The variables keep their types.
THEOREM DiscoveryTypes == Spec => []TypeOK
  <1>1. IInv => TypeOK
    BY DEF IInv
  <1> QED BY <1>1, DiscoveryInvariant, PTL

\* A client that walks through the pages of a search until one is empty misses no
\* agent that matched when it began, while nothing leaves the result
\* (DiscoverAgents), for any tables, limits and pages.
THEOREM WalksAreComplete == Spec => []WalkComplete
  <1>1. IInv => WalkComplete
    BY DEF IInv
  <1> QED BY <1>1, DiscoveryInvariant, PTL

\* The total of an answer is the one that its page was cut from, unless the result
\* changed between the two statements of DiscoverAgents.
THEOREM TotalsAgree == Spec => []TotalAgrees
  <1>1. IInv => TotalAgrees
    BY DEF IInv
  <1> QED BY <1>1, DiscoveryInvariant, PTL

\* Lookups find what is there, and answers show the capabilities that stay, though
\* agents and capabilities are read by two statements.
THEOREM AnswersAreCurrent == Spec => []AnswersCurrent
  <1>1. IInv => AnswersCurrent
    BY DEF IInv
  <1> QED BY <1>1, DiscoveryInvariant, PTL

\* No step of a handler shows an agent that the caller may not see.
THEOREM AnswersShowVisible == Spec => ShowsVisible
  <1> DEFINE A == \A q \in Clients : req[q].op # "none" =>
                    req'[q].page \subseteq req[q].page \cup Visible(req[q])
  <1>1. ASSUME IInv, [Next]_vars PROVE A \/ UNCHANGED vars
    <2> SUFFICES ASSUME Next, NEW q \in Clients, req[q].op # "none"
                 PROVE  req'[q].page \subseteq req[q].page \cup Visible(req[q])
      BY <1>1
    <2>0. req \in [Clients -> Request]
      BY <1>1 DEF IInv, TypeOK
    <2>1. CASE Change
      BY <2>1 DEF Change
    <2>2. ASSUME NEW p \in Clients,
                 \/ CallSearch(p) \/ CallNextPage(p) \/ CallLookup(p) \/ CallTool(p)
          PROVE  req'[q].page \subseteq req[q].page \cup Visible(req[q])
      <3>1. PICK r : Start(p, r) /\ r.page = {}
        <4>1. \A f, l, o : SearchRequest(f, l, o).page = {}
          BY DEF SearchRequest, NoRequest
        <4>2. CASE CallSearch(p) \/ CallNextPage(p)
          BY <4>1, <4>2 DEF CallSearch, CallNextPage
        <4>3. CASE CallLookup(p)
          <5>1. \A op, id : [NoRequest EXCEPT !.op = op, !.at = "find", !.id = id].page = {}
            BY DEF NoRequest
          <5> QED BY <4>3, <5>1 DEF CallLookup
        <4>4. CASE CallTool(p)
          <5>1. /\ \A c : [NoRequest EXCEPT !.op = "price", !.at = "price", !.id = c].page = {}
                /\ [NoRequest EXCEPT !.op = "register", !.at = "insert"].page = {}
                /\ [NoRequest EXCEPT !.op = "notification", !.at = "done",
                                     !.status = "accepted"].page = {}
            BY DEF NoRequest
          <5> QED BY <4>4, <5>1 DEF CallTool
        <4> QED BY <2>2, <4>2, <4>3, <4>4
      <3> QED BY <2>0, <3>1 DEF Start
    <2>3. ASSUME NEW p \in Clients,
                 \/ CountAgents(p) \/ LoadCapabilities(p) \/ CheckPrice(p)
                 \/ CountRefused(p) \/ StatementFails(p) \/ RegisterIdentity(p)
          PROVE  req'[q].page \subseteq req[q].page \cup Visible(req[q])
      <3>1. PICK r : req' = [req EXCEPT ![p] = r] /\ r.page = req[p].page
        <4>1. CASE CountAgents(p)
          <5> DEFINE x == [req[p] EXCEPT !.at = "page",
                         !.total = Cardinality(Matching(req[p].filter))]
          <5>1. req' = [req EXCEPT ![p] = x]
            BY <4>1 DEF CountAgents, Read, Reads
          <5>2. x.page = req[p].page
            BY <2>0 DEF Request
          <5> HIDE DEF x
          <5> QED BY <5>1, <5>2
        <4>2. CASE LoadCapabilities(p)
          <5> DEFINE x == [req[p] EXCEPT !.at = "done", !.status = "ok",
                         !.shown = CapabilitiesOf(req[p].page)]
          <5>1. req' = [req EXCEPT ![p] = x]
            BY <4>2 DEF LoadCapabilities, Read, Reads
          <5>2. x.page = req[p].page
            BY <2>0 DEF Request
          <5> HIDE DEF x
          <5> QED BY <5>1, <5>2
        <4>3. CASE CheckPrice(p)
          <5> DEFINE x == [req[p] EXCEPT !.at = "done",
                         !.status = IF req[p].id \in Rows(capabilities) THEN "ok" ELSE "not_found"]
          <5>1. req' = [req EXCEPT ![p] = x]
            BY <4>3 DEF CheckPrice, Read, Reads
          <5>2. x.page = req[p].page
            BY <2>0 DEF Request
          <5> HIDE DEF x
          <5> QED BY <5>1, <5>2
        <4>4. CASE CountRefused(p)
          <5> DEFINE x == [req[p] EXCEPT !.at = "done", !.error = FALSE,
                         !.status = IF req[p].op \in {"agent", "get", "price"}
                                    THEN "not_found" ELSE "failed"]
          <5>1. req' = [req EXCEPT ![p] = x]
            BY <4>4 DEF CountRefused, Fails, Read, Reads
          <5>2. x.page = req[p].page
            BY <2>0 DEF Request
          <5> HIDE DEF x
          <5> QED BY <5>1, <5>2
        <4>5. CASE StatementFails(p)
          <5> DEFINE x == [req[p] EXCEPT !.at = "done", !.error = TRUE,
                         !.status = IF req[p].op \in {"agent", "get", "price"}
                                    THEN "not_found" ELSE "failed"]
          <5>1. req' = [req EXCEPT ![p] = x]
            BY <4>5 DEF StatementFails, Fails, Read, Reads
          <5>2. x.page = req[p].page
            BY <2>0 DEF Request
          <5> HIDE DEF x
          <5> QED BY <5>1, <5>2
        <4>6. CASE RegisterIdentity(p)
          <5> DEFINE x == [req[p] EXCEPT !.at = "done", !.status = "ok"]
          <5>1. req' = [req EXCEPT ![p] = x]
            BY <4>6 DEF RegisterIdentity
          <5>2. x.page = req[p].page
            BY <2>0 DEF Request
          <5> HIDE DEF x
          <5> QED BY <5>1, <5>2
        <4> QED BY <2>3, <4>1, <4>2, <4>3, <4>4, <4>5, <4>6
      <3> QED BY <2>0, <3>1
    <2>4. ASSUME NEW p \in Clients, NEW P, Reads(p, LookedUp(req[p], P)),
                 P \subseteq Visible(req[p])
          PROVE  req'[q].page \subseteq req[q].page \cup Visible(req[q])
      <3>1. req' = [req EXCEPT ![p] = LookedUp(req[p], P)]
        BY <2>4 DEF Reads
      <3>2. LookedUp(req[p], P).page \in {P, req[p].page}
        BY <2>0 DEF LookedUp, Request
      <3> QED BY <2>0, <2>4, <3>1, <3>2
    <2>5. ASSUME NEW p \in Clients, PageAgents(p)
          PROVE  req'[q].page \subseteq req[q].page \cup Visible(req[q])
      <3> DEFINE P == Slice(Matching(req[p].filter), AppliedOffset(req[p].offset),
                            AppliedLimit(req[p].limit))
      <3>1. req[p].op = "search"
        BY <1>1, <2>5, Before DEF PageAgents, HandlerOK
      <3>2. P \subseteq Visible(req[p])
        BY <3>1 DEF Slice, Matching, Matches, Visible
      <3>3. Reads(p, LookedUp(req[p], P))
        BY <2>5 DEF PageAgents, ReadAgents
      <3> QED BY <2>4, <3>2, <3>3
    <2>6. ASSUME NEW p \in Clients, FindAgents(p)
          PROVE  req'[q].page \subseteq req[q].page \cup Visible(req[q])
      <3>1. req[p].op \in Lookups
        BY <1>1, <2>6, Before DEF FindAgents, HandlerOK
      <3>2. Rows(agents) \subseteq AgentIds
            /\ \A a \in Rows(agents) : agents[a].visibility \in Visibilities
        <4>1. \A a \in Rows(agents) : a \in AgentIds /\ agents[a] \in AgentRow
          BY <1>1 DEF IInv, TypeOK, Rows
        <4> QED BY <4>1 DEF AgentRow
      <3>3. Found(req[p]) \subseteq Visible(req[p])
        <4>1. CASE req[p].op = "agent"
          BY <3>2, <4>1 DEF Visible, Found, Visibilities
        <4>2. CASE req[p].op = "get"
          BY <4>2 DEF Visible, Found
        <4>3. CASE req[p].op = "list"
          BY <4>3 DEF Visible, Found
        <4> QED BY <3>1, <4>1, <4>2, <4>3 DEF Lookups
      <3>4. Reads(p, LookedUp(req[p], Found(req[p])))
        BY <2>6 DEF FindAgents, ReadAgents
      <3> QED BY <2>4, <3>3, <3>4
    <2>7. ASSUME NEW p \in Clients, Receive(p)
          PROVE  req'[q].page \subseteq req[q].page \cup Visible(req[q])
      BY <2>0, <2>7 DEF Receive, NoRequest
    <2> QED BY <2>1, <2>2, <2>3, <2>5, <2>6, <2>7 DEF Next
  <1>2. IInv /\ [Next]_vars => [A]_vars
    BY <1>1
  <1>3. Spec => [][A]_vars
    <2> HIDE DEF A
    <2> QED BY <1>2, DiscoveryInvariant, PTL DEF Spec
  <1> QED BY <1>3 DEF ShowsVisible
=============================================================================
