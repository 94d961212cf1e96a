-------------------------- MODULE HeartbeatWindow --------------------------
(***************************************************************************)
(* Time in an agent's heartbeats: the SDK's loop, the timestamp the server *)
(* accepts, the last_seen_at it writes and the "online" it computes.       *)
(*                                                                         *)
(* One agent, whose clock is off by skew.  now is the clock of the server  *)
(* and of Postgres, in whole seconds.  A beat is one heartbeat request on  *)
(* its way: in the network, verified by agentSigAuth, then in a            *)
(* transaction of AgentHeartbeat.  The loop sends one at a time, but a     *)
(* connection that breaks lets it go on while the server still works on    *)
(* the old one.                                                            *)
(***************************************************************************)
EXTENDS Integers, FiniteSets

CONSTANTS
    Window,        \* seconds the timestamp may be off (60 in the code)
    OfflineAfter,  \* OFFLINE_AFTER_SECS
    Interval,      \* heartbeat_interval of the SDK
    MaxSkew,       \* the agent's clock is at most this far off
    MaxWait,       \* a verified request waits at most this long for BEGIN
    MaxDelay,      \* no request is older than this
    Reliable,      \* TRUE: nothing is lost and the agent sends on time
    MaxBeats,      \* bound: requests on their way at once
    Horizon        \* bound: the clock stops here

ASSUME TimeAssumption ==
    /\ {Window, OfflineAfter, MaxSkew, MaxWait, MaxDelay, MaxBeats, Horizon} \subseteq Nat
    /\ Interval \in Nat \ {0}
    /\ Reliable \in BOOLEAN

\* What a deployment must provide for an agent to stay online: two round
\* trips and a sleep fit in OfflineAfter, a delay and the skew in Window.
ASSUME ReliableAssumption ==
    Reliable => /\ Interval + 2 * MaxDelay < OfflineAfter
                /\ MaxDelay + MaxSkew <= Window

VARIABLES
    now,        \* the time
    skew,       \* the agent's clock minus the server's
    loop,       \* _heartbeat_loop: asleep until, or waiting since, a time
    beats,      \* heartbeat requests on their way
    seen,       \* last_seen_at IS NOT NULL
    lastSeen,   \* last_seen_at
    lastSent    \* when the beat that wrote last_seen_at was sent

vars == <<now, skew, loop, beats, seen, lastSeen, lastSent>>

Beat == [sent : Nat, at : {"network", "verified", "begun"}, mark : Nat]
Loop == [at : {"asleep", "waiting"}, time : Nat]

Init ==
    /\ now = 0
    /\ skew \in -MaxSkew .. MaxSkew
    /\ loop = [at |-> "asleep", time |-> 0]
    /\ beats = {}
    /\ seen = FALSE /\ lastSeen = 0 /\ lastSent = 0

-----------------------------------------------------------------------------
(***************************************************************************)
(* The agent.                                                              *)
(***************************************************************************)
Send ==
    /\ loop.at = "asleep" /\ now >= loop.time
    /\ Cardinality(beats) < MaxBeats
    /\ loop' = [at |-> "waiting", time |-> now]
    /\ beats' = beats \cup {[sent |-> now, at |-> "network", mark |-> now]}
    /\ UNCHANGED <<now, skew, seen, lastSeen, lastSent>>

Asleep == [at |-> "asleep", time |-> now + Interval]

Answered_Silent(b) == loop' = loop      \* faulty: a return without an answer
\* The answer, or the error, to beat b reaches a loop that waits for it.
Answered(b) ==
    loop' = IF loop.at = "waiting" /\ loop.time = b.sent THEN Asleep ELSE loop

\* The connection breaks: the loop prints the error and sleeps.
ConnectionFails ==
    /\ ~Reliable
    /\ loop.at = "waiting"
    /\ loop' = Asleep
    /\ UNCHANGED <<now, skew, beats, seen, lastSeen, lastSent>>

-----------------------------------------------------------------------------
(***************************************************************************)
(* The server.                                                             *)
(***************************************************************************)
\* VerifyAgentRequest: |now - X-Agent-Timestamp| <= 60.
Fresh_OneSided(b) == now - (b.sent + skew) >= -Window   \* faulty: no upper end
Fresh_Strict(b) ==                                      \* faulty: >= for >
    LET diff == now - (b.sent + skew) IN diff < Window /\ diff > -Window
Fresh(b) == now - (b.sent + skew) \in -Window .. Window

Becomes(b, at) ==
    beats' = (beats \ {b}) \cup {[b EXCEPT !.at = at, !.mark = now]}

Accept(b) ==
    /\ b.at = "network" /\ Fresh(b)
    /\ Becomes(b, "verified")
    /\ UNCHANGED <<now, skew, loop, seen, lastSeen, lastSent>>

Refuse(b) ==
    /\ b.at = "network" /\ ~Fresh(b)
    /\ beats' = beats \ {b}
    /\ Answered(b)
    /\ UNCHANGED <<now, skew, seen, lastSeen, lastSent>>

\* The handler gets a connection of the pool and sends BEGIN.
Begin(b) ==
    /\ b.at = "verified"
    /\ Becomes(b, "begun")
    /\ UNCHANGED <<now, skew, loop, seen, lastSeen, lastSent>>

\* NOW() is the time the transaction began, however long it then waits for
\* the row locks.
Stamp_AtCommit(b) == now                \* faulty: clock_timestamp()
Stamp(b) == b.mark

Commit(b) ==
    /\ b.at = "begun"
    /\ seen' = TRUE
    /\ lastSeen' = Stamp(b)
    /\ lastSent' = b.sent
    /\ beats' = beats \ {b}
    /\ Answered(b)
    /\ UNCHANGED <<now, skew>>

\* The request, its transaction or its answer is lost, and nobody is told:
\* urlopen is called without a timeout.
Lose(b) ==
    /\ ~Reliable
    /\ beats' = beats \ {b}
    /\ UNCHANGED <<now, skew, loop, seen, lastSeen, lastSent>>

\* last_seen_at IS NOT NULL AND last_seen_at > NOW() - OfflineAfter.
Online == seen /\ lastSeen > now - OfflineAfter

-----------------------------------------------------------------------------
\* Bounds: what the constants promise happens before time goes on.
Due ==
    \/ \E b \in beats : now >= b.sent + MaxDelay
    \/ \E b \in beats : b.at = "verified" /\ now >= b.mark + MaxWait
    \/ Reliable /\ loop.at = "asleep" /\ now >= loop.time

Tick ==
    /\ now < Horizon /\ ~Due
    /\ now' = now + 1
    /\ UNCHANGED <<skew, loop, beats, seen, lastSeen, lastSent>>

Handle(b) == Accept(b) \/ Refuse(b) \/ Begin(b) \/ Commit(b)

Next ==
    \/ Send \/ ConnectionFails \/ Tick
    \/ \E b \in beats : Handle(b) \/ Lose(b)

Spec == Init /\ [][Next]_vars

\* The loop runs on, and the server handles every request that reaches it.
FairSpec == Spec /\ WF_vars(Send) /\ WF_vars(\E b \in beats : Handle(b))

-----------------------------------------------------------------------------
(***************************************************************************)
(* Properties.                                                             *)
(***************************************************************************)
\* Times are times, and a request is in one of the three places.
TypeOK ==
    /\ now \in Nat /\ skew \in -MaxSkew .. MaxSkew
    /\ loop \in Loop
    /\ beats \subseteq Beat
    /\ seen \in BOOLEAN /\ lastSeen \in Nat /\ lastSent \in Nat

\* An agent shown online sent a heartbeat not long ago: however requests are
\* delayed, lost, reordered or retried, the window, the wait for a connection
\* and OfflineAfter bound how old what discovery says can be.
OnlineMeansRecent ==
    Online => now - lastSent < OfflineAfter + MaxWait + Window + skew

\* On a reliable network an agent that was seen once never flips to offline.
StaysOnline == Reliable /\ seen => Online

\* Every attempt of "Loops heartbeats every heartbeat_interval seconds" ends,
\* so that the loop comes to the next one.
AttemptEnds == (loop.at = "waiting") ~> (loop.at = "asleep")

(***************************************************************************)
(* The inductive invariant.                                                *)
(***************************************************************************)
\* A beat's marks come in order, and one past agentSigAuth was in the window.
BeatOK(b) ==
    /\ b.sent <= b.mark /\ b.mark <= now
    /\ b.at = "verified" =>
          b.mark - b.sent <= Window + skew /\ now - b.mark <= MaxWait
    /\ b.at = "begun" => b.mark - b.sent <= MaxWait + Window + skew

\* A reliable agent's loop waits for the one beat on its way, or sleeps.
InStep ==
    Reliable =>
        /\ loop.at = "waiting" =>
             /\ \E b \in beats : beats = {b} /\ b.sent = loop.time
             /\ loop.time <= now /\ now - loop.time <= MaxDelay
        /\ loop.at = "asleep" => beats = {} /\ now <= loop.time
        /\ seen => loop.time - lastSeen <= Interval + MaxDelay

IInv ==
    /\ TypeOK
    /\ \A b \in beats : BeatOK(b)
    /\ seen => lastSeen - lastSent <= MaxWait + Window + skew
    /\ InStep
=============================================================================
