----------------------- MODULE HeartbeatWindowProofs -----------------------
(***************************************************************************)
(* Proofs about HeartbeatWindow for every value of its time constants.     *)
(* OnlineMeansRecent needs no assumption about the network; StaysOnline    *)
(* rests on ReliableAssumption.                                            *)
(***************************************************************************)
EXTENDS HeartbeatWindow, TLAPS

LEMMA Times ==
    /\ Window \in Nat /\ OfflineAfter \in Nat /\ MaxSkew \in Nat
    /\ MaxWait \in Nat /\ MaxDelay \in Nat /\ Interval \in Nat
    /\ Interval > 0
    /\ Horizon \in Nat /\ MaxBeats \in Nat /\ Reliable \in BOOLEAN
    /\ Reliable => /\ Interval + 2 * MaxDelay < OfflineAfter
                   /\ MaxDelay + MaxSkew <= Window
  BY TimeAssumption, ReliableAssumption

LEMMA Initial ==
    ASSUME Init
    PROVE  IInv
  <1>1. TypeOK /\ beats = {} /\ ~seen /\ now = 0
        /\ loop.at = "asleep" /\ loop.time = 0
    BY DEF Init, TypeOK, Loop
  <1> QED BY <1>1 DEF IInv, InStep

\* The loop moves: a request is sent, or its connection breaks.
LEMMA AgentStep ==
    ASSUME IInv, Send \/ ConnectionFails
    PROVE  IInv'
  <1> USE Times DEF IInv, TypeOK
  <1>1. CASE Send
    <2> DEFINE b == [sent |-> now, at |-> "network", mark |-> now]
    <2>1. /\ loop.at = "asleep" /\ now >= loop.time
          /\ loop' = [at |-> "waiting", time |-> now]
          /\ beats' = beats \cup {b}
          /\ UNCHANGED <<now, skew, seen, lastSeen, lastSent>>
      BY <1>1 DEF Send
    <2>2. b \in Beat /\ loop' \in Loop
      BY <2>1 DEF Beat, Loop
    <2>3. b.sent = now /\ b.at = "network" /\ b.mark = now
      OBVIOUS
    <2>4. \A c \in beats' : BeatOK(c)'
      BY <2>1, <2>3 DEF BeatOK
    <2>5. loop.time \in Nat
      BY DEF Loop
    <2>6. loop'.at = "waiting" /\ loop'.time = now /\ now' = now
      BY <2>1
    <2>7. InStep'
      <3> SUFFICES ASSUME Reliable PROVE InStep'
        BY DEF InStep
      <3>1. beats' = {b} /\ now = loop.time
        BY <2>1, <2>5 DEF InStep
      <3> HIDE DEF b
      <3> QED BY <2>1, <2>3, <2>5, <2>6, <3>1 DEF InStep
    <2> QED BY <2>1, <2>2, <2>4, <2>7
  <1>2. CASE ConnectionFails
    <2>1. loop' = Asleep /\ ~Reliable
          /\ UNCHANGED <<now, skew, beats, seen, lastSeen, lastSent>>
      BY <1>2 DEF ConnectionFails
    <2>2. loop' \in Loop
      BY <2>1 DEF Asleep, Loop
    <2>3. InStep'
      BY <2>1 DEF InStep
    <2> QED BY <2>1, <2>2, <2>3 DEF BeatOK
  <1> QED BY <1>1, <1>2

\* Time passes only while nothing is due.
LEMMA TimePasses ==
    ASSUME IInv, Tick
    PROVE  IInv'
  <1> USE Times DEF IInv, TypeOK
  <1>1. /\ now' = now + 1 /\ ~Due
        /\ UNCHANGED <<skew, loop, beats, seen, lastSeen, lastSent>>
    BY DEF Tick
  <1>2. \A b \in beats : BeatOK(b)'
    <2> TAKE b \in beats
    <2>1. b.sent \in Nat /\ b.mark \in Nat /\ BeatOK(b)
      BY DEF Beat
    <2>2. b.at = "verified" => now < b.mark + MaxWait
      BY <1>1, <2>1 DEF Due
    <2> QED BY <1>1, <2>1, <2>2 DEF BeatOK
  <1>3. InStep'
    <2>1. loop.time \in Nat /\ loop.at \in {"asleep", "waiting"}
      BY DEF Loop
    <2>2. ASSUME Reliable, loop.at = "asleep" PROVE now < loop.time
      BY <1>1, <2>1, <2>2 DEF Due
    <2>3. ASSUME Reliable, loop.at = "waiting" PROVE now - loop.time < MaxDelay
      <3>1. PICK b \in beats : b.sent = loop.time
        BY <2>3 DEF InStep
      <3> QED BY <1>1, <2>1, <3>1 DEF Due
    <2> QED BY <1>1, <2>1, <2>2, <2>3 DEF InStep
  <1> QED BY <1>1, <1>2, <1>3

\* A beat goes on to its next place.
LEMMA BeatMovesOn ==
    ASSUME IInv, NEW b \in beats, Accept(b) \/ Begin(b)
    PROVE  IInv'
  <1> USE Times DEF IInv, TypeOK
  <1>1. PICK at \in {"verified", "begun"} :
           /\ beats' = (beats \ {b}) \cup {[b EXCEPT !.at = at, !.mark = now]}
           /\ at = "verified" => b.at = "network" /\ Fresh(b)
           /\ at = "begun" => b.at = "verified"
           /\ UNCHANGED <<now, skew, loop, seen, lastSeen, lastSent>>
    BY DEF Accept, Begin, Becomes
  <1>0. b.sent \in Nat /\ b.mark \in Nat /\ BeatOK(b)
    BY DEF Beat
  <1>2. PICK c \in Beat :
           /\ beats' = (beats \ {b}) \cup {c}
           /\ c.sent = b.sent /\ c.at = at /\ c.mark = now
    <2> DEFINE d == [b EXCEPT !.at = at, !.mark = now]
    <2>1. d \in Beat /\ d.sent = b.sent /\ d.at = at /\ d.mark = now
      BY DEF Beat
    <2> QED BY <1>1, <2>1
  <1>3. BeatOK(c)'
    <2>1. skew \in Int /\ skew' = skew /\ now' = now
      BY <1>1
    <2>2. CASE at = "verified"
      <3>1. now - (b.sent + skew) <= Window
        BY <1>0, <1>1, <2>1, <2>2 DEF Fresh
      <3> QED BY <1>0, <1>2, <2>1, <2>2, <3>1 DEF BeatOK
    <2>3. CASE at = "begun"
      <3>1. /\ b.mark - b.sent <= Window + skew /\ now - b.mark <= MaxWait
        BY <1>0, <1>1, <2>3 DEF BeatOK
      <3> QED BY <1>0, <1>2, <2>1, <2>3, <3>1 DEF BeatOK
    <2> QED BY <2>2, <2>3
  <1>4. \A d \in beats' : d \in Beat /\ BeatOK(d)'
    BY <1>1, <1>2, <1>3 DEF BeatOK
  <1>5. InStep'
    <2>1. ASSUME Reliable, loop.at = "waiting"
          PROVE  \E d \in beats' : beats' = {d} /\ d.sent = loop.time
      <3>1. beats = {b} /\ b.sent = loop.time
        BY <2>1 DEF InStep
      <3>2. beats' = {c}
        BY <1>2, <3>1
      <3> QED BY <1>2, <3>1, <3>2
    <2>2. ~(Reliable /\ loop.at = "asleep")
      BY DEF InStep
    <2> QED BY <1>1, <2>1, <2>2 DEF InStep
  <1> QED BY <1>1, <1>4, <1>5

\* A beat ends: committed, refused or lost.
LEMMA BeatEnds ==
    ASSUME IInv, NEW b \in beats, Refuse(b) \/ Commit(b) \/ Lose(b)
    PROVE  IInv'
  <1> USE Times DEF IInv, TypeOK
  <1>1. /\ b \in Beat /\ BeatOK(b) /\ b.sent \in Nat /\ b.mark \in Nat
        /\ loop.time \in Nat /\ loop.at \in {"asleep", "waiting"}
    BY DEF Beat, Loop
  <1>2. /\ beats' = beats \ {b} /\ now' = now /\ skew' = skew
        /\ loop' = loop \/ loop' = Asleep
    BY DEF Refuse, Commit, Lose, Answered
  <1>3. /\ loop' \in Loop
        /\ \A d \in beats' : d \in Beat /\ BeatOK(d)'
    BY <1>2 DEF BeatOK, Asleep, Loop
  <1>4. /\ seen' \in BOOLEAN /\ lastSeen' \in Nat /\ lastSent' \in Nat
        /\ seen' => lastSeen' - lastSent' <= MaxWait + Window + skew'
    <2>1. CASE Commit(b)
      <3>1. /\ b.at = "begun" /\ seen' = TRUE /\ lastSeen' = b.mark
            /\ lastSent' = b.sent /\ skew' = skew
        BY <2>1 DEF Commit, Stamp
      <3> QED BY <1>1, <3>1 DEF BeatOK
    <2>2. CASE Refuse(b) \/ Lose(b)
      BY <1>2, <2>2 DEF Refuse, Lose
    <2> QED BY <2>1, <2>2
  <1>5. InStep'
    <2> SUFFICES ASSUME Reliable PROVE InStep'
      BY DEF InStep
    <2>1. /\ loop.at = "waiting" /\ beats = {b} /\ b.sent = loop.time
          /\ now - loop.time <= MaxDelay
      BY <1>1 DEF InStep
    <2>2. ~Lose(b)
      BY DEF Lose
    <2>3. ~Refuse(b)
      BY <1>1, <2>1 DEF Refuse, Fresh, BeatOK
    <2>4. /\ loop' = Asleep /\ beats' = {}
          /\ lastSeen' = b.mark /\ b.sent <= b.mark
      BY <1>1, <1>2, <2>1, <2>2, <2>3 DEF Commit, Answered, Stamp, BeatOK
    <2>5. loop'.at = "asleep" /\ loop'.time = now + Interval
      BY <2>4 DEF Asleep
    <2> QED BY <1>1, <1>2, <2>1, <2>4, <2>5 DEF InStep
  <1> QED BY <1>2, <1>3, <1>4, <1>5

LEMMA Inductive ==
    ASSUME IInv, [Next]_vars
    PROVE  IInv'
  <1>1. CASE Next
    BY <1>1, AgentStep, TimePasses, BeatMovesOn, BeatEnds DEF Next, Handle
  <1>2. CASE UNCHANGED vars
    BY <1>2 DEF vars, IInv, TypeOK, BeatOK, InStep
  <1> QED BY <1>1, <1>2

\* The strengthened invariant holds for every choice of the time constants.
THEOREM Invariance == Spec => []IInv
  <1>1. Init => IInv
    BY Initial
  <1>2. IInv /\ [Next]_vars => IInv'
    BY Inductive
  <1> QED BY <1>1, <1>2, PTL DEF Spec

\* "online" in discovery is never older than the acceptance window, the wait
\* for a connection, the agent's skew and OfflineAfter together.
THEOREM RecentWhenOnline == Spec => []OnlineMeansRecent
  <1>1. IInv => OnlineMeansRecent
    BY Times DEF IInv, TypeOK, OnlineMeansRecent, Online
  <1> QED BY <1>1, Invariance, PTL

\* If two round trips and a sleep fit in OfflineAfter, and a delay and the skew
\* in Window, an agent that was seen once stays online.
THEOREM ReliableStaysOnline == Spec => []StaysOnline
  <1>1. IInv => StaysOnline
    BY Times DEF IInv, TypeOK, Loop, InStep, StaysOnline, Online
  <1> QED BY <1>1, Invariance, PTL
=============================================================================
