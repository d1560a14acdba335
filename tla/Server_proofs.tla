--------------------------- MODULE Server_proofs ---------------------------
(* Server's properties for any number of clients and addresses, any delays   *)
(* that leave time to tell of them, and any bound on a turn.                 *)
EXTENDS Server, TLAPS

Loop == {"top", "poll", "pass"}

\* What was told is true at the top of the loop too, where it is compared with the
\* next time: a pass removes the same connections from both sides.
TruthInLoop == phase \in Loop => told = (IF prevexit = Never THEN {} ELSE conns)

\* Before the loop there is nobody; out of it nobody is left to change an account.
Around ==
    /\ phase \in {"start", "failed"} =>
          /\ conns = {} /\ marked = {} /\ told = {} /\ busy = {} /\ unsaved = {}
          /\ exittime = Never /\ prevexit = Never
    /\ phase \in {"closing", "down", "failed"} => sockets = {}
    /\ phase \in {"closing", "down"} => conns = {} /\ busy = {}
    /\ phase = "down" => unsaved = {}

\* A time nobody was told of yet is too far away to come in this turn, with both
\* signals taken: what has passed of the turn is what it can have lost.
TimeToTell ==
    prevexit = Never /\ phase \in Loop =>
        \/ exittime = Never
        \/ exittime + lag > MaxLag + 2 * Decr

IInv == TypeOK /\ TruthInLoop /\ Around /\ TimeToTell

-----------------------------------------------------------------------------
\* Times stay times, and a time that is none stays none (Later).
LEMMA LaterTime ==
    ASSUME NEW t \in Int \cup {Never}
    PROVE  /\ Later(t) \in Int \cup {Never}
           /\ Later(t) = Never <=> t = Never
           /\ t \in Int /\ t > 0 => Later(t) = t - 1
BY Delays DEF Later, Comes

\* The signals leave the time, set it, or bring it forward at most twice
\* (server_quit_wraper).
LEMMA SignalsTaken ==
    ASSUME TypeOK
    PROVE  /\ AfterSignals \in Int \cup {Never}
           /\ exittime \in Int => AfterSignals \in Int /\ AfterSignals >= exittime - 2 * Decr
           /\ exittime = Never /\ AfterSignals # Never => AfterSignals > 0
<1> DEFINE n == Cardinality(signals \cap {"INT", "TERM"})
<1>1. exittime \in Int \cup {Never}
  BY DEF TypeOK
<1>2. /\ Quit(exittime) \in Int
      /\ exittime \in Int => Quit(exittime) = exittime - Decr
      /\ exittime = Never => Quit(exittime) = Delay
  BY <1>1, Delays DEF Quit
<1>3. Quit(Quit(exittime)) = Quit(exittime) - Decr
  BY <1>2, Delays DEF Quit
<1>4. AfterSignals \in {exittime, Quit(exittime), Quit(Quit(exittime))}
  <2>1. CASE n = 0
    BY <2>1 DEF AfterSignals
  <2>2. CASE n # 0 /\ n = 1
    BY <2>2 DEF AfterSignals
  <2>3. CASE n # 0 /\ n # 1
    BY <2>3 DEF AfterSignals
  <2> QED BY <2>1, <2>2, <2>3
<1>5. Delay > 2 * Decr /\ Decr \in Nat \ {0} /\ Delay \in Nat
  BY Delays
<1> QED BY <1>1, <1>2, <1>3, <1>4, <1>5, Delays

-----------------------------------------------------------------------------
LEMMA InitIInv == Init => IInv
BY Delays DEF Init, IInv, TypeOK, TruthInLoop, Around, TimeToTell, Loop

LEMMA StepIInv == IInv /\ [Next]_vars => IInv'
<1> SUFFICES ASSUME IInv, [Next]_vars PROVE IInv'
  OBVIOUS
<1> USE DEF IInv
<1>1. CASE BadOption
  BY <1>1, Delays DEF BadOption, loop, clients, TypeOK, TruthInLoop, Around, TimeToTell, Loop
<1>2. ASSUME NEW a \in Addr, OpenAddr(a) PROVE IInv'
  BY <1>2, Delays DEF OpenAddr, loop, clients, TypeOK, TruthInLoop, Around, TimeToTell, Loop
<1>3. ASSUME NEW a \in Addr, OpenFails(a) PROVE IInv'
  BY <1>3, Delays DEF OpenFails, ErrorAddrList, loop, clients, TypeOK, TruthInLoop, Around,
     TimeToTell, Loop
<1>4. CASE StartLoop
  BY <1>4, Delays DEF StartLoop, loop, clients, TypeOK, TruthInLoop, Around, TimeToTell, Loop
<1>5. CASE Tick
  <2>1. {exittime, prevexit} \subseteq Int \cup {Never} /\ lag \in 0..MaxLag /\ since \in Nat
    BY DEF TypeOK
  <2>2. /\ Later(exittime) \in Int \cup {Never} /\ Later(prevexit) \in Int \cup {Never}
        /\ Later(exittime) = Never <=> exittime = Never
        /\ Later(prevexit) = Never <=> prevexit = Never
        /\ exittime \in Int /\ exittime > 0 => Later(exittime) = exittime - 1
    BY <2>1, LaterTime
  <2>3. TypeOK'
    BY <1>5, <2>1, <2>2, Delays DEF Tick, clients, TypeOK
  <2>4. TruthInLoop' /\ Around'
    BY <1>5, <2>2 DEF Tick, clients, TruthInLoop, Around, Loop
  <2>5. TimeToTell'
    <3> SUFFICES ASSUME prevexit' = Never, exittime' # Never
                 PROVE  exittime' + lag' > MaxLag + 2 * Decr
      BY DEF TimeToTell
    <3>1. prevexit = Never /\ exittime # Never /\ exittime \in Int
      BY <1>5, <2>1, <2>2 DEF Tick
    <3>2. exittime + lag > MaxLag + 2 * Decr
      BY <1>5, <3>1 DEF Tick, TimeToTell, Loop
    <3>3. lag < MaxLag /\ lag' = lag + 1 /\ exittime' = Later(exittime)
      BY <1>5 DEF Tick
    <3>4. exittime > 0
      BY <2>1, <3>1, <3>2, <3>3, Delays
    <3> QED BY <2>1, <2>2, <3>1, <3>2, <3>3, <3>4, Delays
  <2> QED BY <2>3, <2>4, <2>5
<1>6. ASSUME NEW s \in Signal, Raise(s) PROVE IInv'
  BY <1>6, Delays DEF Raise, clients, TypeOK, TruthInLoop, Around, TimeToTell, Loop
<1>7. CASE Top
  <2>1. AfterSignals \in Int \cup {Never}
    BY SignalsTaken
  <2>2. /\ exittime' = AfterSignals /\ prevexit' = AfterSignals /\ told' = Told(AfterSignals)
        /\ unsaved' \subseteq unsaved /\ since' \in {since, 0}
        /\ phase = "top" /\ phase' = "poll" /\ signals' = {} /\ lag' = 0
        /\ UNCHANGED <<sockets, conns, marked, busy>>
    BY <1>7 DEF Top
  <2>3. told' = (IF prevexit' = Never THEN {} ELSE conns')
    BY <2>2 DEF Told, TruthInLoop, Loop
  <2>4. TypeOK'
    BY <2>1, <2>2, <2>3, Delays DEF TypeOK
  <2>5. TruthInLoop' /\ Around' /\ TimeToTell'
    BY <2>2, <2>3, Delays DEF TruthInLoop, Around, TimeToTell, Loop
  <2> QED BY <2>4, <2>5
<1>8. CASE Timeout \/ Ready
  BY <1>8, Delays DEF Timeout, Ready, loop, clients, TypeOK, TruthInLoop, Around, TimeToTell, Loop
<1>9. ASSUME NEW c \in Conn, Accept(c) PROVE IInv'
  BY <1>9, Delays DEF Accept, Accepts, loop, TypeOK, TruthInLoop, Around, TimeToTell, Loop
<1>10. ASSUME NEW c \in Conn, Play(c) PROVE IInv'
  BY <1>10, Delays DEF Play, loop, TypeOK, TruthInLoop, Around, TimeToTell, Loop
<1>11. ASSUME NEW c \in Conn, NEW d \in AdminDelay \cup {Never}, Shutdown(c, d) PROVE IInv'
  <2>1. d = Never \/ (d \in Nat /\ d > MaxLag + 2 * Decr)
    BY Delays
  <2>2. lag \in Nat
    BY Delays DEF TypeOK
  <2>3. TimeToTell'
    BY <1>11, <2>1, <2>2, Delays DEF Shutdown, clients, TimeToTell, Loop
  <2> QED BY <1>11, <2>1, <2>3, Delays DEF Shutdown, clients, TypeOK, TruthInLoop, Around, Loop
<1>12. ASSUME NEW c \in Conn, HangUp(c) PROVE IInv'
  BY <1>12, Delays DEF HangUp, Freed, loop, TypeOK, TruthInLoop, Around, TimeToTell, Loop
<1>13. CASE EndPass
  BY <1>13, Delays DEF EndPass, Freed, loop, TypeOK, TruthInLoop, Around, TimeToTell, Loop
<1>14. CASE LeaveLoop
  BY <1>14, Delays DEF LeaveLoop, Freed, loop, TypeOK, TruthInLoop, Around, TimeToTell, Loop
<1>15. CASE ExitMain
  BY <1>15, Delays DEF ExitMain, loop, TypeOK, TruthInLoop, Around, TimeToTell, Loop
<1>16. CASE UNCHANGED vars
  BY <1>16 DEF vars, loop, clients, TypeOK, TruthInLoop, Around, TimeToTell, Loop
<1> QED
  BY <1>1, <1>2, <1>3, <1>4, <1>5, <1>6, <1>7, <1>8, <1>9, <1>10, <1>11, <1>12, <1>13, <1>14,
     <1>15, <1>16 DEF Next, Turn

LEMMA Invariance == Spec => []IInv
BY InitIInv, StepIInv, PTL DEF Spec

-----------------------------------------------------------------------------
\* While the server waits for its sockets its clients know of exactly the shutdown that
\* is pending, and once it is down its sockets are closed and everything is saved, the
\* games that the shutdown ended included (server_process, main).
THEOREM StaysOrderly == Spec => []Orderly
<1>1. IInv => Orderly
  BY DEF IInv, TruthInLoop, Around, Loop, Orderly, TellsTheTruth, AllPutAway
<1> QED BY <1>1, Invariance, PTL

\* Nobody is disconnected by a shutdown that was not announced to them, whatever admins and
\* signals set, cancel and bring forward between two turns.
THEOREM NobodySurprised == Spec => NoSurprise
<1>1. ASSUME IInv, [Next]_vars, phase = "top", phase' = "closing" PROVE told = conns
  <2>1. Exits(AfterSignals)
    BY <1>1 DEF Next, Turn, BadOption, OpenAddr, OpenFails, StartLoop, Tick, Raise, Top, Timeout,
       Ready, Accept, Play, Shutdown, HangUp, EndPass, LeaveLoop, ExitMain, vars
  <2>2. CASE conns = {}
    BY <1>1, <2>2 DEF IInv, TypeOK
  <2>3. CASE conns # {}
    <3>1. AfterSignals # Never /\ AfterSignals <= 0
      BY <2>1, <2>3 DEF Exits, Comes
    <3>2. prevexit # Never
      <4> SUFFICES ASSUME prevexit = Never PROVE FALSE
        OBVIOUS
      <4>1. exittime \in Int \cup {Never} /\ lag \in 0..MaxLag
        BY <1>1 DEF IInv, TypeOK
      <4>2. CASE exittime = Never
        BY <1>1, <3>1, <4>2, SignalsTaken, Delays DEF IInv
      <4>3. CASE exittime # Never
        <5>1. exittime \in Int /\ exittime + lag > MaxLag + 2 * Decr
          BY <1>1, <4>1, <4>3 DEF IInv, TimeToTell, Loop
        <5>2. AfterSignals \in Int /\ AfterSignals >= exittime - 2 * Decr
          BY <1>1, <5>1, SignalsTaken DEF IInv
        <5> QED BY <3>1, <4>1, <5>1, <5>2, Delays
      <4> QED BY <4>2, <4>3
    <3> QED BY <1>1, <3>2 DEF IInv, TruthInLoop, Loop
  <2> QED BY <2>2, <2>3
<1>2. IInv /\ [Next]_vars => [phase = "top" /\ phase' = "closing" => told = conns]_vars
  BY <1>1
<1> QED BY <1>2, Invariance, PTL DEF Spec, NoSurprise
=============================================================================
