------------------------------- MODULE Server -------------------------------
(* The life of bnetd: its sockets are opened, the loop of server_process     *)
(* runs until a signal or an admin ends it, everything is put away           *)
(* (src/src/bnetd/server.c, main.c, /shutdown of command.c).                 *)
(*                                                                           *)
(* One turn of the loop is Top, which takes the signals, ends the loop, tells*)
(* the clients and saves, and then a pass over the sockets that are ready.   *)
(* Times are kept as the seconds from now on.  What the pass does with a     *)
(* connection is Session's; how an account is saved is module Accounts'.     *)
EXTENDS Integers, FiniteSets

CONSTANTS
    Conn,
    Addr,         \* the addresses to listen on
    Udp,          \* those of the Battle.net service, which have a UDP socket too
    Delay, Decr,  \* shutdown_delay, shutdown_decr
    AdminDelay,   \* what an admin gives to /shutdown
    Never,        \* sigexittime is 0
    Sync,         \* usersync
    MaxLag        \* bound: seconds between two turns of the loop

\* Nobody can be told of a shutdown that is due before the next turn, nor of one that
\* the two signals taken in that turn bring forward to it.
ASSUME Delays == /\ Delay \in Nat /\ Decr \in Nat \ {0} /\ Never \notin Int
                 /\ MaxLag \in Nat /\ Sync \in Nat
                 /\ AdminDelay \cup {Delay} \subseteq {d \in Nat : d > MaxLag + 2 * Decr}

VARIABLES
    phase,      \* "start", "top", "poll", "pass", "closing", "down", "failed"
    sockets,    \* the sockets it listens on
    signals,    \* signals not yet taken
    exittime,   \* sigexittime
    prevexit,   \* prev_exittime
    conns,      \* connections
    marked,     \* in conn_state_destroy
    told,       \* connections last told of a shutdown, and not of its end
    busy,       \* connections whose account changes when they end
    unsaved,    \* connections that changed their account since it was saved
    since,      \* seconds since prev_savetime
    lag         \* seconds since the last turn

loop == <<signals, exittime, prevexit, since, lag>>
clients == <<conns, marked, told, busy, unsaved>>
vars == <<phase, sockets, loop, clients>>

Signal == {"INT", "TERM", "HUP", "USR1"}
Socket == (Addr \X {"tcp"}) \cup (Udp \X {"udp"})

TypeOK ==
    /\ phase \in {"start", "top", "poll", "pass", "closing", "down", "failed"}
    /\ sockets \subseteq Socket /\ signals \subseteq Signal
    /\ {exittime, prevexit} \subseteq Int \cup {Never}
    /\ marked \subseteq conns /\ told \subseteq conns /\ busy \subseteq conns
    /\ conns \subseteq Conn /\ unsaved \subseteq Conn
    /\ since \in Nat /\ lag \in 0..MaxLag

Init ==
    /\ phase = "start" /\ sockets = {} /\ signals = {}
    /\ exittime = Never /\ prevexit = Never
    /\ conns = {} /\ marked = {} /\ told = {} /\ busy = {} /\ unsaved = {}
    /\ since = 0 /\ lag = 0

-----------------------------------------------------------------------------
(* The start *)

\* An option, the configuration, the log or the privileges are not as they should be.
BadOption ==
    /\ phase = "start" /\ sockets = {}
    /\ phase' = "failed"
    /\ UNCHANGED <<sockets, loop, clients>>

\* The sockets of an address are opened, bound and listened on.
OpenAddr(a) ==
    /\ phase = "start" /\ <<a, "tcp">> \notin sockets
    /\ sockets' = sockets \cup {s \in Socket : s[1] = a}
    /\ UNCHANGED <<phase, loop, clients>>

\* error_poll, error_addr_list: every socket there is is closed.
ErrorAddrList(a) == {}

\* One of the steps fails: socket(), bind() or listen().
OpenFails(a) ==
    /\ phase = "start" /\ <<a, "tcp">> \notin sockets
    /\ sockets' = ErrorAddrList(a)
    /\ phase' = "failed"
    /\ UNCHANGED <<loop, clients>>

StartLoop ==
    /\ phase = "start" /\ sockets = Socket
    /\ phase' = "top"
    /\ UNCHANGED <<sockets, loop, clients>>

-----------------------------------------------------------------------------
(* The environment *)

\* Once it has come, how long ago does not matter, nor do more signals.
Comes(t) == t # Never /\ t <= 0
Later(t) == IF t = Never \/ Comes(t) THEN t ELSE t - 1

Tick ==
    /\ phase \in {"top", "poll", "pass"} /\ lag < MaxLag
    /\ lag' = lag + 1 /\ since' = IF since < Sync THEN since + 1 ELSE since
    /\ exittime' = Later(exittime) /\ prevexit' = Later(prevexit)
    /\ UNCHANGED <<phase, sockets, signals, clients>>

\* A signal is blocked until the next turn.
Raise(s) ==
    /\ phase \in {"top", "poll", "pass"} /\ s \notin signals /\ ~Comes(exittime)
    /\ signals' = signals \cup {s}
    /\ UNCHANGED <<phase, sockets, exittime, prevexit, since, lag, clients>>

-----------------------------------------------------------------------------
(* The turn *)

\* server_quit_wraper: the first signal sets the time, each further one makes it
\* earlier.
\* Mutant: the delay of the first signal is forgotten.
QuitAtOnce(t) == IF t = Never THEN 0 ELSE t - Decr
Quit(t) == IF t = Never THEN Delay ELSE t - Decr
AfterSignals ==
    LET once == Quit(exittime)
    IN CASE Cardinality(signals \cap {"INT", "TERM"}) = 0 -> exittime
         [] Cardinality(signals \cap {"INT", "TERM"}) = 1 -> once
         [] OTHER -> Quit(once)

\* Mutant: only the last client's leaving ends the loop.
ExitsEmpty(t) == t # Never /\ conns = {}
Exits(t) == t # Never /\ (Comes(t) \/ conns = {})

\* accountlist_save and SIGUSR1; an account may be too fresh for the timer.
Saved == IF "USR1" \in signals THEN {unsaved}
         ELSE IF Sync # 0 /\ since >= Sync THEN SUBSET unsaved
         ELSE {{}}

\* Every client is told of a new time, and of the end of it.
Told(t) == IF prevexit = t THEN told ELSE IF t = Never THEN {} ELSE conns

\* The top of the loop: signals, the end, messages, saves, reload.
Top ==
    /\ phase = "top"
    /\ LET t == AfterSignals
       IN /\ ~Exits(t)
          /\ exittime' = t /\ prevexit' = t
          /\ told' = Told(t)
          /\ \E s \in Saved : unsaved' = unsaved \ s
          /\ since' = IF Sync # 0 /\ since >= Sync THEN 0 ELSE since
    /\ phase' = "poll" /\ signals' = {} /\ lag' = 0
    /\ UNCHANGED <<sockets, conns, marked, busy>>

\* Nothing is ready: the rest of the turn is left out, the marked connections stay.
Timeout ==
    /\ phase = "poll"
    /\ phase' = "top"
    /\ UNCHANGED <<sockets, loop, clients>>

Ready ==
    /\ phase = "poll" /\ (conns # {} \/ prevexit = Never)
    /\ phase' = "pass"
    /\ UNCHANGED <<sockets, loop, clients>>

\* Mutant: new clients are taken while the server is about to go down.
AcceptsAlways == TRUE
Accepts == prevexit = Never

Accept(c) ==
    /\ phase = "pass" /\ c \notin conns
    /\ Accepts
    /\ conns' = conns \cup {c}
    /\ UNCHANGED <<phase, sockets, loop, marked, told, busy, unsaved>>

\* What a client may do that matters here: begin something that ends in its account,
\* change its account, be marked.
Play(c) ==
    /\ phase = "pass" /\ c \in conns \ marked
    /\ \/ busy' = busy \cup {c} /\ UNCHANGED <<unsaved, marked>>
       \/ unsaved' = unsaved \cup {c} /\ UNCHANGED <<busy, marked>>
       \/ marked' = marked \cup {c} /\ UNCHANGED <<busy, unsaved>>
    /\ UNCHANGED <<phase, sockets, loop, conns, told>>

\* /shutdown: a delay of nothing cancels.
Shutdown(c, d) ==
    /\ phase = "pass" /\ c \in conns \ marked
    /\ exittime' = d
    /\ UNCHANGED <<phase, sockets, signals, prevexit, since, lag, clients>>

\* conn_destroy of the connections of C: their games end.
Freed(C) ==
    /\ conns' = conns \ C /\ marked' = marked \ C /\ told' = told \ C
    /\ busy' = busy \ C
    /\ unsaved' = unsaved \cup (busy \cap C)

\* A connection is lost while it is served.
HangUp(c) ==
    /\ phase = "pass" /\ c \in conns
    /\ Freed({c})
    /\ UNCHANGED <<phase, sockets, loop>>

\* The connections that were marked when they were come to are freed.
EndPass ==
    /\ phase = "pass"
    /\ Freed(marked)
    /\ phase' = "top"
    /\ UNCHANGED <<sockets, loop>>

-----------------------------------------------------------------------------
(* The end *)

\* Out of the loop: the connections are destroyed, the sockets closed.
LeaveLoop ==
    /\ phase = "top" /\ Exits(AfterSignals)
    /\ phase' = "closing" /\ sockets' = {}
    /\ Freed(conns)
    /\ UNCHANGED loop

\* The end of main: accountlist_destroy saves what was not saved, and what is
\* left of the connections goes after it (connlist_destroy).
ExitMain ==
    /\ phase = "closing"
    /\ phase' = "down"
    /\ unsaved' = busy
    /\ conns' = {} /\ marked' = {} /\ told' = {} /\ busy' = {}
    /\ UNCHANGED <<sockets, loop>>

Turn == Top \/ Timeout \/ EndPass \/ LeaveLoop \/ ExitMain

Next ==
    \/ Turn \/ Ready \/ BadOption \/ StartLoop \/ Tick
    \/ \E a \in Addr : OpenAddr(a) \/ OpenFails(a)
    \/ \E s \in Signal : Raise(s)
    \/ \E c \in Conn : \/ Accept(c) \/ Play(c) \/ HangUp(c)
                       \/ \E d \in AdminDelay \cup {Never} : Shutdown(c, d)

\* The loop turns and time passes, whatever the clients do.
Fairness == WF_vars(Turn) /\ WF_vars(Tick)

Spec == Init /\ [][Next]_vars /\ Fairness

-----------------------------------------------------------------------------
(* Properties *)

\* While the server waits for its sockets, either a shutdown is pending and every
\* client was told and no new one is taken, or none is and nobody believes in one,
\* however often it was set and canceled (prev_exittime against curr_exittime).
TellsTheTruth ==
    phase \in {"poll", "pass"} => told = (IF prevexit = Never THEN {} ELSE conns)

\* The server leaves the loop with clients in it only when each of them was told.
NoSurprise == [][phase = "top" /\ phase' = "closing" => told = conns]_vars

\* Once it is down its sockets are closed and what the clients did is saved, also
\* what their last game was worth when the shutdown ended it; a start that failed
\* leaves no socket open either.
AllPutAway ==
    /\ phase \in {"down", "failed"} => sockets = {}
    /\ phase = "down" => unsaved = {}

\* Whom the server tells what, and what it leaves behind.
Orderly == TypeOK /\ TellsTheTruth /\ AllPutAway

\* A shutdown whose time has begun to run comes, unless it is canceled or an admin
\* puts it off.
Running == exittime \in 1..Delay - 1
Settled == exittime = Never \/ exittime >= Delay \/ phase = "down"
ShutdownHappens == Running ~> Settled
=============================================================================
