---------------------------- MODULE TextClients ----------------------------
(* Connections, their timers and the logins of the clients that speak text: *)
(* conn_create, conn_destroy, conn_set_class and the timer callbacks of     *)
(* connection.c, timer.c, /timer of command.c, handle_init.c, and the       *)
(* dialogues of handle_bot.c, handle_telnet.c, handle_irc.c and irc.c.      *)
(*                                                                          *)
(* A connection's memory is used again: the same member of Conn stands for  *)
(* the next connection that is allocated at its place.  The time a timer    *)
(* has left is kept in place of the time it expires.  Marking and freeing   *)
(* the old login of an account are in module Session.                       *)
EXTENDS Integers, Sequences, FiniteSets, SequencesExt

CONSTANTS Conn,
          Word,        \* what a client may send as a name or a password
          NoWord,      \* a NULL string
          Account,     \* accounts, by name: a subset of Word
          PassOf,      \* [Account -> Word \cup {NoWord}]
          BotAccess,   \* accounts with auth_botlogin
          Locked,      \* accounts with auth_lock
          Latency,     \* seconds between two pings (latency)
          NullMsg,     \* seconds between two null messages, 0 for none
          Delays,      \* bound: what a client gives to /timer
          MaxLag       \* bound: seconds between two checks of the timers

VARIABLES class,       \* "none" while the memory is free
          state,
          botuser,     \* the name the client gave
          user,        \* an irc client has sent USER
          account,
          prompt,      \* what a bot was last asked for
          timers,      \* timerlist_head, the newest first
          lag          \* seconds since the last check

vars == <<class, state, botuser, user, account, prompt, timers, lag>>

Caret == "^D"
TextBot == {"bot", "telnet"}

----------------------------------------------------------------------------
(* timer.c *)

Timer(c, kind, n) == [owner |-> c, kind |-> kind, left |-> n]
AddTimer(c, kind, n) == timers' = <<Timer(c, kind, n)>> \o timers
\* Mutant: the timers stay.
DelAllTimersNone(c) == timers
DelAllTimers(c) == SelectSeq(timers, LAMBDA t : t.owner # c)

\* The pings and null messages start again from the time they were due, so a late
\* check does not move those that follow.
Due(t) == t.left < 0
Period(t) == IF t.kind = "latency" THEN Latency ELSE NullMsg
Again(t) == t.kind # "user"
Rearmed == SelectSeq(timers, LAMBDA t : Due(t) /\ Again(t))

CheckTimers ==
  /\ lag > 0
  /\ lag' = 0
  /\ timers' = [i \in 1..Len(Rearmed) |->
                  LET t == Reverse(Rearmed)[i] IN [t EXCEPT !.left = @ + Period(t)]]
               \o SelectSeq(timers, LAMBDA t : ~Due(t))
  /\ UNCHANGED <<class, state, botuser, user, account, prompt>>

\* A second passes; the loop has not yet come to the timers.
Tick ==
  /\ lag < MaxLag
  /\ lag' = lag + 1
  /\ timers' = [i \in DOMAIN timers |-> [timers[i] EXCEPT !.left = @ - 1]]
  /\ UNCHANGED <<class, state, botuser, user, account, prompt>>

----------------------------------------------------------------------------
(* Connections *)

Init == /\ class = [c \in Conn |-> "none"] /\ state = [c \in Conn |-> "initial"]
        /\ botuser = [c \in Conn |-> NoWord] /\ user = [c \in Conn |-> FALSE]
        /\ account = [c \in Conn |-> NoWord] /\ prompt = [c \in Conn |-> "none"]
        /\ timers = <<>> /\ lag = 0

\* conn_set_class with what it sends: pings for bnet, null messages for a bot.
SetClass(c, k) ==
  /\ class' = [class EXCEPT ![c] = k]
  /\ state' = [state EXCEPT ![c] = IF k = "init" THEN "initial" ELSE "connected"]
  /\ CASE k = "bnet" -> AddTimer(c, "latency", Latency)
       [] k = "bot" /\ NullMsg > 0 -> AddTimer(c, "null", NullMsg)
       [] OTHER -> UNCHANGED timers
  /\ prompt' = [prompt EXCEPT ![c] = IF k \in TextBot THEN "username" ELSE "none"]
  /\ UNCHANGED <<botuser, user, account, lag>>

\* sd_accept: the listening address may decide the class.
Accept(c) == /\ class[c] = "none"
             /\ \E k \in {"init", "telnet", "irc"} : SetClass(c, k)

\* handle_init_packet, and the first byte of a connection that is deferred.
InitConn(c) == /\ class[c] = "init"
               /\ \E k \in {"bnet", "bot", "telnet"} : SetClass(c, k)

\* conn_destroy
Destroy(c) ==
  /\ class[c] # "none"
  /\ class' = [class EXCEPT ![c] = "none"] /\ state' = [state EXCEPT ![c] = "initial"]
  /\ botuser' = [botuser EXCEPT ![c] = NoWord] /\ user' = [user EXCEPT ![c] = FALSE]
  /\ account' = [account EXCEPT ![c] = NoWord] /\ prompt' = [prompt EXCEPT ![c] = "none"]
  /\ timers' = DelAllTimers(c)
  /\ UNCHANGED lag

Online(w) == \E c \in Conn : account[c] = w

\* A login of a game client; the old login of its account is a matter of Session.
BnetLogin(c, a) ==
  /\ class[c] = "bnet" /\ state[c] = "connected" /\ ~Online(a)
  /\ state' = [state EXCEPT ![c] = "loggedin"] /\ account' = [account EXCEPT ![c] = a]
  /\ UNCHANGED <<class, botuser, user, prompt, timers, lag>>

\* /timer; irc clients have no commands.
SetTimer(c, n) ==
  /\ class[c] \in TextBot \cup {"bnet"} /\ state[c] = "loggedin"
  /\ ~\E i \in DOMAIN timers : timers[i].owner = c /\ timers[i].kind = "user"
  /\ AddTimer(c, "user", n)
  /\ UNCHANGED <<class, state, botuser, user, account, prompt, lag>>

----------------------------------------------------------------------------
(* The dialogue of a bot and of a telnet client: a line at a time. *)

Ask(c, s, w) ==
  /\ state' = [state EXCEPT ![c] = s] /\ prompt' = [prompt EXCEPT ![c] = s]
  /\ botuser' = [botuser EXCEPT ![c] = w]
  /\ UNCHANGED <<class, user, account, timers, lag>>

\* The first line may be a lone ^D, which is not answered.
FirstLine(c, w) ==
  /\ state[c] = "connected"
  /\ IF w = Caret
     THEN /\ state' = [state EXCEPT ![c] = "username"]
          /\ UNCHANGED <<class, botuser, user, account, prompt, timers, lag>>
     ELSE Ask(c, "password", w)

UsernameLine(c, w) ==
  /\ state[c] = "username"
  /\ Ask(c, "password", w)

\* An account without a password is asked neither for one nor for bot access.
BotMay(a, w) ==
  /\ a \in Account /\ ~Online(a)
  /\ PassOf[a] # NoWord => PassOf[a] = w /\ a \in BotAccess /\ a \notin Locked

PasswordLine(c, w) ==
  /\ state[c] = "password"
  /\ IF BotMay(botuser[c], w)
     THEN /\ state' = [state EXCEPT ![c] = "loggedin"]
          /\ account' = [account EXCEPT ![c] = botuser[c]]
          /\ prompt' = [prompt EXCEPT ![c] = "none"]
          /\ UNCHANGED <<class, botuser, user, timers, lag>>
     ELSE Ask(c, "username", botuser[c])

\* The two handlers are the same but for the echo.
BotLine(c, w) == class[c] = "bot" /\ (FirstLine(c, w) \/ UsernameLine(c, w))
BotPassword(c, w) == class[c] = "bot" /\ PasswordLine(c, w)
TelnetLine(c, w) == class[c] = "telnet" /\ (FirstLine(c, w) \/ UsernameLine(c, w))
TelnetPassword(c, w) == class[c] = "telnet" /\ PasswordLine(c, w)

----------------------------------------------------------------------------
(* irc *)

\* handle_irc_line: the first line of a connection still in its initial state
\* starts the pings.
StartPings(c) ==
  IF state[c] = "initial" THEN AddTimer(c, "latency", Latency) ELSE UNCHANGED timers
StateOfLine(c) == IF state[c] = "initial" THEN "username" ELSE state[c]

\* irc_welcome: the account is taken before any password is asked for.  A name
\* nobody has leaves the connection without an account; a name in use leaves it
\* as it was.
Welcome(c, w) ==
  IF Online(w) THEN /\ state' = [state EXCEPT ![c] = StateOfLine(c)]
                    /\ UNCHANGED account
                    /\ user' = [user EXCEPT ![c] = TRUE]
  ELSE /\ state' = [state EXCEPT ![c] = "password"]
       /\ account' = [account EXCEPT ![c] = IF w \in Account THEN w ELSE NoWord]
       /\ user' = [user EXCEPT ![c] = w \notin Account]

Nick(c, w) ==
  /\ class[c] = "irc" /\ botuser[c] = NoWord
  /\ botuser' = [botuser EXCEPT ![c] = w]
  /\ IF user[c] THEN Welcome(c, w)
     ELSE state' = [state EXCEPT ![c] = StateOfLine(c)] /\ UNCHANGED <<user, account>>
  /\ StartPings(c)
  /\ UNCHANGED <<class, prompt, lag>>

User(c) ==
  /\ class[c] = "irc" /\ ~user[c]
  /\ IF botuser[c] # NoWord THEN Welcome(c, botuser[c])
     ELSE /\ state' = [state EXCEPT ![c] = StateOfLine(c)]
          /\ user' = [user EXCEPT ![c] = TRUE] /\ UNCHANGED account
  /\ StartPings(c)
  /\ UNCHANGED <<class, botuser, prompt, lag>>

\* irc_authenticate: without an account, or with one without a password, the hash
\* compared with is not initialised.
Identify(c, w) ==
  /\ class[c] = "irc" /\ state[c] = "password"
  /\ account[c] \in Account /\ PassOf[account[c]] # NoWord => PassOf[account[c]] = w
  /\ state' = [state EXCEPT ![c] = "loggedin"]
  /\ UNCHANGED <<class, botuser, user, account, prompt, timers, lag>>

Next == \/ Tick \/ CheckTimers
        \/ \E c \in Conn :
             \/ Accept(c) \/ InitConn(c) \/ Destroy(c) \/ User(c)
             \/ \E a \in Account : BnetLogin(c, a)
             \/ \E n \in Delays : SetTimer(c, n)
             \/ \E w \in Word : \/ BotLine(c, w) \/ BotPassword(c, w)
                                \/ TelnetLine(c, w) \/ TelnetPassword(c, w)
                                \/ Nick(c, w) \/ Identify(c, w)

Spec == Init /\ [][Next]_vars

\* Time passes, and the loop, which never waits longer than its poll interval,
\* comes to the timers.
FairSpec == Spec /\ WF_vars(Tick) /\ WF_vars(CheckTimers)

----------------------------------------------------------------------------
(* Properties *)

\* Every variable keeps to its type, and the memory that is free is blank.
TypeOK ==
  /\ class \in [Conn -> {"none", "init", "bnet", "irc"} \cup TextBot]
  /\ state \in [Conn -> {"initial", "connected", "username", "password", "loggedin"}]
  /\ botuser \in [Conn -> Word \cup {NoWord}] /\ user \in [Conn -> BOOLEAN]
  /\ account \in [Conn -> Account \cup {NoWord}]
  /\ prompt \in [Conn -> {"none", "username", "password"}]
  /\ \A i \in DOMAIN timers : timers[i].owner \in Conn /\ timers[i].kind \in {"latency", "null", "user"}
  /\ lag \in 0..MaxLag
  /\ \A c \in Conn : class[c] = "none" => botuser[c] = NoWord /\ ~user[c] /\ account[c] = NoWord

Of(c, kind) == {i \in DOMAIN timers : timers[i].owner = c /\ timers[i].kind = kind}

\* No timer outlives its connection, so none rings at the connection that gets its
\* memory next; a Battle.net client is pinged and a bot is sent null messages at one pace,
\* by one timer, however late the checks come (timerlist_del_all_timers in conn_destroy,
\* conn_test_latency, conn_send_nullmsg).
\* An irc client should be pinged too (conn_test_latency, handle_irc_line), and nothing
\* is asked of that here: sd_accept has left the state in which the pings would begin.
TimersMatch ==
  \A c \in Conn :
    /\ class[c] \in {"none", "init"} => DelAllTimers(c) = timers
    /\ class[c] # "irc" =>
         Cardinality(Of(c, "latency")) = (IF class[c] = "bnet" THEN 1 ELSE 0)
    /\ Cardinality(Of(c, "null")) = (IF class[c] = "bot" /\ NullMsg > 0 THEN 1 ELSE 0)

\* What a bot was last asked for is what its next line is taken for, after any
\* sequence of failed logins (handle_bot_packet, handle_telnet_packet).
AskedForRight ==
  \A c \in Conn : class[c] \in TextBot =>
    CASE state[c] \in {"connected", "username"} -> prompt[c] = "username"
      [] state[c] = "password" -> prompt[c] = "password" /\ botuser[c] # NoWord
      [] OTHER -> prompt[c] = "none"

\* A timer a player has set is still to ring.
TimerSet(c) == Of(c, "user") # {}
=============================================================================
