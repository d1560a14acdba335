------------------------------ MODULE Session ------------------------------
(* Connections, the accounts they log in to and the watch list: the loop   *)
(* of server_process (src/src/bnetd/server.c), conn_set_account and        *)
(* conn_destroy of connection.c, the login handlers of handle_bnet.c,      *)
(* handle_bot.c (handle_telnet.c is the same) and irc.c, watch.c.          *)
(*                                                                         *)
(* A login never closes another connection itself: it marks the first      *)
(* connection it finds on the account, and the loop frees a marked         *)
(* connection when it comes to it, in this pass or in the next.            *)
EXTENDS Integers, Sequences, FiniteSets

CONSTANTS
    Conn,          \* connections; one that was freed may be accepted again
    NoConn,        \* a NULL connection pointer
    Account,
    NoAccount,     \* a NULL account pointer
    Anyone,        \* the NULL account of a watch on everybody
    Class,         \* "bnet", "bot" or "irc" for each connection
    Admin,         \* accounts with auth_admin
    Watchable,     \* what a client may watch
    KickOldLogin   \* kick_old_login of bnetd.conf

ASSUME ConnAssumption == NoConn \notin Conn /\ Class \in [Conn -> {"bnet", "bot", "irc"}]
ASSUME AccountAssumption == /\ NoAccount \notin Account /\ Anyone \notin Account
                            /\ Admin \subseteq Account
                            /\ Watchable \subseteq Account \cup {Anyone}
ASSUME KickAssumption == KickOldLogin \in BOOLEAN

VARIABLES
    conns,     \* conn_head: the newest connection first
    state,     \* "free" when not in conns; "password" is irc's bot_password
    account,   \* c->account
    left,      \* the connections the loop has still to visit in this pass
    watch,     \* watchlist_head: pairs of an owner and whom it watches
    told       \* the last event of an account its watcher was sent

vars == <<conns, state, account, left, watch, told>>

State == {"free", "connected", "password", "loggedin", "destroy"}

Elems(q) == {q[i] : i \in DOMAIN q}

----------------------------------------------------------------------------
(* connlist_find_connection and watchlist_notify_event.                    *)

Holding(a) == {i \in DOMAIN conns : account[conns[i]] = a}

\* The first connection of the list on the account, marked for destruction or not.
Find(a) ==
    IF Holding(a) = {} THEN NoConn
    ELSE conns[CHOOSE i \in Holding(a) : \A j \in Holding(a) : i <= j]

Watching(w, a, pairs) == <<w, a>> \in pairs \/ <<w, Anyone>> \in pairs

Notified(a, event, pairs) ==
    [w \in Conn |-> IF Watching(w, a, pairs) THEN [told[w] EXCEPT ![a] = event] ELSE told[w]]

----------------------------------------------------------------------------
(* conn_set_account and conn_destroy.                                      *)

\* The connection found first is marked; watchers hear of the login.
SetAccount(c, a, s) ==
    /\ state' = [d \in Conn |-> IF d = c THEN s ELSE IF d = Find(a) THEN "destroy" ELSE state[d]]
    /\ account' = [account EXCEPT ![c] = a]
    /\ told' = Notified(a, "in", watch)
    /\ UNCHANGED <<conns, watch>>

\* Mutant: nobody hears of the logout.
DestroySilent(c) ==
    /\ conns' = [i \in 1..(Len(conns) - 1) |->
                    IF c \in {conns[j] : j \in 1..i} THEN conns[i+1] ELSE conns[i]]
    /\ state' = [state EXCEPT ![c] = "free"]
    /\ account' = [account EXCEPT ![c] = NoAccount]
    /\ watch' = {p \in watch : p[1] # c}
    /\ told' = [told EXCEPT ![c] = [a \in Account |-> "none"]]

\* Its own watches go first; then the remaining watchers hear of the logout.
Destroy(c) ==
    LET pairs == {p \in watch : p[1] # c}
        heard == IF account[c] = NoAccount THEN told ELSE Notified(account[c], "out", pairs)
    IN  /\ conns' = [i \in 1..(Len(conns) - 1) |->
                        IF c \in {conns[j] : j \in 1..i} THEN conns[i+1] ELSE conns[i]]
        /\ state' = [state EXCEPT ![c] = "free"]
        /\ account' = [account EXCEPT ![c] = NoAccount]
        /\ watch' = pairs
        /\ told' = [heard EXCEPT ![c] = [a \in Account |-> "none"]]

----------------------------------------------------------------------------

Init ==
    /\ conns = <<>>
    /\ state = [c \in Conn |-> "free"]
    /\ account = [c \in Conn |-> NoAccount]
    /\ left = <<>>
    /\ watch = {}
    /\ told = [c \in Conn |-> [a \in Account |-> "none"]]

\* sd_accept, between two passes; conn_create puts the connection first.
Accept(c) ==
    /\ left = <<>>
    /\ state[c] = "free"
    /\ conns' = <<c>> \o conns
    /\ state' = [state EXCEPT ![c] = "connected"]
    /\ UNCHANGED <<account, left, watch, told>>

BeginPass ==
    /\ left = <<>>
    /\ conns # <<>>
    /\ left' = conns
    /\ UNCHANGED <<conns, state, account, watch, told>>

\* The loop comes to c ...
Visit(c) ==
    /\ left # <<>>
    /\ Head(left) = c
    /\ left' = Tail(left)

\* Mutant: a marked connection without an account is passed over.
ReapLoggedIn(c) ==
    /\ Visit(c)
    /\ state[c] = "destroy"
    /\ IF account[c] # NoAccount THEN Destroy(c)
       ELSE UNCHANGED <<conns, state, account, watch, told>>

\* ... which is marked and is freed,
Reap(c) ==
    /\ Visit(c)
    /\ state[c] = "destroy"
    /\ Destroy(c)

\* or whose input is read: sd_tcpinput.
Serve(c) == Visit(c) /\ state[c] # "destroy"

\* Nothing to read, or something that changes none of this: a refused login too.
Idle(c) == Serve(c) /\ UNCHANGED <<conns, state, account, watch, told>>

\* A read error or a packet its handler refuses.
Hangup(c) == Serve(c) /\ Destroy(c)

\* Mutant: a login that was read before the mark is handled after it.
BnetLoginLate(c, a) ==
    /\ Visit(c)
    /\ Class[c] = "bnet"
    /\ account[c] = NoAccount
    /\ Find(a) = NoConn \/ KickOldLogin
    /\ SetAccount(c, a, "loggedin")

\* CLIENT_LOGINREQ1 and CLIENT_LOGINREQ2 with the right password.
BnetLogin(c, a) ==
    /\ Serve(c)
    /\ Class[c] = "bnet"
    /\ state[c] = "connected"
    /\ Find(a) = NoConn \/ KickOldLogin
    /\ SetAccount(c, a, "loggedin")

\* Mutant: the account is not looked for.
BotLoginTwice(c, a) ==
    /\ Serve(c)
    /\ Class[c] = "bot"
    /\ state[c] = "connected"
    /\ SetAccount(c, a, "loggedin")

\* A bot or telnet login never kicks.
BotLogin(c, a) ==
    /\ Serve(c)
    /\ Class[c] = "bot"
    /\ state[c] = "connected"
    /\ Find(a) = NoConn
    /\ SetAccount(c, a, "loggedin")

\* irc_welcome takes the account first and asks for the password after.  A PASS before
\* it is never kept: the state it asks for is one irc connections do not have.
IrcWelcome(c, a) ==
    /\ Serve(c)
    /\ Class[c] = "irc"
    /\ state[c] = "connected"
    /\ Find(a) = NoConn
    /\ SetAccount(c, a, "password")

\* NICKSERV identify with the right password.
IrcAuthenticate(c) ==
    /\ Serve(c)
    /\ state[c] = "password"
    /\ state' = [state EXCEPT ![c] = "loggedin"]
    /\ UNCHANGED <<conns, account, watch, told>>

\* /quit, or the message quota exceeded.
Quit(c) ==
    /\ Serve(c)
    /\ state[c] = "loggedin"
    /\ state' = [state EXCEPT ![c] = "destroy"]
    /\ UNCHANGED <<conns, account, watch, told>>

\* /kill finds a connection by account, /killsession finds any.
Kill(c, d) ==
    /\ Serve(c)
    /\ state[c] = "loggedin"
    /\ account[c] \in Admin
    /\ d \in Elems(conns)
    /\ state' = [state EXCEPT ![d] = "destroy"]
    /\ UNCHANGED <<conns, account, watch, told>>

\* /watch and /watchall
Watch(c, a) ==
    /\ Serve(c)
    /\ state[c] = "loggedin"
    /\ watch' = watch \cup {<<c, a>>}
    /\ UNCHANGED <<conns, state, account, told>>

\* /unwatch and /unwatchall; what c was told of those it watches no more is forgotten.
Unwatch(c, a) ==
    /\ Serve(c)
    /\ state[c] = "loggedin"
    /\ <<c, a>> \in watch
    /\ watch' = watch \ {<<c, a>>}
    /\ told' = [told EXCEPT ![c] =
                  [b \in Account |-> IF Watching(c, b, watch') THEN @[b] ELSE "none"]]
    /\ UNCHANGED <<conns, state, account>>

Pass ==
    \/ BeginPass
    \/ \E c \in Conn :
          \/ Reap(c)
          \/ Idle(c)
          \/ Hangup(c)
          \/ \E a \in Account : BnetLogin(c, a) \/ BotLogin(c, a) \/ IrcWelcome(c, a)
          \/ IrcAuthenticate(c)
          \/ Quit(c)
          \/ \E d \in Conn : Kill(c, d)
          \/ \E a \in Watchable : Watch(c, a) \/ Unwatch(c, a)

Next == (\E c \in Conn : Accept(c)) \/ Pass

Spec == Init /\ [][Next]_vars

\* A login, a /kill and a /quit all queue an answer, so that the select of the next
\* pass returns: the passes go on while a marked connection waits.
FairSpec == Spec /\ WF_vars(Pass)

----------------------------------------------------------------------------
(* Properties.                                                             *)

\* Every variable has its type; a connection is listed exactly while it is not free,
\* and once; only a listed connection is on an account or waits for its visit.
TypeOK ==
    /\ conns \in Seq(Conn)
    /\ \A i, j \in DOMAIN conns : conns[i] = conns[j] => i = j
    /\ state \in [Conn -> State]
    /\ \A c \in Conn : state[c] = "free" <=> c \notin Elems(conns)
    /\ account \in [Conn -> Account \cup {NoAccount}]
    /\ \A c \in Conn : /\ state[c] \in {"free", "connected"} => account[c] = NoAccount
                       /\ state[c] \in {"password", "loggedin"} => account[c] # NoAccount
    /\ left \in Seq(Conn) /\ Elems(left) \subseteq Elems(conns)
    /\ watch \subseteq Conn \X (Account \cup {Anyone})
    /\ told \in [Conn -> [Account -> {"none", "in", "out"}]]

\* With kick_old_login off an account is on one connection at most, the marked ones
\* that wait to be freed included.
OneHolder ==
    \A c, d \in Conn : account[c] = account[d] /\ account[c] # NoAccount => c = d

\* A watcher that was last told of a login watches an account in use ...
ToldInIsIn ==
    \A w \in Conn : \A a \in Account :
        told[w][a] = "in" => \E c \in Conn : account[c] = a

\* ... and one that was last told "has logged out" an account not in use.
ToldOutIsOut ==
    \A w \in Conn : \A a \in Account :
        told[w][a] = "out" => \A c \in Conn : account[c] # a

\* So what a watcher was told last is how things are.
TruthfulWatch == ToldInIsIn /\ ToldOutIsOut

\* A marked connection is never served again: no later packet of its own, no login
\* and no answer brings it back; all that is left to it is to be freed.
MarkedIsFinal ==
    [][\A c \in Conn : state[c] = "destroy" =>
          state'[c] = "destroy" \/ (Reap(c) /\ state'[c] = "free")]_vars

\* A marked connection is freed in the end.
MarkedIsFreed == \A c \in Conn : state[c] = "destroy" ~> state[c] = "free"

\* "If someone attempts to log in more than once, should it kick off the old login, or
\* deny the new one?": no account is logged in twice.
LoggedInOnce ==
    \A c, d \in Conn :
        state[c] = "loggedin" /\ state[d] = "loggedin" /\ account[c] = account[d] => c = d
=============================================================================
