----------------------------- MODULE BitsLogins -----------------------------
(***************************************************************************)
(* Logins in a cluster of bnetd servers (BITS).  The servers form a tree;  *)
(* the master keeps the list of the sessions of the whole cluster, every   *)
(* other server a copy of it that the master's broadcasts keep up to date. *)
(* A server that is not the master asks it before it lets a client in, and *)
(* keeps a query with the client and its packet until the answer arrives.  *)
(* Accounts are loaded here when a password is asked for; module           *)
(* BitsAccounts loads them. An account that has no password, or that a     *)
(* server has not loaded yet when LOGINREQ2 names it, is let in by that    *)
(* server alone ("unasked"): the master never hears of such a login.       *)
(***************************************************************************)
EXTENDS Naturals, Sequences, FiniteSets, SequencesExt

CONSTANTS
    Server, Master,     \* the servers, and the one at the root of the tree
    Up,                 \* the uplink of every server but the master
    Account, NoAccount,
    NoPassword,         \* the accounts that may have no password
    Client, On,         \* the clients, and the server each connects to
    MaxSession,         \* bound: session ids the master hands out
    MayTimeOut          \* whether a query may outlive its time to live

ASSUME BitsTree == /\ Master \in Server
                   /\ Up \in [Server \ {Master} -> Server]
                   /\ On \in [Client -> Server]
                   /\ NoAccount \notin Account

VARIABLES
    joined,     \* the servers whose uplink is logged in
    wire,       \* wire[<<x, y>>]: BITS packets on their way from x to y
    logins,     \* logins[s]: bits_loginlist of server s
    nextSid,    \* current_sessionid of the master
    query,      \* the loginreq_2 queries: the client and account of each
    client      \* a client's state, account and session id

vars == <<joined, wire, logins, nextSid, query, client>>

NoSession == 0
Links == {<<x, Up[x]>> : x \in Server \ {Master}} \cup
         {<<Up[x], x>> : x \in Server \ {Master}}

(* The parties and their messages. *)
Loginreq(c, a)     == [type |-> "loginreq", who |-> c, acct |-> a]
Loginreply(c, sid) == [type |-> "loginreply", who |-> c, sid |-> sid]
Login(e)           == [type |-> "login", entry |-> e]
Logout(sid)        == [type |-> "logout", sid |-> sid]
MasterLogout(sid)  == [type |-> "masterlogout", sid |-> sid]
Entry(a, host, sid) == [acct |-> a, host |-> host, sid |-> sid]

RECURSIVE Below(_)
Below(s) == {s} \cup UNION {Below(x) : x \in {y \in Server \ {Master} : Up[y] = s}}
Children(s) == {x \in joined \ {Master} : Up[x] = s}

Dequeue(w, l) == [w EXCEPT ![l] = Tail(@)]
Put(w, l, m)  == [w EXCEPT ![l] = Append(@, m)]
(* send_bits_packet, its three ways: up to the master, down the route to   *)
(* one server, and to every server below.                                  *)
ToMaster(w, s, m) == Put(w, <<s, Up[s]>>, m)
ToServer(w, s, d, m) ==
    Put(w, <<s, CHOOSE x \in Children(s) : d \in Below(x)>>, m)
Broadcast(w, s, m) ==
    [l \in DOMAIN w |-> IF \E x \in Children(s) : l = <<s, x>>
                        THEN Append(w[l], m) ELSE w[l]]

(* bits_loginlist_add and bits_loginlist_del on one list. *)
MayAdd(list, a) == \A e \in list : e.acct # a
Add(list, e)    == IF MayAdd(list, e.acct) THEN list \cup {e} ELSE list
Del(list, sid)  == {e \in list : e.sid # sid}

LoggedInOn(s, a) == \E d \in Client : /\ On[d] = s /\ client[d].acct = a
                                      /\ client[d].st \in {"in", "unasked"}

TypeOK ==
    /\ joined \subseteq Server
    /\ DOMAIN wire = Links
    /\ logins \in [Server -> SUBSET [acct : Account, host : Server,
                                     sid : 1..MaxSession]]
    /\ nextSid \in 1..(MaxSession + 1)
    /\ query \subseteq [who : Client, acct : Account]
    /\ client \in [Client -> [st : {"out", "asking", "in", "unasked", "gone"},
                              acct : Account \cup {NoAccount},
                              sid : 0..MaxSession]]

Init ==
    /\ joined = {Master}
    /\ wire = [l \in Links |-> <<>>]
    /\ logins = [s \in Server |-> {}]
    /\ nextSid = 1
    /\ query = {}
    /\ client = [c \in Client |-> [st |-> "out", acct |-> NoAccount, sid |-> NoSession]]

-----------------------------------------------------------------------------
(* A server logs in to its uplink, which sends it the whole login list.    *)
Join(s) ==
    /\ s \notin joined /\ Up[s] \in joined
    /\ joined' = joined \cup {s}
    /\ wire' = [wire EXCEPT ![<<Up[s], s>>] =
                   @ \o SetToSeq({Login(e) : e \in logins[Up[s]]})]
    /\ UNCHANGED <<logins, nextSid, query, client>>

(* LOGINREQ1 with the right password, at the master: it enters the list    *)
(* itself, or refuses when the account is in it already; the connection    *)
(* keeps the session id even then.                                         *)
LoginAtMaster(c, a) ==
    /\ On[c] = Master /\ client[c].st = "out" /\ nextSid <= MaxSession
    /\ ~LoggedInOn(Master, a)
    /\ nextSid' = nextSid + 1
    /\ IF MayAdd(logins[Master], a)
       THEN LET e == Entry(a, Master, nextSid) IN
            /\ logins' = [logins EXCEPT ![Master] = Add(@, e)]
            /\ wire' = Broadcast(wire, Master, Login(e))
            /\ client' = [client EXCEPT ![c] = [st |-> "in", acct |-> a, sid |-> nextSid]]
       ELSE /\ client' = [client EXCEPT ![c].sid = nextSid]
            /\ UNCHANGED <<logins, wire>>
    /\ UNCHANGED <<joined, query>>

(* The same at another server: a query waits for the master's answer.      *)
LoginAtSlave(c, a) ==
    /\ On[c] \in joined \ {Master} /\ client[c].st = "out" /\ nextSid <= MaxSession
    /\ ~LoggedInOn(On[c], a)
    /\ client' = [client EXCEPT ![c].st = "asking"]
    /\ query' = query \cup {[who |-> c, acct |-> a]}
    /\ wire' = ToMaster(wire, On[c], Loginreq(c, a))
    /\ UNCHANGED <<joined, logins, nextSid>>

(* LOGINREQ1 or LOGINREQ2 for an account without password: the connection  *)
(* gets the account, and nobody is asked or told. A dummy whose attributes *)
(* are still on their way has none, and LOGINREQ2 does not wait for them.  *)
LoginWithoutPassword(c, a) ==
    /\ On[c] \in joined /\ client[c].st = "out"
    /\ ~LoggedInOn(On[c], a)
    /\ On[c] = Master => a \in NoPassword
    /\ client' = [client EXCEPT ![c].st = "unasked", ![c].acct = a]
    /\ UNCHANGED <<joined, wire, logins, nextSid, query>>

Listed(sid) == \E e \in logins[Master] : e.sid = sid

(* The connection is destroyed: the master is told when it had an account. *)
(* The queries that point at it stay.                                      *)
HangUp(c) ==
    /\ client[c].st # "gone"
    /\ client' = [client EXCEPT ![c].st = "gone"]
    /\ IF client[c].st \notin {"in", "unasked"} THEN UNCHANGED <<wire, logins>>
       ELSE IF On[c] = Master
       THEN /\ logins' = [logins EXCEPT ![Master] = Del(@, client[c].sid)]
            /\ wire' = IF Listed(client[c].sid)
                       THEN Broadcast(wire, Master, MasterLogout(client[c].sid)) ELSE wire
       ELSE /\ wire' = ToMaster(wire, On[c], Logout(client[c].sid))
            /\ UNCHANGED logins
    /\ UNCHANGED <<joined, nextSid, query>>

(* query_tick: the handler has no case for a timeout, so the query goes    *)
(* and the client is told nothing.                                         *)
QueryTimesOut(q) ==
    /\ MayTimeOut /\ q \in query
    /\ query' = query \ {q}
    /\ UNCHANGED <<joined, wire, logins, nextSid, client>>

-----------------------------------------------------------------------------
(* handle_bits_packet at y: what is for the master goes up ...             *)
PassUp(x, y, m) ==
    /\ m.type \in {"loginreq", "logout"} /\ y # Master
    /\ wire' = ToMaster(Dequeue(wire, <<x, y>>), y, m)
    /\ UNCHANGED <<logins, nextSid, query, client>>

(* ... and the master decides a login: the session id is used up and the   *)
(* answer sent whether the account enters the list or not.                 *)
OnLoginreq(x, m) ==
    /\ m.type = "loginreq"
    /\ nextSid' = nextSid + 1
    /\ LET granted == MayAdd(logins[Master], m.acct)
           e == Entry(m.acct, On[m.who], nextSid)
           w == Dequeue(wire, <<x, Master>>)
       IN /\ nextSid <= MaxSession
          /\ logins' = [logins EXCEPT ![Master] = Add(@, e)]
          /\ wire' = ToServer(IF granted THEN Broadcast(w, Master, Login(e)) ELSE w,
                              Master, On[m.who],
                              Loginreply(m.who, IF granted THEN nextSid ELSE NoSession))
    /\ UNCHANGED <<query, client>>

OnLogout(x, m) ==
    /\ m.type = "logout"
    /\ logins' = [logins EXCEPT ![Master] = Del(@, m.sid)]
    /\ wire' = IF Listed(m.sid)
               THEN Broadcast(Dequeue(wire, <<x, Master>>), Master, MasterLogout(m.sid))
               ELSE Dequeue(wire, <<x, Master>>)
    /\ UNCHANGED <<nextSid, query, client>>

(* A broadcast is passed on below and applied to the copy of the list.     *)
OnLogin(x, y, m) ==
    /\ m.type = "login"
    /\ wire' = Broadcast(Dequeue(wire, <<x, y>>), y, m)
    /\ logins' = [logins EXCEPT ![y] = Add(@, m.entry)]
    /\ UNCHANGED <<nextSid, query, client>>

OnMasterLogout(x, y, m) ==
    /\ m.type = "masterlogout"
    /\ wire' = Broadcast(Dequeue(wire, <<x, y>>), y, m)
    /\ logins' = [logins EXCEPT ![y] = Del(@, m.sid)]
    /\ UNCHANGED <<nextSid, query, client>>

(* The answer, passed on or consumed by the query it names.  The handler   *)
(* runs the login packet again, which looks for the account among its own  *)
(* connections once more.  When the query is gone the answer is dropped;   *)
(* when the client is gone the handler works on freed memory, which here   *)
(* changes nothing the cluster sees.                                       *)
OnLoginreply(x, y, m) ==
    /\ m.type = "loginreply"
    /\ IF On[m.who] # y
       THEN /\ wire' = ToServer(Dequeue(wire, <<x, y>>), y, On[m.who], m)
            /\ UNCHANGED <<query, client>>
       ELSE /\ wire' = Dequeue(wire, <<x, y>>)
            /\ query' = {q \in query : q.who # m.who}
            /\ \/ /\ client[m.who].st # "asking" \/ \A q \in query : q.who # m.who
                  /\ UNCHANGED client
               \/ \E q \in query :
                  /\ q.who = m.who /\ client[m.who].st = "asking"
                  /\ client' = [client EXCEPT ![m.who] =
                         IF m.sid # NoSession /\ ~LoggedInOn(y, q.acct)
                         THEN [st |-> "in", acct |-> q.acct, sid |-> m.sid]
                         ELSE [st |-> "out", acct |-> NoAccount, sid |-> m.sid]]
    /\ UNCHANGED <<logins, nextSid>>

Receive(l) ==
    /\ wire[l] # <<>>
    /\ LET m == Head(wire[l]) IN
       \/ PassUp(l[1], l[2], m)
       \/ l[2] = Master /\ OnLoginreq(l[1], m)
       \/ l[2] = Master /\ OnLogout(l[1], m)
       \/ OnLogin(l[1], l[2], m)
       \/ OnMasterLogout(l[1], l[2], m)
       \/ OnLoginreply(l[1], l[2], m)
    /\ UNCHANGED joined

Next ==
    \/ \E s \in Server \ {Master} : Join(s)
    \/ \E c \in Client, a \in Account : LoginAtMaster(c, a) \/ LoginAtSlave(c, a)
                                    \/ LoginWithoutPassword(c, a)
    \/ \E c \in Client : HangUp(c)
    \/ \E q \in query : QueryTimesOut(q)
    \/ \E l \in Links : Receive(l)

Spec == Init /\ [][Next]_vars /\ \A l \in Links : WF_vars(Receive(l))

-----------------------------------------------------------------------------
Quiet == \A l \in Links : wire[l] = <<>>

(* At most one client of the whole cluster is logged in to an account with *)
(* its password, whichever servers they use and however their requests     *)
(* cross: the promise of bits_loginlist_add's search for the uid. Clients  *)
(* let in without a password are on nobody's list, and not kept apart.     *)
OneLogin ==
    \A c, d \in Client :
        client[c].st = "in" /\ client[d].st = "in" /\ client[c].acct = client[d].acct
        => c = d

(* The session of every client that is logged in with a password stays on  *)
(* the master's list, with its account and its server, until it leaves: no *)
(* logout of another session, or of a client without one, takes it off.    *)
KnownToMaster ==
    \A c \in Client : client[c].st = "in"
        => Entry(client[c].acct, On[c], client[c].sid) \in logins[Master]

(* When nothing is under way the list of every server that has joined, at  *)
(* whatever moment it did, is the master's.                                *)
ListsAgree == Quiet => \A s \in joined : logins[s] = logins[Master]
=============================================================================
