---------------------------- MODULE BitsAccounts ----------------------------
(***************************************************************************)
(* Account sharing in a cluster of bnetd servers (BITS).  Only the master  *)
(* has an account database.  Another server locks an account it needs: it  *)
(* makes a dummy, sends the lock request up (each server on the way keeps  *)
(* a query and changes the request's id), and loads the attributes from    *)
(* the master when the lock is acknowledged.  Every server keeps, for each *)
(* BITS connection, the list of the accounts locked over it, and passes    *)
(* the changes of an account's attributes to those connections.            *)
(***************************************************************************)
EXTENDS Naturals, Sequences, SequencesExt

CONSTANTS
    Server, Master, Up,     \* the tree of servers: every other one's uplink
    Account, Stored,        \* the names, and those in the master's database
    Writer,                 \* the servers that change attributes
    Expiring,               \* the servers whose accounts grow old
    NoServer, NoAccount,    \* no connection of a query; the name of no account (uid 0)
    MaxQuery, MaxChange,    \* bounds: queries of a server; attribute changes
    MayTimeOut              \* whether a query may outlive its time to live

VARIABLES
    state,      \* state[s][a]: bits_state of the account in s's list, or "none"
    loaded,     \* loaded[s][a]: whether its attributes have been loaded
    attr,       \* attr[s][a]: its attributes, as the number of their last change
    locklist,   \* locklist[<<s, x>>]: the accounts locked over s's connection with x
    query,      \* the va_lock queries
    nextQid,    \* the next query id of every server
    changes,    \* who made the attribute changes, in their order
    wire,       \* wire[<<x, y>>]: packets on their way
    fresh,      \* the undecided <<s, a>> asked for since the last save pass of s
    forgotten,  \* history: the accounts unlocked or dropped while still needed below
    crossed     \* history: those with a change and another change or a copy on their
                \* way at the same time

vars == <<state, loaded, attr, locklist, query, nextQid, changes, wire, fresh, forgotten,
          crossed>>

Slave == Server \ {Master}
Links == {<<x, Up[x]>> : x \in Slave} \cup {<<Up[x], x>> : x \in Slave}

Lock(q, a)         == [type |-> "lock", qid |-> q, acct |-> a]
LockAck(q, ok, a)  == [type |-> "lockack", qid |-> q, ok |-> ok, acct |-> a]
Unlock(a)          == [type |-> "unlock", acct |-> a]
GetAllattr(a, src) == [type |-> "getallattr", acct |-> a, src |-> src]
Allattr(a, v, dst) == [type |-> "allattr", acct |-> a, val |-> v, dst |-> dst]
SetAttr(a, v)      == [type |-> "setattr", acct |-> a, val |-> v]

RECURSIVE Below(_)
Below(s) == {s} \cup UNION {Below(x) : x \in {y \in Slave : Up[y] = s}}
Toward(s, d) == CHOOSE x \in Slave : Up[x] = s /\ d \in Below(x)

Put(w, x, y, m) == [w EXCEPT ![<<x, y>>] = Append(@, m)]
Dequeue(w, l)   == [w EXCEPT ![l] = Tail(@)]

(* What is under way, and the accounts of which a change meets another      *)
(* one's change there, or a slave's change meets a copy of the account.     *)
InFlight(w) == UNION {ToSet(w[l]) : l \in Links}
Crossing(w, by) ==
    {a \in Account : \E m, k \in {n \in InFlight(w) : n.acct = a} :
        /\ m.type = "setattr"
        /\ \/ k.type = "setattr" /\ by[k.val] # by[m.val]
           \/ k.type \in {"getallattr", "allattr"} /\ by[m.val] # Master}

(* bits_va_locklist_add, and bits_va_locklist_del: an entry is put in front *)
(* without the back pointer of its successor being set, so the one that is  *)
(* taken out always looks like the first and the head moves past it.        *)
ListAdd(list, a) == IF Contains(list, a) THEN list ELSE <<a>> \o list
ListDel(list, a) ==
    IF Contains(list, a)
    THEN SubSeq(list, SelectInSeq(list, LAMBDA x : x = a) + 1, Len(list))
    ELSE list
(* bits_va_locklist_is_locked_by: some BITS connection of s, the uplink too. *)
IsLockedBy(ll, s, a) == \E l \in Links : l[1] = s /\ Contains(ll[l], a)

(* What taking a out of a list drops besides, and whether s still needs a   *)
(* locked above: it holds it, or a server below does or has asked for it.   *)
Dropped(list, a) == ToSet(list) \ (ToSet(ListDel(list, a)) \cup {a})
Needed(st, ll, s, a) ==
    \/ a \in Account /\ st[s][a] = "valid"
    \/ \E x \in Slave : Up[x] = s /\ Contains(ll[<<s, x>>], a)
    \/ \E q \in query : q.at = s /\ q.acct = a

(* send_bits_packet_for_account: the uplink, and who has it locked.         *)
ForAccount(w, s, a, m, from) ==
    [l \in Links |-> IF /\ \E x \in Server : /\ <<s, x>> = l /\ x # from
                                             /\ \/ s # Master /\ x = Up[s]
                                                \/ Contains(locklist[l], a)
                     THEN Append(w[l], m) ELSE w[l]]

TypeOK ==
    /\ state \in [Slave -> [Account -> {"none", "pending", "valid", "invalid"}]]
    /\ loaded \in [Slave -> [Account -> BOOLEAN]]
    /\ attr \in [Server -> [Account -> 0..MaxChange]]
    /\ fresh \subseteq {<<s, a>> \in Slave \X Account : state[s][a] = "pending"}
    /\ forgotten \cup crossed \subseteq Account
    /\ DOMAIN locklist = Links
    /\ \A l \in Links : ToSet(locklist[l]) \subseteq Account
    /\ query \subseteq [at : Slave, qid : 1..MaxQuery, acct : Account,
                        from : Slave \cup {NoServer}, asked : 0..MaxQuery,
                        listed : BOOLEAN]
    /\ nextQid \in [Slave -> 1..(MaxQuery + 1)]
    /\ Len(changes) <= MaxChange /\ ToSet(changes) \subseteq Server

Init ==
    /\ state = [s \in Slave |-> [a \in Account |-> "none"]]
    /\ loaded = [s \in Slave |-> [a \in Account |-> FALSE]]
    /\ attr = [s \in Server |-> [a \in Account |-> 0]]
    /\ locklist = [l \in Links |-> <<>>]
    /\ query = {}
    /\ nextQid = [s \in Slave |-> 1]
    /\ changes = <<>>
    /\ wire = [l \in Links |-> <<>>]
    /\ fresh = {} /\ forgotten = {} /\ crossed = {}

-----------------------------------------------------------------------------
(* bits_va_lock_account, from a login or a command that names an account   *)
(* the server does not know.  accountlist_add_account refuses the dummy    *)
(* while another account without a uid is in the list.                     *)
LockAccount(s, a) ==
    /\ state[s][a] = "none" /\ nextQid[s] <= MaxQuery
    /\ LET listed == \A b \in Account : state[s][b] \notin {"pending", "invalid"} IN
       /\ state' = IF listed THEN [state EXCEPT ![s][a] = "pending"] ELSE state
       /\ query' = query \cup {[at |-> s, qid |-> nextQid[s], acct |-> a,
                                from |-> NoServer, asked |-> 0, listed |-> listed]}
       /\ fresh' = IF listed THEN fresh \cup {<<s, a>>} ELSE fresh
    /\ nextQid' = [nextQid EXCEPT ![s] = @ + 1]
    /\ wire' = Put(wire, s, Up[s], Lock(nextQid[s], a))
    /\ UNCHANGED <<loaded, attr, locklist, changes, forgotten, crossed>>

(* An account that is not decided is named again: it is found in the list   *)
(* (account_name_is_unknown), and to look its name up marks it as accessed. *)
Ask(s, a) ==
    /\ state[s][a] = "pending"
    /\ fresh' = fresh \cup {<<s, a>>}
    /\ UNCHANGED <<state, loaded, attr, locklist, query, nextQid, changes, wire, forgotten,
                   crossed>>

(* account_save, of an account accessed since the last time: the mark goes, *)
(* and it grows no older.                                                   *)
Age(s, a) ==
    /\ <<s, a>> \in fresh
    /\ fresh' = fresh \ {<<s, a>>}
    /\ UNCHANGED <<state, loaded, attr, locklist, query, nextQid, changes, wire, forgotten,
                   crossed>>

(* query_tick: a query of condition "never" that outlived its time is      *)
(* deleted without a word.                                                 *)
QueryTimesOut(q) ==
    /\ MayTimeOut
    /\ query' = query \ {q}
    /\ UNCHANGED <<state, loaded, attr, locklist, nextQid, changes, wire, fresh, forgotten,
                   crossed>>

(* accountlist_save on a server that is not the master: an account that    *)
(* nobody used for long enough is unlocked and removed (account_save,      *)
(* bits_va_lock_check, bits_va_unlock_account) together with those found   *)
(* invalid; one that was never decided has no uid to unlock.               *)
Expire(s, a) ==
    /\ \/ state[s][a] = "valid" /\ s \in Expiring
       \/ state[s][a] = "invalid"
       \/ /\ state[s][a] = "pending" /\ <<s, a>> \notin fresh
          /\ \A q \in query : q.at = s /\ q.from = NoServer => q.acct # a
    /\ state' = [state EXCEPT ![s][a] = "none"]
    /\ loaded' = [loaded EXCEPT ![s][a] = FALSE]
    /\ attr' = [attr EXCEPT ![s][a] = 0]
    /\ LET up  == locklist[<<s, Up[s]>>]
           uid == IF state[s][a] = "valid" THEN a ELSE NoAccount
           ll  == [locklist EXCEPT ![<<s, Up[s]>>] = ListDel(@, uid)]
           sent == state[s][a] # "invalid" /\ ~IsLockedBy(ll, s, uid)
       IN /\ locklist' = ll
          /\ wire' = IF sent THEN Put(wire, s, Up[s], Unlock(uid)) ELSE wire
          /\ forgotten' = forgotten \cup Dropped(up, uid) \cup
                             {b \in {uid} : sent /\ Needed(state', ll, s, b)}
    /\ UNCHANGED <<query, nextQid, changes, fresh, crossed>>

(* account_set_strattr: the change goes to the uplink and the lockers.     *)
ChangeAttr(s, a) ==
    /\ s \in Writer /\ Len(changes) < MaxChange
    /\ IF s = Master THEN a \in Stored ELSE state[s][a] = "valid" /\ loaded[s][a]
    /\ changes' = Append(changes, s)
    /\ attr' = [attr EXCEPT ![s][a] = Len(changes')]
    /\ wire' = ForAccount(wire, s, a, SetAttr(a, Len(changes')), NoServer)
    /\ crossed' = crossed \cup Crossing(wire', changes')
    /\ UNCHANGED <<state, loaded, locklist, query, nextQid, fresh, forgotten>>

-----------------------------------------------------------------------------
(* handle_bits_packet at y for the packet m that came from x.              *)
OnLock(x, y, m) ==
    /\ m.type = "lock"
    /\ IF y = Master
       THEN /\ wire' = Put(Dequeue(wire, <<x, y>>), y, x,
                           LockAck(m.qid, m.acct \in Stored, m.acct))
            /\ locklist' = IF m.acct \in Stored
                           THEN [locklist EXCEPT ![<<y, x>>] = ListAdd(@, m.acct)]
                           ELSE locklist
            /\ UNCHANGED <<query, nextQid>>
       ELSE /\ nextQid[y] <= MaxQuery
            /\ nextQid' = [nextQid EXCEPT ![y] = @ + 1]
            /\ query' = query \cup {[at |-> y, qid |-> nextQid[y], acct |-> m.acct,
                                     from |-> x, asked |-> m.qid, listed |-> FALSE]}
            /\ wire' = Put(Dequeue(wire, <<x, y>>), y, Up[y], Lock(nextQid[y], m.acct))
            /\ UNCHANGED locklist
    /\ UNCHANGED <<state, loaded, attr, changes, fresh, forgotten, crossed>>

(* The answer to a request passed on goes back under the id it came with.  *)
(* The handler goes on as if there were an account: it takes the lock to   *)
(* its own list too and asks for the attributes of no account.             *)
OnAckForward(x, y, m, q) ==
    /\ q.from # NoServer
    /\ query' = query \ {q}
    /\ LET w == Put(Dequeue(wire, <<x, y>>), y, q.from, LockAck(q.asked, m.ok, m.acct)) IN
       IF m.ok
       THEN /\ locklist' = [locklist EXCEPT ![<<y, q.from>>] = ListAdd(@, m.acct),
                                            ![<<y, Up[y]>>] = ListAdd(@, m.acct)]
            /\ wire' = Put(w, y, Up[y], GetAllattr(NoAccount, y))
       ELSE wire' = w /\ UNCHANGED locklist
    /\ UNCHANGED <<state, fresh, crossed>>

(* An answer to a request of its own makes the account valid, or invalid.  *)
OnAckOwn(x, y, m, q) ==
    /\ q.from = NoServer
    /\ query' = query \ {q}
    /\ state' = IF q.listed
                THEN [state EXCEPT ![y][q.acct] = IF m.ok THEN "valid" ELSE "invalid"]
                ELSE state
    /\ fresh' = IF q.listed THEN fresh \ {<<y, q.acct>>} ELSE fresh
    /\ IF m.ok
       THEN /\ locklist' = [locklist EXCEPT ![<<y, Up[y]>>] = ListAdd(@, m.acct)]
            /\ wire' = Put(Dequeue(wire, <<x, y>>), y, Up[y], GetAllattr(m.acct, y))
       ELSE /\ wire' = Dequeue(wire, <<x, y>>)
            /\ UNCHANGED locklist
    /\ crossed' = crossed \cup Crossing(wire', changes)

OnLockAck(x, y, m) ==
    /\ m.type = "lockack"
    /\ \/ \E q \in query : /\ q.at = y /\ q.qid = m.qid
                           /\ OnAckForward(x, y, m, q) \/ OnAckOwn(x, y, m, q)
       \/ /\ \A q \in query : q.at = y => q.qid # m.qid
          /\ wire' = Dequeue(wire, <<x, y>>)
          /\ UNCHANGED <<state, locklist, query, fresh, crossed>>
    /\ UNCHANGED <<loaded, attr, nextQid, changes, forgotten>>

(* The unlock is passed up when the account is still locked by somebody,   *)
(* and not when it is not.                                                 *)
OnUnlock(x, y, m) ==
    /\ m.type = "unlock"
    /\ LET ll   == [locklist EXCEPT ![<<y, x>>] = ListDel(@, m.acct)]
           sent == y # Master /\ IsLockedBy(ll, y, m.acct)
       IN /\ locklist' = ll
          /\ wire' = LET w == Dequeue(wire, <<x, y>>) IN
                     IF sent THEN Put(w, y, Up[y], m) ELSE w
          /\ forgotten' = forgotten \cup Dropped(locklist[<<y, x>>], m.acct) \cup
                             {b \in {m.acct} : sent /\ Needed(state, ll, y, b)}
    /\ UNCHANGED <<state, loaded, attr, query, nextQid, changes, fresh, crossed>>

OnGetAllattr(x, y, m) ==
    /\ m.type = "getallattr"
    /\ wire' = LET w == Dequeue(wire, <<x, y>>) IN
               IF y # Master THEN Put(w, y, Up[y], m)
               ELSE Put(w, y, x, Allattr(m.acct, IF m.acct = NoAccount THEN 0
                                                 ELSE attr[y][m.acct], m.src))
    /\ UNCHANGED <<state, loaded, attr, locklist, query, nextQid, changes, fresh, forgotten,
                   crossed>>

OnAllattr(x, y, m) ==
    /\ m.type = "allattr"
    /\ IF m.dst # y
       THEN /\ wire' = Put(Dequeue(wire, <<x, y>>), y, Toward(y, m.dst), m)
            /\ UNCHANGED <<loaded, attr>>
       ELSE /\ wire' = Dequeue(wire, <<x, y>>)
            /\ IF m.acct # NoAccount /\ state[y][m.acct] = "valid"
               THEN /\ loaded' = [loaded EXCEPT ![y][m.acct] = TRUE]
                    /\ attr' = [attr EXCEPT ![y][m.acct] = m.val]
               ELSE UNCHANGED <<loaded, attr>>
    /\ UNCHANGED <<state, locklist, query, nextQid, changes, fresh, forgotten, crossed>>

OnSetAttr(x, y, m) ==
    /\ m.type = "setattr"
    /\ attr' = IF y = Master \/ state[y][m.acct] = "valid"
               THEN [attr EXCEPT ![y][m.acct] = m.val] ELSE attr
    /\ wire' = ForAccount(Dequeue(wire, <<x, y>>), y, m.acct, m, x)
    /\ UNCHANGED <<state, loaded, locklist, query, nextQid, changes, fresh, forgotten,
                   crossed>>

Receive(l) ==
    /\ wire[l] # <<>>
    /\ LET m == Head(wire[l]) IN
       \/ OnLock(l[1], l[2], m)       \/ OnLockAck(l[1], l[2], m)
       \/ OnUnlock(l[1], l[2], m)     \/ OnGetAllattr(l[1], l[2], m)
       \/ OnAllattr(l[1], l[2], m)    \/ OnSetAttr(l[1], l[2], m)

Next ==
    \/ \E s \in Slave, a \in Account : LockAccount(s, a) \/ Ask(s, a) \/ Age(s, a) \/ Expire(s, a)
    \/ \E q \in query : QueryTimesOut(q)
    \/ \E s \in Server, a \in Account : ChangeAttr(s, a)
    \/ \E l \in Links : Receive(l)

\* The timers of the saves and of the queries; no answer need ever come.
Fairness ==
    /\ WF_vars(\E s \in Slave, a \in Account : Expire(s, a))
    /\ WF_vars(\E q \in query : QueryTimesOut(q))

Spec == Init /\ [][Next]_vars /\ Fairness

-----------------------------------------------------------------------------
(* "The locklist contains the name and uid of every locked account on the  *)
(* client": while a server holds a valid account, every server between it  *)
(* and the master has it in its list for the connection below, until one   *)
(* of them lets go of a lock that is still needed below (BITS_VA_UNLOCK is *)
(* passed up when it should not be, bits_va_locklist_del drops others).    *)
LocklistCovers ==
    \A s \in Slave, a \in Account \ forgotten : state[s][a] = "valid" =>
        \A x \in Slave : s \in Below(x) => Contains(locklist[<<Up[x], x>>], a)

(* Once nothing is under way every valid copy of an account is loaded and  *)
(* has the attributes the master has, whoever changed them and whenever:   *)
(* unless its lock was forgotten, or its changes crossed each other or     *)
(* the copy on their way.                                                  *)
CopiesAgree ==
    (\A l \in Links : wire[l] = <<>>) =>
        \A s \in Slave, a \in Account : state[s][a] = "valid" =>
            /\ loaded[s][a]
            /\ a \notin forgotten \cup crossed => attr[s][a] = attr[Master][a]

(* An account whose existence a server asked about stays undecided only as *)
(* long as clients go on asking for it, even when the query for the answer *)
(* has timed out on the way.                                               *)
LockIsDecided ==
    \A s \in Slave, a \in Account :
        state[s][a] = "pending" ~> state[s][a] # "pending" \/ <<s, a>> \in fresh
=============================================================================
