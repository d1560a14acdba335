------------------------------ MODULE Queries ------------------------------
(***************************************************************************)
(* The queries of a BITS server that is not the master: requests of its    *)
(* clients that wait until an account is loaded (looked at on every loop,  *)
(* query_tick) or until the master replies (query_answer), and that are    *)
(* dropped without a word when their time to live is over.  A tick is      *)
(* modelled query by query.  bits_va_lock_check frees the accounts that    *)
(* turned out not to exist, those other queries point to included: what a  *)
(* handler reads there is arbitrary.  A client here stays as long as its   *)
(* query waits; queries of one that goes are left behind with its pointer. *)
(***************************************************************************)
EXTENDS Naturals, Sequences, FiniteSets, SequencesExt

CONSTANTS
    Client,          \* Battle.net clients
    Bot,             \* bot and telnet clients
    Peer,            \* BITS servers that connect to this one
    Account,         \* account names
    NoAccount,       \* the name in a query about no account
    Ttl,             \* the time to live of every query
    MaxReplies       \* bound on the replies the master owes when a client asks

VARIABLES
    queries,         \* query_list_head
    state,           \* state[a]: bits_state of the account, "none", or "ready":
                     \*   valid with its attributes loaded
    status,          \* status[c]: "out", "in", or "silent": its last request was
                     \*   dropped
    owed,            \* ids of the queries the master has still to reply to
    at,              \* the place of query_tick in the list, 0 outside of it
    processed        \* processed_queries of this pass

vars == <<queries, state, status, owed, at, processed>>

Conn  == Client \cup Bot \cup Peer
Kinds == {"login1", "login2", "packet", "bot", "command", "create", "join", "auth", "lock"}
(* bits_query_init: what query_tick hands to its handler on every loop, and *)
(* the kind that has no handler and only keeps data (bits_va_lock).         *)
AlwaysProcess == {"login1", "packet", "command"}
WaitsForReply == {"login2", "bot", "create", "join", "auth"}

Query(id, c, k, a) ==
    [qid |-> id, client |-> c, kind |-> k, name |-> a, live |-> TRUE,
     age |-> 0, processed |-> FALSE]

Pending == ToSet(queries)
Of(c)   == {q \in Pending : q.client = c /\ q.kind # "lock"}

TypeOK ==
    /\ \A q \in Pending : /\ q.client \in Conn /\ q.kind \in Kinds
                          /\ q.name \in Account \cup {NoAccount}
                          /\ q.age \in 0..(Ttl + 1) /\ {q.live, q.processed} \subseteq BOOLEAN
    /\ \A i, j \in DOMAIN queries : queries[i].qid = queries[j].qid => i = j
    /\ state \in [Account -> {"none", "pending", "valid", "ready", "invalid"}]
    /\ status \in [Conn -> {"out", "in", "silent"}]
    /\ owed \subseteq Nat /\ at \in 0..(Len(queries) + 1) /\ processed \in Nat

Init ==
    /\ queries = <<>> /\ state = [a \in Account |-> "none"]
    /\ status = [c \in Conn |-> "out"]
    /\ owed = {} /\ at = 0 /\ processed = 0

(* current_query_id: never one that is in use or still to be replied to.    *)
NewQid(list, used) ==
    LET taken == {q.qid : q \in ToSet(list)} \cup used
    IN  CHOOSE n \in 1..(Cardinality(taken) + 1) :
            n \notin taken /\ \A m \in 1..(n - 1) : m \in taken

(* The parts of the state a handler changes, as one value.                  *)
World == [queries |-> queries, state |-> state, status |-> status, owed |-> owed]
Becomes(w) == /\ queries' = w.queries /\ state' = w.state
              /\ status' = w.status /\ owed' = w.owed

Create(w, c, k, a) ==
    [w EXCEPT !.queries = Append(@, Query(NewQid(w.queries, w.owed), c, k, a))]
(* A query whose id goes to the master with the request.                    *)
Ask(w, c, k, a) ==
    [Create(w, c, k, a) EXCEPT !.owed = @ \cup {NewQid(w.queries, w.owed)}]
Delete(w, id) == [w EXCEPT !.queries = SelectSeq(@, LAMBDA q : q.qid # id)]
Tell(w, c, s) == [w EXCEPT !.status[c] = s]

(* bits_va_lock_account: a dummy account and the request to lock it.        *)
LockAccount(w, c, a) ==
    IF w.state[a] # "none" THEN w
    ELSE [Ask(w, c, "lock", a) EXCEPT !.state[a] = "pending"]

(* bits_va_lock_check: the accounts that are not valid are destroyed; what  *)
(* points to them is left as it is.                                         *)
LockCheck(w) ==
    [w EXCEPT
        !.state = [a \in Account |-> IF w.state[a] = "invalid" THEN "none" ELSE w.state[a]],
        !.queries = [i \in DOMAIN @ |->
            IF @[i].name # NoAccount /\ w.state[@[i].name] = "invalid"
            THEN [@[i] EXCEPT !.live = FALSE] ELSE @[i]]]

(* CLIENT_LOGINREQ1, sent by the client or handled again by a query of kind *)
(* current: the account is fetched, then the master asked, then it is in.   *)
Loginreq1(w, c, a, current, right) ==
    IF w.state[a] # "ready" THEN Create(LockAccount(w, c, a), c, "login1", a)
    ELSE IF w.status[c] = "in" \/ ~right THEN w
    ELSE IF current # "login2" THEN Ask(w, c, "login2", a)
    ELSE Tell(w, c, "in")

(* handle_bot_packet in conn_state_bot_password.                            *)
BotPassword(w, c, a, right) ==
    CASE w.state[a] = "none"    -> Create(LockAccount(w, c, a), c, "packet", a)
      [] w.state[a] = "invalid" -> w
      [] w.state[a] \in {"pending", "valid"} -> Create(w, c, "packet", a)
      [] w.state[a] = "ready"   -> IF right THEN Ask(w, c, "bot", a) ELSE w

(* bits_va_command_with_account_name: the command waits for the account.    *)
Command(w, c, a) ==
    IF w.state[a] \in {"ready", "invalid"} THEN w
    ELSE Create(LockAccount(w, c, a), c, "command", a)

(***************************************************************************)
(* What clients send: one request at a time, while not logged in about an  *)
(* account, afterwards commands and channels.                              *)
(***************************************************************************)
Idle(c) == at = 0 /\ Of(c) = {} /\ Cardinality(owed) <= MaxReplies
Fresh(c) == IF status[c] = "silent" THEN Tell(World, c, "out") ELSE World

Request(c) ==
    /\ Idle(c)
    /\ \/ /\ c \in Client /\ status[c] # "in"
          /\ \/ \E a \in Account, right \in BOOLEAN :
                    Becomes(Loginreq1(Fresh(c), c, a, "none", right))
             \/ Becomes(Ask(Fresh(c), c, "create", NoAccount))
       \/ /\ c \in Client /\ status[c] = "in"
          /\ \/ \E a \in Account : Becomes(Command(World, c, a))
             \/ Becomes(Ask(World, c, "join", NoAccount))
       \/ /\ c \in Bot /\ status[c] # "in"
          /\ \E a \in Account, right \in BOOLEAN :
                 Becomes(BotPassword(Fresh(c), c, a, right))
       \/ /\ c \in Peer /\ status[c] # "in"
          /\ Becomes(Ask(Fresh(c), c, "auth", NoAccount))
    /\ UNCHANGED <<at, processed>>

(***************************************************************************)
(* What the master sends.                                                  *)
(***************************************************************************)
Found(id) == {q \in Pending : q.qid = id}

(* The handlers' answer to a reply (query_reason_condition): the request of *)
(* a login is handled again, all others are told; each query is deleted.    *)
OnReply(w, q, ok) ==
    CASE q.kind = "login2" -> IF w.state[q.name] = "ready" /\ ok
                              THEN Loginreq1(w, q.client, q.name, "login2", TRUE) ELSE w
      [] q.kind = "bot"    -> IF ok THEN Tell(w, q.client, "in") ELSE w
      [] q.kind = "auth"   -> Tell(w, q.client, "in")
      [] q.kind \in {"create", "join"} -> w

(* query_answer: a reply whose query is gone is dropped.                    *)
Answer(id, ok) ==
    /\ at = 0 /\ id \in owed
    /\ \A q \in Found(id) : q.kind \in WaitsForReply
    /\ LET w == [World EXCEPT !.owed = @ \ {id}]
       IN  Becomes(IF Found(id) = {} THEN w
                   ELSE LET q == CHOOSE x \in Found(id) : TRUE
                        IN  Delete(OnReply(w, q, ok), id))
    /\ UNCHANGED <<at, processed>>

(* BITS_VA_LOCK_ACK, and the attributes when they have come.                *)
LockAck(id, ok) ==
    /\ at = 0 /\ id \in owed
    /\ \E q \in Found(id) :
           /\ q.kind = "lock"
           /\ Becomes(Delete([World EXCEPT !.owed = @ \ {id},
                                           !.state[q.name] = IF ok THEN "valid" ELSE "invalid"], id))
    /\ UNCHANGED <<at, processed>>
Allattr(a) ==
    /\ at = 0 /\ state[a] = "valid"
    /\ state' = [state EXCEPT ![a] = "ready"]
    /\ UNCHANGED <<queries, status, owed, at, processed>>

(***************************************************************************)
(* query_tick.                                                             *)
(***************************************************************************)
(* The handlers' answer to a tick: the account is as `seen`; the query is   *)
(* kept, or its request is handled again and it is deleted.                 *)
Seen(q) == IF q.live THEN {state[q.name]} ELSE {"ready", "pending", "invalid"}
Decides(q, seen) == q.kind \in AlwaysProcess /\ ~q.processed /\ seen \in {"ready", "invalid"}
OnTick(w, q, seen, right) ==
    CASE q.kind = "login1"  -> IF seen = "ready"
                               THEN Loginreq1(w, q.client, q.name, "login1", right)
                               ELSE LockCheck(w)
      [] q.kind = "packet"  -> LockCheck(BotPassword(w, q.client, q.name, right))
      [] q.kind = "command" -> LockCheck(Command(w, q.client, q.name))

(* The handlers' answer to a timeout: nobody is told.  A BITS server that   *)
(* was to be authenticated should be hung up on, but as there is no reply   *)
(* its handler is left before it comes to that (query_handler_bits_auth).   *)
OnTimeout(w, q) ==
    IF q.kind = "lock" \/ w.status[q.client] = "in" THEN w ELSE Tell(w, q.client, "silent")

(* A pass that processed something is followed by another one.              *)
EndPass(list, count) ==
    /\ processed' = 0
    /\ IF count > 0 THEN at' = 1 /\ queries' = list
       ELSE at' = 0 /\ queries' = [i \in DOMAIN list |-> [list[i] EXCEPT !.processed = FALSE]]

\* mutant: what was processed is forgotten
MarkedNot(q) == q
Marked(q) == [q EXCEPT !.processed = q.kind \in AlwaysProcess]
Counts(q) == IF q.kind \in AlwaysProcess /\ ~q.processed THEN processed + 1 ELSE processed

StartTick == /\ at = 0 /\ queries # <<>> /\ at' = 1 /\ processed' = 0
             /\ UNCHANGED <<queries, state, status, owed>>

\* mutant: the time to live first
VisitLate ==
    /\ at \in 1..Len(queries)
    /\ LET q == queries[at]
           gone(w) == /\ state' = w.state /\ status' = w.status /\ owed' = w.owed
                      /\ EndPass(Delete(w, q.qid).queries, Counts(q))
       IN  \E seen \in (IF q.kind \in AlwaysProcess THEN Seen(q) ELSE {"none"}) :
             \/ /\ Decides(q, seen) /\ q.age <= Ttl
                /\ \E right \in BOOLEAN : gone(OnTick(World, q, seen, right))
             \/ /\ q.age > Ttl
                /\ gone(OnTimeout(World, q))
             \/ /\ ~Decides(q, seen) /\ q.age <= Ttl
                /\ queries' = [queries EXCEPT ![at] = Marked(q)]
                /\ at' = at + 1 /\ processed' = Counts(q)
                /\ UNCHANGED <<state, status, owed>>

(* One turn of the loop: the handler first, then the time to live; what is  *)
(* deleted ends the pass.                                                   *)
Visit ==
    /\ at \in 1..Len(queries)
    /\ LET q == queries[at]
           gone(w) == /\ state' = w.state /\ status' = w.status /\ owed' = w.owed
                      /\ EndPass(Delete(w, q.qid).queries, Counts(q))
       IN  \E seen \in (IF q.kind \in AlwaysProcess THEN Seen(q) ELSE {"none"}) :
             \/ /\ Decides(q, seen)
                /\ \E right \in BOOLEAN : gone(OnTick(World, q, seen, right))
             \/ /\ ~Decides(q, seen) /\ q.age > Ttl
                /\ gone(OnTimeout(World, q))
             \/ /\ ~Decides(q, seen) /\ q.age <= Ttl
                /\ queries' = [queries EXCEPT ![at] = Marked(q)]
                /\ at' = at + 1 /\ processed' = Counts(q)
                /\ UNCHANGED <<state, status, owed>>

PassOver == /\ at = Len(queries) + 1
            /\ EndPass(queries, processed)
            /\ UNCHANGED <<state, status, owed>>

Second ==
    /\ at = 0 /\ \E q \in Pending : q.age <= Ttl
    /\ queries' = [i \in DOMAIN queries |->
                      [queries[i] EXCEPT !.age = IF @ <= Ttl THEN @ + 1 ELSE @]]
    /\ UNCHANGED <<state, status, owed, at, processed>>

Tick == StartTick \/ Visit \/ PassOver

Next ==
    \/ \E c \in Conn : Request(c)
    \/ \E id \in owed, ok \in BOOLEAN : Answer(id, ok) \/ LockAck(id, ok)
    \/ \E a \in Account : Allattr(a)
    \/ Tick
    \/ Second

(* The main loop calls query_tick again and again.                          *)
Fairness == WF_vars(Tick) /\ WF_vars(Second)
Spec == Init /\ [][Next]_vars /\ Fairness

-----------------------------------------------------------------------------
(* Properties *)

\* A request whose account has come is handled, however late the account came: of a request
\* on that list the tick before the time to live (query_tick).
Served ==
    \A c \in Conn : status[c] # "silent" /\ status'[c] = "silent" =>
        ~\E q \in Of(c) : q.kind \in AlwaysProcess /\ q.live /\ state[q.name] = "ready"
ReadyIsServed == [][Served]_vars

\* The loop over the queries ends, although handlers put new ones in the list and what they
\* did is a reason for another pass; and no query stays when its time is over, although of
\* those that are just dropped a tick takes one only.
Overdue(c) == \E q \in Pending : q.client = c /\ q.age > Ttl
QueriesEnd ==
    /\ at > 0 ~> at = 0
    /\ \A c \in Conn : Overdue(c) ~> ~Overdue(c)
=============================================================================
