--------------------------- MODULE Session_proofs ---------------------------
(* Proofs about Session for any connections, accounts and classes.         *)
EXTENDS Session, TLAPS, WellFoundedInduction

Distinct(q) == \A i, j \in DOMAIN q : q[i] = q[j] => i = j

Cut(q, c) ==
    [i \in 1..(Len(q) - 1) |-> IF c \in {q[j] : j \in 1..i} THEN q[i+1] ELSE q[i]]

----------------------------------------------------------------------------
(* Sequences.                                                              *)

\* A set of positions has a first: connlist_find_connection finds it.
LEMMA LeastLemma ==
    ASSUME NEW T, T \subseteq Nat, T # {}
    PROVE  \E x \in T : \A y \in T : x <= y
PROOF
<1> DEFINE Less == {p \in Nat \X Nat : p[1] < p[2]}
<1>1. IsWellFoundedOn(Less, Nat)
  BY NatLessThanWellFounded, Zenon DEF OpToRel
<1>2. PICK x \in T : \A y \in T : <<y, x>> \notin Less
  BY <1>1, WFMin
<1>3. ASSUME NEW y \in T PROVE x <= y
  <2>1. x \in Nat /\ y \in Nat
    OBVIOUS
  <2>2. y < x => <<y, x>> \in Less
    BY <2>1
  <2> QED BY <1>2, <2>1, <2>2
<1> QED BY <1>3

\* Taking an element out of a list without repetitions leaves a list without
\* repetitions of the others: conn_destroy's removal from conn_head.
LEMMA CutLemma ==
    ASSUME NEW S, NEW q \in Seq(S), NEW c \in Elems(q), Distinct(q)
    PROVE  /\ Cut(q, c) \in Seq(S)
           /\ Distinct(Cut(q, c))
           /\ Elems(Cut(q, c)) = Elems(q) \ {c}
PROOF
<1> DEFINE t == Cut(q, c)
<1>1. PICK p \in 1..Len(q) : q[p] = c
  BY DEF Elems
<1>2. Len(q) \in Nat /\ DOMAIN q = 1..Len(q) /\ \A i \in 1..Len(q) : q[i] \in S
  OBVIOUS
<1>3. /\ DOMAIN t = 1..(Len(q) - 1)
      /\ \A i \in 1..(Len(q) - 1) : t[i] = IF i < p THEN q[i] ELSE q[i+1]
  <2>1. ASSUME NEW i \in 1..(Len(q) - 1) PROVE c \in {q[j] : j \in 1..i} <=> i >= p
    BY <1>1, <1>2 DEF Distinct
  <2> QED BY <2>1, <1>2 DEF Cut
<1>4. t \in Seq(S)
  <2>1. \A i \in 1..(Len(q) - 1) : t[i] \in S
    BY <1>1, <1>2, <1>3
  <2>2. Len(q) - 1 \in Nat
    BY <1>1, <1>2
  <2>3. t = [i \in 1..(Len(q) - 1) |-> t[i]]
    BY DEF Cut
  <2> QED BY <2>1, <2>2, <2>3
<1>5. Distinct(t)
  <2>1. SUFFICES ASSUME NEW i \in 1..(Len(q) - 1), NEW j \in 1..(Len(q) - 1), t[i] = t[j]
                 PROVE  i = j
    BY <1>3 DEF Distinct
  <2>2. PICK k \in 1..Len(q) : t[i] = q[k] /\ k = (IF i < p THEN i ELSE i + 1)
    BY <1>1, <1>2, <1>3
  <2>3. PICK m \in 1..Len(q) : t[j] = q[m] /\ m = (IF j < p THEN j ELSE j + 1)
    BY <1>1, <1>2, <1>3
  <2>4. k = m
    BY <2>1, <2>2, <2>3, <1>2 DEF Distinct
  <2> QED BY <2>2, <2>3, <2>4, <1>1
<1>6. Elems(t) \subseteq Elems(q) \ {c}
  <2>1. SUFFICES ASSUME NEW i \in 1..(Len(q) - 1) PROVE t[i] \in Elems(q) /\ t[i] # c
    BY <1>3 DEF Elems
  <2>2. PICK k \in 1..Len(q) : t[i] = q[k] /\ k # p
    BY <1>1, <1>2, <1>3
  <2>3. q[k] # q[p]
    BY <2>2, <1>2 DEF Distinct
  <2> QED BY <2>2, <2>3, <1>1, <1>2 DEF Elems
<1>7. Elems(q) \ {c} \subseteq Elems(t)
  <2>1. SUFFICES ASSUME NEW i \in 1..Len(q), q[i] # c PROVE q[i] \in Elems(t)
    BY <1>2 DEF Elems
  <2>2. CASE i < p
    BY <2>2, <1>1, <1>2, <1>3 DEF Elems
  <2>3. CASE i > p
    <3>1. i - 1 \in 1..(Len(q) - 1) /\ t[i-1] = q[i]
      BY <2>3, <1>1, <1>2, <1>3
    <3> QED BY <3>1, <1>3 DEF Elems
  <2> QED BY <2>1, <2>2, <2>3, <1>1, <1>2
<1> QED BY <1>4, <1>5, <1>6, <1>7

\* sd_accept puts a connection that is not listed in front of the list.
LEMMA PrependLemma ==
    ASSUME NEW S, NEW q \in Seq(S), NEW c \in S, c \notin Elems(q), Distinct(q)
    PROVE  /\ <<c>> \o q \in Seq(S)
           /\ Distinct(<<c>> \o q)
           /\ Elems(<<c>> \o q) = Elems(q) \cup {c}
PROOF
<1> DEFINE t == <<c>> \o q
<1>1. /\ t \in Seq(S)
      /\ Len(t) = Len(q) + 1
      /\ t[1] = c
      /\ \A i \in 2..Len(t) : t[i] = q[i-1]
  OBVIOUS
<1>2. \A i \in DOMAIN q : q[i] # c
  BY DEF Elems
<1>3. Distinct(t)
  BY <1>1, <1>2 DEF Distinct
<1>4. Elems(t) \subseteq Elems(q) \cup {c}
  BY <1>1 DEF Elems
<1>5. Elems(q) \cup {c} \subseteq Elems(t)
  <2>1. c \in Elems(t)
    BY <1>1 DEF Elems
  <2>2. ASSUME NEW i \in DOMAIN q PROVE q[i] \in Elems(t)
    <3>1. i + 1 \in DOMAIN t /\ t[i+1] = q[i]
      BY <1>1
    <3> QED BY <3>1 DEF Elems
  <2> QED BY <2>1, <2>2 DEF Elems
<1> QED BY <1>1, <1>3, <1>4, <1>5

\* The rest of a pass is without the connection the pass comes to.
LEMMA TailLemma ==
    ASSUME NEW S, NEW q \in Seq(S), q # <<>>, Distinct(q)
    PROVE  /\ Tail(q) \in Seq(S)
           /\ Distinct(Tail(q))
           /\ Elems(Tail(q)) \subseteq Elems(q) \ {Head(q)}
           /\ Head(q) \in Elems(q)
PROOF
<1>1. /\ Tail(q) \in Seq(S)
      /\ Len(Tail(q)) = Len(q) - 1
      /\ Len(q) > 0
      /\ Head(q) = q[1]
      /\ \A i \in 1..(Len(q) - 1) : Tail(q)[i] = q[i+1]
  OBVIOUS
<1>2. Distinct(Tail(q))
  BY <1>1 DEF Distinct
<1>3. Elems(Tail(q)) \subseteq Elems(q) \ {Head(q)}
  BY <1>1 DEF Elems, Distinct
<1>4. Head(q) \in Elems(q)
  BY <1>1 DEF Elems
<1> QED BY <1>1, <1>2, <1>3, <1>4
----------------------------------------------------------------------------
(* The inductive invariant. A pass comes to a connection once, so a        *)
(* connection that is freed is not among those left; and a connection was  *)
(* told only of accounts it watches, so that every event it was told is    *)
(* overtaken by the next.                                                  *)

ToldIsWatched ==
    \A w \in Conn : \A a \in Account : told[w][a] # "none" => Watching(w, a, watch)

IInv == TypeOK /\ Distinct(left) /\ ToldIsWatched

LEMMA InitIInv == Init => IInv
BY DEF Init, IInv, TypeOK, ToldIsWatched, Distinct, Elems, State

\* The loop comes to a listed connection, and not again in this pass.
LEMMA VisitLemma ==
    ASSUME IInv, NEW c \in Conn, Visit(c)
    PROVE  /\ left' \in Seq(Conn)
           /\ Distinct(left')
           /\ Elems(left') \subseteq Elems(conns) \ {c}
           /\ c \in Elems(conns)
BY TailLemma DEF IInv, TypeOK, Visit

\* What is notified has its type, and was notified to a watcher.
LEMMA NotifiedLemma ==
    ASSUME IInv, NEW a \in Account, NEW event \in {"in", "out"}, NEW pairs
    PROVE  /\ Notified(a, event, pairs) \in [Conn -> [Account -> {"none", "in", "out"}]]
           /\ \A w \in Conn : \A b \in Account :
                 Notified(a, event, pairs)[w][b] =
                     IF b = a /\ Watching(w, a, pairs) THEN event ELSE told[w][b]
BY DEF IInv, TypeOK, Notified

\* Freeing a connection keeps the invariant.
LEMMA DestroyIInv ==
    ASSUME IInv, NEW c \in Conn, Visit(c), Destroy(c)
    PROVE  IInv'
PROOF
<1> USE VisitLemma
<1> DEFINE pairs == {p \in watch : p[1] # c}
<1> DEFINE heard == IF account[c] = NoAccount THEN told ELSE Notified(account[c], "out", pairs)
<1>1. conns' = Cut(conns, c)
  BY DEF Destroy, Cut
<1>2. conns' \in Seq(Conn) /\ Distinct(conns') /\ Elems(conns') = Elems(conns) \ {c}
  BY <1>1, CutLemma DEF IInv, TypeOK, Distinct
<1>3. /\ state' \in [Conn -> State]
      /\ \A d \in Conn : state'[d] = "free" <=> d \notin Elems(conns')
  BY <1>2 DEF Destroy, IInv, TypeOK, State
<1>4. /\ account' \in [Conn -> Account \cup {NoAccount}]
      /\ \A d \in Conn : /\ state'[d] \in {"free", "connected"} => account'[d] = NoAccount
                         /\ state'[d] \in {"password", "loggedin"} => account'[d] # NoAccount
  BY DEF Destroy, IInv, TypeOK
<1>5. /\ watch' = pairs
      /\ watch' \subseteq Conn \X (Account \cup {Anyone})
      /\ \A w \in Conn \ {c} : \A a \in Account :
            Watching(w, a, watch') <=> Watching(w, a, watch)
  BY DEF Destroy, IInv, TypeOK, Watching
<1>6. /\ heard \in [Conn -> [Account -> {"none", "in", "out"}]]
      /\ \A w \in Conn : \A a \in Account :
            heard[w][a] # told[w][a] => Watching(w, a, pairs)
  <2>1. CASE account[c] = NoAccount
    BY <2>1 DEF IInv, TypeOK
  <2>2. CASE account[c] # NoAccount
    <3>1. account[c] \in Account
      BY <2>2 DEF IInv, TypeOK
    <3> QED BY <2>2, <3>1, NotifiedLemma
  <2> QED BY <2>1, <2>2
<1>7. told' = [heard EXCEPT ![c] = [a \in Account |-> "none"]]
  BY DEF Destroy
<1>8. told' \in [Conn -> [Account -> {"none", "in", "out"}]]
  BY <1>6, <1>7
<1>9. ToldIsWatched'
  <2>1. SUFFICES ASSUME NEW w \in Conn, NEW a \in Account, told'[w][a] # "none"
                 PROVE  Watching(w, a, watch')
    BY DEF ToldIsWatched, Watching
  <2>2. w # c /\ told'[w][a] = heard[w][a]
    BY <2>1, <1>6, <1>7
  <2> QED BY <2>1, <2>2, <1>5, <1>6 DEF IInv, ToldIsWatched
<1> QED BY <1>2, <1>3, <1>4, <1>5, <1>8, <1>9 DEF IInv, TypeOK, Distinct

\* connlist_find_connection finds a listed connection on the account, or there is none.
LEMMA FindLemma ==
    ASSUME IInv, NEW a \in Account
    PROVE  \/ Find(a) = NoConn /\ \A c \in Conn : account[c] # a
           \/ Find(a) \in Elems(conns) /\ account[Find(a)] = a
PROOF
<1>1. CASE Holding(a) = {}
  <2>1. ASSUME NEW c \in Conn, account[c] = a PROVE FALSE
    <3>1. state[c] # "free"
      BY <2>1, AccountAssumption DEF IInv, TypeOK
    <3>2. c \in Elems(conns)
      BY <3>1 DEF IInv, TypeOK
    <3> QED BY <1>1, <2>1, <3>2 DEF Elems, Holding
  <2> QED BY <1>1, <2>1 DEF Find
<1>2. CASE Holding(a) # {}
  <2>1. Holding(a) \subseteq Nat /\ Holding(a) \subseteq DOMAIN conns
    BY DEF Holding, IInv, TypeOK
  <2>2. \E i \in Holding(a) : \A j \in Holding(a) : i <= j
    BY <1>2, <2>1, LeastLemma
  <2>3. PICK i \in Holding(a) : Find(a) = conns[i]
    BY <1>2, <2>2 DEF Find
  <2> QED BY <2>1, <2>3 DEF Holding, Elems
<1> QED BY <1>1, <1>2

\* So does a login.
LEMMA SetAccountIInv ==
    ASSUME IInv, NEW c \in Conn, Visit(c), state[c] = "connected",
           NEW a \in Account, NEW s \in {"password", "loggedin"}, SetAccount(c, a, s)
    PROVE  IInv'
PROOF
<1> USE VisitLemma
<1>1. /\ state' \in [Conn -> State]
      /\ \A d \in Conn : state'[d] = "free" <=> d \notin Elems(conns)
  <2>1. Find(a) \in Conn => Find(a) \in Elems(conns)
    BY FindLemma, ConnAssumption
  <2> QED BY <2>1 DEF SetAccount, IInv, TypeOK, State
<1>2. /\ account' \in [Conn -> Account \cup {NoAccount}]
      /\ \A d \in Conn : /\ state'[d] \in {"free", "connected"} => account'[d] = NoAccount
                         /\ state'[d] \in {"password", "loggedin"} => account'[d] # NoAccount
  BY AccountAssumption DEF SetAccount, IInv, TypeOK
<1>3. told' = Notified(a, "in", watch) /\ UNCHANGED <<conns, watch>>
  BY DEF SetAccount
<1>4. told' \in [Conn -> [Account -> {"none", "in", "out"}]]
  BY <1>3, NotifiedLemma
<1>5. ToldIsWatched'
  <2>1. SUFFICES ASSUME NEW w \in Conn, NEW b \in Account, told'[w][b] # "none"
                 PROVE  Watching(w, b, watch)
    BY <1>3 DEF ToldIsWatched, Watching
  <2>2. told'[w][b] = IF b = a /\ Watching(w, a, watch) THEN "in" ELSE told[w][b]
    BY <1>3, NotifiedLemma
  <2> QED BY <2>1, <2>2 DEF IInv, ToldIsWatched
<1> QED BY <1>1, <1>2, <1>3, <1>4, <1>5 DEF IInv, TypeOK, Distinct

\* Every step keeps the invariant.
LEMMA NextIInv == IInv /\ [Next]_vars => IInv'
PROOF
<1> SUFFICES ASSUME IInv, [Next]_vars PROVE IInv'
  OBVIOUS
<1>1. ASSUME NEW c \in Conn, Accept(c) PROVE IInv'
  <2>1. c \notin Elems(conns)
    BY <1>1 DEF Accept, IInv, TypeOK
  <2>2. conns' \in Seq(Conn) /\ Distinct(conns') /\ Elems(conns') = Elems(conns) \cup {c}
    BY <1>1, <2>1, PrependLemma DEF Accept, IInv, TypeOK, Distinct
  <2>3. /\ state' \in [Conn -> State]
        /\ \A d \in Conn : state'[d] = "free" <=> d \notin Elems(conns')
    BY <1>1, <2>2 DEF Accept, IInv, TypeOK, State
  <2>4. \A d \in Conn : /\ state'[d] \in {"free", "connected"} => account[d] = NoAccount
                        /\ state'[d] \in {"password", "loggedin"} => account[d] # NoAccount
    BY <1>1 DEF Accept, IInv, TypeOK
  <2> QED BY <1>1, <2>2, <2>3, <2>4 DEF Accept, IInv, TypeOK, Distinct, ToldIsWatched, Watching
<1>2. CASE BeginPass
  BY <1>2 DEF BeginPass, IInv, TypeOK, Distinct, ToldIsWatched, Watching
<1>3. ASSUME NEW c \in Conn, Reap(c) \/ Hangup(c) PROVE IInv'
  BY <1>3, DestroyIInv DEF Reap, Hangup, Serve
<1>4. ASSUME NEW c \in Conn, Idle(c) PROVE IInv'
  BY <1>4, VisitLemma DEF Idle, Serve, IInv, TypeOK, Distinct, ToldIsWatched, Watching
<1>5. ASSUME NEW c \in Conn, NEW a \in Account,
             BnetLogin(c, a) \/ BotLogin(c, a) \/ IrcWelcome(c, a)
      PROVE  IInv'
  BY <1>5, SetAccountIInv DEF BnetLogin, BotLogin, IrcWelcome, Serve
<1>6. ASSUME NEW c \in Conn, NEW d \in Conn,
             IrcAuthenticate(c) \/ Quit(c) \/ Kill(c, d)
      PROVE  IInv'
  <2>1. /\ state' \in [Conn -> State]
        /\ \A e \in Conn : state'[e] = "free" <=> e \notin Elems(conns)
        /\ \A e \in Conn : /\ state'[e] \in {"free", "connected"} => account[e] = NoAccount
                           /\ state'[e] \in {"password", "loggedin"} => account[e] # NoAccount
    BY <1>6 DEF IrcAuthenticate, Quit, Kill, Serve, IInv, TypeOK, State
  <2>2. Visit(c) /\ UNCHANGED <<conns, account, watch, told>>
    BY <1>6 DEF IrcAuthenticate, Quit, Kill, Serve
  <2> QED BY <2>1, <2>2, VisitLemma DEF IInv, TypeOK, Distinct, ToldIsWatched, Watching
<1>7. ASSUME NEW c \in Conn, NEW a \in Watchable, Watch(c, a) PROVE IInv'
  <2>1. watch' \subseteq Conn \X (Account \cup {Anyone})
    BY <1>7, AccountAssumption DEF Watch, IInv, TypeOK
  <2> QED BY <1>7, <2>1, VisitLemma
          DEF Watch, Serve, IInv, TypeOK, Distinct, ToldIsWatched, Watching
<1>8. ASSUME NEW c \in Conn, NEW a \in Watchable, Unwatch(c, a) PROVE IInv'
  <2>1. /\ told' \in [Conn -> [Account -> {"none", "in", "out"}]]
        /\ \A w \in Conn : \A b \in Account :
              told'[w][b] = IF w = c /\ ~Watching(c, b, watch') THEN "none" ELSE told[w][b]
    BY <1>8 DEF Unwatch, IInv, TypeOK
  <2>2. ToldIsWatched'
    BY <1>8, <2>1 DEF Unwatch, IInv, ToldIsWatched, Watching
  <2> QED BY <1>8, <2>1, <2>2, VisitLemma
          DEF Unwatch, Serve, IInv, TypeOK, Distinct
<1>9. CASE UNCHANGED vars
  BY <1>9 DEF vars, IInv, TypeOK, Distinct, ToldIsWatched, Watching
<1> QED BY <1>1, <1>2, <1>3, <1>4, <1>5, <1>6, <1>7, <1>8, <1>9 DEF Next, Pass

\* Types, the list of connections and what a pass has left agree in every state.
THEOREM TypeCorrect == Spec => []TypeOK
PROOF
<1>1. Spec => []IInv
  BY InitIInv, NextIInv, PTL DEF Spec
<1>2. IInv => TypeOK
  BY DEF IInv
<1> QED BY <1>1, <1>2, PTL

----------------------------------------------------------------------------
(* What a watcher was told.                                                *)

LEMMA SpecIInv == Spec => []IInv
PROOF
<1> QED BY InitIInv, NextIInv, PTL DEF Spec

\* The steps that change who is on an account or what is told of it, and the others.
LEMMA StepLemma ==
    ASSUME IInv, [Next]_vars
    PROVE  \/ \E c \in Conn : Visit(c) /\ Destroy(c)
           \/ \E c \in Conn, a \in Account, s \in {"password", "loggedin"} :
                 /\ Visit(c) /\ state[c] = "connected" /\ SetAccount(c, a, s)
                 /\ KickOldLogin \/ Find(a) = NoConn
           \/ /\ account' = account
              /\ \A w \in Conn : \A a \in Account : told'[w][a] \in {told[w][a], "none"}
PROOF
<1>1. ASSUME NEW c \in Conn, NEW a \in Watchable, Unwatch(c, a)
      PROVE  \A w \in Conn : \A b \in Account : told'[w][b] \in {told[w][b], "none"}
  BY <1>1 DEF Unwatch, IInv, TypeOK
<1> QED
  BY <1>1 DEF Next, Pass, vars, Accept, BeginPass, Reap, Hangup, Serve, Idle, BnetLogin, BotLogin,
              IrcWelcome, IrcAuthenticate, Quit, Kill, Watch, Unwatch

\* A watcher told of a login watches an account in use, whether logins are kicked or not:
\* who frees the last connection on an account tells its watchers, and who stops to watch
\* forgets (watchlist_notify_event, conn_destroy).
THEOREM ToldIn == Spec => []ToldInIsIn
PROOF
<1>1. Init => ToldInIsIn
  BY DEF Init, ToldInIsIn
<1>2. ASSUME IInv, ToldInIsIn, [Next]_vars PROVE ToldInIsIn'
  <2> SUFFICES ASSUME NEW w \in Conn, NEW a \in Account, told'[w][a] = "in"
               PROVE  \E c \in Conn : account'[c] = a
    BY DEF ToldInIsIn
  <2>1. ASSUME NEW c \in Conn, Visit(c), Destroy(c) PROVE \E d \in Conn : account'[d] = a
    <3> DEFINE pairs == {p \in watch : p[1] # c}
    <3>1. w # c
      <4> DEFINE heard == IF account[c] = NoAccount THEN told
                          ELSE Notified(account[c], "out", pairs)
      <4>1. DOMAIN heard = Conn
        BY <1>2 DEF Notified, IInv, TypeOK
      <4>2. told' = [heard EXCEPT ![c] = [b \in Account |-> "none"]]
        BY <2>1 DEF Destroy
      <4> HIDE DEF heard
      <4>3. told'[c] = [b \in Account |-> "none"]
        BY <4>1, <4>2
      <4> QED BY <4>3
    <3>2. told'[w][a] = told[w][a] /\ account[c] # a
      <4>1. CASE account[c] = NoAccount
        BY <1>2, <2>1, <3>1, <4>1, AccountAssumption DEF Destroy, IInv, TypeOK
      <4>2. CASE account[c] # NoAccount
        <5>1. account[c] \in Account
          BY <1>2, <4>2 DEF IInv, TypeOK
        <5>2. told'[w][a] = Notified(account[c], "out", pairs)[w][a]
          BY <1>2, <2>1, <3>1, <4>2 DEF Destroy, Notified, IInv, TypeOK
        <5>3. ~(a = account[c] /\ Watching(w, a, pairs)) /\ told'[w][a] = told[w][a]
          BY <1>2, <5>1, <5>2, NotifiedLemma
        <5>4. Watching(w, a, watch)
          BY <1>2, <5>3 DEF IInv, ToldIsWatched
        <5>5. Watching(w, a, pairs)
          BY <3>1, <5>4 DEF Watching
        <5> QED BY <5>3, <5>5
      <4> QED BY <4>1, <4>2
    <3>3. PICK d \in Conn : account[d] = a
      BY <1>2, <3>2 DEF ToldInIsIn
    <3> QED BY <1>2, <2>1, <3>2, <3>3 DEF Destroy, IInv, TypeOK
  <2>2. ASSUME NEW c \in Conn, NEW b \in Account, NEW s \in {"password", "loggedin"},
               state[c] = "connected", SetAccount(c, b, s)
        PROVE  \E d \in Conn : account'[d] = a
    <3>1. account' = [account EXCEPT ![c] = b] /\ told' = Notified(b, "in", watch)
      BY <2>2 DEF SetAccount
    <3>2. account[c] = NoAccount
      BY <1>2, <2>2 DEF IInv, TypeOK
    <3>3. CASE a = b
      BY <1>2, <3>1, <3>3 DEF IInv, TypeOK
    <3>4. CASE a # b
      <4>1. told[w][a] = "in"
        BY <1>2, <3>1, <3>4, NotifiedLemma
      <4>2. PICK d \in Conn : account[d] = a
        BY <1>2, <4>1 DEF ToldInIsIn
      <4> QED BY <1>2, <3>1, <3>2, <4>2, AccountAssumption DEF IInv, TypeOK
    <3> QED BY <3>3, <3>4
  <2>3. CASE account' = account /\ \A v \in Conn : \A b \in Account :
                told'[v][b] \in {told[v][b], "none"}
    BY <1>2, <2>3 DEF ToldInIsIn
  <2> QED BY <1>2, <2>1, <2>2, <2>3, StepLemma
<1> QED BY <1>1, <1>2, SpecIInv, PTL DEF Spec

----------------------------------------------------------------------------
(* With kick_old_login off.                                                *)

\* An account is on one connection at most: every login looks at all connections, the
\* marked ones too, before it takes the account (connlist_find_connection).
THEOREM Holder == ASSUME KickOldLogin = FALSE PROVE Spec => []OneHolder
PROOF
<1>1. Init => OneHolder
  BY DEF Init, OneHolder
<1>2. ASSUME IInv, OneHolder, [Next]_vars PROVE OneHolder'
  <2>1. ASSUME NEW c \in Conn, Visit(c), Destroy(c) PROVE OneHolder'
    BY <1>2, <2>1 DEF Destroy, OneHolder, IInv, TypeOK
  <2>2. ASSUME NEW c \in Conn, NEW a \in Account, NEW s \in {"password", "loggedin"},
               SetAccount(c, a, s), Find(a) = NoConn
        PROVE  OneHolder'
    <3>1. NoConn \notin Elems(conns)
      BY <1>2, ConnAssumption DEF Elems, IInv, TypeOK
    <3>2. \A d \in Conn : account[d] # a
      BY <1>2, <2>2, <3>1, FindLemma
    <3> QED BY <1>2, <2>2, <3>2 DEF SetAccount, OneHolder, IInv, TypeOK
  <2>3. CASE account' = account
    BY <1>2, <2>3 DEF OneHolder
  <2> QED BY <1>2, <2>1, <2>2, <2>3, StepLemma
<1> QED BY <1>1, <1>2, SpecIInv, PTL DEF Spec

\* With one connection on an account at most, freeing it leaves nobody there: who was
\* last told of a logout watches an account not in use.
THEOREM ToldOut == ASSUME KickOldLogin = FALSE PROVE Spec => []ToldOutIsOut
PROOF
<1>1. Init => ToldOutIsOut
  BY DEF Init, ToldOutIsOut
<1>2. ASSUME IInv, OneHolder, ToldOutIsOut, [Next]_vars PROVE ToldOutIsOut'
  <2> SUFFICES ASSUME NEW w \in Conn, NEW a \in Account, told'[w][a] = "out",
                      NEW d \in Conn
               PROVE  account'[d] # a
    BY DEF ToldOutIsOut
  <2>1. ASSUME NEW c \in Conn, Visit(c), Destroy(c) PROVE account'[d] # a
    <3> DEFINE pairs == {p \in watch : p[1] # c}
               heard == IF account[c] = NoAccount THEN told
                        ELSE Notified(account[c], "out", pairs)
    <3>1. DOMAIN heard = Conn
      BY <1>2 DEF Notified, IInv, TypeOK
    <3>2. told' = [heard EXCEPT ![c] = [b \in Account |-> "none"]]
      BY <2>1 DEF Destroy
    <3>3. heard[w][a] = "out"
      <4> HIDE DEF heard
      <4> QED BY <3>1, <3>2
    <3>4. account' = [account EXCEPT ![c] = NoAccount]
      BY <2>1 DEF Destroy
    <3>5. CASE told[w][a] = "out"
      BY <1>2, <3>4, <3>5, AccountAssumption DEF ToldOutIsOut, IInv, TypeOK
    <3>6. CASE told[w][a] # "out"
      <4>1. account[c] \in Account /\ heard = Notified(account[c], "out", pairs)
        BY <1>2, <3>3, <3>6 DEF IInv, TypeOK
      <4>2. a = account[c]
        <5> HIDE DEF heard, pairs
        <5> QED BY <1>2, <3>3, <3>6, <4>1, NotifiedLemma
      <4> QED BY <1>2, <3>4, <4>1, <4>2, AccountAssumption DEF OneHolder, IInv, TypeOK
    <3> QED BY <3>5, <3>6
  <2>2. ASSUME NEW c \in Conn, NEW b \in Account, NEW s \in {"password", "loggedin"},
               SetAccount(c, b, s)
        PROVE  account'[d] # a
    <3>1. account' = [account EXCEPT ![c] = b] /\ told' = Notified(b, "in", watch)
      BY <2>2 DEF SetAccount
    <3>2. told[w][a] = "out" /\ ~(a = b /\ Watching(w, a, watch))
      BY <1>2, <3>1, NotifiedLemma
    <3>3. a # b
      BY <1>2, <3>2 DEF IInv, ToldIsWatched
    <3> QED BY <1>2, <3>1, <3>2, <3>3 DEF ToldOutIsOut, IInv, TypeOK
  <2>3. CASE account' = account /\ \A v \in Conn : \A b \in Account :
                told'[v][b] \in {told[v][b], "none"}
    BY <1>2, <2>3 DEF ToldOutIsOut
  <2> QED BY <1>2, <2>1, <2>2, <2>3, StepLemma
<1> QED BY <1>1, <1>2, SpecIInv, Holder, PTL DEF Spec

\* What a watcher was told last, of a login or a logout, is how things are
\* (watchlist_notify_event).
THEOREM WatchTruthful == ASSUME KickOldLogin = FALSE PROVE Spec => []TruthfulWatch
PROOF
<1>1. ToldInIsIn /\ ToldOutIsOut => TruthfulWatch
  BY DEF TruthfulWatch
<1> QED BY <1>1, ToldIn, ToldOut, PTL

----------------------------------------------------------------------------
(* What is left to a marked connection.                                    *)

\* A step of the loop that serves one connection serves one that is not marked, and
\* what it sets in other connections is the mark.
THEOREM MarkedFinal == Spec => MarkedIsFinal
PROOF
<1>1. ASSUME IInv, [Next]_vars, NEW c \in Conn, state[c] = "destroy"
      PROVE  state'[c] = "destroy" \/ (Reap(c) /\ state'[c] = "free")
  <2>1. ASSUME NEW d \in Conn, Reap(d)
        PROVE  state'[c] = "destroy" \/ (Reap(c) /\ state'[c] = "free")
    BY <1>1, <2>1 DEF Reap, Destroy, IInv, TypeOK
  <2>2. ASSUME NEW d \in Conn, Hangup(d) PROVE state'[c] = "destroy"
    BY <1>1, <2>2 DEF Hangup, Serve, Destroy, IInv, TypeOK
  <2>3. ASSUME NEW d \in Conn, NEW a \in Account,
               BnetLogin(d, a) \/ BotLogin(d, a) \/ IrcWelcome(d, a)
        PROVE  state'[c] = "destroy"
    BY <1>1, <2>3 DEF BnetLogin, BotLogin, IrcWelcome, Serve, SetAccount, IInv, TypeOK
  <2>4. ASSUME NEW d \in Conn, IrcAuthenticate(d) \/ Quit(d) PROVE state'[c] = "destroy"
    BY <1>1, <2>4 DEF IrcAuthenticate, Quit, Serve, IInv, TypeOK
  <2>5. ASSUME NEW d \in Conn, NEW e \in Conn, Kill(d, e) PROVE state'[c] = "destroy"
    BY <1>1, <2>5 DEF Kill, IInv, TypeOK
  <2>6. ASSUME NEW d \in Conn, Accept(d) PROVE state'[c] = "destroy"
    BY <1>1, <2>6 DEF Accept, IInv, TypeOK
  <2>7. CASE state' = state
    BY <1>1, <2>7
  <2>8. ASSUME NEW d \in Conn, NEW a \in Watchable, Watch(d, a) \/ Unwatch(d, a)
        PROVE  state' = state
    BY <2>8 DEF Watch, Unwatch
  <2>9. BeginPass \/ (\E d \in Conn : Idle(d)) \/ UNCHANGED vars => state' = state
    BY DEF BeginPass, Idle, vars
  <2> QED BY <1>1, <2>1, <2>2, <2>3, <2>4, <2>5, <2>6, <2>7, <2>8, <2>9 DEF Next, Pass
<1>2. IInv /\ [Next]_vars =>
        [\A c \in Conn : state[c] = "destroy" =>
            state'[c] = "destroy" \/ (Reap(c) /\ state'[c] = "free")]_vars
  BY <1>1
<1> QED BY <1>2, SpecIInv, PTL DEF Spec, MarkedIsFinal
=============================================================================
