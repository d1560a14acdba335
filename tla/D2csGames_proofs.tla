-------------------------- MODULE D2csGames_proofs --------------------------
(* D2csGames' safety properties for any number of clients, names, servers    *)
(* and links, and any capacities.                                            *)
(*                                                                           *)
(* The handlers are operators from a world to a world, so the invariants are *)
(* stated of a world, and there is one lemma for each operator.              *)
EXTENDS D2csGames, FiniteSetTheorems, SequenceTheorems, WellFoundedInduction, TLAPS

-----------------------------------------------------------------------------
(* Sequences and numbers.                                                    *)

LEMMA RemoveAtLemma ==
    ASSUME NEW S, NEW q \in Seq(S), NEW i \in 1..Len(q)
    PROVE  /\ RemoveAt(q, i) \in Seq(S) /\ Len(RemoveAt(q, i)) = Len(q) - 1
           /\ \A j \in 1..(Len(q) - 1) :
                 RemoveAt(q, i)[j] = IF j < i THEN q[j] ELSE q[j + 1]
<1> DEFINE p == SubSeq(q, 1, i - 1)
           r == SubSeq(q, i + 1, Len(q))
<1>1. /\ p \in Seq(S) /\ Len(p) = i - 1 /\ \A j \in 1..(i - 1) : p[j] = q[j]
  BY SubSeqProperties
<1>2. /\ r \in Seq(S) /\ Len(r) = Len(q) - i
      /\ \A j \in 1..(Len(q) - i) : r[j] = q[i + j]
  BY SubSeqProperties
<1>3. /\ p \o r \in Seq(S) /\ Len(p \o r) = Len(p) + Len(r)
      /\ \A j \in 1..(Len(p) + Len(r)) :
            (p \o r)[j] = IF j <= Len(p) THEN p[j] ELSE r[j - Len(p)]
  BY <1>1, <1>2, ConcatProperties
<1> HIDE DEF p, r
<1>4. Len(p) + Len(r) = Len(q) - 1
  BY <1>1, <1>2
<1>5. ASSUME NEW j \in 1..(Len(q) - 1)
      PROVE  (p \o r)[j] = IF j < i THEN q[j] ELSE q[j + 1]
  <2>1. CASE j < i
    BY <2>1, <1>1, <1>3, <1>4
  <2>2. CASE ~(j < i)
    <3>1. j - (i - 1) \in 1..(Len(q) - i) /\ i + (j - (i - 1)) = j + 1
      BY <2>2
    <3>2. (p \o r)[j] = r[j - (i - 1)]
      BY <2>2, <1>1, <1>3, <1>4
    <3> QED BY <2>2, <3>1, <3>2, <1>2
  <2> QED BY <2>1, <2>2
<1>6. RemoveAt(q, i) = p \o r
  BY DEF RemoveAt, p, r
<1> QED BY <1>3, <1>4, <1>5, <1>6

Less == {p \in Nat \X Nat : p[1] < p[2]}

\* A set of numbers that is not empty has a least one.
LEMMA Least ==
    ASSUME NEW I \in SUBSET Nat, I # {}
    PROVE  \E x \in I : \A y \in I : x <= y
<1>1. IsWellFoundedOn(Less, Nat)
  BY NatLessThanWellFounded DEF OpToRel, Less
<1>2. PICK x \in I : \A y \in I : ~ (<<y, x>> \in Less)
  BY <1>1, WFMin
<1>3. ASSUME NEW y \in I PROVE x <= y
  <2>1. <<y, x>> \in Nat \X Nat /\ ~(<<y, x>>[1] < <<y, x>>[2])
    BY <1>2 DEF Less
  <2> QED BY <2>1
<1> QED BY <1>3

-----------------------------------------------------------------------------
(* Worlds.                                                                   *)

GameRec == [server : GameServer, created : BOOLEAN, chars : SUBSET Client]
Waiter == [client : Client, name : Name]
Request == [kind : {"create", "join"}, client : Client \cup {Nobody},
            name : Name \cup {NoGame}, via : Link]

Worlds ==
    [games : [Name -> {NoGame} \cup GameRec], gamenum : [GameServer -> Nat],
     maxgame : [GameServer -> 0..MaxGame], connection : [GameServer -> Link \cup {NoLink}],
     queue : Seq(Waiter), waiting : SUBSET Client, sqs : SUBSET Request]

\* A server with the least load is one with room (ChooseServer).
LEMMA ChooseServerLemma ==
    ASSUME NEW w \in Worlds, listed \subseteq GameServer
    PROVE  \/ ChooseServer(w) = NoServer /\ \A g \in listed : ~HasRoom(w, g)
           \/ ChooseServer(w) \in listed /\ HasRoom(w, ChooseServer(w))
<1> DEFINE free == {g \in listed : HasRoom(w, g)}
<1>1. CASE free = {}
  BY <1>1 DEF ChooseServer
<1>2. CASE free # {}
  <2>1. \A g \in free : g \in Nat /\ Percent(w, g) \in Nat
    <3> SUFFICES ASSUME NEW g \in free PROVE g \in Nat /\ Percent(w, g) \in Nat
      OBVIOUS
    <3>1. g \in GameServer /\ w.gamenum[g] \in Nat /\ w.maxgame[g] \in Nat
          /\ w.gamenum[g] < w.maxgame[g]
      BY ServersAssumption DEF Worlds, HasRoom
    <3>2. \A x, y \in Nat : x < y => (100 * x) \div y \in Nat
      OBVIOUS
    <3> QED BY <3>1, <3>2, ServersAssumption DEF GameServer, Percent
  <2> DEFINE loads == {Percent(w, g) : g \in free}
  <2>2. PICK p \in loads : \A x \in loads : p <= x
    BY <1>2, <2>1, Least
  <2> DEFINE idle == {g \in free : Percent(w, g) = p}
  <2>3. PICK g \in idle : \A h \in idle : g <= h
    BY <2>1, <2>2, Least
  <2>4. \A h \in free :
           Percent(w, g) < Percent(w, h) \/ (Percent(w, g) = Percent(w, h) /\ g <= h)
    BY <2>1, <2>2, <2>3
  <2>5. ChooseServer(w) \in free
    BY <1>2, <2>3, <2>4 DEF ChooseServer
  <2> QED BY <2>5
<1> QED BY <1>1, <1>2


-----------------------------------------------------------------------------
(* The queue.                                                                *)

\* The queue has one entry for each client that waits, who is online.
Lined(w, O) ==
    /\ w.waiting \subseteq O
    /\ \A i \in DOMAIN w.queue : w.queue[i].client \in w.waiting
    /\ \A c \in w.waiting : \E i \in DOMAIN w.queue : w.queue[i].client = c
    /\ \A i, j \in DOMAIN w.queue : w.queue[i].client = w.queue[j].client => i = j

\* The names that are waited for are different, and no game has one.
Differ(w) == \A i, j \in DOMAIN w.queue : w.queue[i].name = w.queue[j].name => i = j
Free(w) == \A i \in DOMAIN w.queue : w.games[w.queue[i].name] = NoGame
Fresh(w) == Differ(w) /\ Free(w)

\* A world with another queue.
WithQueue(w, q, S) == [w EXCEPT !.queue = q, !.waiting = S]

SameGames(v, w) ==
    /\ v.games = w.games /\ v.gamenum = w.gamenum /\ v.maxgame = w.maxgame
    /\ v.connection = w.connection /\ v.sqs = w.sqs

LEMMA WithQueueLemma ==
    ASSUME NEW w \in Worlds, NEW q \in Seq(Waiter), NEW S \in SUBSET Client
    PROVE  /\ WithQueue(w, q, S) \in Worlds /\ SameGames(WithQueue(w, q, S), w)
           /\ WithQueue(w, q, S).queue = q /\ WithQueue(w, q, S).waiting = S
BY DEF Worlds, WithQueue, SameGames

\* The entry of a client leaves the queue, and the others stay in order (gq_destroy).
LEMMA DequeuedLemma ==
    ASSUME NEW w \in Worlds, NEW O, Lined(w, O), NEW c
    PROVE  LET v == Dequeued(w, c)
           IN  /\ v \in Worlds /\ SameGames(v, w) /\ v.waiting = w.waiting \ {c}
               /\ Lined(v, O) /\ (Differ(w) => Differ(v)) /\ (Free(w) => Free(v))
               /\ \A j \in DOMAIN v.queue : \E i \in DOMAIN w.queue : v.queue[j] = w.queue[i]
<1> DEFINE k == EntryOf(w.queue, c)
           q == RemoveAt(w.queue, k)
           v == WithQueue(w, q, w.waiting \ {c})
<1>1. CASE c \notin w.waiting
  BY <1>1 DEF Dequeued, SameGames
<1>2. CASE c \in w.waiting
  <2>1. w.queue \in Seq(Waiter) /\ w.waiting \subseteq Client /\ DOMAIN w.queue = 1..Len(w.queue)
        /\ Len(w.queue) \in Nat
    BY LenProperties DEF Worlds
  <2>2. k \in 1..Len(w.queue) /\ w.queue[k].client = c
    BY <1>2, <2>1 DEF Lined, EntryOf
  <2>3. /\ q \in Seq(Waiter) /\ Len(q) = Len(w.queue) - 1
        /\ \A j \in 1..(Len(w.queue) - 1) :
              q[j] = IF j < k THEN w.queue[j] ELSE w.queue[j + 1]
    BY <2>1, <2>2, RemoveAtLemma
  <2>4. Dequeued(w, c) = v
    BY <1>2 DEF Dequeued, WithQueue
  <2> HIDE DEF k, q
  <2>5. /\ v \in Worlds /\ SameGames(v, w) /\ v.queue = q /\ v.waiting = w.waiting \ {c}
    BY <2>1, <2>3, WithQueueLemma
  <2> DEFINE from(j) == IF j < k THEN j ELSE j + 1
  <2>6. DOMAIN v.queue = 1..(Len(w.queue) - 1)
    BY <2>3, <2>5, LenProperties
  <2>7. /\ \A j \in DOMAIN v.queue : from(j) \in DOMAIN w.queue \ {k} /\ v.queue[j] = w.queue[from(j)]
        /\ \A i, j \in DOMAIN v.queue : from(i) = from(j) => i = j
        /\ \A i \in DOMAIN w.queue \ {k} : \E j \in DOMAIN v.queue : from(j) = i
    <3>1. \A j \in DOMAIN v.queue : from(j) \in DOMAIN w.queue \ {k} /\ v.queue[j] = w.queue[from(j)]
      BY <2>1, <2>2, <2>3, <2>5, <2>6
    <3>2. \A i, j \in DOMAIN v.queue : from(i) = from(j) => i = j
      BY <2>2, <2>6
    <3>3. ASSUME NEW i \in DOMAIN w.queue \ {k} PROVE \E j \in DOMAIN v.queue : from(j) = i
      <4>1. CASE i < k
        <5>1. i \in DOMAIN v.queue /\ from(i) = i
          BY <4>1, <2>1, <2>2, <2>6
        <5> QED BY <5>1
      <4>2. CASE ~(i < k)
        <5>1. i - 1 \in DOMAIN v.queue /\ from(i - 1) = i
          BY <4>2, <2>1, <2>2, <2>6
        <5> QED BY <5>1
      <4> QED BY <4>1, <4>2
    <3> QED BY <3>1, <3>2, <3>3
  <2> HIDE DEF v, from
  <2>8. Lined(v, O)
    <3>1. v.waiting \subseteq O
      BY <2>5 DEF Lined
    <3>2. \A i \in DOMAIN v.queue : v.queue[i].client \in v.waiting
      <4> SUFFICES ASSUME NEW i \in DOMAIN v.queue PROVE v.queue[i].client \in v.waiting
        OBVIOUS
      <4>1. from(i) \in DOMAIN w.queue /\ from(i) # k /\ v.queue[i] = w.queue[from(i)]
        BY <2>7
      <4>2. w.queue[from(i)].client \in w.waiting /\ w.queue[from(i)].client # c
        BY <4>1, <2>1, <2>2 DEF Lined
      <4> QED BY <4>1, <4>2, <2>5
    <3>3. \A d \in v.waiting : \E i \in DOMAIN v.queue : v.queue[i].client = d
      <4> SUFFICES ASSUME NEW d \in v.waiting PROVE \E i \in DOMAIN v.queue : v.queue[i].client = d
        OBVIOUS
      <4>1. PICK i \in DOMAIN w.queue : w.queue[i].client = d
        BY <2>5 DEF Lined
      <4>2. i # k
        BY <4>1, <2>2, <2>5
      <4>3. PICK j \in DOMAIN v.queue : from(j) = i
        BY <4>2, <2>7
      <4> QED BY <4>1, <4>3, <2>7
    <3>4. \A i, j \in DOMAIN v.queue : v.queue[i].client = v.queue[j].client => i = j
      BY <2>7 DEF Lined
    <3> QED BY <3>1, <3>2, <3>3, <3>4 DEF Lined
  <2>9. (Differ(w) => Differ(v)) /\ (Free(w) => Free(v))
    BY <2>5, <2>7 DEF Differ, Free, SameGames
  <2> QED BY <2>4, <2>5, <2>7, <2>8, <2>9
<1> QED BY <1>1, <1>2


-----------------------------------------------------------------------------
(* Creating a game.                                                          *)

Counted(w) == \A g \in GameServer : w.gamenum[g] = Cardinality(GamesOn(w, g))

\* Games are on servers that are connected, and what was asked of one went over the link its
\* server has, but for the servers of X, that are just deactivated.
Placed(w, X) ==
    \A n \in Name : w.games[n] # NoGame =>
        w.games[n].server \in X \/ w.connection[w.games[n].server] # NoLink
Pending(w, X) ==
    \A q \in w.sqs : q.name # NoGame =>
        /\ w.games[q.name] # NoGame
        /\ w.games[q.name].server \in X \/ q.via = w.connection[w.games[q.name].server]

SoundBut(w, X) == w \in Worlds /\ Counted(w) /\ Placed(w, X) /\ Pending(w, X)
Sound(w) == SoundBut(w, {})

\* The servers of a world have the room of another, whoever waits.
LEMMA SameGamesSound ==
    ASSUME NEW w, Sound(w), NEW v \in Worlds, SameGames(v, w)
    PROVE  Sound(v)
BY DEF Sound, SoundBut, SameGames, Counted, Placed, Pending, GamesOn

\* A world with other games, numbers of games, and requests.
WithGames(w, gs, gn, sq) == [w EXCEPT !.games = gs, !.gamenum = gn, !.sqs = sq]

LEMMA WithGamesLemma ==
    ASSUME NEW w \in Worlds, NEW gs \in [Name -> {NoGame} \cup GameRec],
           NEW gn \in [GameServer -> Nat], NEW sq \in SUBSET Request
    PROVE  LET v == WithGames(w, gs, gn, sq)
           IN  /\ v \in Worlds /\ v.games = gs /\ v.gamenum = gn /\ v.sqs = sq
               /\ v.maxgame = w.maxgame /\ v.connection = w.connection
               /\ v.queue = w.queue /\ v.waiting = w.waiting
BY DEF Worlds, WithGames

\* A game of a name that is free is made on a server with room, and asked for over its link.
NewGame(w, c, n, g) ==
    WithGames(w, [w.games EXCEPT ![n] = [server |-> g, created |-> FALSE, chars |-> {}]],
              [w.gamenum EXCEPT ![g] = @ + 1],
              w.sqs \cup {[kind |-> "create", client |-> c, name |-> n, via |-> w.connection[g]]})

\* How a server's games change with the game of one name.
LEMMA NewGameLemma ==
    ASSUME NEW w, Sound(w), NEW c \in Client, NEW n \in Name, w.games[n] = NoGame,
           NEW g \in GameServer, w.connection[g] # NoLink
    PROVE  LET v == NewGame(w, c, n, g)
           IN  /\ Sound(v)
               /\ v.games = [w.games EXCEPT ![n] = [server |-> g, created |-> FALSE, chars |-> {}]]
               /\ v.gamenum = [w.gamenum EXCEPT ![g] = @ + 1]
               /\ v.maxgame = w.maxgame /\ v.connection = w.connection
               /\ v.queue = w.queue /\ v.waiting = w.waiting
<1> DEFINE r == [server |-> g, created |-> FALSE, chars |-> {}]
           gs == [w.games EXCEPT ![n] = r]
           gn == [w.gamenum EXCEPT ![g] = @ + 1]
           q == [kind |-> "create", client |-> c, name |-> n, via |-> w.connection[g]]
           sq == w.sqs \cup {q}
           v == NewGame(w, c, n, g)
<1>1. /\ w.games \in [Name -> {NoGame} \cup GameRec] /\ w.gamenum \in [GameServer -> Nat]
      /\ w.connection \in [GameServer -> Link \cup {NoLink}] /\ w.sqs \subseteq Request
      /\ w \in Worlds
  BY DEF Sound, SoundBut, Worlds
<1>2. r \in GameRec /\ r # NoGame /\ r.server = g
  <2>1. r \in [server : GameServer, created : BOOLEAN, chars : SUBSET Client]
    OBVIOUS
  <2>2. r # NoGame
    BY <2>1, NameAssumption
  <2> QED BY <2>1, <2>2 DEF GameRec
<1>3. gs \in [Name -> {NoGame} \cup GameRec] /\ gn \in [GameServer -> Nat]
  BY <1>1, <1>2
<1>4. q \in Request /\ q.name = n /\ q.via = w.connection[g]
  BY <1>1 DEF Request
<1>5. sq \subseteq Request
  BY <1>1, <1>4
<1>6. /\ v \in Worlds /\ v.games = gs /\ v.gamenum = gn /\ v.sqs = sq
      /\ v.maxgame = w.maxgame /\ v.connection = w.connection
      /\ v.queue = w.queue /\ v.waiting = w.waiting
  <2>1. v = WithGames(w, gs, gn, sq)
    BY DEF NewGame
  <2> HIDE DEF gs, gn, sq, v
  <2> QED BY <2>1, <1>1, <1>3, <1>5, WithGamesLemma
<1> HIDE DEF r, q, v
<1>7. Counted(v)
  <2> SUFFICES ASSUME NEW h \in GameServer
               PROVE  v.gamenum[h] = Cardinality(GamesOn(v, h))
    BY DEF Counted
  <2>1. w.gamenum[h] = Cardinality(GamesOn(w, h)) /\ IsFiniteSet(GamesOn(w, h))
    <3>1. GamesOn(w, h) \in SUBSET Name
      BY DEF GamesOn
    <3> QED BY <3>1, NameAssumption, FS_Subset DEF Sound, SoundBut, Counted
  <2>2. CASE h = g
    <3>1. GamesOn(v, h) = GamesOn(w, h) \cup {n} /\ n \notin GamesOn(w, h)
      BY <2>2, <1>1, <1>2, <1>6 DEF GamesOn
    <3>2. Cardinality(GamesOn(v, h)) = Cardinality(GamesOn(w, h)) + 1
      BY <3>1, <2>1, FS_AddElement
    <3>3. v.gamenum[h] = w.gamenum[h] + 1
      BY <2>2, <1>1, <1>6
    <3> QED BY <3>2, <3>3, <2>1
  <2>3. CASE h # g
    <3>1. GamesOn(v, h) = GamesOn(w, h)
      BY <2>3, <1>1, <1>2, <1>6 DEF GamesOn
    <3> QED BY <3>1, <2>1, <2>3, <1>1, <1>6
  <2> QED BY <2>2, <2>3
<1>8. Placed(v, {})
  BY <1>1, <1>2, <1>6 DEF Sound, SoundBut, Placed
<1>9. Pending(v, {})
  <2> SUFFICES ASSUME NEW p \in v.sqs, p.name # NoGame
               PROVE  v.games[p.name] # NoGame /\ p.via = v.connection[v.games[p.name].server]
    BY DEF Pending
  <2>1. CASE p = q
    BY <2>1, <1>1, <1>2, <1>4, <1>6
  <2>2. CASE p # q
    <3>1. p \in w.sqs /\ p.name \in Name
      BY <2>2, <1>1, <1>6 DEF Request
    <3>2. w.games[p.name] # NoGame /\ p.via = w.connection[w.games[p.name].server]
      BY <3>1 DEF Sound, SoundBut, Pending
    <3> QED BY <3>1, <3>2, <1>1, <1>6
  <2> QED BY <2>1, <2>2
<1>10. Sound(v)
  BY <1>6, <1>7, <1>8, <1>9 DEF Sound, SoundBut
<1> QED BY <1>6, <1>10 DEF r, v


\* A world in which another client waits.
Enqueued(w, c, n) ==
    WithQueue(w, Append(w.queue, [client |-> c, name |-> n]), w.waiting \cup {c})

\* What becomes of a request to create a game (CreateGame).
LEMMA CreateGameCases ==
    ASSUME NEW w \in Worlds, NEW c \in Client, NEW n \in Name, listed \subseteq GameServer
    PROVE  LET full == \A g \in listed : ~HasRoom(w, g)
               v == CreateGame(w, c, n)
           IN  \/ /\ v = w
                  /\ \/ w.games[n] # NoGame \/ c \in Dead
                     \/ c \notin w.waiting /\ n \in Queued(w.queue)
               \/ v = Dequeued(w, c) /\ c \in w.waiting /\ full
               \/ /\ v = Enqueued(w, c, n) /\ c \notin w.waiting /\ full
                  /\ w.games[n] = NoGame /\ n \notin Queued(w.queue)
               \/ /\ w.games[n] = NoGame /\ c \notin Dead
                  /\ c \in w.waiting \/ n \notin Queued(w.queue)
                  /\ \E g \in listed : HasRoom(w, g) /\ v = NewGame(w, c, n, g)
<1> DEFINE g == ChooseServer(w)
           exists == w.games[n] # NoGame \/ (c \notin w.waiting /\ n \in Queued(w.queue))
           full == \A h \in listed : ~HasRoom(w, h)
           v == CreateGame(w, c, n)
<1>1. \/ g = NoServer /\ full
      \/ g # NoServer /\ g \in listed /\ HasRoom(w, g)
  BY ChooseServerLemma, ServersAssumption DEF NoServer, GameServer
<1>2. CASE exists
  <2>1. v = w
    BY <1>2 DEF CreateGame
  <2> QED BY <1>2, <2>1
<1>3. CASE ~exists /\ g = NoServer /\ c \in w.waiting
  <2>1. v = Dequeued(w, c)
    BY <1>3 DEF CreateGame
  <2> QED BY <1>1, <1>3, <2>1
<1>4. CASE ~exists /\ g = NoServer /\ c \notin w.waiting
  <2>1. v = [w EXCEPT !.queue = Append(@, [client |-> c, name |-> n]), !.waiting = @ \cup {c}]
    BY <1>4 DEF CreateGame
  <2>2. v = Enqueued(w, c, n)
    BY <2>1 DEF Enqueued, WithQueue, Worlds
  <2> QED BY <1>1, <1>4, <2>2
<1>5. CASE ~exists /\ g # NoServer /\ c \in Dead
  <2>1. v = w
    BY <1>5 DEF CreateGame
  <2> QED BY <1>5, <2>1
<1>6. CASE ~exists /\ g # NoServer /\ c \notin Dead
  <2>1. v = [w EXCEPT !.games[n] = [server |-> g, created |-> FALSE, chars |-> {}],
                      !.gamenum[g] = @ + 1,
                      !.sqs = @ \cup {[kind |-> "create", client |-> c, name |-> n,
                                       via |-> w.connection[g]]}]
    BY <1>6 DEF CreateGame
  <2>2. v = NewGame(w, c, n, g)
    BY <2>1 DEF NewGame, WithGames, Worlds
  <2> QED BY <1>1, <1>6, <2>2
<1> QED BY <1>2, <1>3, <1>4, <1>5, <1>6


\* While somebody waits, no server has room but one, and that for m games at most.
Short(w, g, m) ==
    w.queue # <<>> =>
        \A h \in listed : w.connection[h] # NoLink =>
            w.maxgame[h] - w.gamenum[h] <= IF h = g THEN m ELSE 0

SameServers(v, w) == v.connection = w.connection /\ v.maxgame = w.maxgame

\* The first of the queue is the one that is tried (CheckCreateGame).
LEMMA FirstIsTried ==
    ASSUME NEW w \in Worlds, Lined(w, online), w.queue # <<>>
    PROVE  /\ 1 \in DOMAIN w.queue /\ w.queue[1] \in Waiter
           /\ CheckCreateGame(w) =
                 Dequeued(CreateGame(w, w.queue[1].client, w.queue[1].name), w.queue[1].client)
<1> DEFINE live == {i \in DOMAIN w.queue : w.queue[i].client \in online \cap w.waiting}
           k == CHOOSE i \in live : \A j \in live : i <= j
<1>1. /\ w.queue \in Seq(Waiter) /\ Len(w.queue) \in Nat \ {0}
      /\ DOMAIN w.queue = 1..Len(w.queue)
  BY LenProperties, EmptySeq DEF Worlds
<1>2. live = 1..Len(w.queue)
  BY <1>1 DEF Lined
<1>3. live # {} /\ k = 1
  BY <1>1, <1>2
<1>4. SubSeq(w.queue, 1, Len(w.queue)) = w.queue
  BY <1>1, SubSeqFull
<1>5. [w EXCEPT !.queue = SubSeq(@, k, Len(@))] = w
  BY <1>3, <1>4 DEF Worlds
<1>6. w.queue[1] \in Waiter
  BY <1>1, ElementOfSeq
<1> HIDE DEF k, live
<1>7. CheckCreateGame(w) =
        (LET e == w.queue[k]
             rest == [w EXCEPT !.queue = SubSeq(@, k, Len(@))]
         IN  Dequeued(CreateGame(rest, e.client, e.name), e.client))
  BY <1>3 DEF CheckCreateGame, live, k
<1> QED BY <1>1, <1>3, <1>5, <1>6, <1>7

LEMMA NobodyIsTried ==
    ASSUME NEW w \in Worlds, w.queue = <<>>
    PROVE  CheckCreateGame(w) = w
<1>1. DOMAIN w.queue = {}
  OBVIOUS
<1>2. CheckCreateGame(w) = [w EXCEPT !.queue = <<>>]
  BY <1>1 DEF CheckCreateGame
<1> QED BY <1>2 DEF Worlds

\* A place that is offered to the queue is taken, when nobody is refused (gqlist_check_creategame).
LEMMA OfferLemma ==
    ASSUME NEW w, Sound(w), Lined(w, online), online \subseteq Client, listed \subseteq GameServer
    PROVE  LET v == CheckCreateGame(w)
           IN  /\ Sound(v) /\ Lined(v, online) /\ SameServers(v, w)
               /\ \A g \in GameServer, m \in Nat :
                     Dead = {} /\ Fresh(w) /\ Short(w, g, m + 1) => Fresh(v) /\ Short(v, g, m)
<1> DEFINE v == CheckCreateGame(w)
<1>1. w \in Worlds
  BY DEF Sound, SoundBut
<1>2. CASE w.queue = <<>>
  BY <1>1, <1>2, NobodyIsTried DEF SameServers, Short
<1>3. CASE w.queue # <<>>
  <2> DEFINE c == w.queue[1].client
             n == w.queue[1].name
             u == CreateGame(w, c, n)
  <2>1. 1 \in DOMAIN w.queue /\ w.queue[1] \in Waiter /\ v = Dequeued(u, c)
    BY <1>1, <1>3, FirstIsTried
  <2>2. c \in Client /\ n \in Name /\ c \in w.waiting
    BY <2>1 DEF Waiter, Lined
  <2> HIDE DEF v, u, c, n
  <2>3. CASE /\ u = w
             /\ \/ w.games[n] # NoGame \/ c \in Dead
                \/ c \notin w.waiting /\ n \in Queued(w.queue)
    <3>1. v \in Worlds /\ SameGames(v, w) /\ Lined(v, online)
      BY <2>1, <2>3, <1>1, DequeuedLemma
    <3>2. Sound(v)
      BY <3>1, SameGamesSound
    <3>3. ~(Dead = {} /\ Fresh(w))
      BY <2>1, <2>2, <2>3 DEF Fresh, Free, n
    <3> QED BY <3>1, <3>2, <3>3 DEF SameGames, SameServers, v
  <2>4. CASE u = Dequeued(w, c) /\ \A g \in listed : ~HasRoom(w, g)
    <3>1. /\ u \in Worlds /\ SameGames(u, w) /\ Lined(u, online) /\ u.waiting = w.waiting \ {c}
          /\ Fresh(w) => Fresh(u)
      BY <2>4, <1>1, DequeuedLemma DEF Fresh
    <3>2. v = u
      BY <2>1, <3>1 DEF Dequeued
    <3>3. Sound(u)
      BY <3>1, SameGamesSound
    <3>4. ASSUME NEW g \in GameServer, NEW m \in Nat PROVE Short(u, g, m)
      <4> SUFFICES ASSUME NEW h \in listed, u.connection[h] # NoLink
                   PROVE  u.maxgame[h] - u.gamenum[h] <= IF h = g THEN m ELSE 0
        BY DEF Short
      <4>1. w.gamenum[h] \in Nat /\ w.maxgame[h] \in Int /\ h \in GameServer
        BY <1>1 DEF Worlds
      <4>2. ~(w.gamenum[h] < w.maxgame[h])
        BY <2>4, <3>1 DEF HasRoom, Active, SameGames
      <4> QED BY <4>1, <4>2, <3>1 DEF SameGames
    <3> QED BY <3>1, <3>2, <3>3, <3>4 DEF SameGames, SameServers, v
  <2>5. ASSUME w.games[n] = NoGame,
               NEW g \in listed, HasRoom(w, g), u = NewGame(w, c, n, g)
        PROVE  /\ Sound(v) /\ Lined(v, online) /\ SameServers(v, w)
               /\ \A h \in GameServer, m \in Nat :
                     Dead = {} /\ Fresh(w) /\ Short(w, h, m + 1) => Fresh(v) /\ Short(v, h, m)
    <3>1. /\ Sound(u) /\ u.gamenum = [w.gamenum EXCEPT ![g] = @ + 1]
          /\ u.games = [w.games EXCEPT ![n] = [server |-> g, created |-> FALSE, chars |-> {}]]
          /\ u.maxgame = w.maxgame /\ u.connection = w.connection
          /\ u.queue = w.queue /\ u.waiting = w.waiting
      BY <2>2, <2>5, NewGameLemma DEF HasRoom, Active
    <3>2. Lined(u, online) /\ u \in Worlds
      BY <3>1 DEF Lined, Sound, SoundBut
    <3>3. /\ v \in Worlds /\ SameGames(v, u) /\ Lined(v, online) /\ v.waiting = w.waiting \ {c}
          /\ Differ(w) => Differ(v)
          /\ \A j \in DOMAIN v.queue : \E i \in DOMAIN w.queue : v.queue[j] = w.queue[i]
      BY <2>1, <3>1, <3>2, DequeuedLemma DEF Differ
    <3>4. Sound(v) /\ SameServers(v, w)
      BY <3>1, <3>3, SameGamesSound DEF SameGames, SameServers
    <3>5. ASSUME Fresh(w) PROVE Fresh(v)
      <4> SUFFICES ASSUME NEW j \in DOMAIN v.queue PROVE v.games[v.queue[j].name] = NoGame
        BY <3>3, <3>5 DEF Fresh, Free
      <4>1. PICK i \in DOMAIN w.queue : v.queue[j] = w.queue[i]
        BY <3>3
      <4>2. w.queue[i].client # c
        BY <3>3, <4>1 DEF Lined
      <4>3. w.queue[i].name # n
        BY <4>2, <3>5, <2>1 DEF Fresh, Differ, c, n
      <4>4. w.games[w.queue[i].name] = NoGame /\ w.queue[i].name \in Name
        <5>1. w.queue[i] \in Waiter
          BY <1>1, ElementOfSeq, LenProperties DEF Worlds
        <5> QED BY <5>1, <3>5 DEF Fresh, Free, Waiter
      <4>5. w.games \in [Name -> {NoGame} \cup GameRec]
        BY <1>1 DEF Worlds
      <4> QED BY <4>1, <4>3, <4>4, <4>5, <3>1, <3>3 DEF SameGames
    <3>6. ASSUME NEW h \in GameServer, NEW m \in Nat, Short(w, h, m + 1)
          PROVE  Short(v, h, m)
      <4>1. /\ w.gamenum \in [GameServer -> Nat] /\ w.maxgame \in [GameServer -> Int]
            /\ g \in GameServer
        BY <1>1 DEF Worlds
      <4>2. w.maxgame[g] - w.gamenum[g] <= IF g = h THEN m + 1 ELSE 0
        BY <2>5, <1>3, <3>6 DEF Short, HasRoom, Active
      <4>3. g = h
        BY <4>1, <4>2, <2>5 DEF HasRoom
      <4> SUFFICES ASSUME NEW i \in listed, v.connection[i] # NoLink
                   PROVE  v.maxgame[i] - v.gamenum[i] <= IF i = h THEN m ELSE 0
        BY DEF Short
      <4>4. v.maxgame[i] = w.maxgame[i] /\ v.gamenum[i] = u.gamenum[i] /\ w.connection[i] # NoLink
        BY <3>1, <3>3 DEF SameGames
      <4>5. w.maxgame[i] - w.gamenum[i] <= IF i = h THEN m + 1 ELSE 0
        BY <4>4, <1>3, <3>6 DEF Short
      <4>6. i \in GameServer /\ w.gamenum[i] \in Nat /\ w.maxgame[i] \in Int
        BY <4>1
      <4>7. CASE i = h
        <5>1. u.gamenum[i] = w.gamenum[i] + 1
          BY <4>1, <4>3, <4>7, <3>1
        <5> QED BY <5>1, <4>4, <4>5, <4>6, <4>7
      <4>8. CASE i # h
        <5>1. u.gamenum[i] = w.gamenum[i]
          BY <4>1, <4>3, <4>6, <4>8, <3>1
        <5> QED BY <5>1, <4>4, <4>5, <4>8
      <4> QED BY <4>7, <4>8
    <3> QED BY <3>3, <3>4, <3>5, <3>6
  <2>6. u = CreateGame(w, c, n)
    BY DEF u
  <2> QED BY <1>1, <2>2, <2>3, <2>4, <2>5, <2>6, CreateGameCases DEF v
<1> QED BY <1>2, <1>3


-----------------------------------------------------------------------------
(* Destroying a game.                                                        *)

\* A world without the game of a name, before its place goes to the queue.
Gone(w, n) ==
    WithGames(w, [w.games EXCEPT ![n] = NoGame], [w.gamenum EXCEPT ![w.games[n].server] = @ - 1],
              {IF q.name = n THEN [q EXCEPT !.name = NoGame] ELSE q : q \in w.sqs})

LEMMA GoneLemma ==
    ASSUME NEW X, NEW w, SoundBut(w, X), NEW n \in Name, w.games[n] # NoGame
    PROVE  LET v == Gone(w, n)
           IN  /\ SoundBut(v, X) /\ w.games[n].server \in GameServer
               /\ v.games = [w.games EXCEPT ![n] = NoGame]
               /\ v.gamenum = [w.gamenum EXCEPT ![w.games[n].server] = @ - 1]
               /\ v.maxgame = w.maxgame /\ v.connection = w.connection
               /\ v.queue = w.queue /\ v.waiting = w.waiting
<1> DEFINE g == w.games[n].server
           gs == [w.games EXCEPT ![n] = NoGame]
           gn == [w.gamenum EXCEPT ![g] = @ - 1]
           less(q) == IF q.name = n THEN [q EXCEPT !.name = NoGame] ELSE q
           sq == {less(q) : q \in w.sqs}
           v == Gone(w, n)
<1>1. /\ w.games \in [Name -> {NoGame} \cup GameRec] /\ w.gamenum \in [GameServer -> Nat]
      /\ w.connection \in [GameServer -> Link \cup {NoLink}] /\ w.sqs \subseteq Request
      /\ w \in Worlds
  BY DEF SoundBut, Worlds
<1>2. w.games[n] \in GameRec /\ g \in GameServer
  BY <1>1 DEF GameRec
<1>3. \A h \in GameServer : w.gamenum[h] = Cardinality(GamesOn(w, h)) /\ IsFiniteSet(GamesOn(w, h))
  <2>1. \A h \in GameServer : GamesOn(w, h) \in SUBSET Name
    BY DEF GamesOn
  <2> QED BY <2>1, NameAssumption, FS_Subset DEF SoundBut, Counted
<1>4. n \in GamesOn(w, g)
  BY DEF GamesOn
<1>5. w.gamenum[g] - 1 \in Nat
  <2>1. Cardinality(GamesOn(w, g)) \in Nat /\ Cardinality(GamesOn(w, g)) # 0
    BY <1>2, <1>3, <1>4, FS_CardinalityType, FS_EmptySet
  <2> QED BY <1>2, <1>3, <2>1
<1>6. gs \in [Name -> {NoGame} \cup GameRec] /\ gn \in [GameServer -> Nat]
  BY <1>1, <1>5
<1>7. \A q \in w.sqs : /\ less(q) \in Request /\ less(q).via = q.via
                       /\ less(q).name = IF q.name = n THEN NoGame ELSE q.name
  BY <1>1 DEF Request
<1>8. sq \subseteq Request
  BY <1>7
<1>9. /\ v \in Worlds /\ v.games = gs /\ v.gamenum = gn /\ v.sqs = sq
      /\ v.maxgame = w.maxgame /\ v.connection = w.connection
      /\ v.queue = w.queue /\ v.waiting = w.waiting
  <2>1. v = WithGames(w, gs, gn, sq)
    BY DEF Gone
  <2> HIDE DEF gs, gn, sq, v
  <2> QED BY <2>1, <1>1, <1>6, <1>8, WithGamesLemma
<1> HIDE DEF v, less
<1>10. Counted(v)
  <2> SUFFICES ASSUME NEW h \in GameServer
               PROVE  v.gamenum[h] = Cardinality(GamesOn(v, h))
    BY DEF Counted
  <2>1. CASE h = g
    <3>1. GamesOn(v, h) = GamesOn(w, h) \ {n} /\ n \in GamesOn(w, h)
      BY <2>1, <1>1, <1>4, <1>9 DEF GamesOn
    <3>2. Cardinality(GamesOn(v, h)) = Cardinality(GamesOn(w, h)) - 1
      BY <3>1, <1>3, FS_RemoveElement
    <3>3. v.gamenum[h] = w.gamenum[h] - 1
      BY <2>1, <1>1, <1>2, <1>9
    <3> QED BY <3>2, <3>3, <1>3
  <2>2. CASE h # g
    <3>1. GamesOn(v, h) = GamesOn(w, h)
      BY <2>2, <1>1, <1>9 DEF GamesOn
    <3>2. v.gamenum[h] = w.gamenum[h]
      BY <2>2, <1>1, <1>2, <1>9
    <3> QED BY <3>1, <3>2, <1>3
  <2> QED BY <2>1, <2>2
<1>11. Placed(v, X)
  BY <1>1, <1>9 DEF SoundBut, Placed
<1>12. Pending(v, X)
  <2> SUFFICES ASSUME NEW p \in v.sqs, p.name # NoGame
               PROVE  /\ v.games[p.name] # NoGame
                      /\ v.games[p.name].server \in X \/ p.via = v.connection[v.games[p.name].server]
    BY DEF Pending
  <2>1. PICK q \in w.sqs : p = less(q)
    BY <1>9
  <2>2. q.name # n /\ p.name = q.name /\ p.via = q.via
    BY <2>1, <1>7
  <2>3. q.name \in Name
    BY <2>2, <1>1 DEF Request
  <2>4. /\ w.games[q.name] # NoGame
        /\ w.games[q.name].server \in X \/ q.via = w.connection[w.games[q.name].server]
    BY <2>2 DEF SoundBut, Pending
  <2>5. v.games[p.name] = w.games[q.name]
    BY <2>2, <2>3, <1>1, <1>9
  <2> QED BY <2>2, <2>4, <2>5, <1>9
<1>13. SoundBut(v, X)
  BY <1>9, <1>10, <1>11, <1>12 DEF SoundBut
<1> QED BY <1>2, <1>9, <1>13 DEF v

\* The place of a game that is destroyed is offered, if it is one (game_destroy).
LEMMA DestroyGameCases ==
    ASSUME NEW w \in Worlds, NEW n \in Name, w.games[n] # NoGame
    PROVE  LET v == Gone(w, n)
               g == w.games[n].server
           IN  DestroyGame(w, n) = IF v.gamenum[g] < v.maxgame[g] THEN CheckCreateGame(v) ELSE v
<1> DEFINE g == w.games[n].server
           gone == [w EXCEPT !.games[n] = NoGame, !.gamenum[g] = @ - 1,
                             !.sqs = {IF q.name = n THEN [q EXCEPT !.name = NoGame] ELSE q : q \in @}]
<1>1. gone = Gone(w, n)
  BY DEF Gone, WithGames, Worlds
<1>2. DestroyGame(w, n) = IF gone.gamenum[g] < gone.maxgame[g] THEN CheckCreateGame(gone) ELSE gone
  BY DEF DestroyGame
<1> HIDE DEF gone
<1> QED BY <1>1, <1>2


\* Nobody waits while a server has room.
Full(w) == w.queue # <<>> => \A h \in listed : ~HasRoom(w, h)

LEMMA FullIsShort ==
    ASSUME NEW w \in Worlds, NEW g, listed \subseteq GameServer
    PROVE  Full(w) <=> Short(w, g, 0)
<1>1. \A h \in listed : w.gamenum[h] \in Nat /\ w.maxgame[h] \in Int
  BY DEF Worlds
<1>2. \A h \in listed : w.maxgame[h] - w.gamenum[h] <= 0 <=> ~(w.gamenum[h] < w.maxgame[h])
  BY <1>1
<1> QED BY <1>2 DEF Full, Short, HasRoom, Active

\* What a handler keeps: who waits is online and waits for want of room.
Served(w) == Dead = {} => Fresh(w) /\ Full(w)

LEMMA DestroyGameLemma ==
    ASSUME NEW w, Sound(w), Lined(w, online), online \subseteq Client, listed \subseteq GameServer,
           Served(w), NEW n \in Name, w.games[n] # NoGame
    PROVE  LET v == DestroyGame(w, n)
           IN  Sound(v) /\ Lined(v, online) /\ SameServers(v, w) /\ Served(v)
<1> DEFINE u == Gone(w, n)
           g == w.games[n].server
           v == DestroyGame(w, n)
<1>1. w \in Worlds /\ SoundBut(w, {})
  BY DEF Sound, SoundBut
<1>2. /\ Sound(u) /\ g \in GameServer
      /\ u.games = [w.games EXCEPT ![n] = NoGame]
      /\ u.gamenum = [w.gamenum EXCEPT ![g] = @ - 1]
      /\ u.maxgame = w.maxgame /\ u.connection = w.connection
      /\ u.queue = w.queue /\ u.waiting = w.waiting
  BY <1>1, GoneLemma DEF Sound
<1>3. v = IF u.gamenum[g] < u.maxgame[g] THEN CheckCreateGame(u) ELSE u
  BY <1>1, DestroyGameCases
<1> HIDE DEF u, g, v
<1>4. u \in Worlds /\ Lined(u, online)
  BY <1>2 DEF Lined, Sound, SoundBut
<1>5. /\ w.gamenum \in [GameServer -> Nat] /\ w.maxgame \in [GameServer -> Int]
      /\ w.games \in [Name -> {NoGame} \cup GameRec]
      /\ u.gamenum \in [GameServer -> Nat]
  BY <1>1, <1>4 DEF Worlds
<1>6. Fresh(w) => Fresh(u)
  <2>1. \A i \in DOMAIN w.queue : w.queue[i].name \in Name
    <3>1. \A i \in DOMAIN w.queue : w.queue[i] \in Waiter
      BY <1>1, ElementOfSeq, LenProperties DEF Worlds
    <3> QED BY <3>1 DEF Waiter
  <2> QED BY <1>2, <1>5, <2>1 DEF Fresh, Differ, Free
<1>7. \A h \in listed : h \in GameServer /\ u.gamenum[h] = IF h = g THEN w.gamenum[h] - 1 ELSE w.gamenum[h]
  BY <1>2, <1>5
<1>8. CASE u.gamenum[g] < u.maxgame[g]
  <2>1. ASSUME Full(w) PROVE Short(u, g, 0 + 1)
    <3> SUFFICES ASSUME NEW h \in listed, u.connection[h] # NoLink, u.queue # <<>>
                 PROVE  u.maxgame[h] - u.gamenum[h] <= IF h = g THEN 0 + 1 ELSE 0
      BY DEF Short
    <3>1. ~(w.gamenum[h] < w.maxgame[h])
      BY <2>1, <1>2 DEF Full, HasRoom, Active
    <3>2. w.gamenum[h] \in Nat /\ w.maxgame[h] \in Int /\ u.maxgame[h] = w.maxgame[h]
      BY <1>2, <1>5, <1>7
    <3> QED BY <3>1, <3>2, <1>7
  <2>2. /\ Sound(v) /\ Lined(v, online) /\ SameServers(v, u)
        /\ Dead = {} /\ Fresh(u) /\ Short(u, g, 0 + 1) => Fresh(v) /\ Short(v, g, 0)
    BY <1>2, <1>3, <1>4, <1>8, OfferLemma
  <2>3. v \in Worlds
    BY <2>2 DEF Sound, SoundBut
  <2> QED BY <2>1, <2>2, <2>3, <1>2, <1>6, FullIsShort DEF Served, SameServers, v
<1>9. CASE ~(u.gamenum[g] < u.maxgame[g])
  <2>1. v = u
    BY <1>3, <1>9
  <2>2. ASSUME Full(w) PROVE Full(u)
    <3> SUFFICES ASSUME NEW h \in listed, u.queue # <<>>, HasRoom(u, h) PROVE FALSE
      BY DEF Full
    <3>1. h # g
      BY <1>9 DEF HasRoom
    <3>2. HasRoom(w, h)
      BY <3>1, <1>2, <1>7 DEF HasRoom, Active
    <3> QED BY <3>2, <2>2, <1>2 DEF Full
  <2> QED BY <2>1, <2>2, <1>2, <1>4, <1>6 DEF Served, SameServers, v
<1> QED BY <1>8, <1>9


-----------------------------------------------------------------------------
(* Deactivating a server.                                                    *)

\* The worlds of the loop of d2gs_deactive.
Shut(off, names, m) ==
    LET shut[i \in 0..m] == IF i = 0 THEN off ELSE DestroyGame(shut[i - 1], names[i]) IN shut

\* They are defined for any number of games: the loop that is shorter by one game goes on by
\* one more.
LEMMA ShutDefined ==
    ASSUME NEW off, NEW names, NEW m \in Nat
    PROVE  LET shut == Shut(off, names, m)
           IN  shut[0] = off /\ \A i \in 1..m : shut[i] = DestroyGame(shut[i - 1], names[i])
<1> DEFINE Is(f, k) ==
               f = [i \in 0..k |-> IF i = 0 THEN off ELSE DestroyGame(f[i - 1], names[i])]
           open == {k \in Nat : ~ \E f : Is(f, k)}
<1>1. ASSUME open # {} PROVE FALSE
  <2>1. PICK k \in open : \A j \in open : k <= j
    BY <1>1, Least
  <2>2. k # 0
    <3> DEFINE f == [i \in 0..0 |-> off]
    <3>1. Is(f, 0)
      OBVIOUS
    <3> QED BY <3>1
  <2>3. k - 1 \in Nat /\ k \in Nat
    BY <2>2
  <2>4. PICK f : Is(f, k - 1)
    <3>1. ~(k <= k - 1)
      BY <2>3
    <3>2. k - 1 \notin open
      BY ONLY <3>1, <2>1
    <3> HIDE DEF Is
    <3> QED BY <2>3, <3>2
  <2> DEFINE h == [i \in 0..k |-> IF i = 0 THEN off ELSE DestroyGame(f[i - 1], names[i])]
  <2>5. \A i \in 0..(k - 1) : h[i] = f[i]
    BY <2>3, <2>4
  <2>6. Is(h, k)
    <3>1. \A i \in 0..k : i = 0 \/ i - 1 \in 0..(k - 1)
      BY <2>3
    <3> HIDE DEF h
    <3>2. \A i \in 0..k : i # 0 => h[i - 1] = f[i - 1]
      BY <2>5, <3>1
    <3> QED BY <3>2 DEF h
  <2> QED BY <2>1, <2>6
<1> DEFINE shut == Shut(off, names, m)
<1>2. Is(shut, m)
  <2>1. PICK f : Is(f, m)
    BY <1>1
  <2> QED BY <2>1 DEF Shut
<1> HIDE DEF shut
<1>3. shut[0] = off /\ \A i \in 1..m : shut[i] = DestroyGame(shut[i - 1], names[i])
  BY <1>2
<1> QED BY <1>3 DEF shut

\* A finite set as a sequence: each of its elements once.
LEMMA SetToSeqLemma ==
    ASSUME NEW S, IsFiniteSet(S)
    PROVE  LET s == SetToSeq(S)
           IN  /\ Len(s) = Cardinality(S) /\ Len(s) \in Nat /\ s \in [1..Len(s) -> S]
               /\ \A i, j \in 1..Len(s) : s[i] = s[j] => i = j
               /\ \A x \in S : \E i \in 1..Len(s) : s[i] = x
<1> DEFINE s == SetToSeq(S)
           m == Cardinality(S)
<1>1. m \in Nat /\ \E f : f \in Injection(1..m, S)
  BY FS_CardinalityType DEF ExistsBijection, Bijection
<1>2. \E f \in [1..m -> S] : IsInjective(f)
  BY <1>1 DEF Injection
<1>3. s \in [1..m -> S] /\ IsInjective(s)
  BY <1>2 DEF SetToSeq
<1> HIDE DEF s
<1>4. s \in Seq(S)
  BY <1>1, <1>3, SeqDef
<1>5. Len(s) = m
  BY <1>1, <1>3, <1>4, LenProperties
<1>6. s \in Surjection(1..m, S)
  <2>1. s \in Injection(1..m, S)
    BY <1>3 DEF Injection
  <2>2. Cardinality(1..m) = m
    BY <1>1, FS_Interval
  <2> QED BY <2>1, <2>2, FS_Injection
<1> QED BY <1>1, <1>3, <1>5, <1>6 DEF IsInjective, Surjection, s

\* A world in which a server takes no game (d2gs_deactive, before its games go).
Cut(w, g) == [w EXCEPT !.connection[g] = NoLink, !.maxgame[g] = 0]

LEMMA CutLemma ==
    ASSUME NEW w, Sound(w), NEW g \in GameServer
    PROVE  LET v == Cut(w, g)
           IN  /\ SoundBut(v, {g}) /\ v.games = w.games /\ v.gamenum = w.gamenum
               /\ v.queue = w.queue /\ v.waiting = w.waiting
               /\ v.connection = [w.connection EXCEPT ![g] = NoLink]
               /\ v.maxgame = [w.maxgame EXCEPT ![g] = 0]
<1> DEFINE v == Cut(w, g)
<1>1. w \in Worlds /\ Counted(w) /\ Placed(w, {}) /\ Pending(w, {})
  BY DEF Sound, SoundBut
<1>2. 0 \in 0..MaxGame
  BY ServersAssumption
<1>3. /\ v \in Worlds /\ v.games = w.games /\ v.gamenum = w.gamenum /\ v.sqs = w.sqs
      /\ v.queue = w.queue /\ v.waiting = w.waiting
      /\ v.connection = [w.connection EXCEPT ![g] = NoLink]
      /\ v.maxgame = [w.maxgame EXCEPT ![g] = 0]
  BY <1>1, <1>2 DEF Cut, Worlds
<1> HIDE DEF v
<1>4. Counted(v)
  BY <1>1, <1>3 DEF Counted, GamesOn
<1>5. /\ w.games \in [Name -> {NoGame} \cup GameRec] /\ w.sqs \subseteq Request
      /\ w.connection \in [GameServer -> Link \cup {NoLink}]
  BY <1>1 DEF Worlds
<1>6. Placed(v, {g})
  BY <1>1, <1>3, <1>5 DEF Placed, GameRec
<1>7. Pending(v, {g})
  <2> SUFFICES ASSUME NEW q \in w.sqs, q.name # NoGame
               PROVE  /\ w.games[q.name] # NoGame
                      /\ \/ w.games[q.name].server = g
                         \/ q.via = v.connection[w.games[q.name].server]
    BY <1>3 DEF Pending
  <2>1. q.name \in Name
    BY <1>5 DEF Request
  <2>2. w.games[q.name] # NoGame /\ q.via = w.connection[w.games[q.name].server]
    BY <1>1 DEF Pending
  <2>3. w.games[q.name].server \in GameServer
    BY <2>1, <2>2, <1>5 DEF GameRec
  <2> QED BY <2>2, <2>3, <1>3, <1>5
<1> QED BY <1>3, <1>4, <1>6, <1>7 DEF SoundBut, v

\* How a server that was cut is, when some of its games are destroyed.
Going(v, u, g) ==
    /\ SoundBut(v, {g}) /\ v.connection = u.connection /\ v.maxgame = u.maxgame
    /\ v.queue = u.queue /\ v.waiting = u.waiting
    /\ \A h \in GameServer \ {g} : v.gamenum[h] = u.gamenum[h]
    /\ \A n \in Name : v.games[n] \in {u.games[n], NoGame}

\* A game of a server that was cut leaves no place to the queue.
LEMMA GoingLemma ==
    ASSUME NEW u, NEW v, NEW g \in GameServer, u.maxgame[g] = 0, Going(v, u, g),
           NEW n \in GamesOn(v, g)
    PROVE  LET x == DestroyGame(v, n)
           IN  Going(x, u, g) /\ GamesOn(x, g) = GamesOn(v, g) \ {n}
<1> DEFINE y == Gone(v, n)
           x == DestroyGame(v, n)
<1>1. n \in Name /\ v.games[n] # NoGame /\ v.games[n].server = g
  BY DEF GamesOn
<1>2. SoundBut(v, {g}) /\ v \in Worlds /\ v.maxgame[g] = 0
  BY DEF Going, SoundBut
<1>3. /\ SoundBut(y, {g})
      /\ y.games = [v.games EXCEPT ![n] = NoGame]
      /\ y.gamenum = [v.gamenum EXCEPT ![g] = @ - 1]
      /\ y.maxgame = v.maxgame /\ y.connection = v.connection
      /\ y.queue = v.queue /\ y.waiting = v.waiting
  BY <1>1, <1>2, GoneLemma
<1>4. x = IF y.gamenum[g] < y.maxgame[g] THEN CheckCreateGame(y) ELSE y
  BY <1>1, <1>2, DestroyGameCases
<1> HIDE DEF x, y
<1>5. y.gamenum[g] \in Nat
  BY <1>3 DEF SoundBut, Worlds
<1>6. x = y
  BY <1>2, <1>3, <1>4, <1>5
<1>7. v.games \in [Name -> {NoGame} \cup GameRec] /\ v.gamenum \in [GameServer -> Nat]
  BY <1>2 DEF Worlds
<1>8. Going(y, u, g)
  BY <1>3, <1>7 DEF Going
<1>9. GamesOn(y, g) = GamesOn(v, g) \ {n}
  BY <1>1, <1>3, <1>7 DEF GamesOn
<1> QED BY <1>6, <1>8, <1>9 DEF x

\* Every game of a server goes with it, and nothing else changes (d2gs_deactive).
LEMMA DeactivateLemma ==
    ASSUME NEW w, Sound(w), NEW g \in GameServer
    PROVE  LET v == Deactivate(w, g)
           IN  /\ Sound(v) /\ GamesOn(v, g) = {} /\ v.gamenum = [w.gamenum EXCEPT ![g] = 0]
               /\ v.maxgame = [w.maxgame EXCEPT ![g] = 0]
               /\ v.connection = [w.connection EXCEPT ![g] = NoLink]
               /\ v.queue = w.queue /\ v.waiting = w.waiting
               /\ \A n \in Name : v.games[n] \in {w.games[n], NoGame}
<1> DEFINE off == Cut(w, g)
           names == SetToSeq(GamesOn(w, g))
           m == Len(names)
           shut == Shut(off, names, m)
           named(i) == {names[j] : j \in 1..i}
           Done(i) == Going(shut[i], off, g) /\ GamesOn(shut[i], g) = GamesOn(w, g) \ named(i)
<1>1. /\ SoundBut(off, {g}) /\ off.games = w.games /\ off.gamenum = w.gamenum
      /\ off.queue = w.queue /\ off.waiting = w.waiting
      /\ off.connection = [w.connection EXCEPT ![g] = NoLink]
      /\ off.maxgame = [w.maxgame EXCEPT ![g] = 0]
  BY CutLemma
<1>2. /\ w.gamenum \in [GameServer -> Nat] /\ w.maxgame \in [GameServer -> 0..MaxGame]
  BY DEF Sound, SoundBut, Worlds
<1>3. /\ m \in Nat /\ names \in [1..m -> GamesOn(w, g)]
      /\ \A i, j \in 1..m : names[i] = names[j] => i = j
      /\ \A x \in GamesOn(w, g) : \E i \in 1..m : names[i] = x
  <2>1. GamesOn(w, g) \in SUBSET Name
    BY DEF GamesOn
  <2>2. IsFiniteSet(GamesOn(w, g))
    BY <2>1, NameAssumption, FS_Subset
  <2> QED BY <2>2, SetToSeqLemma
<1>4. Deactivate(w, g) = [shut[m] EXCEPT !.gamenum[g] = 0]
  BY DEF Deactivate, Cut, Shut
<1> HIDE DEF off, names
<1>5. shut[0] = off /\ \A i \in 1..m : shut[i] = DestroyGame(shut[i - 1], names[i])
  <2>1. m \in Nat
    BY <1>3
  <2> HIDE DEF m
  <2> QED BY ONLY <2>1, ShutDefined
<1> HIDE DEF shut, m
<1>6. Done(0)
  <2>1. Going(off, off, g)
    BY <1>1 DEF Going
  <2>2. GamesOn(off, g) = GamesOn(w, g)
    BY <1>1 DEF GamesOn
  <2>3. named(0) = {}
    OBVIOUS
  <2> QED BY <2>1, <2>2, <2>3, <1>5
<1>7. ASSUME NEW i \in 1..m, Done(i - 1) PROVE Done(i)
  <2>1. i - 1 \in 0..m /\ i \in Nat /\ i - 1 \in Nat
    BY <1>3
  <2>2. names[i] \in GamesOn(w, g) \ named(i - 1)
    <3>1. \A j \in 1..(i - 1) : j \in 1..m /\ j # i
      BY <1>3
    <3> QED BY <3>1, <1>3
  <2>3. names[i] \in GamesOn(shut[i - 1], g)
    BY <2>2, <1>7
  <2>4. off.maxgame[g] = 0
    BY <1>1, <1>2
  <2>5. Going(shut[i], off, g) /\ GamesOn(shut[i], g) = GamesOn(shut[i - 1], g) \ {names[i]}
    BY <2>3, <2>4, <1>5, <1>7, GoingLemma
  <2>6. named(i) = named(i - 1) \cup {names[i]}
    <3>1. 1..i = (1..(i - 1)) \cup {i}
      BY <2>1
    <3> QED BY <3>1
  <2> HIDE DEF named
  <2> QED BY <2>5, <2>6, <1>7
<1>8. Done(m)
  <2> DEFINE bad == {i \in 0..m : ~Done(i)}
  <2> HIDE DEF Done
  <2>1. ASSUME bad # {} PROVE FALSE
    <3>1. bad \in SUBSET Nat
      BY <1>3
    <3>2. PICK i \in bad : \A j \in bad : i <= j
      BY <2>1, <3>1, Least
    <3>3. i # 0 /\ i \in 0..m
      BY <3>2, <1>6
    <3>4. i \in 1..m /\ i - 1 \in 0..m /\ ~(i <= i - 1)
      BY <3>3, <1>3
    <3>5. Done(i - 1)
      BY <3>2, <3>4
    <3> QED BY <3>2, <3>4, <3>5, <1>7
  <2>2. m \in 0..m
    BY <1>3
  <2> QED BY <2>1, <2>2
<1> DEFINE x == shut[m]
<1>9. Going(x, off, g) /\ GamesOn(x, g) = {}
  BY <1>3, <1>8
<1> HIDE DEF x, Done
<1>10. SoundBut(x, {g}) /\ x.gamenum \in [GameServer -> Nat] /\ x \in Worlds
  BY <1>9 DEF Going, SoundBut, Worlds
<1>11. x.gamenum[g] = 0
  BY <1>9, <1>10, FS_EmptySet DEF SoundBut, Counted
<1>12. x.gamenum = [w.gamenum EXCEPT ![g] = 0]
  BY <1>1, <1>2, <1>9, <1>10, <1>11 DEF Going
<1>13. Deactivate(w, g) = x
  <2>1. [x.gamenum EXCEPT ![g] = 0] = x.gamenum
    BY <1>10, <1>11
  <2>2. [x EXCEPT !.gamenum[g] = 0] = x
    BY <1>10, <2>1 DEF Worlds
  <2> QED BY <1>4, <2>2 DEF x
<1>14. Sound(x)
  <2>1. \A n \in Name : x.games[n] # NoGame => x.games[n].server # g
    BY <1>9 DEF GamesOn
  <2>2. Placed(x, {})
    BY <1>10, <2>1 DEF SoundBut, Placed
  <2>3. \A q \in x.sqs : q.name # NoGame => q.name \in Name
    BY <1>10 DEF Worlds, Request
  <2>4. Pending(x, {})
    BY <1>10, <2>1, <2>3 DEF SoundBut, Pending
  <2> QED BY <1>10, <2>2, <2>4 DEF Sound, SoundBut
<1> QED BY <1>1, <1>9, <1>12, <1>13, <1>14 DEF Going

-----------------------------------------------------------------------------
(* Offering places to the queue.                                             *)

\* The worlds of the loop of on_d2gs_setgsinfo.
Offers(w, m) ==
    LET after[i \in 0..m] == IF i = 0 THEN w ELSE CheckCreateGame(after[i - 1]) IN after

\* They are defined for any number of places.
LEMMA OffersDefined ==
    ASSUME NEW w, NEW m \in Nat
    PROVE  LET after == Offers(w, m)
           IN  after[0] = w /\ \A i \in 1..m : after[i] = CheckCreateGame(after[i - 1])
<1> DEFINE Is(f, k) == f = [i \in 0..k |-> IF i = 0 THEN w ELSE CheckCreateGame(f[i - 1])]
           open == {k \in Nat : ~ \E f : Is(f, k)}
<1>1. ASSUME open # {} PROVE FALSE
  <2>1. PICK k \in open : \A j \in open : k <= j
    BY <1>1, Least
  <2>2. k # 0
    <3> DEFINE f == [i \in 0..0 |-> w]
    <3>1. Is(f, 0)
      OBVIOUS
    <3> QED BY <3>1
  <2>3. k - 1 \in Nat /\ k \in Nat
    BY <2>2
  <2>4. PICK f : Is(f, k - 1)
    <3>1. ~(k <= k - 1)
      BY <2>3
    <3>2. k - 1 \notin open
      BY ONLY <3>1, <2>1
    <3> HIDE DEF Is
    <3> QED BY <2>3, <3>2
  <2> DEFINE h == [i \in 0..k |-> IF i = 0 THEN w ELSE CheckCreateGame(f[i - 1])]
  <2>5. \A i \in 0..(k - 1) : h[i] = f[i]
    BY <2>3, <2>4
  <2>6. Is(h, k)
    <3>1. \A i \in 0..k : i = 0 \/ i - 1 \in 0..(k - 1)
      BY <2>3
    <3> HIDE DEF h
    <3>2. \A i \in 0..k : i # 0 => h[i - 1] = f[i - 1]
      BY <2>5, <3>1
    <3> QED BY <3>2 DEF h
  <2> QED BY <2>1, <2>6
<1> DEFINE after == Offers(w, m)
<1>2. Is(after, m)
  <2>1. PICK f : Is(f, m)
    BY <1>1
  <2> QED BY <2>1 DEF Offers
<1> HIDE DEF after
<1>3. after[0] = w /\ \A i \in 1..m : after[i] = CheckCreateGame(after[i - 1])
  BY <1>2
<1> QED BY <1>3 DEF after

\* As many offers as a server has places, and nobody waits while it has one (on_d2gs_setgsinfo).
LEMMA OfferedLemma ==
    ASSUME NEW w, Sound(w), Lined(w, online), online \subseteq Client, listed \subseteq GameServer,
           NEW g \in GameServer, NEW m \in Nat, Dead = {} => Fresh(w) /\ Short(w, g, m)
    PROVE  LET v == Offered(w, m)
           IN  Sound(v) /\ Lined(v, online) /\ SameServers(v, w) /\ Served(v)
<1> DEFINE after == Offers(w, m)
           Done(i) == /\ Sound(after[i]) /\ Lined(after[i], online) /\ SameServers(after[i], w)
                      /\ Dead = {} => Fresh(after[i]) /\ Short(after[i], g, m - i)
<1>1. Offered(w, m) = after[m]
  BY DEF Offered, Offers
<1>2. after[0] = w /\ \A i \in 1..m : after[i] = CheckCreateGame(after[i - 1])
  BY OffersDefined
<1> HIDE DEF after
<1>3. Done(0)
  <2>1. m - 0 = m
    OBVIOUS
  <2> QED BY <2>1, <1>2 DEF SameServers
<1>4. ASSUME NEW i \in 1..m, Done(i - 1) PROVE Done(i)
  <2>1. m - i \in Nat /\ m - (i - 1) = (m - i) + 1
    OBVIOUS
  <2>2. after[i] = CheckCreateGame(after[i - 1])
    BY <1>2
  <2>3. /\ Sound(after[i]) /\ Lined(after[i], online) /\ SameServers(after[i], after[i - 1])
        /\ Dead = {} /\ Fresh(after[i - 1]) /\ Short(after[i - 1], g, (m - i) + 1) =>
              Fresh(after[i]) /\ Short(after[i], g, m - i)
    BY <2>1, <2>2, <1>4, OfferLemma
  <2> QED BY <2>1, <2>3, <1>4 DEF SameServers
<1>5. Done(m)
  <2> DEFINE bad == {i \in 0..m : ~Done(i)}
  <2> HIDE DEF Done
  <2>1. ASSUME bad # {} PROVE FALSE
    <3>1. PICK i \in bad : \A j \in bad : i <= j
      <4>1. bad \in SUBSET Nat
        OBVIOUS
      <4> QED BY <2>1, <4>1, Least
    <3>2. i # 0 /\ i \in 0..m
      BY <3>1, <1>3
    <3>3. i \in 1..m /\ i - 1 \in 0..m /\ ~(i <= i - 1)
      BY <3>2
    <3>4. Done(i - 1)
      BY <3>1, <3>3
    <3> QED BY <3>1, <3>3, <3>4, <1>4
  <2> QED BY <2>1
<1> DEFINE v == after[m]
<1>6. /\ Sound(v) /\ Lined(v, online) /\ SameServers(v, w)
      /\ Dead = {} => Fresh(v) /\ Short(v, g, 0)
  <2>1. m - m = 0
    OBVIOUS
  <2> QED BY <2>1, <1>5
<1> HIDE DEF v
<1>7. Served(v)
  <2>1. v \in Worlds
    BY <1>6 DEF Sound, SoundBut
  <2> QED BY <2>1, <1>6, FullIsShort DEF Served
<1> QED BY <1>1, <1>6, <1>7 DEF v

-----------------------------------------------------------------------------
(* The handlers.                                                             *)

\* A request to create a game is served, or its client waits for want of room (CreateGame).
LEMMA CreateGameLemma ==
    ASSUME NEW w, Sound(w), Lined(w, online), online \subseteq Client, listed \subseteq GameServer,
           Served(w), NEW c \in online, NEW n \in Name
    PROVE  LET v == CreateGame(w, c, n)
           IN  Sound(v) /\ Lined(v, online) /\ SameServers(v, w) /\ Served(v)
<1> DEFINE v == CreateGame(w, c, n)
           full == \A g \in listed : ~HasRoom(w, g)
<1>1. w \in Worlds /\ c \in Client
  BY DEF Sound, SoundBut
<1>2. CASE v = w
  BY <1>2 DEF SameServers
<1>3. CASE v = Dequeued(w, c) /\ c \in w.waiting /\ full
  <2> HIDE DEF v
  <2>1. v \in Worlds /\ SameGames(v, w) /\ Lined(v, online) /\ (Fresh(w) => Fresh(v))
    BY <1>1, <1>3, DequeuedLemma DEF Fresh
  <2>2. Full(v)
    BY <1>3, <2>1 DEF Full, HasRoom, Active, SameGames
  <2> QED BY <2>1, <2>2, SameGamesSound DEF Served, SameServers, SameGames, v
<1>4. CASE /\ v = Enqueued(w, c, n) /\ c \notin w.waiting /\ full
           /\ w.games[n] = NoGame /\ n \notin Queued(w.queue)
  <2> DEFINE e == [client |-> c, name |-> n]
             q == Append(w.queue, e)
  <2> HIDE DEF v
  <2>1. w.queue \in Seq(Waiter) /\ w.waiting \subseteq Client /\ e \in Waiter
    BY <1>1 DEF Worlds, Waiter
  <2>2. /\ q \in Seq(Waiter) /\ Len(w.queue) \in Nat /\ Len(q) = Len(w.queue) + 1
        /\ q[Len(w.queue) + 1] = e /\ DOMAIN w.queue = 1..Len(w.queue) /\ DOMAIN q = 1..Len(q)
        /\ \A i \in 1..Len(w.queue) : q[i] = w.queue[i]
    BY <2>1, AppendProperties, LenProperties
  <2> DEFINE l == Len(w.queue) + 1
  <2>3. /\ DOMAIN q = DOMAIN w.queue \cup {l} /\ l \notin DOMAIN w.queue
        /\ q[l].client = c /\ q[l].name = n /\ \A i \in DOMAIN w.queue : q[i] = w.queue[i]
    BY <2>2
  <2> HIDE DEF q, e, l
  <2>4. /\ v \in Worlds /\ SameGames(v, w) /\ v.queue = q /\ v.waiting = w.waiting \cup {c}
    <3>1. v = WithQueue(w, q, w.waiting \cup {c}) /\ w.waiting \cup {c} \in SUBSET Client
      BY <1>1, <1>4, <2>1 DEF Enqueued, q, e
    <3> QED BY <3>1, <1>1, <2>2, WithQueueLemma
  <2>5. Lined(v, online)
    <3>1. \A i \in DOMAIN w.queue : w.queue[i].client \in w.waiting /\ w.queue[i].client # c
      BY <1>4 DEF Lined
    <3>2. \A i \in DOMAIN v.queue : v.queue[i].client \in v.waiting
      BY <2>3, <2>4, <3>1
    <3>3. \A d \in v.waiting : \E i \in DOMAIN v.queue : v.queue[i].client = d
      BY <2>3, <2>4 DEF Lined
    <3>4. \A i, j \in DOMAIN v.queue : v.queue[i].client = v.queue[j].client => i = j
      BY <2>3, <2>4, <3>1 DEF Lined
    <3> QED BY <2>4, <3>2, <3>3, <3>4 DEF Lined
  <2>6. Fresh(w) => Fresh(v)
    <3>1. \A i \in DOMAIN w.queue : w.queue[i].name # n
      BY <1>4 DEF Queued
    <3> QED BY <1>4, <2>3, <2>4, <3>1 DEF Fresh, Differ, Free, SameGames
  <2>7. Full(v)
    BY <1>4, <2>4 DEF Full, HasRoom, Active, SameGames
  <2> QED BY <2>4, <2>5, <2>6, <2>7, SameGamesSound DEF Served, SameServers, SameGames, v
<1>5. CASE /\ w.games[n] = NoGame
           /\ \E g \in listed : HasRoom(w, g) /\ v = NewGame(w, c, n, g)
  <2>1. PICK g \in listed : HasRoom(w, g) /\ v = NewGame(w, c, n, g)
    BY <1>5
  <2> HIDE DEF v
  <2>2. /\ Sound(v) /\ v.maxgame = w.maxgame /\ v.connection = w.connection
        /\ v.queue = w.queue /\ v.waiting = w.waiting
    <3>1. g \in GameServer /\ w.connection[g] # NoLink
      BY <2>1 DEF HasRoom, Active
    <3>2. w.games[n] = NoGame /\ v = NewGame(w, c, n, g)
      BY <1>5, <2>1
    <3>3. Sound(w)
      OBVIOUS
    <3>4. LET x == NewGame(w, c, n, g)
          IN  /\ Sound(x)
              /\ x.games = [w.games EXCEPT ![n] = [server |-> g, created |-> FALSE, chars |-> {}]]
              /\ x.gamenum = [w.gamenum EXCEPT ![g] = @ + 1]
              /\ x.maxgame = w.maxgame /\ x.connection = w.connection
              /\ x.queue = w.queue /\ x.waiting = w.waiting
      BY ONLY <1>1, <3>1, <3>2, <3>3, NewGameLemma
    <3> QED BY <3>2, <3>4
  <2>3. Dead = {} => w.queue = <<>>
    BY <2>1 DEF Served, Full
  <2>4. Served(v)
    <3>1. DOMAIN <<>> = {}
      OBVIOUS
    <3> QED BY <2>2, <2>3, <3>1 DEF Served, Fresh, Differ, Free, Full
  <2> QED BY <2>2, <2>4 DEF Lined, SameServers, v
<1> HIDE DEF v
<1>6. v = CreateGame(w, c, n)
  BY DEF v
<1> QED BY <1>1, <1>2, <1>3, <1>4, <1>5, <1>6, CreateGameCases

\* Requests may go, and their clients, as long as the games they are about do not change.
LEMMA RequestsLemma ==
    ASSUME NEW w, Sound(w), NEW sq \in SUBSET Request,
           \A p \in sq : \E q \in w.sqs : p.name = q.name /\ p.via = q.via
    PROVE  LET v == [w EXCEPT !.sqs = sq]
           IN  /\ Sound(v) /\ v.games = w.games /\ v.gamenum = w.gamenum /\ v.sqs = sq
               /\ SameServers(v, w) /\ v.queue = w.queue /\ v.waiting = w.waiting
<1> DEFINE v == [w EXCEPT !.sqs = sq]
<1>1. w \in Worlds /\ Counted(w) /\ Placed(w, {}) /\ Pending(w, {})
  BY DEF Sound, SoundBut
<1>2. /\ v \in Worlds /\ v.games = w.games /\ v.gamenum = w.gamenum /\ v.sqs = sq
      /\ SameServers(v, w) /\ v.queue = w.queue /\ v.waiting = w.waiting
  BY <1>1 DEF Worlds, SameServers
<1> HIDE DEF v
<1>3. Counted(v) /\ Placed(v, {}) /\ Pending(v, {})
  BY <1>1, <1>2 DEF Counted, Placed, Pending, GamesOn, SameServers
<1> QED BY <1>2, <1>3 DEF Sound, SoundBut, v

\* A game changes and stays on its server.
LEMMA ChangedLemma ==
    ASSUME NEW w, Sound(w), NEW n \in Name, w.games[n] # NoGame, NEW r \in GameRec,
           r.server = w.games[n].server
    PROVE  LET v == [w EXCEPT !.games[n] = r]
           IN  /\ Sound(v) /\ v.games = [w.games EXCEPT ![n] = r] /\ v.gamenum = w.gamenum
               /\ v.sqs = w.sqs /\ SameServers(v, w) /\ v.queue = w.queue /\ v.waiting = w.waiting
<1> DEFINE v == [w EXCEPT !.games[n] = r]
<1>1. w \in Worlds /\ Counted(w) /\ Placed(w, {}) /\ Pending(w, {})
  BY DEF Sound, SoundBut
<1>2. /\ v \in Worlds /\ v.games = [w.games EXCEPT ![n] = r] /\ v.gamenum = w.gamenum
      /\ v.sqs = w.sqs /\ SameServers(v, w) /\ v.queue = w.queue /\ v.waiting = w.waiting
  BY <1>1 DEF Worlds, SameServers
<1> HIDE DEF v
<1>3. r # NoGame
  BY NameAssumption DEF GameRec
<1>4. w.games \in [Name -> {NoGame} \cup GameRec] /\ w.sqs \subseteq Request
  BY <1>1 DEF Worlds
<1>5. \A m \in Name : /\ v.games[m] # NoGame <=> w.games[m] # NoGame
                      /\ w.games[m] # NoGame => v.games[m].server = w.games[m].server
  BY <1>2, <1>3, <1>4
<1>6. Counted(v)
  <2>1. \A g \in GameServer : GamesOn(v, g) = GamesOn(w, g)
    BY <1>5 DEF GamesOn
  <2> QED BY <1>1, <1>2, <2>1 DEF Counted
<1>7. Placed(v, {})
  BY <1>1, <1>2, <1>5 DEF Placed, SameServers
<1>8. Pending(v, {})
  <2>1. \A q \in w.sqs : q.name # NoGame => q.name \in Name
    BY <1>4 DEF Request
  <2> QED BY <1>1, <1>2, <1>5, <2>1 DEF Pending, SameServers
<1> QED BY <1>2, <1>6, <1>7, <1>8 DEF Sound, SoundBut, v

\* A server without games gets a link, and no place for a game yet (on_d2gs_authreply).
Connected(w, g, k) == [w EXCEPT !.connection[g] = k, !.gamenum[g] = 0, !.maxgame[g] = 0]

LEMMA ConnectLemma ==
    ASSUME NEW w, Sound(w), NEW g \in GameServer, GamesOn(w, g) = {}, NEW k \in Link
    PROVE  LET v == Connected(w, g, k)
           IN  /\ Sound(v) /\ v.games = w.games /\ v.gamenum = w.gamenum
               /\ v.connection = [w.connection EXCEPT ![g] = k]
               /\ v.maxgame = [w.maxgame EXCEPT ![g] = 0]
               /\ v.queue = w.queue /\ v.waiting = w.waiting
<1> DEFINE v == Connected(w, g, k)
<1>1. w \in Worlds /\ Counted(w) /\ Placed(w, {}) /\ Pending(w, {})
  BY DEF Sound, SoundBut
<1>2. /\ w.gamenum \in [GameServer -> Nat] /\ w.connection \in [GameServer -> Link \cup {NoLink}]
      /\ w.maxgame \in [GameServer -> 0..MaxGame] /\ 0 \in 0..MaxGame
      /\ w.games \in [Name -> {NoGame} \cup GameRec] /\ w.sqs \subseteq Request
  BY <1>1, ServersAssumption DEF Worlds
<1>3. w.gamenum[g] = 0
  BY <1>1, FS_EmptySet DEF Counted
<1>4. [w.gamenum EXCEPT ![g] = 0] = w.gamenum
  BY <1>2, <1>3
<1>5. /\ v \in Worlds /\ v.games = w.games /\ v.gamenum = w.gamenum /\ v.sqs = w.sqs
      /\ v.connection = [w.connection EXCEPT ![g] = k]
      /\ v.maxgame = [w.maxgame EXCEPT ![g] = 0]
      /\ v.queue = w.queue /\ v.waiting = w.waiting
  BY <1>1, <1>2, <1>4 DEF Worlds, Connected
<1> HIDE DEF v
<1>6. Counted(v)
  BY <1>1, <1>5 DEF Counted, GamesOn
<1>7. \A n \in Name : w.games[n] # NoGame =>
         /\ w.games[n].server \in GameServer /\ w.games[n].server # g
         /\ v.connection[w.games[n].server] = w.connection[w.games[n].server]
  BY <1>2, <1>5 DEF GamesOn, GameRec
<1>8. Placed(v, {})
  BY <1>1, <1>5, <1>7 DEF Placed
<1>9. Pending(v, {})
  <2>1. \A q \in w.sqs : q.name # NoGame => q.name \in Name
    BY <1>2 DEF Request
  <2> QED BY <1>1, <1>5, <1>7, <2>1 DEF Pending
<1> QED BY <1>5, <1>6, <1>8, <1>9 DEF Sound, SoundBut, v

\* The loop of gqlist_update_all_clients drops nobody while all are online.
LEMMA StillOnlineLemma ==
    ASSUME NEW S, NEW q \in Seq(S), \A i \in DOMAIN q : q[i].client \in online
    PROVE  StillOnline(q) = q
<1> DEFINE m == Len(q)
           Is(f) == f = [i \in 0..m |->
                            IF i = 0 THEN <<>>
                            ELSE IF q[i].client \in online THEN Append(f[i - 1], q[i]) ELSE f[i - 1]]
           first == [i \in 0..m |-> SubSeq(q, 1, i)]
<1>1. m \in Nat /\ DOMAIN q = 1..m
  BY LenProperties
<1>2. first[0] = <<>>
  <2>1. SubSeq(q, 1, 0) = <<>>
    BY SubSeqEmpty
  <2> QED BY <1>1, <2>1
<1>3. ASSUME NEW i \in 1..m PROVE first[i] = Append(first[i - 1], q[i])
  <2>1. SubSeq(q, 1, i) = Append(SubSeq(q, 1, i - 1), q[i])
    <3>1. SubSeq(q, 1, i) \in Seq(S) /\ Len(SubSeq(q, 1, i)) = i
          /\ \A j \in 1..i : SubSeq(q, 1, i)[j] = q[j]
      BY <1>1, SubSeqProperties
    <3>2. SubSeq(q, 1, i - 1) \in Seq(S) /\ Len(SubSeq(q, 1, i - 1)) = i - 1
          /\ \A j \in 1..(i - 1) : SubSeq(q, 1, i - 1)[j] = q[j]
      BY <1>1, SubSeqProperties
    <3>3. q[i] \in S
      BY <1>1, ElementOfSeq
    <3>4. LET a == Append(SubSeq(q, 1, i - 1), q[i])
          IN  a \in Seq(S) /\ Len(a) = i /\ \A j \in 1..i : a[j] = q[j]
      BY <1>1, <3>2, <3>3, AppendProperties
    <3> QED BY <3>1, <3>4, SeqEqual
  <2>2. i \in 0..m /\ i - 1 \in 0..m
    BY <1>1
  <2> QED BY <2>1, <2>2
<1> HIDE DEF first
<1>4. Is(first)
  <2>1. \A i \in 0..m : i # 0 => i \in 1..m
    BY <1>1
  <2>2. \A i \in 0..m : first[i] = IF i = 0 THEN <<>> ELSE IF q[i].client \in online
                                   THEN Append(first[i - 1], q[i]) ELSE first[i - 1]
    BY <2>1, <1>1, <1>2, <1>3
  <2> QED BY <2>2 DEF first
<1> DEFINE kept == CHOOSE f : Is(f)
<1>5. StillOnline(q) = kept[m]
  BY DEF StillOnline
<1>6. Is(kept)
  BY <1>4
<1> HIDE DEF kept
<1>7. /\ kept[0] = <<>>
      /\ \A i \in 1..m : kept[i] = Append(kept[i - 1], q[i])
  <2>1. 0 \in 0..m /\ \A i \in 1..m : i \in 0..m /\ i # 0
    BY <1>1
  <2> QED BY <1>1, <1>6, <2>1
<1> DEFINE bad == {i \in 0..m : kept[i] # first[i]}
<1>8. bad = {}
  <2> SUFFICES ASSUME bad # {} PROVE FALSE
    OBVIOUS
  <2>1. bad \in SUBSET Nat
    BY <1>1
  <2>2. PICK i \in bad : \A j \in bad : i <= j
    BY <2>1, Least
  <2>3. i # 0 /\ i \in 0..m
    BY <2>2, <1>2, <1>7
  <2>4. i \in 1..m /\ i - 1 \in 0..m /\ ~(i <= i - 1)
    BY <2>3, <1>1
  <2>5. kept[i - 1] = first[i - 1]
    BY <2>2, <2>4
  <2> QED BY <2>2, <2>4, <2>5, <1>3, <1>7
<1>9. kept[m] = SubSeq(q, 1, m)
  <2>1. m \in 0..m
    BY <1>1
  <2>2. kept[m] = first[m]
    BY <1>8, <2>1
  <2> QED BY <2>1, <2>2 DEF first
<1> QED BY <1>5, <1>9, SubSeqFull

\* A client that leaves the queue lets the others wait for want of room (gq_destroy).
LEMMA DequeuedServed ==
    ASSUME NEW w \in Worlds, NEW O, Lined(w, O), Served(w), NEW c
    PROVE  Served(Dequeued(w, c))
<1> DEFINE v == Dequeued(w, c)
<1>1. /\ v \in Worlds /\ SameGames(v, w) /\ (Fresh(w) => Fresh(v))
      /\ \A j \in DOMAIN v.queue : \E i \in DOMAIN w.queue : v.queue[j] = w.queue[i]
  BY DequeuedLemma DEF Fresh
<1> HIDE DEF v
<1>2. v.queue # <<>> => w.queue # <<>>
  <2>1. v.queue # <<>> => 1 \in DOMAIN v.queue
    BY <1>1, EmptySeq, LenProperties DEF Worlds
  <2>2. DOMAIN <<>> = {}
    OBVIOUS
  <2> QED BY <1>1, <2>1, <2>2
<1>3. Full(w) => Full(v)
  BY <1>1, <1>2 DEF Full, HasRoom, Active, SameGames
<1> QED BY <1>1, <1>3 DEF Served, v

-----------------------------------------------------------------------------
(* The inductive invariant.                                                  *)

\* A server that is connected is listed, and its link is up and from its address.
Linked(w, L, U) ==
    \A g \in GameServer : w.connection[g] # NoLink =>
        g \in L /\ w.connection[g] \in U /\ Of[w.connection[g]] = g

\* What every handler keeps: Sound's numbers and requests, Lined's queue, Linked's links, and
\* that who waits waits for want of room, which takes that the names waited for are free.
IInv ==
    /\ online \subseteq Client /\ listed \subseteq GameServer /\ up \subseteq Link
    /\ Sound(World)
    /\ Lined(World, online)
    /\ Linked(World, listed, up)
    /\ Served(World)

\* The same queue, and the same room on the servers.
LEMMA SameQueue ==
    ASSUME NEW w \in Worlds, NEW v, v.queue = w.queue, v.waiting = w.waiting,
           v.gamenum = w.gamenum, SameServers(v, w),
           \A n \in Name : w.games[n] = NoGame => v.games[n] = NoGame
    PROVE  (\A O : Lined(w, O) => Lined(v, O)) /\ (Served(w) => Served(v))
<1>1. \A i \in DOMAIN w.queue : w.queue[i].name \in Name
  <2>1. \A i \in DOMAIN w.queue : w.queue[i] \in Waiter
    BY ElementOfSeq, LenProperties DEF Worlds
  <2> QED BY <2>1 DEF Waiter
<1>2. Fresh(w) => Fresh(v)
  BY <1>1 DEF Fresh, Differ, Free
<1>3. Full(w) => Full(v)
  BY DEF Full, HasRoom, Active, SameServers
<1>4. \A O : Lined(w, O) => Lined(v, O)
  BY DEF Lined
<1> QED BY <1>2, <1>3, <1>4 DEF Served

\* The requests that were sent over a link (conn_destroy of a game server).
LEMMA LostLemma ==
    ASSUME NEW w, Sound(w), NEW k
    PROVE  LET v == Lost(w, k)
           IN  /\ Sound(v) /\ SameServers(v, w)
               /\ (\A O : Lined(w, O) => Lined(v, O)) /\ (Served(w) => Served(v))
<1> DEFINE sq == {q \in w.sqs : q.via # k}
           v == [w EXCEPT !.sqs = sq]
<1>1. w \in Worlds /\ w.sqs \subseteq Request
  BY DEF Sound, SoundBut, Worlds
<1>2. sq \in SUBSET Request /\ \A p \in sq : \E q \in w.sqs : p.name = q.name /\ p.via = q.via
  BY <1>1
<1>3. Lost(w, k) = v
  BY DEF Lost
<1> HIDE DEF sq
<1>4. /\ Sound(v) /\ v.games = w.games /\ v.gamenum = w.gamenum
      /\ SameServers(v, w) /\ v.queue = w.queue /\ v.waiting = w.waiting
  BY <1>2, RequestsLemma
<1> HIDE DEF v
<1>5. (\A O : Lined(w, O) => Lined(v, O)) /\ (Served(w) => Served(v))
  BY <1>1, <1>4, SameQueue
<1> QED BY <1>3, <1>4, <1>5

\* A server that is deactivated leaves the others, and the queue, as they were.
LEMMA DeactivateKeeps ==
    ASSUME NEW w, Sound(w), NEW g \in GameServer, listed \subseteq GameServer
    PROVE  LET v == Deactivate(w, g)
           IN  /\ \A O : Lined(w, O) => Lined(v, O)
               /\ Served(w) => Served(v)
               /\ \A L, U : Linked(w, L, U) => Linked(v, L \ {g}, U \ {w.connection[g]})
<1> DEFINE v == Deactivate(w, g)
<1>1. /\ v.gamenum = [w.gamenum EXCEPT ![g] = 0]
      /\ v.maxgame = [w.maxgame EXCEPT ![g] = 0]
      /\ v.connection = [w.connection EXCEPT ![g] = NoLink]
      /\ v.queue = w.queue /\ v.waiting = w.waiting
      /\ \A n \in Name : v.games[n] \in {w.games[n], NoGame}
  BY DeactivateLemma
<1> HIDE DEF v
<1>2. /\ w.gamenum \in [GameServer -> Nat] /\ w.maxgame \in [GameServer -> 0..MaxGame]
      /\ w.connection \in [GameServer -> Link \cup {NoLink}] /\ w \in Worlds
  BY DEF Sound, SoundBut, Worlds
<1>3. \A O : Lined(w, O) => Lined(v, O)
  BY <1>1 DEF Lined
<1>4. Fresh(w) => Fresh(v)
  <2>1. \A i \in DOMAIN w.queue : w.queue[i].name \in Name
    <3>1. \A i \in DOMAIN w.queue : w.queue[i] \in Waiter
      BY <1>2, ElementOfSeq, LenProperties DEF Worlds
    <3> QED BY <3>1 DEF Waiter
  <2> QED BY <1>1, <2>1 DEF Fresh, Differ, Free
<1>5. Full(w) => Full(v)
  <2>1. \A h \in listed : HasRoom(v, h) => HasRoom(w, h)
    BY <1>1, <1>2 DEF HasRoom, Active
  <2> QED BY <1>1, <2>1 DEF Full
<1>6. ASSUME NEW L, NEW U, Linked(w, L, U) PROVE Linked(v, L \ {g}, U \ {w.connection[g]})
  BY <1>1, <1>2, <1>6 DEF Linked
<1> QED BY <1>3, <1>4, <1>5, <1>6 DEF Served, v

\* A step to a world that is as it should be.
LEMMA Keeps ==
    ASSUME NEW v, Becomes(v), Sound(v), Lined(v, online'), Linked(v, listed', up'), Served(v),
           online' \subseteq Client, listed' \subseteq listed, listed \subseteq GameServer,
           up' \subseteq Link
    PROVE  IInv'
<1>1. v \in Worlds
  BY DEF Sound, SoundBut
<1>2. World' = v
  BY <1>1 DEF World, Becomes, Worlds
<1>3. Served(World)'
  BY <1>2 DEF Served, Fresh, Differ, Free, Full, HasRoom, Active
<1>4. Sound(World)' /\ Lined(World, online)' /\ Linked(World, listed, up)'
  BY <1>2 DEF Sound, SoundBut, Counted, Placed, Pending, GamesOn, Lined, Linked
<1>5. listed' \subseteq GameServer
  OBVIOUS
<1> QED BY <1>3, <1>4, <1>5 DEF IInv

\* No server is connected and nobody waits at first.
LEMMA InitIInv == Init => IInv
<1> SUFFICES ASSUME Init PROVE IInv
  OBVIOUS
<1>1. /\ World.games = [n \in Name |-> NoGame] /\ World.gamenum = [g \in GameServer |-> 0]
      /\ World.maxgame = [g \in GameServer |-> 0] /\ World.connection = [g \in GameServer |-> NoLink]
      /\ World.queue = <<>> /\ World.waiting = {} /\ World.sqs = {}
  BY DEF Init, World
<1>2. World \in Worlds
  <2>1. <<>> \in Seq(Waiter) /\ 0 \in 0..MaxGame
    BY EmptySeq, ServersAssumption
  <2> QED BY <2>1 DEF Init, World, Worlds
<1>3. DOMAIN World.queue = {}
  BY <1>1
<1>4. Sound(World)
  <2>1. \A g \in GameServer : GamesOn(World, g) = {}
    BY <1>1 DEF GamesOn
  <2>2. Counted(World)
    BY <1>1, <2>1, FS_EmptySet DEF Counted
  <2> QED BY <1>1, <1>2, <2>2 DEF Sound, SoundBut, Placed, Pending
<1>5. Lined(World, online) /\ Linked(World, listed, up) /\ Served(World)
  BY <1>1, <1>3 DEF Lined, Linked, Served, Fresh, Differ, Free, Full
<1> QED BY <1>4, <1>5 DEF Init, IInv

\* Each handler keeps the invariant.
LEMMA NextIInv == IInv /\ [Next]_vars => IInv'
<1> SUFFICES ASSUME IInv, [Next]_vars PROVE IInv'
  OBVIOUS
<1> DEFINE w == World
<1>1. /\ online \subseteq Client /\ listed \subseteq GameServer /\ up \subseteq Link
      /\ Sound(w) /\ Lined(w, online) /\ Linked(w, listed, up) /\ Served(w)
  BY DEF IInv
<1>2. /\ w.games = games /\ w.gamenum = gamenum /\ w.maxgame = maxgame /\ w.queue = queue
      /\ w.connection = connection /\ w.waiting = waiting /\ w.sqs = sqs
  BY DEF World
<1> HIDE DEF w
<1>3. w \in Worlds /\ Placed(w, {}) /\ Pending(w, {})
  BY <1>1 DEF Sound, SoundBut
<1>4. /\ games \in [Name -> {NoGame} \cup GameRec] /\ sqs \subseteq Request
      /\ connection \in [GameServer -> Link \cup {NoLink}] /\ waiting \subseteq Client
      /\ Of \in [Link -> GameServer] /\ NoLink \notin Link
      /\ maxgame \in [GameServer -> 0..MaxGame] /\ gamenum \in [GameServer -> Nat]
  BY <1>2, <1>3, LinkAssumption DEF Worlds
<1>5. ASSUME UNCHANGED <<games, gamenum, maxgame, connection, queue, waiting, sqs>>
      PROVE  Becomes(w)
  BY <1>2, <1>5 DEF Becomes
\* A world with other requests.
<1>6. ASSUME NEW sq, sqs' = sq,
             UNCHANGED <<games, gamenum, maxgame, connection, queue, waiting>>
      PROVE  Becomes([w EXCEPT !.sqs = sq])
  BY <1>6, <1>3, <1>2 DEF Becomes, Worlds
<1>7. ASSUME NEW v, SameServers(v, w) PROVE Linked(v, listed, up)
  BY <1>1, <1>7 DEF Linked, SameServers
<1>8. CASE UNCHANGED vars
  <2>1. Becomes(w) /\ UNCHANGED <<online, listed, up>>
    BY <1>5, <1>8 DEF vars
  <2> QED BY <1>1, <2>1, Keeps
<1>9. ASSUME NEW c \in Client, ClientEnter(c) PROVE IInv'
  <2>1. Becomes(w) /\ online' = online \cup {c} /\ UNCHANGED <<listed, up>>
    BY <1>5, <1>9 DEF ClientEnter
  <2>2. Lined(w, online')
    BY <1>1, <2>1 DEF Lined
  <2> QED BY <1>1, <2>1, <2>2, Keeps
<1>10. ASSUME NEW c \in Client, ClientLeave(c) PROVE IInv'
  <2> DEFINE d == Dequeued(w, c)
             gone(q) == IF q.client = c THEN [q EXCEPT !.client = Nobody] ELSE q
             sq == {gone(q) : q \in d.sqs}
             v == [d EXCEPT !.sqs = sq]
  <2>1. /\ d \in Worlds /\ SameGames(d, w) /\ Lined(d, online) /\ d.waiting = w.waiting \ {c}
    BY <1>1, <1>3, DequeuedLemma
  <2>2. Served(d) /\ Sound(d)
    BY <1>1, <1>3, <2>1, DequeuedServed, SameGamesSound
  <2>3. Becomes(v) /\ online' = online \ {c} /\ UNCHANGED <<listed, up>>
    BY <1>10 DEF ClientLeave, w
  <2> HIDE DEF d
  <2>4. \A q \in d.sqs : gone(q) \in Request /\ gone(q).name = q.name /\ gone(q).via = q.via
    BY <2>1 DEF Worlds, Request
  <2>5. sq \in SUBSET Request /\ \A p \in sq : \E q \in d.sqs : p.name = q.name /\ p.via = q.via
    BY <2>4
  <2> HIDE DEF gone, sq
  <2>6. /\ Sound(v) /\ v.games = d.games /\ v.gamenum = d.gamenum
        /\ SameServers(v, d) /\ v.queue = d.queue /\ v.waiting = d.waiting
    BY <2>2, <2>5, RequestsLemma
  <2> HIDE DEF v
  <2>7. Lined(v, online')
    BY <2>1, <2>3, <2>6 DEF Lined
  <2>8. Served(v)
    BY <2>2, <2>6 DEF Served, Fresh, Differ, Free, Full, HasRoom, Active, SameServers
  <2>9. SameServers(v, w)
    BY <2>1, <2>6 DEF SameServers, SameGames
  <2>10. online' \subseteq Client
    BY <1>1, <2>3
  <2> QED BY <1>1, <1>7, <2>3, <2>6, <2>7, <2>8, <2>9, <2>10, Keeps
<1>11. ASSUME NEW c \in Client, NEW n \in Name, RequestCreate(c, n) PROVE IInv'
  <2>1. c \in online /\ Becomes(CreateGame(w, c, n)) /\ UNCHANGED <<online, listed, up>>
    BY <1>11 DEF RequestCreate, w
  <2> DEFINE v == CreateGame(w, c, n)
  <2>2. Sound(v) /\ Lined(v, online) /\ SameServers(v, w) /\ Served(v)
    BY <1>1, <2>1, CreateGameLemma
  <2> HIDE DEF v
  <2>3. Becomes(v)
    BY <2>1 DEF v
  <2> QED BY <1>1, <1>7, <2>1, <2>2, <2>3, Keeps
<1>12. ASSUME NEW c \in Client, NEW n \in Name, RequestJoin(c, n) PROVE IInv'
  <2> DEFINE q == [kind |-> "join", client |-> c, name |-> n,
                   via |-> connection[games[n].server]]
             v == [w EXCEPT !.sqs = sqs \cup {q}]
  <2>1. /\ games[n] # NoGame /\ sqs' = sqs \cup {q}
        /\ UNCHANGED <<games, gamenum, maxgame, connection, queue, waiting>>
        /\ UNCHANGED <<online, listed, up>>
    BY <1>12 DEF RequestJoin
  <2>2. Becomes(v)
    BY <1>6, <2>1
  <2>3. q \in Request /\ q.name = n /\ q.via = connection[games[n].server]
    <3>1. games[n].server \in GameServer /\ connection[games[n].server] \in Link
      BY <1>2, <1>3, <1>4, <2>1 DEF Placed, GameRec
    <3> QED BY <3>1 DEF Request
  <2>4. /\ v \in Worlds /\ v.games = w.games /\ v.gamenum = w.gamenum
        /\ v.sqs = w.sqs \cup {q} /\ SameServers(v, w)
        /\ v.queue = w.queue /\ v.waiting = w.waiting
    BY <1>2, <1>3, <1>4, <2>3 DEF Worlds, SameServers
  <2> HIDE DEF q, v
  <2>5. Pending(v, {})
    BY <1>2, <1>3, <2>1, <2>3, <2>4 DEF Pending, SameServers
  <2>6. Sound(v)
    BY <1>1, <2>4, <2>5 DEF Sound, SoundBut, Counted, Placed, GamesOn, SameServers
  <2>7. Lined(v, online)
    BY <1>1, <2>4 DEF Lined
  <2>8. Served(v)
    BY <1>1, <2>4 DEF Served, Fresh, Differ, Free, Full, HasRoom, Active, SameServers
  <2> QED BY <1>1, <1>7, <2>1, <2>2, <2>4, <2>6, <2>7, <2>8, Keeps
<1>13. ASSUME NEW c \in Client, Cancel(c) PROVE IInv'
  <2> DEFINE v == Dequeued(w, c)
  <2>1. Becomes(v) /\ UNCHANGED <<online, listed, up>>
    BY <1>13 DEF Cancel, w
  <2>2. v \in Worlds /\ SameGames(v, w) /\ Lined(v, online) /\ Served(v)
    BY <1>1, <1>3, DequeuedLemma, DequeuedServed
  <2> HIDE DEF v
  <2>3. Sound(v) /\ SameServers(v, w)
    BY <1>1, <2>2, SameGamesSound DEF SameGames, SameServers
  <2> QED BY <1>1, <1>7, <2>1, <2>2, <2>3, Keeps
<1>14. ASSUME NEW k \in Link, Authenticate(k) PROVE IInv'
  <2> DEFINE g == Of[k]
             idle == IF Active(w, g) THEN Deactivate(w, g) ELSE w
             v == Connected(idle, g, k)
  <2>1. /\ k \notin up /\ g \in listed /\ up' = up \cup {k} /\ UNCHANGED <<online, listed>>
        /\ Becomes(v)
    BY <1>14 DEF Authenticate, Connected, w
  <2>2. g \in GameServer
    BY <1>4
  <2>3. /\ Sound(idle) /\ Lined(idle, online) /\ Served(idle) /\ Linked(idle, listed, up)
        /\ GamesOn(idle, g) = {}
    <3>1. CASE Active(w, g)
      <4> DEFINE x == Deactivate(w, g)
      <4>1. Sound(x) /\ GamesOn(x, g) = {}
        BY <1>1, <2>2, DeactivateLemma
      <4>2. Lined(x, online) /\ Served(x) /\ Linked(x, listed \ {g}, up \ {w.connection[g]})
        BY <1>1, <2>2, DeactivateKeeps
      <4> HIDE DEF x
      <4>3. Linked(x, listed, up)
        BY <4>2 DEF Linked
      <4>4. idle = x
        BY <3>1 DEF x
      <4> QED BY <4>1, <4>2, <4>3, <4>4
    <3>2. CASE ~Active(w, g)
      <4>1. GamesOn(w, g) = {}
        BY <1>3, <3>2 DEF GamesOn, Placed, Active
      <4> QED BY <1>1, <3>2, <4>1
    <3> QED BY <3>1, <3>2
  <2> HIDE DEF idle
  <2>4. /\ Sound(v) /\ v.games = idle.games /\ v.gamenum = idle.gamenum
        /\ v.connection = [idle.connection EXCEPT ![g] = k]
        /\ v.maxgame = [idle.maxgame EXCEPT ![g] = 0]
        /\ v.queue = idle.queue /\ v.waiting = idle.waiting
    BY <2>2, <2>3, ConnectLemma
  <2> HIDE DEF v
  <2>5. Lined(v, online)
    BY <2>3, <2>4 DEF Lined
  <2>6. /\ idle.connection \in [GameServer -> Link \cup {NoLink}]
        /\ idle.maxgame \in [GameServer -> 0..MaxGame] /\ idle.gamenum \in [GameServer -> Nat]
    BY <2>3 DEF Sound, SoundBut, Worlds
  <2>7. Served(v)
    <3>1. \A h \in listed : HasRoom(v, h) => HasRoom(idle, h)
      <4> SUFFICES ASSUME NEW h \in listed, HasRoom(v, h) PROVE HasRoom(idle, h)
        OBVIOUS
      <4>1. h \in GameServer /\ idle.gamenum[h] \in Nat
        BY <1>1, <2>6
      <4>2. h # g
        BY <2>4, <2>6, <4>1 DEF HasRoom
      <4> QED BY <2>4, <2>6, <4>1, <4>2 DEF HasRoom, Active
    <3> QED BY <2>3, <2>4, <3>1 DEF Served, Fresh, Differ, Free, Full
  <2>8. Linked(v, listed', up')
    BY <2>1, <2>2, <2>3, <2>4, <2>6 DEF Linked
  <2>9. up' \subseteq Link
    BY <1>1, <2>1
  <2> QED BY <1>1, <2>1, <2>4, <2>5, <2>7, <2>8, <2>9, Keeps
<1>15. ASSUME NEW k \in Link, Disconnect(k) PROVE IInv'
  <2> DEFINE g == Of[k]
             x == IF g \in listed /\ connection[g] = k THEN Deactivate(w, g) ELSE w
             v == Lost(x, k)
  <2>1. k \in up /\ up' = up \ {k} /\ UNCHANGED <<online, listed>> /\ Becomes(v)
    BY <1>15 DEF Disconnect, w
  <2>2. g \in GameServer
    BY <1>4
  <2>3. Sound(x) /\ Lined(x, online) /\ Served(x) /\ Linked(x, listed, up \ {k})
    <3>1. CASE g \in listed /\ connection[g] = k
      <4> DEFINE y == Deactivate(w, g)
      <4>1. Sound(y)
        BY <1>1, <2>2, DeactivateLemma
      <4>2. Lined(y, online) /\ Served(y) /\ Linked(y, listed \ {g}, up \ {w.connection[g]})
        BY <1>1, <2>2, DeactivateKeeps
      <4> HIDE DEF y
      <4>3. Linked(y, listed, up \ {k})
        BY <1>2, <3>1, <4>2 DEF Linked
      <4>4. x = y
        BY <3>1 DEF y
      <4> QED BY <4>1, <4>2, <4>3, <4>4
    <3>2. CASE ~(g \in listed /\ connection[g] = k)
      <4>1. Linked(w, listed, up \ {k})
        BY <1>1, <1>2, <3>2 DEF Linked
      <4> QED BY <1>1, <3>2, <4>1
    <3> QED BY <3>1, <3>2
  <2> HIDE DEF x
  <2>4. Sound(v) /\ SameServers(v, x) /\ Lined(v, online) /\ Served(v)
    BY <2>3, LostLemma
  <2> HIDE DEF v
  <2>5. Linked(v, listed', up')
    BY <2>1, <2>3, <2>4 DEF Linked, SameServers
  <2>6. up' \subseteq Link
    BY <1>1, <2>1
  <2> QED BY <1>1, <2>1, <2>4, <2>5, <2>6, Keeps
<1>16. ASSUME NEW k \in Link, NEW max \in 0..MaxGame, SetInfo(k, max) PROVE IInv'
  <2> DEFINE g == Of[k]
             more == IF max > maxgame[g] THEN max - maxgame[g] ELSE 0
             x == [w EXCEPT !.maxgame[g] = max]
             v == Offered(x, more)
  <2>1. Becomes(v) /\ UNCHANGED <<online, listed, up>>
    BY <1>16 DEF SetInfo, w
  <2>2. g \in GameServer /\ maxgame[g] \in 0..MaxGame /\ MaxGame \in Nat
    BY <1>4, ServersAssumption
  <2>3. more \in Nat
    BY <2>2
  <2>4. /\ x \in Worlds /\ x.maxgame = [maxgame EXCEPT ![g] = max] /\ x.games = w.games
        /\ x.gamenum = w.gamenum /\ x.connection = w.connection /\ x.sqs = w.sqs
        /\ x.queue = w.queue /\ x.waiting = w.waiting
    BY <1>2, <1>3, <1>4, <2>2 DEF Worlds
  <2> HIDE DEF x
  <2>5. Sound(x) /\ Lined(x, online)
    BY <1>1, <2>4 DEF Sound, SoundBut, Counted, Placed, Pending, GamesOn, Lined
  <2>6. Fresh(w) => Fresh(x)
    BY <2>4 DEF Fresh, Differ, Free
  <2>7. Full(w) => Short(x, g, more)
    <3> SUFFICES ASSUME Full(w), x.queue # <<>>, NEW h \in listed, x.connection[h] # NoLink
                 PROVE  x.maxgame[h] - x.gamenum[h] <= IF h = g THEN more ELSE 0
      BY DEF Short
    <3>1. h \in GameServer /\ maxgame[h] \in 0..MaxGame /\ gamenum[h] \in Nat
      BY <1>1, <1>4
    <3>2. ~(gamenum[h] < maxgame[h])
      BY <1>2, <2>4 DEF Full, HasRoom, Active
    <3>3. x.gamenum[h] = gamenum[h]
      BY <1>2, <2>4
    <3>4. CASE h = g
      <4>1. x.maxgame[h] = max
        BY <1>4, <2>2, <2>4, <3>4
      <4> QED BY <2>2, <3>1, <3>2, <3>3, <3>4, <4>1
    <3>5. CASE h # g
      <4>1. x.maxgame[h] = maxgame[h]
        BY <1>4, <2>2, <2>4, <3>1, <3>5
      <4> QED BY <2>2, <3>1, <3>2, <3>3, <3>5, <4>1
    <3> QED BY <3>4, <3>5
  <2> HIDE DEF more
  <2>8. Sound(v) /\ Lined(v, online) /\ SameServers(v, x) /\ Served(v)
    <3>1. Dead = {} => Fresh(x) /\ Short(x, g, more)
      BY <1>1, <2>6, <2>7 DEF Served
    <3> QED BY <1>1, <2>2, <2>3, <2>5, <3>1, OfferedLemma
  <2> HIDE DEF v
  <2>9. Linked(v, listed', up')
    BY <1>1, <2>1, <2>4, <2>8 DEF Linked, SameServers
  <2> QED BY <1>1, <2>1, <2>8, <2>9, Keeps
\* A game of a world that only has fewer requests is destroyed.
<1>17. ASSUME NEW x, Sound(x), Lined(x, online), Served(x), SameServers(x, w), NEW n \in Name,
              x.games[n] # NoGame, Becomes(DestroyGame(x, n)), UNCHANGED <<online, listed, up>>
       PROVE  IInv'
  <2> DEFINE v == DestroyGame(x, n)
  <2>1. Sound(v) /\ Lined(v, online) /\ SameServers(v, x) /\ Served(v)
    BY <1>1, <1>17, DestroyGameLemma
  <2>2. Becomes(v)
    BY <1>17
  <2> HIDE DEF v
  <2>3. SameServers(v, w)
    BY <1>17, <2>1 DEF SameServers
  <2> QED BY <1>1, <1>7, <1>17, <2>1, <2>2, <2>3, Keeps
<1>18. ASSUME NEW k \in Link, NEW n \in Name, CloseGame(k, n) PROVE IInv'
  <2>1. /\ w.games[n] # NoGame /\ Becomes(DestroyGame(w, n)) /\ UNCHANGED <<online, listed, up>>
    BY <1>2, <1>18 DEF CloseGame, Known, w
  <2>2. SameServers(w, w)
    BY DEF SameServers
  <2> QED BY <1>1, <1>17, <2>1, <2>2
<1>19. ASSUME NEW n \in Name, VoidGame(n) PROVE IInv'
  <2>1. /\ w.games[n] # NoGame /\ Becomes(DestroyGame(w, n)) /\ UNCHANGED <<online, listed, up>>
    BY <1>2, <1>19 DEF VoidGame, w
  <2>2. SameServers(w, w)
    BY DEF SameServers
  <2> QED BY <1>1, <1>17, <2>1, <2>2
\* A game of a world that only has fewer requests changes.
<1>20. ASSUME NEW x, Sound(x), Lined(x, online), Served(x), SameServers(x, w), NEW n \in Name,
              x.games[n] # NoGame, NEW r \in GameRec, r.server = x.games[n].server,
              Becomes([x EXCEPT !.games[n] = r]), UNCHANGED <<online, listed, up>>
       PROVE  IInv'
  <2> DEFINE v == [x EXCEPT !.games[n] = r]
  <2>1. /\ Sound(v) /\ v.games = [x.games EXCEPT ![n] = r] /\ v.gamenum = x.gamenum
        /\ SameServers(v, x) /\ v.queue = x.queue /\ v.waiting = x.waiting
    BY <1>20, ChangedLemma
  <2>2. Becomes(v)
    BY <1>20
  <2> HIDE DEF v
  <2>3. x \in Worlds /\ x.games \in [Name -> {NoGame} \cup GameRec]
    BY <1>20 DEF Sound, SoundBut, Worlds
  <2>4. \A m \in Name : x.games[m] = NoGame => v.games[m] = NoGame
    BY <1>20, <2>1, <2>3
  <2>5. Lined(v, online) /\ Served(v)
    BY <1>20, <2>1, <2>3, <2>4, SameQueue
  <2>6. SameServers(v, w)
    BY <1>20, <2>1 DEF SameServers
  <2> QED BY <1>1, <1>7, <1>20, <2>1, <2>2, <2>5, <2>6, Keeps
<1>21. ASSUME NEW n \in Name, games[n] # NoGame, NEW S \in SUBSET Client,
              games' = [games EXCEPT ![n].chars = S],
              UNCHANGED <<gamenum, maxgame, connection, queue, waiting, sqs, online, listed, up>>
       PROVE  IInv'
  <2> DEFINE r == [games[n] EXCEPT !.chars = S]
  <2>1. r \in GameRec /\ r.server = games[n].server
    BY <1>4, <1>21 DEF GameRec
  <2>2. games' = [games EXCEPT ![n] = r]
    BY <1>21
  <2>3. Becomes([w EXCEPT !.games[n] = r])
    <3> HIDE DEF r
    <3> QED BY <1>2, <1>3, <1>21, <2>2 DEF Becomes, Worlds
  <2>4. SameServers(w, w)
    BY DEF SameServers
  <2> HIDE DEF r
  <2> QED BY <1>1, <1>2, <1>20, <1>21, <2>1, <2>3, <2>4
<1>22. ASSUME NEW k \in Link, NEW n \in Name, NEW c \in Client, CharEnter(k, n, c) PROVE IInv'
  <2>1. games[n] # NoGame /\ games[n].chars \in SUBSET Client
    BY <1>4, <1>22 DEF CharEnter, Known, GameRec
  <2>2. games[n].chars \cup {c} \in SUBSET Client
    BY <2>1
  <2>3. games' = [games EXCEPT ![n].chars = games[n].chars \cup {c}]
    BY <1>4, <1>22 DEF CharEnter
  <2> QED BY <1>21, <1>22, <2>1, <2>2, <2>3 DEF CharEnter
<1>23. ASSUME NEW k \in Link, NEW n \in Name, NEW c \in Client, CharLeave(k, n, c) PROVE IInv'
  <2>1. games[n] # NoGame /\ games[n].chars \in SUBSET Client
    BY <1>4, <1>23 DEF CharLeave, Known, GameRec
  <2>2. games[n].chars \ {c} \in SUBSET Client
    BY <2>1
  <2>3. games' = [games EXCEPT ![n].chars = games[n].chars \ {c}]
    BY <1>4, <1>23 DEF CharLeave
  <2> QED BY <1>21, <1>23, <2>1, <2>2, <2>3 DEF CharLeave
\* A request less.
<1>24. ASSUME NEW q
       PROVE  LET x == [w EXCEPT !.sqs = sqs \ {q}]
              IN  Sound(x) /\ Lined(x, online) /\ Served(x) /\ SameServers(x, w) /\ x.games = games
  <2> DEFINE sq == sqs \ {q}
             x == [w EXCEPT !.sqs = sq]
  <2>1. sq \in SUBSET Request /\ \A p \in sq : \E r \in w.sqs : p.name = r.name /\ p.via = r.via
    BY <1>2, <1>4
  <2> HIDE DEF sq
  <2>2. /\ Sound(x) /\ x.games = w.games /\ x.gamenum = w.gamenum
        /\ SameServers(x, w) /\ x.queue = w.queue /\ x.waiting = w.waiting
    BY <1>1, <2>1, RequestsLemma
  <2> HIDE DEF x
  <2>3. Lined(x, online) /\ Served(x)
    BY <1>1, <1>3, <2>2, SameQueue
  <2>4. Sound(x) /\ Lined(x, online) /\ Served(x) /\ SameServers(x, w) /\ x.games = games
    BY <1>2, <2>2, <2>3
  <2> QED BY <2>4 DEF x, sq
<1>25. ASSUME NEW q \in sqs, JoinReply(q) \/ RequestTimeout(q) PROVE IInv'
  <2> DEFINE x == [w EXCEPT !.sqs = sqs \ {q}]
  <2>1. Becomes(x) /\ UNCHANGED <<online, listed, up>>
    BY <1>6, <1>25 DEF JoinReply, RequestTimeout
  <2>2. Sound(x) /\ Lined(x, online) /\ Served(x) /\ SameServers(x, w)
    BY <1>24
  <2> HIDE DEF x
  <2> QED BY <1>1, <1>7, <2>1, <2>2, Keeps
<1>26. ASSUME NEW q \in sqs, NEW succeeds \in BOOLEAN, CreateReply(q, succeeds) PROVE IInv'
  <2> DEFINE x == [w EXCEPT !.sqs = sqs \ {q}]
             y == [x EXCEPT !.games[q.name].created = TRUE]
             known == q.client # Nobody /\ q.name # NoGame
  <2>1. Sound(x) /\ Lined(x, online) /\ Served(x) /\ SameServers(x, w) /\ x.games = games
    BY <1>24
  <2>2. x = [World EXCEPT !.sqs = @ \ {q}]
    BY <1>2 DEF w
  <2>3. UNCHANGED <<online, listed, up>>
    BY <1>26 DEF CreateReply
  <2>4. \/ ~known /\ Becomes(x)
        \/ known /\ succeeds /\ Becomes(y)
        \/ known /\ ~succeeds /\ Becomes(DestroyGame(x, q.name))
    <3> HIDE DEF x
    <3> QED BY <1>26, <2>2 DEF CreateReply
  <2>5. known => q.name \in Name /\ games[q.name] # NoGame
    BY <1>2, <1>3, <1>4 DEF Pending, Request
  <2> HIDE DEF x
  <2>6. CASE Becomes(x)
    BY <1>1, <1>7, <2>1, <2>3, <2>6, Keeps
  <2>7. CASE known /\ Becomes(y)
    <3> DEFINE r == [games[q.name] EXCEPT !.created = TRUE]
    <3>1. r \in GameRec /\ r.server = games[q.name].server
      BY <1>4, <2>5, <2>7 DEF GameRec
    <3>2. y = [x EXCEPT !.games[q.name] = r]
      BY <2>1
    <3> HIDE DEF r, y, known
    <3> QED BY <1>20, <2>1, <2>3, <2>5, <2>7, <3>1, <3>2
  <2>8. CASE known /\ Becomes(DestroyGame(x, q.name))
    <3> HIDE DEF known
    <3> QED BY <1>17, <2>1, <2>3, <2>5, <2>8
  <2> QED BY <2>4, <2>6, <2>7, <2>8
<1>27. ASSUME UpdateClients PROVE IInv'
  <2>1. StillOnline(queue) = queue
    <3>1. queue \in Seq(Waiter) /\ \A i \in DOMAIN queue : queue[i].client \in online
      BY <1>1, <1>2, <1>3 DEF Worlds, Lined
    <3> QED BY <3>1, StillOnlineLemma
  <2>2. Becomes(w) /\ UNCHANGED <<online, listed, up>>
    BY <1>5, <1>27, <2>1 DEF UpdateClients
  <2> QED BY <1>1, <2>2, Keeps
<1>28. ASSUME NEW g \in GameServer, Reload(g) PROVE IInv'
  <2> DEFINE k == connection[g]
             x == Deactivate(w, g)
             v == IF k = NoLink THEN w ELSE Lost(x, k)
  <2>1. /\ listed' = listed \ {g} /\ up' = up \ {k} /\ online' = online /\ Becomes(v)
    BY <1>28 DEF Reload, w
  <2>2. up' \subseteq Link /\ listed' \subseteq listed
    BY <1>1, <2>1
  <2>3. CASE k = NoLink
    <3>1. Linked(w, listed', up')
      BY <1>1, <1>2, <2>1, <2>3 DEF Linked
    <3>2. v = w
      BY <2>3
    <3> HIDE DEF v
    <3> QED BY <1>1, <2>1, <2>2, <3>1, <3>2, Keeps
  <2>4. CASE k # NoLink
    <3>1. Sound(x)
      BY <1>1, DeactivateLemma
    <3>2. Lined(x, online) /\ Served(x) /\ Linked(x, listed \ {g}, up \ {w.connection[g]})
      BY <1>1, DeactivateKeeps
    <3>3. v = Lost(x, k)
      BY <2>4
    <3> HIDE DEF v, x
    <3>4. Sound(v) /\ SameServers(v, x) /\ Lined(v, online) /\ Served(v)
      BY <3>1, <3>2, <3>3, LostLemma
    <3>5. Linked(v, listed', up')
      BY <1>2, <2>1, <3>2, <3>4 DEF Linked, SameServers
    <3> QED BY <1>1, <2>1, <2>2, <3>4, <3>5, Keeps
  <2> QED BY <2>3, <2>4
<1> QED
  BY <1>8, <1>9, <1>10, <1>11, <1>12, <1>13, <1>14, <1>15, <1>16, <1>18, <1>19, <1>22, <1>23,
     <1>25, <1>26, <1>27, <1>28 DEF Next

-----------------------------------------------------------------------------
(* The theorems.                                                             *)

\* An entry for each client that waits, and no other: as many entries as clients.
LEMMA LinedMatches ==
    ASSUME NEW w \in Worlds, NEW O, Lined(w, O)
    PROVE  /\ w.waiting \subseteq O /\ {w.queue[i].client : i \in DOMAIN w.queue} = w.waiting
           /\ Len(w.queue) = Cardinality(w.waiting)
<1> DEFINE l == Len(w.queue)
           f == [i \in 1..l |-> w.queue[i].client]
<1>1. w.queue \in Seq(Waiter) /\ l \in Nat /\ DOMAIN w.queue = 1..l
  BY LenProperties DEF Worlds
<1>2. w.waiting \subseteq O /\ {w.queue[i].client : i \in DOMAIN w.queue} = w.waiting
  BY DEF Lined
<1> HIDE DEF l
<1>3. f \in [1..l -> w.waiting]
  BY <1>1 DEF Lined
<1>4. IsInjective(f) /\ \A c \in w.waiting : \E i \in 1..l : f[i] = c
  BY <1>1 DEF Lined, IsInjective
<1>5. ExistsBijection(1..l, w.waiting)
  <2> HIDE DEF f
  <2> QED BY <1>3, <1>4 DEF ExistsBijection, Bijection, Injection, Surjection
<1>6. Cardinality(w.waiting) = l
  BY <1>1, <1>5, FS_CountingElements
<1> QED BY <1>2, <1>6 DEF l

LEMMA IInvCounts == IInv => GamesCounted
<1> SUFFICES ASSUME IInv PROVE GamesCounted
  OBVIOUS
<1> DEFINE w == World
<1>1. /\ w.games = games /\ w.gamenum = gamenum /\ w.maxgame = maxgame /\ w.queue = queue
      /\ w.connection = connection /\ w.waiting = waiting /\ w.sqs = sqs
  BY DEF World
<1>2. /\ online \subseteq Client /\ listed \subseteq GameServer /\ up \subseteq Link
      /\ w \in Worlds /\ Counted(w) /\ Placed(w, {}) /\ Pending(w, {}) /\ Linked(w, listed, up)
  BY DEF IInv, Sound, SoundBut
<1>3. GamenumCounts
  BY <1>1, <1>2 DEF GamenumCounts, Counted
<1> HIDE DEF w
<1>4. /\ games \in [Name -> {NoGame} \cup GameRec] /\ gamenum \in [GameServer -> Nat]
      /\ maxgame \in [GameServer -> 0..MaxGame] /\ connection \in [GameServer -> Link \cup {NoLink}]
      /\ queue \in Seq(Waiter) /\ waiting \subseteq Client /\ sqs \subseteq Request
  BY <1>1, <1>2 DEF Worlds
<1>5. gamenum \in [GameServer -> 0..Cardinality(Name)]
  <2>1. Cardinality(Name) \in Nat
    BY NameAssumption, FS_CardinalityType
  <2>2. ASSUME NEW g \in GameServer PROVE gamenum[g] <= Cardinality(Name)
    <3>1. GamesOn(World, g) \in SUBSET Name
      BY DEF GamesOn
    <3> QED BY <1>3, <3>1, NameAssumption, FS_Subset DEF GamenumCounts
  <2> QED BY <1>4, <2>1, <2>2
<1>6. TypeOK
  BY <1>2, <1>4, <1>5 DEF TypeOK, GameRec, Waiter, Request
<1>7. GamesOnConnected
  BY <1>1, <1>2, <1>4 DEF GamesOnConnected, Placed, Linked, GameRec
<1>8. PendingOnItsServer
  BY <1>1, <1>2 DEF PendingOnItsServer, Pending
<1> QED BY <1>3, <1>6, <1>7, <1>8 DEF GamesCounted

LEMMA IInvMatches == IInv => QueueMatchesClients
<1> SUFFICES ASSUME IInv PROVE QueueMatchesClients
  OBVIOUS
<1>1. World \in Worlds /\ Lined(World, online)
  BY DEF IInv, Sound, SoundBut
<1>2. World.queue = queue /\ World.waiting = waiting
  BY DEF World
<1> QED BY <1>1, <1>2, LinedMatches DEF QueueMatchesClients

LEMMA IInvServes == IInv /\ Dead = {} => QueueServed
<1>1. IInv /\ Dead = {} => NobodyWaitsForRoom
  <2>1. World.queue = queue
    BY DEF World
  <2> QED BY <2>1 DEF IInv, Served, Full, NobodyWaitsForRoom
<1> QED BY <1>1, IInvMatches DEF QueueServed

LEMMA Invariance == Spec => []IInv
<1> QED BY InitIInv, NextIInv, PTL DEF Spec

\* A game server is counted the games it has, they are on servers that are connected, and a reply
\* is about a game of the connection it was asked over: whatever reconnects, times out, is closed
\* or reloaded between (game_create, game_destroy, d2gs_deactive, on_d2gs_creategamereply).
THEOREM GamesAreCounted == Spec => []GamesCounted
<1> QED BY Invariance, IInvCounts, PTL

\* A client that waits has one entry in the queue and no other client has one, whichever of its
\* request, its cancelling, its disconnection and a place that becomes free comes first
\* (gq_create, gq_destroy).
THEOREM QueueMatches == Spec => []QueueMatchesClients
<1> QED BY Invariance, IInvMatches, PTL

\* Nobody waits while a server has room, when no character may be refused: each place that
\* becomes free, or is announced, is taken by the first of the queue (gqlist_check_creategame).
THEOREM WaitersAreServed ==
    ASSUME Dead = {}
    PROVE  Spec => []QueueServed
<1>1. IInv => QueueServed
  BY IInvServes
<1> QED BY <1>1, Invariance, PTL
=============================================================================
