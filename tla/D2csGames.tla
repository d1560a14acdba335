----------------------------- MODULE D2csGames -----------------------------
(* The realm server d2cs between its clients and the game servers: games   *)
(* (src/src/d2cs/game.c), the clients that wait for room (gamequeue.c),    *)
(* the requests sent to game servers that wait for a reply (serverqueue.c),*)
(* the game servers (d2gs.c), the handlers of handle_d2cs.c and            *)
(* handle_d2gs.c that act on them.                                         *)
(*                                                                         *)
(* A handler calls others that change the same state (destroying a game    *)
(* makes room, and the first client of the queue is served at once), so    *)
(* each function is an operator from a world, the record of what they      *)
(* share, to a world. Game ids, session numbers and sequence numbers are   *)
(* never used twice: a request whose game or client is gone says so.       *)
EXTENDS Integers, Sequences, FiniteSets, SequencesExt

CONSTANTS
    Client,           \* a client with its character
    Nobody,           \* the client of a request that has disconnected since
    Name,             \* game names
    NoGame,           \* no game by that name, or a request whose game is gone
    Servers,          \* how many game servers d2gslist names in all, by their id
    Link,             \* connections from the addresses of game servers
    NoLink,           \* a NULL connection of a game server
    Of,               \* the server each link connects
    Dead,             \* clients whose character is hardcore and dead
    MaxGame,          \* bound of the maxgame a game server announces
    MaxChar,          \* how many characters a game takes
    MaxJoin,          \* bound of the join requests that wait for a reply
    CheckMultilogin,  \* check_multilogin of d2cs.conf
    VoidGames         \* max_game_idletime of d2cs.conf is not zero

GameServer == 1..Servers
NoServer == 0

ASSUME ServersAssumption == Servers \in Nat /\ {MaxGame, MaxChar, MaxJoin} \subseteq Nat
ASSUME ClientAssumption == Nobody \notin Client /\ Dead \subseteq Client
ASSUME LinkAssumption == NoLink \notin Link /\ Of \in [Link -> GameServer]
ASSUME NameAssumption ==
    /\ IsFiniteSet(Name) /\ NoGame \notin Name
    /\ NoGame \notin [server : GameServer, created : BOOLEAN, chars : SUBSET Client]
ASSUME PrefsAssumption == CheckMultilogin \in BOOLEAN /\ VoidGames \in BOOLEAN

VARIABLES
    online,   \* clients connected, their character chosen
    listed,   \* the servers of d2gslist
    up,       \* links that are authenticated
    games,    \* gamelist: by name, [server, created, chars], or NoGame
    gamenum, maxgame, connection,   \* of each server; it is active when connected
    queue,    \* gqlist: [client, name], the oldest first
    waiting,  \* clients whose connection points to an entry of the queue
    sqs       \* sqlist: [kind, client, name, via], sent on the link via

vars == <<online, listed, up, games, gamenum, maxgame, connection, queue, waiting, sqs>>

World == [games |-> games, gamenum |-> gamenum, maxgame |-> maxgame,
          connection |-> connection, queue |-> queue, waiting |-> waiting, sqs |-> sqs]

Becomes(world) ==
    \E w \in {world} :
        /\ games' = w.games
        /\ gamenum' = w.gamenum
        /\ maxgame' = w.maxgame
        /\ connection' = w.connection
        /\ queue' = w.queue
        /\ waiting' = w.waiting
        /\ sqs' = w.sqs

----------------------------------------------------------------------------
(* Choosing a server and creating a game.                                  *)

Active(w, g) == w.connection[g] # NoLink

Percent(w, g) == (100 * w.gamenum[g]) \div w.maxgame[g]

HasRoom(w, g) == Active(w, g) /\ w.gamenum[g] < w.maxgame[g]

\* The first of the least loaded servers with room; d2gslist is in the order of the ids.
ChooseServer(w) ==
    LET free == {g \in listed : HasRoom(w, g)}
    IN  IF free = {} THEN NoServer
        ELSE CHOOSE g \in free : \A h \in free :
                Percent(w, g) < Percent(w, h) \/ (Percent(w, g) = Percent(w, h) /\ g <= h)

\* The entry of the queue that the connection of a client points to.
EntryOf(q, c) == CHOOSE i \in DOMAIN q : q[i].client = c

\* gq_destroy of the entry a client has, and its pointer cleared.
Dequeued(w, c) ==
    IF c \in w.waiting
    THEN [w EXCEPT !.queue = RemoveAt(@, EntryOf(@, c)), !.waiting = @ \ {c}]
    ELSE w

Queued(q) == {q[i].name : i \in DOMAIN q}

\* on_client_creategamereq. A refusal is answered and changes nothing; a client that
\* is queued already and still finds no room is dropped from the queue.
CreateGame(w, c, n) ==
    LET g == ChooseServer(w)
        exists == w.games[n] # NoGame \/ (c \notin w.waiting /\ n \in Queued(w.queue))
    IN  CASE exists -> w
          [] ~exists /\ g = NoServer /\ c \in w.waiting -> Dequeued(w, c)
          [] ~exists /\ g = NoServer /\ c \notin w.waiting ->
                [w EXCEPT !.queue = Append(@, [client |-> c, name |-> n]),
                          !.waiting = @ \cup {c}]
          [] ~exists /\ g # NoServer /\ c \in Dead -> w
          [] ~exists /\ g # NoServer /\ c \notin Dead ->
                [w EXCEPT !.games[n] = [server |-> g, created |-> FALSE, chars |-> {}],
                          !.gamenum[g] = @ + 1,
                          !.sqs = @ \cup {[kind |-> "create", client |-> c, name |-> n,
                                           via |-> w.connection[g]]}]

\* gqlist_check_creategame: entries whose client is gone are dropped, and the first
\* that is left is tried, once.
CheckCreateGame(w) ==
    LET live == {i \in DOMAIN w.queue : w.queue[i].client \in online \cap w.waiting}
    IN  IF live = {} THEN [w EXCEPT !.queue = <<>>]
        ELSE LET k == CHOOSE i \in live : \A j \in live : i <= j
                 e == w.queue[k]
                 rest == [w EXCEPT !.queue = SubSeq(@, k, Len(@))]
             IN  Dequeued(CreateGame(rest, e.client, e.name), e.client)

\* Mutant: gamenum is left as it is.
DestroyGameUncounted(w, n) ==
    LET g == w.games[n].server
        gone == [w EXCEPT !.games[n] = NoGame,
                          !.sqs = {IF q.name = n THEN [q EXCEPT !.name = NoGame] ELSE q : q \in @}]
    IN  IF gone.gamenum[g] < gone.maxgame[g] THEN CheckCreateGame(gone) ELSE gone

\* game_destroy: the place it leaves goes to the queue.
DestroyGame(w, n) ==
    LET g == w.games[n].server
        gone == [w EXCEPT !.games[n] = NoGame,
                          !.gamenum[g] = @ - 1,
                          !.sqs = {IF q.name = n THEN [q EXCEPT !.name = NoGame] ELSE q : q \in @}]
    IN  IF gone.gamenum[g] < gone.maxgame[g] THEN CheckCreateGame(gone) ELSE gone

GamesOn(w, g) == {n \in Name : w.games[n] # NoGame /\ w.games[n].server = g}

\* d2gs_deactive: it takes no new game before the old ones are destroyed.
Deactivate(w, g) ==
    LET off == [w EXCEPT !.connection[g] = NoLink, !.maxgame[g] = 0]
        names == SetToSeq(GamesOn(w, g))
        shut[i \in 0..Len(names)] ==
            IF i = 0 THEN off ELSE DestroyGame(shut[i - 1], names[i])
    IN  [shut[Len(names)] EXCEPT !.gamenum[g] = 0]

----------------------------------------------------------------------------

Init ==
    /\ online = {}
    /\ listed \in SUBSET GameServer
    /\ up = {}
    /\ games = [n \in Name |-> NoGame]
    /\ gamenum = [g \in GameServer |-> 0]
    /\ maxgame = [g \in GameServer |-> 0]
    /\ connection = [g \in GameServer |-> NoLink]
    /\ queue = <<>>
    /\ waiting = {}
    /\ sqs = {}

(* Clients.                                                                *)

ClientEnter(c) ==
    /\ c \notin online
    /\ online' = online \cup {c}
    /\ UNCHANGED <<listed, up, games, gamenum, maxgame, connection, queue, waiting, sqs>>

\* Mutant: the entry of the queue stays.
ClientLeaveQueued(c) ==
    /\ c \in online
    /\ online' = online \ {c}
    /\ sqs' = {IF q.client = c THEN [q EXCEPT !.client = Nobody] ELSE q : q \in sqs}
    /\ UNCHANGED <<listed, up, games, gamenum, maxgame, connection, queue, waiting>>

\* conn_destroy of a client: its entry of the queue goes with it.
ClientLeave(c) ==
    /\ c \in online
    /\ online' = online \ {c}
    /\ Becomes([Dequeued(World, c) EXCEPT
                  !.sqs = {IF q.client = c THEN [q EXCEPT !.client = Nobody] ELSE q : q \in @}])
    /\ UNCHANGED <<listed, up>>

RequestCreate(c, n) ==
    /\ c \in online
    /\ Becomes(CreateGame(World, c, n))
    /\ UNCHANGED <<online, listed, up>>

\* on_client_cancelcreategame
Cancel(c) ==
    /\ c \in waiting
    /\ Becomes(Dequeued(World, c))
    /\ UNCHANGED <<online, listed, up>>

\* on_client_joingamereq, when it is not refused. The same request twice is one here:
\* its second reply finds nothing changed.
RequestJoin(c, n) ==
    /\ c \in online
    /\ games[n] # NoGame
    /\ games[n].created
    /\ Cardinality(games[n].chars) < MaxChar
    /\ Cardinality({q \in sqs : q.kind = "join"}) < MaxJoin
    /\ CheckMultilogin => \A m \in Name : games[m] # NoGame => c \notin games[m].chars
    /\ sqs' = sqs \cup {[kind |-> "join", client |-> c, name |-> n,
                         via |-> connection[games[n].server]]}
    /\ UNCHANGED <<online, listed, up, games, gamenum, maxgame, connection, queue, waiting>>

----------------------------------------------------------------------------
(* Game servers.                                                           *)

\* A request nobody can answer any more is out of sqs: the rest of its time in sqlist
\* changes nothing.
Lost(w, k) == [w EXCEPT !.sqs = {q \in @ : q.via # k}]

\* on_d2gs_authreply: a second link of a server deactivates the first, which stays up.
Authenticate(k) ==
    LET g == Of[k]
        idle == IF Active(World, g) THEN Deactivate(World, g) ELSE World
    IN  /\ k \notin up
        /\ g \in listed
        /\ up' = up \cup {k}
        /\ Becomes([idle EXCEPT !.connection[g] = k, !.gamenum[g] = 0, !.maxgame[g] = 0])
        /\ UNCHANGED <<online, listed>>

\* conn_destroy of a game server: only the link its server has deactivates it.
Disconnect(k) ==
    /\ k \in up
    /\ up' = up \ {k}
    /\ Becomes(Lost(IF Of[k] \in listed /\ connection[Of[k]] = k
                    THEN Deactivate(World, Of[k]) ELSE World, k))
    /\ UNCHANGED <<online, listed>>

\* Each place that a server has more is offered to the queue once.
Offered(w, more) ==
    LET after[i \in 0..more] == IF i = 0 THEN w ELSE CheckCreateGame(after[i - 1])
    IN  after[more]

\* on_d2gs_setgsinfo, whichever of the server's links it comes from.
SetInfo(k, max) ==
    LET g == Of[k]
        more == IF max > maxgame[g] THEN max - maxgame[g] ELSE 0
    IN  /\ k \in up
        /\ g \in listed
        /\ Becomes(Offered([World EXCEPT !.maxgame[g] = max], more))
        /\ UNCHANGED <<online, listed, up>>

\* on_d2gs_creategamereply. The reply to a client that is gone leaves the game as it is.
CreateReply(q, succeeds) ==
    /\ q \in sqs
    /\ q.kind = "create"
    /\ q.via \in up
    /\ LET w == [World EXCEPT !.sqs = @ \ {q}]
       IN  \/ /\ q.client = Nobody \/ q.name = NoGame
              /\ Becomes(w)
           \/ /\ q.client # Nobody /\ q.name # NoGame
              /\ succeeds
              /\ Becomes([w EXCEPT !.games[q.name].created = TRUE])
           \/ /\ q.client # Nobody /\ q.name # NoGame
              /\ ~succeeds
              /\ Becomes(DestroyGame(w, q.name))
    /\ UNCHANGED <<online, listed, up>>

\* on_d2gs_joingamereply only tells the client.
JoinReply(q) ==
    /\ q \in sqs
    /\ q.kind = "join"
    /\ q.via \in up
    /\ sqs' = sqs \ {q}
    /\ UNCHANGED <<online, listed, up, games, gamenum, maxgame, connection, queue, waiting>>

\* gamelist_find_game_by_d2gs_and_id: a game that is created, on the link's server.
Known(k, n) == k \in up /\ games[n] # NoGame /\ games[n].created /\ games[n].server = Of[k]

\* on_d2gs_updategameinfo
CharEnter(k, n, c) ==
    /\ Known(k, n)
    /\ games' = [games EXCEPT ![n].chars = @ \cup {c}]
    /\ UNCHANGED <<online, listed, up, gamenum, maxgame, connection, queue, waiting, sqs>>

CharLeave(k, n, c) ==
    /\ Known(k, n)
    /\ c \in games[n].chars
    /\ games' = [games EXCEPT ![n].chars = @ \ {c}]
    /\ UNCHANGED <<online, listed, up, gamenum, maxgame, connection, queue, waiting, sqs>>

\* on_d2gs_closegame
CloseGame(k, n) ==
    /\ Known(k, n)
    /\ Becomes(DestroyGame(World, n))
    /\ UNCHANGED <<online, listed, up>>

----------------------------------------------------------------------------
(* The timers and the signal that reloads the configuration.               *)

\* sqlist_check_timeout
RequestTimeout(q) ==
    /\ q \in sqs
    /\ sqs' = sqs \ {q}
    /\ UNCHANGED <<online, listed, up, games, gamenum, maxgame, connection, queue, waiting>>

\* gamelist_check_voidgame: a game nobody is in, for too long; a pass that finds
\* several is several steps.
VoidGame(n) ==
    /\ VoidGames
    /\ games[n] # NoGame
    /\ games[n].chars = {}
    /\ Becomes(DestroyGame(World, n))
    /\ UNCHANGED <<online, listed, up>>

\* gqlist_update_all_clients tells the clients their positions, and drops the entries of
\* those that are gone.
StillOnline(q) ==
    LET kept[i \in 0..Len(q)] ==
            IF i = 0 THEN <<>>
            ELSE IF q[i].client \in online THEN Append(kept[i - 1], q[i]) ELSE kept[i - 1]
    IN  kept[Len(q)]

UpdateClients ==
    /\ queue' = StillOnline(queue)
    /\ UNCHANGED <<online, listed, up, games, gamenum, maxgame, connection, waiting, sqs>>

\* d2gslist_reload: a server no longer in d2gslist is destroyed, and the link it has is
\* closed before the next packet. (A server that is named again gets an id of its own.)
Reload(g) ==
    LET k == connection[g]
    IN  /\ g \in listed
        /\ listed' = listed \ {g}
        /\ up' = up \ {k}
        /\ Becomes(IF k = NoLink THEN World ELSE Lost(Deactivate(World, g), k))
        /\ UNCHANGED online

Next ==
    \/ \E c \in Client :
          \/ ClientEnter(c)
          \/ ClientLeave(c)
          \/ \E n \in Name : RequestCreate(c, n) \/ RequestJoin(c, n)
          \/ Cancel(c)
    \/ \E k \in Link :
          \/ Authenticate(k)
          \/ Disconnect(k)
          \/ \E max \in 0..MaxGame : SetInfo(k, max)
          \/ \E n \in Name : \/ CloseGame(k, n)
                             \/ \E c \in Client : CharEnter(k, n, c) \/ CharLeave(k, n, c)
    \/ \E q \in sqs : \/ \E succeeds \in BOOLEAN : CreateReply(q, succeeds)
                      \/ JoinReply(q)
                      \/ RequestTimeout(q)
    \/ \E n \in Name : VoidGame(n)
    \/ UpdateClients
    \/ \E g \in GameServer : Reload(g)

Spec == Init /\ [][Next]_vars

\* server_loop runs the timers for ever, whatever the sockets bring.
FairSpec ==
    /\ Spec
    /\ \A n \in Name : WF_vars(VoidGame(n))
    /\ WF_vars(UpdateClients)

----------------------------------------------------------------------------
(* Properties.                                                             *)

TypeOK ==
    /\ online \subseteq Client
    /\ listed \subseteq GameServer
    /\ up \subseteq Link
    /\ games \in [Name -> {NoGame} \cup
                    [server : GameServer, created : BOOLEAN, chars : SUBSET Client]]
    /\ gamenum \in [GameServer -> 0..Cardinality(Name)]
    /\ maxgame \in [GameServer -> 0..MaxGame]
    /\ connection \in [GameServer -> Link \cup {NoLink}]
    /\ queue \in Seq([client : Client, name : Name])
    /\ waiting \subseteq Client
    /\ sqs \subseteq [kind : {"create", "join"}, client : Client \cup {Nobody},
                      name : Name \cup {NoGame}, via : Link]

\* gamenum, added to and taken from by handlers of three files and set to zero in two
\* places, is the number of games on the server.
GamenumCounts == \A g \in GameServer : gamenum[g] = Cardinality(GamesOn(World, g))

\* The queue and the pointers of the connections into it agree: a waiting client has one
\* entry, and nobody else has one. An entry freed with its pointer left behind is used
\* again when the client cancels or disconnects.
QueueMatchesClients ==
    /\ waiting \subseteq online
    /\ {queue[i].client : i \in DOMAIN queue} = waiting
    /\ Len(queue) = Cardinality(waiting)

\* A game is on a server that is listed and connected: on_client_joingamereq uses its
\* connection unchecked.
GamesOnConnected ==
    \A n \in Name : games[n] # NoGame =>
        games[n].server \in listed /\ connection[games[n].server] \in up

\* A request about a game that still is went out on the link its server has now: no reply
\* of an earlier connection creates or destroys a game of a later one.
PendingOnItsServer ==
    \A q \in sqs : q.name # NoGame => games[q.name] # NoGame
                                      /\ q.via = connection[games[q.name].server]

\* Nobody waits while a server has room: each place that becomes free is offered to the
\* queue when it does. It takes that no offer is refused, that is no Dead client.
NobodyWaitsForRoom ==
    queue # <<>> => \A g \in listed : ~HasRoom(World, g)

\* The games and the servers' numbers of them agree, through reconnections and late replies.
GamesCounted == TypeOK /\ GamenumCounts /\ GamesOnConnected /\ PendingOnItsServer

\* The queue and its clients agree, and who waits waits for want of room.
QueueServed == QueueMatchesClients /\ NobodyWaitsForRoom

\* A game the server did not create in time, or whose client is gone at the reply, does
\* not keep its name and its place.
Uncreated(n) == games[n] # NoGame /\ ~games[n].created
UncreatedGoesAway == \A n \in Name : Uncreated(n) ~> ~Uncreated(n)

\* "How often will the server check game queues": a queue for which there is room is
\* served in the end.
QueueIsChecked ==
    (queue # <<>> /\ \E g \in listed : HasRoom(World, g))
        ~> (queue = <<>> \/ ~\E g \in listed : HasRoom(World, g))
=============================================================================
