------------------------------ MODULE BitsGames ------------------------------
(* Games in a cluster of bnetd servers (BITS).  The master keeps the games  *)
(* and their players; every server, the master too, keeps a list of all     *)
(* games for its clients (bits_gamelist), which broadcasts keep up to date. *)
(* A server asks the master to create, join and leave games; at the master  *)
(* what is addressed to it is handled at once.  Sessions are module         *)
(* BitsLogins'; here a client is its session.  Reports go to module Game.   *)
EXTENDS Naturals, Sequences, FiniteSets, SequencesExt

CONSTANTS
    Server, Master,
    Up,          \* the uplink of every server but the master
    Client,
    Places,      \* the servers the clients may be connected to
    Name,        \* of games
    Fits,        \* who may join what: the client tag, ten wins before a ladder game
    Patient,     \* whether clients wait for the answer to one request before the next
    MaxGame,     \* bound of the games created
    MaxWire      \* bound of the packets on a link when a client acts

VARIABLES
    on,          \* where each client is connected
    joined,      \* the servers whose uplink is logged in
    wire,        \* wire[<<x, y>>]: BITS packets on their way from x to y
    lists,       \* bits_gamelist of each server
    games,       \* gamelist of the master
    known,       \* the sessions in the login list of the master
    count,       \* totalcount
    client       \* a client's state, bits_game, and whether it has a request under way

vars == <<on, joined, wire, lists, games, known, count, client>>

None  == 0
Links == {<<x, Up[x]>> : x \in Server \ {Master}} \cup {<<Up[x], x>> : x \in Server \ {Master}}

(* What goes up to the master, comes back to one server, or goes to all. *)
CreateRequest(c, n)      == [type |-> "create", who |-> c, name |-> n]
JoinRequest(c, id)       == [type |-> "join", who |-> c, id |-> id]
LeaveGame(c, id)         == [type |-> "leave", who |-> c, id |-> id]
SetStatus(id, st)        == [type |-> "setstatus", id |-> id, status |-> st]
Logout(c)                == [type |-> "logout", who |-> c]
CreateReply(c, id, ok)   == [type |-> "created", who |-> c, id |-> id, ok |-> ok]
JoinReply(c, id, ok)     == [type |-> "admitted", who |-> c, id |-> id, ok |-> ok]
GamelistAdd(g, peer)     == [type |-> "add", game |-> g, peer |-> peer]
GamelistDel(id)          == [type |-> "del", id |-> id]
UpdateStatus(id, st)     == [type |-> "status", id |-> id, status |-> st]
UpdateOwner(id, c)       == [type |-> "owner", id |-> id, owner |-> c]

Listed(g) == [id |-> g.id, name |-> g.name, owner |-> g.owner, status |-> g.status]

Below[s \in Server] == {s} \cup UNION {Below[x] : x \in {y \in Server \ {Master} : Up[y] = s}}
Children(s) == {x \in joined \ {Master} : Up[x] = s}

Put(w, l, p)      == [w EXCEPT ![l] = Append(@, p)]
Dequeue(w, l)     == [w EXCEPT ![l] = Tail(@)]
Broadcast(w, s, p) == [l \in DOMAIN w |-> IF \E x \in Children(s) : l = <<s, x>>
                                          THEN Append(w[l], p) ELSE w[l]]
ToServer(w, s, d, p) == Put(w, <<s, CHOOSE x \in Children(s) : d \in Below[x]>>, p)

----------------------------------------------------------------------------
(* The state while a packet is handled.                                    *)
Now == [wire |-> wire, lists |-> lists, games |-> games, known |-> known, count |-> count,
        client |-> client]

Become(m) ==
    /\ wire' = m.wire /\ lists' = m.lists /\ games' = m.games
    /\ known' = m.known /\ count' = m.count /\ client' = m.client

Tell(m, p) == [m EXCEPT !.wire = Broadcast(@, Master, p)]

ById(list, id) == {g \in list : g.id = id}

\* game_choose_host: the first who is still in it, and everybody is told; the master's own
\* list keeps the owner it has.
ChooseHost(m, g) ==
    Tell([m EXCEPT !.games = (@ \ ById(@, g.id)) \cup {[g EXCEPT !.owner = Head(g.in)]}],
         UpdateOwner(g.id, Head(g.in)))

AddPlayer(m, c, g) == ChooseHost(m, [g EXCEPT !.in = Append(@, c)])

\* game_destroy, when the last player leaves.
Destroy(m, g) ==
    Tell([m EXCEPT !.games = @ \ {g}, !.lists[Master] = @ \ ById(@, g.id)], GamelistDel(g.id))

DelPlayer(m, c, g) ==
    IF Len(g.in) < 2 THEN Destroy(m, g)
    ELSE ChooseHost(m, [g EXCEPT !.in = RemoveFirst(@, c)])

\* BITS_GAME_JOIN_REPLY; a join that failed leaves bits_game as the request set it.
OnJoinReply(m, p) ==
    [m EXCEPT !.client[p.who] = IF @.st # "in" THEN @
                                ELSE [@ EXCEPT !.asks = FALSE,
                                               !.game = IF p.ok THEN p.id ELSE @]]

\* The answer of the master goes to the server of the client, which is the master itself
\* when the request came from there.
Answer(m, c, p, Handle(_, _)) ==
    IF on[c] = Master THEN Handle(m, p)
    ELSE [m EXCEPT !.wire = ToServer(@, Master, on[c], p)]

OnJoinRequest(m, p) ==
    LET found == {g \in ById(m.games, p.id) : p.who \in m.known /\ <<p.who, g.name>> \in Fits}
    IN IF found = {} THEN Answer(m, p.who, JoinReply(p.who, p.id, FALSE), OnJoinReply)
       ELSE Answer(AddPlayer(m, p.who, CHOOSE g \in found : TRUE), p.who,
                   JoinReply(p.who, p.id, TRUE), OnJoinReply)

\* send_bits_packet to the master.
Up2(m, s, p, Handle(_, _)) ==
    IF s = Master THEN Handle(m, p) ELSE [m EXCEPT !.wire = Put(@, <<s, Up[s]>>, p)]

\* BITS_GAME_CREATE_REPLY: the server has the client join the game, whether the client is
\* still there or not; a refusal leaves the client in no game.
OnCreateReply(m, p) ==
    LET told == [m EXCEPT !.client[p.who] =
                     IF @.st # "in" THEN @
                     ELSE [@ EXCEPT !.asks = p.ok, !.game = IF p.ok THEN p.id ELSE None]]
    IN IF p.ok THEN Up2(told, on[p.who], JoinRequest(p.who, p.id), OnJoinRequest) ELSE told

\* The option and the owner are broadcast before anybody has the game, to no effect.
OnCreateRequest(m, p) ==
    LET g == [id |-> m.count + 1, name |-> p.name, owner |-> p.who, status |-> "open",
              in |-> <<>>]
    IN CASE p.who \notin m.known -> m
         [] p.who \in m.known /\ \E h \in m.games : h.name = p.name ->
                Answer(m, p.who, CreateReply(p.who, None, FALSE), OnCreateReply)
         [] OTHER ->
                Answer(Tell([m EXCEPT !.count = @ + 1, !.games = @ \cup {g},
                                      !.lists[Master] = @ \cup {Listed(g)}],
                            GamelistAdd(Listed(g), FALSE)),
                       p.who, CreateReply(p.who, g.id, TRUE), OnCreateReply)

\* game_del_player knows a session only while it is in the login list.
OnLeave(m, p) ==
    LET found == {g \in ById(m.games, p.id) : p.who \in m.known /\ p.who \in ToSet(g.in)}
    IN IF found = {} THEN m ELSE DelPlayer(m, p.who, CHOOSE g \in found : TRUE)

OnLogout(m, p) == [m EXCEPT !.known = @ \ {p.who}]

Restatus(list, id, st) ==
    {IF g.id = id THEN [g EXCEPT !.status = st] ELSE g : g \in list}

\* BITS_GAME_UPDATE at the master from another server.
OnSetStatus(m, p) ==
    IF ById(m.lists[Master], p.id) = {} \/ ById(m.games, p.id) = {} THEN m
    ELSE Tell([m EXCEPT !.games = Restatus(@, p.id, p.status),
                        !.lists[Master] = Restatus(@, p.id, p.status)],
              UpdateStatus(p.id, p.status))

----------------------------------------------------------------------------
Init ==
    /\ on \in [Client -> Places]
    /\ joined = {Master}
    /\ wire = [l \in Links |-> <<>>]
    /\ lists = [s \in Server |-> {}]
    /\ games = {}
    /\ known = {}
    /\ count = 0
    /\ client = [c \in Client |-> [st |-> "out", game |-> None, asks |-> FALSE]]

\* Mutant: the master sends what its own clients see.
JoinOwnList(s) ==
    /\ s \notin joined /\ Up[s] \in joined
    /\ joined' = joined \cup {s}
    /\ wire' = [wire EXCEPT ![<<Up[s], s>>] =
                  @ \o SetToSeq({GamelistAdd(g, TRUE) : g \in lists[Up[s]]})]
    /\ UNCHANGED <<on, lists, games, known, count, client>>

(* bits_setup_client: a server that logs in to its uplink is sent the list, *)
(* from the games when the uplink is the master.                           *)
Join(s) ==
    /\ s \notin joined /\ Up[s] \in joined
    /\ joined' = joined \cup {s}
    /\ wire' = [wire EXCEPT ![<<Up[s], s>>] = @ \o
                  SetToSeq({GamelistAdd(g, TRUE) :
                              g \in IF Up[s] = Master THEN {Listed(h) : h \in games}
                                    ELSE lists[Up[s]]})]
    /\ UNCHANGED <<on, lists, games, known, count, client>>

Login(c) ==
    /\ on[c] \in joined /\ client[c].st = "out"
    /\ client' = [client EXCEPT ![c].st = "in"]
    /\ known' = known \cup {c}
    /\ UNCHANGED <<on, joined, wire, lists, games, count>>

Free(c) ==
    /\ client[c].st = "in"
    /\ Patient => ~client[c].asks
    /\ \A l \in Links : Len(wire[l]) < MaxWire

\* The first half of conn_set_game_bits: out of the game the client is in.
Left(m, c) ==
    IF m.client[c].game = None THEN m
    ELSE Up2([m EXCEPT !.client[c].game = None], on[c], LeaveGame(c, m.client[c].game), OnLeave)

\* conn_set_game_bits with a name: into the game of that name on the list of the server,
\* or a new one.
SetGame(m, c, n) ==
    LET named == {g \in m.lists[on[c]] : g.name = n} IN
    IF named = {} THEN Up2([m EXCEPT !.client[c].asks = TRUE], on[c], CreateRequest(c, n),
                           OnCreateRequest)
    ELSE LET g == CHOOSE h \in named : TRUE IN
         Up2([m EXCEPT !.client[c].asks = TRUE, !.client[c].game = g.id], on[c],
             JoinRequest(c, g.id), OnJoinRequest)

CurrentGame(c) == ById(lists[on[c]], client[c].game)

(* CLIENT_STARTGAME1, 3 and 4 of a client whose server knows its game: a   *)
(* server that is not the master also tells the master, the master all     *)
(* others, but not its own gamelist.                                       *)
ChangeStatus(c, st) ==
    /\ Free(c) /\ CurrentGame(c) # {}
    /\ LET m == [Now EXCEPT !.lists[on[c]] = Restatus(@, client[c].game, st)] IN
       IF on[c] = Master THEN Become(Tell(m, UpdateStatus(client[c].game, st)))
       ELSE Become([m EXCEPT !.wire = Put(@, <<on[c], Up[on[c]]>>,
                                          SetStatus(client[c].game, st))])
    /\ UNCHANGED <<on, joined>>

Requested == {<<l, i>> \in Links \X (1..2 * MaxWire) : i \in DOMAIN wire[l] /\ wire[l][i].type = "create"}

(* The same of any other client, unless it only says that a game is over.  *)
StartGame(c, n) ==
    /\ Free(c) /\ CurrentGame(c) = {} /\ count + Cardinality(Requested) < MaxGame
    /\ Become(SetGame(Left(Now, c), c, n))
    /\ UNCHANGED <<on, joined>>

(* CLIENT_JOIN_GAME looks for the game first; at the master leaving may    *)
(* have removed it, and it is created again.                               *)
JoinGame(c, n) ==
    /\ Free(c) /\ \E g \in lists[on[c]] : g.name = n
    /\ on[c] = Master => count + Cardinality(Requested) < MaxGame
    /\ Become(SetGame(Left(Now, c), c, n))
    /\ UNCHANGED <<on, joined>>

(* CLIENT_CLOSEGAME.  (A client that enters a channel stays in its game:   *)
(* conn_set_channel looks at c->game, which is always NULL here.)          *)
CloseGame(c) ==
    /\ Free(c) /\ client[c].game # None
    /\ Become(Left(Now, c))
    /\ UNCHANGED <<on, joined>>

(* conn_destroy. *)
HangUp(c) ==
    /\ client[c].st = "in"
    /\ Become(Up2([Left(Now, c) EXCEPT !.client[c] = [st |-> "gone", game |-> None, asks |-> FALSE]],
                  on[c], Logout(c), OnLogout))
    /\ UNCHANGED <<on, joined>>

----------------------------------------------------------------------------
(* handle_bits_packet of server y, the packet taken off the link.          *)
AtMaster(m, p) ==
    CASE p.type = "create"    -> OnCreateRequest(m, p)
      [] p.type = "join"      -> OnJoinRequest(m, p)
      [] p.type = "leave"     -> OnLeave(m, p)
      [] p.type = "setstatus" -> OnSetStatus(m, p)
      [] p.type = "logout"    -> OnLogout(m, p)

Upward == {"create", "join", "leave", "setstatus", "logout"}

ReceiveUp(x, y, p) ==
    /\ p.type \in Upward
    /\ IF y = Master THEN Become(AtMaster([Now EXCEPT !.wire = Dequeue(@, <<x, y>>)], p))
       ELSE Become([Now EXCEPT !.wire = Put(Dequeue(@, <<x, y>>), <<y, Up[y]>>, p)])

ReceiveReply(x, y, p) ==
    /\ p.type \in {"created", "admitted"}
    /\ LET m == [Now EXCEPT !.wire = Dequeue(@, <<x, y>>)] IN
       IF on[p.who] # y THEN Become([m EXCEPT !.wire = ToServer(@, y, on[p.who], p)])
       ELSE IF p.type = "created" THEN Become(OnCreateReply(m, p))
       ELSE Become(OnJoinReply(m, p))

Updated(list, p) ==
    CASE p.type = "add"    -> list \cup {p.game}
      [] p.type = "del"    -> list \ ById(list, p.id)
      [] p.type = "status" -> Restatus(list, p.id, p.status)
      [] p.type = "owner"  -> {IF g.id = p.id THEN [g EXCEPT !.owner = p.owner] ELSE g : g \in list}

(* A broadcast is passed on below; so is what was meant for this server    *)
(* alone, the list it was sent when it joined.                             *)
ReceiveList(x, y, p) ==
    /\ p.type \in {"add", "del", "status", "owner"}
    /\ Become([Now EXCEPT !.wire = Broadcast(Dequeue(@, <<x, y>>), y, p),
                          !.lists[y] = Updated(@, p)])

Receive(l) ==
    /\ wire[l] # <<>>
    /\ \/ ReceiveUp(l[1], l[2], Head(wire[l]))
       \/ ReceiveReply(l[1], l[2], Head(wire[l]))
       \/ ReceiveList(l[1], l[2], Head(wire[l]))
    /\ UNCHANGED <<on, joined>>

Next ==
    \/ \E s \in Server \ {Master} : Join(s)
    \/ \E c \in Client : Login(c) \/ CloseGame(c) \/ HangUp(c)
    \/ \E c \in Client, st \in {"open", "started"} : ChangeStatus(c, st)
    \/ \E c \in Client, n \in Name : StartGame(c, n) \/ JoinGame(c, n)
    \/ \E l \in Links : Receive(l)

Spec == Init /\ [][Next]_vars

----------------------------------------------------------------------------
TypeOK ==
    /\ on \in [Client -> Places] /\ joined \subseteq Server /\ known \subseteq Client
    /\ DOMAIN wire = Links
    /\ \A s \in Server : lists[s] \subseteq [id : 1..MaxGame, name : Name, owner : Client,
                                             status : {"open", "started"}]
    /\ \A g \in games : g.id \in 1..MaxGame /\ ToSet(g.in) \subseteq Client
    /\ count \in 0..MaxGame
    /\ client \in [Client -> [st : {"out", "in", "gone"}, game : 0..MaxGame, asks : BOOLEAN]]

Quiet == \A l \in Links : wire[l] = <<>>

(* When nothing is under way every server below the master lists the games *)
(* the master has, with the host each has now, whenever the server joined  *)
(* and whatever was changed meanwhile; the status agrees too as long as    *)
(* the master has no clients of its own.                                   *)
GamesAgree ==
    Quiet => \A s \in joined \ {Master} :
        /\ {<<g.id, g.name, g.owner>> : g \in lists[s]} = {<<g.id, g.name, g.owner>> : g \in games}
        /\ (\A c \in Client : on[c] # Master) => lists[s] = {Listed(g) : g \in games}

(* A session plays in one game at most, whatever crosses on the way, when  *)
(* its client waits for the answers.                                       *)
OneGame ==
    Patient => \A g, h \in games : \A c \in Client :
        c \in ToSet(g.in) /\ c \in ToSet(h.in) => g = h
=============================================================================
