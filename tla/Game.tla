-------------------------------- MODULE Game --------------------------------
(* The games of bnetd (src/src/bnetd/game.c): creating, joining, leaving,  *)
(* reporting and counting them, with conn_set_game of connection.c and     *)
(* the handlers of handle_bnet.c that call it.  The build without          *)
(* WITH_BITS and the clients that report results (Diablo's do not).        *)
(*                                                                         *)
(* A user stands for an account and its one connection.  An entry of a     *)
(* game is never removed while the game lives: a player who leaves has its *)
(* connection cleared, one who comes back gets another entry at the end.   *)
(* The status of a game is read by game lists only and is left out.        *)
EXTENDS Integers, Sequences, FiniteSets

CONSTANTS
    User,
    NoUser,          \* a NULL connection pointer
    GameName,
    NoGame,          \* a NULL game pointer
    GameType,        \* the types clients create: "normal", "ladder", "ironman"
    Claim,           \* the results clients report
    LadderMinimum,   \* normal wins needed in a ladder game: 10 in the code
    DiscIsLoss,      \* disc_is_loss
    MaxGames,        \* bound on totalcount
    MaxEntries       \* bound on the entries of a game

Result == {"none", "win", "loss", "draw", "playing", "observer", "disconnect"}
Outcome == {"win", "loss", "draw", "disconnect"}

ASSUME UserAssumption == NoUser \notin User
ASSUME NameAssumption == NoGame \notin GameName
ASSUME TypeAssumption == /\ GameType \subseteq {"normal", "ladder", "ironman"}
                         /\ Claim \subseteq Result \ {"none"}
ASSUME BoundAssumption == /\ LadderMinimum \in Nat /\ DiscIsLoss \in BOOLEAN
                          /\ MaxGames \in Nat /\ MaxEntries \in Nat

VARIABLES
    games,   \* gamelist_head: the games by name; game_create keeps names unique
    ingame,  \* c->game
    tally,   \* the wins, losses, draws and disconnects of each account
    total    \* totalcount: games created so far

vars == <<games, ingame, tally, total>>

\* The handlers below are functions of such a record to another.
Lobby == [games |-> games, ingame |-> ingame, tally |-> tally, total |-> total]

Become(s) ==
    /\ games' = s.games
    /\ ingame' = s.ingame
    /\ tally' = s.tally
    /\ total' = s.total

Ladder == {"ladder", "ironman"}

Entry == [who : User, here : BOOLEAN, result : Result]
Record == [type : GameType, entries : Seq(Entry), ref : Nat, owner : User \cup {NoUser},
           bad : BOOLEAN]
Score == [{"normal", "ladder", "ironman"} -> [Outcome -> Nat]]

First(I) == CHOOSE i \in I : \A j \in I : i <= j
Last(I) == CHOOSE i \in I : \A j \in I : j <= i

EntriesOf(g, u) == {i \in DOMAIN g.entries : g.entries[i].who = u}
Here(g) == {i \in DOMAIN g.entries : g.entries[i].here}

----------------------------------------------------------------------------
(* game_create, game_add_player and game_choose_host.                      *)

NewGame(t) == [type |-> t, entries |-> <<>>, ref |-> 0, owner |-> NoUser, bad |-> FALSE]

ChooseHost(g) == IF Here(g) = {} THEN g ELSE [g EXCEPT !.owner = g.entries[First(Here(g))].who]

\* Too few normal wins for a ladder game, or the wrong password.
Refused(s, n, u, right) ==
    \/ s.games[n].type = "ladder" /\ s.tally[u]["normal"]["win"] < LadderMinimum
    \/ ~right

AddPlayer(s, n, u) ==
    LET g == [s.games[n] EXCEPT
                 !.entries = Append(@, [who |-> u, here |-> TRUE, result |-> "none"]),
                 !.ref = @ + 1]
    IN  [s EXCEPT !.games[n] = ChooseHost(g), !.ingame[u] = n]

----------------------------------------------------------------------------
(* game_report: the entries with a result are counted, unless the game is  *)
(* marked bad.  In a normal game only the first disconnect counts; what is *)
(* neither win, loss, draw nor disconnect falls to the default case.       *)

Counted(g) == {i \in DOMAIN g.entries : g.entries[i].result # "none"}

Disconnects(g) == {i \in Counted(g) : g.entries[i].result = "disconnect"}

\* What entry i adds to the record of its account; {} when nothing.
Adds(g, i) ==
    LET r == g.entries[i].result
    IN  CASE r = "none" -> {}
          [] r \in {"win", "loss", "draw"} -> {r}
          [] r = "disconnect" /\ DiscIsLoss -> {"loss"}
          [] r = "disconnect" /\ ~DiscIsLoss ->
                IF g.type \in Ladder \/ i = First(Disconnects(g)) THEN {"disconnect"} ELSE {}
          [] OTHER -> {"disconnect"}

Tallied(s, g) ==
    IF g.bad THEN s.tally
    ELSE [u \in User |->
            [s.tally[u] EXCEPT ![g.type] =
               [o \in Outcome |->
                   @[o] + Cardinality({i \in EntriesOf(g, u) : o \in Adds(g, i)})]]]

----------------------------------------------------------------------------
(* game_del_player: the first entry of the account with a connection.  The *)
(* last player out reports the game and destroys it.                       *)

Without(g, i) ==
    [g EXCEPT !.entries = [j \in DOMAIN @ |-> IF j = i THEN [@[j] EXCEPT !.here = FALSE] ELSE @[j]],
              !.ref = @ - 1]

Ended(s, n, g) ==
    [s EXCEPT !.tally = Tallied(s, g), !.games = [m \in DOMAIN @ \ {n} |-> @[m]]]

\* Mutants: of all entries of the account the first; each player reports.
DelPlayerFirstEntry(s, n, u) ==
    LET g == Without(s.games[n], First(EntriesOf(s.games[n], u)))
    IN  IF g.ref = 0 THEN Ended(s, n, g) ELSE [s EXCEPT !.games[n] = ChooseHost(g)]

DelPlayerReports(s, n, u) ==
    LET g == Without(s.games[n], First(EntriesOf(s.games[n], u) \cap Here(s.games[n])))
    IN  IF g.ref = 0 THEN Ended(s, n, g)
        ELSE [s EXCEPT !.tally = Tallied(s, g), !.games[n] = ChooseHost(g)]

DelPlayer(s, n, u) ==
    LET g    == s.games[n]
        mine == EntriesOf(g, u) \cap Here(g)
        g1   == [g EXCEPT !.entries = [i \in DOMAIN @ |->
                    IF i = First(mine) THEN [@[i] EXCEPT !.here = FALSE] ELSE @[i]]]
    IN  IF mine = {} THEN s
        ELSE IF g.ref < 2
        THEN [s EXCEPT !.tally = Tallied(s, g1),
                       !.games = [m \in DOMAIN @ \ {n} |-> @[m]]]
        ELSE [s EXCEPT !.games[n] = ChooseHost([g1 EXCEPT !.ref = @ - 1])]

Leave(s, u) ==
    IF s.ingame[u] = NoGame THEN s
    ELSE [DelPlayer(s, s.ingame[u], u) EXCEPT !.ingame[u] = NoGame]

----------------------------------------------------------------------------
(* conn_set_game: the old game is left before the new one is looked up by  *)
(* name and type; a game made for a player who is then refused stays.      *)
(* right says whether the password is that of the game.                    *)

SetGame(s, u, n, t, right) ==
    LET s1    == Leave(s, u)
        made  == n \notin DOMAIN s1.games
        s2    == IF made
                 THEN [s1 EXCEPT !.games = [m \in DOMAIN @ \cup {n} |->
                                               IF m = n THEN NewGame(t) ELSE @[m]],
                                 !.total = @ + 1]
                 ELSE s1
    IN  IF s.ingame[u] = n THEN s                  \* already in a game of that name
        ELSE IF s2.games[n].type # t THEN s1       \* game_create refuses a second of that name
        ELSE IF Refused(s2, n, u, made \/ right) THEN s2    \* game_add_player refuses
        ELSE AddPlayer(s2, n, u)

----------------------------------------------------------------------------
(* game_check_result and game_set_result look at the last entry of the     *)
(* account only.                                                           *)

\* Mutant: the last claim wins.
AgreesAlways(g, u, r) == EntriesOf(g, u) # {}

\* The claim is news about, or agrees with, what the game knows of u.
Agrees(g, u, r) ==
    /\ EntriesOf(g, u) # {}
    /\ g.entries[Last(EntriesOf(g, u))].result \in {r, "none", "playing"}

\* All claims of one report: they are about different accounts, so in any order.
CheckResults(g, claim) ==
    [g EXCEPT
        !.bad = @ \/ \E u \in DOMAIN claim : ~Agrees(g, u, claim[u]),
        !.entries = [i \in DOMAIN @ |->
            LET u == @[i].who
            IN  IF /\ u \in DOMAIN claim
                   /\ i = Last(EntriesOf(g, u))
                   /\ Agrees(g, u, claim[u])
                THEN [@[i] EXCEPT !.result = claim[u]] ELSE @[i]]]

----------------------------------------------------------------------------

Init ==
    /\ games = <<>>
    /\ ingame = [u \in User |-> NoGame]
    /\ tally = [u \in User |-> [k \in {"normal", "ladder", "ironman"} |-> [o \in Outcome |-> 0]]]
    /\ total = 0

RoomFor(n) == IF n \in DOMAIN games THEN Len(games[n].entries) < MaxEntries ELSE total < MaxGames

\* CLIENT_JOIN_GAME: only a game that exists, of whatever type.
JoinGame(u, n, right) ==
    /\ n \in DOMAIN games
    /\ RoomFor(n)
    /\ Become(SetGame(Lobby, u, n, games[n].type, right))

\* CLIENT_STARTGAME1, 3 and 4: in a game they set its status only.
StartGame(u, n, t, right) ==
    /\ ingame[u] = NoGame
    /\ RoomFor(n)
    /\ Become(SetGame(Lobby, u, n, t, right))

\* CLIENT_CLOSEGAME, joining a channel, or the end of the connection.
CloseGame(u) ==
    /\ ingame[u] # NoGame
    /\ Become(Leave(Lobby, u))

\* CLIENT_GAME_REPORT: claim is about some users; a report that breaks off or names an
\* unknown account is not whole, and then the claim about u itself is not used.  The
\* reporter leaves the game in any case.
GameReport(u, claim, whole) ==
    /\ ingame[u] # NoGame
    /\ LET n     == ingame[u]
           own   == IF u \in DOMAIN claim /\ whole /\ claim[u] # "playing" THEN {} ELSE {u}
           used  == [v \in DOMAIN claim \ own |-> claim[v]]
       IN  Become(Leave([Lobby EXCEPT !.games[n] = CheckResults(@, used)], u))

Next ==
    \E u \in User :
        \/ \E n \in GameName, right \in BOOLEAN :
              \/ JoinGame(u, n, right)
              \/ \E t \in GameType : StartGame(u, n, t, right)
        \/ CloseGame(u)
        \/ \E about \in SUBSET User, whole \in BOOLEAN :
              \E claim \in [about -> Claim] : GameReport(u, claim, whole)

Spec == Init /\ [][Next]_vars

----------------------------------------------------------------------------
(* Properties.                                                             *)

\* Every variable has its type and a player is in a game that exists.
TypeOK ==
    /\ DOMAIN games \subseteq GameName
    /\ \A n \in DOMAIN games : games[n] \in Record
    /\ ingame \in [User -> DOMAIN games \cup {NoGame}]
    /\ tally \in [User -> Score]
    /\ total \in Nat

\* A connection points to a game exactly when one entry of that game, and of no other,
\* points back: nothing dangles when a player leaves and comes back.
EntriesPointBack ==
    \A n \in DOMAIN games :
        /\ \A i \in Here(games[n]) : ingame[games[n].entries[i].who] = n
        /\ \A u \in User : ingame[u] = n =>
              Cardinality(EntriesOf(games[n], u) \cap Here(games[n])) = 1

\* ref counts the connections of a game, and its host is the first of them.
RefAndHost ==
    \A n \in DOMAIN games :
        /\ games[n].ref = Cardinality(Here(games[n]))
        /\ games[n].ref > 0 => games[n].owner = games[n].entries[First(Here(games[n]))].who

\* A result once settled stands: later reports can only mark the game bad.
SettledStands ==
    [][\A n \in DOMAIN games \cap DOMAIN games' : \A i \in DOMAIN games[n].entries :
          games[n].entries[i].result \notin {"none", "playing"} =>
             games'[n].entries[i].result = games[n].entries[i].result]_vars

\* Only the last player out changes the records, only those of accounts that had joined,
\* and not when the game was marked bad.
CountedAtTheEnd ==
    [][\A u \in User : tally'[u] # tally[u] =>
          \E n \in DOMAIN games \ DOMAIN games' :
             EntriesOf(games[n], u) # {} /\ games[n].ref = 1 /\ ~games[n].bad]_vars

\* But for a ladder game whose creator was refused, a game in the list has a player:
\* the last one out always takes the game away, however often players came and went.
GamesHavePlayers ==
    \A n \in DOMAIN games : games[n].type # "ladder" => games[n].ref > 0

\* What every step keeps of the games: pointers, entries, hosts and numbers agree (game.c).
GamesSound == TypeOK /\ EntriesPointBack /\ RefAndHost /\ GamesHavePlayers

\* "then nuke duplicate players after the real players": a game adds one result at most
\* to the record of an account.
Played(u) ==
    LET sum(k) == tally[u][k]["win"] + tally[u][k]["loss"] + tally[u][k]["draw"]
                  + tally[u][k]["disconnect"]
    IN  sum("normal") + sum("ladder") + sum("ironman")

CountedOnce == [][\A u \in User : Played(u)' <= Played(u) + 1]_vars
=============================================================================
