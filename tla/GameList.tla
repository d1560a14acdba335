------------------------------ MODULE GameList ------------------------------
(***************************************************************************)
(* What clients announce of their games and what other clients are shown:  *)
(* the kinds of games (game_conv.c), STARTGAME1, 3 and 4, JOIN_GAME,       *)
(* CLOSEGAME, GAMELISTREQ and MAPAUTHREQ1 and 2 of handle_bnet.c, the      *)
(* game's part of game.c, the host's address (handle_udp.c) and its        *)
(* translation (gametrans.c).  Who is counted and who won is module        *)
(* Game's.  Who may not join or create a game at all is refused before     *)
(* anything changes.                                                       *)
(***************************************************************************)
EXTENDS Naturals, Sequences, SequencesExt, FiniteSets

CONSTANTS
    Conn,
    Tags,              \* the client tags the connections may have: functions of Conn
    Name, NoName,
    Pass, NoPass,
    Novice,            \* SUBSET Conn: fewer than ten normal wins
    Info, Blank,       \* gameinfo; Blank is the empty one
    Behind,            \* whatever follows an empty info in memory
    Malformed,         \* SUBSET Info: without the lines and fields of its kind of client
    MapOf(_),          \* the map that an info names
    Map,
    Addr,              \* UDP addresses
    Translation,       \* gametrans_head: a sequence of names of entries
    Applies(_, _, _),  \* entry, viewer, address
    Output(_),         \* the address an entry gives instead
    HidePass, HideStarted,   \* prefs
    Code,              \* the status fields clients send, masked to four bits
    Kind,              \* the gametype fields clients send
    OptionField,       \* the option fields clients send
    MaxShown,          \* how many games fit into MAX_PACKET_SIZE
    MayMove            \* a client may take another UDP address while in a game

VARIABLES
    tag,      \* conn_get_clienttag
    games,    \* gamelist_head, the newest first
    ingame,   \* c->game, by name
    addr      \* udp_addr and udp_port

vars == <<tag, games, ingame, addr>>

Index == DOMAIN games

-----------------------------------------------------------------------------
(* The kinds of games. *)

Warcraft == {"topvbot", "melee", "ffa", "oneonone", "ladder", "ironman", "mapset"}
Starcraft == {"melee", "ffa", "oneonone", "ctf", "greed", "slaughter", "sdeath", "ladder",
              "mapset", "teammelee", "teamffa", "teamctf", "pgl"}
Diablo == {"diablo_1", "diablo_2", "diablo_3"}

\* bngtype_to_gtype: the type of a game that is announced
Announced(t, k) ==
    CASE t = "war2" /\ k \in Warcraft -> k
      [] t = "star" /\ k \in Starcraft \cup {"topvbot"} -> k
      [] t = "diablo" /\ k \in Diablo -> "diablo"
      [] t = "diablo2" /\ k = "open" -> "diablo2open"
      [] t = "diablo2" /\ k = "all" -> "diablo2closed"
      [] OTHER -> "none"

\* Mutant: a Starcraft client's mapset is unknown here.
RequestedLess(t, k) ==
    CASE k = "all" -> IF t = "diablo2" THEN "diablo2open" ELSE "all"
      [] t = "war2" /\ k \in Warcraft -> k
      [] t = "star" /\ k \in Starcraft \ {"mapset"} -> k
      [] t = "diablo" /\ k \in Diablo -> "diablo"
      [] OTHER -> "none"

\* bngreqtype_to_gtype: the type of games that is asked for
Requested(t, k) ==
    CASE k = "all" -> IF t = "diablo2" THEN "diablo2open" ELSE "all"
      [] t = "war2" /\ k \in Warcraft -> k
      [] t = "star" /\ k \in Starcraft -> k
      [] t = "diablo" /\ k \in Diablo -> "diablo"
      [] OTHER -> "none"

\* gtype_to_bngtype: how a game is shown; Diablo II's games are shown as 0, "all", and an
\* ironman game of Warcraft as no kind that a client knows
ShownAs(type) ==
    CASE type \in {"diablo2open", "diablo2closed"} -> "all"
      [] type \in {"none", "ironman"} -> "unknown"
      [] OTHER -> type

\* bngoption_to_goption: the options that a type of game knows
OptionsOf(t, type) ==
    CASE type = "ladder" /\ t \in {"war2", "star"} -> {"countasloss", "nopenalty"}
      [] t = "star" /\ type \in {"melee", "ffa", "oneonone", "ctf", "sdeath", "mapset"} -> {"normal"}
      [] t = "star" /\ type = "greed" -> {"10000", "7500", "5000", "2500"}
      [] t = "star" /\ type = "slaughter" -> {"60", "45", "30", "15"}
      [] t = "star" /\ type \in {"teammelee", "teamffa", "teamctf"} -> {"4", "3", "2"}
      [] OTHER -> {}

Option(t, type, field) == IF field \in OptionsOf(t, type) THEN field ELSE "none"

\* the status that STARTGAME1, 3 and 4 mean; any other code changes nothing
Said1(code) ==
    CASE code = 4 -> "open" [] code = 6 -> "full" [] code = 14 -> "started"
      [] code = 12 -> "done" [] OTHER -> "none"
Said3(code) == IF code = 1 THEN "open" ELSE Said1(code)
Said4(code) ==
    CASE code \in {0, 1, 5, 6} -> "open" [] code \in {4, 7} -> "full" [] code = 14 -> "started"
      [] code \in {12, 13} -> "done" [] OTHER -> "none"

Status == UNION {{Said1(code), Said3(code), Said4(code)} : code \in Code} \ {"none"}

-----------------------------------------------------------------------------
(* The list. *)

\* gamelist_find_game
Found(gs, n, type) ==
    {i \in DOMAIN gs : gs[i].name = n /\ (type = "all" \/ gs[i].type = type)}

Find(gs, n, type) == CHOOSE i \in Found(gs, n, type) : TRUE

\* game_parse_info: what the game says of its map, speed and difficulty changes only with
\* an info of the right form; a closed Diablo II game and a Diablo game say nothing, and
\* the description of an open Diablo II game begins at the second byte, be it there or not
ParseInfo(g, info) ==
    CASE g.tag = "diablo" \/ g.type = "diablo2closed" \/ info \in Malformed -> g
      [] g.tag = "diablo2" -> [g EXCEPT !.about = IF info = Blank THEN Behind ELSE info]
      [] OTHER -> IF info = Blank THEN g ELSE [g EXCEPT !.about = info, !.map = MapOf(info)]

\* game_create, and the kind its creator announced
Create(c, n, p, info, type, k) ==
    ParseInfo([name |-> n, tag |-> tag[c], type |-> type, kind |-> k, pass |-> p, info |-> info,
               about |-> Blank, map |-> Blank, status |-> "open", option |-> "none",
               addr |-> Blank, members |-> <<>>], info)

\* game_choose_host: the first connection that is still there
ChooseHost(g, ad) == [g EXCEPT !.addr = ad[g.members[1]]]

\* game_add_player; a wrong password changes nothing, nor does a novice in a ladder game,
\* his own included: that one stays in the list with nobody in it and no address
AddPlayer(gs, i, c, p) ==
    IF gs[i].pass # p \/ (gs[i].type = "ladder" /\ c \in Novice) THEN gs
    ELSE [gs EXCEPT ![i] = ChooseHost([@ EXCEPT !.members = Append(@, c)], addr)]

\* game_del_player: the last one out takes the game with it
DelPlayer(gs, c) ==
    IF ingame[c] = NoName THEN gs
    ELSE LET i == Find(gs, ingame[c], "all")
             left == Remove(gs[i].members, c)
         IN IF left = <<>> THEN RemoveAt(gs, i)
            ELSE [gs EXCEPT ![i] = ChooseHost([@ EXCEPT !.members = left], addr)]

\* conn_set_game, of a connection in no game of that name: found by name and type, or
\* created when no game has the name
SetGame(c, n, p, info, type, k, option) ==
    LET gs == DelPlayer(games, c)
        new == IF Found(gs, n, type) # {} THEN gs
               ELSE <<Create(c, n, p, info, type, k)>> \o gs
        i == Find(new, n, type)
        told == [new EXCEPT ![i] = ParseInfo(@, info)]
        in == AddPlayer(told, i, c, p)
    IN IF Found(gs, n, type) = {} /\ Found(gs, n, "all") # {}
       THEN games' = gs /\ ingame' = [ingame EXCEPT ![c] = NoName]
       ELSE IF in = told
       THEN games' = told /\ ingame' = [ingame EXCEPT ![c] = NoName]
       ELSE /\ games' = [in EXCEPT ![i].option = IF option = "keep" THEN @
                                                 ELSE Option(tag[c], type, option)]
            /\ ingame' = [ingame EXCEPT ![c] = n]

TypeOK ==
    /\ \A i \in Index :
        /\ games[i].name \in Name /\ games[i].pass \in Pass \cup {NoPass}
        /\ games[i].status \in {"open", "full", "started", "done"}
        /\ games[i].addr \in Addr \cup {Blank} /\ games[i].about \in Info \cup {Blank, Behind}
        /\ games[i].option \in OptionField \cup {"none"}
        /\ games[i].members = <<>> => games[i].type = "ladder"
        /\ IsInjective(games[i].members)
    /\ ingame \in [Conn -> Name \cup {NoName}]
    /\ addr \in [Conn -> Addr]

Init ==
    /\ games = <<>>
    /\ ingame = [c \in Conn |-> NoName]
    /\ addr \in [Conn -> Addr]
    /\ tag \in Tags

\* CLIENT_SESSIONADDR1 and 2; the game of a host who moves is not told
SessionAddr(c, a) ==
    /\ MayMove \/ ingame[c] = NoName
    /\ addr' = [addr EXCEPT ![c] = a]
    /\ UNCHANGED <<tag, games, ingame>>

\* CLIENT_STARTGAME1, 3 and 4 of a client in no game; only STARTGAME4 has an option
StartGame(c, n, p, info, k, option) ==
    /\ ingame[c] = NoName
    /\ SetGame(c, n, p, info, Announced(tag[c], k), k, option)
    /\ UNCHANGED <<tag, addr>>

\* the same of a client in a game: any player sets its status
SetStatus(c, status) ==
    /\ ingame[c] # NoName
    /\ games' = [games EXCEPT ![Find(games, ingame[c], "all")].status = status]
    /\ UNCHANGED <<tag, ingame, addr>>

\* CLIENT_JOIN_GAME, of a game of any client and type, with no info
JoinGame(c, n, p) ==
    /\ Found(games, n, "all") # {}
    /\ ingame[c] # n
    /\ SetGame(c, n, p, Blank, games[Find(games, n, "all")].type, "all", "keep")
    /\ UNCHANGED <<tag, addr>>

\* CLIENT_CLOSEGAME, and the end of the connection
CloseGame(c) ==
    /\ ingame[c] # NoName
    /\ games' = DelPlayer(games, c)
    /\ ingame' = [ingame EXCEPT ![c] = NoName]
    /\ UNCHANGED <<tag, addr>>

\* CLIENT_MAPAUTHREQ1 and 2: the game takes the map's name and is started; then the two
\* names are compared
MapAuth(c, m) ==
    /\ ingame[c] # NoName
    /\ games' = [games EXCEPT ![Find(games, ingame[c], "all")] =
                    [@ EXCEPT !.map = m, !.status = "started"]]
    /\ UNCHANGED <<tag, ingame, addr>>

Next ==
    \E c \in Conn :
        \/ \E a \in Addr : SessionAddr(c, a)
        \/ \E n \in Name, p \in Pass \cup {NoPass} :
            \/ JoinGame(c, n, p)
            \/ \E info \in Info, k \in Kind, o \in OptionField \cup {"keep"} :
                StartGame(c, n, p, info, k, o)
        \/ \E status \in Status : SetStatus(c, status)
        \/ CloseGame(c)
        \/ \E m \in Map : MapAuth(c, m)

Spec == Init /\ [][Next]_vars

-----------------------------------------------------------------------------
(* What a client is shown. *)

\* gametrans_net: the first entry that applies
Translated(v, a) ==
    LET use == {i \in DOMAIN Translation : Applies(Translation[i], v, a)}
    IN IF use = {} THEN a
       ELSE Output(Translation[CHOOSE i \in use : \A j \in use : i <= j])

Public(g, v, type) ==
    /\ ~(HidePass /\ g.pass # NoPass)
    /\ ~(HideStarted /\ g.status # "open")
    /\ g.tag = tag[v]
    /\ type \in {"all", g.type}

Shown(g, v) == [name |-> g.name, as |-> ShownAs(g.type), addr |-> Translated(v, g.addr)]

\* CLIENT_GAMELISTREQ without a name, as far as the packet has room
Listing(v, k) ==
    LET all == SelectSeq(games, LAMBDA g : Public(g, v, Requested(tag[v], k)))
    IN [i \in 1 .. (IF Len(all) < MaxShown THEN Len(all) ELSE MaxShown) |-> Shown(all[i], v)]

\* and with one: whatever its client, password and status
Lookup(v, n, k) ==
    {Shown(games[i], v) : i \in Found(games, n, Requested(tag[v], k))}

-----------------------------------------------------------------------------
(* Properties. *)

\* Two kinds are announced that nobody can ask for: a Starcraft game of top versus bottom
\* and an open game of Diablo II; they are among all games.  A closed game of Diablo II is
\* listed by its realm server, and a game of a kind its client does not have is its own.
AskedWith(g) ==
    CASE g.type \in {"diablo2closed", "none"} -> {}
      [] g.type = "diablo2open" \/ (g.tag = "star" /\ g.type = "topvbot") -> {"all"}
      [] OTHER -> {"all", g.kind}

\* the first player is the host; there is none in a ladder game whose creator was refused
HostAddr(g) == IF g.members = <<>> THEN Blank ELSE addr[g.members[1]]

\* An open game without password that somebody announces can be found: a client of the
\* same kind that asks for all games, for games of the kind its creator announced, or for
\* the game by name is shown it, once, with the address at which this client reaches the
\* host of now, whoever came and went, and a game without players with no address.
\* game_conv.c, handle_bnet.c's GAMELISTREQ and game_choose_host.
AnnouncedIsFound ==
    \A i \in Index, v \in Conn :
        LET g == games[i]
            shown == [name |-> g.name, as |-> ShownAs(g.type),
                      addr |-> Translated(v, HostAddr(g))]
        IN g.tag = tag[v] =>
            \A k \in AskedWith(g) :
                /\ Lookup(v, g.name, k) = {shown}
                /\ g.status = "open" /\ g.pass = NoPass /\ Len(games) <= MaxShown =>
                    Cardinality({j \in DOMAIN Listing(v, k) : Listing(v, k)[j] = shown}) = 1
=============================================================================
