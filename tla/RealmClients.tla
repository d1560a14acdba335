---------------------------- MODULE RealmClients ----------------------------
(* The clients of the realms, as bnetd sees them: REALMJOINREQ and           *)
(* REALMJOINREQ_109 of handle_bnet.c, the auth connections and characters of *)
(* the old clients (handle_auth.c, character.c, account_wrap.c), and the     *)
(* players and games each realm counts (realm.c, connection.c, game.c).      *)
(*                                                                           *)
(* An old client logs in again on an auth connection, with the session it    *)
(* got from REALMJOINREQ; a 1.09 client goes to the realm server, which      *)
(* tells bnetd its character.  A connection's memory is used again: the same *)
(* member of Conn stands for the next connection at its place.  How a game   *)
(* comes and goes is module Game's; here it lasts while somebody is in it.   *)
EXTENDS Integers, Sequences, FiniteSets, Functions, SequencesExt

CONSTANTS
    Conn, NoConn, Account, Realm, NoRealm, Game, NoGame,
    Name,       \* names of characters
    Key(_),     \* a name in lower case: attribute keys are compared so
    Class,      \* class and expansion of a character
    NoData,
    MaxList,    \* bound: characters on a list
    MaxDrift    \* bound: by how much a realm's count is below zero when an old client joins

VARIABLES
    kind,       \* "old" and "new" clients of bnet, "auth"; "none" while free
    account, realm,
    bound,      \* the other connection of an old client
    character,  \* d2cs has told the character of a new client
    game, gamerealm,
    list,       \* BNET\CharacterList: the names, in order
    data,       \* BNET\Characters: by lower case name
    players, games,  \* what a realm counts
    twice       \* history: a client has logged in on a second auth connection

conns == <<kind, account, realm, bound, character>>
counts == <<players, games>>
characters == <<list, data>>
vars == <<conns, game, gamerealm, characters, counts, twice>>

ClientKind == {"old", "new"}
NoAccount == "noaccount"

TypeOK ==
    /\ kind \in [Conn -> ClientKind \cup {"none", "auth"}]
    /\ account \in [Conn -> Account \cup {NoAccount}]
    /\ realm \in [Conn -> Realm \cup {NoRealm}]
    /\ bound \in [Conn -> Conn \cup {NoConn}]
    /\ character \in [Conn -> BOOLEAN]
    /\ game \in [Conn -> Game \cup {NoGame}]
    /\ gamerealm \in [Game -> Realm \cup {NoRealm}]
    /\ list \in [Account \X Realm -> Seq(Name)]
    /\ data \in [Account \X Realm -> [{Key(n) : n \in Name} -> Class \cup {NoData}]]
    /\ players \in [Realm -> Int] /\ games \in [Realm -> Int]

Init ==
    /\ kind = [c \in Conn |-> "none"]
    /\ account = [c \in Conn |-> NoAccount]
    /\ realm = [c \in Conn |-> NoRealm]
    /\ bound = [c \in Conn |-> NoConn]
    /\ character = [c \in Conn |-> FALSE]
    /\ game = [c \in Conn |-> NoGame]
    /\ gamerealm = [g \in Game |-> NoRealm]
    /\ list = [x \in Account \X Realm |-> <<>>]
    /\ data = [x \in Account \X Realm |-> [k \in {Key(n) : n \in Name} |-> NoData]]
    /\ players = [r \in Realm |-> 0]
    /\ games = [r \in Realm |-> 0]
    /\ twice = FALSE

-----------------------------------------------------------------------------
(* Connections *)

\* A client of bnet has logged in; the old login of its account is Session's.
LogIn(c, k, a) ==
    /\ kind[c] = "none" /\ ~\E d \in Conn : account[d] = a
    /\ kind' = [kind EXCEPT ![c] = k]
    /\ account' = [account EXCEPT ![c] = a]
    /\ UNCHANGED <<realm, bound, character, game, gamerealm, characters, counts, twice>>

\* CLIENT_REALMJOINREQ: the realm is remembered, the player not counted.
JoinRealm(c, r) ==
    /\ kind[c] = "old" /\ players[r] > -MaxDrift
    /\ realm' = [realm EXCEPT ![c] = r]
    /\ UNCHANGED <<kind, account, bound, character, game, gamerealm, characters, counts, twice>>

\* Mutant: a client that changes realms is counted in both.
JoinRealm109Both(c, r) ==
    /\ kind[c] = "new"
    /\ realm' = [realm EXCEPT ![c] = r]
    /\ players' = IF realm[c] = r THEN players ELSE [players EXCEPT ![r] = @ + 1]
    /\ UNCHANGED <<kind, account, bound, character, game, gamerealm, characters, games, twice>>

\* CLIENT_REALMJOINREQ_109
JoinRealm109(c, r) ==
    /\ kind[c] = "new"
    /\ realm' = [realm EXCEPT ![c] = r]
    /\ players' = [x \in Realm |-> players[x] + (IF x = r THEN 1 ELSE 0)
                                              - (IF x = realm[c] THEN 1 ELSE 0)]
    /\ UNCHANGED <<kind, account, bound, character, game, gamerealm, characters, games, twice>>

\* on_d2cs_charloginreq
CharLogin(c) ==
    /\ kind[c] \in ClientKind /\ realm[c] # NoRealm
    /\ character' = [character EXCEPT ![c] = TRUE]
    /\ UNCHANGED <<kind, account, realm, bound, game, gamerealm, characters, counts, twice>>

\* The auth connection of an old client.
Connect(c) ==
    /\ kind[c] = "none"
    /\ kind' = [kind EXCEPT ![c] = "auth"]
    /\ UNCHANGED <<account, realm, bound, character, game, gamerealm, characters, counts, twice>>

\* CLIENT_AUTHLOGINREQ with the session, the hash and the name of b (conn_bind). Nothing
\* looks for an auth connection that b has already: that one keeps its pointer to b.
AuthLogin(c, b) ==
    /\ kind[c] = "auth" /\ bound[c] = NoConn
    /\ kind[b] = "old" /\ realm[b] # NoRealm
    /\ bound' = [bound EXCEPT ![c] = b, ![b] = c]
    /\ twice' = (twice \/ bound[b] # NoConn)
    /\ UNCHANGED <<kind, account, realm, character, game, gamerealm, characters, counts>>

-----------------------------------------------------------------------------
(* Characters: an auth connection has the account and the realm of the other. *)

Has(c) == kind[c] = "auth" /\ bound[c] # NoConn
Slot(c) == <<account[bound[c]], realm[bound[c]]>>

\* account_check_closed_character compares the names as they are.
CheckClosedCharacter(x, n) == n \in ToSet(list[x])

\* account_add_closed_character: two attributes are set.
AddClosedCharacter(x, n, k) ==
    /\ list' = [list EXCEPT ![x] = Append(@, n)]
    /\ data' = [data EXCEPT ![x][Key(n)] = k]

\* character_create: the account and the realm are known, the name is not.
CharacterCreate(x, n, k) ==
    /\ x \in DOMAIN list /\ Len(list[x]) < MaxList
    /\ ~CheckClosedCharacter(x, n)
    /\ AddClosedCharacter(x, n, k)

\* CLIENT_CREATECHARREQ
CreateChar(c, n, k) ==
    /\ Has(c)
    /\ CharacterCreate(Slot(c), n, k)
    /\ UNCHANGED <<conns, game, gamerealm, counts, twice>>

\* CLIENT_CHARLISTREQ: the entries that have data are sent.
HasData(x, n) == data[x][Key(n)] # NoData
Shown(x) == SelectSeq(list[x], LAMBDA n : HasData(x, n))

-----------------------------------------------------------------------------
(* Games and counts *)

In(g) == {c \in Conn : game[c] = g}
Realmed(c) == realm[c] # NoRealm /\ character[c]

\* conn_set_game: the game left is gone with its last player (game_destroy); a new
\* one is its creator's realm's.  A game may also refuse the player it has.
SetGame(c, g) ==
    /\ kind[c] \in ClientKind /\ game[c] # g
    /\ LET left == game[c]
           gone == left # NoGame /\ In(left) = {c}
           made == g # NoGame /\ In(g) = {}
           minus == IF gone THEN gamerealm[left] ELSE NoRealm
           plus == IF made /\ Realmed(c) THEN realm[c] ELSE NoRealm
       IN /\ \E h \in IF made THEN {g} ELSE {g, NoGame} : game' = [game EXCEPT ![c] = h]
          /\ gamerealm' = [x \in Game |-> IF x = g /\ made THEN plus
                                          ELSE IF x = left /\ gone THEN NoRealm
                                          ELSE gamerealm[x]]
          /\ games' = [r \in Realm |-> games[r] + (IF r = plus THEN 1 ELSE 0)
                                                - (IF r = minus THEN 1 ELSE 0)]
    /\ UNCHANGED <<conns, characters, players, twice>>

Uncounted(c) == [r \in Realm |-> IF r = realm[c] THEN players[r] - 1 ELSE players[r]]

\* Only the connection that c is bound to forgets it: one bound to c before that one goes on
\* with whatever is at its place.
Unbound(c) == [d \in Conn |-> IF d = c \/ bound[c] = d THEN NoConn ELSE bound[d]]

\* conn_destroy, once out of its game.
HangUp(c) ==
    /\ kind[c] # "none" /\ game[c] = NoGame
    /\ kind' = [kind EXCEPT ![c] = "none"]
    /\ account' = [account EXCEPT ![c] = NoAccount]
    /\ realm' = [realm EXCEPT ![c] = NoRealm]
    /\ character' = [character EXCEPT ![c] = FALSE]
    /\ bound' = Unbound(c)
    /\ players' = Uncounted(c)
    /\ UNCHANGED <<game, gamerealm, characters, games, twice>>

\* realmlist_destroy and realmlist_create: the counts start again.
Reload ==
    /\ players' = [r \in Realm |-> 0] /\ games' = [r \in Realm |-> 0]
    /\ UNCHANGED <<conns, game, gamerealm, characters, twice>>

Next ==
    \/ Reload
    \/ \E c \in Conn :
         \/ \E k \in ClientKind, a \in Account : LogIn(c, k, a)
         \/ \E r \in Realm : JoinRealm(c, r) \/ JoinRealm109(c, r)
         \/ CharLogin(c) \/ Connect(c) \/ HangUp(c)
         \/ \E b \in Conn : AuthLogin(c, b)
         \/ \E n \in Name, k \in Class : CreateChar(c, n, k)
         \/ \E g \in Game \cup {NoGame} : SetGame(c, g)

Spec == Init /\ [][Next]_vars

-----------------------------------------------------------------------------
(* Properties *)

\* As long as no client has logged in on a second auth connection, an auth connection is
\* bound to a live client in a realm that knows of it: after the client has gone it never
\* acts for the account that logs in at the same place next (conn_bind, conn_destroy).
BoundAgrees ==
    twice \/ \A c \in Conn : Has(c) => /\ kind[bound[c]] = "old" /\ bound[bound[c]] = c
                                       /\ realm[bound[c]] # NoRealm

\* Each name is on its account's list once and shown with data, and no data is left of a name
\* that is not on it. Names that differ in case only share their data, which is the last
\* one's: the list is searched with strcmp, attributes are compared without case.
CharactersListed ==
    \A x \in Account \X Realm :
        /\ Shown(x) = list[x] /\ IsInjective(list[x])
        /\ {k \in DOMAIN data[x] : data[x][k] # NoData} = {Key(n) : n \in ToSet(list[x])}

\* By how much a realm counts too few: the clients in it, and the games made in it.
Missing(r) ==
    <<Cardinality({c \in Conn : realm[c] = r}) - players[r],
      Cardinality({g \in Game : gamerealm[g] = r}) - games[r]>>

\* What a realm counts follows the clients in it and the games they made, through changes of
\* realm, hang-ups and games left by others than their maker. Only two things ever put it
\* out, for good: an old client that joins, who is not counted but is counted out; and the
\* realms read again, which forget who is in them (REALMJOINREQ, conn_destroy, realmlist_create).
KeepsCount ==
    \/ Reload \/ \E c \in Conn, r \in Realm : JoinRealm(c, r)
    \/ \A r \in Realm : Missing(r)' = Missing(r)
CountsKept == [][KeepsCount]_vars
=============================================================================
