----------------------------- MODULE MCD2csGames -----------------------------
(* The games of d2cs, its clients and their characters, and the characters    *)
(* that bnetd keeps of its realms, part beside part: a behaviour is one of    *)
(* the part it starts with.  Two clients, two game names and game servers,    *)
(* the first with two links.                                                  *)
EXTENDS D2csGames, TLC
CONSTANTS a, b, dee, dum, l1, l2, l3, c1, c2, a1, a2, d1, d2, d3, m1, m2
CONSTANT Parts   \* the parts this run looks at

MCOf == [k \in {l1, l2, l3} |-> IF k = l3 THEN 2 ELSE 1]
MCOfOne == [k \in {l1, l2} |-> 1]

\* D2csClients: each client with an account of its own.
MCAcctOf == (c1 :> a1 @@ c2 :> a2)
\* RealmClients: two names differ in case only.
MCKey(n) == IF n = "N1" THEN "n1" ELSE n

MCSymmetry == Permutations({a, b}) \cup Permutations({dee, dum}) \cup Permutations({l1, l2})

VARIABLES
    part,   \* the part that runs
    csState, csAccount, csCharname, csLink, csOnline, csSqs, csInfo, csSave, csHad, csPlaying,
    bnKind, bnAccount, bnRealm, bnBound, bnCharacter, bnGame, bnGamerealm, bnList, bnData,
    bnPlayers, bnGames, bnTwice

Cs == INSTANCE D2csClients WITH
        Client <- {c1, c2}, Nobody <- Nobody, Acct <- {a1, a2}, Of <- MCAcctOf, NoAcct <- NoGame,
        Char <- {"x"}, NoChar <- "none", SameRow <- {<<c1, "x">>}, MaxAsked <- 2, state <- csState, account <- csAccount,
        charname <- csCharname, link <- csLink, online <- csOnline, sqs <- csSqs, info <- csInfo,
        save <- csSave, had <- csHad, playing <- csPlaying
ASSUME ClientsAssumption == Cs!NullAssumption
\* RealmClients: its counts, with two realms and a game; and its characters, with one realm.
Bn == INSTANCE RealmClients WITH
        Conn <- {d1, d2}, NoConn <- Nobody, Account <- {m1, m2}, Realm <- {"r1", "r2"},
        NoRealm <- "none", Game <- {"g1"}, NoGame <- "none", Name <- {}, Key <- MCKey,
        Class <- {}, NoData <- "nodata", MaxList <- 0, MaxDrift <- 1, kind <- bnKind,
        account <- bnAccount, realm <- bnRealm, bound <- bnBound, character <- bnCharacter,
        game <- bnGame, gamerealm <- bnGamerealm, list <- bnList, data <- bnData,
        players <- bnPlayers, games <- bnGames, twice <- bnTwice
Ch == INSTANCE RealmClients WITH
        Conn <- {d1, d2, d3}, NoConn <- Nobody, Account <- {m1, m2}, Realm <- {"r1"},
        NoRealm <- "none", Game <- {}, NoGame <- "none", Name <- {"n1", "N1"}, Key <- MCKey,
        Class <- {"k1"}, NoData <- "nodata", MaxList <- 2, MaxDrift <- 1, kind <- bnKind,
        account <- bnAccount, realm <- bnRealm, bound <- bnBound, character <- bnCharacter,
        game <- bnGame, gamerealm <- bnGamerealm, list <- bnList, data <- bnData,
        players <- bnPlayers, games <- bnGames, twice <- bnTwice

csVars == <<csState, csAccount, csCharname, csLink, csOnline, csSqs, csInfo, csSave, csHad, csPlaying>>
bnVars == <<bnKind, bnAccount, bnRealm, bnBound, bnCharacter, bnGame, bnGamerealm, bnList, bnData,
    bnPlayers, bnGames, bnTwice>>

Start ==
    /\ part \in Parts
    /\ Init /\ Cs!Init
    /\ \/ part = "characters" /\ Ch!Init
       \/ part # "characters" /\ Bn!Init
    /\ part # "games" => listed = {}
    /\ part # "clients" => ~csLink

Step ==
    \/ part = "games" /\ Next /\ UNCHANGED <<part, csVars, bnVars>>
    \/ part = "clients" /\ Cs!Next /\ UNCHANGED <<part, vars, bnVars>>
    \/ /\ \/ part = "realms" /\ Bn!Next
          \/ part = "characters" /\ Ch!Next
       /\ UNCHANGED <<part, vars, csVars>>

everything == <<part, vars, csVars, bnVars>>
SumSpec == Start /\ [][Step]_everything

------------------------------------------------------------------------------
\* The timers run for ever, whatever the sockets bring (server_loop).
QueueSpec == SumSpec /\ (\A n \in Name : WF_vars(VoidGame(n))) /\ WF_vars(UpdateClients)

\* D2csClients: a client is taken for the account it is logged into bnetd with, is given no
\* character that this account never had, and its files agree (on_bnetd_accountloginreply,
\* on_bnetd_charloginreply, d2charfile.c).
AccountIsItsOwn ==
    part = "clients" => Cs!TypeOK /\ Cs!AccountIsItsOwn /\ Cs!CharacterWasItsOwn
                        /\ Cs!FilesAgree

\* RealmClients: the two connections of one client point to each other, the characters on the
\* list are those kept, and what a realm counts follows its clients and games, all but for what
\* is named there (character.c, handle_auth.c, realm.c).
CountsAgree ==
    /\ [](part = "realms" => Bn!TypeOK /\ Bn!BoundAgrees)
    /\ [](part = "characters" => Ch!TypeOK /\ Ch!BoundAgrees /\ Ch!CharactersListed)
    /\ [][part = "realms" => Bn!KeepsCount]_bnVars
==============================================================================
