-------------------------------- MODULE MCGame --------------------------------
(* The games of bnetd, the lists of games that clients are shown, the ladders *)
(* of bnetd and d2dbs and the chances the ratings are computed from, part     *)
(* beside part: a behaviour is one of the part it starts with.  Two or three  *)
(* players and two games; ladders of two accounts; up to five players of a    *)
(* rated game in every outcome, more in the outcomes of an order of the       *)
(* players, turned round, with the result of one of player 1's games          *)
(* exchanged.                                                                 *)
EXTENDS Game, TLC
CONSTANTS ann, bob, cid, duel, melee, a, b, brief, near, far, trans, fallback, star, war, p, q
CONSTANT Parts   \* the parts this run looks at

Same == Permutations({ann, bob}) \cup Permutations({duel, melee}) \cup Permutations({p, q})

\* GameList: clients of one kind, or of two; the client at far is behind the server's own
\* network, but not to those inside it.
MCTags ==
    {[c \in {a, b} |-> t] : t \in {"star", "war2", "diablo", "diablo2"}}
        \cup {[c \in {a, b} |-> IF c = a THEN "star" ELSE "war2"]}
MCMapOf(i) == "forest"
MCTranslation == <<trans, fallback>>
MCApplies(e, v, ad) == IF e = trans THEN ad = far /\ v = a ELSE ad = far
MCOutput(e) == IF e = trans THEN "inside" ELSE "outside"

\* D2Ladder: a paladin, a sorceress and one who may be made again as the other, and room for
\* one of each on the lists of classes.
LadderClasses ==
    [c \in {"p", "q", "r"} |-> (IF c = "p" THEN {} ELSE {"sorceress"})
                              \cup (IF c = "r" THEN {} ELSE {"paladin"})]
LadderLength == [t \in {"overall", "paladin", "sorceress"} |-> IF t = "overall" THEN 3 ELSE 1]
LadderLevel(x) == 1 + x \div 2

\* Elo.
Pairs(n) == {r \in (1..n) \X (1..n) : r[1] < r[2]}
Every(n) == {S \cup {<<r[2], r[1]>> : r \in Pairs(n) \ S} : S \in SUBSET Pairs(n)}
\* The order k+1, ..., n, 1, ..., k.
Turned(n, k) == {r \in (1..n) \X (1..n) : (r[1] - k - 1) % n < (r[2] - k - 1) % n}
Exchanged(R, r) == IF r \in R THEN (R \ {r}) \cup {<<r[2], r[1]>>} ELSE R
Few(n) == {Exchanged(Turned(n, k), <<1, c>>) : k \in 0..(n - 1), c \in 1..n}
MCOutcomes(n) == IF n <= 5 THEN Every(n) ELSE Few(n)

VARIABLES
    part,   \* the part that runs
    shownTag, shownGames, shownIngame, shownAddr,
    rankNow, rankThen, rankCurrent, rankActive, rankGames, rankTurns,
    chanceCount, chanceBeats, chanceProb,
    realmLists, realmLadder, realmBackup, realmSaving, realmUp, realmExp, realmAgain, realmUpdates,
    realmKept,    realmBegun

Shown == INSTANCE GameList WITH
        Conn <- {a, b}, Tags <- MCTags, Name <- {duel, melee}, NoName <- NoGame,
        Pass <- {"secret"}, NoPass <- "nopass", Novice <- {b}, Info <- {brief}, Blank <- NoUser,
        Behind <- trans, Malformed <- {},
        MapOf <- MCMapOf, Map <- {"forest"}, Addr <- {near, far}, Translation <- MCTranslation,
        Applies <- MCApplies, Output <- MCOutput, HidePass <- TRUE, HideStarted <- FALSE,
        Code <- {1, 14}, Kind <- {"all", "open", "mapset", "ladder", "diablo_2"},
        OptionField <- {"normal"}, MaxShown <- 2, MayMove <- FALSE, tag <- shownTag,
        games <- shownGames, ingame <- shownIngame, addr <- shownAddr
Rank == INSTANCE Ladder WITH
        Account <- {p, q}, NoAccount <- NoUser, LadderId <- {star, war}, Star <- star,
        InitRating <- 2, Points <- {1}, MaxGames <- 2, MaxTurns <- 2, now <- rankNow,
        then <- rankThen, current <- rankCurrent, active <- rankActive, games <- rankGames,
        turns <- rankTurns
Chance == INSTANCE Elo WITH
        Sizes <- {2, 3, 4, 5, 6, 8}, Outcomes <- MCOutcomes, count <- chanceCount,
        beats <- chanceBeats, prob <- chanceProb
Realm == INSTANCE D2Ladder WITH
        Chars <- {"p", "q", "r"}, ClassesOf <- LadderClasses, Length <- LadderLength,
        TypeOrder <- <<"overall", "sorceress", "paladin">>,
        Level <- LadderLevel, MaxExp <- 3, MaxUpdates <- 3, PerPacket <- 2, ListCount <- 3,
        lists <- realmLists, ladder <- realmLadder, backup <- realmBackup, saving <- realmSaving,
        up <- realmUp, exp <- realmExp, again <- realmAgain, updates <- realmUpdates,
        kept <- realmKept, begun <- realmBegun

shownVars == <<shownTag, shownGames, shownIngame, shownAddr>>
rankVars == <<rankNow, rankThen, rankCurrent, rankActive, rankGames, rankTurns>>
chanceVars == <<chanceCount, chanceBeats, chanceProb>>
realmVars == <<realmLists, realmLadder, realmBackup, realmSaving, realmUp, realmExp, realmAgain,
    realmUpdates, realmKept, realmBegun>>

Start ==
    /\ part \in Parts
    /\ part # "list" => shownTag = [c \in {a, b} |-> "star"] /\ shownAddr = [c \in {a, b} |-> near]
    /\ part # "elo" => chanceCount = 2 /\ chanceBeats = {<<1, 2>>}
    /\ Init /\ Shown!Init /\ Rank!Init /\ Chance!Init /\ Realm!Init

Step ==
    \/ part = "game" /\ Next /\ UNCHANGED <<part, shownVars, rankVars, chanceVars, realmVars>>
    \/ part = "list" /\ Shown!Next /\ UNCHANGED <<part, vars, rankVars, chanceVars, realmVars>>
    \/ part = "ladder" /\ Rank!Next /\ UNCHANGED <<part, vars, shownVars, chanceVars, realmVars>>
    \/ part = "elo" /\ Chance!Next /\ UNCHANGED <<part, vars, shownVars, rankVars, realmVars>>
    \/ part = "d2ladder" /\ Realm!Next /\ UNCHANGED <<part, vars, shownVars, rankVars,
        chanceVars>>

everything == <<part, vars, shownVars, rankVars, chanceVars, realmVars>>
SumSpec == Start /\ [][Step]_everything

------------------------------------------------------------------------------
\* GameList: a client is shown a game that its list and its questions name, once, with the
\* address of the host of now (game_conv.c, GAMELISTREQ, game_choose_host).
AnnouncedIsFound == part = "list" => Shown!TypeOK /\ Shown!AnnouncedIsFound

\* Ladder, D2Ladder and Elo: the ladders and the ranks of the accounts tell the same story, a search
\* finds the place it is shown at, the lists of d2dbs are ranked by experience and what d2cs is
\* told shows the character it asks for; and the chances are those of a tournament (ladder.c,
\* d2ladder.c, ladder_calc.c).
ResultsRight ==
    /\ part = "ladder" => Rank!TypeOK /\ Rank!StandingsAgree /\ Rank!SearchFindsPlace
    /\ part = "d2ladder" => Realm!TypeOK /\ Realm!StandingsRight /\ Realm!AnswerShowsCharacter
    /\ part = "elo" => Chance!ChanceOfTournament

\* D2Ladder: after a crash in the middle of a save the lists are those of the save before, or of
\* this one (d2ladder_saveladder, d2ladder_checkfile).
RestartKeeps == [][part = "d2ladder" => Realm!Restarted]_everything
==============================================================================
