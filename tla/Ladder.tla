------------------------------- MODULE Ladder -------------------------------
(* The ladders of bnetd (ladder.c): the standing of every account on every   *)
(* ladder, which the account keeps as attributes (account_wrap.c), and the   *)
(* three lists of a ladder, by rating, by wins and by games, of now and of   *)
(* the last activation. A game that ends updates the current lists, an admin *)
(* makes them the active ones, and a restart builds all of them again.       *)
(*                                                                           *)
(* Losses, draws and disconnects are one count, "games" with the wins in it; *)
(* the points a game is worth, which Elo computes, are any of Points.        *)
EXTENDS Integers, Sequences, FiniteSets, SequencesExt

CONSTANTS
    Account,
    NoAccount,
    LadderId,       \* a client's tag with the number of one of its ladders
    Star,           \* Starcraft's own
    InitRating,     \* prefs_get_ladder_init_rating
    Points,
    MaxGames,       \* BOUND: the games reported
    MaxTurns        \* BOUND: the activations and restarts

VARIABLES
    now,            \* the attributes of an account: rating, wins, games, rank
    then,           \* the same at the last activation
    current,        \* the lists of the current ladders
    active,         \* and of the active ones
    games,          \* BOUND: counts the reports
    turns           \* BOUND: counts the activations and restarts

vars == <<now, then, current, active, games, turns>>

None  == [rating |-> 0, wins |-> 0, games |-> 0, rank |-> 0]
Empty == [highestrated |-> << >>, mostwins |-> << >>, mostgames |-> << >>]
Sorts == {"highestrated", "mostwins", "mostgames"}

-----------------------------------------------------------------------------
\* What a list is sorted by: the first difference decides, more comes first, and
\* between equals the better rank of before.
HighestRated(s) == <<s.rating, s.wins, -s.rank>>
MostWins(s)     == <<s.wins, s.rating, -s.rank>>
MostGames(s)    == <<s.games, s.rating, s.wins, -s.rank>>

Key(lsort, s) ==
    CASE lsort = "highestrated" -> HighestRated(s)
      [] lsort = "mostwins"     -> MostWins(s)
      [] lsort = "mostgames"    -> MostGames(s)

Ahead(k, m) ==
    \E i \in DOMAIN k : k[i] > m[i] /\ \A j \in 1..(i - 1) : k[j] = m[j]

\* What qsort may leave of a list.
Orders(lsort, stats, list) ==
    {s \in SetToSeqs(ToSet(list)) :
        \A i, j \in DOMAIN s : i < j => ~Ahead(Key(lsort, stats[s[j]]), Key(lsort, stats[s[i]]))}

\* ladder_sort
SortedLists(stats, lists) ==
    [highestrated : Orders("highestrated", stats, lists.highestrated),
     mostwins     : Orders("mostwins", stats, lists.mostwins),
     mostgames    : Orders("mostgames", stats, lists.mostgames)]

\* ladder_insert_account, of several in turn
Inserted(lists, seq) == [lsort \in Sorts |-> lists[lsort] \o seq]

\* The ranks the accounts of a list are given.
Ranked(stats, list) ==
    [a \in Account |->
        IF \E i \in DOMAIN list : list[i] = a
        THEN [stats[a] EXCEPT !.rank = CHOOSE i \in DOMAIN list : list[i] = a]
        ELSE stats[a]]

-----------------------------------------------------------------------------
Init ==
    /\ now = [l \in LadderId |-> [a \in Account |-> None]]
    /\ then = [l \in LadderId |-> [a \in Account |-> None]]
    /\ current = [l \in LadderId |-> Empty]
    /\ active = [l \in LadderId |-> Empty]
    /\ games = 0
    /\ turns = 0

\* ladder_init_account, of the players who have no rating yet
InitAccounts(l, players) ==
    [a \in Account |->
        IF a \in ToSet(players) /\ now[l][a].rating = 0
        THEN [now[l][a] EXCEPT !.rating = InitRating] ELSE now[l][a]]

Newcomers(l, players) == SelectSeq(players, LAMBDA a : now[l][a].rating = 0)

\* The counts of a result.
Counted(stats, results) ==
    [a \in Account |->
        IF a \in DOMAIN results
        THEN [stats[a] EXCEPT !.games = @ + 1,
                              !.wins  = IF results[a] = "win" THEN @ + 1 ELSE @]
        ELSE stats[a]]

\* account_adjust_ladder_rating
Adjusted(rating, delta) == IF rating + delta < 1 THEN 1 ELSE rating + delta

Rerated(stats, results, points) ==
    [a \in Account |->
        IF a \in DOMAIN results
        THEN [stats[a] EXCEPT !.rating =
                 Adjusted(@, IF results[a] = "win" THEN points[a] ELSE -points[a])]
        ELSE stats[a]]

\* ladder_update goes on to the ratings when there is one winner and a loser; a
\* disconnect may count as a loss.
Decided(results, discisloss) ==
    LET number(r) == Cardinality({a \in DOMAIN results : results[a] = r})
    IN  /\ Cardinality(DOMAIN results) >= 2
        /\ number("draw") = 0
        /\ number("win") = 1
        /\ number("loss") + (IF discisloss THEN number("disconnect") ELSE 0) >= 1

\* game_report of a ladder game: the players are entered and counted, and a
\* decided game changes ratings, lists and ranks.
GameReport(l) ==
    /\ games < MaxGames
    /\ games' = games + 1
    /\ \E S \in SUBSET Account \ {{}} :
       \E players \in SetToSeqs(S), results \in [S -> {"win", "loss", "draw", "disconnect"}] :
       \E discisloss \in BOOLEAN :
          LET stats == Counted(InitAccounts(l, players), results)
              lists == Inserted(current[l], Newcomers(l, players))
          IN  IF Decided(results, discisloss)
              THEN \E points \in [S -> Points] :
                   LET rated == Rerated(stats, results, points)
                   IN  \E sorted \in SortedLists(rated, lists) :
                          /\ current' = [current EXCEPT ![l] = sorted]
                          /\ now' = [now EXCEPT ![l] = Ranked(rated, sorted.highestrated)]
              ELSE /\ current' = [current EXCEPT ![l] = lists]
                   /\ now' = [now EXCEPT ![l] = stats]
    /\ UNCHANGED <<then, active, turns>>

\* ladderlist_make_all_active, which an admin asks for
MakeAllActive ==
    /\ turns < MaxTurns
    /\ turns' = turns + 1
    /\ active' = current
    /\ then' = [l \in LadderId |->
                  [a \in Account |->
                     IF a \in ToSet(current[l].highestrated) THEN now[l][a] ELSE then[l][a]]]
    /\ UNCHANGED <<now, current, games>>

\* What the lists may be when they are filled with these and sorted.
Rebuilt(stats, members) ==
    LET choices(l) == SortedLists(stats[l], Inserted(Empty, SetToSeq(members[l])))
    IN  {f \in [LadderId -> UNION {choices(l) : l \in LadderId}] :
            \A l \in LadderId : f[l] \in choices(l)}

\* The server stops, with its accounts saved, and starts: ladderlist_create goes
\* through the accounts. Those of the active lists are found by Starcraft's
\* rating, whatever the ladder, and their ranks are left alone.
Restart ==
    /\ turns < MaxTurns
    /\ turns' = turns + 1
    /\ \E cs \in Rebuilt(now, [l \in LadderId |-> {a \in Account : now[l][a].rating > 0}]),
          as \in Rebuilt(then, [l \in LadderId |-> {a \in Account : then[Star][a].rating > 0}]) :
          /\ current' = cs
          /\ active' = as
          /\ now' = [l \in LadderId |-> Ranked(now[l], cs[l].highestrated)]
    /\ UNCHANGED <<then, games>>

Next == (\E l \in LadderId : GameReport(l)) \/ MakeAllActive \/ Restart

Spec == Init /\ [][Next]_vars

-----------------------------------------------------------------------------
(* What a client is shown. *)

\* ladder_get_account_by_rank
ByRank(lists, lsort, i) ==
    IF i \in DOMAIN lists[lsort] THEN lists[lsort][i] ELSE NoAccount

\* ladder_get_rank_by_account
RankOf(lists, lsort, a) ==
    IF \E i \in DOMAIN lists[lsort] : lists[lsort][i] = a
    THEN CHOOSE i \in DOMAIN lists[lsort] :
            lists[lsort][i] = a /\ \A j \in 1..(i - 1) : lists[lsort][j] # a
    ELSE 0

\* LADDERREQ: the account of a place
Place(l, lsort, i) ==
    IF ByRank(active[l], lsort, i) # NoAccount
    THEN ByRank(active[l], lsort, i) ELSE ByRank(current[l], lsort, i)

\* LADDERSEARCHREQ: the place of an account
Search(l, lsort, a) ==
    IF RankOf(active[l], lsort, a) # 0 THEN RankOf(active[l], lsort, a)
    ELSE IF ByRank(active[l], lsort, RankOf(current[l], lsort, a)) # NoAccount THEN 0
    ELSE RankOf(current[l], lsort, a)

-----------------------------------------------------------------------------
TypeOK ==
    /\ now \in [LadderId -> [Account -> [rating : Nat, wins : 0..MaxGames,
                                        games : 0..MaxGames, rank : 0..Cardinality(Account)]]]
    /\ then \in [LadderId -> [Account -> [rating : Nat, wins : 0..MaxGames,
                                        games : 0..MaxGames, rank : 0..Cardinality(Account)]]]
    /\ \A lists \in {current, active} :
          lists \in [LadderId -> [Sorts -> {s \in UNION {[1..n -> Account] : n \in 0..Cardinality(Account)} :
                                              IsInjective(s)}]]

\* Every list of a ladder holds each account that was ever rated, once.
ListsHoldTheRated ==
    \A l \in LadderId, lsort \in Sorts :
        /\ ToSet(current[l][lsort]) = {a \in Account : now[l][a].rating > 0}
        /\ IsInjective(current[l][lsort])

\* The rank an account keeps is its place in the list, and a better rank is never
\* that of a lower rating.
RankIsPlace ==
    \A l \in LadderId, a, b \in Account :
        now[l][a].rank # 0 =>
            /\ ByRank(current[l], "highestrated", now[l][a].rank) = a
            /\ b # a /\ now[l][b].rank > now[l][a].rank => now[l][b].rating <= now[l][a].rating

\* The lists and the attributes of the accounts (ladder.c:814-825) tell the same
\* story, after games without a winner, activations and restarts.
StandingsAgree == ListsHoldTheRated /\ RankIsPlace

\* The place a search answers (handle_bnet.c:3281-3312) is that at which the list
\* shows the account, although each of them looks through two ladders.
SearchFindsPlace ==
    \A l \in LadderId, lsort \in Sorts, a \in Account :
        Search(l, lsort, a) # 0 => Place(l, lsort, Search(l, lsort, a)) = a
=============================================================================
