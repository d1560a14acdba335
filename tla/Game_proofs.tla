---------------------------- MODULE Game_proofs ----------------------------
(* Game's safety properties for any number of users, games and entries, any  *)
(* claims and any minimum of wins.                                           *)
(*                                                                           *)
(* The handlers are operators from a state record to a state record, so the  *)
(* invariant is stated of such a record, and there is one lemma for each     *)
(* operator that a handler calls.                                            *)
EXTENDS Game, FiniteSetTheorems, WellFoundedInduction, TLAPS

----------------------------------------------------------------------------
(* The least of some numbers (First).                                      *)

Less == {p \in Nat \X Nat : p[1] < p[2]}

LEMMA Descends == IsWellFoundedOn(Less, Nat)
BY NatLessThanWellFounded DEF OpToRel, Less

\* Some numbers, if any, have a first, which is one of them.
LEMMA FirstLemma ==
    ASSUME NEW I \in SUBSET Nat, I # {}
    PROVE  First(I) \in I
<1>1. PICK x \in I : \A y \in I : ~ (<<y, x>> \in Less)
  BY Descends, WFMin
<1>2. ASSUME NEW y \in I PROVE x <= y
  <2>1. x \in Nat /\ y \in Nat
    OBVIOUS
  <2>2. <<y, x>> \in Nat \X Nat /\ ~(<<y, x>>[1] < <<y, x>>[2])
    BY <1>1, <2>1 DEF Less
  <2> QED BY <2>1, <2>2
<1> QED BY <1>2 DEF First

LEMMA FirstOfOne == ASSUME NEW i \in Nat PROVE First({i}) = i
BY DEF First

----------------------------------------------------------------------------
(* One game.                                                               *)

\* ref counts the connections of a game and its host is the first of them.
Hosted(g) ==
    /\ g \in Record
    /\ g.ref = Cardinality(Here(g))
    /\ g.ref > 0 => g.owner = g.entries[First(Here(g))].who

\* A game with other entries and another count of connections.
With(g, x, r) == [g EXCEPT !.entries = x, !.ref = r]

LEMMA WithLemma ==
    ASSUME NEW g \in Record, NEW x \in Seq(Entry), NEW r \in Nat
    PROVE  /\ With(g, x, r) \in Record
           /\ With(g, x, r).entries = x /\ With(g, x, r).ref = r
           /\ With(g, x, r).type = g.type /\ With(g, x, r).bad = g.bad
           /\ With(g, x, r).owner = g.owner
BY DEF Record, With

LEMMA HereLemma ==
    ASSUME NEW g \in Record
    PROVE  /\ Here(g) \in SUBSET Nat /\ IsFiniteSet(Here(g)) /\ Cardinality(Here(g)) \in Nat
           /\ Here(g) \subseteq DOMAIN g.entries
           /\ DOMAIN g.entries = 1..Len(g.entries) /\ Len(g.entries) \in Nat
           /\ Cardinality(Here(g)) = 0 <=> Here(g) = {}
<1>1. g.entries \in Seq(Entry)
  BY DEF Record
<1>2. DOMAIN g.entries = 1..Len(g.entries) /\ Len(g.entries) \in Nat
  BY <1>1
<1>3. IsFiniteSet(DOMAIN g.entries)
  BY <1>2, FS_Interval
<1>4. Here(g) \in SUBSET DOMAIN g.entries
  BY DEF Here
<1>5. IsFiniteSet(Here(g))
  BY <1>3, <1>4, FS_Subset
<1> QED BY <1>2, <1>4, <1>5, FS_CardinalityType, FS_EmptySet

\* game_choose_host changes nothing but the host, and makes it the first.
LEMMA ChooseHostLemma ==
    ASSUME NEW g \in Record, g.ref = Cardinality(Here(g))
    PROVE  /\ Hosted(ChooseHost(g))
           /\ ChooseHost(g).entries = g.entries /\ ChooseHost(g).type = g.type
           /\ ChooseHost(g).bad = g.bad /\ ChooseHost(g).ref = g.ref
<1>1. CASE Here(g) = {}
  BY <1>1, HereLemma DEF ChooseHost, Hosted
<1>2. CASE Here(g) # {}
  <2> DEFINE o == g.entries[First(Here(g))].who
  <2>1. First(Here(g)) \in DOMAIN g.entries
    BY <1>2, HereLemma, FirstLemma
  <2>2. o \in User
    <3>1. g.entries \in Seq(Entry)
      BY DEF Record
    <3>2. g.entries[First(Here(g))] \in Entry
      BY <2>1, <3>1
    <3> QED BY <3>2 DEF Entry
  <2>3. ChooseHost(g) = [g EXCEPT !.owner = o]
    BY <1>2 DEF ChooseHost
  <2> HIDE DEF o
  <2>4. /\ ChooseHost(g) \in Record /\ ChooseHost(g).owner = o
        /\ ChooseHost(g).entries = g.entries /\ ChooseHost(g).type = g.type
        /\ ChooseHost(g).bad = g.bad /\ ChooseHost(g).ref = g.ref
    BY <2>2, <2>3 DEF Record
  <2>5. Here(ChooseHost(g)) = Here(g)
    BY <2>4 DEF Here
  <2> QED BY <2>4, <2>5 DEF Hosted, o
<1> QED BY <1>1, <1>2

\* A new entry at the end is one connection more (game_add_player).
Joined(g, u) == [g EXCEPT !.entries = Append(@, [who |-> u, here |-> TRUE, result |-> "none"]),
                          !.ref = @ + 1]

LEMMA JoinedLemma ==
    ASSUME NEW g, Hosted(g), NEW u \in User
    PROVE  /\ Joined(g, u) \in Record
           /\ Joined(g, u).ref = Cardinality(Here(Joined(g, u)))
           /\ Joined(g, u).ref = g.ref + 1
           /\ Joined(g, u).type = g.type /\ Joined(g, u).bad = g.bad
           /\ Here(Joined(g, u)) = Here(g) \cup {Len(g.entries) + 1}
           /\ Joined(g, u).entries[Len(g.entries) + 1].who = u
           /\ Len(g.entries) + 1 \notin DOMAIN g.entries
           /\ \A i \in DOMAIN g.entries :
                 i \in DOMAIN Joined(g, u).entries /\ Joined(g, u).entries[i] = g.entries[i]
<1> DEFINE e == [who |-> u, here |-> TRUE, result |-> "none"]
           h == Joined(g, u)
           n == Len(g.entries)
<1>1. g \in Record /\ g.ref = Cardinality(Here(g))
  BY DEF Hosted
<1>2. e \in Entry
  BY DEF Entry, Result
<1>3. g.entries \in Seq(Entry) /\ g.ref \in Nat
  BY <1>1 DEF Record
<1>4. Append(g.entries, e) \in Seq(Entry) /\ g.ref + 1 \in Nat
  BY <1>2, <1>3
<1>5. /\ h \in Record /\ h.entries = Append(g.entries, e) /\ h.ref = g.ref + 1
      /\ h.type = g.type /\ h.bad = g.bad
  <2>1. h = With(g, Append(g.entries, e), g.ref + 1)
    BY DEF Joined, With
  <2> HIDE DEF h, e
  <2> QED BY <1>1, <1>4, <2>1, WithLemma
<1>6. /\ n \in Nat /\ DOMAIN g.entries = 1..n /\ DOMAIN h.entries = 1..(n + 1)
      /\ h.entries[n + 1] = e /\ \A i \in 1..n : h.entries[i] = g.entries[i]
  <2> HIDE DEF e
  <2> QED BY <1>2, <1>3, <1>5
<1>7. Here(h) = Here(g) \cup {n + 1}
  <2>1. h.entries[n + 1].here
    BY <1>6
  <2> QED BY <1>6, <2>1 DEF Here
<1>8. n + 1 \notin Here(g) /\ IsFiniteSet(Here(g))
  BY <1>1, <1>6, HereLemma
<1>9. Cardinality(Here(h)) = g.ref + 1
  <2> HIDE DEF h, n
  <2> QED BY <1>1, <1>7, <1>8, FS_AddElement
<1>10. h.entries[n + 1].who = u
  BY <1>6
<1> HIDE DEF h, n
<1> QED BY <1>5, <1>6, <1>7, <1>8, <1>9, <1>10 DEF h, n

\* The connection of one entry is cleared (game_del_player).
ClearedEntries(g, k) ==
    [i \in DOMAIN g.entries |->
        IF i = k THEN [g.entries[i] EXCEPT !.here = FALSE] ELSE g.entries[i]]
Cleared(g, k) == [g EXCEPT !.entries = ClearedEntries(g, k)]
Gone(g, k) == [Cleared(g, k) EXCEPT !.ref = @ - 1]

LEMMA ClearedEntriesLemma ==
    ASSUME NEW g \in Record, NEW k \in DOMAIN g.entries
    PROVE  /\ ClearedEntries(g, k) \in Seq(Entry)
           /\ DOMAIN ClearedEntries(g, k) = DOMAIN g.entries
           /\ \A i \in DOMAIN g.entries :
                 /\ ClearedEntries(g, k)[i].who = g.entries[i].who
                 /\ ClearedEntries(g, k)[i].result = g.entries[i].result
                 /\ ClearedEntries(g, k)[i].here <=> g.entries[i].here /\ i # k
<1> DEFINE n == Len(g.entries)
<1>1. g.entries \in Seq(Entry) /\ n \in Nat /\ DOMAIN g.entries = 1..n
  BY DEF Record
<1>2. ASSUME NEW i \in 1..n
      PROVE  /\ ClearedEntries(g, k)[i] \in Entry
             /\ ClearedEntries(g, k)[i].who = g.entries[i].who
             /\ ClearedEntries(g, k)[i].result = g.entries[i].result
             /\ ClearedEntries(g, k)[i].here <=> g.entries[i].here /\ i # k
  <2>1. g.entries[i] \in Entry
    BY <1>1
  <2>2. ClearedEntries(g, k)[i] =
            IF i = k THEN [g.entries[i] EXCEPT !.here = FALSE] ELSE g.entries[i]
    BY <1>1 DEF ClearedEntries
  <2>3. CASE i = k
    BY <2>1, <2>2, <2>3 DEF Entry
  <2>4. CASE i # k
    BY <2>1, <2>2, <2>4 DEF Entry
  <2> QED BY <2>3, <2>4
<1>3. DOMAIN ClearedEntries(g, k) = 1..n
  BY <1>1 DEF ClearedEntries
<1>4. ClearedEntries(g, k) = [i \in 1..n |-> ClearedEntries(g, k)[i]]
  BY <1>1 DEF ClearedEntries
<1>5. ClearedEntries(g, k) \in [1..n -> Entry]
  <2> HIDE DEF n
  <2> QED BY <1>2, <1>3, <1>4
<1>6. ClearedEntries(g, k) \in Seq(Entry)
  <2> HIDE DEF n
  <2> QED BY <1>1, <1>5
<1> QED BY <1>1, <1>2, <1>3, <1>6

LEMMA ClearedLemma ==
    ASSUME NEW g, Hosted(g), NEW k \in Here(g)
    PROVE  /\ Cleared(g, k) \in Record /\ Gone(g, k) \in Record
           /\ Cleared(g, k).type = g.type /\ Cleared(g, k).bad = g.bad
           /\ Gone(g, k).type = g.type /\ Gone(g, k).bad = g.bad
           /\ Cleared(g, k).entries = ClearedEntries(g, k)
           /\ Gone(g, k).entries = ClearedEntries(g, k)
           /\ Here(Gone(g, k)) = Here(g) \ {k}
           /\ Gone(g, k).ref = Cardinality(Here(Gone(g, k)))
           /\ Gone(g, k).ref = g.ref - 1 /\ g.ref \in Nat \ {0}
<1>1. g \in Record /\ g.ref = Cardinality(Here(g))
  BY DEF Hosted
<1>2. k \in DOMAIN g.entries /\ IsFiniteSet(Here(g))
  BY <1>1, HereLemma
<1>3. g.ref \in Nat \ {0}
  BY <1>1, HereLemma
<1>4. ClearedEntries(g, k) \in Seq(Entry) /\ g.ref \in Nat /\ g.ref - 1 \in Nat
  BY <1>1, <1>2, <1>3, ClearedEntriesLemma
<1>5. /\ Cleared(g, k) \in Record /\ Gone(g, k) \in Record
      /\ Cleared(g, k).type = g.type /\ Cleared(g, k).bad = g.bad
      /\ Gone(g, k).type = g.type /\ Gone(g, k).bad = g.bad
      /\ Cleared(g, k).entries = ClearedEntries(g, k)
      /\ Gone(g, k).entries = ClearedEntries(g, k)
      /\ Gone(g, k).ref = g.ref - 1
  <2> DEFINE x == ClearedEntries(g, k)
             h == Cleared(g, k)
  <2> HIDE DEF x
  <2>1. /\ h \in Record /\ h.entries = x /\ h.type = g.type /\ h.bad = g.bad
        /\ h.ref = g.ref
    BY <1>1, <1>4 DEF Cleared, Record, x
  <2> HIDE DEF h
  <2>2. /\ Gone(g, k) \in Record /\ Gone(g, k).type = h.type /\ Gone(g, k).bad = h.bad
        /\ Gone(g, k).entries = h.entries /\ Gone(g, k).ref = g.ref - 1
    BY <1>4, <2>1 DEF Gone, Record, h
  <2> QED BY <2>1, <2>2 DEF x, h
<1>6. Here(Gone(g, k)) = Here(g) \ {k}
  <2> DEFINE x == ClearedEntries(g, k)
  <2>1. /\ DOMAIN x = DOMAIN g.entries
        /\ \A i \in DOMAIN g.entries : x[i].here <=> g.entries[i].here /\ i # k
    BY <1>1, <1>2, ClearedEntriesLemma
  <2> HIDE DEF x
  <2> QED BY <1>5, <2>1 DEF Here, x
<1>7. Cardinality(Here(g) \ {k}) = g.ref - 1
  BY <1>1, <1>2, FS_RemoveElement
<1> QED BY <1>3, <1>5, <1>6, <1>7

\* The results are added to the records of those who had joined, of a game that is not
\* marked bad (game_report).
LEMMA TalliedLemma ==
    ASSUME NEW s, s.tally \in [User -> Score], NEW g \in Record
    PROVE  /\ Tallied(s, g) \in [User -> Score]
           /\ \A u \in User : Tallied(s, g)[u] # s.tally[u] => ~g.bad /\ EntriesOf(g, u) # {}
<1>1. CASE g.bad
  BY <1>1 DEF Tallied
<1>2. CASE ~g.bad
  <2> DEFINE adds(u, o) == Cardinality({i \in EntriesOf(g, u) : o \in Adds(g, i)})
             sum(u) == [o \in Outcome |-> s.tally[u][g.type][o] + adds(u, o)]
             new(u) == [s.tally[u] EXCEPT ![g.type] = sum(u)]
  <2>1. Tallied(s, g) = [u \in User |-> new(u)]
    BY <1>2 DEF Tallied
  <2>2. g.type \in {"normal", "ladder", "ironman"}
    BY TypeAssumption DEF Record
  <2>3. ASSUME NEW u \in User, NEW o \in Outcome PROVE adds(u, o) \in Nat
    <3>1. IsFiniteSet(DOMAIN g.entries)
      BY HereLemma, FS_Interval
    <3>2. {i \in EntriesOf(g, u) : o \in Adds(g, i)} \in SUBSET DOMAIN g.entries
      BY DEF EntriesOf
    <3> QED BY <3>1, <3>2, FS_Subset, FS_CardinalityType
  <2>4. ASSUME NEW u \in User, EntriesOf(g, u) = {}, NEW o \in Outcome PROVE adds(u, o) = 0
    <3>1. {i \in EntriesOf(g, u) : o \in Adds(g, i)} = {}
      BY <2>4
    <3> QED BY <3>1, FS_EmptySet
  <2>5. ASSUME NEW u \in User
        PROVE  new(u) \in Score /\ (EntriesOf(g, u) = {} => new(u) = s.tally[u])
    <3>1. s.tally[u] \in Score /\ s.tally[u][g.type] \in [Outcome -> Nat]
      BY <2>2 DEF Score
    <3>2. sum(u) \in [Outcome -> Nat]
      <4>1. ASSUME NEW o \in Outcome PROVE s.tally[u][g.type][o] + adds(u, o) \in Nat
        <5>1. s.tally[u][g.type][o] \in Nat
          BY <3>1
        <5>2. adds(u, o) \in Nat
          BY <2>3
        <5> HIDE DEF adds
        <5> QED BY <5>1, <5>2
      <4> HIDE DEF adds
      <4> QED BY <4>1
    <3>3. ASSUME EntriesOf(g, u) = {} PROVE sum(u) = s.tally[u][g.type]
      <4>1. ASSUME NEW o \in Outcome
            PROVE  s.tally[u][g.type][o] + adds(u, o) = s.tally[u][g.type][o]
        <5>1. s.tally[u][g.type][o] \in Nat /\ adds(u, o) = 0
          BY <2>4, <3>1, <3>3
        <5> HIDE DEF adds
        <5> QED BY <5>1
      <4> HIDE DEF adds
      <4> QED BY <3>1, <4>1
    <3> HIDE DEF sum
    <3> QED BY <2>2, <3>1, <3>2, <3>3 DEF Score
  <2> HIDE DEF new
  <2> QED BY <1>2, <2>1, <2>5
<1> QED BY <1>1, <1>2

----------------------------------------------------------------------------
(* The state the handlers work on.                                         *)

Made(gs, i, y, t) == [games |-> gs, ingame |-> i, tally |-> y, total |-> t]
IsLobby(s) == s = Made(s.games, s.ingame, s.tally, s.total)

\* What the handlers change in it.
WithGame(s, n, g) == [s EXCEPT !.games[n] = g]
WithGames(s, gs, t) == [s EXCEPT !.games = gs, !.total = t]
WithPlayer(s, u, x) == [s EXCEPT !.ingame[u] = x]
WithTally(s, y, gs) == [s EXCEPT !.tally = y, !.games = gs]
WithJoined(s, n, g, u) == [s EXCEPT !.games[n] = g, !.ingame[u] = n]

LEMMA MadeLemma ==
    ASSUME NEW s, IsLobby(s)
    PROVE  /\ \A n, g : WithGame(s, n, g) =
                           Made([s.games EXCEPT ![n] = g], s.ingame, s.tally, s.total)
           /\ \A gs, t : WithGames(s, gs, t) = Made(gs, s.ingame, s.tally, t)
           /\ \A u, x : WithPlayer(s, u, x) =
                           Made(s.games, [s.ingame EXCEPT ![u] = x], s.tally, s.total)
           /\ \A y, gs : WithTally(s, y, gs) = Made(gs, s.ingame, y, s.total)
           /\ \A n, g, u : WithJoined(s, n, g, u) =
                              Made([s.games EXCEPT ![n] = g], [s.ingame EXCEPT ![u] = n],
                                   s.tally, s.total)
<1> DEFINE gs == s.games
           i == s.ingame
           y == s.tally
           t == s.total
<1>1. s = Made(gs, i, y, t)
  BY DEF IsLobby
<1> HIDE DEF gs, i, y, t
<1>2. ASSUME NEW n, NEW g PROVE WithGame(s, n, g) = Made([gs EXCEPT ![n] = g], i, y, t)
  BY <1>1 DEF Made, WithGame
<1>3. ASSUME NEW hs, NEW v PROVE WithGames(s, hs, v) = Made(hs, i, y, v)
  <2>1. [s EXCEPT !.games = hs] = Made(hs, i, y, t)
    BY <1>1 DEF Made
  <2>2. [Made(hs, i, y, t) EXCEPT !.total = v] = Made(hs, i, y, v)
    BY DEF Made
  <2>3. WithGames(s, hs, v) = [[s EXCEPT !.games = hs] EXCEPT !.total = v]
    BY DEF WithGames
  <2> QED BY <2>1, <2>2, <2>3
<1>4. ASSUME NEW u, NEW x PROVE WithPlayer(s, u, x) = Made(gs, [i EXCEPT ![u] = x], y, t)
  BY <1>1 DEF Made, WithPlayer
<1>5. ASSUME NEW z, NEW hs PROVE WithTally(s, z, hs) = Made(hs, i, z, t)
  <2>1. [s EXCEPT !.tally = z] = Made(gs, i, z, t)
    BY <1>1 DEF Made
  <2>2. [Made(gs, i, z, t) EXCEPT !.games = hs] = Made(hs, i, z, t)
    BY DEF Made
  <2>3. WithTally(s, z, hs) = [[s EXCEPT !.tally = z] EXCEPT !.games = hs]
    BY DEF WithTally
  <2> QED BY <2>1, <2>2, <2>3
<1>6. ASSUME NEW n, NEW g, NEW u
      PROVE  WithJoined(s, n, g, u) = Made([gs EXCEPT ![n] = g], [i EXCEPT ![u] = n], y, t)
  <2> DEFINE hs == [gs EXCEPT ![n] = g]
  <2>1. [s EXCEPT !.games[n] = g] = Made(hs, i, y, t)
    BY <1>1 DEF Made
  <2>2. [Made(hs, i, y, t) EXCEPT !.ingame[u] = n] = Made(hs, [i EXCEPT ![u] = n], y, t)
    <3> HIDE DEF hs
    <3> QED BY DEF Made
  <2>3. WithJoined(s, n, g, u) = [[s EXCEPT !.games[n] = g] EXCEPT !.ingame[u] = n]
    BY DEF WithJoined
  <2> QED BY <2>1, <2>2, <2>3
<1> QED BY <1>2, <1>3, <1>4, <1>5, <1>6 DEF gs, i, y, t

LEMMA MadeFields ==
    ASSUME NEW gs, NEW i, NEW y, NEW t
    PROVE  /\ Made(gs, i, y, t).games = gs /\ Made(gs, i, y, t).ingame = i
           /\ Made(gs, i, y, t).tally = y /\ Made(gs, i, y, t).total = t
           /\ IsLobby(Made(gs, i, y, t))
BY DEF Made, IsLobby

\* The names and the types, as TypeOK says of the variables.
TypeIn(s) ==
    /\ IsLobby(s)
    /\ DOMAIN s.games \subseteq GameName
    /\ s.ingame \in [User -> DOMAIN s.games \cup {NoGame}]
    /\ s.tally \in [User -> Score]
    /\ s.total \in Nat

\* The connections of the entries of a game are those that point to it, one entry each.
PointsBack(s) ==
    \A n \in DOMAIN s.games :
        /\ \A i \in Here(s.games[n]) : s.ingame[s.games[n].entries[i].who] = n
        /\ \A i, j \in Here(s.games[n]) :
              s.games[n].entries[i].who = s.games[n].entries[j].who => i = j
        /\ \A u \in User : s.ingame[u] = n =>
              \E i \in Here(s.games[n]) : s.games[n].entries[i].who = u

AllHosted(s) == \A n \in DOMAIN s.games : Hosted(s.games[n])

Sound(s) == TypeIn(s) /\ PointsBack(s) /\ AllHosted(s)

\* A player has one entry with a connection, the one game_del_player finds.
LEMMA MineLemma ==
    ASSUME NEW s, Sound(s), NEW u \in User, s.ingame[u] # NoGame
    PROVE  /\ s.ingame[u] \in DOMAIN s.games /\ Hosted(s.games[s.ingame[u]])
           /\ \E k \in Here(s.games[s.ingame[u]]) :
                 /\ EntriesOf(s.games[s.ingame[u]], u) \cap Here(s.games[s.ingame[u]]) = {k}
                 /\ s.games[s.ingame[u]].entries[k].who = u
                 /\ k \in Nat
<1> DEFINE n == s.ingame[u]
           g == s.games[n]
<1>1. n \in DOMAIN s.games /\ Hosted(g)
  BY DEF Sound, TypeIn, AllHosted
<1>2. PICK k \in Here(g) : g.entries[k].who = u
  BY <1>1 DEF Sound, PointsBack
<1>3. Here(g) \subseteq DOMAIN g.entries /\ Here(g) \subseteq Nat
  BY <1>1, HereLemma DEF Hosted
<1>4. \A j \in EntriesOf(g, u) \cap Here(g) : j = k
  BY <1>1, <1>2 DEF Sound, PointsBack, EntriesOf
<1>5. EntriesOf(g, u) \cap Here(g) = {k}
  BY <1>2, <1>3, <1>4 DEF EntriesOf
<1> QED BY <1>1, <1>2, <1>3, <1>5


LEMMA OneEntry ==
    ASSUME NEW s, Sound(s), NEW u \in User, s.ingame[u] # NoGame
    PROVE  Cardinality(EntriesOf(s.games[s.ingame[u]], u) \cap Here(s.games[s.ingame[u]])) = 1
<1>1. PICK k \in Here(s.games[s.ingame[u]]) :
          EntriesOf(s.games[s.ingame[u]], u) \cap Here(s.games[s.ingame[u]]) = {k}
  BY MineLemma
<1> QED BY <1>1, FS_Singleton

\* What leaving does to a game: its last player takes it away and has it counted, another
\* one clears its entry (game_del_player, conn_set_game with no name).
LEMMA LeaveLemma ==
    ASSUME NEW s, Sound(s), NEW u \in User, s.ingame[u] # NoGame
    PROVE  LET n == s.ingame[u]
               g == s.games[n]
               i == [s.ingame EXCEPT ![u] = NoGame]
           IN  \E k \in Here(g) :
                 /\ g.entries[k].who = u
                 /\ Leave(s, u) =
                       IF g.ref = 1
                       THEN Made([m \in DOMAIN s.games \ {n} |-> s.games[m]], i,
                                 Tallied(s, Cleared(g, k)), s.total)
                       ELSE Made([s.games EXCEPT ![n] = ChooseHost(Gone(g, k))], i, s.tally,
                                 s.total)
<1> DEFINE n == s.ingame[u]
           g == s.games[n]
           mine == EntriesOf(g, u) \cap Here(g)
<1>1. n \in DOMAIN s.games /\ Hosted(g)
  BY MineLemma
<1>2. PICK k \in Here(g) : mine = {k} /\ g.entries[k].who = u /\ k \in Nat
  BY MineLemma
<1>3. First(mine) = k /\ mine # {}
  BY <1>2, FirstOfOne
<1>4. g.ref \in Nat \ {0} /\ (g.ref < 2 <=> g.ref = 1)
  BY <1>1, ClearedLemma
<1>5. IsLobby(s)
  BY DEF Sound, TypeIn
<1> DEFINE gs == [m \in DOMAIN s.games \ {n} |-> s.games[m]]
           c == Cleared(g, First(mine))
           h == ChooseHost(Gone(g, First(mine)))
           i == [s.ingame EXCEPT ![u] = NoGame]
<1>6. DelPlayer(s, n, u) = IF mine = {} THEN s
                           ELSE IF g.ref < 2 THEN WithTally(s, Tallied(s, c), gs)
                           ELSE WithGame(s, n, h)
  BY DEF DelPlayer, Cleared, ClearedEntries, Gone, WithTally, WithGame
<1>7. Leave(s, u) = WithPlayer(DelPlayer(s, n, u), u, NoGame)
  BY DEF Leave, WithPlayer
<1>8. CASE g.ref = 1
  <2>1. DelPlayer(s, n, u) = Made(gs, s.ingame, Tallied(s, c), s.total)
    <3> HIDE DEF n, g, mine, gs, c, h
    <3> QED BY <1>3, <1>4, <1>5, <1>6, <1>8, MadeLemma
  <2>2. Leave(s, u) = Made(gs, i, Tallied(s, c), s.total)
    <3> HIDE DEF n, g, mine, gs, c, h
    <3> QED BY <1>7, <2>1, MadeLemma, MadeFields
  <2> QED BY <1>2, <1>3, <1>8, <2>2
<1>9. CASE g.ref # 1
  <2> DEFINE hs == [s.games EXCEPT ![n] = h]
  <2>1. DelPlayer(s, n, u) = Made(hs, s.ingame, s.tally, s.total)
    <3> HIDE DEF n, g, mine, gs, c, h
    <3> QED BY <1>3, <1>4, <1>5, <1>6, <1>9, MadeLemma
  <2>2. Leave(s, u) = Made(hs, i, s.tally, s.total)
    <3> DEFINE d == DelPlayer(s, n, u)
    <3> HIDE DEF n, g, mine, gs, c, h, hs, d
    <3>1. IsLobby(d) /\ d.games = hs /\ d.ingame = s.ingame /\ d.tally = s.tally
          /\ d.total = s.total
      BY <2>1, MadeFields DEF d
    <3>2. WithPlayer(d, u, NoGame) =
              Made(d.games, [d.ingame EXCEPT ![u] = NoGame], d.tally, d.total)
      BY <3>1, MadeLemma
    <3> QED BY <1>7, <3>1, <3>2 DEF d
  <2> QED BY <1>2, <1>3, <1>9, <2>2
<1> QED BY <1>8, <1>9

\* The connections of a game are those of users.
LEMMA EntryUser ==
    ASSUME NEW g, Hosted(g), NEW j \in DOMAIN g.entries
    PROVE  g.entries[j].who \in User
<1>1. g.entries \in Seq(Entry)
  BY DEF Hosted, Record
<1>2. g.entries[j] \in Entry
  BY <1>1
<1> QED BY <1>2 DEF Entry

\* A game that goes on as the same game: its entries keep their players and results.
Kept(g, h) ==
    /\ h.type = g.type /\ h.bad = g.bad
    /\ DOMAIN h.entries = DOMAIN g.entries
    /\ \A i \in DOMAIN g.entries : /\ h.entries[i].who = g.entries[i].who
                                   /\ h.entries[i].result = g.entries[i].result

\* The record of an account changes only when a game it had joined ends, with its last
\* player, unmarked.
Earned(s, s1) ==
    \A v \in User : s1.tally[v] # s.tally[v] =>
        \E n \in DOMAIN s.games \ DOMAIN s1.games :
            EntriesOf(s.games[n], v) # {} /\ s.games[n].ref = 1 /\ ~s.games[n].bad

\* What leaving one's game keeps of the others and of that one.
GoesOn(s, s1, u) ==
    /\ s1.ingame = [s.ingame EXCEPT ![u] = NoGame] /\ s1.total = s.total
    /\ DOMAIN s1.games \subseteq DOMAIN s.games
    /\ \A n \in DOMAIN s.games : n # s.ingame[u] =>
          n \in DOMAIN s1.games /\ s1.games[n] = s.games[n]
    /\ \A n \in DOMAIN s1.games : /\ Kept(s.games[n], s1.games[n])
                                  /\ s.games[n].ref > 0 => s1.games[n].ref > 0

LEMMA LeaveSound ==
    ASSUME NEW s, Sound(s), NEW u \in User
    PROVE  Sound(Leave(s, u)) /\ GoesOn(s, Leave(s, u), u) /\ Earned(s, Leave(s, u))
<1> DEFINE s1 == Leave(s, u)
           n == s.ingame[u]
           g == s.games[n]
           i == [s.ingame EXCEPT ![u] = NoGame]
<1>1. CASE n = NoGame
  <2>1. s1 = s
    BY <1>1 DEF Leave
  <2>2. i = s.ingame
    BY <1>1 DEF Sound, TypeIn
  <2> QED BY <2>1, <2>2 DEF GoesOn, Earned, Kept
<1>2. CASE n # NoGame
  <2> DEFINE gs == [m \in DOMAIN s.games \ {n} |-> s.games[m]]
  <2>1. n \in DOMAIN s.games /\ Hosted(g) /\ g \in Record
    BY <1>2, MineLemma DEF Hosted
  <2>2. PICK k \in Here(g) :
          /\ g.entries[k].who = u
          /\ s1 = IF g.ref = 1
                  THEN Made(gs, i, Tallied(s, Cleared(g, k)), s.total)
                  ELSE Made([s.games EXCEPT ![n] = ChooseHost(Gone(g, k))], i, s.tally, s.total)
    BY <1>2, LeaveLemma
  <2>3. /\ i \in [User -> DOMAIN s.games \cup {NoGame}] /\ i[u] = NoGame
        /\ \A v \in User \ {u} : i[v] = s.ingame[v]
    BY DEF Sound, TypeIn
  <2>4. \A m \in DOMAIN s.games \ {n} : \A j \in Here(s.games[m]) :
            i[s.games[m].entries[j].who] = m
    <3> SUFFICES ASSUME NEW m \in DOMAIN s.games \ {n}, NEW j \in Here(s.games[m])
                 PROVE  i[s.games[m].entries[j].who] = m
      OBVIOUS
    <3>1. Hosted(s.games[m]) /\ s.games[m] \in Record
      BY DEF Sound, AllHosted, Hosted
    <3>2. j \in DOMAIN s.games[m].entries
      BY <3>1, HereLemma
    <3>3. s.games[m].entries[j].who \in User
      BY <3>1, <3>2, EntryUser
    <3>4. s.ingame[s.games[m].entries[j].who] = m
      BY DEF Sound, PointsBack
    <3> QED BY <2>3, <3>3, <3>4
  <2>5. NoGame \notin DOMAIN s.games
    BY NameAssumption DEF Sound, TypeIn
  <2>6. k \in DOMAIN g.entries /\ k \in Nat
    BY <2>1, HereLemma
  <2>7. CASE g.ref = 1
    <3>1. s1 = Made(gs, i, Tallied(s, Cleared(g, k)), s.total)
      BY <2>2, <2>7
    <3>2. /\ s1.games = gs /\ s1.ingame = i /\ s1.total = s.total /\ IsLobby(s1)
          /\ s1.tally = Tallied(s, Cleared(g, k))
      <4> HIDE DEF s1, gs, i, g
      <4> QED BY <3>1, MadeFields
    <3>3. Here(g) = {k}
      <4>1. IsFiniteSet(Here(g)) /\ Cardinality(Here(g)) = 1
        BY <2>1, <2>7, HereLemma DEF Hosted
      <4>2. \E x : Here(g) = {x}
        BY <4>1, FS_Singleton
      <4> QED BY <4>2
    <3>4. \A v \in User \ {u} : i[v] # n
      <4> SUFFICES ASSUME NEW v \in User \ {u}, s.ingame[v] = n PROVE FALSE
        BY <2>3
      <4>1. \E j \in Here(g) : g.entries[j].who = v
        BY <2>1 DEF Sound, PointsBack
      <4> QED BY <2>2, <3>3, <4>1
    <3>5. i \in [User -> DOMAIN gs \cup {NoGame}]
      BY <1>2, <2>3, <3>4
    <3>6. /\ Tallied(s, Cleared(g, k)) \in [User -> Score]
          /\ \A v \in User : Tallied(s, Cleared(g, k))[v] # s.tally[v] =>
                ~g.bad /\ EntriesOf(Cleared(g, k), v) # {}
      <4>1. Cleared(g, k) \in Record /\ Cleared(g, k).bad = g.bad
        BY <2>1, ClearedLemma
      <4>2. s.tally \in [User -> Score]
        BY DEF Sound, TypeIn
      <4> QED BY <4>1, <4>2, TalliedLemma
    <3>7. \A v \in User : EntriesOf(Cleared(g, k), v) = EntriesOf(g, v)
      BY <2>1, <2>6, ClearedLemma, ClearedEntriesLemma DEF EntriesOf
    <3>8. TypeIn(s1)
      BY <3>2, <3>5, <3>6 DEF TypeIn, Sound
    <3>9. PointsBack(s1)
      <4>1. ASSUME NEW m \in DOMAIN gs
            PROVE  /\ \A j \in Here(gs[m]) : i[gs[m].entries[j].who] = m
                   /\ \A j, l \in Here(gs[m]) :
                         gs[m].entries[j].who = gs[m].entries[l].who => j = l
                   /\ \A v \in User : i[v] = m =>
                         \E j \in Here(gs[m]) : gs[m].entries[j].who = v
        <5>1. m \in DOMAIN s.games \ {n} /\ gs[m] = s.games[m]
          OBVIOUS
        <5>2. \A v \in User : i[v] = m => s.ingame[v] = m
          BY <2>3, <2>5, <5>1
        <5>3. /\ \A j, l \in Here(s.games[m]) :
                    s.games[m].entries[j].who = s.games[m].entries[l].who => j = l
              /\ \A v \in User : s.ingame[v] = m =>
                    \E j \in Here(s.games[m]) : s.games[m].entries[j].who = v
          BY <5>1 DEF Sound, PointsBack
        <5>4. \A j \in Here(s.games[m]) : i[s.games[m].entries[j].who] = m
          BY <2>4, <5>1
        <5> HIDE DEF gs, i
        <5> QED BY <5>1, <5>2, <5>3, <5>4
      <4> HIDE DEF gs, i, s1
      <4> QED BY <3>2, <4>1 DEF PointsBack
    <3>10. AllHosted(s1)
      BY <3>2 DEF AllHosted, Sound
    <3>11. GoesOn(s, s1, u)
      BY <3>2 DEF GoesOn, Kept
    <3>12. Earned(s, s1)
      BY <2>1, <2>7, <3>2, <3>6, <3>7 DEF Earned
    <3> QED BY <3>8, <3>9, <3>10, <3>11, <3>12 DEF Sound
  <2>8. CASE g.ref # 1
    <3> DEFINE h == ChooseHost(Gone(g, k))
               hs == [s.games EXCEPT ![n] = h]
    <3>1. /\ s1.games = hs /\ s1.ingame = i /\ s1.total = s.total /\ IsLobby(s1)
          /\ s1.tally = s.tally
      <4>1. s1 = Made(hs, i, s.tally, s.total)
        BY <2>2, <2>8
      <4> HIDE DEF s1, hs, i, g
      <4> QED BY <4>1, MadeFields
    <3>2. /\ Gone(g, k) \in Record /\ Gone(g, k).ref = Cardinality(Here(Gone(g, k)))
          /\ Gone(g, k).entries = ClearedEntries(g, k) /\ Here(Gone(g, k)) = Here(g) \ {k}
          /\ Gone(g, k).ref = g.ref - 1 /\ g.ref \in Nat \ {0}
          /\ Gone(g, k).type = g.type /\ Gone(g, k).bad = g.bad
      BY <2>1, ClearedLemma
    <3>3. /\ Hosted(h) /\ h.entries = ClearedEntries(g, k) /\ h.ref = g.ref - 1
          /\ h.type = g.type /\ h.bad = g.bad
      BY <3>2, ChooseHostLemma
    <3>4. Here(h) = Here(g) \ {k}
      BY <3>2, <3>3 DEF Here
    <3>5. /\ DOMAIN hs = DOMAIN s.games /\ hs[n] = h
          /\ \A m \in DOMAIN s.games \ {n} : hs[m] = s.games[m]
      BY <2>1
    <3>6. /\ DOMAIN h.entries = DOMAIN g.entries
          /\ \A j \in DOMAIN g.entries : /\ h.entries[j].who = g.entries[j].who
                                         /\ h.entries[j].result = g.entries[j].result
      <4> HIDE DEF h, g
      <4> QED BY <2>1, <2>6, <3>3, ClearedEntriesLemma
    <3>7. TypeIn(s1)
      BY <2>3, <3>1, <3>5 DEF TypeIn, Sound
    <3>8. PointsBack(s1)
      <4> HIDE DEF hs, h, i, s1
      <4>1. ASSUME NEW m \in DOMAIN s.games \ {n}
            PROVE  /\ \A j \in Here(hs[m]) : i[hs[m].entries[j].who] = m
                   /\ \A j, l \in Here(hs[m]) :
                         hs[m].entries[j].who = hs[m].entries[l].who => j = l
                   /\ \A v \in User : i[v] = m =>
                         \E j \in Here(hs[m]) : hs[m].entries[j].who = v
        <5>1. \A v \in User : i[v] = m => s.ingame[v] = m
          BY <2>3, <2>5
        <5> QED BY <2>4, <3>5, <5>1 DEF Sound, PointsBack
      <4>2. \A j \in Here(h) : g.entries[j].who \in User \ {u} /\ s.ingame[g.entries[j].who] = n
        <5> SUFFICES ASSUME NEW j \in Here(h)
                     PROVE  g.entries[j].who \in User \ {u} /\ s.ingame[g.entries[j].who] = n
          OBVIOUS
        <5>1. g.entries[j].who \in User /\ s.ingame[g.entries[j].who] = n
          BY <2>1, <3>4, EntryUser, HereLemma DEF Sound, PointsBack
        <5>2. g.entries[j].who # u
          BY <2>1, <2>2, <3>4 DEF Sound, PointsBack
        <5> QED BY <5>1, <5>2
      <4>3. \A j \in Here(h) : h.entries[j].who = g.entries[j].who
        BY <2>1, <3>4, <3>6, HereLemma
      <4>4. \A j \in Here(h) : i[h.entries[j].who] = n
        BY <2>3, <4>2, <4>3
      <4>5. \A j, l \in Here(h) : h.entries[j].who = h.entries[l].who => j = l
        BY <2>1, <3>4, <4>3 DEF Sound, PointsBack
      <4>6. ASSUME NEW v \in User, i[v] = n PROVE \E j \in Here(h) : h.entries[j].who = v
        <5>1. v # u /\ s.ingame[v] = n
          BY <1>2, <2>3, <4>6
        <5>2. PICK j \in Here(g) : g.entries[j].who = v
          BY <2>1, <5>1 DEF Sound, PointsBack
        <5> QED BY <2>2, <3>4, <4>3, <5>1, <5>2
      <4> QED BY <3>1, <3>5, <4>1, <4>4, <4>5, <4>6 DEF PointsBack
    <3>9. AllHosted(s1)
      BY <3>1, <3>3, <3>5 DEF AllHosted, Sound
    <3>10. GoesOn(s, s1, u)
      <4>1. \A m \in DOMAIN hs : Kept(s.games[m], hs[m])
        BY <3>3, <3>5, <3>6 DEF Kept
      <4>2. \A m \in DOMAIN hs : s.games[m].ref > 0 => hs[m].ref > 0
        BY <2>8, <3>2, <3>3, <3>5
      <4> HIDE DEF hs, h
      <4> QED BY <3>1, <3>5, <4>1, <4>2 DEF GoesOn
    <3>11. Earned(s, s1)
      BY <3>1 DEF Earned
    <3> QED BY <3>7, <3>8, <3>9, <3>10, <3>11 DEF Sound
  <2> QED BY <2>7, <2>8
<1> QED BY <1>1, <1>2

\* A game that goes on may get another entry; what its entries had as results stands.
Grown(g, h) ==
    /\ h.type = g.type /\ (~h.bad => ~g.bad)
    /\ \A i \in DOMAIN g.entries :
          /\ i \in DOMAIN h.entries /\ h.entries[i].who = g.entries[i].who
          /\ g.entries[i].result \notin {"none", "playing"} =>
                h.entries[i].result = g.entries[i].result

\* A user in no game joins one (game_add_player).
LEMMA AddPlayerSound ==
    ASSUME NEW s, Sound(s), NEW u \in User, s.ingame[u] = NoGame, NEW n \in DOMAIN s.games
    PROVE  LET s1 == AddPlayer(s, n, u)
           IN  /\ Sound(s1) /\ s1.tally = s.tally /\ s1.total = s.total
               /\ DOMAIN s1.games = DOMAIN s.games
               /\ \A m \in DOMAIN s.games \ {n} : s1.games[m] = s.games[m]
               /\ Grown(s.games[n], s1.games[n]) /\ s1.games[n].ref > 0
<1> DEFINE s1 == AddPlayer(s, n, u)
           g == s.games[n]
           h == ChooseHost(Joined(g, u))
           hs == [s.games EXCEPT ![n] = h]
           i == [s.ingame EXCEPT ![u] = n]
           e == Len(g.entries) + 1
<1>1. Hosted(g) /\ g \in Record
  BY DEF Sound, AllHosted, Hosted
<1>2. s1 = WithJoined(s, n, h, u)
  BY DEF AddPlayer, Joined, WithJoined
<1>3. IsLobby(s)
  BY DEF Sound, TypeIn
<1>4. s1 = Made(hs, i, s.tally, s.total)
  <2> HIDE DEF h, s1
  <2> QED BY <1>2, <1>3, MadeLemma
<1>5. /\ s1.games = hs /\ s1.ingame = i /\ s1.total = s.total /\ s1.tally = s.tally
      /\ IsLobby(s1)
  <2> HIDE DEF s1, hs, i
  <2> QED BY <1>4, MadeFields
<1>6. /\ Joined(g, u) \in Record
      /\ Joined(g, u).ref = Cardinality(Here(Joined(g, u))) /\ Joined(g, u).ref = g.ref + 1
      /\ Joined(g, u).type = g.type /\ Joined(g, u).bad = g.bad
      /\ Here(Joined(g, u)) = Here(g) \cup {e} /\ Joined(g, u).entries[e].who = u
      /\ e \notin DOMAIN g.entries
      /\ \A j \in DOMAIN g.entries :
            j \in DOMAIN Joined(g, u).entries /\ Joined(g, u).entries[j] = g.entries[j]
  BY <1>1, JoinedLemma
<1>7. /\ Hosted(h) /\ h.entries = Joined(g, u).entries /\ h.ref = g.ref + 1
      /\ h.type = g.type /\ h.bad = g.bad
  BY <1>6, ChooseHostLemma
<1>8. /\ Here(h) = Here(g) \cup {e} /\ h.entries[e].who = u
      /\ \A j \in DOMAIN g.entries : j \in DOMAIN h.entries /\ h.entries[j] = g.entries[j]
  BY <1>6, <1>7 DEF Here
<1>9. /\ DOMAIN hs = DOMAIN s.games /\ hs[n] = h
      /\ \A m \in DOMAIN s.games \ {n} : hs[m] = s.games[m]
  OBVIOUS
<1>10. /\ i \in [User -> DOMAIN s.games \cup {NoGame}] /\ i[u] = n
       /\ \A v \in User \ {u} : i[v] = s.ingame[v]
  BY DEF Sound, TypeIn
<1>11. NoGame \notin DOMAIN s.games
  BY NameAssumption DEF Sound, TypeIn
<1>12. TypeIn(s1)
  BY <1>5, <1>9, <1>10 DEF TypeIn, Sound
<1>13. ASSUME NEW m \in DOMAIN s.games, NEW j \in Here(s.games[m])
       PROVE  /\ j \in DOMAIN s.games[m].entries /\ s.games[m].entries[j].who \in User \ {u}
              /\ s.ingame[s.games[m].entries[j].who] = m
  <2>1. Hosted(s.games[m]) /\ s.games[m] \in Record
    BY DEF Sound, AllHosted, Hosted
  <2>2. j \in DOMAIN s.games[m].entries
    BY <2>1, HereLemma
  <2>3. s.games[m].entries[j].who \in User
    BY <2>1, <2>2, EntryUser
  <2>4. s.ingame[s.games[m].entries[j].who] = m
    BY DEF Sound, PointsBack
  <2> QED BY <1>11, <2>2, <2>3, <2>4
<1>14. PointsBack(s1)
  <2>1. ASSUME NEW m \in DOMAIN s.games \ {n}
        PROVE  /\ \A j \in Here(hs[m]) : i[hs[m].entries[j].who] = m
               /\ \A j, l \in Here(hs[m]) :
                     hs[m].entries[j].who = hs[m].entries[l].who => j = l
               /\ \A v \in User : i[v] = m =>
                     \E j \in Here(hs[m]) : hs[m].entries[j].who = v
    <3>1. hs[m] = s.games[m]
      BY <1>9
    <3>2. /\ \A j, l \in Here(s.games[m]) :
                s.games[m].entries[j].who = s.games[m].entries[l].who => j = l
          /\ \A v \in User : s.ingame[v] = m =>
                \E j \in Here(s.games[m]) : s.games[m].entries[j].who = v
      BY DEF Sound, PointsBack
    <3>3. \A v \in User : i[v] = m => s.ingame[v] = m
      BY <1>10
    <3>4. \A j \in Here(s.games[m]) : i[s.games[m].entries[j].who] = m
      BY <1>10, <1>13
    <3> HIDE DEF hs, i
    <3> QED BY <3>1, <3>2, <3>3, <3>4
  <2>2. \A j \in Here(h) : i[h.entries[j].who] = n
    BY <1>8, <1>10, <1>13
  <2>3. \A j, l \in Here(h) : h.entries[j].who = h.entries[l].who => j = l
    <3>1. \A j \in Here(g) : h.entries[j].who # u /\ h.entries[j].who = g.entries[j].who
      BY <1>8, <1>13
    <3>2. \A j, l \in Here(g) : g.entries[j].who = g.entries[l].who => j = l
      BY DEF Sound, PointsBack
    <3> HIDE DEF h, g, e
    <3> QED BY <1>8, <3>1, <3>2
  <2>4. ASSUME NEW v \in User, i[v] = n PROVE \E j \in Here(h) : h.entries[j].who = v
    <3>1. CASE v = u
      BY <1>8, <3>1
    <3>2. CASE v # u
      <4>1. s.ingame[v] = n
        BY <1>10, <2>4, <3>2
      <4>2. PICK j \in Here(g) : g.entries[j].who = v
        BY <4>1 DEF Sound, PointsBack
      <4> QED BY <1>8, <1>13, <4>2
    <3> QED BY <3>1, <3>2
  <2> HIDE DEF hs, h, i, s1
  <2> QED BY <1>5, <1>9, <2>1, <2>2, <2>3, <2>4 DEF PointsBack
<1>15. AllHosted(s1)
  <2> HIDE DEF hs, h, s1
  <2> QED BY <1>5, <1>7, <1>9 DEF AllHosted, Sound
<1>16. Grown(g, h) /\ h.ref > 0
  <2>1. g.ref \in Nat
    BY <1>1 DEF Record
  <2> HIDE DEF h
  <2> QED BY <1>7, <1>8, <2>1 DEF Grown
<1> HIDE DEF hs, h
<1> QED BY <1>5, <1>9, <1>12, <1>14, <1>15, <1>16 DEF Sound

\* A new game has nobody in it (game_create).
WithNew(s, n, t) ==
    WithGames(s, [m \in DOMAIN s.games \cup {n} |-> IF m = n THEN NewGame(t) ELSE s.games[m]],
              s.total + 1)

LEMMA NewGameSound ==
    ASSUME NEW s, Sound(s), NEW n \in GameName, n \notin DOMAIN s.games, NEW t \in GameType
    PROVE  LET s1 == WithNew(s, n, t)
           IN  /\ Sound(s1) /\ s1.tally = s.tally /\ s1.ingame = s.ingame
               /\ DOMAIN s1.games = DOMAIN s.games \cup {n}
               /\ \A m \in DOMAIN s.games : s1.games[m] = s.games[m]
               /\ s1.games[n].type = t
<1> DEFINE s1 == WithNew(s, n, t)
           g == NewGame(t)
           gs == [m \in DOMAIN s.games \cup {n} |-> IF m = n THEN g ELSE s.games[m]]
<1>1. IsLobby(s)
  BY DEF Sound, TypeIn
<1>2. /\ s1.games = gs /\ s1.ingame = s.ingame /\ s1.total = s.total + 1
      /\ s1.tally = s.tally /\ IsLobby(s1)
  <2>1. s1 = Made(gs, s.ingame, s.tally, s.total + 1)
    <3>1. s1 = WithGames(s, gs, s.total + 1)
      BY DEF WithNew
    <3> HIDE DEF gs, s1
    <3> QED BY <1>1, <3>1, MadeLemma
  <2> HIDE DEF gs, s1
  <2> QED BY <2>1, MadeFields
<1>3. Here(g) = {} /\ Hosted(g) /\ g.type = t
  <2>1. g \in Record /\ g.entries = <<>> /\ g.ref = 0 /\ g.type = t
    BY DEF NewGame, Record
  <2>2. Here(g) = {}
    BY <2>1 DEF Here
  <2> QED BY <2>1, <2>2, FS_EmptySet DEF Hosted
<1>4. /\ DOMAIN gs = DOMAIN s.games \cup {n} /\ gs[n] = g
      /\ \A m \in DOMAIN s.games : gs[m] = s.games[m]
  OBVIOUS
<1>5. n # NoGame /\ \A v \in User : s.ingame[v] # n
  BY NameAssumption DEF Sound, TypeIn
<1>6. TypeIn(s1)
  BY <1>2, <1>4 DEF TypeIn, Sound
<1>7. PointsBack(s1)
  <2> HIDE DEF gs, g, s1
  <2> QED BY <1>2, <1>3, <1>4, <1>5 DEF PointsBack, Sound
<1>8. AllHosted(s1)
  <2> HIDE DEF gs, g, s1
  <2> QED BY <1>2, <1>3, <1>4 DEF AllHosted, Sound
<1> HIDE DEF gs, g
<1> QED BY <1>2, <1>3, <1>4, <1>6, <1>7, <1>8 DEF Sound

----------------------------------------------------------------------------
(* The handlers.                                                           *)

\* Results that were settled stand in every game that goes on.
Settles(s, s1) == \A n \in DOMAIN s.games \cap DOMAIN s1.games : Grown(s.games[n], s1.games[n])

HavePlayers(s) == \A n \in DOMAIN s.games : s.games[n].type # "ladder" => s.games[n].ref > 0

\* What each handler keeps.
Proper(s, s1) == Sound(s1) /\ HavePlayers(s1) /\ Settles(s, s1) /\ Earned(s, s1)

LEMMA LeaveProper ==
    ASSUME NEW s, Sound(s), HavePlayers(s), NEW u \in User
    PROVE  Proper(s, Leave(s, u))
<1> DEFINE s1 == Leave(s, u)
<1>1. Sound(s1) /\ GoesOn(s, s1, u) /\ Earned(s, s1)
  BY LeaveSound
<1> HIDE DEF s1
<1>2. HavePlayers(s1)
  BY <1>1 DEF GoesOn, Kept, HavePlayers
<1>3. Settles(s, s1)
  BY <1>1 DEF GoesOn, Kept, Settles, Grown
<1> QED BY <1>1, <1>2, <1>3 DEF Proper, s1

LEMMA SetGameProper ==
    ASSUME NEW s, Sound(s), HavePlayers(s), NEW u \in User, NEW n \in GameName,
           NEW t \in GameType, NEW right \in BOOLEAN
    PROVE  Proper(s, SetGame(s, u, n, t, right))
<1> DEFINE s1   == Leave(s, u)
           made == n \notin DOMAIN s1.games
           s2   == IF made THEN WithNew(s1, n, t) ELSE s1
           s3   == AddPlayer(s2, n, u)
<1>1. SetGame(s, u, n, t, right) =
          IF s.ingame[u] = n THEN s
          ELSE IF s2.games[n].type # t THEN s1
          ELSE IF Refused(s2, n, u, made \/ right) THEN s2
          ELSE s3
  BY DEF SetGame, WithNew, WithGames
<1>2. Proper(s, s)
  BY DEF Proper, Settles, Grown, Earned
<1>3. Sound(s1) /\ GoesOn(s, s1, u) /\ Earned(s, s1) /\ Proper(s, s1)
  BY LeaveSound, LeaveProper
<1>4. ASSUME s.ingame[u] # n
      PROVE  n \in DOMAIN s.games <=> n \in DOMAIN s1.games
  <2> HIDE DEF s1
  <2> QED BY <1>3, <1>4 DEF GoesOn
<1>5. ASSUME s.ingame[u] # n
      PROVE  /\ Sound(s2) /\ s2.tally = s1.tally /\ s2.ingame = s1.ingame
             /\ n \in DOMAIN s2.games /\ DOMAIN s2.games = DOMAIN s1.games \cup {n}
             /\ \A m \in DOMAIN s1.games : s2.games[m] = s1.games[m]
             /\ made => s2.games[n].type = t
  <2>1. CASE made
    <3> HIDE DEF s1
    <3> QED BY <1>3, <2>1, NewGameSound
  <2>2. CASE ~made
    <3> HIDE DEF s1
    <3> QED BY <1>3, <2>2
  <2> QED BY <2>1, <2>2
<1>6. ASSUME NEW z, Sound(z), s.ingame[u] # n, z.tally = s1.tally,
             DOMAIN z.games = DOMAIN s1.games \cup {n},
             \A m \in DOMAIN s1.games : Grown(s1.games[m], z.games[m])
      PROVE  Settles(s, z) /\ Earned(s, z)
  <2> HIDE DEF s1
  <2>1. \A m \in DOMAIN s.games \cap DOMAIN z.games : m \in DOMAIN s1.games
    BY <1>4, <1>6
  <2>2. Settles(s, s1)
    BY <1>3 DEF Proper
  <2>3. Settles(s, z)
    <3> SUFFICES ASSUME NEW m \in DOMAIN s.games \cap DOMAIN z.games
                 PROVE  Grown(s.games[m], z.games[m])
      BY DEF Settles
    <3>1. Grown(s.games[m], s1.games[m]) /\ Grown(s1.games[m], z.games[m])
      BY <1>6, <2>1, <2>2 DEF Settles
    <3> QED BY <3>1 DEF Grown
  <2>4. DOMAIN s.games \ DOMAIN s1.games \subseteq DOMAIN s.games \ DOMAIN z.games
    BY <1>4, <1>6
  <2>5. Earned(s, z)
    BY <1>3, <1>6, <2>4 DEF Earned
  <2> QED BY <2>3, <2>5
<1>7. CASE s.ingame[u] # n /\ s2.games[n].type = t /\ Refused(s2, n, u, made \/ right)
  <2>1. HavePlayers(s2)
    <3>1. made => s2.games[n].type = "ladder"
      BY <1>7 DEF Refused
    <3>2. HavePlayers(s1)
      BY <1>3 DEF Proper
    <3> HIDE DEF s2, s1
    <3> QED BY <1>5, <1>7, <3>1, <3>2 DEF HavePlayers
  <2>2. \A m \in DOMAIN s1.games : Grown(s1.games[m], s2.games[m])
    BY <1>5, <1>7 DEF Grown
  <2>3. Settles(s, s2) /\ Earned(s, s2)
    <3> HIDE DEF s1, s2
    <3> QED BY <1>5, <1>6, <1>7, <2>2
  <2> QED BY <1>1, <1>5, <1>7, <2>1, <2>3 DEF Proper
<1>8. CASE s.ingame[u] # n /\ s2.games[n].type = t /\ ~Refused(s2, n, u, made \/ right)
  <2>1. s1.ingame[u] = NoGame
    BY <1>3 DEF GoesOn, Sound, TypeIn
  <2>2. /\ Sound(s3) /\ s3.tally = s2.tally
        /\ DOMAIN s3.games = DOMAIN s2.games
        /\ \A m \in DOMAIN s2.games \ {n} : s3.games[m] = s2.games[m]
        /\ Grown(s2.games[n], s3.games[n]) /\ s3.games[n].ref > 0
    <3> HIDE DEF s2, s1
    <3> QED BY <1>5, <1>8, <2>1, AddPlayerSound
  <2>3. HavePlayers(s3)
    <3>1. HavePlayers(s1)
      BY <1>3 DEF Proper
    <3> HIDE DEF s2, s1, s3
    <3> QED BY <1>5, <1>8, <2>2, <3>1 DEF HavePlayers
  <2>4. \A m \in DOMAIN s1.games : Grown(s1.games[m], s3.games[m])
    <3> SUFFICES ASSUME NEW m \in DOMAIN s1.games PROVE Grown(s1.games[m], s3.games[m])
      OBVIOUS
    <3>1. s2.games[m] = s1.games[m] /\ m \in DOMAIN s2.games
      BY <1>5, <1>8
    <3>2. CASE m = n
      BY <2>2, <3>1, <3>2
    <3>3. CASE m # n
      <4>1. s3.games[m] = s1.games[m]
        BY <2>2, <3>1, <3>3
      <4> QED BY <4>1 DEF Grown
    <3> QED BY <3>2, <3>3
  <2>5. Settles(s, s3) /\ Earned(s, s3)
    <3> HIDE DEF s1, s2, s3
    <3> QED BY <1>5, <1>6, <1>8, <2>2, <2>4
  <2> QED BY <1>1, <1>8, <2>2, <2>3, <2>5 DEF Proper
<1> QED BY <1>1, <1>2, <1>3, <1>7, <1>8

\* The claims set results, of entries of which nothing else is known, and mark the game
\* (game_check_result, game_set_result).
LEMMA CheckResultsLemma ==
    ASSUME NEW g, Hosted(g), NEW D \in SUBSET User, NEW claim \in [D -> Claim]
    PROVE  LET h == CheckResults(g, claim)
           IN  /\ Hosted(h) /\ Grown(g, h) /\ Here(h) = Here(g) /\ h.ref = g.ref
               /\ DOMAIN h.entries = DOMAIN g.entries
               /\ \A i \in DOMAIN g.entries : h.entries[i].who = g.entries[i].who
<1> DEFINE Said(i) == LET u == g.entries[i].who
                      IN  /\ u \in D
                          /\ i = Last(EntriesOf(g, u))
                          /\ Agrees(g, u, claim[u])
           x == [i \in DOMAIN g.entries |->
                    IF Said(i) THEN [g.entries[i] EXCEPT !.result = claim[g.entries[i].who]]
                    ELSE g.entries[i]]
           b == g.bad \/ \E u \in D : ~Agrees(g, u, claim[u])
           h == CheckResults(g, claim)
           n == Len(g.entries)
<1>1. g \in Record /\ g.entries \in Seq(Entry) /\ g.bad \in BOOLEAN
  BY DEF Hosted, Record
<1>2. n \in Nat /\ DOMAIN g.entries = 1..n
  BY <1>1
<1>3. ASSUME NEW i \in 1..n
      PROVE  /\ x[i] \in Entry /\ x[i].who = g.entries[i].who
             /\ x[i].here <=> g.entries[i].here
             /\ g.entries[i].result \notin {"none", "playing"} =>
                   x[i].result = g.entries[i].result
  <2>1. g.entries[i] \in Entry
    BY <1>1
  <2>2. x[i] = IF Said(i) THEN [g.entries[i] EXCEPT !.result = claim[g.entries[i].who]]
               ELSE g.entries[i]
    BY <1>2
  <2>3. CASE Said(i)
    <3>1. claim[g.entries[i].who] \in Result
      BY <2>3, TypeAssumption
    <3>2. g.entries[i].result \in {claim[g.entries[i].who], "none", "playing"}
      BY <2>3 DEF Agrees
    <3> HIDE DEF Said
    <3> QED BY <2>1, <2>2, <2>3, <3>1, <3>2 DEF Entry
  <2>4. CASE ~Said(i)
    <3> HIDE DEF Said
    <3> QED BY <2>1, <2>2, <2>4
  <2> QED BY <2>3, <2>4
<1>4. x \in Seq(Entry) /\ DOMAIN x = 1..n
  <2>1. x = [i \in 1..n |-> x[i]]
    BY <1>2
  <2>2. x \in [1..n -> Entry]
    <3> HIDE DEF x, n
    <3> QED BY <1>3, <2>1
  <2> HIDE DEF x, n
  <2> QED BY <1>2, <2>2
<1>5. h = [g EXCEPT !.bad = b, !.entries = x]
  BY DEF CheckResults
<1>6. /\ h \in Record /\ h.entries = x /\ h.bad = b /\ h.type = g.type /\ h.ref = g.ref
      /\ h.owner = g.owner
  <2>1. b \in BOOLEAN
    OBVIOUS
  <2> HIDE DEF x, b, h
  <2> QED BY <1>1, <1>4, <1>5, <2>1 DEF Record
<1>7. Here(h) = Here(g)
  <2> HIDE DEF x, h
  <2> QED BY <1>2, <1>3, <1>4, <1>6 DEF Here
<1>8. Hosted(h)
  <2>1. \A i \in Here(g) : h.entries[i].who = g.entries[i].who
    <3> HIDE DEF x, h
    <3> QED BY <1>2, <1>3, <1>6 DEF Here
  <2>2. ASSUME g.ref > 0 PROVE First(Here(g)) \in Here(g)
    <3>1. Here(g) \in SUBSET Nat /\ Here(g) # {}
      BY <1>1, <2>2, HereLemma DEF Hosted
    <3> QED BY <3>1, FirstLemma
  <2> HIDE DEF x, h
  <2> QED BY <1>6, <1>7, <2>1, <2>2 DEF Hosted
<1>9. ~h.bad => ~g.bad
  BY <1>6
<1>10. /\ DOMAIN h.entries = DOMAIN g.entries
       /\ \A i \in DOMAIN g.entries :
             /\ h.entries[i].who = g.entries[i].who
             /\ g.entries[i].result \notin {"none", "playing"} =>
                   h.entries[i].result = g.entries[i].result
  <2> HIDE DEF x, h
  <2> QED BY <1>2, <1>3, <1>4, <1>6
<1> HIDE DEF h
<1> QED BY <1>6, <1>7, <1>8, <1>9, <1>10 DEF Grown, h

\* A report sets what it claims and takes the reporter out (CLIENT_GAME_REPORT).
Reported(s, n, claim) == WithGame(s, n, CheckResults(s.games[n], claim))

LEMMA ReportProper ==
    ASSUME NEW s, Sound(s), HavePlayers(s), NEW u \in User, s.ingame[u] # NoGame,
           NEW D \in SUBSET User, NEW claim \in [D -> Claim]
    PROVE  Proper(s, Leave(Reported(s, s.ingame[u], claim), u))
<1> DEFINE n == s.ingame[u]
           g == s.games[n]
           h == CheckResults(g, claim)
           hs == [s.games EXCEPT ![n] = h]
           s0 == Reported(s, n, claim)
           s1 == Leave(s0, u)
<1>1. n \in DOMAIN s.games /\ Hosted(g)
  BY MineLemma
<1>2. /\ Hosted(h) /\ Grown(g, h) /\ Here(h) = Here(g) /\ h.ref = g.ref
      /\ DOMAIN h.entries = DOMAIN g.entries
      /\ \A i \in DOMAIN g.entries : h.entries[i].who = g.entries[i].who
  <2> HIDE DEF g
  <2> QED BY <1>1, CheckResultsLemma
<1>3. IsLobby(s)
  BY DEF Sound, TypeIn
<1>4. /\ s0.games = hs /\ s0.ingame = s.ingame /\ s0.tally = s.tally /\ s0.total = s.total
      /\ IsLobby(s0)
  <2>1. s0 = Made(hs, s.ingame, s.tally, s.total)
    <3>1. s0 = WithGame(s, n, h)
      BY DEF Reported
    <3> HIDE DEF h, s0, n
    <3> QED BY <1>3, <3>1, MadeLemma
  <2> HIDE DEF hs, s0
  <2> QED BY <2>1, MadeFields
<1>5. /\ DOMAIN hs = DOMAIN s.games /\ hs[n] = h
      /\ \A m \in DOMAIN s.games \ {n} : hs[m] = s.games[m]
  BY <1>1
<1>6. \A m \in DOMAIN s.games :
          /\ Hosted(hs[m]) /\ Grown(s.games[m], hs[m]) /\ Here(hs[m]) = Here(s.games[m])
          /\ hs[m].ref = s.games[m].ref
          /\ DOMAIN hs[m].entries = DOMAIN s.games[m].entries
          /\ \A i \in DOMAIN s.games[m].entries :
                hs[m].entries[i].who = s.games[m].entries[i].who
  <2> SUFFICES ASSUME NEW m \in DOMAIN s.games
               PROVE  /\ Hosted(hs[m]) /\ Grown(s.games[m], hs[m])
                      /\ Here(hs[m]) = Here(s.games[m]) /\ hs[m].ref = s.games[m].ref
                      /\ DOMAIN hs[m].entries = DOMAIN s.games[m].entries
                      /\ \A i \in DOMAIN s.games[m].entries :
                            hs[m].entries[i].who = s.games[m].entries[i].who
    OBVIOUS
  <2>1. CASE m = n
    <3> HIDE DEF h, hs
    <3> QED BY <1>2, <1>5, <2>1
  <2>2. CASE m # n
    <3>1. hs[m] = s.games[m] /\ Hosted(s.games[m])
      BY <1>5, <2>2 DEF Sound, AllHosted
    <3> HIDE DEF h, hs
    <3> QED BY <3>1 DEF Grown
  <2> QED BY <2>1, <2>2
<1>7. Sound(s0)
  <2> HIDE DEF hs, s0
  <2>1. TypeIn(s0)
    BY <1>4, <1>5 DEF TypeIn, Sound
  <2>2. AllHosted(s0)
    BY <1>4, <1>5, <1>6 DEF AllHosted
  <2>3. PointsBack(s0)
    <3> SUFFICES ASSUME NEW m \in DOMAIN s.games
                 PROVE  /\ \A i \in Here(hs[m]) : s.ingame[hs[m].entries[i].who] = m
                        /\ \A i, j \in Here(hs[m]) :
                              hs[m].entries[i].who = hs[m].entries[j].who => i = j
                        /\ \A v \in User : s.ingame[v] = m =>
                              \E i \in Here(hs[m]) : hs[m].entries[i].who = v
      BY <1>4, <1>5 DEF PointsBack
    <3>1. \A i \in Here(s.games[m]) : hs[m].entries[i].who = s.games[m].entries[i].who
      BY <1>6 DEF Here
    <3>2. Here(hs[m]) = Here(s.games[m])
      BY <1>6
    <3> QED BY <3>1, <3>2 DEF Sound, PointsBack
  <2> QED BY <2>1, <2>2, <2>3 DEF Sound
<1>8. HavePlayers(s0)
  <2> HIDE DEF hs, s0
  <2> QED BY <1>4, <1>5, <1>6 DEF HavePlayers, Grown
<1>9. Proper(s0, s1)
  <2> HIDE DEF s0
  <2> QED BY <1>7, <1>8, LeaveProper
<1>10. Settles(s, s1)
  <2> HIDE DEF s0, s1, hs
  <2> SUFFICES ASSUME NEW m \in DOMAIN s.games \cap DOMAIN s1.games
               PROVE  Grown(s.games[m], s1.games[m])
    BY DEF Settles
  <2>1. Grown(s.games[m], hs[m])
    BY <1>6
  <2>2. Grown(hs[m], s1.games[m])
    BY <1>4, <1>5, <1>9 DEF Proper, Settles
  <2> QED BY <2>1, <2>2 DEF Grown
<1>11. Earned(s, s1)
  <2> HIDE DEF s0, s1, hs
  <2> SUFFICES ASSUME NEW v \in User, s1.tally[v] # s.tally[v]
               PROVE  \E m \in DOMAIN s.games \ DOMAIN s1.games :
                         /\ EntriesOf(s.games[m], v) # {}
                         /\ s.games[m].ref = 1 /\ ~s.games[m].bad
    BY DEF Earned
  <2>1. PICK m \in DOMAIN s.games \ DOMAIN s1.games :
            EntriesOf(hs[m], v) # {} /\ hs[m].ref = 1 /\ ~hs[m].bad
    BY <1>4, <1>5, <1>9 DEF Proper, Earned
  <2>2. EntriesOf(hs[m], v) = EntriesOf(s.games[m], v)
    BY <1>6 DEF EntriesOf
  <2>3. s.games[m].ref = 1 /\ ~s.games[m].bad
    BY <1>6, <2>1 DEF Grown
  <2> QED BY <2>1, <2>2, <2>3
<1> QED BY <1>9, <1>10, <1>11 DEF Proper

----------------------------------------------------------------------------
(* The steps.                                                              *)

IInv == Sound(Lobby) /\ HavePlayers(Lobby)

LEMMA LobbyFields ==
    /\ Lobby.games = games /\ Lobby.ingame = ingame /\ Lobby.tally = tally
    /\ Lobby.total = total /\ IsLobby(Lobby)
BY DEF Lobby, IsLobby, Made

LEMMA InitIInv == Init => IInv
<1> SUFFICES ASSUME Init PROVE IInv
  OBVIOUS
<1>1. DOMAIN games = {}
  BY DEF Init
<1>2. tally \in [User -> Score] /\ total \in Nat
  BY DEF Init, Score
<1>3. ingame \in [User -> {NoGame}]
  BY DEF Init
<1> QED BY <1>1, <1>2, <1>3, LobbyFields DEF IInv, Sound, TypeIn, PointsBack, AllHosted, HavePlayers

\* A handler's step leads from the state it finds to the one it returns.
LEMMA StepProper ==
    ASSUME IInv, [Next]_vars
    PROVE  Proper(Lobby, Lobby')
<1>1. ASSUME NEW z, Proper(Lobby, z), Become(z) PROVE Proper(Lobby, Lobby')
  <2>1. z = Lobby'
    <3>1. z = Made(z.games, z.ingame, z.tally, z.total)
      BY <1>1 DEF Proper, Sound, TypeIn, IsLobby
    <3> QED BY <1>1, <3>1 DEF Become, Lobby, Made
  <2> QED BY <1>1, <2>1
<1>2. ASSUME NEW u \in User, NEW n \in GameName, NEW right \in BOOLEAN, JoinGame(u, n, right)
      PROVE  Proper(Lobby, Lobby')
  <2>1. n \in DOMAIN games /\ Become(SetGame(Lobby, u, n, games[n].type, right))
    BY <1>2 DEF JoinGame
  <2>2. games[n].type \in GameType
    BY <2>1, LobbyFields DEF IInv, Sound, AllHosted, Hosted, Record
  <2> QED BY <1>1, <2>1, <2>2, SetGameProper DEF IInv
<1>3. ASSUME NEW u \in User, NEW n \in GameName, NEW right \in BOOLEAN, NEW t \in GameType,
             StartGame(u, n, t, right)
      PROVE  Proper(Lobby, Lobby')
  <2>1. Become(SetGame(Lobby, u, n, t, right))
    BY <1>3 DEF StartGame
  <2> QED BY <1>1, <2>1, SetGameProper DEF IInv
<1>4. ASSUME NEW u \in User, CloseGame(u) PROVE Proper(Lobby, Lobby')
  <2>1. Become(Leave(Lobby, u))
    BY <1>4 DEF CloseGame
  <2> QED BY <1>1, <2>1, LeaveProper DEF IInv
<1>5. ASSUME NEW u \in User, NEW about \in SUBSET User, NEW whole \in BOOLEAN,
             NEW claim \in [about -> Claim], GameReport(u, claim, whole)
      PROVE  Proper(Lobby, Lobby')
  <2> DEFINE own == IF u \in DOMAIN claim /\ whole /\ claim[u] # "playing" THEN {} ELSE {u}
             D == DOMAIN claim \ own
             used == [v \in D |-> claim[v]]
  <2>1. Become(Leave(Reported(Lobby, ingame[u], used), u)) /\ ingame[u] # NoGame
    BY <1>5 DEF GameReport, Reported, WithGame
  <2>2. D \in SUBSET User /\ used \in [D -> Claim]
    OBVIOUS
  <2> HIDE DEF used, D
  <2> QED BY <1>1, <2>1, <2>2, ReportProper, LobbyFields DEF IInv
<1>6. CASE UNCHANGED vars
  <2>1. Lobby' = Lobby
    BY <1>6 DEF vars, Lobby
  <2>2. Proper(Lobby, Lobby)
    BY DEF IInv, Proper, Settles, Grown, Earned
  <2> QED BY <2>1, <2>2
<1> QED BY <1>2, <1>3, <1>4, <1>5, <1>6 DEF Next

LEMMA Invariance == Spec => []IInv
<1>1. IInv /\ [Next]_vars => IInv'
  BY StepProper DEF IInv, Proper
<1> QED BY InitIInv, <1>1, PTL DEF Spec

----------------------------------------------------------------------------
\* Whoever comes, goes, comes back and reports in any order: a connection points to a game
\* exactly when one entry of it points back, its count is right and its host is the first who
\* is there, and nothing but a refused ladder game is left without a player (game_add_player,
\* game_del_player, conn_set_game).
THEOREM StaysSound == Spec => []GamesSound
<1>1. IInv => GamesSound
  <2> SUFFICES ASSUME IInv PROVE GamesSound
    OBVIOUS
  <2>1. \A n \in DOMAIN games : Hosted(games[n])
    BY LobbyFields DEF IInv, Sound, AllHosted
  <2>2. TypeOK
    BY <2>1, LobbyFields DEF IInv, Sound, TypeIn, TypeOK, Hosted
  <2>3. EntriesPointBack
    <3> SUFFICES ASSUME NEW n \in DOMAIN games
                 PROVE  /\ \A i \in Here(games[n]) : ingame[games[n].entries[i].who] = n
                        /\ \A u \in User : ingame[u] = n =>
                              Cardinality(EntriesOf(games[n], u) \cap Here(games[n])) = 1
      BY DEF EntriesPointBack
    <3>1. \A i \in Here(games[n]) : ingame[games[n].entries[i].who] = n
      BY LobbyFields DEF IInv, Sound, PointsBack
    <3>2. ASSUME NEW u \in User, ingame[u] = n
          PROVE  Cardinality(EntriesOf(games[n], u) \cap Here(games[n])) = 1
      <4>1. n # NoGame
        BY NameAssumption, <2>2 DEF TypeOK
      <4>2. Sound(Lobby) /\ Lobby.ingame[u] # NoGame
        BY <3>2, <4>1, LobbyFields DEF IInv
      <4>3. Cardinality(EntriesOf(Lobby.games[Lobby.ingame[u]], u)
                          \cap Here(Lobby.games[Lobby.ingame[u]])) = 1
        BY <4>2, OneEntry
      <4> QED BY <3>2, <4>3, LobbyFields
    <3> QED BY <3>1, <3>2
  <2>4. RefAndHost
    BY <2>1 DEF Hosted, RefAndHost
  <2>5. GamesHavePlayers
    BY LobbyFields DEF IInv, HavePlayers, GamesHavePlayers
  <2> QED BY <2>2, <2>3, <2>4, <2>5 DEF GamesSound
<1> QED BY <1>1, Invariance, PTL

\* A result, once settled, is never replaced by a later claim, of whomever: claims that
\* contradict it can only mark the game (game_check_result).
THEOREM ResultStands == Spec => SettledStands
<1>1. ASSUME IInv, [Next]_vars
      PROVE  \A n \in DOMAIN games \cap DOMAIN games' : \A i \in DOMAIN games[n].entries :
                games[n].entries[i].result \notin {"none", "playing"} =>
                   games'[n].entries[i].result = games[n].entries[i].result
  <2>1. Settles(Lobby, Lobby')
    BY <1>1, StepProper DEF Proper
  <2>2. Lobby'.games = games' /\ Lobby.games = games
    BY DEF Lobby
  <2> QED BY <2>1, <2>2 DEF Settles, Grown
<1>2. IInv /\ [Next]_vars =>
        [\A n \in DOMAIN games \cap DOMAIN games' : \A i \in DOMAIN games[n].entries :
            games[n].entries[i].result \notin {"none", "playing"} =>
               games'[n].entries[i].result = games[n].entries[i].result]_vars
  BY <1>1
<1> QED BY <1>2, Invariance, PTL DEF Spec, SettledStands

\* The record of an account changes only when the last player of a game that is not marked
\* leaves it, and the account had joined that game (game_report in game_destroy).
THEOREM CountedOnlyThen == Spec => CountedAtTheEnd
<1>1. ASSUME IInv, [Next]_vars
      PROVE  \A u \in User : tally'[u] # tally[u] =>
                \E n \in DOMAIN games \ DOMAIN games' :
                   EntriesOf(games[n], u) # {} /\ games[n].ref = 1 /\ ~games[n].bad
  <2>1. Earned(Lobby, Lobby')
    BY <1>1, StepProper DEF Proper
  <2>2. /\ Lobby'.games = games' /\ Lobby.games = games
        /\ Lobby'.tally = tally' /\ Lobby.tally = tally
    BY DEF Lobby
  <2> QED BY <2>1, <2>2 DEF Earned
<1>2. IInv /\ [Next]_vars =>
        [\A u \in User : tally'[u] # tally[u] =>
            \E n \in DOMAIN games \ DOMAIN games' :
               EntriesOf(games[n], u) # {} /\ games[n].ref = 1 /\ ~games[n].bad]_vars
  BY <1>1
<1> QED BY <1>2, Invariance, PTL DEF Spec, CountedAtTheEnd
=============================================================================
