-------------------------------- MODULE MCBits --------------------------------
(* The cluster of bnetd servers (BITS): the sessions, the accounts and the    *)
(* games of a chain of three servers, and the queries of one of them, part    *)
(* beside part: a behaviour is one of the part it starts with.                *)
EXTENDS BitsLogins, TLC
CONSTANTS m0, s1, s2, a, b, n1, n2
CONSTANT Parts   \* the parts this run looks at

MCUp == (s1 :> m0) @@ (s2 :> s1)
MCOn == (a :> m0) @@ (b :> s1) @@ (n1 :> s2)
MCFits == {a, b} \X {n1, n2} \ {<<b, n2>>}

VARIABLES
    part,   \* the part that runs
    acctState, acctLoaded, acctAttr, acctLocklist, acctQuery, acctNextQid, acctChanges, acctWire,
    acctFresh, acctForgotten, acctCrossed,
    gamesOn, gamesJoined, gamesWire, gamesLists, gamesGames, gamesKnown, gamesCount, gamesClient,
    askedQueries, askedState, askedStatus, askedOwed, askedAt, askedProcessed

\* One account that two servers change; two accounts of which one does not exist; and two that
\* do, so that the lists have two entries.
Changes == INSTANCE BitsAccounts WITH
        Account <- {a}, Stored <- {a}, Writer <- {m0, s2}, Expiring <- {s2},
        NoServer <- NoAccount, MaxQuery <- 2, MaxChange <- 2, state <- acctState, loaded <- acctLoaded,
        attr <- acctAttr, locklist <- acctLocklist, query <- acctQuery, nextQid <- acctNextQid,
        changes <- acctChanges, wire <- acctWire, fresh <- acctFresh,
        forgotten <- acctForgotten, crossed <- acctCrossed
Locks == INSTANCE BitsAccounts WITH
        Account <- {a, b}, Stored <- {a}, Writer <- {}, Expiring <- {s1, s2},
        NoServer <- NoAccount, MaxQuery <- 2, MaxChange <- 0, state <- acctState, loaded <- acctLoaded,
        attr <- acctAttr, locklist <- acctLocklist, query <- acctQuery, nextQid <- acctNextQid,
        changes <- acctChanges, wire <- acctWire, fresh <- acctFresh,
        forgotten <- acctForgotten, crossed <- acctCrossed
Lists == INSTANCE BitsAccounts WITH
        Account <- {a, b}, Stored <- {a, b}, Writer <- {}, Expiring <- {s2}, MayTimeOut <- FALSE,
        NoServer <- NoAccount, MaxQuery <- 2, MaxChange <- 0, state <- acctState, loaded <- acctLoaded,
        attr <- acctAttr, locklist <- acctLocklist, query <- acctQuery, nextQid <- acctNextQid,
        changes <- acctChanges, wire <- acctWire, fresh <- acctFresh,
        forgotten <- acctForgotten, crossed <- acctCrossed
Games == INSTANCE BitsGames WITH
        Client <- {a, b}, Places <- {m0, s2}, Name <- {n1, n2}, Fits <- MCFits, Patient <- TRUE,
        MaxGame <- 2, MaxWire <- 1, on <- gamesOn, joined <- gamesJoined, wire <- gamesWire,
        lists <- gamesLists, games <- gamesGames, known <- gamesKnown, count <- gamesCount,
        client <- gamesClient
Asked == INSTANCE Queries WITH
        Client <- {a}, Bot <- {b}, Peer <- {n1}, Account <- {n2}, Ttl <- 1, MaxReplies <- 0,
        queries <- askedQueries, state <- askedState, status <- askedStatus, owed <- askedOwed,
        at <- askedAt, processed <- askedProcessed

acctVars == <<acctState, acctLoaded, acctAttr, acctLocklist, acctQuery, acctNextQid, acctChanges,
    acctWire, acctFresh, acctForgotten, acctCrossed>>
gamesVars == <<gamesOn, gamesJoined, gamesWire, gamesLists, gamesGames, gamesKnown, gamesCount,
    gamesClient>>
askedVars == <<askedQueries, askedState, askedStatus, askedOwed, askedAt, askedProcessed>>

Start ==
    /\ part \in Parts
    /\ Init /\ Games!Init /\ Asked!Init
    /\ CASE part = "locks" -> Locks!Init [] part = "lists" -> Lists!Init [] OTHER -> Changes!Init
    /\ part # "games" => gamesOn = [c \in {a, b} |-> m0]

Step ==
    \/ part = "logins" /\ Next /\ UNCHANGED <<part, acctVars, gamesVars, askedVars>>
    \/ part = "changes" /\ Changes!Next /\ UNCHANGED <<part, vars, gamesVars, askedVars>>
    \/ part = "locks" /\ Locks!Next /\ UNCHANGED <<part, vars, gamesVars, askedVars>>
    \/ part = "lists" /\ Lists!Next /\ UNCHANGED <<part, vars, gamesVars, askedVars>>
    \/ part = "games" /\ Games!Next /\ UNCHANGED <<part, vars, acctVars, askedVars>>
    \/ part = "queries" /\ Asked!Next /\ UNCHANGED <<part, vars, acctVars, gamesVars>>

everything == <<part, vars, acctVars, gamesVars, askedVars>>

\* The fairness of each part, in the behaviours that are its own.
Own(tag, Act) == part = tag /\ Act
Fair ==
    /\ WF_acctVars(Own("locks", \E s \in {s1, s2}, c \in {a, b} : Locks!Expire(s, c)))
    /\ WF_acctVars(Own("locks", \E q \in acctQuery : Locks!QueryTimesOut(q)))
    /\ WF_askedVars(Own("queries", Asked!Tick)) /\ WF_askedVars(Own("queries", Asked!Second))
SafeSpec == Start /\ [][Step]_everything
SumSpec == SafeSpec /\ Fair

------------------------------------------------------------------------------
\* BitsLogins: one client of the cluster to an account, its session on the master's list, and
\* every list the master's when nothing is under way.  BitsAccounts: locked accounts are listed
\* all the way to the master, and loaded copies have its attributes when nothing is under way.
\* BitsGames: the same of the lists of games, and a client is in one of them at most.
ClusterAgrees ==
    /\ part = "logins" => TypeOK /\ OneLogin /\ KnownToMaster /\ ListsAgree
    /\ part = "changes" => Changes!TypeOK /\ Changes!LocklistCovers /\ Changes!CopiesAgree
    /\ part = "locks" => Locks!TypeOK /\ Locks!LocklistCovers /\ Locks!CopiesAgree
    /\ part = "lists" => Lists!TypeOK /\ Lists!LocklistCovers /\ Lists!CopiesAgree
    /\ part = "games" => Games!TypeOK /\ Games!GamesAgree /\ Games!OneGame
    /\ part = "queries" => Asked!TypeOK

\* Queries: a request whose account has come is handled, however late the account came
\* (query_tick).
ReadyIsServed == [][part = "queries" => Asked!Served]_everything

\* BitsAccounts: an account that a server s asks about does not stay undecided, even when the
\* query for it has timed out (bits_va_lock_account).  Queries: the loop over the queries ends,
\* and none stays when its time is over (query_tick).
Asks(s, c) ==
    \/ part = "locks" /\ acctState[s][c] = "pending" /\ <<s, c>> \notin acctFresh
    \/ part = "queries" /\ IF s = s2 THEN Asked!Overdue(c)
                           ELSE IF c = a THEN askedAt > 0 ELSE Asked!Overdue(n1)
NobodyWaits == \A s \in {s1, s2}, c \in {a, b} : Asks(s, c) ~> ~Asks(s, c)
==============================================================================
