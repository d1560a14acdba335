------------------------------- MODULE MCD2dbs -------------------------------
(* What d2dbs keeps for the game servers and how it serves them, the link of  *)
(* d2cs to bnetd, games of d2cs whose server does not answer, and the tracker *)
(* of the servers, part beside part: a behaviour is one of the part it starts *)
(* with. Two game servers and two characters; the first server may connect    *)
(* twice.                                                                     *)
EXTENDS D2dbs, TLC
CONSTANTS l1, l2, l3, ama, nec, gs1, gs2, r1, r2, client, a, dee, s1, s2, p1, p2
CONSTANT Parts   \* the parts this run looks at

MCOf == [k \in {l1, l2} |-> IF k = l2 THEN 2 ELSE 1]
MCOfThree == [k \in {l1, l2, l3} |-> IF k = l2 THEN 2 ELSE 1]
MCSymmetry == Permutations({ama, nec}) \cup Permutations({l1, l3})

\* D2dbsLoop: gs1 asks for a character (a small request, a large reply) and saves it;
\* gs2 locks one.
MCRequests(k) == IF k = gs1 THEN 2 ELSE 1
MCBefore(k, n) == CASE n = 0 -> 0 [] n = 1 -> 1 [] n = 2 -> 3
MCReplied(k, n) == IF k = gs2 THEN 0 ELSE CASE n = 0 -> 0 [] n = 1 -> 2 [] OTHER -> 3

\* D2csGames: one server with two links.
MCServerOf == [k \in {r1, r2} |-> 1]

\* Tracker: two servers behind one address.
MCPortsOf == [s \in {s1, s2} |-> IF s = s1 THEN {p1} ELSE {p2}]
MCPortOfOne == [s \in {s2} |-> {p2}]
OneAddr == [p \in {p1, p2} |-> p1]

VARIABLES
    part,   \* the part that runs
    loopConn, loopSent, loopClosed, loopWire,
    realmConn, realmNear, realmFar, realmRealm, realmToFar, realmToNear, realmAsked, realmLogins,
    realmFaults,
    gamesOnline, gamesListed, gamesUp, gamesGames, gamesGamenum, gamesMaxgame, gamesConnection,
    gamesQueue, gamesWaiting, gamesSqs,
    trackUp, trackDue, trackMissed, trackNet, trackSlots, trackDumped, trackFile

Loop == INSTANCE D2dbsLoop WITH
        Link <- {gs1, gs2}, Requests <- MCRequests, Before <- MCBefore, Replied <- MCReplied,
        Echo <- 1, BufferSize <- 4, MaxPacket <- 2, conn <- loopConn, sent <- loopSent,
        closed <- loopClosed, wire <- loopWire
Realm == INSTANCE RealmLink WITH
        Link <- {r1, r2}, NoLink <- Unlocked, Client <- {client}, MaxLogins <- 2, MaxFaults <- 2,
        conn <- realmConn, near <- realmNear, far <- realmFar, realm <- realmRealm,
        toFar <- realmToFar, toNear <- realmToNear, asked <- realmAsked, logins <- realmLogins,
        faults <- realmFaults
Games == INSTANCE D2csGames WITH
        Client <- {client, a}, Nobody <- Unlocked, Name <- {dee}, NoGame <- Unlocked,
        Servers <- 1, Link <- {r1, r2}, NoLink <- Unlocked, Of <- MCServerOf, Dead <- {},
        MaxGame <- 1, MaxChar <- 1, MaxJoin <- 0, CheckMultilogin <- FALSE, VoidGames <- TRUE,
        online <- gamesOnline, listed <- gamesListed, up <- gamesUp, games <- gamesGames,
        gamenum <- gamesGamenum, maxgame <- gamesMaxgame, connection <- gamesConnection,
        queue <- gamesQueue, waiting <- gamesWaiting, sqs <- gamesSqs
\* One server, of whose reports every other one may be lost.
Lossy == INSTANCE Tracker WITH
        Server <- {s2}, Port <- {p2}, PortsOf <- MCPortOfOne, AddrOf <- OneAddr,
        Polite <- {}, Track <- 1, GivenExpire <- 3, DefExpire <- 4, GivenUpdate <- 0,
        DefUpdate <- 2, MaxDelay <- 1, MaxMiss <- 1, Lag <- 0, up <- trackUp, due <- trackDue,
        missed <- trackMissed, net <- trackNet, slots <- trackSlots, dumped <- trackDumped,
        file <- trackFile
Track == INSTANCE Tracker WITH
        Server <- {s1, s2}, Port <- {p1, p2}, PortsOf <- MCPortsOf, AddrOf <- OneAddr,
        Polite <- {s2}, Track <- 1, GivenExpire <- 3, DefExpire <- 4, GivenUpdate <- 0,
        DefUpdate <- 2, MaxDelay <- 1, MaxMiss <- 0, Lag <- 0, up <- trackUp, due <- trackDue,
        missed <- trackMissed, net <- trackNet, slots <- trackSlots, dumped <- trackDumped,
        file <- trackFile

ASSUME TrackerAssumption == Track!Configured /\ Lossy!Configured

loopVars == <<loopConn, loopSent, loopClosed, loopWire>>
realmVars == <<realmConn, realmNear, realmFar, realmRealm, realmToFar, realmToNear, realmAsked,
    realmLogins, realmFaults>>
gamesVars == <<gamesOnline, gamesListed, gamesUp, gamesGames, gamesGamenum, gamesMaxgame,
    gamesConnection, gamesQueue, gamesWaiting, gamesSqs>>
trackVars == <<trackUp, trackDue, trackMissed, trackNet, trackSlots, trackDumped, trackFile>>

Start ==
    /\ part \in Parts
    /\ Init /\ Loop!Init /\ Realm!Init /\ Games!Init
    /\ IF part = "lossy" THEN Lossy!Init ELSE Track!Init
    /\ part # "void" => gamesListed = {}

Step ==
    \/ part = "locks" /\ Next /\ UNCHANGED <<part, loopVars, realmVars, gamesVars, trackVars>>
    \/ part = "loop" /\ Loop!Next /\ UNCHANGED <<part, vars, realmVars, gamesVars, trackVars>>
    \/ part = "realm" /\ Realm!Next /\ UNCHANGED <<part, vars, loopVars, gamesVars, trackVars>>
    \/ part = "void" /\ Games!Next /\ UNCHANGED <<part, vars, loopVars, realmVars, trackVars>>
    \/ /\ (part = "tracker" /\ Track!Next) \/ (part = "lossy" /\ Lossy!Next)
       /\ UNCHANGED <<part, vars, loopVars, realmVars, gamesVars>>

everything == <<part, vars, loopVars, realmVars, gamesVars, trackVars>>

\* The fairness of each part, in the behaviours that are its own.
Own(tag, Act) == part = tag /\ Act
Fair ==
    /\ \A k \in Link : WF_vars(Own("locks", Handle(k))) /\ WF_vars(Own("locks", Write(k)))
    /\ \A k \in {gs1, gs2} : /\ WF_loopVars(Own("loop", Loop!Read(k)))
                         /\ WF_loopVars(Own("loop", Loop!Write(k)))
                         /\ WF_loopVars(Own("loop", Loop!Keepalive(k)))
    /\ \A k \in {r1, r2} : /\ WF_realmVars(Own("realm", Realm!Near(k)))
                           /\ WF_realmVars(Own("realm", Realm!Far(k)))
    /\ WF_realmVars(Own("realm", \E k \in {r1, r2} : Realm!Check(k)))
    /\ WF_gamesVars(Own("void", Games!VoidGame(dee)))
    /\ WF_gamesVars(Own("void", Games!UpdateClients))
    /\ WF_trackVars(Own("tracker", Track!SendReport(s1)))
    /\ WF_trackVars(Own("tracker", Track!SendReport(s2)) \/ Own("lossy", Lossy!SendReport(s2)))
    /\ SF_trackVars(Own("tracker", Track!Tick) \/ Own("lossy", Lossy!Tick))
    /\ SF_trackVars(Own("tracker", Track!Dump) \/ Own("lossy", Lossy!Dump))
    /\ SF_trackVars(\E pk \in trackNet :
           pk.age = 1 /\ (Own("tracker", Track!Receive(pk)) \/ Own("lossy", Lossy!Receive(pk))))
SafeSpec == Start /\ [][Step]_everything
SumSpec == SafeSpec /\ Fair

------------------------------------------------------------------------------
\* RealmLink: of the connections bnetd takes logins from, none but the one that serves the realm
\* is left unmarked (realm_active, realm_deactive and conn_destroy).
ServesTheRealm ==
    /\ part = "realm" => Realm!TypeOK /\ Realm!ServesTheRealm
    /\ part = "loop" => Loop!TypeOK
    /\ part = "tracker" => Track!TypeOK
    /\ part = "lossy" => Lossy!TypeOK

\* D2dbsLoop and D2csGames: all that a game server sends is handled, or its connection closed,
\* whatever is in the buffers, and a game its server does not create goes away; of the n-th
\* request of a link, for 0 of its end (dbs_server_main, gamelist_check_voidgame).
\* RealmLink and Tracker: once nothing goes wrong the realm comes up again and stays, and a
\* server that keeps running is listed, one that is gone is not (s2s_check, server_process).
Owes(k, n) ==
    \/ part = "loop" /\ Loop!Owes(k, n)
    \/ part = "void" /\ <<k, n>> = <<gs1, 1>> /\ Games!Uncreated(dee)
    \/ part = "tracker" /\ <<k, n>> = <<gs1, 0>> /\ Track!Silent(p1)
    \/ part = "lossy" /\ <<k, n>> = <<gs1, 0>> /\ Lossy!Silent(p1)
Paid(k, n) ==
    CASE part = "loop" -> Loop!Paid(k, n)
      [] part = "void" -> ~Games!Uncreated(dee)
      [] part = "tracker" -> Track!Listed(p1) => ~Track!Silent(p1)
      [] part = "lossy" -> Lossy!Listed(p1) => ~Lossy!Silent(p1)
      [] OTHER -> TRUE
Settled ==
    CASE part = "realm" -> Realm!Up
      [] part \in {"tracker", "lossy"} -> Track!Listed(p1)
      [] OTHER -> TRUE
ComesAndGoes ==
    /\ \A k \in {gs1, gs2}, n \in 0..2 : n <= MCRequests(k) => (Owes(k, n) ~> Paid(k, n))
    /\ <>[](part \in {"tracker", "lossy"} => s2 \in trackUp) => <>[]Settled
==============================================================================
