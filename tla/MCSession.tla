------------------------------ MODULE MCSession ------------------------------
(* The programs that talk to bnetd and what bnetd keeps of each connection,   *)
(* part beside part: a behaviour is one of the part it starts with, and the   *)
(* variables of the others stay as they are.                                  *)
EXTENDS Session
CONSTANTS c1, c2, c3, ann, bob
CONSTANT Parts   \* the parts this run looks at

MCAccount == {ann, bob}

\* One connection of each class, or all of Battle.net.
MCMixed == [c \in {c1, c2, c3} |-> IF c = c1 THEN "bnet" ELSE IF c = c2 THEN "irc" ELSE "bot"]
MCBnet == [c \in {c1, c2, c3} |-> "bnet"]

\* Conversation: how the programs are called.
MCCall == {[program |-> "bnchat", option |-> "newacct", tag |-> "DRTL", prot |-> "old"],
           [program |-> "bnchat", option |-> "login", tag |-> "STAR", prot |-> "109"],
           [program |-> "bnchat", option |-> "changepass", tag |-> "D2DV", prot |-> "109"],
           [program |-> "bnstat", option |-> "player", tag |-> "DRTL", prot |-> "109"],
           [program |-> "bnstat", option |-> "ask", tag |-> "STAR", prot |-> "really_old"]}

\* Those whose conversation is looked at with more under way at once.
MCChat == {c \in MCCall : c.program = "bnchat" /\ c.option # "changepass"}

\* Framing: packets of two to four bytes, and lines, one of them longer than a packet; the
\* streams have some that claim less than a header or more than a packet holds.
Pk(n) == SubSeq(<<n, 19, 20 + n, 30 + n>>, 1, n)
BnetPk(n) == SubSeq(<<255, n, 40 + n, 50 + n>>, 1, n)
Text == {<<20, 21, 10>>, <<13, 10>>, <<20, 21, 22, 23, 24, 10>>}
MCStreams ==
    {<<2>> \o p \o q : p \in {Pk(2), Pk(3), Pk(4), <<1, 20>>}, q \in {Pk(2), Pk(4), <<20, 20>>}}
    \cup {<<1>> \o p \o q : p \in {BnetPk(2), BnetPk(4), Pk(3), <<255, 5, 20>>}, q \in {BnetPk(3), Pk(4)}}
    \cup {<<c>> \o p \o q \o r : c \in {3, 4}, p \in Text, q \in Text, r \in {<<20>>, <<10>>}}
    \cup {<<9, 20>>}

\* TextClients: the password of "ann" is "bob", who has none; nobody is called "^D".
MCPass == [x \in {"ann", "bob"} |-> IF x = "ann" THEN "bob" ELSE "none"]

\* Flags: an account that has a flag of its own from the start.
MCInitial == [c \in {c1, c2, c3} |-> IF c = c1 THEN {"voice"} ELSE {}]

\* Proxy: a file of four bytes, one with a packet after it, and the rest of one; packets of two and three bytes; a
\* line of a bot and one too long; a byte that stands for nothing; a size too small.
MCSides == {
    [client |-> <<2, 2, 5>>, server |-> <<3, 7, 4, 9, 9, 2, 3>>],
    [client |-> <<2>>, server |-> <<3, 7, 2, 9, 9, 2, 5>>],
    [client |-> <<2>>, server |-> <<3, 7, 4, 9, 9>>],
    [client |-> <<1, 5, 2, 5, 3, 9>>, server |-> <<5, 2>>],
    [client |-> <<3, 5, 0, 5, 5, 5>>, server |-> <<5, 0, 6, 0>>],
    [client |-> <<9, 1>>, server |-> <<>>],
    [client |-> <<1, 5, 1, 5>>, server |-> <<>>] }

VARIABLES
    part,   \* the part that runs
    talkUser, talkPc, talkName, talkToServer, talkToClient, talkServer, talkAccounts, talkGame,
    talkAsked,
    fetchLength, fetchVersion, fetchLocal, fetchFetch, fetchWire,
    frameStream, framePos, frameClass, framePacket, frameLine, frameHanded, frameOpen,
    linesClass, linesState, linesBotuser, linesUser, linesAccount, linesPrompt, linesTimers,
    linesLag,
    flagState, flagFlags, flagTest, flagUdpok, flagMembers, flagOpr, flagDesignee, flagSeen,
    betweenStream, betweenPos, betweenGot, betweenClass, betweenState, betweenIn, betweenOut,
    betweenSent, betweenFileleft

Talk == INSTANCE Conversation WITH
        Name <- {c1}, AtLimit <- {}, Huge <- {}, NoName <- NoAccount, Call <- MCChat,
        MaxQueue <- 3, MaxInfo <- 1, user <- talkUser, pc <- talkPc, name <- talkName,
        toServer <- talkToServer, toClient <- talkToClient, server <- talkServer,
        accounts <- talkAccounts, game <- talkGame, asked <- talkAsked
Long == INSTANCE Conversation WITH
        Name <- {c1, c2, c3}, AtLimit <- {c2}, Huge <- {c3}, NoName <- NoAccount,
        Call <- MCCall, MaxQueue <- 2, MaxInfo <- 1, user <- talkUser, pc <- talkPc,
        name <- talkName, toServer <- talkToServer, toClient <- talkToClient,
        server <- talkServer, accounts <- talkAccounts, game <- talkGame, asked <- talkAsked
Fetch == INSTANCE FileTransfer WITH
        MaxLength <- 3, MaxVersion <- 2, MayShrink <- TRUE, Wrap <- 8, NoFile <- NoConn,
        length <- fetchLength, version <- fetchVersion, local <- fetchLocal, fetch <- fetchFetch,
        wire <- fetchWire
Frame == INSTANCE Framing WITH
        Streams <- MCStreams, MaxPacket <- 4, MaxLine <- 3, LF <- 10, CR <- 13, FF <- 255,
        ClassByte <- <<"defer", "file", "bot", "irc">>, stream <- frameStream, pos <- framePos,
        class <- frameClass, packet <- framePacket, line <- frameLine, handed <- frameHanded,
        open <- frameOpen
Lines == INSTANCE TextClients WITH
        Conn <- {c1, c2}, Word <- {"ann", "bob", "^D"}, NoWord <- "none",
        Account <- {"ann", "bob"}, PassOf <- MCPass, BotAccess <- {"ann"}, Locked <- {},
        Latency <- 2, NullMsg <- 2, Delays <- {1}, MaxLag <- 1, class <- linesClass,
        state <- linesState, botuser <- linesBotuser, user <- linesUser, account <- linesAccount,
        prompt <- linesPrompt, timers <- linesTimers, lag <- linesLag
Flag == INSTANCE Flags WITH
        Conn <- {c1, c2, c3}, Bnet <- {c1, c2}, Eligible <- {c2, c3}, Admin <- {c2},
        Initial <- MCInitial, Flag <- {"plug", "gavel", "voice"}, Plug <- "plug",
        Gavel <- "gavel", Signs <- {{}}, Deaf <- {{c3}}, None <- NoConn,
        state <- flagState, flags <- flagFlags, test <- flagTest, udpok <- flagUdpok,
        members <- flagMembers, opr <- flagOpr, designee <- flagDesignee, seen <- flagSeen
ASSUME FlagsAssumption == Flag!FlagAssumption
Between == INSTANCE Proxy WITH
        Streams <- MCSides, MaxPacket <- 3, Eol <- {0}, Reply <- 7,
        ClassByte <- <<"bnet", "file", "bot">>, MayClose <- {"client"}, stream <- betweenStream,
        pos <- betweenPos, got <- betweenGot, class <- betweenClass, state <- betweenState,
        in <- betweenIn, out <- betweenOut, sent <- betweenSent, fileleft <- betweenFileleft

talkVars == <<talkUser, talkPc, talkName, talkToServer, talkToClient, talkServer, talkAccounts,
    talkGame, talkAsked>>
fetchVars == <<fetchLength, fetchVersion, fetchLocal, fetchFetch, fetchWire>>
frameVars == <<frameStream, framePos, frameClass, framePacket, frameLine, frameHanded, frameOpen>>
linesVars == <<linesClass, linesState, linesBotuser, linesUser, linesAccount, linesPrompt,
    linesTimers, linesLag>>
flagVars ==
    <<flagState, flagFlags, flagTest, flagUdpok, flagMembers, flagOpr, flagDesignee, flagSeen>>
betweenVars == <<betweenStream, betweenPos, betweenGot, betweenClass, betweenState, betweenIn,
    betweenOut, betweenSent, betweenFileleft>>

Start ==
    /\ part \in Parts
    /\ IF part = "long" THEN Long!Init ELSE Talk!Init
    /\ Init /\ Fetch!Init /\ Frame!Init /\ Lines!Init /\ Flag!Init /\ Between!Init
    /\ part \notin {"talk", "long"} => talkUser.option = "login" /\ talkAccounts = {}
    /\ part # "fetch" => fetchLength = 1
    /\ part # "framing" => frameStream = <<9, 20>>
    /\ part # "proxy" => betweenStream.client = <<9, 1>>

\* A step of one part: the variables of the others stay as they are.
Step ==
    \/ /\ part = "session" /\ Next
       /\ UNCHANGED <<part, talkVars, fetchVars, frameVars, linesVars, flagVars, betweenVars>>
    \/ /\ part = "talk" /\ Talk!Next
       /\ UNCHANGED <<part, vars, fetchVars, frameVars, linesVars, flagVars, betweenVars>>
    \/ /\ part = "long" /\ Long!Next
       /\ UNCHANGED <<part, vars, fetchVars, frameVars, linesVars, flagVars, betweenVars>>
    \/ /\ part = "fetch" /\ Fetch!Next
       /\ UNCHANGED <<part, vars, talkVars, frameVars, linesVars, flagVars, betweenVars>>
    \/ /\ part = "framing" /\ Frame!Next
       /\ UNCHANGED <<part, vars, talkVars, fetchVars, linesVars, flagVars, betweenVars>>
    \/ /\ part = "text" /\ Lines!Next
       /\ UNCHANGED <<part, vars, talkVars, fetchVars, frameVars, flagVars, betweenVars>>
    \/ /\ part = "flags" /\ Flag!Next
       /\ UNCHANGED <<part, vars, talkVars, fetchVars, frameVars, linesVars, betweenVars>>
    \/ /\ part = "proxy" /\ Between!Next
       /\ UNCHANGED <<part, vars, talkVars, fetchVars, frameVars, linesVars, flagVars>>

everything ==
    <<part, vars, talkVars, fetchVars, frameVars, linesVars, flagVars, betweenVars>>

\* The fairness of each part, in the behaviours that are its own.
Own(tag, Act) == part = tag /\ Act
Fair ==
    /\ WF_vars(Own("session", Pass))
    /\ WF_talkVars(Own("talk", Talk!Handle) \/ Own("long", Long!Handle))
    /\ WF_talkVars(Own("talk", Talk!Waits) \/ Own("long", Long!Waits))
    /\ WF_fetchVars(Own("fetch", Fetch!FileSend))
    /\ WF_fetchVars(Own("fetch", Fetch!GotReply \/ Fetch!GotBlock \/ Fetch!Done))
    /\ WF_frameVars(Own("framing", Frame!Next))
    /\ WF_linesVars(Own("text", Lines!Tick)) /\ WF_linesVars(Own("text", Lines!CheckTimers))
    /\ \A c \in {c1, c2} : WF_flagVars(Own("flags", Flag!SetLatency(c)))
    /\ WF_betweenVars(Own("proxy", Between!Proceed))
SafeSpec == Start /\ [][Step]_everything
SumSpec == SafeSpec /\ Fair

------------------------------------------------------------------------------
\* Conversation, FileTransfer, Framing and Proxy: a packet reaches the server in a state in
\* which it has a case for it; every block of a file is put where it belongs, however often the
\* fetch is broken off; the handlers are given the packets and lines the peer meant, however the
\* bytes come; and what a side of the proxy receives is what the other one sent, in its order.
InPlace ==
    /\ part = "talk" => Talk!TypeOK /\ Talk!KnownWhenRead /\ Talk!StopsAGame
    /\ part = "long" => Long!TypeOK /\ Long!KnownWhenRead /\ Long!StopsAGame
    /\ part = "fetch" => Fetch!TypeOK /\ Fetch!BlocksInPlace
    /\ part = "framing" => Frame!TypeOK /\ Frame!HandedIsMeant
    /\ part = "proxy" => Between!TypeOK /\ Between!Transparent

\* TextClients: a Battle.net client and a bot each have the one timer for their pings or null
\* messages (of the pings an irc client never gets nothing is said), no connection has the
\* timers of an earlier one, and a bot is asked for what it sends next.
TimersMatch == part = "text" => Lines!TypeOK /\ Lines!TimersMatch /\ Lines!AskedForRight

\* What is still under way at a connection, of the part that runs. Conversation and
\* FileTransfer (their one connection): a reply that is not passed over, a block that is to come.
\* Framing and Proxy: bytes to be read or passed on, but for the end of a file fetched from the
\* middle, whose length the proxy takes for all of it. TextClients: a timer of the player.
\* Flags: a plug that has gone, before the other game client is told.
Pending(c) ==
    \/ /\ c = c1
       /\ \/ part = "talk" /\ Talk!Waiting
          \/ part = "long" /\ Long!Waiting
          \/ part = "fetch" /\ Fetch!Waiting
          \/ part = "framing" /\ ~Frame!Read
          \/ part = "proxy" /\ ~Between!Passed
    \/ part = "text" /\ Lines!TimerSet(c)
    \/ part = "flags" /\ \E v \in {c1, c2} \ {c} : Flag!PlugStands(v, c)

\* Nothing stays pending, whatever is typed, escaped and answered late and however the bytes
\* come: the programs wait for ever only for the reply to a name the server passes over, a fetch
\* ends unless it goes on with a file that has become shorter, what was sent is read or the
\* connection closed, timers ring, and the others are told when a plug goes (bnchat, bnstat,
\* bnftp, timer.c, _client_echoreply, bnproxy).
NothingIsKept == \A c \in {c1, c2} : Pending(c) ~> ~Pending(c)

\* Flags: the members of a channel see each other's flags as they are (conn_add_flags,
\* conn_del_flags, channel_update_flags).
SeenAsTheyAre == part = "flags" => Flag!TypeOK /\ Flag!SeenAsTheyAre
==============================================================================
