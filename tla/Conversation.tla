---------------------------- MODULE Conversation ----------------------------
(* bnchat and bnstat talking to bnetd: what the programs send, what they   *)
(* wait for, what the person in front of them may do meanwhile             *)
(* (src/src/client/client_connect.c, bnchat.c, bnstat.c), and how bnetd    *)
(* answers each of their packets in the state its connection is in         *)
(* (src/src/bnetd/handle_init.c, handle_bnet.c). The packets are those of  *)
(* src/src/common/bnet_protocol.h, without the fields nobody looks at.     *)
(*                                                                         *)
(* A program that waits for one packet throws away every other.            *)
EXTENDS Naturals, Sequences

CONSTANTS
    Name,        \* what a person may type as the name of a player
    AtLimit,     \* those of exactly USER_NAME_MAX characters
    Huge,        \* those of 128 characters and more
    NoName,
    Call,        \* how the programs are called, of AnyCall
    MaxQueue,    \* bound of the packets under way that the person and others add to
    MaxInfo      \* bound of the profiles asked for

VARIABLES
    user,      \* how the program was built and called: program, option, tag, prot
    pc,        \* what the program waits for, prompts for, or the mode of bnchat
    name,      \* the name typed, or asked about, last
    toServer, toClient,
    server,    \* state of the connection in bnetd
    accounts,  \* the names that have an account
    game,      \* the connection has a game (conn_get_game)
    asked      \* statsmatch

vars == <<user, pc, name, toServer, toClient, server, accounts, game, asked>>

\* prot is REALLY_OLD_PROT, OLD_PROT or neither; the first is taken to have OLD_CDKEY too.
AnyCall ==
    [program : {"bnchat"}, option : {"login", "newacct", "changepass"},
     tag : {"STAR", "DRTL", "D2DV"}, prot : {"really_old", "old", "109"}]
    \cup [program : {"bnstat"}, option : {"ask", "player"}, tag : {"STAR", "DRTL"},
          prot : {"really_old", "old", "109"}]

----------------------------------------------------------------------------
(* Packets.                                                                *)

Initconn == [type |-> "initconn"]
Unknown1b == [type |-> "unknown_1b"]
Countryinfo109 == [type |-> "countryinfo_109"]
Unknown2b == [type |-> "unknown_2b"]
Compinfo1 == [type |-> "compinfo1"]
Compinfo2 == [type |-> "compinfo2"]
Compreply == [type |-> "compreply"]
Sessionkey1 == [type |-> "sessionkey1"]
Sessionkey2 == [type |-> "sessionkey2"]
Countryinfo1 == [type |-> "countryinfo1"]
Progident == [type |-> "progident"]
ServerAuthreq1 == [type |-> "authreq1"]
Authreq1 == [type |-> "authreq1"]
Authreply1(ok) == [type |-> "authreply1", ok |-> ok]
Echoreq == [type |-> "echoreq"]
Echoreply == [type |-> "echoreply"]
ServerAuthreq109 == [type |-> "authreq_109"]
Authreq109 == [type |-> "authreq_109"]
Authreply109(ok) == [type |-> "authreply_109", ok |-> ok]
Iconreq == [type |-> "iconreq"]
Iconreply == [type |-> "iconreply"]
Cdkey == [type |-> "cdkey"]
Cdkeyreply == [type |-> "cdkeyreply"]
Cdkey2 == [type |-> "cdkey2"]
Cdkeyreply2 == [type |-> "cdkeyreply2"]
Tosreq == [type |-> "tosreq"]
Tosreply == [type |-> "tosreply"]
Createacctreq1(n) == [type |-> "createacctreq1", name |-> n]
Createacctreply1(ok) == [type |-> "createacctreply1", ok |-> ok]
Changepassreq(n, right) == [type |-> "changepassreq", name |-> n, right |-> right]
Changepassack(ok) == [type |-> "changepassack", ok |-> ok]
Loginreq1(n, right) == [type |-> "loginreq1", name |-> n, right |-> right]
Loginreply1(ok) == [type |-> "loginreply1", ok |-> ok]
Statsreq(n, match) == [type |-> "statsreq", name |-> n, match |-> match]
Statsreply(match) == [type |-> "statsreply", match |-> match]
Playerinforeq == [type |-> "playerinforeq"]
Playerinforeply == [type |-> "playerinforeply"]
Progident2 == [type |-> "progident2"]
Channellist == [type |-> "channellist"]
Joinchannel == [type |-> "joinchannel"]
ClientMessage == [type |-> "message"]
ServerMessage == [type |-> "message"]
Startgame4 == [type |-> "startgame4"]
Startgame4Ack(ok) == [type |-> "startgame4_ack", ok |-> ok]
Closegame == [type |-> "closegame"]

\* The packets that handle_bnet_packet has a case for, by the state of the connection, of
\* those the two programs know.
Known == [init |-> {"initconn"},
          connected |-> {"unknown_1b", "compinfo1", "compinfo2", "countryinfo1",
                         "countryinfo_109", "unknown_2b", "progident", "closegame",
                         "createacctreq1", "changepassreq", "echoreply", "authreq1",
                         "authreq_109", "iconreq", "cdkey", "cdkey2", "tosreq",
                         "statsreq", "loginreq1"},
          loggedin |-> {"echoreply", "statsreq", "playerinforeq", "progident2",
                        "joinchannel", "message", "startgame4", "closegame"}]

\* The packet a program waits for, by what it does meanwhile.
Awaited == [compreply |-> {"compreply"},
            sessionkey1 |-> {"sessionkey1"}, sessionkey2 |-> {"sessionkey2"},
            auth1 |-> {"authreq1", "authreply1"}, authreply1 |-> {"authreply1"},
            auth |-> {"authreq_109", "authreply_109"}, authreply |-> {"authreply_109"},
            icon |-> {"iconreply"}, cdkey1 |-> {"cdkeyreply"},
            cdkey |-> {"cdkeyreply2"}, tos |-> {"tosreply"},
            createreply |-> {"createacctreply1"}, changeack |-> {"changepassack"},
            loginreply |-> {"loginreply1"}, channels |-> {"channellist"},
            stats |-> {"statsreply"}]

Mode == {"chat", "command", "waitstat", "gamename", "gamepass", "gamewait", "gamestop"}
Prompt == {"create", "changepass", "login", "player"}

\* What the variables hold; nobody has a game without being logged in (t_connection).
TypeOK ==
    /\ user \in AnyCall
    /\ pc \in DOMAIN Awaited \cup Mode \cup Prompt \cup {"gone"}
    /\ name \in Name \cup {NoName}
    /\ server \in {"init", "connected", "loggedin", "closed"}
    /\ accounts \subseteq Name
    /\ game => server = "loggedin"
    /\ asked \in 0 .. MaxInfo

Sent(msgs) == toServer' = IF server = "closed" THEN <<>> ELSE toServer \o msgs
Answer(msgs) == toClient' = IF pc = "gone" THEN <<>> ELSE toClient \o msgs

\* client_connect sends the class of the connection and two packets to four at once.
Init ==
    /\ user \in Call
    /\ pc = IF user.prot = "109" THEN "auth" ELSE "compreply"
    /\ name = NoName
    /\ toServer = <<Initconn>>
                  \o (IF user.tag = "DRTL" THEN <<Unknown1b>> ELSE <<>>)
                  \o CASE user.prot = "109" -> <<Countryinfo109, Unknown2b>>
                       [] user.prot = "old" -> <<Compinfo2, Countryinfo1, Progident>>
                       [] user.prot = "really_old" -> <<Compinfo1, Countryinfo1, Progident>>
    /\ toClient = <<>>
    /\ server = "init"
    /\ accounts \in SUBSET (Name \ (AtLimit \cup Huge))
    /\ game = FALSE
    /\ asked = 0

----------------------------------------------------------------------------
(* bnchat and bnstat: what they wait for.                                  *)

\* client_blockrecv_packet
Receives(type) ==
    /\ toClient # <<>>
    /\ Head(toClient).type = type
    /\ toClient' = Tail(toClient)

\* The waiting loops: any other packet is dropped.
Discard ==
    /\ pc \in DOMAIN Awaited
    /\ toClient # <<>>
    /\ Head(toClient).type \notin Awaited[pc]
    /\ toClient' = Tail(toClient)
    /\ UNCHANGED <<user, pc, name, toServer, server, accounts, game, asked>>

\* The end of the connection ends the program.
ServerClosed ==
    /\ pc \in DOMAIN Awaited \cup Mode
    /\ server = "closed" /\ toClient = <<>>
    /\ pc' = "gone"
    /\ toServer' = <<>>
    /\ UNCHANGED <<user, name, toClient, server, accounts, game, asked>>

client == <<user, name, server, accounts, game, asked>>

Proceeds(from, type, msgs, to) ==
    /\ pc = from
    /\ Receives(type)
    /\ Sent(msgs)
    /\ pc' = to
    /\ UNCHANGED client

\* The key is awaited that the build needs for what it sends later.
GotCompreply ==
    \/ user.prot = "really_old" /\ Proceeds("compreply", "compreply", <<>>, "sessionkey1")
    \/ user.prot = "old" /\ Proceeds("compreply", "compreply", <<>>, "sessionkey2")

GotSessionkey1 == Proceeds("sessionkey1", "sessionkey1", <<>>, "auth1")
GotSessionkey2 == Proceeds("sessionkey2", "sessionkey2", <<>>, "auth1")
GotAuthreq1 == Proceeds("auth1", "authreq1", <<Authreq1>>, "authreply1")

GotAuthreply1 == \E p \in {"auth1", "authreply1"} :
                     Proceeds(p, "authreply1", <<Iconreq>>, "icon")

GotAuthreq109 == Proceeds("auth", "authreq_109", <<Authreq109>>, "authreply")

\* What the reply says about the version is not looked at.
GotAuthreply109 == \E p \in {"auth", "authreply"} :
                       Proceeds(p, "authreply_109", <<Iconreq>>, "icon")

\* client_connect has the icon: with the games that have a key it goes on to the key.
GotIconreply ==
    \/ /\ user.tag = "STAR" /\ user.prot # "really_old"
       /\ Proceeds("icon", "iconreply", <<Cdkey2>>, "cdkey")
    \/ /\ user.tag = "STAR" /\ user.prot = "really_old"
       /\ Proceeds("icon", "iconreply", <<Cdkey>>, "cdkey1")
    \/ user.tag # "STAR" /\ Proceeds("icon", "iconreply", <<Tosreq>>, "tos")

GotCdkeyreply == Proceeds("cdkey1", "cdkeyreply", <<Tosreq>>, "tos")
GotCdkeyreply2 == Proceeds("cdkey", "cdkeyreply2", <<Tosreq>>, "tos")

\* Where the loop that ends in a login begins, by the options of bnchat.
Prompted == CASE user.option = "newacct" -> "create"
              [] user.option = "changepass" -> "changepass"
              [] user.option = "login" -> "login"

\* The name given to bnstat may be of any length.
GotTosreply ==
    \/ user.program = "bnchat" /\ Proceeds("tos", "tosreply", <<>>, Prompted)
    \/ user.option = "ask" /\ Proceeds("tos", "tosreply", <<>>, "player")
    \/ /\ user.option = "player" /\ pc = "tos" /\ Receives("tosreply")
       /\ name' \in Name
       /\ Sent(<<Statsreq(name', 0)>>)
       /\ pc' = "stats"
       /\ UNCHANGED <<user, server, accounts, game, asked>>

\* bnstat ends after one player if it was given one.
GotStats ==
    \/ user.option = "ask" /\ Proceeds("stats", "statsreply", <<>>, "player")
    \/ user.option = "player" /\ Proceeds("stats", "statsreply", <<>>, "gone")

Told(ok) == toClient # <<>> /\ "ok" \in DOMAIN Head(toClient) /\ Head(toClient).ok = ok

\* An account that could not be created is asked for again; one that could is logged in.
GotCreateacctreply1 ==
    \/ Told(TRUE)
       /\ Proceeds("createreply", "createacctreply1", <<Loginreq1(name, TRUE)>>, "loginreply")
    \/ Told(FALSE)
       /\ Proceeds("createreply", "createacctreply1", <<>>, "create")

GotChangepassack ==
    \/ Told(TRUE)
       /\ Proceeds("changeack", "changepassack", <<Loginreq1(name, TRUE)>>, "loginreply")
    \/ Told(FALSE)
       /\ Proceeds("changeack", "changepassack", <<>>, "changepass")

\* A login that succeeds is followed at once by what the game would send.
GotLoginreply1 ==
    \/ Told(TRUE)
       /\ Proceeds("loginreply", "loginreply1",
                   (IF user.option = "newacct" /\ user.tag = "DRTL"
                    THEN <<Playerinforeq>> ELSE <<>>) \o <<Progident2>>, "channels")
    \/ Told(FALSE)
       /\ Proceeds("loginreply", "loginreply1", <<>>, Prompted)

GotChannellist == Proceeds("channels", "channellist", <<Joinchannel>>, "chat")

----------------------------------------------------------------------------
(* bnchat and bnstat: what the person does.                                *)

Types(from, n, msg, to) ==
    /\ pc = from
    /\ name' = n
    /\ pc' = to
    /\ Sent(<<msg>>)
    /\ UNCHANGED <<user, toClient, server, accounts, game, asked>>

\* The three prompts of bnchat refuse a name only if it is longer than USER_NAME_MAX.
TypesNew(n) == n \notin Huge /\ Types("create", n, Createacctreq1(n), "createreply")
TypesPass(n) ==
    n \notin Huge /\ \E r \in BOOLEAN : Types("changepass", n, Changepassreq(n, r), "changeack")
TypesLogin(n) ==
    n \notin Huge /\ \E r \in BOOLEAN : Types("login", n, Loginreq1(n, r), "loginreply")
TypesPlayer(n) == Types("player", n, Statsreq(n, 0), "stats")

loop == <<user, toClient, server, accounts, game>>

\* The escape key.
Escape ==
    /\ pc \in Mode
    /\ pc' = IF pc = "command" THEN "chat" ELSE "command"
    /\ UNCHANGED <<loop, name, toServer, asked>>

Does(from, msgs, to) ==
    /\ pc = from
    /\ Len(toServer) + Len(toClient) < MaxQueue
    /\ pc' = to
    /\ Sent(msgs)
    /\ UNCHANGED loop

asking == <<name, asked>>
Says == Does("chat", <<ClientMessage>>, "chat") /\ UNCHANGED asking
Create == Does("command", <<>>, "gamename") /\ UNCHANGED asking
NamesGame == Does("gamename", <<>>, "gamepass") /\ UNCHANGED asking
StartsGame == Does("gamepass", <<Startgame4>>, "gamewait") /\ UNCHANGED asking
StopsGame == Does("gamestop", <<Closegame>>, "command") /\ UNCHANGED asking

\* The number that the reply has to bear is the time, which may not have changed.
Info ==
    /\ asked' \in {asked, asked + 1} \cap 0 .. MaxInfo
    /\ name' \in Name
    /\ Does("command", <<Statsreq(name', asked')>>, "waitstat")

Quit ==
    /\ pc \in {"command", "player"}
    /\ pc' = "gone"
    /\ toClient' = <<>>
    /\ UNCHANGED <<user, name, toServer, server, accounts, game, asked>>

\* What comes in while bnchat chats: an echo is answered, the reply to a game or a profile
\* counts in its mode only, anything else is printed.
Network ==
    /\ pc \in Mode
    /\ toClient # <<>>
    /\ toClient' = Tail(toClient)
    /\ Sent(IF Head(toClient) = Echoreq THEN <<Echoreply>> ELSE <<>>)
    /\ pc' = CASE Head(toClient) = Startgame4Ack(TRUE) /\ pc = "gamewait" -> "gamestop"
               [] Head(toClient) = Startgame4Ack(FALSE) /\ pc = "gamewait" -> "gamename"
               [] Head(toClient) = Statsreply(asked) /\ pc = "waitstat" -> "command"
               [] OTHER -> pc
    /\ UNCHANGED client

----------------------------------------------------------------------------
(* bnetd.                                                                  *)

Reads(states, type) ==
    /\ server \in states
    /\ toServer # <<>>
    /\ Head(toServer).type = type
    /\ toServer' = Tail(toServer)

others == <<user, pc, name, asked>>

\* handle_init_packet. The class that is told leaves it to the first byte that follows,
\* which is that of a packet of this protocol.
HandleInit ==
    /\ Reads({"init"}, "initconn")
    /\ server' = "connected"
    /\ UNCHANGED <<others, toClient, accounts, game>>

Replies(states, type, msgs) ==
    /\ Reads(states, type)
    /\ Answer(msgs)
    /\ UNCHANGED <<others, server, accounts, game>>

OnUnknown1b == Replies({"connected"}, "unknown_1b", <<>>)
OnCountryinfo109 == Replies({"connected"}, "countryinfo_109", <<Echoreq, ServerAuthreq109>>)
OnUnknown2b == Replies({"connected"}, "unknown_2b", <<>>)
OnCompinfo1 == Replies({"connected"}, "compinfo1", <<Compreply, Sessionkey1>>)
OnCompinfo2 == Replies({"connected"}, "compinfo2", <<Compreply, Sessionkey2>>)
OnCountryinfo1 == Replies({"connected"}, "countryinfo1", <<>>)
\* With skip_versioncheck the reply comes without the question.
OnProgident == \E msg \in {ServerAuthreq1, Authreply1(TRUE)} :
                   Replies({"connected"}, "progident", <<msg>>)
OnAuthreq1 == \E ok \in BOOLEAN :
                  Replies({"connected"}, "authreq1", <<Authreply1(ok)>>)
OnCdkey == Replies({"connected"}, "cdkey", <<Cdkeyreply>>)
OnAuthreq109 == \E ok \in BOOLEAN :
                    Replies({"connected"}, "authreq_109", <<Authreply109(ok)>>)
OnIconreq == Replies({"connected"}, "iconreq", <<Iconreply>>)
OnCdkey2 == Replies({"connected"}, "cdkey2", <<Cdkeyreply2>>)
OnTosreq == Replies({"connected"}, "tosreq", <<Tosreply>>)
OnEchoreply == Replies({"connected", "loggedin"}, "echoreply", <<>>)
OnPlayerinforeq == Replies({"loggedin"}, "playerinforeq", <<Playerinforeply>>)
OnProgident2 == Replies({"loggedin"}, "progident2", <<Channellist>>)

\* The connection is told of the channel it is in then, and of what it said.
OnJoinchannel == Replies({"loggedin"}, "joinchannel", <<ServerMessage>>)
OnMessage == \E m \in {<<>>, <<ServerMessage>>} : Replies({"loggedin"}, "message", m)

\* One case in each state; neither asks whether there is such a player.
OnStatsreq ==
    /\ toServer # <<>> /\ Head(toServer).type = "statsreq"
    /\ Replies({"connected", "loggedin"}, "statsreq",
               IF Head(toServer).name \in Huge THEN <<>>
               ELSE <<Statsreply(Head(toServer).match)>>)

\* The name may be of any length here, and account_check_name refuses those at the limit.
OnCreateacctreq1 ==
    /\ Reads({"connected"}, "createacctreq1")
    /\ \E ok \in BOOLEAN :
         /\ ok => Head(toServer).name \notin accounts \cup AtLimit
         /\ accounts' = IF ok THEN accounts \cup {Head(toServer).name} ELSE accounts
         /\ Answer(<<Createacctreply1(ok)>>)
    /\ UNCHANGED <<others, server, game>>

\* A name at the limit has no room for its end, and the packet is passed over.
Missing(n) == n \in AtLimit \cup Huge

\* The answer depends on who else is logged in and on the rights of the account.
OnChangepassreq ==
    \E ok \in BOOLEAN :
      /\ Replies({"connected"}, "changepassreq",
                 IF Missing(Head(toServer).name) THEN <<>> ELSE <<Changepassack(ok)>>)
      /\ ok => Head(toServer).right /\ Head(toServer).name \in accounts

OnLoginreq1 ==
    /\ Reads({"connected"}, "loginreq1")
    /\ \E ok \in BOOLEAN :
         /\ ok => /\ Head(toServer).right
                  /\ Head(toServer).name \in accounts
                  /\ ~Missing(Head(toServer).name)
         /\ server' = IF ok THEN "loggedin" ELSE server
         /\ Answer(IF Missing(Head(toServer).name) THEN <<>> ELSE <<Loginreply1(ok)>>)
    /\ UNCHANGED <<others, accounts, game>>

\* Who has a game already sets its status, and is not answered.
OnStartgame4 ==
    /\ Reads({"loggedin"}, "startgame4")
    /\ \/ /\ game
          /\ UNCHANGED <<game, toClient>>
       \/ /\ ~game
          /\ game' \in BOOLEAN
          /\ Answer(<<Startgame4Ack(game')>>)
    /\ UNCHANGED <<others, server, accounts>>

\* Passed over in a connection that is not logged in.
OnClosegame ==
    /\ Reads({"connected", "loggedin"}, "closegame")
    /\ game' = FALSE
    /\ UNCHANGED <<others, toClient, server, accounts>>

\* Others talk, and the latency is measured (conn_test_latency).
Talk ==
    /\ server = "loggedin"
    /\ pc # "gone"
    /\ Len(toServer) + Len(toClient) < MaxQueue
    /\ \E m \in {ServerMessage, Echoreq} : Answer(<<m>>)
    /\ UNCHANGED <<others, toServer, server, accounts, game>>

\* conn_destroy, for one of its many reasons or because the program has gone.
CloseServer ==
    /\ server # "closed"
    /\ server' = "closed"
    /\ game' = FALSE
    /\ toServer' = <<>>
    /\ UNCHANGED <<others, toClient, accounts>>

----------------------------------------------------------------------------

Handle ==
    \/ OnCompinfo1 \/ OnCompinfo2 \/ OnCountryinfo1 \/ OnProgident \/ OnAuthreq1 \/ OnCdkey
    \/ HandleInit \/ OnUnknown1b \/ OnCountryinfo109 \/ OnUnknown2b \/ OnAuthreq109
    \/ OnIconreq \/ OnCdkey2 \/ OnTosreq \/ OnEchoreply \/ OnPlayerinforeq
    \/ OnProgident2 \/ OnJoinchannel \/ OnMessage \/ OnStatsreq \/ OnCreateacctreq1
    \/ OnChangepassreq \/ OnLoginreq1 \/ OnStartgame4 \/ OnClosegame

Waits ==
    \/ GotCompreply \/ GotSessionkey1 \/ GotSessionkey2 \/ GotAuthreq1 \/ GotAuthreply1
    \/ GotCdkeyreply \/ Discard \/ ServerClosed \/ Network \/ GotAuthreq109 \/ GotAuthreply109
    \/ GotIconreply \/ GotCdkeyreply2 \/ GotTosreply \/ GotStats
    \/ GotCreateacctreply1 \/ GotChangepassack \/ GotLoginreply1 \/ GotChannellist

Person ==
    \/ \E n \in Name : TypesNew(n) \/ TypesPass(n) \/ TypesLogin(n) \/ TypesPlayer(n)
    \/ Escape \/ Says \/ Create \/ NamesGame \/ StartsGame \/ StopsGame \/ Info \/ Quit

Next == Handle \/ Waits \/ Person \/ Talk \/ CloseServer

\* The server serves its connections and a program that waits reads; nobody has to type.
Spec == Init /\ [][Next]_vars /\ WF_vars(Handle) /\ WF_vars(Waits)

----------------------------------------------------------------------------

\* Whatever is typed, escaped and answered late, a packet reaches the server in a state
\* in which it has a case for it (handle_bnet_packet).
KnownWhenRead ==
    toServer # <<>> /\ server # "closed" => Head(toServer).type \in Known[server]

\* bnchat offers to stop a game only while the connection has one that no packet on the
\* way ends: an acknowledgement is not taken for that of another game (mode_gamestop).
StopsAGame ==
    pc = "gamestop" /\ server # "closed"
        => game /\ \A i \in DOMAIN toServer : toServer[i] # Closegame

\* The names that the server passes over without a reply: bnchat lets a name of
\* USER_NAME_MAX characters through, and a name asked about may have any length.
PassedOver ==
    \/ pc \in {"loginreply", "changeack"} /\ name \in AtLimit
    \/ pc \in {"stats", "waitstat"} /\ name \in Huge

\* A program that waits for one packet after the other is to get it, or to see the
\* connection end, with nothing that it needs lost on the way (client_blockrecv_packet,
\* mode_waitstat), but for the reply to a name that is passed over.
Waiting == pc \in DOMAIN Awaited \cup {"waitstat"} /\ ~PassedOver

=============================================================================
