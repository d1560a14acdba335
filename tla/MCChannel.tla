------------------------------ MODULE MCChannel ------------------------------
(* The channels, a restart that rereads channel.list, and what is said in a   *)
(* channel, part beside part: a behaviour is one of the part it starts with.  *)
(* "channel": three users, a permanent channel with room for one that rolls   *)
(* over, and a private channel that bob may operate. "reload": two users, a   *)
(* channel with room for one, one closed to bots and without a short name,    *)
(* and a private one.                                                         *)
EXTENDS Channel, TLC
CONSTANTS ann, bob, rob, lobby, support, private, void, usa, eur, b1, b2, i1
CONSTANT Parts   \* the parts this run looks at

MCUser == {ann, bob, rob}
MCPlainName == {lobby, private, void}
MCLocale == {usa, eur}

Line(n, short, loc, bots, max) ==
    [name |-> n, conf |-> [short |-> short, loc |-> loc, bots |-> bots, opers |-> bots,
                           max |-> max, permanent |-> TRUE]]

MCLobby == <<Line(<<lobby, NoLocale, 1>>, lobby, NoLocale, TRUE, 1)>>
MCJoin == {lobby, private}
MCLocaleOf == [u \in MCUser |-> NoLocale]
MCOperIn == {<<bob, private>>}

\* Of the reload: ann is from nowhere and rob from another country than the channel, so a
\* short name makes an instance for another locale; they join by short or by full name.
MCPermanent == <<Line(<<lobby, usa, 1>>, lobby, usa, TRUE, 1),
                 Line(support, NoName, NoLocale, FALSE, Unlimited)>>
MCReloadJoin == {lobby, <<lobby, usa, 1>>, support, private}
MCReloadLocale == [u \in {ann, rob} |-> IF u = rob THEN eur ELSE NoLocale]
MCReloadOper == {<<rob, private>>}

\* Of the messages: two connections of a class that formats once for both, and one that is
\* sent copies.
MCConn == {b1, b2, i1}
MCClass == [c \in MCConn |-> IF c = i1 THEN "irc" ELSE "telnet"]
Same == Permutations({b1, b2})

VARIABLES
    part,   \* the part that runs
    againList, againChan, againAt, againGavel, againOnline, againUp,
    talkOpen, talkIgnores, talkCount, talkSaid, talkRef, talkQueue, talkOutsize, talkWire

Again == INSTANCE ChannelReload WITH
        User <- {ann, rob}, PlainName <- {lobby, support, private, void}, Locale <- MCLocale,
        Permanent <- MCPermanent, JoinName <- MCReloadJoin, LocaleOf <- MCReloadLocale,
        Bot <- {rob}, Admin <- {ann}, OperIn <- MCReloadOper, OperAny <- {}, BanName <- {rob},
        AskNew <- FALSE, list <- againList, chan <- againChan, at <- againAt, gavel <- againGavel,
        online <- againOnline, up <- againUp
Talk == INSTANCE Messages WITH
        Conn <- MCConn, Nobody <- NoUser, Class <- MCClass, Talks <- {"talk"}, MaxMessages <- 2,
        MaxIgnores <- 1, MaxClosed <- 1, MaxRoom <- 1, open <- talkOpen, ignores <- talkIgnores,
        count <- talkCount, said <- talkSaid, ref <- talkRef, queue <- talkQueue,
        outsize <- talkOutsize, wire <- talkWire

againVars == <<againList, againChan, againAt, againGavel, againOnline, againUp>>
talkVars == <<talkOpen, talkIgnores, talkCount, talkSaid, talkRef, talkQueue, talkOutsize,
    talkWire>>

Start ==
    /\ part \in Parts
    /\ Init /\ Again!RInit /\ Talk!Init

Step ==
    \/ part = "channel" /\ Next /\ UNCHANGED <<part, againVars, talkVars>>
    \/ part = "reload" /\ Again!RNext /\ UNCHANGED <<part, vars, talkVars>>
    \/ part = "messages" /\ Talk!Next /\ UNCHANGED <<part, vars, againVars>>

everything == <<part, vars, againVars, talkVars>>
SumSpec == Start /\ [][Step]_everything

------------------------------------------------------------------------------
\* What a reload leaves: every member is in a channel by the same short name, that counts
\* him and does not refuse him, nobody is banned or designated, and an operator is one who
\* may be; nor does any command between two reloads break that (channellist_reload).
ReloadForgets ==
    [][part = "reload" => /\ Again!Fresh /\ Again!StaysSomewhere /\ Again!RespectsLimit
                          /\ Again!MembershipConsistent' /\ Again!RefusedStayOut']_everything

\* Messages: a user who ignores another is sent nothing of him, packets are freed when the
\* last queue lets go of them, and what a handler says is sent in its order (message_send).
IgnoringDecides == part = "messages" => Talk!TypeOK /\ Talk!IgnoringDecides /\ Talk!RefsAreQueues
SentInOrder == Talk!SentInOrder
==============================================================================
