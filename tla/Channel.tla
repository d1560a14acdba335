------------------------------ MODULE Channel ------------------------------
(***************************************************************************)
(* The chat channels of bnetd (src/src/bnetd/channel.c) with the handlers  *)
(* that move a connection between them: conn_set_channel of connection.c,  *)
(* CLIENT_JOINCHANNEL and CLIENT_LEAVECHANNEL of handle_bnet.c and the     *)
(* slash commands of command.c.  The build without WITH_BITS.              *)
(*                                                                         *)
(* bnetd is one thread: a handler runs to its end before the next begins.  *)
(* So each handler is one action, written as a function from a chat state  *)
(* (a record, see Chat) to the chat state the handler leaves behind.       *)
(*                                                                         *)
(* A user stands for an account and its one connection (Session.tla is     *)
(* about accounts with several).  A channel is known by its full name:     *)
(* either a plain name, or the triple that channel_format_name prints for  *)
(* the k-th instance of a permanent channel with a short name and a locale *)
(* (country and realm together, which the code always compares together).  *)
(***************************************************************************)
EXTENDS Integers, Sequences, FiniteSets

CONSTANTS
    User,       \* accounts, each with at most one connection
    PlainName,  \* channel names without an instance number
    Locale,     \* country and realm of a user or of a permanent channel
    NoLocale,   \* neither country nor realm
    NoName,     \* a NULL channel name, or a NULL channel pointer
    NoUser,     \* a NULL connection pointer
    Void,       \* CHANNEL_NAME_BANNED and CHANNEL_NAME_KICKED, "THE VOID"
    Permanent,  \* the lines of channel.list: a sequence of [name, conf]
    JoinName,   \* the names a client may ask for
    BanName,    \* the accounts a client may ban
    LocaleOf,   \* the locale of each user
    Bot,        \* users whose connection is of class bot
    Admin,      \* users with auth_admin
    OperIn,     \* pairs <<user, channel>>: auth_operator for that channel
    OperAny,    \* users with auth_operator for every channel
    AskNew      \* the ask_new_channel preference

Name == PlainName \cup (PlainName \X (Locale \cup {NoLocale}) \X Nat)

Unlimited == -1

ASSUME UserAssumption == NoUser \notin User /\ Bot \subseteq User /\ Admin \subseteq User
                         /\ BanName \subseteq User
ASSUME NameAssumption == NoName \notin Name /\ Void \in PlainName /\ JoinName \subseteq Name
ASSUME LocaleAssumption == LocaleOf \in [User -> Locale \cup {NoLocale}]

Conf == [short : Name \cup {NoName}, loc : Locale \cup {NoLocale},
         bots : BOOLEAN, opers : BOOLEAN, max : Int, permanent : BOOLEAN]

\* channel_create refuses a line that repeats a name, so Permanent is without such lines;
\* and no short name in the file looks like the name of an instance.
ASSUME PermanentAssumption ==
    /\ Permanent \in Seq([name : Name, conf : Conf])
    /\ \A i, j \in DOMAIN Permanent : Permanent[i].name = Permanent[j].name => i = j
    /\ \A i \in DOMAIN Permanent : /\ Permanent[i].conf.permanent
                                   /\ Permanent[i].conf.short \in PlainName \cup {NoName}

VARIABLES
    list,    \* channellist_head: full names, the newest channel first
    chan,    \* the channels of the list
    at,      \* c->channel of each user, NoName when NULL
    gavel,   \* users whose connection flags hold MF_GAVEL
    online   \* users with a connection in state loggedin

vars == <<list, chan, at, gavel, online>>

Chat == [list |-> list, chan |-> chan, at |-> at, gavel |-> gavel]

Become(s) ==
    /\ list' = s.list
    /\ chan' = s.chan
    /\ at' = s.at
    /\ gavel' = s.gavel

----------------------------------------------------------------------------
(* Sequences as linked lists.                                              *)

Elems(q) == {q[i] : i \in DOMAIN q}

NoDup(q) == \A i, j \in DOMAIN q : q[i] = q[j] => i = j

\* The list without its first entry for x.
Unlink(q, x) ==
    IF x \notin Elems(q) THEN q
    ELSE LET i == CHOOSE j \in DOMAIN q : q[j] = x /\ \A k \in 1..(j-1) : q[k] # x
         IN  [k \in 1..(Len(q)-1) |-> IF k < i THEN q[k] ELSE q[k+1]]

----------------------------------------------------------------------------
(* channel_create and channel_destroy.                                     *)

NewChannel(conf) == [conf |-> conf, members |-> <<>>, count |-> 0,
                     opr |-> NoUser, next |-> NoUser, bans |-> {}]

\* The configuration of a channel made by a user: conn_set_channel.
TempConf(n) == [short |-> n, loc |-> NoLocale, bots |-> TRUE, opers |-> TRUE,
                max |-> Unlimited, permanent |-> FALSE]

ChannelCreate(s, n, conf) ==
    [s EXCEPT !.list = <<n>> \o @,
              !.chan = [m \in DOMAIN @ \cup {n} |-> IF m = n THEN NewChannel(conf) ELSE @[m]]]

\* With members left a permanent channel only becomes a temporary one.
ChannelDestroy(s, n) ==
    IF s.chan[n].members # <<>>
    THEN [s EXCEPT !.chan[n].conf.permanent = FALSE]
    ELSE [s EXCEPT !.list = Unlink(@, n),
                   !.chan = [m \in DOMAIN @ \ {n} |-> @[m]]]

----------------------------------------------------------------------------
(* channel_choose_operator.                                                *)

Eligible(s, n, u) ==
    \/ <<u, n>> \in OperIn
    \/ s.chan[n].conf.opers /\ u \in OperAny

\* Mutant: the youngest eligible member.
ElectedYoungest(s, n, tryop) ==
    LET m == s.chan[n].members
        E == {i \in DOMAIN m : /\ m[i] # s.chan[n].opr /\ tryop \in {NoUser, m[i]}
                               /\ Eligible(s, n, m[i])}
    IN  IF s.chan[n].next # NoUser THEN s.chan[n].next
        ELSE IF E = {} THEN s.chan[n].opr
        ELSE m[CHOOSE i \in E : \A j \in E : i <= j]

\* The designee; else the oldest eligible member, but only tryop if given.
Elected(s, n, tryop) ==
    LET c == s.chan[n]
        E == {i \in DOMAIN c.members : /\ c.members[i] # c.opr
                                       /\ tryop \in {NoUser, c.members[i]}
                                       /\ Eligible(s, n, c.members[i])}
    IN  IF c.next # NoUser THEN c.next
        ELSE IF E = {} THEN c.opr
        ELSE c.members[CHOOSE i \in E : \A j \in E : j <= i]

ChooseOperator(s, n, tryop) ==
    LET c     == s.chan[n]
        new   == Elected(s, n, tryop)
        final == IF new = c.opr THEN NoUser ELSE new
    IN  CASE c.next # NoUser /\ s.at[c.next] # n -> s
          [] tryop # NoUser /\ new # tryop ->      \* returns before the flags are updated
               [s EXCEPT !.chan[n].opr = new, !.chan[n].next = NoUser]
          [] OTHER ->
               [s EXCEPT !.chan[n].opr = final, !.chan[n].next = NoUser,
                         !.gavel = (@ \ {c.opr}) \cup ({final} \ {NoUser})]

----------------------------------------------------------------------------
(* channel_del_connection and channel_add_connection.                      *)

\* The operator leaves, and then the last member of a temporary channel.
WithoutOperator(s, n, u) == IF s.chan[n].opr = u THEN ChooseOperator(s, n, NoUser) ELSE s

DestroyIfEmpty(s, n) ==
    IF s.chan[n].members = <<>> /\ ~s.chan[n].conf.permanent THEN ChannelDestroy(s, n) ELSE s

\* Mutant: currmembers is left as it is.
DelConnectionKeepsCount(s, n, u) ==
    LET s1 == [s EXCEPT !.chan[n].members = Unlink(@, u),
                        !.chan[n].next = IF @ = u THEN NoUser ELSE @]
    IN  DestroyIfEmpty(WithoutOperator(s1, n, u), n)

DelConnection(s, n, u) ==
    LET s1 == [s EXCEPT !.chan[n].members = Unlink(@, u),
                        !.chan[n].count = @ - 1,
                        !.chan[n].next = IF @ = u THEN NoUser ELSE @]
    IN  DestroyIfEmpty(WithoutOperator(s1, n, u), n)

\* channel_check_banning
Refused(s, n, u) == u \in s.chan[n].bans \/ (~s.chan[n].conf.bots /\ u \in Bot)

AddConnection(s, n, u) ==
    LET s1 == [s EXCEPT !.chan[n].members = <<u>> \o @,
                        !.chan[n].count = @ + 1,
                        !.at[u] = n]
    IN  IF s.chan[n].opr = NoUser THEN ChooseOperator(s1, n, u) ELSE s1

----------------------------------------------------------------------------
(* channellist_find_channel_by_name: the first channel of the list with    *)
(* that full name, or with that short name, the same locale and room for   *)
(* one more.  When there is none but some channel has that short name, of  *)
(* whatever locale, it makes another like the last of these.               *)

ByShortName(s, n, name, loc) == s.chan[n].conf.short = name /\ s.chan[n].conf.loc = loc

HasRoom(s, n) == s.chan[n].conf.max = Unlimited \/ s.chan[n].count < s.chan[n].conf.max

\* Mutant: the short name finds the newest channel only.
MatchesNewest(s, name, loc) ==
    {i \in DOMAIN s.list : \/ s.list[i] = name
                           \/ i = 1 /\ ByShortName(s, s.list[i], name, loc) /\ HasRoom(s, s.list[i])}

Matches(s, name, loc) ==
    {i \in DOMAIN s.list : \/ s.list[i] = name
                           \/ ByShortName(s, s.list[i], name, loc) /\ HasRoom(s, s.list[i])}

\* The channel and the chat state after the lookup; NoName for NULL.
FindChannel(s, name, loc) ==
    LET found == Matches(s, name, loc)
        full  == {i \in DOMAIN s.list : ByShortName(s, s.list[i], name, loc)}
        same  == {i \in DOMAIN s.list : s.chan[s.list[i]].conf.short = name}
        last  == s.chan[s.list[CHOOSE i \in same : \A j \in same : j <= i]].conf
        conf  == [last EXCEPT !.permanent = TRUE, !.loc = IF loc # NoLocale THEN loc ELSE @]
        roll  == <<name, conf.loc, Cardinality(full) + 1>>
    IN  IF found # {}
        THEN [st |-> s, n |-> s.list[CHOOSE i \in found : \A j \in found : i <= j]]
        ELSE IF same = {} \/ roll \in DOMAIN s.chan   \* no match, or channel_create refuses
        THEN [st |-> s, n |-> NoName]
        ELSE [st |-> ChannelCreate(s, roll, conf), n |-> roll]

----------------------------------------------------------------------------
(* conn_set_channel.                                                       *)

LeaveChannel(s, u) ==
    IF s.at[u] = NoName THEN s
    ELSE LET s1 == DelConnection(s, s.at[u], u) IN [s1 EXCEPT !.at[u] = NoName]

\* A refused user is left in no channel; a channel made for it is destroyed.
Admit(s, u, n, made) ==
    CASE ~Refused(s, n, u)        -> AddConnection(s, n, u)
      [] Refused(s, n, u) /\ made -> ChannelDestroy(s, n)
      [] OTHER                    -> s

EnterFound(f, u, name) ==
    IF f.n = NoName THEN Admit(ChannelCreate(f.st, name, TempConf(name)), u, name, TRUE)
    ELSE Admit(f.st, u, f.n, FALSE)

SetChannel(s, u, name) ==
    EnterFound(FindChannel(LeaveChannel(s, u), name, LocaleOf[u]), u, name)

OrVoid(s, u) == IF s.at[u] = NoName THEN SetChannel(s, u, Void) ELSE s

\* "if (conn_set_channel(c,cname)<0) conn_set_channel(c,CHANNEL_NAME_BANNED)"
SetChannelOrVoid(s, u, name) == OrVoid(SetChannel(s, u, name), u)

----------------------------------------------------------------------------
(* The channels of channel.list, created in the order of the file, and     *)
(* nobody connected.                                                       *)

Opened(lines) ==
    [list  |-> [i \in DOMAIN lines |-> lines[Len(lines) + 1 - i].name],
     chan  |-> [n \in {lines[i].name : i \in DOMAIN lines} |->
                   NewChannel((CHOOSE p \in Elems(lines) : p.name = n).conf)],
     at    |-> [u \in User |-> NoName],
     gavel |-> {}]

Init ==
    /\ list = Opened(Permanent).list
    /\ chan = Opened(Permanent).chan
    /\ at = Opened(Permanent).at
    /\ gavel = Opened(Permanent).gavel
    /\ online = {}

\* conn_set_account: the connection becomes loggedin, in no channel.
Login(u) ==
    /\ u \notin online
    /\ online' = online \cup {u}
    /\ UNCHANGED <<list, chan, at, gavel>>

\* conn_destroy: the connection and its flags go away.
Logout(u) ==
    /\ u \in online
    /\ online' = online \ {u}
    /\ LET s == LeaveChannel(Chat, u) IN Become([s EXCEPT !.gavel = @ \ {u}])

\* CLIENT_JOINCHANNEL with flag NORMAL: look first, then join or only ask.
JoinNormal(u, name) ==
    /\ u \in online
    /\ LET f == FindChannel(Chat, name, LocaleOf[u])
       IN  Become(IF f.n = NoName /\ AskNew THEN f.st ELSE SetChannelOrVoid(f.st, u, name))
    /\ UNCHANGED online

\* CLIENT_JOINCHANNEL with flag GENERIC or CREATE, /channel and /join.
JoinCreate(u, name) ==
    /\ u \in online
    /\ Become(SetChannelOrVoid(Chat, u, name))
    /\ UNCHANGED online

\* /rejoin
Rejoin(u) ==
    /\ u \in online
    /\ at[u] # NoName
    /\ Become(SetChannelOrVoid(Chat, u, at[u]))
    /\ UNCHANGED online

\* CLIENT_LEAVECHANNEL
Leave(u) ==
    /\ u \in online
    /\ at[u] # NoName
    /\ Become(LeaveChannel(Chat, u))
    /\ UNCHANGED online

\* The guard of the operator commands.
MayOperate(u) == u \in online /\ at[u] # NoName /\ (u \in Admin \/ chan[at[u]].opr = u)

\* /designate; channel_set_next_operator refuses the operator itself.
Designate(u, t) ==
    /\ MayOperate(u)
    /\ at[t] = at[u]
    /\ chan[at[u]].opr # t
    /\ chan' = [chan EXCEPT ![at[u]].next = t]
    /\ UNCHANGED <<list, at, gavel, online>>

\* /resign
Resign(u) ==
    /\ u \in online
    /\ at[u] # NoName
    /\ chan[at[u]].opr = u
    /\ Become(ChooseOperator(Chat, at[u], NoUser))
    /\ UNCHANGED online

\* /kick
Kick(u, t) ==
    /\ MayOperate(u)
    /\ at[t] = at[u]
    /\ t \notin Admin
    /\ Become(SetChannel(Chat, t, Void))
    /\ UNCHANGED online

\* /ban: also of a user elsewhere or offline; nobody can be banned from the void,
\* but a user there is moved all the same.
Ban(u, t) ==
    /\ MayOperate(u)
    /\ t \in BanName \ Admin
    /\ LET n  == at[u]
           s1 == IF n = Void THEN Chat ELSE [Chat EXCEPT !.chan[n].bans = @ \cup {t}]
       IN  Become(IF at[t] = n THEN SetChannel(s1, t, Void) ELSE s1)
    /\ UNCHANGED online

\* /unban
Unban(u, t) ==
    /\ MayOperate(u)
    /\ t \in chan[at[u]].bans
    /\ chan' = [chan EXCEPT ![at[u]].bans = @ \ {t}]
    /\ UNCHANGED <<list, at, gavel, online>>

Next ==
    \E u \in User :
        \/ Login(u)
        \/ Logout(u)
        \/ \E name \in JoinName : JoinNormal(u, name) \/ JoinCreate(u, name)
        \/ Rejoin(u)
        \/ Leave(u)
        \/ Resign(u)
        \/ \E t \in User : Designate(u, t) \/ Kick(u, t) \/ Ban(u, t) \/ Unban(u, t)

Spec == Init /\ [][Next]_vars

----------------------------------------------------------------------------
(* Properties.                                                             *)

ChannelRecord == [conf : Conf, members : Seq(User), count : Int, opr : User \cup {NoUser},
                  next : User \cup {NoUser}, bans : SUBSET User]

\* Every variable has its type, and the list names exactly the channels that exist.
TypeOK ==
    /\ list \in Seq(Name) /\ NoDup(list)
    /\ DOMAIN chan = Elems(list)
    /\ \A n \in DOMAIN chan : chan[n] \in ChannelRecord
    /\ at \in [User -> Name \cup {NoName}]
    /\ gavel \subseteq User
    /\ online \subseteq User

\* c->channel and the member lists agree: a user is in the member list of a channel
\* exactly when its connection points to it, once, and nobody points to a channel
\* that was freed; currmembers is the length of the list.
MembersPoint(s) ==
    /\ \A u \in User : s.at[u] # NoName => /\ s.at[u] \in DOMAIN s.chan
                                            /\ u \in Elems(s.chan[s.at[u]].members)
    /\ \A n \in DOMAIN s.chan : \A u \in Elems(s.chan[n].members) : s.at[u] = n

MembersCounted(s) ==
    \A n \in DOMAIN s.chan : /\ NoDup(s.chan[n].members)
                             /\ s.chan[n].count = Len(s.chan[n].members)

MembershipConsistent == MembersPoint(Chat) /\ MembersCounted(Chat)

\* channel->opr and channel->next_opr never outlive the membership of the connection
\* they point to, and the operator is not its own designee.
OperatorsPresent ==
    \A n \in DOMAIN chan :
        /\ {chan[n].opr, chan[n].next} \subseteq Elems(chan[n].members) \cup {NoUser}
        /\ chan[n].opr = chan[n].next => chan[n].opr = NoUser

\* A channel made by a user goes away with its last member.
TemporaryNotEmpty ==
    \A n \in DOMAIN chan : ~chan[n].conf.permanent => chan[n].members # <<>>

\* No member of a channel is one that the channel would refuse today: a ban also
\* removes the member, and no path back (rejoin, rollover, void) avoids the check.
RefusedStayOut ==
    \A n \in DOMAIN chan : \A u \in Elems(chan[n].members) : ~Refused(Chat, n, u)

\* The gavel is shown only by the operator of the channel its holder is in.
GavelIsOperator ==
    \A u \in gavel : at[u] # NoName /\ chan[at[u]].opr = u

\* The channels, the connections and their flags agree after every handler (channel.c).
ChannelsAgree == TypeOK /\ MembershipConsistent /\ OperatorsPresent /\ TemporaryNotEmpty
                 /\ GavelIsOperator /\ RefusedStayOut

\* "should not fail": joining, rejoining, or being kicked or banned never takes a user
\* from a channel to no channel; only leaving and disconnecting do.
Moves(u) ==
    \/ \E name \in JoinName : JoinNormal(u, name) \/ JoinCreate(u, name)
    \/ Rejoin(u)
    \/ \E t \in User : Kick(t, u) \/ Ban(t, u)

StaysSomewhere == \A u \in online' : at[u] # NoName /\ at'[u] = NoName => ~Moves(u)
AlwaysSomewhere == [][StaysSomewhere]_vars

\* Whoever becomes operator was designated before, or may operate that channel and no
\* older member of the channel may; being neither is never enough.
ChosenByRight ==
    \A n \in DOMAIN chan' :
        LET old == IF n \in DOMAIN chan THEN chan[n] ELSE NewChannel(TempConf(n))
            new == chan'[n]
        IN  new.opr \notin {old.opr, NoUser} =>
               \/ new.opr = old.next
               \/ /\ Eligible(Chat', n, new.opr)
                  /\ \/ old.opr = NoUser
                     \/ \E i \in DOMAIN new.members :
                           /\ new.members[i] = new.opr
                           /\ \A j \in DOMAIN new.members :
                                 j > i => \/ ~Eligible(Chat', n, new.members[j])
                                          \/ new.members[j] = old.opr
OperatorByRight == [][ChosenByRight]_vars

\* A user who asks for a short name is never added to a full instance.
Overfull(n) == chan[n].conf.max # Unlimited /\ chan[n].count > chan[n].conf.max

RespectsLimit ==
    \A u \in User : at'[u] \notin {NoName, at[u]} /\ Overfull(at[u])' =>
        \A name \in JoinName \ {at'[u]} : ~JoinCreate(u, name)
ShortNameRespectsLimit == [][RespectsLimit]_vars

\* Another instance of a permanent channel is made only for a user, of its locale or of
\* none, to whom every permanent channel of that short name and his locale is full.
RollsWhenFull ==
    \A n \in DOMAIN chan' \ DOMAIN chan :
        chan'[n].conf.permanent =>
           \E u \in online :
              /\ LocaleOf[u] \in {chan'[n].conf.loc, NoLocale}
              /\ \A m \in DOMAIN chan :
                    /\ chan[m].conf.permanent
                    /\ ByShortName(Chat, m, chan'[n].conf.short, LocaleOf[u])
                    => ~HasRoom(Chat, m)
RolloverOnlyWhenFull == [][RollsWhenFull]_vars
=============================================================================
