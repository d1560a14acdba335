-------------------------------- MODULE Flags --------------------------------
(***************************************************************************)
(* What the members of a channel are told of each other's flags (the plug, *)
(* the gavel, the signs an admin gives himself): bnetd connection.c,       *)
(* channel.c and message.c send a member's flags when it joins, and again  *)
(* when they change while it is in the channel.  The plug stands for a     *)
(* client that no UDP reaches; it goes when the client answers the UDP     *)
(* test, which may be at any time.  One channel of bnet clients and bots;  *)
(* whether an operator has a right to be one is the business of module     *)
(* Channel, and the cross that marks an ignored member of module Messages. *)
(***************************************************************************)
EXTENDS Naturals, Sequences, SequencesExt, FiniteSets, SequenceTheorems, WellFoundedInduction,
        TLAPS

CONSTANTS
    Conn,
    Bnet,        \* SUBSET Conn: class bnet; the others are bots
    Eligible,    \* SUBSET Conn: accounts that may be operator of this channel
    Admin,       \* SUBSET Conn: accounts that may use /flag, /tag and /designate
    Initial,     \* [Conn -> SUBSET Flag]: BNET\flags\initial
    Flag, Plug, Gavel,   \* MF_PLUG, MF_GAVEL
    Signs,       \* what /flag may be given: a set of SUBSET Flag
    Deaf,        \* who may ignore a member that talks: a set of SUBSET Conn
    None

VARIABLES
    state,       \* conn_state: "initial", "connected", "loggedin"
    flags,       \* [Conn -> SUBSET Flag]
    test,        \* [Conn -> a SERVER_UDPTEST is on its way to it]
    udpok,
    members,     \* memberlist, the newest first
    opr,
    designee,    \* next_opr
    seen         \* [Conn -> [Conn -> the flags last shown to it, or None]]

vars == <<state, flags, test, udpok, members, opr, designee, seen>>
udp == <<test, udpok>>
channel == <<members, opr, designee>>

In == ToSet(members)

TypeOK ==
    /\ state \in [Conn -> {"initial", "connected", "loggedin"}]
    /\ flags \in [Conn -> SUBSET Flag]
    /\ test \in [Conn -> BOOLEAN]
    /\ udpok \in [Conn -> BOOLEAN]
    /\ members \in Seq(Conn) /\ IsInjective(members)
    /\ \A c \in In : state[c] = "loggedin"
    /\ {opr, designee} \subseteq In \cup {None} /\ (designee # None => designee # opr)
    /\ seen \in [Conn -> [Conn -> (SUBSET Flag) \cup {None}]]

Nobody == [c \in Conn |-> None]

Init ==
    /\ state = [c \in Conn |-> "initial"]
    /\ flags = [c \in Conn |-> {Plug}]
    /\ test = [c \in Conn |-> FALSE]
    /\ udpok = [c \in Conn |-> FALSE]
    /\ members = <<>>
    /\ opr = None /\ designee = None
    /\ seen = [c \in Conn |-> Nobody]

-----------------------------------------------------------------------------
(* What is told. *)

\* channel_update_flags: the members ms learn that the flags of c are fl
Told(sn, ms, c, fl) ==
    [v \in Conn |-> IF v \in ms THEN [sn[v] EXCEPT ![c] = fl]
                    ELSE sn[v]]

\* conn_add_flags, conn_del_flags: told when they changed and c->channel is set
Changed(sn, ms, c, old, new) == IF old = new THEN sn ELSE Told(sn, ms, c, new)

-----------------------------------------------------------------------------
(* Connections and the UDP test. *)

\* conn_set_class, and the first line of a bot
Connect(c) ==
    /\ state[c] = "initial"
    /\ state' = [state EXCEPT ![c] = "connected"]
    /\ flags' = [flags EXCEPT ![c] = @ \cup {Plug}]
    /\ test' = [test EXCEPT ![c] = c \in Bnet]
    /\ UNCHANGED <<udpok, channel, seen>>

\* CLIENT_SESSIONADDR1 and 2, with the session key that only game clients are given:
\* the address is set and tested again
SessionAddr(c) ==
    /\ c \in Bnet /\ state[c] # "initial"
    /\ test' = [test EXCEPT ![c] = TRUE]
    /\ UNCHANGED <<state, flags, udpok, channel, seen>>

\* The test is lost, or goes to a port the client does not listen on
TestLost(c) ==
    /\ test[c]
    /\ test' = [test EXCEPT ![c] = FALSE]
    /\ UNCHANGED <<state, flags, udpok, channel, seen>>

\* CLIENT_UDPOK, conn_set_udpok: the plug goes, and nobody is told
UdpOk(c) ==
    /\ test[c]
    /\ test' = [test EXCEPT ![c] = FALSE]
    /\ udpok' = [udpok EXCEPT ![c] = TRUE]
    /\ flags' = IF udpok[c] THEN flags ELSE [flags EXCEPT ![c] = @ \ {Plug}]
    /\ UNCHANGED <<state, channel, seen>>

\* conn_set_account: the account's own flags
Login(c) ==
    /\ state[c] = "connected"
    /\ state' = [state EXCEPT ![c] = "loggedin"]
    /\ flags' = [flags EXCEPT ![c] = @ \cup Initial[c]]
    /\ UNCHANGED <<udp, channel, seen>>

\* conn_set_latency: the members that are game clients are told the flags too
SetLatency(c) ==
    /\ c \in Bnet /\ c \in In
    /\ seen' = Told(seen, In \cap Bnet, c, flags[c])
    /\ UNCHANGED <<state, flags, udp, channel>>

\* What a member says bears his flags, to those who do not ignore him
Talk(c, deaf) ==
    /\ c \in In
    /\ seen' = Told(seen, (In \ {c}) \ deaf, c, flags[c])
    /\ UNCHANGED <<state, flags, udp, channel>>

\* /flag: all of them at once, the gavel included
SetFlags(c, fl) ==
    /\ c \in Admin /\ state[c] = "loggedin"
    /\ flags' = [flags EXCEPT ![c] = fl]
    /\ seen' = IF c \in In THEN Changed(seen, In, c, flags[c], fl) ELSE seen
    /\ UNCHANGED <<state, udp, channel>>

\* /tag, another client tag: its news are the flags
SetTag(c) ==
    /\ c \in Admin /\ c \in In
    /\ seen' = Told(seen, In, c, flags[c])
    /\ UNCHANGED <<state, flags, udp, channel>>

-----------------------------------------------------------------------------
(* The channel. *)

\* The newcomer is shown everybody, himself included, and shown to everybody
Shows(c) ==
    LET ms == In \cup {c} IN
    [v \in Conn |->
        IF v = c
        THEN [x \in Conn |-> IF x \in ms THEN flags[x] ELSE None]
        ELSE IF v \in ms THEN [seen[v] EXCEPT ![c] = flags[c]]
             ELSE seen[v]]

\* channel_add_connection.  Without an operator the newcomer becomes it, if he may; but a
\* designated member goes first, and then nobody's flags are touched.
Join(c) ==
    /\ state[c] = "loggedin" /\ c \notin In
    /\ members' = <<c>> \o members
    /\ IF opr = None /\ designee = None /\ c \in Eligible
       THEN /\ opr' = c
            /\ flags' = [flags EXCEPT ![c] = @ \cup {Gavel}]
            /\ seen' = Changed(Shows(c), In \cup {c}, c, flags[c],
                               flags[c] \cup {Gavel})
       ELSE /\ opr' = IF opr = None THEN designee ELSE opr
            /\ seen' = Shows(c) /\ UNCHANGED flags
    /\ designee' = IF opr = None THEN None ELSE designee
    /\ UNCHANGED <<state, udp>>

\* /designate, by the operator or an admin
Designate(c, n) ==
    /\ {c, n} \subseteq In /\ c \in Admin \cup {opr} /\ n # opr
    /\ designee' = n
    /\ UNCHANGED <<state, flags, udp, members, opr, seen>>

\* channel_choose_operator with nobody to try: the designee d, or the oldest of the members
\* ms that is eligible and not the operator of now
Successor(ms, d) ==
    LET may == {i \in DOMAIN ms : ms[i] \in Eligible \ {opr}}
    IN  IF d # None THEN d ELSE IF may = {} THEN None ELSE ms[Max(may)]

\* mutant: the old operator's loss is not told
PassedGain(sn, ms, o, n) ==
    IF n = None THEN sn
    ELSE Changed(sn, ms, n, flags[n], flags[n] \cup {Gavel})

\* the old operator's gavel goes, the new one gets his; ms are the members by now
Passed(sn, ms, o, n) ==
    LET less == flags[o] \ {Gavel}
        took == Changed(sn, ms, o, flags[o], less)
    IN  IF n = None THEN took
        ELSE Changed(took, ms, n, flags[n], flags[n] \cup {Gavel})

PassedFlags(o, n) ==
    [c \in Conn |-> IF c = n THEN flags[c] \cup {Gavel}
                    ELSE IF c = o THEN flags[c] \ {Gavel} ELSE flags[c]]

\* /resign
Resign ==
    /\ opr # None
    /\ LET n == Successor(members, designee)
       IN  /\ opr' = n
           /\ flags' = PassedFlags(opr, n)
           /\ seen' = Passed(seen, In, opr, n)
    /\ designee' = None
    /\ UNCHANGED <<state, udp, members>>

\* channel_del_connection: all members, c too, see c go.  An operator loses
\* the gavel when he is no longer listed, but c->channel is still set: those
\* who stay are shown the flags of one who has gone.
Parted(c) ==
    [v \in Conn |-> IF v = c THEN Nobody
                    ELSE IF v \in In THEN [seen[v] EXCEPT ![c] = None]
                    ELSE seen[v]]

Remaining(c) == RemoveAt(members, CHOOSE i \in DOMAIN members : members[i] = c)
Designated(c) == IF designee = c THEN None ELSE designee

LeftFlags(c) ==
    IF c = opr THEN PassedFlags(c, Successor(Remaining(c), Designated(c))) ELSE flags

Leaves(c) ==
    /\ c \in In
    /\ members' = Remaining(c)
    /\ IF c = opr
       THEN /\ opr' = Successor(Remaining(c), Designated(c)) /\ designee' = None
            /\ seen' = Passed(Parted(c), In \ {c}, c, opr')
       ELSE /\ opr' = opr /\ designee' = Designated(c)
            /\ seen' = Parted(c)

Leave(c) ==
    /\ Leaves(c)
    /\ flags' = LeftFlags(c)
    /\ UNCHANGED <<state, udp>>

\* conn_destroy, out of the channel too; another client takes its place
Destroy(c) ==
    /\ state[c] # "initial"
    /\ state' = [state EXCEPT ![c] = "initial"]
    /\ test' = [test EXCEPT ![c] = FALSE]
    /\ udpok' = [udpok EXCEPT ![c] = FALSE]
    /\ \/ Leaves(c) /\ flags' = [LeftFlags(c) EXCEPT ![c] = {Plug}]
       \/ /\ c \notin In
          /\ flags' = [flags EXCEPT ![c] = {Plug}]
          /\ UNCHANGED <<channel, seen>>

Next ==
    \/ \E c \in Conn :
          \/ Connect(c) \/ SessionAddr(c) \/ TestLost(c) \/ UdpOk(c)
          \/ Login(c) \/ SetLatency(c) \/ SetTag(c)
          \/ Join(c) \/ Leave(c) \/ Destroy(c)
          \/ \E fl \in Signs : SetFlags(c, fl)
          \/ \E n \in Conn : Designate(c, n)
          \/ \E deaf \in Deaf : Talk(c, deaf)
    \/ Resign

\* A client that stays answers the pings (conn_test_latency).
Fairness == \A c \in Conn : WF_vars(SetLatency(c))

Spec == Init /\ [][Next]_vars /\ Fairness

-----------------------------------------------------------------------------
(* Properties *)

Together(v, c) == v \in In /\ c \in In

(* Each member of a channel is shown every member's flags as they are,     *)
(* through joins, parts, passing the gavel and /flag, but for the plug of  *)
(* one whose UDP test came through after he joined (connection.c:3111      *)
(* tells nobody).                                                          *)
SeenAsTheyAre ==
    \A v, c \in Conn : Together(v, c) =>
        /\ seen[v][c] # None
        /\ \/ seen[v][c] = flags[c]
           \/ udpok[c] /\ seen[v][c] = flags[c] \cup {Plug}

(* A game client that stays with another is shown a plug that has gone; the *)
(* next answer to a ping is to show the flags again.                        *)
PlugStands(v, c) == Together(v, c) /\ Plug \notin flags[c] /\ Plug \in seen[v][c]
-----------------------------------------------------------------------------
(* Proofs: SeenAsTheyAre holds for any connections, flags and signs.       *)

\* The flags that are given are flags, and NULL is neither a connection nor some flags.
FlagAssumption ==
    /\ {Plug, Gavel} \subseteq Flag /\ Initial \in [Conn -> SUBSET Flag]
    /\ Signs \subseteq SUBSET Flag /\ None \notin Conn
    /\ \A fl \in SUBSET Flag : fl # None

IInv == TypeOK /\ SeenAsTheyAre

Views == [Conn -> [Conn -> (SUBSET Flag) \cup {None}]]

\* What v was shown of c, by the view sn, is what the flags fs and the UDP tests ok allow.
Right(v, c, sn, fs, ok) ==
    /\ sn[v][c] # None
    /\ sn[v][c] = fs[c] \/ (ok[c] /\ sn[v][c] = fs[c] \cup {Plug})

AllRight(ms, sn, fs, ok) == \A v, c \in ms : Right(v, c, sn, fs, ok)

\* Without its first entry for x, a list without repetitions has all the others.
LEMMA RemainingLemma ==
    ASSUME TypeOK, NEW c \in In
    PROVE  /\ Remaining(c) \in Seq(Conn) /\ IsInjective(Remaining(c))
           /\ ToSet(Remaining(c)) = In \ {c}
<1> DEFINE i == CHOOSE i \in DOMAIN members : members[i] = c
           n == Len(members)
           p == SubSeq(members, 1, i - 1)
           r == SubSeq(members, i + 1, n)
<1>1. n \in Nat /\ DOMAIN members = 1..n /\ \A j \in 1..n : members[j] \in Conn
  BY DEF TypeOK
<1>0. members \in Seq(Conn) /\ \A a, b \in 1..n : members[a] = members[b] => a = b
  BY <1>1 DEF TypeOK, IsInjective
<1>2. i \in 1..n /\ members[i] = c
  <2>1. \E j \in DOMAIN members : members[j] = c
    BY DEF In, ToSet
  <2> QED BY <1>1, <2>1
<1>3. \A j \in 1..n : j # i => members[j] # c
  BY <1>0, <1>2
<1> HIDE DEF i
<1>4. /\ p \in Seq(Conn) /\ Len(p) = i - 1 /\ \A j \in 1..(i - 1) : p[j] = members[j]
      /\ r \in Seq(Conn) /\ Len(r) = n - i /\ \A j \in 1..(n - i) : r[j] = members[i + j]
  <2>1. /\ p \in Seq(Conn) /\ Len(p) = i - 1 /\ \A j \in 1..(i - 1) : p[j] = members[j]
    BY <1>0, <1>2, SubSeqProperties
  <2>2. /\ r \in Seq(Conn) /\ Len(r) = n - i /\ \A j \in 1..(n - i) : r[j] = members[i + j]
    BY <1>0, <1>2, SubSeqProperties
  <2> QED BY <2>1, <2>2
<1>5. /\ p \o r \in Seq(Conn) /\ Len(p \o r) = n - 1
      /\ \A j \in 1..(n - 1) : (p \o r)[j] = IF j <= i - 1 THEN p[j] ELSE r[j - (i - 1)]
  <2> HIDE DEF p, r, n
  <2> QED BY <1>1, <1>2, <1>4, ConcatProperties
<1>6. Remaining(c) = p \o r
  BY DEF Remaining, RemoveAt, i
<1> HIDE DEF n, p, r
<1> DEFINE t == Remaining(c)
<1>7. /\ t \in Seq(Conn) /\ DOMAIN t = 1..(n - 1)
      /\ \A j \in 1..(n - 1) : t[j] = IF j < i THEN members[j] ELSE members[j + 1]
  <2>1. ASSUME NEW j \in 1..(n - 1)
        PROVE  (p \o r)[j] = IF j < i THEN members[j] ELSE members[j + 1]
    <3>1. CASE j < i
      BY <3>1, <1>1, <1>2, <1>4, <1>5
    <3>2. CASE ~(j < i)
      <4>1. j - (i - 1) \in 1..(n - i) /\ i + (j - (i - 1)) = j + 1
        BY <3>2, <1>1, <1>2
      <4>2. (p \o r)[j] = r[j - (i - 1)]
        <5>1. ~(j <= i - 1)
          BY <3>2, <1>1, <1>2
        <5> QED BY <5>1, <1>5
      <4> QED BY <3>2, <4>1, <4>2, <1>4
    <3> QED BY <3>1, <3>2
  <2>2. DOMAIN (p \o r) = 1..(n - 1)
    BY <1>5
  <2> QED BY <1>5, <1>6, <2>1, <2>2
<1> HIDE DEF t
<1>8. \A a, b \in 1..(n - 1) : t[a] = t[b] => a = b
  <2> TAKE a, b \in 1..(n - 1)
  <2>1. \E k \in 1..n : t[a] = members[k] /\ k = (IF a < i THEN a ELSE a + 1)
    BY <1>1, <1>2, <1>7
  <2>2. \E k \in 1..n : t[b] = members[k] /\ k = (IF b < i THEN b ELSE b + 1)
    BY <1>1, <1>2, <1>7
  <2> QED BY <2>1, <2>2, <1>0, <1>1, <1>2
<1>9. ASSUME NEW x \in {t[j] : j \in DOMAIN t} PROVE x \in In /\ x # c
  <2>1. PICK j \in 1..(n - 1) : x = t[j]
    BY <1>7
  <2>2. PICK k \in 1..n : x = members[k] /\ k # i
    BY <2>1, <1>1, <1>2, <1>7
  <2> QED BY <2>2, <1>1, <1>3 DEF In, ToSet
<1>10. ASSUME NEW x \in In, x # c PROVE x \in {t[j] : j \in DOMAIN t}
  <2>1. PICK j \in 1..n : x = members[j]
    BY <1>1 DEF In, ToSet
  <2>2. CASE j < i
    <3>1. j \in 1..(n - 1) /\ t[j] = members[j]
      BY <2>2, <1>1, <1>2, <1>7
    <3> QED BY <2>1, <3>1, <1>7
  <2>3. CASE j > i
    <3>1. j - 1 \in 1..(n - 1) /\ t[j - 1] = members[j]
      BY <2>3, <1>1, <1>2, <1>7
    <3> QED BY <2>1, <3>1, <1>7
  <2>4. j # i
    BY <2>1, <1>2, <1>10
  <2> QED BY <2>2, <2>3, <2>4, <1>2
<1>11. ToSet(t) = In \ {c}
  BY <1>9, <1>10 DEF ToSet
<1> QED BY <1>7, <1>8, <1>11 DEF t, IsInjective

\* Some numbers up to n, if any, have a greatest.
LEMMA MaxLemma ==
    ASSUME NEW n \in Nat, NEW I \in SUBSET (1..n), I # {}
    PROVE  Max(I) \in I
<1> DEFINE L == {p \in Nat \X Nat : p[1] < p[2]}
           J == {n - i : i \in I}
<1>1. IsWellFoundedOn(L, Nat)
  BY NatLessThanWellFounded DEF OpToRel
<1>2. J \in SUBSET Nat /\ J # {}
  <2>1. \A i \in I : n - i \in Nat
    OBVIOUS
  <2> QED BY <2>1
<1>3. PICK x \in J : \A y \in J : ~ (<<y, x>> \in L)
  <2> HIDE DEF J, L
  <2> QED BY <1>1, <1>2, WFMin
<1>4. PICK z \in I : x = n - z
  BY <1>3
<1>5. ASSUME NEW y \in I PROVE z >= y
  <2>1. <<n - y, n - z>> \in Nat \X Nat /\ ~(<<n - y, n - z>>[1] < <<n - y, n - z>>[2])
    BY <1>2, <1>3, <1>4
  <2>2. ~(n - y < n - z) /\ y \in 1..n /\ z \in 1..n
    BY <2>1
  <2> QED BY <2>2
<1> QED BY <1>4, <1>5 DEF Max

\* Who is chosen is one of the members, and neither the operator nor designated still.
LEMMA SuccessorLemma ==
    ASSUME TypeOK, NEW ms \in Seq(Conn), NEW d \in ToSet(ms) \cup {None}, d # None => d # opr
    PROVE  Successor(ms, d) \in (ToSet(ms) \ {opr}) \cup {None}
<1> DEFINE may == {i \in DOMAIN ms : ms[i] \in Eligible \ {opr}}
<1>1. may \in SUBSET (1..Len(ms)) /\ Len(ms) \in Nat /\ DOMAIN ms = 1..Len(ms)
  OBVIOUS
<1>2. CASE d # None
  BY <1>2 DEF Successor
<1>3. CASE d = None /\ may = {}
  BY <1>3 DEF Successor
<1>4. CASE d = None /\ may # {}
  <2>1. Max(may) \in may
    <3> HIDE DEF may
    <3> QED BY <1>1, <1>4, MaxLemma
  <2>2. Successor(ms, d) = ms[Max(may)]
    BY <1>4 DEF Successor
  <2> QED BY <1>1, <2>1, <2>2 DEF ToSet
<1> QED BY <1>2, <1>3, <1>4

\* conn_add_flags and conn_del_flags change what the members see of c if the flags change, and
\* nothing else.
LEMMA ChangedLemma ==
    ASSUME NEW sn \in Views, NEW ms \in SUBSET Conn, NEW c \in Conn, NEW old \in SUBSET Flag,
           NEW fl \in SUBSET Flag
    PROVE  /\ Changed(sn, ms, c, old, fl) \in Views
           /\ \A v, x \in Conn :
                 Changed(sn, ms, c, old, fl)[v][x] =
                     IF v \in ms /\ x = c /\ old # fl THEN fl ELSE sn[v][x]
<1>1. CASE old = fl
  BY <1>1 DEF Changed
<1>2. CASE old # fl
  BY <1>2 DEF Changed, Told, Views
<1> QED BY <1>1, <1>2

\* Whoever is told of a change sees the flags as they are from then on, and who was right
\* before stays so when nothing changes.
LEMMA ChangedRight ==
    ASSUME FlagAssumption, NEW sn \in Views, NEW ms \in SUBSET Conn, NEW c \in Conn,
           NEW fl \in SUBSET Flag,
           NEW fs \in [Conn -> SUBSET Flag], NEW ok, AllRight(ms, sn, fs, ok)
    PROVE  /\ Changed(sn, ms, c, fs[c], fl) \in Views
           /\ AllRight(ms, Changed(sn, ms, c, fs[c], fl), [fs EXCEPT ![c] = fl], ok)
<1> DEFINE tn == Changed(sn, ms, c, fs[c], fl)
<1>0. fs[c] \in SUBSET Flag
  OBVIOUS
<1>1. /\ tn \in Views
      /\ \A v, x \in Conn : tn[v][x] = IF v \in ms /\ x = c /\ fs[c] # fl THEN fl ELSE sn[v][x]
  <2>1. tn = Changed(sn, ms, c, fs[c], fl)
    OBVIOUS
  <2> HIDE DEF tn
  <2> DEFINE old == fs[c]
  <2>2. old \in SUBSET Flag /\ tn = Changed(sn, ms, c, old, fl)
    BY <1>0, <2>1
  <2> HIDE DEF old
  <2>3. /\ tn \in Views
        /\ \A v, x \in Conn : tn[v][x] = IF v \in ms /\ x = c /\ old # fl THEN fl ELSE sn[v][x]
    BY <2>2, ChangedLemma
  <2> QED BY <2>3 DEF old
<1> HIDE DEF tn
<1>2. ASSUME NEW v \in ms, NEW x \in ms PROVE Right(v, x, tn, [fs EXCEPT ![c] = fl], ok)
  <2>1. Right(v, x, sn, fs, ok)
    BY DEF AllRight
  <2>2. CASE x = c /\ fs[c] # fl
    BY <1>1, <2>2 DEF Right, FlagAssumption
  <2>3. CASE ~(x = c /\ fs[c] # fl)
    <3>1. tn[v][x] = sn[v][x] /\ [fs EXCEPT ![c] = fl][x] = fs[x]
      BY <1>1, <2>3
    <3> QED BY <2>1, <3>1 DEF Right
  <2> QED BY <2>2, <2>3
<1> QED BY <1>1, <1>2 DEF AllRight, tn

\* The gavel is taken from o and given to n, who is another or nobody.
LEMMA PassedLemma ==
    ASSUME FlagAssumption, NEW sn \in Views, NEW ms \in SUBSET Conn, NEW o \in Conn,
           NEW n \in Conn \cup {None}, n # o,
           flags \in [Conn -> SUBSET Flag], NEW ok, AllRight(ms, sn, flags, ok)
    PROVE  /\ Passed(sn, ms, o, n) \in Views /\ PassedFlags(o, n) \in [Conn -> SUBSET Flag]
           /\ AllRight(ms, Passed(sn, ms, o, n), PassedFlags(o, n), ok)
<1> DEFINE less == flags[o] \ {Gavel}
           fs == [flags EXCEPT ![o] = less]
           took == Changed(sn, ms, o, flags[o], less)
<1>1. less \in SUBSET Flag /\ fs \in [Conn -> SUBSET Flag] /\ flags[o] \in SUBSET Flag
  OBVIOUS
<1>2. took \in Views /\ AllRight(ms, took, fs, ok)
  BY <1>1, ChangedRight
<1>3. CASE n = None
  <2>1. PassedFlags(o, n) = fs
    BY <1>3 DEF PassedFlags, FlagAssumption
  <2>2. Passed(sn, ms, o, n) = took
    BY <1>3 DEF Passed
  <2> HIDE DEF fs, took
  <2> QED BY <2>1, <2>2, <1>1, <1>2
<1>4. CASE n # None
  <2> DEFINE more == flags[n] \cup {Gavel}
             gs == [fs EXCEPT ![n] = more]
  <2>1. more \in SUBSET Flag /\ n \in Conn /\ fs[n] = flags[n]
    BY <1>4 DEF FlagAssumption
  <2>2. PassedFlags(o, n) = gs /\ gs \in [Conn -> SUBSET Flag]
    BY <1>1, <2>1 DEF PassedFlags
  <2>3. Passed(sn, ms, o, n) = Changed(took, ms, n, fs[n], more)
    BY <1>4, <2>1 DEF Passed
  <2> HIDE DEF fs, took, more
  <2>4. /\ Changed(took, ms, n, fs[n], more) \in Views
        /\ AllRight(ms, Changed(took, ms, n, fs[n], more), [fs EXCEPT ![n] = more], ok)
    BY <1>1, <1>2, <2>1, ChangedRight
  <2> QED BY <2>2, <2>3, <2>4
<1> QED BY <1>3, <1>4

\* SeenAsTheyAre of the members.
LEMMA SeenAll ==
    ASSUME In \in SUBSET Conn
    PROVE  SeenAsTheyAre <=> AllRight(In, seen, flags, udpok)
BY DEF SeenAsTheyAre, Together, AllRight, Right

\* The newcomer and the others have just been shown each other.
LEMMA ShowsLemma ==
    ASSUME FlagAssumption, IInv, NEW c \in Conn
    PROVE  Shows(c) \in Views /\ AllRight(In \cup {c}, Shows(c), flags, udpok)
<1>1. In \in SUBSET Conn /\ flags \in [Conn -> SUBSET Flag] /\ seen \in Views
  BY DEF IInv, TypeOK, In, ToSet, Views
<1>2. AllRight(In, seen, flags, udpok)
  BY <1>1, SeenAll DEF IInv
<1>3. Shows(c) \in Views
  BY <1>1 DEF Shows, Views
<1>4. ASSUME NEW v \in In \cup {c}, NEW x \in In \cup {c} PROVE Right(v, x, Shows(c), flags, udpok)
  <2>1. CASE v = c \/ x = c
    <3>1. Shows(c)[v][x] = flags[x]
      BY <2>1, <1>1 DEF Shows, Views
    <3> QED BY <3>1, <1>1 DEF Right, FlagAssumption
  <2>2. CASE v # c /\ x # c
    <3>1. Shows(c)[v][x] = seen[v][x]
      BY <2>2, <1>1 DEF Shows, Views
    <3> QED BY <2>2, <3>1, <1>2 DEF Right, AllRight
  <2> QED BY <2>1, <2>2
<1> QED BY <1>3, <1>4 DEF AllRight

\* A client joins the channel.
LEMMA JoinLemma ==
    ASSUME FlagAssumption, IInv, NEW c \in Conn, Join(c)
    PROVE  IInv'
<1>1. /\ members' \in Seq(Conn) /\ IsInjective(members') /\ In' = In \cup {c}
  <2>1. members \in Seq(Conn) /\ c \notin In /\ members' = <<c>> \o members
    BY DEF IInv, TypeOK, Join
  <2>2. /\ members' \in Seq(Conn) /\ DOMAIN members' = 1..(Len(members) + 1)
        /\ members'[1] = c
        /\ \A k \in 2..(Len(members) + 1) : members'[k] = members[k - 1]
    BY <2>1
  <2>3. Len(members) \in Nat /\ DOMAIN members = 1..Len(members)
        /\ \A a, b \in 1..Len(members) : members[a] = members[b] => a = b
    BY <2>1 DEF IInv, TypeOK, IsInjective
  <2>4. \A k \in 1..Len(members) : members[k] \in In
    BY <2>3 DEF In, ToSet
  <2>5. ASSUME NEW a \in 1..(Len(members) + 1), NEW b \in 1..(Len(members) + 1),
               members'[a] = members'[b]
        PROVE  a = b
    <3>1. \A k \in 2..(Len(members) + 1) : members'[k] # c
      BY <2>1, <2>2, <2>3, <2>4
    <3>2. CASE a = 1 \/ b = 1
      BY <3>1, <3>2, <2>2, <2>3, <2>5
    <3>3. CASE a # 1 /\ b # 1
      <4>1. a - 1 \in 1..Len(members) /\ b - 1 \in 1..Len(members)
            /\ members[a - 1] = members[b - 1]
        BY <3>3, <2>2, <2>3, <2>5
      <4> QED BY <4>1, <2>3
    <3> QED BY <3>2, <3>3
  <2>6. In' = In \cup {c}
    <3>1. ASSUME NEW x \in In' PROVE x \in In \cup {c}
      <4>1. PICK k \in 1..(Len(members) + 1) : x = members'[k]
        BY <2>2 DEF In, ToSet
      <4> QED BY <4>1, <2>2, <2>3, <2>4
    <3>2. ASSUME NEW x \in In PROVE x \in In'
      <4>1. PICK k \in 1..Len(members) : x = members[k]
        BY <2>3 DEF In, ToSet
      <4>2. k + 1 \in DOMAIN members' /\ members'[k + 1] = x
        BY <4>1, <2>2, <2>3
      <4> QED BY <4>2 DEF In, ToSet
    <3>3. c \in In'
      <4>1. 1 \in DOMAIN members'
        BY <2>2, <2>3
      <4> QED BY <4>1, <2>2 DEF In, ToSet
    <3> QED BY <3>1, <3>2, <3>3
  <2> QED BY <2>2, <2>5, <2>6 DEF IsInjective
<1>2. Shows(c) \in Views /\ AllRight(In \cup {c}, Shows(c), flags, udpok)
  BY ShowsLemma
<1>3. In \cup {c} \in SUBSET Conn /\ flags \in [Conn -> SUBSET Flag]
  BY DEF IInv, TypeOK, In, ToSet
<1>4. /\ seen' \in Views /\ flags' \in [Conn -> SUBSET Flag]
      /\ AllRight(In \cup {c}, seen', flags', udpok)
  <2>1. CASE opr = None /\ designee = None /\ c \in Eligible
    <3> DEFINE more == flags[c] \cup {Gavel}
    <3>1. /\ flags' = [flags EXCEPT ![c] = more] /\ more \in SUBSET Flag
          /\ seen' = Changed(Shows(c), In \cup {c}, c, flags[c], more)
      BY <2>1, <1>3 DEF Join, FlagAssumption
    <3> HIDE DEF more
    <3> QED BY <3>1, <1>2, <1>3, ChangedRight
  <2>2. CASE ~(opr = None /\ designee = None /\ c \in Eligible)
    BY <2>2, <1>2, <1>3 DEF Join
  <2> QED BY <2>1, <2>2
<1>5. /\ {opr', designee'} \subseteq In' \cup {None} /\ (designee' # None => designee' # opr')
      /\ UNCHANGED <<state, udp>>
  BY <1>1 DEF Join, IInv, TypeOK
<1>6. \A x \in In' : state'[x] = "loggedin"
  BY <1>1, <1>5 DEF Join, IInv, TypeOK
<1>7. TypeOK'
  BY <1>1, <1>4, <1>5, <1>6 DEF IInv, TypeOK, Views, udp
<1>8. SeenAsTheyAre'
  BY <1>1, <1>3, <1>4, <1>5 DEF SeenAsTheyAre, Together, AllRight, Right, udp
<1> QED BY <1>7, <1>8 DEF IInv

\* A member leaves the channel, alone or with its connection; g are the flags after it,
\* those of who left whatever they are, and ok the UDP tests.
LEMMA LeavesLemma ==
    ASSUME FlagAssumption, IInv, NEW c \in Conn, Leaves(c),
           \A x \in Conn \ {c} : flags'[x] = LeftFlags(c)[x] /\ udpok'[x] = udpok[x],
           flags' \in [Conn -> SUBSET Flag],
           state' \in [Conn -> {"initial", "connected", "loggedin"}],
           \A x \in Conn \ {c} : state'[x] = state[x],
           test' \in [Conn -> BOOLEAN], udpok' \in [Conn -> BOOLEAN]
    PROVE  IInv'
<1> DEFINE ms == In \ {c}
           n == Successor(Remaining(c), Designated(c))
<1>1. /\ members' \in Seq(Conn) /\ IsInjective(members') /\ In' = ms
      /\ Remaining(c) \in Seq(Conn) /\ ToSet(Remaining(c)) = ms
  BY RemainingLemma DEF Leaves, In, IInv
<1>2. In \in SUBSET Conn /\ ms \in SUBSET Conn /\ flags \in [Conn -> SUBSET Flag] /\ seen \in Views
  BY DEF IInv, TypeOK, In, ToSet, Views
<1>3. Parted(c) \in Views /\ AllRight(ms, Parted(c), flags, udpok)
  <2>1. Parted(c) \in Views /\ \A v, x \in ms : Parted(c)[v][x] = seen[v][x]
    BY <1>2 DEF Parted, Nobody, Views
  <2>2. AllRight(In, seen, flags, udpok)
    BY <1>2, SeenAll DEF IInv
  <2> QED BY <2>1, <2>2 DEF AllRight, Right
<1>4. /\ Designated(c) \in ToSet(Remaining(c)) \cup {None}
      /\ Designated(c) # None => Designated(c) # opr
  BY <1>1 DEF Designated, IInv, TypeOK
<1>5. n \in (ms \ {opr}) \cup {None}
  BY <1>1, <1>4, SuccessorLemma DEF IInv
<1> DEFINE sn == IF c = opr THEN Passed(Parted(c), ms, c, n) ELSE Parted(c)
<1>6. seen' = sn
  BY DEF Leaves
<1>7. sn \in Views /\ AllRight(ms, sn, LeftFlags(c), udpok)
  <2>1. CASE c = opr
    <3>1. n \in Conn \cup {None} /\ n # c
      BY <2>1, <1>2, <1>5 DEF FlagAssumption
    <3>2. LeftFlags(c) = PassedFlags(c, n) /\ sn = Passed(Parted(c), ms, c, n)
      BY <2>1 DEF LeftFlags
    <3> HIDE DEF n, sn
    <3> QED BY <3>1, <3>2, <1>2, <1>3, PassedLemma
  <2>2. CASE c # opr
    BY <2>2, <1>3 DEF LeftFlags
  <2> QED BY <2>1, <2>2
<1> HIDE DEF n, sn
<1>8. SeenAsTheyAre'
  BY <1>1, <1>2, <1>6, <1>7 DEF SeenAsTheyAre, Together, AllRight, Right
<1>9. {opr', designee'} \subseteq ms \cup {None} /\ (designee' # None => designee' # opr')
  BY <1>1, <1>4, <1>5 DEF Leaves, IInv, TypeOK, n
<1>10. \A x \in ms : state'[x] = "loggedin"
  BY <1>2 DEF IInv, TypeOK
<1>11. TypeOK'
  BY <1>1, <1>6, <1>7, <1>9, <1>10 DEF TypeOK, Views
<1> QED BY <1>8, <1>11 DEF IInv

\* Nobody joins, leaves, or is elected; who is told of the flags fl of c, which are its own
\* now, and who is not told, agree with SeenAsTheyAre.
LEMMA StayLemma ==
    ASSUME FlagAssumption, TypeOK', UNCHANGED members,
           AllRight(In, seen', flags', udpok')
    PROVE  IInv'
<1>1. In' = In
  BY DEF In
<1>2. In \in SUBSET Conn
  BY <1>1 DEF TypeOK, In, ToSet
<1> QED BY <1>1, <1>2 DEF IInv, SeenAsTheyAre, Together, AllRight, Right

\* What the members are told of flags that are so.
LEMMA TellLemma ==
    ASSUME FlagAssumption, IInv, NEW c \in Conn, NEW ms \in SUBSET In,
           seen' = Told(seen, ms, c, flags[c]), UNCHANGED <<state, flags, udp, channel>>
    PROVE  IInv'
<1>1. /\ In \in SUBSET Conn /\ ms \in SUBSET Conn /\ seen \in Views
      /\ flags[c] \in SUBSET Flag /\ AllRight(In, seen, flags, udpok)
  <2>1. In \in SUBSET Conn /\ seen \in Views /\ flags[c] \in SUBSET Flag
    BY DEF IInv, TypeOK, In, ToSet, Views
  <2> QED BY <2>1, SeenAll DEF IInv
<1>2. /\ seen' \in Views
      /\ \A v, x \in Conn : seen'[v][x] = IF v \in ms /\ x = c THEN flags[c] ELSE seen[v][x]
  BY <1>1 DEF Told, Views
<1>3. AllRight(In, seen', flags, udpok)
  BY <1>1, <1>2 DEF AllRight, Right, FlagAssumption
<1>4. TypeOK'
  BY <1>2 DEF IInv, TypeOK, udp, channel, In, Views
<1> QED BY <1>3, <1>4, StayLemma DEF udp, channel

\* Connections, before they log in and while nobody is told.
LEMMA ConnectionLemma ==
    ASSUME FlagAssumption, IInv, NEW c \in Conn,
           Connect(c) \/ SessionAddr(c) \/ TestLost(c) \/ UdpOk(c) \/ Login(c)
    PROVE  IInv'
<1>1. /\ In \in SUBSET Conn /\ AllRight(In, seen, flags, udpok)
      /\ UNCHANGED <<channel, seen>> /\ UNCHANGED members
  <2>1. In \in SUBSET Conn
    BY DEF IInv, TypeOK, In, ToSet
  <2> QED BY <2>1, SeenAll DEF IInv, Connect, SessionAddr, TestLost, UdpOk, Login, channel
<1>2. In' = In
  BY <1>1 DEF In
<1>3. CASE Connect(c)
  <2>1. c \notin In
    BY <1>3 DEF Connect, IInv, TypeOK
  <2>2. TypeOK'
    BY <1>1, <1>2, <1>3, <2>1 DEF Connect, IInv, TypeOK, channel, FlagAssumption
  <2>3. AllRight(In, seen', flags', udpok')
    BY <1>1, <1>3, <2>1 DEF Connect, AllRight, Right, IInv, TypeOK
  <2> QED BY <1>1, <2>2, <2>3, StayLemma
<1>4. CASE Login(c)
  <2>1. c \notin In
    BY <1>4 DEF Login, IInv, TypeOK
  <2>2. TypeOK'
    BY <1>1, <1>2, <1>4, <2>1 DEF Login, IInv, TypeOK, udp, channel, FlagAssumption
  <2>3. AllRight(In, seen', flags', udpok')
    BY <1>1, <1>4, <2>1 DEF Login, AllRight, Right, IInv, TypeOK, udp
  <2> QED BY <1>1, <2>2, <2>3, StayLemma
<1>5. CASE SessionAddr(c) \/ TestLost(c)
  <2>1. TypeOK'
    BY <1>1, <1>2, <1>5 DEF SessionAddr, TestLost, IInv, TypeOK, channel
  <2>2. AllRight(In, seen', flags', udpok')
    BY <1>1, <1>5 DEF SessionAddr, TestLost
  <2> QED BY <1>1, <2>1, <2>2, StayLemma
<1>6. CASE UdpOk(c)
  <2>1. TypeOK'
    BY <1>1, <1>2, <1>6 DEF UdpOk, IInv, TypeOK, channel
  <2>2. ASSUME NEW v \in In, NEW x \in In PROVE Right(v, x, seen', flags', udpok')
    <3>1. Right(v, x, seen, flags, udpok)
      BY <1>1 DEF AllRight
    <3>2. CASE x # c \/ udpok[c]
      <4>1. flags'[x] = flags[x] /\ udpok'[x] = udpok[x]
        BY <1>1, <1>6, <3>2 DEF UdpOk, IInv, TypeOK
      <4> QED BY <1>1, <3>1, <4>1 DEF Right
    <3>3. CASE x = c /\ ~udpok[c]
      <4>1. seen[v][c] = flags[c] /\ seen[v][c] # None
        BY <3>1, <3>3 DEF Right
      <4>2. flags'[c] = flags[c] \ {Plug} /\ udpok'[c]
        BY <1>6, <3>3 DEF UdpOk, IInv, TypeOK
      <4>3. flags[c] = flags'[c] \/ flags[c] = flags'[c] \cup {Plug}
        BY <4>2
      <4> QED BY <1>1, <3>3, <4>1, <4>2, <4>3 DEF Right
    <3> QED BY <3>2, <3>3
  <2>3. AllRight(In, seen', flags', udpok')
    BY <2>2 DEF AllRight
  <2> QED BY <1>1, <2>1, <2>3, StayLemma
<1> QED BY <1>3, <1>4, <1>5, <1>6

\* /flag
LEMMA SetFlagsLemma ==
    ASSUME FlagAssumption, IInv, NEW c \in Conn, NEW fl \in Signs, SetFlags(c, fl)
    PROVE  IInv'
<1>1. /\ In \in SUBSET Conn /\ seen \in Views /\ flags \in [Conn -> SUBSET Flag]
      /\ fl \in SUBSET Flag
  BY DEF IInv, TypeOK, In, ToSet, Views, FlagAssumption
<1>2. AllRight(In, seen, flags, udpok)
  BY <1>1, SeenAll DEF IInv
<1>3. flags' = [flags EXCEPT ![c] = fl] /\ UNCHANGED <<state, udp, channel>>
  BY DEF SetFlags
<1>4. seen' \in Views /\ AllRight(In, seen', flags', udpok)
  <2>1. CASE c \in In
    <3>1. seen' = Changed(seen, In, c, flags[c], fl)
      BY <2>1 DEF SetFlags
    <3> QED BY <3>1, <1>1, <1>2, <1>3, ChangedRight
  <2>2. CASE c \notin In
    BY <2>2, <1>1, <1>2, <1>3 DEF SetFlags, AllRight, Right
  <2> QED BY <2>1, <2>2
<1>5. TypeOK'
  BY <1>1, <1>3, <1>4 DEF IInv, TypeOK, udp, channel, In, Views
<1> QED BY <1>3, <1>4, <1>5, StayLemma DEF udp, channel

\* /resign
LEMMA ResignLemma == ASSUME FlagAssumption, IInv, Resign PROVE IInv'
<1> DEFINE n == Successor(members, designee)
<1>1. /\ In \in SUBSET Conn /\ seen \in Views /\ flags \in [Conn -> SUBSET Flag]
      /\ opr \in In /\ members \in Seq(Conn) /\ ToSet(members) = In
  BY DEF IInv, TypeOK, In, ToSet, Views, Resign
<1>2. AllRight(In, seen, flags, udpok)
  BY <1>1, SeenAll DEF IInv
<1>3. n \in (In \ {opr}) \cup {None}
  BY <1>1, SuccessorLemma DEF IInv, TypeOK
<1>4. /\ opr' = n /\ flags' = PassedFlags(opr, n) /\ seen' = Passed(seen, In, opr, n)
      /\ designee' = None /\ UNCHANGED <<state, udp, members>>
  BY DEF Resign
<1> HIDE DEF n
<1>5. n \in Conn \cup {None} /\ n # opr /\ opr \in Conn
  BY <1>1, <1>3 DEF FlagAssumption
<1>6. /\ seen' \in Views /\ flags' \in [Conn -> SUBSET Flag]
      /\ AllRight(In, seen', flags', udpok)
  BY <1>1, <1>2, <1>4, <1>5, PassedLemma
<1>7. TypeOK'
  BY <1>1, <1>3, <1>4, <1>6 DEF IInv, TypeOK, udp, In, Views
<1> QED BY <1>4, <1>6, <1>7, StayLemma DEF udp

\* A member leaves, and stays connected or does not.
LEMMA GoLemma ==
    ASSUME FlagAssumption, IInv, NEW c \in Conn, Leave(c) \/ Destroy(c)
    PROVE  IInv'
<1>1. ASSUME Leaves(c) PROVE LeftFlags(c) \in [Conn -> SUBSET Flag]
  <2>1. flags \in [Conn -> SUBSET Flag] /\ Gavel \in Flag
    BY DEF IInv, TypeOK, FlagAssumption
  <2>2. PassedFlags(c, Successor(Remaining(c), Designated(c))) \in [Conn -> SUBSET Flag]
    BY <2>1 DEF PassedFlags
  <2> QED BY <2>1, <2>2 DEF LeftFlags
<1>2. CASE Leave(c)
  BY <1>1, <1>2, LeavesLemma DEF Leave, udp, IInv, TypeOK
<1>3. CASE Destroy(c)
  <2>1. /\ state' = [state EXCEPT ![c] = "initial"] /\ test' = [test EXCEPT ![c] = FALSE]
        /\ udpok' = [udpok EXCEPT ![c] = FALSE]
    BY <1>3 DEF Destroy
  <2>2. CASE Leaves(c) /\ flags' = [LeftFlags(c) EXCEPT ![c] = {Plug}]
    <3> DEFINE lf == LeftFlags(c)
    <3>1. lf \in [Conn -> SUBSET Flag] /\ Leaves(c) /\ flags' = [lf EXCEPT ![c] = {Plug}]
      BY <1>1, <2>2
    <3>2. /\ flags' \in [Conn -> SUBSET Flag] /\ \A x \in Conn \ {c} : flags'[x] = lf[x]
      <4> HIDE DEF lf
      <4> QED BY <3>1 DEF FlagAssumption
    <3>3. /\ state' \in [Conn -> {"initial", "connected", "loggedin"}]
          /\ test' \in [Conn -> BOOLEAN] /\ udpok' \in [Conn -> BOOLEAN]
          /\ \A x \in Conn \ {c} : state'[x] = state[x] /\ udpok'[x] = udpok[x]
      BY <2>1 DEF IInv, TypeOK
    <3> QED BY <3>1, <3>2, <3>3, LeavesLemma
  <2>3. CASE c \notin In /\ flags' = [flags EXCEPT ![c] = {Plug}] /\ UNCHANGED <<channel, seen>>
    <3>1. In \in SUBSET Conn /\ In' = In
      BY <2>3 DEF IInv, TypeOK, In, ToSet, channel
    <3>2. AllRight(In, seen, flags, udpok)
      BY <3>1, SeenAll DEF IInv
    <3>3. AllRight(In, seen', flags', udpok')
      BY <2>1, <2>3, <3>1, <3>2 DEF AllRight, Right, IInv, TypeOK
    <3>4. TypeOK'
      BY <2>1, <2>3, <3>1 DEF IInv, TypeOK, channel, FlagAssumption
    <3> QED BY <2>3, <3>3, <3>4, StayLemma DEF channel
  <2> QED BY <1>3, <2>2, <2>3 DEF Destroy
<1> QED BY <1>2, <1>3

\* Every step keeps the invariant.
LEMMA NextIInv == ASSUME FlagAssumption, IInv, [Next]_vars PROVE IInv'
<1>1. ASSUME NEW c \in Conn, SetLatency(c) \/ SetTag(c) PROVE IInv'
  <2>1. In \cap Bnet \in SUBSET In /\ In \in SUBSET In
    OBVIOUS
  <2> QED BY <1>1, <2>1, TellLemma DEF SetLatency, SetTag
<1>2. ASSUME NEW c \in Conn, NEW deaf \in Deaf, Talk(c, deaf) PROVE IInv'
  <2>1. (In \ {c}) \ deaf \in SUBSET In
    OBVIOUS
  <2> QED BY <1>2, <2>1, TellLemma DEF Talk
<1>3. ASSUME NEW c \in Conn, NEW n \in Conn, Designate(c, n) PROVE IInv'
  <2>1. TypeOK' /\ UNCHANGED <<members, seen, flags, udpok>>
    BY <1>3 DEF Designate, IInv, TypeOK, udp, In
  <2>2. In \in SUBSET Conn
    BY DEF IInv, TypeOK, In, ToSet
  <2>3. AllRight(In, seen, flags, udpok)
    BY <2>2, SeenAll DEF IInv
  <2> QED BY <2>1, <2>3, StayLemma
<1>4. CASE UNCHANGED vars
  BY <1>4 DEF vars, IInv, TypeOK, SeenAsTheyAre, Together, In
<1> QED BY <1>1, <1>2, <1>3, <1>4, ConnectionLemma, JoinLemma, GoLemma, SetFlagsLemma,
           ResignLemma DEF Next

\* Nobody is a member at first.
LEMMA InitIInv == ASSUME FlagAssumption, Init PROVE IInv
<1>1. In = {}
  BY DEF Init, In, ToSet
<1>2. members \in Seq(Conn) /\ IsInjective(members)
  BY DEF Init, IsInjective
<1> QED BY <1>1, <1>2 DEF Init, IInv, TypeOK, SeenAsTheyAre, Together, Nobody, FlagAssumption

\* Each member of a channel is shown every member's flags as they are, but for the plug of
\* one whose UDP test came through after he joined, for any members, flags and signs.
THEOREM SeenAlways == ASSUME FlagAssumption PROVE Spec => []SeenAsTheyAre
<1>1. IInv => SeenAsTheyAre
  BY DEF IInv
<1> QED BY <1>1, InitIInv, NextIInv, PTL DEF Spec

=============================================================================
