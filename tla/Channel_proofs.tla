--------------------------- MODULE Channel_proofs ---------------------------
(* Channel's safety properties for any number of users, channels, locales    *)
(* and instances, and any channel.list.                                      *)
(*                                                                           *)
(* The handlers are operators from a chat state to a chat state, so the      *)
(* invariant is stated of a chat state, and there is one lemma for each      *)
(* operator.  On the way from one channel to another a user is in none, and  *)
(* a channel made for him is still empty: the invariant names the user and   *)
(* the channel for which it does not hold yet.                               *)
EXTENDS Channel, FiniteSetTheorems, SequenceTheorems, WellFoundedInduction, TLAPS

-----------------------------------------------------------------------------
(* Sequences and numbers.                                                    *)

Less == {p \in Nat \X Nat : p[1] < p[2]}

\* Some positions of a list, if any, have a first.
LEMMA FirstLemma ==
    ASSUME NEW I \in SUBSET Nat, I # {}
    PROVE  \E x \in I : \A y \in I : x <= y
<1>1. IsWellFoundedOn(Less, Nat)
  BY NatLessThanWellFounded DEF OpToRel, Less
<1>2. PICK x \in I : \A y \in I : ~ (<<y, x>> \in Less)
  BY <1>1, WFMin
<1>3. ASSUME NEW y \in I PROVE x <= y
  <2>1. <<y, x>> \in Nat \X Nat /\ ~(<<y, x>>[1] < <<y, x>>[2])
    BY <1>2 DEF Less
  <2> QED BY <2>1
<1> QED BY <1>3

\* And a last.
LEMMA LastLemma ==
    ASSUME NEW n \in Nat, NEW I \in SUBSET (1..n), I # {}
    PROVE  \E x \in I : \A y \in I : y <= x
<1> DEFINE J == {n - i : i \in I}
<1>1. J \in SUBSET Nat /\ J # {}
  <2>1. \A i \in I : n - i \in Nat
    OBVIOUS
  <2> QED BY <2>1
<1>2. PICK x \in J : \A y \in J : x <= y
  BY <1>1, FirstLemma
<1>3. PICK z \in I : x = n - z
  OBVIOUS
<1>4. ASSUME NEW y \in I PROVE y <= z
  <2>1. n - z <= n - y
    BY <1>2, <1>3
  <2>2. z \in 1..n /\ y \in 1..n
    OBVIOUS
  <2> QED BY <2>1, <2>2
<1> QED BY <1>4

\* A list loses its one entry for x.
LEMMA UnlinkLemma ==
    ASSUME NEW S, NEW q \in Seq(S), NEW x \in Elems(q), NoDup(q)
    PROVE  /\ Unlink(q, x) \in Seq(S) /\ NoDup(Unlink(q, x))
           /\ Elems(Unlink(q, x)) = Elems(q) \ {x}
           /\ Len(Unlink(q, x)) = Len(q) - 1
<1> DEFINE P(j) == q[j] = x /\ \A k \in 1..(j-1) : q[k] # x
           i == CHOOSE j \in DOMAIN q : P(j)
           t == Unlink(q, x)
<1>1. Len(q) \in Nat /\ DOMAIN q = 1..Len(q) /\ \A j \in 1..Len(q) : q[j] \in S
  OBVIOUS
<1>2. \E j \in DOMAIN q : P(j)
  <2>1. PICK j \in DOMAIN q : q[j] = x
    BY DEF Elems
  <2>2. \A k \in 1..(j-1) : k \in DOMAIN q /\ k # j
    BY <1>1
  <2> QED BY <2>1, <2>2 DEF NoDup
<1>3. i \in DOMAIN q /\ q[i] = x
  BY <1>2
<1>4. t = [k \in 1..(Len(q)-1) |-> IF k < i THEN q[k] ELSE q[k+1]]
  BY DEF Unlink
<1> HIDE DEF i, P
<1>5. t \in Seq(S) /\ Len(t) = Len(q) - 1 /\ DOMAIN t = 1..(Len(q) - 1)
  <2>1. Len(q) - 1 \in Nat
    BY <1>1, <1>3
  <2>2. \A k \in 1..(Len(q)-1) : (IF k < i THEN q[k] ELSE q[k+1]) \in S
    BY <1>1, <1>3
  <2>3. t \in [1..(Len(q)-1) -> S]
    BY <1>4, <2>2
  <2> QED BY <2>1, <2>3
<1>6. NoDup(t)
  <2>1. SUFFICES ASSUME NEW a \in 1..(Len(q) - 1), NEW b \in 1..(Len(q) - 1), t[a] = t[b]
                 PROVE  a = b
    BY <1>5 DEF NoDup
  <2>2. PICK k \in 1..Len(q) : t[a] = q[k] /\ k = (IF a < i THEN a ELSE a + 1)
    BY <1>1, <1>3, <1>4
  <2>3. PICK m \in 1..Len(q) : t[b] = q[m] /\ m = (IF b < i THEN b ELSE b + 1)
    BY <1>1, <1>3, <1>4
  <2>4. k = m
    BY <2>1, <2>2, <2>3, <1>1 DEF NoDup
  <2> QED BY <2>2, <2>3, <2>4, <1>1, <1>3
<1>7. Elems(t) \subseteq Elems(q) \ {x}
  <2>1. SUFFICES ASSUME NEW a \in 1..(Len(q) - 1) PROVE t[a] \in Elems(q) /\ t[a] # x
    BY <1>5 DEF Elems
  <2>2. PICK k \in 1..Len(q) : t[a] = q[k] /\ k # i
    BY <1>1, <1>3, <1>4
  <2> QED BY <2>2, <1>1, <1>3 DEF Elems, NoDup
<1>8. Elems(q) \ {x} \subseteq Elems(t)
  <2>1. SUFFICES ASSUME NEW a \in 1..Len(q), q[a] # x PROVE q[a] \in Elems(t)
    BY <1>1 DEF Elems
  <2>2. CASE a < i
    <3>1. a \in DOMAIN t /\ t[a] = q[a]
      BY <2>2, <1>1, <1>3, <1>4, <1>5
    <3> QED BY <3>1 DEF Elems
  <2>3. CASE a > i
    <3>1. a - 1 \in DOMAIN t /\ t[a - 1] = q[a]
      BY <2>3, <1>1, <1>3, <1>4, <1>5
    <3> QED BY <3>1 DEF Elems
  <2> QED BY <2>1, <2>2, <2>3, <1>1, <1>3
<1> QED BY <1>5, <1>6, <1>7, <1>8

\* A list gets x in front of the others.
LEMMA PrependLemma ==
    ASSUME NEW S, NEW q \in Seq(S), NEW x \in S, x \notin Elems(q), NoDup(q)
    PROVE  /\ <<x>> \o q \in Seq(S) /\ NoDup(<<x>> \o q)
           /\ Elems(<<x>> \o q) = Elems(q) \cup {x}
           /\ Len(<<x>> \o q) = Len(q) + 1
           /\ (<<x>> \o q)[1] = x
           /\ \A i \in 1..Len(q) : (<<x>> \o q)[i + 1] = q[i]
<1> DEFINE t == <<x>> \o q
<1>1. /\ t \in Seq(S)
      /\ Len(t) = Len(q) + 1
      /\ t[1] = x
      /\ \A i \in 2..Len(t) : t[i] = q[i-1]
  OBVIOUS
<1>2. \A i \in 1..Len(q) : t[i + 1] = q[i]
  BY <1>1
<1> HIDE DEF t
<1>3. DOMAIN t = 1..(Len(q) + 1) /\ DOMAIN q = 1..Len(q) /\ Len(q) \in Nat
  BY <1>1
<1>4. \A i \in DOMAIN q : q[i] # x
  BY DEF Elems
<1>5. NoDup(t)
  <2>1. SUFFICES ASSUME NEW a \in 1..(Len(q) + 1), NEW b \in 1..(Len(q) + 1), t[a] = t[b]
                 PROVE  a = b
    BY <1>3 DEF NoDup
  <2>2. CASE a = 1 \/ b = 1
    <3>1. ASSUME NEW c \in 1..(Len(q) + 1), c # 1 PROVE t[c] # x
      <4>1. c - 1 \in DOMAIN q /\ t[c] = q[c - 1]
        BY <3>1, <1>1, <1>3
      <4> QED BY <4>1, <1>4
    <3> QED BY <2>1, <2>2, <3>1, <1>1
  <2>3. CASE a # 1 /\ b # 1
    <3>1. a - 1 \in DOMAIN q /\ b - 1 \in DOMAIN q /\ q[a - 1] = q[b - 1]
      BY <2>1, <2>3, <1>1, <1>3
    <3> QED BY <3>1 DEF NoDup
  <2> QED BY <2>2, <2>3
<1>6. Elems(t) \subseteq Elems(q) \cup {x}
  BY <1>1, <1>3 DEF Elems
<1>7. Elems(q) \cup {x} \subseteq Elems(t)
  <2>1. x \in Elems(t)
    BY <1>1, <1>3 DEF Elems
  <2>2. ASSUME NEW i \in DOMAIN q PROVE q[i] \in Elems(t)
    <3>1. i + 1 \in DOMAIN t /\ t[i+1] = q[i]
      BY <1>2, <1>3
    <3> QED BY <3>1 DEF Elems
  <2> QED BY <2>1, <2>2 DEF Elems
<1>8. Elems(t) = Elems(q) \cup {x}
  BY <1>6, <1>7
<1> QED BY <1>1, <1>2, <1>5, <1>8 DEF t


-----------------------------------------------------------------------------
(* Chat states.                                                              *)

Chans == UNION {[D -> ChannelRecord] : D \in SUBSET Name}

Chats == [list : Seq(Name), chan : Chans, at : [User -> Name \cup {NoName}],
          gavel : SUBSET User]

\* A user who may operate the channel n of that configuration (Eligible).
Fit(conf, n, u) == <<u, n>> \in OperIn \/ (conf.opers /\ u \in OperAny)

\* A user whom the channel does not let in (Refused).
Barred(c, u) == u \in c.bans \/ (~c.conf.bots /\ u \in Bot)

\* One channel by itself.  T may be a member although it is barred (one who was banned
\* and has not left yet), and the channel empty may be temporary and without members.
Decent(c, n, T, empty) ==
    /\ c \in ChannelRecord
    /\ NoDup(c.members) /\ c.count = Len(c.members)
    /\ c.opr \in Elems(c.members) \cup {NoUser}
    /\ c.next \in Elems(c.members) \cup {NoUser}
    /\ c.opr = c.next => c.opr = NoUser
    /\ c.conf.permanent => c.conf.short \in PlainName \cup {NoName}
    /\ ~c.conf.permanent => c.conf = TempConf(n) /\ (n = empty \/ c.members # <<>>)
    /\ \A v \in Elems(c.members) : v = T \/ ~Barred(c, v)

\* The channels and the connections of a chat state.
Ok(s, T, empty) ==
    /\ s \in Chats
    /\ NoDup(s.list) /\ DOMAIN s.chan = Elems(s.list)
    /\ \A n \in DOMAIN s.chan : Decent(s.chan[n], n, T, empty)
    /\ \A n \in DOMAIN s.chan : \A v \in Elems(s.chan[n].members) : s.at[v] = n
    /\ \A v \in User : s.at[v] # NoName =>
          s.at[v] \in DOMAIN s.chan /\ v \in Elems(s.chan[s.at[v]].members)
    /\ \A v \in s.gavel : s.at[v] # NoName /\ s.chan[s.at[v]].opr = v

\* The types of a chat state's fields.
LEMMA ChatsLemma ==
    ASSUME NEW s \in Chats
    PROVE  /\ s.list \in Seq(Name) /\ s.at \in [User -> Name \cup {NoName}]
           /\ s.gavel \in SUBSET User
           /\ s.chan \in [DOMAIN s.chan -> ChannelRecord] /\ DOMAIN s.chan \in SUBSET Name
           /\ \A n \in DOMAIN s.chan : s.chan[n] \in ChannelRecord
<1>1. s.list \in Seq(Name) /\ s.at \in [User -> Name \cup {NoName}] /\ s.chan \in Chans
      /\ s.gavel \in SUBSET User
  BY DEF Chats
<1>2. PICK D \in SUBSET Name : s.chan \in [D -> ChannelRecord]
  BY <1>1 DEF Chans
<1>3. DOMAIN s.chan = D
  BY <1>2
<1> QED BY <1>1, <1>2, <1>3

\* A chat state with another channel n and other gavels.
With(s, n, c, g) == [s EXCEPT !.chan = [s.chan EXCEPT ![n] = c], !.gavel = g]

\* It differs in that channel and in the gavels only.
LEMMA WithLemma ==
    ASSUME NEW s \in Chats, NEW n \in DOMAIN s.chan, NEW c \in ChannelRecord,
           NEW g \in SUBSET User
    PROVE  /\ With(s, n, c, g) \in Chats
           /\ With(s, n, c, g).list = s.list /\ With(s, n, c, g).at = s.at
           /\ With(s, n, c, g).gavel = g
           /\ DOMAIN With(s, n, c, g).chan = DOMAIN s.chan
           /\ With(s, n, c, g).chan[n] = c
           /\ \A m \in DOMAIN s.chan \ {n} : With(s, n, c, g).chan[m] = s.chan[m]
<1> DEFINE d == [s.chan EXCEPT ![n] = c]
<1>1. d \in [DOMAIN s.chan -> ChannelRecord]
  BY ChatsLemma
<1>2. d \in Chans
  BY <1>1, ChatsLemma DEF Chans
<1>3. DOMAIN d = DOMAIN s.chan /\ d[n] = c /\ \A m \in DOMAIN s.chan \ {n} : d[m] = s.chan[m]
  BY ChatsLemma
<1> HIDE DEF d
<1>4. With(s, n, c, g) = [s EXCEPT !.chan = d, !.gavel = g]
  BY DEF With, d
<1>5. /\ With(s, n, c, g) \in Chats /\ With(s, n, c, g).list = s.list
      /\ With(s, n, c, g).at = s.at /\ With(s, n, c, g).gavel = g /\ With(s, n, c, g).chan = d
  BY <1>2, <1>4 DEF Chats
<1> QED BY <1>3, <1>5

\* The types of a channel's fields.
LEMMA FieldsLemma ==
    ASSUME NEW c \in ChannelRecord
    PROVE  /\ c.conf \in Conf /\ c.members \in Seq(User) /\ c.count \in Int
           /\ c.opr \in User \cup {NoUser} /\ c.next \in User \cup {NoUser}
           /\ c.bans \in SUBSET User
           /\ DOMAIN c.members = 1..Len(c.members) /\ Len(c.members) \in Nat
           /\ Elems(c.members) \in SUBSET User
<1>1. c.members \in Seq(User)
  BY DEF ChannelRecord
<1>2. Elems(c.members) \in SUBSET User
  BY <1>1 DEF Elems
<1> QED BY <1>1, <1>2 DEF ChannelRecord

-----------------------------------------------------------------------------
(* channel_choose_operator.                                                  *)

\* o may operate the channel, and no older member but the former operator may.
Elder(c, n, o, old) ==
    /\ Fit(c.conf, n, o)
    /\ \E i \in DOMAIN c.members :
          /\ c.members[i] = o
          /\ \A j \in DOMAIN c.members : j > i => \/ ~Fit(c.conf, n, c.members[j])
                                                  \/ c.members[j] = old

\* channel_choose_operator without a designee keeps the operator or elects an elder.
LEMMA ElectedLemma ==
    ASSUME NEW s \in Chats, NEW n \in DOMAIN s.chan, s.chan[n].next = NoUser
    PROVE  \/ Elected(s, n, NoUser) = s.chan[n].opr
           \/ /\ Elected(s, n, NoUser) \in Elems(s.chan[n].members)
              /\ Elected(s, n, NoUser) # s.chan[n].opr
              /\ Elder(s.chan[n], n, Elected(s, n, NoUser), s.chan[n].opr)
<1> DEFINE c == s.chan[n]
           E == {i \in DOMAIN c.members : /\ c.members[i] # c.opr
                                          /\ NoUser \in {NoUser, c.members[i]}
                                          /\ Eligible(s, n, c.members[i])}
           P(i) == \A j \in E : j <= i
           x == CHOOSE i \in E : P(i)
<1>1. Elected(s, n, NoUser) = IF E = {} THEN c.opr ELSE c.members[x]
  BY DEF Elected
<1>2. CASE E # {}
  <2>1. DOMAIN c.members = 1..Len(c.members) /\ Len(c.members) \in Nat
    BY ChatsLemma, FieldsLemma
  <2>2. E \in SUBSET (1..Len(c.members))
    BY <2>1
  <2>3. \E i \in E : P(i)
    BY <1>2, <2>1, <2>2, LastLemma
  <2>4. x \in E /\ P(x)
    BY <2>3
  <2> HIDE DEF x
  <2>5. \A j \in DOMAIN c.members : j > x => j \notin E
    BY <2>1, <2>2, <2>4
  <2>6. \A v : Eligible(s, n, v) <=> Fit(c.conf, n, v)
    BY DEF Eligible, Fit
  <2>7. Elder(c, n, c.members[x], c.opr)
    BY <2>4, <2>5, <2>6 DEF Elder
  <2>8. c.members[x] \in Elems(c.members) /\ c.members[x] # c.opr
    BY <2>4 DEF Elems
  <2> QED BY <1>1, <1>2, <2>7, <2>8
<1> QED BY <1>1, <1>2

\* Another operator, no designee, and the gavels that go with that.
InOffice(c, o) == [c EXCEPT !.opr = o, !.next = NoUser]

\* The operator and the designee are all that changes.
LEMMA InOfficeLemma ==
    ASSUME NEW c \in ChannelRecord, NEW o \in User \cup {NoUser}
    PROVE  /\ InOffice(c, o) \in ChannelRecord
           /\ InOffice(c, o).conf = c.conf /\ InOffice(c, o).members = c.members
           /\ InOffice(c, o).count = c.count /\ InOffice(c, o).bans = c.bans
           /\ InOffice(c, o).opr = o /\ InOffice(c, o).next = NoUser
BY DEF ChannelRecord, InOffice

Office(s, n, o, g) == [s EXCEPT !.chan[n].opr = o, !.chan[n].next = NoUser, !.gavel = g]

\* What ChooseOperator writes is such a chat state.
LEMMA OfficeLemma ==
    ASSUME NEW s \in Chats, NEW n \in DOMAIN s.chan, NEW o, NEW g
    PROVE  Office(s, n, o, g) = With(s, n, InOffice(s.chan[n], o), g)
<1> DEFINE d == [s.chan EXCEPT ![n].opr = o, ![n].next = NoUser]
<1>1. Office(s, n, o, g) = [s EXCEPT !.chan = d, !.gavel = g]
  BY DEF Chats, Office
<1>2. s.chan[n] \in ChannelRecord /\ s.chan \in [DOMAIN s.chan -> ChannelRecord]
  BY ChatsLemma
<1>3. d = [s.chan EXCEPT ![n] = [s.chan[n] EXCEPT !.opr = o, !.next = NoUser]]
  BY <1>2
<1> QED BY <1>1, <1>3 DEF With, InOffice

\* The next operator when nobody in particular asks for it: the designee, or an elder.
LEMMA ChosenLemma ==
    ASSUME NEW s \in Chats, NEW n \in DOMAIN s.chan,
           s.chan[n].next # NoUser => /\ s.at[s.chan[n].next] = n
                                      /\ s.chan[n].next \in Elems(s.chan[n].members)
                                      /\ s.chan[n].next # s.chan[n].opr
    PROVE  \E o \in Elems(s.chan[n].members) \cup {NoUser} :
              /\ o # NoUser => /\ o # s.chan[n].opr
                               /\ o = s.chan[n].next \/ Elder(s.chan[n], n, o, s.chan[n].opr)
              /\ s.chan[n].next = NoUser \/ o = s.chan[n].next
              /\ ChooseOperator(s, n, NoUser) =
                   With(s, n, InOffice(s.chan[n], o),
                        (s.gavel \ {s.chan[n].opr}) \cup ({o} \ {NoUser}))
<1> DEFINE c == s.chan[n]
           e == Elected(s, n, NoUser)
           o == IF e = c.opr THEN NoUser ELSE e
<1>1. /\ c.next # NoUser => e = c.next
      /\ o \in Elems(c.members) \cup {NoUser}
      /\ o # NoUser => o # c.opr /\ (o = c.next \/ Elder(c, n, o, c.opr))
      /\ c.next = NoUser \/ o = c.next
  <2>1. CASE c.next # NoUser
    <3>1. e = c.next
      BY <2>1 DEF Elected
    <3> QED BY <2>1, <3>1
  <2>2. CASE c.next = NoUser
    BY <2>2, ElectedLemma
  <2> QED BY <2>1, <2>2
<1>2. ChooseOperator(s, n, NoUser)
        = Office(s, n, o, (s.gavel \ {c.opr}) \cup ({o} \ {NoUser}))
  BY DEF ChooseOperator, Office, Chats
<1> HIDE DEF e, o
<1>3. ChooseOperator(s, n, NoUser) =
        With(s, n, InOffice(c, o), (s.gavel \ {c.opr}) \cup ({o} \ {NoUser}))
  BY <1>2, OfficeLemma
<1> QED BY <1>1, <1>3


-----------------------------------------------------------------------------
(* channel_del_connection and the first half of conn_set_channel.            *)

\* The channel n before and after the steps in which u left.
Left(c, d, n, u) ==
    /\ d.opr \notin {c.opr, NoUser} => d.opr = c.next \/ Elder(d, n, d.opr, c.opr)
    /\ d.opr = NoUser => c.opr \in {NoUser, u}
    /\ d.next \in {NoUser, c.next}

Cut(c, u) == [c EXCEPT !.members = Unlink(@, u), !.count = @ - 1,
                       !.next = IF @ = u THEN NoUser ELSE @]

\* The channel without the member u.
LEMMA CutLemma ==
    ASSUME NEW c \in ChannelRecord, NEW u \in Elems(c.members), NoDup(c.members)
    PROVE  /\ Cut(c, u) \in ChannelRecord
           /\ Cut(c, u).conf = c.conf /\ Cut(c, u).members = Unlink(c.members, u)
           /\ Cut(c, u).count = c.count - 1 /\ Cut(c, u).bans = c.bans
           /\ Cut(c, u).opr = c.opr /\ Cut(c, u).next = IF c.next = u THEN NoUser ELSE c.next
<1>1. Unlink(c.members, u) \in Seq(User)
  BY FieldsLemma, UnlinkLemma
<1> DEFINE m == Unlink(c.members, u)
<1> HIDE DEF m
<1>2. Cut(c, u) = [c EXCEPT !.members = m, !.count = c.count - 1,
                            !.next = IF c.next = u THEN NoUser ELSE c.next]
  BY DEF Cut, ChannelRecord, m
<1>3. m \in Seq(User) /\ c.count - 1 \in Int
  BY <1>1, FieldsLemma DEF m
<1> QED BY <1>2, <1>3 DEF ChannelRecord, m

\* Of two replacements of a channel the second counts.
LEMMA WithTwice ==
    ASSUME NEW s \in Chats, NEW n \in DOMAIN s.chan, NEW c, NEW d, NEW g, NEW h
    PROVE  With(With(s, n, c, g), n, d, h) = With(s, n, d, h)
<1>1. s.chan \in [DOMAIN s.chan -> ChannelRecord]
  BY ChatsLemma
<1>2. [[s.chan EXCEPT ![n] = c] EXCEPT ![n] = d] = [s.chan EXCEPT ![n] = d]
  BY <1>1
<1>3. With(s, n, c, g).chan = [s.chan EXCEPT ![n] = c]
  BY DEF With, Chats
<1>4. With(With(s, n, c, g), n, d, h) = [With(s, n, c, g) EXCEPT !.chan = [s.chan EXCEPT ![n] = d],
                                                              !.gavel = h]
  BY <1>2, <1>3 DEF With
<1> QED BY <1>4 DEF With, Chats

\* DelConnection takes u out first, and then sees to the operator and to an empty channel.
LEMMA DelLemma ==
    ASSUME NEW s \in Chats, NEW n \in DOMAIN s.chan, NEW u
    PROVE  DelConnection(s, n, u) =
             DestroyIfEmpty(WithoutOperator(With(s, n, Cut(s.chan[n], u), s.gavel), n, u), n)
<1> DEFINE s1 == [s EXCEPT !.chan[n].members = Unlink(@, u), !.chan[n].count = @ - 1,
                           !.chan[n].next = IF @ = u THEN NoUser ELSE @]
           d == [s.chan EXCEPT ![n].members = Unlink(@, u), ![n].count = @ - 1,
                               ![n].next = IF @ = u THEN NoUser ELSE @]
<1>1. s1 = [s EXCEPT !.chan = d, !.gavel = s.gavel]
  BY DEF Chats
<1>2. s.chan[n] \in ChannelRecord /\ s.chan \in [DOMAIN s.chan -> ChannelRecord]
  BY ChatsLemma
<1>3. d = [s.chan EXCEPT ![n] = Cut(s.chan[n], u)]
  BY <1>2 DEF Cut
<1>4. s1 = With(s, n, Cut(s.chan[n], u), s.gavel)
  BY <1>1, <1>3 DEF With
<1> QED BY <1>4 DEF DelConnection

\* What leaving does to the channel and to the gavels.
Parted(s, n, u, d, g) ==
    /\ d \in ChannelRecord /\ d.conf = s.chan[n].conf /\ d.bans = s.chan[n].bans
    /\ d.members = Unlink(s.chan[n].members, u) /\ d.count = s.chan[n].count - 1
    /\ d.opr \in Elems(d.members) \cup {NoUser} /\ d.next \in Elems(d.members) \cup {NoUser}
    /\ d.opr = d.next => d.opr = NoUser
    /\ Left(s.chan[n], d, n, u)
    /\ g \in SUBSET User
    /\ \A v \in g : v # u /\ (v \in s.gavel \/ v = d.opr) /\ (s.at[v] = n => d.opr = v)

\* channel_del_connection, but for the destruction of an empty channel.
LEMMA PartedLemma ==
    ASSUME NEW T, NEW s, Ok(s, T, NoName), NEW u \in User, s.at[u] # NoName
    PROVE  \E d, g : /\ Parted(s, s.at[u], u, d, g)
                     /\ DelConnection(s, s.at[u], u)
                          = DestroyIfEmpty(With(s, s.at[u], d, g), s.at[u])
<1> DEFINE n == s.at[u]
           c == s.chan[n]
           k == Cut(c, u)
           s1 == With(s, n, k, s.gavel)
           m == Unlink(c.members, u)
<1>1. /\ s \in Chats /\ n \in DOMAIN s.chan /\ u \in Elems(c.members) /\ Decent(c, n, T, NoName)
      /\ \A v \in Elems(c.members) : s.at[v] = n
      /\ \A v \in s.gavel : s.at[v] # NoName /\ s.chan[s.at[v]].opr = v
      /\ n \in Name /\ s.gavel \in SUBSET User /\ u # NoUser
  BY ChatsLemma, UserAssumption DEF Ok
<1>2. /\ c \in ChannelRecord /\ NoDup(c.members) /\ c.opr \in Elems(c.members) \cup {NoUser}
      /\ c.next \in Elems(c.members) \cup {NoUser} /\ (c.opr = c.next => c.opr = NoUser)
      /\ c.members \in Seq(User) /\ Elems(c.members) \in SUBSET User
  BY <1>1, FieldsLemma DEF Decent
<1>3. /\ k \in ChannelRecord /\ k.conf = c.conf /\ k.members = m /\ k.count = c.count - 1
      /\ k.bans = c.bans /\ k.opr = c.opr /\ k.next = IF c.next = u THEN NoUser ELSE c.next
  BY <1>1, <1>2, CutLemma
<1>4. Elems(m) = Elems(c.members) \ {u}
  BY <1>1, <1>2, UnlinkLemma
<1>5. /\ s1 \in Chats /\ s1.at = s.at /\ s1.gavel = s.gavel /\ n \in DOMAIN s1.chan
      /\ s1.chan[n] = k
  BY <1>1, <1>3, WithLemma
<1>6. DelConnection(s, n, u) = DestroyIfEmpty(WithoutOperator(s1, n, u), n)
  BY <1>1, DelLemma
<1> HIDE DEF n, c, k, s1, m
<1>7. CASE c.opr = u
  <2>1. s1.chan[n].next # NoUser => /\ s1.at[s1.chan[n].next] = n
                                    /\ s1.chan[n].next \in Elems(s1.chan[n].members)
                                    /\ s1.chan[n].next # s1.chan[n].opr
    BY <1>1, <1>2, <1>3, <1>4, <1>5, <1>7
  <2>2. PICK o \in Elems(k.members) \cup {NoUser} :
              /\ o # NoUser => /\ o # k.opr
                               /\ o = k.next \/ Elder(k, n, o, k.opr)
              /\ k.next = NoUser \/ o = k.next
              /\ ChooseOperator(s1, n, NoUser) =
                   With(s1, n, InOffice(k, o), (s.gavel \ {k.opr}) \cup ({o} \ {NoUser}))
    BY <1>5, <2>1, ChosenLemma
  <2> DEFINE d == InOffice(k, o)
             g == (s.gavel \ {k.opr}) \cup ({o} \ {NoUser})
  <2>3. o \in User \cup {NoUser}
    BY <1>2, <1>3, <1>4
  <2>4. /\ d \in ChannelRecord /\ d.conf = k.conf /\ d.members = k.members /\ d.count = k.count
        /\ d.bans = k.bans /\ d.opr = o /\ d.next = NoUser
    BY <1>3, <2>3, InOfficeLemma
  <2>5. WithoutOperator(s1, n, u) = With(s, n, d, g)
    <3>1. WithoutOperator(s1, n, u) = ChooseOperator(s1, n, NoUser)
      BY <1>3, <1>5, <1>7 DEF WithoutOperator
    <3>2. With(s1, n, d, g) = With(s, n, d, g)
      BY <1>1, WithTwice DEF s1, n
    <3> QED BY <2>2, <3>1, <3>2
  <2> HIDE DEF d
  <2>6. Left(c, d, n, u)
    <3>1. o # NoUser => o = c.next \/ Elder(d, n, o, c.opr)
      BY <2>2, <2>4, <1>3 DEF Elder
    <3> QED BY <3>1, <2>4, <1>7 DEF Left
  <2>7. g \in SUBSET User
    BY <1>1, <2>3
  <2>8. ASSUME NEW v \in g PROVE v # u /\ (v \in s.gavel \/ v = d.opr) /\ (s.at[v] = n => d.opr = v)
    <3>1. CASE v \in s.gavel \ {u}
      <4>1. s.at[v] # n
        BY <3>1, <1>1, <1>7 DEF c
      <4> QED BY <3>1, <4>1
    <3>2. CASE v = o /\ o # NoUser
      BY <3>2, <1>3, <1>4, <2>4
    <3> QED BY <3>1, <3>2, <1>3, <1>7
  <2>9. Parted(s, n, u, d, g)
    BY <2>4, <2>6, <2>7, <2>8, <1>3 DEF Parted, c, m
  <2> QED BY <2>9, <2>5, <1>6 DEF n
<1>8. CASE c.opr # u
  <2>1. WithoutOperator(s1, n, u) = s1
    BY <1>3, <1>5, <1>8 DEF WithoutOperator
  <2>2. Left(c, k, n, u)
    BY <1>3 DEF Left
  <2>3. \A v \in s.gavel : v # u /\ (s.at[v] = n => k.opr = v)
    BY <1>1, <1>3, <1>8 DEF c, n
  <2>4. Parted(s, n, u, k, s.gavel)
    BY <1>1, <1>2, <1>3, <1>4, <1>8, <2>2, <2>3 DEF Parted, c, m
  <2> QED BY <2>1, <2>4, <1>6 DEF n, s1
<1> QED BY <1>7, <1>8


\* What the steps of a handler leave behind when u has left his channel.
Kept(s, t, u) ==
    /\ t.at[u] = NoName
    /\ \A v \in User \ {u} : t.at[v] = s.at[v]
    /\ DOMAIN t.chan \subseteq DOMAIN s.chan
    /\ \A n \in DOMAIN t.chan : /\ Left(s.chan[n], t.chan[n], n, u)
                                /\ t.chan[n].conf = s.chan[n].conf
                                /\ t.chan[n].count <= s.chan[n].count
    /\ \A n \in DOMAIN s.chan \ DOMAIN t.chan : /\ ~s.chan[n].conf.permanent
                                                /\ s.chan[n].opr \in {NoUser, u}
                                                /\ s.chan[n].members # <<>>
    /\ \A n \in DOMAIN t.chan : s.chan[n].members = <<>> => t.chan[n] = s.chan[n]

\* A chat state without its channel n.
Without(s, n) == [s EXCEPT !.list = Unlink(@, n), !.chan = [m \in DOMAIN @ \ {n} |-> @[m]]]

\* It differs in that channel and in the list only.
LEMMA WithoutLemma ==
    ASSUME NEW s \in Chats, NEW n \in Elems(s.list), NoDup(s.list), DOMAIN s.chan = Elems(s.list)
    PROVE  /\ Without(s, n) \in Chats
           /\ NoDup(Without(s, n).list)
           /\ Elems(Without(s, n).list) = Elems(s.list) \ {n}
           /\ Without(s, n).at = s.at /\ Without(s, n).gavel = s.gavel
           /\ DOMAIN Without(s, n).chan = DOMAIN s.chan \ {n}
           /\ \A m \in DOMAIN s.chan \ {n} : Without(s, n).chan[m] = s.chan[m]
<1> DEFINE l == Unlink(s.list, n)
           d == [m \in DOMAIN s.chan \ {n} |-> s.chan[m]]
<1>1. l \in Seq(Name) /\ NoDup(l) /\ Elems(l) = Elems(s.list) \ {n}
  BY ChatsLemma, UnlinkLemma
<1>2. d \in [DOMAIN s.chan \ {n} -> ChannelRecord] /\ DOMAIN s.chan \ {n} \in SUBSET Name
  BY ChatsLemma
<1>3. d \in Chans
  BY <1>2 DEF Chans
<1>4. DOMAIN d = DOMAIN s.chan \ {n} /\ \A m \in DOMAIN s.chan \ {n} : d[m] = s.chan[m]
  OBVIOUS
<1>5. Without(s, n) = [s EXCEPT !.list = l, !.chan = d]
  BY DEF Without, Chats
<1> HIDE DEF l, d
<1>6. /\ Without(s, n) \in Chats /\ Without(s, n).list = l /\ Without(s, n).chan = d
      /\ Without(s, n).at = s.at /\ Without(s, n).gavel = s.gavel
  BY <1>1, <1>3, <1>5 DEF Chats
<1> QED BY <1>1, <1>4, <1>6

\* An empty list of members has no members.
LEMMA EmptyLemma ==
    ASSUME NEW q \in Seq(User)
    PROVE  q = <<>> <=> Elems(q) = {}
<1>1. q # <<>> => 1 \in DOMAIN q
  OBVIOUS
<1> QED BY <1>1 DEF Elems

\* After channel_del_connection all is in order, and u is in no channel.
LEMMA LeaveLemma ==
    ASSUME NEW s, NEW u \in User, Ok(s, u, NoName)
    PROVE  Ok(LeaveChannel(s, u), NoUser, NoName) /\ Kept(s, LeaveChannel(s, u), u)
<1> DEFINE t == LeaveChannel(s, u)
           n == s.at[u]
<1>0. s \in Chats /\ s.at \in [User -> Name \cup {NoName}] /\ s.gavel \in SUBSET User
  BY ChatsLemma DEF Ok
<1>1. CASE n = NoName
  <2>1. t = s
    BY <1>1 DEF LeaveChannel
  <2>2. ASSUME NEW m \in DOMAIN s.chan PROVE Decent(s.chan[m], m, NoUser, NoName)
    <3>1. \A v \in Elems(s.chan[m].members) : v # u
      <4>1. m \in Name
        BY <1>0, ChatsLemma
      <4> QED BY <1>1, <4>1, NameAssumption DEF Ok
    <3> QED BY <3>1 DEF Ok, Decent
  <2>3. Ok(s, NoUser, NoName)
    BY <2>2 DEF Ok
  <2>4. ASSUME NEW m \in DOMAIN s.chan
        PROVE  Left(s.chan[m], s.chan[m], m, u) /\ s.chan[m].count <= s.chan[m].count
    <3>1. s.chan[m].count \in Int
      BY <1>0, ChatsLemma, FieldsLemma
    <3>2. s.chan[m].opr # NoUser \/ s.chan[m].opr \in {NoUser, u}
      OBVIOUS
    <3> QED BY <3>1 DEF Left
  <2> QED BY <1>1, <2>1, <2>3, <2>4 DEF Kept
<1>2. CASE n # NoName
  <2>1. PICK d, g : /\ Parted(s, n, u, d, g)
                    /\ DelConnection(s, n, u) = DestroyIfEmpty(With(s, n, d, g), n)
    BY <1>2, PartedLemma
  <2> DEFINE c == s.chan[n]
             w == With(s, n, d, g)
             x == DestroyIfEmpty(w, n)
             gone == d.members = <<>> /\ ~d.conf.permanent
  <2>2. /\ n \in DOMAIN s.chan /\ n \in Name /\ u \in Elems(c.members) /\ Decent(c, n, u, NoName)
        /\ \A v \in Elems(c.members) : s.at[v] = n
    BY <1>0, <1>2, ChatsLemma DEF Ok
  <2>3. /\ d \in ChannelRecord /\ d.conf = c.conf /\ d.bans = c.bans
        /\ d.members = Unlink(c.members, u) /\ d.count = c.count - 1
        /\ d.opr \in Elems(d.members) \cup {NoUser} /\ d.next \in Elems(d.members) \cup {NoUser}
        /\ (d.opr = d.next => d.opr = NoUser)
        /\ Left(c, d, n, u) /\ g \in SUBSET User
        /\ \A v \in g : v # u /\ (v \in s.gavel \/ v = d.opr) /\ (s.at[v] = n => d.opr = v)
    BY <2>1 DEF Parted
  <2>4. /\ c \in ChannelRecord /\ NoDup(c.members) /\ c.count = Len(c.members)
        /\ c.members \in Seq(User) /\ Len(c.members) \in Nat
    BY <2>2, FieldsLemma DEF Decent
  <2>5. /\ d.members \in Seq(User) /\ NoDup(d.members) /\ Elems(d.members) = Elems(c.members) \ {u}
        /\ Len(d.members) = Len(c.members) - 1
    BY <2>2, <2>3, <2>4, UnlinkLemma
  <2>6. /\ w \in Chats /\ w.list = s.list /\ w.at = s.at /\ w.gavel = g
        /\ DOMAIN w.chan = DOMAIN s.chan /\ w.chan[n] = d
        /\ \A m \in DOMAIN s.chan \ {n} : w.chan[m] = s.chan[m]
    BY <1>0, <2>2, <2>3, WithLemma
  <2> HIDE DEF w
  <2>7. x = IF gone THEN Without(w, n) ELSE w
    BY <2>6 DEF DestroyIfEmpty, ChannelDestroy, Without
  <2>8. /\ x \in Chats /\ NoDup(x.list) /\ DOMAIN x.chan = Elems(x.list)
        /\ x.at = s.at /\ x.gavel = g
        /\ DOMAIN x.chan = IF gone THEN DOMAIN s.chan \ {n} ELSE DOMAIN s.chan
        /\ \A m \in DOMAIN x.chan : x.chan[m] = IF m = n THEN d ELSE s.chan[m]
    <3>1. NoDup(s.list) /\ DOMAIN s.chan = Elems(s.list)
      BY DEF Ok
    <3>2. CASE gone
      <4>1. /\ x = Without(w, n) /\ n \in Elems(w.list) /\ NoDup(w.list)
            /\ DOMAIN w.chan = Elems(w.list) /\ w \in Chats
        BY <3>1, <3>2, <2>2, <2>6, <2>7
      <4>2. /\ x \in Chats /\ NoDup(x.list) /\ Elems(x.list) = Elems(w.list) \ {n}
            /\ x.at = w.at /\ x.gavel = w.gavel /\ DOMAIN x.chan = DOMAIN w.chan \ {n}
            /\ \A m \in DOMAIN w.chan \ {n} : x.chan[m] = w.chan[m]
        BY <4>1, WithoutLemma
      <4> HIDE DEF x
      <4> QED BY <3>1, <3>2, <4>2, <2>2, <2>6
    <3>3. CASE ~gone
      BY <3>1, <3>3, <2>2, <2>6, <2>7
    <3> QED BY <3>2, <3>3
  <2>9. t = [x EXCEPT !.at = [x.at EXCEPT ![u] = NoName]]
    <3>1. t = [x EXCEPT !.at[u] = NoName]
      BY <1>2, <2>1 DEF LeaveChannel, w
    <3> HIDE DEF x, t
    <3> QED BY <3>1, <2>8 DEF Chats
  <2> HIDE DEF x, t
  <2>10. /\ t \in Chats /\ t.list = x.list /\ t.chan = x.chan /\ t.gavel = g
         /\ t.at[u] = NoName /\ \A v \in User \ {u} : t.at[v] = s.at[v]
    <3> DEFINE a == [x.at EXCEPT ![u] = NoName]
    <3>1. a \in [User -> Name \cup {NoName}] /\ a[u] = NoName /\ \A v \in User \ {u} : a[v] = s.at[v]
      BY <1>0, <2>8
    <3> HIDE DEF a
    <3>2. t = [x EXCEPT !.at = a]
      BY <2>9 DEF a
    <3>3. /\ t \in Chats /\ t.list = x.list /\ t.chan = x.chan /\ t.gavel = x.gavel /\ t.at = a
      BY <2>8, <3>1, <3>2 DEF Chats
    <3> QED BY <2>8, <3>1, <3>3
  <2> HIDE DEF gone, c
  <2>11. ASSUME NEW m \in DOMAIN t.chan PROVE Decent(t.chan[m], m, NoUser, NoName)
    <3>1. CASE m # n
      <4>1. m \in DOMAIN s.chan /\ t.chan[m] = s.chan[m] /\ Decent(s.chan[m], m, u, NoName)
        BY <3>1, <2>8, <2>10 DEF Ok
      <4>2. \A v \in Elems(s.chan[m].members) : v # u
        BY <3>1, <4>1 DEF Ok
      <4> QED BY <4>1, <4>2 DEF Decent
    <3>2. CASE m = n
      <4>1. t.chan[m] = d /\ ~gone
        BY <3>2, <2>8, <2>10
      <4>2. d.members # <<>> \/ d.conf.permanent
        BY <4>1 DEF gone
      <4>3. /\ d.conf.permanent => d.conf.short \in PlainName \cup {NoName}
            /\ ~d.conf.permanent => d.conf = TempConf(n)
        BY <2>2, <2>3 DEF Decent
      <4>4. \A v \in Elems(d.members) : ~Barred(d, v)
        BY <2>2, <2>3, <2>5 DEF Decent, Barred
      <4>5. d.count = Len(d.members)
        BY <2>3, <2>4, <2>5
      <4> QED BY <3>2, <4>1, <4>2, <4>3, <4>4, <4>5, <2>3, <2>5 DEF Decent
    <3> QED BY <3>1, <3>2
  <2>12. ASSUME NEW m \in DOMAIN t.chan, NEW v \in Elems(t.chan[m].members) PROVE t.at[v] = m
    <3>1. v \in User
      BY <2>10, ChatsLemma, FieldsLemma
    <3>2. CASE m # n
      <4>1. m \in DOMAIN s.chan /\ t.chan[m] = s.chan[m]
        BY <3>2, <2>8, <2>10
      <4>2. s.at[v] = m
        BY <4>1 DEF Ok
      <4> QED BY <3>1, <3>2, <4>2, <2>10
    <3>3. CASE m = n
      <4>1. v \in Elems(d.members)
        BY <3>3, <2>8, <2>10
      <4> QED BY <3>1, <3>3, <4>1, <2>2, <2>5, <2>10 DEF c
    <3> QED BY <3>2, <3>3
  <2>13. ASSUME NEW v \in User, t.at[v] # NoName
         PROVE  t.at[v] \in DOMAIN t.chan /\ v \in Elems(t.chan[t.at[v]].members)
    <3>1. v # u /\ t.at[v] = s.at[v]
      BY <2>10, <2>13
    <3>2. s.at[v] \in DOMAIN s.chan /\ v \in Elems(s.chan[s.at[v]].members)
      BY <3>1, <2>13 DEF Ok
    <3>3. CASE s.at[v] # n
      BY <3>1, <3>2, <3>3, <2>8, <2>10
    <3>4. CASE s.at[v] = n
      <4>1. v \in Elems(d.members)
        BY <3>1, <3>2, <3>4, <2>5 DEF c
      <4>2. ~gone
        BY <4>1, <2>5, EmptyLemma DEF gone
      <4> QED BY <3>1, <3>4, <4>1, <4>2, <2>2, <2>8, <2>10
    <3> QED BY <3>3, <3>4
  <2>14. ASSUME NEW v \in t.gavel PROVE t.at[v] # NoName /\ t.chan[t.at[v]].opr = v
    <3>1. v \in User /\ v # u /\ t.at[v] = s.at[v] /\ (v \in s.gavel \/ v = d.opr)
          /\ (s.at[v] = n => d.opr = v)
      BY <2>3, <2>10
    <3>2. CASE s.at[v] = n
      <4>1. t.at[v] # NoName /\ d.opr = v
        BY <3>1, <3>2, <1>2
      <4>2. n \in DOMAIN t.chan
        BY <2>13, <3>1, <3>2, <4>1
      <4> QED BY <3>1, <3>2, <4>1, <4>2, <2>8, <2>10
    <3>3. CASE s.at[v] # n
      <4>1. v \in s.gavel
        <5>1. v = d.opr => v \in Elems(d.members)
          BY <3>1, <2>3, UserAssumption
        <5> QED BY <5>1, <3>1, <3>3, <2>2, <2>5 DEF c
      <4>2. s.at[v] # NoName /\ s.chan[s.at[v]].opr = v
        BY <4>1 DEF Ok
      <4>3. s.at[v] \in DOMAIN t.chan
        BY <2>13, <3>1, <4>2
      <4> QED BY <3>1, <3>3, <4>2, <4>3, <2>8, <2>10
    <3> QED BY <3>2, <3>3
  <2>15. Ok(t, NoUser, NoName)
    BY <2>8, <2>10, <2>11, <2>12, <2>13, <2>14 DEF Ok
  <2>16. ASSUME NEW m \in DOMAIN t.chan
         PROVE  /\ m \in DOMAIN s.chan /\ Left(s.chan[m], t.chan[m], m, u)
                /\ t.chan[m].conf = s.chan[m].conf /\ t.chan[m].count <= s.chan[m].count
                /\ s.chan[m].members = <<>> => t.chan[m] = s.chan[m]
    <3>1. CASE m # n
      <4>1. m \in DOMAIN s.chan /\ t.chan[m] = s.chan[m] /\ s.chan[m].count \in Int
        BY <1>0, <3>1, <2>8, <2>10, ChatsLemma, FieldsLemma
      <4>2. Left(s.chan[m], s.chan[m], m, u)
        BY DEF Left
      <4> QED BY <4>1, <4>2
    <3>2. CASE m = n
      <4>1. t.chan[m] = d
        BY <3>2, <2>8, <2>10
      <4>2. c.members # <<>>
        BY <2>2, <2>4, EmptyLemma DEF c
      <4>3. d.count <= c.count
        BY <2>3, <2>4
      <4>4. s.chan[m] = c
        BY <3>2 DEF c
      <4>5. Left(c, d, m, u) /\ d.conf = c.conf /\ m \in DOMAIN s.chan
        BY <3>2, <2>2, <2>3
      <4> QED BY <4>1, <4>2, <4>3, <4>4, <4>5
    <3> QED BY <3>1, <3>2
  <2>17. ASSUME NEW m \in DOMAIN s.chan \ DOMAIN t.chan
         PROVE  ~s.chan[m].conf.permanent /\ s.chan[m].opr \in {NoUser, u} /\ s.chan[m].members # <<>>
    <3>1. m = n /\ gone
      BY <2>8, <2>10
    <3>2. Elems(d.members) = {}
      BY <3>1, <2>5, EmptyLemma DEF gone
    <3>3. c.opr \in {NoUser, u}
      BY <3>2, <2>2, <2>5 DEF Decent
    <3>4. c.members # <<>>
      BY <2>2, <2>4, EmptyLemma DEF c
    <3> QED BY <3>1, <3>3, <3>4, <2>3 DEF c, gone
  <2>18. Kept(s, t, u)
    BY <2>10, <2>16, <2>17 DEF Kept
  <2> QED BY <2>15, <2>18 DEF t
<1> QED BY <1>1, <1>2


-----------------------------------------------------------------------------
(* channel_add_connection.                                                   *)

OfficeOnly(s, n, o) == [s EXCEPT !.chan[n].opr = o, !.chan[n].next = NoUser]

\* The early return of channel_choose_operator leaves the gavels.
LEMMA OfficeOnlyLemma ==
    ASSUME NEW s \in Chats, NEW n \in DOMAIN s.chan, NEW o
    PROVE  OfficeOnly(s, n, o) = With(s, n, InOffice(s.chan[n], o), s.gavel)
<1> DEFINE d == [s.chan EXCEPT ![n].opr = o, ![n].next = NoUser]
<1>1. OfficeOnly(s, n, o) = [s EXCEPT !.chan = d, !.gavel = s.gavel]
  BY DEF Chats, OfficeOnly
<1>2. s.chan[n] \in ChannelRecord /\ s.chan \in [DOMAIN s.chan -> ChannelRecord]
  BY ChatsLemma
<1>3. d = [s.chan EXCEPT ![n] = [s.chan[n] EXCEPT !.opr = o, !.next = NoUser]]
  BY <1>2
<1> QED BY <1>1, <1>3 DEF With, InOffice

\* A channel without an operator takes its designee, else the one who joins if he is fit.
LEMMA TriedLemma ==
    ASSUME NEW s \in Chats, NEW n \in DOMAIN s.chan, NEW u \in User, s.chan[n].opr = NoUser,
           s.chan[n].next # NoUser => s.at[s.chan[n].next] = n /\ s.chan[n].next # u
    PROVE  \/ ChooseOperator(s, n, u) = With(s, n, InOffice(s.chan[n], s.chan[n].next), s.gavel)
           \/ /\ s.chan[n].next = NoUser
              /\ Fit(s.chan[n].conf, n, u)
              /\ ChooseOperator(s, n, u)
                   = With(s, n, InOffice(s.chan[n], u), (s.gavel \ {NoUser}) \cup ({u} \ {NoUser}))
<1> DEFINE c == s.chan[n]
           e == Elected(s, n, u)
           E == {i \in DOMAIN c.members : /\ c.members[i] # c.opr
                                          /\ u \in {NoUser, c.members[i]}
                                          /\ Eligible(s, n, c.members[i])}
           P(i) == \A j \in E : j <= i
           x == CHOOSE i \in E : P(i)
<1>0. u # NoUser
  BY UserAssumption
<1>1. CASE c.next # NoUser
  <2>1. e = c.next
    BY <1>1 DEF Elected
  <2>2. ChooseOperator(s, n, u) = OfficeOnly(s, n, c.next)
    BY <1>0, <1>1, <2>1 DEF ChooseOperator, OfficeOnly
  <2> QED BY <2>2, OfficeOnlyLemma
<1>2. CASE c.next = NoUser /\ E = {}
  <2>1. e = NoUser
    BY <1>2 DEF Elected
  <2>2. ChooseOperator(s, n, u) = OfficeOnly(s, n, c.next)
    BY <1>0, <1>2, <2>1 DEF ChooseOperator, OfficeOnly
  <2> QED BY <2>2, OfficeOnlyLemma
<1>3. CASE c.next = NoUser /\ E # {}
  <2>1. DOMAIN c.members = 1..Len(c.members) /\ Len(c.members) \in Nat
    BY ChatsLemma, FieldsLemma
  <2>2. E \in SUBSET (1..Len(c.members))
    BY <2>1
  <2>3. \E i \in E : P(i)
    BY <1>3, <2>1, <2>2, LastLemma
  <2>4. x \in E
    BY <2>3
  <2>5. e = c.members[x]
    BY <1>3 DEF Elected
  <2> HIDE DEF x
  <2>6. e = u /\ Eligible(s, n, u)
    BY <1>0, <2>4, <2>5
  <2>7. Fit(c.conf, n, u)
    BY <2>6 DEF Eligible, Fit
  <2> HIDE DEF e
  <2>8. ChooseOperator(s, n, u) = Office(s, n, u, (s.gavel \ {c.opr}) \cup ({u} \ {NoUser}))
    BY <1>0, <1>3, <2>6 DEF ChooseOperator, Office, Chats, e
  <2> QED BY <1>3, <2>7, <2>8, OfficeLemma
<1> QED BY <1>1, <1>2, <1>3

Grown(c, u) == [c EXCEPT !.members = <<u>> \o @, !.count = @ + 1]

\* The channel with u as its newest member.
LEMMA GrownLemma ==
    ASSUME NEW c \in ChannelRecord, NEW u \in User
    PROVE  /\ Grown(c, u) \in ChannelRecord
           /\ Grown(c, u).conf = c.conf /\ Grown(c, u).members = <<u>> \o c.members
           /\ Grown(c, u).count = c.count + 1 /\ Grown(c, u).bans = c.bans
           /\ Grown(c, u).opr = c.opr /\ Grown(c, u).next = c.next
<1> DEFINE m == <<u>> \o c.members
<1>1. m \in Seq(User) /\ c.count + 1 \in Int
  BY FieldsLemma
<1>2. Grown(c, u) = [c EXCEPT !.members = m, !.count = c.count + 1]
  BY DEF Grown, ChannelRecord
<1> HIDE DEF m
<1>3. /\ Grown(c, u) \in ChannelRecord
      /\ Grown(c, u).conf = c.conf /\ Grown(c, u).members = m
      /\ Grown(c, u).count = c.count + 1 /\ Grown(c, u).bans = c.bans
      /\ Grown(c, u).opr = c.opr /\ Grown(c, u).next = c.next
  BY <1>1, <1>2 DEF ChannelRecord
<1> QED BY <1>3 DEF m

\* What the channel n is when u has entered it.
Entered(c, d, n, u) ==
    /\ d.conf = c.conf /\ d.members = <<u>> \o c.members
    /\ c.opr # NoUser => d.opr = c.opr
    /\ c.opr = NoUser => \/ d.opr \in {c.next, NoUser}
                         \/ d.opr = u /\ Fit(c.conf, n, u)

\* u enters n, which he may, and is the one who was in no channel.
LEMMA AddLemma ==
    ASSUME NEW s, NEW n \in DOMAIN s.chan, NEW u \in User, Ok(s, NoUser, n),
           s.at[u] = NoName, ~Refused(s, n, u)
    PROVE  LET t == AddConnection(s, n, u)
           IN  /\ Ok(t, NoUser, NoName)
               /\ t.at[u] = n /\ \A v \in User \ {u} : t.at[v] = s.at[v]
               /\ DOMAIN t.chan = DOMAIN s.chan
               /\ \A m \in DOMAIN s.chan \ {n} : t.chan[m] = s.chan[m]
               /\ Entered(s.chan[n], t.chan[n], n, u)
<1> DEFINE t == AddConnection(s, n, u)
           c == s.chan[n]
           k == Grown(c, u)
           a == [s.at EXCEPT ![u] = n]
           p == [s EXCEPT !.at = a]
           s1 == With(p, n, k, s.gavel)
<1>1. /\ s \in Chats /\ s.at \in [User -> Name \cup {NoName}] /\ s.gavel \in SUBSET User
      /\ n \in Name /\ Decent(c, n, NoUser, n) /\ c \in ChannelRecord
      /\ u # NoUser /\ n # NoName
  BY ChatsLemma, UserAssumption, NameAssumption DEF Ok
<1>2. /\ NoDup(c.members) /\ c.count = Len(c.members)
      /\ c.opr \in Elems(c.members) \cup {NoUser} /\ c.next \in Elems(c.members) \cup {NoUser}
      /\ (c.opr = c.next => c.opr = NoUser)
      /\ c.members \in Seq(User) /\ Len(c.members) \in Nat /\ Elems(c.members) \in SUBSET User
      /\ \A v \in Elems(c.members) : s.at[v] = n /\ ~Barred(c, v)
  BY <1>1, FieldsLemma, UserAssumption DEF Decent, Ok
<1>3. u \notin Elems(c.members) /\ c.next # u /\ u \notin s.gavel
  BY <1>1, <1>2, NameAssumption DEF Ok
<1>4. /\ <<u>> \o c.members \in Seq(User) /\ NoDup(<<u>> \o c.members)
      /\ Elems(<<u>> \o c.members) = Elems(c.members) \cup {u}
      /\ Len(<<u>> \o c.members) = Len(c.members) + 1
  BY <1>2, <1>3, PrependLemma
<1>5. /\ k \in ChannelRecord /\ k.conf = c.conf /\ k.members = <<u>> \o c.members
      /\ k.count = c.count + 1 /\ k.bans = c.bans /\ k.opr = c.opr /\ k.next = c.next
  BY <1>1, GrownLemma
<1>6. a \in [User -> Name \cup {NoName}] /\ a[u] = n /\ \A v \in User \ {u} : a[v] = s.at[v]
  BY <1>1
<1> DEFINE s0 == [s EXCEPT !.chan[n].members = <<u>> \o @, !.chan[n].count = @ + 1, !.at[u] = n]
<1>7. s0 = s1
  <2> DEFINE q == [s.chan EXCEPT ![n].members = <<u>> \o @, ![n].count = @ + 1]
  <2>1. s0 = [s EXCEPT !.chan = q, !.at = a]
    BY <1>1 DEF Chats
  <2>2. s.chan \in [DOMAIN s.chan -> ChannelRecord]
    BY <1>1, ChatsLemma
  <2>3. q = [s.chan EXCEPT ![n] = k]
    BY <2>2 DEF Grown
  <2>4. p.chan = s.chan
    BY <1>1 DEF Chats
  <2>5. s1 = [p EXCEPT !.chan = q, !.gavel = s.gavel]
    BY <2>3, <2>4 DEF With
  <2> HIDE DEF q, a, s1, s0
  <2> QED BY <2>1, <2>5, <1>1 DEF Chats
<1>8. t = IF c.opr = NoUser THEN ChooseOperator(s0, n, u) ELSE s0
  BY DEF AddConnection
<1> HIDE DEF a, k, s0
<1>9. p \in Chats /\ p.list = s.list /\ p.chan = s.chan /\ p.at = a /\ p.gavel = s.gavel
  BY <1>1, <1>6 DEF Chats
<1> HIDE DEF p
<1>10. /\ s1 \in Chats /\ s1.list = s.list /\ s1.at = a /\ s1.gavel = s.gavel
       /\ DOMAIN s1.chan = DOMAIN s.chan /\ s1.chan[n] = k
       /\ \A m \in DOMAIN s.chan \ {n} : s1.chan[m] = s.chan[m]
  BY <1>1, <1>5, <1>9, WithLemma
<1> HIDE DEF s1
<1>11. \E d, g : /\ /\ t \in Chats /\ t.list = s.list /\ t.at = a /\ t.gavel = g
                    /\ DOMAIN t.chan = DOMAIN s.chan /\ t.chan[n] = d
                    /\ \A m \in DOMAIN s.chan \ {n} : t.chan[m] = s.chan[m]
                 /\ d \in ChannelRecord /\ d.conf = k.conf /\ d.members = k.members
                 /\ d.count = k.count /\ d.bans = k.bans
                 /\ d.next \in {NoUser, c.next} /\ (d.opr = d.next => d.opr = NoUser)
                 /\ \/ d.opr \in {c.opr, NoUser} /\ g = s.gavel /\ (c.opr = NoUser \/ d.opr = c.opr)
                    \/ c.opr = NoUser /\ d.opr = c.next /\ g = s.gavel
                    \/ c.opr = NoUser /\ d.opr = u /\ Fit(c.conf, n, u) /\ g = s.gavel \cup {u}
  <2>1. CASE c.opr # NoUser
    <3>1. t = s1
      BY <1>7, <1>8, <2>1
    <3> QED BY <3>1, <1>2, <1>5, <1>10, <2>1
  <2>2. CASE c.opr = NoUser
    <3>1. t = ChooseOperator(s1, n, u)
      BY <1>7, <1>8, <2>2
    <3>2. s1.chan[n].next # NoUser => s1.at[s1.chan[n].next] = n /\ s1.chan[n].next # u
      BY <1>2, <1>3, <1>5, <1>6, <1>10
    <3>3. \/ t = With(s1, n, InOffice(k, c.next), s.gavel)
          \/ /\ Fit(c.conf, n, u)
             /\ t = With(s1, n, InOffice(k, u), (s.gavel \ {NoUser}) \cup ({u} \ {NoUser}))
      <4>1. /\ n \in DOMAIN s1.chan /\ s1.chan[n].opr = NoUser /\ s1.chan[n] = k
            /\ s1.chan[n].next = c.next /\ s1.chan[n].conf = c.conf
        BY <1>5, <1>10, <2>2
      <4>2. \/ t = With(s1, n, InOffice(s1.chan[n], s1.chan[n].next), s1.gavel)
            \/ /\ Fit(s1.chan[n].conf, n, u)
               /\ t = With(s1, n, InOffice(s1.chan[n], u), (s1.gavel \ {NoUser}) \cup ({u} \ {NoUser}))
        BY <1>10, <3>1, <3>2, <4>1, TriedLemma
      <4> HIDE DEF t, c
      <4> QED BY <1>10, <4>1, <4>2
    <3>4. ASSUME NEW o \in User \cup {NoUser}, NEW g \in SUBSET User, t = With(s1, n, InOffice(k, o), g)
          PROVE  LET d == InOffice(k, o) IN
                 /\ t \in Chats /\ t.list = s.list /\ t.at = a /\ t.gavel = g
                 /\ DOMAIN t.chan = DOMAIN s.chan /\ t.chan[n] = d
                 /\ \A m \in DOMAIN s.chan \ {n} : t.chan[m] = s.chan[m]
                 /\ d \in ChannelRecord /\ d.conf = k.conf /\ d.members = k.members
                 /\ d.count = k.count /\ d.bans = k.bans /\ d.next = NoUser /\ d.opr = o
      <4> DEFINE d == InOffice(k, o)
      <4>1. /\ d \in ChannelRecord /\ d.conf = k.conf /\ d.members = k.members
            /\ d.count = k.count /\ d.bans = k.bans /\ d.next = NoUser /\ d.opr = o
        BY <1>5, InOfficeLemma
      <4> HIDE DEF d
      <4>2. /\ t \in Chats /\ t.list = s1.list /\ t.at = s1.at /\ t.gavel = g
            /\ DOMAIN t.chan = DOMAIN s1.chan /\ t.chan[n] = d
            /\ \A m \in DOMAIN s1.chan \ {n} : t.chan[m] = s1.chan[m]
        BY <1>10, <3>4, <4>1, WithLemma DEF d
      <4> QED BY <1>10, <4>1, <4>2 DEF d
    <3>5. CASE t = With(s1, n, InOffice(k, c.next), s.gavel)
      <4>1. c.next \in User \cup {NoUser}
        BY <1>2
      <4> QED BY <1>1, <2>2, <3>4, <3>5, <4>1
    <3>6. CASE /\ Fit(c.conf, n, u)
               /\ t = With(s1, n, InOffice(k, u), (s.gavel \ {NoUser}) \cup ({u} \ {NoUser}))
      <4>1. (s.gavel \ {NoUser}) \cup ({u} \ {NoUser}) = s.gavel \cup {u}
        BY <1>1, UserAssumption
      <4>2. s.gavel \cup {u} \in SUBSET User
        BY <1>1
      <4> DEFINE g == s.gavel \cup {u}
      <4>3. t = With(s1, n, InOffice(k, u), g)
        BY <3>6, <4>1
      <4> HIDE DEF g, t, c
      <4>4. /\ t \in Chats /\ t.list = s.list /\ t.at = a /\ t.gavel = g
            /\ DOMAIN t.chan = DOMAIN s.chan /\ t.chan[n] = InOffice(k, u)
            /\ \A m \in DOMAIN s.chan \ {n} : t.chan[m] = s.chan[m]
            /\ InOffice(k, u) \in ChannelRecord /\ InOffice(k, u).conf = k.conf
            /\ InOffice(k, u).members = k.members /\ InOffice(k, u).count = k.count
            /\ InOffice(k, u).bans = k.bans /\ InOffice(k, u).next = NoUser /\ InOffice(k, u).opr = u
        BY <3>4, <4>2, <4>3 DEF g
      <4> QED BY <1>1, <2>2, <3>6, <4>4 DEF g
    <3> QED BY <3>3, <3>5, <3>6
  <2> QED BY <2>1, <2>2
<1>12. PICK d, g :
          /\ /\ t \in Chats /\ t.list = s.list /\ t.at = a /\ t.gavel = g
             /\ DOMAIN t.chan = DOMAIN s.chan /\ t.chan[n] = d
             /\ \A m \in DOMAIN s.chan \ {n} : t.chan[m] = s.chan[m]
          /\ d \in ChannelRecord /\ d.conf = k.conf /\ d.members = k.members
          /\ d.count = k.count /\ d.bans = k.bans
          /\ d.next \in {NoUser, c.next} /\ (d.opr = d.next => d.opr = NoUser)
          /\ \/ d.opr \in {c.opr, NoUser} /\ g = s.gavel /\ (c.opr = NoUser \/ d.opr = c.opr)
             \/ c.opr = NoUser /\ d.opr = c.next /\ g = s.gavel
             \/ c.opr = NoUser /\ d.opr = u /\ Fit(c.conf, n, u) /\ g = s.gavel \cup {u}
  BY <1>11
<1> HIDE DEF t, c
<1>13. Decent(d, n, NoUser, NoName)
  <2>1. Elems(d.members) = Elems(c.members) \cup {u} /\ NoDup(d.members) /\ d.count = Len(d.members)
    BY <1>2, <1>4, <1>5, <1>12
  <2>2. d.members # <<>>
    <3>1. d.members \in Seq(User)
      BY <1>12, FieldsLemma
    <3> QED BY <2>1, <3>1, EmptyLemma
  <2>3. d.opr \in Elems(d.members) \cup {NoUser} /\ d.next \in Elems(d.members) \cup {NoUser}
    BY <1>2, <1>12, <2>1
  <2>4. \A v \in Elems(d.members) : ~Barred(d, v)
    <3>1. \A v : Barred(d, v) <=> Barred(c, v)
      BY <1>5, <1>12 DEF Barred
    <3>2. ~Barred(c, u)
      BY DEF Barred, Refused, c
    <3> QED BY <1>2, <2>1, <3>1, <3>2
  <2>5. /\ d.conf.permanent => d.conf.short \in PlainName \cup {NoName}
        /\ ~d.conf.permanent => d.conf = TempConf(n)
    BY <1>1, <1>5, <1>12 DEF Decent
  <2> QED BY <1>12, <2>1, <2>2, <2>3, <2>4, <2>5 DEF Decent
<1>14. ASSUME NEW m \in DOMAIN t.chan PROVE Decent(t.chan[m], m, NoUser, NoName)
  <2>1. CASE m = n
    BY <1>12, <1>13, <2>1
  <2>2. CASE m # n
    <3>1. t.chan[m] = s.chan[m] /\ Decent(s.chan[m], m, NoUser, n)
      BY <1>12, <2>2 DEF Ok
    <3> QED BY <2>2, <3>1 DEF Decent
  <2> QED BY <2>1, <2>2
<1>15. ASSUME NEW m \in DOMAIN t.chan, NEW v \in Elems(t.chan[m].members) PROVE t.at[v] = m
  <2>1. CASE m = n
    <3>1. v \in Elems(c.members) \cup {u}
      BY <1>4, <1>5, <1>12, <2>1
    <3> QED BY <1>2, <1>6, <1>12, <2>1, <3>1
  <2>2. CASE m # n
    <3>1. m \in DOMAIN s.chan /\ v \in Elems(s.chan[m].members)
      BY <1>12, <2>2
    <3>2. s.at[v] = m /\ v \in User /\ m \in Name
      BY <1>1, <3>1, ChatsLemma, FieldsLemma DEF Ok
    <3> QED BY <1>6, <1>12, <3>2, NameAssumption
  <2> QED BY <2>1, <2>2
<1>16. ASSUME NEW v \in User, t.at[v] # NoName
       PROVE  t.at[v] \in DOMAIN t.chan /\ v \in Elems(t.chan[t.at[v]].members)
  <2>1. Elems(d.members) = Elems(c.members) \cup {u}
    BY <1>4, <1>5, <1>12
  <2>2. CASE v = u
    BY <1>6, <1>12, <2>1, <2>2
  <2>3. CASE v # u
    <3>1. t.at[v] = s.at[v]
      BY <1>6, <1>12, <2>3
    <3>2. s.at[v] \in DOMAIN s.chan /\ v \in Elems(s.chan[s.at[v]].members)
      BY <1>16, <3>1 DEF Ok
    <3> QED BY <1>12, <2>1, <3>1, <3>2 DEF c
  <2> QED BY <2>2, <2>3
<1>17. ASSUME NEW v \in t.gavel PROVE t.at[v] # NoName /\ t.chan[t.at[v]].opr = v
  <2>1. CASE v \in s.gavel
    <3>1. v # u /\ v \in User /\ s.at[v] # NoName /\ s.chan[s.at[v]].opr = v
      BY <1>1, <1>3, <2>1 DEF Ok
    <3>2. t.at[v] = s.at[v] /\ s.at[v] \in DOMAIN s.chan
      BY <1>6, <1>12, <3>1 DEF Ok
    <3>3. s.at[v] = n => d.opr = v
      BY <1>1, <1>12, <3>1, UserAssumption DEF c
    <3> QED BY <1>12, <3>1, <3>2, <3>3
  <2>2. CASE v = u /\ d.opr = u
    BY <1>1, <1>6, <1>12, <2>2
  <2> QED BY <1>12, <2>1, <2>2
<1>18. Ok(t, NoUser, NoName)
  <2>1. NoDup(t.list) /\ DOMAIN t.chan = Elems(t.list) /\ t \in Chats
    BY <1>12 DEF Ok
  <2> QED BY <2>1, <1>14, <1>15, <1>16, <1>17 DEF Ok
<1>19. Entered(c, d, n, u)
  BY <1>5, <1>12 DEF Entered
<1>20. t.at[u] = n /\ \A v \in User \ {u} : t.at[v] = s.at[v]
  BY <1>6, <1>12
<1> QED BY <1>12, <1>18, <1>19, <1>20 DEF t, c


-----------------------------------------------------------------------------
(* channel_create, and channellist_find_channel_by_name.                     *)

Created(s, t, n, conf) ==
    /\ DOMAIN t.chan = DOMAIN s.chan \cup {n} /\ t.chan[n] = NewChannel(conf)
    /\ \A m \in DOMAIN s.chan : t.chan[m] = s.chan[m]
    /\ t.at = s.at

\* A new channel is empty; nobody is in it and nobody operates it.
LEMMA NewLemma ==
    ASSUME NEW conf \in Conf
    PROVE  LET c == NewChannel(conf)
           IN  /\ c \in ChannelRecord /\ c.conf = conf /\ c.members = <<>> /\ c.count = 0
               /\ c.opr = NoUser /\ c.next = NoUser /\ c.bans = {}
BY DEF NewChannel, ChannelRecord

\* A channel of a name that there is not yet joins the others.
LEMMA CreateLemma ==
    ASSUME NEW s, Ok(s, NoUser, NoName), NEW n \in Name \ DOMAIN s.chan, NEW conf \in Conf,
           NEW empty,
           conf.permanent => conf.short \in PlainName \cup {NoName},
           ~conf.permanent => conf = TempConf(n) /\ n = empty
    PROVE  Ok(ChannelCreate(s, n, conf), NoUser, empty) /\ Created(s, ChannelCreate(s, n, conf), n, conf)
<1> DEFINE t == ChannelCreate(s, n, conf)
           l == <<n>> \o s.list
           c == NewChannel(conf)
           d == [m \in DOMAIN s.chan \cup {n} |-> IF m = n THEN c ELSE s.chan[m]]
<1>1. /\ s \in Chats /\ NoDup(s.list) /\ DOMAIN s.chan = Elems(s.list)
      /\ s.list \in Seq(Name) /\ s.at \in [User -> Name \cup {NoName}] /\ s.gavel \in SUBSET User
      /\ DOMAIN s.chan \in SUBSET Name /\ \A m \in DOMAIN s.chan : s.chan[m] \in ChannelRecord
  BY ChatsLemma DEF Ok
<1>2. /\ l \in Seq(Name) /\ NoDup(l) /\ Elems(l) = Elems(s.list) \cup {n}
  BY <1>1, PrependLemma
<1>3. /\ c \in ChannelRecord /\ c.conf = conf /\ c.members = <<>> /\ c.count = 0
      /\ c.opr = NoUser /\ c.next = NoUser /\ c.bans = {}
  BY NewLemma
<1> HIDE DEF c
<1>4. /\ DOMAIN d = DOMAIN s.chan \cup {n} /\ d[n] = c /\ \A m \in DOMAIN s.chan : d[m] = s.chan[m]
  OBVIOUS
<1>5. d \in Chans
  <2>1. d \in [DOMAIN s.chan \cup {n} -> ChannelRecord]
    BY <1>1, <1>3
  <2>2. DOMAIN s.chan \cup {n} \in SUBSET Name
    BY <1>1
  <2> QED BY <2>1, <2>2 DEF Chans
<1>6. t = [s EXCEPT !.list = l, !.chan = d]
  BY <1>1 DEF ChannelCreate, Chats, c
<1> HIDE DEF l, d, t
<1>7. t \in Chats /\ t.list = l /\ t.chan = d /\ t.at = s.at /\ t.gavel = s.gavel
  BY <1>1, <1>2, <1>5, <1>6 DEF Chats
<1>8. Elems(c.members) = {}
  BY <1>3 DEF Elems
<1>9. ASSUME NEW m \in DOMAIN t.chan PROVE Decent(t.chan[m], m, NoUser, empty)
  <2>1. CASE m = n
    <3>1. NoDup(c.members) /\ c.count = Len(c.members)
      BY <1>3 DEF NoDup
    <3> QED BY <2>1, <3>1, <1>3, <1>4, <1>7, <1>8 DEF Decent
  <2>2. CASE m # n
    <3>1. m \in DOMAIN s.chan /\ t.chan[m] = s.chan[m]
      BY <1>4, <1>7, <2>2
    <3>2. Decent(s.chan[m], m, NoUser, NoName) /\ m \in Name
      BY <1>1, <3>1 DEF Ok
    <3> QED BY <3>1, <3>2, NameAssumption DEF Decent
  <2> QED BY <2>1, <2>2
<1>10. ASSUME NEW m \in DOMAIN t.chan, NEW v \in Elems(t.chan[m].members) PROVE t.at[v] = m
  <2>1. m \in DOMAIN s.chan /\ t.chan[m] = s.chan[m]
    BY <1>4, <1>7, <1>8
  <2> QED BY <1>7, <2>1 DEF Ok
<1>11. ASSUME NEW v \in User, t.at[v] # NoName
       PROVE  t.at[v] \in DOMAIN t.chan /\ v \in Elems(t.chan[t.at[v]].members)
  <2>1. s.at[v] \in DOMAIN s.chan /\ v \in Elems(s.chan[s.at[v]].members)
    BY <1>7, <1>11 DEF Ok
  <2> QED BY <1>4, <1>7, <2>1
<1>12. ASSUME NEW v \in t.gavel PROVE t.at[v] # NoName /\ t.chan[t.at[v]].opr = v
  <2>1. v \in User /\ s.at[v] # NoName /\ s.chan[s.at[v]].opr = v
    BY <1>1, <1>7 DEF Ok
  <2>2. s.at[v] \in DOMAIN s.chan
    BY <2>1 DEF Ok
  <2> QED BY <1>4, <1>7, <2>1, <2>2
<1>13. Ok(t, NoUser, empty)
  <2>1. NoDup(t.list) /\ DOMAIN t.chan = Elems(t.list)
    BY <1>1, <1>2, <1>4, <1>7
  <2> QED BY <1>7, <2>1, <1>9, <1>10, <1>11, <1>12 DEF Ok
<1>14. Created(s, t, n, conf)
  BY <1>4, <1>7 DEF Created, c
<1> QED BY <1>13, <1>14 DEF t

\* A permanent channel n is made of that configuration because no other channel of that short
\* name and locale has room.
Rolls(s, t, n, name, loc) ==
    \E conf \in Conf :
       /\ n \in Name \ DOMAIN s.chan /\ t = ChannelCreate(s, n, conf)
       /\ conf.permanent /\ conf.short = name /\ name \in PlainName
       /\ loc \in {conf.loc, NoLocale}
       /\ \A m \in DOMAIN s.chan : ByShortName(s, m, name, loc) => ~HasRoom(s, m)

\* The lookup finds a channel, makes one that is needed, or says that the name is free.
LEMMA FindLemma ==
    ASSUME NEW s, Ok(s, NoUser, NoName), NEW name \in Name, NEW loc \in Locale \cup {NoLocale}
    PROVE  LET f == FindChannel(s, name, loc)
           IN  \/ f.n = NoName /\ f.st = s /\ name \notin DOMAIN s.chan
               \/ f.n \in DOMAIN s.chan /\ f.st = s
               \/ f.n # NoName /\ Rolls(s, f.st, f.n, name, loc)
<1> DEFINE f     == FindChannel(s, name, loc)
           found == Matches(s, name, loc)
           full  == {i \in DOMAIN s.list : ByShortName(s, s.list[i], name, loc)}
           same  == {i \in DOMAIN s.list : s.chan[s.list[i]].conf.short = name}
           P(i)  == \A j \in found : i <= j
           Q(i)  == \A j \in same : j <= i
           x     == CHOOSE i \in found : P(i)
           y     == CHOOSE i \in same : Q(i)
           last  == s.chan[s.list[y]].conf
           conf  == [last EXCEPT !.permanent = TRUE, !.loc = IF loc # NoLocale THEN loc ELSE @]
           roll  == <<name, conf.loc, Cardinality(full) + 1>>
<1>1. /\ s \in Chats /\ DOMAIN s.chan = Elems(s.list) /\ s.list \in Seq(Name)
      /\ DOMAIN s.list = 1..Len(s.list) /\ Len(s.list) \in Nat
      /\ DOMAIN s.chan \in SUBSET Name /\ name # NoName
  BY ChatsLemma, NameAssumption DEF Ok
<1>2. f = IF found # {} THEN [st |-> s, n |-> s.list[x]]
          ELSE IF same = {} \/ roll \in DOMAIN s.chan THEN [st |-> s, n |-> NoName]
          ELSE [st |-> ChannelCreate(s, roll, conf), n |-> roll]
  BY DEF FindChannel
<1>3. found \in SUBSET (1..Len(s.list)) /\ same \in SUBSET (1..Len(s.list))
      /\ full \in SUBSET (1..Len(s.list))
  BY <1>1 DEF Matches
<1>4. CASE found # {}
  <2>1. found \in SUBSET Nat
    BY <1>3
  <2>2. \E i \in found : P(i)
    BY <1>4, <2>1, FirstLemma
  <2>3. x \in found
    BY <2>2
  <2>4. s.list[x] \in DOMAIN s.chan
    BY <1>1, <1>3, <2>3 DEF Elems
  <2>5. f = [st |-> s, n |-> s.list[x]]
    BY <1>2, <1>4
  <2> HIDE DEF x, f
  <2>6. f.st = s /\ f.n \in DOMAIN s.chan
    BY <2>4, <2>5
  <2> QED BY <2>6 DEF f
<1>5. ASSUME found = {} PROVE name \notin DOMAIN s.chan
  <2>1. \A i \in DOMAIN s.list : s.list[i] # name
    BY <1>5 DEF Matches
  <2> QED BY <1>1, <2>1 DEF Elems
<1>6. CASE found = {} /\ (same = {} \/ roll \in DOMAIN s.chan)
  <2>1. f = [st |-> s, n |-> NoName]
    BY <1>2, <1>6
  <2> HIDE DEF f
  <2>2. f.st = s /\ f.n = NoName
    BY <2>1
  <2> QED BY <1>5, <1>6, <2>2 DEF f
<1>7. CASE found = {} /\ same # {} /\ roll \notin DOMAIN s.chan
  <2>1. \E i \in same : Q(i)
    BY <1>1, <1>3, <1>7, LastLemma
  <2>2. y \in same
    BY <2>1
  <2> HIDE DEF y, f
  <2>3. s.list[y] \in DOMAIN s.chan /\ last.short = name
    BY <1>1, <2>2 DEF Elems
  <2>4. Decent(s.chan[s.list[y]], s.list[y], NoUser, NoName)
    BY <2>3 DEF Ok
  <2>5. last \in Conf
    BY <2>4, FieldsLemma DEF Decent
  <2>6. last.permanent
    <3>1. SUFFICES ASSUME ~last.permanent PROVE FALSE
      BY <2>5 DEF Conf
    <3>2. last.short = s.list[y]
      BY <2>4, <3>1 DEF Decent, TempConf
    <3> QED BY <1>5, <1>7, <2>3, <3>2
  <2>7. name \in PlainName
    BY <1>1, <2>3, <2>4, <2>6 DEF Decent
  <2> HIDE DEF last
  <2>8. /\ conf \in Conf /\ conf.permanent /\ conf.short = name /\ conf.loc \in Locale \cup {NoLocale}
        /\ loc \in {conf.loc, NoLocale}
    BY <2>3, <2>5 DEF Conf
  <2> HIDE DEF conf
  <2>9. Cardinality(full) + 1 \in Nat
    <3>1. IsFiniteSet(1..Len(s.list))
      BY <1>1, FS_Interval
    <3>2. IsFiniteSet(full)
      BY <1>3, <3>1, FS_Subset
    <3> QED BY <3>2, FS_CardinalityType
  <2>10. roll \in Name
    BY <2>7, <2>8, <2>9 DEF Name
  <2>11. ASSUME NEW m \in DOMAIN s.chan, ByShortName(s, m, name, loc) PROVE ~HasRoom(s, m)
    <3>1. PICK i \in DOMAIN s.list : s.list[i] = m
      BY <1>1 DEF Elems
    <3> QED BY <1>7, <2>11, <3>1 DEF Matches
  <2>12. f = [st |-> ChannelCreate(s, roll, conf), n |-> roll]
    BY <1>2, <1>7
  <2> HIDE DEF roll
  <2>13. f.st = ChannelCreate(s, roll, conf) /\ f.n = roll
    BY <2>12
  <2>14. Rolls(s, f.st, f.n, name, loc)
    BY <1>7, <2>7, <2>8, <2>10, <2>11, <2>13 DEF Rolls
  <2> QED BY <2>10, <2>13, <2>14, NameAssumption DEF f
<1> QED BY <1>4, <1>6, <1>7


-----------------------------------------------------------------------------
(* conn_set_channel: what became of the chat state s0 of before the handler. *)

Old(s, n) == IF n \in DOMAIN s.chan THEN s.chan[n] ELSE NewChannel(TempConf(n))

\* The operator of d is the one of c, or became it by right (OperatorByRight).
Rightful(c, d, n) ==
    d.opr \notin {c.opr, NoUser} => \/ d.opr = c.next
                                    \/ c.opr = NoUser /\ Fit(d.conf, n, d.opr)
                                    \/ Elder(d, n, d.opr, c.opr)

\* No permanent channel of s0 with that short name and the locale of u has room.
NoRoom(s0, u, name) ==
    \A m \in DOMAIN s0.chan :
        s0.chan[m].conf.permanent /\ ByShortName(s0, m, name, LocaleOf[u]) => ~HasRoom(s0, m)

\* The new permanent channels were needed (RolloverOnlyWhenFull).
Needed(s0, s, u) ==
    \A n \in DOMAIN s.chan \ DOMAIN s0.chan :
        s.chan[n].conf.permanent => /\ LocaleOf[u] \in {s.chan[n].conf.loc, NoLocale}
                                    /\ NoRoom(s0, u, s.chan[n].conf.short)

SameOthers(s0, s, u) == \A v \in User \ {u} : s.at[v] = s0.at[v]

\* While u is on his way, in no channel.
Moving(s0, s, u) ==
    /\ SameOthers(s0, s, u)
    /\ \A n \in DOMAIN s.chan : Left(Old(s0, n), s.chan[n], n, u)
    /\ \A n \in DOMAIN s0.chan \ DOMAIN s.chan : s0.chan[n].opr \in {NoUser, u}
    /\ \A n \in DOMAIN s0.chan : s0.chan[n].conf.permanent =>
          /\ n \in DOMAIN s.chan /\ s.chan[n].conf = s0.chan[n].conf
          /\ s.chan[n].count <= s0.chan[n].count
    /\ Needed(s0, s, u)

\* When he has arrived, or is left in no channel.
Done(s0, s, u) ==
    /\ SameOthers(s0, s, u)
    /\ \A n \in DOMAIN s.chan : Rightful(Old(s0, n), s.chan[n], n)
    /\ Needed(s0, s, u)

\* Before he leaves: at most bans and an empty channel have come.
Start(s0, s, u) ==
    /\ SameOthers(s0, s, u)
    /\ \A n \in DOMAIN s0.chan :
          /\ n \in DOMAIN s.chan /\ s.chan[n].conf = s0.chan[n].conf
          /\ s.chan[n].opr = s0.chan[n].opr /\ s.chan[n].next = s0.chan[n].next
          /\ s.chan[n].count = s0.chan[n].count
    /\ \A n \in DOMAIN s.chan \ DOMAIN s0.chan :
          s.chan[n].opr = NoUser /\ s.chan[n].next = NoUser /\ s.chan[n].members = <<>>
    /\ Needed(s0, s, u)

\* A channel made by a user lets everybody in.
LEMMA TempLemma ==
    ASSUME NEW n \in Name
    PROVE  /\ TempConf(n) \in Conf /\ ~TempConf(n).permanent /\ TempConf(n).bots
           /\ NewChannel(TempConf(n)).opr = NoUser /\ NewChannel(TempConf(n)).next = NoUser
<1>1. TempConf(n) \in Conf
  BY DEF TempConf, Conf, Unlimited
<1> QED BY <1>1, NewLemma DEF TempConf

\* If u stays in no channel the handler is done.
LEMMA MovingIsDone ==
    ASSUME NEW s0, NEW s, NEW u, Moving(s0, s, u)
    PROVE  Done(s0, s, u)
BY DEF Moving, Done, Left, Rightful

\* u leaves after that.
LEMMA StartLemma ==
    ASSUME NEW s0 \in Chats, NEW s \in Chats, NEW u \in User, Start(s0, s, u), Ok(s, u, NoName)
    PROVE  Moving(s0, LeaveChannel(s, u), u)
<1> DEFINE t == LeaveChannel(s, u)
<1>1. Kept(s, t, u)
  BY LeaveLemma
<1> HIDE DEF t
<1>2. SameOthers(s0, t, u)
  BY <1>1 DEF SameOthers, Kept, Start
<1>3. ASSUME NEW n \in DOMAIN t.chan PROVE Left(Old(s0, n), t.chan[n], n, u)
  <2>1. n \in DOMAIN s.chan /\ n \in Name /\ Left(s.chan[n], t.chan[n], n, u)
        /\ (s.chan[n].members = <<>> => t.chan[n] = s.chan[n])
    BY <1>1, ChatsLemma DEF Kept
  <2>2. Old(s0, n).opr = s.chan[n].opr /\ Old(s0, n).next = s.chan[n].next
    BY <2>1, TempLemma DEF Start, Old
  <2> QED BY <2>1, <2>2 DEF Left
<1>4. ASSUME NEW n \in DOMAIN s0.chan \ DOMAIN t.chan PROVE s0.chan[n].opr \in {NoUser, u}
  BY <1>1 DEF Kept, Start
<1>5. ASSUME NEW n \in DOMAIN s0.chan, s0.chan[n].conf.permanent
      PROVE  /\ n \in DOMAIN t.chan /\ t.chan[n].conf = s0.chan[n].conf
             /\ t.chan[n].count <= s0.chan[n].count
  <2>1. /\ n \in DOMAIN s.chan /\ s.chan[n].conf = s0.chan[n].conf
        /\ s.chan[n].count = s0.chan[n].count
    BY DEF Start
  <2>2. n \in DOMAIN t.chan
    BY <1>1, <1>5, <2>1 DEF Kept
  <2> QED BY <1>1, <2>1, <2>2 DEF Kept
<1>6. Needed(s0, t, u)
  <2>1. ASSUME NEW n \in DOMAIN t.chan PROVE n \in DOMAIN s.chan /\ t.chan[n].conf = s.chan[n].conf
    BY <1>1 DEF Kept
  <2> QED BY <2>1 DEF Needed, Start
<1> QED BY <1>2, <1>3, <1>4, <1>5, <1>6 DEF Moving, t

\* A channel is made for u on his way.
LEMMA MoveCreateLemma ==
    ASSUME NEW s0 \in Chats, NEW s \in Chats, NEW t, NEW u, Moving(s0, s, u),
           NEW n \in Name \ DOMAIN s.chan, NEW conf \in Conf, Created(s, t, n, conf),
           conf.permanent => /\ LocaleOf[u] \in {conf.loc, NoLocale}
                             /\ NoRoom(s0, u, conf.short)
    PROVE  Moving(s0, t, u)
<1>0. /\ t.chan[n].conf = conf /\ t.chan[n].opr = NoUser /\ t.chan[n].next = NoUser
  BY NewLemma DEF Created
<1>1. SameOthers(s0, t, u)
  BY DEF SameOthers, Moving, Created
<1>2. ASSUME NEW m \in DOMAIN t.chan PROVE Left(Old(s0, m), t.chan[m], m, u)
  <2>1. CASE m = n
    <3>1. Old(s0, n).opr \in {NoUser, u}
      BY TempLemma DEF Old, Moving
    <3> QED BY <1>0, <2>1, <3>1 DEF Left
  <2>2. CASE m # n
    BY <2>2 DEF Created, Moving
  <2> QED BY <2>1, <2>2
<1>3. ASSUME NEW m \in DOMAIN s0.chan \ DOMAIN t.chan PROVE s0.chan[m].opr \in {NoUser, u}
  BY DEF Created, Moving
<1>4. ASSUME NEW m \in DOMAIN s0.chan, s0.chan[m].conf.permanent
      PROVE  /\ m \in DOMAIN t.chan /\ t.chan[m].conf = s0.chan[m].conf
             /\ t.chan[m].count <= s0.chan[m].count
  BY <1>4 DEF Created, Moving
<1>5. Needed(s0, t, u)
  BY <1>0 DEF Needed, Created, Moving
<1> QED BY <1>1, <1>2, <1>3, <1>4, <1>5 DEF Moving

\* A full channel was not less full before u left.
LEMMA RollsLemma ==
    ASSUME NEW s0 \in Chats, NEW s \in Chats, NEW u, Moving(s0, s, u) \/ s = s0, NEW name,
           \A m \in DOMAIN s.chan : ByShortName(s, m, name, LocaleOf[u]) => ~HasRoom(s, m)
    PROVE  NoRoom(s0, u, name)
<1> SUFFICES ASSUME NEW m \in DOMAIN s0.chan, s0.chan[m].conf.permanent,
                    ByShortName(s0, m, name, LocaleOf[u])
             PROVE  ~HasRoom(s0, m)
  BY DEF NoRoom
<1>1. /\ m \in DOMAIN s.chan /\ s.chan[m].conf = s0.chan[m].conf
      /\ s.chan[m].count <= s0.chan[m].count
  <2>1. s0.chan[m].count \in Int
    BY ChatsLemma, FieldsLemma
  <2> QED BY <2>1 DEF Moving
<1>2. ~HasRoom(s, m)
  BY <1>1 DEF ByShortName
<1>3. s.chan[m].count \in Int /\ s0.chan[m].count \in Int /\ s0.chan[m].conf.max \in Int
  BY <1>1, ChatsLemma, FieldsLemma DEF Conf
<1> QED BY <1>1, <1>2, <1>3 DEF HasRoom

\* u enters n on his way.
LEMMA EnteredLemma ==
    ASSUME NEW s0 \in Chats, NEW s \in Chats, NEW t, NEW u \in User, NEW n \in DOMAIN s.chan,
           Moving(s0, s, u), Entered(s.chan[n], t.chan[n], n, u), DOMAIN t.chan = DOMAIN s.chan,
           \A m \in DOMAIN s.chan \ {n} : t.chan[m] = s.chan[m], SameOthers(s, t, u)
    PROVE  Done(s0, t, u)
<1>1. SameOthers(s0, t, u)
  BY DEF SameOthers, Moving
<1>2. ASSUME NEW m \in DOMAIN t.chan PROVE t.chan[m].conf = s.chan[m].conf
  BY DEF Entered
<1>3. Needed(s0, t, u)
  BY <1>2 DEF Needed, Moving
<1>4. ASSUME NEW m \in DOMAIN t.chan PROVE Rightful(Old(s0, m), t.chan[m], m)
  <2>1. CASE m # n
    BY <2>1 DEF Moving, Left, Rightful
  <2>2. CASE m = n
    <3> DEFINE c0 == Old(s0, n)
               c == s.chan[n]
               d == t.chan[n]
    <3>1. Left(c0, c, n, u) /\ Entered(c, d, n, u) /\ c.members \in Seq(User)
      BY ChatsLemma, FieldsLemma DEF Moving
    <3> HIDE DEF c0, c, d
    <3> SUFFICES Rightful(c0, d, n)
      BY <2>2 DEF c0, d
    <3>2. CASE c.opr = NoUser
      <4>1. /\ c0.opr \in {NoUser, u} /\ c.next \in {NoUser, c0.next} /\ d.conf = c.conf
            /\ \/ d.opr \in {c.next, NoUser}
               \/ d.opr = u /\ Fit(c.conf, n, u)
        BY <3>1, <3>2 DEF Left, Entered
      <4> QED BY <4>1 DEF Rightful
    <3>3. CASE c.opr # NoUser
      <4>1. d.opr = c.opr /\ d.conf = c.conf /\ d.members = <<u>> \o c.members
        BY <3>1, <3>3 DEF Entered
      <4>2. ASSUME Elder(c, n, c.opr, c0.opr) PROVE Elder(d, n, d.opr, c0.opr)
        <5>1. PICK i \in DOMAIN c.members :
                 /\ c.members[i] = c.opr
                 /\ \A j \in DOMAIN c.members : j > i => \/ ~Fit(c.conf, n, c.members[j])
                                                         \/ c.members[j] = c0.opr
          BY <4>2 DEF Elder
        <5>2. /\ DOMAIN d.members = 1..(Len(c.members) + 1) /\ DOMAIN c.members = 1..Len(c.members)
              /\ Len(c.members) \in Nat
              /\ \A j \in 2..(Len(c.members) + 1) : d.members[j] = c.members[j - 1]
          BY <3>1, <4>1
        <5>3. i + 1 \in DOMAIN d.members /\ d.members[i + 1] = d.opr
          BY <4>1, <5>1, <5>2
        <5>4. ASSUME NEW j \in DOMAIN d.members, j > i + 1
              PROVE  ~Fit(d.conf, n, d.members[j]) \/ d.members[j] = c0.opr
          <6>1. j - 1 \in DOMAIN c.members /\ j - 1 > i /\ d.members[j] = c.members[j - 1]
            BY <5>2, <5>4
          <6> QED BY <4>1, <5>1, <6>1
        <5>5. Fit(d.conf, n, d.opr)
          BY <4>1, <4>2 DEF Elder
        <5> QED BY <5>3, <5>4, <5>5 DEF Elder
      <4>3. c.opr \notin {c0.opr, NoUser} => c.opr = c0.next \/ Elder(c, n, c.opr, c0.opr)
        BY <3>1 DEF Left
      <4> QED BY <4>1, <4>2, <4>3 DEF Rightful
    <3> QED BY <3>2, <3>3
  <2> QED BY <2>1, <2>2
<1> QED BY <1>1, <1>3, <1>4 DEF Done


\* Where conn_set_channel may leave u.
Reached(s0, t, u) ==
    /\ Ok(t, NoUser, NoName)
    /\ \/ t.at[u] = NoName /\ Moving(s0, t, u)
       \/ t.at[u] # NoName /\ Done(s0, t, u)

\* Allowing an empty channel demands less.
LEMMA SomeEmptyLemma ==
    ASSUME NEW s, NEW T, NEW n, Ok(s, T, NoName)
    PROVE  Ok(s, T, n)
<1>1. ASSUME NEW m \in DOMAIN s.chan PROVE Decent(s.chan[m], m, T, n)
  <2>1. m # NoName
    BY ChatsLemma, NameAssumption DEF Ok
  <2> QED BY <2>1 DEF Ok, Decent
<1> QED BY <1>1 DEF Ok

\* u joins the channel that was found or made for him.
LEMMA ArriveLemma ==
    ASSUME NEW s0 \in Chats, NEW s, NEW u \in User, NEW n \in DOMAIN s.chan,
           Ok(s, NoUser, n), s.at[u] = NoName, Moving(s0, s, u), ~Refused(s, n, u)
    PROVE  Reached(s0, AddConnection(s, n, u), u)
<1> DEFINE t == AddConnection(s, n, u)
<1>1. /\ Ok(t, NoUser, NoName)
      /\ t.at[u] = n /\ \A v \in User \ {u} : t.at[v] = s.at[v]
      /\ DOMAIN t.chan = DOMAIN s.chan
      /\ \A m \in DOMAIN s.chan \ {n} : t.chan[m] = s.chan[m]
      /\ Entered(s.chan[n], t.chan[n], n, u)
  BY AddLemma
<1>2. s \in Chats /\ n # NoName
  BY ChatsLemma, NameAssumption DEF Ok
<1> HIDE DEF t
<1>3. SameOthers(s, t, u)
  BY <1>1 DEF SameOthers
<1>4. Done(s0, t, u)
  BY <1>1, <1>2, <1>3, EnteredLemma
<1> QED BY <1>1, <1>2, <1>4 DEF Reached, t

\* The second half of conn_set_channel: u is let in, or stays outside.
LEMMA EnterLemma ==
    ASSUME NEW s0 \in Chats, NEW s, NEW u \in User, NEW name \in Name,
           Ok(s, NoUser, NoName), s.at[u] = NoName, Moving(s0, s, u)
    PROVE  Reached(s0, EnterFound(FindChannel(s, name, LocaleOf[u]), u, name), u)
<1> DEFINE f == FindChannel(s, name, LocaleOf[u])
           t == EnterFound(f, u, name)
<1>1. /\ s \in Chats /\ LocaleOf[u] \in Locale \cup {NoLocale} /\ name # NoName
      /\ \A n \in DOMAIN s.chan : n \in Name /\ n # NoName
  BY ChatsLemma, LocaleAssumption, NameAssumption DEF Ok
<1>2. \/ f.n = NoName /\ f.st = s /\ name \notin DOMAIN s.chan
      \/ f.n \in DOMAIN s.chan /\ f.st = s
      \/ f.n # NoName /\ Rolls(s, f.st, f.n, name, LocaleOf[u])
  BY <1>1, FindLemma
<1>3. t = IF f.n = NoName THEN Admit(ChannelCreate(f.st, name, TempConf(name)), u, name, TRUE)
          ELSE Admit(f.st, u, f.n, FALSE)
  BY DEF EnterFound
<1> HIDE DEF f, t
<1>4. ASSUME NEW w, NEW n \in DOMAIN w.chan, Ok(w, NoUser, NoName), w.at[u] = NoName, Moving(s0, w, u)
      PROVE  Reached(s0, Admit(w, u, n, FALSE), u)
  <2>1. CASE Refused(w, n, u)
    <3>1. Admit(w, u, n, FALSE) = w
      BY <2>1 DEF Admit
    <3> QED BY <1>4, <3>1 DEF Reached
  <2>2. CASE ~Refused(w, n, u)
    <3>1. Ok(w, NoUser, n)
      BY <1>4, SomeEmptyLemma
    <3>2. Admit(w, u, n, FALSE) = AddConnection(w, n, u)
      BY <2>2 DEF Admit
    <3> QED BY <1>4, <2>2, <3>1, <3>2, ArriveLemma
  <2> QED BY <2>1, <2>2
<1>5. CASE f.n = NoName /\ f.st = s /\ name \notin DOMAIN s.chan
  <2> DEFINE w == ChannelCreate(s, name, TempConf(name))
  <2>1. TempConf(name) \in Conf /\ ~TempConf(name).permanent /\ TempConf(name).bots
    BY TempLemma
  <2>2. Ok(w, NoUser, name) /\ Created(s, w, name, TempConf(name))
    BY <1>5, <2>1, CreateLemma
  <2> HIDE DEF w
  <2>3. Moving(s0, w, u)
    BY <1>1, <1>5, <2>1, <2>2, MoveCreateLemma
  <2>4. name \in DOMAIN w.chan /\ w.at[u] = NoName /\ w.chan[name] = NewChannel(TempConf(name))
    BY <2>2 DEF Created
  <2>5. ~Refused(w, name, u)
    BY <2>1, <2>4, NewLemma DEF Refused
  <2>6. t = AddConnection(w, name, u)
    BY <1>3, <1>5, <2>5 DEF w, Admit
  <2> QED BY <2>2, <2>3, <2>4, <2>5, <2>6, ArriveLemma DEF t, f
<1>6. CASE f.n \in DOMAIN s.chan /\ f.st = s
  <2>1. t = Admit(s, u, f.n, FALSE)
    BY <1>1, <1>3, <1>6
  <2> QED BY <1>4, <1>6, <2>1 DEF t, f
<1>7. CASE f.n # NoName /\ Rolls(s, f.st, f.n, name, LocaleOf[u])
  <2> DEFINE w == f.st
             n == f.n
  <2>1. PICK conf \in Conf :
          /\ n \in Name \ DOMAIN s.chan /\ w = ChannelCreate(s, n, conf)
          /\ conf.permanent /\ conf.short = name /\ name \in PlainName
          /\ LocaleOf[u] \in {conf.loc, NoLocale}
          /\ \A m \in DOMAIN s.chan : ByShortName(s, m, name, LocaleOf[u]) => ~HasRoom(s, m)
    BY <1>7 DEF Rolls
  <2>2. t = Admit(w, u, n, FALSE)
    BY <1>3, <1>7
  <2> HIDE DEF w, n
  <2>3. Ok(w, NoUser, NoName) /\ Created(s, w, n, conf)
    BY <2>1, CreateLemma
  <2>4. NoRoom(s0, u, name)
    BY <1>1, <2>1, RollsLemma
  <2>5. Moving(s0, w, u)
    BY <1>1, <2>1, <2>3, <2>4, MoveCreateLemma
  <2>6. n \in DOMAIN w.chan /\ w.at[u] = NoName
    BY <2>3 DEF Created
  <2>7. Reached(s0, Admit(w, u, n, FALSE), u)
    BY <1>4, <2>3, <2>5, <2>6
  <2> QED BY <2>2, <2>7 DEF t, f
<1> QED BY <1>2, <1>5, <1>6, <1>7 DEF t, f

\* conn_set_channel, once and then once more to the void.
LEMMA SetLemma ==
    ASSUME NEW s0 \in Chats, NEW s, NEW u \in User, NEW name \in Name,
           Ok(s, u, NoName), Start(s0, s, u)
    PROVE  Reached(s0, SetChannel(s, u, name), u)
<1>1. s \in Chats
  BY DEF Ok
<1>2. Moving(s0, LeaveChannel(s, u), u)
  BY <1>1, StartLemma
<1>3. Ok(LeaveChannel(s, u), NoUser, NoName) /\ LeaveChannel(s, u).at[u] = NoName
  BY LeaveLemma DEF Kept
<1> QED BY <1>2, <1>3, EnterLemma DEF SetChannel

\* And if the channel refuses him.
LEMMA SetOrVoidLemma ==
    ASSUME NEW s0 \in Chats, NEW s, NEW u \in User, NEW name \in Name,
           Ok(s, u, NoName), Start(s0, s, u)
    PROVE  Reached(s0, SetChannelOrVoid(s, u, name), u)
<1> DEFINE t == SetChannel(s, u, name)
<1>1. Reached(s0, t, u)
  BY SetLemma
<1>2. SetChannelOrVoid(s, u, name) = IF t.at[u] = NoName THEN SetChannel(t, u, Void) ELSE t
  BY DEF SetChannelOrVoid, OrVoid
<1> HIDE DEF t
<1>3. CASE t.at[u] = NoName
  <2>1. Moving(s0, t, u) /\ Ok(t, NoUser, NoName)
    BY <1>1, <1>3 DEF Reached
  <2>2. SetChannel(t, u, Void) = EnterFound(FindChannel(t, Void, LocaleOf[u]), u, Void)
    BY <1>3 DEF SetChannel, LeaveChannel
  <2>3. Void \in Name
    BY NameAssumption DEF Name
  <2> QED BY <1>2, <1>3, <2>1, <2>2, <2>3, EnterLemma
<1> QED BY <1>1, <1>2, <1>3


-----------------------------------------------------------------------------
(* The handlers.                                                             *)

\* Allowing a barred member demands less.
LEMMA AnyoneLemma ==
    ASSUME NEW s, NEW u, NEW n, Ok(s, NoUser, n)
    PROVE  Ok(s, u, n)
<1>1. ASSUME NEW m \in DOMAIN s.chan PROVE Decent(s.chan[m], m, u, n)
  <2>1. \A v \in Elems(s.chan[m].members) : v # NoUser
    BY ChatsLemma, FieldsLemma, UserAssumption DEF Ok
  <2> QED BY <2>1 DEF Ok, Decent
<1> QED BY <1>1 DEF Ok

\* If u stays where he is the handler is done.
LEMMA StartIsDone ==
    ASSUME NEW s0 \in Chats, NEW s \in Chats, NEW u, Start(s0, s, u)
    PROVE  Done(s0, s, u)
<1>1. ASSUME NEW n \in DOMAIN s.chan PROVE Rightful(Old(s0, n), s.chan[n], n)
  BY DEF Start, Old, Rightful
<1> QED BY <1>1 DEF Start, Done

\* Looking for a channel makes at most an empty one that was needed.
LEMMA FoundLemma ==
    ASSUME NEW s, Ok(s, NoUser, NoName), NEW name \in Name, NEW u \in User
    PROVE  LET t == FindChannel(s, name, LocaleOf[u]).st
           IN  Ok(t, NoUser, NoName) /\ Start(s, t, u) /\ t.at = s.at
<1> DEFINE f == FindChannel(s, name, LocaleOf[u])
           t == f.st
<1>1. f.st = s \/ Rolls(s, f.st, f.n, name, LocaleOf[u])
  BY FindLemma, LocaleAssumption
<1> HIDE DEF f
<1>2. CASE f.st = s
  <2>1. Start(s, s, u)
    BY DEF Start, SameOthers, Needed
  <2> QED BY <1>2, <2>1 DEF f
<1>3. CASE Rolls(s, f.st, f.n, name, LocaleOf[u])
  <2> DEFINE n == f.n
  <2>1. PICK conf \in Conf :
          /\ n \in Name \ DOMAIN s.chan /\ t = ChannelCreate(s, n, conf)
          /\ conf.permanent /\ conf.short = name /\ name \in PlainName
          /\ LocaleOf[u] \in {conf.loc, NoLocale}
          /\ \A m \in DOMAIN s.chan : ByShortName(s, m, name, LocaleOf[u]) => ~HasRoom(s, m)
    BY <1>3 DEF Rolls
  <2> HIDE DEF t, n
  <2>2. Ok(t, NoUser, NoName) /\ Created(s, t, n, conf)
    BY <2>1, CreateLemma
  <2>3. NoRoom(s, u, name)
    BY <2>1, RollsLemma DEF Ok
  <2>4. Needed(s, t, u)
    BY <2>1, <2>2, <2>3, NewLemma DEF Needed, Created
  <2>5. Start(s, t, u)
    BY <2>2, <2>4, NewLemma DEF Start, SameOthers, Created
  <2> QED BY <2>2, <2>5 DEF t, f, Created
<1> QED BY <1>1, <1>2, <1>3

\* Another operator, designee or ban for the channel n, and the gavels that go with them.
LEMMA ReplaceLemma ==
    ASSUME NEW s, Ok(s, NoUser, NoName), NEW n \in DOMAIN s.chan, NEW d \in ChannelRecord,
           NEW g \in SUBSET User, NEW T,
           d.conf = s.chan[n].conf, d.members = s.chan[n].members, d.count = s.chan[n].count,
           d.opr \in Elems(d.members) \cup {NoUser}, d.next \in Elems(d.members) \cup {NoUser},
           d.opr = d.next => d.opr = NoUser,
           \A v \in Elems(d.members) : v = T \/ ~Barred(d, v),
           \A v \in g : s.at[v] # NoName /\ IF s.at[v] = n THEN d.opr = v ELSE v \in s.gavel,
           NEW u
    PROVE  LET t == With(s, n, d, g)
           IN  /\ Ok(t, T, NoName) /\ t.at = s.at
               /\ Rightful(s.chan[n], d, n) => Done(s, t, u)
               /\ d.opr = s.chan[n].opr /\ d.next = s.chan[n].next => Start(s, t, u)
<1> DEFINE t == With(s, n, d, g)
           c == s.chan[n]
<1>1. /\ s \in Chats /\ n \in Name /\ s.gavel \in SUBSET User
      /\ Decent(c, n, NoUser, NoName) /\ \A m \in DOMAIN s.chan : m # NoName
  BY ChatsLemma, NameAssumption DEF Ok
<1>2. /\ t \in Chats /\ t.list = s.list /\ t.at = s.at /\ t.gavel = g
      /\ DOMAIN t.chan = DOMAIN s.chan /\ t.chan[n] = d
      /\ \A m \in DOMAIN s.chan \ {n} : t.chan[m] = s.chan[m]
  BY <1>1, WithLemma
<1> HIDE DEF t
<1>3. ASSUME NEW m \in DOMAIN t.chan PROVE Decent(t.chan[m], m, T, NoName)
  <2>1. CASE m = n
    BY <1>1, <1>2, <2>1 DEF Decent
  <2>2. CASE m # n
    <3>1. Ok(s, T, NoName)
      BY AnyoneLemma
    <3> QED BY <1>2, <2>2, <3>1 DEF Ok
  <2> QED BY <2>1, <2>2
<1>4. ASSUME NEW m \in DOMAIN t.chan
      PROVE  t.chan[m].members = s.chan[m].members /\ t.chan[m].conf = s.chan[m].conf
             /\ t.chan[m].count = s.chan[m].count
  BY <1>2
<1>5. ASSUME NEW v \in t.gavel PROVE t.at[v] # NoName /\ t.chan[t.at[v]].opr = v
  <2>1. v \in User /\ s.at[v] # NoName /\ IF s.at[v] = n THEN d.opr = v ELSE v \in s.gavel
    BY <1>2
  <2>2. s.at[v] \in DOMAIN s.chan
    BY <2>1 DEF Ok
  <2>3. CASE s.at[v] = n
    BY <1>2, <2>1, <2>3
  <2>4. CASE s.at[v] # n
    <3>1. s.chan[s.at[v]].opr = v
      BY <2>1, <2>4 DEF Ok
    <3> QED BY <1>2, <2>1, <2>2, <2>4, <3>1
  <2> QED BY <2>3, <2>4
<1>6. Ok(t, T, NoName)
  BY <1>2, <1>3, <1>4, <1>5 DEF Ok
<1>7. ASSUME Rightful(c, d, n) PROVE Done(s, t, u)
  <2>1. ASSUME NEW m \in DOMAIN t.chan PROVE Rightful(Old(s, m), t.chan[m], m)
    BY <1>2, <1>7 DEF Old, Rightful
  <2> QED BY <1>2, <2>1 DEF Done, SameOthers, Needed
<1>8. ASSUME d.opr = c.opr, d.next = c.next PROVE Start(s, t, u)
  BY <1>2, <1>4, <1>8 DEF Start, SameOthers, Needed
<1> QED BY <1>2, <1>6, <1>7, <1>8 DEF t

-----------------------------------------------------------------------------
(* The invariant, and what every action does.                                *)

IInv ==
    /\ Ok(Chat, NoUser, NoName)
    /\ online \subseteq User
    /\ \A u \in User : at[u] # NoName => u \in online

\* The chat state is that of the variables.
LEMMA ChatFields ==
    Chat.list = list /\ Chat.chan = chan /\ Chat.at = at /\ Chat.gavel = gavel
BY DEF Chat

\* A handler leaves the chat state it computes.
LEMMA BecomeLemma ==
    ASSUME NEW t \in Chats, Become(t)
    PROVE  Chat' = t
<1>1. t = [list |-> t.list, chan |-> t.chan, at |-> t.at, gavel |-> t.gavel]
  BY DEF Chats
<1> QED BY <1>1 DEF Become, Chat

\* The action moved, or was of, u.
Handled(u) ==
    /\ Ok(Chat, NoUser, NoName)' /\ Done(Chat, Chat', u)
    /\ u \in online \/ chan' = chan
    /\ online' \in SUBSET User /\ online \ {u} \subseteq online'
    /\ at'[u] # NoName => u \in online'

\* A handler that ends with conn_set_channel.
LEMMA ReachedLemma ==
    ASSUME IInv, NEW u \in online, NEW t, Reached(Chat, t, u), Become(t), online' = online
    PROVE  Handled(u)
<1>1. t \in Chats /\ Ok(t, NoUser, NoName) /\ Done(Chat, t, u)
  BY MovingIsDone DEF Reached, Ok
<1>2. Chat' = t
  BY <1>1, BecomeLemma
<1> QED BY <1>1, <1>2 DEF Handled, IInv

\* What the invariant says of one user.
LEMMA InvUser ==
    ASSUME IInv, NEW u \in User
    PROVE  /\ Chat \in Chats
           /\ at[u] # NoName => /\ u \in online /\ at[u] \in Name /\ at[u] \in DOMAIN chan
                                /\ u \in Elems(chan[at[u]].members)
           /\ Ok(Chat, u, NoName) /\ Start(Chat, Chat, u)
<1>1. Ok(Chat, NoUser, NoName)
  BY DEF IInv
<1>2. Chat \in Chats /\ \A m \in DOMAIN chan : m \in Name
  BY <1>1, ChatFields, ChatsLemma DEF Ok
<1>3. at[u] # NoName => at[u] \in DOMAIN chan /\ u \in Elems(chan[at[u]].members)
  BY <1>1, ChatFields DEF Ok
<1>4. Start(Chat, Chat, u)
  BY DEF Start, SameOthers, Needed
<1> QED BY <1>1, <1>2, <1>3, <1>4, AnyoneLemma DEF IInv

\* A handler that ends with channel_del_connection.
LEMMA LeaveHandled ==
    ASSUME IInv, NEW u \in online, Become(LeaveChannel(Chat, u)), online' \in {online, online \ {u}}
    PROVE  Handled(u)
<1> DEFINE t == LeaveChannel(Chat, u)
<1>0. u \in User
  BY DEF IInv
<1>1. Ok(t, NoUser, NoName) /\ t.at[u] = NoName /\ Moving(Chat, t, u)
  BY <1>0, InvUser, LeaveLemma, StartLemma DEF Kept
<1> HIDE DEF t
<1>2. t \in Chats /\ Done(Chat, t, u)
  BY <1>1, MovingIsDone DEF Ok
<1>3. Chat' = t
  BY <1>2, BecomeLemma DEF t
<1>4. at'[u] = NoName
  BY <1>1, <1>3 DEF Chat
<1> QED BY <1>1, <1>2, <1>3, <1>4 DEF Handled, IInv

\* The handlers, one by one.
LEMMA LoginHandled ==
    ASSUME IInv, NEW u \in User, Login(u)
    PROVE  Handled(u)
<1>1. Chat' = Chat
  BY DEF Login, Chat
<1>2. Done(Chat, Chat, u)
  BY InvUser, StartIsDone
<1> QED BY <1>1, <1>2 DEF Login, Handled, IInv

LEMMA LogoutHandled ==
    ASSUME IInv, NEW u \in User, Logout(u)
    PROVE  Handled(u)
<1> DEFINE s == LeaveChannel(Chat, u)
<1>1. Ok(s, NoUser, NoName) /\ s.at[u] = NoName
  BY InvUser, LeaveLemma DEF Kept
<1>2. Become([s EXCEPT !.gavel = @ \ {u}]) /\ u \in online /\ online' = online \ {u}
  BY DEF Logout
<1> HIDE DEF s
<1>3. s \in Chats /\ s.gavel \ {u} = s.gavel
  BY <1>1 DEF Ok
<1>4. [s EXCEPT !.gavel = @ \ {u}] = s
  BY <1>3 DEF Chats
<1>5. Become(s)
  BY <1>2, <1>4
<1> QED BY <1>2, <1>5, LeaveHandled DEF s

LEMMA JoinHandled ==
    ASSUME IInv, NEW u \in User, NEW name \in JoinName, JoinNormal(u, name) \/ JoinCreate(u, name)
    PROVE  Handled(u)
<1>1. name \in Name /\ Ok(Chat, NoUser, NoName) /\ Chat \in Chats /\ u \in online /\ online' = online
  BY NameAssumption, InvUser DEF IInv, JoinNormal, JoinCreate
<1>2. CASE JoinCreate(u, name)
  <2>1. Reached(Chat, SetChannelOrVoid(Chat, u, name), u)
    BY <1>1, InvUser, SetOrVoidLemma
  <2> QED BY <1>1, <1>2, <2>1, ReachedLemma DEF JoinCreate
<1>3. CASE JoinNormal(u, name)
  <2> DEFINE f == FindChannel(Chat, name, LocaleOf[u])
             t == f.st
  <2>1. Ok(t, NoUser, NoName) /\ Start(Chat, t, u) /\ t.at = Chat.at
    BY <1>1, FoundLemma
  <2>2. Become(IF f.n = NoName /\ AskNew THEN t ELSE SetChannelOrVoid(t, u, name))
    BY <1>3 DEF JoinNormal
  <2> HIDE DEF f
  <2>3. CASE Become(t)
    <3>1. t \in Chats
      BY <2>1 DEF Ok
    <3>2. Chat' = t /\ Done(Chat, t, u)
      BY <1>1, <2>1, <2>3, <3>1, BecomeLemma, StartIsDone
    <3> QED BY <1>1, <2>1, <3>2 DEF Handled, IInv
  <2>4. CASE Become(SetChannelOrVoid(t, u, name))
    <3>1. Ok(t, u, NoName)
      BY <2>1, AnyoneLemma
    <3>2. Reached(Chat, SetChannelOrVoid(t, u, name), u)
      BY <1>1, <2>1, <3>1, SetOrVoidLemma
    <3> QED BY <1>1, <2>4, <3>2, ReachedLemma
  <2> QED BY <2>2, <2>3, <2>4
<1> QED BY <1>2, <1>3

LEMMA RejoinHandled ==
    ASSUME IInv, NEW u \in User, Rejoin(u)
    PROVE  Handled(u)
<1>1. at[u] \in Name /\ u \in online /\ online' = online /\ Become(SetChannelOrVoid(Chat, u, at[u]))
  BY InvUser DEF Rejoin
<1>2. Reached(Chat, SetChannelOrVoid(Chat, u, at[u]), u)
  BY <1>1, InvUser, SetOrVoidLemma
<1> QED BY <1>1, <1>2, ReachedLemma

LEMMA KickHandled ==
    ASSUME IInv, NEW u \in User, NEW t \in User, Kick(u, t)
    PROVE  Handled(t)
<1>1. at[t] # NoName /\ online' = online /\ Become(SetChannel(Chat, t, Void))
  BY DEF Kick, MayOperate
<1>2. t \in online /\ Void \in Name
  BY <1>1, InvUser, NameAssumption DEF Name
<1>3. Reached(Chat, SetChannel(Chat, t, Void), t)
  BY <1>2, InvUser, SetLemma
<1> QED BY <1>1, <1>2, <1>3, ReachedLemma


\* A channel with other bans, or with another designee.
Barring(c, bans) == [c EXCEPT !.bans = bans]

Naming(c, t) == [c EXCEPT !.next = t]

\* The bans are all that changes.
LEMMA BarringLemma ==
    ASSUME NEW c \in ChannelRecord, NEW bans \in SUBSET User
    PROVE  /\ Barring(c, bans) \in ChannelRecord /\ Barring(c, bans).conf = c.conf
           /\ Barring(c, bans).members = c.members /\ Barring(c, bans).count = c.count
           /\ Barring(c, bans).opr = c.opr /\ Barring(c, bans).next = c.next
           /\ Barring(c, bans).bans = bans
BY DEF Barring, ChannelRecord

\* The designee is all that changes.
LEMMA NamingLemma ==
    ASSUME NEW c \in ChannelRecord, NEW t \in User
    PROVE  /\ Naming(c, t) \in ChannelRecord /\ Naming(c, t).conf = c.conf
           /\ Naming(c, t).members = c.members /\ Naming(c, t).count = c.count
           /\ Naming(c, t).opr = c.opr /\ Naming(c, t).next = t
           /\ Naming(c, t).bans = c.bans
BY DEF Naming, ChannelRecord

\* What the invariant says of one channel, and of the gavels.
LEMMA InvChannel ==
    ASSUME IInv, NEW n \in DOMAIN chan
    PROVE  /\ n \in Name /\ chan[n] \in ChannelRecord
           /\ Decent(chan[n], n, NoUser, NoName)
           /\ chan[n].opr \in Elems(chan[n].members) \cup {NoUser}
           /\ chan[n].next \in Elems(chan[n].members) \cup {NoUser}
           /\ chan[n].opr = chan[n].next => chan[n].opr = NoUser
           /\ \A v \in Elems(chan[n].members) : v \in User /\ at[v] = n /\ ~Barred(chan[n], v)
           /\ gavel \in SUBSET User
           /\ \A v \in gavel : at[v] # NoName /\ IF at[v] = n THEN chan[n].opr = v ELSE v \in gavel
<1>1. Ok(Chat, NoUser, NoName)
  BY DEF IInv
<1>2. /\ n \in Name /\ chan[n] \in ChannelRecord /\ gavel \in SUBSET User
      /\ Decent(chan[n], n, NoUser, NoName)
  BY <1>1, ChatFields, ChatsLemma DEF Ok
<1>3. \A v \in gavel : at[v] # NoName /\ chan[at[v]].opr = v
  BY <1>1, ChatFields DEF Ok
<1>4. ASSUME NEW v \in Elems(chan[n].members) PROVE v \in User /\ at[v] = n
  BY <1>1, <1>2, ChatFields, FieldsLemma DEF Ok
<1> QED BY <1>2, <1>3, <1>4, UserAssumption DEF Decent

\* The step only replaces the channel n.
LEMMA ReplacedLemma ==
    ASSUME IInv, NEW u \in online, NEW n \in DOMAIN chan, NEW d, NEW g,
           With(Chat, n, d, g) \in Chats, Ok(With(Chat, n, d, g), NoUser, NoName),
           With(Chat, n, d, g).at = at, Done(Chat, With(Chat, n, d, g), u),
           Become(With(Chat, n, d, g)), online' = online
    PROVE  Handled(u)
<1> DEFINE t == With(Chat, n, d, g)
<1> HIDE DEF t
<1>1. Chat' = t
  BY BecomeLemma DEF t
<1>2. at' = at
  BY DEF Become, t
<1> QED BY <1>1, <1>2 DEF Handled, IInv, t

\* A new ban may hit one member; without a new ban nothing is disturbed.
LEMMA BarredLemma ==
    ASSUME IInv, NEW n \in DOMAIN chan, NEW bans \in SUBSET User, NEW t \in User, NEW u,
           bans \ chan[n].bans \subseteq {t}
    PROVE  LET s1 == With(Chat, n, Barring(chan[n], bans), gavel)
           IN  /\ s1 \in Chats /\ s1.at = at /\ Ok(s1, t, NoName)
               /\ at[t] # n \/ bans \subseteq chan[n].bans => Ok(s1, NoUser, NoName)
               /\ Start(Chat, s1, u) /\ Done(Chat, s1, u)
<1> DEFINE d == Barring(chan[n], bans)
           s1 == With(Chat, n, d, gavel)
           c == chan[n]
<1>1. /\ c \in ChannelRecord
      /\ c.opr \in Elems(c.members) \cup {NoUser} /\ c.next \in Elems(c.members) \cup {NoUser}
      /\ (c.opr = c.next => c.opr = NoUser)
      /\ \A v \in Elems(c.members) : v \in User /\ at[v] = n /\ ~Barred(c, v)
      /\ gavel \in SUBSET User
      /\ \A v \in gavel : at[v] # NoName /\ IF at[v] = n THEN c.opr = v ELSE v \in gavel
  BY InvChannel
<1>2. /\ d \in ChannelRecord /\ d.conf = c.conf /\ d.members = c.members /\ d.count = c.count
      /\ d.opr = c.opr /\ d.next = c.next /\ d.bans = bans
  BY <1>1, BarringLemma
<1>3. Ok(Chat, NoUser, NoName) /\ n \in DOMAIN Chat.chan /\ Chat.chan[n] = c /\ Chat.at = at
      /\ Chat.gavel = gavel
  BY ChatFields DEF IInv
<1> HIDE DEF d, c
<1>4. \A v \in Elems(d.members) : v = t \/ ~Barred(d, v)
  BY <1>1, <1>2 DEF Barred, c
<1>5. Rightful(c, d, n)
  BY <1>2 DEF Rightful
<1>6. Ok(s1, t, NoName) /\ s1.at = at /\ Start(Chat, s1, u) /\ Done(Chat, s1, u)
  BY <1>1, <1>2, <1>3, <1>4, <1>5, ReplaceLemma
<1>7. ASSUME at[t] # n \/ bans \subseteq c.bans PROVE Ok(s1, NoUser, NoName)
  <2>1. \A v \in Elems(d.members) : v = NoUser \/ ~Barred(d, v)
    BY <1>1, <1>2, <1>4, <1>7 DEF Barred
  <2> QED BY <1>1, <1>2, <1>3, <2>1, ReplaceLemma
<1>8. s1 \in Chats
  BY <1>6 DEF Ok
<1> QED BY <1>6, <1>7, <1>8 DEF d, c

Banned(s, n, t) == [s EXCEPT !.chan[n].bans = @ \cup {t}]

\* What /ban writes.
LEMMA BansLemma ==
    ASSUME NEW s \in Chats, NEW n \in DOMAIN s.chan, NEW t
    PROVE  Banned(s, n, t) = With(s, n, Barring(s.chan[n], s.chan[n].bans \cup {t}), s.gavel)
<1> DEFINE q == [s.chan EXCEPT ![n].bans = @ \cup {t}]
<1>1. Banned(s, n, t) = [s EXCEPT !.chan = q, !.gavel = s.gavel]
  BY DEF Chats, Banned
<1>2. s.chan \in [DOMAIN s.chan -> ChannelRecord]
  BY ChatsLemma
<1>3. q = [s.chan EXCEPT ![n] = Barring(s.chan[n], s.chan[n].bans \cup {t})]
  BY <1>2 DEF Barring
<1> QED BY <1>1, <1>3 DEF With

LEMMA BanHandled ==
    ASSUME IInv, NEW u \in User, NEW t \in User, Ban(u, t)
    PROVE  Handled(u) \/ Handled(t)
<1> DEFINE n == at[u]
           bans == chan[n].bans \cup {t}
           s1 == With(Chat, n, Barring(chan[n], bans), gavel)
           s2 == IF n = Void THEN Chat ELSE Banned(Chat, n, t)
<1>1. /\ u \in online /\ n # NoName /\ n \in DOMAIN chan /\ online' = online /\ chan[n] \in ChannelRecord
      /\ chan[n].bans \in SUBSET User
  BY InvUser, InvChannel, FieldsLemma DEF Ban, MayOperate
<1>2. Become(IF at[t] = n THEN SetChannel(s2, t, Void) ELSE s2)
  BY DEF Ban, Banned
<1>3. s1 \in Chats /\ s1.at = at /\ Ok(s1, t, NoName) /\ (at[t] # n => Ok(s1, NoUser, NoName))
      /\ Start(Chat, s1, t) /\ Start(Chat, s1, u) /\ Done(Chat, s1, u)
  BY <1>1, BarredLemma
<1>4. n # Void => s2 = s1
  <2>1. n \in DOMAIN Chat.chan /\ Chat.chan[n] = chan[n] /\ Chat.gavel = gavel /\ Chat \in Chats
    BY <1>1, InvUser, ChatFields
  <2> QED BY <2>1, BansLemma
<1> HIDE DEF n, s1, s2
<1>5. /\ s2 \in Chats /\ s2.at = at /\ Ok(s2, t, NoName) /\ (at[t] # n => Ok(s2, NoUser, NoName))
      /\ Start(Chat, s2, t) /\ Done(Chat, s2, u)
  <2>1. CASE n = Void
    <3>1. s2 = Chat
      BY <2>1 DEF s2
    <3> QED BY <3>1, InvUser, StartIsDone, ChatFields DEF IInv
  <2>2. CASE n # Void
    BY <1>3, <1>4, <2>2
  <2> QED BY <2>1, <2>2
<1>6. CASE at[t] = n
  <2>1. t \in online /\ Void \in Name
    BY <1>1, <1>6, InvUser, NameAssumption DEF Name, n
  <2>2. Reached(Chat, SetChannel(s2, t, Void), t)
    BY <1>5, <2>1, InvUser, SetLemma
  <2> QED BY <1>1, <1>2, <1>6, <2>1, <2>2, ReachedLemma
<1>7. CASE at[t] # n
  <2>1. Chat' = s2 /\ at' = at
    BY <1>2, <1>5, <1>7, BecomeLemma DEF Become
  <2> QED BY <1>1, <1>5, <1>7, <2>1 DEF Handled, IInv
<1> QED BY <1>6, <1>7

\* A handler that writes only one channel.
LEMMA OneChannel ==
    ASSUME IInv, NEW n \in DOMAIN chan, NEW d, chan' = [chan EXCEPT ![n] = d],
           UNCHANGED <<list, at, gavel, online>>
    PROVE  Become(With(Chat, n, d, gavel)) /\ online' = online
BY DEF Become, With, Chat

LEMMA UnbanHandled ==
    ASSUME IInv, NEW u \in User, NEW t \in User, Unban(u, t)
    PROVE  Handled(u)
<1> DEFINE n == at[u]
           bans == chan[n].bans \ {t}
           s1 == With(Chat, n, Barring(chan[n], bans), gavel)
<1>1. /\ u \in online /\ n # NoName /\ n \in DOMAIN chan /\ chan[n] \in ChannelRecord
      /\ chan[n].bans \in SUBSET User
  BY InvUser, InvChannel, FieldsLemma DEF Unban, MayOperate
<1>2. chan \in [DOMAIN chan -> ChannelRecord]
  BY InvUser, ChatsLemma, ChatFields
<1>3. chan' = [chan EXCEPT ![n] = Barring(chan[n], bans)]
  BY <1>2 DEF Unban, Barring
<1>4. Become(s1) /\ online' = online
  BY <1>1, <1>3, OneChannel DEF Unban
<1>5. /\ s1 \in Chats /\ s1.at = at /\ Done(Chat, s1, u) /\ Ok(s1, NoUser, NoName)
  BY <1>1, BarredLemma
<1> QED BY <1>1, <1>4, <1>5, ReplacedLemma


LEMMA DesignateHandled ==
    ASSUME IInv, NEW u \in User, NEW t \in User, Designate(u, t)
    PROVE  Handled(u)
<1> DEFINE n == at[u]
           c == chan[n]
           d == Naming(c, t)
           s1 == With(Chat, n, d, gavel)
<1>1. /\ u \in online /\ n # NoName /\ n \in DOMAIN chan /\ at[t] = n /\ c.opr # t
  BY InvUser DEF Designate, MayOperate
<1>2. /\ c \in ChannelRecord
      /\ c.opr \in Elems(c.members) \cup {NoUser}
      /\ \A v \in Elems(c.members) : v \in User /\ at[v] = n /\ ~Barred(c, v)
      /\ gavel \in SUBSET User
      /\ \A v \in gavel : at[v] # NoName /\ IF at[v] = n THEN c.opr = v ELSE v \in gavel
  BY <1>1, InvChannel
<1>3. t \in Elems(c.members)
  BY <1>1, InvUser
<1>4. /\ d \in ChannelRecord /\ d.conf = c.conf /\ d.members = c.members /\ d.count = c.count
      /\ d.opr = c.opr /\ d.next = t /\ d.bans = c.bans
  BY <1>2, NamingLemma
<1>5. Become(s1) /\ online' = online
  <2>1. chan \in [DOMAIN chan -> ChannelRecord]
    BY InvUser, ChatsLemma, ChatFields
  <2>2. chan' = [chan EXCEPT ![n] = d]
    BY <2>1 DEF Designate, Naming
  <2> QED BY <1>1, <2>2, OneChannel DEF Designate
<1>6. Ok(Chat, NoUser, NoName) /\ n \in DOMAIN Chat.chan /\ Chat.chan[n] = c /\ Chat.at = at
      /\ Chat.gavel = gavel
  BY <1>1, ChatFields DEF IInv
<1> HIDE DEF n, c, d
<1>7. (\A v \in Elems(d.members) : v = NoUser \/ ~Barred(d, v)) /\ Rightful(c, d, n)
  BY <1>2, <1>4 DEF Barred, Rightful
<1>8. Ok(s1, NoUser, NoName) /\ s1.at = at /\ Done(Chat, s1, u)
  BY <1>1, <1>2, <1>3, <1>4, <1>6, <1>7, ReplaceLemma
<1>9. s1 \in Chats
  BY <1>8 DEF Ok
<1> QED BY <1>1, <1>5, <1>8, <1>9, ReplacedLemma

LEMMA ResignHandled ==
    ASSUME IInv, NEW u \in User, Resign(u)
    PROVE  Handled(u)
<1> DEFINE n == at[u]
           c == chan[n]
<1>1. /\ u \in online /\ n # NoName /\ n \in DOMAIN chan /\ c.opr = u
      /\ online' = online /\ Become(ChooseOperator(Chat, n, NoUser))
  BY InvUser DEF Resign
<1>2. /\ c \in ChannelRecord
      /\ c.next \in Elems(c.members) \cup {NoUser}
      /\ (c.opr = c.next => c.opr = NoUser)
      /\ \A v \in Elems(c.members) : v \in User /\ at[v] = n /\ ~Barred(c, v)
      /\ gavel \in SUBSET User
      /\ \A v \in gavel : at[v] # NoName /\ IF at[v] = n THEN c.opr = v ELSE v \in gavel
  BY <1>1, InvChannel
<1>3. /\ Ok(Chat, NoUser, NoName) /\ n \in DOMAIN Chat.chan /\ Chat.chan[n] = c /\ Chat.at = at
      /\ Chat.gavel = gavel /\ Chat \in Chats
  BY <1>1, InvUser, ChatFields DEF IInv
<1> HIDE DEF n, c
<1>4. c.next # NoUser => Chat.at[c.next] = n /\ c.next \in Elems(c.members) /\ c.next # c.opr
  BY <1>2, <1>3, UserAssumption
<1>5. PICK o \in Elems(c.members) \cup {NoUser} :
          /\ o # NoUser => o # c.opr /\ (o = c.next \/ Elder(c, n, o, c.opr))
          /\ ChooseOperator(Chat, n, NoUser)
               = With(Chat, n, InOffice(c, o), (gavel \ {c.opr}) \cup ({o} \ {NoUser}))
  BY <1>3, <1>4, ChosenLemma
<1> DEFINE d == InOffice(c, o)
           g == (gavel \ {c.opr}) \cup ({o} \ {NoUser})
           s1 == With(Chat, n, d, g)
<1>6. o \in User \cup {NoUser}
  BY <1>2
<1>7. /\ d \in ChannelRecord /\ d.conf = c.conf /\ d.members = c.members /\ d.count = c.count
      /\ d.bans = c.bans /\ d.opr = o /\ d.next = NoUser
  BY <1>2, <1>6, InOfficeLemma
<1>8. g \in SUBSET User
  BY <1>2, <1>6
<1>9. ASSUME NEW v \in g PROVE at[v] # NoName /\ IF at[v] = n THEN d.opr = v ELSE v \in gavel
  <2>1. CASE v \in gavel \ {c.opr}
    BY <1>2, <2>1
  <2>2. CASE v = o /\ o # NoUser
    BY <1>1, <1>2, <1>7, <2>2
  <2> QED BY <2>1, <2>2
<1> HIDE DEF d, g
<1>10. /\ d.opr \in Elems(d.members) \cup {NoUser} /\ d.next \in Elems(d.members) \cup {NoUser}
       /\ (d.opr = d.next => d.opr = NoUser)
       /\ (\A v \in Elems(d.members) : v = NoUser \/ ~Barred(d, v)) /\ Rightful(c, d, n)
  BY <1>2, <1>5, <1>7 DEF Barred, Rightful, Elder
<1>11. Ok(s1, NoUser, NoName) /\ s1.at = at /\ Done(Chat, s1, u)
  BY <1>3, <1>7, <1>8, <1>9, <1>10, ReplaceLemma
<1>12. s1 \in Chats /\ Become(s1)
  BY <1>1, <1>5, <1>11 DEF Ok, d, g
<1> QED BY <1>1, <1>11, <1>12, ReplacedLemma

-----------------------------------------------------------------------------
(* The theorems.                                                             *)

LEMMA InitLemma ==
    ASSUME Init
    PROVE  IInv
<1> DEFINE p == Permanent
           names == {p[i].name : i \in DOMAIN p}
           P(n, x) == x.name = n
           line(n) == CHOOSE x \in Elems(p) : x.name = n
<1>1. /\ p \in Seq([name : Name, conf : Conf]) /\ DOMAIN p = 1..Len(p) /\ Len(p) \in Nat
      /\ \A i \in 1..Len(p) : p[i].name \in Name /\ p[i].conf \in Conf /\ p[i].conf.permanent
                              /\ p[i].conf.short \in PlainName \cup {NoName}
      /\ \A i, j \in 1..Len(p) : p[i].name = p[j].name => i = j
  <2> DEFINE Line == [name : Name, conf : Conf]
  <2>1. p \in Seq(Line)
    BY PermanentAssumption
  <2> HIDE DEF Line
  <2>2. DOMAIN p = 1..Len(p) /\ Len(p) \in Nat /\ \A i \in 1..Len(p) : p[i] \in Line
    BY <2>1
  <2>3. ASSUME NEW i \in 1..Len(p) PROVE p[i].name \in Name /\ p[i].conf \in Conf
    <3>1. \A x \in Line : x.name \in Name /\ x.conf \in Conf
      BY DEF Line
    <3> QED BY <2>2, <3>1
  <2> QED BY <2>1, <2>2, <2>3, PermanentAssumption DEF Line
<1>2. /\ list = [i \in 1..Len(p) |-> p[Len(p) + 1 - i].name]
      /\ chan = [n \in names |-> NewChannel(line(n).conf)]
      /\ at = [u \in User |-> NoName] /\ gavel = {} /\ online = {}
  BY <1>1 DEF Init, Opened
<1>3. ASSUME NEW n \in names
      PROVE  line(n).conf \in Conf /\ line(n).conf.permanent
             /\ line(n).conf.short \in PlainName \cup {NoName} /\ n \in Name
  <2>1. \E x \in Elems(p) : x.name = n
    BY DEF Elems
  <2>2. line(n) \in Elems(p)
    BY <2>1
  <2> HIDE DEF line
  <2> QED BY <1>1, <2>2 DEF Elems
<1>4. list \in Seq(Name) /\ DOMAIN list = 1..Len(p) /\ NoDup(list)
  <2>1. \A i \in 1..Len(p) : Len(p) + 1 - i \in 1..Len(p)
    BY <1>1
  <2>2. list \in [1..Len(p) -> Name]
    BY <1>1, <1>2, <2>1
  <2>3. list \in Seq(Name)
    BY <1>1, <2>2
  <2>4. ASSUME NEW i \in 1..Len(p), NEW j \in 1..Len(p), list[i] = list[j] PROVE i = j
    <3>1. Len(p) + 1 - i = Len(p) + 1 - j
      BY <1>1, <1>2, <2>1, <2>4
    <3> QED BY <1>1, <3>1
  <2> QED BY <2>2, <2>3, <2>4 DEF NoDup
<1>5. Elems(list) = names
  <2>1. ASSUME NEW i \in 1..Len(p) PROVE list[i] \in names
    <3>1. Len(p) + 1 - i \in 1..Len(p)
      BY <1>1
    <3> QED BY <1>1, <1>2, <3>1
  <2>2. ASSUME NEW i \in 1..Len(p) PROVE p[i].name \in Elems(list)
    <3>1. Len(p) + 1 - i \in 1..Len(p) /\ Len(p) + 1 - (Len(p) + 1 - i) = i
      BY <1>1
    <3>2. list[Len(p) + 1 - i] = p[i].name
      BY <1>2, <3>1
    <3> QED BY <1>4, <3>1, <3>2 DEF Elems
  <2> QED BY <1>1, <1>4, <2>1, <2>2 DEF Elems
<1> HIDE DEF names, line
<1>6. ASSUME NEW n \in names
      PROVE  /\ chan[n] \in ChannelRecord /\ chan[n].members = <<>>
             /\ Decent(chan[n], n, NoUser, NoName)
  <2> DEFINE c == chan[n]
  <2>1. /\ c \in ChannelRecord /\ c.conf = line(n).conf /\ c.members = <<>> /\ c.count = 0
        /\ c.opr = NoUser /\ c.next = NoUser
    BY <1>2, <1>3, NewLemma
  <2> HIDE DEF c
  <2>2. Elems(c.members) = {} /\ NoDup(c.members) /\ Len(c.members) = 0
    BY <2>1 DEF Elems, NoDup
  <2>3. Decent(c, n, NoUser, NoName)
    BY <1>3, <2>1, <2>2 DEF Decent
  <2> QED BY <2>1, <2>3 DEF c
<1>7. chan \in Chans
  <2>1. names \in SUBSET Name
    BY <1>3
  <2>2. chan \in [names -> ChannelRecord]
    BY <1>2, <1>3, NewLemma
  <2> QED BY <2>1, <2>2 DEF Chans
<1>8. Chat \in Chats
  BY <1>2, <1>4, <1>7 DEF Chat, Chats
<1>9. DOMAIN chan = names
  BY <1>2
<1>10. \A n \in names : Elems(chan[n].members) = {}
  BY <1>6 DEF Elems
<1>11. \A u \in User : at[u] = NoName
  BY <1>2
<1>12. Ok(Chat, NoUser, NoName)
  BY <1>2, <1>4, <1>5, <1>6, <1>8, <1>9, <1>10, <1>11, ChatFields DEF Ok
<1> QED BY <1>2, <1>11, <1>12 DEF IInv

\* One step: it is of somebody, and the invariant holds after it.
LEMMA NextLemma ==
    ASSUME IInv, [Next]_vars
    PROVE  IInv' /\ (chan' = chan \/ \E u \in User : Handled(u))
<1>1. CASE UNCHANGED vars
  <2>1. Chat' = Chat
    BY <1>1 DEF vars, Chat
  <2> QED BY <1>1, <2>1 DEF vars, IInv
<1>2. CASE Next
  <2>1. \E u \in User : Handled(u)
    <3>1. PICK u \in User :
            \/ Login(u)
            \/ Logout(u)
            \/ \E name \in JoinName : JoinNormal(u, name) \/ JoinCreate(u, name)
            \/ Rejoin(u)
            \/ Leave(u)
            \/ Resign(u)
            \/ \E t \in User : Designate(u, t) \/ Kick(u, t) \/ Ban(u, t) \/ Unban(u, t)
      BY <1>2 DEF Next
    <3>2. CASE Leave(u)
      BY <3>2, LeaveHandled DEF Leave
    <3> QED BY <3>1, <3>2, LoginHandled, LogoutHandled, JoinHandled, RejoinHandled, ResignHandled,
               DesignateHandled, KickHandled, BanHandled, UnbanHandled
  <2>2. PICK u \in User : Handled(u)
    BY <2>1
  <2>3. ASSUME NEW v \in User, at'[v] # NoName PROVE v \in online'
    <3>1. v # u => at'[v] = at[v]
      BY <2>2 DEF Handled, Done, SameOthers, Chat
    <3> QED BY <2>2, <2>3, <3>1 DEF Handled, IInv
  <2>4. IInv'
    BY <2>2, <2>3 DEF Handled, IInv
  <2> QED BY <2>1, <2>4
<1> QED BY <1>1, <1>2

\* The invariant is inductive.
LEMMA InvHolds == Spec => []IInv
<1>1. Init => IInv
  BY InitLemma
<1>2. IInv /\ [Next]_vars => IInv'
  BY NextLemma
<1> QED BY <1>1, <1>2, PTL DEF Spec

\* It is stronger than what the run checks.
LEMMA InvImplies ==
    ASSUME IInv
    PROVE  ChannelsAgree
<1>1. Ok(Chat, NoUser, NoName)
  BY DEF IInv
<1>2. /\ list \in Seq(Name) /\ NoDup(list) /\ DOMAIN chan = Elems(list)
      /\ at \in [User -> Name \cup {NoName}] /\ gavel \in SUBSET User
  BY <1>1, ChatFields, ChatsLemma DEF Ok
<1>3. TypeOK
  BY <1>2, InvChannel DEF TypeOK, IInv
<1>4. MembershipConsistent
  BY <1>1, InvChannel, ChatFields DEF MembershipConsistent, MembersPoint, MembersCounted, Decent, Ok
<1>5. OperatorsPresent
  BY InvChannel DEF OperatorsPresent
<1>6. TemporaryNotEmpty
  <2>1. ASSUME NEW n \in DOMAIN chan, ~chan[n].conf.permanent PROVE chan[n].members # <<>>
    BY <2>1, InvChannel, NameAssumption DEF Decent
  <2> QED BY <2>1 DEF TemporaryNotEmpty
<1>7. GavelIsOperator
  BY <1>1, ChatFields DEF GavelIsOperator, Ok
<1>8. RefusedStayOut
  BY InvChannel, ChatFields DEF RefusedStayOut, Refused, Barred
<1> QED BY <1>3, <1>4, <1>5, <1>6, <1>7, <1>8 DEF ChannelsAgree

\* channel.c and conn_set_channel: after every handler the connections, the member lists,
\* their counts, the operators, the designees and the gavels agree; no channel made by a
\* user outlives its last member, and no member is one that the channel refuses.
THEOREM ChannelsAgreeHold == Spec => []ChannelsAgree
<1>1. IInv => ChannelsAgree
  BY InvImplies
<1> QED BY <1>1, InvHolds, PTL

\* channel_choose_operator, from every handler that calls it: who becomes operator was
\* designated, or may operate the channel and no older member of it may.
THEOREM OperatorByRightHolds == Spec => OperatorByRight
<1>1. IInv /\ [Next]_vars => [ChosenByRight]_vars
  <2> SUFFICES ASSUME IInv, [Next]_vars PROVE ChosenByRight
    OBVIOUS
  <2>1. ASSUME NEW n \in DOMAIN chan' PROVE Rightful(Old(Chat, n), chan'[n], n)
    <3>1. CASE chan' = chan
      BY <3>1, ChatFields DEF Rightful, Old
    <3>2. CASE \E u \in User : Handled(u)
      <4>1. (Chat').chan = chan'
        BY DEF Chat
      <4> QED BY <3>2, <4>1 DEF Handled, Done
    <3> QED BY <3>1, <3>2, NextLemma
  <2>2. ASSUME NEW n \in DOMAIN chan', NEW v PROVE Eligible(Chat', n, v) <=> Fit(chan'[n].conf, n, v)
    BY DEF Chat, Eligible, Fit
  <2>3. \A n : Old(Chat, n) = IF n \in DOMAIN chan THEN chan[n] ELSE NewChannel(TempConf(n))
    BY ChatFields DEF Old
  <2> QED BY <2>1, <2>2, <2>3 DEF Rightful, Elder, ChosenByRight
<1> QED BY <1>1, InvHolds, PTL DEF Spec, OperatorByRight

\* channellist_find_channel_by_name: another instance of a permanent channel is made only for
\* a user to whom every permanent channel of that short name and his locale is full, also
\* when the user first left one of these.
THEOREM RolloverOnlyWhenFullHolds == Spec => RolloverOnlyWhenFull
<1>1. IInv /\ [Next]_vars => [RollsWhenFull]_vars
  <2> SUFFICES ASSUME IInv, [Next]_vars PROVE RollsWhenFull
    OBVIOUS
  <2> SUFFICES ASSUME chan' # chan PROVE RollsWhenFull
    BY DEF RollsWhenFull
  <2>1. PICK u \in User : Handled(u)
    BY NextLemma
  <2>2. u \in online /\ Needed(Chat, Chat', u)
    BY <2>1 DEF Handled, Done
  <2>3. (Chat').chan = chan' /\ Chat.chan = chan
    BY DEF Chat
  <2> QED BY <2>2, <2>3 DEF Needed, NoRoom, RollsWhenFull
<1> QED BY <1>1, InvHolds, PTL DEF Spec, RolloverOnlyWhenFull
=============================================================================
