------------------------------ MODULE Messages ------------------------------
(* What players hear: a message is formatted once for each class of          *)
(* connection and each view of the sender (message.c), the packet is shared  *)
(* by the queues of those it is for and counted (packet.c, queue.c), and the *)
(* server loop writes the queues out as the peers take it (sd_tcpoutput).    *)
(*                                                                           *)
(* All connections are logged in and in one channel, and what a command      *)
(* answers to the one who gives it is left out. A packet is a record of *)
(* what was formatted: the number of the message, the class, whether the     *)
(* sender was seen as ignored, and for IRC the receiver's name in it.        *)
EXTENDS Integers, Sequences, SequencesExt, FiniteSets, Bags, TLC

CONSTANTS
    Conn,           \* connections, and the accounts that use them
    Nobody,
    Class,          \* conn_get_class
    Talks,          \* what is said in a channel: "talk", "emote"
    MaxMessages,    \* bound of the messages in a behaviour
    MaxIgnores,     \* bound of the ignore lists together
    MaxClosed,      \* bound of the connections that close
    MaxRoom         \* bytes a peer takes at once

VARIABLES
    open,           \* connections there are
    ignores,        \* settings.ignore_list, in which a name may be twice
    count,          \* messages created
    said,           \* those of the last handler
    ref,            \* the packets there are, each as often as it is referred to
    queue,          \* conn_get_out_queue
    outsize,        \* bytes sent of the first packet of the queue
    wire            \* the bytes the last step sent to each peer

vars == <<open, ignores, count, said, ref, queue, outsize, wire>>

Ignorable == {"talk", "emote", "whisper", "broadcast"}
Other == {"unignored", "userflags", "whisperack", "info", "error"}

Packet == [n : 1..MaxMessages, type : Ignorable \cup Other, class : {Class[c] : c \in Conn}, x : BOOLEAN,
           to : Conn \cup {Nobody}]

NoPacket == [n |-> 0, type |-> "none", class |-> "none", x |-> FALSE, to |-> Nobody]

-----------------------------------------------------------------------------
(* The text of a message for each class of connection, when there is one.   *)

\* message_telnet_format, message_bot_format, message_bnet_format
TelnetText(type, x) == ~(x /\ type \in Ignorable)
BotText(type, x)    == ~(x /\ type \in Ignorable)
BnetText(type, x)   == ~(x /\ type \in Ignorable)

\* irc_message_format
IrcText(type)       == type \notin {"userflags", "whisperack"}

HasText(class, type, x) ==
    CASE class = "telnet" -> TelnetText(type, x)
      [] class = "bot"    -> BotText(type, x)
      [] class = "bnet"   -> BnetText(type, x)
      [] class = "irc"    -> IrcText(type)

Format(n, class, type, x) ==
    IF HasText(class, type, x)
    THEN [n |-> n, type |-> type, class |-> class, x |-> x, to |-> Nobody]
    ELSE NoPacket

\* irc_message_postformat fills in the receiver.
PostFormat(p, d) == [p EXCEPT !.to = d]

\* The flags of a user are nothing to a telnet user: an empty packet.
PacketSize(p) == IF p.class = "telnet" /\ p.type = "userflags" THEN 0 ELSE 2

PacketBytes(p) == [i \in 1..PacketSize(p) |-> <<p, i>>]

BytesOf(q) == FlattenSeq([i \in DOMAIN q |-> PacketBytes(q[i])])

Unsent(d) == SubSeq(BytesOf(queue[d]), outsize[d] + 1, Len(BytesOf(queue[d])))

AddRef(b, p) == b (+) SetToBag({p})
DelRef(b, p) == b (-) SetToBag({p})

-----------------------------------------------------------------------------
\* conn_check_ignoring
Ignoring(d, c) == \E i \in DOMAIN ignores[d] : ignores[d][i] = c

\* Mutant: one packet for a class, however its receivers see the sender.
CacheKeyClass(d, x) == <<Class[d], FALSE>>

CacheKey(d, x) == <<Class[d], x>>

\* message_send of message n to d, with what its cache, the references to packets and
\* the queues are, and whom it reached.
Send(n, type, from, s, d) ==
    LET x   == Ignoring(d, from)
        key == CacheKey(d, x)
        hit == key \in DOMAIN s.cache
        p   == IF hit THEN s.cache[key] ELSE Format(n, Class[d], type, x)
        out == IF Class[d] = "irc" THEN PostFormat(p, d) ELSE p
        r   == IF hit \/ p = NoPacket THEN s.ref ELSE AddRef(s.ref, p)
    IN  [cache |-> [k \in DOMAIN s.cache \cup {key} |-> IF k = key THEN p ELSE s.cache[k]],
         ref   |-> IF p = NoPacket THEN r ELSE AddRef(r, out),
         out   |-> IF p = NoPacket THEN s.out ELSE [s.out EXCEPT ![d] = Append(@, out)]]

\* message_destroy gives up the cached packets.
Destroyed(s) ==
    [s EXCEPT !.ref = FoldLeft(DelRef, s.ref,
        SetToSeq({s.cache[k] : k \in DOMAIN s.cache} \ {NoPacket}))]

\* message_create, message_send to each of ds, message_destroy.
SendTo(n, type, from, ds, s) ==
    Destroyed(FoldLeft(LAMBDA t, d : Send(n, type, from, t, d), [s EXCEPT !.cache = << >>],
                       SetToSeq(ds)))

Start == [cache |-> << >>, ref |-> ref, out |-> [d \in Conn |-> << >>]]

Got(s) == {d \in Conn : s.out[d] # << >>}

Quiet == [d \in Conn |-> << >>]

Silent == wire' = Quiet /\ said' = << >> /\ count' = count

\* What a handler has said: msgs are the messages, s what has become of the packets.
Say(msgs, s) ==
    /\ count + Len(msgs) <= MaxMessages
    /\ count' = count + Len(msgs)
    /\ said' = msgs
    /\ ref' = s.ref
    /\ queue' = [d \in Conn |-> queue[d] \o s.out[d]]
    /\ wire' = Quiet
    /\ UNCHANGED <<open, outsize>>

Msg(type, from, ds, got) ==
    [type |-> type, from |-> from, for |-> ds, got |-> got,
     ignoring |-> {d \in ds : Ignoring(d, from)}]

Next1 == count + 1

\* channel_message_send: neither to oneself nor to those who ignore the talker; who is
\* heard by nobody else is told so.
Talk(c, type) ==
    LET all   == IF type = "talk" THEN open \ {c} ELSE open
        s     == SendTo(Next1, type, c, {d \in all : ~Ignoring(d, c)}, Start)
        heard == Got(s) \ {c} # {}
        m     == Msg(type, c, all, Got(s))
        told  == SendTo(Next1 + 1, "info", c, {c}, s)
    IN  /\ count < MaxMessages /\ c \in open /\ type \in Talks
        /\ IF heard THEN Say(<<m>>, s)
                    ELSE Say(<<m, Msg("info", c, {c}, {c})>>, told)
        /\ UNCHANGED ignores

\* channel_update_flags: all who are in the channel, oneself too.
UpdateFlags(c) ==
    LET s == SendTo(Next1, "userflags", c, open, Start)
    IN  /\ count < MaxMessages /\ c \in open
        /\ Say(<<Msg("userflags", c, open, Got(s))>>, s)
        /\ UNCHANGED ignores

\* do_whisper: the sender is told of it, and what keeps d, before d hears it; who does
\* not want to be disturbed does not hear it. The acknowledgement is from d.
Whisper(c, d, mode) ==
    LET ack   == SendTo(Next1, "whisperack", d, {c}, Start)
        mAck  == Msg("whisperack", d, {c}, Got(ack))
        away  == SendTo(Next1 + 1, "info", c, {c}, ack)
        late  == SendTo(Next1 + 2, "whisper", c, {d}, away)
        plain == SendTo(Next1 + 1, "whisper", c, {d}, ack)
        info  == Msg("info", c, {c}, {c})
    IN  /\ count < MaxMessages /\ {c, d} \subseteq open /\ c # d
        /\ CASE mode = "dnd"  -> Say(<<info>>, SendTo(Next1, "info", c, {c}, Start))
             [] mode = "away" -> Say(<<mAck, info, Msg("whisper", c, {d}, Got(late) \cap {d})>>, late)
             [] mode = "here" -> Say(<<mAck, Msg("whisper", c, {d}, Got(plain) \cap {d})>>, plain)
        /\ UNCHANGED ignores

\* "/announce", by who may: message_send_all.
Announce(c) ==
    LET s == SendTo(Next1, "broadcast", c, open, Start)
    IN  /\ count < MaxMessages /\ c \in open
        /\ Say(<<Msg("broadcast", c, open, Got(s))>>, s)
        /\ UNCHANGED ignores

\* "/ignore", which a client of IRC cannot say. The name is added, be it there or not.
Ignore(c, d) ==
    /\ {c, d} \subseteq open /\ c # d /\ Class[c] # "irc"
    /\ Cardinality({<<e, i>> \in Conn \X (1..MaxIgnores) : i \in DOMAIN ignores[e]}) < MaxIgnores
    /\ ignores' = [ignores EXCEPT ![c] = Append(@, d)]
    /\ Silent
    /\ UNCHANGED <<open, ref, queue, outsize>>

\* "/unignore": the last of the list takes the place of the first that is d, and c is told
\* of it.
Unignore(c, d) ==
    LET l == ignores[c]
        n == Len(l)
        i == SelectInSeq(l, LAMBDA e : e = d)
        now == SubSeq([l EXCEPT ![i] = l[n]], 1, n - 1)
    IN  /\ {c, d} \subseteq open /\ c # d /\ Class[c] # "irc"
        /\ i # 0
        /\ ignores' = [ignores EXCEPT ![c] = now]
        /\ said' = <<[type |-> "unignored", from |-> d, for |-> {c}, got |-> {c},
                      ignoring |-> {e \in {c} : d \in ToSet(now)}]>>
        /\ wire' = Quiet
        /\ UNCHANGED <<open, count, ref, queue, outsize>>

-----------------------------------------------------------------------------
\* The packets of d that are gone when its peer has taken room bytes: those of no
\* bytes go with the ones before.
Done(d, room) ==
    LET k(i) == Len(BytesOf(SubSeq(queue[d], 1, i))) - outsize[d] <= room
    IN  CHOOSE i \in 0..Len(queue[d]) : (i = 0 \/ k(i)) /\ (i = Len(queue[d]) \/ ~k(i + 1))

\* Mutant: out_size is not set back when a packet is done.
OutputCarries(d, room) ==
    LET i   == Done(d, room)
        rest == SubSeq(queue[d], i + 1, Len(queue[d]))
        bytes == SubSeq(Unsent(d), 1, room)
    IN  /\ d \in open /\ queue[d] # << >>
        /\ room <= Len(Unsent(d))
        /\ queue' = [queue EXCEPT ![d] = rest]
        /\ outsize' = [outsize EXCEPT ![d] = IF i > 0 THEN outsize[d] ELSE outsize[d] + room]
        /\ ref' = FoldLeft(DelRef, ref, SubSeq(queue[d], 1, i))
        /\ wire' = [Quiet EXCEPT ![d] = bytes]
        /\ said' = << >>
        /\ UNCHANGED <<open, ignores, count>>

\* sd_tcpoutput: packets are written until the peer takes no more or there are none. The
\* "about 2KB" never stop it, as the size added up is 0 after each packet.
Output(d, room) ==
    LET i   == Done(d, room)
        rest == SubSeq(queue[d], i + 1, Len(queue[d]))
        bytes == SubSeq(Unsent(d), 1, room)
    IN  /\ d \in open /\ queue[d] # << >>
        /\ room <= Len(Unsent(d))
        /\ queue' = [queue EXCEPT ![d] = rest]
        /\ outsize' = [outsize EXCEPT ![d] =
                         IF rest = << >> THEN 0 ELSE outsize[d] + room - Len(BytesOf(SubSeq(queue[d], 1, i)))]
        /\ ref' = FoldLeft(DelRef, ref, SubSeq(queue[d], 1, i))
        /\ wire' = [Quiet EXCEPT ![d] = bytes]
        /\ said' = << >>
        /\ UNCHANGED <<open, ignores, count>>

\* conn_destroy: what was not sent is given up (queue_clear), the ignore list with it.
Close(d) ==
    /\ d \in open /\ Cardinality(Conn \ open) < MaxClosed
    /\ open' = open \ {d}
    /\ ref' = FoldLeft(DelRef, ref, queue[d])
    /\ queue' = [queue EXCEPT ![d] = << >>]
    /\ ignores' = [ignores EXCEPT ![d] = << >>]
    /\ outsize' = [outsize EXCEPT ![d] = 0]
    /\ Silent

Init ==
    /\ open = Conn
    /\ ignores = [c \in Conn |-> << >>]
    /\ count = 0
    /\ said = << >>
    /\ ref = EmptyBag
    /\ queue = [c \in Conn |-> << >>]
    /\ outsize = [c \in Conn |-> 0]
    /\ wire = Quiet

SomeOutput(d) == \E room \in 0..MaxRoom : Output(d, room)

Next ==
    \/ \E c \in Conn, type \in Talks : Talk(c, type)
    \/ \E c, d \in Conn, mode \in {"dnd", "away", "here"} : Whisper(c, d, mode)
    \/ \E c \in Conn : UpdateFlags(c) \/ Announce(c) \/ Close(c) \/ SomeOutput(c)
    \/ \E c, d \in Conn : Ignore(c, d) \/ Unignore(c, d)

Spec == Init /\ [][Next]_vars

-----------------------------------------------------------------------------
TypeOK ==
    /\ open \subseteq Conn
    /\ \A c \in Conn : ToSet(ignores[c]) \subseteq Conn \ {c}
    /\ BagToSet(ref) \subseteq Packet
    /\ \A d \in Conn : ToSet(queue[d]) \subseteq Packet /\ outsize[d] \in 0..1

\* Who ignores the sender hears nothing of it, and all the others it was for hear it,
\* though they share packets that are made for the first of them (message.c:1362-1478).
IgnoringDecides ==
    \A n \in DOMAIN said :
        said[n].type \in Ignorable => said[n].got = said[n].for \ said[n].ignoring

\* Between two handlers a packet is referred to by the queues it is in and by nothing
\* else: none is freed that will be sent, none is kept that will not.
RefsAreQueues ==
    \A p \in BagToSet(ref) \cup UNION {ToSet(queue[d]) : d \in Conn} :
        CopiesIn(p, ref) = Cardinality({<<d, i>> \in Conn \X (1..MaxMessages) :
                                          i <= Len(queue[d]) /\ queue[d][i] = p})

\* A peer gets the bytes of the packets queued for it, in order, none twice and none
\* left out, however little of them it takes at a time.
SentInOrder == [][\A d \in open' : IsPrefix(Unsent(d), wire'[d] \o Unsent(d)')]_vars

=============================================================================
