------------------------------ MODULE Framing ------------------------------
(* How bnetd and d2cs take packets and lines out of the bytes of a TCP       *)
(* connection: net_recv_packet, which asks for the rest of a header or of a  *)
(* packet and takes what has come, and the loops around it (sd_tcpinput,     *)
(* conn_handle_read, handle_irc_packet), which know the class of the         *)
(* connection. The class is told by the first byte, or by the next one.      *)
(*                                                                           *)
(* A byte is a number, and a header has two: the size and the type, or for   *)
(* bnet packets the type, which tells them from the others, and the size.    *)
(* The port of IRC connections stands for a first byte too.                  *)
EXTENDS Integers, Sequences, SequencesExt, FiniteSetsExt

CONSTANTS
    Streams,        \* what a peer may send, the byte of its class in front
    MaxPacket,      \* MAX_PACKET_SIZE
    MaxLine,        \* MAX_IRC_MESSAGE_LEN, less the place for the NUL
    LF, CR, FF,     \* the bytes that mean something
    ClassByte       \* the classes a first byte stands for

VARIABLES
    stream,         \* all that the peer sends
    pos,            \* how much of it has been read
    class,          \* conn_get_class
    packet,         \* what has been read of the packet in the queue (conn_get_in_size)
    line,           \* conn_get_ircline
    handed,         \* the packets and lines the handlers were given
    open

vars == <<stream, pos, class, packet, line, handed, open>>

Lines  == {"bot", "telnet"}             \* packet_class_raw, up to the end of a line
Raw    == Lines \cup {"init", "defer", "irc"}
Header == 2

-----------------------------------------------------------------------------
\* packet_get_header_size
HeaderSize == IF class \in Raw THEN 0 ELSE Header

SizeAt(c) == IF c = "bnet" THEN 2 ELSE 1

\* packet_get_size: of a raw packet it is what was asked for, one byte more than
\* there is, and a size above the limit counts as none.
Size(p) ==
    IF class \in Raw THEN Len(p) + 1
    ELSE IF p[SizeAt(class)] > MaxPacket THEN 0 ELSE p[SizeAt(class)]

\* Mutant: the rest of the header asked for when the header is there.
WantedHeader == IF Len(packet) < HeaderSize THEN HeaderSize - Len(packet) ELSE IF class \in Raw THEN 1 ELSE 0

\* The bytes the next call asks for.
Wanted ==
    IF Len(packet) < HeaderSize THEN HeaderSize - Len(packet) ELSE Size(packet) - Len(packet)

\* A packet that is shorter than its header, or than what was read of it.
BadSize ==
    /\ Len(packet) >= HeaderSize
    /\ Size(packet) < HeaderSize \/ Len(packet) >= Size(packet)

\* Mutant: a packet handed over as soon as its header is there.
IsWholeHeader(p) == class \in Raw \/ Len(p) >= Header

IsWhole(p) == class \in Raw \/ (Len(p) >= Header /\ Len(p) = Size(p))

\* handle_irc_packet keeps a line across its packets of one byte. What is too much
\* for a line is dropped: the count of the bytes above it starts again with each
\* packet, so the flood protection never sees a hundred of them.
IrcByte(b) ==
    CASE b = LF -> line' = << >> /\ handed' = Append(handed, line)
      [] b = CR -> UNCHANGED <<line, handed>>
      [] OTHER  -> /\ line' = IF Len(line) < MaxLine THEN Append(line, b) ELSE line
                   /\ UNCHANGED handed

Init ==
    /\ stream \in Streams
    /\ pos = 0
    /\ class = "init"
    /\ packet = << >>
    /\ line = << >>
    /\ handed = << >>
    /\ open = TRUE

Close ==
    /\ open' = FALSE
    /\ UNCHANGED <<class, packet, line, handed>>

\* What becomes of the connection with p in its packet.
Take(p) ==
    IF ~IsWhole(p)
    THEN packet' = p /\ UNCHANGED <<class, line, handed, open>>
    ELSE CASE class = "init" ->
                \* handle_init_packet
                IF p[1] \in DOMAIN ClassByte
                THEN /\ class' = ClassByte[p[1]]
                     /\ packet' = << >>
                     /\ UNCHANGED <<line, handed, open>>
                ELSE Close
           [] class = "defer" ->
                \* the byte tells the class, and stays in the packet
                /\ class' = IF p[1] = FF THEN "bnet" ELSE "auth"
                /\ packet' = p
                /\ UNCHANGED <<line, handed, open>>
           [] class \in Lines ->
                IF Len(p) < MaxPacket /\ Last(p) \notin {LF, CR}
                THEN packet' = p /\ UNCHANGED <<class, line, handed, open>>
                ELSE /\ packet' = << >>
                     /\ handed' = Append(handed, p)
                     /\ UNCHANGED <<class, line, open>>
           [] class = "irc" ->
                IrcByte(p[1]) /\ UNCHANGED <<class, packet, open>>
           [] OTHER ->
                /\ packet' = << >>
                /\ handed' = Append(handed, p)
                /\ UNCHANGED <<class, line, open>>

\* net_recv_packet with k bytes come in, and what the caller does then.
Receive(k) ==
    /\ open
    /\ ~BadSize
    /\ pos + k <= Len(stream)
    /\ k <= Wanted
    /\ pos' = pos + k
    /\ Take(packet \o SubSeq(stream, pos + 1, pos + k))
    /\ UNCHANGED stream

\* A size that cannot be: the connection is closed before anything is read.
Refuse ==
    /\ open
    /\ BadSize
    /\ pos < Len(stream)
    /\ Close
    /\ UNCHANGED <<stream, pos>>

Next == (\E k \in 1..MaxPacket : Receive(k)) \/ Refuse

Fairness == WF_vars(Next)

Spec == Init /\ [][Next]_vars /\ Fairness

-----------------------------------------------------------------------------
TypeOK ==
    /\ stream \in Streams /\ pos \in 0..Len(stream) /\ open \in BOOLEAN
    /\ Len(packet) <= MaxPacket /\ Len(line) <= MaxLine

(* What a peer means by its bytes, told from the whole of them. *)

Ends(s) == SelectInSeq(s, LAMBDA b : b \in {LF, CR})

RECURSIVE Packets(_, _), LinesOf(_), IrcLines(_)

Packets(s, at) ==
    IF Len(s) < Header THEN << >>
    ELSE LET n == s[at]
         IN  IF n < Header \/ n > MaxPacket \/ n > Len(s) THEN << >>
             ELSE <<SubSeq(s, 1, n)>> \o Packets(SubSeq(s, n + 1, Len(s)), at)

LinesOf(s) ==
    LET n == IF Ends(s) # 0 THEN Min({Ends(s), MaxPacket}) ELSE MaxPacket
    IN  IF n > Len(s) THEN << >>
        ELSE <<SubSeq(s, 1, n)>> \o LinesOf(SubSeq(s, n + 1, Len(s)))

IrcLines(s) ==
    LET n == SelectInSeq(s, LAMBDA b : b = LF)
        text == SelectSeq(SubSeq(s, 1, n - 1), LAMBDA b : b # CR)
    IN  IF n = 0 THEN << >>
        ELSE <<SubSeq(text, 1, Min({MaxLine, Len(text)}))>> \o IrcLines(SubSeq(s, n + 1, Len(s)))

Meant(c, s) ==
    CASE c \in Lines -> LinesOf(s)
      [] c = "irc" -> IrcLines(s)
      [] c \in {"init", "defer"} -> << >>
      [] OTHER -> Packets(s, SizeAt(c))

\* The handlers are given what the peer meant, in its order and whole, however the
\* network cut the bytes, over the change of class after the first of them too.
HandedIsMeant == handed = Meant(class, SubSeq(stream, 2, pos))

\* All of it is read, or the connection closed: no packet waits for bytes that are
\* there (the test of what was read against the size, network.c:95-109).
Read == pos = Len(stream) \/ ~open
AllIsRead == <>[]Read
=============================================================================
