------------------------------- MODULE Proxy -------------------------------
(* bnproxy: a virtual connection between a client and the real server        *)
(* (src/src/bnproxy/bnproxy.c, virtconn.c). The proxy takes the packets, the *)
(* lines and, after the reply to a file request, the raw bytes of the file   *)
(* out of what one side sends, to print them, and passes them on to the      *)
(* other. The first byte of the client tells which of them to look for.      *)
(*                                                                           *)
(* Virtual connections do not share anything but the socket for UDP, so there*)
(* is one. A byte is a number; a header has two, as in module Framing, and   *)
(* a reply to a file request has the length of the file after its header.    *)
EXTENDS Integers, Sequences, FiniteSetsExt, SequencesExt

CONSTANTS
    Streams,     \* what the sides may send: records of a client and a server
    MaxPacket,   \* MAX_PACKET_SIZE
    Eol,         \* the bytes that end a line
    Reply,       \* SERVER_FILE_REPLY
    ClassByte,   \* the classes a first byte stands for
    MayClose     \* the sides that may hang up once they have sent everything

VARIABLES
    stream,      \* what the sides send
    pos,         \* how much of it has been read
    got,         \* what the sides have received
    class, state,
    in,          \* what has been read of the packet in cinqueue, sinqueue
    out,         \* coutqueue, soutqueue
    sent,        \* coutsize, soutsize: how much of the first packet is sent
    fileleft

vars == <<stream, pos, got, class, state, in, out, sent, fileleft>>

Side == {"client", "server"}
Other(s) == IF s = "client" THEN "server" ELSE "client"
Header == 2
SizeAt == IF class = "bnet" THEN 2 ELSE 1
TypeAt == 3 - SizeAt

Init ==
    /\ stream \in Streams
    /\ pos = [s \in Side |-> 0]
    /\ got = [s \in Side |-> <<>>]
    /\ class = "none" /\ state = "initial"
    /\ in = [s \in Side |-> <<>>] /\ out = [s \in Side |-> <<>>]
    /\ sent = [s \in Side |-> 0]
    /\ fileleft = 0

\* virtconn_destroy: what was not yet passed on is lost.
Destroy ==
    /\ state' = "empty"
    /\ in' = [s \in Side |-> <<>>] /\ out' = [s \in Side |-> <<>>]
    /\ sent' = [s \in Side |-> 0]
    /\ UNCHANGED <<class, fileleft>>

\* init_virtconn: the byte is for the server too.
InitVirtconn ==
    /\ state = "initial" /\ pos["client"] < Len(stream["client"])
    /\ pos' = [pos EXCEPT !["client"] = 1]
    /\ LET b == stream["client"][1]
       IN IF b \notin DOMAIN ClassByte THEN Destroy
          ELSE /\ class' = ClassByte[b]
               /\ state' \in {"connecting", "connected"}
               /\ out' = [out EXCEPT !["server"] = <<<<b>>>>]
               /\ UNCHANGED <<in, sent, fileleft>>
    /\ UNCHANGED <<stream, got>>

\* The server has taken the connection, or has not (SO_ERROR).
Connected ==
    /\ state = "connecting"
    /\ \/ state' = "connected" /\ UNCHANGED <<class, in, out, sent, fileleft>>
       \/ Destroy
    /\ UNCHANGED <<stream, pos, got>>

-----------------------------------------------------------------------------
(* What the proxy reads *)

InFile(s) == class = "file" /\ s = "server" /\ fileleft > 0

RawSize == Min({fileleft, MaxPacket})

\* The size of the packet of which p has been read: one more byte of a bot's line,
\* as much as comes of what a bot is sent.
Size(s, p) ==
    IF class = "bot" THEN (IF s = "client" THEN Len(p) + 1 ELSE MaxPacket)
    ELSE IF InFile(s) THEN RawSize
    ELSE IF Len(p) < Header THEN Header
    ELSE p[SizeAt]

\* net_recv_packet refuses a size that is below what it has read.
BadSize(s) == Size(s, in[s]) \notin Len(in[s]) + 1 .. MaxPacket

Whole(s, p) ==
    IF class = "bot" THEN s = "server" \/ Last(p) \in Eol \/ Len(p) = MaxPacket
    ELSE Len(p) = Size(s, p) /\ (InFile(s) \/ Len(p) >= Header)

Fileleft(s, p) ==
    IF class # "file" \/ s # "server" THEN fileleft
    ELSE IF fileleft > 0 THEN fileleft - Len(p)
    ELSE IF p[TypeAt] = Reply THEN p[Header + 1] ELSE 0

Reads(s) == state = "connected" \/ (state = "connecting" /\ s = "client")

\* k bytes come from s; a whole packet is queued for the other side.
Receive(s, k) ==
    /\ Reads(s) /\ ~BadSize(s)
    /\ pos[s] + k <= Len(stream[s]) /\ Len(in[s]) + k <= Size(s, in[s])
    /\ pos' = [pos EXCEPT ![s] = @ + k]
    /\ LET p == in[s] \o SubSeq(stream[s], pos[s] + 1, pos[s] + k)
       IN IF Whole(s, p)
          THEN /\ in' = [in EXCEPT ![s] = <<>>]
               /\ out' = [out EXCEPT ![Other(s)] = Append(@, p)]
               /\ fileleft' = Fileleft(s, p)
          ELSE in' = [in EXCEPT ![s] = p] /\ UNCHANGED <<out, fileleft>>
    /\ UNCHANGED <<stream, got, class, state, sent>>

\* What the side sends cannot be a packet.
Refuse(s) ==
    /\ Reads(s) /\ BadSize(s) /\ pos[s] < Len(stream[s])
    /\ Destroy
    /\ UNCHANGED <<stream, pos, got>>

\* The side has closed its connection.
HangUp(s) ==
    /\ Reads(s) \/ (s = "client" /\ state = "initial")
    /\ s \in MayClose /\ pos[s] = Len(stream[s])
    /\ Destroy
    /\ UNCHANGED <<stream, pos, got>>

-----------------------------------------------------------------------------
NextSent(s, k) == IF sent[s] + k = Len(Head(out[s])) THEN 0 ELSE sent[s] + k

\* net_send_packet: the side takes k bytes of the first packet.
Send(s, k) ==
    /\ state = "connected" \/ (state = "connecting" /\ s = "client")
    /\ out[s] # <<>> /\ sent[s] + k <= Len(Head(out[s]))
    /\ got' = [got EXCEPT ![s] = @ \o SubSeq(Head(out[s]), sent[s] + 1, sent[s] + k)]
    /\ sent' = [sent EXCEPT ![s] = NextSent(s, k)]
    /\ out' = IF sent[s] + k = Len(Head(out[s])) THEN [out EXCEPT ![s] = Tail(@)] ELSE out
    /\ UNCHANGED <<stream, pos, class, state, in, fileleft>>

Proceed == \/ InitVirtconn \/ Connected
           \/ \E s \in Side : Refuse(s)
           \/ \E s \in Side, k \in 1..MaxPacket : Receive(s, k) \/ Send(s, k)

Next == Proceed \/ \E s \in Side : HangUp(s)

\* select() tells of every socket that is ready.
Fairness == WF_vars(Proceed)

Spec == Init /\ [][Next]_vars /\ Fairness

-----------------------------------------------------------------------------
(* Properties *)

TypeOK ==
    /\ stream \in Streams /\ fileleft \in Nat
    /\ state \in {"initial", "connecting", "connected", "empty"}
    /\ \A s \in Side : pos[s] \in 0..Len(stream[s]) /\ Len(in[s]) < MaxPacket /\ sent[s] < MaxPacket

\* Each side receives the bytes of the other and nothing else, in their order, from
\* the first byte on; what has been read and not passed on is in the queues, in one
\* piece, whatever was cut where (the sizes and queues of a t_virtconn).
Transparent ==
    \A s \in Side :
        /\ IsPrefix(got[s], stream[Other(s)])
        /\ state # "empty" =>
               LET queued == FlattenSeq(out[s])
               IN SubSeq(stream[Other(s)], 1, pos[Other(s)])
                    = got[s] \o SubSeq(queued, sent[s] + 1, Len(queued)) \o in[Other(s)]

\* Everything a side sends is passed on while both are there: the end of a file is
\* not kept for want of a whole packet, unless the file is sent from an offset on and the
\* proxy, which counts from its beginning, takes it to be longer.
Kept(s) == IF InFile(s) THEN in[s] ELSE <<>>
Passed == state = "empty" \/ \A s \in Side : got[s] \o Kept(Other(s)) = stream[Other(s)]
AllPassed == <>[]Passed
=============================================================================
