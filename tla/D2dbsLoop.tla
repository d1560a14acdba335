------------------------------ MODULE D2dbsLoop ------------------------------
(***************************************************************************)
(* The loop of d2dbs (dbserver.c, dbs_packet_handle of dbspacket.c) and    *)
(* its buffers: when a connection is read, written and handled.  Bytes are *)
(* counted, not kept; what a request does is module D2dbs's.  A game       *)
(* server sends the byte that says what it is and then its requests, which *)
(* TCP cuts and joins as it likes; its answers to echo requests are among  *)
(* them.  dbs_check_timeout and handlers that fail are D2dbs's too.        *)
(***************************************************************************)
EXTENDS Integers, FiniteSets

CONSTANTS
    Link,
    Requests(_),      \* how many requests a game server sends
    Before(_, _),     \* link, n: the bytes of the first n requests of a link
    Replied(_, _),    \* the same of their replies
    Echo,             \* the bytes of an echo request
    BufferSize,       \* kBufferSize
    MaxPacket         \* kMaxPacketLength

VARIABLES
    conn,      \* the connections as d2dbs keeps them: stats, the bytes in ReadBuf and
               \* WriteBuf, and how many requests it has handled
    sent,      \* requests the game server has sent
    closed,    \* the game server closed its end
    wire       \* bytes on their way to d2dbs

vars == <<conn, sent, closed, wire>>

Connection ==
    [stats : {"none", "accepted", "connected", "down"}, in : 0 .. BufferSize, out : 0 .. BufferSize,
     handled : Nat]

Open(k) == conn[k].stats \in {"accepted", "connected"}

TypeOK ==
    /\ conn \in [Link -> Connection]
    /\ closed \in [Link -> BOOLEAN]
    /\ wire \in [Link -> Nat]
    /\ \A k \in Link : conn[k].handled <= sent[k] /\ sent[k] <= Requests(k)

Init ==
    /\ conn = [k \in Link |-> [stats |-> "none", in |-> 0, out |-> 0, handled |-> 0]]
    /\ closed = [k \in Link |-> FALSE]
    /\ sent = [k \in Link |-> 0]
    /\ wire = [k \in Link |-> 0]

-----------------------------------------------------------------------------
(* The game servers. *)

\* the byte that says what it is goes with the connection
Connect(k) ==
    /\ conn[k].stats = "none"
    /\ conn' = [conn EXCEPT ![k].stats = "accepted"]
    /\ wire' = [wire EXCEPT ![k] = 1]
    /\ UNCHANGED <<sent, closed>>

Send(k) ==
    /\ Open(k) /\ ~closed[k] /\ sent[k] < Requests(k)
    /\ sent' = [sent EXCEPT ![k] = @ + 1]
    /\ wire' = [wire EXCEPT ![k] = @ + Before(k, sent[k] + 1) - Before(k, sent[k])]
    /\ UNCHANGED <<conn, closed>>

Close(k) ==
    /\ Open(k) /\ ~closed[k]
    /\ closed' = [closed EXCEPT ![k] = TRUE]
    /\ UNCHANGED <<conn, sent, wire>>

-----------------------------------------------------------------------------
(* d2dbs. *)

\* dbs_keepalive, for a connection whose echo requests so far are sent
Keepalive(k) ==
    /\ Open(k)
    /\ conn[k].out = 0
    /\ conn' = [conn EXCEPT ![k].out = Echo]
    /\ UNCHANGED <<sent, closed, wire>>

\* dbs_server_setup_fdsets: room for a whole packet
Room(k) == conn[k].in < BufferSize - MaxPacket

Least(a, b) == IF a < b THEN a ELSE b

\* what select and the calls may say besides a number of bytes
NotReady == 0 - 1
Failed == 0 - 2

Bytes(n) == IF n < 0 THEN 0 ELSE n

\* what the read of a connection that is ready returns: some of the bytes, 0 at the end
Reads(k) ==
    IF ~Open(k) \/ ~Room(k) THEN {}
    ELSE IF wire[k] > 0 THEN 1 .. Least(wire[k], BufferSize - conn[k].in)
    ELSE IF closed[k] THEN {0} ELSE {}

\* and the write: a part of the buffer, or an error once the other end is closed
Writes(k) ==
    IF ~Open(k) \/ conn[k].out = 0 THEN {}
    ELSE (1 .. Least(conn[k].out, MaxPacket)) \cup (IF closed[k] THEN {Failed} ELSE {})

\* Mutant: a connection whose end was read is kept.
KeptAtEnd(r, w) == w # Failed

\* dbs_server_loop: the result of the write takes the place of that of the read
Kept(r, w) == IF w = NotReady THEN r # 0 ELSE w # Failed

\* dbs_packet_handle: whole requests one after the other, until one of them has no room
\* for its reply
Handled(k, c) ==
    LET fits(n) == /\ Before(k, n) - Before(k, c.handled) <= c.in
                   /\ c.out + Replied(k, n) - Replied(k, c.handled) <= BufferSize
        n == CHOOSE n \in c.handled .. sent[k] : fits(n) /\ (n < sent[k] => ~fits(n + 1))
    IN [c EXCEPT !.handled = n,
                 !.in = @ - (Before(k, n) - Before(k, c.handled)),
                 !.out = @ + Replied(k, n) - Replied(k, c.handled)]

\* the first byte; what came with it is left for another turn
Handle(k, c) ==
    IF c.stats = "connected" THEN Handled(k, c)
    ELSE IF c.stats = "accepted" /\ c.in > 0 THEN [c EXCEPT !.stats = "connected", !.in = @ - 1]
    ELSE c

\* One turn of the loop: k is ready, and every connection is handled.  When several are
\* ready it is as if one turn followed the other; without a socket that is ready the loop
\* starts again and handles nothing.
Turn(k, r, w) ==
    LET c == [conn[k] EXCEPT !.in = @ + Bytes(r), !.out = @ - Bytes(w)]
        lost == [conn[k] EXCEPT !.stats = "down", !.in = 0, !.out = 0]
    IN /\ conn' = [j \in Link |-> IF j # k THEN Handle(j, conn[j])
                                  ELSE IF Kept(r, w) THEN Handle(k, c) ELSE lost]
       /\ wire' = [wire EXCEPT ![k] = IF Kept(r, w) THEN @ - Bytes(r) ELSE 0]
       /\ UNCHANGED <<sent, closed>>

\* What reached a socket is read, in a turn that has nothing to write to it (the turns
\* between two keepalives have not), and a game server takes what is written.
Read(k) == \E r \in Reads(k) : Turn(k, r, NotReady)
Write(k) == \E w \in Writes(k) : Turn(k, NotReady, w)
ReadAndWrite(k) == \E r \in Reads(k), w \in Writes(k) : Turn(k, r, w)

Next ==
    \E k \in Link :
        Connect(k) \/ Send(k) \/ Close(k) \/ Keepalive(k) \/ Read(k) \/ Write(k) \/ ReadAndWrite(k)

Spec ==
    /\ Init /\ [][Next]_vars
    /\ \A k \in Link : WF_vars(Read(k)) /\ WF_vars(Write(k)) /\ WF_vars(Keepalive(k))

-----------------------------------------------------------------------------
(* Properties. *)

\* Every request that a game server sent is handled, unless its connection ends, although
\* requests that came with the first byte wait until some socket is ready again, and no
\* request is read beyond the room there is; and a connection closed by the game server is
\* dropped, although a write may hide the end that was read.  dbs_server_loop.
Owes(k, n) == IF n = 0 THEN closed[k] ELSE sent[k] >= n
Paid(k, n) ==
    conn[k].stats = "down" \/ (n > 0 /\ (conn[k].handled >= n \/ closed[k]))
LoopServes == \A k \in Link : \A n \in 0..Requests(k) : Owes(k, n) ~> Paid(k, n)
=============================================================================
