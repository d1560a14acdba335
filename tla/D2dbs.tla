------------------------------- MODULE D2dbs -------------------------------
(* The character database server d2dbs between the game servers: its       *)
(* connections (src/src/d2dbs/dbserver.c), the packets they send           *)
(* (dbspacket.c) and the locks that keep a character on one game server at *)
(* a time (charlock.c). What the game servers do with the replies is not   *)
(* in the repository: they play a character they were sent, save it, and   *)
(* unlock it when it leaves.                                               *)
EXTENDS Integers, Sequences, FiniteSets

CONSTANTS
    Server,      \* game servers, by the id d2dbs gives their address
    GsMax,       \* DEFAULT_GS_MAX, the length of gsqtbl
    Link,        \* connections of game servers
    Of,          \* the server whose address each is from
    Char,        \* characters
    Unlocked,    \* no entry in clitbl
    Replies,     \* how many replies a write buffer has room for
    Requests,    \* bound of the packets that wait in a read buffer
    CanFail      \* links break, time out and bring malformed packets

ASSUME ServerAssumption == Server \subseteq Nat /\ GsMax \in Nat \ {0}
ASSUME LinkAssumption == Of \in [Link -> Server]
ASSUME CharAssumption == Unlocked \notin Server
ASSUME BoundAssumption == Replies \in Nat \ {0} /\ Requests \in Nat
ASSUME FailAssumption == CanFail \in BOOLEAN

VARIABLES
    link,    \* "down", or "accepted" until its first byte is read, then "verified";
             \* "stuck" when a handler returned -1 for the packet at the head of inbox
    inbox,   \* ReadBuf: packets, [type, char]
    outbox,  \* WriteBuf: replies, [result, char]
    lock,    \* clitbl: the server that has the lock of a character
    plays    \* the characters each server was sent and has not let go

vars == <<link, inbox, outbox, lock, plays>>

Packet == [type : {"get", "save", "lock", "unlock", "bad"}, char : Char]
Reply == [result : {"success", "failed", "charlocked", "saved"}, char : Char]

----------------------------------------------------------------------------
(* charlock.c. The lock of a character is in the list of its server's      *)
(* bucket of gsqtbl, which is why freeing all of one frees its neighbours'. *)

\* Mutant: the entry is made in the list of the server only, and never found.
LockCharUnfound(locks, c, g) == locks

LockChar(locks, c, g) == IF locks[c] = Unlocked THEN [locks EXCEPT ![c] = g] ELSE locks

UnlockChar(locks, c) == [locks EXCEPT ![c] = Unlocked]

UnlockAll(locks, g) ==
    [c \in Char |-> IF locks[c] # Unlocked /\ locks[c] % GsMax = g % GsMax
                    THEN Unlocked ELSE locks[c]]

Verified(k) == link[k] \in {"verified", "stuck"}

----------------------------------------------------------------------------
(* dbs_server_shutdown_connection. The server hears nothing of it: it goes *)
(* on playing what it plays.                                               *)

Closed(k) ==
    /\ link' = [link EXCEPT ![k] = "down"]
    /\ inbox' = [inbox EXCEPT ![k] = <<>>]
    /\ outbox' = [outbox EXCEPT ![k] = <<>>]

\* Mutant: the locks stay.
ShutdownOnly(k) == Closed(k) /\ UNCHANGED <<lock, plays>>

Shutdown(k) ==
    /\ Closed(k)
    /\ lock' = IF Verified(k) THEN UnlockAll(lock, Of[k]) ELSE lock
    /\ UNCHANGED plays

Init ==
    /\ link = [k \in Link |-> "down"]
    /\ inbox = [k \in Link |-> <<>>]
    /\ outbox = [k \in Link |-> <<>>]
    /\ lock = [c \in Char |-> Unlocked]
    /\ plays = [g \in Server |-> {}]

Accept(k) ==
    /\ link[k] = "down"
    /\ link' = [link EXCEPT ![k] = "accepted"]
    /\ UNCHANGED <<inbox, outbox, lock, plays>>

\* dbs_verify_ipaddr: every other connection from that address is shut down.
Verify(k) ==
    LET others == {j \in Link \ {k} : Of[j] = Of[k]}
    IN  /\ link[k] = "accepted"
        /\ CanFail \/ \A j \in others : link[j] = "down"
        /\ link' = [j \in Link |-> IF j = k THEN "verified" ELSE
                                   IF j \in others THEN "down" ELSE link[j]]
        /\ inbox' = [j \in Link |-> IF j \in others THEN <<>> ELSE inbox[j]]
        /\ outbox' = [j \in Link |-> IF j \in others THEN <<>> ELSE outbox[j]]
        /\ lock' = IF \E j \in others : Verified(j) THEN UnlockAll(lock, Of[k]) ELSE lock
        /\ UNCHANGED plays

\* A read or a write that fails, or dbs_check_timeout.
Lose(k) ==
    /\ CanFail
    /\ link[k] # "down"
    /\ Shutdown(k)

----------------------------------------------------------------------------
(* dbs_packet_handle takes one packet after the other from the read buffer;*)
(* a handler returns 1 when it is done with the packet.                    *)

Reads(k, type) ==
    /\ link[k] = "verified"
    /\ inbox[k] # <<>>
    /\ Head(inbox[k]).type = type

Done(k) == inbox' = [inbox EXCEPT ![k] = Tail(@)]

HasRoom(k) == Len(outbox[k]) < Replies

Answer(k, result) ==
    outbox' = [outbox EXCEPT ![k] = Append(@, [result |-> result, char |-> Head(inbox[k]).char])]

\* Mutants: the lock is not looked at; the request waits for the lock.
GetDataAnyway(k) ==
    LET c == Head(inbox[k]).char
    IN  /\ Reads(k, "get")
        /\ lock' = LockChar(lock, c, Of[k])
        /\ IF HasRoom(k) THEN Answer(k, "success") /\ Done(k) ELSE UNCHANGED <<inbox, outbox>>
        /\ UNCHANGED <<link, plays>>

GetDataWaits(k) == Reads(k, "get") /\ lock[Head(inbox[k]).char] = Unlocked
                   /\ GetDataAnyway(k)

\* dbs_packet_getdata. The lock is taken and the files are read before it looks for room
\* for the reply; without room it returns 0 and is called again for the same packet.
GetData(k) ==
    LET c == Head(inbox[k]).char
    IN  /\ Reads(k, "get")
        /\ \E result \in IF lock[c] # Unlocked THEN {"charlocked"} ELSE {"success", "failed"} :
              /\ lock' = IF result = "success" THEN LockChar(lock, c, Of[k]) ELSE lock
              /\ IF HasRoom(k) THEN Answer(k, result) /\ Done(k) ELSE UNCHANGED <<inbox, outbox>>
        /\ UNCHANGED <<link, plays>>

\* dbs_packet_savedata; without room for the reply the character is saved again.
SaveData(k) ==
    /\ Reads(k, "save")
    /\ IF HasRoom(k)
       THEN \E result \in {"saved", "failed"} : Answer(k, result) /\ Done(k)
       ELSE UNCHANGED <<inbox, outbox>>
    /\ UNCHANGED <<link, lock, plays>>

\* dbs_packet_charlock: neither looks at who has the lock.
CharLock(k) ==
    LET c == Head(inbox[k]).char
    IN  /\ \/ Reads(k, "lock") /\ lock' = LockChar(lock, c, Of[k])
           \/ Reads(k, "unlock") /\ lock' = UnlockChar(lock, c)
        /\ Done(k)
        /\ UNCHANGED <<link, outbox, plays>>

\* A handler's -1 is returned through an unsigned short: it is not the -1 that closes
\* the connection. The packet stays, and is refused again in each pass.
BadPacket(k) ==
    /\ Reads(k, "bad")
    /\ link' = [link EXCEPT ![k] = "stuck"]
    /\ UNCHANGED <<inbox, outbox, lock, plays>>

Handle(k) == GetData(k) \/ SaveData(k) \/ CharLock(k) \/ BadPacket(k)

----------------------------------------------------------------------------
(* The game servers.                                                       *)

Sent(k, packets) == inbox' = [inbox EXCEPT ![k] = @ \o packets]

CanSend(k, n) == Verified(k) /\ Len(inbox[k]) + n <= Requests

Packets(k, type) == {i \in DOMAIN inbox[k] : inbox[k][i].type = type}

\* One get for a character is under way at a time.
Ask(k, c) ==
    /\ CanSend(k, 1)
    /\ c \notin plays[Of[k]]
    /\ \A i \in Packets(k, "get") : inbox[k][i].char # c
    /\ \A i \in DOMAIN outbox[k] : outbox[k][i].char # c
    /\ Sent(k, <<[type |-> "get", char |-> c]>>)
    /\ UNCHANGED <<link, outbox, lock, plays>>

\* A character leaves: it is saved, then unlocked.
Release(k, c) ==
    /\ CanSend(k, 2)
    /\ c \in plays[Of[k]]
    /\ plays' = [plays EXCEPT ![Of[k]] = @ \ {c}]
    /\ Sent(k, <<[type |-> "save", char |-> c], [type |-> "unlock", char |-> c]>>)
    /\ UNCHANGED <<link, outbox, lock>>

\* A server says again what it plays.
Relock(k, c) ==
    /\ CanSend(k, 1)
    /\ c \in plays[Of[k]]
    /\ Packets(k, "lock") = {}
    /\ Sent(k, <<[type |-> "lock", char |-> c]>>)
    /\ UNCHANGED <<link, outbox, lock, plays>>

\* A packet whose size or data type d2dbs does not understand.
SendBad(k, c) ==
    /\ CanFail
    /\ CanSend(k, 1)
    /\ Sent(k, <<[type |-> "bad", char |-> c]>>)
    /\ UNCHANGED <<link, outbox, lock, plays>>

\* dbs_server_write_data, as far as the end of a reply.
Write(k) ==
    /\ outbox[k] # <<>>
    /\ outbox' = [outbox EXCEPT ![k] = Tail(@)]
    /\ LET reply == Head(outbox[k])
       IN  plays' = IF reply.result = "success"
                    THEN [plays EXCEPT ![Of[k]] = @ \cup {reply.char}] ELSE plays
    /\ UNCHANGED <<link, inbox, lock>>

Next ==
    \E k \in Link :
        \/ Accept(k)
        \/ Verify(k)
        \/ Lose(k)
        \/ Handle(k)
        \/ Write(k)
        \/ \E c \in Char : Ask(k, c) \/ Release(k, c) \/ Relock(k, c) \/ SendBad(k, c)

Spec == Init /\ [][Next]_vars

\* A reply that waits makes select return, and then the loop serves every connection.
FairSpec == Spec /\ \A k \in Link : WF_vars(Handle(k)) /\ WF_vars(Write(k))

----------------------------------------------------------------------------
(* Properties.                                                             *)

TypeOK ==
    /\ link \in [Link -> {"down", "accepted", "verified", "stuck"}]
    /\ inbox \in [Link -> Seq(Packet)]
    /\ outbox \in [Link -> Seq(Reply)]
    /\ \A k \in Link : Len(outbox[k]) <= Replies
    /\ lock \in [Char -> Server \cup {Unlocked}]
    /\ plays \in [Server -> SUBSET Char]

\* While no connection breaks, the lock of a character is the server's that plays it, or
\* was sent it: no other server can be sent it, and no unlock comes late.
PlayerHasLock ==
    \A k \in Link : \A c \in Char :
        (c \in plays[Of[k]] \/ [result |-> "success", char |-> c] \in {outbox[k][i] : i \in DOMAIN outbox[k]})
            => lock[c] = Of[k]

\* The servers that play a character or that a reply with it waits for.
On == [c \in Char |->
         {g \in Server : \/ c \in plays[g]
                         \/ \E k \in Link : Of[k] = g /\ \E i \in DOMAIN outbox[k] :
                               outbox[k][i] = [result |-> "success", char |-> c]}]

Abstract == INSTANCE OneServer WITH on <- On

\* While no connection breaks d2dbs keeps a character on one game server at a time: it is
\* sent to a server only when no server has it or waits for it, however packets interleave.
ImplementsOneServer == Abstract!Spec

\* However connections break and come back, a server has one that is verified at most,
\* and a server without one holds no lock: its characters can be played elsewhere.
LocksHaveLink ==
    /\ \A j, k \in Link : Of[j] = Of[k] /\ Verified(j) /\ Verified(k) => j = k
    /\ \A c \in Char : lock[c] # Unlocked => \E k \in Link : Of[k] = lock[c] /\ Verified(k)

\* A request is answered in the end, however full the write buffer was.
GetIsAnswered ==
    \A k \in Link : \A c \in Char :
        (\E i \in Packets(k, "get") : inbox[k][i].char = c)
            ~> ~(\E i \in Packets(k, "get") : inbox[k][i].char = c)

\* "0  :  not get a whole packet,do nothing": a packet that stays in the read buffer has
\* changed nothing.
WaitingChangesNothing ==
    [][\A k \in Link : Handle(k) /\ inbox' = inbox => lock' = lock]_vars
=============================================================================
