---------------------------- MODULE FileTransfer ----------------------------
(* A file fetched from bnetd, by bnftp into a file of its own or by bnchat *)
(* to print it (src/src/client/bnftp.c, bnchat.c), and the answer of bnetd *)
(* (src/src/bnetd/handle_file.c, file.c). Lengths are in blocks of the     *)
(* size that one raw packet takes; a block carries which version of the    *)
(* file it is from and where it belongs.                                   *)
(*                                                                         *)
(* bnftp is called again and again on the same file; the file on the       *)
(* server is replaced now and then, by a shorter one only if MayShrink.    *)
EXTENDS Naturals, Sequences

CONSTANTS
    MaxLength,    \* bound of the length of the file
    MaxVersion,   \* bound of the versions of the file on the server
    MayShrink,    \* whether a version may be shorter than the one before, or missing
    Wrap,         \* one more than the greatest length an unsigned int holds
    NoFile

VARIABLES
    length,    \* of the file on the server, NoFile if there is none
    version,
    local,     \* the blocks of the file of bnftp, NoFile if there is none
    fetch,     \* what the program does: phase, exist_action, startoffset, blocks to come
    wire       \* what the server has sent: a header, then blocks

vars == <<length, version, local, fetch, wire>>

Block == (0 .. MaxVersion) \X (1 .. MaxLength)
Idle == [phase |-> "idle", action |-> "none", offset |-> 0, left |-> 0]

\* What the variables hold; the program never waits for more than an unsigned int.
TypeOK ==
    /\ length \in 0 .. MaxLength \cup {NoFile}
    /\ version \in 0 .. MaxVersion
    /\ local = NoFile \/ \A i \in DOMAIN local : local[i] \in Block
    /\ fetch \in [phase : {"idle", "ask", "reply", "data"},
                  action : {"none", "overwrite", "resume", "print"},
                  offset : 0 .. MaxLength, left : 0 .. Wrap - 1]

Init ==
    /\ length \in 1 .. MaxLength
    /\ version = 0
    /\ local = NoFile
    /\ fetch = Idle
    /\ wire = <<>>

\* Someone replaces the file in the directory of the server.
Replace ==
    /\ version < MaxVersion
    /\ version' = version + 1
    /\ length' \in IF MayShrink THEN 0 .. MaxLength \cup {NoFile} ELSE length .. MaxLength
    /\ UNCHANGED <<local, fetch, wire>>

Ask(action, offset) ==
    fetch' = [phase |-> "ask", action |-> action, offset |-> offset, left |-> 0]

\* main of bnftp with a file that does not exist, or one to be written over. (An offset
\* given on the command line goes before what the file says, and is left out.)
Overwrite ==
    /\ fetch = Idle
    /\ Ask("overwrite", 0)
    /\ UNCHANGED <<length, version, local, wire>>

\* The file is renamed to the first of a hundred names that is free.
Backup ==
    /\ fetch = Idle
    /\ local # NoFile
    /\ local' = NoFile
    /\ Ask("overwrite", 0)
    /\ UNCHANGED <<length, version, wire>>

Resume ==
    /\ fetch = Idle
    /\ Ask("resume", IF local = NoFile THEN 0 ELSE Len(local))
    /\ UNCHANGED <<length, version, local, wire>>

\* print_file of bnchat
PrintFile ==
    /\ fetch = Idle
    /\ Ask("print", 0)
    /\ UNCHANGED <<length, version, local, wire>>

Sends(from) ==
    IF length = NoFile THEN <<>>
    ELSE [i \in 1 .. (IF from < length THEN length - from ELSE 0) |-> <<version, from + i>>]

Header == IF length = NoFile THEN 0 ELSE length

\* file_send: the reply with the length of the whole file, and all of its blocks from the
\* offset at once; no block when the offset is not in the file, or there is no file.
FileSend ==
    /\ fetch.phase = "ask"
    /\ wire' = <<Header>> \o Sends(fetch.offset)
    /\ fetch' = [fetch EXCEPT !.phase = "reply"]
    /\ UNCHANGED <<length, version, local>>

\* The file is opened for writing or for appending, and what is left of it is the length
\* less the offset, in unsigned arithmetic.
GotReply ==
    /\ fetch.phase = "reply"
    /\ wire # <<>>
    /\ wire' = Tail(wire)
    /\ local' = IF fetch.action = "overwrite" \/ (fetch.action = "resume" /\ local = NoFile)
                THEN <<>> ELSE local
    /\ fetch' = [fetch EXCEPT !.phase = "data",
                              !.left = (Head(wire) + Wrap - fetch.offset) % Wrap]
    /\ UNCHANGED <<length, version>>

\* client_blockrecv_raw_packet
GotBlock ==
    /\ fetch.phase = "data"
    /\ fetch.left > 0
    /\ wire # <<>>
    /\ wire' = Tail(wire)
    /\ local' = IF fetch.action = "print" THEN local ELSE Append(local, Head(wire))
    /\ fetch' = [fetch EXCEPT !.left = @ - 1]
    /\ UNCHANGED <<length, version>>

Done ==
    /\ fetch.phase = "data"
    /\ fetch.left = 0
    /\ fetch' = Idle
    /\ wire' = <<>>
    /\ UNCHANGED <<length, version, local>>

\* The connection ends, with some of what was sent lost: bnftp keeps what it has written.
Broken ==
    /\ fetch.phase \in {"ask", "reply", "data"}
    /\ fetch' = Idle
    /\ wire' = <<>>
    /\ UNCHANGED <<length, version, local>>

Next == Replace \/ Overwrite \/ Backup \/ Resume \/ PrintFile
            \/ FileSend \/ GotReply \/ GotBlock \/ Done \/ Broken

\* The server answers and the program reads; links need not break.
Spec == Init /\ [][Next]_vars /\ WF_vars(FileSend) /\ WF_vars(GotReply \/ GotBlock \/ Done)

----------------------------------------------------------------------------

\* However often it is broken off and resumed, a fetch puts every block where it belongs,
\* and what is fetched from one version on is from that version or a later one
\* (startoffset, file_send).
BlocksInPlace ==
    local # NoFile =>
        \A i \in DOMAIN local : /\ local[i][2] = i
                                /\ i > 1 => local[i - 1][1] <= local[i][1]

\* bnftp has gone on from beyond the end of the file, which has become shorter, and waits
\* for what an unsigned int makes of the difference.
Wrapped == fetch.left > MaxLength

\* A fetch is to come to its end (the loops over raw packets in bnftp and bnchat), also when
\* the file is not there (file_send), unless it goes on from beyond the end of the file.
Waiting == fetch.phase # "idle" /\ ~Wrapped

=============================================================================
