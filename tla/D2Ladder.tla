------------------------------ MODULE D2Ladder ------------------------------
(* The ladder of the Diablo II characters: d2dbs keeps the lists and saves  *)
(* them (d2dbs/d2ladder.c), and d2cs reads the file it saved and shows it   *)
(* to the clients (d2cs/d2ladder.c and the ladder requests of              *)
(* d2cs/handle_d2cs.c).  The file is replaced in several steps and d2dbs   *)
(* may die between any two of them; d2cs may read it at any of them.       *)
(*                                                                         *)
(* A list is a sequence of fixed length whose empty places hold Empty.  A  *)
(* character is in the list of everybody and in that of its class.  Modes  *)
(* (hardcore, expansion) only choose between copies of this structure.     *)
EXTENDS Naturals, Integers, Sequences, FiniteSets, SequencesExt

CONSTANTS Chars,      \* names of characters
          ClassesOf,  \* [Chars -> sets of classes]: more than one when it is made again
          Length,     \* [list -> number of places]: D2LADDER_OVERALL_MAXNUM, _MAXNUM
          TypeOrder,  \* the lists in the order of their types
          MaxExp,     \* bound: experience
          Level(_),   \* the level an experience makes; never falls as it grows
          MaxUpdates, \* bound: updates by the game servers
          PerPacket,  \* entries of one reply (14 in the code)
          ListCount   \* entries of one answer (ladderlist_count)

Types == DOMAIN Length
Empty == [char |-> "", exp |-> 0]
EntryLevel(e) == IF e = Empty THEN 0 ELSE Level(e.exp)
NoFile == [lists |-> <<>>, sum |-> FALSE]
Sound(f) == f.sum   \* d2ladder_checksum_check
EmptyLists == [t \in Types |-> [i \in 1..Length[t] |-> Empty]]

VARIABLES lists,   \* d2ladder_list
          ladder,  \* ladder_file: the lists written so far, is the checksum theirs
          backup,  \* backup_file
          saving,  \* where d2ladder_saveladder stands: "no", "open", "data", "sum"
          up,      \* d2dbs runs
          exp,     \* experience last reported of each name; 0: none yet
         again,   \* names that were once reported with a lower level than before
          updates, \* number of updates so far
          kept,    \* the lists of the last save that was completed
          begun    \* the lists of the last save that was begun

vars == <<lists, ladder, backup, saving, up, exp, again, updates, kept, begun>>

-----------------------------------------------------------------------------
(* One list, positions from 0 as in the code. *)
At(l, i) == l[i + 1]

\* Scans from the end for the last entry that is at least as good.
FindPos(l, e) ==
  LET better == {i \in 0..(Len(l) - 1) : At(l, i).exp >= e.exp}
      last == CHOOSE i \in better : \A j \in better : j <= i
  IN IF better = {} THEN 0
     ELSE IF At(l, last).char = e.char THEN last ELSE last + 1

LastOf(places) == IF places = {} THEN -1
                  ELSE CHOOSE i \in places : \A j \in places : j <= i
FindCharAll(l, e) == LastOf({i \in 0..(Len(l) - 1) : At(l, i).char = e.char})

\* Gives up at the first entry, from the end, of a higher level.
FindChar(l, e) ==
  LET found == FindCharAll(l, e) IN
    IF \E i \in 0..(Len(l) - 1) :
          i >= found /\ EntryLevel(At(l, i)) > Level(e.exp)
    THEN -1 ELSE found

\* The place is not moved back when the character itself leaves one before it.
UpdateInfoAndPosAhead(l, e, found, place) ==
  LET last == Len(l) - 1
      from == IF found < 0 THEN last ELSE found
      to == IF place > last THEN last ELSE place
      Shifted(i) == IF i = to THEN e
                    ELSE IF from <= i /\ i < to THEN At(l, i + 1)
                    ELSE IF to < i /\ i <= from THEN At(l, i - 1)
                    ELSE At(l, i)
  IN IF from = last /\ place > last THEN l
     ELSE [k \in 1..Len(l) |-> Shifted(k - 1)]

\* d2ladder_update_info_and_pos: the entries between are shifted by one.
UpdateInfoAndPos(l, e, found, place) ==
  LET last == Len(l) - 1
      out == place > last
      from == IF found < 0 THEN last ELSE found
      wanted == IF out THEN last ELSE place
      to == IF wanted > from /\ ~out THEN wanted - 1 ELSE wanted
      Shifted(i) == IF i = to THEN e
                    ELSE IF from <= i /\ i < to THEN At(l, i + 1)
                    ELSE IF to < i /\ i <= from THEN At(l, i - 1)
                    ELSE At(l, i)
  IN IF from = last /\ out THEN l
     ELSE [k \in 1..Len(l) |-> Shifted(k - 1)]

Insert(l, e) == UpdateInfoAndPos(l, e, FindChar(l, e), FindPos(l, e))
Reread(l, e) == IF e = Empty THEN l
                ELSE UpdateInfoAndPos(l, e, FindCharAll(l, e), FindPos(l, e))

-----------------------------------------------------------------------------
Init == /\ lists = EmptyLists /\ exp = [c \in Chars |-> 0] /\ again = {}
        /\ ladder = [lists |-> EmptyLists, sum |-> TRUE]
        /\ backup = NoFile /\ saving = "no" /\ up = TRUE
        /\ updates = 0
        /\ kept = EmptyLists /\ begun = EmptyLists

\* dbs_packet_updateladder: a game server reports a character of class k.  Death takes
\* experience away but never a level; a character deleted and made again under its
\* name starts from the first one.  Nothing here tells the two apart.
UpdateLadder(c, k, x) ==
  /\ up /\ saving = "no" /\ updates < MaxUpdates
  /\ exp' = [exp EXCEPT ![c] = x]
  /\ again' = IF exp[c] # 0 /\ Level(x) < Level(exp[c]) THEN again \cup {c} ELSE again
  /\ lists' = [t \in Types |-> IF t \in {"overall", k}
                               THEN Insert(lists[t], [char |-> c, exp |-> x])
                               ELSE lists[t]]
  /\ updates' = updates + 1
  /\ UNCHANGED <<ladder, backup, saving, up, kept, begun>>

\* d2ladder_saveladder, in steps: the file is backed up when its checksum is
\* right, truncated, written list by list, and given its checksum.
SaveBackup ==
  /\ up /\ saving = "no" /\ saving' = "open" /\ begun' = lists
  /\ IF Sound(ladder)
     THEN backup' = ladder /\ ladder' = NoFile
     ELSE UNCHANGED <<backup, ladder>>
  /\ UNCHANGED <<lists, up, exp, again, updates, kept>>

SaveOpen ==
  /\ up /\ saving = "open" /\ saving' = "data"
  /\ ladder' = NoFile
  /\ UNCHANGED <<lists, backup, up, exp, again, updates, kept, begun>>

SaveList(t) ==
  /\ up /\ saving = "data"
  /\ t = TypeOrder[Cardinality(DOMAIN ladder.lists) + 1]
  /\ ladder' = [lists |-> [u \in DOMAIN ladder.lists \union {t} |-> lists[u]],
                sum |-> FALSE]
  /\ saving' = IF DOMAIN ladder'.lists = Types THEN "sum" ELSE "data"
  /\ UNCHANGED <<lists, backup, up, exp, again, updates, kept, begun>>

ChecksumSet ==
  /\ up /\ saving = "sum" /\ saving' = "no"
  /\ ladder' = [ladder EXCEPT !.sum = TRUE]
  /\ kept' = lists
  /\ UNCHANGED <<lists, backup, up, exp, again, updates, begun>>

Crash ==
  /\ up /\ up' = FALSE /\ saving' = "no" /\ lists' = EmptyLists
  /\ UNCHANGED <<ladder, backup, exp, again, updates, kept, begun>>

\* d2ladder_init makes an empty file without a try of the backup.
CheckedNoBackup ==
  IF Sound(ladder) THEN [file |-> ladder, spare |-> backup]
  ELSE [file |-> [lists |-> EmptyLists, sum |-> TRUE], spare |-> NoFile]

\* d2ladder_check: a file with a wrong checksum is replaced by the backup, and
\* an empty one is made when that is no better.
Checked ==
  IF Sound(ladder) THEN [file |-> ladder, spare |-> backup]
  ELSE IF Sound(backup) THEN [file |-> backup, spare |-> NoFile]
  ELSE [file |-> [lists |-> EmptyLists, sum |-> TRUE], spare |-> NoFile]

\* d2ladder_init: the file is checked and read; the save that ends it follows
\* as steps of its own.
Start ==
  /\ ~up /\ up' = TRUE
  /\ ladder' = Checked.file /\ backup' = Checked.spare
  /\ lists' = [t \in Types |->
                 FoldLeft(Reread, EmptyLists[t], Checked.file.lists[t])]
  /\ UNCHANGED <<saving, exp, again, updates, kept, begun>>

-----------------------------------------------------------------------------
(* d2cs *)

\* d2ladder_refresh: what d2cs shows after it reads the file now, without a look
\* at the checksum; a list that is not all there is left out.
Shown(t) == IF t \in DOMAIN ladder.lists THEN ladder.lists[t] ELSE <<>>

\* d2ladder_get_ladder: the part of the list to send, as [from, count].
GetLadder(l, from) ==
  IF Len(l) < ListCount THEN [from |-> 0, count |-> Len(l)]
  ELSE IF from + ListCount > Len(l) THEN [from |-> Len(l) - ListCount, count |-> ListCount]
  ELSE [from |-> from, count |-> ListCount]

\* on_client_charladderreq: a part with the character in the middle.
FindCharacterPos(l, c) == SelectInSeq(l, LAMBDA e : e.char = c) - 1
CharLadder(l, c) ==
  LET start == FindCharacterPos(l, c) - ListCount \div 2
  IN GetLadder(l, IF start < 0 THEN 0 ELSE start)

\* d2cs_send_client_ladder: the packets of an answer.  Sizes are in bytes: an
\* entry, the header of the first packet, that of every packet, and the last
\* four bytes of the first packet, which are cut off.
EntrySize == 28
HeaderSize == 8
InfoSize == 4
PacketsFor(n) == n \div PerPacket + (IF n % PerPacket > 0 THEN 1 ELSE 0)
SendClientLadder(l, w) ==
  LET packets == PacketsFor(w.count)
      InPacket(i) == SubSeq(l, w.from + (i - 1) * PerPacket + 1,
                            w.from + (IF i * PerPacket > w.count THEN w.count
                                      ELSE i * PerPacket))
      Curr(i) == (IF i = 1 THEN HeaderSize - 4 ELSE 0) + InfoSize
                 + Len(InPacket(i)) * EntrySize
      Cont(i) == FoldLeft(LAMBDA s, j : s + Curr(j), 0, [j \in 1..(i - 1) |-> j])
  IN [i \in 1..packets |->
        [entries |-> InPacket(i), curr |-> Curr(i), cont |-> Cont(i),
         total |-> w.count * EntrySize + HeaderSize + InfoSize * packets - 4]]

-----------------------------------------------------------------------------
Next == \/ \E c \in Chars, x \in 1..MaxExp : \E k \in ClassesOf[c] : UpdateLadder(c, k, x)
        \/ SaveBackup \/ SaveOpen \/ ChecksumSet \/ Crash \/ Start
        \/ \E t \in Types : SaveList(t)

Spec == Init /\ [][Next]_vars

-----------------------------------------------------------------------------
(* Properties *)

Entries == [char : Chars, exp : 1..MaxExp] \union {Empty}

\* Every variable keeps to its type.
TypeOK == /\ \A t \in Types : lists[t] \in [1..Length[t] -> Entries]
          /\ \A f \in {ladder, backup} : DOMAIN f.lists \subseteq Types /\ f.sum \in BOOLEAN
          /\ saving \in {"no", "open", "data", "sum"} /\ up \in BOOLEAN
          /\ exp \in [Chars -> 0..MaxExp] /\ again \subseteq Chars /\ updates \in 0..MaxUpdates

Ordered(l) == \A i \in 1..Len(l) : \A j \in 1..Len(l) :
                i < j /\ {l[i].char, l[j].char} \cap again = {} => l[i].exp >= l[j].exp
OnceEach(l) == \A i \in 1..Len(l) : \A j \in 1..Len(l) :
                 i # j /\ l[i] # Empty /\ l[i].char = l[j].char => l[i].char \in again

\* Better characters come first and nobody is listed twice, in the lists of
\* d2dbs and in those d2cs shows, whatever order characters rise, fall, drop
\* out of a full list, come back, and whatever is reread after a crash
\* (find_pos, find_char, update_info_and_pos).  A name reported with a lower level
\* than before, as of a character made again, may stand twice and out of order,
\* since find_char gives up below its old entry; that harms nobody else's place.
StandingsRight == \A t \in Types : \A l \in {lists[t], Shown(t)} :
                    Ordered(l) /\ OnceEach(l)

\* A crash at any point of a save loses no more than the changes since the save
\* before: the lists a start reads are those of the last completed save or of a
\* later one that was begun (d2ladder_saveladder, d2ladder_check).  Who stands in
\* them stands there again, and in the same order, but that a name that stood
\* twice is read into one place.
Others(l) == SelectSeq(l, LAMBDA e : e # Empty /\ e.char \notin again)
Names(l) == {l[i].char : i \in DOMAIN l} \ {Empty.char}
Restarted == Start => \E saved \in {kept, begun} : \A t \in Types :
                        /\ Names(lists'[t]) = Names(saved[t])
                        /\ Others(lists'[t]) = Others(saved[t])
RestartKeeps == [][Restarted]_vars

\* The part of the list a player asks to see around its character has the
\* character in it, its packets put together are that part, and the sizes in
\* them add up (d2ladder_get_ladder, d2cs_send_client_ladder).
AnswerShowsCharacter ==
  \A t \in Types : \A e \in ToSet(Shown(t)) \ {Empty} :
    LET w == CharLadder(Shown(t), e.char)
        packets == SendClientLadder(Shown(t), w)
        all == FoldLeft(LAMBDA s, p : s \o p.entries, <<>>, packets)
        last == packets[Len(packets)]
    IN /\ e \in ToSet(all) /\ Len(all) = w.count
       /\ last.cont + last.curr = last.total

=============================================================================
