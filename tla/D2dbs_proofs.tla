---------------------------- MODULE D2dbs_proofs ----------------------------
(* What TLAPS proves of the character locks of d2dbs: LocksHaveLink however *)
(* connections break, and PlayerHasLock while none does.                   *)
EXTENDS D2dbs, TLAPS

----------------------------------------------------------------------------
(* The two buffers as sequences.                                           *)

\* A handler takes the packet at the head of the read buffer, a write the reply at the
\* head of the write buffer; the others move up by one.
LEMMA TailLemma ==
    ASSUME NEW S, NEW q \in Seq(S), q # <<>>
    PROVE  /\ Len(q) \in Nat \ {0} /\ DOMAIN q = 1..Len(q)
           /\ Head(q) = q[1] /\ Head(q) \in S
           /\ Tail(q) \in Seq(S) /\ Len(Tail(q)) = Len(q) - 1
           /\ DOMAIN Tail(q) = 1..(Len(q) - 1)
           /\ \A i \in 1..(Len(q) - 1) : Tail(q)[i] = q[i+1] /\ i + 1 \in DOMAIN q
PROOF
<1>1. /\ Len(q) \in Nat /\ DOMAIN q = 1..Len(q) /\ Len(q) # 0 /\ \A i \in 1..Len(q) : q[i] \in S
  OBVIOUS
<1>2. Tail(q) \in Seq(S) /\ Len(Tail(q)) = Len(q) - 1
  BY <1>1
<1>3. \A i \in 1..(Len(q) - 1) : Tail(q)[i] = q[i+1]
  BY <1>1, <1>2
<1> QED BY <1>1, <1>2, <1>3

\* What is appended to a buffer comes after what was in it.
LEMMA AppendLemma ==
    ASSUME NEW S, NEW q \in Seq(S), NEW x \in S
    PROVE  /\ Append(q, x) \in Seq(S) /\ Len(Append(q, x)) = Len(q) + 1 /\ Len(q) \in Nat
           /\ DOMAIN q = 1..Len(q)
           /\ DOMAIN Append(q, x) = 1..(Len(q) + 1)
           /\ \A i \in 1..Len(q) : Append(q, x)[i] = q[i]
           /\ Append(q, x)[Len(q) + 1] = x
OBVIOUS

----------------------------------------------------------------------------
(* Type correctness.                                                       *)

\* The locks keep their type under each of the three operations on them.
LEMMA LockTypes ==
    ASSUME NEW locks \in [Char -> Server \cup {Unlocked}], NEW c \in Char, NEW g \in Server
    PROVE  /\ LockChar(locks, c, g) \in [Char -> Server \cup {Unlocked}]
           /\ UnlockChar(locks, c) \in [Char -> Server \cup {Unlocked}]
           /\ UnlockAll(locks, g) \in [Char -> Server \cup {Unlocked}]
BY DEF LockChar, UnlockChar, UnlockAll

\* The packet that a handler reads is one, and what is left is a buffer again.
LEMMA ReadsLemma ==
    ASSUME TypeOK, NEW k \in Link, NEW type, Reads(k, type)
    PROVE  /\ Head(inbox[k]) \in Packet /\ Head(inbox[k]).char \in Char
           /\ Tail(inbox[k]) \in Seq(Packet) /\ Of[k] \in Server
PROOF
<1>1. inbox[k] \in Seq(Packet) /\ inbox[k] # <<>>
  BY DEF TypeOK, Reads
<1>2. Head(inbox[k]) \in Packet /\ Tail(inbox[k]) \in Seq(Packet)
  BY <1>1, TailLemma
<1> QED BY <1>2, LinkAssumption DEF Packet

\* A reply that fits leaves the write buffer no longer than it may be.
LEMMA AnswerLemma ==
    ASSUME TypeOK, NEW k \in Link, NEW c \in Char, HasRoom(k), c = Head(inbox[k]).char,
           NEW result \in {"success", "failed", "charlocked", "saved"}, Answer(k, result)
    PROVE  /\ outbox' \in [Link -> Seq(Reply)]
           /\ \A j \in Link : Len(outbox'[j]) <= Replies
           /\ \A j \in Link \ {k} : outbox'[j] = outbox[j]
           /\ outbox'[k] = Append(outbox[k], [result |-> result, char |-> c])
PROOF
<1>1. [result |-> result, char |-> c] \in Reply
  BY DEF Reply
<1>2. outbox[k] \in Seq(Reply)
  BY DEF TypeOK
<1>3. /\ Append(outbox[k], [result |-> result, char |-> c]) \in Seq(Reply)
      /\ Len(Append(outbox[k], [result |-> result, char |-> c])) = Len(outbox[k]) + 1
      /\ Len(outbox[k]) \in Nat
  BY <1>1, <1>2, AppendLemma
<1>4. Len(outbox[k]) + 1 <= Replies
  BY <1>3, BoundAssumption DEF HasRoom
<1> QED BY <1>3, <1>4 DEF TypeOK, Answer

\* Nothing but a reply of a handler makes a write buffer longer.
LEMMA TypeStep == TypeOK /\ [Next]_vars => TypeOK'
PROOF
<1> SUFFICES ASSUME TypeOK, [Next]_vars PROVE TypeOK'
  OBVIOUS
<1>0. \A k \in Link : Of[k] \in Server
  BY LinkAssumption
<1>1. ASSUME NEW k \in Link, Accept(k) PROVE TypeOK'
  BY <1>1 DEF TypeOK, Accept
<1>2. ASSUME NEW k \in Link, Verify(k) PROVE TypeOK'
  <2>1. lock' \in [Char -> Server \cup {Unlocked}]
    BY <1>2, <1>0 DEF TypeOK, Verify, UnlockAll
  <2>2. Len(<<>>) <= Replies
    BY BoundAssumption
  <2> QED BY <1>2, <2>1, <2>2 DEF TypeOK, Verify
<1>3. ASSUME NEW k \in Link, Lose(k) PROVE TypeOK'
  <2>1. lock' \in [Char -> Server \cup {Unlocked}]
    BY <1>3, <1>0 DEF TypeOK, Lose, Shutdown, UnlockAll
  <2>2. Len(<<>>) <= Replies
    BY BoundAssumption
  <2> QED BY <1>3, <2>1, <2>2 DEF TypeOK, Lose, Shutdown, Closed
<1>4. ASSUME NEW k \in Link, GetData(k) PROVE TypeOK'
  <2>1. /\ Head(inbox[k]).char \in Char
        /\ Tail(inbox[k]) \in Seq(Packet)
    BY <1>4, ReadsLemma DEF GetData
  <2>2. lock' \in [Char -> Server \cup {Unlocked}]
    BY <1>4, <1>0, <2>1 DEF TypeOK, GetData, LockChar
  <2>3. inbox' \in [Link -> Seq(Packet)]
    BY <1>4, <2>1 DEF TypeOK, GetData, Done
  <2>4. outbox' \in [Link -> Seq(Reply)] /\ \A j \in Link : Len(outbox'[j]) <= Replies
    BY <1>4, <2>1, AnswerLemma DEF TypeOK, GetData
  <2> QED BY <1>4, <2>2, <2>3, <2>4 DEF TypeOK, GetData
<1>5. ASSUME NEW k \in Link, SaveData(k) PROVE TypeOK'
  <2>1. /\ Head(inbox[k]).char \in Char
        /\ Tail(inbox[k]) \in Seq(Packet)
    BY <1>5, ReadsLemma DEF SaveData
  <2>2. inbox' \in [Link -> Seq(Packet)]
    BY <1>5, <2>1 DEF TypeOK, SaveData, Done
  <2>3. outbox' \in [Link -> Seq(Reply)] /\ \A j \in Link : Len(outbox'[j]) <= Replies
    BY <1>5, <2>1, AnswerLemma DEF TypeOK, SaveData
  <2> QED BY <1>5, <2>2, <2>3 DEF TypeOK, SaveData
<1>6. ASSUME NEW k \in Link, CharLock(k) PROVE TypeOK'
  <2>1. /\ Head(inbox[k]).char \in Char
        /\ Tail(inbox[k]) \in Seq(Packet)
    BY <1>6, ReadsLemma DEF CharLock
  <2>2. lock' \in [Char -> Server \cup {Unlocked}]
    BY <1>6, <1>0, <2>1 DEF TypeOK, CharLock, LockChar, UnlockChar
  <2>3. inbox' \in [Link -> Seq(Packet)]
    BY <1>6, <2>1 DEF TypeOK, CharLock, Done
  <2> QED BY <1>6, <2>2, <2>3 DEF TypeOK, CharLock
<1>7. ASSUME NEW k \in Link, BadPacket(k) PROVE TypeOK'
  BY <1>7 DEF TypeOK, BadPacket
<1>8. ASSUME NEW k \in Link, Write(k) PROVE TypeOK'
  <2>1. outbox[k] \in Seq(Reply) /\ outbox[k] # <<>>
    BY <1>8 DEF TypeOK, Write
  <2>2. /\ Head(outbox[k]) \in Reply /\ Tail(outbox[k]) \in Seq(Reply)
        /\ Len(Tail(outbox[k])) = Len(outbox[k]) - 1 /\ Len(outbox[k]) \in Nat
    BY <2>1, TailLemma
  <2>3. Len(Tail(outbox[k])) <= Replies
    BY <2>2, BoundAssumption DEF TypeOK
  <2>4. plays' \in [Server -> SUBSET Char]
    BY <1>8, <1>0, <2>2 DEF TypeOK, Write, Reply
  <2> QED BY <1>8, <2>2, <2>3, <2>4 DEF TypeOK, Write
<1>9. ASSUME NEW k \in Link, NEW c \in Char, Ask(k, c) PROVE TypeOK'
  <2>1. [type |-> "get", char |-> c] \in Packet
    BY DEF Packet
  <2>2. inbox[k] \o <<[type |-> "get", char |-> c]>> \in Seq(Packet)
    BY <2>1 DEF TypeOK
  <2> QED BY <1>9, <2>2 DEF TypeOK, Ask, Sent
<1>10. ASSUME NEW k \in Link, NEW c \in Char, Release(k, c) PROVE TypeOK'
  <2>1. [type |-> "save", char |-> c] \in Packet /\ [type |-> "unlock", char |-> c] \in Packet
    BY DEF Packet
  <2>2. inbox[k] \o <<[type |-> "save", char |-> c], [type |-> "unlock", char |-> c]>> \in Seq(Packet)
    BY <2>1 DEF TypeOK
  <2> QED BY <1>10, <1>0, <2>2 DEF TypeOK, Release, Sent
<1>11. ASSUME NEW k \in Link, NEW c \in Char, Relock(k, c) PROVE TypeOK'
  <2>1. [type |-> "lock", char |-> c] \in Packet
    BY DEF Packet
  <2>2. inbox[k] \o <<[type |-> "lock", char |-> c]>> \in Seq(Packet)
    BY <2>1 DEF TypeOK
  <2> QED BY <1>11, <2>2 DEF TypeOK, Relock, Sent
<1>12. ASSUME NEW k \in Link, NEW c \in Char, SendBad(k, c) PROVE TypeOK'
  <2>1. [type |-> "bad", char |-> c] \in Packet
    BY DEF Packet
  <2>2. inbox[k] \o <<[type |-> "bad", char |-> c]>> \in Seq(Packet)
    BY <2>1 DEF TypeOK
  <2> QED BY <1>12, <2>2 DEF TypeOK, SendBad, Sent
<1>13. CASE UNCHANGED vars
  BY <1>13 DEF TypeOK, vars
<1> QED
  BY <1>1, <1>2, <1>3, <1>4, <1>5, <1>6, <1>7, <1>8, <1>9, <1>10, <1>11, <1>12, <1>13
  DEF Next, Handle

\* Every variable keeps its type, and no write buffer holds more than it has room for.
THEOREM TypeCorrect == Spec => []TypeOK
PROOF
<1>1. Init => TypeOK
  <2>1. Len(<<>>) <= Replies
    BY BoundAssumption
  <2> QED BY <2>1 DEF Init, TypeOK
<1>2. TypeOK /\ [Next]_vars => TypeOK'
  BY TypeStep
<1> QED BY <1>1, <1>2, PTL DEF Spec

----------------------------------------------------------------------------
(* LocksHaveLink. TypeOK is all that it needs besides itself.              *)

LInv == TypeOK /\ LocksHaveLink

\* Freeing the locks of one server leaves those it does not free as they were, and none
\* of that server.
LEMMA UnlockAllLemma ==
    ASSUME NEW locks \in [Char -> Server \cup {Unlocked}], NEW g \in Server, NEW c \in Char,
           UnlockAll(locks, g)[c] # Unlocked
    PROVE  UnlockAll(locks, g)[c] = locks[c] /\ locks[c] \in Server \ {g}
BY DEF UnlockAll

\* A link that is not verified on a link that goes down, or a link that is verified
\* alone among those of its server, keeps a link for every lock.
LEMMA LinkStep == LInv /\ [Next]_vars => LocksHaveLink'
PROOF
<1> SUFFICES ASSUME TypeOK, LocksHaveLink, [Next]_vars PROVE LocksHaveLink'
  BY DEF LInv
<1>0. \A k \in Link : Of[k] \in Server
  BY LinkAssumption
<1>1. ASSUME lock' = lock, \A j \in Link : Verified(j)' <=> Verified(j)
      PROVE  LocksHaveLink'
  BY <1>1 DEF LocksHaveLink
<1>2. ASSUME NEW k \in Link, Accept(k) PROVE LocksHaveLink'
  <2>1. \A j \in Link : Verified(j)' <=> Verified(j)
    BY <1>2 DEF TypeOK, Accept, Verified
  <2> QED BY <2>1, <1>1, <1>2 DEF Accept
<1>3. ASSUME NEW k \in Link, Verify(k) PROVE LocksHaveLink'
  <2>1. /\ ~Verified(k) /\ Verified(k)'
        /\ \A j \in Link \ {k} : Verified(j)' <=> Verified(j) /\ Of[j] # Of[k]
    BY <1>3 DEF TypeOK, Verify, Verified
  <2>2. ASSUME NEW i \in Link, NEW j \in Link, Of[i] = Of[j], Verified(i)', Verified(j)'
        PROVE  i = j
    BY <2>1, <2>2 DEF LocksHaveLink
  <2>3. ASSUME NEW c \in Char, lock'[c] # Unlocked
        PROVE  \E j \in Link : Of[j] = lock'[c] /\ Verified(j)'
    <3>1. CASE \E j \in Link \ {k} : Of[j] = Of[k] /\ Verified(j)
      <4>1. lock' = UnlockAll(lock, Of[k])
        BY <3>1, <1>3 DEF Verify
      <4>2. lock'[c] = lock[c] /\ lock[c] \in Server \ {Of[k]}
        BY <4>1, <2>3, <1>0, UnlockAllLemma DEF TypeOK
      <4>3. PICK j \in Link : Of[j] = lock[c] /\ Verified(j)
        BY <4>2, <2>3 DEF LocksHaveLink
      <4> QED BY <4>2, <4>3, <2>1
    <3>2. CASE ~\E j \in Link \ {k} : Of[j] = Of[k] /\ Verified(j)
      <4>1. lock' = lock
        BY <3>2, <1>3 DEF Verify
      <4>2. PICK j \in Link : Of[j] = lock[c] /\ Verified(j)
        BY <4>1, <2>3 DEF LocksHaveLink
      <4> QED BY <4>1, <4>2, <2>1, <3>2
    <3> QED BY <3>1, <3>2
  <2> QED BY <2>2, <2>3 DEF LocksHaveLink
<1>4. ASSUME NEW k \in Link, Lose(k) PROVE LocksHaveLink'
  <2>1. /\ ~Verified(k)'
        /\ \A j \in Link \ {k} : Verified(j)' <=> Verified(j)
        /\ lock' = IF Verified(k) THEN UnlockAll(lock, Of[k]) ELSE lock
    BY <1>4 DEF TypeOK, Lose, Shutdown, Closed, Verified
  <2>2. ASSUME NEW i \in Link, NEW j \in Link, Of[i] = Of[j], Verified(i)', Verified(j)'
        PROVE  i = j
    BY <2>1, <2>2 DEF LocksHaveLink
  <2>3. ASSUME NEW c \in Char, lock'[c] # Unlocked
        PROVE  \E j \in Link : Of[j] = lock'[c] /\ Verified(j)'
    <3>1. lock'[c] = lock[c] /\ (Verified(k) => lock[c] # Of[k])
      <4>1. CASE Verified(k)
        BY <4>1, <2>1, <2>3, <1>0, UnlockAllLemma DEF TypeOK
      <4>2. CASE ~Verified(k)
        BY <4>2, <2>1
      <4> QED BY <4>1, <4>2
    <3>2. PICK j \in Link : Of[j] = lock[c] /\ Verified(j)
      BY <3>1, <2>3 DEF LocksHaveLink
    <3> QED BY <3>1, <3>2, <2>1
  <2> QED BY <2>2, <2>3 DEF LocksHaveLink
<1>5. ASSUME NEW k \in Link, NEW c \in Char, link' = link, Verified(k),
             lock' = LockChar(lock, c, Of[k]) \/ lock' = UnlockChar(lock, c)
      PROVE  LocksHaveLink'
  <2>1. \A j \in Link : Verified(j)' <=> Verified(j)
    BY <1>5 DEF Verified
  <2>2. \A d \in Char : lock'[d] # Unlocked => lock'[d] \in {lock[d], Of[k]}
    BY <1>5 DEF TypeOK, LockChar, UnlockChar
  <2> QED BY <2>1, <2>2, <1>5 DEF LocksHaveLink
<1>6. ASSUME NEW k \in Link, Handle(k) PROVE LocksHaveLink'
  <2>1. CASE GetData(k)
    <3>1. Head(inbox[k]).char \in Char /\ Verified(k) /\ link' = link
      BY <2>1, ReadsLemma DEF GetData, Reads, Verified
    <3>2. lock' = LockChar(lock, Head(inbox[k]).char, Of[k]) \/ lock' = lock
      BY <2>1 DEF GetData
    <3>3. \A j \in Link : Verified(j)' <=> Verified(j)
      BY <3>1 DEF Verified
    <3> QED BY <3>1, <3>2, <3>3, <1>1, <1>5
  <2>2. CASE SaveData(k)
    BY <2>2, <1>1 DEF SaveData, Verified
  <2>3. CASE CharLock(k)
    <3>1. Head(inbox[k]).char \in Char /\ Verified(k) /\ link' = link
      BY <2>3, ReadsLemma DEF CharLock, Reads, Verified
    <3> QED BY <3>1, <2>3, <1>5 DEF CharLock
  <2>4. CASE BadPacket(k)
    <3>1. \A j \in Link : Verified(j)' <=> Verified(j)
      BY <2>4 DEF TypeOK, BadPacket, Reads, Verified
    <3> QED BY <3>1, <2>4, <1>1 DEF BadPacket
  <2> QED BY <1>6, <2>1, <2>2, <2>3, <2>4 DEF Handle
<1>7. ASSUME NEW k \in Link, Write(k) PROVE LocksHaveLink'
  BY <1>7, <1>1 DEF Write, Verified
<1>8. ASSUME NEW k \in Link, NEW c \in Char,
             Ask(k, c) \/ Release(k, c) \/ Relock(k, c) \/ SendBad(k, c)
      PROVE  LocksHaveLink'
  <2>1. lock' = lock /\ link' = link
    BY <1>8 DEF Ask, Release, Relock, SendBad
  <2> QED BY <2>1, <1>1 DEF Verified
<1>9. CASE UNCHANGED vars
  BY <1>9, <1>1 DEF vars, Verified
<1> QED
  BY <1>2, <1>3, <1>4, <1>6, <1>7, <1>8, <1>9 DEF Next

\* However connections break and come back, no server is verified twice, and a lock always
\* belongs to a server that is connected: nothing can stay locked by one that is gone.
THEOREM NoOrphanLock == Spec => []LocksHaveLink
PROOF
<1>1. Init => LInv
  <2>1. Init => TypeOK
    <3>1. Len(<<>>) <= Replies
      BY BoundAssumption
    <3> QED BY <3>1 DEF Init, TypeOK
  <2>2. Init => LocksHaveLink
    BY DEF Init, LocksHaveLink, Verified
  <2> QED BY <2>1, <2>2 DEF LInv
<1>2. LInv /\ [Next]_vars => LInv'
  BY TypeStep, LinkStep DEF LInv
<1>3. LInv => LocksHaveLink
  BY DEF LInv
<1> QED BY <1>1, <1>2, <1>3, PTL DEF Spec

----------------------------------------------------------------------------
(* PlayerHasLock, while no connection breaks. What makes it inductive is   *)
(* the order of what a server says of a character: between a lock and the  *)
(* unlock that ends it nothing else touches the lock.                      *)

\* The i-th packet of a read buffer is of that type and about that character.
Queued(k, i, type, c) ==
    i \in DOMAIN inbox[k] /\ inbox[k][i].type = type /\ inbox[k][i].char = c

\* The i-th reply of a write buffer sends that character.
Owed(k, i, c) ==
    i \in DOMAIN outbox[k] /\ outbox[k][i].result = "success" /\ outbox[k][i].char = c

\* Only a verified connection has something in its buffers.
Quiet == \A k \in Link : ~Verified(k) => inbox[k] = <<>> /\ outbox[k] = <<>>

\* A server that plays a character, or is sent it, has its lock.
OwnerHasLock ==
    \A c \in Char :
        /\ \A g \in Server : c \in plays[g] => lock[c] = g
        /\ \A k \in Link : \A i \in Nat : Owed(k, i, c) => lock[c] = Of[k]

\* A server that has said unlock has the lock still, does not play the character, and is
\* not sent it before that.
UnlockIsOwn ==
    \A k \in Link : \A c \in Char : \A i \in Nat : Queued(k, i, "unlock", c) =>
        lock[c] = Of[k] /\ c \notin plays[Of[k]] /\ \A j \in Nat : ~Owed(k, j, c)

UnlockOnce ==
    \A k \in Link : \A c \in Char : \A i, j \in Nat :
        Queued(k, i, "unlock", c) /\ Queued(k, j, "unlock", c) => i = j

\* A server says lock only of what it has, and never behind an unlock.
LockIsOwn ==
    \A k \in Link : \A c \in Char : \A i \in Nat : Queued(k, i, "lock", c) => lock[c] = Of[k]

LockBeforeUnlock ==
    \A k \in Link : \A c \in Char : \A i, j \in Nat :
        Queued(k, i, "lock", c) /\ Queued(k, j, "unlock", c) => i < j

\* A character is sent once, and not to a server that plays it.
SentOnce ==
    \A k \in Link : \A c \in Char : \A i \in Nat : Owed(k, i, c) =>
        c \notin plays[Of[k]] /\ \A j \in Nat : Owed(k, j, c) => j = i

Locking == OwnerHasLock /\ UnlockIsOwn /\ UnlockOnce /\ LockIsOwn /\ LockBeforeUnlock /\ SentOnce

PInv == LInv /\ Quiet /\ Locking

\* After a handler each packet of the buffer stands one place nearer to the head.
LEMMA PopLemma ==
    ASSUME TypeOK, NEW k \in Link, NEW type, Reads(k, type), Done(k),
           NEW j \in Link, NEW i \in Nat, NEW t, NEW c, Queued(j, i, t, c)'
    PROVE  IF j = k THEN i + 1 \in Nat \ {0, 1} /\ Queued(j, i + 1, t, c) ELSE Queued(j, i, t, c)
PROOF
<1>1. CASE j = k
  <2>1. inbox[k] \in Seq(Packet) /\ inbox[k] # <<>> /\ inbox'[k] = Tail(inbox[k])
    BY DEF TypeOK, Reads, Done
  <2>2. i \in 1..(Len(inbox[k]) - 1) /\ Len(inbox[k]) \in Nat
    BY <1>1, <2>1, TailLemma DEF Queued
  <2>3. inbox'[k][i] = inbox[k][i+1] /\ i + 1 \in DOMAIN inbox[k]
    BY <2>1, <2>2, TailLemma
  <2> QED BY <1>1, <2>2, <2>3 DEF Queued
<1>2. CASE j # k
  BY <1>2 DEF TypeOK, Done, Queued
<1> QED BY <1>1, <1>2

\* The same of a write buffer and the reply that is written.
LEMMA WriteLemma ==
    ASSUME TypeOK, NEW k \in Link, Write(k),
           NEW j \in Link, NEW i \in Nat, NEW c, Owed(j, i, c)'
    PROVE  IF j = k THEN i + 1 \in Nat \ {0, 1} /\ Owed(j, i + 1, c) ELSE Owed(j, i, c)
PROOF
<1>1. CASE j = k
  <2>1. outbox[k] \in Seq(Reply) /\ outbox[k] # <<>> /\ outbox'[k] = Tail(outbox[k])
    BY DEF TypeOK, Write
  <2>2. i \in 1..(Len(outbox[k]) - 1) /\ Len(outbox[k]) \in Nat
    BY <1>1, <2>1, TailLemma DEF Owed
  <2>3. outbox'[k][i] = outbox[k][i+1] /\ i + 1 \in DOMAIN outbox[k]
    BY <2>1, <2>2, TailLemma
  <2> QED BY <1>1, <2>2, <2>3 DEF Owed
<1>2. CASE j # k
  BY <1>2 DEF TypeOK, Write, Owed
<1> QED BY <1>1, <1>2

\* Every packet that waits is at a place of the buffer.
LEMMA QueuedLemma ==
    ASSUME TypeOK, NEW k \in Link, NEW i, NEW t, NEW c, Queued(k, i, t, c)
    PROVE  Len(inbox[k]) \in Nat /\ i \in 1..Len(inbox[k])
BY DEF TypeOK, Queued

\* A packet that a server sends goes behind what waits.
LEMMA SentLemma ==
    ASSUME TypeOK, NEW k \in Link, NEW p \in Packet, Sent(k, <<p>>),
           NEW j \in Link, NEW i \in Nat, NEW t, NEW c, Queued(j, i, t, c)'
    PROVE  \/ Queued(j, i, t, c)
           \/ j = k /\ i = Len(inbox[k]) + 1 /\ t = p.type /\ c = p.char
PROOF
<1>1. CASE j = k
  <2>1. inbox[k] \in Seq(Packet) /\ inbox'[k] = Append(inbox[k], p)
    BY DEF TypeOK, Sent
  <2> QED BY <1>1, <2>1, AppendLemma DEF Queued
<1>2. CASE j # k
  BY <1>2 DEF TypeOK, Sent, Queued
<1> QED BY <1>1, <1>2

\* A reply goes behind the replies that wait.
LEMMA AnsweredLemma ==
    ASSUME TypeOK, NEW k \in Link, NEW r \in Reply, outbox' = [outbox EXCEPT ![k] = Append(@, r)],
           NEW j \in Link, NEW i \in Nat, NEW c
    PROVE  Owed(j, i, c)' <=>
              \/ Owed(j, i, c)
              \/ j = k /\ i = Len(outbox[k]) + 1 /\ r.result = "success" /\ c = r.char
PROOF
<1>1. CASE j = k
  <2> DEFINE q == outbox[k]
             n == Len(q)
  <2>1. q \in Seq(Reply) /\ outbox'[k] = Append(q, r)
    BY DEF TypeOK
  <2>2. /\ n \in Nat /\ DOMAIN q = 1..n /\ DOMAIN Append(q, r) = 1..(n + 1)
        /\ \A m \in 1..n : Append(q, r)[m] = q[m]
        /\ Append(q, r)[n + 1] = r
    BY <2>1, AppendLemma
  <2>3. CASE i \in 1..n
    BY <2>3, <1>1, <2>1, <2>2 DEF Owed
  <2>4. CASE i = n + 1
    BY <2>4, <1>1, <2>1, <2>2 DEF Owed
  <2>5. CASE i \notin 1..(n + 1)
    BY <2>5, <1>1, <2>1, <2>2 DEF Owed
  <2> QED BY <2>2, <2>3, <2>4, <2>5
<1>2. CASE j # k
  BY <1>2 DEF TypeOK, Owed
<1> QED BY <1>1, <1>2

\* A step that only takes packets from a head and adds none about locks disturbs nothing.
LEMMA FrameLemma ==
    ASSUME Locking, lock' = lock, plays' = plays, NEW d \in [Link -> {0, 1}],
           \A j \in Link : \A i \in Nat : \A c \in Char : \A t \in {"lock", "unlock"} :
               Queued(j, i, t, c)' => Queued(j, i + d[j], t, c),
           \A j \in Link : \A i \in Nat : \A c \in Char : Owed(j, i, c)' => Owed(j, i, c)
    PROVE  Locking'
PROOF
<1>0. \A j \in Link : \A i \in Nat : i + d[j] \in Nat
  OBVIOUS
<1>1. OwnerHasLock'
  BY DEF Locking, OwnerHasLock
<1>2. UnlockIsOwn'
  BY <1>0 DEF Locking, UnlockIsOwn
<1>3. UnlockOnce'
  BY <1>0 DEF Locking, UnlockOnce
<1>4. LockIsOwn'
  BY <1>0 DEF Locking, LockIsOwn
<1>5. LockBeforeUnlock'
  BY <1>0 DEF Locking, LockBeforeUnlock
<1>6. SentOnce'
  BY DEF Locking, SentOnce
<1> QED BY <1>1, <1>2, <1>3, <1>4, <1>5, <1>6 DEF Locking

\* Buffers of a connection that goes down are emptied, and only a verified one is given
\* packets and replies.
LEMMA QuietStep == LInv /\ Quiet /\ [Next]_vars => Quiet'
PROOF
<1> SUFFICES ASSUME TypeOK, Quiet, [Next]_vars PROVE Quiet'
  BY DEF LInv
<1>1. ASSUME NEW k \in Link, Verified(k) => Verified(k)', \A j \in Link \ {k} : Verified(j)' <=> Verified(j),
             inbox' = inbox \/ (Verified(k) /\ \A j \in Link \ {k} : inbox'[j] = inbox[j]),
             outbox' = outbox \/ (Verified(k) /\ \A j \in Link \ {k} : outbox'[j] = outbox[j])
      PROVE  Quiet'
  BY <1>1 DEF Quiet
<1>2. ASSUME NEW k \in Link, Accept(k) PROVE Quiet'
  BY <1>2 DEF Quiet, TypeOK, Accept, Verified
<1>3. ASSUME NEW k \in Link, Verify(k) PROVE Quiet'
  BY <1>3 DEF Quiet, TypeOK, Verify, Verified
<1>4. ASSUME NEW k \in Link, Lose(k) PROVE Quiet'
  BY <1>4 DEF Quiet, TypeOK, Lose, Shutdown, Closed, Verified
<1>5. ASSUME NEW k \in Link, Handle(k) PROVE Quiet'
  <2>1. Verified(k) /\ Verified(k)' /\ \A j \in Link \ {k} : Verified(j)' <=> Verified(j)
    BY <1>5 DEF TypeOK, Handle, GetData, SaveData, CharLock, BadPacket, Reads, Verified
  <2>2. inbox' = inbox \/ \A j \in Link \ {k} : inbox'[j] = inbox[j]
    BY <1>5 DEF TypeOK, Handle, GetData, SaveData, CharLock, BadPacket, Done
  <2>3. outbox' = outbox \/ \A j \in Link \ {k} : outbox'[j] = outbox[j]
    BY <1>5 DEF TypeOK, Handle, GetData, SaveData, CharLock, BadPacket, Answer
  <2> QED BY <2>1, <2>2, <2>3, <1>1
<1>6. ASSUME NEW k \in Link, Write(k) PROVE Quiet'
  BY <1>6 DEF Quiet, TypeOK, Write, Verified
<1>7. ASSUME NEW k \in Link, NEW c \in Char,
             Ask(k, c) \/ Release(k, c) \/ Relock(k, c) \/ SendBad(k, c)
      PROVE  Quiet'
  <2>1. Verified(k) /\ link' = link /\ outbox' = outbox
    BY <1>7 DEF Ask, Release, Relock, SendBad, CanSend
  <2>2. \A j \in Link \ {k} : inbox'[j] = inbox[j]
    BY <1>7 DEF TypeOK, Ask, Release, Relock, SendBad, Sent
  <2> QED BY <2>1, <2>2, <1>1 DEF Verified
<1>8. CASE UNCHANGED vars
  BY <1>8 DEF Quiet, vars, Verified
<1> QED
  BY <1>2, <1>3, <1>4, <1>5, <1>6, <1>7, <1>8 DEF Next

\* Of the connections of one server only one has anything in its buffers.
LEMMA SoleLemma ==
    ASSUME LInv, Quiet, NEW j \in Link, NEW k \in Link, Of[j] = Of[k],
           inbox[j] # <<>> \/ outbox[j] # <<>>, inbox[k] # <<>> \/ outbox[k] # <<>>
    PROVE  j = k
BY DEF LInv, Quiet, LocksHaveLink

\* What waits makes a buffer nonempty.
LEMMA WaitsLemma ==
    ASSUME TypeOK, NEW k \in Link, NEW i, NEW t, NEW c
    PROVE  /\ Queued(k, i, t, c) => inbox[k] # <<>>
           /\ Owed(k, i, c) => outbox[k] # <<>>
BY DEF TypeOK, Queued, Owed

\* The reply that waits at a place of the buffer is the one PlayerHasLock speaks of.
LEMMA PInvImplies == PInv => PlayerHasLock
PROOF
<1> SUFFICES ASSUME TypeOK, OwnerHasLock, NEW k \in Link, NEW c \in Char,
                    \/ c \in plays[Of[k]]
                    \/ [result |-> "success", char |-> c] \in {outbox[k][i] : i \in DOMAIN outbox[k]}
             PROVE  lock[c] = Of[k]
  BY DEF PInv, LInv, Locking, PlayerHasLock
<1>1. CASE c \in plays[Of[k]]
  BY <1>1, LinkAssumption DEF OwnerHasLock
<1>2. CASE [result |-> "success", char |-> c] \in {outbox[k][i] : i \in DOMAIN outbox[k]}
  <2>1. PICK i \in DOMAIN outbox[k] : outbox[k][i] = [result |-> "success", char |-> c]
    BY <1>2
  <2>2. i \in Nat /\ Owed(k, i, c)
    BY <2>1 DEF Owed, TypeOK
  <2> QED BY <2>2 DEF OwnerHasLock
<1> QED BY <1>1, <1>2

\* A request that is granted: nobody has the lock, so no packet and no reply is about it.
LEMMA GrantStep ==
    ASSUME PInv, NEW k \in Link, NEW c \in Char, lock[c] = Unlocked,
           lock' = LockChar(lock, c, Of[k]), plays' = plays, NEW d \in [Link -> {0, 1}],
           \A j \in Link : \A i \in Nat : \A e \in Char : \A t \in {"lock", "unlock"} :
               Queued(j, i, t, e)' => Queued(j, i + d[j], t, e),
           NEW n, \A j \in Link : \A i \in Nat : \A e \in Char :
               Owed(j, i, e)' => Owed(j, i, e) \/ (j = k /\ i = n /\ e = c)
    PROVE  Locking'
PROOF
<1>0. /\ \A j \in Link : \A i \in Nat : i + d[j] \in Nat
      /\ \A j \in Link : Of[j] \in Server /\ Of[j] # lock[c]
  BY LinkAssumption, CharAssumption
<1>1. lock'[c] = Of[k] /\ \A e \in Char \ {c} : lock'[e] = lock[e]
  BY DEF LockChar, PInv, LInv, TypeOK
<1>2. /\ \A g \in Server : c \notin plays[g]
      /\ \A j \in Link : \A i \in Nat : /\ c \notin plays[Of[j]] /\ ~Owed(j, i, c)
                                        /\ ~Queued(j, i, "lock", c) /\ ~Queued(j, i, "unlock", c)
  <2>1. \A g \in Server : c \notin plays[g]
    BY CharAssumption DEF PInv, Locking, OwnerHasLock
  <2> QED BY <2>1, <1>0 DEF PInv, Locking, OwnerHasLock, UnlockIsOwn, LockIsOwn
<1>3. OwnerHasLock'
  BY <1>1, <1>2 DEF PInv, Locking, OwnerHasLock
<1>4. UnlockIsOwn'
  <2>1. SUFFICES ASSUME NEW j \in Link, NEW e \in Char, NEW i \in Nat, Queued(j, i, "unlock", e)'
                 PROVE  lock'[e] = Of[j] /\ e \notin plays[Of[j]] /\ \A m \in Nat : ~Owed(j, m, e)'
    BY DEF UnlockIsOwn
  <2>2. Queued(j, i + d[j], "unlock", e) /\ e # c
    BY <2>1, <1>0, <1>2
  <2> QED BY <2>2, <1>0, <1>1 DEF PInv, Locking, UnlockIsOwn
<1>5. UnlockOnce'
  BY <1>0 DEF PInv, Locking, UnlockOnce
<1>6. LockIsOwn'
  <2>1. SUFFICES ASSUME NEW j \in Link, NEW e \in Char, NEW i \in Nat, Queued(j, i, "lock", e)'
                 PROVE  lock'[e] = Of[j]
    BY DEF LockIsOwn
  <2>2. Queued(j, i + d[j], "lock", e) /\ e # c
    BY <2>1, <1>0, <1>2
  <2> QED BY <2>2, <1>0, <1>1 DEF PInv, Locking, LockIsOwn
<1>7. LockBeforeUnlock'
  BY <1>0 DEF PInv, Locking, LockBeforeUnlock
<1>8. SentOnce'
  <2>1. SUFFICES ASSUME NEW j \in Link, NEW e \in Char, NEW i \in Nat, Owed(j, i, e)'
                 PROVE  e \notin plays[Of[j]] /\ \A m \in Nat : Owed(j, m, e)' => m = i
    BY DEF SentOnce
  <2>2. CASE Owed(j, i, e)
    <3>1. e # c
      BY <2>2, <1>2
    <3> QED BY <3>1, <2>2 DEF PInv, Locking, SentOnce
  <2>3. CASE j = k /\ i = n /\ e = c
    BY <2>3, <1>2
  <2> QED BY <2>1, <2>2, <2>3
<1> QED BY <1>3, <1>4, <1>5, <1>6, <1>7, <1>8 DEF Locking

\* An unlock that is handled: it was the only packet about a lock of that character.
LEMMA UnlockStep ==
    ASSUME PInv, NEW k \in Link, Reads(k, "unlock"), Done(k), outbox' = outbox, plays' = plays,
           NEW c \in Char, c = Head(inbox[k]).char, lock' = UnlockChar(lock, c)
    PROVE  Locking'
PROOF
<1>0. TypeOK /\ inbox[k] # <<>>
  BY DEF PInv, LInv, Reads
<1>1. lock'[c] = Unlocked /\ \A e \in Char \ {c} : lock'[e] = lock[e]
  BY <1>0 DEF UnlockChar, TypeOK
<1>2. Queued(k, 1, "unlock", c)
  <2>1. inbox[k] \in Seq(Packet) /\ inbox[k] # <<>>
    BY <1>0 DEF TypeOK
  <2>2. Head(inbox[k]) = inbox[k][1] /\ 1 \in DOMAIN inbox[k]
    BY <2>1, TailLemma
  <2> QED BY <2>2 DEF Queued, Reads
<1>3. \A j \in Link : \A i \in Nat, t \in {"lock", "unlock"}, e \in Char :
         Queued(j, i, t, e)' => IF j = k THEN i + 1 \in Nat \ {0, 1} /\ Queued(j, i + 1, t, e)
                                ELSE Queued(j, i, t, e)
  BY <1>0, PopLemma
<1>4. \A j \in Link : \A i \in Nat, e \in Char : Owed(j, i, e)' <=> Owed(j, i, e)
  BY DEF Owed
<1>5. lock[c] = Of[k] /\ c \notin plays[Of[k]] /\ \A i \in Nat : ~Owed(k, i, c)
  BY <1>0, <1>2 DEF PInv, Locking, UnlockIsOwn
<1>6. ASSUME NEW j \in Link, Of[j] = Of[k], inbox[j] # <<>> \/ outbox[j] # <<>> PROVE j = k
  BY <1>0, <1>6, SoleLemma DEF PInv
<1>7. \A j \in Link : Of[j] = Of[k] =>
         /\ c \notin plays[Of[j]]
         /\ \A i \in Nat : ~Owed(j, i, c) /\ ~Queued(j, i, "lock", c)' /\ ~Queued(j, i, "unlock", c)'
  <2>1. SUFFICES ASSUME NEW j \in Link, Of[j] = Of[k], NEW i \in Nat,
                        Owed(j, i, c) \/ Queued(j, i, "lock", c)' \/ Queued(j, i, "unlock", c)'
                 PROVE  FALSE
    BY <1>5
  <2>2. j = k
    <3>1. ASSUME j # k PROVE inbox[j] # <<>> \/ outbox[j] # <<>>
      BY <3>1, <2>1, <1>0, <1>3, WaitsLemma
    <3> QED BY <3>1, <2>1, <1>6
  <2>3. CASE Owed(j, i, c)
    BY <2>2, <2>3, <1>5
  <2>4. CASE Queued(j, i, "lock", c)'
    <3>1. i + 1 \in Nat /\ Queued(k, i + 1, "lock", c)
      BY <2>2, <2>4, <1>0, <1>3
    <3>2. i + 1 < 1
      BY <3>1, <1>0, <1>2 DEF PInv, Locking, LockBeforeUnlock
    <3> QED BY <3>2
  <2>5. CASE Queued(j, i, "unlock", c)'
    <3>1. i + 1 \in Nat \ {0, 1} /\ Queued(k, i + 1, "unlock", c)
      BY <2>2, <2>5, <1>0, <1>3
    <3>2. i + 1 = 1
      BY <3>1, <1>0, <1>2 DEF PInv, Locking, UnlockOnce
    <3> QED BY <3>1, <3>2
  <2> QED BY <2>1, <2>3, <2>4, <2>5
<1>8. \A j \in Link : Of[j] # Of[k] =>
         \A i \in Nat : ~Owed(j, i, c) /\ ~Queued(j, i, "lock", c)' /\ ~Queued(j, i, "unlock", c)'
  BY <1>0, <1>3, <1>5 DEF PInv, Locking, OwnerHasLock, UnlockIsOwn, LockIsOwn
<1>9. OwnerHasLock'
  <2>1. \A g \in Server : c \notin plays[g]
    BY <1>5 DEF PInv, Locking, OwnerHasLock
  <2> QED BY <2>1, <1>1, <1>4, <1>7, <1>8 DEF PInv, Locking, OwnerHasLock
<1>10. UnlockIsOwn'
  BY <1>1, <1>3, <1>4, <1>7, <1>8 DEF PInv, Locking, UnlockIsOwn
<1>11. UnlockOnce'
  BY <1>3 DEF PInv, Locking, UnlockOnce
<1>12. LockIsOwn'
  BY <1>1, <1>3, <1>7, <1>8 DEF PInv, Locking, LockIsOwn
<1>13. LockBeforeUnlock'
  BY <1>3 DEF PInv, Locking, LockBeforeUnlock
<1>14. SentOnce'
  BY <1>4 DEF PInv, Locking, SentOnce
<1> QED BY <1>9, <1>10, <1>11, <1>12, <1>13, <1>14 DEF Locking

\* A character that leaves: its server had the lock, and nothing of an earlier leave waits.
LEMMA ReleaseStep ==
    ASSUME PInv, NEW k \in Link, NEW c \in Char, Release(k, c)
    PROVE  Locking'
PROOF
<1> DEFINE p == [type |-> "save", char |-> c]
           r == [type |-> "unlock", char |-> c]
           n == Len(inbox[k])
<1>0. TypeOK /\ Of[k] \in Server /\ c \in plays[Of[k]]
  BY LinkAssumption DEF PInv, LInv, Release
<1>1. /\ inbox[k] \in Seq(Packet) /\ n \in Nat /\ DOMAIN inbox[k] = 1..n
      /\ inbox'[k] = inbox[k] \o <<p, r>>
      /\ \A j \in Link \ {k} : inbox'[j] = inbox[j]
      /\ lock' = lock /\ outbox' = outbox
      /\ plays' = [plays EXCEPT ![Of[k]] = @ \ {c}]
  BY <1>0 DEF TypeOK, Release, Sent
<1>2. ASSUME NEW j \in Link, NEW i \in Nat, NEW t \in {"lock", "unlock"}, NEW e \in Char, Queued(j, i, t, e)'
      PROVE  Queued(j, i, t, e) \/ (j = k /\ i = n + 2 /\ t = "unlock" /\ e = c)
  <2>1. CASE j = k
    <3>1. p \in Packet /\ r \in Packet
      BY DEF Packet
    <3>2. /\ inbox'[k] = inbox[k] \o <<p, r>>
          /\ DOMAIN (inbox[k] \o <<p, r>>) = 1..(n + 2)
          /\ \A m \in 1..n : (inbox[k] \o <<p, r>>)[m] = inbox[k][m]
          /\ (inbox[k] \o <<p, r>>)[n+1] = p
          /\ (inbox[k] \o <<p, r>>)[n+2] = r
      BY <1>0, <1>1, <3>1 DEF TypeOK
    <3> HIDE DEF n
    <3>3. i \in 1..n \/ i = n + 1 \/ i = n + 2
      BY <1>1, <1>2, <2>1, <3>2 DEF Queued
    <3>4. CASE i \in 1..n
      <4>1. inbox'[k][i] = inbox[k][i] /\ i \in DOMAIN inbox[k]
        BY <3>4, <1>1, <3>2
      <4> QED BY <4>1, <1>2, <2>1 DEF Queued
    <3>5. CASE i = n + 1
      BY <3>5, <1>2, <2>1, <3>2 DEF Queued
    <3>6. CASE i = n + 2
      BY <3>6, <1>2, <2>1, <3>2 DEF Queued
    <3> QED BY <3>3, <3>4, <3>5, <3>6
  <2>2. CASE j # k
    BY <2>2, <1>1, <1>2 DEF Queued
  <2> QED BY <2>1, <2>2
<1>3. \A j \in Link : \A i \in Nat : \A t : \A e : Queued(j, i, t, e) => i <= Len(inbox[j])
  BY <1>0, QueuedLemma
<1>4. \A j \in Link : \A i \in Nat, e \in Char : Owed(j, i, e)' <=> Owed(j, i, e)
  BY <1>1 DEF Owed
<1>5. /\ \A j \in Link : \A e \in Char : e \in plays'[Of[j]] => e \in plays[Of[j]]
      /\ \A g \in Server : \A e \in Char : e \in plays'[g] => e \in plays[g]
      /\ c \notin plays'[Of[k]]
  BY <1>0, <1>1, LinkAssumption DEF TypeOK
<1>6. lock[c] = Of[k] /\ \A i \in Nat : ~Owed(k, i, c) /\ ~Queued(k, i, "unlock", c)
  BY <1>0 DEF PInv, Locking, OwnerHasLock, SentOnce, UnlockIsOwn
<1> HIDE DEF p, r, n
<1>7. OwnerHasLock'
  <2>1. lock' = lock
    BY <1>1
  <2>2. OwnerHasLock
    BY DEF PInv, Locking
  <2> QED BY <2>1, <2>2, <1>4, <1>5 DEF OwnerHasLock
<1>8. UnlockIsOwn'
  <2>1. SUFFICES ASSUME NEW j \in Link, NEW e \in Char, NEW i \in Nat, Queued(j, i, "unlock", e)'
                 PROVE  lock[e] = Of[j] /\ e \notin plays'[Of[j]] /\ \A m \in Nat : ~Owed(j, m, e)
    BY <1>1, <1>4 DEF UnlockIsOwn
  <2>2. CASE Queued(j, i, "unlock", e)
    BY <2>2, <1>5 DEF PInv, Locking, UnlockIsOwn
  <2>3. CASE j = k /\ e = c
    BY <2>3, <1>5, <1>6
  <2> QED BY <2>1, <2>2, <2>3, <1>2
<1>9. UnlockOnce'
  BY <1>2, <1>6 DEF PInv, Locking, UnlockOnce
<1>10. LockIsOwn'
  BY <1>1, <1>2 DEF PInv, Locking, LockIsOwn
<1>11. LockBeforeUnlock'
  BY <1>1, <1>2, <1>3 DEF PInv, Locking, LockBeforeUnlock, n
<1>12. SentOnce'
  BY <1>4, <1>5 DEF PInv, Locking, SentOnce
<1> QED BY <1>7, <1>8, <1>9, <1>10, <1>11, <1>12 DEF Locking

\* A server that says again what it plays has its lock, and has not said unlock.
LEMMA RelockStep ==
    ASSUME PInv, NEW k \in Link, NEW c \in Char, Relock(k, c)
    PROVE  Locking'
PROOF
<1> DEFINE p == [type |-> "lock", char |-> c]
<1>0. TypeOK /\ c \in plays[Of[k]] /\ lock' = lock /\ plays' = plays /\ outbox' = outbox
  BY DEF PInv, LInv, Relock
<1>1. \A j \in Link : \A i \in Nat : \A t \in {"lock", "unlock"} : \A e \in Char :
         Queued(j, i, t, e)' => \/ Queued(j, i, t, e)
                                \/ j = k /\ t = "lock" /\ e = c
  <2>1. p \in Packet /\ Sent(k, <<p>>)
    BY DEF Packet, Relock
  <2>2. p.type = "lock" /\ p.char = c
    OBVIOUS
  <2> HIDE DEF p
  <2> QED BY <1>0, <2>1, <2>2, SentLemma
<1>2. \A j \in Link : \A i \in Nat, e \in Char : Owed(j, i, e)' <=> Owed(j, i, e)
  BY <1>0 DEF Owed
<1>3. lock[c] = Of[k] /\ \A i \in Nat : ~Queued(k, i, "unlock", c)
  BY <1>0, LinkAssumption DEF PInv, Locking, OwnerHasLock, UnlockIsOwn
<1>4. OwnerHasLock'
  BY <1>0, <1>2 DEF PInv, Locking, OwnerHasLock
<1>5. UnlockIsOwn'
  BY <1>0, <1>1, <1>2 DEF PInv, Locking, UnlockIsOwn
<1>6. UnlockOnce'
  BY <1>1 DEF PInv, Locking, UnlockOnce
<1>7. LockIsOwn'
  BY <1>0, <1>1, <1>3 DEF PInv, Locking, LockIsOwn
<1>8. LockBeforeUnlock'
  BY <1>1, <1>3 DEF PInv, Locking, LockBeforeUnlock
<1>9. SentOnce'
  BY <1>0, <1>2 DEF PInv, Locking, SentOnce
<1> QED BY <1>4, <1>5, <1>6, <1>7, <1>8, <1>9 DEF Locking

\* A reply that arrives: what was sent becomes what is played.
LEMMA WriteStep ==
    ASSUME PInv, NEW k \in Link, Write(k)
    PROVE  Locking'
PROOF
<1>0. TypeOK /\ Of[k] \in Server /\ lock' = lock /\ inbox' = inbox /\ outbox[k] # <<>>
  BY LinkAssumption DEF PInv, LInv, Write
<1>1. \A j \in Link : \A i \in Nat, e \in Char :
         Owed(j, i, e)' => IF j = k THEN i + 1 \in Nat \ {0, 1} /\ Owed(j, i + 1, e) ELSE Owed(j, i, e)
  BY <1>0, WriteLemma
<1>2. \A j \in Link : \A i \in Nat, t \in {"lock", "unlock"}, e \in Char :
         Queued(j, i, t, e)' <=> Queued(j, i, t, e)
  BY <1>0 DEF Queued
<1>3. \A g \in Server : \A e \in Char :
         e \in plays'[g] => e \in plays[g] \/ (g = Of[k] /\ Owed(k, 1, e))
  <2>1. outbox[k] \in Seq(Reply) /\ outbox[k] # <<>>
    BY <1>0 DEF TypeOK
  <2>2. Head(outbox[k]) = outbox[k][1] /\ 1 \in DOMAIN outbox[k]
    BY <2>1, TailLemma
  <2>3. CASE Head(outbox[k]).result = "success"
    <3>1. plays' = [plays EXCEPT ![Of[k]] = @ \cup {Head(outbox[k]).char}]
      BY <2>3 DEF Write
    <3>2. Owed(k, 1, Head(outbox[k]).char)
      BY <2>2, <2>3 DEF Owed
    <3> QED BY <3>1, <3>2, <1>0 DEF TypeOK
  <2>4. CASE Head(outbox[k]).result # "success"
    BY <2>4 DEF Write
  <2> QED BY <2>3, <2>4
<1>4. \A j \in Link : Of[j] \in Server
  BY LinkAssumption
<1>5. \A j \in Link : Of[j] = Of[k] /\ (inbox[j] # <<>> \/ outbox[j] # <<>>) => j = k
  BY <1>0, SoleLemma DEF PInv
<1>6. OwnerHasLock'
  BY <1>0, <1>1, <1>3, <1>4 DEF PInv, Locking, OwnerHasLock
<1>7. UnlockIsOwn'
  <2>1. SUFFICES ASSUME NEW j \in Link, NEW e \in Char, NEW i \in Nat, Queued(j, i, "unlock", e)
                 PROVE  lock[e] = Of[j] /\ e \notin plays'[Of[j]] /\ \A m \in Nat : ~Owed(j, m, e)'
    BY <1>0, <1>2 DEF UnlockIsOwn
  <2>2. lock[e] = Of[j] /\ e \notin plays[Of[j]] /\ \A m \in Nat : ~Owed(j, m, e)
    BY <2>1 DEF PInv, Locking, UnlockIsOwn
  <2>3. Of[j] = Of[k] => j = k
    BY <2>1, <1>0, <1>5, WaitsLemma
  <2>4. e \notin plays'[Of[j]]
    BY <2>2, <2>3, <1>3, <1>4
  <2> QED BY <2>2, <2>4, <1>1
<1>8. UnlockOnce'
  BY <1>2 DEF PInv, Locking, UnlockOnce
<1>9. LockIsOwn'
  BY <1>0, <1>2 DEF PInv, Locking, LockIsOwn
<1>10. LockBeforeUnlock'
  BY <1>2 DEF PInv, Locking, LockBeforeUnlock
<1>11. SentOnce'
  <2>1. SUFFICES ASSUME NEW j \in Link, NEW e \in Char, NEW i \in Nat, Owed(j, i, e)'
                 PROVE  e \notin plays'[Of[j]] /\ \A m \in Nat : Owed(j, m, e)' => m = i
    BY DEF SentOnce
  <2>2. PICK i0 \in Nat : Owed(j, i0, e) /\ i0 = (IF j = k THEN i + 1 ELSE i) /\ (j = k => i0 # 1)
    BY <2>1, <1>1
  <2>3. e \notin plays[Of[j]] /\ \A m \in Nat : Owed(j, m, e) => m = i0
    BY <2>2 DEF PInv, Locking, SentOnce
  <2>4. Of[j] = Of[k] => j = k
    BY <2>2, <1>0, <1>5, WaitsLemma
  <2>5. e \notin plays'[Of[j]]
    BY <2>2, <2>3, <2>4, <1>3, <1>4
  <2>6. ASSUME NEW m \in Nat, Owed(j, m, e)' PROVE m = i
    <3>1. PICK m0 \in Nat : Owed(j, m0, e) /\ m0 = (IF j = k THEN m + 1 ELSE m)
      BY <2>6, <1>1
    <3> QED BY <3>1, <2>2, <2>3
  <2> QED BY <2>5, <2>6
<1> QED BY <1>6, <1>7, <1>8, <1>9, <1>10, <1>11 DEF Locking

\* With no broken connection no other step touches a lock or what is said about one.
LEMMA LockingStep ==
    ASSUME CanFail = FALSE, PInv, [Next]_vars
    PROVE  Locking'
PROOF
<1>0. TypeOK /\ Locking /\ Quiet
  BY DEF PInv, LInv
<1>1. ASSUME lock' = lock, plays' = plays, inbox' = inbox, outbox' = outbox PROVE Locking'
  <2> DEFINE d == [j \in Link |-> 0]
  <2>1. d \in [Link -> {0, 1}] /\ \A j \in Link : \A i \in Nat : i + d[j] = i
    OBVIOUS
  <2>2. \A j \in Link : \A i \in Nat : \A c \in Char : \A t \in {"lock", "unlock"} :
           Queued(j, i, t, c)' => Queued(j, i + d[j], t, c)
    BY <1>1, <2>1 DEF Queued
  <2>3. \A j \in Link : \A i \in Nat : \A c \in Char : Owed(j, i, c)' => Owed(j, i, c)
    BY <1>1 DEF Owed
  <2> HIDE DEF d
  <2> QED BY <1>0, <1>1, <2>1, <2>2, <2>3, FrameLemma
<1>2. ASSUME NEW k \in Link, NEW type, Reads(k, type), Done(k) \/ inbox' = inbox
      PROVE  \E d \in [Link -> {0, 1}] :
                \A j \in Link : \A i \in Nat : \A c \in Char : \A t \in {"lock", "unlock"} :
                   Queued(j, i, t, c)' => Queued(j, i + d[j], t, c)
  <2>1. CASE Done(k)
    <3> DEFINE d == [j \in Link |-> IF j = k THEN 1 ELSE 0]
    <3>1. d \in [Link -> {0, 1}] /\ \A j \in Link : \A i \in Nat : i + d[j] = IF j = k THEN i + 1 ELSE i
      OBVIOUS
    <3>2. ASSUME NEW j \in Link, NEW i \in Nat, NEW c \in Char, NEW t \in {"lock", "unlock"}, Queued(j, i, t, c)'
          PROVE  Queued(j, i + d[j], t, c)
      <4>1. IF j = k THEN i + 1 \in Nat \ {0, 1} /\ Queued(j, i + 1, t, c) ELSE Queued(j, i, t, c)
        BY <1>0, <1>2, <2>1, <3>2, PopLemma
      <4> HIDE DEF d
      <4> QED BY <3>1, <4>1
    <3> HIDE DEF d
    <3> QED BY <3>1, <3>2
  <2>2. CASE inbox' = inbox
    <3> DEFINE d == [j \in Link |-> 0]
    <3>1. d \in [Link -> {0, 1}] /\ \A j \in Link : \A i \in Nat : i + d[j] = i
      OBVIOUS
    <3>2. \A j \in Link : \A i \in Nat : \A c \in Char : \A t \in {"lock", "unlock"} :
             Queued(j, i, t, c)' => Queued(j, i + d[j], t, c)
      BY <2>2, <3>1 DEF Queued
    <3> HIDE DEF d
    <3> QED BY <3>1, <3>2
  <2> QED BY <1>2, <2>1, <2>2
<1>3. ASSUME NEW k \in Link, NEW c \in Char, HasRoom(k), c = Head(inbox[k]).char,
             NEW result \in {"success", "failed", "charlocked", "saved"}, Answer(k, result)
      PROVE  \A j \in Link : \A i \in Nat : \A e \in Char :
                Owed(j, i, e)' => \/ Owed(j, i, e)
                                  \/ j = k /\ i = Len(outbox[k]) + 1 /\ e = c /\ result = "success"
  <2> DEFINE r == [result |-> result, char |-> c]
  <2>1. r \in Reply /\ outbox' = [outbox EXCEPT ![k] = Append(@, r)]
    BY <1>3 DEF Reply, Answer
  <2>2. r.result = result /\ r.char = c
    OBVIOUS
  <2> HIDE DEF r
  <2> QED BY <1>0, <2>1, <2>2, AnsweredLemma
<1>4. ASSUME NEW k \in Link, GetData(k) PROVE Locking'
  <2>1. PICK c \in Char : c = Head(inbox[k]).char /\ Reads(k, "get")
    BY <1>0, <1>4, ReadsLemma DEF GetData
  <2>2. PICK result \in IF lock[c] # Unlocked THEN {"charlocked"} ELSE {"success", "failed"} :
           /\ lock' = IF result = "success" THEN LockChar(lock, c, Of[k]) ELSE lock
           /\ IF HasRoom(k) THEN Answer(k, result) /\ Done(k) ELSE inbox' = inbox /\ outbox' = outbox
    BY <1>4, <2>1 DEF GetData
  <2>3. plays' = plays
    BY <1>4 DEF GetData
  <2>4. PICK d \in [Link -> {0, 1}] :
           \A j \in Link : \A i \in Nat : \A e \in Char : \A t \in {"lock", "unlock"} :
              Queued(j, i, t, e)' => Queued(j, i + d[j], t, e)
    BY <2>1, <2>2, <1>2
  <2>5. \A j \in Link : \A i \in Nat : \A e \in Char :
           Owed(j, i, e)' => \/ Owed(j, i, e)
                             \/ j = k /\ i = Len(outbox[k]) + 1 /\ e = c /\ result = "success"
    <3>1. CASE HasRoom(k)
      BY <3>1, <2>1, <2>2, <1>3
    <3>2. CASE ~HasRoom(k)
      BY <3>2, <2>2 DEF Owed
    <3> QED BY <3>1, <3>2
  <2>6. CASE result = "success"
    <3>1. lock[c] = Unlocked /\ lock' = LockChar(lock, c, Of[k])
      BY <2>6, <2>2
    <3> DEFINE n == Len(outbox[k]) + 1
    <3>2. \A j \in Link : \A i \in Nat : \A e \in Char :
             Owed(j, i, e)' => Owed(j, i, e) \/ (j = k /\ i = n /\ e = c)
      BY <2>5
    <3> HIDE DEF n
    <3> QED BY <3>1, <3>2, <2>3, <2>4, GrantStep
  <2>7. CASE result # "success"
    BY <2>7, <1>0, <2>2, <2>3, <2>4, <2>5, FrameLemma
  <2> QED BY <2>6, <2>7
<1>5. ASSUME NEW k \in Link, SaveData(k) PROVE Locking'
  <2>1. PICK c \in Char : c = Head(inbox[k]).char /\ Reads(k, "save")
    BY <1>0, <1>5, ReadsLemma DEF SaveData
  <2>2. PICK d \in [Link -> {0, 1}] :
           \A j \in Link : \A i \in Nat : \A e \in Char : \A t \in {"lock", "unlock"} :
              Queued(j, i, t, e)' => Queued(j, i + d[j], t, e)
    BY <1>5, <2>1, <1>2 DEF SaveData
  <2>3. \A j \in Link : \A i \in Nat : \A e \in Char : Owed(j, i, e)' => Owed(j, i, e)
    <3>1. CASE HasRoom(k)
      <4>1. PICK result \in {"saved", "failed"} : Answer(k, result)
        BY <3>1, <1>5 DEF SaveData
      <4> QED BY <3>1, <4>1, <2>1, <1>3
    <3>2. CASE ~HasRoom(k)
      BY <3>2, <1>5 DEF SaveData, Owed
    <3> QED BY <3>1, <3>2
  <2> QED BY <1>0, <1>5, <2>2, <2>3, FrameLemma DEF SaveData
<1>6. ASSUME NEW k \in Link, CharLock(k) PROVE Locking'
  <2>1. PICK c \in Char : c = Head(inbox[k]).char
    BY <1>0, <1>6, ReadsLemma DEF CharLock
  <2>2. Done(k) /\ outbox' = outbox /\ plays' = plays
    BY <1>6 DEF CharLock
  <2>3. CASE Reads(k, "lock") /\ lock' = LockChar(lock, c, Of[k])
    <3>1. inbox[k] \in Seq(Packet) /\ inbox[k] # <<>>
      BY <2>3, <1>0 DEF Reads, TypeOK
    <3>2. Queued(k, 1, "lock", c)
      BY <3>1, <2>1, <2>3, TailLemma DEF Reads, Queued
    <3>3. lock[c] = Of[k] /\ Of[k] # Unlocked
      BY <3>2, <1>0, LinkAssumption, CharAssumption DEF Locking, LockIsOwn
    <3>4. lock' = lock
      BY <3>3, <2>3 DEF LockChar
    <3>5. PICK d \in [Link -> {0, 1}] :
             \A j \in Link : \A i \in Nat : \A e \in Char : \A t \in {"lock", "unlock"} :
                Queued(j, i, t, e)' => Queued(j, i + d[j], t, e)
      BY <2>2, <2>3, <1>2
    <3>6. \A j \in Link : \A i \in Nat : \A e \in Char : Owed(j, i, e)' => Owed(j, i, e)
      BY <2>2 DEF Owed
    <3> QED BY <1>0, <2>2, <3>4, <3>5, <3>6, FrameLemma
  <2>4. CASE Reads(k, "unlock") /\ lock' = UnlockChar(lock, c)
    BY <2>1, <2>2, <2>4, UnlockStep
  <2> QED BY <1>6, <2>1, <2>3, <2>4 DEF CharLock
<1>7. ASSUME NEW k \in Link, NEW c \in Char, Ask(k, c) PROVE Locking'
  <2> DEFINE p == [type |-> "get", char |-> c]
             d == [j \in Link |-> 0]
  <2>1. d \in [Link -> {0, 1}] /\ \A j \in Link : \A i \in Nat : i + d[j] = i
    OBVIOUS
  <2>2. p \in Packet /\ p.type = "get" /\ Sent(k, <<p>>)
    BY <1>7 DEF Packet, Ask
  <2> HIDE DEF p, d
  <2>3. \A j \in Link : \A i \in Nat : \A e \in Char : \A t \in {"lock", "unlock"} :
           Queued(j, i, t, e)' => Queued(j, i + d[j], t, e)
    BY <1>0, <2>1, <2>2, SentLemma
  <2>4. \A j \in Link : \A i \in Nat : \A e \in Char : Owed(j, i, e)' => Owed(j, i, e)
    BY <1>7 DEF Ask, Owed
  <2> QED BY <1>0, <1>7, <2>1, <2>3, <2>4, FrameLemma DEF Ask
<1>8. ASSUME NEW k \in Link, Verify(k) PROVE Locking'
  <2>1. \A j \in Link \ {k} : Of[j] = Of[k] => ~Verified(j) /\ inbox[j] = <<>> /\ outbox[j] = <<>>
    BY <1>0, <1>8 DEF Verify, Verified, Quiet
  <2>2. inbox' = inbox /\ outbox' = outbox
    BY <1>0, <1>8, <2>1 DEF Verify, TypeOK
  <2>3. lock' = lock /\ plays' = plays
    BY <1>8, <2>1 DEF Verify
  <2> QED BY <2>2, <2>3, <1>1
<1>9. ASSUME NEW k \in Link, Accept(k) \/ BadPacket(k) PROVE Locking'
  BY <1>9, <1>1 DEF Accept, BadPacket
<1>10. CASE UNCHANGED vars
  BY <1>10, <1>1 DEF vars
<1> QED
  BY <1>4, <1>5, <1>6, <1>7, <1>8, <1>9, <1>10, ReleaseStep, RelockStep, WriteStep
  DEF Next, Handle, Lose, SendBad

\* Nothing is locked, played or under way at the start.
LEMMA InitInv == Init => PInv
PROOF
<1>1. Init => TypeOK
  <2>1. Len(<<>>) <= Replies
    BY BoundAssumption
  <2> QED BY <2>1 DEF Init, TypeOK
<1>2. Init => LocksHaveLink /\ Quiet
  BY DEF Init, LocksHaveLink, Verified, Quiet
<1>3. Init => Locking
  BY LinkAssumption DEF Init, Locking, OwnerHasLock, UnlockIsOwn, UnlockOnce, LockIsOwn,
     LockBeforeUnlock, SentOnce, Queued, Owed
<1> QED BY <1>1, <1>2, <1>3 DEF PInv, LInv

\* PInv is inductive while no connection breaks.
LEMMA InvStep ==
    ASSUME CanFail = FALSE
    PROVE  PInv /\ [Next]_vars => PInv'
PROOF
<1>1. LInv /\ [Next]_vars => LInv'
  BY TypeStep, LinkStep DEF LInv
<1> QED BY <1>1, QuietStep, LockingStep DEF PInv

\* While no connection breaks a character is on one game server at most: whoever plays it,
\* or is being sent it, has its lock, whatever gets, saves, locks and unlocks are under way.
THEOREM OneServerPlays ==
    ASSUME CanFail = FALSE
    PROVE  Spec => []PlayerHasLock
PROOF
<1>1. Init => PInv
  BY InitInv
<1>2. PInv /\ [Next]_vars => PInv'
  BY InvStep
<1>3. PInv => PlayerHasLock
  BY PInvImplies
<1> QED BY <1>1, <1>2, <1>3, PTL DEF Spec

----------------------------------------------------------------------------
(* The refinement: the servers that a character is on change only by a     *)
(* reply that is granted (Send) and by a character that leaves (Leave).    *)

\* A character is on a server that plays it or that a reply with it waits for.
LEMMA OnLemma ==
    ASSUME TypeOK, NEW c \in Char, NEW g
    PROVE  g \in On[c] <=> /\ g \in Server
                           /\ \/ c \in plays[g]
                              \/ \E k \in Link : Of[k] = g /\ \E i \in Nat : Owed(k, i, c)
PROOF
<1>1. ASSUME NEW k \in Link
      PROVE  (\E i \in DOMAIN outbox[k] : outbox[k][i] = [result |-> "success", char |-> c])
             <=> \E i \in Nat : Owed(k, i, c)
  <2>1. outbox[k] \in Seq(Reply)
    BY DEF TypeOK
  <2>2. DOMAIN outbox[k] \subseteq Nat /\ \A i \in DOMAIN outbox[k] : outbox[k][i] \in Reply
    BY <2>1
  <2>3. \A i \in DOMAIN outbox[k] : outbox[k][i] = [result |-> "success", char |-> c]
            <=> outbox[k][i].result = "success" /\ outbox[k][i].char = c
    BY <2>2 DEF Reply
  <2> QED BY <2>2, <2>3 DEF Owed
<1> QED BY <1>1 DEF On

\* The same after a step.
LEMMA OnNextLemma ==
    ASSUME TypeOK', NEW c \in Char, NEW g
    PROVE  g \in On'[c] <=> /\ g \in Server
                            /\ \/ c \in plays'[g]
                               \/ \E k \in Link : Of[k] = g /\ \E i \in Nat : Owed(k, i, c)'
PROOF
<1>1. ASSUME NEW k \in Link
      PROVE  (\E i \in DOMAIN outbox'[k] : outbox'[k][i] = [result |-> "success", char |-> c])
             <=> \E i \in Nat : Owed(k, i, c)'
  <2>1. outbox'[k] \in Seq(Reply)
    BY DEF TypeOK
  <2>2. DOMAIN outbox'[k] \subseteq Nat /\ \A i \in DOMAIN outbox'[k] : outbox'[k][i] \in Reply
    BY <2>1
  <2>3. \A i \in DOMAIN outbox'[k] : outbox'[k][i] = [result |-> "success", char |-> c]
            <=> outbox'[k][i].result = "success" /\ outbox'[k][i].char = c
    BY <2>2 DEF Reply
  <2> QED BY <2>2, <2>3 DEF Owed
<1> QED BY <1>1 DEF On

\* On is a function on the characters, before a step and after it.
LEMMA OnIsFunction ==
    /\ On = [c \in Char |-> On[c]]
    /\ On' = [c \in Char |-> On'[c]]
BY DEF On

\* A character is on the server that has its lock, and on no other.
LEMMA OnIsLocked ==
    ASSUME PInv, NEW c \in Char, NEW g \in On[c]
    PROVE  g = lock[c]
PROOF
<1>1. TypeOK /\ OwnerHasLock
  BY DEF PInv, LInv, Locking
<1>2. CASE \E k \in Link : Of[k] = g /\ \E i \in Nat : Owed(k, i, c)
  BY <1>1, <1>2 DEF OwnerHasLock
<1>3. CASE g \in Server /\ c \in plays[g]
  BY <1>1, <1>3 DEF OwnerHasLock
<1> QED BY <1>1, <1>2, <1>3, OnLemma

\* What neither adds nor takes a reply that sends a character stutters.
LEMMA OnFrame ==
    ASSUME TypeOK, TypeOK', plays' = plays,
           \A j \in Link : \A c \in Char :
               (\E i \in Nat : Owed(j, i, c)') <=> (\E i \in Nat : Owed(j, i, c))
    PROVE  On' = On
PROOF
<1>1. ASSUME NEW c \in Char PROVE On'[c] = On[c]
  <2>1. \A g : g \in On'[c] <=> g \in On[c]
    BY OnLemma, OnNextLemma
  <2> QED BY <2>1
<1> QED BY <1>1, OnIsFunction

\* A reply that is granted when there is room sends the character; nobody has it.
LEMMA SendStep ==
    ASSUME PInv, TypeOK', NEW k \in Link, NEW c \in Char, lock[c] = Unlocked, plays' = plays,
           NEW n \in Nat, \A j \in Link : \A i \in Nat : \A e \in Char :
               Owed(j, i, e)' <=> Owed(j, i, e) \/ (j = k /\ i = n /\ e = c)
    PROVE  Abstract!Send(c, Of[k])
PROOF
<1>0. TypeOK /\ Of[k] \in Server
  BY LinkAssumption DEF PInv, LInv
<1>1. On[c] = {}
  <2>1. \A g \in On[c] : g = Unlocked /\ g \in Server
    BY <1>0, OnIsLocked, OnLemma
  <2> QED BY <2>1, CharAssumption
<1>2. On'[c] = {Of[k]}
  <2>1. \A g : g \in On'[c] <=> g = Of[k]
    BY <1>0, <1>1, OnLemma, OnNextLemma
  <2> QED BY <2>1
<1>3. ASSUME NEW e \in Char \ {c} PROVE On'[e] = On[e]
  <2>1. \A g : g \in On'[e] <=> g \in On[e]
    BY <1>0, OnLemma, OnNextLemma
  <2> QED BY <2>1
<1>4. On' = [On EXCEPT ![c] = {Of[k]}]
  BY <1>2, <1>3, OnIsFunction
<1> QED BY <1>1, <1>4 DEF Abstract!Send

\* A character that leaves was on this server only, and nothing sends it there again.
LEMMA LeaveStep ==
    ASSUME PInv, TypeOK', NEW k \in Link, NEW c \in Char, Release(k, c)
    PROVE  Abstract!Leave(c, Of[k])
PROOF
<1>0. TypeOK /\ Of[k] \in Server /\ c \in plays[Of[k]] /\ Verified(k)
  BY LinkAssumption DEF PInv, LInv, Release, CanSend
<1>1. /\ \A j \in Link : \A i \in Nat : \A e \in Char : Owed(j, i, e)' <=> Owed(j, i, e)
      /\ \A g \in Server : \A e \in Char :
            e \in plays'[g] <=> e \in plays[g] /\ ~(g = Of[k] /\ e = c)
  BY <1>0 DEF Release, Owed, TypeOK
<1>2. On[c] = {Of[k]}
  <2>1. \A g : g \in On[c] <=> g = Of[k]
    BY <1>0, OnLemma, OnIsLocked
  <2> QED BY <2>1
<1>3. \A j \in Link : \A i \in Nat : Of[j] = Of[k] => ~Owed(j, i, c)
  BY <1>0 DEF PInv, Locking, SentOnce
<1>4. On'[c] = {}
  <2>1. ASSUME NEW g \in On'[c] PROVE FALSE
    <3>1. g \in On[c] /\ ~(g = Of[k] /\ c \in plays'[g])
      BY <2>1, <1>0, <1>1, OnLemma, OnNextLemma
    <3>2. PICK j \in Link : Of[j] = Of[k] /\ \E i \in Nat : Owed(j, i, c)
      BY <2>1, <3>1, <1>1, <1>2, OnNextLemma
    <3> QED BY <3>2, <1>3
  <2> QED BY <2>1
<1>5. ASSUME NEW e \in Char \ {c} PROVE On'[e] = On[e]
  <2>1. \A g : g \in On'[e] <=> g \in On[e]
    BY <1>0, <1>1, OnLemma, OnNextLemma
  <2> QED BY <2>1
<1>6. On' = [On EXCEPT ![c] = {}]
  BY <1>4, <1>5, OnIsFunction
<1> QED BY <1>2, <1>6 DEF Abstract!Leave

\* A reply that arrives only moves the character from the buffer to the server.
LEMMA ArriveStep ==
    ASSUME TypeOK, TypeOK', NEW k \in Link, Write(k)
    PROVE  On' = On
PROOF
<1> DEFINE q == outbox[k]
<1>1. /\ q \in Seq(Reply) /\ q # <<>> /\ outbox'[k] = Tail(q) /\ Of[k] \in Server
      /\ \A j \in Link \ {k} : outbox'[j] = outbox[j]
  BY LinkAssumption DEF Write, TypeOK
<1>2. /\ Len(q) \in Nat \ {0} /\ DOMAIN q = 1..Len(q) /\ Head(q) = q[1]
      /\ DOMAIN Tail(q) = 1..(Len(q) - 1)
      /\ \A i \in 1..(Len(q) - 1) : Tail(q)[i] = q[i+1]
  BY <1>1, TailLemma
<1>3. \A i \in Nat : \A c : Owed(k, i, c)' <=> i # 0 /\ Owed(k, i + 1, c)
  BY <1>1, <1>2 DEF Owed
<1>4. \A j \in Link \ {k} : \A i \in Nat : \A c : Owed(j, i, c)' <=> Owed(j, i, c)
  BY <1>1 DEF Owed
<1>5. \A i \in Nat : \A c : Owed(k, i, c) => i # 0
  BY <1>2 DEF Owed
<1>6. \A g \in Server : \A c \in Char :
         c \in plays'[g] <=> c \in plays[g] \/ (g = Of[k] /\ Owed(k, 1, c))
  <2>1. 1 \in DOMAIN q
    BY <1>2
  <2>2. CASE Head(q).result = "success"
    <3>1. plays' = [plays EXCEPT ![Of[k]] = @ \cup {Head(q).char}]
      BY <2>2 DEF Write
    <3>2. \A c : Owed(k, 1, c) <=> c = Head(q).char
      BY <2>1, <2>2, <1>2 DEF Owed
    <3> QED BY <3>1, <3>2, <1>1 DEF TypeOK
  <2>3. CASE Head(q).result # "success"
    <3>1. plays' = plays
      BY <2>3 DEF Write
    <3>2. \A c : ~Owed(k, 1, c)
      BY <2>3, <1>2 DEF Owed
    <3> QED BY <3>1, <3>2
  <2> QED BY <2>2, <2>3
<1> HIDE DEF q
<1>7. \A c \in Char : (\E i \in Nat : Owed(k, i, c)) <=> Owed(k, 1, c) \/ (\E i \in Nat : Owed(k, i, c)')
  <2>1. SUFFICES ASSUME NEW c \in Char
                 PROVE  (\E i \in Nat : Owed(k, i, c)) <=> Owed(k, 1, c) \/ (\E i \in Nat : Owed(k, i, c)')
    OBVIOUS
  <2>2. ASSUME NEW i \in Nat, Owed(k, i, c) PROVE Owed(k, 1, c) \/ (\E m \in Nat : Owed(k, m, c)')
    <3>1. CASE i = 1
      BY <3>1, <2>2
    <3>2. CASE i # 1
      <4>1. i - 1 \in Nat /\ i - 1 # 0 /\ (i - 1) + 1 = i
        BY <3>2, <2>2, <1>5
      <4>2. Owed(k, i - 1, c)'
        BY <4>1, <2>2, <1>3
      <4> QED BY <4>1, <4>2
    <3> QED BY <3>1, <3>2
  <2>3. ASSUME NEW i \in Nat, Owed(k, i, c)' PROVE \E m \in Nat : Owed(k, m, c)
    <3>1. i + 1 \in Nat /\ Owed(k, i + 1, c)
      BY <2>3, <1>3
    <3> QED BY <3>1
  <2> QED BY <2>2, <2>3
<1>8. ASSUME NEW c \in Char PROVE On'[c] = On[c]
  <2>1. ASSUME NEW g \in Server PROVE g \in On'[c] <=> g \in On[c]
    <3>1. CASE g = Of[k]
      BY <3>1, <1>1, <1>4, <1>6, <1>7, OnLemma, OnNextLemma
    <3>2. CASE g # Of[k]
      BY <3>2, <1>4, <1>6, OnLemma, OnNextLemma
    <3> QED BY <3>1, <3>2
  <2>2. \A g : g \in On'[c] \/ g \in On[c] => g \in Server
    BY OnLemma, OnNextLemma
  <2> QED BY <2>1, <2>2
<1> QED BY <1>8, OnIsFunction

\* Every step of d2dbs and the game servers is a step of OneServer or a stutter.
LEMMA RefinementStep ==
    ASSUME CanFail = FALSE, PInv, TypeOK', [Next]_vars
    PROVE  [Abstract!Next]_On
PROOF
<1>0. TypeOK /\ Quiet /\ \A k \in Link : Of[k] \in Server
  BY LinkAssumption DEF PInv, LInv
<1>1. ASSUME plays' = plays, outbox' = outbox PROVE On' = On
  BY <1>0, <1>1, OnFrame DEF Owed
<1>2. ASSUME NEW k \in Link, NEW c \in Char, c = Head(inbox[k]).char, HasRoom(k),
             NEW result \in {"success", "failed", "charlocked", "saved"}, Answer(k, result)
      PROVE  \A j \in Link : \A i \in Nat : \A e \in Char :
                Owed(j, i, e)' <=> Owed(j, i, e)
                                   \/ (j = k /\ i = Len(outbox[k]) + 1 /\ e = c /\ result = "success")
  <2> DEFINE r == [result |-> result, char |-> c]
  <2>1. r \in Reply /\ outbox' = [outbox EXCEPT ![k] = Append(@, r)]
    BY <1>2 DEF Reply, Answer
  <2>2. r.result = result /\ r.char = c
    OBVIOUS
  <2> HIDE DEF r
  <2> QED BY <1>0, <2>1, <2>2, AnsweredLemma
<1>3. ASSUME NEW k \in Link, GetData(k) PROVE Abstract!Next \/ On' = On
  <2>1. PICK c \in Char : c = Head(inbox[k]).char
    BY <1>0, <1>3, ReadsLemma DEF GetData
  <2>2. plays' = plays
    BY <1>3 DEF GetData
  <2>3. CASE HasRoom(k)
    <3>1. PICK result \in IF lock[c] # Unlocked THEN {"charlocked"} ELSE {"success", "failed"} :
             Answer(k, result)
      BY <2>1, <2>3, <1>3 DEF GetData
    <3>2. \A j \in Link : \A i \in Nat : \A e \in Char :
             Owed(j, i, e)' <=> Owed(j, i, e)
                                \/ (j = k /\ i = Len(outbox[k]) + 1 /\ e = c /\ result = "success")
      BY <3>1, <2>1, <2>3, <1>2
    <3>3. CASE result = "success"
      <4> DEFINE n == Len(outbox[k]) + 1
      <4>1. n \in Nat
        BY <1>0 DEF TypeOK
      <4>2. \A j \in Link : \A i \in Nat : \A e \in Char :
               Owed(j, i, e)' <=> Owed(j, i, e) \/ (j = k /\ i = n /\ e = c)
        BY <3>2, <3>3
      <4> HIDE DEF n
      <4>3. Abstract!Send(c, Of[k])
        BY <4>1, <4>2, <3>1, <3>3, <2>2, SendStep
      <4> QED BY <4>3, <1>0 DEF Abstract!Next
    <3>4. CASE result # "success"
      BY <3>2, <3>4, <2>2, <1>0, OnFrame
    <3> QED BY <3>3, <3>4
  <2>4. CASE ~HasRoom(k)
    BY <2>2, <2>4, <1>1, <1>3 DEF GetData
  <2> QED BY <2>3, <2>4
<1>4. ASSUME NEW k \in Link, SaveData(k) PROVE On' = On
  <2>1. PICK c \in Char : c = Head(inbox[k]).char
    BY <1>0, <1>4, ReadsLemma DEF SaveData
  <2>2. CASE HasRoom(k)
    <3>1. PICK result \in {"saved", "failed"} : Answer(k, result)
      BY <2>2, <1>4 DEF SaveData
    <3>2. \A j \in Link : \A i \in Nat : \A e \in Char : Owed(j, i, e)' <=> Owed(j, i, e)
      BY <3>1, <2>1, <2>2, <1>2
    <3> QED BY <3>2, <1>0, <1>4, OnFrame DEF SaveData
  <2>3. CASE ~HasRoom(k)
    BY <2>3, <1>1, <1>4 DEF SaveData
  <2> QED BY <2>2, <2>3
<1>5. ASSUME NEW k \in Link, Verify(k) PROVE On' = On
  <2>1. \A j \in Link \ {k} : Of[j] = Of[k] => outbox[j] = <<>>
    BY <1>0, <1>5 DEF Verify, Verified, Quiet
  <2>2. outbox' = outbox /\ plays' = plays
    BY <1>0, <1>5, <2>1 DEF Verify, TypeOK
  <2> QED BY <2>2, <1>1
<1>6. ASSUME NEW k \in Link, NEW c \in Char, Release(k, c) PROVE Abstract!Next
  BY <1>0, <1>6, LeaveStep DEF Abstract!Next
<1>7. ASSUME NEW k \in Link, Accept(k) \/ CharLock(k) \/ BadPacket(k) PROVE On' = On
  BY <1>7, <1>1 DEF Accept, CharLock, BadPacket
<1>8. ASSUME NEW k \in Link, NEW c \in Char, Ask(k, c) \/ Relock(k, c) PROVE On' = On
  BY <1>8, <1>1 DEF Ask, Relock
<1>9. ASSUME NEW k \in Link, Write(k) PROVE On' = On
  BY <1>0, <1>9, ArriveStep
<1>10. CASE UNCHANGED vars
  BY <1>10, <1>1 DEF vars
<1> QED
  BY <1>3, <1>4, <1>5, <1>6, <1>7, <1>8, <1>9, <1>10 DEF Next, Handle, Lose, SendBad

\* While no connection breaks, d2dbs and the game servers implement OneServer: whatever is
\* under way in the buffers, a character is sent to a server only when no server has it.
THEOREM Refinement ==
    ASSUME CanFail = FALSE
    PROVE  Spec => ImplementsOneServer
PROOF
<1>1. Init => PInv
  BY InitInv
<1>2. PInv /\ [Next]_vars => PInv'
  BY InvStep
<1>3. Init => Abstract!Init
  BY DEF Init, Abstract!Init, On
<1>4. PInv /\ PInv' /\ [Next]_vars => [Abstract!Next]_On
  BY RefinementStep DEF PInv, LInv
<1> QED BY <1>1, <1>2, <1>3, <1>4, PTL DEF Spec, ImplementsOneServer, Abstract!Spec
=============================================================================
