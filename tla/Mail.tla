-------------------------------- MODULE Mail --------------------------------
(***************************************************************************)
(* The mail of the accounts (bnetd mail.c): a directory per account, a     *)
(* file per mail, named after the second it was delivered in, and numbers  *)
(* by which the owner reads and deletes.  The numbers are positions in the *)
(* order the directory is read in, which depends on what is in it and not  *)
(* on the files' names: `ReadDir' is any such order.  Reading a mail, and  *)
(* a request that is refused, change nothing and are not actions.          *)
(*                                                                         *)
(* Bound: MaxTime on the clock.                                            *)
(***************************************************************************)
EXTENDS Naturals, Sequences, FiniteSets, SequencesExt

CONSTANTS
    Account, Text,
    ReadDir(_),      \* SUBSET Nat -> the same names in some order
    PrefsQuota,      \* prefs_get_mail_quota()
    MaxQuota,        \* MAX_MAIL_QUOTA
    GivenQuota,      \* what an admin writes to BNET\auth\mailquota
    MaxTime

VARIABLES
    now,      \* time(NULL)
    own,      \* [Account -> BNET\auth\mailquota, or the prefs' value]
    box,      \* [Account -> (second -> the mail in the file of that name)]
    listed    \* [Account -> the files behind the last list shown to it]

vars == <<now, own, box, listed>>

A_Mail == [from : Account, text : Text]

TypeOK ==
    /\ now \in 0..MaxTime
    /\ own \in [Account -> Nat]
    /\ \A a \in Account :
          /\ DOMAIN box[a] \subseteq 0..now
          /\ \A n \in DOMAIN box[a] : box[a][n] \in A_Mail
          /\ Cardinality(DOMAIN box[a]) <= MaxTime + 1
          /\ listed[a] \in Seq(0..now)

Init ==
    /\ now = 0
    /\ own = [a \in Account |-> PrefsQuota]
    /\ box = [a \in Account |-> <<>>]
    /\ listed = [a \in Account |-> <<>>]

-----------------------------------------------------------------------------
\* get_mail_quota: an account's own value is clamped, that of the prefs not
Clamped(q) == IF q < 1 THEN 1 ELSE IF q > MaxQuota THEN MaxQuota ELSE q

Count(a) == Cardinality(DOMAIN box[a])
Listing(a) == ReadDir(DOMAIN box[a])

SetQuota(a, q) ==
    /\ own' = [own EXCEPT ![a] = Clamped(q)]
    /\ UNCHANGED <<now, box, listed>>

\* fopen with "wb": a file of that name, from the same second, is replaced
Delivered(a, to, t) ==
    [n \in DOMAIN box[to] \cup {now} |->
        IF n = now THEN [from |-> a, text |-> t] ELSE box[to][n]]

Send(a, to, t) ==
    /\ own[to] > Count(to)
    /\ box' = [box EXCEPT ![to] = Delivered(a, to, t)]
    /\ UNCHANGED <<now, own, listed>>

List(a) ==
    /\ listed' = [listed EXCEPT ![a] = Listing(a)]
    /\ UNCHANGED <<now, own, box>>

\* mutant: the hidden entries count
EntryAll(a, idx) == Listing(a)[IF idx > 1 THEN idx - 1 ELSE idx]

\* The idx-th entry that is not hidden, as for reading so for deleting
Entry(a, idx) == Listing(a)[idx]
InRange(a, idx) == idx >= 1 /\ idx <= Count(a)

Without(a, ns) == [n \in DOMAIN box[a] \ ns |-> box[a][n]]

Delete(a, idx) ==
    /\ InRange(a, idx)
    /\ box' = [box EXCEPT ![a] = Without(a, {Entry(a, idx)})]
    /\ UNCHANGED <<now, own, listed>>

DeleteAll(a) ==
    /\ box' = [box EXCEPT ![a] = <<>>]
    /\ UNCHANGED <<now, own, listed>>

Tick ==
    /\ now < MaxTime
    /\ now' = now + 1
    /\ UNCHANGED <<own, box, listed>>

Next ==
    \/ \E a \in Account :
          \/ \E q \in GivenQuota : SetQuota(a, q)
          \/ \E to \in Account, t \in Text : Send(a, to, t)
          \/ List(a)
          \/ \E idx \in 0..MaxTime + 2 : Delete(a, idx)
          \/ DeleteAll(a)
    \/ Tick

Spec == Init /\ [][Next]_vars

-----------------------------------------------------------------------------
(* Properties *)

Gone(a) == DOMAIN box[a] \ DOMAIN box'[a]
Changed(a) == {n \in DOMAIN box[a] \cap DOMAIN box'[a] : box[a][n] # box'[a][n]}

(* A mail stays as it was written until its owner deletes it: the owner    *)
(* who deletes number idx of a list that is still right loses that mail    *)
(* and no other, whoever mails whom in between; what is in the box changes *)
(* otherwise only when a second mail comes within the same second          *)
(* (mail.c mailbox_get_list, mailbox_delete, mailbox_deliver).             *)
Keeps ==
    \A a \in Account :
         /\ Changed(a) \subseteq {now}
         /\ Gone(a) # {} =>
              \/ DeleteAll(a)
              \/ \E idx \in 1..Len(listed[a]) :
                    Delete(a, idx) /\ Gone(a) = {listed[a][idx]}
              \/ listed[a] # Listing(a)
MailIsKept == [][Keeps]_vars
=============================================================================
