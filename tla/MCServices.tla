------------------------------ MODULE MCServices ------------------------------
(* The process of bnetd and what it keeps of accounts, programs, lists and    *)
(* mail, part beside part: a behaviour is one of the part it starts with.     *)
EXTENDS Server, SequencesExt
CONSTANTS c1, c2, m1, m2, m3, cur1, cur2, acc1, acc2, e1, e2, dummy, none, absent, old105, old106,
    new107, lodd, lode, lodx, f1, f2, f3
CONSTANT Parts   \* the parts this run looks at

\* Lists: two of the items are in one row of the table.
MCHash == (m1 :> 1) @@ (m2 :> 1) @@ (m3 :> 2)

\* Mail: a directory whose order changes with what is in it.
MCReadDir(S) ==
    LET up == SetToSortSeq(S, <) IN IF Cardinality(S) = 2 THEN Reverse(up) ELSE up

\* Admission.
\* The programs: lodx is a modified lodd.
MCKind(p) == IF p \in {old105, old106, new107} THEN "star" ELSE "lod"
MCExe(p) == IF p = lodx THEN lodd ELSE p
MCId(p) == IF p \in {old105, old106, new107} THEN 5 ELSE 9
MCVersion(p) == CASE p = old105 -> 105 [] p = old106 -> 106
                  [] p = new107 -> 107 [] OTHER -> 109
MCSum(p, e) ==
    (CASE p \in {old105, lodd} -> 1 [] p \in {old106, lode} -> 3
       [] p = new107 -> 5 [] OTHER -> 7) + (IF e = e1 THEN 0 ELSE 1)

Two(x, y) == [c \in {c1, c2} |-> IF c = c1 THEN x ELSE y]
MCStarts == {Two(lodd, old105), Two(lodx, old106)}
MCAddr == Two(<<10, 0, 0, 1>>, <<10, 0, 0, 8>>)
\* the last number as strcmp sees it: "8" comes after "79"
Digits(n) == IF n < 10 THEN n * 100 ELSE IF n < 100 THEN n * 10 + 1 ELSE n
MCLeq(a, b) == Digits(a[4]) <= Digits(b[4])

V(e, kind, exe, id, version, sum, tag) ==
    [eqn |-> e, kind |-> kind, exe |-> exe, versionid |-> id,
     gameversion |-> version, sum |-> sum, tag |-> tag]
U(kind, to, min, max, tag) ==
    [kind |-> kind, to |-> to, min |-> min, max |-> max, tag |-> tag]
B(type, a, b) == [type |-> type, at |-> a, from |-> a, upto |-> b]

StarLines(e, s) == << V(e, "star", old105, 5, 105, s, none),
                      V(e, "star", IF e = e1 THEN none ELSE old106, 5, 106, 0, none),
                      V(e, "star", none, 5, 0, s + 4, none) >>
LodLines(e, s) == << V(e, "lod", lodd, 9, 109, s, "lodd"),
                     V(e, "lod", none, 9, 109, s + 2, "lode") >>
Ups == << U("star", new107, absent, absent, none),
          U("star", old105, 120, 110, none),
          U("lod", lode, 0, 109, "lodd") >>

\* The last line is meant for any program of its version.
AnyLod(e) == << V(e, "lod", none, 9, 109, 0, none) >>

MCVersions(f) == CASE f = f1 -> StarLines(e1, 1) \o LodLines(e1, 1)
                   [] f = f2 -> LodLines(e2, 2) \o StarLines(e2, 2) \o AnyLod(e2)
                   [] f = f3 -> <<>>
MCUpdates(f) == IF f = f3 THEN << U("star", new107, 106, 107, none) >> ELSE Ups
MCBans(f) ==
    CASE f = f1 -> <<>>
      [] f = f2 -> << B("wildcard", <<10, 0, 256, 2>>, <<>>) >>
      [] f = f3 -> << B("exact", <<10, 0, 0, 1>>, <<>>),
                      B("range", <<10, 0, 0, 79>>, <<10, 0, 0, 84>>) >>
MCPrefs(f) == CASE f = f1 -> {"allow_unknown_version"}
                [] f = f2 -> {}
                [] f = f3 -> {"skip_versioncheck", "allow_unknown_version"}

VARIABLES
    part,   \* the part that runs
    savedUp, savedList, savedAcct, savedMaxuserid, savedFile, savedTemp, savedSaving, savedFaults,
    entryLists, entryReloads, entryProg, entryState, entryVc, entryOffer,
    chainedKind, chainedHead, chainedTail, chainedNext, chainedData, chainedLen, chainedNode,
    chainedRow, chainedGiven,
    boxNow, boxOwn, boxBox, boxListed

Acct == INSTANCE Accounts WITH
        Name <- {acc1, acc2}, Flush <- 1, Sync <- 1, MaxUid <- 2, MaxChange <- 2, MaxFaults <- 1,
        NoFile <- none, Part <- absent, NoName <- dummy, up <- savedUp, list <- savedList,
        acct <- savedAcct, maxuserid <- savedMaxuserid, file <- savedFile, temp <- savedTemp,
        saving <- savedSaving, faults <- savedFaults
ASSUME TimersAssumption == Acct!Timers
Entry == INSTANCE Admission WITH
        Client <- {c1, c2}, AddrOf <- MCAddr, Leq <- MCLeq, Star <- 256,
        Program <- {old105, old106, new107, lodd, lode, lodx}, Kind <- MCKind, Exe <- MCExe,
        Id <- MCId, Version <- MCVersion, Sum <- MCSum, Starts <- MCStarts, Old <- {c2},
        Files <- {f1, f2, f3}, VersionFile <- MCVersions, UpdateFile <- MCUpdates,
        BanFile <- MCBans, Prefs <- MCPrefs, Dummy <- dummy, None <- none, Absent <- absent,
        MaxReload <- 1, lists <- entryLists, reloads <- entryReloads, prog <- entryProg,
        state <- entryState, vc <- entryVc, offer <- entryOffer
Chained == INSTANCE Lists WITH
        Item <- {m1, m2, m3}, Node <- {1, 2, 3}, Cursor <- {cur1, cur2}, None <- none, nodata <- dummy,
        free <- absent, Rows <- 2, Hash <- MCHash, kind <- chainedKind, head <- chainedHead,
        tail <- chainedTail, next <- chainedNext, data <- chainedData, len <- chainedLen,
        node <- chainedNode, row <- chainedRow, given <- chainedGiven
Box == INSTANCE Mail WITH
        Account <- {acc1}, Text <- {"t", "u"}, ReadDir <- MCReadDir, PrefsQuota <- 2,
        MaxQuota <- 3, GivenQuota <- {9}, MaxTime <- 2, now <- boxNow, own <- boxOwn,
        box <- boxBox, listed <- boxListed

savedVars == <<savedUp, savedList, savedAcct, savedMaxuserid, savedFile, savedTemp, savedSaving,
    savedFaults>>
entryVars == <<entryLists, entryReloads, entryProg, entryState, entryVc, entryOffer>>
chainedVars == <<chainedKind, chainedHead, chainedTail, chainedNext, chainedData, chainedLen,
    chainedNode, chainedRow, chainedGiven>>
boxVars == <<boxNow, boxOwn, boxBox, boxListed>>

Start ==
    /\ part \in Parts
    /\ Init /\ Acct!Init /\ Entry!Init /\ Chained!Init /\ Box!Init
    /\ part # "admission" => entryLists = f1 /\ entryProg = Two(lodd, old105)
    /\ part # "lists" => chainedKind = "list"

Step ==
    \/ part = "server" /\ Next /\ UNCHANGED <<part, savedVars, entryVars, chainedVars, boxVars>>
    \/ part = "accounts" /\ Acct!Next /\ UNCHANGED <<part, vars, entryVars, chainedVars, boxVars>>
    \/ part = "admission" /\ Entry!Next /\ UNCHANGED <<part, vars, savedVars, chainedVars,
        boxVars>>
    \/ part = "lists" /\ Chained!Next /\ UNCHANGED <<part, vars, savedVars, entryVars, boxVars>>
    \/ part = "mail" /\ Box!Next /\ UNCHANGED <<part, vars, savedVars, entryVars, chainedVars>>

everything == <<part, vars, savedVars, entryVars, chainedVars, boxVars>>

\* The fairness of each part, in the behaviours that are its own.
Own(tag, Act) == part = tag /\ Act
kept == <<savedVars, entryVars>>
Alone(tag, Act) ==
    /\ Own(tag, Act)
    /\ tag # "accounts" => UNCHANGED savedVars
    /\ tag # "admission" => UNCHANGED entryVars
Fair ==
    /\ WF_vars(Own("server", Turn)) /\ WF_vars(Own("server", Tick))
    /\ WF_savedVars(Own("accounts", Acct!SaveWrite))
    /\ WF_savedVars(Own("accounts", Acct!SaveRename))
    /\ \A c \in {c1, c2} : /\ WF_entryVars(Own("admission", Entry!Accept(c)))
                           /\ WF_entryVars(Own("admission", Entry!Install(c)))
    \* Strong fairness of the actions of one part each: no behaviour is of two of them.
    /\ SF_kept(Alone("accounts", Acct!SaveOpen(acc1)) \/ Alone("admission", Entry!Ask(c1)))
    /\ SF_kept(Alone("accounts", Acct!SaveOpen(acc2)) \/ Alone("admission", Entry!Ask(c2)))
    /\ SF_kept(Alone("admission", Entry!Answer(c1)))
    /\ SF_kept(Alone("admission", Entry!Answer(c2)))
SafeSpec == Start /\ [][Step]_everything
SumSpec == SafeSpec /\ Fair

------------------------------------------------------------------------------
\* Accounts and Lists: an account without unsaved changes can be dropped at any time, and a list
\* and the loops over it agree about its nodes (account.c, list.c).
WithinAgree ==
    /\ part = "accounts" => Acct!TypeOK /\ Acct!CleanIsSaved
    /\ part = "admission" => Entry!TypeOK
    /\ part = "lists" => Chained!TypeOK /\ Chained!Consistent
    /\ part = "mail" => Box!TypeOK

\* Accounts and Mail: neither a crash nor an account made after it takes an account file back,
\* the server never answers with an older value, and a mail stays until its owner deletes it
\* (accountlist_save, account_save, mailbox_deliver, mailbox_delete).
NothingGoesBack ==
    [][/\ part = "accounts" => Acct!FilesForward /\ Acct!AnswersForward
       /\ part = "mail" => Box!Keeps]_everything

\* Admission: a program that the lists describe is let in, but by a line for any program that
\* stands behind another, and one that they do not describe is not (versioncheck_validate).
RightlyJudged == [][part = "admission" => Entry!Judges]_everything

\* Lists: a loop gives every item that stays, once and in order (list.c, hashtable.c).
ImplementsTable == Chained!ImplementsTable

\* Server, Accounts and Admission: a shutdown comes, changes are written and updates come to an
\* end, of the k-th account or client (main loop, accountlist_save, autoupdate_file).
Owes(k) ==
    \/ part = "server" /\ k = 1 /\ Running
    \/ part = "accounts" /\ Acct!Unwritten(<<acc1, acc2>>[k])
    \/ part = "admission" /\ Entry!Updating(<<c1, c2>>[k])
Paid(k) ==
    CASE part = "server" -> Settled
      [] part = "accounts" -> ~Acct!Unwritten(<<acc1, acc2>>[k])
      [] part = "admission" -> Entry!Through(<<c1, c2>>[k])
      [] OTHER -> TRUE
AllHappens == \A k \in {1, 2} : Owes(k) ~> Paid(k)
==============================================================================
