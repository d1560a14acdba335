------------------------------ MODULE Accounts ------------------------------
(***************************************************************************)
(* The account database of a bnetd server.  Every account is in the list   *)
(* all the time; its attributes are read from its file when they are       *)
(* needed and dropped again when nobody has asked for them for some time.  *)
(* Changed accounts are written by the periodic save: to a temporary file  *)
(* first, which is then renamed over the account's.  The server may crash  *)
(* between any two of these steps and start again from the files.          *)
(***************************************************************************)
EXTENDS Naturals, FiniteSets, FiniteSetsExt

CONSTANTS
    Name,           \* account names
    Flush, Sync,    \* user_flush_timer and user_sync_timer, in periods
    MaxUid, MaxChange, MaxFaults,   \* bounds: accounts made, changes, faults
    NoFile, Part, NoName

\* Of the configuration: both timers run.
Timers == {Flush, Sync} \subseteq Nat \ {0}

VARIABLES
    up,         \* "down", "up", or "stopping" while accountlist_destroy runs
    list,       \* the names in the account list
    acct,       \* the account of each of them
    maxuserid,
    file,       \* file[u]: the account file of user id u
    temp,       \* the temporary file: none, part of an account, or all of it
    saving,     \* the account whose temporary file is being written
    faults

vars == <<up, list, acct, maxuserid, file, temp, saving, faults>>

Account == [uid : 1..MaxUid, loaded : BOOLEAN, dirty : BOOLEAN, accessed : BOOLEAN,
            age : 0..(3 * Flush) \div 2, attr : 0..MaxChange]
File    == [name : Name, attr : 0..MaxChange]
Unsaved == [uid |-> maxuserid + 1, loaded |-> TRUE, dirty |-> TRUE,
            accessed |-> TRUE, age |-> 0, attr |-> 0]

TypeOK ==
    /\ up \in {"up", "down", "stopping"}
    /\ list \subseteq Name
    /\ acct \in [list -> Account]
    /\ maxuserid \in 0..MaxUid
    /\ file \in [1..MaxUid -> File \cup {NoFile}]
    /\ temp \in {NoFile, Part} \cup File
    /\ saving \in list \cup {NoName}
    /\ faults \in 0..MaxFaults

Init ==
    /\ up = "up" /\ list = {} /\ acct = [n \in {} |-> Unsaved]
    /\ maxuserid = 0
    /\ file = [u \in 1..MaxUid |-> NoFile]
    /\ temp = NoFile /\ saving = NoName /\ faults = 0

Idle == up = "up" /\ saving = NoName
Fault == faults < MaxFaults /\ faults' = faults + 1

-----------------------------------------------------------------------------
(* account_create and accountlist_add_account: the new account has the     *)
(* next user id; its name must be new.  It has no file before it is saved. *)
Create(n) ==
    /\ Idle /\ n \notin list /\ maxuserid < MaxUid
    /\ list' = list \cup {n}
    /\ acct' = [k \in list \cup {n} |-> IF k = n THEN Unsaved ELSE acct[k]]
    /\ maxuserid' = maxuserid + 1
    /\ UNCHANGED <<up, file, temp, saving, faults>>

(* account_load_attrs: reads the file unless the attributes are there; it  *)
(* refuses an account that is dirty without them.                          *)
LoadAttrs(a) ==
    IF a.loaded \/ a.dirty THEN a
    ELSE [a EXCEPT !.loaded = TRUE, !.attr = file[a.uid].attr]

(* account_get_strattr.  When the file cannot be opened the caller gets    *)
(* nothing.                                                                *)
GetAttr(n) ==
    /\ Idle /\ n \in list
    /\ \/ /\ acct' = [acct EXCEPT ![n] = [LoadAttrs(@) EXCEPT !.accessed = TRUE]]
          /\ UNCHANGED faults
       \/ /\ ~acct[n].loaded /\ Fault
          /\ acct' = [acct EXCEPT ![n].accessed = TRUE]
    /\ UNCHANGED <<up, list, maxuserid, file, temp, saving>>

(* account_set_strattr: nothing changes when the attributes are not there. *)
SetAttr(n) ==
    /\ Idle /\ n \in list
    /\ LET a == LoadAttrs(acct[n]) IN
       /\ a.attr < MaxChange
       /\ acct' = [acct EXCEPT ![n] = [a EXCEPT !.dirty = TRUE, !.attr = @ + 1]]
    /\ UNCHANGED <<up, list, maxuserid, file, temp, saving, faults>>

-----------------------------------------------------------------------------
(* account_save: the account ages unless it was used since the last save.  *)
Cap(age) == Min({age, (3 * Flush) \div 2})
Aged(a, delta) ==
    [a EXCEPT !.accessed = FALSE,
              !.age = Cap(IF a.accessed THEN a.age \div 2 ELSE a.age + delta)]
(* account_unload_attrs *)
Unload(a) == [a EXCEPT !.loaded = FALSE, !.attr = 0]

(* An account that need not be written is unloaded when it is old.         *)
SaveClean(n) ==
    /\ Idle /\ n \in list /\ ~(acct[n].loaded /\ acct[n].dirty)
    /\ LET a == Aged(acct[n], Sync) IN
       acct' = [acct EXCEPT ![n] = IF a.loaded /\ a.age >= Flush THEN Unload(a) ELSE a]
    /\ UNCHANGED <<up, list, maxuserid, file, temp, saving, faults>>

Delta == IF up = "stopping" THEN 0 ELSE Sync

(* Otherwise the temporary file is opened, which empties it, ...           *)
SaveOpen(n) ==
    /\ up # "down" /\ saving = NoName
    /\ n \in list /\ acct[n].loaded /\ acct[n].dirty
    /\ acct' = [acct EXCEPT ![n] = Aged(@, Delta)]
    /\ saving' = n /\ temp' = Part
    /\ UNCHANGED <<up, list, maxuserid, file, faults>>

(* ... written and closed, ...                                             *)
SaveWrite ==
    /\ saving # NoName /\ temp = Part
    /\ temp' = [name |-> saving, attr |-> acct[saving].attr]
    /\ UNCHANGED <<up, list, acct, maxuserid, file, saving, faults>>

(* ... and renamed; only then the account is clean.                        *)
SaveRename ==
    /\ saving # NoName /\ temp # Part
    /\ file' = [file EXCEPT ![acct[saving].uid] = temp]
    /\ temp' = NoFile
    /\ acct' = [acct EXCEPT ![saving].dirty = FALSE]
    /\ saving' = NoName
    /\ UNCHANGED <<up, list, maxuserid, faults>>

(* Any of the three may fail: the account stays dirty.  At the end of      *)
(* the program it is dropped all the same.                                 *)
SaveFails ==
    /\ saving # NoName /\ Fault
    /\ saving' = NoName
    /\ list' = IF up = "stopping" THEN list \ {saving} ELSE list
    /\ acct' = [n \in list' |-> acct[n]]
    /\ UNCHANGED <<up, maxuserid, file, temp>>

-----------------------------------------------------------------------------
(* accountlist_destroy at the end of the program: every account is saved   *)
(* if it is dirty, then removed.                                           *)
Stop == Idle /\ up' = "stopping"
        /\ UNCHANGED <<list, acct, maxuserid, file, temp, saving, faults>>
Drop(n) ==
    /\ up = "stopping" /\ saving = NoName /\ n \in list
    /\ ~(acct[n].loaded /\ acct[n].dirty)
    /\ list' = list \ {n} /\ acct' = [k \in list' |-> acct[k]]
    /\ UNCHANGED <<up, maxuserid, file, temp, saving, faults>>
Stopped ==
    /\ up = "stopping" /\ list = {}
    /\ up' = "down" /\ maxuserid' = 0
    /\ UNCHANGED <<list, acct, file, temp, saving, faults>>

(* A crash, at any moment.                                                 *)
Crash ==
    /\ up # "down" /\ Fault
    /\ up' = "down" /\ list' = {} /\ acct' = [n \in {} |-> Unsaved]
    /\ maxuserid' = 0 /\ saving' = NoName
    /\ UNCHANGED <<file, temp>>

(* accountlist_create: reads every file of the directory but the temporary *)
(* one (its name begins with a dot), refuses an account whose name or uid  *)
(* it has, and unloads each (account_save with a delta that makes it old). *)
Start ==
    /\ up = "down"
    /\ up' = "up"
    /\ LET Read == {u \in 1..MaxUid : file[u] # NoFile} IN
       /\ maxuserid' = IF Read = {} THEN 0 ELSE Max(Read)
       /\ list' = {file[u].name : u \in Read}
       /\ acct' = [n \in list' |->
              [uid |-> CHOOSE u \in Read : file[u].name = n, loaded |-> FALSE,
               dirty |-> FALSE, accessed |-> FALSE, age |-> Cap(1000), attr |-> 0]]
    /\ UNCHANGED <<file, temp, saving, faults>>

Next ==
    \/ \E n \in Name : \/ Create(n) \/ GetAttr(n) \/ SetAttr(n)
                       \/ SaveClean(n) \/ SaveOpen(n) \/ Drop(n)
    \/ SaveWrite \/ SaveRename \/ SaveFails
    \/ Stop \/ Stopped \/ Crash \/ Start

(* server_process runs accountlist_save every user_sync_timer seconds.     *)
Spec == /\ Init /\ [][Next]_vars
        /\ \A n \in Name : SF_vars(SaveOpen(n))
        /\ WF_vars(SaveWrite) /\ WF_vars(SaveRename)

-----------------------------------------------------------------------------
(* What an account would answer now: its attributes, or its file's.        *)
Answer(n) == IF acct[n].loaded THEN acct[n].attr ELSE file[acct[n].uid].attr

(* An account without unsaved changes can be dropped from memory at any    *)
(* time: its own file, which no other account writes, holds what it has.   *)
CleanIsSaved ==
    \A n \in list : ~acct[n].dirty =>
        /\ file[acct[n].uid] # NoFile /\ file[acct[n].uid].name = n
        /\ Answer(n) = file[acct[n].uid].attr

(* Whatever is unloaded, saved, read again, refused by the disk or lost in *)
(* a crash, the running server never answers with an older value than it   *)
(* did before.                                                             *)
AnswersForward == \A n \in list \cap list' : Answer(n)' >= Answer(n)
AnswersGoForward == [][AnswersForward]_vars

(* An account file once written is there for good, belongs to the same     *)
(* account and is only ever replaced as a whole by a newer one: by no      *)
(* crash, and by no account made after a restart.                          *)
FilesForward ==
    \A u \in 1..MaxUid : file[u] # NoFile =>
        /\ file'[u] \in File
        /\ file'[u].name = file[u].name /\ file'[u].attr >= file[u].attr
FilesGoForward == [][FilesForward]_vars

(* A change is written in the end, unless the server stops first.          *)
Unwritten(n) == n \in list /\ acct[n].dirty
ChangesAreSaved == \A n \in Name : Unwritten(n) ~> ~Unwritten(n)
=============================================================================
