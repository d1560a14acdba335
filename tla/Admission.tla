------------------------------ MODULE Admission ------------------------------
(***************************************************************************)
(* Who may come in, and with which program: bnetd's list of banned         *)
(* addresses (ipban.c), the list of the programs it knows (versioncheck.c) *)
(* and the list of updates it offers (autoupdate.c).  bnetd asks a client  *)
(* to run an equation over its own files, and compares the sum that comes  *)
(* back with the lines it holds THEN: a SIGHUP between question and answer *)
(* replaces them all.  A client that is offered an update installs it and  *)
(* comes back.                                                             *)
(*                                                                         *)
(* The four parts of the tags, the parsing of a line and the files         *)
(* themselves are left out; a version is a natural number.                 *)
(*                                                                         *)
(* Bound: MaxReload on the number of reloads.                              *)
(***************************************************************************)
EXTENDS Naturals, Sequences, SequencesExt, FiniteSets

CONSTANTS
    Client,      \* machines
    AddrOf,      \* [Client -> the four numbers of its address]
    Leq(_, _),   \* addresses as strcmp orders them
    Star,        \* the `*' of a wildcard
    Program, Kind(_), Exe(_), Id(_), Version(_),
    Sum(_, _),   \* the sum of a program under an equation
    Starts,      \* functions [Client -> the program it starts with]
    Old,         \* SUBSET Client: those that send PROGIDENT, not COUNTRYINFO_109
    Files,       \* what the admin may put in place: for each of them the lines
    VersionFile(_), UpdateFile(_), BanFile(_),   \* of the three files, and
    Prefs(_),                                   \* the options that are on
    Dummy,       \* the equation of dummyvc
    None, Absent,
    MaxReload

VARIABLES
    lists,       \* the files behind versioninfo_head, autoupdate_head, the
                 \* bans and the prefs
    reloads,
    prog,        \* [Client -> the program installed]
    state,       \* [Client -> "away", "here", "asked", or what it was told]
    vc,          \* [Client -> c->versioncheck: its equation, or None]
    offer        \* [Client -> the program in the update offered, or None]

vars == <<lists, reloads, prog, state, vc, offer>>

Told == {"ok", "bad", "update"}

TypeOK ==
    /\ lists \in Files
    /\ reloads \in 0..MaxReload
    /\ prog \in [Client -> Program]
    /\ state \in [Client -> {"away", "here", "asked"} \cup Told]
    /\ \A c \in Client :
          /\ state[c] = "asked" => vc[c] # None
          /\ offer[c] # None <=> state[c] = "update"

-----------------------------------------------------------------------------
(* The lists. *)

\* autoupdate_load: a line without its last fields takes the defaults, one
\* whose versions make no sense is dropped
UpdateLine(raw) ==
    [kind |-> raw.kind, to |-> raw.to, tag |-> raw.tag,
     min |-> IF raw.min = Absent THEN 0 ELSE raw.min,
     max |-> IF raw.max = Absent THEN Version(raw.to) ELSE raw.max]

AllUpdates ==
    LET raws == UpdateFile(lists)
    IN  SelectSeq([i \in DOMAIN raws |-> UpdateLine(raws[i])],
                  LAMBDA l : l.min <= l.max)

\* versioncheck_load: the lines in the file's order; none if it cannot be read
Versions == VersionFile(lists)

\* ipban_check: the whole address, a pattern, or what lies between two strings
Banned(a) ==
    \E n \in DOMAIN BanFile(lists) : LET b == BanFile(lists)[n] IN
        \/ b.type = "exact" /\ b.at = a
        \/ b.type = "wildcard" /\ \A i \in 1..4 : b.at[i] \in {Star, a[i]}
        \/ b.type = "range" /\ Leq(b.from, a) /\ Leq(a, b.upto)

\* versioncheck_create: the first line of the client's kind
Create(kind) ==
    LET mine == SelectSeq(Versions, LAMBDA l : l.kind = kind)
    IN  IF mine = <<>> THEN Dummy ELSE Head(mine).eqn

\* The lines versioncheck_validate looks at
SameVersion(l, eqn, p) ==
    /\ l.eqn = eqn /\ l.kind = Kind(p)
    /\ l.versionid = Id(p)
    /\ l.gameversion \in {0, Version(p)}

\* mutant: a sum that matches does not make up for another line's mismatch
JudgeStrict(v, l, sum, exe) ==
    LET bad == IF l.exe = None THEN v.bad ELSE l.exe # exe
        tag == IF l.tag # None THEN l.tag ELSE v.tag
    IN  IF l.sum \in {0, sum} /\ ~bad
        THEN [good |-> TRUE, bad |-> bad, tag |-> tag]
        ELSE [good |-> FALSE, bad |-> TRUE, tag |-> tag]

\* One such line: a line without an exe leaves `bad' as the lines before it
\* made it, and the tag of a line that does not match stays
Judge(v, l, sum, exe) ==
    LET bad == IF l.exe = None THEN v.bad ELSE l.exe # exe
        tag == IF l.tag # None THEN l.tag ELSE v.tag
    IN  IF (l.sum = 0 /\ ~bad) \/ l.sum = sum
        THEN [good |-> TRUE, bad |-> bad, tag |-> tag]
        ELSE [good |-> FALSE, bad |-> TRUE, tag |-> tag]

Unjudged == [good |-> FALSE, bad |-> FALSE, tag |-> None]

\* versioncheck_validate
Validate(eqn, p) ==
    IF eqn = Dummy THEN Unjudged
    ELSE FoldLeft(LAMBDA v, l :
                    IF v.good \/ ~SameVersion(l, eqn, p) THEN v
                    ELSE Judge(v, l, Sum(p, eqn), Exe(p)),
                  Unjudged, Versions)

Passes(v) ==
    v.good \/ (IF v.bad THEN "allow_bad_version"
               ELSE "allow_unknown_version") \in Prefs(lists)

\* The lines autoupdate_file may take: with a tag all of that tag, without
\* one the first of the kind or none
Updates(p, tag) ==
    LET mine == SelectSeq(AllUpdates, LAMBDA l : l.kind = Kind(p))
    IN  IF tag # None
        THEN SelectSeq(mine, LAMBDA l : Version(p) >= l.min /\ l.tag = tag)
        ELSE SelectSeq(IF mine = <<>> THEN mine ELSE <<Head(mine)>>,
                LAMBDA l : Version(p) >= l.min /\ Version(p) < l.max)

-----------------------------------------------------------------------------
(* What the clients and the server do. *)

Init ==
    /\ lists \in Files
    /\ reloads = 0
    /\ prog \in Starts
    /\ state = [c \in Client |-> "away"]
    /\ vc = [c \in Client |-> None]
    /\ offer = [c \in Client |-> None]

\* SIGHUP
Reload(f) ==
    /\ reloads < MaxReload
    /\ reloads' = reloads + 1
    /\ lists' = f
    /\ UNCHANGED <<prog, state, vc, offer>>

\* sd_accept: a banned address is closed at once
Accept(c) ==
    /\ state[c] = "away"
    /\ ~Banned(AddrOf[c])
    /\ state' = [state EXCEPT ![c] = "here"]
    /\ UNCHANGED <<lists, reloads, prog, vc, offer>>

\* CLIENT_PROGIDENT, CLIENT_COUNTRYINFO_109: the question
Ask(c) ==
    /\ state[c] = "here"
    /\ IF c \in Old /\ "skip_versioncheck" \in Prefs(lists)
       THEN state' = [state EXCEPT ![c] = "ok"] /\ UNCHANGED vc
       ELSE /\ state' = [state EXCEPT ![c] = "asked"]
            /\ vc' = [vc EXCEPT ![c] = Create(Kind(prog[c]))]
    /\ UNCHANGED <<lists, reloads, prog, offer>>

\* CLIENT_AUTHREQ1, CLIENT_AUTHREQ_109: the answer, and what it is worth
Answer(c) ==
    LET v == Validate(vc[c], prog[c])
        us == Updates(prog[c], v.tag)
        reply == IF ~Passes(v) THEN "bad"
                 ELSE IF us # <<>> THEN "update" ELSE "ok"
    IN  /\ state[c] = "asked"
        /\ state' = [state EXCEPT ![c] = reply]
        /\ offer' = [offer EXCEPT ![c] =
                        IF reply = "update" THEN Head(us).to ELSE None]
        /\ UNCHANGED <<lists, reloads, prog, vc>>

\* The client fetches the file, installs it and starts again
Install(c) ==
    /\ state[c] = "update"
    /\ prog' = [prog EXCEPT ![c] = offer[c]]
    /\ state' = [state EXCEPT ![c] = "away"]
    /\ vc' = [vc EXCEPT ![c] = None]
    /\ offer' = [offer EXCEPT ![c] = None]
    /\ UNCHANGED <<lists, reloads>>

\* conn_destroy
HangUp(c) ==
    /\ state[c] \in {"here", "asked", "ok", "bad"}
    /\ state' = [state EXCEPT ![c] = "away"]
    /\ vc' = [vc EXCEPT ![c] = None]
    /\ UNCHANGED <<lists, reloads, prog, offer>>

Next ==
    \/ \E f \in Files : Reload(f)
    \/ \E c \in Client :
          Accept(c) \/ Ask(c) \/ Answer(c) \/ Install(c) \/ HangUp(c)

\* A client that updates goes on to the end; those that have an answer they
\* can play with, or none, may go.
Fairness ==
    \A c \in Client :
        /\ WF_vars(Accept(c)) /\ SF_vars(Ask(c)) /\ SF_vars(Answer(c))
        /\ WF_vars(Install(c))

Spec == Init /\ [][Next]_vars /\ Fairness

-----------------------------------------------------------------------------
(* Properties *)

\* What a line says of a program: its exe and its sum, each unless disabled
Disabled(l) == l.exe = None /\ l.sum = 0
Describes(l, eqn, p) ==
    /\ SameVersion(l, eqn, p)
    /\ l.exe \in {None, Exe(p)}
    /\ l.sum \in {0, Sum(p, eqn)}

Line(i) == Versions[i]

(* A program that a line of the list describes is refused only when the    *)
(* line has both checks disabled and stands behind one of the version that *)
(* does not describe it, whatever was reloaded meanwhile; and where        *)
(* modified programs are not allowed, one of a version that is listed goes *)
(* on only if some line describes it or has its sum, which makes up for    *)
(* another exe (versioncheck.c:152).                                       *)
Judges ==
    \A c \in Client :
        state[c] = "asked" /\ state'[c] \in Told =>
          LET p == prog[c]
              known == {i \in DOMAIN Versions :
                            SameVersion(Line(i), vc[c], p)}
              describing == {i \in known : Describes(Line(i), vc[c], p)}
          IN  /\ state'[c] = "bad" =>
                   \A i \in describing :
                       Disabled(Line(i)) /\ \E j \in known \ describing : j < i
              /\ state'[c] # "bad" /\ known # {}
                     /\ "allow_bad_version" \notin Prefs(lists) =>
                   \/ describing # {}
                   \/ \E i \in known : Line(i).sum = Sum(p, vc[c])
RightlyJudged == [][Judges]_vars

(* Updating comes to an end: a client that installs what it is offered is  *)
(* let in or refused in the end, unless it is banned meanwhile             *)
(* (autoupdate.c autoupdate_file, handle_bnet.c CLIENT_AUTHREQ_109).       *)
Updating(c) == state[c] = "update"
Through(c) == state[c] \in {"ok", "bad"} \/ Banned(AddrOf[c])
UpdatesEnd == \A c \in Client : Updating(c) ~> Through(c)
=============================================================================
