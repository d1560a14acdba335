----------------------------- MODULE D2csClients -----------------------------
(* The clients of the realm server: they log in with what bnetd told them, *)
(* list, create, convert and delete characters, and choose one             *)
(* (src/src/d2cs/handle_d2cs.c, connection.c, d2charfile.c); bnetd is      *)
(* asked about every login and every choice, and its replies meet the      *)
(* request they belong to in sqlist (serverqueue.c, handle_bnetd.c).       *)
(*                                                                         *)
(* A client that has gone never comes back with the same session number:   *)
(* its requests are then Nobody's. A link to bnetd that is lost takes with *)
(* it what was asked over it: such a request can only time out, and is     *)
(* left out of sqlist from then on. RealmLink is about how a link comes    *)
(* back.                                                                   *)
EXTENDS Naturals, FiniteSets, TLAPS

CONSTANTS
    Client,     \* clients of the realm server
    Nobody,     \* the client of a request that has disconnected since
    Acct,       \* accounts
    Of,         \* the account each client has logged into bnetd with
    NoAcct,     \* conn_get_account is NULL
    Char,       \* character names
    NoChar,     \* conn_get_charname is NULL
    SameRow,    \* connections and names: the session number of the one and the hash of the
                \* other fall into the same row of a table of connections
    MaxAsked    \* bound of the requests that wait for a reply

VARIABLES
    state,      \* of each connection: "none", "connected", "authed", "char_authed"
    account, charname,  \* of each connection
    link,       \* there is a connection to bnetd
    online,     \* clients still connected to bnetd, with a realm joined
    sqs,        \* sqlist: [client, kind, name, reply]
    info,       \* the charinfo files, by account and character
    save,       \* the charsave files, by character
    had,        \* history: the characters each account has had so far
    playing     \* characters in a game (gamelist)

vars == <<state, account, charname, link, online, sqs, info, save, had, playing>>

State == {"none", "connected", "authed", "char_authed"}
Request == [client : Client \cup {Nobody}, kind : {"login"}, name : Acct,
            reply : {"none", "yes", "no"}]
           \cup [client : Client \cup {Nobody}, kind : {"char", "create"}, name : Char,
                 reply : {"none", "yes", "no"}]

\* A connection that is authenticated has an account (conn_set_account comes first).
TypeOK ==
    /\ state \in [Client -> State]
    /\ account \in [Client -> Acct \cup {NoAcct}]
    /\ charname \in [Client -> Char \cup {NoChar}]
    /\ sqs \subseteq Request
    /\ \A c \in Client : state[c] \in {"authed", "char_authed"} \/ charname[c] # NoChar
                             => account[c] # NoAcct

Init ==
    /\ state = [c \in Client |-> "none"]
    /\ account = [c \in Client |-> NoAcct]
    /\ charname = [c \in Client |-> NoChar]
    /\ link \in BOOLEAN
    /\ online = Client
    /\ sqs = {}
    /\ info = {}
    /\ save = {}
    /\ had = {}
    /\ playing = {}

files == <<info, save, had>>
conns == <<state, account, charname>>

\* on_d2cs_initconn
Enter(c) ==
    /\ state[c] = "none"
    /\ state' = [state EXCEPT ![c] = "connected"]
    /\ UNCHANGED <<account, charname, link, online, sqs, files, playing>>

\* conn_destroy, also of a connection whose handler failed.
Destroyed(c) ==
    /\ state' = [state EXCEPT ![c] = "none"]
    /\ account' = [account EXCEPT ![c] = NoAcct]
    /\ charname' = [charname EXCEPT ![c] = NoChar]
    /\ sqs' = {IF q.client = c THEN [q EXCEPT !.client = Nobody] ELSE q : q \in sqs}

Leave(c) ==
    /\ state[c] # "none"
    /\ Destroyed(c)
    /\ UNCHANGED <<link, online, files, playing>>

\* sq_create, and the request to bnetd with its number. Without a connection to bnetd
\* there is no queue to push it to, and nothing comes back.
Ask(c, kind, name) ==
    \/ /\ link
       /\ Cardinality(sqs) < MaxAsked
       /\ sqs' = sqs \cup {[client |-> c, kind |-> kind, name |-> name, reply |-> "none"]}
    \/ ~link /\ UNCHANGED sqs

\* on_client_loginreq. The account is what the client says.
LoginReq(c, a) ==
    /\ state[c] = "connected"
    /\ \/ /\ link
          /\ Ask(c, "login", a)
          /\ UNCHANGED conns
       \/ /\ ~link
          /\ Destroyed(c)
    /\ UNCHANGED <<link, online, files, playing>>

\* connlist_find_connection_by_charname looks for the hash of the name in the table that is
\* filled by session number (connlist_head, and not conn_charname_list_head): of the
\* connections with that character it meets those whose number happens to lead to its row.
Met(x) == {d \in Client : charname[d] = x /\ <<d, x>> \in SameRow}

\* conn_check_multilogin, with check_multilogin set: the character is in a game, or the
\* first connection met with it is another one.
Elsewhere(c, x) == x \in playing \/ (Met(x) # {} /\ (CHOOSE d \in Met(x) : TRUE) # c)

Chooses(c) == state[c] \in {"authed", "char_authed"}

\* d2char_create. Its two files are written one after the other; if a write fails, what
\* was written is removed again.
CreateFiles(a, x) ==
    /\ x \notin save
    /\ info' = info \cup {<<a, x>>}
    /\ save' = save \cup {x}
    /\ had' = had \cup {<<a, x>>}

\* on_client_createcharreq: what was created is then logged in, as far as bnetd agrees.
CreateCharReq(c, x) ==
    /\ Chooses(c)
    /\ CreateFiles(account[c], x)
    /\ Ask(c, "create", x)
    /\ UNCHANGED <<conns, link, online, playing>>

\* on_client_charloginreq
CharLoginReq(c, x) ==
    /\ Chooses(c)
    /\ \/ /\ <<account[c], x>> \in info /\ link
          /\ Ask(c, "char", x)
          /\ UNCHANGED conns
       \/ /\ <<account[c], x>> \notin info \/ ~link
          /\ Destroyed(c)
    /\ UNCHANGED <<link, online, files, playing>>

\* d2char_delete: a character is gone when its charinfo is, even if the removal of its
\* charsave fails.
DeleteFiles(a, x) ==
    /\ <<a, x>> \in info
    /\ info' = info \ {<<a, x>>}
    /\ save' \in {save, save \ {x}}
    /\ had' = had

\* on_client_deletecharreq: whatever comes of it, the connection has no character any
\* more. Its state stays as it is.
DeleteCharReq(c, x) ==
    /\ Chooses(c)
    /\ \/ /\ Elsewhere(c, x)
          /\ Destroyed(c)
          /\ UNCHANGED files
       \/ /\ ~Elsewhere(c, x)
          /\ charname' = [charname EXCEPT ![c] = NoChar]
          /\ DeleteFiles(account[c], x) \/ (<<account[c], x>> \notin info /\ UNCHANGED files)
          /\ UNCHANGED <<state, account, sqs>>
    /\ UNCHANGED <<link, online, playing>>

\* on_client_convertcharreq when it is refused; what it writes is not modelled.
ConvertCharReq(c, x) ==
    /\ Chooses(c)
    /\ Elsewhere(c, x)
    /\ Destroyed(c)
    /\ UNCHANGED <<link, online, files, playing>>

\* on_client_joingamereq by a connection that has no character, or one that plays already.
JoinGameRefused(c) ==
    /\ state[c] = "char_authed"
    /\ charname[c] = NoChar \/ Elsewhere(c, charname[c])
    /\ Destroyed(c)
    /\ UNCHANGED <<link, online, files, playing>>

\* The game server reports that the character has entered; D2csGames has the game. What
\* on_client_joingamereq looked up may no longer be so.
EnterGame(c) ==
    /\ state[c] = "char_authed"
    /\ charname[c] # NoChar
    /\ playing' = playing \cup {charname[c]}
    /\ UNCHANGED <<conns, link, online, sqs, files>>

LeaveGame(x) ==
    /\ x \in playing
    /\ playing' = playing \ {x}
    /\ UNCHANGED <<conns, link, online, sqs, files>>

----------------------------------------------------------------------------
(* bnetd and its replies.                                                  *)

\* Mutant: that somebody is online with the account is enough.
ConfirmsAnyone(q) == \E c \in online : Of[c] = q.name

\* on_d2cs_accountloginreq: the connection that the request names by its session number
\* is there, is of that account, and knows the secret of the session.
ConfirmsAccount(q) == q.client # Nobody => (q.client \in online /\ Of[q.client] = q.name)

\* on_d2cs_charloginreq: the connection is there and has joined a realm.
ConfirmsChar(q) == q.client # Nobody => q.client \in online

BnetdReplies(q) ==
    /\ q.reply = "none"
    /\ link
    /\ \E ok \in {IF q.kind = "login" THEN ConfirmsAccount(q) ELSE ConfirmsChar(q)} :
          sqs' = (sqs \ {q}) \cup {[q EXCEPT !.reply = IF ok THEN "yes" ELSE "no"]}
    /\ UNCHANGED <<conns, link, online, files, playing>>

\* on_bnetd_accountloginreply
AccountLoginReply(q) ==
    /\ q.kind = "login"
    /\ q.reply \in {"yes", "no"}
    /\ sqs' = sqs \ {q}
    /\ \/ /\ q.client # Nobody /\ q.reply = "yes"
          /\ account' = [account EXCEPT ![q.client] = q.name]
          /\ state' = [state EXCEPT ![q.client] = "authed"]
       \/ /\ q.client = Nobody \/ q.reply = "no"
          /\ UNCHANGED <<state, account>>
    /\ UNCHANGED <<charname, link, online, files, playing>>

\* on_bnetd_charloginreply, for a character created and for one chosen.
CharLoginReply(q) ==
    /\ q.kind \in {"char", "create"}
    /\ q.reply \in {"yes", "no"}
    /\ sqs' = sqs \ {q}
    /\ \/ /\ q.client # Nobody /\ q.reply = "yes" /\ ~Elsewhere(q.client, q.name)
          /\ charname' = [charname EXCEPT ![q.client] = q.name]
          /\ state' = [state EXCEPT ![q.client] = "char_authed"]
       \/ /\ q.client = Nobody \/ q.reply = "no" \/ Elsewhere(q.client, q.name)
          /\ UNCHANGED <<state, charname>>
    /\ UNCHANGED <<account, link, online, files, playing>>

\* sqlist_check_timeout. A reply that comes after it is nobody's.
SqlistCheckTimeout(q) ==
    /\ q \in sqs
    /\ sqs' = sqs \ {q}
    /\ UNCHANGED <<conns, link, online, files, playing>>

LinkLost ==
    /\ link
    /\ link' = FALSE
    /\ sqs' = {}
    /\ UNCHANGED <<conns, online, files, playing>>

LinkBack ==
    /\ ~link
    /\ link' = TRUE
    /\ UNCHANGED <<conns, online, sqs, files, playing>>

\* conn_destroy in bnetd. Who comes back has another session number there, and with it
\* another connection here.
BnetdLogout(c) ==
    /\ \/ c \in online /\ online' = online \ {c}
       \/ c \notin online /\ state[c] = "none" /\ online' = online \cup {c}
    /\ UNCHANGED <<conns, link, sqs, files, playing>>

Handle(c) ==
    \/ Enter(c) \/ Leave(c) \/ JoinGameRefused(c) \/ EnterGame(c) \/ BnetdLogout(c)
    \/ \E a \in Acct : LoginReq(c, a)
    \/ \E x \in Char : CreateCharReq(c, x) \/ CharLoginReq(c, x) \/ DeleteCharReq(c, x)
                          \/ ConvertCharReq(c, x)

Next ==
    \/ \E c \in Client : Handle(c)
    \/ \E q \in sqs : BnetdReplies(q) \/ AccountLoginReply(q) \/ CharLoginReply(q)
                         \/ SqlistCheckTimeout(q)
    \/ \E x \in Char : LeaveGame(x)
    \/ LinkLost \/ LinkBack

Spec == Init /\ [][Next]_vars

----------------------------------------------------------------------------

\* However requests, replies, timeouts and departures are ordered, a client is only ever
\* taken for the account it is logged into bnetd with (on_bnetd_accountloginreply).
AccountIsItsOwn == \A c \in Client : account[c] \in {NoAcct, Of[c]}

\* However replies cross, get lost or come after the client or the character has gone, no
\* client is given a character that its account never had (on_bnetd_charloginreply, which
\* does not look at the files again). That it is on no other connection is not so: see Met.
CharacterWasItsOwn ==
    \A c \in Client : charname[c] # NoChar => <<account[c], charname[c]>> \in had

\* A character that is listed can be played, and is of one account, also when a file could
\* not be removed (d2char_create, d2char_delete).
FilesAgree ==
    /\ info \subseteq had
    /\ \A f \in info : f[2] \in save
    /\ \A f, g \in info : f[2] = g[2] => f = g

----------------------------------------------------------------------------
(* Proofs: the three properties hold for any clients, accounts and         *)
(* characters, and however many requests wait.                             *)

\* The NULL values are none of the others.
NullAssumption == Nobody \notin Client /\ NoAcct \notin Acct /\ NoChar \notin Char

\* What a request that waits is worth when its reply comes: the login of a client that is
\* still there was confirmed for its own account, and who chooses a character has one.
RequestsAgree ==
    \A q \in sqs : q.client # Nobody =>
        /\ q.kind = "login" /\ q.reply = "yes" => q.name = Of[q.client]
        /\ q.kind # "login" => /\ account[q.client] # NoAcct
                               /\ <<account[q.client], q.name>> \in had

IInv == TypeOK /\ RequestsAgree /\ AccountIsItsOwn /\ CharacterWasItsOwn /\ FilesAgree

\* A request has the fields of its kind.
LEMMA RequestFields ==
    ASSUME NEW q \in Request
    PROVE  /\ q.client \in Client \cup {Nobody} /\ q.kind \in {"login", "char", "create"}
           /\ q.kind = "login" => q.name \in Acct
           /\ q.kind # "login" => q.name \in Char
           /\ q.reply \in {"none", "yes", "no"}
BY DEF Request

\* Answering a request leaves it one.
LEMMA Answered ==
    ASSUME NEW q \in Request, NEW r \in {"yes", "no"}
    PROVE  /\ [q EXCEPT !.reply = r] \in Request
           /\ [q EXCEPT !.reply = r].client = q.client /\ [q EXCEPT !.reply = r].kind = q.kind
           /\ [q EXCEPT !.reply = r].name = q.name /\ [q EXCEPT !.reply = r].reply = r
BY DEF Request

\* A request whose client goes is still one.
LEMMA Orphaned ==
    ASSUME NEW q \in Request
    PROVE  [q EXCEPT !.client = Nobody] \in Request /\ [q EXCEPT !.client = Nobody].client = Nobody
BY DEF Request

\* conn_destroy: the connection has neither account nor character, and no request waits
\* for it any more.
LEMMA DestroyedLemma ==
    ASSUME IInv, NEW c \in Client, Destroyed(c), UNCHANGED files
    PROVE  IInv'
<1>1. ASSUME NEW r \in sqs'
      PROVE  \/ r \in sqs /\ r.client # c
             \/ r \in Request /\ r.client = Nobody
  <2>1. PICK q \in sqs : r = IF q.client = c THEN [q EXCEPT !.client = Nobody] ELSE q
    BY DEF Destroyed
  <2>2. q \in Request
    BY DEF IInv, TypeOK
  <2> QED BY <2>1, <2>2, Orphaned
<1>2. TypeOK'
  BY <1>1 DEF IInv, TypeOK, Destroyed, State
<1>3. RequestsAgree'
  <2> SUFFICES ASSUME NEW r \in sqs', r.client # Nobody
               PROVE  /\ r.kind = "login" /\ r.reply = "yes" => r.name = Of[r.client]
                      /\ r.kind # "login" => /\ account'[r.client] # NoAcct
                                             /\ <<account'[r.client], r.name>> \in had'
    BY DEF RequestsAgree
  <2>1. r \in sqs /\ r.client # c
    BY <1>1
  <2>2. r.client \in Client
    BY <2>1, RequestFields DEF IInv, TypeOK
  <2> QED BY <2>1, <2>2 DEF IInv, TypeOK, RequestsAgree, Destroyed, files
<1>4. AccountIsItsOwn' /\ CharacterWasItsOwn' /\ FilesAgree'
  BY DEF IInv, TypeOK, AccountIsItsOwn, CharacterWasItsOwn, FilesAgree, Destroyed, files
<1> QED BY <1>2, <1>3, <1>4 DEF IInv

\* sq_create, for a client that may ask.
LEMMA AskLemma ==
    ASSUME NullAssumption, IInv, NEW c \in Client,
           NEW kind \in {"login", "char", "create"}, NEW name,
           name \in IF kind = "login" THEN Acct ELSE Char,
           kind # "login" => account[c] # NoAcct /\ <<account[c], name>> \in had',
           Ask(c, kind, name), UNCHANGED conns, FilesAgree', had \subseteq had'
    PROVE  IInv'
<1> DEFINE q == [client |-> c, kind |-> kind, name |-> name, reply |-> "none"]
<1>1. q \in Request /\ q.reply # "yes" /\ q.client = c /\ q.kind = kind /\ q.name = name
  BY DEF Request
<1>2. sqs' = sqs \cup {q} \/ sqs' = sqs
  BY DEF Ask
<1> HIDE DEF q
<1> QED BY <1>1, <1>2 DEF IInv, TypeOK, RequestsAgree, AccountIsItsOwn, CharacterWasItsOwn,
                          conns

\* d2char_create and d2char_delete: a file more or less of a character that has no other.
LEMMA FilesLemma ==
    ASSUME FilesAgree, NEW a, NEW x, CreateFiles(a, x) \/ DeleteFiles(a, x)
    PROVE  FilesAgree' /\ had \subseteq had' /\ (CreateFiles(a, x) => <<a, x>> \in had')
BY DEF FilesAgree, CreateFiles, DeleteFiles

\* bnetd's answer: a login is confirmed only for the account of the client.
LEMMA BnetdRepliesLemma ==
    ASSUME NullAssumption, IInv, NEW p \in sqs, BnetdReplies(p)
    PROVE  IInv'
<1>1. PICK ok \in {IF p.kind = "login" THEN ConfirmsAccount(p) ELSE ConfirmsChar(p)} :
          sqs' = (sqs \ {p}) \cup {[p EXCEPT !.reply = IF ok THEN "yes" ELSE "no"]}
  BY DEF BnetdReplies
<1> DEFINE r == IF ok THEN "yes" ELSE "no"
           q == [p EXCEPT !.reply = r]
<1>2. p \in Request /\ r \in {"yes", "no"}
  BY DEF IInv, TypeOK
<1>3. q \in Request /\ q.client = p.client /\ q.kind = p.kind /\ q.name = p.name /\ q.reply = r
  BY <1>2, Answered
<1>4. p.kind = "login" /\ r = "yes" /\ p.client # Nobody => p.name = Of[p.client]
  BY <1>1 DEF ConfirmsAccount
<1>5. sqs' = (sqs \ {p}) \cup {q}
  BY <1>1
<1> HIDE DEF q, r
<1>6. UNCHANGED <<conns, files>>
  BY DEF BnetdReplies
<1>7. RequestsAgree'
  BY <1>3, <1>4, <1>5, <1>6 DEF IInv, RequestsAgree, conns, files
<1> QED BY <1>3, <1>5, <1>6, <1>7 DEF IInv, TypeOK, AccountIsItsOwn, CharacterWasItsOwn,
                                      FilesAgree, conns, files

\* on_bnetd_accountloginreply: the client named in the request gets the account it named.
LEMMA AccountLoginReplyLemma ==
    ASSUME NullAssumption, IInv, NEW q \in sqs, AccountLoginReply(q)
    PROVE  IInv'
<1>1. q \in Request
  BY DEF IInv, TypeOK
<1>2. CASE q.client # Nobody /\ q.reply = "yes"
  <2>1. q.client \in Client /\ q.name \in Acct /\ q.name = Of[q.client] /\ q.name # NoAcct
    BY <1>1, <1>2, RequestFields DEF IInv, RequestsAgree, AccountLoginReply, NullAssumption
  <2>2. /\ account' = [account EXCEPT ![q.client] = q.name]
        /\ state' = [state EXCEPT ![q.client] = "authed"]
        /\ sqs' = sqs \ {q} /\ UNCHANGED <<charname, files>>
    BY <1>2 DEF AccountLoginReply
  <2>3. RequestsAgree'
    <3> SUFFICES ASSUME NEW r \in sqs, r.client # Nobody, r.kind # "login"
                 PROVE  account'[r.client] # NoAcct /\ <<account'[r.client], r.name>> \in had
      BY <2>2 DEF IInv, RequestsAgree, files
    <3>1. r.client \in Client
      BY RequestFields DEF IInv, TypeOK
    <3>2. /\ account[r.client] # NoAcct /\ account[r.client] = Of[r.client]
          /\ <<account[r.client], r.name>> \in had
      BY <3>1 DEF IInv, RequestsAgree, AccountIsItsOwn
    <3> QED BY <2>1, <2>2, <3>1, <3>2 DEF IInv, TypeOK
  <2>4. CharacterWasItsOwn'
    <3> SUFFICES ASSUME NEW c \in Client, charname[c] # NoChar
                 PROVE  <<account'[c], charname[c]>> \in had
      BY <2>2 DEF CharacterWasItsOwn, files
    <3>1. account[c] = Of[c] /\ <<account[c], charname[c]>> \in had
      BY DEF IInv, TypeOK, AccountIsItsOwn, CharacterWasItsOwn
    <3> QED BY <2>1, <2>2, <3>1 DEF IInv, TypeOK
  <2> QED BY <2>1, <2>2, <2>3, <2>4 DEF IInv, TypeOK, State, AccountIsItsOwn, FilesAgree, files
<1>3. CASE q.client = Nobody \/ q.reply = "no"
  <2>1. sqs' = sqs \ {q} /\ UNCHANGED <<conns, files>>
    BY <1>3 DEF AccountLoginReply, conns, files
  <2> QED BY <2>1 DEF IInv, TypeOK, RequestsAgree, AccountIsItsOwn, CharacterWasItsOwn,
                      FilesAgree, conns, files
<1> QED BY <1>2, <1>3 DEF AccountLoginReply

\* on_bnetd_charloginreply: the character named in the request was of that account.
LEMMA CharLoginReplyLemma ==
    ASSUME NullAssumption, IInv, NEW q \in sqs, CharLoginReply(q)
    PROVE  IInv'
<1>1. q \in Request
  BY DEF IInv, TypeOK
<1>2. CASE q.client # Nobody /\ q.reply = "yes" /\ ~Elsewhere(q.client, q.name)
  <2>1. q.client \in Client /\ q.name \in Char /\ account[q.client] # NoAcct
    BY <1>1, <1>2, RequestFields DEF IInv, RequestsAgree, CharLoginReply
  <2>2. /\ charname' = [charname EXCEPT ![q.client] = q.name]
        /\ state' = [state EXCEPT ![q.client] = "char_authed"]
        /\ sqs' = sqs \ {q} /\ UNCHANGED <<account, files>>
    BY <1>2 DEF CharLoginReply
  <2>3. <<account[q.client], q.name>> \in had
    BY <1>1, <1>2, RequestFields DEF IInv, RequestsAgree, CharLoginReply
  <2> QED BY <2>1, <2>2, <2>3 DEF IInv, TypeOK, State, RequestsAgree, AccountIsItsOwn,
                                  CharacterWasItsOwn, FilesAgree, files
<1>3. CASE q.client = Nobody \/ q.reply = "no" \/ Elsewhere(q.client, q.name)
  <2>1. sqs' = sqs \ {q} /\ UNCHANGED <<conns, files>>
    BY <1>3 DEF CharLoginReply, conns, files
  <2> QED BY <2>1 DEF IInv, TypeOK, RequestsAgree, AccountIsItsOwn, CharacterWasItsOwn,
                      FilesAgree, conns, files
<1> QED BY <1>2, <1>3 DEF CharLoginReply

\* What a client sends, or how it leaves.
LEMMA HandleLemma ==
    ASSUME NullAssumption, IInv, NEW c \in Client, Handle(c)
    PROVE  IInv'
<1>1. CASE Enter(c)
  BY <1>1 DEF Enter, IInv, TypeOK, State, RequestsAgree, AccountIsItsOwn,
              CharacterWasItsOwn, FilesAgree, files
<1>2. CASE Leave(c) \/ JoinGameRefused(c)
  BY <1>2, DestroyedLemma DEF Leave, JoinGameRefused
<1>3. CASE EnterGame(c) \/ BnetdLogout(c)
  BY <1>3 DEF EnterGame, BnetdLogout, IInv, TypeOK, RequestsAgree, AccountIsItsOwn,
              CharacterWasItsOwn, FilesAgree, conns, files
<1>4. ASSUME NEW a \in Acct, LoginReq(c, a) PROVE IInv'
  <2>1. CASE Ask(c, "login", a) /\ UNCHANGED conns
    <3>1. FilesAgree' /\ had \subseteq had'
      BY <1>4 DEF LoginReq, IInv, FilesAgree, files
    <3> QED BY <2>1, <3>1, AskLemma
  <2>2. CASE Destroyed(c)
    BY <1>4, <2>2, DestroyedLemma DEF LoginReq
  <2> QED BY <1>4, <2>1, <2>2 DEF LoginReq
<1>5. ASSUME NEW x \in Char, CreateCharReq(c, x) PROVE IInv'
  <2>1. /\ FilesAgree' /\ had \subseteq had' /\ <<account[c], x>> \in had'
        /\ account[c] # NoAcct /\ Ask(c, "create", x) /\ UNCHANGED conns
    BY <1>5, FilesLemma DEF CreateCharReq, Chooses, IInv, TypeOK
  <2> QED BY <2>1, AskLemma
<1>6. ASSUME NEW x \in Char, CharLoginReq(c, x) PROVE IInv'
  <2>1. CASE <<account[c], x>> \in info /\ Ask(c, "char", x) /\ UNCHANGED conns
    <3>1. /\ FilesAgree' /\ had \subseteq had'
          /\ account[c] # NoAcct /\ <<account[c], x>> \in had'
      BY <1>6, <2>1 DEF CharLoginReq, Chooses, IInv, TypeOK, FilesAgree, files
    <3> QED BY <2>1, <3>1, AskLemma
  <2>2. CASE Destroyed(c)
    BY <1>6, <2>2, DestroyedLemma DEF CharLoginReq
  <2> QED BY <1>6, <2>1, <2>2 DEF CharLoginReq
<1>7. ASSUME NEW x \in Char, DeleteCharReq(c, x) PROVE IInv'
  <2>1. CASE Destroyed(c) /\ UNCHANGED files
    BY <2>1, DestroyedLemma
  <2>2. CASE /\ charname' = [charname EXCEPT ![c] = NoChar]
             /\ UNCHANGED <<state, account, sqs>>
             /\ DeleteFiles(account[c], x) \/ UNCHANGED files
    <3>1. FilesAgree' /\ had \subseteq had'
      BY <2>2, FilesLemma DEF IInv, FilesAgree, files
    <3> QED BY <2>2, <3>1 DEF IInv, TypeOK, RequestsAgree, AccountIsItsOwn,
                              CharacterWasItsOwn
  <2> QED BY <1>7, <2>1, <2>2 DEF DeleteCharReq
<1>8. ASSUME NEW x \in Char, ConvertCharReq(c, x) PROVE IInv'
  BY <1>8, DestroyedLemma DEF ConvertCharReq
<1> QED BY <1>1, <1>2, <1>3, <1>4, <1>5, <1>6, <1>7, <1>8 DEF Handle

\* Every step keeps the invariant.
LEMMA NextIInv == ASSUME NullAssumption, IInv, [Next]_vars PROVE IInv'
<1>1. CASE \E c \in Client : Handle(c)
  BY <1>1, HandleLemma
<1>2. ASSUME NEW q \in sqs, SqlistCheckTimeout(q) PROVE IInv'
  BY <1>2 DEF SqlistCheckTimeout, IInv, TypeOK, RequestsAgree, AccountIsItsOwn,
              CharacterWasItsOwn, FilesAgree, conns, files
<1>3. CASE LinkLost
  BY <1>3 DEF LinkLost, IInv, TypeOK, RequestsAgree, AccountIsItsOwn,
              CharacterWasItsOwn, FilesAgree, conns, files
<1>4. CASE LinkBack \/ (\E x \in Char : LeaveGame(x)) \/ UNCHANGED vars
  BY <1>4 DEF LinkBack, LeaveGame, vars, IInv, TypeOK, RequestsAgree, AccountIsItsOwn,
              CharacterWasItsOwn, FilesAgree, conns, files
<1> QED BY <1>1, <1>2, <1>3, <1>4, BnetdRepliesLemma, AccountLoginReplyLemma, CharLoginReplyLemma
           DEF Next

\* Nobody is connected at first, and there are no files.
LEMMA InitIInv == ASSUME NullAssumption, Init PROVE IInv
BY DEF Init, NullAssumption, IInv, TypeOK, State, RequestsAgree, AccountIsItsOwn,
       CharacterWasItsOwn, FilesAgree

\* The invariant holds always.
THEOREM Invariance == ASSUME NullAssumption PROVE Spec => []IInv
BY InitIInv, NextIInv, PTL DEF Spec

\* However requests, replies, timeouts and departures are ordered, a client of the realm
\* server is only ever taken for the account it is logged into bnetd with.
THEOREM OwnAccount == ASSUME NullAssumption PROVE Spec => []AccountIsItsOwn
<1>1. IInv => AccountIsItsOwn
  BY DEF IInv
<1> QED BY <1>1, Invariance, PTL

\* No client is given a character that its account never had, however replies are ordered,
\* lost or late, and whatever is deleted and created meanwhile.
THEOREM OwnCharacter == ASSUME NullAssumption PROVE Spec => []CharacterWasItsOwn
<1>1. IInv => CharacterWasItsOwn
  BY DEF IInv
<1> QED BY <1>1, Invariance, PTL

\* A character that is listed has a save file and one account, whatever could not be removed.
THEOREM FilesStayInAgreement == ASSUME NullAssumption PROVE Spec => []FilesAgree
<1>1. IInv => FilesAgree
  BY DEF IInv
<1> QED BY <1>1, Invariance, PTL

=============================================================================
