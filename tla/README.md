# A TLA+ model of bnetd

bnetd is a Battle.net server: chat and games for Blizzard's clients (`src/src/bnetd`), with two
companions for Diablo II realms, the realm server d2cs (`src/src/d2cs`) and the character database
server d2dbs (`src/src/d2dbs`), a tracker (`src/src/bntrackd`), a proxy (`src/src/bnproxy`) and a few
clients (`src/src/client`). Each server is one process with one thread, a loop over sockets; what goes
wrong in it goes wrong *between* handlers, not inside of them: the order in which packets, closed
connections, timers and signals arrive, and the pointers that one handler leaves for the next.

So every module has one action per handler, with all that the handler changes. Where a handler calls
others that change the same state (joining a channel may destroy one, create one and elect an
operator) the functions are operators from a state record to a state record, and the action is their
composition, in the order of the code.

## Inventory

| Component | State | Operations | Hard to get right | Module |
|---|---|---|---|---|
| **bnetd**: channels | `channellist_head`, members, operator, designee, bans; `c->channel`, flags | join, leave, kick, ban, designate, resign, rollover, disconnect; reload on SIGHUP | pointers between connections and channels, office and flag, limits, a reload with everyone inside | `Channel`, `ChannelReload` |
| messages | queues, shared packets, ignore lists | format, send, write out | whose packet is shared with whom, order, counts | `Messages` |
| flags | flags of members, UDP test | join, office, plug, signs | who has seen which | `Flags` |
| connections, logins, watches | `conn_head`, state, account; watch list | accept, login by four classes of client, /kill, /quit, watch, the traversal that frees | two logins to one account, marks that wait for the traversal, watch messages in order | `Session` |
| text clients, timers | dialogue state, `timerlist_head` | bot, telnet and irc logins, pings, null messages | memory of a connection used again | `TextClients` |
| packets and lines | read buffer, class | read in pieces, init byte, lines | sizes at their limits | `Framing` |
| games | `gamelist_head`, players, connections, results; `c->game` | create, join, leave, report, count | entries of one who left and came back, contradicting reports, the last one out | `Game` |
| game lists | tags, statuses, options, addresses | announce, list, join, close, translate | three tables of kinds, hosts that change | `GameList` |
| ladder, rating | standings, three lists, current and active | update, activate, restart; chances of 2–8 players | lists and accounts that must agree; closed formulas | `Ladder`, `Elo` |
| accounts | accounts, files, dirty and accessed | load, unload, save, create, crash | a crash between the steps of a save | `Accounts` |
| admission | bans, versions, updates | accept, ask, answer, update, reload | question and answer on both sides of a reload | `Admission` |
| mail | mailboxes | send, delete | numbers that are positions | `Mail` |
| server process | phase, sockets, signals, exit time | start, turn, shutdown, cancel, save, end | a shutdown moved and called off | `Server` |
| realms | `realm->active`, links, logins | connect, time out, reconnect | the end of an old link seen after a new one | `RealmLink` |
| realm clients | bound connections, characters, counts | join a realm, auth, list, play | two connections that point to each other | `RealmClients` |
| clustering (BITS) | sessions, account copies and locks, games, queries | login, lock, load, change, create, join; query and time out | messages that cross each other | `BitsLogins`, `BitsAccounts`, `BitsGames`, `Queries` |
| common structures | lists with lazy removal, hash tables | add, remove, traverse, purge | what a traversal sees | `Lists`, `OrderedTable` |
| files | a transfer in blocks | fetch, break off, resume | a file replaced meanwhile | `FileTransfer` |
| clients | bnchat, bnstat | connect, log in, chat, ask | waiting for one packet and dropping all others | `Conversation` |
| **d2cs**: games and game servers | `gamelist`, `gqlist`, `sqlist`, `d2gslist`; `c->gamequeue` | create, queue, cancel, join, replies, timeouts, links, reload | counts kept in several files, the queue, late replies, a server on two links | `D2csGames` |
| clients and characters | client states, character files, `sqlist` | login over bnetd, list, create, convert, delete, choose | replies that meet a client that went | `D2csClients` |
| **d2dbs**: locks | `clitbl`, `gsqtbl`, connections and their buffers | get, save, lock, unlock; accept, verify, lose | a character on two servers, full buffers, broken links | `D2dbs`, `OneServer` |
| loop | read and write buffers in bytes | read, write, handle, keepalive, time out | when `select` asks for what | `D2dbsLoop` |
| ladder (d2dbs, d2cs) | lists, file, backup | rank, save, crash, load, show | a file replaced in several steps | `D2Ladder` |
| **bnproxy** | a virtual connection | pass on in both directions | files among packets | `Proxy` |
| **bntrackd** | slots by address, the file | report, expire, dump | lost and late reports | `Tracker` |
| BITS chat, text files and advertisements, encodings, configuration, tools, portability | | | | not modelled, see below |

What makes each correct is stated as the properties of its module; `hazards` in `PROJECT.json` gives
the place in the code where each could go wrong, and the properties that would show it.

How they interact: a client connection of bnetd points to one channel, one game and one account, and
`conn_destroy` takes it out of all of them. d2cs tells bnetd of its realm and asks it to check logins
and characters; d2cs asks game servers to create games; game servers ask d2dbs for characters. Within
d2cs a game that goes makes room on its game server, which at once serves the queue. bnetd and d2cs
cut packets by the same functions, and all servers use the same lists.

## How the modules are put together

A component's module has its state, `Init`, one action for each handler, `Next`, `Spec` and the parts
of its properties. There is one MC module for each group of components that share code. It EXTENDS one
of their modules, the root, and INSTANCEs the others with variables of their own. A variable `part`,
chosen at the start, says which of them moves: a behaviour of the sum is one of exactly one part, the
variables of the others keep their initial values, and a run visits as many states as its parts
together. A property of a part is guarded by `part = "..."`; fairness is stated for each part
(`Own(tag, Act)`). So one run answers one question about a group of components, and no product of
independent state spaces is explored. Interaction that matters is inside a module: `Session` has
logins, watches and the traversal together, `D2csGames` games, queue, requests and links, `D2dbs` both
ends of its links.

`Parts` in the `.cfg` lists the parts of a run. The constants of the root are in the `.cfg` too, those
of the other parts beside their INSTANCE in the MC module.

## Modules

### Channel, ChannelReload, Messages (MCChannel)
A channel is a record of its configuration, its members (newest first, as the linked list), count,
operator, designee and bans; `at` is `c->channel`, `gavel` the flag `MF_GAVEL`. `FindChannel` is
`channellist_find_channel_by_name` with the rollover to another instance of a permanent channel;
`SetChannel` is `conn_set_channel`, which leaves, looks up, creates and joins; `ChooseOperator` is
`channel_choose_operator` with its three callers. Names are model values; what `channel_format_name`
prints for the k-th instance is the triple of its arguments. Users are accounts with one connection.

`ChannelReload` is `channellist_reload` on SIGHUP, over `Channel`: channels are freed, the configured
ones made again, and the members join again by short name, in one step, in the order of the code. A
member of a channel whose short name is NULL ends the server (`up`), since the name is copied with
`strdup`; from there nothing moves.

`Messages` is `message_send` and its callers: a packet is formatted once for a class of connection and
a view of the sender, shared by the queues of those it is for, counted, and written piece by piece.

### Session, TextClients, Framing, Flags, Conversation, FileTransfer, Proxy (MCSession)
In `Session`, `conns` is the connection list, `left` what remains of the loop's traversal (taken when
the pass begins; what is accepted joins the next pass). Each visit serves one packet or frees the
connection. A login marks the first connection that the account is found on. `told` remembers the last
event a watcher was sent about an account.

`TextClients` has the dialogues of bot, telnet and irc connections and their timers, where a member of
`Conn` is a piece of memory: the next connection at the same place must not inherit anything. `Framing`
takes packets and lines out of bytes that come in any pieces; `Flags` is what members of a channel are
told of each other's flags: on joining and leaving, when an operator is made, designated or gone, by
/flag, /tag and the pings, and with all they say. `Conversation` is bnchat or bnstat talking to bnetd
packet by packet, `FileTransfer` a fetch that breaks off and resumes, `Proxy` one virtual connection of
bnproxy. Names at the limit (`AtLimit`, `Huge`), a file that shrinks and a file fetched from the middle
through the proxy are in the instances; where the code then hangs, the operators `PassedOver`, `Wrapped`
and `Kept` say so, and `NothingIsKept` excepts exactly these (see below).

### Game, GameList, Ladder, Elo, D2Ladder (MCGame)
Entries of a game stay for its life, as in the arrays of `t_game`; a player who leaves has its
connection cleared, and one who comes back gets another entry. `DelPlayer` is `game_del_player`: the
last one out has the results counted and the game destroyed. `GameReport` is the whole handler of
CLIENT_GAME_REPORT: the claims are checked against what is known, then set, and the reporter leaves.

`GameList` is what clients announce and are shown, ladder games included whose creator may not play
in one and kinds that a client is shown as unknown; `Ladder` the standings and lists of `ladder.c`;
`Elo` the formulas of `ladder_calc.c`, compared with a sum over tournaments: since each formula is
multilinear in the chances of the pairs it is enough to compare where each is 0 or 1. `D2Ladder` is
the ladder of the realm, whose file d2dbs replaces in steps while d2cs may read it. A report is whatever
the game server sends, also less than before: of a character deleted and made again under its name
(`again`). Such a name may then stand twice or out of order, and the order is claimed of the others.

### D2csGames, D2csClients, RealmClients (MCD2csGames)
`World` is what the handlers of `D2csGames` share: games by name, counts and capacity of game servers,
their links, the queue, the requests that wait for a reply. `CheckCreateGame` serves one of the queue;
`DestroyGame` calls it, and so do `CreateReply`, `CloseGame`, `VoidGame`, `Disconnect`, `Reload` and
`Authenticate` through it. A game server may connect again before the end of its first link is seen.
Session numbers and game ids are never used again, so a request whose client or game is gone is marked.

`D2csClients` has the clients of d2cs and the replies of bnetd to them. The check for another connection
with a character (`conn_check_multilogin`) looks in the table that is filled by session number, so the
connections it meets (`Met`) are those whose number happens to fall in the row of the name (`SameRow`).
`RealmClients` is the side of bnetd: bound connections, characters and what a realm counts. A client may
log in on a second auth connection (`twice`), a realm be read again at any time, and names may differ in
case only; what then goes wrong is named in the properties and listed below.

### D2dbs, D2dbsLoop, RealmLink, Tracker (MCD2dbs)
`D2dbs` has links with their read buffers (packets) and write buffers (replies), the locks, and what
each game server plays. The game servers are not in the repository; they are modelled from how d2dbs
uses them: they ask for a character they do not have, play what they are sent, save and unlock it when
it leaves. `OneServer` is what the locks are for: a character is sent to a server only when it is on
none, and leaves the one it is on. `ImplementsOneServer` maps its `on` to the servers that play a
character or that a granted reply waits for. It needs links that hold: a server that loses its link
loses its locks and goes on playing.

`D2dbsLoop` counts the bytes in the buffers, `RealmLink` has both ends of the link between d2cs and
bnetd, `Tracker` bntrackd and the servers that report to it. The part `void` is `D2csGames` with one
client, whose games are never created by their server and must go away again.

### BitsLogins, BitsAccounts, BitsGames, Queries (MCBits)
A tree of bnetd servers built with `--with-bits`: sessions, shared accounts and games at the master and
their copies, over links that keep their order; and the queries of a server that is not the master. An
account without a password is logged in without asking the master and stands in no login list; at a
slave that is any account not loaded yet. `BitsAccounts` keeps, as history, which locks a server let go
of while they were needed below (`forgotten`) and which changes crossed each other (`crossed`); `fresh`
is `accessed`, set by each lookup and cleared by `account_save`, so an account that clients go on asking
for may stay undecided for as long.
A query that times out is dropped without a word; the handler for a server that waits to be let in means
to hang up, but returns before, for want of a reply.

### Server, Accounts, Admission, Lists, OrderedTable, Mail (MCServices)
`Server` is the life of the process: one turn of the loop is `Top` (signals taken, the end of the loop,
clients told, accounts saved) and a pass over the sockets. `Accounts` writes to a temporary file that
is renamed; the server may crash between the steps. `Admission` asks a client by the lists of now and
judges the answer by those of then. `Lists` is list.c and hashtable.c with removed nodes that wait for
a purge, and implements `OrderedTable`: a traversal gives each item that stays, once and in order.
`Mail` numbers what a directory holds in any order.

## Runs

| Run | Parts and instance | Distinct states | Result |
|---|---|---|---|
| channel | `channel`: 3 users, 1 permanent and 1 private channel; `reload`: 2 users, 2 locales, 4 names; `messages`: 3 connections of 2 classes | 114,436 | 6 properties hold |
| session | `session`: 3 connections, 2 accounts; `talk`: 2 calls of bnchat; `long`: 5 calls of 2 programs, names at their limits; `fetch`: files of up to 3 blocks, 2 versions; `framing`: streams of 2 or 3 packets or lines; `text`: 2 places for connections; `flags`: 3 members; `proxy`: 7 pairs of streams | 129,220 | 8 hold |
| session_twice | `session` with kick_old_login on | | LoggedInOnce fails |
| game | `game`: 2 players, 2 games, 3 entries; `list`: 2 clients, 2 games; `ladder`: 2 accounts, 2 ladders, 2 games, 2 turns; `elo`: 2–6 and 8 players; `d2ladder`: 3 characters, 3 updates, some less than before | 236,621 | 6 hold |
| game_twice | `game` | | CountedOnce fails |
| d2cs_games | `games`: 1 server, 2 links, 2 clients, capacity up to 2; `clients`: 2 connections; `realms`: 2 connections, 2 realms, a game; `characters`: 3 connections, 2 names that differ in case | 575,527 | 4 hold |
| d2cs_queue | `games`, capacity 1, one client refused | | QueueIsChecked fails |
| d2dbs | `locks`: 2 servers, 2 characters, links that hold; `loop`: 2 links, 2 requests; `realm`: 2 links; `void`: 1 client; `tracker`: 2 servers | 62,751 | 5 hold |
| d2dbs_lost | `locks`: 3 links that break, 2 servers | 1,639,030 | LocksHaveLink holds |
| d2dbs_full | `locks`, a write buffer with room for one reply | | WaitingChangesNothing fails |
| bits | a chain of 3 servers: `logins`; `changes`: 1 account, 2 writers; `locks`: 2 accounts, one that nobody has; `lists`: 2 accounts; `games`; one server: `queries` | 641,564 | 3 hold |
| services | `server`: 2 clients; `accounts`: 2 accounts; `admission`: 2 clients, 3 lists; `lists`: 3 nodes, 2 rows; `mail`: 1 mailbox | 128,249 | 7 hold |

What they ask:

* `channel`: lists and pointers agree, the banned stay out, the gavel is the operator's (`ChannelsAgree`);
  nobody becomes operator without designation or right while an older member has one
  (`OperatorByRight`); an instance is made only when all are full (`RolloverOnlyWhenFull`); a reload
  forgets bans and offices and loses nobody (`ReloadForgets`); who ignores is sent nothing, what is
  said comes in order (`IgnoringDecides`, `SentInOrder`).
* `session`: one connection per account (`OneHolder`), watchers told what is so (`TruthfulWatch`),
  marks that are final and carried out (`MarkedIsFinal`, `MarkedIsFreed`); packets, blocks and lines
  get where they are meant (`InPlace`), timers belong to who has them (`TimersMatch`), flags are seen as
  they are (`SeenAsTheyAre`), nobody waits for ever but for what is named there (`NothingIsKept`).
* `game`: pointers, entries, hosts and counts of games agree (`GamesSound`); settled results stand and
  records change once, at the end (`SettledStands`, `CountedAtTheEnd`); what is announced is found
  (`AnnouncedIsFound`); ladders and chances are right (`ResultsRight`), and a crash in a save leaves
  the lists of before or after (`RestartKeeps`).
* `d2cs_games`: counts of games (`GamesCounted`), no place free with somebody waiting for it
  (`QueueServed`), no client with an account or a character that never was its own (`AccountIsItsOwn`), what bnetd keeps of realms
  and its characters, and its counts but for the two steps that put them out (`CountsAgree`).
* `d2dbs`: a character played has its lock, so it is on one server (`PlayerHasLock`), the refinement
  (`ImplementsOneServer`), every get is answered (`GetIsAnswered`); the realm's link
  (`ServesTheRealm`); what is gone goes and what is there comes up (`ComesAndGoes`).
* `d2dbs_lost`: whatever breaks, a lock has a server that is connected (`LocksHaveLink`).
* `bits`: the cluster agrees where nothing is under way (`ClusterAgrees`), queries whose account has
  come are served (`ReadyIsServed`), nothing stays undecided (`NobodyWaits`).
* `services`: clients are told of a shutdown and nothing stays open (`Orderly`, `NoSurprise`); files and
  answers never go back (`NothingGoesBack`); accounts, lists and mail agree (`WithinAgree`); programs
  are judged by the right lists (`RightlyJudged`); lists implement the table (`ImplementsTable`); what
  is due happens (`AllHappens`).

For every property there is a mutant in `PROJECT.json`: one definition changed as a bug would change
it (`...Keeps...`, `...Only`, `...Silent` and so on, next to the definition), for which TLC finds the
property violated.

**Bounds.** The sizes are the smallest at which two actors can interfere with a third in each of the
hazards: a third user finds the second instance full, a third connection finds a marked one, a second
link overtakes the first, a player leaves and comes back while the other reports (three entries), a
third server passes on what the second asks. Bounds on counters (`MaxGames`, `MaxEntries`, `MaxTime`,
`MaxSession`, `MaxUpdates`, `MaxTurns`, `Requests`, `MaxLag`) are constants, named where they are
declared and met only in guards; for `Channel`, `Session`, `Game`, `D2csGames`, `D2csClients`, `D2dbs`,
`Flags` and `Server` the proofs below show that they hide nothing from the theorems. Constants that
stand for a size of the code are smaller than there and of the same kind: a write buffer has room for
one reply, so that it is full half of the time; `LadderMinimum` is 10 in the code and 1 in the run, so
that a player can qualify within it.

**Where a run may stop.** `CHECK_DEADLOCK FALSE` is in the runs with a part that ends: a server that is
down or has crashed in a reload, a transfer that is over, a stream that is read, one table of outcomes,
or a bound reached.

**Symmetry** is used only where no liveness is checked, over users, clients, names and links that the
constants treat alike.

**Fairness** is weak fairness of the loop, where something makes `select` return: each of the steps that
mark a connection also queues an answer to somebody, so the traversal runs and visits every connection;
a reply that waits makes `select` return and every connection of d2dbs is handled; the timers of
`server_loop`, of the two ends of the realm's link and of `query_tick` run each second whatever the
sockets bring. A client's own steps are fair only where a property is about the client: bnchat reads
what comes, a client that was asked for its checksum answers. Of `BitsAccounts` only the timers of
the saves and of the queries are fair: no answer need come, and clients may ask for an account for ever.
Strong fairness is needed where another
step may disable one for a while: a save while the server is down, the tracker's tick behind a packet
that is due, a report of which not all are lost.

## Where code and text disagree

Runs that fail on purpose:

* `session_twice`: `bnetd.conf` says of kick_old_login that it decides whether a second login kicks off
  the old one or is denied; of three logins within one pass two stay (connection.c:1243).
* `game_twice`: game.c:656 "then nuke duplicate players after the real players"; a player who reported,
  left, came back and was reported on has two results counted.
* `d2cs_queue`: `d2cs.conf` "How often will the server check game queues"; the timer only tells the
  clients their position, and the one attempt when a place becomes free may be spent on a client who
  is refused (gamequeue.c:134).
* `d2dbs_full`: dbspacket.c:574 "0  :  not get a whole packet,do nothing"; `dbs_packet_getdata` returns 0
  after it has locked the character, and is refused its own lock when it is called again.

Seen while modelling, reproduced by the models or left out of a run's instance, without a run of their
own: the full name of an instance leads past its limit (channel.c:1848); "All the channels were full"
(channel.c:1913) is also said to a user for whose locale there is none, who gets an instance then; an
operator elected while another user joins is not given the gavel (channel.c:954); a rollover whose name
is taken ends in a temporary channel by the short name (channel.c:1827); a reload crashes with users in
a channel without a short name (channel.c:1667) and leaves the gavel (channel.c:1733); a replaced
connection announces a logout of a player who is logged in (connection.c:509); a refused creator leaves
a ladder game in the list (connection.c:1826); a -1 in an unsigned short keeps a broken link open
(dbspacket.c:633); servers whose ids share a bucket lose their locks together (charlock.c:200); a test
is inverted in what passes an unlock up (handle_bits.c:513); a bracket of seven players is counted
wrongly (ladder_calc.c:405, so `elo` leaves seven out); a sender no longer ignored is not heard by packets
already formatted (message.c, connection.c:2023); a write error noticed only by `fclose` replaces the file (account.c), and the number of
an account not yet saved is used again after a crash, with the mail of the one before; queries that time
out answer nobody and their deletion is an assignment in a test (query.c:245, 286); `bits_va_lock_check`
frees accounts that other queries point to.

What the models do and a property excepts by name, each also against what one would expect or a text says:

* An irc client is never pinged. connection.c:185 says "We should start pinging the client after we
  received the first line ...", and handle_irc.c:148 would, in a state that `sd_accept` has already left
  (server.c:425). `TimersMatch` asks nothing of the pings of irc connections.
* Somebody waits for ever (`NothingIsKept`): bnchat lets a name of USER_NAME_MAX characters through
  (bnchat.c:895) that the server has no room for, so it passes the login or the change of a password over
  without a reply (handle_bnet.c:620, 1241, 1446), and a name of 128 characters or more given to bnstat or
  to /info likewise (handle_bnet.c:1161); bnftp resumes a file that became shorter from beyond its end, and
  what is left wraps (bnftp.c:690); bnproxy takes the length in the reply for what follows, also when the
  file is sent from an offset on (file.c:199, bnproxy.c:690), and keeps the last piece.
* A character deleted and made again may report less than it did, and then stands twice in a list of the
  realm's ladder or out of order (d2ladder.c:252); a character that never reported less stands right
  (`ResultsRight`), and a restart keeps what the file says (`RestartKeeps`).
* `connlist_find_connection_by_charname` of d2cs walks a table by session number with the hash of a name
  (connection.c:207), so `check_multilogin` (d2cs.conf: "to check client for multilogin for security
  reason") finds hardly anything but characters in games, and a character may be on two connections. No
  property claims that it is on one.
* A client that logs in on a second auth connection leaves the first with a pointer to it that
  nothing clears (connection.c:496, 2674), and `CountsAgree` claims the pointers only before that. An old
  client that joins a realm is not counted but is counted out when it goes, and realms read again on
  SIGHUP count from zero with clients inside; `KeepsCount` names these two steps. Two names that differ in
  case only are two entries of a list with one set of data.
* In a cluster, an unlock is passed up when another server still needs the lock and not when none does,
  the acknowledgement of a lock asked for another server enters the account in the server's own list and
  asks for the attributes of no account (handle_bits.c:490-500), and taking an entry out of a lock list
  may lose others with it. So a lock may be forgotten that is needed below, and changes then no
  longer come; changes of two servers that cross each other leave copies that differ. `ClusterAgrees`
  excepts accounts whose lock was forgotten or whose changes crossed (`forgotten`, `crossed`).
* versioncheck.c:204 says "Checksum and exeinfo disabled, entry matches"; after an earlier line of the same
  version that did not match it does not, and the client is refused. `RightlyJudged` excepts this line.

What the instances leave out although the code may do it: no option string is malformed and the host
of a game announced does not change its UDP address, since the list would go on showing the old one
(`list`: `Malformed`, `MayMove`); reports to the tracker are lost only where one server sends them
(`lossy`); only clients that have not logged in fall silent while a query waits for them (`queries`); no
loop stands on a node that a purge frees (the guard `Freed` of `Lists`); writes before `fclose` do not
fail in `Accounts`, and what a client was answered is compared within one life of the server; no reply
is larger than the whole write buffer of d2dbs.

## Proofs

They hold for every value of the constants that satisfies the modules' assumptions: NULL values are not
users, connections, accounts or names; each connection has a class; what may be watched is an account or
everybody; servers have numbers, a link has a server, `GsMax` and `Replies` are not zero; kinds of games
are those of the code; no two lines of `channel.list` have one name, and none looks like an instance's.
`Flags` and `D2csClients`, which runs only reach by INSTANCE, state what they assume of their NULL
values in a definition (`FlagAssumption`, `NullAssumption`) that their theorems start from and that TLC
evaluates of the instances in the MC modules. `Server` also assumes that the delays are longer than the
loop may lag and two decrements: nobody can be told of a shutdown that is due before the next turn,
which an admin who gives a shorter time asks for.

`Channel_proofs`, for any users, channels, locales, instances and `channel.list`:

* `ChannelsAgreeHold`: `Spec => []ChannelsAgree`. On the way from one channel to another a user is in
  none, and a channel made for him is still empty, while leaving may destroy a channel and elect an
  operator in it. So the invariant is a predicate `Ok(s, T, empty)` on a chat state that names the user
  and the channel for which it does not hold yet; each function of `channel.c` has a lemma that says how
  the two change. Between steps it is `Ok(Chat, NoUser, NoName)`. That lists agree takes that removing
  an entry leaves exactly the others (`UnlinkLemma`), that a name is in the list once, and that the name
  of a new instance is not taken.
* `OperatorByRightHolds`: `Spec => OperatorByRight`, and `RolloverOnlyWhenFullHolds`:
  `Spec => RolloverOnlyWhenFull`. Both compare a channel before and after a whole handler, in which it
  may be left, destroyed, made again and joined. They are carried from the handler's first state through
  relations between states: `Start`, `Moving` (out of the old channel, not yet in the new one) and
  `Done`. `FirstLemma` and `LastLemma` give the first channel with room and the oldest member with a
  right.

`Session_proofs`, for any number of connections and accounts, and any classes:

* `TypeCorrect`: `Spec => []TypeOK`. `TypeOK` relates list, state, account and the remaining traversal;
  it is not inductive alone. The invariant `IInv` adds that the traversal visits nobody twice, and that
  a watcher was only told of whom it watches. Its proof has a lemma for each of the two functions the
  handlers share, `conn_set_account` and `conn_destroy`; the second shows that removing an element from
  a list without repetitions leaves exactly the others.
* `ToldIn`: a watcher last told of a login watches an account in use, with kick_old_login on or off.
* `Holder` and `ToldOut`: with it off, an account is on one connection at most, and who was last told of a
  logout watches an account not in use; the second needs the first, since freeing one of two
  connections would announce a logout too early. Together they are `WatchTruthful`.
* `MarkedFinal`: no step serves a marked connection, with kick_old_login on or off.

`D2dbs_proofs`, for any number of servers, links and characters, and any size of the buffers:

* `TypeCorrect`, with no write buffer over its room.
* `NoOrphanLock`: `LocksHaveLink`, whatever breaks. With `TypeOK` it is inductive: that a server is
  verified once is what makes freeing its locks right when a link goes.
* `OneServerPlays`: `PlayerHasLock`, assuming `CanFail = FALSE`. The invariant `PInv` adds what order the
  buffers keep: whoever has said unlock has the lock still, says it once, does not play the character
  and is not sent it; a lock is said only of what one has and never behind an unlock; a character is
  sent once. Without these an unlock might free what another server was given meanwhile. One lemma
  covers the steps that only take packets from a head, one each the steps that matter: grant,
  unlock, release, relock and the arrival of a reply.
* `Refinement`: `Spec => ImplementsOneServer`, assuming `CanFail = FALSE`. From `PInv` a grant with room is
  `Send`, a release is `Leave`, and every other step leaves `on` as it is.

`Server_proofs`, for any clients, addresses, delays and lag:

* `StaysOrderly`: `Spec => []Orderly`. It is not inductive: that everybody has been told exactly when a
  shutdown is set is stated of the pass over the sockets, and depends on what was so before at the top
  of the loop. `IInv` adds that (`TruthInLoop`, of the time last told of) and who and what there is
  before and after the loop (`Around`).
* `NobodySurprised`: `Spec => NoSurprise`, by the part `TimeToTell` of `IInv`: a time that nobody was told
  of yet is further away than the loop can still lag and both signals can bring it nearer.

`Game_proofs`, for any players, names, kinds of games, claims and bounds:

* `StaysSound`: `Spec => []GamesSound`. The handlers are compositions of operators on the record of games,
  pointers and records, so the invariant is a predicate on such a record: `Sound` (types, every entry
  points back, counts and hosts) for the states between the operators, and `HavePlayers` in addition
  for the states between steps: in the middle of a handler a game that was just made has nobody. There
  is a lemma per operator; the host after a departure is the first of the rest (`ChooseHostLemma`), and
  that there is a first is by the least counterexample (`FirstLemma`).
* `ResultStands`: `Spec => SettledStands`, and `CountedOnlyThen`: `Spec => CountedAtTheEnd`. Both are
  carried as a relation between the record before and after each operator (`Proper`), which composes
  along a handler: a report that is checked, set and followed by leaving changes no settled result, and
  records only where the game goes away.

`D2csGames_proofs`, for any clients, names, servers, links and capacities:

* `GamesAreCounted`: `Spec => []GamesCounted`, and `QueueMatches`: a client that waits has one entry in the
  queue, and nobody else has one. The handlers are operators on a `World`; its invariant has four parts:
  `Sound` (counts, servers, requests that wait), `Lined` (queue and clients), `Linked` (links and lists of
  servers) and `Served`. The sum over games that a count is gets one lemma for a game more or less. The
  loops of the code (a server's games closed one by one, each serving the queue) are recursive functions;
  what holds after them is shown by the least round after which it would not.
* `WaitersAreServed`: `Spec => []QueueServed` for `Dead = {}`, that is as long as no client is refused when
  his turn comes; without this it is false, which is what `d2cs_queue` shows.

`D2csClients`, at its end, for any clients, accounts, characters and number of waiting requests:

* `OwnAccount`, `OwnCharacter` and `FilesStayInAgreement`: `Spec => []AccountIsItsOwn`,
  `[]CharacterWasItsOwn` and `[]FilesAgree`, whatever connections the check of other logins meets
  (`SameRow` is any set). The invariant adds what a request is worth when its reply comes: that of a
  client still there was confirmed for its own account, and asks for a character that this account has or
  has had. It stands because `conn_destroy` makes the requests of who goes nobody's.

`Flags`, at its end, for any connections, flags and signs:

* `SeenAlways`: `Spec => []SeenAsTheyAre`. With `TypeOK` it is inductive: only members are told and only
  members must be right, an operator is a member and never designated too (else the gavel that he gives
  to himself would not be told), and a test that comes through may only take a plug away. One lemma for a
  change that is told (`ChangedRight`) serves /flag, joining and both halves of passing the gavel.

**Only model-checked.** Liveness (`MarkedIsFreed`, `NothingIsKept`, `GetIsAnswered`, `ComesAndGoes`,
`NobodyWaits`, `AllHappens`), which is out of the prover's reach; `Elo` and `Framing`, which compute by
recursion over data, with `InPlace` and `ResultsRight` that are about them; what a reload forgets
(`ReloadForgets`) and who hears whom (`IgnoringDecides`, `SentInOrder`), timers (`TimersMatch`), game lists
(`AnnouncedIsFound`), ladders on disk (`RestartKeeps`), what bnetd counts of realms (`CountsAgree`), the
link to a realm (`ServesTheRealm`), clusters (`ClusterAgrees`, `ReadyIsServed`) and accounts, tables,
versions and mail (`WithinAgree`, `NothingGoesBack`, `ImplementsTable`, `RightlyJudged`).

## Not modelled, and why

Chat between servers of a cluster is unfinished in the code (channels are not shared, and several cases
only log). Text formatting, encodings, the reading of configuration and text files, advertisements, the
message of the day and the UDP test answer without state of their own. The exponent of the rating
formula is floating point. bnbot is a raw terminal; the other tools are one-shot programs. Reads of
freed memory end a behaviour or are a choice of outcomes where the models meet them; one that the models
cannot see is listed under `hazards` with a note (server.c:1476).
