------------------------------ MODULE Tracker ------------------------------
(***************************************************************************)
(* The tracker (bntrackd) and the servers that report to it: a server      *)
(* sends one UDP packet per battle.net port it listens on, every `track'   *)
(* seconds and as soon as it starts; the tracker keeps one slot per        *)
(* ADDRESS, forgets a slot that was not refreshed for Expire seconds, and  *)
(* writes what it holds to a file more than Update seconds after the last  *)
(* time.  Packets are lost, delayed and overtake each other; servers and   *)
(* only servers stop and start.  All times are ages in seconds, so that    *)
(* the model needs no clock that grows.                                    *)
(*                                                                         *)
(* Bounds: MaxDelay on the age of a packet under way (its wait in the      *)
(* socket's buffer included), MaxMiss on the packets of a port lost in a   *)
(* row, Lag on how late a main loop notices that something is due.         *)
(***************************************************************************)
EXTENDS Naturals, FiniteSets

CONSTANTS
    Server,      \* the bnetd processes
    Port,        \* their listening ports, named apart
    PortsOf,     \* [Server -> SUBSET Port]: the ports of type bnet
    AddrOf,      \* [Port -> Addr]: the address the tracker sees
    Polite,      \* SUBSET Server: those of another make, which say goodbye
    Track,       \* prefs_get_track()
    GivenExpire, DefExpire,   \* bntrackd -e, and its default; 0: not given
    GivenUpdate, DefUpdate,   \* bntrackd -u, and its default
    MaxDelay, MaxMiss, Lag

\* The options not given take their defaults.  The default of `update' is
\* taken when `expire' is zero, which it no longer is: without -u the
\* interval is 0.
Expire == IF GivenExpire = 0 THEN DefExpire ELSE GivenExpire
Update == IF Expire = 0 THEN DefUpdate ELSE GivenUpdate

\* The reports of a server reach the tracker before it is forgotten.
Configured ==
    /\ PortsOf \in [Server -> SUBSET Port]
    /\ Polite \subseteq Server
    /\ Track \in Nat \ {0}
    /\ (MaxMiss + 1) * (Track + Lag) + MaxDelay <= Expire

VARIABLES
    up,       \* SUBSET Server: the running ones
    due,      \* [Server -> age of track_time]
    missed,   \* [Port -> packets of it lost in a row] (the network's)
    net,      \* packets under way
    slots,    \* serverlist_head
    dumped,   \* age of `last'
    file      \* the addresses and ports in the output file

vars == <<up, due, missed, net, slots, dumped, file>>

Addr == {AddrOf[p] : p \in Port}
Packet == [port : Port, age : 0..MaxDelay, shutdown : BOOLEAN]
Slot == [addr : Addr, port : Port, updated : 0..Expire + Update + Lag + 2]

TypeOK ==
    /\ up \subseteq Server
    /\ due \in [Server -> 0..Track + Lag]
    /\ missed \in [Port -> 0..MaxMiss]
    /\ net \subseteq Packet
    /\ slots \subseteq Slot
    /\ \A x, y \in slots : x.addr = y.addr => x = y
    /\ dumped \in 0..Update + Lag + 1
    /\ file \subseteq [addr : Addr, port : Port]

Init ==
    /\ up = {}
    /\ due = [s \in Server |-> Track]
    /\ missed = [p \in Port |-> 0]
    /\ net = {}
    /\ slots = {}
    /\ dumped = Update
    /\ file = {}

-----------------------------------------------------------------------------
(* The servers. *)

Reports(s, goodbye) ==
    {[port |-> p, age |-> 0, shutdown |-> goodbye] : p \in PortsOf[s]}

StartServer(s) ==
    /\ s \notin up
    /\ up' = up \cup {s}
    /\ due' = [due EXCEPT ![s] = Track]
    /\ UNCHANGED <<missed, net, slots, dumped, file>>

\* tracker_send_report, for one tracker
SendReport(s) ==
    /\ s \in up
    /\ due[s] >= Track
    /\ due' = [due EXCEPT ![s] = 0]
    /\ net' = net \cup Reports(s, FALSE)
    /\ UNCHANGED <<up, missed, slots, dumped, file>>

\* bnetd goes without a word: it never sets TF_SHUTDOWN
StopServer(s) ==
    /\ s \in up
    /\ up' = up \ {s}
    /\ due' = [due EXCEPT ![s] = Track]
    /\ net' = IF s \in Polite THEN net \cup Reports(s, TRUE) ELSE net
    /\ UNCHANGED <<missed, slots, dumped, file>>

Lost(pk) ==
    /\ pk \in net
    /\ missed[pk.port] < MaxMiss
    /\ net' = net \ {pk}
    /\ missed' = [missed EXCEPT ![pk.port] = @ + 1]
    /\ UNCHANGED <<up, due, slots, dumped, file>>

-----------------------------------------------------------------------------
(* The tracker. *)

DumpDue == dumped > Update

Fresh == {x \in slots : x.updated <= Expire}

Line(x) == [addr |-> x.addr, port |-> x.port]

\* The file is opened: the list is written, and cleaned on the way
Dump ==
    /\ DumpDue
    /\ dumped' = 0
    /\ slots' = Fresh
    /\ file' = {Line(x) : x \in Fresh}
    /\ UNCHANGED <<up, due, missed, net>>

\* It cannot be opened: nothing is written or cleaned until it is due again
DumpFails ==
    /\ DumpDue
    /\ dumped' = 0
    /\ UNCHANGED <<up, due, missed, net, slots, file>>

\* The slot of the sender's address, whatever its port
Found(pk) == {x \in slots : x.addr = AddrOf[pk.port]}

Updated(pk) ==
    (slots \ Found(pk)) \cup
        (IF pk.shutdown THEN {}
         ELSE {[addr |-> AddrOf[pk.port], port |-> pk.port, updated |-> 0]})

Receive(pk) ==
    /\ ~DumpDue
    /\ pk \in net
    /\ net' = net \ {pk}
    /\ missed' = [missed EXCEPT ![pk.port] = 0]
    /\ slots' = Updated(pk)
    /\ UNCHANGED <<up, due, dumped, file>>

-----------------------------------------------------------------------------
(* A second passes.  Nobody is later than Lag, no packet older than        *)
(* MaxDelay.  The age of a slot counts up to where it no longer matters.   *)

OldestSlot == Expire + Update + Lag + 2
Older(a) == IF a < OldestSlot THEN a + 1 ELSE a

Tick ==
    /\ \A s \in up : due[s] < Track + Lag
    /\ \A pk \in net : pk.age < MaxDelay
    /\ dumped < Update + Lag + 1
    /\ due' = [s \in Server |-> IF s \in up THEN due[s] + 1 ELSE Track]
    /\ net' = {[pk EXCEPT !.age = @ + 1] : pk \in net}
    /\ slots' = {[x EXCEPT !.updated = Older(@)] : x \in slots}
    /\ dumped' = dumped + 1
    /\ UNCHANGED <<up, missed, file>>

Next ==
    \/ \E s \in Server : StartServer(s) \/ SendReport(s) \/ StopServer(s)
    \/ \E pk \in net : Lost(pk) \/ Receive(pk)
    \/ Dump
    \/ DumpFails
    \/ Tick

\* The main loops turn, no packet waits for ever in the socket's buffer, time passes
\* however often servers stop and start, and the file can be opened now and
\* then.
Fairness ==
    /\ SF_vars(Tick)
    /\ \A s \in Server : WF_vars(SendReport(s))
    /\ SF_vars(\E pk \in net : pk.age = MaxDelay /\ Receive(pk))
    /\ SF_vars(Dump)

Spec == Init /\ [][Next]_vars /\ Fairness

-----------------------------------------------------------------------------
(* Properties *)

Listed(a) == \E x \in file : x.addr = a
At(a) == {s \in Server : \E p \in PortsOf[s] : AddrOf[p] = a}

(* A server that keeps running comes into the file and stays in it,         *)
(* whatever packets of it are late, lost or overtaken by each other, and   *)
(* whoever else reports from its address without saying goodbye there      *)
(* (bntrackd.c server_process, tracker.c tracker_send_report).             *)
RunningIsListed ==
    \A s \in Server : \A p \in PortsOf[s] :
        At(AddrOf[p]) \cap Polite \subseteq {s} =>
            (<>[](s \in up) => <>[]Listed(AddrOf[p]))

(* An address at which nothing runs any more leaves the file, without a    *)
(* word from anybody.                                                      *)
Silent(a) == At(a) \cap up = {}
SilentLeave == \A a \in Addr : Silent(a) ~> (Listed(a) => ~Silent(a))

(* Both: the list follows the servers.                                     *)
ListFollows == RunningIsListed /\ SilentLeave
=============================================================================
