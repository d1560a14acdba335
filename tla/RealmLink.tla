------------------------------ MODULE RealmLink ------------------------------
(* The link between a realm server and bnetd, from both of its ends: d2cs  *)
(* connects, says what it is, gives the name of its realm and sends the    *)
(* logins of its clients (src/src/d2cs/bnetd.c, s2s.c, handle_bnetd.c);    *)
(* bnetd keeps which connection serves the realm (src/src/bnetd/realm.c,   *)
(* handle_d2cs.c, handle_init.c) and marks a connection it no longer wants,*)
(* which the next pass over its connections frees.                         *)
(*                                                                         *)
(* Either end may lose the link without the other noticing at once, so a   *)
(* new link may be in use before the end of the old one is seen. One realm *)
(* and one address, so that realmlist_find_realm_by_ip always finds it.    *)
EXTENDS Naturals, Sequences

CONSTANTS
    Link,        \* connections from the realm server; one is used again once closed
    NoLink,      \* bnetd_connection is NULL; the realm has no session
    Client,      \* clients of the realm server
    MaxLogins,   \* bound of the logins in a behaviour
    MaxFaults    \* bound of what goes wrong: broken links, reloads of the realms

VARIABLES
    conn,     \* bnetd_connection of d2cs
    near,     \* state of each connection in d2cs, "none" when it has none
    far,      \* state of each connection in bnetd
    realm,    \* the link that serves the realm, NoLink while it is not active
    toFar, toNear,  \* what is sent on each link and not yet read
    asked,    \* clients whose login waits for the reply of bnetd (sqlist)
    logins, faults

vars == <<conn, near, far, realm, toFar, toNear, asked, logins, faults>>

NearState == {"none", "connecting", "connected", "authed", "destroy"}
FarState == {"none", "init", "connected", "loggedin", "destroy"}

\* What d2cs sends: the class of the connection, the name of its realm, a login.
ToFar == {"init", "authreply"} \X {NoLink} \cup {"login"} \X Client

\* What bnetd sends.
ToNear == {"authreq", "authed"} \X {NoLink} \cup {"loginreply"} \X Client

\* What the variables hold: states of connections, messages, clients (t_connection of both).
TypeOK ==
    /\ conn \in Link \cup {NoLink} /\ realm \in Link \cup {NoLink}
    /\ near \in [Link -> NearState] /\ far \in [Link -> FarState]
    /\ \A l \in Link : \A i \in DOMAIN toFar[l] : toFar[l][i] \in ToFar
    /\ \A l \in Link : \A i \in DOMAIN toNear[l] : toNear[l][i] \in ToNear
    /\ asked \subseteq Client

Init ==
    /\ conn = NoLink
    /\ near = [l \in Link |-> "none"]
    /\ far = [l \in Link |-> "none"]
    /\ realm = NoLink
    /\ toFar = [l \in Link |-> <<>>]
    /\ toNear = [l \in Link |-> <<>>]
    /\ asked = {}
    /\ logins = 0
    /\ faults = 0

SendFar(l, msg) == toFar' = [toFar EXCEPT ![l] = Append(@, msg)]

\* What is written to a connection that the other end has closed is lost.
SendNear(l, msg) ==
    toNear' = [toNear EXCEPT ![l] = IF near[l] = "none" THEN <<>> ELSE Append(@, msg)]

----------------------------------------------------------------------------
(* The realm server.                                                       *)

\* bnetd_check, every s2s_retryinterval: a connection is made when there is none.
Check(l) ==
    /\ conn = NoLink
    /\ near[l] = "none" /\ far[l] = "none"
    /\ conn' = l
    /\ near' = [near EXCEPT ![l] = "connecting"]
    /\ UNCHANGED <<far, realm, toFar, toNear, asked, logins, faults>>

\* bnetd_check finds the connection still connecting after s2s_timeout.
CheckTimeout ==
    /\ conn # NoLink
    /\ near[conn] = "connecting"
    /\ faults < MaxFaults
    /\ near' = [near EXCEPT ![conn] = "destroy"]
    /\ faults' = faults + 1
    /\ UNCHANGED <<conn, far, realm, toFar, toNear, asked, logins>>

\* conn_handle_connecting and handle_bnetd_init: bnetd has accepted, and the class of the
\* connection is queued behind what is queued already. (That connect succeeds at once,
\* for which bnetd_check has a branch, does not happen to a socket that does not block.)
Connecting(l) ==
    /\ near[l] = "connecting"
    /\ near' = [near EXCEPT ![l] = "connected"]
    /\ far' = [far EXCEPT ![l] = "init"]
    /\ SendFar(l, <<"init", NoLink>>)
    /\ UNCHANGED <<conn, realm, toNear, asked, logins, faults>>

\* conn_destroy of the connection to bnetd, with s2s_destroy and bnetd_destroy.
DestroyNear(l) ==
    /\ near' = [near EXCEPT ![l] = "none"]
    /\ toNear' = [toNear EXCEPT ![l] = <<>>]
    /\ conn' = IF conn = l THEN NoLink ELSE conn

\* server_handle_socket frees what is marked.
FreeNear(l) ==
    /\ near[l] = "destroy"
    /\ DestroyNear(l)
    /\ toFar' = [toFar EXCEPT ![l] = IF far[l] = "none" THEN <<>> ELSE @]
    /\ UNCHANGED <<far, realm, asked, logins, faults>>

\* The end of the link is read: bnetd has closed it and nothing is left to read.
CloseNear(l) ==
    /\ near[l] \in {"connected", "authed"}
    /\ far[l] = "none" /\ toNear[l] = <<>>
    /\ DestroyNear(l)
    /\ toFar' = [toFar EXCEPT ![l] = <<>>]
    /\ UNCHANGED <<far, realm, asked, logins, faults>>

\* The link breaks and d2cs is the first to know, or a connection attempt fails.
BreakNear(l) ==
    /\ near[l] \in {"connecting", "connected", "authed"}
    /\ faults < MaxFaults
    /\ faults' = faults + 1
    /\ DestroyNear(l)
    /\ toFar' = [toFar EXCEPT ![l] = IF far[l] = "none" THEN <<>> ELSE @]
    /\ UNCHANGED <<far, realm, asked, logins>>

NearReads(l, type) ==
    /\ near[l] \in {"connected", "authed"}
    /\ toNear[l] # <<>>
    /\ Head(toNear[l])[1] = type
    /\ toNear' = [toNear EXCEPT ![l] = Tail(@)]

\* on_bnetd_authreq: the name of the realm is sent. It is not asked for twice.
OnBnetdAuthreq(l) ==
    /\ NearReads(l, "authreq")
    /\ SendFar(l, <<"authreply", NoLink>>)
    /\ UNCHANGED <<conn, near, far, realm, asked, logins, faults>>

\* on_bnetd_authreply, for a version that bnetd takes.
OnBnetdAuthreply(l) ==
    /\ NearReads(l, "authed")
    /\ near' = [near EXCEPT ![l] = "authed"]
    /\ UNCHANGED <<conn, far, realm, toFar, asked, logins, faults>>

\* on_bnetd_accountloginreply and on_bnetd_charloginreply: the request is looked up and
\* removed; one that has timed out, or whose client has gone, is none.
OnBnetdLoginreply(l) ==
    /\ NearReads(l, "loginreply")
    /\ asked' = asked \ {Head(toNear[l])[2]}
    /\ UNCHANGED <<conn, near, far, realm, toFar, logins, faults>>

\* on_client_loginreq asks whether there is a connection, not whether it is authenticated.
OnClientLoginreq(c) ==
    /\ conn # NoLink
    /\ c \notin asked
    /\ logins < MaxLogins
    /\ logins' = logins + 1
    /\ asked' = asked \cup {c}
    /\ SendFar(conn, <<"login", c>>)
    /\ UNCHANGED <<conn, near, far, realm, toNear, faults>>

\* sqlist_check_timeout
SqlistCheckTimeout(c) ==
    /\ c \in asked
    /\ asked' = asked \ {c}
    /\ UNCHANGED <<conn, near, far, realm, toFar, toNear, logins, faults>>

----------------------------------------------------------------------------
(* bnetd.                                                                  *)

\* realm_deactive: the connection that serves the realm, if it is still listed, is marked.
Marked(f) ==
    [l \in Link |-> IF l = realm /\ f[l] # "none" THEN "destroy" ELSE f[l]]

\* Mutant: the realm stays active.
DestroyFarKeeps(l) ==
    LET f == [far EXCEPT ![l] = "none"]
    IN  /\ far' = IF far[l] = "init" THEN f ELSE Marked(f)
        /\ realm' = realm
        /\ toFar' = [toFar EXCEPT ![l] = <<>>]

\* conn_destroy of a connection of a realm server: out of the list, and whichever
\* connection serves the realm of its address is marked.
DestroyFar(l) ==
    LET f == [far EXCEPT ![l] = "none"]
    IN  /\ far' = IF far[l] = "init" THEN f ELSE Marked(f)
        /\ realm' = IF far[l] = "init" THEN realm ELSE NoLink
        /\ toFar' = [toFar EXCEPT ![l] = <<>>]

\* server_mainloop frees what is marked when it comes to it.
FreeFar(l) ==
    /\ far[l] = "destroy"
    /\ DestroyFar(l)
    /\ UNCHANGED <<conn, near, toNear, asked, logins, faults>>

\* The end of the link is read: d2cs has closed it and nothing is left to read.
CloseFar(l) ==
    /\ far[l] \in {"init", "connected", "loggedin"}
    /\ near[l] = "none" /\ toFar[l] = <<>>
    /\ DestroyFar(l)
    /\ UNCHANGED <<conn, near, toNear, asked, logins, faults>>

\* The link breaks and bnetd is the first to know.
BreakFar(l) ==
    /\ far[l] \in {"init", "connected", "loggedin"}
    /\ faults < MaxFaults
    /\ faults' = faults + 1
    /\ DestroyFar(l)
    /\ UNCHANGED <<conn, near, toNear, asked, logins>>

FarReads(l, state) ==
    /\ far[l] = state
    /\ toFar[l] # <<>>

Read(l) == toFar' = [toFar EXCEPT ![l] = Tail(@)]

\* handle_init_packet: the first byte tells the class. That of a login that was queued
\* while d2cs was connecting tells none, and the connection is closed.
HandleInit(l) ==
    /\ FarReads(l, "init")
    /\ \/ /\ Head(toFar[l])[1] = "init"
          /\ far' = [far EXCEPT ![l] = "connected"]
          /\ SendNear(l, <<"authreq", NoLink>>)
          /\ Read(l)
          /\ UNCHANGED realm
       \/ /\ Head(toFar[l])[1] # "init"
          /\ DestroyFar(l)
          /\ UNCHANGED toNear
    /\ UNCHANGED <<conn, near, asked, logins, faults>>

\* on_d2cs_authreply and realm_active: the connection that served the realm is marked.
OnD2csAuthreply(l) ==
    /\ FarReads(l, "connected")
    /\ Head(toFar[l])[1] = "authreply"
    /\ far' = [Marked(far) EXCEPT ![l] = "loggedin"]
    /\ realm' = l
    /\ SendNear(l, <<"authed", NoLink>>)
    /\ Read(l)
    /\ UNCHANGED <<conn, near, asked, logins, faults>>

\* handle_d2cs_packet: a login before the realm is named is of an unknown type there.
HandleD2csUnknown(l) ==
    /\ FarReads(l, "connected")
    /\ Head(toFar[l])[1] = "login"
    /\ Read(l)
    /\ UNCHANGED <<conn, near, far, realm, toNear, asked, logins, faults>>

\* on_d2cs_accountloginreq and on_d2cs_charloginreq, whatever the reply says.
OnD2csLoginreq(l) ==
    /\ FarReads(l, "loggedin")
    /\ Head(toFar[l])[1] = "login"
    /\ SendNear(l, <<"loginreply", Head(toFar[l])[2]>>)
    /\ Read(l)
    /\ UNCHANGED <<conn, near, far, realm, asked, logins, faults>>

\* realmlist_destroy and realmlist_create on SIGHUP: realm_destroy marks the connection.
RealmlistReload ==
    /\ faults < MaxFaults
    /\ faults' = faults + 1
    /\ far' = IF realm = NoLink THEN far ELSE Marked(far)
    /\ realm' = NoLink
    /\ UNCHANGED <<conn, near, toFar, toNear, asked, logins>>

----------------------------------------------------------------------------

Near(l) == FreeNear(l) \/ CloseNear(l) \/ Connecting(l) \/ OnBnetdAuthreq(l)
              \/ OnBnetdAuthreply(l) \/ OnBnetdLoginreply(l)

Far(l) == FreeFar(l) \/ CloseFar(l) \/ HandleInit(l) \/ OnD2csAuthreply(l)
              \/ HandleD2csUnknown(l) \/ OnD2csLoginreq(l)

Next ==
    \/ \E l \in Link : Check(l) \/ Near(l) \/ Far(l) \/ BreakNear(l) \/ BreakFar(l)
    \/ \E c \in Client : OnClientLoginreq(c) \/ SqlistCheckTimeout(c)
    \/ CheckTimeout
    \/ RealmlistReload

\* Both servers look at every connection in every pass of their loops, and d2cs has a
\* timer for bnetd_check.
Fairness ==
    /\ \A l \in Link : WF_vars(Near(l)) /\ WF_vars(Far(l))
    /\ WF_vars(\E l \in Link : Check(l))

Spec == Init /\ [][Next]_vars /\ Fairness

----------------------------------------------------------------------------

\* Of the connections that bnetd takes logins from, none but the one that serves the realm
\* is left unmarked, and that one is still there (realm_active, realm_deactive and
\* conn_destroy, from whichever end and in whichever order links go).
ServesTheRealm ==
    /\ \A l \in Link : far[l] = "loggedin" => realm = l
    /\ realm # NoLink => far[realm] \in {"loggedin", "destroy"}

Up == conn # NoLink /\ near[conn] = "authed" /\ realm = conn /\ far[conn] = "loggedin"

\* Once nothing goes wrong any more, the realm comes up and stays up, although the end of
\* each old connection takes down the one that serves the realm (bnetd_check, realm_deactive).
RealmComesUp == <>[]Up

=============================================================================
