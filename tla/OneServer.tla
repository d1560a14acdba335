----------------------------- MODULE OneServer -----------------------------
(* What d2dbs is for: a character is on one game server at a time. It goes *)
(* to a server when it is nowhere, and leaves the server that it is on.    *)
CONSTANTS Server, Char

VARIABLE on      \* the servers that each character is on, or is under way to

Init == on = [c \in Char |-> {}]

Send(c, g) ==
    /\ on[c] = {}
    /\ on' = [on EXCEPT ![c] = {g}]

Leave(c, g) ==
    /\ on[c] = {g}
    /\ on' = [on EXCEPT ![c] = {}]

Next == \E c \in Char, g \in Server : Send(c, g) \/ Leave(c, g)

Spec == Init /\ [][Next]_on
=============================================================================
