---------------------------- MODULE OrderedTable ----------------------------
(* What the callers of list.h and hashtable.h count on: rows of items, and    *)
(* traversals that may be under way while items come and go. A traversal      *)
(* gives each item that stays, once and in order, and none that has gone.     *)
EXTENDS Integers, Sequences, SequencesExt, FiniteSetsExt

CONSTANTS Item, Cursor, Rows, None

VARIABLES
    items,      \* of each row, in order
    at,         \* the row each traversal is in, 0 when it is not under way
    rest,       \* what it has still to give of each row
    given       \* the item it gave last

vars == <<items, at, rest, given>>

Row == 1..Rows

Present == UNION {ToSet(items[r]) : r \in Row}

Init ==
    /\ items = [r \in Row |-> << >>]
    /\ at = [c \in Cursor |-> 0]
    /\ rest = [c \in Cursor |-> [r \in Row |-> << >>]]
    /\ given = [c \in Cursor |-> None]

\* A traversal that has not come to the row sees what is put in front.
Insert(x, r) ==
    /\ x \notin Present
    /\ items' = [items EXCEPT ![r] = <<x>> \o @]
    /\ rest' = [c \in Cursor |-> IF at[c] \in 1..r - 1
                                 THEN [rest[c] EXCEPT ![r] = <<x>> \o @] ELSE rest[c]]
    /\ UNCHANGED <<at, given>>

\* And one in the row sees what is put behind.
Add(x, r) ==
    /\ x \notin Present
    /\ items' = [items EXCEPT ![r] = Append(@, x)]
    /\ rest' = [c \in Cursor |-> IF at[c] \in 1..r
                                 THEN [rest[c] EXCEPT ![r] = Append(@, x)] ELSE rest[c]]
    /\ UNCHANGED <<at, given>>

Drop(x) ==
    /\ x \in Present
    /\ items' = [r \in Row |-> SelectSeq(items[r], LAMBDA y : y # x)]
    /\ rest' = [c \in Cursor |-> [r \in Row |-> SelectSeq(rest[c][r], LAMBDA y : y # x)]]
    /\ UNCHANGED <<at, given>>

\* The traversal c goes on among left, from row from.
Give(c, left, from) ==
    LET open == {r \in Row : r >= from /\ left[r] # << >>}
        r    == Min(open)
    IN  IF open = {}
        THEN /\ at' = [at EXCEPT ![c] = 0]
             /\ rest' = [rest EXCEPT ![c] = [q \in Row |-> << >>]]
             /\ given' = [given EXCEPT ![c] = None]
        ELSE /\ at' = [at EXCEPT ![c] = r]
             /\ rest' = [rest EXCEPT ![c] = [left EXCEPT ![r] = Tail(@)]]
             /\ given' = [given EXCEPT ![c] = Head(left[r])]

Begin(c) == at[c] = 0 /\ Give(c, items, 1) /\ UNCHANGED items
Step(c) == at[c] # 0 /\ Give(c, rest[c], at[c]) /\ UNCHANGED items

\* The loop is left before its end.
Leave(c) ==
    /\ at[c] # 0
    /\ at' = [at EXCEPT ![c] = 0]
    /\ rest' = [rest EXCEPT ![c] = [q \in Row |-> << >>]]
    /\ given' = [given EXCEPT ![c] = None]
    /\ UNCHANGED items

Next ==
    \/ \E x \in Item, r \in Row : Insert(x, r) \/ Add(x, r)
    \/ \E x \in Item : Drop(x)
    \/ \E c \in Cursor : Begin(c) \/ Step(c) \/ Leave(c)

Spec == Init /\ [][Next]_vars
=============================================================================
