-------------------------------- MODULE Lists --------------------------------
(* The lists and hash tables all the servers keep their connections, games,  *)
(* channels, timers and queries in (src/src/common/list.c, hashtable.c). An  *)
(* item that is removed leaves its node behind, marked, for the loops that   *)
(* stand on it; a purge frees the nodes. A list is the one row of a table,   *)
(* with a tail besides.                                                      *)
EXTENDS Integers, Sequences, SequencesExt, FiniteSets, FiniteSetsExt

CONSTANTS
    Item, Node, Cursor,
    None,           \* NULL
    nodata,         \* the mark of a removed node
    free,           \* a node that is not allocated
    Rows,           \* num_rows
    Hash            \* the row of each item

VARIABLES
    kind,           \* "list" or "table"
    head, tail, next, data, len,
    node, row,      \* where each loop stands
    given           \* what elem_get_data gave it there

vars == <<kind, head, tail, next, data, len, node, row, given>>

Row == 1..Rows

\* The nodes from n on.
Chain[n \in Node \cup {None}] == IF n = None THEN << >> ELSE <<n>> \o Chain[next[n]]

Valid(n) == data[n] # nodata

RowNodes(r) == Chain[head[r]]

Init ==
    /\ kind \in {"list", "table"}
    /\ head = [r \in Row |-> None]
    /\ tail = None
    /\ next = [n \in Node |-> None]
    /\ data = [n \in Node |-> free]
    /\ len = 0
    /\ node = [c \in Cursor |-> None]
    /\ row = [c \in Cursor |-> 0]
    /\ given = [c \in Cursor |-> None]

NotIn(x) == \A n \in Node : data[n] # x

\* A node in front of the others of its row.
Put(x, n, r) ==
    /\ NotIn(x) /\ data[n] = free
    /\ data' = [data EXCEPT ![n] = x]
    /\ next' = [next EXCEPT ![n] = head[r]]
    /\ head' = [head EXCEPT ![r] = n]
    /\ tail' = IF kind = "list" /\ tail = None THEN n ELSE tail
    /\ len' = len + 1
    /\ UNCHANGED <<kind, node, row, given>>

\* list_prepend_data
Prepend(x, n) == kind = "list" /\ Put(x, n, 1)

\* hashtable_insert_data, whose rows have no tail
InsertData(x, n) == kind = "table" /\ Put(x, n, Hash[x])

\* list_append_data
AppendData(x, n) ==
    /\ kind = "list" /\ NotIn(x) /\ data[n] = free
    /\ data' = [data EXCEPT ![n] = x]
    /\ next' = [m \in Node |-> IF m = n THEN None ELSE IF m = tail THEN n ELSE next[m]]
    /\ head' = IF head[1] = None THEN [head EXCEPT ![1] = n] ELSE head
    /\ tail' = n
    /\ len' = len + 1
    /\ UNCHANGED <<kind, node, row, given>>

\* hashtable_get_entry_by_data, list_get_elem_by_data: the nodes that hold x
NodesOf(x, r) == {n \in ToSet(RowNodes(r)) : data[n] = x}

Marked(nodes) ==
    /\ nodes # {}
    /\ data' = [n \in Node |-> IF n \in nodes THEN nodata ELSE data[n]]
    /\ len' = len - 1
    /\ UNCHANGED <<kind, head, tail, next, node, row, given>>

\* list_remove_data and list_remove_elem
RemoveElem(x) == kind = "list" /\ Marked(NodesOf(x, 1))

\* hashtable_remove_data and hashtable_remove_entry
RemoveEntry(x) == kind = "table" /\ Marked(NodesOf(x, Hash[x]))

-----------------------------------------------------------------------------
\* elem_get_next and list_get_first: the first node from n on that is not marked.
Elem(n) ==
    LET rest == SelectSeq(Chain[n], Valid)
    IN  IF rest = << >> THEN [row |-> 0, node |-> None] ELSE [row |-> 1, node |-> rest[1]]

\* entry_get_next and hashtable_get_first: of row r from n on and of the rows behind it.
Entry(r, n) ==
    LET rest(q) == SelectSeq(IF q = r THEN Chain[n] ELSE RowNodes(q), Valid)
        rows == {q \in r..Rows : rest(q) # << >>}
    IN  IF rows = {} THEN [row |-> 0, node |-> None]
        ELSE [row |-> Min(rows), node |-> rest(Min(rows))[1]]

Stand(c, f) ==
    /\ node' = [node EXCEPT ![c] = f.node]
    /\ row' = [row EXCEPT ![c] = f.row]
    /\ given' = [given EXCEPT ![c] = IF f.node = None THEN None ELSE data[f.node]]
    /\ UNCHANGED <<kind, head, tail, next, data, len>>

\* LIST_TRAVERSE and HASHTABLE_TRAVERSE.
Begin(c) ==
    /\ node[c] = None
    /\ Stand(c, IF kind = "list" THEN Elem(head[1]) ELSE Entry(1, head[1]))

\* Mutant: the nodes that are marked are not passed over.
StepAny(c) ==
    /\ node[c] # None
    /\ LET n == next[node[c]]
       IN  IF n = None THEN Stand(c, Entry(row[c] + 1, None))
           ELSE Stand(c, [row |-> row[c], node |-> n])

Step(c) ==
    /\ node[c] # None
    /\ Stand(c, IF kind = "list" THEN Elem(next[node[c]]) ELSE Entry(row[c], next[node[c]]))

\* break
Leave(c) == node[c] # None /\ Stand(c, [row |-> 0, node |-> None])

\* The loops under way stand on items that are still there when the nodes are freed, as
\* the callers take care: query_tick leaves its loop when it has deleted a query,
\* game_del_player and watchlist_del_events theirs.
Kept(r) == SelectSeq(RowNodes(r), Valid)

PurgedNext(n) ==
    LET k == Kept(CHOOSE r \in Row : n \in ToSet(RowNodes(r)))
        i == SelectInSeq(k, LAMBDA m : m = n)
    IN  IF i = Len(k) THEN None ELSE k[i + 1]

Freed ==
    /\ \A c \in Cursor : node[c] # None => Valid(node[c])
    /\ \E n \in Node : ~Valid(n)
    /\ head' = [r \in Row |-> IF Kept(r) = << >> THEN None ELSE Kept(r)[1]]
    /\ next' = [n \in Node |-> IF data[n] \in Item THEN PurgedNext(n) ELSE None]
    /\ data' = [n \in Node |-> IF Valid(n) THEN data[n] ELSE free]
    /\ UNCHANGED <<kind, len, node, row, given>>

\* Mutant: tail stays where it was.
PurgeKeepsTail ==
    /\ kind = "list" /\ Freed
    /\ tail' = IF Kept(1) = << >> THEN None ELSE tail

\* list_purge
PurgeList ==
    /\ kind = "list" /\ Freed
    /\ tail' = IF Kept(1) = << >> THEN None ELSE Last(Kept(1))

\* hashtable_purge
PurgeTable == kind = "table" /\ Freed /\ UNCHANGED tail

Next ==
    \/ \E x \in Item, n \in Node : Prepend(x, n) \/ InsertData(x, n) \/ AppendData(x, n)
    \/ \E x \in Item : RemoveElem(x) \/ RemoveEntry(x)
    \/ \E c \in Cursor : Begin(c) \/ Step(c) \/ Leave(c)
    \/ PurgeList \/ PurgeTable

Spec == Init /\ [][Next]_vars

-----------------------------------------------------------------------------
Held == UNION {ToSet(RowNodes(r)) : r \in Row}

TypeOK ==
    /\ data \in [Node -> Item \cup {nodata, free}] /\ next \in [Node -> Node \cup {None}]
    /\ \A c \in Cursor : (node[c] = None) = (row[c] = 0)

\* list_check: the nodes that are allocated are those of the rows, the length counts the
\* ones that are not marked, the tail is the last, and no loop stands on a freed node.
Consistent ==
    /\ {n \in Node : data[n] # free} = Held
    /\ len = Cardinality({n \in Held : Valid(n)})
    /\ kind = "list" => tail = (IF RowNodes(1) = << >> THEN None ELSE Last(RowNodes(1)))
    /\ \A c \in Cursor : node[c] # None => node[c] \in Held

Items(nodes) == LET v == SelectSeq(nodes, Valid) IN [i \in DOMAIN v |-> data[v[i]]]

Rest(c) ==
    [r \in Row |-> IF node[c] = None \/ r < row[c] THEN << >>
                   ELSE Items(IF r = row[c] THEN Chain[next[node[c]]] ELSE RowNodes(r))]

Table == INSTANCE OrderedTable
    WITH items <- [r \in Row |-> Items(RowNodes(r))],
         at    <- row,
         rest  <- [c \in Cursor |-> Rest(c)],
         given <- given

\* Loops that remove items, and call what removes others or adds some, give every item
\* that stays, once and in order, and none that has gone (list.c, hashtable.c).
ImplementsTable == Table!Spec
=============================================================================
