------------------------------ MODULE KernelList ------------------------------
(***************************************************************************)
(* core/kernel_list.c with its links: a node has next, prev, a priority    *)
(* and the enlisted flag, a list has head, tail and size.  One action per  *)
(* function; each runs to its end with nobody else in the list, because    *)
(* every caller holds off interrupts around it.  kernel_list_find_node     *)
(* reads only: ListOps!Position is its answer.                             *)
(*                                                                         *)
(* The functions refuse what they can see (a null pointer, an enlisted     *)
(* node to delete, a list that is not empty to delete): a refused call     *)
(* changes nothing and is not an action.  They do not see a node that is   *)
(* enlisted twice: that obligation is the caller's, kernel_list.h says so, *)
(* and Enlist has it as a guard.                                           *)
(***************************************************************************)
EXTENDS ListOps, FiniteSets

CONSTANTS
    List,       \* the lists
    Node,       \* the nodes
    Priority,   \* the priorities nodes are enlisted with
    MaxSize,    \* bound on the size field (it is never reset)
    NULL

ASSUME KernelListAssumption ==
    /\ Priority \subseteq Nat
    /\ MaxSize \in Nat
    /\ IsFiniteSet(Node) /\ NULL \notin Node

VARIABLES
    nodes,      \* the nodes allocated
    lists,      \* the lists allocated
    head,       \* kernel_list_t.head, and so on
    tail,
    size,
    next,       \* kernel_list_node_t.next, and so on
    prev,
    priority,
    enlisted

links == <<head, tail, size, next, prev, priority, enlisted>>
vars  == <<nodes, lists, links>>

Init ==
    /\ nodes = {}
    /\ lists = {}
    /\ head = [l \in List |-> NULL]
    /\ tail = [l \in List |-> NULL]
    /\ size = [l \in List |-> 0]
    /\ next = [n \in Node |-> NULL]
    /\ prev = [n \in Node |-> NULL]
    /\ priority = [n \in Node |-> 0]
    /\ enlisted = [n \in Node |-> FALSE]

-----------------------------------------------------------------------------
(* Walks                                                                   *)

\* The nodes a walk from the head meets, NULL once it ran off the list.  One
\* step more than there are nodes, so that a cycle would show.
Walk(l) ==
    LET at[i \in 1 .. Cardinality(Node) + 1] ==
            IF i = 1 THEN head[l]
            ELSE IF at[i - 1] = NULL THEN NULL ELSE next[at[i - 1]]
    IN  at

FirstOf(walk, wanted) ==
    LET hits == {i \in DOMAIN walk : walk[i] \in wanted}
    IN  IF hits = {} THEN NULL
        ELSE walk[CHOOSE i \in hits : \A j \in hits : i <= j]

\* A slip in the walk: >= instead of >, which would serve nodes of
\* equal priority last in, first out.
EnlistCursorAfterEquals(l, p) == FirstOf(Walk(l), {n \in Node : priority[n] < p})

\* The cursor of kernel_list_enlist_data.
EnlistCursor(l, p) == FirstOf(Walk(l), {n \in Node : priority[n] <= p})

-----------------------------------------------------------------------------
(* The functions                                                           *)

\* kernel_list_create_node: memset to 0.
CreateNode(n) ==
    /\ n \notin nodes
    /\ nodes' = nodes \cup {n}
    /\ next' = [next EXCEPT ![n] = NULL]
    /\ prev' = [prev EXCEPT ![n] = NULL]
    /\ priority' = [priority EXCEPT ![n] = 0]
    /\ enlisted' = [enlisted EXCEPT ![n] = FALSE]
    /\ UNCHANGED <<lists, head, tail, size>>

\* kernel_list_delete_node
DeleteNode(n) ==
    /\ n \in nodes
    /\ ~enlisted[n]
    /\ nodes' = nodes \ {n}
    /\ UNCHANGED <<lists, links>>

\* kernel_list_create_list
CreateList(l) ==
    /\ l \notin lists
    /\ lists' = lists \cup {l}
    /\ head' = [head EXCEPT ![l] = NULL]
    /\ tail' = [tail EXCEPT ![l] = NULL]
    /\ size' = [size EXCEPT ![l] = 0]
    /\ UNCHANGED <<nodes, next, prev, priority, enlisted>>

\* kernel_list_delete_list
DeleteList(l) ==
    /\ l \in lists
    /\ head[l] = NULL
    /\ tail[l] = NULL
    /\ lists' = lists \ {l}
    /\ UNCHANGED <<nodes, links>>

\* The three ways kernel_list_enlist_data links a node in.
LinkFirst(n, l) ==
    /\ head' = [head EXCEPT ![l] = n]
    /\ tail' = [tail EXCEPT ![l] = n]
    /\ next' = [next EXCEPT ![n] = NULL]
    /\ prev' = [prev EXCEPT ![n] = NULL]

\* A slip in the links: the old neighbour is left pointing past n.
LinkBeforeOneWay(n, l, cursor) ==
    /\ prev' = [prev EXCEPT ![n] = prev[cursor]]
    /\ next' = [next EXCEPT ![n] = cursor]
    /\ head' = IF prev[cursor] = NULL THEN [head EXCEPT ![l] = n] ELSE head
    /\ UNCHANGED tail

LinkBefore(n, l, cursor) ==
    LET before == prev[cursor]
    IN  /\ prev' = [prev EXCEPT ![n] = before, ![cursor] = n]
        /\ IF before # NULL
           THEN /\ next' = [next EXCEPT ![n] = cursor, ![before] = n]
                /\ UNCHANGED head
           ELSE /\ next' = [next EXCEPT ![n] = cursor]
                /\ head' = [head EXCEPT ![l] = n]
        /\ UNCHANGED tail

LinkLast(n, l) ==
    /\ prev' = [prev EXCEPT ![n] = tail[l]]
    /\ next' = [next EXCEPT ![n] = NULL, ![tail[l]] = n]
    /\ tail' = [tail EXCEPT ![l] = n]
    /\ UNCHANGED head

\* kernel_list_enlist_data
Enlist(n, l, p) ==
    /\ n \in nodes
    /\ l \in lists
    /\ ~enlisted[n]                     \* the caller's obligation
    /\ size[l] < MaxSize
    /\ priority' = [priority EXCEPT ![n] = p]
    /\ \/ head[l] = NULL /\ LinkFirst(n, l)
       \/ /\ head[l] # NULL
          /\ EnlistCursor(l, p) # NULL
          /\ LinkBefore(n, l, EnlistCursor(l, p))
       \/ /\ head[l] # NULL
          /\ EnlistCursor(l, p) = NULL
          /\ LinkLast(n, l)
    /\ size' = [size EXCEPT ![l] = @ + 1]
    /\ enlisted' = [enlisted EXCEPT ![n] = TRUE]
    /\ UNCHANGED <<nodes, lists>>

\* kernel_list_delist_data: the tail.
Delist(l) ==
    LET n == tail[l]
    IN  /\ l \in lists
        /\ head[l] # NULL
        /\ IF prev[n] # NULL
           THEN /\ next' = [next EXCEPT ![prev[n]] = NULL, ![n] = NULL]
                /\ tail' = [tail EXCEPT ![l] = prev[n]]
                /\ UNCHANGED head
           ELSE /\ next' = [next EXCEPT ![n] = NULL]
                /\ head' = [head EXCEPT ![l] = NULL]
                /\ tail' = [tail EXCEPT ![l] = NULL]
        /\ prev' = [prev EXCEPT ![n] = NULL]
        /\ size' = [size EXCEPT ![l] = @ - 1]
        /\ enlisted' = [enlisted EXCEPT ![n] = FALSE]
        /\ UNCHANGED <<nodes, lists, priority>>

\* The four cases of kernel_list_remove_node_from, by the neighbours n has.
Unlink(n, l) ==
    /\ next' = [m \in Node |-> IF m = n THEN NULL
                               ELSE IF m = prev[n] THEN next[n] ELSE next[m]]
    /\ prev' = [m \in Node |-> IF m = n THEN NULL
                               ELSE IF m = next[n] THEN prev[n] ELSE prev[m]]
    /\ head' = IF prev[n] = NULL THEN [head EXCEPT ![l] = next[n]] ELSE head
    /\ tail' = IF next[n] = NULL THEN [tail EXCEPT ![l] = prev[n]] ELSE tail

\* kernel_list_remove_node_from.  The size field keeps its value.
RemoveFrom(l, n) ==
    /\ l \in lists
    /\ \E i \in DOMAIN Walk(l) : Walk(l)[i] = n
    /\ Unlink(n, l)
    /\ enlisted' = [enlisted EXCEPT ![n] = FALSE]
    /\ UNCHANGED <<nodes, lists, size, priority>>

\* --(cursor->priority) in schedule_int, the one write from outside this file.
Age(n) ==
    /\ enlisted[n]
    /\ priority[n] > 0
    /\ priority' = [priority EXCEPT ![n] = @ - 1]
    /\ UNCHANGED <<nodes, lists, head, tail, size, next, prev, enlisted>>

Next ==
    \/ \E n \in Node : CreateNode(n) \/ DeleteNode(n) \/ Age(n)
    \/ \E l \in List : CreateList(l) \/ DeleteList(l) \/ Delist(l)
    \/ \E n \in Node, l \in List, p \in Priority : Enlist(n, l, p)
    \/ \E n \in Node, l \in List : RemoveFrom(l, n)

Spec == Init /\ [][Next]_vars

-----------------------------------------------------------------------------
(* The list a caller sees                                                  *)

Chain(l) ==
    LET walk == Walk(l)
        met  == {i \in DOMAIN walk : walk[i] # NULL}
    IN  [i \in 1 .. Cardinality(met) |-> Entry(walk[i], priority[walk[i]])]

Abstract == INSTANCE PriorityLists WITH contents <- [l \in List |-> Chain(l)]

-----------------------------------------------------------------------------
(* Properties                                                              *)

\* Every field holds a value of its C type.
TypeOK ==
    /\ nodes \subseteq Node
    /\ lists \subseteq List
    /\ head \in [List -> Node \cup {NULL}]
    /\ tail \in [List -> Node \cup {NULL}]
    /\ size \in [List -> 0 .. MaxSize]
    /\ next \in [Node -> Node \cup {NULL}]
    /\ prev \in [Node -> Node \cup {NULL}]
    /\ priority \in [Node -> Nat]
    /\ enlisted \in [Node -> BOOLEAN]

\* The two directions of a list agree, whatever mix of insertions at the
\* head, in the middle and at the tail, of delistings and of removals built
\* it: prev undoes next, the tail is the last node a walk meets, nothing hangs
\* in front of the head, and the walk ends.  size counts the removals that
\* kernel_list_remove_node_from does not subtract, so it never falls below the
\* length: the decrement of kernel_list_delist_data cannot wrap around.
LinksAgree ==
    \A l \in lists :
        LET c == Chain(l)
        IN  /\ Len(c) <= Cardinality(Node)
            /\ \A i \in DOMAIN c :
                  prev[c[i].node] = IF i = 1 THEN NULL ELSE c[i - 1].node
            /\ tail[l] = IF c = <<>> THEN NULL ELSE Last(c).node
            /\ Len(c) <= size[l]

\* The enlisted flag, which decides whether kernel_list_delete_node frees the
\* node, says exactly whether some list still links it; no list shares a node
\* with another and none links a freed node.
FlagIsTruth ==
    /\ \A n \in nodes : enlisted[n] <=> \E l \in lists : n \in Nodes(Chain(l))
    /\ \A l \in lists : Nodes(Chain(l)) \subseteq nodes
    /\ \A l, m \in lists : l # m => Nodes(Chain(l)) \cap Nodes(Chain(m)) = {}

\* The lists are sound: links and flags tell the same of every node.
WellLinked == LinksAgree /\ FlagIsTruth

\* Every function does to the links what PriorityLists says it does to the
\* sequence: the node that leaves is the tail, insertion is in front of the
\* first node that is not above, and nodes of equal priority leave in the
\* order they came.
ImplementsPriorityLists == Abstract!Spec
=============================================================================
