---------------------------- MODULE PriorityLists ----------------------------
(***************************************************************************)
(* What core/kernel_list.h promises its callers, with no links: nodes that *)
(* are created and deleted, lists that are created and deleted, and each   *)
(* node in at most one list.  KernelList implements this specification.    *)
(***************************************************************************)
EXTENDS ListOps

CONSTANTS List, Node, Priority

VARIABLES
    nodes,      \* the nodes that exist
    lists,      \* the lists that exist
    contents    \* the entries of every list, head first

vars == <<nodes, lists, contents>>

Init == /\ nodes = {}
        /\ lists = {}
        /\ contents = [l \in List |-> <<>>]

Unlisted(n) == n \in nodes /\ \A l \in lists : n \notin Nodes(contents[l])

CreateNode(n) == /\ n \notin nodes
                 /\ nodes' = nodes \cup {n}
                 /\ UNCHANGED <<lists, contents>>

\* A node that sits in a list cannot be deleted.
DeleteNode(n) == /\ Unlisted(n)
                 /\ nodes' = nodes \ {n}
                 /\ UNCHANGED <<lists, contents>>

CreateList(l) == /\ l \notin lists
                 /\ lists' = lists \cup {l}
                 /\ UNCHANGED <<nodes, contents>>

\* A list that holds nodes cannot be deleted.
DeleteList(l) == /\ l \in lists
                 /\ contents[l] = <<>>
                 /\ lists' = lists \ {l}
                 /\ UNCHANGED <<nodes, contents>>

Enlist(n, l, p) == /\ l \in lists
                   /\ Unlisted(n)
                   /\ contents' = [contents EXCEPT ![l] = EnlistData(@, n, p)]
                   /\ UNCHANGED <<nodes, lists>>

Delist(l) == /\ l \in lists
             /\ contents[l] # <<>>
             /\ contents' = [contents EXCEPT ![l] = DelistData(@)]
             /\ UNCHANGED <<nodes, lists>>

RemoveFrom(l, n) == /\ l \in lists
                /\ n \in Nodes(contents[l])
                /\ contents' = [contents EXCEPT ![l] = RemoveNodeFrom(@, n)]
                /\ UNCHANGED <<nodes, lists>>

\* The scheduler ages the nodes of a table where they stand.
Age(n, l) ==
    /\ l \in lists
    /\ \E i \in DOMAIN contents[l] :
          /\ contents[l][i].node = n
          /\ contents[l][i].priority > 0
          /\ contents' = [contents EXCEPT ![l][i].priority = @ - 1]
    /\ UNCHANGED <<nodes, lists>>

Next ==
    \/ \E n \in Node : CreateNode(n) \/ DeleteNode(n)
    \/ \E l \in List : CreateList(l) \/ DeleteList(l) \/ Delist(l)
    \/ \E n \in Node, l \in List :
          \/ RemoveFrom(l, n)
          \/ Age(n, l)
          \/ \E p \in Priority : Enlist(n, l, p)

Spec == Init /\ [][Next]_vars
=============================================================================
