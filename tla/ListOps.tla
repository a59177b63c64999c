------------------------------- MODULE ListOps -------------------------------
(***************************************************************************)
(* What the operations of core/kernel_list.c compute, on the value of a    *)
(* list rather than on its links.  A list is the sequence of its nodes     *)
(* from kernel_list_t.head to kernel_list_t.tail; an entry carries the     *)
(* node and the 16-bit priority the node was enlisted with.                *)
(*                                                                         *)
(* Every table of the kernel (active, sleeping, zombie threads, children,  *)
(* the waiting threads of a semaphore, mutex, mailbox or queue) is such a  *)
(* list, so the other modules are written with these operators.  Module    *)
(* KernelList holds the linked implementation and checks it against them.  *)
(***************************************************************************)
EXTENDS Integers, Sequences, SequencesExt

Entry(node, priority) == [node |-> node, priority |-> priority]

\* Lists over a set of nodes.
ListOf(Node) == Seq([node : Node, priority : Nat])

Nodes(list) == {list[i].node : i \in DOMAIN list}

\* No node occurs twice ("a node should be only used in ONE list at most").
Distinct(list) == \A i, j \in DOMAIN list : list[i].node = list[j].node => i = j

\* Where the cursor of kernel_list_enlist_data stops: the walk starts at the
\* head and skips the nodes whose priority is greater than the new one.
IsCursor(list, priority, k) ==
    /\ \A i \in 1 .. k - 1 : list[i].priority > priority
    /\ k \in DOMAIN list => list[k].priority <= priority

Cursor(list, priority) ==
    CHOOSE k \in 1 .. Len(list) + 1 : IsCursor(list, priority, k)

\* kernel_list_enlist_data: the new node goes in front of the cursor, or
\* becomes the tail when the walk runs off the list.
EnlistData(list, node, priority) ==
    InsertAt(list, Cursor(list, priority), Entry(node, priority))

\* kernel_list_delist_data hands out the tail ...
DelistedNode(list) == Last(list).node

\* ... and leaves the rest.
DelistData(list) == Front(list)

\* kernel_list_find_node: the first node from the head.
Position(list, node) ==
    CHOOSE i \in DOMAIN list :
        /\ list[i].node = node
        /\ \A j \in 1 .. i - 1 : list[j].node # node

\* kernel_list_remove_node_from: a node that is not there is left alone.
RemoveNodeFrom(list, node) ==
    IF node \in Nodes(list) THEN RemoveAt(list, Position(list, node)) ELSE list

\* The order every table is documented to have: priorities fall from head to
\* tail, so the tail holds the numerically smallest one.
Sorted(list) ==
    \A i, j \in DOMAIN list : i < j => list[i].priority >= list[j].priority
=============================================================================
