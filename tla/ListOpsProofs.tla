---------------------------- MODULE ListOpsProofs ----------------------------
(***************************************************************************)
(* What ListOps promises for every list, every node and every priority:    *)
(* core/kernel_list.c keeps a sorted list sorted, hands out the smallest   *)
(* priority, and serves equal priorities in the order they came.           *)
(***************************************************************************)
EXTENDS ListOps, SequenceTheorems, WellFoundedInduction, TLAPS

\* A non-empty set of naturals has a least element.
LEMMA LeastNatural ==
    ASSUME NEW S, S \subseteq Nat, S # {}
    PROVE  \E m \in S : \A n \in S : m <= n
<1>1. IsWellFoundedOn(OpToRel(<, Nat), Nat)
  BY NatLessThanWellFounded
<1>2. PICK m \in S : \A n \in S : ~ (<<n, m>> \in OpToRel(<, Nat))
  BY <1>1, WFMin
<1>3. ASSUME NEW n \in S PROVE m <= n
  <2>1. m \in Nat /\ n \in Nat
    OBVIOUS
  <2>2. ~ (n < m)
    BY <1>2, <2>1 DEF OpToRel
  <2> QED
    BY <2>1, <2>2
<1> QED
  BY <1>3

\* The entries of a list.
LEMMA ListEntries ==
    ASSUME NEW Node, NEW list \in ListOf(Node)
    PROVE  /\ Len(list) \in Nat
           /\ DOMAIN list = 1 .. Len(list)
           /\ \A i \in 1 .. Len(list) : /\ list[i] \in [node : Node, priority : Nat]
                                        /\ list[i].node \in Node
                                        /\ list[i].priority \in Nat
<1>1. list \in Seq([node : Node, priority : Nat])
  BY DEF ListOf
<1>2. \A i \in 1 .. Len(list) : list[i] \in [node : Node, priority : Nat]
  BY <1>1, ElementOfSeq
<1>3. Len(list) \in Nat /\ DOMAIN list = 1 .. Len(list)
  BY <1>1, LenProperties
<1> QED
  BY <1>2, <1>3

\* The walk of kernel_list_enlist_data stops: at a node, or off the tail.
LEMMA CursorStops ==
    ASSUME NEW Node, NEW list \in ListOf(Node), NEW priority \in Nat
    PROVE  /\ Cursor(list, priority) \in 1 .. Len(list) + 1
           /\ IsCursor(list, priority, Cursor(list, priority))
<1> DEFINE Stops == {k \in 1 .. Len(list) + 1 :
                        k \in DOMAIN list => list[k].priority <= priority}
<1>1. /\ Len(list) \in Nat
      /\ DOMAIN list = 1 .. Len(list)
      /\ \A i \in 1 .. Len(list) : list[i].priority \in Nat
  BY ListEntries
<1>2. Stops \subseteq Nat /\ Len(list) + 1 \in Stops
  BY <1>1
<1>3. PICK k \in Stops : \A j \in Stops : k <= j
  <2> HIDE DEF Stops
  <2> QED BY <1>2, LeastNatural
<1>4. \A i \in 1 .. k - 1 : list[i].priority > priority
  BY <1>1, <1>3
<1>5. k \in 1 .. Len(list) + 1 /\ IsCursor(list, priority, k)
  BY <1>3, <1>4 DEF IsCursor
<1> QED
  BY <1>5 DEF Cursor

\* new is s with e put in at place k.
PutIn(s, k, e, new) ==
    /\ Len(new) = Len(s) + 1
    /\ \A i \in 1 .. Len(s) + 1 :
          new[i] = IF i < k THEN s[i] ELSE IF i = k THEN e ELSE s[i - 1]

\* InsertAt, entry by entry.
LEMMA InsertedEntries ==
    ASSUME NEW R, NEW s \in Seq(R), NEW k \in 1 .. Len(s) + 1, NEW e \in R
    PROVE  InsertAt(s, k, e) \in Seq(R) /\ PutIn(s, k, e, InsertAt(s, k, e))
<1> DEFINE before == SubSeq(s, 1, k - 1)
           after == SubSeq(s, k, Len(s))
<1>1. Len(s) \in Nat /\ \A i \in 1 .. Len(s) : s[i] \in R
  BY LenProperties, ElementOfSeq
<1>2. /\ before \in Seq(R)
      /\ Len(before) = k - 1
      /\ \A i \in 1 .. k - 1 : before[i] = s[i]
  <2>1. 1 \in Int /\ k - 1 \in Int /\ \A i \in 1 .. k - 1 : s[i] \in R
    BY <1>1
  <2>2. /\ before \in Seq(R)
        /\ Len(before) = IF 1 <= k - 1 THEN k - 1 - 1 + 1 ELSE 0
        /\ \A i \in 1 .. k - 1 - 1 + 1 : before[i] = s[1 + i - 1]
    BY <2>1, SubSeqProperties
  <2> QED
    BY <1>1, <2>2
<1>3. /\ after \in Seq(R)
      /\ Len(after) = Len(s) - k + 1
      /\ \A i \in 1 .. Len(s) - k + 1 : after[i] = s[k + i - 1]
  <2>1. k \in Int /\ Len(s) \in Int /\ \A i \in k .. Len(s) : s[i] \in R
    BY <1>1
  <2>2. /\ after \in Seq(R)
        /\ Len(after) = IF k <= Len(s) THEN Len(s) - k + 1 ELSE 0
        /\ \A i \in 1 .. Len(s) - k + 1 : after[i] = s[k + i - 1]
    BY <2>1, SubSeqProperties
  <2> QED
    BY <1>1, <2>2
<1>4. <<e>> \in Seq(R) /\ Len(<<e>>) = 1 /\ <<e>>[1] = e
  OBVIOUS
<1> DEFINE upto == before \o <<e>>
<1>5. /\ upto \in Seq(R)
      /\ Len(upto) = k
      /\ \A i \in 1 .. k : upto[i] = IF i < k THEN s[i] ELSE e
  <2> HIDE DEF before
  <2>1. before \in Seq(R) /\ <<e>> \in Seq(R)
    BY <1>2, <1>4
  <2>2. /\ upto \in Seq(R)
        /\ Len(upto) = Len(before) + Len(<<e>>)
        /\ \A i \in 1 .. Len(before) + Len(<<e>>) :
              upto[i] = IF i <= Len(before) THEN before[i] ELSE <<e>>[i - Len(before)]
    BY ONLY <2>1, ConcatProperties DEF upto
  <2> HIDE DEF upto
  <2>3. Len(before) = k - 1 /\ Len(<<e>>) = 1 /\ k - 1 + 1 = k
    BY <1>2, <1>4
  <2>4. ASSUME NEW i \in 1 .. k PROVE upto[i] = IF i < k THEN s[i] ELSE e
    BY <1>2, <1>4, <2>2, <2>3, <2>4
  <2> QED
    BY <2>2, <2>3, <2>4
<1>6. /\ upto \o after \in Seq(R)
      /\ Len(upto \o after) = Len(upto) + Len(after)
      /\ \A i \in 1 .. Len(upto) + Len(after) :
            (upto \o after)[i] = IF i <= Len(upto) THEN upto[i] ELSE after[i - Len(upto)]
  <2> HIDE DEF upto, after
  <2> QED
    BY <1>3, <1>5, ConcatProperties
<1>7. InsertAt(s, k, e) = upto \o after
  BY DEF InsertAt
<1> HIDE DEF upto, after, before
<1>8. ASSUME NEW i \in 1 .. Len(s) + 1
      PROVE  (upto \o after)[i] = IF i < k THEN s[i] ELSE IF i = k THEN e ELSE s[i - 1]
  <2>1. CASE i <= k
    BY <1>1, <1>3, <1>5, <1>6, <2>1
  <2>2. CASE i > k
    <3>1. i - k \in 1 .. Len(s) - k + 1 /\ i \in 1 .. Len(upto) + Len(after)
      BY <1>1, <1>3, <1>5, <2>2
    <3>2. (upto \o after)[i] = after[i - k]
      BY <1>1, <1>5, <1>6, <2>2, <3>1
    <3>3. after[i - k] = s[k + (i - k) - 1]
      BY <1>3, <3>1
    <3> QED
      BY <1>1, <2>2, <3>2, <3>3
  <2>3. i <= k \/ i > k
    BY <1>1
  <2> QED
    BY <2>1, <2>2, <2>3
<1> QED
  BY <1>1, <1>3, <1>5, <1>6, <1>7, <1>8 DEF PutIn

\* new is the list with the node at place k: in front of it are the nodes with
\* a greater priority that the walk has passed, and the next is not greater.
EnlistedAt(list, node, priority, k, new) ==
    /\ k \in 1 .. Len(list) + 1
    /\ PutIn(list, k, Entry(node, priority), new)
    /\ \A i \in 1 .. k - 1 : list[i].priority > priority
    /\ k <= Len(list) => list[k].priority <= priority

\* kernel_list_enlist_data adds its node and nothing else, in one place.
LEMMA Enlisted ==
    ASSUME NEW Node, NEW list \in ListOf(Node), NEW node \in Node, NEW priority \in Nat
    PROVE  /\ EnlistData(list, node, priority) \in ListOf(Node)
           /\ EnlistedAt(list, node, priority, Cursor(list, priority),
                         EnlistData(list, node, priority))
<1> DEFINE k == Cursor(list, priority)
           R == [node : Node, priority : Nat]
           e == Entry(node, priority)
<1>1. k \in 1 .. Len(list) + 1 /\ IsCursor(list, priority, k)
  BY CursorStops
<1>2. Len(list) \in Nat /\ DOMAIN list = 1 .. Len(list)
  BY ListEntries
<1>3. list \in Seq(R)
  BY DEF ListOf
<1>4. e \in R
  BY DEF Entry
<1> HIDE DEF k, R, e
<1>5. InsertAt(list, k, e) \in Seq(R) /\ PutIn(list, k, e, InsertAt(list, k, e))
  BY <1>1, <1>3, <1>4, InsertedEntries
<1>6. EnlistData(list, node, priority) = InsertAt(list, k, e)
  BY DEF EnlistData, k, e
<1>7. /\ \A i \in 1 .. k - 1 : list[i].priority > priority
      /\ k <= Len(list) => list[k].priority <= priority
  BY <1>1, <1>2 DEF IsCursor
<1> QED
  BY <1>1, <1>5, <1>6, <1>7 DEF ListOf, EnlistedAt, k, R, e

\* Enlisting a node adds it to the nodes of the list.
THEOREM EnlistedNodes ==
    ASSUME NEW Node, NEW list \in ListOf(Node), NEW node \in Node, NEW priority \in Nat
    PROVE  Nodes(EnlistData(list, node, priority)) = Nodes(list) \cup {node}
<1> DEFINE new == EnlistData(list, node, priority)
           k   == Cursor(list, priority)
<1>0. new \in ListOf(Node) /\ EnlistedAt(list, node, priority, k, new)
  BY Enlisted
<1> HIDE DEF new, k
<1>1. /\ new \in ListOf(Node)
      /\ Len(new) = Len(list) + 1
      /\ k \in 1 .. Len(list) + 1
      /\ \A i \in 1 .. Len(list) + 1 :
            new[i] = IF i < k THEN list[i]
                     ELSE IF i = k THEN Entry(node, priority) ELSE list[i - 1]
  BY <1>0 DEF EnlistedAt, PutIn
<1>2. Len(list) \in Nat /\ DOMAIN list = 1 .. Len(list)
  BY ListEntries
<1>3. DOMAIN new = 1 .. Len(list) + 1
  BY <1>1, ListEntries
<1>4. ASSUME NEW i \in DOMAIN new PROVE new[i].node \in Nodes(list) \cup {node}
  <2>1. CASE i < k
    <3>1. i \in DOMAIN list /\ new[i] = list[i]
      BY <1>1, <1>2, <1>3, <2>1
    <3> QED BY <3>1 DEF Nodes
  <2>2. CASE i = k
    <3>1. new[i] = Entry(node, priority)
      BY <1>1, <1>3, <2>2
    <3> QED BY <3>1 DEF Entry
  <2>3. CASE i > k
    <3>1. i - 1 \in DOMAIN list /\ new[i] = list[i - 1]
      BY <1>1, <1>2, <1>3, <2>3
    <3> QED BY <3>1 DEF Nodes
  <2>4. i < k \/ i = k \/ i > k
    BY <1>1, <1>2, <1>3
  <2> QED BY <2>1, <2>2, <2>3, <2>4
<1>5. ASSUME NEW i \in DOMAIN list PROVE list[i].node \in Nodes(new)
  <2>1. CASE i < k
    <3>1. i \in DOMAIN new /\ new[i] = list[i]
      BY <1>1, <1>2, <1>3, <2>1
    <3> QED BY <3>1 DEF Nodes
  <2>2. CASE i >= k
    <3>1. /\ i + 1 \in DOMAIN new
          /\ i + 1 # k /\ ~ (i + 1 < k)
          /\ (i + 1) - 1 = i
      BY <1>1, <1>2, <1>3, <2>2
    <3>2. new[i + 1] = list[i]
      BY <1>1, <1>3, <3>1
    <3> QED BY <3>1, <3>2 DEF Nodes
  <2>3. i < k \/ i >= k
    BY <1>1, <1>2
  <2> QED BY <2>1, <2>2, <2>3
<1>6. node \in Nodes(new)
  <2>1. k \in DOMAIN new /\ new[k] = Entry(node, priority)
    BY <1>1, <1>2, <1>3
  <2> QED BY <2>1 DEF Nodes, Entry
<1>7. Nodes(new) = Nodes(list) \cup {node}
  BY <1>4, <1>5, <1>6 DEF Nodes
<1> QED
  BY <1>7 DEF new

\* A node that is in no list can be enlisted: no node occurs twice then.
THEOREM EnlistedDistinct ==
    ASSUME NEW Node, NEW list \in ListOf(Node), NEW node \in Node, NEW priority \in Nat,
           Distinct(list), node \notin Nodes(list)
    PROVE  Distinct(EnlistData(list, node, priority))
<1> DEFINE new == EnlistData(list, node, priority)
           k   == Cursor(list, priority)
<1>0. new \in ListOf(Node) /\ EnlistedAt(list, node, priority, k, new)
  BY Enlisted
<1> HIDE DEF new, k
<1>1. /\ new \in ListOf(Node)
      /\ Len(new) = Len(list) + 1
      /\ k \in 1 .. Len(list) + 1
      /\ \A i \in 1 .. Len(list) + 1 :
            new[i] = IF i < k THEN list[i]
                     ELSE IF i = k THEN Entry(node, priority) ELSE list[i - 1]
  BY <1>0 DEF EnlistedAt, PutIn
<1> DEFINE old(i) == IF i < k THEN i ELSE i - 1
<1>2. Len(list) \in Nat /\ DOMAIN list = 1 .. Len(list)
  BY ListEntries
<1>3. DOMAIN new = 1 .. Len(list) + 1
  BY <1>1, ListEntries
<1>4. new[k].node = node
  BY <1>1, <1>2 DEF Entry
<1>5. ASSUME NEW i \in DOMAIN new, i # k
      PROVE  old(i) \in DOMAIN list /\ new[i] = list[old(i)] /\ new[i].node # node
  <2>1. old(i) \in DOMAIN list /\ new[i] = list[old(i)]
    BY <1>1, <1>2, <1>3, <1>5
  <2> QED
    BY <2>1 DEF Nodes
<1>6. ASSUME NEW i \in DOMAIN new, NEW j \in DOMAIN new, new[i].node = new[j].node
      PROVE  i = j
  <2>1. CASE i = k \/ j = k
    BY <1>4, <1>5, <1>6, <2>1
  <2>2. CASE i # k /\ j # k
    <3>1. old(i) = old(j)
      BY <1>5, <1>6, <2>2 DEF Distinct
    <3> QED
      BY <1>1, <1>2, <1>3, <2>2, <3>1
  <2> QED
    BY <2>1, <2>2
<1>7. Distinct(new)
  BY <1>6 DEF Distinct
<1> QED
  BY <1>7 DEF new

\* A sorted list stays sorted, ...
THEOREM EnlistedSorted ==
    ASSUME NEW Node, NEW list \in ListOf(Node), NEW node \in Node, NEW priority \in Nat,
           Sorted(list)
    PROVE  Sorted(EnlistData(list, node, priority))
<1> DEFINE new == EnlistData(list, node, priority)
           k   == Cursor(list, priority)
<1>0. new \in ListOf(Node) /\ EnlistedAt(list, node, priority, k, new)
  BY Enlisted
<1> HIDE DEF new, k
<1>1. /\ new \in ListOf(Node)
      /\ Len(new) = Len(list) + 1
      /\ k \in 1 .. Len(list) + 1
      /\ \A i \in 1 .. Len(list) + 1 :
            new[i] = IF i < k THEN list[i]
                     ELSE IF i = k THEN Entry(node, priority) ELSE list[i - 1]
      /\ \A i \in 1 .. k - 1 : list[i].priority > priority
      /\ k <= Len(list) => list[k].priority <= priority
  BY <1>0 DEF EnlistedAt, PutIn
<1>2. /\ Len(list) \in Nat
      /\ DOMAIN list = 1 .. Len(list)
      /\ \A i \in 1 .. Len(list) : list[i].priority \in Nat
  BY ListEntries
<1>3. DOMAIN new = 1 .. Len(list) + 1
  BY <1>1, ListEntries
<1>4. \A i, j \in 1 .. Len(list) : i < j => list[i].priority >= list[j].priority
  BY <1>2 DEF Sorted
<1>5. \A i \in 1 .. Len(list) : i >= k => list[i].priority <= priority
  <2>1. SUFFICES ASSUME NEW i \in 1 .. Len(list), i >= k
                 PROVE  list[i].priority <= priority
    OBVIOUS
  <2>2. k \in 1 .. Len(list) /\ list[k].priority <= priority
    BY <1>1, <1>2, <2>1
  <2>3. list[k].priority >= list[i].priority
    BY <1>2, <1>4, <2>1, <2>2
  <2> QED
    BY <1>2, <2>2, <2>3
<1>6. ASSUME NEW i \in DOMAIN new, NEW j \in DOMAIN new, i < j
      PROVE  new[i].priority >= new[j].priority
  <2>1. CASE j < k
    <3>1. /\ i \in 1 .. Len(list) /\ j \in 1 .. Len(list)
          /\ new[i] = list[i] /\ new[j] = list[j]
      BY <1>1, <1>2, <1>3, <1>6, <2>1
    <3> QED
      BY <1>4, <1>6, <3>1
  <2>2. CASE j = k
    <3>1. i \in 1 .. k - 1 /\ new[i] = list[i] /\ i \in 1 .. Len(list)
      BY <1>1, <1>2, <1>3, <1>6, <2>2
    <3>2. new[j].priority = priority
      BY <1>1, <1>3, <2>2 DEF Entry
    <3> QED
      BY <1>1, <1>2, <3>1, <3>2
  <2>3. CASE j > k /\ i < k
    <3>1. /\ i \in 1 .. k - 1 /\ new[i] = list[i]
          /\ j - 1 \in 1 .. Len(list) /\ new[j] = list[j - 1]
          /\ j - 1 >= k /\ i \in 1 .. Len(list)
      BY <1>1, <1>2, <1>3, <1>6, <2>3
    <3>2. list[i].priority > priority /\ list[j - 1].priority <= priority
      BY <1>1, <1>5, <3>1
    <3> QED
      BY <1>2, <3>1, <3>2
  <2>4. CASE j > k /\ i = k
    <3>1. j - 1 \in 1 .. Len(list) /\ new[j] = list[j - 1] /\ j - 1 >= k
      BY <1>1, <1>2, <1>3, <2>4
    <3>2. new[i].priority = priority
      BY <1>1, <1>3, <2>4 DEF Entry
    <3> QED
      BY <1>2, <1>5, <3>1, <3>2
  <2>5. CASE j > k /\ i > k
    <3>1. /\ i - 1 \in 1 .. Len(list) /\ new[i] = list[i - 1]
          /\ j - 1 \in 1 .. Len(list) /\ new[j] = list[j - 1]
          /\ i - 1 < j - 1
      BY <1>1, <1>2, <1>3, <1>6, <2>5
    <3> QED
      BY <1>4, <3>1
  <2>6. j < k \/ j = k \/ (j > k /\ (i < k \/ i = k \/ i > k))
    BY <1>1, <1>2, <1>3
  <2> QED
    BY <2>1, <2>2, <2>3, <2>4, <2>5, <2>6
<1>7. Sorted(new)
  BY <1>6 DEF Sorted
<1> QED
  BY <1>7 DEF new

\* ... and the new node is served after every node of its priority that was
\* there before: first in, first out among equals.
THEOREM EnlistedBehindEquals ==
    ASSUME NEW Node, NEW list \in ListOf(Node), NEW node \in Node, NEW priority \in Nat
    PROVE  LET new == EnlistData(list, node, priority)
           IN  \E k \in DOMAIN new :
                  /\ new[k] = Entry(node, priority)
                  /\ \A i \in 1 .. k - 1 : new[i].priority > priority
<1> DEFINE new == EnlistData(list, node, priority)
           k   == Cursor(list, priority)
<1>0. new \in ListOf(Node) /\ EnlistedAt(list, node, priority, k, new)
  BY Enlisted
<1> HIDE DEF new, k
<1>1. /\ new \in ListOf(Node)
      /\ Len(new) = Len(list) + 1
      /\ k \in 1 .. Len(list) + 1
      /\ \A i \in 1 .. Len(list) + 1 :
            new[i] = IF i < k THEN list[i]
                     ELSE IF i = k THEN Entry(node, priority) ELSE list[i - 1]
      /\ \A i \in 1 .. k - 1 : list[i].priority > priority
  BY <1>0 DEF EnlistedAt, PutIn
<1>2. Len(list) \in Nat /\ DOMAIN new = 1 .. Len(list) + 1
  BY <1>1, ListEntries
<1>3. k \in DOMAIN new /\ new[k] = Entry(node, priority)
  BY <1>1, <1>2
<1>4. \A i \in 1 .. k - 1 : new[i].priority > priority
  BY <1>1, <1>2
<1> QED
  BY <1>3, <1>4 DEF new

\* kernel_list_delist_data takes one node off the list, ...
THEOREM DelistedNodes ==
    ASSUME NEW Node, NEW list \in ListOf(Node), list # <<>>
    PROVE  /\ DelistData(list) \in ListOf(Node)
           /\ DelistedNode(list) \in Nodes(list)
           /\ Nodes(list) = Nodes(DelistData(list)) \cup {DelistedNode(list)}
           /\ Distinct(list) => /\ DelistedNode(list) \notin Nodes(DelistData(list))
                                /\ Distinct(DelistData(list))
           /\ Sorted(list) => Sorted(DelistData(list))
<1> DEFINE rest == DelistData(list)
           n    == Len(list)
           R    == [node : Node, priority : Nat]
<1>1. list \in Seq(R) /\ n \in Nat \ {0} /\ DOMAIN list = 1 .. n
  BY ListEntries, EmptySeq DEF ListOf
<1>2. \A i \in 1 .. n - 1 : list[i] \in R
  <2>1. \A i \in 1 .. n : list[i] \in R
    BY ListEntries
  <2> QED
    BY <1>1, <2>1
<1>3. rest = SubSeq(list, 1, n - 1)
  BY DEF DelistData, Front
<1> HIDE DEF R, n
<1>4. /\ SubSeq(list, 1, n - 1) \in Seq(R)
      /\ Len(SubSeq(list, 1, n - 1)) = IF 1 <= n - 1 THEN n - 1 - 1 + 1 ELSE 0
      /\ \A i \in 1 .. n - 1 - 1 + 1 : SubSeq(list, 1, n - 1)[i] = list[1 + i - 1]
  BY <1>1, <1>2, SubSeqProperties
<1>5. /\ rest \in Seq(R)
      /\ Len(rest) = n - 1
      /\ \A i \in 1 .. n - 1 : rest[i] = list[i]
  BY <1>1, <1>3, <1>4
<1>6. rest \in ListOf(Node) /\ DOMAIN rest = 1 .. n - 1
  BY <1>5, LenProperties DEF ListOf, R
<1>7. DelistedNode(list) = list[n].node
  BY DEF DelistedNode, Last, n
<1> HIDE DEF rest
<1>8. DelistedNode(list) \in Nodes(list)
  BY <1>1, <1>7 DEF Nodes
<1>9. Nodes(list) = Nodes(rest) \cup {DelistedNode(list)}
  <2>1. \A i \in 1 .. n : i = n \/ i \in 1 .. n - 1
    BY <1>1
  <2> QED
    BY <1>1, <1>5, <1>6, <1>7, <1>8, <2>1 DEF Nodes
<1>10. ASSUME Distinct(list)
       PROVE  DelistedNode(list) \notin Nodes(rest) /\ Distinct(rest)
  BY <1>1, <1>5, <1>6, <1>7, <1>10 DEF Nodes, Distinct
<1>11. ASSUME Sorted(list) PROVE Sorted(rest)
  BY <1>1, <1>5, <1>6, <1>11 DEF Sorted
<1> QED
  BY <1>6, <1>8, <1>9, <1>10, <1>11 DEF rest

\* ... and that one has the smallest priority when the list is sorted: this is
\* "the one with the highest priority" of core/kernel_list.h.
THEOREM DelistedIsLeast ==
    ASSUME NEW Node, NEW list \in ListOf(Node), list # <<>>, Sorted(list)
    PROVE  \A i \in DOMAIN list : list[i].priority >= Last(list).priority
<1>1. Len(list) \in Nat /\ DOMAIN list = 1 .. Len(list)
      /\ \A i \in 1 .. Len(list) : list[i].priority \in Nat
  BY ListEntries
<1> QED
  BY <1>1 DEF Sorted, Last

\* Both keep the priorities of a list in any set they come from.
LEMMA EnlistedIn ==
    ASSUME NEW Node, NEW P, P \subseteq Nat,
           NEW list \in Seq([node : Node, priority : P]),
           NEW node \in Node, NEW priority \in P
    PROVE  EnlistData(list, node, priority) \in Seq([node : Node, priority : P])
<1> DEFINE R == [node : Node, priority : P]
           k == Cursor(list, priority)
           e == Entry(node, priority)
<1>1. list \in ListOf(Node)
  <2>1. R \subseteq [node : Node, priority : Nat]
    OBVIOUS
  <2> QED
    BY <2>1, SeqMonotonic DEF ListOf
<1>2. k \in 1 .. Len(list) + 1
  BY <1>1, CursorStops
<1>3. e \in R /\ list \in Seq(R)
  BY DEF Entry
<1> HIDE DEF R, k, e
<1>4. InsertAt(list, k, e) \in Seq(R)
  BY <1>2, <1>3, InsertedEntries
<1> QED
  BY <1>4 DEF EnlistData, R, k, e

\* What is left after a delisting is a list over the same nodes and priorities.
LEMMA DelistedIn ==
    ASSUME NEW R, NEW list \in Seq(R)
    PROVE  DelistData(list) \in Seq(R)
<1>1. Len(list) \in Nat /\ \A i \in 1 .. Len(list) : list[i] \in R
  BY LenProperties, ElementOfSeq
<1>2. 1 \in Int /\ Len(list) - 1 \in Int /\ \A i \in 1 .. Len(list) - 1 : list[i] \in R
  BY <1>1
<1>3. SubSeq(list, 1, Len(list) - 1) \in Seq(R)
  BY <1>2, SubSeqProperties
<1> QED
  BY <1>3 DEF DelistData, Front

\* RemoveAt, entry by entry.
LEMMA RemovedEntries ==
    ASSUME NEW R, NEW s \in Seq(R), NEW k \in 1 .. Len(s)
    PROVE  /\ RemoveAt(s, k) \in Seq(R)
           /\ Len(RemoveAt(s, k)) = Len(s) - 1
           /\ \A i \in 1 .. Len(s) - 1 : RemoveAt(s, k)[i] = IF i < k THEN s[i] ELSE s[i + 1]
<1> DEFINE n == Len(s)
           left == SubSeq(s, 1, k - 1)
           right == SubSeq(s, k + 1, n)
<1>1. n \in Nat /\ k \in 1 .. n /\ \A i \in 1 .. n : s[i] \in R
  BY LenProperties, ElementOfSeq
<1>2. /\ left \in Seq(R) /\ Len(left) = k - 1
      /\ \A i \in 1 .. k - 1 : left[i] = s[i]
  <2>1. 1 \in Int /\ k - 1 \in Int /\ \A i \in 1 .. k - 1 : s[i] \in R
    BY <1>1
  <2>2. /\ left \in Seq(R)
        /\ Len(left) = IF 1 <= k - 1 THEN k - 1 - 1 + 1 ELSE 0
        /\ \A i \in 1 .. k - 1 - 1 + 1 : left[i] = s[1 + i - 1]
    BY <2>1, SubSeqProperties
  <2> QED BY <1>1, <2>2
<1>3. /\ right \in Seq(R) /\ Len(right) = n - k
      /\ \A i \in 1 .. n - k : right[i] = s[k + i]
  <2>1. k + 1 \in Int /\ n \in Int /\ \A i \in k + 1 .. n : s[i] \in R
    BY <1>1
  <2>2. /\ right \in Seq(R)
        /\ Len(right) = IF k + 1 <= n THEN n - (k + 1) + 1 ELSE 0
        /\ \A i \in 1 .. n - (k + 1) + 1 : right[i] = s[k + 1 + i - 1]
    BY <2>1, SubSeqProperties
  <2> HIDE DEF n, right
  <2>3. (IF k + 1 <= n THEN n - (k + 1) + 1 ELSE 0) = n - k
    BY <1>1
  <2>4. \A i \in 1 .. n - k : i \in 1 .. n - (k + 1) + 1 /\ k + 1 + i - 1 = k + i
    BY <1>1
  <2> QED BY <2>2, <2>3, <2>4
<1>4. RemoveAt(s, k) = left \o right
  BY DEF RemoveAt
<1> HIDE DEF left, right, n
<1>5. /\ left \o right \in Seq(R)
      /\ Len(left \o right) = Len(left) + Len(right)
      /\ \A i \in 1 .. Len(left) + Len(right) :
            (left \o right)[i] = IF i <= Len(left) THEN left[i] ELSE right[i - Len(left)]
  BY <1>2, <1>3, ConcatProperties
<1>6. Len(left) + Len(right) = n - 1
  BY <1>1, <1>2, <1>3
<1>7. ASSUME NEW i \in 1 .. n - 1
      PROVE  (left \o right)[i] = IF i < k THEN s[i] ELSE s[i + 1]
  <2>1. CASE i < k
    BY <1>1, <1>2, <1>5, <1>6, <2>1
  <2>2. CASE i >= k
    <3>1. i - (k - 1) \in 1 .. n - k /\ k + (i - (k - 1)) = i + 1
      BY <1>1, <2>2
    <3>2. (left \o right)[i] = right[i - (k - 1)]
      BY <1>1, <1>2, <1>5, <1>6, <2>2
    <3>3. right[i - (k - 1)] = s[i + 1]
      BY <1>3, <3>1
    <3> QED BY <1>1, <2>2, <3>2, <3>3
  <2>3. i < k \/ i >= k
    BY <1>1
  <2> QED BY <2>1, <2>2, <2>3
<1> QED BY <1>4, <1>5, <1>6, <1>7 DEF n

\* kernel_list_find_node finds the first entry of the node.
LEMMA PositionFound ==
    ASSUME NEW list, NEW node, node \in Nodes(list),
           Len(list) \in Nat, DOMAIN list = 1 .. Len(list)
    PROVE  /\ Position(list, node) \in DOMAIN list
           /\ list[Position(list, node)].node = node
<1> DEFINE Where == {i \in DOMAIN list : list[i].node = node}
<1>1. Where \subseteq Nat /\ Where # {}
  BY DEF Nodes
<1>2. PICK i \in Where : \A j \in Where : i <= j
  <2> HIDE DEF Where
  <2> QED BY <1>1, LeastNatural
<1>3. i \in DOMAIN list /\ list[i].node = node /\ \A j \in 1 .. i - 1 : list[j].node # node
  BY <1>2
<1> HIDE DEF Where
<1> QED BY <1>3 DEF Position
=============================================================================
