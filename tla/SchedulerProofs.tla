--------------------------- MODULE SchedulerProofs ---------------------------
(***************************************************************************)
(* core/scheduler.c keeps every thread in the one place its state names,   *)
(* for any number of threads, any priorities and any delays.               *)
(***************************************************************************)
EXTENDS Scheduler, ListOpsProofs, FiniteSetTheorems

\* The tables and the lists of children, as sequences.
Table == Seq([node : Thread, priority : 0 .. Word16 - 1])

LEMMA TableFacts ==
    ASSUME NEW table \in Table
    PROVE  /\ table \in ListOf(Thread)
           /\ Len(table) \in Nat /\ DOMAIN table = 1 .. Len(table)
           /\ \A i \in 1 .. Len(table) : /\ table[i] \in [node : Thread, priority : 0 .. Word16 - 1]
                                         /\ table[i].node \in Thread
                                         /\ table[i].priority \in 0 .. Word16 - 1
           /\ Nodes(table) \subseteq Thread
<1> DEFINE R == [node : Thread, priority : 0 .. Word16 - 1]
<1>1. R \subseteq [node : Thread, priority : Nat]
  BY SchedulerAssumption
<1>2. table \in Seq(R)
  BY DEF Table
<1>3. /\ Len(table) \in Nat /\ DOMAIN table = 1 .. Len(table)
      /\ \A i \in 1 .. Len(table) : table[i] \in R
  <2> HIDE DEF R
  <2> QED BY <1>2, LenProperties, ElementOfSeq
<1>4. table \in ListOf(Thread)
  <2> DEFINE Q == [node : Thread, priority : Nat]
  <2>1. R \subseteq Q
    BY <1>1
  <2> HIDE DEF R, Q
  <2>2. table \in Seq(Q)
    BY <1>2, <2>1, SeqMonotonic
  <2> QED BY <2>2 DEF ListOf, Q
<1>5. \A i \in 1 .. Len(table) : table[i].node \in Thread /\ table[i].priority \in 0 .. Word16 - 1
  BY <1>3
<1>6. Nodes(table) \subseteq Thread
  BY <1>3, <1>5 DEF Nodes
<1> QED BY <1>3, <1>4, <1>5, <1>6

\* One node is enlisted.
LEMMA EnlistStep ==
    ASSUME NEW table \in Table, NEW t \in Thread, NEW prio \in 0 .. Word16 - 1
    PROVE  /\ EnlistData(table, t, prio) \in Table
           /\ Nodes(EnlistData(table, t, prio)) = Nodes(table) \cup {t}
           /\ Distinct(table) /\ t \notin Nodes(table) => Distinct(EnlistData(table, t, prio))
<1>1. table \in ListOf(Thread) /\ prio \in Nat
  BY TableFacts, SchedulerAssumption
<1>2. 0 .. Word16 - 1 \subseteq Nat
  BY SchedulerAssumption
<1>3. EnlistData(table, t, prio) \in Table
  BY <1>2, EnlistedIn DEF Table
<1>4. Nodes(EnlistData(table, t, prio)) = Nodes(table) \cup {t}
  BY <1>1, EnlistedNodes
<1>5. Distinct(table) /\ t \notin Nodes(table) => Distinct(EnlistData(table, t, prio))
  BY <1>1, EnlistedDistinct
<1> QED BY <1>3, <1>4, <1>5

\* The tail is delisted.
LEMMA DelistStep ==
    ASSUME NEW table \in Table, table # <<>>
    PROVE  /\ DelistData(table) \in Table
           /\ DelistedNode(table) \in Nodes(table)
           /\ Nodes(table) = Nodes(DelistData(table)) \cup {DelistedNode(table)}
           /\ Distinct(table) => /\ DelistedNode(table) \notin Nodes(DelistData(table))
                                 /\ Distinct(DelistData(table))
<1>1. table \in ListOf(Thread)
  BY TableFacts
<1>2. DelistData(table) \in Table
  BY DelistedIn DEF Table
<1> QED BY <1>1, <1>2, DelistedNodes

LEMMA EmptyTable == <<>> \in Table /\ Nodes(<<>>) = {} /\ Distinct(<<>>)
BY EmptySeq DEF Table, Nodes, Distinct

LEMMA NoNodes == ASSUME NEW table \in Table, Nodes(table) = {} PROVE table = <<>>
<1>1. Len(table) \in Nat /\ DOMAIN table = 1 .. Len(table)
  BY TableFacts
<1>2. ASSUME Len(table) # 0 PROVE FALSE
  <2>1. 1 \in DOMAIN table
    BY <1>1, <1>2
  <2>2. table[1].node \in Nodes(table)
    BY <2>1 DEF Nodes
  <2> QED BY <2>2
<1> QED BY <1>2, EmptySeq DEF Table
-----------------------------------------------------------------------------
(* EnlistAll, by induction on the number of entries that went in           *)

\* What EnlistAll does with its entry number i, counted from the tail.
Goes(entries, i, list) ==
    LET e == entries[Len(entries) + 1 - i]
    IN  CHOOSE l \in {EnlistData(before, e.node, e.priority) : before \in {list}} : TRUE

IsInto(into, list, entries, n) ==
    into = [i \in 0 .. n |-> IF i = 0 THEN list ELSE Goes(entries, i, into[i - 1])]

LEMMA OneGoes ==
    ASSUME NEW entries, NEW i, NEW list
    PROVE  Goes(entries, i, list) = EnlistData(list, entries[Len(entries) + 1 - i].node,
                                                     entries[Len(entries) + 1 - i].priority)
<1> DEFINE e == entries[Len(entries) + 1 - i]
<1>1. {EnlistData(before, e.node, e.priority) : before \in {list}}
          = {EnlistData(list, e.node, e.priority)}
  OBVIOUS
<1> QED BY <1>1 DEF Goes

\* The recursive function inside EnlistAll exists.
LEMMA IntoExists ==
    ASSUME NEW list, NEW entries, NEW n \in Nat
    PROVE  \E into : IsInto(into, list, entries, n)
<1> DEFINE Missing == {m \in Nat : ~ \E into : IsInto(into, list, entries, m)}
<1>1. SUFFICES ASSUME n \in Missing PROVE FALSE
  OBVIOUS
<1>2. PICK m \in Missing : \A k \in Missing : m <= k
  <2>1. Missing \subseteq Nat /\ Missing # {}
    BY <1>1
  <2> HIDE DEF Missing
  <2> QED BY <2>1, LeastNatural
<1>3. m \in Nat /\ ~ \E into : IsInto(into, list, entries, m)
  OBVIOUS
<1>4. CASE m = 0
  <2>1. IsInto([i \in 0 .. 0 |-> list], list, entries, 0)
    BY DEF IsInto
  <2> QED BY <1>3, <1>4, <2>1
<1>5. CASE m # 0
  <2>1. m - 1 \in Nat /\ m - 1 \notin Missing
    BY <1>2, <1>3, <1>5
  <2>2. PICK f : IsInto(f, list, entries, m - 1)
    BY <2>1
  <2> DEFINE g == [i \in 0 .. m |-> IF i = 0 THEN list ELSE Goes(entries, i, f[i - 1])]
  <2>3. \A i \in 0 .. m - 1 : g[i] = f[i]
    BY <1>3, <2>1, <2>2 DEF IsInto
  <2>4. \A i \in 1 .. m : g[i - 1] = f[i - 1]
    <3>1. \A i \in 1 .. m : i - 1 \in 0 .. m - 1
      BY <1>3
    <3> HIDE DEF g
    <3> QED BY <2>3, <3>1
  <2>5. /\ \A i \in 0 .. m : g[i] = IF i = 0 THEN list ELSE Goes(entries, i, f[i - 1])
        /\ g = [i \in 0 .. m |-> g[i]]
    OBVIOUS
  <2> HIDE DEF g
  <2>6. \A i \in 0 .. m : g[i] = IF i = 0 THEN list ELSE Goes(entries, i, g[i - 1])
    <3> SUFFICES ASSUME NEW i \in 0 .. m
                 PROVE  g[i] = IF i = 0 THEN list ELSE Goes(entries, i, g[i - 1])
      OBVIOUS
    <3>1. CASE i = 0
      BY <2>5, <3>1
    <3>2. CASE i # 0
      <4>1. i \in 1 .. m
        BY <1>3, <3>2
      <4>2. g[i - 1] = f[i - 1]
        BY <2>4, <4>1
      <4>3. g[i] = Goes(entries, i, f[i - 1])
        BY <2>5, <3>2
      <4> QED BY <3>2, <4>2, <4>3
    <3> QED BY <3>1, <3>2
  <2>7. IsInto(g, list, entries, m)
    <3>1. [i \in 0 .. m |-> g[i]]
              = [i \in 0 .. m |-> IF i = 0 THEN list ELSE Goes(entries, i, g[i - 1])]
      BY <2>6
    <3> QED BY <2>5, <3>1 DEF IsInto
  <2> QED BY <1>3, <2>7
<1> QED BY <1>4, <1>5

\* So EnlistAll is the last value of a function that enlists entry by entry.
LEMMA EnlistAllSteps ==
    ASSUME NEW list, NEW entries, Len(entries) \in Nat
    PROVE  \E into : /\ EnlistAll(list, entries) = into[Len(entries)]
                     /\ into[0] = list
                     /\ \A i \in 1 .. Len(entries) :
                           into[i] = EnlistData(into[i - 1],
                                                entries[Len(entries) + 1 - i].node,
                                                entries[Len(entries) + 1 - i].priority)
<1> DEFINE n == Len(entries)
           f == CHOOSE into : IsInto(into, list, entries, n)
<1>1. EnlistAll(list, entries) = f[n]
  BY DEF EnlistAll, IsInto, Goes
<1>2. IsInto(f, list, entries, n)
  BY IntoExists
<1> HIDE DEF f
<1>3. \A i \in 0 .. n : f[i] = IF i = 0 THEN list ELSE Goes(entries, i, f[i - 1])
  BY <1>2 DEF IsInto
<1>4. f[0] = list
  BY <1>3
<1>5. \A i \in 1 .. n : f[i] = Goes(entries, i, f[i - 1])
  BY <1>3
<1>6. \A i \in 1 .. n : f[i] = EnlistData(f[i - 1], entries[n + 1 - i].node,
                                                   entries[n + 1 - i].priority)
  BY <1>5, OneGoes
<1> QED BY <1>1, <1>4, <1>6
\* All entries are in the list in the end, each once if they were distinct.
LEMMA EnlistAllFacts ==
    ASSUME NEW list \in Table, NEW entries \in Table
    PROVE  /\ EnlistAll(list, entries) \in Table
           /\ Nodes(EnlistAll(list, entries)) = Nodes(list) \cup Nodes(entries)
           /\ Distinct(list) /\ Distinct(entries) /\ Nodes(list) \cap Nodes(entries) = {}
                  => Distinct(EnlistAll(list, entries))
<1> DEFINE n == Len(entries)
           Gone(i) == {entries[j].node : j \in n + 1 - i .. n}
           Apart == Distinct(list) /\ Distinct(entries) /\ Nodes(list) \cap Nodes(entries) = {}
<1>1. /\ n \in Nat /\ DOMAIN entries = 1 .. n
      /\ \A i \in 1 .. n : entries[i].node \in Thread /\ entries[i].priority \in 0 .. Word16 - 1
  BY TableFacts
<1>2. PICK into : /\ EnlistAll(list, entries) = into[n]
                  /\ into[0] = list
                  /\ \A i \in 1 .. n :
                        into[i] = EnlistData(into[i - 1], entries[n + 1 - i].node,
                                                          entries[n + 1 - i].priority)
  BY <1>1, EnlistAllSteps
<1> DEFINE Holds(i) == /\ into[i] \in Table
                       /\ Nodes(into[i]) = Nodes(list) \cup Gone(i)
                       /\ Apart => Distinct(into[i])
           Bad == {i \in 0 .. n : ~ Holds(i)}
<1>3. Holds(0)
  <2>1. Gone(0) = {}
    BY <1>1
  <2> QED BY <1>2, <2>1
<1>4. ASSUME NEW i \in 1 .. n, Holds(i - 1) PROVE Holds(i)
  <2> DEFINE e == entries[n + 1 - i]
  <2>1. n + 1 - i \in 1 .. n
    BY <1>1
  <2>2. e.node \in Thread /\ e.priority \in 0 .. Word16 - 1
    BY <1>1, <2>1
  <2>3. into[i] = EnlistData(into[i - 1], e.node, e.priority)
    BY <1>2
  <2>4. Gone(i) = Gone(i - 1) \cup {e.node}
    <3>1. n + 1 - i .. n = (n + 1 - (i - 1) .. n) \cup {n + 1 - i}
      BY <1>1
    <3> QED BY <3>1
  <2>5. ASSUME Apart PROVE e.node \notin Nodes(into[i - 1])
    <3>1. e.node \notin Nodes(list)
      BY <1>1, <2>1, <2>5 DEF Nodes
    <3>2. \A j \in n + 1 - (i - 1) .. n : entries[j].node # e.node
      BY <1>1, <2>1, <2>5 DEF Distinct
    <3>3. e.node \notin Gone(i - 1)
      BY <3>2
    <3> HIDE DEF Gone
    <3> QED BY <1>4, <3>1, <3>3
  <2> HIDE DEF e, Gone, Apart
  <2> QED BY <1>4, <2>2, <2>3, <2>4, <2>5, EnlistStep
<1>5. Bad = {}
  <2> SUFFICES ASSUME Bad # {} PROVE FALSE
    OBVIOUS
  <2>1. Bad \subseteq Nat
    BY <1>1
  <2> HIDE DEF Holds
  <2>2. PICK m \in Bad : \A k \in Bad : m <= k
    <3> HIDE DEF Bad
    <3> QED BY <2>1, LeastNatural
  <2>3. m \in 0 .. n /\ ~ Holds(m)
    OBVIOUS
  <2>4. m # 0
    BY <1>3, <2>3
  <2>5. m \in 1 .. n /\ m - 1 \in 0 .. n /\ m - 1 \notin Bad
    BY <1>1, <2>2, <2>3, <2>4
  <2>6. Holds(m - 1)
    BY <2>5
  <2> QED BY <1>4, <2>3, <2>5, <2>6
<1>6. Holds(n)
  BY <1>1, <1>5
<1>7. Gone(n) = Nodes(entries)
  BY <1>1 DEF Nodes
<1> HIDE DEF Gone
<1> QED BY <1>2, <1>6, <1>7

\* What a step by step change of the priorities leaves as it was.
LEMMA SameNodes ==
    ASSUME NEW table \in Table, NEW other, DOMAIN other = DOMAIN table,
           \A i \in DOMAIN table : other[i].node = table[i].node
    PROVE  Nodes(other) = Nodes(table) /\ (Distinct(table) => Distinct(other))
BY DEF Nodes, Distinct

\* kernel_list_remove_node_from.
LEMMA RemoveStep ==
    ASSUME NEW table \in Table, NEW t, Distinct(table)
    PROVE  /\ RemoveNodeFrom(table, t) \in Table
           /\ Nodes(RemoveNodeFrom(table, t)) = Nodes(table) \ {t}
           /\ Distinct(RemoveNodeFrom(table, t))
<1>1. CASE t \notin Nodes(table)
  BY <1>1 DEF RemoveNodeFrom
<1>2. CASE t \in Nodes(table)
  <2> DEFINE R == [node : Thread, priority : 0 .. Word16 - 1]
             n == Len(table)
             k == Position(table, t)
             new == RemoveAt(table, k)
  <2>1. /\ n \in Nat /\ DOMAIN table = 1 .. n /\ table \in Seq(R)
        /\ \A i \in 1 .. n : table[i] \in R
    BY TableFacts DEF Table
  <2>2. k \in 1 .. n /\ table[k].node = t
    BY <1>2, <2>1, PositionFound
  <2>3. RemoveNodeFrom(table, t) = new
    BY <1>2 DEF RemoveNodeFrom
  <2> HIDE DEF k, R
  <2>6. /\ new \in Seq(R) /\ Len(new) = n - 1
        /\ \A i \in 1 .. n - 1 : new[i] = IF i < k THEN table[i] ELSE table[i + 1]
    <3>1. table \in Seq(R) /\ k \in 1 .. Len(table)
      BY <2>1, <2>2
    <3> QED BY ONLY <3>1, RemovedEntries
  <2>7. /\ new \in Seq(R) /\ DOMAIN new = 1 .. n - 1
        /\ \A i \in 1 .. n - 1 : new[i] = IF i < k THEN table[i] ELSE table[i + 1]
    BY <2>6, LenProperties
  <2> HIDE DEF new
  <2>8. \A i \in 1 .. n : i # k => \E j \in 1 .. n - 1 : new[j] = table[i]
    <3> SUFFICES ASSUME NEW i \in 1 .. n, i # k PROVE \E j \in 1 .. n - 1 : new[j] = table[i]
      OBVIOUS
    <3>1. CASE i < k
      BY <2>1, <2>2, <2>7, <3>1
    <3>2. CASE i > k
      <4>1. i - 1 \in 1 .. n - 1 /\ new[i - 1] = table[i]
        BY <2>1, <2>2, <2>7, <3>2
      <4> QED BY <4>1
    <3> QED BY <2>1, <2>2, <3>1, <3>2
  <2>9. \A i \in 1 .. n - 1 : \E j \in 1 .. n : j # k /\ new[i] = table[j]
    <3> SUFFICES ASSUME NEW i \in 1 .. n - 1 PROVE \E j \in 1 .. n : j # k /\ new[i] = table[j]
      OBVIOUS
    <3>1. i \in 1 .. n /\ i + 1 \in 1 .. n
      BY <2>1
    <3> QED BY <2>1, <2>2, <2>7, <3>1
  <2>10. \A i \in 1 .. n : i # k => table[i].node # t
    BY <2>1, <2>2 DEF Distinct
  <2>11. Nodes(new) = Nodes(table) \ {t}
    <3>1. Nodes(new) \subseteq Nodes(table) \ {t}
      BY <2>1, <2>7, <2>9, <2>10 DEF Nodes
    <3>2. ASSUME NEW s \in Nodes(table), s # t PROVE s \in Nodes(new)
      <4>1. PICK i \in 1 .. n : table[i].node = s
        BY <2>1 DEF Nodes
      <4>2. PICK j \in 1 .. n - 1 : new[j] = table[i]
        BY <2>2, <2>8, <3>2, <4>1
      <4> QED BY <2>7, <4>1, <4>2 DEF Nodes
    <3> QED BY <3>1, <3>2
  <2>12. Distinct(new)
    <3> DEFINE From(i) == IF i < k THEN i ELSE i + 1
    <3>1. \A i \in 1 .. n - 1 : From(i) \in 1 .. n /\ new[i] = table[From(i)]
      BY <2>1, <2>2, <2>7
    <3>2. \A i, j \in 1 .. n - 1 : From(i) = From(j) => i = j
      BY <2>1, <2>2
    <3>3. \A i, j \in 1 .. n : table[i].node = table[j].node => i = j
      BY <2>1 DEF Distinct
    <3> HIDE DEF From
    <3> QED BY <2>7, <3>1, <3>2, <3>3 DEF Distinct
  <2> QED BY <2>3, <2>7, <2>11, <2>12 DEF Table, R
<1> QED BY <1>1, <1>2
\* A slice of a table.
LEMMA SliceFacts ==
    ASSUME NEW table \in Table, Distinct(table), NEW a \in Nat \ {0}, NEW b \in Int, b <= Len(table)
    PROVE  /\ SubSeq(table, a, b) \in Table
           /\ Nodes(SubSeq(table, a, b)) = {table[i].node : i \in a .. b}
           /\ Distinct(SubSeq(table, a, b))
<1> DEFINE R == [node : Thread, priority : 0 .. Word16 - 1]
           s == SubSeq(table, a, b)
           m == IF a <= b THEN b - a + 1 ELSE 0
<1>1. /\ Len(table) \in Nat /\ DOMAIN table = 1 .. Len(table) /\ table \in Seq(R)
      /\ \A i \in 1 .. Len(table) : table[i] \in R
  BY TableFacts DEF Table
<1> HIDE DEF R
<1>2. /\ s \in Seq(R) /\ Len(s) = m /\ \A i \in 1 .. b - a + 1 : s[i] = table[a + i - 1]
  <2>1. a \in Int /\ b \in Int /\ \A i \in a .. b : table[i] \in R
    BY <1>1
  <2> HIDE DEF s, m
  <2> QED BY <2>1, SubSeqProperties DEF s, m
<1>3. m \in Nat /\ \A i : i \in 1 .. m <=> i \in 1 .. b - a + 1
  OBVIOUS
<1> HIDE DEF s, m
<1>4. DOMAIN s = 1 .. m /\ \A i \in 1 .. m : s[i] = table[a + i - 1]
  BY <1>2, <1>3, LenProperties
<1>5. s \in Table
  BY <1>2 DEF Table, R
<1>6. /\ \A i \in 1 .. m : a + i - 1 \in a .. b
      /\ \A i \in a .. b : i - a + 1 \in 1 .. m /\ a + (i - a + 1) - 1 = i
  BY DEF m
<1>7. Nodes(s) = {table[i].node : i \in a .. b}
  <2>1. ASSUME NEW i \in a .. b PROVE table[i].node \in Nodes(s)
    BY <1>4, <1>6 DEF Nodes
  <2>2. ASSUME NEW i \in 1 .. m PROVE s[i].node \in {table[j].node : j \in a .. b}
    BY <1>4, <1>6
  <2> QED BY <1>4, <2>1, <2>2 DEF Nodes
<1>8. Distinct(s)
  <2>1. \A i, j \in 1 .. Len(table) : table[i].node = table[j].node => i = j
    BY <1>1 DEF Distinct
  <2>2. \A i \in a .. b : i \in 1 .. Len(table)
    BY <1>1
  <2>3. ASSUME NEW i \in 1 .. m, NEW j \in 1 .. m, s[i].node = s[j].node PROVE i = j
    <3>1. table[a + i - 1].node = table[a + j - 1].node
      BY <1>4, <2>3
    <3>2. a + i - 1 = a + j - 1
      BY <1>6, <2>1, <2>2, <3>1
    <3> QED BY <1>3, <3>2
  <2> QED BY <1>4, <2>3 DEF Distinct
<1> QED BY <1>5, <1>7, <1>8 DEF s

\* The number the loop of select_thread keeps.
LEMMA KeptFacts ==
    ASSUME Asleep \in Table
    PROVE  /\ Kept \in 0 .. Len(Asleep)
           /\ \A i \in 1 .. Len(Asleep) : ~Due(Asleep[i].node) => i <= Kept
           /\ Kept # 0 => ~Due(Asleep[Kept].node)
<1> DEFINE S == {0} \cup {i \in DOMAIN Asleep : ~Due(Asleep[i].node)}
           n == Len(Asleep)
<1>1. n \in Nat /\ DOMAIN Asleep = 1 .. n
  BY TableFacts
<1>2. S \subseteq 0 .. n /\ 0 \in S
  BY <1>1
<1>3. PICK m \in S : \A i \in S : m >= i
  <2> HIDE DEF S, n
  <2> DEFINE D == {n - i : i \in S}
  <2>1. D \subseteq Nat /\ D # {}
    BY <1>1, <1>2
  <2>2. PICK d \in D : \A e \in D : d <= e
    <3> HIDE DEF D
    <3> QED BY <2>1, LeastNatural
  <2>3. PICK m \in S : d = n - m
    OBVIOUS
  <2>4. ASSUME NEW i \in S PROVE m >= i
    <3>1. n - m <= n - i
      BY <2>2, <2>3
    <3>2. m \in Int /\ i \in Int /\ n \in Int
      BY <1>1, <1>2
    <3> QED BY <3>1, <3>2
  <2> QED BY <2>4
<1>4. Max(S) \in S /\ \A i \in S : Max(S) >= i
  <2> HIDE DEF S
  <2> QED BY <1>3 DEF Max
<1>5. Kept = Max(S)
  BY DEF Kept
<1>6. /\ \A i \in 1 .. n : ~Due(Asleep[i].node) => i \in S
      /\ \A i \in S : i # 0 => ~Due(Asleep[i].node)
  BY <1>1
<1>7. \A i \in S : i \in Int
  BY <1>1, <1>2
<1> HIDE DEF S
<1> QED BY <1>2, <1>4, <1>5, <1>6, <1>7

LEMMA SleepPriorityType ==
    ASSUME wakeup_time \in [Thread -> Nat], NEW t \in Thread
    PROVE  SleepPriority(t) \in 0 .. Word16 - 1
<1>1. wakeup_time[t] \in Nat /\ Word16 \in Nat \ {0}
  BY SchedulerAssumption
<1> QED BY <1>1 DEF SleepPriority
-----------------------------------------------------------------------------
(* The inductive invariant                                                 *)

JoinPoints == {"join", "clean", "drain_join", "drain_clean"}
DrainPoints == {"drain_wait", "drain_join", "drain_clean"}
UserPoints == {"run", "alarm", "resched", "join", "clean", "exit"}
InitPoints == UserPoints \cup DrainPoints \cup {"drain", "drain_more", "spin", "return"}
IdlePoints == {"boot", "hlt", "off"}

Types ==
    /\ state \in [Thread -> States]
    /\ priority \in [Thread -> 0 .. Lowest]
    /\ last_sched \in [Thread -> 0 .. AgingTicks]
    /\ wakeup_time \in [Thread -> Nat]
    /\ joining_thread \in [Thread -> Thread \cup {NULL}]
    /\ target \in [Thread -> Thread \cup {NULL}]
    /\ children \in [Thread -> Table]
    /\ active_threads_table \in Table
    /\ sleeping_threads_table \in Table
    /\ zombie_threads_table \in Table
    /\ global_threads_table \subseteq Thread
    /\ active_thread \in Thread
    /\ first_schedule \in BOOLEAN
    /\ system_state \in {"ALIVE", "HALTED"}
    /\ uptime \in Nat
    /\ pc \in [Thread -> InitPoints \cup IdlePoints]
    /\ fault \in {"none", "null_joining_thread"}

\* OneHome, whether the machine still runs or not.
Homes ==
    /\ Distinct(active_threads_table)
    /\ Distinct(sleeping_threads_table)
    /\ Distinct(zombie_threads_table)
    /\ \A t \in Thread :
          /\ t \in Nodes(active_threads_table) <=> state[t] = "READY"
          /\ t \in Nodes(sleeping_threads_table) <=> state[t] = "SLEEPING" /\ t # active_thread
          /\ t \in Nodes(zombie_threads_table) <=> state[t] = "ZOMBIE" /\ t # init
          /\ state[t] = "RUNNING" => t = active_thread
    /\ Exists(active_thread)

\* Where a thread goes on and the state it is in.
Places ==
    /\ \A t \in Thread :
          /\ pc[t] = "exit" <=> state[t] \in {"ZOMBIE", "FREED"}
          /\ state[t] = "JOINING" => pc[t] \in JoinPoints
          /\ state[t] \in {"SLEEPING", "BLOCKED"} => pc[t] \in {"resched", "run"}
          /\ state[t] = "UNUSED" => pc[t] = "run"
    /\ state[active_thread] \in {"READY", "SLEEPING", "BLOCKED"} => pc[active_thread] = "resched"
    /\ state[active_thread] = "JOINING" => pc[active_thread] \in {"join", "drain_join"}
    /\ \A t \in User : pc[t] \in UserPoints
    /\ pc[init] \in InitPoints
    /\ pc[idle] \in IdlePoints

\* The child init has taken off its list and is about to join.
Drained(u) == pc[init] \in DrainPoints /\ target[init] = u

IsChild(u, p) == u \in Nodes(children[p])

Family ==
    /\ global_threads_table = {t \in Thread : Exists(t)}
    /\ IsFiniteSet(global_threads_table)
    /\ thread_count = Cardinality(global_threads_table)
    /\ \A p \in Thread : Distinct(children[p])
    /\ \A u, p \in Thread : IsChild(u, p) =>
          /\ Exists(u) /\ Exists(p) /\ u # p
          /\ p \in User => state[p] # "ZOMBIE"
          /\ u \in User \/ (u = init /\ p = idle)
    /\ \A u, p, q \in Thread : IsChild(u, p) /\ IsChild(u, q) => p = q
    /\ \A u \in User : Exists(u) /\ ~Drained(u) => \E p \in Thread : IsChild(u, p)

Joins ==
    /\ \A u \in Thread : joining_thread[u] # NULL =>
          /\ state[u] # "UNUSED"
          /\ Exists(u) => /\ joining_thread[u] \in Thread
                          /\ pc[joining_thread[u]] \in JoinPoints
                          /\ target[joining_thread[u]] = u
    /\ \A t \in Thread : pc[t] \in JoinPoints =>
          /\ target[t] \in User /\ joining_thread[target[t]] = t /\ Exists(target[t])
          /\ state[t] = "JOINING" <=> state[target[t]] # "ZOMBIE"
          /\ pc[t] \in {"join", "clean"} => IsChild(target[t], t)
    /\ pc[init] \in DrainPoints =>
          /\ target[init] \in User /\ Exists(target[init])
          /\ \A p \in Thread : ~IsChild(target[init], p)

SchedInv == Types /\ Homes /\ Places /\ Family /\ Joins
-----------------------------------------------------------------------------
(* A scheduling pass                                                       *)

LEMMA AgedFacts ==
    ASSUME Types, NEW timer \in BOOLEAN
    PROVE  /\ PriorityBefore(timer) \in [Thread -> 0 .. Lowest]
           /\ AgedPriority(PriorityBefore(timer)) \in [Thread -> 0 .. Lowest]
           /\ AgedWait \in [Thread -> 0 .. AgingTicks]
           /\ AgedTable(PriorityBefore(timer)) \in Table
           /\ Nodes(AgedTable(PriorityBefore(timer))) = Nodes(active_threads_table)
           /\ Distinct(active_threads_table) => Distinct(AgedTable(PriorityBefore(timer)))
<1> DEFINE p == PriorityBefore(timer)
           new == AgedTable(p)
<1>1. p \in [Thread -> 0 .. Lowest]
  BY SchedulerAssumption DEF PriorityBefore, Types
<1> HIDE DEF p
<1>2. AgedPriority(p) \in [Thread -> 0 .. Lowest]
  <2>1. \A t \in Thread : p[t] \in 0 .. Lowest /\ (p[t] > 0 => p[t] - 1 \in 0 .. Lowest)
    BY <1>1, SchedulerAssumption
  <2> QED BY <2>1 DEF AgedPriority
<1>3. AgedWait \in [Thread -> 0 .. AgingTicks]
  <2>1. \A t \in Thread : last_sched[t] \in 0 .. AgingTicks
    BY DEF Types
  <2>2. ASSUME NEW t \in Thread
        PROVE  (IF Ages /\ t = active_thread THEN 0 ELSE IF Boosted(t) THEN 0
                ELSE IF Ages /\ Waits(t) THEN last_sched[t] + 1 ELSE last_sched[t]) \in 0 .. AgingTicks
    <3>1. Ages /\ Waits(t) /\ ~Boosted(t) => last_sched[t] + 1 < AgingTicks
      BY <2>1, SchedulerAssumption DEF Boosted
    <3> QED BY <2>1, <3>1, SchedulerAssumption
  <2> QED BY <2>2 DEF AgedWait
<1>4. /\ active_threads_table \in Table
      /\ Len(active_threads_table) \in Nat
      /\ DOMAIN active_threads_table = 1 .. Len(active_threads_table)
      /\ \A i \in 1 .. Len(active_threads_table) :
            /\ active_threads_table[i] \in [node : Thread, priority : 0 .. Word16 - 1]
            /\ active_threads_table[i].node \in Thread
            /\ active_threads_table[i].priority \in 0 .. Word16 - 1
  BY TableFacts DEF Types
<1>5. \A x \in 0 .. Word16 - 1 : (x + Word16 - 1) % Word16 \in 0 .. Word16 - 1
  BY SchedulerAssumption
<1>6. ASSUME NEW i \in 1 .. Len(active_threads_table)
      PROVE  /\ new[i] \in [node : Thread, priority : 0 .. Word16 - 1]
             /\ new[i].node = active_threads_table[i].node
  <2> DEFINE e == active_threads_table[i]
  <2>1. new[i] = IF Boosted(e.node) /\ p[e.node] > 0
                 THEN Entry(e.node, (e.priority + Word16 - 1) % Word16) ELSE e
    BY <1>4 DEF AgedTable
  <2> HIDE DEF new
  <2>2. (e.priority + Word16 - 1) % Word16 \in 0 .. Word16 - 1
    BY <1>4, <1>5
  <2> QED BY <1>4, <2>1, <2>2 DEF Entry
<1>7. DOMAIN new = DOMAIN active_threads_table /\ new \in Table
  <2>1. new = [i \in 1 .. Len(active_threads_table) |-> new[i]]
    BY <1>4 DEF AgedTable
  <2> HIDE DEF new
  <2>2. DOMAIN new = 1 .. Len(active_threads_table)
    BY <2>1
  <2>3. new \in Table
    BY <1>4, <1>6, <2>1 DEF Table
  <2> QED BY <1>4, <2>2, <2>3
<1> HIDE DEF new
<1>8. Nodes(new) = Nodes(active_threads_table) /\ (Distinct(active_threads_table) => Distinct(new))
  BY <1>4, <1>6, <1>7, SameNodes
<1> QED BY <1>1, <1>2, <1>3, <1>7, <1>8 DEF new, p

\* Who sleeps, who is woken, who sleeps on.
LEMMA SleepersFacts ==
    ASSUME Types, Homes
    PROVE  /\ Woken \in Table /\ Distinct(Woken)
           /\ StillAsleep \in Table /\ Distinct(StillAsleep)
           /\ Nodes(Woken) \cup Nodes(StillAsleep) = {t \in Thread : state[t] = "SLEEPING"}
           /\ Nodes(Woken) \cap Nodes(StillAsleep) = {}
           /\ Asleep \in Table
           /\ Nodes(Woken) = {Asleep[i].node : i \in Kept + 1 .. Len(Asleep)}
           /\ Nodes(StillAsleep) = {Asleep[i].node : i \in 1 .. Kept}
<1> DEFINE n == Len(Asleep)
           k == Kept
<1>1. /\ Asleep \in Table /\ Distinct(Asleep)
      /\ Nodes(Asleep) = {t \in Thread : state[t] = "SLEEPING"}
  <2>1. sleeping_threads_table \in Table /\ active_thread \in Thread
    BY DEF Types
  <2>2. Nodes(sleeping_threads_table) \subseteq Thread
    BY <2>1, TableFacts
  <2>3. SleepPriority(active_thread) \in 0 .. Word16 - 1
    BY SleepPriorityType DEF Types
  <2>4. active_thread \notin Nodes(sleeping_threads_table)
    BY <2>1 DEF Homes
  <2>5. CASE state[active_thread] = "SLEEPING"
    <3>1. Asleep = EnlistData(sleeping_threads_table, active_thread, SleepPriority(active_thread))
      BY <2>5 DEF Asleep
    <3>2. /\ Asleep \in Table /\ Distinct(Asleep)
          /\ Nodes(Asleep) = Nodes(sleeping_threads_table) \cup {active_thread}
      BY <2>1, <2>3, <2>4, <3>1, EnlistStep DEF Homes
    <3> QED BY <2>1, <2>2, <2>5, <3>2 DEF Homes
  <2>6. CASE state[active_thread] # "SLEEPING"
    BY <2>1, <2>2, <2>6 DEF Asleep, Homes
  <2> QED BY <2>5, <2>6
<1>2. /\ n \in Nat /\ k \in 0 .. n /\ DOMAIN Asleep = 1 .. n
      /\ \A i \in 1 .. n : Asleep[i].node \in Thread
  BY <1>1, KeptFacts, TableFacts
<1>3. \A i, j \in 1 .. n : Asleep[i].node = Asleep[j].node => i = j
  BY <1>1, <1>2 DEF Distinct
<1> HIDE DEF n, k
<1>4. /\ Woken \in Table /\ Distinct(Woken)
      /\ Nodes(Woken) = {Asleep[i].node : i \in k + 1 .. n}
  <2>1. k + 1 \in Nat \ {0} /\ n \in Int /\ n <= Len(Asleep)
    BY <1>2 DEF n
  <2>2. Woken = SubSeq(Asleep, k + 1, n)
    BY DEF Woken, k, n
  <2> QED BY <1>1, <2>1, <2>2, SliceFacts
<1>5. CASE k = 0
  <2>1. StillAsleep = <<>>
    BY <1>5 DEF StillAsleep, k
  <2>2. k + 1 .. n = DOMAIN Asleep
    BY <1>2, <1>5
  <2>3. Nodes(Woken) = Nodes(Asleep)
    BY <1>4, <2>2 DEF Nodes
  <2>4. Nodes(StillAsleep) = {Asleep[i].node : i \in 1 .. k}
    BY <1>5, <2>1, EmptyTable
  <2> QED BY <1>1, <1>4, <2>1, <2>3, <2>4, EmptyTable DEF k, n
<1>6. CASE k # 0
  <2> DEFINE front == SubSeq(Asleep, 1, k - 1)
             t == Asleep[k].node
  <2>1. /\ front \in Table /\ Distinct(front)
        /\ Nodes(front) = {Asleep[i].node : i \in 1 .. k - 1}
    <3>1. 1 \in Nat \ {0} /\ k - 1 \in Int /\ k - 1 <= Len(Asleep)
      BY <1>2 DEF n
    <3> QED BY <1>1, <3>1, SliceFacts
  <2>2. t \in Thread /\ SleepPriority(t) \in 0 .. Word16 - 1
    BY <1>2, <1>6, SleepPriorityType DEF Types
  <2>3. StillAsleep = EnlistData(front, t, SleepPriority(t))
    BY <1>6 DEF StillAsleep, k
  <2>4. t \notin Nodes(front)
    BY <1>2, <1>3, <1>6, <2>1
  <2>5. Nodes(front) \cup {t} = {Asleep[i].node : i \in 1 .. k}
    BY <1>2, <1>6, <2>1
  <2> HIDE DEF front, t
  <2>6. /\ StillAsleep \in Table /\ Distinct(StillAsleep)
        /\ Nodes(StillAsleep) = {Asleep[i].node : i \in 1 .. k}
    BY <2>1, <2>2, <2>3, <2>4, <2>5, EnlistStep
  <2>7. Nodes(Asleep) = {Asleep[i].node : i \in 1 .. n}
    BY <1>2 DEF Nodes
  <2>8. \A i \in 1 .. n : i \in 1 .. k \/ i \in k + 1 .. n
    BY <1>2
  <2>9. Nodes(Woken) \cup Nodes(StillAsleep) = Nodes(Asleep)
    BY <1>2, <1>4, <2>6, <2>7, <2>8
  <2>10. Nodes(Woken) \cap Nodes(StillAsleep) = {}
    <3>1. \A i \in 1 .. k : \A j \in k + 1 .. n : Asleep[i].node # Asleep[j].node
      BY <1>2, <1>3
    <3> QED BY <1>4, <2>6, <3>1
  <2> QED BY <1>1, <1>4, <2>6, <2>9, <2>10 DEF k, n
<1> QED BY <1>5, <1>6

\* idle never waits for anything.
LEMMA IdleIsReady ==
    ASSUME Types, Places
    PROVE  state[idle] \in {"READY", "RUNNING"}
<1>1. idle \in Thread /\ pc[idle] \in IdlePoints
  BY DEF Thread, Places
<1>2. state[idle] \in States
  BY <1>1 DEF Types
<1> QED BY <1>1, <1>2 DEF Places, States, IdlePoints, JoinPoints

\* Who is in the active table when the pass takes its tail.
LEMMA ReadyFacts ==
    ASSUME Types, Homes, Places, NEW timer \in BOOLEAN
    PROVE  LET before == PriorityBefore(timer)
               aged   == AgedPriority(before)
               ready  == WithWoken(Requeued(AgedTable(before), aged), aged)
           IN  /\ ready \in Table /\ Distinct(ready) /\ ready # <<>>
               /\ Nodes(ready) = {t \in Thread : state[t] \in {"READY", "RUNNING"}} \cup Nodes(Woken)
<1> DEFINE before == PriorityBefore(timer)
           aged   == AgedPriority(before)
           queue  == Requeued(AgedTable(before), aged)
           entries == [i \in DOMAIN Woken |-> Entry(Woken[i].node, aged[Woken[i].node])]
           ready  == WithWoken(queue, aged)
<1>1. /\ aged \in [Thread -> 0 .. Lowest]
      /\ AgedTable(before) \in Table /\ Distinct(AgedTable(before))
      /\ Nodes(AgedTable(before)) = Nodes(active_threads_table)
  BY AgedFacts DEF Homes
<1> HIDE DEF before, aged
<1>2. /\ active_thread \in Thread /\ aged[active_thread] \in 0 .. Word16 - 1
      /\ \A t \in Thread : aged[t] \in 0 .. Word16 - 1
      /\ Nodes(active_threads_table) \subseteq Thread
  <2>1. active_thread \in Thread /\ active_threads_table \in Table
    BY DEF Types
  <2>2. \A t \in Thread : aged[t] \in 0 .. Word16 - 1
    <3>1. \A i \in 0 .. Lowest : i \in 0 .. Word16 - 1
      BY SchedulerAssumption
    <3> QED BY <1>1, <3>1
  <2>3. Nodes(active_threads_table) \subseteq Thread
    BY <2>1, TableFacts
  <2> QED BY <2>1, <2>2, <2>3
<1>3. /\ queue \in Table /\ Distinct(queue)
      /\ Nodes(queue) = {t \in Thread : state[t] \in {"READY", "RUNNING"}}
  <2>1. CASE state[active_thread] = "RUNNING"
    <3>1. queue = EnlistData(AgedTable(before), active_thread, aged[active_thread])
      BY <2>1 DEF Requeued
    <3>2. active_thread \notin Nodes(AgedTable(before))
      BY <1>1, <1>2, <2>1 DEF Homes
    <3>3. /\ queue \in Table /\ Distinct(queue)
          /\ Nodes(queue) = Nodes(AgedTable(before)) \cup {active_thread}
      BY <1>1, <1>2, <3>1, <3>2, EnlistStep
    <3> HIDE DEF queue
    <3> QED BY <1>1, <1>2, <2>1, <3>3 DEF Homes
  <2>2. CASE state[active_thread] # "RUNNING"
    <3>1. queue = AgedTable(before)
      BY <2>2 DEF Requeued
    <3> HIDE DEF queue
    <3> QED BY <1>1, <1>2, <2>2, <3>1 DEF Homes
  <2> QED BY <2>1, <2>2
<1>4. /\ Woken \in Table /\ Distinct(Woken)
      /\ \A t \in Nodes(Woken) : t \in Thread /\ state[t] = "SLEEPING"
  BY SleepersFacts
<1>5. /\ entries \in Table /\ Nodes(entries) = Nodes(Woken) /\ Distinct(entries)
  <2>1. /\ Len(Woken) \in Nat /\ DOMAIN Woken = 1 .. Len(Woken)
        /\ \A i \in 1 .. Len(Woken) : Woken[i].node \in Thread
    BY <1>4, TableFacts
  <2>2. \A i \in 1 .. Len(Woken) : /\ entries[i] \in [node : Thread, priority : 0 .. Word16 - 1]
                                   /\ entries[i].node = Woken[i].node
    BY <1>2, <2>1 DEF Entry
  <2>3. entries = [i \in 1 .. Len(Woken) |-> entries[i]]
    BY <2>1
  <2> HIDE DEF entries
  <2>4. DOMAIN entries = DOMAIN Woken
    BY <2>1, <2>3
  <2>5. entries \in Table
    BY <2>1, <2>2, <2>3 DEF Table
  <2> QED BY <1>4, <2>1, <2>2, <2>4, <2>5, SameNodes
<1>6. ready = EnlistAll(queue, entries)
  BY DEF WithWoken
<1> HIDE DEF queue, entries, ready
<1>7. Nodes(queue) \cap Nodes(entries) = {}
  BY <1>3, <1>4, <1>5
<1>8. /\ ready \in Table /\ Distinct(ready)
      /\ Nodes(ready) = {t \in Thread : state[t] \in {"READY", "RUNNING"}} \cup Nodes(Woken)
  BY <1>3, <1>5, <1>6, <1>7, EnlistAllFacts
<1>9. idle \in Nodes(ready)
  BY <1>8, IdleIsReady DEF Thread
<1>10. ready # <<>>
  BY <1>9, EmptyTable
<1> QED BY <1>8, <1>10 DEF ready, queue, aged, before

\* What a pass does to the threads and to the tables.
LEMMA PassMoves ==
    ASSUME Types, Homes, Places, NEW timer \in BOOLEAN, first_schedule, ScheduleInt(timer)
    PROVE  /\ \E woken \in SUBSET {t \in Thread : state[t] = "SLEEPING"}, next \in Thread :
                 /\ woken = Nodes(Woken)
                 /\ state[next] \in {"READY", "RUNNING"} \/ next \in woken
                 /\ active_thread' = next
                 /\ state' = [t \in Thread |->
                                IF t = next THEN "RUNNING"
                                ELSE IF t = active_thread /\ state[t] = "RUNNING" THEN "READY"
                                ELSE IF t \in woken THEN "READY" ELSE state[t]]
                 /\ active_threads_table' \in Table /\ Distinct(active_threads_table')
                 /\ Nodes(active_threads_table') =
                        ({t \in Thread : state[t] \in {"READY", "RUNNING"}} \cup woken) \ {next}
                 /\ sleeping_threads_table' \in Table /\ Distinct(sleeping_threads_table')
                 /\ Nodes(sleeping_threads_table') = {t \in Thread : state[t] = "SLEEPING"} \ woken
           /\ priority' \in [Thread -> 0 .. Lowest] /\ last_sched' \in [Thread -> 0 .. AgingTicks]
           /\ fault' = fault /\ first_schedule' = first_schedule
<1> DEFINE before == PriorityBefore(timer)
           aged   == AgedPriority(before)
           ready  == WithWoken(Requeued(AgedTable(before), aged), aged)
           next   == DelistedNode(ready)
<1>1. /\ ready \in Table /\ Distinct(ready) /\ ready # <<>>
      /\ Nodes(ready) = {t \in Thread : state[t] \in {"READY", "RUNNING"}} \cup Nodes(Woken)
  BY ReadyFacts
<1>2. /\ priority' = aged /\ last_sched' = AgedWait /\ Dispatch(ready)
      /\ sleeping_threads_table' = StillAsleep /\ first_schedule' = first_schedule
  BY DEF ScheduleInt
<1>3. priority' \in [Thread -> 0 .. Lowest] /\ last_sched' \in [Thread -> 0 .. AgingTicks]
  BY <1>2, AgedFacts
<1> HIDE DEF ready
<1>4. /\ active_thread' = next /\ active_threads_table' = DelistData(ready)
      /\ state' = [t \in Thread |->
                    IF t = next THEN "RUNNING"
                    ELSE IF t = active_thread /\ state[t] = "RUNNING" THEN "READY"
                    ELSE IF t \in Nodes(Woken) THEN "READY" ELSE state[t]]
      /\ fault' = fault
  BY <1>1, <1>2 DEF Dispatch
<1>5. /\ DelistData(ready) \in Table /\ Distinct(DelistData(ready))
      /\ next \in Nodes(ready)
      /\ Nodes(DelistData(ready)) = Nodes(ready) \ {next}
  BY <1>1, DelistStep
<1>6. /\ StillAsleep \in Table /\ Distinct(StillAsleep)
      /\ Nodes(Woken) \subseteq {t \in Thread : state[t] = "SLEEPING"}
      /\ Nodes(StillAsleep) = {t \in Thread : state[t] = "SLEEPING"} \ Nodes(Woken)
  BY SleepersFacts
<1> HIDE DEF next
<1>7. next \in Thread /\ (state[next] \in {"READY", "RUNNING"} \/ next \in Nodes(Woken))
  BY <1>1, <1>5, <1>6
<1> DEFINE woken == Nodes(Woken)
<1>8. woken \in SUBSET {t \in Thread : state[t] = "SLEEPING"}
  BY <1>6
<1>9. /\ woken = Nodes(Woken)
      /\ state[next] \in {"READY", "RUNNING"} \/ next \in woken
      /\ active_thread' = next
      /\ state' = [t \in Thread |->
                    IF t = next THEN "RUNNING"
                    ELSE IF t = active_thread /\ state[t] = "RUNNING" THEN "READY"
                    ELSE IF t \in woken THEN "READY" ELSE state[t]]
      /\ active_threads_table' \in Table /\ Distinct(active_threads_table')
      /\ Nodes(active_threads_table') =
             ({t \in Thread : state[t] \in {"READY", "RUNNING"}} \cup woken) \ {next}
      /\ sleeping_threads_table' \in Table /\ Distinct(sleeping_threads_table')
      /\ Nodes(sleeping_threads_table') = {t \in Thread : state[t] = "SLEEPING"} \ woken
  <2>1. Nodes(active_threads_table') = Nodes(ready) \ {next}
    BY <1>4, <1>5
  <2> QED BY <1>1, <1>2, <1>4, <1>5, <1>6, <1>7, <2>1
<1> HIDE DEF woken
<1> QED BY <1>2, <1>3, <1>4, <1>7, <1>8, <1>9-----------------------------------------------------------------------------
(* The other steps                                                         *)

\* A thread that is at one of these points when it has the processor runs.
RunPoints == {"run", "alarm", "clean", "drain", "drain_more", "drain_wait", "drain_clean",
              "spin", "return", "boot", "hlt", "off"}

LEMMA ActiveRuns ==
    ASSUME SchedInv, pc[active_thread] \in RunPoints
    PROVE  active_thread \in Thread /\ state[active_thread] = "RUNNING"
<1>1. active_thread \in Thread /\ state[active_thread] \in States
  BY DEF SchedInv, Types
<1>2. /\ pc[active_thread] = "exit" <=> state[active_thread] \in {"ZOMBIE", "FREED"}
      /\ state[active_thread] \in {"READY", "SLEEPING", "BLOCKED"} => pc[active_thread] = "resched"
      /\ state[active_thread] = "JOINING" => pc[active_thread] \in {"join", "drain_join"}
  BY <1>1 DEF SchedInv, Places
<1>3. state[active_thread] \notin {"UNUSED", "FREED"}
  BY DEF SchedInv, Homes, Exists
<1> QED BY <1>1, <1>2, <1>3 DEF States, RunPoints

\* Steps that leave the family and the joins alone.
LEMMA SameFamily ==
    ASSUME SchedInv,
           UNCHANGED <<joining_thread, children, global_threads_table, thread_count, target>>,
           \A t \in Thread : /\ state'[t] = "UNUSED" <=> state[t] = "UNUSED"
                             /\ state'[t] = "FREED" <=> state[t] = "FREED"
                             /\ state'[t] = "JOINING" <=> state[t] = "JOINING"
                             /\ pc'[t] \in JoinPoints <=> pc[t] \in JoinPoints
                             /\ pc'[t] \in {"join", "clean"} <=> pc[t] \in {"join", "clean"},
           \A t \in User : state'[t] = "ZOMBIE" <=> state[t] = "ZOMBIE",
           pc'[init] \in DrainPoints <=> pc[init] \in DrainPoints
    PROVE  Family' /\ Joins'
<1>1. \A t \in Thread : Exists(t)' <=> Exists(t)
  BY DEF Exists
<1>2. {t \in Thread : Exists(t)}' = {t \in Thread : Exists(t)}
  BY <1>1
<1>3. /\ User \subseteq Thread /\ init \in Thread
      /\ \A u, p \in Thread : IsChild(u, p)' <=> IsChild(u, p)
      /\ \A u \in User : Drained(u)' <=> Drained(u)
  BY DEF Thread, IsChild, Drained
<1>4. Family'
  <2>1. /\ global_threads_table' = {t \in Thread : Exists(t)}'
        /\ IsFiniteSet(global_threads_table')
        /\ thread_count' = Cardinality(global_threads_table')
        /\ \A p \in Thread : Distinct(children'[p])
    BY <1>2 DEF SchedInv, Family
  <2>2. \A u, p \in Thread : IsChild(u, p)' =>
          /\ Exists(u)' /\ Exists(p)' /\ u # p
          /\ p \in User => state'[p] # "ZOMBIE"
          /\ u \in User \/ (u = init /\ p = idle)
    <3> SUFFICES ASSUME NEW u \in Thread, NEW p \in Thread, IsChild(u, p)'
                 PROVE  /\ Exists(u)' /\ Exists(p)' /\ u # p
                        /\ p \in User => state'[p] # "ZOMBIE"
                        /\ u \in User \/ (u = init /\ p = idle)
      OBVIOUS
    <3>1. IsChild(u, p)
      BY <1>3
    <3>2. /\ Exists(u) /\ Exists(p) /\ u # p
          /\ p \in User => state[p] # "ZOMBIE"
          /\ u \in User \/ (u = init /\ p = idle)
      BY <3>1 DEF SchedInv, Family
    <3> QED BY <1>1, <3>2
  <2>3. \A u, p, q \in Thread : IsChild(u, p)' /\ IsChild(u, q)' => p = q
    BY <1>3 DEF SchedInv, Family
  <2>4. \A u \in User : Exists(u)' /\ ~Drained(u)' => \E p \in Thread : IsChild(u, p)'
    BY <1>1, <1>3 DEF SchedInv, Family
  <2> QED BY <2>1, <2>2, <2>3, <2>4 DEF Family
<1>5. Joins'
  <2>1. \A u \in Thread : joining_thread'[u] # NULL =>
          /\ state'[u] # "UNUSED"
          /\ Exists(u)' => /\ joining_thread'[u] \in Thread
                           /\ pc'[joining_thread'[u]] \in JoinPoints
                           /\ target'[joining_thread'[u]] = u
    <3> SUFFICES ASSUME NEW u \in Thread, joining_thread'[u] # NULL
                 PROVE  /\ state'[u] # "UNUSED"
                        /\ Exists(u)' => /\ joining_thread'[u] \in Thread
                                         /\ pc'[joining_thread'[u]] \in JoinPoints
                                         /\ target'[joining_thread'[u]] = u
      OBVIOUS
    <3>1. /\ state[u] # "UNUSED"
          /\ Exists(u) => /\ joining_thread[u] \in Thread
                          /\ pc[joining_thread[u]] \in JoinPoints
                          /\ target[joining_thread[u]] = u
      BY DEF SchedInv, Joins
    <3> QED BY <1>1, <3>1
  <2>2. ASSUME NEW t \in Thread, pc'[t] \in JoinPoints
        PROVE  /\ target'[t] \in User /\ joining_thread'[target'[t]] = t /\ Exists(target[t])'
               /\ state'[t] = "JOINING" <=> state'[target'[t]] # "ZOMBIE"
               /\ pc'[t] \in {"join", "clean"} => IsChild(target[t], t)'
    <3>1. /\ target[t] \in User /\ joining_thread[target[t]] = t /\ Exists(target[t])
          /\ state[t] = "JOINING" <=> state[target[t]] # "ZOMBIE"
          /\ pc[t] \in {"join", "clean"} => IsChild(target[t], t)
      BY <2>2 DEF SchedInv, Joins
    <3> QED BY <1>3, <2>2, <3>1 DEF Exists, IsChild
  <2>3. pc'[init] \in DrainPoints =>
          /\ target'[init] \in User /\ Exists(target[init])'
          /\ \A p \in Thread : ~IsChild(target[init], p)'
    <3>1. pc[init] \in DrainPoints =>
          /\ target[init] \in User /\ Exists(target[init])
          /\ \A p \in Thread : ~IsChild(target[init], p)
      BY DEF SchedInv, Joins
    <3> QED BY <1>3, <3>1 DEF Exists, IsChild
  <2> QED BY <2>1, <2>2, <2>3 DEF Joins
<1> QED BY <1>4, <1>5

\* sleep and lock_thread: the active thread gives up being RUNNING.
LEMMA ActiveStops ==
    ASSUME SchedInv, pc[active_thread] \in {"run", "alarm"}, NEW s \in {"SLEEPING", "BLOCKED"},
           state' = [state EXCEPT ![active_thread] = s],
           pc' = [pc EXCEPT ![active_thread] = "resched"],
           UNCHANGED <<priority, last_sched, wakeup_time, joining_thread, children, tables,
                       active_thread, thread_count, first_schedule, system_state,
                       uptime, target, fault>>
    PROVE  SchedInv'
<1> USE DEF tables
<1>1. /\ active_thread \in Thread /\ state[active_thread] = "RUNNING"
      /\ active_thread # idle
  <2>1. active_thread \in Thread /\ state[active_thread] = "RUNNING"
    BY ActiveRuns DEF RunPoints
  <2>2. pc[idle] \in IdlePoints
    BY DEF SchedInv, Places
  <2> QED BY <2>1, <2>2 DEF IdlePoints
<1>2. /\ \A t \in Thread : state'[t] = IF t = active_thread THEN s ELSE state[t]
      /\ \A t \in Thread : pc'[t] = IF t = active_thread THEN "resched" ELSE pc[t]
      /\ state' \in [Thread -> States] /\ pc' \in [Thread -> InitPoints \cup IdlePoints]
  BY <1>1 DEF SchedInv, Types, States, InitPoints, UserPoints
<1>3. Types'
  BY <1>2 DEF SchedInv, Types
<1>4. Homes'
  BY <1>1, <1>2 DEF SchedInv, Homes, Exists
<1>5. Places'
  <2>1. idle \in Thread /\ init \in Thread /\ User \subseteq Thread
    BY DEF Thread
  <2> QED BY <1>1, <1>2, <2>1 DEF SchedInv, Places, UserPoints, InitPoints, JoinPoints, DrainPoints
<1>6. Family' /\ Joins'
  <2>1. \A t \in Thread : /\ state'[t] = "UNUSED" <=> state[t] = "UNUSED"
                          /\ state'[t] = "FREED" <=> state[t] = "FREED"
                          /\ state'[t] = "JOINING" <=> state[t] = "JOINING"
                          /\ state'[t] = "ZOMBIE" <=> state[t] = "ZOMBIE"
    BY <1>1, <1>2
  <2>2. /\ \A t \in Thread : pc'[t] \in JoinPoints <=> pc[t] \in JoinPoints
        /\ \A t \in Thread : pc'[t] \in {"join", "clean"} <=> pc[t] \in {"join", "clean"}
        /\ \A t \in Thread : pc'[t] \in DrainPoints <=> pc[t] \in DrainPoints
    BY <1>2 DEF JoinPoints, DrainPoints
  <2>3. User \subseteq Thread /\ init \in Thread
    BY DEF Thread
  <2> QED BY <2>1, <2>2, <2>3, SameFamily
<1> QED BY <1>3, <1>4, <1>5, <1>6 DEF SchedInv
\* Where a thread can go on.
MayStandAt(t, point) ==
    /\ t = idle => point \in IdlePoints
    /\ t = init => point \in InitPoints
    /\ t \in User => point \in UserPoints

LEMMA Points ==
    ASSUME SchedInv
    PROVE  /\ \A t \in Thread : MayStandAt(t, pc[t])
           /\ \A t \in Thread : \A point : MayStandAt(t, point) => point \in InitPoints \cup IdlePoints
           /\ idle \in Thread /\ init \in Thread /\ User \subseteq Thread
           /\ idle # init /\ idle \notin User /\ init \notin User
BY SchedulerAssumption DEF SchedInv, Places, MayStandAt, Thread, InitPoints

\* The active thread goes on, at a point where it runs, and nothing else moves.
LEMMA ActiveGoesOn ==
    ASSUME SchedInv, NEW p \in RunPoints \ JoinPoints, MayStandAt(active_thread, p),
           pc[active_thread] \in RunPoints \ JoinPoints,
           p \in DrainPoints <=> pc[active_thread] \in DrainPoints,
           pc' = [pc EXCEPT ![active_thread] = p],
           wakeup_time' \in [Thread -> Nat], system_state' \in {"ALIVE", "HALTED"},
           UNCHANGED <<state, priority, last_sched, joining_thread, children, tables,
                       active_thread, thread_count, first_schedule, uptime, target, fault>>
    PROVE  SchedInv'
<1> USE DEF tables
<1>1. active_thread \in Thread /\ state[active_thread] = "RUNNING"
  BY ActiveRuns
<1>2. /\ \A t \in Thread : pc'[t] = IF t = active_thread THEN p ELSE pc[t]
      /\ pc' \in [Thread -> InitPoints \cup IdlePoints]
  BY <1>1, Points DEF SchedInv, Types
<1>3. Types'
  BY <1>2 DEF SchedInv, Types
<1>4. Homes'
  BY DEF SchedInv, Homes, Exists
<1>5. Places'
  <2>1. \A t \in Thread :
          /\ pc'[t] = "exit" <=> state[t] \in {"ZOMBIE", "FREED"}
          /\ state[t] = "JOINING" => pc'[t] \in JoinPoints
          /\ state[t] \in {"SLEEPING", "BLOCKED"} => pc'[t] \in {"resched", "run"}
          /\ state[t] = "UNUSED" => pc'[t] = "run"
    <3>1. p # "exit"
      BY DEF RunPoints
    <3> QED BY <1>1, <1>2, <3>1 DEF SchedInv, Places
  <2>2. \A t \in Thread : MayStandAt(t, pc'[t])
    BY <1>2, Points
  <2> QED BY <1>1, <2>1, <2>2, Points DEF Places, MayStandAt
<1>6. Family' /\ Joins'
  <2>1. \A t \in Thread : /\ pc'[t] \in JoinPoints <=> pc[t] \in JoinPoints
                          /\ pc'[t] \in {"join", "clean"} <=> pc[t] \in {"join", "clean"}
    BY <1>2 DEF JoinPoints
  <2>2. pc'[init] \in DrainPoints <=> pc[init] \in DrainPoints
    BY <1>2, Points
  <2> QED BY <2>1, <2>2, SameFamily
<1> QED BY <1>3, <1>4, <1>5, <1>6 DEF SchedInv

\* init ends.
LEMMA InitExitKeeps == ASSUME SchedInv, InitExit PROVE SchedInv'
<1> USE DEF tables
<1>1. active_thread = init /\ pc[init] = "return" /\ state[init] = "RUNNING"
  BY ActiveRuns DEF InitExit, Runs, RunPoints
<1>2. /\ \A t \in Thread : pc'[t] = IF t = init THEN "exit" ELSE pc[t]
      /\ \A t \in Thread : state'[t] = IF t = init THEN "ZOMBIE" ELSE state[t]
      /\ pc' \in [Thread -> InitPoints \cup IdlePoints] /\ state' \in [Thread -> States]
  BY Points DEF SchedInv, Types, InitExit, States, InitPoints, UserPoints
<1>3. Types'
  BY <1>2 DEF SchedInv, Types, InitExit
<1>4. Homes'
  BY <1>1, <1>2, Points DEF SchedInv, Homes, Exists, InitExit
<1>5. Places'
  <2>1. \A t \in Thread :
          /\ pc'[t] = "exit" <=> state'[t] \in {"ZOMBIE", "FREED"}
          /\ state'[t] = "JOINING" => pc'[t] \in JoinPoints
          /\ state'[t] \in {"SLEEPING", "BLOCKED"} => pc'[t] \in {"resched", "run"}
          /\ state'[t] = "UNUSED" => pc'[t] = "run"
    BY <1>2 DEF SchedInv, Places
  <2>2. \A t \in Thread : MayStandAt(t, pc'[t])
    BY <1>2, Points DEF MayStandAt, InitPoints, UserPoints
  <2>3. active_thread' = init /\ state'[init] = "ZOMBIE"
    BY <1>1, <1>2, Points DEF InitExit
  <2> QED BY <2>1, <2>2, <2>3, Points DEF Places, MayStandAt
<1>6. Family' /\ Joins'
  <2>1. \A t \in Thread : /\ state'[t] = "UNUSED" <=> state[t] = "UNUSED"
                          /\ state'[t] = "FREED" <=> state[t] = "FREED"
                          /\ state'[t] = "JOINING" <=> state[t] = "JOINING"
                          /\ pc'[t] \in JoinPoints <=> pc[t] \in JoinPoints
                          /\ pc'[t] \in {"join", "clean"} <=> pc[t] \in {"join", "clean"}
    BY <1>1, <1>2 DEF JoinPoints
  <2>2. \A t \in User : state'[t] = "ZOMBIE" <=> state[t] = "ZOMBIE"
    BY <1>2, Points
  <2>3. pc'[init] \in DrainPoints <=> pc[init] \in DrainPoints
    BY <1>1, <1>2, Points DEF DrainPoints
  <2> QED BY <2>1, <2>2, <2>3, SameFamily DEF InitExit
<1> QED BY <1>3, <1>4, <1>5, <1>6 DEF SchedInv

\* unlock_thread, by the active thread or by a handler.
LEMMA UnlockKeeps ==
    ASSUME SchedInv, NEW u \in Thread, Unlock(u),
           \/ pc' = pc
           \/ pc[active_thread] = "run" /\ pc' = [pc EXCEPT ![active_thread] = "resched"]
    PROVE  SchedInv'
<1>1. /\ state[u] = "BLOCKED" /\ pc[u] \in {"resched", "run"}
      /\ u = active_thread => pc[u] = "resched"
      /\ active_thread \in Thread
      /\ pc[active_thread] = "run" => state[active_thread] = "RUNNING"
  BY ActiveRuns DEF Unlock, SchedInv, Places, Types, RunPoints
<1>2. /\ \A t \in Thread : \/ pc'[t] = pc[t]
                           \/ /\ pc[t] = "run" /\ pc'[t] = "resched"
                              /\ t = active_thread /\ state[t] = "RUNNING" /\ t # u
      /\ \A t \in Thread : state'[t] = IF t = u THEN "READY" ELSE state[t]
      /\ pc' \in [Thread -> InitPoints \cup IdlePoints] /\ state' \in [Thread -> States]
  BY <1>1 DEF SchedInv, Types, Unlock, States, InitPoints, UserPoints
<1>3. /\ active_threads_table' \in Table /\ Distinct(active_threads_table')
      /\ Nodes(active_threads_table') = Nodes(active_threads_table) \cup {u}
  <2>1. active_threads_table \in Table /\ priority[u] \in 0 .. Word16 - 1
    <3>1. \A i \in 0 .. Lowest : i \in 0 .. Word16 - 1
      BY SchedulerAssumption
    <3> QED BY <3>1 DEF SchedInv, Types
  <2>2. u \notin Nodes(active_threads_table) /\ Distinct(active_threads_table)
    BY <1>1 DEF SchedInv, Homes
  <2>3. active_threads_table' = EnlistData(active_threads_table, u, priority[u])
    BY DEF Unlock
  <2> QED BY <2>1, <2>2, <2>3, EnlistStep
<1>4. Types'
  BY <1>2, <1>3 DEF SchedInv, Types, Unlock
<1>5. Homes'
  BY <1>1, <1>2, <1>3 DEF SchedInv, Homes, Exists, Unlock
<1>6. Places'
  <2>1. \A t \in Thread :
          /\ pc'[t] = "exit" <=> state'[t] \in {"ZOMBIE", "FREED"}
          /\ state'[t] = "JOINING" => pc'[t] \in JoinPoints
          /\ state'[t] \in {"SLEEPING", "BLOCKED"} => pc'[t] \in {"resched", "run"}
          /\ state'[t] = "UNUSED" => pc'[t] = "run"
    BY <1>1, <1>2 DEF SchedInv, Places
  <2>2. \A t \in Thread : MayStandAt(t, pc'[t])
    <3>1. \A t \in Thread : MayStandAt(t, "run") => MayStandAt(t, "resched")
      BY DEF MayStandAt, IdlePoints, InitPoints, UserPoints
    <3> QED BY <1>2, <3>1, Points
  <2>3. /\ active_thread' = active_thread
        /\ state'[active_thread] \in {"READY", "SLEEPING", "BLOCKED"} => pc'[active_thread] = "resched"
        /\ state'[active_thread] = "JOINING" => pc'[active_thread] \in {"join", "drain_join"}
    BY <1>1, <1>2 DEF SchedInv, Places, Unlock
  <2> QED BY <2>1, <2>2, <2>3, Points DEF Places, MayStandAt
<1>7. Family' /\ Joins'
  <2>1. \A t \in Thread : /\ state'[t] = "UNUSED" <=> state[t] = "UNUSED"
                          /\ state'[t] = "FREED" <=> state[t] = "FREED"
                          /\ state'[t] = "ZOMBIE" <=> state[t] = "ZOMBIE"
                          /\ state'[t] = "JOINING" <=> state[t] = "JOINING"
    BY <1>1, <1>2
  <2>2. \A t \in Thread : /\ pc'[t] \in JoinPoints <=> pc[t] \in JoinPoints
                          /\ pc'[t] \in DrainPoints <=> pc[t] \in DrainPoints
                          /\ pc'[t] \in {"join", "clean"} <=> pc[t] \in {"join", "clean"}
    BY <1>2 DEF JoinPoints, DrainPoints
  <2> QED BY <2>1, <2>2, Points, SameFamily DEF Unlock
<1> QED BY <1>4, <1>5, <1>6, <1>7 DEF SchedInv
\* Timer interrupts and calls of schedule().
LEMMA PassKeeps ==
    ASSUME SchedInv, NEW timer \in BOOLEAN, ScheduleInt(timer), uptime' \in Nat,
           \/ pc' = pc
           \/ /\ first_schedule /\ pc[active_thread] \in DOMAIN Resumption
              /\ pc' = [pc EXCEPT ![active_thread] = Resumption[@]]
    PROVE  SchedInv'
<1>1. /\ active_thread \in Thread
      /\ \A t \in Thread : \/ pc'[t] = pc[t]
                           \/ pc[t] = "resched" /\ pc'[t] = "run"
                           \/ pc[t] = "join" /\ pc'[t] = "clean"
                           \/ pc[t] = "drain_join" /\ pc'[t] = "drain_clean"
      /\ pc' \in [Thread -> InitPoints \cup IdlePoints]
  <2>1. active_thread \in Thread /\ pc \in [Thread -> InitPoints \cup IdlePoints]
    BY DEF SchedInv, Types
  <2>2. CASE pc' = pc
    BY <2>1, <2>2
  <2>3. CASE /\ pc[active_thread] \in DOMAIN Resumption
             /\ pc' = [pc EXCEPT ![active_thread] = Resumption[@]]
    <3>1. pc[active_thread] \in {"resched", "join", "drain_join", "exit"}
      BY <2>3 DEF Resumption
    <3>2. /\ Resumption["resched"] = "run" /\ Resumption["join"] = "clean"
          /\ Resumption["drain_join"] = "drain_clean" /\ Resumption["exit"] = "exit"
      BY DEF Resumption
    <3>3. \A t \in Thread : pc'[t] = IF t = active_thread THEN Resumption[pc[t]] ELSE pc[t]
      BY <2>1, <2>3
    <3>4. \A t \in Thread : Resumption[pc[active_thread]] \in InitPoints
      BY <3>1, <3>2 DEF InitPoints, UserPoints, DrainPoints
    <3>5. pc' \in [Thread -> InitPoints \cup IdlePoints]
      BY <2>1, <2>3, <3>4
    <3> QED BY <2>1, <3>1, <3>2, <3>3, <3>5
  <2> QED BY <2>2, <2>3
<1>2. UNCHANGED <<wakeup_time, joining_thread, children, zombie_threads_table,
                  global_threads_table, thread_count, system_state, target>>
  BY DEF ScheduleInt
<1>3. \A t \in Thread : MayStandAt(t, pc'[t])
  <2>1. \A t \in Thread : /\ MayStandAt(t, "resched") => MayStandAt(t, "run")
                          /\ MayStandAt(t, "join") => MayStandAt(t, "clean")
                          /\ MayStandAt(t, "drain_join") => MayStandAt(t, "drain_clean")
    BY DEF MayStandAt, IdlePoints, InitPoints, UserPoints, DrainPoints
  <2> QED BY <1>1, <2>1, Points
<1>4. /\ \A t \in Thread : /\ pc'[t] \in JoinPoints <=> pc[t] \in JoinPoints
                           /\ pc'[t] \in {"join", "clean"} <=> pc[t] \in {"join", "clean"}
                           /\ pc'[t] \in DrainPoints <=> pc[t] \in DrainPoints
      /\ \A t \in Thread : pc'[t] = "exit" <=> pc[t] = "exit"
  BY <1>1 DEF JoinPoints, DrainPoints
<1>5. CASE ~first_schedule
  <2>1. /\ UNCHANGED <<state, active_threads_table, active_thread,
                       sleeping_threads_table, fault>>
        /\ first_schedule' = TRUE /\ pc' = pc
    BY <1>5 DEF ScheduleInt
  <2>2. priority' \in [Thread -> 0 .. Lowest] /\ last_sched' \in [Thread -> 0 .. AgingTicks]
    BY AgedFacts DEF ScheduleInt, SchedInv
  <2>3. Types'
    BY <1>1, <1>2, <2>1, <2>2 DEF SchedInv, Types
  <2>4. Homes' /\ Places'
    BY <1>2, <2>1 DEF SchedInv, Homes, Places, Exists
  <2>5. Family' /\ Joins'
    BY <1>2, <2>1, SameFamily
  <2> QED BY <2>3, <2>4, <2>5 DEF SchedInv
<1>6. CASE first_schedule
  <2>1. PICK woken \in SUBSET {t \in Thread : state[t] = "SLEEPING"}, next \in Thread :
             /\ state[next] \in {"READY", "RUNNING"} \/ next \in woken
             /\ active_thread' = next
             /\ state' = [t \in Thread |->
                            IF t = next THEN "RUNNING"
                            ELSE IF t = active_thread /\ state[t] = "RUNNING" THEN "READY"
                            ELSE IF t \in woken THEN "READY" ELSE state[t]]
             /\ active_threads_table' \in Table /\ Distinct(active_threads_table')
             /\ Nodes(active_threads_table') =
                    ({t \in Thread : state[t] \in {"READY", "RUNNING"}} \cup woken) \ {next}
             /\ sleeping_threads_table' \in Table /\ Distinct(sleeping_threads_table')
             /\ Nodes(sleeping_threads_table') = {t \in Thread : state[t] = "SLEEPING"} \ woken
    BY <1>6, PassMoves DEF SchedInv
  <2>2. /\ priority' \in [Thread -> 0 .. Lowest] /\ last_sched' \in [Thread -> 0 .. AgingTicks]
        /\ fault' = fault /\ first_schedule' = first_schedule
    BY <1>6, PassMoves DEF SchedInv
  <2>3. /\ \A t \in Thread :
              state'[t] = IF t = next THEN "RUNNING"
                          ELSE IF t = active_thread /\ state[t] = "RUNNING" THEN "READY"
                          ELSE IF t \in woken THEN "READY" ELSE state[t]
        /\ state' \in [Thread -> States]
        /\ \A t \in woken : state[t] = "SLEEPING"
        /\ \A t \in Thread : state[t] = "RUNNING" => t = active_thread
    BY <2>1 DEF SchedInv, Types, Homes, States
  <2>4. Types'
    BY <1>1, <1>2, <2>1, <2>2, <2>3 DEF SchedInv, Types
  <2>5. Homes'
    <3>1. /\ zombie_threads_table' = zombie_threads_table
          /\ Distinct(zombie_threads_table)
          /\ \A t \in Thread : t \in Nodes(zombie_threads_table) <=> state[t] = "ZOMBIE" /\ t # init
      BY <1>2 DEF SchedInv, Homes
    <3>2. ASSUME NEW t \in Thread
          PROVE  /\ t \in Nodes(active_threads_table') <=> state'[t] = "READY"
                 /\ t \in Nodes(sleeping_threads_table') <=> state'[t] = "SLEEPING" /\ t # next
                 /\ state'[t] = "ZOMBIE" <=> state[t] = "ZOMBIE"
                 /\ state'[t] = "RUNNING" => t = next
      BY <2>1, <2>3
    <3>3. state'[next] = "RUNNING"
      BY <2>3
    <3> QED BY <2>1, <3>1, <3>2, <3>3 DEF Homes, Exists
  <2>6. ASSUME NEW t \in Thread
        PROVE  /\ state'[t] = "UNUSED" <=> state[t] = "UNUSED"
               /\ state'[t] = "FREED" <=> state[t] = "FREED"
               /\ state'[t] = "JOINING" <=> state[t] = "JOINING"
               /\ state'[t] = "ZOMBIE" <=> state[t] = "ZOMBIE"
               /\ state'[t] = "SLEEPING" => state[t] = "SLEEPING"
               /\ state'[t] = "BLOCKED" => state[t] = "BLOCKED"
    BY <2>1, <2>3
  <2>7. Places'
    <3>1. ASSUME NEW t \in Thread
          PROVE  /\ pc'[t] = "exit" <=> state'[t] \in {"ZOMBIE", "FREED"}
                 /\ state'[t] = "JOINING" => pc'[t] \in JoinPoints
                 /\ state'[t] \in {"SLEEPING", "BLOCKED"} => pc'[t] \in {"resched", "run"}
                 /\ state'[t] = "UNUSED" => pc'[t] = "run"
      <4>1. /\ pc[t] = "exit" <=> state[t] \in {"ZOMBIE", "FREED"}
            /\ state[t] = "JOINING" => pc[t] \in JoinPoints
            /\ state[t] \in {"SLEEPING", "BLOCKED"} => pc[t] \in {"resched", "run"}
            /\ state[t] = "UNUSED" => pc[t] = "run"
        BY DEF SchedInv, Places
      <4> QED BY <1>1, <1>4, <2>6, <4>1
    <3>2. active_thread' = next /\ state'[next] = "RUNNING"
      BY <2>1, <2>3
    <3> QED BY <1>3, <3>1, <3>2, Points DEF Places, MayStandAt
  <2>8. Family' /\ Joins'
    BY <1>2, <1>4, <2>6, Points, SameFamily
  <2> QED BY <2>4, <2>5, <2>7, <2>8 DEF SchedInv
<1> QED BY <1>5, <1>6
\* create_thread.
LEMMA NewThreadKeeps ==
    ASSUME SchedInv, NEW t \in Thread, NEW u \in Thread, NewThread(t, u),
           t = active_thread, pc[t] \in RunPoints,
           u \in User \/ (u = init /\ t = idle),
           pc' = pc \/ (t = idle /\ pc[t] = "boot" /\ pc' = [pc EXCEPT ![t] = "hlt"])
    PROVE  SchedInv'
<1>1. /\ state[t] = "RUNNING" /\ state[u] = "UNUSED" /\ t # u /\ Exists(t) /\ ~Exists(u)
      /\ pc[u] = "run"
  BY ActiveRuns DEF NewThread, Exists, SchedInv, Places
<1>2. /\ \A s \in Thread : state'[s] = IF s = u THEN "READY" ELSE state[s]
      /\ state' \in [Thread -> States]
      /\ \A s \in Thread : Exists(s)' <=> Exists(s) \/ s = u
  BY <1>1 DEF NewThread, SchedInv, Types, States, Exists
<1>3. /\ \A s \in Thread : pc'[s] = pc[s] \/ (s = idle /\ pc[s] = "boot" /\ pc'[s] = "hlt")
      /\ pc' \in [Thread -> InitPoints \cup IdlePoints]
  BY DEF SchedInv, Types, IdlePoints
<1>4. /\ \A s \in Thread : /\ pc'[s] \in JoinPoints <=> pc[s] \in JoinPoints
                           /\ pc'[s] \in {"join", "clean"} <=> pc[s] \in {"join", "clean"}
                           /\ pc'[s] \in DrainPoints <=> pc[s] \in DrainPoints
      /\ \A s \in Thread : pc'[s] = "exit" <=> pc[s] = "exit"
      /\ pc'[u] = "run"
  BY <1>1, <1>3 DEF JoinPoints, DrainPoints
<1>5. /\ active_threads_table' \in Table /\ Distinct(active_threads_table')
      /\ Nodes(active_threads_table') = Nodes(active_threads_table) \cup {u}
  <2>1. active_threads_table \in Table /\ InitPrio[u] \in 0 .. Word16 - 1
    <3>1. \A i \in 0 .. Lowest : i \in 0 .. Word16 - 1
      BY SchedulerAssumption
    <3> QED BY <3>1, SchedulerAssumption DEF SchedInv, Types
  <2>2. u \notin Nodes(active_threads_table) /\ Distinct(active_threads_table)
    BY <1>1 DEF SchedInv, Homes
  <2>3. active_threads_table' = EnlistData(active_threads_table, u, InitPrio[u])
    BY DEF NewThread
  <2> QED BY <2>1, <2>2, <2>3, EnlistStep
<1>6. \A x, p \in Thread : IsChild(x, p) => Exists(x) /\ Exists(p)
  BY DEF SchedInv, Family
<1>7. /\ children' \in [Thread -> Table]
      /\ \A p \in Thread : Distinct(children'[p])
      /\ \A x, p \in Thread : IsChild(x, p)' <=> IsChild(x, p) \/ (x = u /\ p = t)
  <2>1. children[t] \in Table /\ Distinct(children[t]) /\ 0 \in 0 .. Word16 - 1
    BY SchedulerAssumption DEF SchedInv, Types, Family
  <2>2. u \notin Nodes(children[t])
    BY <1>1, <1>6 DEF IsChild
  <2>3. /\ EnlistData(children[t], u, 0) \in Table /\ Distinct(EnlistData(children[t], u, 0))
        /\ Nodes(EnlistData(children[t], u, 0)) = Nodes(children[t]) \cup {u}
    BY <2>1, <2>2, EnlistStep
  <2>4. /\ children' = [children EXCEPT ![t] = EnlistData(children[t], u, 0)]
        /\ children \in [Thread -> Table]
    BY DEF NewThread, SchedInv, Types
  <2>5. \A p \in Thread : children'[p] = IF p = t THEN EnlistData(children[t], u, 0) ELSE children[p]
    BY <2>4
  <2> QED BY <2>3, <2>4, <2>5 DEF SchedInv, Family, IsChild
<1>8. Types'
  <2>1. global_threads_table' \subseteq Thread
    BY DEF NewThread, SchedInv, Types
  <2> QED BY <1>2, <1>3, <1>5, <1>7, <2>1 DEF SchedInv, Types, NewThread
<1>9. Homes'
  BY <1>1, <1>2, <1>5 DEF SchedInv, Homes, NewThread
<1>10. Places'
  <2>1. \A s \in Thread : MayStandAt(s, pc'[s])
    <3>1. idle \notin User /\ idle # init
      BY Points
    <3>2. MayStandAt(idle, "hlt")
      BY <3>1 DEF MayStandAt, IdlePoints
    <3> QED BY <1>3, <3>2, Points
  <2>2. ASSUME NEW s \in Thread
        PROVE  /\ pc'[s] = "exit" <=> state'[s] \in {"ZOMBIE", "FREED"}
               /\ state'[s] = "JOINING" => pc'[s] \in JoinPoints
               /\ state'[s] \in {"SLEEPING", "BLOCKED"} => pc'[s] \in {"resched", "run"}
               /\ state'[s] = "UNUSED" => pc'[s] = "run"
    <3>1. /\ pc[s] = "exit" <=> state[s] \in {"ZOMBIE", "FREED"}
          /\ state[s] = "JOINING" => pc[s] \in JoinPoints
          /\ state[s] \in {"SLEEPING", "BLOCKED"} => pc[s] \in {"resched", "run"}
          /\ state[s] = "UNUSED" => pc[s] = "run"
      BY DEF SchedInv, Places
    <3> QED BY <1>1, <1>2, <1>3, <1>4, <3>1
  <2>3. active_thread' = t /\ state'[t] = "RUNNING"
    BY <1>1, <1>2 DEF NewThread
  <2> QED BY <2>1, <2>2, <2>3, Points DEF Places, MayStandAt
<1>11. Family'
  <2>1. /\ global_threads_table' = {s \in Thread : Exists(s)'}
        /\ IsFiniteSet(global_threads_table')
        /\ thread_count' = Cardinality(global_threads_table')
    <3>1. /\ global_threads_table = {s \in Thread : Exists(s)}
          /\ IsFiniteSet(global_threads_table) /\ thread_count = Cardinality(global_threads_table)
          /\ global_threads_table' = global_threads_table \cup {u}
          /\ thread_count' = thread_count + 1
      BY DEF SchedInv, Family, NewThread
    <3>2. u \notin global_threads_table
      BY <1>1, <3>1
    <3>3. global_threads_table' = {s \in Thread : Exists(s)'}
      <4>1. \A s : s \in global_threads_table' <=> s \in Thread /\ (Exists(s) \/ s = u)
        BY <3>1
      <4>2. \A s : s \in global_threads_table' <=> s \in Thread /\ Exists(s)'
        BY <1>2, <4>1
      <4> QED BY <4>2
    <3> DEFINE S == global_threads_table
    <3> HIDE DEF S
    <3>4. IsFiniteSet(S \cup {u}) /\ Cardinality(S \cup {u}) = Cardinality(S) + 1
      BY <3>1, <3>2, FS_AddElement DEF S
    <3> QED BY <3>1, <3>3, <3>4 DEF S
  <2>2. ASSUME NEW x \in Thread, NEW p \in Thread, IsChild(x, p)'
        PROVE  /\ Exists(x)' /\ Exists(p)' /\ x # p
               /\ p \in User => state'[p] # "ZOMBIE"
               /\ x \in User \/ (x = init /\ p = idle)
    <3>1. CASE x = u /\ p = t
      BY <1>1, <1>2, <3>1
    <3>2. CASE IsChild(x, p)
      <4>1. /\ Exists(x) /\ Exists(p) /\ x # p
            /\ p \in User => state[p] # "ZOMBIE"
            /\ x \in User \/ (x = init /\ p = idle)
        BY <3>2 DEF SchedInv, Family
      <4> QED BY <1>2, <4>1
    <3> QED BY <1>7, <2>2, <3>1, <3>2
  <2>3. \A x, p, q \in Thread : IsChild(x, p)' /\ IsChild(x, q)' => p = q
    BY <1>1, <1>6, <1>7 DEF SchedInv, Family
  <2>4. ASSUME NEW x \in User, Exists(x)', ~Drained(x)' PROVE \E p \in Thread : IsChild(x, p)'
    <3>1. CASE x = u
      BY <1>7, <3>1
    <3>2. CASE x # u
      <4>1. x \in Thread /\ Exists(x)
        BY <1>2, <2>4, <3>2, Points
      <4>2. ~Drained(x)
        <5>1. target' = target /\ (pc'[init] \in DrainPoints <=> pc[init] \in DrainPoints)
          BY <1>4, Points DEF NewThread
        <5> QED BY <2>4, <5>1 DEF Drained
      <4>3. PICK p \in Thread : IsChild(x, p)
        BY <4>1, <4>2 DEF SchedInv, Family
      <4> QED BY <1>7, <4>1, <4>3
    <3> QED BY <3>1, <3>2
  <2> QED BY <1>7, <2>1, <2>2, <2>3, <2>4 DEF Family
<1>12. Joins'
  <2>1. joining_thread' = joining_thread /\ target' = target
    BY DEF NewThread
  <2>2. ASSUME NEW x \in Thread, joining_thread[x] # NULL
        PROVE  /\ state'[x] # "UNUSED"
               /\ Exists(x)' => /\ joining_thread[x] \in Thread
                                /\ pc'[joining_thread[x]] \in JoinPoints
                                /\ target[joining_thread[x]] = x
    <3>1. /\ state[x] # "UNUSED"
          /\ Exists(x) => /\ joining_thread[x] \in Thread
                          /\ pc[joining_thread[x]] \in JoinPoints
                          /\ target[joining_thread[x]] = x
      BY <2>2 DEF SchedInv, Joins
    <3> QED BY <1>1, <1>2, <1>4, <3>1
  <2>3. ASSUME NEW s \in Thread, pc'[s] \in JoinPoints
        PROVE  /\ target[s] \in User /\ joining_thread[target[s]] = s /\ Exists(target[s])'
               /\ state'[s] = "JOINING" <=> state'[target[s]] # "ZOMBIE"
               /\ pc'[s] \in {"join", "clean"} => IsChild(target[s], s)'
    <3> DEFINE x == target[s]
    <3>1. /\ x \in User /\ joining_thread[x] = s /\ Exists(x)
          /\ state[s] = "JOINING" <=> state[x] # "ZOMBIE"
          /\ pc[s] \in {"join", "clean"} => IsChild(x, s)
      BY <1>4, <2>3 DEF SchedInv, Joins
    <3>2. x # u /\ s # u /\ x \in Thread
      BY <1>1, <1>4, <2>3, <3>1, Points DEF JoinPoints
    <3>3. state'[s] = state[s] /\ state'[x] = state[x]
      BY <1>2, <3>2
    <3>4. Exists(target[s])'
      BY <2>1, <3>1, <3>3 DEF Exists
    <3>5. pc'[s] \in {"join", "clean"} => IsChild(target[s], s)'
      <4>1. pc'[s] \in {"join", "clean"} => IsChild(x, s)
        BY <1>4, <3>1
      <4>2. IsChild(x, s) => x \in Nodes(children'[s])
        BY <1>7, <3>2 DEF IsChild
      <4> QED BY <2>1, <4>1, <4>2 DEF IsChild
    <3> QED BY <3>1, <3>3, <3>4, <3>5
  <2>4. pc'[init] \in DrainPoints =>
          /\ target[init] \in User /\ Exists(target[init])'
          /\ \A p \in Thread : ~IsChild(target[init], p)'
    <3> SUFFICES ASSUME pc'[init] \in DrainPoints
                 PROVE  /\ target[init] \in User /\ Exists(target[init])'
                        /\ \A p \in Thread : ~IsChild(target[init], p)'
      OBVIOUS
    <3> DEFINE x == target[init]
    <3>1. x \in User /\ Exists(x) /\ \A p \in Thread : ~IsChild(x, p)
      BY <1>4, Points DEF SchedInv, Joins
    <3>2. x \in Thread /\ x # u
      BY <1>1, <3>1, Points
    <3>3. Exists(target[init])'
      BY <1>2, <2>1, <3>1, <3>2 DEF Exists
    <3>4. \A p \in Thread : x \notin Nodes(children'[p])
      BY <1>7, <3>1, <3>2 DEF IsChild
    <3> QED BY <2>1, <3>1, <3>3, <3>4 DEF IsChild
  <2> QED BY <2>1, <2>2, <2>3, <2>4 DEF Joins
<1> QED BY <1>8, <1>9, <1>10, <1>11, <1>12 DEF SchedInv
\* t may clean u away, or wait for it: u is its child, or init has taken u off
\* its list, or t has waited for it already.
Claims(t, u) ==
    \/ pc[t] = "run" /\ IsChild(u, t)
    \/ pc[t] \in {"clean", "drain_wait", "drain_clean"} /\ target[t] = u

\* Nobody else claims u, nobody else is its parent.
LEMMA OneClaims ==
    ASSUME SchedInv, NEW t \in Thread, NEW u \in User, Claims(t, u)
    PROVE  /\ u \in Thread /\ Exists(u)
           /\ \A p \in Thread : IsChild(u, p) => p = t
           /\ \A s \in Thread : pc[s] \in JoinPoints /\ target[s] = u => s = t
           /\ pc[t] \in JoinPoints \cup DrainPoints => target[t] = u
           /\ pc[init] \in DrainPoints /\ target[init] = u => t = init
           /\ pc[t] \in DrainPoints => t = init
<1>1. /\ u \in Thread /\ idle # init /\ idle \notin User /\ init \notin User
      /\ \A s \in Thread : MayStandAt(s, pc[s])
      /\ \A s \in Thread : s = idle \/ s = init \/ s \in User
  BY Points DEF Thread
<1>2. \A s \in Thread : pc[s] \in DrainPoints => s = init
  BY <1>1 DEF MayStandAt, DrainPoints, IdlePoints, UserPoints
<1>3. pc[init] \in DrainPoints =>
          /\ target[init] \in User /\ Exists(target[init])
          /\ \A p \in Thread : ~IsChild(target[init], p)
  BY DEF SchedInv, Joins
<1>4. \A s \in Thread : pc[s] \in JoinPoints =>
          /\ joining_thread[target[s]] = s /\ Exists(target[s])
          /\ pc[s] \in {"join", "clean"} => IsChild(target[s], s)
  BY DEF SchedInv, Joins
<1>5. /\ \A p, q \in Thread : IsChild(u, p) /\ IsChild(u, q) => p = q
      /\ \A p \in Thread : IsChild(u, p) => Exists(u)
  BY <1>1 DEF SchedInv, Family
<1>6. \A s \in Thread : pc[s] \in JoinPoints => pc[s] \in {"join", "clean"} \/ pc[s] \in DrainPoints
  BY DEF JoinPoints, DrainPoints
<1>7. CASE pc[t] = "run" /\ IsChild(u, t)
  <2>1. pc[t] \notin JoinPoints \cup DrainPoints
    BY <1>7 DEF JoinPoints, DrainPoints
  <2>2. pc[init] \in DrainPoints => target[init] # u
    BY <1>3, <1>7
  <2>3. ASSUME NEW s \in Thread, pc[s] \in JoinPoints, target[s] = u PROVE s = t
    BY <1>2, <1>4, <1>5, <1>6, <1>7, <2>2, <2>3
  <2> QED BY <1>1, <1>5, <1>7, <2>1, <2>2, <2>3
<1>8. CASE pc[t] = "clean" /\ target[t] = u
  <2>1. pc[t] \in JoinPoints /\ pc[t] \notin DrainPoints /\ IsChild(u, t) /\ joining_thread[u] = t
    BY <1>4, <1>8 DEF JoinPoints, DrainPoints
  <2>2. pc[init] \in DrainPoints => target[init] # u
    BY <1>3, <2>1
  <2> QED BY <1>1, <1>2, <1>4, <1>5, <1>8, <2>1, <2>2
<1>9. CASE pc[t] \in {"drain_wait", "drain_clean"} /\ target[t] = u
  <2>1. pc[t] \in DrainPoints /\ t = init
    BY <1>2, <1>9 DEF DrainPoints
  <2>2. Exists(u) /\ \A p \in Thread : ~IsChild(u, p)
    BY <1>3, <1>9, <2>1
  <2>3. ASSUME NEW s \in Thread, pc[s] \in JoinPoints, target[s] = u PROVE s = t
    BY <1>2, <1>4, <1>6, <2>1, <2>2, <2>3
  <2> QED BY <1>1, <1>9, <2>1, <2>2, <2>3
<1> QED BY <1>7, <1>8, <1>9 DEF Claims

\* clean_joined_thread, whether the thread was waited for or not.
LEMMA CleanKeeps ==
    ASSUME SchedInv, NEW t \in Thread, NEW u \in User, Claims(t, u), t = active_thread,
           state[u] = "ZOMBIE", Clean(t, u),
           NEW p \in {"run", "drain_more"}, MayStandAt(t, p),
           pc' = [pc EXCEPT ![t] = p], target' = [target EXCEPT ![t] = NULL],
           UNCHANGED <<priority, last_sched, wakeup_time, joining_thread,
                       active_threads_table, sleeping_threads_table, active_thread,
                       first_schedule, system_state, uptime>>
    PROVE  SchedInv'
<1>1. /\ u \in Thread /\ Exists(u)
      /\ \A q \in Thread : IsChild(u, q) => q = t
      /\ \A s \in Thread : pc[s] \in JoinPoints /\ target[s] = u => s = t
      /\ pc[t] \in JoinPoints \cup DrainPoints => target[t] = u
      /\ pc[init] \in DrainPoints /\ target[init] = u => t = init
  BY OneClaims
<1>2. state[t] = "RUNNING" /\ t # u
  <2>1. pc[t] \in RunPoints
    BY DEF Claims, RunPoints
  <2> QED BY <2>1, ActiveRuns
<1>3. /\ \A s \in Thread : state'[s] = IF s = u THEN "FREED" ELSE state[s]
      /\ state' \in [Thread -> States]
      /\ \A s \in Thread : Exists(s)' <=> Exists(s) /\ s # u
  BY <1>1 DEF Clean, SchedInv, Types, States, Exists
<1>4. /\ \A s \in Thread : pc'[s] = IF s = t THEN p ELSE pc[s]
      /\ pc' \in [Thread -> InitPoints \cup IdlePoints]
      /\ \A s \in Thread : target'[s] = IF s = t THEN NULL ELSE target[s]
      /\ target' \in [Thread -> Thread \cup {NULL}]
      /\ p \notin JoinPoints \cup DrainPoints
  BY Points DEF SchedInv, Types, JoinPoints, DrainPoints
<1>5. /\ zombie_threads_table' \in Table /\ Distinct(zombie_threads_table')
      /\ Nodes(zombie_threads_table') = Nodes(zombie_threads_table) \ {u}
  BY RemoveStep DEF Clean, SchedInv, Types, Homes
<1>6. /\ children' \in [Thread -> Table]
      /\ \A q \in Thread : Distinct(children'[q])
      /\ \A x, q \in Thread : IsChild(x, q)' <=> IsChild(x, q) /\ ~(x = u /\ q = t)
  <2>1. children[t] \in Table /\ Distinct(children[t])
    BY DEF SchedInv, Types, Family
  <2> DEFINE new == RemoveNodeFrom(children[t], u)
  <2>2. new \in Table /\ Distinct(new) /\ Nodes(new) = Nodes(children[t]) \ {u}
    BY <2>1, RemoveStep
  <2>3. children' = [children EXCEPT ![t] = new] /\ children \in [Thread -> Table]
    BY DEF Clean, SchedInv, Types
  <2> HIDE DEF new
  <2>4. \A q \in Thread : children'[q] = IF q = t THEN new ELSE children[q]
    BY <2>3
  <2> QED BY <2>2, <2>3, <2>4 DEF SchedInv, Family, IsChild
<1>7. Types'
  <2>1. global_threads_table' \subseteq Thread /\ fault' = fault
    BY DEF Clean, SchedInv, Types
  <2> QED BY <1>3, <1>4, <1>5, <1>6, <2>1 DEF SchedInv, Types
<1>8. Homes'
  <2>1. u # init
    BY Points
  <2> QED BY <1>1, <1>2, <1>3, <1>5, <2>1 DEF SchedInv, Homes
<1>9. Places'
  <2>1. \A s \in Thread : MayStandAt(s, pc'[s])
    BY <1>4, Points
  <2>2. ASSUME NEW s \in Thread
        PROVE  /\ pc'[s] = "exit" <=> state'[s] \in {"ZOMBIE", "FREED"}
               /\ state'[s] = "JOINING" => pc'[s] \in JoinPoints
               /\ state'[s] \in {"SLEEPING", "BLOCKED"} => pc'[s] \in {"resched", "run"}
               /\ state'[s] = "UNUSED" => pc'[s] = "run"
    <3>1. /\ pc[s] = "exit" <=> state[s] \in {"ZOMBIE", "FREED"}
          /\ state[s] = "JOINING" => pc[s] \in JoinPoints
          /\ state[s] \in {"SLEEPING", "BLOCKED"} => pc[s] \in {"resched", "run"}
          /\ state[s] = "UNUSED" => pc[s] = "run"
      BY DEF SchedInv, Places
    <3> QED BY <1>2, <1>3, <1>4, <3>1
  <2>3. active_thread' = t /\ state'[t] = "RUNNING"
    BY <1>2, <1>3
  <2> QED BY <2>1, <2>2, <2>3, Points DEF Places, MayStandAt
<1>10. Family'
  <2>1. /\ global_threads_table' = {s \in Thread : Exists(s)'}
        /\ IsFiniteSet(global_threads_table')
        /\ thread_count' = Cardinality(global_threads_table')
    <3>1. /\ global_threads_table = {s \in Thread : Exists(s)}
          /\ IsFiniteSet(global_threads_table) /\ thread_count = Cardinality(global_threads_table)
          /\ global_threads_table' = global_threads_table \ {u}
          /\ thread_count' = thread_count - 1
      BY DEF SchedInv, Family, Clean
    <3>2. u \in global_threads_table
      BY <1>1, <3>1
    <3>3. global_threads_table' = {s \in Thread : Exists(s)'}
      <4>1. \A s : s \in global_threads_table' <=> s \in Thread /\ Exists(s) /\ s # u
        BY <3>1
      <4>2. \A s : s \in global_threads_table' <=> s \in Thread /\ Exists(s)'
        BY <1>3, <4>1
      <4> QED BY <4>2
    <3> DEFINE S == global_threads_table
    <3> HIDE DEF S
    <3>4. IsFiniteSet(S \ {u}) /\ Cardinality(S \ {u}) = Cardinality(S) - 1
      BY <3>1, <3>2, FS_RemoveElement DEF S
    <3> QED BY <3>1, <3>3, <3>4 DEF S
  <2>2. ASSUME NEW x \in Thread, NEW q \in Thread, IsChild(x, q)'
        PROVE  /\ Exists(x)' /\ Exists(q)' /\ x # q
               /\ q \in User => state'[q] # "ZOMBIE"
               /\ x \in User \/ (x = init /\ q = idle)
    <3>1. IsChild(x, q) /\ x # u
      BY <1>1, <1>6, <2>2
    <3>2. /\ Exists(x) /\ Exists(q) /\ x # q
          /\ q \in User => state[q] # "ZOMBIE"
          /\ x \in User \/ (x = init /\ q = idle)
      BY <3>1 DEF SchedInv, Family
    <3> QED BY <1>3, <3>1, <3>2
  <2>3. \A x, q, r \in Thread : IsChild(x, q)' /\ IsChild(x, r)' => q = r
    BY <1>6 DEF SchedInv, Family
  <2>4. ASSUME NEW x \in User, Exists(x)', ~Drained(x)' PROVE \E q \in Thread : IsChild(x, q)'
    <3>1. x \in Thread /\ Exists(x) /\ x # u
      BY <1>3, <2>4, Points
    <3>2. ~Drained(x)
      <4>1. CASE t = init
        BY <1>1, <3>1, <4>1 DEF Drained
      <4>2. CASE t # init
        BY <1>4, <2>4, <4>2, Points DEF Drained
      <4> QED BY <4>1, <4>2
    <3>3. PICK q \in Thread : IsChild(x, q)
      BY <3>1, <3>2 DEF SchedInv, Family
    <3> QED BY <1>6, <3>1, <3>3
  <2> QED BY <1>6, <2>1, <2>2, <2>3, <2>4 DEF Family
<1>11. Joins'
  <2>1. joining_thread' = joining_thread
    OBVIOUS
  <2>2. ASSUME NEW x \in Thread, joining_thread[x] # NULL
        PROVE  /\ state'[x] # "UNUSED"
               /\ Exists(x)' => /\ joining_thread[x] \in Thread
                                /\ pc'[joining_thread[x]] \in JoinPoints
                                /\ target'[joining_thread[x]] = x
    <3>1. /\ state[x] # "UNUSED"
          /\ Exists(x) => /\ joining_thread[x] \in Thread
                          /\ pc[joining_thread[x]] \in JoinPoints
                          /\ target[joining_thread[x]] = x
      BY <2>2 DEF SchedInv, Joins
    <3>2. ASSUME Exists(x)'
          PROVE  joining_thread[x] \in Thread /\ joining_thread[x] # t
      <4>1. x # u /\ Exists(x)
        BY <1>3, <3>2
      <4> QED BY <1>1, <3>1, <4>1
    <3> QED BY <1>3, <1>4, <3>1, <3>2
  <2>3. ASSUME NEW s \in Thread, pc'[s] \in JoinPoints
        PROVE  /\ target'[s] \in User /\ joining_thread[target'[s]] = s
               /\ Exists(target[s])' /\ target'[s] = target[s]
               /\ state'[s] = "JOINING" <=> state'[target'[s]] # "ZOMBIE"
               /\ pc'[s] \in {"join", "clean"} => IsChild(target[s], s)'
    <3> DEFINE x == target[s]
    <3>1. s # t /\ pc[s] = pc'[s] /\ target'[s] = x
      BY <1>4, <2>3
    <3>2. /\ x \in User /\ joining_thread[x] = s /\ Exists(x)
          /\ state[s] = "JOINING" <=> state[x] # "ZOMBIE"
          /\ pc[s] \in {"join", "clean"} => IsChild(x, s)
      BY <2>3, <3>1 DEF SchedInv, Joins
    <3>3. x # u /\ x \in Thread
      BY <1>1, <2>3, <3>1, <3>2, Points
    <3>4. s # u
      BY <2>3, <3>1 DEF SchedInv, Places, JoinPoints
    <3>5. state'[s] = state[s] /\ state'[x] = state[x]
      BY <1>3, <3>3, <3>4
    <3>6. Exists(target[s])'
      BY <3>1, <3>2, <3>5 DEF Exists
    <3>7. pc'[s] \in {"join", "clean"} => IsChild(target[s], s)'
      <4>1. IsChild(x, s) => x \in Nodes(children'[s])
        BY <1>6, <3>3 DEF IsChild
      <4> QED BY <3>1, <3>2, <4>1 DEF IsChild
    <3> QED BY <3>1, <3>2, <3>5, <3>6, <3>7
  <2>4. ASSUME pc'[init] \in DrainPoints
        PROVE  /\ target'[init] \in User /\ Exists(target[init])' /\ target'[init] = target[init]
               /\ \A q \in Thread : ~IsChild(target[init], q)'
    <3> DEFINE x == target[init]
    <3>1. init # t /\ pc[init] \in DrainPoints /\ target'[init] = x
      BY <1>4, <2>4, Points
    <3>2. x \in User /\ Exists(x) /\ \A q \in Thread : ~IsChild(x, q)
      BY <3>1 DEF SchedInv, Joins
    <3>3. x \in Thread /\ x # u
      BY <1>1, <3>1, <3>2, Points
    <3>4. Exists(target[init])'
      BY <1>3, <3>1, <3>2, <3>3 DEF Exists
    <3>5. \A q \in Thread : x \notin Nodes(children'[q])
      BY <1>6, <3>2, <3>3 DEF IsChild
    <3> QED BY <3>1, <3>2, <3>4, <3>5 DEF IsChild
  <2> QED BY <2>1, <2>2, <2>3, <2>4 DEF Joins
<1> QED BY <1>7, <1>8, <1>9, <1>10, <1>11 DEF SchedInv
\* wait_thread for a thread that has not ended.
LEMMA JoinKeeps ==
    ASSUME SchedInv, NEW t \in Thread, NEW u \in User, Claims(t, u), t = active_thread,
           state[u] \notin {"ZOMBIE", "FREED"},
           NEW p \in {"join", "drain_join"}, MayStandAt(t, p),
           \/ pc[t] = "run" /\ p = "join"
           \/ pc[t] = "drain_wait" /\ p = "drain_join",
           joining_thread' = [joining_thread EXCEPT ![u] = t],
           state' = [state EXCEPT ![t] = "JOINING"],
           pc' = [pc EXCEPT ![t] = p], target' = [target EXCEPT ![t] = u],
           UNCHANGED <<priority, last_sched, wakeup_time, children, tables,
                       active_thread, thread_count, first_schedule, system_state,
                       uptime, fault>>
    PROVE  SchedInv'
<1> USE DEF tables
<1>1. /\ u \in Thread /\ Exists(u)
      /\ \A q \in Thread : IsChild(u, q) => q = t
      /\ \A s \in Thread : pc[s] \in JoinPoints /\ target[s] = u => s = t
      /\ pc[t] \in JoinPoints \cup DrainPoints => target[t] = u
      /\ pc[init] \in DrainPoints /\ target[init] = u => t = init
      /\ pc[t] \in DrainPoints => t = init
  BY OneClaims
<1>2. state[t] = "RUNNING"
  <2>1. pc[t] \in RunPoints
    BY DEF Claims, RunPoints
  <2> QED BY <2>1, ActiveRuns
<1>3. t # u
  <2>1. CASE pc[t] = "run"
    <3>1. IsChild(u, t)
      BY <2>1 DEF Claims
    <3> QED BY <1>1, <3>1 DEF SchedInv, Family
  <2>2. CASE pc[t] = "drain_wait"
    <3>1. t = init
      BY <1>1, <2>2 DEF DrainPoints
    <3> QED BY <3>1, Points
  <2> QED BY <2>1, <2>2
<1>4. /\ \A s \in Thread : state'[s] = IF s = t THEN "JOINING" ELSE state[s]
      /\ state' \in [Thread -> States]
      /\ \A s \in Thread : pc'[s] = IF s = t THEN p ELSE pc[s]
      /\ pc' \in [Thread -> InitPoints \cup IdlePoints]
      /\ \A s \in Thread : target'[s] = IF s = t THEN u ELSE target[s]
      /\ target' \in [Thread -> Thread \cup {NULL}]
      /\ \A s \in Thread : joining_thread'[s] = IF s = u THEN t ELSE joining_thread[s]
      /\ joining_thread' \in [Thread -> Thread \cup {NULL}]
  BY <1>1, Points DEF SchedInv, Types, States
<1>5. /\ p \in JoinPoints /\ pc[t] \notin JoinPoints
      /\ p = "drain_join" <=> pc[t] \in DrainPoints
      /\ p \in DrainPoints <=> pc[t] \in DrainPoints
  BY DEF JoinPoints, DrainPoints
<1>6. /\ \A s \in Thread : Exists(s)' <=> Exists(s)
      /\ \A s \in Thread : state'[s] = "ZOMBIE" <=> state[s] = "ZOMBIE"
      /\ \A x, q \in Thread : IsChild(x, q)' <=> IsChild(x, q)
  BY <1>2, <1>4 DEF Exists, IsChild
<1>7. Types'
  BY <1>4 DEF SchedInv, Types
<1>8. Homes'
  BY <1>2, <1>4, <1>6 DEF SchedInv, Homes
<1>9. Places'
  <2>1. \A s \in Thread : MayStandAt(s, pc'[s])
    BY <1>4, Points
  <2>2. ASSUME NEW s \in Thread
        PROVE  /\ pc'[s] = "exit" <=> state'[s] \in {"ZOMBIE", "FREED"}
               /\ state'[s] = "JOINING" => pc'[s] \in JoinPoints
               /\ state'[s] \in {"SLEEPING", "BLOCKED"} => pc'[s] \in {"resched", "run"}
               /\ state'[s] = "UNUSED" => pc'[s] = "run"
    <3>1. /\ pc[s] = "exit" <=> state[s] \in {"ZOMBIE", "FREED"}
          /\ state[s] = "JOINING" => pc[s] \in JoinPoints
          /\ state[s] \in {"SLEEPING", "BLOCKED"} => pc[s] \in {"resched", "run"}
          /\ state[s] = "UNUSED" => pc[s] = "run"
      BY DEF SchedInv, Places
    <3> QED BY <1>2, <1>4, <1>5, <3>1
  <2>3. active_thread' = t /\ state'[t] = "JOINING" /\ pc'[t] \in {"join", "drain_join"}
    BY <1>4
  <2> QED BY <2>1, <2>2, <2>3, Points DEF Places, MayStandAt
<1>10. Family'
  <2>1. {s \in Thread : Exists(s)'} = {s \in Thread : Exists(s)}
    BY <1>6
  <2>2. \A x \in User : Drained(x)' <=> Drained(x)
    BY <1>1, <1>4, <1>5, Points DEF Drained
  <2>3. /\ global_threads_table' = {s \in Thread : Exists(s)'}
        /\ IsFiniteSet(global_threads_table')
        /\ thread_count' = Cardinality(global_threads_table')
        /\ \A q \in Thread : Distinct(children'[q])
    BY <2>1 DEF SchedInv, Family
  <2>4. ASSUME NEW x \in Thread, NEW q \in Thread, IsChild(x, q)'
        PROVE  /\ Exists(x)' /\ Exists(q)' /\ x # q
               /\ q \in User => state'[q] # "ZOMBIE"
               /\ x \in User \/ (x = init /\ q = idle)
    <3>1. /\ Exists(x) /\ Exists(q) /\ x # q
          /\ q \in User => state[q] # "ZOMBIE"
          /\ x \in User \/ (x = init /\ q = idle)
      BY <1>6, <2>4 DEF SchedInv, Family
    <3> QED BY <1>6, <3>1
  <2>5. \A x, q, r \in Thread : IsChild(x, q)' /\ IsChild(x, r)' => q = r
    BY <1>6 DEF SchedInv, Family
  <2>6. \A x \in User : Exists(x)' /\ ~Drained(x)' => \E q \in Thread : IsChild(x, q)'
    BY <1>6, <2>2, Points DEF SchedInv, Family
  <2> QED BY <2>3, <2>4, <2>5, <2>6 DEF Family
<1>11. Joins'
  <2>1. ASSUME NEW x \in Thread, joining_thread'[x] # NULL
        PROVE  /\ state'[x] # "UNUSED"
               /\ Exists(x)' => /\ joining_thread'[x] \in Thread
                                /\ pc'[joining_thread'[x]] \in JoinPoints
                                /\ target'[joining_thread'[x]] = x
    <3>1. CASE x = u
      BY <1>1, <1>3, <1>4, <1>5, <3>1 DEF Exists
    <3>2. CASE x # u
      <4>1. joining_thread'[x] = joining_thread[x]
        BY <1>4, <3>2
      <4>2. /\ state[x] # "UNUSED"
            /\ Exists(x) => /\ joining_thread[x] \in Thread
                            /\ pc[joining_thread[x]] \in JoinPoints
                            /\ target[joining_thread[x]] = x
        BY <2>1, <4>1 DEF SchedInv, Joins
      <4> QED BY <1>4, <1>5, <1>6, <4>1, <4>2
    <3> QED BY <3>1, <3>2
  <2>2. ASSUME NEW s \in Thread, pc'[s] \in JoinPoints
        PROVE  /\ target'[s] \in User /\ joining_thread'[target'[s]] = s /\ Exists(target[s])'
               /\ state'[s] = "JOINING" <=> state'[target'[s]] # "ZOMBIE"
               /\ pc'[s] \in {"join", "clean"} => IsChild(target[s], s)'
    <3>1. CASE s = t
      <4>1. target'[s] = u /\ joining_thread'[u] = s /\ state'[s] = "JOINING" /\ state'[u] = state[u]
        BY <1>1, <1>3, <1>4, <3>1
      <4>2. Exists(target[s])'
        BY <1>1, <4>1 DEF Exists
      <4>3. pc'[s] \in {"join", "clean"} => IsChild(target[s], s)'
        <5>1. pc'[s] \in {"join", "clean"} => IsChild(u, t)
          BY <1>4, <3>1 DEF Claims
        <5>2. children' = children
          OBVIOUS
        <5> QED BY <3>1, <4>1, <5>1, <5>2 DEF IsChild
      <4> QED BY <4>1, <4>2, <4>3
    <3>2. CASE s # t
      <4> DEFINE x == target[s]
      <4>1. target'[s] = x /\ pc'[s] = pc[s] /\ state'[s] = state[s]
        BY <1>4, <3>2
      <4>2. /\ x \in User /\ joining_thread[x] = s /\ Exists(x)
            /\ state[s] = "JOINING" <=> state[x] # "ZOMBIE"
            /\ pc[s] \in {"join", "clean"} => IsChild(x, s)
        BY <2>2, <4>1 DEF SchedInv, Joins
      <4>3. x \in Thread /\ x # u
        BY <1>1, <2>2, <3>2, <4>1, <4>2, Points
      <4>4. joining_thread'[x] = s /\ (state'[x] = "ZOMBIE" <=> state[x] = "ZOMBIE")
        BY <1>4, <1>6, <4>2, <4>3
      <4>5. Exists(target[s])'
        <5>1. state'[x] \notin {"UNUSED", "FREED"}
          BY <1>4, <4>2, <4>3 DEF Exists
        <5> QED BY <4>1, <5>1 DEF Exists
      <4>6. pc'[s] \in {"join", "clean"} => IsChild(target[s], s)'
        BY <4>1, <4>2 DEF IsChild
      <4> QED BY <4>1, <4>2, <4>4, <4>5, <4>6
    <3> QED BY <3>1, <3>2
  <2>3. ASSUME pc'[init] \in DrainPoints
        PROVE  /\ target'[init] \in User /\ Exists(target[init])'
               /\ \A q \in Thread : ~IsChild(target[init], q)'
    <3> DEFINE x == target[init]
    <3>1. pc[init] \in DrainPoints /\ target'[init] = x
      BY <1>1, <1>4, <1>5, <2>3, Points
    <3>2. x \in User /\ Exists(x) /\ \A q \in Thread : ~IsChild(x, q)
      BY <3>1 DEF SchedInv, Joins
    <3>3. x \in Thread /\ state'[x] \notin {"UNUSED", "FREED"}
      BY <1>4, <3>2, Points DEF Exists
    <3>4. Exists(target[init])'
      BY <3>1, <3>3 DEF Exists
    <3> QED BY <3>1, <3>2, <3>4 DEF IsChild
  <2> QED BY <2>1, <2>2, <2>3 DEF Joins
<1> QED BY <1>7, <1>8, <1>9, <1>10, <1>11 DEF SchedInv
\* thread_exit.  A program that joins only its own children leaves init nothing
\* to inherit: the thread that would wait for the child is the one that ends.
LEMMA ThreadExitKeeps ==
    ASSUME SchedInv, NEW t \in Thread, ThreadExit(t)
    PROVE  SchedInv'
<1>1. /\ t \in User /\ t = active_thread /\ pc[t] = "run" /\ state[t] = "RUNNING"
      /\ t # init /\ t # idle /\ init \in Thread
  BY ActiveRuns, Points DEF ThreadExit, MayCall, Runs, RunPoints
<1>2. UNCHANGED <<priority, last_sched, wakeup_time, joining_thread,
                  sleeping_threads_table, global_threads_table, active_thread,
                  thread_count, first_schedule, system_state, uptime, target>>
  BY DEF ThreadExit
<1>3. CASE ~Inheritable(t)
  <2>1. /\ fault' = "null_joining_thread"
        /\ UNCHANGED <<state, active_threads_table, zombie_threads_table, children, pc>>
    BY <1>3 DEF ThreadExit
  <2>2. Types' /\ Homes' /\ Places'
    BY <1>2, <2>1 DEF SchedInv, Types, Homes, Places, Exists
  <2>3. Family' /\ Joins'
    BY <1>2, <2>1, SameFamily
  <2> QED BY <2>2, <2>3 DEF SchedInv
<1>4. CASE Inheritable(t)
  <2> DEFINE j == Joiner(t)
  <2>1. /\ state' = [u \in Thread |-> IF u = t THEN "ZOMBIE"
                                      ELSE IF WakesJoiner(t) /\ u = j THEN "READY" ELSE state[u]]
        /\ active_threads_table' = IF WakesJoiner(t)
                                   THEN EnlistData(active_threads_table, j, priority[j])
                                   ELSE active_threads_table
        /\ zombie_threads_table' = EnlistData(zombie_threads_table, t, 0)
        /\ children' = [children EXCEPT ![init] = Adopted(t), ![t] = <<>>]
        /\ pc' = [pc EXCEPT ![t] = "exit"]
        /\ fault' = fault
    BY <1>4 DEF ThreadExit
  <2>2. WakesJoiner(t) => j \in Thread /\ state[j] = "JOINING" /\ j # t
    BY <1>1 DEF WakesJoiner, Joiner, SchedInv, Types
  <2>3. \A u \in Thread : ~IsChild(u, t)
    <3> SUFFICES ASSUME NEW u \in Thread, IsChild(u, t) PROVE FALSE
      OBVIOUS
    <3>1. joining_thread[u] # NULL
      BY <1>4 DEF Inheritable, IsChild
    <3> DEFINE s == joining_thread[u]
    <3>2. Exists(u)
      BY DEF SchedInv, Family
    <3>3. s \in Thread /\ pc[s] \in JoinPoints /\ target[s] = u
      BY <3>1, <3>2 DEF SchedInv, Joins
    <3>4. u \in User /\ Claims(t, u)
      BY <1>1, <3>3 DEF SchedInv, Joins, Claims
    <3>5. s = t
      BY <3>3, <3>4, OneClaims
    <3> QED BY <1>1, <3>3, <3>5 DEF JoinPoints
  <2>4. /\ children[t] \in Table /\ Distinct(children[t]) /\ Nodes(children[t]) = {}
        /\ children[init] \in Table /\ Distinct(children[init])
    <3>1. children[t] \in Table /\ Distinct(children[t])
      BY DEF SchedInv, Types, Family
    <3>2. Nodes(children[t]) \subseteq Thread
      BY <3>1, TableFacts
    <3> QED BY <1>1, <2>3, <3>1, <3>2 DEF IsChild, SchedInv, Types, Family
  <2>5. /\ Adopted(t) \in Table /\ Distinct(Adopted(t))
        /\ Nodes(Adopted(t)) = Nodes(children[init])
    <3> DEFINE entries == [i \in DOMAIN children[t] |-> Entry(children[t][i].node, 0)]
    <3>1. children[t] = <<>>
      BY <2>4, NoNodes
    <3>2. entries = <<>>
      BY <3>1
    <3>3. Adopted(t) = EnlistAll(children[init], <<>>)
      BY <3>2 DEF Adopted
    <3>4. <<>> \in Table /\ Nodes(<<>>) = {} /\ Distinct(<<>>)
      BY EmptyTable
    <3>5. /\ EnlistAll(children[init], <<>>) \in Table
          /\ Nodes(EnlistAll(children[init], <<>>)) = Nodes(children[init]) \cup Nodes(<<>>)
          /\ Distinct(EnlistAll(children[init], <<>>))
      BY <2>4, <3>4, EnlistAllFacts
    <3> QED BY <3>3, <3>4, <3>5
  <2>6. /\ \A s \in Thread : state'[s] = IF s = t THEN "ZOMBIE"
                                         ELSE IF WakesJoiner(t) /\ s = j THEN "READY" ELSE state[s]
        /\ state' \in [Thread -> States]
        /\ \A s \in Thread : pc'[s] = IF s = t THEN "exit" ELSE pc[s]
        /\ pc' \in [Thread -> InitPoints \cup IdlePoints]
        /\ \A s \in Thread : Exists(s)' <=> Exists(s)
    <3>1. "exit" \in InitPoints \cup IdlePoints /\ {"ZOMBIE", "READY"} \subseteq States
      BY DEF InitPoints, UserPoints, States
    <3>2. \A s \in Thread : state'[s] = IF s = t THEN "ZOMBIE"
                                        ELSE IF WakesJoiner(t) /\ s = j THEN "READY" ELSE state[s]
      BY <2>1
    <3>3. state' \in [Thread -> States]
      BY <2>1, <3>1 DEF SchedInv, Types
    <3>4. /\ \A s \in Thread : pc'[s] = IF s = t THEN "exit" ELSE pc[s]
          /\ pc' \in [Thread -> InitPoints \cup IdlePoints]
      BY <2>1, <3>1 DEF SchedInv, Types
    <3>5. \A s \in Thread : Exists(s)' <=> Exists(s)
      BY <1>1, <2>2, <3>2 DEF Exists
    <3> QED BY <3>2, <3>3, <3>4, <3>5
  <2>7. /\ active_threads_table' \in Table /\ Distinct(active_threads_table')
        /\ \A s : s \in Nodes(active_threads_table') <=>
              s \in Nodes(active_threads_table) \/ (WakesJoiner(t) /\ s = j)
    <3>1. active_threads_table \in Table /\ Distinct(active_threads_table)
      BY DEF SchedInv, Types, Homes
    <3>2. CASE WakesJoiner(t)
      <4>1. j \in Thread /\ priority[j] \in 0 .. Word16 - 1
        <5>1. \A i \in 0 .. Lowest : i \in 0 .. Word16 - 1
          BY SchedulerAssumption
        <5> QED BY <2>2, <3>2, <5>1 DEF SchedInv, Types
      <4>2. j \notin Nodes(active_threads_table)
        BY <2>2, <3>2 DEF SchedInv, Homes
      <4>3. active_threads_table' = EnlistData(active_threads_table, j, priority[j])
        BY <2>1, <3>2
      <4> HIDE DEF j
      <4> QED BY <3>1, <3>2, <4>1, <4>2, <4>3, EnlistStep
    <3>3. CASE ~WakesJoiner(t)
      BY <2>1, <3>1, <3>3
    <3> QED BY <3>2, <3>3
  <2>8. /\ zombie_threads_table' \in Table /\ Distinct(zombie_threads_table')
        /\ Nodes(zombie_threads_table') = Nodes(zombie_threads_table) \cup {t}
    <3>1. /\ zombie_threads_table \in Table /\ Distinct(zombie_threads_table)
          /\ t \notin Nodes(zombie_threads_table) /\ 0 \in 0 .. Word16 - 1
      BY <1>1, SchedulerAssumption DEF SchedInv, Types, Homes
    <3> QED BY <2>1, <3>1, EnlistStep
  <2> HIDE DEF j
  <2>9. /\ children' \in [Thread -> Table]
        /\ \A p \in Thread : Distinct(children'[p])
        /\ \A x, p \in Thread : IsChild(x, p)' <=> IsChild(x, p)
    <3> DEFINE A == Adopted(t)
    <3>1. children' = [children EXCEPT ![init] = A, ![t] = <<>>] /\ children \in [Thread -> Table]
      BY <2>1 DEF SchedInv, Types
    <3>2. A \in Table /\ Distinct(A) /\ Nodes(A) = Nodes(children[init])
      BY <2>5
    <3> HIDE DEF A
    <3>3. \A p \in Thread : children'[p] = IF p = t THEN <<>> ELSE IF p = init THEN A ELSE children[p]
      BY <1>1, <3>1
    <3>4. children' \in [Thread -> Table]
      BY <3>1, <3>2, EmptyTable
    <3>5. \A p \in Thread : Distinct(children'[p])
      BY <3>2, <3>3, EmptyTable DEF SchedInv, Family
    <3>6. \A p \in Thread : Nodes(children'[p]) = Nodes(children[p])
      BY <2>4, <3>2, <3>3, EmptyTable
    <3> QED BY <3>4, <3>5, <3>6 DEF IsChild
  <2>10. Types'
    BY <1>2, <2>1, <2>6, <2>7, <2>8, <2>9 DEF SchedInv, Types
  <2>11. Homes'
    <3>1. ASSUME NEW s \in Thread
          PROVE  /\ s \in Nodes(active_threads_table') <=> state'[s] = "READY"
                 /\ s \in Nodes(sleeping_threads_table') <=> state'[s] = "SLEEPING" /\ s # active_thread'
                 /\ s \in Nodes(zombie_threads_table') <=> state'[s] = "ZOMBIE" /\ s # init
                 /\ state'[s] = "RUNNING" => s = active_thread'
      <4>1. /\ s \in Nodes(active_threads_table) <=> state[s] = "READY"
            /\ s \in Nodes(sleeping_threads_table) <=> state[s] = "SLEEPING" /\ s # active_thread
            /\ s \in Nodes(zombie_threads_table) <=> state[s] = "ZOMBIE" /\ s # init
            /\ state[s] = "RUNNING" => s = active_thread
        BY DEF SchedInv, Homes
      <4> QED BY <1>1, <1>2, <2>2, <2>6, <2>7, <2>8, <4>1
    <3>2. Exists(active_thread)'
      BY <1>1, <1>2, <2>6 DEF Exists
    <3>3. Distinct(sleeping_threads_table')
      BY <1>2 DEF SchedInv, Homes
    <3> QED BY <2>7, <2>8, <3>1, <3>2, <3>3 DEF Homes
  <2>12. Places'
    <3>1. \A s \in Thread : MayStandAt(s, pc'[s])
      BY <1>1, <2>6, Points DEF MayStandAt, UserPoints
    <3>2. ASSUME NEW s \in Thread
          PROVE  /\ pc'[s] = "exit" <=> state'[s] \in {"ZOMBIE", "FREED"}
                 /\ state'[s] = "JOINING" => pc'[s] \in JoinPoints
                 /\ state'[s] \in {"SLEEPING", "BLOCKED"} => pc'[s] \in {"resched", "run"}
                 /\ state'[s] = "UNUSED" => pc'[s] = "run"
      <4>1. /\ pc[s] = "exit" <=> state[s] \in {"ZOMBIE", "FREED"}
            /\ state[s] = "JOINING" => pc[s] \in JoinPoints
            /\ state[s] \in {"SLEEPING", "BLOCKED"} => pc[s] \in {"resched", "run"}
            /\ state[s] = "UNUSED" => pc[s] = "run"
        BY DEF SchedInv, Places
      <4> QED BY <2>2, <2>6, <4>1
    <3>3. active_thread' = t /\ state'[t] = "ZOMBIE"
      BY <1>1, <1>2, <2>6
    <3> QED BY <3>1, <3>2, <3>3, Points DEF Places, MayStandAt
  <2>13. \A s \in Thread : /\ pc'[s] \in JoinPoints <=> pc[s] \in JoinPoints
                           /\ pc'[s] \in {"join", "clean"} <=> pc[s] \in {"join", "clean"}
                           /\ pc'[s] \in DrainPoints <=> pc[s] \in DrainPoints
    BY <1>1, <2>6 DEF JoinPoints, DrainPoints
  <2>14. Family'
    <3>1. {s \in Thread : Exists(s)'} = {s \in Thread : Exists(s)}
      BY <2>6
    <3>2. /\ global_threads_table' = {s \in Thread : Exists(s)'}
          /\ IsFiniteSet(global_threads_table')
          /\ thread_count' = Cardinality(global_threads_table')
      BY <1>2, <3>1 DEF SchedInv, Family
    <3>3. ASSUME NEW x \in Thread, NEW p \in Thread, IsChild(x, p)'
          PROVE  /\ Exists(x)' /\ Exists(p)' /\ x # p
                 /\ p \in User => state'[p] # "ZOMBIE"
                 /\ x \in User \/ (x = init /\ p = idle)
      <4>1. IsChild(x, p) /\ p # t
        BY <2>3, <2>9, <3>3
      <4>2. /\ Exists(x) /\ Exists(p) /\ x # p
            /\ p \in User => state[p] # "ZOMBIE"
            /\ x \in User \/ (x = init /\ p = idle)
        BY <4>1 DEF SchedInv, Family
      <4> QED BY <2>6, <4>1, <4>2
    <3>4. \A x, p, q \in Thread : IsChild(x, p)' /\ IsChild(x, q)' => p = q
      BY <2>9 DEF SchedInv, Family
    <3>5. \A x \in User : Drained(x)' <=> Drained(x)
      BY <1>1, <1>2, <2>13 DEF Drained
    <3>6. \A x \in User : Exists(x)' /\ ~Drained(x)' => \E p \in Thread : IsChild(x, p)'
      BY <2>6, <2>9, <3>5, Points DEF SchedInv, Family
    <3> QED BY <2>9, <3>2, <3>3, <3>4, <3>6 DEF Family
  <2>15. Joins'
    <3>1. ASSUME NEW x \in Thread, joining_thread[x] # NULL
          PROVE  /\ state'[x] # "UNUSED"
                 /\ Exists(x)' => /\ joining_thread[x] \in Thread
                                  /\ pc'[joining_thread[x]] \in JoinPoints
                                  /\ target[joining_thread[x]] = x
      <4>1. /\ state[x] # "UNUSED"
            /\ Exists(x) => /\ joining_thread[x] \in Thread
                            /\ pc[joining_thread[x]] \in JoinPoints
                            /\ target[joining_thread[x]] = x
        BY <3>1 DEF SchedInv, Joins
      <4> QED BY <2>6, <2>13, <4>1
    <3>2. ASSUME NEW s \in Thread, pc'[s] \in JoinPoints
          PROVE  /\ target[s] \in User /\ joining_thread[target[s]] = s /\ Exists(target[s])'
                 /\ state'[s] = "JOINING" <=> state'[target[s]] # "ZOMBIE"
                 /\ pc'[s] \in {"join", "clean"} => IsChild(target[s], s)'
      <4> DEFINE x == target[s]
      <4>1. /\ x \in User /\ joining_thread[x] = s /\ Exists(x)
            /\ state[s] = "JOINING" <=> state[x] # "ZOMBIE"
            /\ pc[s] \in {"join", "clean"} => IsChild(x, s)
        BY <2>13, <3>2 DEF SchedInv, Joins
      <4>2. x \in Thread /\ s # t
        BY <1>1, <2>13, <3>2, <4>1, Points DEF JoinPoints
      <4>3. Exists(target[s])'
        <5>1. state'[x] \notin {"UNUSED", "FREED"}
          BY <2>6, <4>1, <4>2 DEF Exists
        <5> QED BY <1>2, <5>1 DEF Exists
      <4>4. pc'[s] \in {"join", "clean"} => IsChild(target[s], s)'
        <5>1. IsChild(x, s) => x \in Nodes(children'[s])
          BY <2>9, <4>2 DEF IsChild
        <5> QED BY <1>2, <2>13, <4>1, <5>1 DEF IsChild
      <4>5. state'[s] = "JOINING" <=> state'[x] # "ZOMBIE"
        <5>1. CASE x = t
          <6>1. j = s /\ state[s] = "JOINING" /\ WakesJoiner(t)
            BY <1>1, <4>1, <5>1, SchedulerAssumption DEF j, WakesJoiner, Joiner
          <6> QED BY <2>6, <4>2, <5>1, <6>1
        <5>2. CASE x # t
          <6>1. ~(WakesJoiner(t) /\ s = j)
            <7>1. Exists(t)
              BY <1>1 DEF Exists
            <7>2. joining_thread[t] # NULL => target[joining_thread[t]] = t
              BY <7>1 DEF SchedInv, Joins
            <7> QED BY <5>2, <7>2 DEF j, WakesJoiner, Joiner
          <6>2. state'[s] = state[s]
            BY <2>6, <4>2, <6>1
          <6>3. state'[x] = "ZOMBIE" <=> state[x] = "ZOMBIE"
            BY <2>2, <2>6, <4>2, <5>2
          <6> QED BY <4>1, <6>2, <6>3
        <5> QED BY <5>1, <5>2
      <4> QED BY <4>1, <4>3, <4>4, <4>5
    <3>3. ASSUME pc'[init] \in DrainPoints
          PROVE  /\ target[init] \in User /\ Exists(target[init])'
                 /\ \A q \in Thread : ~IsChild(target[init], q)'
      <4> DEFINE x == target[init]
      <4>1. x \in User /\ Exists(x) /\ \A q \in Thread : ~IsChild(x, q)
        BY <1>1, <2>13, <3>3 DEF SchedInv, Joins
      <4>2. x \in Thread
        BY <4>1, Points
      <4>3. Exists(target[init])'
        <5>1. state'[x] \notin {"UNUSED", "FREED"}
          BY <2>6, <4>1, <4>2 DEF Exists
        <5> QED BY <1>2, <5>1 DEF Exists
      <4>4. \A q \in Thread : x \notin Nodes(children'[q])
        BY <2>9, <4>1, <4>2 DEF IsChild
      <4> QED BY <1>2, <4>1, <4>3, <4>4 DEF IsChild
    <3> QED BY <1>2, <3>1, <3>2, <3>3 DEF Joins
  <2> QED BY <2>10, <2>11, <2>12, <2>14, <2>15 DEF SchedInv
<1> QED BY <1>3, <1>4
\* init takes a child off its list.
LEMMA DrainTakesKeeps ==
    ASSUME SchedInv, active_thread = init, pc[init] \in {"drain", "drain_more"},
           children[init] # <<>>,
           target' = [target EXCEPT ![init] = DelistedNode(children[init])],
           children' = [children EXCEPT ![init] = DelistData(@)],
           pc' = [pc EXCEPT ![init] = "drain_wait"],
           UNCHANGED <<state, priority, last_sched, wakeup_time, joining_thread, tables,
                       active_thread, thread_count, first_schedule, system_state, uptime, fault>>
    PROVE  SchedInv'
<1> USE DEF tables
<1> DEFINE u == DelistedNode(children[init])
           left == DelistData(children[init])
<1>1. /\ init \in Thread /\ state[init] = "RUNNING"
      /\ pc[init] \notin JoinPoints \cup DrainPoints
  BY ActiveRuns, Points DEF RunPoints, JoinPoints, DrainPoints
<1>2. /\ children[init] \in Table /\ Distinct(children[init])
      /\ Nodes(children[init]) \subseteq Thread
  BY <1>1, TableFacts DEF SchedInv, Types, Family
<1>3. /\ left \in Table /\ Distinct(left) /\ u \in Nodes(children[init])
      /\ Nodes(left) = Nodes(children[init]) \ {u}
  BY <1>2, DelistStep
<1>4. target' = [target EXCEPT ![init] = u] /\ children' = [children EXCEPT ![init] = left]
  OBVIOUS
<1> HIDE DEF u, left
<1>5. u \in User /\ u \in Thread /\ Exists(u) /\ IsChild(u, init)
  <2>1. u \in Thread /\ IsChild(u, init)
    BY <1>2, <1>3 DEF IsChild
  <2> QED BY <1>1, <2>1, Points DEF SchedInv, Family
<1>6. /\ \A s \in Thread : pc'[s] = IF s = init THEN "drain_wait" ELSE pc[s]
      /\ pc' \in [Thread -> InitPoints \cup IdlePoints]
      /\ \A s \in Thread : target'[s] = IF s = init THEN u ELSE target[s]
      /\ target' \in [Thread -> Thread \cup {NULL}]
  BY <1>1, <1>4, <1>5 DEF SchedInv, Types, InitPoints, DrainPoints
<1>7. /\ children' \in [Thread -> Table]
      /\ \A p \in Thread : Distinct(children'[p])
      /\ \A x, p \in Thread : IsChild(x, p)' <=> IsChild(x, p) /\ ~(x = u /\ p = init)
  <2>1. \A p \in Thread : children'[p] = IF p = init THEN left ELSE children[p]
    BY <1>4 DEF SchedInv, Types
  <2> QED BY <1>3, <1>4, <2>1 DEF SchedInv, Types, Family, IsChild
<1>8. Types'
  BY <1>6, <1>7 DEF SchedInv, Types
<1>9. Homes'
  BY DEF SchedInv, Homes, Exists
<1>10. Places'
  <2>1. \A s \in Thread : MayStandAt(s, pc'[s])
    BY <1>6, Points DEF MayStandAt, InitPoints, DrainPoints
  <2>2. \A s \in Thread :
          /\ pc'[s] = "exit" <=> state[s] \in {"ZOMBIE", "FREED"}
          /\ state[s] = "JOINING" => pc'[s] \in JoinPoints
          /\ state[s] \in {"SLEEPING", "BLOCKED"} => pc'[s] \in {"resched", "run"}
          /\ state[s] = "UNUSED" => pc'[s] = "run"
    BY <1>1, <1>6 DEF SchedInv, Places
  <2> QED BY <1>1, <2>1, <2>2, Points DEF Places, MayStandAt
<1>11. Family'
  <2>1. \A s \in Thread : Exists(s)' <=> Exists(s)
    BY DEF Exists
  <2>2. {s \in Thread : Exists(s)'} = {s \in Thread : Exists(s)}
    BY <2>1
  <2>3. /\ global_threads_table' = {s \in Thread : Exists(s)'}
        /\ IsFiniteSet(global_threads_table')
        /\ thread_count' = Cardinality(global_threads_table')
    BY <2>2 DEF SchedInv, Family
  <2>4. ASSUME NEW x \in Thread, NEW p \in Thread, IsChild(x, p)'
        PROVE  /\ Exists(x)' /\ Exists(p)' /\ x # p
               /\ p \in User => state'[p] # "ZOMBIE"
               /\ x \in User \/ (x = init /\ p = idle)
    <3>1. /\ Exists(x) /\ Exists(p) /\ x # p
          /\ p \in User => state[p] # "ZOMBIE"
          /\ x \in User \/ (x = init /\ p = idle)
      BY <1>7, <2>4 DEF SchedInv, Family
    <3> QED BY <2>1, <3>1
  <2>5. \A x, p, q \in Thread : IsChild(x, p)' /\ IsChild(x, q)' => p = q
    BY <1>7 DEF SchedInv, Family
  <2>6. ASSUME NEW x \in User, Exists(x)', ~Drained(x)' PROVE \E p \in Thread : IsChild(x, p)'
    <3>1. x # u
      BY <1>1, <1>6, <2>6 DEF Drained, DrainPoints
    <3>2. x \in Thread /\ Exists(x) /\ ~Drained(x)
      BY <1>1, <2>1, <2>6, Points DEF Drained
    <3>3. PICK p \in Thread : IsChild(x, p)
      BY <3>2 DEF SchedInv, Family
    <3> QED BY <1>7, <3>1, <3>2, <3>3
  <2> QED BY <1>7, <2>3, <2>4, <2>5, <2>6 DEF Family
<1>12. Joins'
  <2>1. ASSUME NEW x \in Thread, joining_thread[x] # NULL
        PROVE  /\ state[x] # "UNUSED"
               /\ Exists(x)' => /\ joining_thread[x] \in Thread
                                /\ pc'[joining_thread[x]] \in JoinPoints
                                /\ target'[joining_thread[x]] = x
    <3>1. /\ state[x] # "UNUSED"
          /\ Exists(x) => /\ joining_thread[x] \in Thread
                          /\ pc[joining_thread[x]] \in JoinPoints
                          /\ target[joining_thread[x]] = x
      BY <2>1 DEF SchedInv, Joins
    <3>2. Exists(x)' <=> Exists(x)
      BY DEF Exists
    <3> QED BY <1>1, <1>6, <3>1, <3>2
  <2>2. ASSUME NEW s \in Thread, pc'[s] \in JoinPoints
        PROVE  /\ target'[s] \in User /\ joining_thread[target'[s]] = s /\ Exists(target[s])'
               /\ state[s] = "JOINING" <=> state[target'[s]] # "ZOMBIE"
               /\ pc'[s] \in {"join", "clean"} => IsChild(target[s], s)'
    <3> DEFINE x == target[s]
    <3>1. s # init /\ pc'[s] = pc[s] /\ target'[s] = x
      BY <1>6, <2>2 DEF JoinPoints
    <3>2. /\ x \in User /\ joining_thread[x] = s /\ Exists(x)
          /\ state[s] = "JOINING" <=> state[x] # "ZOMBIE"
          /\ pc[s] \in {"join", "clean"} => IsChild(x, s)
      BY <2>2, <3>1 DEF SchedInv, Joins
    <3>3. Exists(target[s])'
      BY <3>1, <3>2 DEF Exists
    <3>4. pc'[s] \in {"join", "clean"} => IsChild(target[s], s)'
      <4>1. IsChild(x, s) => x \in Nodes(children'[s])
        BY <1>7, <3>1, <3>2, Points DEF IsChild
      <4> QED BY <3>1, <3>2, <4>1 DEF IsChild
    <3> QED BY <3>1, <3>2, <3>3, <3>4
  <2>3. /\ target'[init] \in User /\ Exists(target[init])'
        /\ \A q \in Thread : ~IsChild(target[init], q)'
    <3>1. target'[init] = u
      BY <1>1, <1>6
    <3>2. Exists(target[init])'
      BY <1>5, <3>1 DEF Exists
    <3>3. \A q \in Thread : IsChild(u, q) => q = init
      BY <1>1, <1>5 DEF SchedInv, Family
    <3>4. \A q \in Thread : u \notin Nodes(children'[q])
      BY <1>5, <1>7, <3>3 DEF IsChild
    <3> QED BY <1>5, <3>1, <3>2, <3>4 DEF IsChild
  <2> QED BY <2>1, <2>2, <2>3 DEF Joins
<1> QED BY <1>8, <1>9, <1>10, <1>11, <1>12 DEF SchedInv

LEMMA DrainKeeps == ASSUME SchedInv, Drain PROVE SchedInv'
<1>1. active_thread = init /\ pc[init] \in {"drain", "drain_more"}
  BY DEF Drain, Runs
<1>2. /\ init \in Thread /\ init # idle /\ init \notin User
      /\ pc[init] \in RunPoints \ JoinPoints /\ pc[init] \notin DrainPoints
  BY <1>1, Points DEF RunPoints, JoinPoints, DrainPoints
<1>3. UNCHANGED <<state, priority, last_sched, wakeup_time, joining_thread, tables,
                  active_thread, thread_count, first_schedule, uptime, fault>>
  BY DEF Drain
<1>4. CASE /\ children[init] # <<>>
           /\ target' = [target EXCEPT ![init] = DelistedNode(children[init])]
           /\ children' = [children EXCEPT ![init] = DelistData(@)]
           /\ pc' = [pc EXCEPT ![init] = "drain_wait"]
           /\ UNCHANGED system_state
  BY <1>1, <1>3, <1>4, DrainTakesKeeps
<1>5. ASSUME NEW p \in {"spin", "return"}, pc' = [pc EXCEPT ![init] = p],
             system_state' \in {"ALIVE", "HALTED"}, UNCHANGED <<target, children>>
      PROVE  SchedInv'
  <2>1. p \in RunPoints \ JoinPoints /\ p \notin DrainPoints /\ MayStandAt(init, p)
    BY <1>2 DEF RunPoints, JoinPoints, DrainPoints, MayStandAt, InitPoints
  <2>2. wakeup_time' \in [Thread -> Nat]
    BY <1>3 DEF SchedInv, Types
  <2> QED BY <1>1, <1>2, <1>3, <1>5, <2>1, <2>2, ActiveGoesOn
<1>6. CASE /\ pc' = [pc EXCEPT ![init] = "spin"]
           /\ UNCHANGED <<target, children, system_state>>
  <2>1. system_state' \in {"ALIVE", "HALTED"}
    BY <1>6 DEF SchedInv, Types
  <2> QED BY <1>5, <1>6, <2>1
<1>7. CASE /\ system_state' = "HALTED" /\ pc' = [pc EXCEPT ![init] = "return"]
           /\ UNCHANGED <<target, children>>
  BY <1>5, <1>7
<1> QED BY <1>4, <1>6, <1>7 DEF Drain

\* wait_thread, called by a program or by init_func.
LEMMA WaitKeeps ==
    ASSUME SchedInv, NEW t \in Thread, NEW u \in User, t = active_thread,
           NEW joined \in {"run", "drain_more"}, NEW joining \in {"join", "drain_join"},
           Wait(t, u, joined, joining),
           \/ /\ pc[t] = "run" /\ IsChild(u, t) /\ joined = "run" /\ joining = "join"
           \/ /\ t = init /\ pc[t] = "drain_wait" /\ target[t] = u
              /\ joined = "drain_more" /\ joining = "drain_join"
    PROVE  SchedInv'
<1>1. Claims(t, u)
  BY DEF Claims
<1>2. Exists(u)
  BY <1>1, OneClaims
<1>3. MayStandAt(t, joined) /\ MayStandAt(t, joining)
  <2>1. MayStandAt(t, pc[t])
    BY Points
  <2> QED BY <2>1, Points DEF MayStandAt, IdlePoints, UserPoints, InitPoints, DrainPoints
<1>4. CASE state[u] = "ZOMBIE"
  <2>1. Clean(t, u) /\ pc' = [pc EXCEPT ![t] = joined] /\ target' = [target EXCEPT ![t] = NULL]
        /\ UNCHANGED <<priority, last_sched, wakeup_time, joining_thread,
                       active_threads_table, sleeping_threads_table, active_thread,
                       first_schedule, system_state, uptime>>
    BY <1>4 DEF Wait
  <2> QED BY <1>1, <1>3, <1>4, <2>1, CleanKeeps
<1>5. CASE state[u] # "ZOMBIE"
  <2>1. /\ state[u] \notin {"ZOMBIE", "FREED"}
        /\ joining_thread' = [joining_thread EXCEPT ![u] = t]
        /\ state' = [state EXCEPT ![t] = "JOINING"]
        /\ pc' = [pc EXCEPT ![t] = joining] /\ target' = [target EXCEPT ![t] = u]
        /\ UNCHANGED <<priority, last_sched, wakeup_time, children, tables,
                       active_thread, thread_count, first_schedule, system_state,
                       uptime, fault>>
    BY <1>2, <1>5 DEF Wait, Exists, tables
  <2> QED BY <1>1, <1>3, <2>1, JoinKeeps
<1> QED BY <1>4, <1>5

LEMMA FinishWaitKeeps == ASSUME SchedInv, NEW t \in Thread, FinishWait(t) PROVE SchedInv'
<1>1. PICK point \in {"clean", "drain_clean"} :
          /\ Runs(t, point)
          /\ pc' = [pc EXCEPT ![t] = IF point = "clean" THEN "run" ELSE "drain_more"]
  BY DEF FinishWait
<1>2. t = active_thread /\ pc[t] \in {"clean", "drain_clean"} /\ pc[t] = point
  BY <1>1 DEF Runs
<1> DEFINE u == target[t]
           p == IF point = "clean" THEN "run" ELSE "drain_more"
<1>3. /\ u \in User /\ Exists(u) /\ state[u] = "ZOMBIE" /\ Claims(t, u)
  <2>1. state[t] = "RUNNING"
    BY <1>2, ActiveRuns DEF RunPoints
  <2>2. u \in User /\ Exists(u) /\ (state[t] = "JOINING" <=> state[u] # "ZOMBIE")
    BY <1>2 DEF SchedInv, Joins, JoinPoints
  <2> QED BY <1>2, <2>1, <2>2 DEF Claims
<1>4. MayStandAt(t, p) /\ p \in {"run", "drain_more"}
  <2>1. MayStandAt(t, pc[t])
    BY Points
  <2> QED BY <1>2, <2>1, Points DEF MayStandAt, IdlePoints, UserPoints, InitPoints, DrainPoints
<1>5. /\ Clean(t, u) /\ target' = [target EXCEPT ![t] = NULL] /\ pc' = [pc EXCEPT ![t] = p]
      /\ UNCHANGED <<priority, last_sched, wakeup_time, joining_thread,
                     active_threads_table, sleeping_threads_table, active_thread,
                     first_schedule, system_state, uptime>>
  BY <1>1, <1>3 DEF FinishWait
<1> HIDE DEF u, p
<1> QED BY <1>2, <1>3, <1>4, <1>5, CleanKeeps-----------------------------------------------------------------------------
(* The invariant holds                                                     *)

LEMMA InitHolds == Init => SchedInv
<1> SUFFICES ASSUME Init PROVE SchedInv
  OBVIOUS
<1>1. /\ idle \in Thread /\ init \in Thread /\ User \subseteq Thread /\ NULL \notin Thread
      /\ idle # init /\ idle \notin User /\ init \notin User
      /\ InitPrio \in [Thread -> 0 .. Lowest] /\ AgingTicks \in Nat
      /\ {"RUNNING", "UNUSED"} \subseteq States
  BY SchedulerAssumption DEF Thread, States
<1>2. <<>> \in Table /\ Nodes(<<>>) = {} /\ Distinct(<<>>)
  BY EmptyTable
<1>3. /\ \A t \in Thread : state[t] = IF t = idle THEN "RUNNING" ELSE "UNUSED"
      /\ \A t \in Thread : pc[t] = IF t = idle THEN "boot" ELSE "run"
      /\ \A t \in Thread : joining_thread[t] = NULL /\ children[t] = <<>>
  BY DEF Init
<1>4. Types
  <2>1. "boot" \in IdlePoints /\ "run" \in InitPoints
    BY DEF IdlePoints, InitPoints, UserPoints
  <2>2. 0 \in 0 .. AgingTicks
    BY <1>1
  <2> QED BY <1>1, <1>2, <2>1, <2>2 DEF Init, Types
<1>5. Homes
  BY <1>1, <1>2, <1>3 DEF Init, Homes, Exists
<1>6. Places
  BY <1>1, <1>3 DEF Init, Places, UserPoints, InitPoints, IdlePoints
<1>7. Family
  <2>1. \A t \in Thread : Exists(t) <=> t = idle
    BY <1>3 DEF Exists
  <2>2. global_threads_table = {t \in Thread : Exists(t)}
    BY <1>1, <2>1 DEF Init
  <2>3. IsFiniteSet(global_threads_table) /\ thread_count = Cardinality(global_threads_table)
    BY FS_Singleton DEF Init
  <2>4. \A u, p \in Thread : ~IsChild(u, p)
    BY <1>2, <1>3 DEF IsChild
  <2>5. \A u \in User : ~Exists(u)
    BY <1>1, <2>1
  <2> QED BY <1>2, <1>3, <2>2, <2>3, <2>4, <2>5 DEF Family
<1>8. Joins
  BY <1>1, <1>3 DEF Joins, JoinPoints, DrainPoints
<1> QED BY <1>4, <1>5, <1>6, <1>7, <1>8 DEF SchedInv

LEMMA StutterKeeps == ASSUME SchedInv, UNCHANGED vars PROVE SchedInv'
<1>1. /\ UNCHANGED <<state, priority, last_sched, wakeup_time, joining_thread, children>>
      /\ UNCHANGED <<active_threads_table, sleeping_threads_table, zombie_threads_table,
                     global_threads_table>>
      /\ UNCHANGED <<active_thread, thread_count, first_schedule, system_state, uptime,
                     pc, target, fault>>
  BY DEF vars, fields, tables
<1>2. Types' /\ Homes' /\ Places'
  BY <1>1 DEF SchedInv, Types, Homes, Places, Exists
<1>3. Family' /\ Joins'
  BY <1>1, SameFamily
<1> QED BY <1>2, <1>3 DEF SchedInv

LEMMA KernelKeeps == ASSUME SchedInv, Kernel PROVE SchedInv'
<1>1. ASSUME NEW t \in Thread, FinishWait(t) PROVE SchedInv'
  BY <1>1, FinishWaitKeeps
<1>2. ASSUME NEW t \in Thread, FallAsleep(t) PROVE SchedInv'
  <2>1. t = active_thread /\ pc[t] = "alarm"
    BY <1>2 DEF FallAsleep, Runs
  <2> QED BY <1>2, <2>1, ActiveStops DEF FallAsleep
<1>3. CASE Schedule
  <2>1. /\ ScheduleInt(FALSE) /\ uptime' \in Nat
        /\ ~first_schedule \/ pc[active_thread] \in DOMAIN Resumption
        /\ pc' = IF first_schedule
                 THEN [pc EXCEPT ![active_thread] = Resumption[@]] ELSE pc
    BY <1>3 DEF Schedule, SchedInv, Types
  <2> QED BY <2>1, PassKeeps DEF SchedInv, Types
<1>4. CASE IdleBoot
  <2>1. /\ idle = active_thread /\ pc[idle] = "boot" /\ NewThread(idle, init)
        /\ pc' = [pc EXCEPT ![idle] = "hlt"]
    BY <1>4 DEF IdleBoot, Runs
  <2> QED BY <2>1, Points, NewThreadKeeps DEF RunPoints
<1>5. CASE IdleOff
  <2>1. /\ idle = active_thread /\ pc[idle] = "hlt" /\ pc' = [pc EXCEPT ![idle] = "off"]
        /\ UNCHANGED <<fields, tables, active_thread, thread_count,
                       first_schedule, system_state, uptime, target, fault>>
    BY <1>5 DEF IdleOff, Runs
  <2>2. MayStandAt(idle, "off")
    BY Points DEF MayStandAt, IdlePoints
  <2>3. /\ "off" \in RunPoints \ JoinPoints /\ "hlt" \in RunPoints \ JoinPoints
        /\ "off" \notin DrainPoints /\ "hlt" \notin DrainPoints
    BY DEF RunPoints, JoinPoints, DrainPoints
  <2>4. wakeup_time' \in [Thread -> Nat] /\ system_state' \in {"ALIVE", "HALTED"}
    BY <2>1 DEF fields, SchedInv, Types
  <2> QED BY <2>1, <2>2, <2>3, <2>4, ActiveGoesOn DEF fields
<1>6. CASE Drain
  BY <1>6, DrainKeeps
<1>7. CASE DrainWait
  <2>1. /\ init = active_thread /\ pc[init] = "drain_wait"
        /\ Wait(init, target[init], "drain_more", "drain_join")
    BY <1>7 DEF DrainWait, Runs
  <2>2. target[init] \in User
    BY <2>1 DEF SchedInv, Joins, DrainPoints
  <2> QED BY <2>1, <2>2, Points, WaitKeeps
<1>8. CASE InitExit
  BY <1>8, InitExitKeeps
<1> QED BY <1>1, <1>2, <1>3, <1>4, <1>5, <1>6, <1>7, <1>8 DEF Kernel

LEMMA ProgramKeeps == ASSUME ChildrenOnly, SchedInv, Program PROVE SchedInv'
<1> USE DEF MayCall, Runs
<1>1. ASSUME NEW t \in Thread, NEW u \in User, CreateThread(t, u) PROVE SchedInv'
  BY <1>1, Points, NewThreadKeeps DEF CreateThread, RunPoints
<1>2. ASSUME NEW t \in Thread, NEW u \in User, WaitThread(t, u) PROVE SchedInv'
  <2>1. t = active_thread /\ pc[t] = "run" /\ IsChild(u, t) /\ Wait(t, u, "run", "join")
    BY <1>2 DEF WaitThread, MayJoin, IsChild
  <2> QED BY <2>1, WaitKeeps
<1>3. ASSUME NEW t \in Thread, NEW u \in Thread, NEW do_schedule \in BOOLEAN,
             UnlockThread(t, u, do_schedule)
      PROVE  SchedInv'
  BY <1>3, UnlockKeeps DEF UnlockThread
<1>4. ASSUME NEW t \in Thread, NEW ms \in SleepMs, Sleep(t, ms) PROVE SchedInv'
  <2>1. /\ t = active_thread /\ pc[t] = "run" /\ pc' = [pc EXCEPT ![t] = "alarm"]
        /\ wakeup_time' = [wakeup_time EXCEPT ![t] = uptime + ms]
        /\ UNCHANGED <<state, priority, last_sched, joining_thread, children, tables,
                       active_thread, thread_count, first_schedule, system_state,
                       uptime, target, fault>>
    BY <1>4 DEF Sleep
  <2>2. MayStandAt(t, "alarm")
    <3>1. MayStandAt(t, "run")
      BY <2>1, Points
    <3> QED BY <3>1 DEF MayStandAt, IdlePoints, UserPoints, InitPoints
  <2>3. /\ "alarm" \in RunPoints \ JoinPoints /\ "run" \in RunPoints \ JoinPoints
        /\ "alarm" \notin DrainPoints /\ "run" \notin DrainPoints
    BY DEF RunPoints, JoinPoints, DrainPoints
  <2>4. wakeup_time' \in [Thread -> Nat] /\ system_state' \in {"ALIVE", "HALTED"}
    <3>1. uptime + ms \in Nat
      BY SchedulerAssumption DEF SchedInv, Types
    <3> QED BY <2>1, <3>1 DEF SchedInv, Types
  <2> QED BY <2>1, <2>2, <2>3, <2>4, ActiveGoesOn
<1>5. ASSUME NEW t \in Thread, LockThread(t) PROVE SchedInv'
  <2>1. t = active_thread /\ pc[t] = "run"
    BY <1>5 DEF LockThread
  <2> QED BY <1>5, <2>1, ActiveStops DEF LockThread
<1>6. ASSUME NEW t \in Thread, ThreadExit(t) PROVE SchedInv'
  BY <1>6, ThreadExitKeeps
<1> QED BY <1>1, <1>2, <1>3, <1>4, <1>5, <1>6 DEF Program

LEMMA StepKeeps == ASSUME ChildrenOnly, SchedInv, [Next]_vars PROVE SchedInv'
<1>1. CASE TimerInt
  <2>1. uptime' \in Nat
    BY <1>1, SchedulerAssumption DEF TimerInt, SchedInv, Types
  <2> QED BY <1>1, <2>1, PassKeeps DEF TimerInt
<1>2. ASSUME NEW u \in Thread, IrqUnlock(u) PROVE SchedInv'
  BY <1>2, UnlockKeeps DEF IrqUnlock
<1>3. CASE MainReturns
  <2>1. /\ init = active_thread /\ pc[init] = "run" /\ pc' = [pc EXCEPT ![init] = "drain"]
        /\ UNCHANGED <<fields, tables, active_thread, thread_count,
                       first_schedule, system_state, uptime, target, fault>>
    BY <1>3 DEF MainReturns, Runs
  <2>2. MayStandAt(init, "drain")
    BY Points DEF MayStandAt, InitPoints
  <2>3. /\ "drain" \in RunPoints \ JoinPoints /\ "run" \in RunPoints \ JoinPoints
        /\ "drain" \notin DrainPoints /\ "run" \notin DrainPoints
    BY DEF RunPoints, JoinPoints, DrainPoints
  <2>4. wakeup_time' \in [Thread -> Nat] /\ system_state' \in {"ALIVE", "HALTED"}
    BY <2>1 DEF fields, SchedInv, Types
  <2> QED BY <2>1, <2>2, <2>3, <2>4, ActiveGoesOn DEF fields
<1>4. CASE Stopped \/ UNCHANGED vars
  BY <1>4, StutterKeeps DEF Stopped
<1> QED BY <1>1, <1>2, <1>3, <1>4, KernelKeeps, ProgramKeeps DEF Next

LEMMA Invariance == ASSUME ChildrenOnly PROVE Spec => []SchedInv
<1>1. SchedInv /\ [Next]_vars => SchedInv'
  BY StepKeeps
<1> QED BY <1>1, InitHolds, PTL DEF Spec
\* Programs that join only the threads they have created keep the kernel's
\* structures as they should be, whatever the number of threads, the priorities
\* and the delays, and whenever the timer and the handlers interrupt.
THEOREM TypesHold == ASSUME ChildrenOnly PROVE Spec => []TypeOK
<1>1. SchedInv => TypeOK
  <2> SUFFICES ASSUME SchedInv PROVE TypeOK
    OBVIOUS
  <2>1. ASSUME NEW table \in Table
        PROVE  \A i \in DOMAIN table : table[i].node \in Thread /\ table[i].priority \in 0 .. Word16 - 1
    BY TableFacts
  <2>2. \A table \in {active_threads_table, sleeping_threads_table, zombie_threads_table}
                     \cup {children[t] : t \in Thread} : table \in Table
    BY DEF SchedInv, Types
  <2>3. thread_count \in Nat
    BY FS_CardinalityType DEF SchedInv, Family
  <2> QED BY <2>1, <2>2, <2>3 DEF SchedInv, Types, TypeOK
<1> QED BY <1>1, Invariance, PTL

\* Each thread is in the one table its state names, and only the active thread
\* runs.
THEOREM EachHasOneHome == ASSUME ChildrenOnly PROVE Spec => []OneHome
<1>1. SchedInv => OneHome
  <2> SUFFICES ASSUME SchedInv PROVE OneHome
    OBVIOUS
  <2>1. /\ Nodes(active_threads_table) \subseteq Thread
        /\ Nodes(sleeping_threads_table) \subseteq Thread
        /\ Nodes(zombie_threads_table) \subseteq Thread
    BY TableFacts DEF SchedInv, Types
  <2>2. Nodes(active_threads_table) = {t \in Thread : state[t] = "READY"}
    BY <2>1 DEF SchedInv, Homes
  <2>3. Nodes(sleeping_threads_table) = {t \in Thread : state[t] = "SLEEPING"} \ {active_thread}
    BY <2>1 DEF SchedInv, Homes
  <2>4. Nodes(zombie_threads_table) = {t \in Thread : state[t] = "ZOMBIE"} \ {init}
    BY <2>1 DEF SchedInv, Homes
  <2> QED BY <2>2, <2>3, <2>4 DEF SchedInv, Homes, OneHome
<1> QED BY <1>1, Invariance, PTL

\* No thread is lost between its parent and init, and the counts are true.
THEOREM FamilyHolds == ASSUME ChildrenOnly PROVE Spec => []FamilyTree
<1>1. SchedInv => FamilyTree
  <2> SUFFICES ASSUME SchedInv PROVE FamilyTree
    OBVIOUS
  <2>1. ASSUME NEW u \in User
        PROVE  LET parents == {p \in Thread : u \in Nodes(children[p])}
                   drained == pc[init] \in {"drain_wait", "drain_join", "drain_clean"}
                              /\ target[init] = u
               IN  IF ~Exists(u) THEN parents = {}
                   ELSE IF drained THEN parents = {}
                   ELSE Cardinality(parents) = 1 /\ \A p \in parents : Exists(p)
    <3> DEFINE parents == {p \in Thread : u \in Nodes(children[p])}
               drained == pc[init] \in {"drain_wait", "drain_join", "drain_clean"}
                          /\ target[init] = u
    <3>1. /\ u \in Thread /\ parents = {p \in Thread : IsChild(u, p)}
          /\ drained <=> Drained(u)
      BY Points DEF IsChild, Drained, DrainPoints
    <3> HIDE DEF parents, drained
    <3>2. CASE ~Exists(u)
      <4>1. parents = {}
        BY <3>1, <3>2 DEF SchedInv, Family
      <4> QED BY <3>2, <4>1 DEF parents
    <3>3. CASE Exists(u) /\ drained
      <4>1. parents = {}
        BY <3>1, <3>3 DEF SchedInv, Joins, Drained
      <4> QED BY <3>3, <4>1 DEF parents, drained
    <3>4. CASE Exists(u) /\ ~drained
      <4>1. PICK p \in Thread : IsChild(u, p)
        BY <3>1, <3>4 DEF SchedInv, Family
      <4>2. parents = {p}
        BY <3>1, <4>1 DEF SchedInv, Family
      <4>3. Exists(p)
        BY <3>1, <4>1 DEF SchedInv, Family
      <4>4. Cardinality(parents) = 1
        BY <4>2, FS_Singleton
      <4> QED BY <3>4, <4>2, <4>3, <4>4 DEF parents, drained
    <3> QED BY <3>2, <3>3, <3>4
  <2> QED BY <2>1 DEF SchedInv, Family, FamilyTree
<1> QED BY <1>1, Invariance, PTL

\* No wake-up of a joiner is lost, none comes early.
THEOREM JoinersWake == ASSUME ChildrenOnly PROVE Spec => []JoinHandshake
<1>1. SchedInv => JoinHandshake
  <2> SUFFICES ASSUME SchedInv, NEW t \in Thread
               PROVE  /\ state[t] = "JOINING" =>
                            /\ joining_thread[target[t]] = t
                            /\ state[target[t]] \notin {"UNUSED", "ZOMBIE", "FREED"}
                      /\ Alive /\ (\E point \in {"clean", "drain_clean"} : Runs(t, point)) =>
                            state[target[t]] = "ZOMBIE"
    BY DEF JoinHandshake
  <2>1. pc[t] \in JoinPoints =>
          /\ joining_thread[target[t]] = t /\ Exists(target[t])
          /\ state[t] = "JOINING" <=> state[target[t]] # "ZOMBIE"
    BY DEF SchedInv, Joins
  <2>2. state[t] = "JOINING" => pc[t] \in JoinPoints
    BY DEF SchedInv, Places
  <2>3. ASSUME NEW point \in {"clean", "drain_clean"}, Runs(t, point)
        PROVE  state[target[t]] = "ZOMBIE"
    <3>1. t = active_thread /\ pc[t] \in RunPoints /\ pc[t] \in JoinPoints
      BY <2>3 DEF Runs, RunPoints, JoinPoints
    <3> QED BY <2>1, <3>1, ActiveRuns
  <2> QED BY <2>1, <2>2, <2>3 DEF Exists
<1> QED BY <1>1, Invariance, PTL

\* There is always a thread to run, and no freed structure is read.
THEOREM NothingFails == ASSUME ChildrenOnly PROVE Spec => []NothingElseFails
<1>1. SchedInv => NothingElseFails
  BY DEF SchedInv, Types, NothingElseFails
<1> QED BY <1>1, Invariance, PTL-----------------------------------------------------------------------------
(* Lists whose priorities agree with something else                        *)

\* The entries that carry the priority prio gives their node.
Agrees(prio) == {r \in [node : Thread, priority : 0 .. Word16 - 1] : r.priority = prio[r.node]}

LEMMA AgreesIsTable ==
    ASSUME NEW prio, NEW list \in Seq(Agrees(prio))
    PROVE  /\ list \in Table
           /\ \A i \in 1 .. Len(list) : list[i].priority = prio[list[i].node]
<1> DEFINE R == [node : Thread, priority : 0 .. Word16 - 1]
           A == Agrees(prio)
<1>1. A \subseteq R /\ \A r \in A : r.priority = prio[r.node]
  BY DEF Agrees
<1> HIDE DEF A, R
<1>2. list \in Seq(A)
  BY DEF A
<1>3. list \in Seq(R)
  BY <1>1, <1>2, SeqMonotonic
<1>4. \A i \in 1 .. Len(list) : list[i] \in A
  BY <1>2, ElementOfSeq
<1> QED BY <1>1, <1>3, <1>4 DEF Table, R

\* Conversely a table that agrees is such a list.
LEMMA TableAgrees ==
    ASSUME NEW prio, NEW list \in Table,
           \A i \in 1 .. Len(list) : list[i].priority = prio[list[i].node]
    PROVE  list \in Seq(Agrees(prio))
<1>1. /\ Len(list) \in Nat /\ DOMAIN list = 1 .. Len(list)
      /\ \A i \in 1 .. Len(list) : list[i] \in [node : Thread, priority : 0 .. Word16 - 1]
  BY TableFacts
<1>2. \A i \in 1 .. Len(list) : list[i] \in Agrees(prio)
  BY <1>1 DEF Agrees
<1>3. list = [i \in 1 .. Len(list) |-> list[i]]
  <2>1. list \in Seq([node : Thread, priority : 0 .. Word16 - 1])
    BY DEF Table
  <2> QED BY <1>1, <2>1
<1> DEFINE A == Agrees(prio)
<1> HIDE DEF A
<1>4. \A i \in 1 .. Len(list) : list[i] \in A
  BY <1>2 DEF A
<1>5. list \in Seq(A)
  BY <1>1, <1>3, <1>4
<1> QED BY <1>5 DEF A

LEMMA EnlistAgrees ==
    ASSUME NEW prio, NEW list \in Seq(Agrees(prio)),
           NEW t \in Thread, prio[t] \in 0 .. Word16 - 1
    PROVE  EnlistData(list, t, prio[t]) \in Seq(Agrees(prio))
<1> DEFINE A == Agrees(prio)
           k == Cursor(list, prio[t])
           e == Entry(t, prio[t])
<1>1. list \in ListOf(Thread) /\ prio[t] \in Nat
  BY AgreesIsTable, TableFacts, SchedulerAssumption
<1>2. k \in 1 .. Len(list) + 1
  BY <1>1, CursorStops
<1>3. e \in A
  BY DEF Agrees, Entry
<1> HIDE DEF A, k, e
<1>4. list \in Seq(A)
  BY DEF A
<1>5. InsertAt(list, k, e) \in Seq(A)
  BY <1>2, <1>3, <1>4, InsertedEntries
<1> QED BY <1>5 DEF EnlistData, A, k, e

LEMMA SliceAgrees ==
    ASSUME NEW prio, NEW list \in Seq(Agrees(prio)), Sorted(list),
           NEW a \in Nat \ {0}, NEW b \in Int, b <= Len(list)
    PROVE  SubSeq(list, a, b) \in Seq(Agrees(prio)) /\ Sorted(SubSeq(list, a, b))
<1> DEFINE A == Agrees(prio)
           s == SubSeq(list, a, b)
           m == IF a <= b THEN b - a + 1 ELSE 0
<1>1. /\ Len(list) \in Nat /\ DOMAIN list = 1 .. Len(list) /\ list \in Seq(A)
      /\ \A i \in 1 .. Len(list) : list[i].priority \in Int
  BY AgreesIsTable, TableFacts
<1> HIDE DEF A
<1>2. \A i \in 1 .. Len(list) : list[i] \in A
  BY <1>1, ElementOfSeq
<1>3. s \in Seq(A) /\ Len(s) = m /\ \A i \in 1 .. b - a + 1 : s[i] = list[a + i - 1]
  <2>1. a \in Int /\ b \in Int /\ \A i \in a .. b : list[i] \in A
    BY <1>1, <1>2
  <2> HIDE DEF s, m
  <2> QED BY <2>1, SubSeqProperties DEF s, m
<1>4. m \in Nat /\ \A i : i \in 1 .. m <=> i \in 1 .. b - a + 1
  OBVIOUS
<1> HIDE DEF s, m
<1>5. DOMAIN s = 1 .. m /\ \A i \in 1 .. m : s[i] = list[a + i - 1]
  BY <1>3, <1>4, LenProperties
<1>6. Sorted(s)
  <2>1. ASSUME NEW i \in 1 .. m, NEW j \in 1 .. m, i < j
        PROVE  s[i].priority >= s[j].priority
    <3>1. /\ a + i - 1 \in 1 .. Len(list) /\ a + j - 1 \in 1 .. Len(list)
          /\ a + i - 1 < a + j - 1
      BY <1>1, <2>1 DEF m
    <3>2. list[a + i - 1].priority >= list[a + j - 1].priority
      BY <1>1, <3>1 DEF Sorted
    <3> QED BY <1>5, <3>2
  <2> QED BY <1>5, <2>1 DEF Sorted
<1> QED BY <1>3, <1>6 DEF A, s
-----------------------------------------------------------------------------
(* Sleepers                                                                *)

\* The sleeping table is sorted by wake-up time: its priorities are 16 bits of
\* it, which is all of it as long as the uptime fits.
InOrder ==
    /\ wakeup_time \in [Thread -> 0 .. Word16 - 1]
    /\ sleeping_threads_table \in Seq(Agrees(wakeup_time))
    /\ Sorted(sleeping_threads_table)

LEMMA AsleepInOrder ==
    ASSUME SchedInv, InOrder
    PROVE  Asleep \in Seq(Agrees(wakeup_time)) /\ Sorted(Asleep)
<1>1. active_thread \in Thread /\ \A t \in Thread : wakeup_time[t] \in 0 .. Word16 - 1
  BY DEF SchedInv, Types, InOrder
<1>2. SleepPriority(active_thread) = wakeup_time[active_thread]
  BY <1>1, SchedulerAssumption DEF SleepPriority
<1>3. CASE state[active_thread] = "SLEEPING"
  <2>1. Asleep = EnlistData(sleeping_threads_table, active_thread, wakeup_time[active_thread])
    BY <1>2, <1>3 DEF Asleep
  <2>2. sleeping_threads_table \in ListOf(Thread) /\ wakeup_time[active_thread] \in Nat
    BY <1>1, AgreesIsTable, TableFacts, SchedulerAssumption DEF InOrder
  <2>3. Sorted(EnlistData(sleeping_threads_table, active_thread, wakeup_time[active_thread]))
    BY <1>1, <2>2, EnlistedSorted DEF InOrder
  <2> QED BY <1>1, <2>1, <2>3, EnlistAgrees DEF InOrder
<1>4. CASE state[active_thread] # "SLEEPING"
  BY <1>4 DEF Asleep, InOrder
<1> QED BY <1>3, <1>4

\* The loop of select_thread wakes those that are due, and stops in time.
LEMMA WakesTheDue ==
    ASSUME SchedInv, InOrder
    PROVE  /\ \A t \in Nodes(Woken) : Due(t)
           /\ \A t \in Nodes(StillAsleep) : ~Due(t)
           /\ StillAsleep \in Seq(Agrees(wakeup_time)) /\ Sorted(StillAsleep)
<1> DEFINE n == Len(Asleep)
           k == Kept
<1>1. /\ Asleep \in Seq(Agrees(wakeup_time)) /\ Sorted(Asleep)
      /\ Asleep \in Table /\ n \in Nat /\ DOMAIN Asleep = 1 .. n
      /\ \A i \in 1 .. n : Asleep[i].node \in Thread
      /\ \A i \in 1 .. n : Asleep[i].priority = wakeup_time[Asleep[i].node]
  BY AsleepInOrder, AgreesIsTable, TableFacts
<1>2. /\ k \in 0 .. n
      /\ \A i \in 1 .. n : ~Due(Asleep[i].node) => i <= k
      /\ k # 0 => ~Due(Asleep[k].node)
  BY <1>1, KeptFacts
<1>3. /\ Nodes(Woken) = {Asleep[i].node : i \in k + 1 .. n}
      /\ Nodes(StillAsleep) = {Asleep[i].node : i \in 1 .. k}
  BY SleepersFacts DEF SchedInv
<1>4. uptime \in Nat /\ \A t \in Thread : wakeup_time[t] \in Nat
  BY DEF SchedInv, Types
<1> HIDE DEF n, k
<1>5. ASSUME NEW t \in Nodes(Woken) PROVE Due(t)
  <2>1. PICK i \in k + 1 .. n : t = Asleep[i].node
    BY <1>3
  <2>2. i \in 1 .. n /\ ~(i <= k)
    BY <1>1, <1>2
  <2> QED BY <1>2, <2>1, <2>2
<1>6. ASSUME NEW t \in Nodes(StillAsleep) PROVE ~Due(t)
  <2>1. PICK i \in 1 .. k : t = Asleep[i].node
    BY <1>3
  <2>2. i \in 1 .. n /\ k \in 1 .. n /\ k # 0 /\ i <= k
    BY <1>1, <1>2
  <2>3. Asleep[i].priority >= Asleep[k].priority
    <3>1. Asleep[i].priority \in Int
      BY <1>1, <1>4, <2>2
    <3>2. CASE i = k
      BY <3>1, <3>2
    <3>3. CASE i < k
      BY <1>1, <2>2, <3>3 DEF Sorted
    <3> QED BY <2>2, <3>2, <3>3
  <2>4. wakeup_time[t] >= wakeup_time[Asleep[k].node]
    BY <1>1, <2>1, <2>2, <2>3
  <2>5. ~(wakeup_time[Asleep[k].node] < uptime)
    BY <1>2, <2>2 DEF Due
  <2>6. wakeup_time[t] \in Nat /\ wakeup_time[Asleep[k].node] \in Nat
    BY <1>1, <1>4, <2>1, <2>2
  <2> QED BY <1>4, <2>4, <2>5, <2>6 DEF Due
<1>7. StillAsleep \in Seq(Agrees(wakeup_time)) /\ Sorted(StillAsleep)
  <2>1. CASE k = 0
    <3>1. StillAsleep = <<>>
      BY <2>1 DEF StillAsleep, k
    <3>2. <<>> \in Seq(Agrees(wakeup_time))
      BY EmptySeq
    <3> QED BY <3>1, <3>2 DEF Sorted
  <2>2. CASE k # 0
    <3> DEFINE front == SubSeq(Asleep, 1, k - 1)
               t == Asleep[k].node
    <3>1. front \in Seq(Agrees(wakeup_time)) /\ Sorted(front)
      <4>1. 1 \in Nat \ {0} /\ k - 1 \in Int /\ k - 1 <= Len(Asleep)
        BY <1>1, <1>2 DEF n
      <4> QED BY <1>1, <4>1, SliceAgrees
    <3>2. t \in Thread /\ wakeup_time[t] \in 0 .. Word16 - 1
      BY <1>1, <1>2, <2>2 DEF InOrder
    <3>3. StillAsleep = EnlistData(front, t, wakeup_time[t])
      <4>1. SleepPriority(t) = wakeup_time[t]
        BY <3>2, SchedulerAssumption DEF SleepPriority
      <4>2. StillAsleep = EnlistData(front, t, SleepPriority(t))
        BY <2>2 DEF StillAsleep, k
      <4> QED BY <4>1, <4>2
    <3> HIDE DEF front, t
    <3>4. front \in ListOf(Thread) /\ wakeup_time[t] \in Nat
      BY <3>1, <3>2, AgreesIsTable, TableFacts, SchedulerAssumption
    <3>5. Sorted(EnlistData(front, t, wakeup_time[t]))
      BY <3>1, <3>2, <3>4, EnlistedSorted
    <3> QED BY <3>1, <3>2, <3>3, <3>5, EnlistAgrees
  <2> QED BY <2>1, <2>2
<1> QED BY <1>5, <1>6, <1>7

LEMMA InOrderKept ==
    ASSUME MaxTime <= Word16, SchedInv, InOrder, [Next]_vars
    PROVE  InOrder'
<1>1. ASSUME UNCHANGED <<wakeup_time, sleeping_threads_table>> PROVE InOrder'
  BY <1>1 DEF InOrder
<1>2. ASSUME NEW timer \in BOOLEAN, ScheduleInt(timer) PROVE InOrder'
  <2>1. wakeup_time' = wakeup_time
    BY <1>2 DEF ScheduleInt
  <2>2. sleeping_threads_table' \in {sleeping_threads_table, StillAsleep}
    BY <1>2 DEF ScheduleInt
  <2> QED BY <2>1, <2>2, WakesTheDue DEF InOrder
<1>3. ASSUME NEW t \in Thread, NEW ms \in SleepMs, Sleep(t, ms) PROVE InOrder'
  <2>1. /\ t = active_thread /\ state[t] = "RUNNING"
        /\ wakeup_time' = [wakeup_time EXCEPT ![t] = uptime + ms]
        /\ sleeping_threads_table' = sleeping_threads_table
        /\ uptime + ms < MaxTime
    BY <1>3, ActiveRuns DEF Sleep, MayCall, Runs, RunPoints, tables
  <2>2. uptime + ms \in 0 .. Word16 - 1
    BY <2>1, SchedulerAssumption DEF SchedInv, Types
  <2>3. wakeup_time' \in [Thread -> 0 .. Word16 - 1]
    BY <2>1, <2>2 DEF InOrder
  <2>4. /\ sleeping_threads_table \in Table
        /\ Len(sleeping_threads_table) \in Nat
        /\ DOMAIN sleeping_threads_table = 1 .. Len(sleeping_threads_table)
        /\ \A i \in 1 .. Len(sleeping_threads_table) :
              /\ sleeping_threads_table[i].priority = wakeup_time[sleeping_threads_table[i].node]
              /\ sleeping_threads_table[i].node \in Thread
    BY AgreesIsTable, TableFacts DEF InOrder
  <2>5. \A i \in 1 .. Len(sleeping_threads_table) : sleeping_threads_table[i].node # t
    BY <2>1, <2>4 DEF Nodes, SchedInv, Homes
  <2>6. \A i \in 1 .. Len(sleeping_threads_table) :
              sleeping_threads_table[i].priority = wakeup_time'[sleeping_threads_table[i].node]
    BY <2>1, <2>4, <2>5 DEF InOrder
  <2>7. sleeping_threads_table \in Seq(Agrees(wakeup_time'))
    BY <2>4, <2>6, TableAgrees
  <2>8. sleeping_threads_table' \in Seq(Agrees(wakeup_time)')
    BY <2>1, <2>7 DEF Agrees
  <2> QED BY <2>1, <2>3, <2>8 DEF InOrder, Agrees
<1>4. CASE Kernel
  <2>1. ASSUME NEW t \in Thread, FinishWait(t) \/ FallAsleep(t) PROVE InOrder'
    BY <1>1, <2>1 DEF FinishWait, FallAsleep, tables
  <2>2. CASE Schedule
    BY <1>2, <2>2 DEF Schedule
  <2>3. CASE IdleBoot \/ IdleOff
    BY <1>1, <2>3 DEF IdleBoot, IdleOff, NewThread, fields, tables
  <2>4. CASE Drain \/ DrainWait \/ InitExit
    BY <1>1, <2>4 DEF Drain, DrainWait, Wait, InitExit, tables
  <2> QED BY <1>4, <2>1, <2>2, <2>3, <2>4 DEF Kernel
<1>5. CASE Program
  <2>1. ASSUME NEW t \in Thread, NEW u \in User, CreateThread(t, u) \/ WaitThread(t, u) PROVE InOrder'
    BY <1>1, <2>1 DEF CreateThread, NewThread, WaitThread, Wait
  <2>2. ASSUME NEW t \in Thread, NEW u \in Thread, NEW do_schedule \in BOOLEAN,
               UnlockThread(t, u, do_schedule)
        PROVE  InOrder'
    BY <1>1, <2>2 DEF UnlockThread, Unlock
  <2>3. ASSUME NEW t \in Thread, LockThread(t) \/ ThreadExit(t) PROVE InOrder'
    BY <1>1, <2>3 DEF LockThread, ThreadExit, tables
  <2> QED BY <1>3, <1>5, <2>1, <2>2, <2>3 DEF Program
<1>6. CASE TimerInt
  BY <1>2, <1>6 DEF TimerInt
<1>7. ASSUME NEW u \in Thread, IrqUnlock(u) PROVE InOrder'
  BY <1>1, <1>7 DEF IrqUnlock, Unlock
<1>8. CASE MainReturns \/ Stopped \/ UNCHANGED vars
  BY <1>1, <1>8 DEF MainReturns, Stopped, vars, fields, tables
<1> QED BY <1>4, <1>5, <1>6, <1>7, <1>8 DEF Next

\* After a pass nobody sleeps past its wake-up time and nobody was woken before
\* it, as long as the wake-up times fit the 16 bits of a list priority.
THEOREM SleepersWake ==
    ASSUME ChildrenOnly, MaxTime <= Word16
    PROVE  Spec => SleepersWakeOnTime
<1>1. Init => InOrder
  <2>1. 0 \in 0 .. Word16 - 1
    BY SchedulerAssumption
  <2> QED BY <2>1, EmptySeq DEF Init, InOrder, Sorted
<1>2. SchedInv /\ InOrder /\ [Next]_vars => InOrder'
  BY InOrderKept
<1>3. ASSUME SchedInv, InOrder, Pass, NEW t \in Thread, state[t] = "SLEEPING"
      PROVE  state'[t] = "SLEEPING" <=> ~Due(t)
  <2>1. PICK timer \in BOOLEAN : first_schedule /\ ScheduleInt(timer)
    BY <1>3 DEF Pass, TimerInt, Schedule
  <2>2. PICK woken \in SUBSET {s \in Thread : state[s] = "SLEEPING"}, next \in Thread :
             /\ woken = Nodes(Woken)
             /\ state[next] \in {"READY", "RUNNING"} \/ next \in woken
             /\ state' = [s \in Thread |->
                            IF s = next THEN "RUNNING"
                            ELSE IF s = active_thread /\ state[s] = "RUNNING" THEN "READY"
                            ELSE IF s \in woken THEN "READY" ELSE state[s]]
    BY <1>3, <2>1, PassMoves DEF SchedInv
  <2>3. t \in woken \/ t \in Nodes(StillAsleep)
    BY <1>3, <2>2, SleepersFacts DEF SchedInv
  <2>4. woken \cap Nodes(StillAsleep) = {}
    BY <1>3, <2>2, SleepersFacts DEF SchedInv
  <2>5. CASE t \in woken
    <3>1. Due(t)
      BY <1>3, <2>2, <2>5, WakesTheDue
    <3> QED BY <2>2, <2>5, <3>1
  <2>6. CASE t \in Nodes(StillAsleep)
    <3>1. ~Due(t)
      BY <1>3, <2>6, WakesTheDue
    <3>2. t # next /\ t \notin woken
      BY <1>3, <2>2, <2>4, <2>6
    <3> QED BY <1>3, <2>2, <3>1, <3>2
  <2> QED BY <2>3, <2>5, <2>6
<1>4. SchedInv /\ InOrder =>
          [Pass => \A t \in Thread : state[t] = "SLEEPING" =>
                        (state'[t] = "SLEEPING" <=> ~Due(t))]_vars
  BY <1>3
<1> QED BY <1>1, <1>2, <1>4, Invariance, PTL DEF Spec, SleepersWakeOnTime-----------------------------------------------------------------------------
(* The priorities of the nodes in the active table                         *)

\* What the elements of a set of lists have in common, EnlistAll keeps.
LEMMA EnlistAllWithin ==
    ASSUME NEW Good, NEW list \in Good, NEW entries, Len(entries) \in Nat,
           \A l \in Good : \A i \in 1 .. Len(entries) :
               EnlistData(l, entries[i].node, entries[i].priority) \in Good
    PROVE  EnlistAll(list, entries) \in Good
<1> DEFINE n == Len(entries)
<1>1. PICK into : /\ EnlistAll(list, entries) = into[n]
                  /\ into[0] = list
                  /\ \A i \in 1 .. n :
                        into[i] = EnlistData(into[i - 1], entries[n + 1 - i].node,
                                                          entries[n + 1 - i].priority)
  BY EnlistAllSteps
<1> DEFINE Bad == {i \in 0 .. n : into[i] \notin Good}
<1>2. Bad = {}
  <2> SUFFICES ASSUME Bad # {} PROVE FALSE
    OBVIOUS
  <2>1. Bad \subseteq Nat
    OBVIOUS
  <2>2. PICK m \in Bad : \A k \in Bad : m <= k
    <3> HIDE DEF Bad
    <3> QED BY <2>1, LeastNatural
  <2>3. m # 0 /\ m \in 1 .. n
    BY <1>1
  <2>4. m - 1 \in 0 .. n /\ m - 1 \notin Bad
    BY <2>2, <2>3
  <2>5. into[m - 1] \in Good
    BY <2>4
  <2>6. n + 1 - m \in 1 .. n
    BY <2>3
  <2> QED BY <1>1, <2>3, <2>5, <2>6
<1> QED BY <1>1, <1>2

\* What a step can do to the active table and to the priorities in it.
LEMMA TableSteps ==
    ASSUME ChildrenOnly, SchedInv, [Next]_vars
    PROVE  /\ \A t \in Thread : state'[t] = "UNUSED" => state[t] = "UNUSED"
           /\ \/ \E timer \in BOOLEAN : ScheduleInt(timer)
              \/ UNCHANGED <<active_threads_table, priority, active_thread, first_schedule>>
              \/ /\ UNCHANGED <<priority, active_thread, first_schedule>>
                 /\ \E u \in Thread \ {idle} :
                       active_threads_table' =
                           EnlistData(active_threads_table, u,
                                      IF state[u] = "UNUSED" THEN InitPrio[u] ELSE priority[u])
<1> DEFINE Unused == \A t \in Thread : state'[t] = "UNUSED" => state[t] = "UNUSED"
           Still == UNCHANGED <<active_threads_table, priority, active_thread, first_schedule>>
           Grows == /\ UNCHANGED <<priority, active_thread, first_schedule>>
                    /\ \E u \in Thread \ {idle} :
                          active_threads_table' =
                              EnlistData(active_threads_table, u,
                                         IF state[u] = "UNUSED" THEN InitPrio[u] ELSE priority[u])
           Passes == \E timer \in BOOLEAN : ScheduleInt(timer)
<1>1. /\ idle \in Thread /\ state[idle] \in {"READY", "RUNNING"} /\ state \in [Thread -> States]
      /\ init # idle /\ idle \notin User /\ User \subseteq Thread /\ init \in Thread
  BY IdleIsReady, Points DEF SchedInv, Types
<1>2. ASSUME NEW timer \in BOOLEAN, ScheduleInt(timer) PROVE Unused
  <2>1. CASE first_schedule
    <3>1. PICK woken \in SUBSET {s \in Thread : state[s] = "SLEEPING"}, next \in Thread :
             state' = [s \in Thread |->
                            IF s = next THEN "RUNNING"
                            ELSE IF s = active_thread /\ state[s] = "RUNNING" THEN "READY"
                            ELSE IF s \in woken THEN "READY" ELSE state[s]]
      BY <1>2, <2>1, PassMoves DEF SchedInv
    <3> QED BY <3>1
  <2>2. CASE ~first_schedule
    BY <1>2, <2>2 DEF ScheduleInt
  <2> QED BY <2>1, <2>2
<1>3. ASSUME NEW t \in Thread, NEW u \in Thread \ {idle}, NewThread(t, u) PROVE Unused /\ Grows
  <2>1. Unused
    BY <1>1, <1>3 DEF NewThread
  <2>2. state[u] = "UNUSED" /\ active_threads_table' = EnlistData(active_threads_table, u, InitPrio[u])
    BY <1>3 DEF NewThread
  <2>3. UNCHANGED <<priority, active_thread, first_schedule>>
    BY <1>3 DEF NewThread
  <2> QED BY <2>1, <2>2, <2>3
<1>4. ASSUME NEW u \in Thread, Unlock(u) PROVE Unused /\ Grows
  <2>1. Unused
    BY <1>1, <1>4 DEF Unlock
  <2>2. /\ state[u] # "UNUSED" /\ u # idle
        /\ active_threads_table' = EnlistData(active_threads_table, u, priority[u])
    BY <1>1, <1>4 DEF Unlock
  <2>3. UNCHANGED <<priority, active_thread, first_schedule>>
    BY <1>4 DEF Unlock
  <2> QED BY <2>1, <2>2, <2>3
<1>5. ASSUME NEW t \in Thread, NEW u, Clean(t, u) PROVE Unused
  BY <1>1, <1>5 DEF Clean
<1>6. CASE Kernel
  <2>1. ASSUME NEW t \in Thread, FinishWait(t) PROVE Unused /\ Still
    <3>1. Unused
      BY <1>5, <2>1 DEF FinishWait
    <3> QED BY <2>1, <3>1 DEF FinishWait
  <2>2. ASSUME NEW t \in Thread, FallAsleep(t) PROVE Unused /\ Still
    BY <1>1, <2>2 DEF FallAsleep, tables
  <2>3. CASE Schedule
    BY <1>2, <2>3 DEF Schedule
  <2>4. CASE IdleBoot
    BY <1>1, <1>3, <2>4 DEF IdleBoot
  <2>5. CASE IdleOff \/ Drain
    BY <2>5 DEF IdleOff, Drain, fields, tables
  <2>6. CASE DrainWait
    <3>1. Unused
      BY <1>1, <1>5, <2>6 DEF DrainWait, Wait
    <3> QED BY <2>6, <3>1 DEF DrainWait, Wait, tables
  <2>7. CASE InitExit
    BY <1>1, <2>7 DEF InitExit, tables
  <2> QED BY <1>6, <2>1, <2>2, <2>3, <2>4, <2>5, <2>6, <2>7 DEF Kernel
<1>7. CASE Program
  <2>1. ASSUME NEW t \in Thread, NEW u \in User, CreateThread(t, u) PROVE Unused /\ Grows
    BY <1>1, <1>3, <2>1 DEF CreateThread
  <2>2. ASSUME NEW t \in Thread, NEW u \in User, WaitThread(t, u) PROVE Unused /\ Still
    <3>1. Unused
      BY <1>1, <1>5, <2>2 DEF WaitThread, Wait
    <3> QED BY <2>2, <3>1 DEF WaitThread, Wait, tables
  <2>3. ASSUME NEW t \in Thread, NEW u \in Thread, NEW do_schedule \in BOOLEAN,
               UnlockThread(t, u, do_schedule)
        PROVE  Unused /\ Grows
    BY <1>4, <2>3 DEF UnlockThread
  <2>4. ASSUME NEW t \in Thread, NEW ms \in SleepMs, Sleep(t, ms) PROVE Unused /\ Still
    BY <2>4 DEF Sleep, tables
  <2>5. ASSUME NEW t \in Thread, LockThread(t) PROVE Unused /\ Still
    BY <1>1, <2>5 DEF LockThread, tables
  <2>6. ASSUME NEW t \in Thread, ThreadExit(t) PROVE Unused /\ (Still \/ Grows)
    <3>1. Unused
      BY <1>1, <2>6 DEF ThreadExit
    <3>2. UNCHANGED <<priority, active_thread, first_schedule>>
      BY <2>6 DEF ThreadExit
    <3>3. CASE active_threads_table' = active_threads_table
      BY <3>1, <3>2, <3>3
    <3>4. CASE active_threads_table' # active_threads_table
      <4> DEFINE j == Joiner(t)
      <4>1. /\ WakesJoiner(t)
            /\ active_threads_table' = EnlistData(active_threads_table, j, priority[j])
        BY <2>6, <3>4 DEF ThreadExit
      <4>2. j \in Thread /\ state[j] = "JOINING"
        BY <1>1, <2>6, <4>1 DEF WakesJoiner, Joiner, SchedInv, Types
      <4>3. j # idle /\ state[j] # "UNUSED"
        BY <1>1, <4>2
      <4> HIDE DEF j
      <4> QED BY <3>1, <3>2, <4>1, <4>2, <4>3
    <3> QED BY <3>3, <3>4
  <2> QED BY <1>7, <2>1, <2>2, <2>3, <2>4, <2>5, <2>6 DEF Program
<1>8. CASE TimerInt
  BY <1>2, <1>8 DEF TimerInt
<1>9. ASSUME NEW u \in Thread, IrqUnlock(u) PROVE Unused /\ Grows
  BY <1>4, <1>9 DEF IrqUnlock
<1>10. CASE MainReturns \/ Stopped \/ UNCHANGED vars
  BY <1>10 DEF MainReturns, Stopped, vars, fields, tables
<1> QED BY <1>6, <1>7, <1>8, <1>9, <1>10 DEF Next
\* Under the LAPIC timer nothing but aging changes a priority, and it changes
\* that of the node along with it.
NodesAgree ==
    /\ active_threads_table \in Seq(Agrees(priority))
    /\ \A t \in Thread : state[t] = "UNUSED" => priority[t] = InitPrio[t]
    /\ first_schedule \/ active_thread = idle

LEMMA AgingAgrees ==
    ASSUME Lapic, SchedInv, NodesAgree, NEW timer \in BOOLEAN
    PROVE  LET aged  == AgedPriority(PriorityBefore(timer))
               table == AgedTable(PriorityBefore(timer))
           IN  /\ PriorityBefore(timer) = priority
               /\ table \in Seq(Agrees(aged))
               /\ Len(table) = Len(active_threads_table)
               /\ \A i \in 1 .. Len(table) : table[i].node = active_threads_table[i].node
               /\ \A t \in Thread : aged[t] = IF Boosted(t) /\ priority[t] > 0
                                              THEN priority[t] - 1 ELSE priority[t]
<1> DEFINE aged  == AgedPriority(PriorityBefore(timer))
           table == AgedTable(PriorityBefore(timer))
           n == Len(active_threads_table)
<1>1. PriorityBefore(timer) = priority
  BY DEF PriorityBefore
<1>2. aged \in [Thread -> 0 .. Lowest] /\ table \in Table
  BY AgedFacts DEF SchedInv
<1>3. \A t \in Thread : aged[t] = IF Boosted(t) /\ priority[t] > 0
                                  THEN priority[t] - 1 ELSE priority[t]
  BY <1>1 DEF AgedPriority
<1>4. /\ n \in Nat /\ DOMAIN active_threads_table = 1 .. n
      /\ \A i \in 1 .. n : /\ active_threads_table[i].node \in Thread
                           /\ active_threads_table[i].priority = priority[active_threads_table[i].node]
  BY AgreesIsTable, TableFacts DEF NodesAgree
<1>5. \A i \in 1 .. n :
          table[i] = IF Boosted(active_threads_table[i].node) /\ priority[active_threads_table[i].node] > 0
                     THEN Entry(active_threads_table[i].node,
                                (active_threads_table[i].priority + Word16 - 1) % Word16)
                     ELSE active_threads_table[i]
  BY <1>1, <1>4 DEF AgedTable
<1>6. DOMAIN table = 1 .. n
  BY <1>4 DEF AgedTable
<1> HIDE DEF aged, table
<1>7. Len(table) = n
  BY <1>2, <1>4, <1>6, TableFacts
<1>8. \A t \in Thread : priority[t] \in 0 .. Lowest
  BY DEF SchedInv, Types
<1>9. \A p \in 0 .. Lowest : p > 0 => (p + Word16 - 1) % Word16 = p - 1
  <2>1. Word16 \in Nat /\ Lowest \in Nat /\ Word16 > Lowest
    BY SchedulerAssumption
  <2>2. ASSUME NEW p \in 0 .. Lowest, p > 0 PROVE (p + Word16 - 1) % Word16 = p - 1
    <3>1. p - 1 \in 0 .. Word16 - 1 /\ p + Word16 - 1 = (p - 1) + Word16
      BY <2>1, <2>2
    <3>2. ((p - 1) + Word16) % Word16 = p - 1
      BY <2>1, <3>1
    <3> QED BY <3>1, <3>2
  <2> QED BY <2>2
<1>10. ASSUME NEW i \in 1 .. n
       PROVE  table[i].node = active_threads_table[i].node /\ table[i].priority = aged[table[i].node]
  <2> DEFINE e == active_threads_table[i]
  <2>1. e.node \in Thread /\ e.priority = priority[e.node] /\ priority[e.node] \in 0 .. Lowest
    BY <1>4, <1>8
  <2>2. aged[e.node] = IF Boosted(e.node) /\ priority[e.node] > 0
                       THEN priority[e.node] - 1 ELSE priority[e.node]
    BY <1>3, <2>1
  <2>3. table[i] = IF Boosted(e.node) /\ priority[e.node] > 0
                   THEN Entry(e.node, (e.priority + Word16 - 1) % Word16) ELSE e
    BY <1>5
  <2> HIDE DEF e
  <2>4. table[i].node = e.node
    BY <2>3 DEF Entry
  <2>5. table[i].priority = aged[e.node]
    <3>1. CASE Boosted(e.node) /\ priority[e.node] > 0
      BY <1>9, <2>1, <2>2, <2>3, <3>1 DEF Entry
    <3>2. CASE ~(Boosted(e.node) /\ priority[e.node] > 0)
      BY <2>1, <2>2, <2>3, <3>2
    <3> QED BY <3>1, <3>2
  <2> QED BY <2>4, <2>5 DEF e
<1>11. table \in Seq(Agrees(aged))
  BY <1>2, <1>7, <1>10, TableAgrees
<1> QED BY <1>1, <1>3, <1>7, <1>10, <1>11 DEF aged, table

\* So the table the pass takes its tail from agrees with the new priorities.
LEMMA ReadyAgrees ==
    ASSUME Lapic, SchedInv, NodesAgree, NEW timer \in BOOLEAN
    PROVE  LET aged   == AgedPriority(PriorityBefore(timer))
               queue  == Requeued(AgedTable(PriorityBefore(timer)), aged)
           IN  queue \in Seq(Agrees(aged)) /\ WithWoken(queue, aged) \in Seq(Agrees(aged))
<1> DEFINE aged  == AgedPriority(PriorityBefore(timer))
           table == AgedTable(PriorityBefore(timer))
           queue == Requeued(table, aged)
           entries == [i \in DOMAIN Woken |-> Entry(Woken[i].node, aged[Woken[i].node])]
<1>1. table \in Seq(Agrees(aged)) /\ active_thread \in Thread
  BY AgingAgrees DEF SchedInv, Types
<1>2. \A t \in Thread : aged[t] \in 0 .. Word16 - 1
  <2>1. aged \in [Thread -> 0 .. Lowest]
    BY AgedFacts DEF SchedInv
  <2>2. \A i \in 0 .. Lowest : i \in 0 .. Word16 - 1
    BY SchedulerAssumption
  <2> HIDE DEF aged
  <2> QED BY <2>1, <2>2
<1> HIDE DEF aged, table
<1>3. queue \in Seq(Agrees(aged))
  <2>1. CASE state[active_thread] = "RUNNING"
    <3>1. queue = EnlistData(table, active_thread, aged[active_thread])
      BY <2>1 DEF Requeued
    <3> QED BY <1>1, <1>2, <3>1, EnlistAgrees
  <2>2. CASE state[active_thread] # "RUNNING"
    BY <1>1, <2>2 DEF Requeued
  <2> QED BY <2>1, <2>2
<1>4. /\ Len(Woken) \in Nat /\ DOMAIN Woken = 1 .. Len(Woken)
      /\ \A i \in 1 .. Len(Woken) : Woken[i].node \in Thread
  BY SleepersFacts, TableFacts DEF SchedInv
<1>5. /\ Len(entries) = Len(Woken)
      /\ \A i \in 1 .. Len(Woken) : /\ entries[i].node = Woken[i].node
                                    /\ entries[i].priority = aged[Woken[i].node]
  <2>1. entries = [i \in 1 .. Len(Woken) |-> Entry(Woken[i].node, aged[Woken[i].node])]
    BY <1>4
  <2> HIDE DEF entries
  <2> QED BY <1>4, <2>1 DEF Entry
<1>6. WithWoken(queue, aged) = EnlistAll(queue, entries)
  BY DEF WithWoken
<1> HIDE DEF queue, entries
<1> DEFINE Good == Seq(Agrees(aged))
<1>7. \A l \in Good : \A i \in 1 .. Len(entries) :
          EnlistData(l, entries[i].node, entries[i].priority) \in Good
  BY <1>2, <1>4, <1>5, EnlistAgrees
<1>8. queue \in Good
  BY <1>3
<1> HIDE DEF Good
<1>9. EnlistAll(queue, entries) \in Good
  BY <1>4, <1>5, <1>7, <1>8, EnlistAllWithin
<1> QED BY <1>3, <1>6, <1>9 DEF Good, queue, table, aged

LEMMA NodesAgreeKept ==
    ASSUME ChildrenOnly, Lapic, SchedInv, NodesAgree, [Next]_vars
    PROVE  NodesAgree'
<1>1. \A t \in Thread : state'[t] = "UNUSED" => state[t] = "UNUSED"
  BY TableSteps
<1>2. ASSUME NEW timer \in BOOLEAN, ScheduleInt(timer) PROVE NodesAgree'
  <2> DEFINE aged  == AgedPriority(PriorityBefore(timer))
             table == AgedTable(PriorityBefore(timer))
             ready == WithWoken(Requeued(table, aged), aged)
  <2>1. /\ priority' = aged
        /\ first_schedule => Dispatch(ready) /\ first_schedule' = first_schedule
        /\ ~first_schedule => first_schedule' = TRUE /\ active_threads_table' = active_threads_table
    BY <1>2 DEF ScheduleInt
  <2>2. /\ table \in Seq(Agrees(aged)) /\ ready \in Seq(Agrees(aged))
        /\ Len(table) = Len(active_threads_table)
        /\ \A t \in Thread : aged[t] = IF Boosted(t) /\ priority[t] > 0
                                       THEN priority[t] - 1 ELSE priority[t]
    BY AgingAgrees, ReadyAgrees
  <2>3. aged \in [Thread -> 0 .. Lowest] /\ priority \in [Thread -> 0 .. Lowest]
    BY AgedFacts DEF SchedInv, Types
  <2>4. ready # <<>>
    BY ReadyFacts DEF SchedInv
  <2> HIDE DEF aged, table, ready
  <2>5. ASSUME NEW t \in Thread, state'[t] = "UNUSED" PROVE priority'[t] = InitPrio[t]
    <3>1. state[t] = "UNUSED"
      BY <1>1, <2>5
    <3>2. ~Boosted(t)
      BY <3>1 DEF Boosted, Waits, SchedInv, Homes
    <3> QED BY <2>1, <2>2, <3>1, <3>2 DEF NodesAgree
  <2>6. active_threads_table' \in Seq(Agrees(aged))
    <3>1. CASE first_schedule
      <4>1. active_threads_table' = DelistData(ready)
        BY <2>1, <2>4, <3>1 DEF Dispatch
      <4> QED BY <2>2, <4>1, DelistedIn
    <3>2. CASE ~first_schedule
      <4>1. ~Ages
        BY <3>2 DEF Ages, NodesAgree
      <4>2. \A t \in Thread : ~Boosted(t)
        BY <4>1 DEF Boosted
      <4>3. \A t \in Thread : aged[t] = priority[t]
        BY <2>2, <4>2
      <4>4. aged = priority
        BY <2>3, <4>3
      <4> QED BY <2>1, <3>2, <4>4 DEF NodesAgree
    <3> QED BY <3>1, <3>2
  <2>7. active_threads_table' \in Seq(Agrees(priority)')
    BY <2>1, <2>6 DEF Agrees
  <2>8. first_schedule'
    BY <2>1
  <2> QED BY <2>5, <2>7, <2>8 DEF NodesAgree, Agrees
<1>3. CASE UNCHANGED <<active_threads_table, priority, active_thread, first_schedule>>
  <2>1. Agrees(priority)' = Agrees(priority)
    BY <1>3 DEF Agrees
  <2>2. active_threads_table' \in Seq(Agrees(priority)')
    BY <1>3, <2>1 DEF NodesAgree
  <2> QED BY <1>1, <1>3, <2>2 DEF NodesAgree, Agrees
<1>4. ASSUME UNCHANGED <<priority, active_thread, first_schedule>>, NEW u \in Thread,
             active_threads_table' = EnlistData(active_threads_table, u,
                                        IF state[u] = "UNUSED" THEN InitPrio[u] ELSE priority[u])
      PROVE  NodesAgree'
  <2>1. active_threads_table' = EnlistData(active_threads_table, u, priority[u])
    BY <1>4 DEF NodesAgree
  <2>2. priority[u] \in 0 .. Word16 - 1
    <3>1. \A i \in 0 .. Lowest : i \in 0 .. Word16 - 1
      BY SchedulerAssumption
    <3> QED BY <3>1 DEF SchedInv, Types
  <2>3. active_threads_table' \in Seq(Agrees(priority))
    BY <2>1, <2>2, EnlistAgrees DEF NodesAgree
  <2>4. Agrees(priority)' = Agrees(priority)
    BY <1>4 DEF Agrees
  <2>5. active_threads_table' \in Seq(Agrees(priority)')
    BY <2>3, <2>4
  <2> QED BY <1>1, <1>4, <2>5 DEF NodesAgree, Agrees
<1> QED BY <1>2, <1>3, <1>4, TableSteps

\* On a machine whose scheduler runs on the LAPIC timer, a thread and its node
\* in the active table always have the same priority.
THEOREM NodesAge == ASSUME ChildrenOnly, Lapic PROVE Spec => []NodePriorities
<1>1. Init => NodesAgree
  BY EmptySeq DEF Init, NodesAgree
<1>2. SchedInv /\ NodesAgree /\ [Next]_vars => NodesAgree'
  BY NodesAgreeKept
<1>3. SchedInv /\ NodesAgree => NodePriorities
  <2> SUFFICES ASSUME SchedInv, NodesAgree PROVE NodePriorities
    OBVIOUS
  <2>1. /\ DOMAIN active_threads_table = 1 .. Len(active_threads_table)
        /\ \A i \in 1 .. Len(active_threads_table) :
              active_threads_table[i].priority = priority[active_threads_table[i].node]
    BY AgreesIsTable, TableFacts DEF NodesAgree
  <2> QED BY <2>1 DEF NodePriorities
<1> QED BY <1>1, <1>2, <1>3, Invariance, PTL DEF Spec
\* If only idle has the lowest priority, it stays at the head of the table.
IdleLeads(list) == idle \in Nodes(list) => list[1].node = idle

Ranks(prio) ==
    /\ prio \in [Thread -> 0 .. Lowest] /\ prio[idle] = Lowest
    /\ \A t \in Thread \ {idle} : prio[t] < Lowest

LEMMA EnlistLeads ==
    ASSUME NEW prio, Ranks(prio), NEW list \in Seq(Agrees(prio)), IdleLeads(list), NEW t \in Thread
    PROVE  IdleLeads(EnlistData(list, t, prio[t]))
<1> DEFINE new == EnlistData(list, t, prio[t])
           k == Cursor(list, prio[t])
           n == Len(list)
<1>1. /\ prio[t] \in 0 .. Lowest /\ prio[t] \in Nat /\ prio[t] \in 0 .. Word16 - 1
      /\ idle \in Thread /\ prio[idle] = Lowest /\ Lowest \in Nat
      /\ \A s \in Thread : prio[s] \in 0 .. Lowest
  BY SchedulerAssumption DEF Ranks, Thread
<1>2. /\ list \in ListOf(Thread) /\ n \in Nat /\ DOMAIN list = 1 .. n
      /\ \A i \in 1 .. n : list[i].node \in Thread /\ list[i].priority = prio[list[i].node]
  BY AgreesIsTable, TableFacts
<1>3. /\ k \in 1 .. n + 1
      /\ \A i \in 1 .. n + 1 :
            new[i] = IF i < k THEN list[i] ELSE IF i = k THEN Entry(t, prio[t]) ELSE list[i - 1]
      /\ \A i \in 1 .. k - 1 : list[i].priority > prio[t]
      /\ k <= n => list[k].priority <= prio[t]
  <2>1. EnlistedAt(list, t, prio[t], k, new)
    BY <1>1, <1>2, Enlisted
  <2> QED BY <1>2, <2>1 DEF EnlistedAt, PutIn, Entry
<1>4. Nodes(new) = Nodes(list) \cup {t}
  BY <1>1, <1>2, EnlistedNodes
<1> HIDE DEF new, k, n
<1>5. CASE t = idle
  <2>1. k = 1
    <3> SUFFICES ASSUME k # 1 PROVE FALSE
      OBVIOUS
    <3>1. 1 \in 1 .. k - 1 /\ 1 \in 1 .. n
      BY <1>2, <1>3
    <3>2. list[1].priority > Lowest /\ list[1].priority \in 0 .. Lowest
      BY <1>1, <1>2, <1>3, <1>5, <3>1
    <3> QED BY <1>1, <3>2
  <2>2. new[1] = Entry(idle, Lowest)
    BY <1>1, <1>2, <1>3, <1>5, <2>1
  <2> QED BY <2>2 DEF IdleLeads, Entry, new
<1>6. CASE t # idle
  <2>1. CASE idle \in Nodes(list)
    <3>1. list[1].node = idle /\ n # 0
      BY <1>2, <2>1 DEF IdleLeads, Nodes
    <3>2. list[1].priority = Lowest /\ prio[t] < Lowest
      BY <1>1, <1>2, <1>6, <3>1 DEF Ranks
    <3>3. k # 1
      BY <1>1, <1>2, <1>3, <3>1, <3>2
    <3>4. new[1] = list[1]
      BY <1>2, <1>3, <3>3
    <3> QED BY <3>1, <3>4 DEF IdleLeads, new
  <2>2. CASE idle \notin Nodes(list)
    BY <1>4, <1>6, <2>2 DEF IdleLeads, new
  <2> QED BY <2>1, <2>2
<1> QED BY <1>5, <1>6

LEMMA DelistLeads ==
    ASSUME NEW table \in Table, table # <<>>, Distinct(table), IdleLeads(table)
    PROVE  /\ IdleLeads(DelistData(table))
           /\ DelistedNode(table) = idle => Nodes(DelistData(table)) = {}
<1> DEFINE left == DelistData(table)
           n == Len(table)
           R == [node : Thread, priority : 0 .. Word16 - 1]
<1>1. /\ n \in Nat /\ DOMAIN table = 1 .. n /\ table \in Seq(R)
      /\ \A i \in 1 .. n : table[i] \in R
  BY TableFacts DEF Table
<1>2. n # 0
  BY <1>1, EmptySeq
<1> HIDE DEF R
<1>3. /\ Len(left) = n - 1 /\ left \in Seq(R)
      /\ \A i \in 1 .. n - 1 : left[i] = table[i]
  <2>1. left = SubSeq(table, 1, n - 1)
    BY DEF DelistData, Front
  <2>2. 1 \in Int /\ n - 1 \in Int /\ \A i \in 1 .. n - 1 : table[i] \in R
    BY <1>1
  <2> HIDE DEF left, n
  <2>3. /\ SubSeq(table, 1, n - 1) \in Seq(R)
        /\ Len(SubSeq(table, 1, n - 1)) = IF 1 <= n - 1 THEN n - 1 - 1 + 1 ELSE 0
        /\ \A i \in 1 .. n - 1 - 1 + 1 : SubSeq(table, 1, n - 1)[i] = table[1 + i - 1]
    BY <2>2, SubSeqProperties
  <2> QED BY <1>1, <1>2, <2>1, <2>3 DEF n
<1>4. DOMAIN left = 1 .. n - 1
  BY <1>3, LenProperties
<1>5. Nodes(left) \subseteq Nodes(table)
  BY <1>1, <1>3, <1>4 DEF Nodes
<1> HIDE DEF left
<1>6. IdleLeads(left)
  <2> SUFFICES ASSUME idle \in Nodes(left) PROVE left[1].node = idle
    BY DEF IdleLeads
  <2>1. 1 \in 1 .. n - 1
    BY <1>1, <1>4 DEF Nodes
  <2>2. table[1].node = idle
    BY <1>5 DEF IdleLeads
  <2> QED BY <1>3, <2>1, <2>2
<1>7. ASSUME DelistedNode(table) = idle PROVE Nodes(left) = {}
  <2>1. table[n].node = idle /\ n \in 1 .. n
    BY <1>1, <1>2, <1>7 DEF DelistedNode, Last
  <2>2. table[1].node = idle
    BY <1>1, <2>1 DEF IdleLeads, Nodes
  <2>3. n = 1
    BY <1>1, <1>2, <2>1, <2>2 DEF Distinct
  <2> QED BY <1>4, <2>3 DEF Nodes
<1> QED BY <1>6, <1>7 DEF left

\* A pass takes its tail from a table that idle leads.
LEMMA ReadyLeads ==
    ASSUME Lapic, SchedInv, NodesAgree, Ranks(priority), IdleLeads(active_threads_table),
           NEW timer \in BOOLEAN
    PROVE  LET aged  == AgedPriority(PriorityBefore(timer))
               ready == WithWoken(Requeued(AgedTable(PriorityBefore(timer)), aged), aged)
           IN  Ranks(aged) /\ IdleLeads(ready)
<1> DEFINE aged  == AgedPriority(PriorityBefore(timer))
           table == AgedTable(PriorityBefore(timer))
           queue == Requeued(table, aged)
           entries == [i \in DOMAIN Woken |-> Entry(Woken[i].node, aged[Woken[i].node])]
<1>1. /\ table \in Seq(Agrees(aged)) /\ queue \in Seq(Agrees(aged))
      /\ Len(table) = Len(active_threads_table)
      /\ \A i \in 1 .. Len(table) : table[i].node = active_threads_table[i].node
      /\ \A t \in Thread : aged[t] = IF Boosted(t) /\ priority[t] > 0
                                     THEN priority[t] - 1 ELSE priority[t]
      /\ aged \in [Thread -> 0 .. Lowest] /\ active_thread \in Thread
      /\ Nodes(table) = Nodes(active_threads_table)
  BY AgingAgrees, ReadyAgrees, AgedFacts DEF SchedInv, Types
<1> HIDE DEF aged, table
<1>2. Ranks(aged)
  <2>1. idle \in Thread /\ ~Boosted(idle) /\ Lowest \in Nat
    BY SchedulerAssumption DEF Thread, Boosted, Waits
  <2>2. ASSUME NEW t \in Thread \ {idle} PROVE aged[t] < Lowest
    <3>1. priority[t] < Lowest /\ priority[t] \in 0 .. Lowest
      BY DEF Ranks
    <3> QED BY <1>1, <2>1, <3>1
  <2> QED BY <1>1, <2>1, <2>2 DEF Ranks
<1>3. IdleLeads(table)
  <2> SUFFICES ASSUME idle \in Nodes(table) PROVE table[1].node = idle
    BY DEF IdleLeads
  <2>1. Len(table) \in Nat /\ DOMAIN table = 1 .. Len(table)
    BY <1>1, AgreesIsTable, TableFacts
  <2>2. 1 \in 1 .. Len(table)
    BY <2>1 DEF Nodes
  <2> QED BY <1>1, <2>2 DEF IdleLeads
<1>4. IdleLeads(queue)
  BY <1>1, <1>2, <1>3, EnlistLeads DEF Requeued
<1>5. /\ Len(Woken) \in Nat /\ DOMAIN Woken = 1 .. Len(Woken)
      /\ \A i \in 1 .. Len(Woken) : Woken[i].node \in Thread
  BY SleepersFacts, TableFacts DEF SchedInv
<1>6. /\ Len(entries) = Len(Woken)
      /\ \A i \in 1 .. Len(Woken) : /\ entries[i].node = Woken[i].node
                                    /\ entries[i].priority = aged[Woken[i].node]
  <2>1. entries = [i \in 1 .. Len(Woken) |-> Entry(Woken[i].node, aged[Woken[i].node])]
    BY <1>5
  <2> HIDE DEF entries
  <2> QED BY <1>5, <2>1 DEF Entry
<1>7. WithWoken(queue, aged) = EnlistAll(queue, entries)
  BY DEF WithWoken
<1> HIDE DEF queue, entries
<1> DEFINE Good == {l \in Seq(Agrees(aged)) : IdleLeads(l)}
<1>8. ASSUME NEW l \in Good, NEW i \in 1 .. Len(entries)
      PROVE  EnlistData(l, entries[i].node, entries[i].priority) \in Good
  <2> DEFINE t == Woken[i].node
  <2>1. t \in Thread /\ entries[i].node = t /\ entries[i].priority = aged[t]
    BY <1>5, <1>6
  <2>2. aged[t] \in 0 .. Word16 - 1
    <3>1. \A p \in 0 .. Lowest : p \in 0 .. Word16 - 1
      BY SchedulerAssumption
    <3> QED BY <1>1, <2>1, <3>1
  <2> HIDE DEF t
  <2>3. EnlistData(l, t, aged[t]) \in Seq(Agrees(aged))
    BY <2>1, <2>2, EnlistAgrees
  <2>4. IdleLeads(EnlistData(l, t, aged[t]))
    BY <1>2, <2>1, EnlistLeads
  <2> QED BY <2>1, <2>3, <2>4
<1>9. queue \in Good /\ Len(entries) \in Nat
  BY <1>1, <1>4, <1>5, <1>6
<1> HIDE DEF Good
<1>10. EnlistAll(queue, entries) \in Good
  BY <1>8, <1>9, EnlistAllWithin
<1> QED BY <1>2, <1>7, <1>10 DEF Good, queue, table, aged

\* What a pass leaves in the active table.
LEMMA PassLeads ==
    ASSUME Lapic, SchedInv, NodesAgree, Ranks(priority), IdleLeads(active_threads_table),
           NEW timer \in BOOLEAN, ScheduleInt(timer)
    PROVE  /\ Ranks(priority') /\ IdleLeads(active_threads_table')
           /\ active_thread' = idle /\ active_thread # idle => Nodes(active_threads_table') = {}
<1> DEFINE aged  == AgedPriority(PriorityBefore(timer))
           ready == WithWoken(Requeued(AgedTable(PriorityBefore(timer)), aged), aged)
<1>1. /\ priority' = aged
      /\ first_schedule => Dispatch(ready)
      /\ ~first_schedule => UNCHANGED <<active_threads_table, active_thread>>
  BY DEF ScheduleInt
<1>2. Ranks(aged) /\ IdleLeads(ready)
  BY ReadyLeads
<1>3. ready \in Table /\ Distinct(ready) /\ ready # <<>>
  BY ReadyFacts DEF SchedInv
<1> HIDE DEF ready, aged
<1>4. CASE first_schedule
  <2>1. active_thread' = DelistedNode(ready) /\ active_threads_table' = DelistData(ready)
    BY <1>1, <1>3, <1>4 DEF Dispatch
  <2> QED BY <1>1, <1>2, <1>3, <2>1, DelistLeads
<1>5. CASE ~first_schedule
  BY <1>1, <1>2, <1>5 DEF IdleLeads
<1> QED BY <1>4, <1>5

\* idle gets the processor only when no other thread is ready, provided idle
\* alone was created with the lowest priority.
THEOREM IdleIsTheLast ==
    ASSUME ChildrenOnly, Lapic, \A t \in Thread \ {idle} : InitPrio[t] < Lowest
    PROVE  Spec => IdleIsLast
<1> DEFINE Leads == Ranks(priority) /\ IdleLeads(active_threads_table)
<1>1. Init => NodesAgree /\ Leads
  <2>1. Init => NodesAgree
    BY EmptySeq DEF Init, NodesAgree
  <2>2. Init => Leads
    BY EmptyTable, SchedulerAssumption DEF Init, Ranks, IdleLeads, Thread
  <2> QED BY <2>1, <2>2
<1>2. SchedInv /\ NodesAgree /\ Leads /\ [Next]_vars => (NodesAgree /\ Leads)'
  <2> SUFFICES ASSUME SchedInv, NodesAgree, Leads, [Next]_vars PROVE Leads'
    BY NodesAgreeKept
  <2>1. ASSUME NEW timer \in BOOLEAN, ScheduleInt(timer) PROVE Leads'
    BY <2>1, PassLeads DEF Ranks, IdleLeads
  <2>2. CASE UNCHANGED <<active_threads_table, priority, active_thread, first_schedule>>
    BY <2>2 DEF Ranks, IdleLeads
  <2>3. ASSUME UNCHANGED <<priority, active_thread, first_schedule>>, NEW u \in Thread \ {idle},
               active_threads_table' = EnlistData(active_threads_table, u,
                                          IF state[u] = "UNUSED" THEN InitPrio[u] ELSE priority[u])
        PROVE  Leads'
    <3>1. active_threads_table' = EnlistData(active_threads_table, u, priority[u])
      BY <2>3 DEF NodesAgree
    <3>2. IdleLeads(EnlistData(active_threads_table, u, priority[u]))
      BY EnlistLeads DEF NodesAgree
    <3> QED BY <2>3, <3>1, <3>2 DEF Ranks, IdleLeads
  <2> HIDE DEF Leads
  <2>4. CASE \E timer \in BOOLEAN : ScheduleInt(timer)
    BY <2>1, <2>4
  <2>5. CASE /\ UNCHANGED <<priority, active_thread, first_schedule>>
             /\ \E u \in Thread \ {idle} :
                   active_threads_table' =
                       EnlistData(active_threads_table, u,
                                  IF state[u] = "UNUSED" THEN InitPrio[u] ELSE priority[u])
    <3>1. PICK u \in Thread \ {idle} :
                 active_threads_table' =
                     EnlistData(active_threads_table, u,
                                IF state[u] = "UNUSED" THEN InitPrio[u] ELSE priority[u])
      BY <2>5
    <3> QED BY <2>3, <2>5, <3>1
  <2> QED BY <2>2, <2>4, <2>5, TableSteps
<1>3. ASSUME SchedInv, NodesAgree, Leads, [Next]_vars, active_thread' = idle, active_thread # idle
      PROVE  \A t \in Nodes(active_threads_table') : priority'[t] >= Lowest
  <2>1. PICK timer \in BOOLEAN : ScheduleInt(timer)
    BY <1>3, TableSteps
  <2> QED BY <1>3, <2>1, PassLeads
<1>4. SchedInv /\ NodesAgree /\ Leads /\ [Next]_vars =>
          [active_thread' = idle /\ active_thread # idle =>
              \A t \in Nodes(active_threads_table') : priority'[t] >= Lowest]_vars
  BY <1>3
<1> HIDE DEF Leads
<1> QED BY <1>1, <1>2, <1>4, Invariance, PTL DEF Spec, IdleIsLast
=============================================================================
