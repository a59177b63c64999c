-------------------------- MODULE KernelListProofs ---------------------------
(***************************************************************************)
(* core/kernel_list.c: for any lists and nodes the links and flags agree,  *)
(* and every function does to the links what PriorityLists says it does to *)
(* the sequence of the nodes.                                              *)
(*                                                                         *)
(* The argument: there is a sequence of nodes for each list, its chain,    *)
(* that next, prev, head and tail spell out; no node is in two of them or  *)
(* twice in one.  A walk from the head meets just the nodes of the chain,  *)
(* so that what the functions find by walking is a matter of the chain.    *)
(***************************************************************************)
EXTENDS KernelList, ListOpsProofs, FiniteSetTheorems

\* The links h, t, nx, pv of a list spell out the sequence c.
Linked(c, h, t, nx, pv) ==
    /\ h = IF Len(c) = 0 THEN NULL ELSE c[1]
    /\ t = IF Len(c) = 0 THEN NULL ELSE c[Len(c)]
    /\ \A i \in 1 .. Len(c) : /\ nx[c[i]] = IF i = Len(c) THEN NULL ELSE c[i + 1]
                              /\ pv[c[i]] = IF i = 1 THEN NULL ELSE c[i - 1]
    /\ \A i, j \in 1 .. Len(c) : c[i] = c[j] => i = j

\* n is a node of the chain c.
In(c, n) == \E i \in 1 .. Len(c) : c[i] = n

\* The chains of all lists: a list that is not allocated has none, no node is
\* in two of them, and the flag of a node says whether it is in one.
Chains(chain) ==
    /\ \A l \in List : Linked(chain[l], head[l], tail[l], next, prev)
    /\ \A l \in List : Len(chain[l]) <= size[l]
    /\ \A l \in List : l \notin lists => chain[l] = <<>>
    /\ \A l, m \in List, n \in Node : In(chain[l], n) /\ In(chain[m], n) => l = m
    /\ \A n \in Node : enlisted[n] <=> \E l \in List : In(chain[l], n)
    /\ \A n \in Node : enlisted[n] => n \in nodes

\* The inductive invariant.
ListsInv == TypeOK /\ \E chain \in [List -> Seq(Node)] : Chains(chain)

-----------------------------------------------------------------------------
(* Walks                                                                   *)

\* A sequence of nodes, all different, is no longer than there are nodes.
LEMMA ChainLength ==
    ASSUME NEW c \in Seq(Node), \A i, j \in 1 .. Len(c) : c[i] = c[j] => i = j
    PROVE  Len(c) \in Nat /\ Len(c) <= Cardinality(Node) /\ Cardinality(Node) \in Nat
<1>1. Len(c) \in Nat /\ c \in [1 .. Len(c) -> Node]
  BY LenProperties
<1>2. IsFiniteSet(Node) /\ Cardinality(Node) \in Nat
  BY KernelListAssumption, FS_CardinalityType
<1>3. c \in Injection(1 .. Len(c), Node)
  BY <1>1 DEF Injection, IsInjective
<1>4. IsFiniteSet(1 .. Len(c)) /\ Cardinality(1 .. Len(c)) = Len(c)
  BY <1>1, FS_Interval
<1>5. Cardinality(1 .. Len(c)) <= Cardinality(Node)
  BY <1>2, <1>3, <1>4, FS_Injection
<1> QED BY <1>1, <1>2, <1>4, <1>5

\* Walk(l), of the links it reads.
WalkOf(h, nx) ==
    LET at[i \in 1 .. Cardinality(Node) + 1] ==
            IF i = 1 THEN h
            ELSE IF at[i - 1] = NULL THEN NULL ELSE nx[at[i - 1]]
    IN  at

\* The nodes of the chain, then nothing.
Met(c) == [i \in 1 .. Cardinality(Node) + 1 |-> IF i <= Len(c) THEN c[i] ELSE NULL]

\* A walk meets the chain and ends.
LEMMA WalkMeets ==
    ASSUME NEW c \in Seq(Node), NEW h, NEW t, NEW nx, NEW pv, Linked(c, h, t, nx, pv)
    PROVE  WalkOf(h, nx) = Met(c)
<1> DEFINE D == 1 .. Cardinality(Node) + 1
           Step(f) == [i \in D |-> IF i = 1 THEN h
                                   ELSE IF f[i - 1] = NULL THEN NULL ELSE nx[f[i - 1]]]
<1>1. /\ Len(c) \in Nat /\ Len(c) <= Cardinality(Node) /\ Cardinality(Node) \in Nat
      /\ \A i \in 1 .. Len(c) : c[i] \in Node /\ c[i] # NULL
  BY ChainLength, ElementOfSeq, KernelListAssumption DEF Linked
<1>2. Met(c) = Step(Met(c))
  <2>1. ASSUME NEW i \in D PROVE Met(c)[i] = Step(Met(c))[i]
    <3>1. CASE i = 1
      BY <1>1, <3>1 DEF Met, Linked
    <3>2. CASE i # 1 /\ i - 1 < Len(c)
      <4>1. i - 1 \in 1 .. Len(c) /\ i - 1 \in D /\ i <= Len(c) /\ i - 1 # Len(c)
        BY <1>1, <3>2
      <4>2. nx[c[i - 1]] = c[i - 1 + 1] /\ i - 1 + 1 = i
        BY <4>1 DEF Linked
      <4> QED BY <1>1, <3>2, <4>1, <4>2 DEF Met
    <3>3. CASE i # 1 /\ i - 1 = Len(c)
      <4>1. i - 1 \in 1 .. Len(c) /\ i - 1 \in D /\ ~ (i <= Len(c))
        BY <1>1, <3>3
      <4>2. nx[c[i - 1]] = NULL
        BY <3>3, <4>1 DEF Linked
      <4> QED BY <1>1, <3>3, <4>1, <4>2 DEF Met
    <3>4. CASE i # 1 /\ i - 1 > Len(c)
      BY <1>1, <3>4 DEF Met
    <3> QED BY <1>1, <3>1, <3>2, <3>3, <3>4
  <2> QED BY <2>1 DEF Met
<1>3. ASSUME NEW f, f = Step(f) PROVE f = Met(c)
  <2> DEFINE Wrong == {i \in D : f[i] # Met(c)[i]}
  <2>1. SUFFICES ASSUME Wrong # {} PROVE FALSE
    <3>1. f = [i \in D |-> f[i]] /\ Met(c) = [i \in D |-> Met(c)[i]]
      BY <1>3 DEF Met
    <3> QED BY <2>1, <3>1
  <2>2. PICK i \in Wrong : \A j \in Wrong : i <= j
    <3>1. Wrong \subseteq Nat
      BY <1>1
    <3> HIDE DEF Wrong
    <3> QED BY <2>1, <3>1, LeastNatural
  <2>3. i # 1
    BY <1>2, <1>3, <2>2
  <2>4. i - 1 \in D /\ i - 1 < i
    BY <1>1, <2>2, <2>3
  <2>5. f[i - 1] = Met(c)[i - 1]
    BY <1>1, <2>2, <2>4
  <2>6. Step(f)[i] = Step(Met(c))[i]
    BY <2>2, <2>5
  <2> HIDE DEF Step
  <2> QED BY <1>2, <1>3, <2>2, <2>6
<1>4. WalkOf(h, nx) = CHOOSE f : f = Step(f)
  BY DEF WalkOf
<1> HIDE DEF Step
<1> QED BY <1>2, <1>3, <1>4

-----------------------------------------------------------------------------
(* What a caller sees of a chain                                           *)

\* The entries of the nodes of a chain.
Listed(c, pr) == [i \in 1 .. Len(c) |-> Entry(c[i], pr[c[i]])]

LEMMA ListedEntries ==
    ASSUME NEW c \in Seq(Node), NEW pr \in [Node -> Nat]
    PROVE  /\ Listed(c, pr) \in ListOf(Node)
           /\ Len(Listed(c, pr)) = Len(c)
           /\ DOMAIN Listed(c, pr) = 1 .. Len(c)
           /\ \A i \in 1 .. Len(c) : /\ Listed(c, pr)[i].node = c[i]
                                     /\ Listed(c, pr)[i].priority = pr[c[i]]
           /\ Nodes(Listed(c, pr)) = {c[i] : i \in 1 .. Len(c)}
<1>1. Len(c) \in Nat /\ \A i \in 1 .. Len(c) : c[i] \in Node
  BY LenProperties, ElementOfSeq
<1>2. \A i \in 1 .. Len(c) : Listed(c, pr)[i] \in [node : Node, priority : Nat]
  BY <1>1 DEF Listed, Entry
<1>3. Listed(c, pr) \in [1 .. Len(c) -> [node : Node, priority : Nat]]
  BY <1>2 DEF Listed
<1>4. Listed(c, pr) \in Seq([node : Node, priority : Nat])
  BY <1>1, <1>2 DEF Listed
<1>5. Len(Listed(c, pr)) = Len(c) /\ DOMAIN Listed(c, pr) = 1 .. Len(c)
  BY <1>1, <1>3, <1>4, LenProperties
<1>6. \A i \in 1 .. Len(c) : /\ Listed(c, pr)[i].node = c[i]
                              /\ Listed(c, pr)[i].priority = pr[c[i]]
  BY DEF Listed, Entry
<1> HIDE DEF Listed
<1>7. Nodes(Listed(c, pr)) = {c[i] : i \in 1 .. Len(c)}
  BY <1>5, <1>6 DEF Nodes
<1> QED BY <1>4, <1>5, <1>6, <1>7 DEF ListOf

\* A list is its entries.
LEMMA ListedIs ==
    ASSUME NEW c \in Seq(Node), NEW pr \in [Node -> Nat], NEW list \in ListOf(Node),
           Len(list) = Len(c),
           \A i \in 1 .. Len(c) : list[i] = Entry(c[i], pr[c[i]])
    PROVE  list = Listed(c, pr)
<1>1. list = [i \in 1 .. Len(c) |-> list[i]]
  BY LenProperties DEF ListOf
<1> QED BY <1>1 DEF Listed

\* Chain(l), of the links and priorities it reads.
ChainOf(h, nx, pr) ==
    LET walk == WalkOf(h, nx)
        met  == {i \in DOMAIN walk : walk[i] # NULL}
    IN  [i \in 1 .. Cardinality(met) |-> Entry(walk[i], pr[walk[i]])]

LEMMA ChainIsListed ==
    ASSUME NEW c \in Seq(Node), NEW h, NEW t, NEW nx, NEW pv, NEW pr \in [Node -> Nat],
           Linked(c, h, t, nx, pv)
    PROVE  ChainOf(h, nx, pr) = Listed(c, pr)
<1>1. /\ Len(c) \in Nat /\ Len(c) <= Cardinality(Node) /\ Cardinality(Node) \in Nat
      /\ \A i \in 1 .. Len(c) : c[i] \in Node /\ c[i] # NULL
  BY ChainLength, ElementOfSeq, KernelListAssumption DEF Linked
<1>2. WalkOf(h, nx) = Met(c)
  BY WalkMeets
<1> DEFINE met == {i \in DOMAIN Met(c) : Met(c)[i] # NULL}
<1>3. met = 1 .. Len(c)
  BY <1>1 DEF Met
<1>4. Cardinality(met) = Len(c)
  <2> HIDE DEF met
  <2>1. Len(c) \in Nat
    BY <1>1
  <2>2. Cardinality(1 .. Len(c)) = Len(c)
    BY ONLY <2>1, FS_Interval
  <2> QED BY <1>3, <2>2
<1>5. ChainOf(h, nx, pr) = [i \in 1 .. Cardinality(met) |-> Entry(Met(c)[i], pr[Met(c)[i]])]
  BY <1>2 DEF ChainOf
<1> HIDE DEF met
<1>6. \A i \in 1 .. Len(c) : Met(c)[i] = c[i]
  BY <1>1 DEF Met
<1> QED BY <1>4, <1>5, <1>6 DEF Listed

-----------------------------------------------------------------------------
(* What the functions do to the links of one list                          *)

\* The nodes of a chain and its neighbours, for the lemmas below.
LEMMA ChainNodes ==
    ASSUME NEW c \in Seq(Node)
    PROVE  Len(c) \in Nat /\ \A i \in 1 .. Len(c) : c[i] \in Node /\ c[i] # NULL
BY LenProperties, ElementOfSeq, KernelListAssumption

\* The list with these links is about to get n at place k of its chain c.
EnlistsAt(c, h, t, nx, pv, k, n, new) ==
    /\ c \in Seq(Node) /\ k \in 1 .. Len(c) + 1 /\ n \in Node
    /\ nx \in [Node -> Node \cup {NULL}] /\ pv \in [Node -> Node \cup {NULL}]
    /\ Linked(c, h, t, nx, pv)
    /\ ~ In(c, n)
    /\ PutIn(c, k, n, new)

\* The links nx2, pv2 spell out new; only those of n and of the nodes of c differ.
Relinked(c, nx, pv, n, new, h2, t2, nx2, pv2) ==
    /\ Linked(new, h2, t2, nx2, pv2)
    /\ nx2 \in [Node -> Node \cup {NULL}] /\ pv2 \in [Node -> Node \cup {NULL}]
    /\ \A m \in Node : m # n /\ ~ In(c, m) => nx2[m] = nx[m] /\ pv2[m] = pv[m]

\* kernel_list_enlist_data, in front of the cursor: what it writes ...
NextBefore(nx, pv, n, cursor) ==
    IF pv[cursor] # NULL THEN [nx EXCEPT ![n] = cursor, ![pv[cursor]] = n]
    ELSE [nx EXCEPT ![n] = cursor]

PrevBefore(pv, n, cursor) == [pv EXCEPT ![n] = pv[cursor], ![cursor] = n]

\* ... puts n into the chain at the place of the cursor.
LEMMA LinkedBefore ==
    ASSUME NEW c, NEW h, NEW t, NEW nx, NEW pv, NEW k, NEW n, NEW new,
           EnlistsAt(c, h, t, nx, pv, k, n, new), k # Len(c) + 1
    PROVE  Relinked(c, nx, pv, n, new, IF pv[c[k]] = NULL THEN n ELSE h, t,
                    NextBefore(nx, pv, n, c[k]), PrevBefore(pv, n, c[k]))
<1> DEFINE nx2 == NextBefore(nx, pv, n, c[k])
           pv2 == PrevBefore(pv, n, c[k])
<1>1. /\ Len(c) \in Nat /\ \A i \in 1 .. Len(c) : c[i] \in Node /\ c[i] # NULL
      /\ n \in Node /\ n # NULL /\ k \in 1 .. Len(c) /\ c \in Seq(Node)
      /\ nx \in [Node -> Node \cup {NULL}] /\ pv \in [Node -> Node \cup {NULL}]
      /\ Linked(c, h, t, nx, pv) /\ \A i \in 1 .. Len(c) : c[i] # n
      /\ \A i, j \in 1 .. Len(c) : c[i] = c[j] => i = j
  BY ChainNodes, KernelListAssumption DEF EnlistsAt, In, Linked
<1>2. /\ Len(new) = Len(c) + 1
      /\ \A i \in 1 .. Len(c) + 1 :
            new[i] = IF i < k THEN c[i] ELSE IF i = k THEN n ELSE c[i - 1]
  BY DEF EnlistsAt, PutIn
<1>3. pv[c[k]] = IF k = 1 THEN NULL ELSE c[k - 1]
  BY <1>1 DEF Linked
<1>4. k # 1 => k - 1 \in 1 .. Len(c)
  BY <1>1
<1>5. /\ nx2 \in [Node -> Node \cup {NULL}] /\ pv2 \in [Node -> Node \cup {NULL}]
      /\ \A m \in Node : nx2[m] = IF k # 1 /\ m = c[k - 1] THEN n
                                  ELSE IF m = n THEN c[k] ELSE nx[m]
      /\ \A m \in Node : pv2[m] = IF m = c[k] THEN n
                                  ELSE IF m = n THEN pv[c[k]] ELSE pv[m]
  <2>1. CASE k = 1
    BY <1>1, <1>3, <2>1 DEF NextBefore, PrevBefore
  <2>2. CASE k # 1
    BY <1>1, <1>3, <1>4, <2>2 DEF NextBefore, PrevBefore
  <2> QED BY <2>1, <2>2
<1> HIDE DEF nx2, pv2
<1>6. (IF pv[c[k]] = NULL THEN n ELSE h) = new[1]
  BY <1>1, <1>2, <1>3, <1>4 DEF Linked
<1>7. t = new[Len(new)]
  <2>1. Len(c) + 1 \in 1 .. Len(c) + 1 /\ ~ (Len(c) + 1 < k) /\ Len(c) + 1 # k
        /\ Len(c) + 1 - 1 = Len(c) /\ Len(c) # 0
    BY <1>1
  <2>2. new[Len(c) + 1] = c[Len(c)]
    <3>1. new[Len(c) + 1] = c[Len(c) + 1 - 1]
      BY <1>2, <2>1
    <3> QED BY <2>1, <3>1
  <2>3. t = c[Len(c)]
    BY <1>1, <2>1 DEF Linked
  <2> QED BY <1>2, <2>2, <2>3
<1>8. ASSUME NEW i \in 1 .. Len(c) + 1
      PROVE  /\ nx2[new[i]] = IF i = Len(c) + 1 THEN NULL ELSE new[i + 1]
             /\ pv2[new[i]] = IF i = 1 THEN NULL ELSE new[i - 1]
  <2>1. CASE i < k
    <3>1. i \in 1 .. Len(c) /\ new[i] = c[i] /\ i # Len(c) + 1 /\ i # Len(c)
          /\ i + 1 \in 1 .. Len(c) + 1
      BY <1>1, <1>2, <2>1
    <3>2. c[i] # c[k] /\ c[i] # n /\ (k # 1 /\ c[i] = c[k - 1] <=> i = k - 1)
      BY <1>1, <1>4, <2>1, <3>1 DEF Linked
    <3>3. pv2[c[i]] = pv[c[i]] /\ pv[c[i]] = IF i = 1 THEN NULL ELSE c[i - 1]
      BY <1>1, <1>5, <3>1, <3>2 DEF Linked
    <3>4. i # 1 => new[i - 1] = c[i - 1]
      BY <1>1, <1>2, <2>1, <3>1
    <3>5. CASE i = k - 1
      <4>1. nx2[c[i]] = n /\ new[i + 1] = n
        BY <1>1, <1>2, <1>5, <3>1, <3>2, <3>5
      <4> QED BY <3>1, <3>3, <3>4, <4>1
    <3>6. CASE i # k - 1
      <4>1. nx2[c[i]] = nx[c[i]] /\ nx[c[i]] = c[i + 1]
        BY <1>1, <1>5, <3>1, <3>2, <3>6 DEF Linked
      <4>2. new[i + 1] = c[i + 1]
        BY <1>1, <1>2, <2>1, <3>1, <3>6
      <4> QED BY <3>1, <3>3, <3>4, <4>1, <4>2
    <3> QED BY <3>5, <3>6
  <2>2. CASE i = k
    <3>1. new[i] = n /\ i + 1 \in 1 .. Len(c) + 1 /\ new[i + 1] = c[k] /\ i # Len(c) + 1
      BY <1>1, <1>2, <2>2
    <3>2. nx2[n] = c[k] /\ pv2[n] = pv[c[k]]
      BY <1>1, <1>4, <1>5
    <3>3. k # 1 => new[k - 1] = c[k - 1]
      BY <1>1, <1>2, <1>4
    <3> QED BY <1>3, <2>2, <3>1, <3>2, <3>3
  <2>3. CASE i > k
    <3>1. i - 1 \in 1 .. Len(c) /\ new[i] = c[i - 1] /\ i # 1
      BY <1>1, <1>2, <2>3
    <3>2. /\ c[i - 1] # n /\ (c[i - 1] = c[k] <=> i - 1 = k)
          /\ ~ (k # 1 /\ c[i - 1] = c[k - 1])
      BY <1>1, <1>4, <2>3, <3>1 DEF Linked
    <3>3. nx2[c[i - 1]] = nx[c[i - 1]]
          /\ nx[c[i - 1]] = IF i - 1 = Len(c) THEN NULL ELSE c[i - 1 + 1]
      BY <1>1, <1>5, <3>1, <3>2 DEF Linked
    <3>4. i # Len(c) + 1 => i + 1 \in 1 .. Len(c) + 1 /\ new[i + 1] = c[i - 1 + 1]
      <4>1. ASSUME i # Len(c) + 1 PROVE i + 1 \in 1 .. Len(c) + 1
        BY <1>1, <4>1
      <4>2. ~ (i + 1 < k) /\ i + 1 # k /\ i + 1 - 1 = i - 1 + 1
        BY <1>1, <2>3
      <4> QED BY <1>2, <4>1, <4>2
    <3>5. (i - 1 = Len(c)) <=> (i = Len(c) + 1)
      BY <1>1
    <3>6. CASE i - 1 = k
      <4>1. pv2[c[i - 1]] = n /\ new[i - 1] = n
        BY <1>1, <1>2, <1>5, <3>1, <3>6
      <4> QED BY <3>1, <3>3, <3>4, <3>5, <4>1
    <3>7. CASE i - 1 # k
      <4>1. i - 1 # 1 /\ ~ (i - 1 < k) /\ i - 1 \in 1 .. Len(c) + 1
        BY <1>1, <2>3, <3>7
      <4>2. pv2[c[i - 1]] = pv[c[i - 1]] /\ pv[c[i - 1]] = c[i - 1 - 1]
        BY <1>1, <1>5, <3>1, <3>2, <3>7, <4>1 DEF Linked
      <4>3. new[i - 1] = c[i - 1 - 1]
        BY <1>2, <3>7, <4>1
      <4> QED BY <3>1, <3>3, <3>4, <3>5, <4>2, <4>3
    <3> QED BY <3>6, <3>7
  <2> QED BY <1>1, <2>1, <2>2, <2>3
<1>9. ASSUME NEW i \in 1 .. Len(c) + 1, NEW j \in 1 .. Len(c) + 1, new[i] = new[j]
      PROVE  i = j
  <2>1. ASSUME NEW x \in 1 .. Len(c) + 1
        PROVE  \/ x < k /\ x \in 1 .. Len(c) /\ new[x] = c[x]
               \/ x = k /\ new[x] = n
               \/ x > k /\ x - 1 \in 1 .. Len(c) /\ new[x] = c[x - 1]
    <3>1. new[x] = IF x < k THEN c[x] ELSE IF x = k THEN n ELSE c[x - 1]
      BY <1>2
    <3>2. x < k => x \in 1 .. Len(c)
      BY <1>1
    <3>3. x > k => x - 1 \in 1 .. Len(c) /\ ~ (x < k) /\ x # k
      BY <1>1
    <3>4. x < k \/ x = k \/ x > k
      BY <1>1
    <3> QED BY <3>1, <3>2, <3>3, <3>4
  <2>2. CASE i = k \/ j = k
    BY <1>1, <1>9, <2>1, <2>2
  <2>3. CASE i # k /\ j # k
    BY <1>1, <1>9, <2>1, <2>3
  <2> QED BY <2>2, <2>3
<1>10. Linked(new, IF pv[c[k]] = NULL THEN n ELSE h, t, nx2, pv2)
  <2>1. Len(new) # 0 /\ Len(new) = Len(c) + 1
    BY <1>1, <1>2
  <2>2. \A i \in 1 .. Len(new) : /\ nx2[new[i]] = IF i = Len(new) THEN NULL ELSE new[i + 1]
                                 /\ pv2[new[i]] = IF i = 1 THEN NULL ELSE new[i - 1]
    BY ONLY <1>8, <2>1
  <2>3. \A i, j \in 1 .. Len(new) : new[i] = new[j] => i = j
    BY <1>9, <2>1
  <2> QED BY ONLY <1>6, <1>7, <2>1, <2>2, <2>3 DEF Linked
<1>11. ASSUME NEW m \in Node, m # n, ~ In(c, m)
       PROVE  nx2[m] = nx[m] /\ pv2[m] = pv[m]
  BY <1>1, <1>4, <1>5, <1>11 DEF In
<1> QED BY <1>5, <1>10, <1>11 DEF Relinked, nx2, pv2

\* kernel_list_enlist_data, off the tail of a list that is not empty.
NextLast(nx, n, t) == [nx EXCEPT ![n] = NULL, ![t] = n]
PrevLast(pv, n, t) == [pv EXCEPT ![n] = t]

LEMMA LinkedLast ==
    ASSUME NEW c, NEW h, NEW t, NEW nx, NEW pv, NEW k, NEW n, NEW new,
           EnlistsAt(c, h, t, nx, pv, k, n, new), k = Len(c) + 1, h # NULL
    PROVE  Relinked(c, nx, pv, n, new, h, n, NextLast(nx, n, t), PrevLast(pv, n, t))
<1> DEFINE nx2 == NextLast(nx, n, t)
           pv2 == PrevLast(pv, n, t)
<1>1. /\ Len(c) \in Nat /\ \A i \in 1 .. Len(c) : c[i] \in Node /\ c[i] # NULL
      /\ n \in Node /\ n # NULL /\ c \in Seq(Node)
      /\ nx \in [Node -> Node \cup {NULL}] /\ pv \in [Node -> Node \cup {NULL}]
      /\ Linked(c, h, t, nx, pv) /\ \A i \in 1 .. Len(c) : c[i] # n
      /\ \A i, j \in 1 .. Len(c) : c[i] = c[j] => i = j
  BY ChainNodes, KernelListAssumption DEF EnlistsAt, In, Linked
<1>2. /\ Len(new) = Len(c) + 1
      /\ new[Len(c) + 1] = n
      /\ \A i \in 1 .. Len(c) : new[i] = c[i]
  <2>1. Len(c) + 1 \in 1 .. Len(c) + 1 /\ ~ (Len(c) + 1 < Len(c) + 1)
    BY <1>1
  <2>2. \A i \in 1 .. Len(c) : i \in 1 .. Len(c) + 1 /\ i < Len(c) + 1
    BY <1>1
  <2> QED BY <2>1, <2>2 DEF EnlistsAt, PutIn
<1>3. Len(c) # 0 /\ Len(c) \in 1 .. Len(c) /\ h = c[1] /\ t = c[Len(c)]
  BY <1>1 DEF Linked
<1>4. /\ nx2 \in [Node -> Node \cup {NULL}] /\ pv2 \in [Node -> Node \cup {NULL}]
      /\ \A m \in Node : nx2[m] = IF m = t THEN n ELSE IF m = n THEN NULL ELSE nx[m]
      /\ \A m \in Node : pv2[m] = IF m = n THEN t ELSE pv[m]
  BY <1>1, <1>3 DEF NextLast, PrevLast
<1> HIDE DEF nx2, pv2
<1>5. h = new[1] /\ n = new[Len(new)] /\ Len(new) # 0
  BY <1>1, <1>2, <1>3
<1>6. ASSUME NEW i \in 1 .. Len(c) + 1
      PROVE  /\ nx2[new[i]] = IF i = Len(c) + 1 THEN NULL ELSE new[i + 1]
             /\ pv2[new[i]] = IF i = 1 THEN NULL ELSE new[i - 1]
  <2>1. CASE i < Len(c)
    <3>1. i \in 1 .. Len(c) /\ i + 1 \in 1 .. Len(c) /\ i # Len(c) + 1 /\ i # Len(c)
      BY <1>1, <2>1
    <3>2. new[i] = c[i] /\ new[i + 1] = c[i + 1] /\ c[i] # t /\ c[i] # n
      BY <1>1, <1>2, <1>3, <3>1 DEF Linked
    <3>3. nx2[c[i]] = c[i + 1] /\ pv2[c[i]] = IF i = 1 THEN NULL ELSE c[i - 1]
      BY <1>1, <1>4, <3>1, <3>2 DEF Linked
    <3>4. i # 1 => new[i - 1] = c[i - 1]
      BY <1>1, <1>2, <3>1
    <3> QED BY <3>1, <3>2, <3>3, <3>4
  <2>2. CASE i = Len(c)
    <3>1. new[i] = t /\ t \in Node /\ t # n /\ i # Len(c) + 1 /\ new[i + 1] = n
      BY <1>1, <1>2, <1>3, <2>2
    <3>2. pv[c[i]] = IF i = 1 THEN NULL ELSE c[i - 1]
      BY <1>1, <1>3, <2>2 DEF Linked
    <3>4. nx2[t] = n /\ pv2[t] = IF i = 1 THEN NULL ELSE c[i - 1]
      BY <1>3, <1>4, <2>2, <3>1, <3>2
    <3>3. i # 1 => new[i - 1] = c[i - 1]
      BY <1>1, <1>2, <1>3, <2>2
    <3> QED BY <3>1, <3>3, <3>4
  <2>3. CASE i = Len(c) + 1
    <3>1. new[i] = n /\ n # t /\ nx2[n] = NULL /\ pv2[n] = t
      BY <1>1, <1>2, <1>3, <1>4, <2>3
    <3>2. i # 1 /\ new[i - 1] = t
      BY <1>1, <1>2, <1>3, <2>3
    <3> QED BY <2>3, <3>1, <3>2
  <2> QED BY <1>1, <2>1, <2>2, <2>3
<1>7. ASSUME NEW i \in 1 .. Len(c) + 1, NEW j \in 1 .. Len(c) + 1, new[i] = new[j]
      PROVE  i = j
  <2>1. \A x \in 1 .. Len(c) + 1 : x = Len(c) + 1 \/ x \in 1 .. Len(c)
    BY <1>1
  <2>2. \A x \in 1 .. Len(c) : new[x] = c[x] /\ c[x] # n
    BY <1>1, <1>2
  <2>3. new[Len(c) + 1] = n
    BY <1>2
  <2>4. CASE i = Len(c) + 1 \/ j = Len(c) + 1
    BY ONLY <1>7, <2>1, <2>2, <2>3, <2>4
  <2>5. CASE i \in 1 .. Len(c) /\ j \in 1 .. Len(c)
    BY <1>1, <1>7, <2>2, <2>5
  <2> QED BY <2>1, <2>4, <2>5
<1>8. Linked(new, h, n, nx2, pv2)
  BY ONLY <1>2, <1>5, <1>6, <1>7 DEF Linked
<1>9. ASSUME NEW m \in Node, m # n, ~ In(c, m)
      PROVE  nx2[m] = nx[m] /\ pv2[m] = pv[m]
  BY <1>1, <1>3, <1>4, <1>9 DEF In
<1> QED BY <1>4, <1>8, <1>9 DEF Relinked, nx2, pv2

\* kernel_list_enlist_data, into an empty list.
NextFirst(nx, n) == [nx EXCEPT ![n] = NULL]
PrevFirst(pv, n) == [pv EXCEPT ![n] = NULL]

LEMMA LinkedFirst ==
    ASSUME NEW c, NEW h, NEW t, NEW nx, NEW pv, NEW k, NEW n, NEW new,
           EnlistsAt(c, h, t, nx, pv, k, n, new), h = NULL
    PROVE  Relinked(c, nx, pv, n, new, n, n, NextFirst(nx, n), PrevFirst(pv, n))
<1>1. Len(c) \in Nat /\ \A i \in 1 .. Len(c) : c[i] # NULL
  BY ChainNodes DEF EnlistsAt
<1>2. Len(c) = 0 /\ k = 1
  BY <1>1 DEF EnlistsAt, Linked
<1>3. Len(new) = 1 /\ new[1] = n
  BY <1>2 DEF EnlistsAt, PutIn
<1>4. /\ NextFirst(nx, n) \in [Node -> Node \cup {NULL}] /\ NextFirst(nx, n)[n] = NULL
      /\ PrevFirst(pv, n) \in [Node -> Node \cup {NULL}] /\ PrevFirst(pv, n)[n] = NULL
      /\ \A m \in Node : m # n => NextFirst(nx, n)[m] = nx[m] /\ PrevFirst(pv, n)[m] = pv[m]
  BY DEF EnlistsAt, NextFirst, PrevFirst
<1>5. Linked(new, n, n, NextFirst(nx, n), PrevFirst(pv, n))
  BY <1>3, <1>4 DEF Linked
<1> QED BY <1>4, <1>5 DEF Relinked

\* new is the chain without its node at place k.
TakenOut(c, k, new) ==
    /\ Len(new) = Len(c) - 1
    /\ \A i \in 1 .. Len(c) - 1 : new[i] = IF i < k THEN c[i] ELSE c[i + 1]

\* The list with these links is about to lose the node at place k of its chain c.
TakesOut(c, h, t, nx, pv, k, new) ==
    /\ c \in Seq(Node) /\ k \in 1 .. Len(c)
    /\ nx \in [Node -> Node \cup {NULL}] /\ pv \in [Node -> Node \cup {NULL}]
    /\ Linked(c, h, t, nx, pv)
    /\ TakenOut(c, k, new)

\* kernel_list_remove_node_from
NextWithout(nx, pv, n) ==
    [m \in Node |-> IF m = n THEN NULL ELSE IF m = pv[n] THEN nx[n] ELSE nx[m]]

PrevWithout(nx, pv, n) ==
    [m \in Node |-> IF m = n THEN NULL ELSE IF m = nx[n] THEN pv[n] ELSE pv[m]]

LEMMA LinkedWithout ==
    ASSUME NEW c, NEW h, NEW t, NEW nx, NEW pv, NEW k, NEW new,
           TakesOut(c, h, t, nx, pv, k, new)
    PROVE  Relinked(c, nx, pv, c[k], new, IF pv[c[k]] = NULL THEN nx[c[k]] ELSE h,
                    IF nx[c[k]] = NULL THEN pv[c[k]] ELSE t,
                    NextWithout(nx, pv, c[k]), PrevWithout(nx, pv, c[k]))
<1> DEFINE nx2 == NextWithout(nx, pv, c[k])
           pv2 == PrevWithout(nx, pv, c[k])
<1>1. /\ Len(c) \in Nat /\ \A i \in 1 .. Len(c) : c[i] \in Node /\ c[i] # NULL
      /\ \A i, j \in 1 .. Len(c) : c[i] = c[j] => i = j
      /\ c \in Seq(Node) /\ k \in 1 .. Len(c)
      /\ nx \in [Node -> Node \cup {NULL}] /\ pv \in [Node -> Node \cup {NULL}]
      /\ Linked(c, h, t, nx, pv)
  BY ChainNodes DEF Linked, TakesOut
<1>2. /\ nx[c[k]] = IF k = Len(c) THEN NULL ELSE c[k + 1]
      /\ pv[c[k]] = IF k = 1 THEN NULL ELSE c[k - 1]
      /\ \A i \in 1 .. Len(c) : /\ nx[c[i]] = IF i = Len(c) THEN NULL ELSE c[i + 1]
                                /\ pv[c[i]] = IF i = 1 THEN NULL ELSE c[i - 1]
  BY <1>1 DEF Linked
<1>3. (k # 1 => k - 1 \in 1 .. Len(c)) /\ (k # Len(c) => k + 1 \in 1 .. Len(c))
  BY <1>1
<1>0. /\ nx2 \in [Node -> Node \cup {NULL}] /\ pv2 \in [Node -> Node \cup {NULL}]
      /\ \A m \in Node : nx2[m] = IF m = c[k] THEN NULL
                                  ELSE IF m = pv[c[k]] THEN nx[c[k]] ELSE nx[m]
      /\ \A m \in Node : pv2[m] = IF m = c[k] THEN NULL
                                  ELSE IF m = nx[c[k]] THEN pv[c[k]] ELSE pv[m]
  BY <1>1 DEF NextWithout, PrevWithout
<1> HIDE DEF nx2, pv2
<1>4. \A m \in Node : ~ In(c, m) => nx2[m] = nx[m] /\ pv2[m] = pv[m]
  BY <1>0, <1>1, <1>2, <1>3, KernelListAssumption DEF In
<1>5. ASSUME NEW i \in 1 .. Len(c), i # k
      PROVE  /\ nx2[c[i]] = IF i = k - 1 THEN (IF k = Len(c) THEN NULL ELSE c[k + 1])
                            ELSE IF i = Len(c) THEN NULL ELSE c[i + 1]
             /\ pv2[c[i]] = IF i = k + 1 THEN (IF k = 1 THEN NULL ELSE c[k - 1])
                            ELSE IF i = 1 THEN NULL ELSE c[i - 1]
  <2>1. c[i] # c[k] /\ (c[i] = pv[c[k]] <=> i = k - 1) /\ (c[i] = nx[c[k]] <=> i = k + 1)
    BY <1>1, <1>2, <1>3, <1>5
  <2>2. nx2[c[i]] = IF i = k - 1 THEN nx[c[k]] ELSE nx[c[i]]
    BY <1>0, <1>1, <2>1
  <2>3. pv2[c[i]] = IF i = k + 1 THEN pv[c[k]] ELSE pv[c[i]]
    BY <1>0, <1>1, <2>1
  <2> QED BY <1>2, <2>2, <2>3
<1> DEFINE N == Len(c) - 1
<1>6. N \in Nat /\ Len(new) = N /\ \A i \in 1 .. N : new[i] = IF i < k THEN c[i] ELSE c[i + 1]
  BY <1>1 DEF TakesOut, TakenOut
<1>7. (IF pv[c[k]] = NULL THEN nx[c[k]] ELSE h) = IF N = 0 THEN NULL ELSE new[1]
  <2>1. h = c[1]
    BY <1>1 DEF Linked
  <2>2. CASE N = 0
    <3>1. Len(c) \in Nat /\ k \in 1 .. Len(c)
      BY <1>1
    <3>2. k = 1 /\ k = Len(c)
      BY <2>2, <3>1
    <3>3. nx[c[k]] = NULL /\ pv[c[k]] = NULL
      BY <1>2, <3>2
    <3> QED BY <2>2, <3>3
  <2>3. CASE N # 0
    BY <1>1, <1>2, <1>3, <1>6, <2>1, <2>3
  <2> QED BY <2>2, <2>3
<1>8. (IF nx[c[k]] = NULL THEN pv[c[k]] ELSE t) = IF N = 0 THEN NULL ELSE new[N]
  <2>1. t = c[Len(c)]
    BY <1>1 DEF Linked
  <2>2. CASE N = 0
    <3>1. Len(c) \in Nat /\ k \in 1 .. Len(c)
      BY <1>1
    <3>2. k = 1 /\ k = Len(c)
      BY <2>2, <3>1
    <3>3. nx[c[k]] = NULL /\ pv[c[k]] = NULL
      BY <1>2, <3>2
    <3> QED BY <2>2, <3>3
  <2>3. CASE N # 0 /\ k = Len(c)
    BY <1>1, <1>2, <1>3, <1>6, <2>1, <2>3
  <2>4. CASE N # 0 /\ k # Len(c)
    <3>1. nx[c[k]] # NULL /\ N \in 1 .. N /\ ~ (N < k) /\ N + 1 = Len(c)
      BY <1>1, <1>2, <1>3, <1>6, <2>4
    <3> QED BY <1>6, <2>1, <2>4, <3>1
  <2> QED BY <2>2, <2>3, <2>4
<1>9. ASSUME NEW i \in 1 .. N
      PROVE  /\ nx2[new[i]] = IF i = N THEN NULL ELSE new[i + 1]
             /\ pv2[new[i]] = IF i = 1 THEN NULL ELSE new[i - 1]
  <2>1. CASE i < k
    <3>1. i \in 1 .. Len(c) /\ i # k /\ new[i] = c[i] /\ i # k + 1 /\ i # Len(c)
      BY <1>1, <1>6, <2>1
    <3>2. pv2[c[i]] = IF i = 1 THEN NULL ELSE c[i - 1]
      BY <1>5, <3>1
    <3>3. i # 1 => new[i - 1] = c[i - 1]
      BY <1>1, <1>6, <2>1
    <3>4. nx2[c[i]] = IF i = N THEN NULL ELSE new[i + 1]
      <4>1. CASE i = k - 1
        <5>1. nx2[c[i]] = IF k = Len(c) THEN NULL ELSE c[k + 1]
          BY <1>5, <3>1, <4>1
        <5>2. (i = N) <=> (k = Len(c))
          BY <1>1, <4>1
        <5>3. i # N => new[i + 1] = c[k + 1]
          BY <1>1, <1>6, <4>1
        <5> QED BY <5>1, <5>2, <5>3
      <4>2. CASE i # k - 1
        <5>1. nx2[c[i]] = c[i + 1]
          BY <1>5, <3>1, <4>2
        <5>2. i # N /\ i + 1 \in 1 .. N /\ i + 1 < k
          BY <1>1, <1>6, <2>1, <4>2
        <5> QED BY <1>6, <5>1, <5>2
      <4> QED BY <4>1, <4>2
    <3> QED BY <3>1, <3>2, <3>3, <3>4
  <2>2. CASE i >= k
    <3>1. i + 1 \in 1 .. Len(c) /\ i + 1 # k /\ new[i] = c[i + 1] /\ i + 1 # k - 1 /\ i + 1 # 1
          /\ i + 1 - 1 = i
      BY <1>1, <1>6, <2>2
    <3>2. nx2[c[i + 1]] = IF i + 1 = Len(c) THEN NULL ELSE c[i + 1 + 1]
      BY <1>5, <3>1
    <3>3. (i = N) <=> (i + 1 = Len(c))
      BY <1>1
    <3>4. i # N => new[i + 1] = c[i + 1 + 1]
      BY <1>1, <1>6, <2>2
    <3>5. pv2[c[i + 1]] = IF i = 1 THEN NULL ELSE new[i - 1]
      <4>1. CASE i = k
        <5>1. pv2[c[i + 1]] = IF k = 1 THEN NULL ELSE c[k - 1]
          BY <1>5, <3>1, <4>1
        <5>2. k # 1 => new[k - 1] = c[k - 1]
          BY <1>1, <1>6, <4>1
        <5> QED BY <4>1, <5>1, <5>2
      <4>2. CASE i # k
        <5>1. i + 1 # k + 1
          BY <1>1, <1>6, <4>2
        <5>2. pv2[c[i + 1]] = c[i]
          BY <1>5, <3>1, <5>1
        <5>3. i # 1 /\ i - 1 \in 1 .. N /\ ~ (i - 1 < k) /\ i - 1 + 1 = i
          BY <1>1, <1>6, <2>2, <4>2
        <5>4. new[i - 1] = c[i]
          BY <1>6, <5>3
        <5> QED BY <5>2, <5>3, <5>4
      <4> QED BY <4>1, <4>2
    <3> QED BY <3>1, <3>2, <3>3, <3>4, <3>5
  <2> QED BY <1>1, <1>6, <2>1, <2>2
<1>10. ASSUME NEW i \in 1 .. N, NEW j \in 1 .. N, new[i] = new[j]
       PROVE  i = j
  <2> DEFINE old(x) == IF x < k THEN x ELSE x + 1
  <2>1. \A x \in 1 .. N : old(x) \in 1 .. Len(c) /\ new[x] = c[old(x)]
    BY <1>1, <1>6
  <2>2. old(i) = old(j)
    BY <1>1, <1>10, <2>1
  <2> QED BY <1>1, <1>6, <2>2
<1> HIDE DEF N
<1>11. Linked(new, IF pv[c[k]] = NULL THEN nx[c[k]] ELSE h,
              IF nx[c[k]] = NULL THEN pv[c[k]] ELSE t, nx2, pv2)
  BY ONLY <1>6, <1>7, <1>8, <1>9, <1>10 DEF Linked
<1> QED BY <1>0, <1>4, <1>11 DEF Relinked, nx2, pv2

-----------------------------------------------------------------------------
(* From the links of one list to all of them                               *)

\* Links that change elsewhere leave a chain alone.
LEMMA LinkedSame ==
    ASSUME NEW c \in Seq(Node), NEW h, NEW t, NEW nx, NEW pv, Linked(c, h, t, nx, pv),
           NEW nx2, NEW pv2, \A n \in Node : In(c, n) => nx2[n] = nx[n] /\ pv2[n] = pv[n]
    PROVE  Linked(c, h, t, nx2, pv2)
<1>1. \A i \in 1 .. Len(c) : nx2[c[i]] = nx[c[i]] /\ pv2[c[i]] = pv[c[i]]
  BY ChainNodes DEF In
<1> QED BY <1>1 DEF Linked

\* d has the chain new for the list l, and else those of chain.
OneChanged(chain, l, new, d) == d[l] = new /\ \A m \in List : m # l => d[m] = chain[m]

\* One function changes the chain of one list by one node: the others keep theirs.
LEMMA ChainsChanged ==
    ASSUME TypeOK, NEW chain \in [List -> Seq(Node)], Chains(chain),
           NEW l \in List, l \in lists, NEW new \in Seq(Node), NEW n \in nodes,
           Linked(new, head'[l], tail'[l], next', prev'), Len(new) <= size'[l],
           \A m \in List \ {l} : /\ head'[m] = head[m] /\ tail'[m] = tail[m]
                                 /\ size'[m] = size[m] /\ ~ In(chain[m], n),
           \A m \in Node : m # n /\ ~ In(chain[l], m) => next'[m] = next[m] /\ prev'[m] = prev[m],
           \A m \in Node : m # n => (In(new, m) <=> In(chain[l], m)),
           \A m \in Node : enlisted'[m] <=> IF m = n THEN In(new, n) ELSE enlisted[m],
           UNCHANGED <<nodes, lists>>
    PROVE  \E d \in [List -> Seq(Node)] : OneChanged(chain, l, new, d) /\ Chains(d)'
<1> DEFINE d == [chain EXCEPT ![l] = new]
<1>1. d \in [List -> Seq(Node)] /\ d[l] = new /\ \A m \in List : m # l => d[m] = chain[m]
  OBVIOUS
<1> HIDE DEF d
<1>2. ASSUME NEW m \in List PROVE Linked(d[m], head'[m], tail'[m], next', prev')
  <2>1. CASE m = l
    BY <1>1, <2>1
  <2>2. CASE m # l
    <3>1. Linked(chain[m], head[m], tail[m], next, prev)
      BY DEF Chains
    <3>2. \A x \in Node : In(chain[m], x) => next'[x] = next[x] /\ prev'[x] = prev[x]
      BY <2>2 DEF Chains
    <3>3. Linked(chain[m], head[m], tail[m], next', prev')
      BY <3>1, <3>2, LinkedSame
    <3> QED BY <1>1, <2>2, <3>3
  <2> QED BY <2>1, <2>2
<1>3. \A m \in List : Len(d[m]) <= size'[m]
  BY <1>1 DEF Chains
<1>4. \A m \in List : m \notin lists' => d[m] = <<>>
  BY <1>1 DEF Chains
<1>5. \A x, y \in List, m \in Node : In(d[x], m) /\ In(d[y], m) => x = y
  <2>1. SUFFICES ASSUME NEW x \in List, NEW y \in List, NEW m \in Node,
                        In(d[x], m), In(d[y], m)
                 PROVE  x = y
    OBVIOUS
  <2>2. CASE m = n
    BY <1>1, <2>1, <2>2
  <2>3. CASE m # n
    BY <1>1, <2>1, <2>3 DEF Chains
  <2> QED BY <2>2, <2>3
<1>6. \A m \in Node : enlisted'[m] <=> \E x \in List : In(d[x], m)
  <2>1. SUFFICES ASSUME NEW m \in Node
                 PROVE  enlisted'[m] <=> \E x \in List : In(d[x], m)
    OBVIOUS
  <2>2. CASE m = n
    BY <1>1, <2>2
  <2>3. CASE m # n
    BY <1>1, <2>3 DEF Chains
  <2> QED BY <2>2, <2>3
<1>7. \A m \in Node : enlisted'[m] => m \in nodes'
  BY DEF Chains
<1>8. Chains(d)'
  BY <1>2, <1>3, <1>4, <1>5, <1>6, <1>7 DEF Chains
<1> QED BY <1>1, <1>8 DEF OneChanged

\* The lists as a caller sees them.
LEMMA ContentsAre ==
    ASSUME TypeOK, NEW chain \in [List -> Seq(Node)], Chains(chain), NEW l \in List
    PROVE  Chain(l) = Listed(chain[l], priority)
<1>1. Linked(chain[l], head[l], tail[l], next, prev) /\ priority \in [Node -> Nat]
  BY DEF Chains, TypeOK
<1>2. ChainOf(head[l], next, priority) = Listed(chain[l], priority)
  BY <1>1, ChainIsListed
<1>3. Chain(l) = ChainOf(head[l], next, priority)
  BY DEF Chain, ChainOf, Walk, WalkOf
<1> QED BY <1>2, <1>3

LEMMA ContentsAfter ==
    ASSUME TypeOK', NEW chain \in [List -> Seq(Node)], Chains(chain)', NEW l \in List
    PROVE  Chain(l)' = Listed(chain[l], priority')
<1>1. Linked(chain[l], head'[l], tail'[l], next', prev') /\ priority' \in [Node -> Nat]
  BY DEF Chains, TypeOK
<1>2. ChainOf(head'[l], next', priority') = Listed(chain[l], priority')
  BY <1>1, ChainIsListed
<1>3. Chain(l)' = ChainOf(head'[l], next', priority')
  BY DEF Chain, ChainOf, Walk, WalkOf
<1> QED BY <1>2, <1>3

\* The priorities of the nodes of a chain are all its entries depend on.
LEMMA SameListed ==
    ASSUME NEW c \in Seq(Node), NEW pr, NEW pr2, \A n \in Node : In(c, n) => pr2[n] = pr[n]
    PROVE  Listed(c, pr2) = Listed(c, pr)
<1>1. \A i \in 1 .. Len(c) : pr2[c[i]] = pr[c[i]]
  BY ChainNodes DEF In
<1> QED BY <1>1 DEF Listed

\* The nodes a caller sees.
LEMMA ListedNodes ==
    ASSUME NEW c \in Seq(Node), NEW pr \in [Node -> Nat], NEW n
    PROVE  n \in Nodes(Listed(c, pr)) <=> In(c, n)
BY ListedEntries DEF In

\* The cursor of the walk is the cursor of the list.
LEMMA CursorFound ==
    ASSUME TypeOK, NEW chain \in [List -> Seq(Node)], Chains(chain),
           NEW l \in List, NEW p \in Priority
    PROVE  LET k == Cursor(Listed(chain[l], priority), p)
           IN  /\ k \in 1 .. Len(chain[l]) + 1
               /\ EnlistCursor(l, p) = IF k = Len(chain[l]) + 1 THEN NULL ELSE chain[l][k]
<1> DEFINE c == chain[l]
           k == Cursor(Listed(c, priority), p)
           low == {n \in Node : priority[n] <= p}
           hits == {i \in DOMAIN Met(c) : Met(c)[i] \in low}
<1>1. /\ Len(c) \in Nat /\ Len(c) <= Cardinality(Node) /\ Cardinality(Node) \in Nat
      /\ \A i \in 1 .. Len(c) : c[i] \in Node /\ c[i] # NULL
      /\ c \in Seq(Node) /\ priority \in [Node -> Nat] /\ p \in Nat
      /\ Linked(c, head[l], tail[l], next, prev)
  BY ChainLength, ElementOfSeq, KernelListAssumption DEF Linked, Chains, TypeOK
<1>2. /\ k \in 1 .. Len(c) + 1
      /\ \A i \in 1 .. k - 1 : priority[c[i]] > p
      /\ k \in 1 .. Len(c) => priority[c[k]] <= p
  <2>1. k \in 1 .. Len(c) + 1 /\ IsCursor(Listed(c, priority), p, k)
    <3> HIDE DEF c
    <3>1. Listed(c, priority) \in ListOf(Node) /\ p \in Nat
      BY <1>1, ListedEntries
    <3>2. Len(Listed(c, priority)) = Len(c)
      BY <1>1, ListedEntries
    <3> QED BY <3>1, <3>2, CursorStops
  <2> HIDE DEF k
  <2>2. \A i \in 1 .. k - 1 : i \in 1 .. Len(c)
    BY <1>1, <2>1
  <2> QED BY <1>1, <2>1, <2>2, ListedEntries DEF IsCursor
<1> HIDE DEF k, c
<1>3. hits = {i \in 1 .. Len(c) : priority[c[i]] <= p}
  BY <1>1, KernelListAssumption DEF Met
<1>4. EnlistCursor(l, p)
        = IF hits = {} THEN NULL ELSE Met(c)[CHOOSE i \in hits : \A j \in hits : i <= j]
  <2> HIDE DEF low
  <2>1. WalkOf(head[l], next) = Met(c)
    BY <1>1, WalkMeets
  <2>2. EnlistCursor(l, p) = FirstOf(WalkOf(head[l], next), low)
    BY DEF EnlistCursor, Walk, WalkOf, low
  <2> QED BY <2>1, <2>2 DEF FirstOf
<1> HIDE DEF low, hits
<1>5. CASE k = Len(c) + 1
  <2>1. hits = {}
    BY <1>1, <1>2, <1>3, <1>5
  <2> QED BY <1>2, <1>4, <1>5, <2>1 DEF k, c
<1>6. CASE k # Len(c) + 1
  <2>1. k \in hits /\ k \in 1 .. Len(c)
    BY <1>1, <1>2, <1>3, <1>6
  <2>2. \A j \in hits : k <= j
    BY <1>1, <1>2, <1>3
  <2>3. \A i \in hits : (\A j \in hits : i <= j) => i = k
    BY <1>1, <1>3, <2>1, <2>2
  <2>4. (CHOOSE i \in hits : \A j \in hits : i <= j) = k
    BY <2>1, <2>2, <2>3
  <2>5. Met(c)[k] = c[k]
    BY <1>1, <2>1 DEF Met
  <2> QED BY <1>2, <1>4, <1>6, <2>1, <2>4, <2>5 DEF k, c
<1> QED BY <1>5, <1>6

-----------------------------------------------------------------------------
(* The functions, one at a time                                            *)

\* PriorityLists means by the operators of ListOps what this module does.
LEMMA SameOperators ==
    ASSUME NEW list
    PROVE  /\ Abstract!Nodes(list) = Nodes(list)
           /\ \A n, p : Abstract!EnlistData(list, n, p) = EnlistData(list, n, p)
           /\ Abstract!DelistData(list) = DelistData(list)
           /\ \A n : Abstract!RemoveNodeFrom(list, n) = RemoveNodeFrom(list, n)
<1>1. Abstract!Nodes(list) = Nodes(list)
  BY DEF Abstract!Nodes, Nodes
<1>2. ASSUME NEW n, NEW p PROVE Abstract!EnlistData(list, n, p) = EnlistData(list, n, p)
  <2>1. Abstract!Cursor(list, p) = Cursor(list, p)
    BY DEF Abstract!Cursor, Cursor, Abstract!IsCursor, IsCursor
  <2> QED BY <2>1 DEF Abstract!EnlistData, EnlistData, Abstract!InsertAt, InsertAt,
                     Abstract!Entry, Entry
<1>3. Abstract!DelistData(list) = DelistData(list)
  BY DEF Abstract!DelistData, DelistData, Abstract!Front, Front
<1>4. ASSUME NEW n PROVE Abstract!RemoveNodeFrom(list, n) = RemoveNodeFrom(list, n)
  <2>1. Abstract!Position(list, n) = Position(list, n)
    BY DEF Abstract!Position, Position
  <2> QED BY <1>1, <2>1 DEF Abstract!RemoveNodeFrom, RemoveNodeFrom, Abstract!RemoveAt, RemoveAt
<1> QED BY <1>1, <1>2, <1>3, <1>4

\* A priority list where one list changed.
LEMMA OneListChanged ==
    ASSUME TypeOK, TypeOK', NEW chain \in [List -> Seq(Node)], Chains(chain),
           NEW l \in List, NEW new, NEW d \in [List -> Seq(Node)],
           OneChanged(chain, l, new, d), Chains(d)',
           \A m \in List, n \in Node : m # l /\ In(chain[m], n) => priority'[n] = priority[n]
    PROVE  /\ Chain(l)' = Listed(new, priority')
           /\ \A m \in List : m # l => Chain(m)' = Chain(m)
<1>1. ASSUME NEW m \in List, m # l PROVE Chain(m)' = Chain(m)
  <2>1. d[m] = chain[m]
    BY <1>1 DEF OneChanged
  <2>2. Chain(m)' = Listed(chain[m], priority') /\ Chain(m) = Listed(chain[m], priority)
    BY <2>1, ContentsAre, ContentsAfter
  <2>3. Listed(chain[m], priority') = Listed(chain[m], priority)
    BY <1>1, SameListed
  <2> QED BY <2>2, <2>3
<1>2. d[l] = new
  BY DEF OneChanged
<1>3. Chain(l)' = Listed(new, priority')
  BY <1>2, ContentsAfter
<1> QED BY <1>1, <1>3

LEMMA EnlistStep ==
    ASSUME TypeOK, NEW chain \in [List -> Seq(Node)], Chains(chain),
           NEW n \in Node, NEW l \in List, NEW p \in Priority, Enlist(n, l, p)
    PROVE  /\ TypeOK' /\ \E d \in [List -> Seq(Node)] : Chains(d)'
           /\ Abstract!Enlist(n, l, p)
<1> DEFINE c == chain[l]
           k == Cursor(Listed(c, priority), p)
           new == InsertAt(c, k, n)
<1>1. /\ p \in Nat /\ n # NULL /\ priority \in [Node -> Nat]
      /\ c \in Seq(Node) /\ Len(c) \in Nat
      /\ Linked(c, head[l], tail[l], next, prev)
      /\ next \in [Node -> Node \cup {NULL}] /\ prev \in [Node -> Node \cup {NULL}]
      /\ \A i \in 1 .. Len(c) : c[i] \in Node /\ c[i] # NULL
  BY KernelListAssumption, ChainNodes DEF TypeOK, Chains
<1>2. /\ k \in 1 .. Len(c) + 1
      /\ EnlistCursor(l, p) = IF k = Len(c) + 1 THEN NULL ELSE c[k]
  BY CursorFound
<1> HIDE DEF k, c
<1>3. new \in Seq(Node) /\ PutIn(c, k, n, new)
  BY <1>1, <1>2, InsertedEntries
<1> HIDE DEF new
<1>4. \A m \in List : ~ In(chain[m], n)
  BY DEF Enlist, Chains
<1>5. ~ In(c, n) /\ \A i \in 1 .. Len(c) : c[i] # n
  BY <1>4 DEF c, In
<1>6. /\ Relinked(c, next, prev, n, new, head'[l], tail'[l], next', prev')
      /\ head' \in [List -> Node \cup {NULL}] /\ tail' \in [List -> Node \cup {NULL}]
      /\ \A m \in List \ {l} : head'[m] = head[m] /\ tail'[m] = tail[m]
  <2>0. EnlistsAt(c, head[l], tail[l], next, prev, k, n, new)
    BY <1>1, <1>2, <1>3, <1>5 DEF EnlistsAt
  <2>1. CASE head[l] = NULL /\ LinkFirst(n, l)
    <3>1. /\ head' = [head EXCEPT ![l] = n] /\ tail' = [tail EXCEPT ![l] = n]
          /\ next' = NextFirst(next, n) /\ prev' = PrevFirst(prev, n)
      BY <2>1 DEF LinkFirst, NextFirst, PrevFirst
    <3>2. Relinked(c, next, prev, n, new, n, n, next', prev')
      BY <2>0, <2>1, <3>1, LinkedFirst
    <3> QED BY <3>1, <3>2 DEF TypeOK
  <2>2. CASE head[l] # NULL /\ EnlistCursor(l, p) # NULL /\ LinkBefore(n, l, EnlistCursor(l, p))
    <3>1. k # Len(c) + 1 /\ EnlistCursor(l, p) = c[k]
      BY <1>2, <2>2
    <3>2. /\ prev' = PrevBefore(prev, n, c[k])
          /\ next' = NextBefore(next, prev, n, c[k])
          /\ head' = IF prev[c[k]] = NULL THEN [head EXCEPT ![l] = n] ELSE head
          /\ tail' = tail
      BY <2>2, <3>1 DEF LinkBefore, NextBefore, PrevBefore
    <3>3. Relinked(c, next, prev, n, new, IF prev[c[k]] = NULL THEN n ELSE head[l], tail[l],
                   next', prev')
      BY <2>0, <3>1, <3>2, LinkedBefore
    <3>4. head'[l] = IF prev[c[k]] = NULL THEN n ELSE head[l]
      BY <3>2 DEF TypeOK
    <3>5. Relinked(c, next, prev, n, new, head'[l], tail'[l], next', prev')
      BY <3>2, <3>3, <3>4
    <3> QED BY <3>2, <3>5 DEF TypeOK
  <2>3. CASE head[l] # NULL /\ EnlistCursor(l, p) = NULL /\ LinkLast(n, l)
    <3>1. k = Len(c) + 1
      BY <1>1, <1>2, <2>3
    <3>2. /\ prev' = PrevLast(prev, n, tail[l])
          /\ next' = NextLast(next, n, tail[l])
          /\ tail' = [tail EXCEPT ![l] = n] /\ head' = head
      BY <2>3 DEF LinkLast, NextLast, PrevLast
    <3>3. Relinked(c, next, prev, n, new, head[l], n, next', prev')
      BY <2>0, <2>3, <3>1, <3>2, LinkedLast
    <3> QED BY <3>2, <3>3 DEF TypeOK
  <2> QED BY <2>1, <2>2, <2>3 DEF Enlist
<1>7. /\ size[l] < MaxSize /\ size' = [size EXCEPT ![l] = @ + 1]
      /\ enlisted' = [enlisted EXCEPT ![n] = TRUE]
      /\ priority' = [priority EXCEPT ![n] = p]
      /\ n \in nodes /\ l \in lists /\ nodes' = nodes /\ lists' = lists
  BY DEF Enlist
<1>8. TypeOK'
  BY <1>1, <1>6, <1>7, KernelListAssumption DEF TypeOK, Relinked
<1>9. \A m \in Node : In(new, m) <=> m = n \/ In(c, m)
  <2>1. Len(new) = Len(c) + 1
        /\ \A i \in 1 .. Len(c) + 1 : new[i] = IF i < k THEN c[i] ELSE IF i = k THEN n ELSE c[i - 1]
    BY <1>3 DEF PutIn
  <2>2. ASSUME NEW m \in Node, In(new, m) PROVE m = n \/ In(c, m)
    <3>1. PICK i \in 1 .. Len(c) + 1 : new[i] = m
      BY <2>1, <2>2 DEF In
    <3>2. \/ new[i] = n
          \/ i \in 1 .. Len(c) /\ new[i] = c[i]
          \/ i - 1 \in 1 .. Len(c) /\ new[i] = c[i - 1]
      BY <1>1, <1>2, <2>1
    <3> QED BY <3>1, <3>2 DEF In
  <2>3. In(new, n)
    <3>1. k \in 1 .. Len(new) /\ new[k] = n
      BY <1>1, <1>2, <2>1
    <3> QED BY <3>1 DEF In
  <2>4. ASSUME NEW m \in Node, In(c, m) PROVE In(new, m)
    <3>1. PICK i \in 1 .. Len(c) : c[i] = m
      BY <2>4 DEF In
    <3>2. CASE i < k
      <4>1. i \in 1 .. Len(new) /\ new[i] = m
        BY <1>1, <2>1, <3>1, <3>2
      <4> QED BY <4>1 DEF In
    <3>3. CASE ~ (i < k)
      <4>1. i + 1 \in 1 .. Len(c) + 1 /\ ~ (i + 1 < k) /\ i + 1 # k /\ i + 1 - 1 = i
        BY <1>1, <1>2, <3>3
      <4>2. i + 1 \in 1 .. Len(new) /\ new[i + 1] = m
        BY <2>1, <3>1, <4>1
      <4> QED BY <4>2 DEF In
    <3> QED BY <3>2, <3>3
  <2> QED BY <2>2, <2>3, <2>4
<1>10. Len(new) <= size'[l]
  <2>1. Len(new) = Len(c) + 1 /\ Len(c) <= size[l] /\ size[l] \in Nat
    BY <1>3 DEF PutIn, Chains, c, TypeOK
  <2>2. size'[l] = size[l] + 1
    BY <1>7 DEF TypeOK
  <2> QED BY <1>1, <2>1, <2>2
<1>11. PICK d \in [List -> Seq(Node)] : OneChanged(chain, l, new, d) /\ Chains(d)'
  <2>1. \A m \in List \ {l} : /\ head'[m] = head[m] /\ tail'[m] = tail[m]
                              /\ size'[m] = size[m] /\ ~ In(chain[m], n)
    BY <1>4, <1>6, <1>7 DEF TypeOK
  <2>2. \A m \in Node : enlisted'[m] <=> IF m = n THEN In(new, n) ELSE enlisted[m]
    BY <1>7, <1>9 DEF TypeOK
  <2>3. \A m \in Node : m # n => (In(new, m) <=> In(chain[l], m))
    BY <1>9 DEF c
  <2>4. \A m \in Node : m # n /\ ~ In(chain[l], m) => next'[m] = next[m] /\ prev'[m] = prev[m]
    BY <1>6 DEF c, Relinked
  <2>5. UNCHANGED <<nodes, lists>> /\ n \in nodes /\ l \in lists
    BY <1>7
  <2>6. Linked(new, head'[l], tail'[l], next', prev')
    BY <1>6 DEF Relinked
  <2> QED BY <1>3, <1>10, <2>1, <2>2, <2>3, <2>4, <2>5, <2>6, ChainsChanged
<1>12. EnlistData(Chain(l), n, p) = Listed(new, priority')
  <2> DEFINE list == Listed(c, priority)
             longer == EnlistData(list, n, p)
  <2>1. Chain(l) = list
    BY ContentsAre DEF c
  <2>2. /\ list \in ListOf(Node) /\ Len(list) = Len(c)
        /\ \A i \in 1 .. Len(c) : list[i] = Entry(c[i], priority[c[i]])
    BY <1>1, ListedEntries DEF Listed
  <2>3. longer \in ListOf(Node) /\ EnlistedAt(list, n, p, k, longer)
    <3> HIDE DEF list
    <3> QED BY <1>1, <2>2, Enlisted DEF k, list
  <2> HIDE DEF list, longer
  <2>4. /\ Len(longer) = Len(c) + 1 /\ Len(new) = Len(c) + 1
        /\ \A i \in 1 .. Len(c) + 1 :
              /\ longer[i] = IF i < k THEN list[i] ELSE IF i = k THEN Entry(n, p) ELSE list[i - 1]
              /\ new[i] = IF i < k THEN c[i] ELSE IF i = k THEN n ELSE c[i - 1]
    BY <1>3, <2>2, <2>3 DEF EnlistedAt, PutIn
  <2>5. \A i \in 1 .. Len(c) : c[i] \in Node /\ c[i] # n
    BY <1>1, <1>5, ChainNodes
  <2>6. ASSUME NEW i \in 1 .. Len(new)
        PROVE  longer[i] = Entry(new[i], priority'[new[i]])
    <3>1. CASE i = k
      BY <1>2, <1>1, <1>7, <2>4, <3>1
    <3>2. CASE i < k
      <4>1. i \in 1 .. Len(c)
        BY <1>1, <1>2, <3>2
      <4> QED BY <1>1, <1>7, <2>2, <2>4, <2>5, <3>2, <4>1
    <3>3. CASE i > k
      <4>1. i - 1 \in 1 .. Len(c) /\ ~ (i < k) /\ i # k /\ i \in 1 .. Len(c) + 1
        BY <1>1, <1>2, <2>4, <3>3
      <4>2. longer[i] = list[i - 1] /\ new[i] = c[i - 1]
        BY <2>4, <4>1
      <4> QED BY <1>1, <1>7, <2>2, <2>5, <4>1, <4>2
    <3> QED BY <1>1, <1>2, <2>4, <3>1, <3>2, <3>3
  <2>7. priority' \in [Node -> Nat]
    BY <1>8 DEF TypeOK
  <2>8. longer = Listed(new, priority')
    BY <1>3, <2>3, <2>4, <2>6, <2>7, ListedIs
  <2> QED BY <2>1, <2>8 DEF longer
<1>13. [m \in List |-> Chain(m)]' = [[m \in List |-> Chain(m)] EXCEPT ![l] = EnlistData(Chain(l), n, p)]
  <2>1. \A m \in List, x \in Node : m # l /\ In(chain[m], x) => priority'[x] = priority[x]
    BY <1>4, <1>7 DEF TypeOK
  <2>2. Chain(l)' = Listed(new, priority') /\ \A m \in List : m # l => Chain(m)' = Chain(m)
    BY <1>8, <1>11, <2>1, OneListChanged
  <2> QED BY <1>12, <2>2
<1>14. Abstract!Unlisted(n)
  <2>1. \A m \in lists : n \notin Nodes(Chain(m))
    BY <1>1, <1>4, ContentsAre, ListedNodes DEF TypeOK
  <2> QED BY <1>7, <2>1, SameOperators DEF Abstract!Unlisted, TypeOK
<1>15. Abstract!Enlist(n, l, p)
  BY <1>7, <1>13, <1>14, SameOperators DEF Abstract!Enlist
<1> QED BY <1>8, <1>11, <1>15

\* The functions that take the node at place k out of its list.
Unlinks(chain, l, k, n) ==
    /\ l \in lists
    /\ k \in 1 .. Len(chain[l]) /\ n = chain[l][k]
    /\ Unlink(n, l)
    /\ enlisted' = [enlisted EXCEPT ![n] = FALSE]
    /\ \/ UNCHANGED size
       \/ size' = [size EXCEPT ![l] = @ - 1]
    /\ UNCHANGED <<nodes, lists, priority>>

LEMMA UnlinkStep ==
    ASSUME TypeOK, NEW chain \in [List -> Seq(Node)], Chains(chain), NEW l \in List,
           NEW k, NEW n, Unlinks(chain, l, k, n)
    PROVE  /\ TypeOK' /\ \E d \in [List -> Seq(Node)] : Chains(d)'
           /\ Chain(l)' = Listed(RemoveAt(chain[l], k), priority)
           /\ \A m \in List : m # l => Chain(m)' = Chain(m)
<1> DEFINE c == chain[l]
           new == RemoveAt(c, k)
<1>1. /\ c \in Seq(Node) /\ Len(c) \in Nat /\ k \in 1 .. Len(c) /\ n = c[k] /\ n \in Node
      /\ Linked(c, head[l], tail[l], next, prev) /\ l \in lists
      /\ next \in [Node -> Node \cup {NULL}] /\ prev \in [Node -> Node \cup {NULL}]
      /\ \A i, j \in 1 .. Len(c) : c[i] = c[j] => i = j
  BY ChainNodes DEF TypeOK, Chains, Unlinks, Linked
<1> HIDE DEF c
<1>2. new \in Seq(Node) /\ TakenOut(c, k, new)
  BY <1>1, RemovedEntries DEF TakenOut
<1> HIDE DEF new
<1>3. /\ next' = NextWithout(next, prev, n) /\ prev' = PrevWithout(next, prev, n)
      /\ head' = IF prev[n] = NULL THEN [head EXCEPT ![l] = next[n]] ELSE head
      /\ tail' = IF next[n] = NULL THEN [tail EXCEPT ![l] = prev[n]] ELSE tail
      /\ enlisted' = [enlisted EXCEPT ![n] = FALSE]
      /\ size' \in {size, [size EXCEPT ![l] = @ - 1]}
      /\ nodes' = nodes /\ lists' = lists /\ priority' = priority
  BY DEF Unlinks, Unlink, NextWithout, PrevWithout
<1>4. /\ head' \in [List -> Node \cup {NULL}] /\ tail' \in [List -> Node \cup {NULL}]
      /\ head'[l] = IF prev[n] = NULL THEN next[n] ELSE head[l]
      /\ tail'[l] = IF next[n] = NULL THEN prev[n] ELSE tail[l]
      /\ \A m \in List \ {l} : head'[m] = head[m] /\ tail'[m] = tail[m]
  BY <1>1, <1>3 DEF TypeOK
<1>5. Relinked(c, next, prev, n, new, head'[l], tail'[l], next', prev')
  <2>1. TakesOut(c, head[l], tail[l], next, prev, k, new)
    BY <1>1, <1>2 DEF TakesOut
  <2>2. Relinked(c, next, prev, c[k], new, IF prev[c[k]] = NULL THEN next[c[k]] ELSE head[l],
                 IF next[c[k]] = NULL THEN prev[c[k]] ELSE tail[l],
                 NextWithout(next, prev, c[k]), PrevWithout(next, prev, c[k]))
    BY <2>1, LinkedWithout
  <2> QED BY <1>1, <1>3, <1>4, <2>2
<1>6. /\ Len(c) <= size[l] /\ size[l] \in 0 .. MaxSize /\ size \in [List -> 0 .. MaxSize]
      /\ MaxSize \in Nat
  BY KernelListAssumption DEF Chains, TypeOK, c
<1>7. /\ size' \in [List -> 0 .. MaxSize] /\ Len(c) - 1 <= size'[l]
      /\ \A m \in List \ {l} : size'[m] = size[m]
  <2>1. CASE size' = size
    BY <1>1, <1>6, <2>1
  <2>2. CASE size' = [size EXCEPT ![l] = @ - 1]
    <3>1. size[l] - 1 \in 0 .. MaxSize
      BY <1>1, <1>6
    <3> QED BY <1>1, <1>6, <2>2, <3>1
  <2> QED BY <1>3, <2>1, <2>2
<1>8. TypeOK'
  BY <1>1, <1>3, <1>4, <1>5, <1>7 DEF TypeOK, Relinked
<1>9. ~ In(new, n) /\ \A m \in Node : m # n => (In(new, m) <=> In(c, m))
  <2>1. Len(new) = Len(c) - 1
        /\ \A i \in 1 .. Len(c) - 1 : new[i] = IF i < k THEN c[i] ELSE c[i + 1]
    BY <1>2 DEF TakenOut
  <2>2. ASSUME NEW m \in Node, In(new, m) PROVE m # n /\ In(c, m)
    <3>1. PICK i \in 1 .. Len(c) - 1 : new[i] = m
      BY <2>1, <2>2 DEF In
    <3>2. PICK j \in 1 .. Len(c) : j # k /\ new[i] = c[j]
      <4>1. CASE i < k
        BY <1>1, <2>1, <4>1
      <4>2. CASE ~ (i < k)
        <5>1. i + 1 \in 1 .. Len(c) /\ i + 1 # k
          BY <1>1, <4>2
        <5> QED BY <2>1, <4>2, <5>1
      <4> QED BY <4>1, <4>2
    <3> QED BY <1>1, <3>1, <3>2 DEF In
  <2>3. ASSUME NEW m \in Node, m # n, In(c, m) PROVE In(new, m)
    <3>1. PICK i \in 1 .. Len(c) : c[i] = m
      BY <2>3 DEF In
    <3>2. i # k
      BY <1>1, <2>3, <3>1
    <3>3. CASE i < k
      <4>1. i \in 1 .. Len(new) /\ new[i] = m
        BY <1>1, <2>1, <3>1, <3>3
      <4> QED BY <4>1 DEF In
    <3>4. CASE i > k
      <4>1. i - 1 \in 1 .. Len(new) /\ ~ (i - 1 < k) /\ i - 1 + 1 = i
        BY <1>1, <2>1, <3>4
      <4>2. new[i - 1] = m
        BY <2>1, <3>1, <4>1
      <4> QED BY <4>1, <4>2 DEF In
    <3> QED BY <1>1, <3>2, <3>3, <3>4
  <2> QED BY <1>1, <2>2, <2>3
<1>10. PICK d \in [List -> Seq(Node)] : OneChanged(chain, l, new, d) /\ Chains(d)'
  <2>1. In(chain[l], n)
    BY <1>1 DEF In, c
  <2>2. n \in nodes /\ \A m \in List \ {l} : ~ In(chain[m], n)
    BY <1>1, <2>1 DEF Chains
  <2>3. \A m \in List \ {l} : /\ head'[m] = head[m] /\ tail'[m] = tail[m]
                              /\ size'[m] = size[m] /\ ~ In(chain[m], n)
    BY <1>4, <1>7, <2>2
  <2>4. \A m \in Node : enlisted'[m] <=> IF m = n THEN In(new, n) ELSE enlisted[m]
    BY <1>3, <1>9 DEF TypeOK
  <2>5. \A m \in Node : m # n => (In(new, m) <=> In(chain[l], m))
    BY <1>9 DEF c
  <2>6. \A m \in Node : m # n /\ ~ In(chain[l], m) => next'[m] = next[m] /\ prev'[m] = prev[m]
    BY <1>5 DEF c, Relinked
  <2>7. Linked(new, head'[l], tail'[l], next', prev') /\ Len(new) <= size'[l]
    BY <1>2, <1>5, <1>7 DEF Relinked, TakenOut
  <2>8. UNCHANGED <<nodes, lists>>
    BY <1>3
  <2> QED BY <1>1, <1>2, <2>2, <2>3, <2>4, <2>5, <2>6, <2>7, <2>8, ChainsChanged
<1>11. \A m \in List, x \in Node : m # l /\ In(chain[m], x) => priority'[x] = priority[x]
  BY <1>3
<1>12. Chain(l)' = Listed(new, priority') /\ \A m \in List : m # l => Chain(m)' = Chain(m)
  BY <1>8, <1>10, <1>11, OneListChanged
<1> QED BY <1>3, <1>8, <1>10, <1>12 DEF new, c

\* Taking a node out of a chain takes its entry out of the list.
LEMMA ListedWithout ==
    ASSUME NEW c \in Seq(Node), NEW pr \in [Node -> Nat], NEW k \in 1 .. Len(c)
    PROVE  RemoveAt(Listed(c, pr), k) = Listed(RemoveAt(c, k), pr)
<1> DEFINE list == Listed(c, pr)
           shorter == RemoveAt(list, k)
           new == RemoveAt(c, k)
<1>1. /\ Len(c) \in Nat /\ list \in Seq([node : Node, priority : Nat]) /\ Len(list) = Len(c)
      /\ \A i \in 1 .. Len(c) : list[i] = Entry(c[i], pr[c[i]])
  BY ChainNodes, ListedEntries DEF ListOf, Listed
<1> HIDE DEF list
<1>2. /\ shorter \in Seq([node : Node, priority : Nat]) /\ Len(shorter) = Len(c) - 1
      /\ \A i \in 1 .. Len(c) - 1 : shorter[i] = IF i < k THEN list[i] ELSE list[i + 1]
  <2>1. k \in 1 .. Len(list)
    BY <1>1
  <2> QED BY <1>1, <2>1, RemovedEntries
<1>3. /\ new \in Seq(Node) /\ Len(new) = Len(c) - 1
      /\ \A i \in 1 .. Len(c) - 1 : new[i] = IF i < k THEN c[i] ELSE c[i + 1]
  BY RemovedEntries
<1> HIDE DEF shorter, new
<1>4. ASSUME NEW i \in 1 .. Len(new) PROVE shorter[i] = Entry(new[i], pr[new[i]])
  <2>1. i \in 1 .. Len(c) - 1 /\ i \in 1 .. Len(c) /\ i + 1 \in 1 .. Len(c)
    BY <1>1, <1>3
  <2>2. CASE i < k
    BY <1>1, <1>2, <1>3, <2>1, <2>2
  <2>3. CASE ~ (i < k)
    BY <1>1, <1>2, <1>3, <2>1, <2>3
  <2> QED BY <2>2, <2>3
<1>5. shorter = Listed(new, pr)
  BY <1>2, <1>3, <1>4, ListedIs DEF ListOf
<1> QED BY <1>5 DEF shorter, new, list

\* The rest of a list without its tail.
LEMMA FrontIsRemoveAt ==
    ASSUME NEW R, NEW list \in Seq(R), Len(list) # 0
    PROVE  Front(list) = RemoveAt(list, Len(list))
<1> DEFINE n == Len(list)
<1>1. n \in Nat /\ n # 0 /\ \A i \in 1 .. n - 1 : list[i] \in R
  BY LenProperties, ElementOfSeq
<1>2. SubSeq(list, 1, n - 1) \in Seq(R)
  BY <1>1, SubSeqProperties
<1>3. SubSeq(list, n + 1, n) = << >>
  BY <1>1, SubSeqEmpty
<1>4. SubSeq(list, 1, n - 1) \o << >> = SubSeq(list, 1, n - 1)
  BY <1>2, ConcatEmptySeq
<1> QED BY <1>3, <1>4 DEF Front, RemoveAt

LEMMA RemoveFromStep ==
    ASSUME TypeOK, NEW chain \in [List -> Seq(Node)], Chains(chain),
           NEW n \in Node, NEW l \in List, RemoveFrom(l, n)
    PROVE  /\ TypeOK' /\ \E d \in [List -> Seq(Node)] : Chains(d)'
           /\ Abstract!RemoveFrom(l, n)
<1> DEFINE c == chain[l]
<1>1. /\ c \in Seq(Node) /\ Len(c) \in Nat /\ Linked(c, head[l], tail[l], next, prev)
      /\ \A i, j \in 1 .. Len(c) : c[i] = c[j] => i = j
      /\ n # NULL /\ priority \in [Node -> Nat]
  BY ChainNodes, KernelListAssumption DEF Chains, Linked, TypeOK
<1>2. PICK k \in 1 .. Len(c) : c[k] = n
  <2>1. Walk(l) = Met(c)
    <3>1. WalkOf(head[l], next) = Met(c)
      BY <1>1, WalkMeets
    <3> QED BY <3>1 DEF Walk, WalkOf
  <2>2. PICK i \in DOMAIN Met(c) : Met(c)[i] = n
    BY <2>1 DEF RemoveFrom
  <2>3. i \in 1 .. Cardinality(Node) + 1 /\ i <= Len(c) /\ c[i] = n
    BY <1>1, <2>2 DEF Met
  <2>4. i \in 1 .. Len(c)
    BY <1>1, <2>3
  <2> QED BY <2>3, <2>4
<1>3. Unlinks(chain, l, k, n)
  BY <1>2 DEF RemoveFrom, Unlinks
<1>4. /\ TypeOK' /\ \E d \in [List -> Seq(Node)] : Chains(d)'
      /\ Chain(l)' = Listed(RemoveAt(c, k), priority)
      /\ \A m \in List : m # l => Chain(m)' = Chain(m)
  BY <1>3, UnlinkStep
<1>5. Chain(l) = Listed(c, priority)
  BY ContentsAre
<1> HIDE DEF c
<1> DEFINE list == Listed(c, priority)
<1>6. /\ Len(list) = Len(c) /\ DOMAIN list = 1 .. Len(c) /\ n \in Nodes(list)
      /\ \A i \in 1 .. Len(c) : list[i].node = c[i]
  BY <1>1, <1>2, ListedEntries
<1> HIDE DEF list
<1>7. Position(list, n) = k
  <2>1. Position(list, n) \in DOMAIN list /\ list[Position(list, n)].node = n
    BY <1>1, <1>6, PositionFound
  <2> QED BY <1>1, <1>2, <1>6, <2>1
<1>8. RemoveNodeFrom(Chain(l), n) = Listed(RemoveAt(c, k), priority)
  <2>1. RemoveNodeFrom(list, n) = RemoveAt(list, k)
    BY <1>6, <1>7 DEF RemoveNodeFrom
  <2>2. RemoveAt(list, k) = Listed(RemoveAt(c, k), priority)
    BY <1>1, ListedWithout DEF list
  <2> QED BY <1>5, <2>1, <2>2 DEF list
<1>9. [m \in List |-> Chain(m)]'
        = [[m \in List |-> Chain(m)] EXCEPT ![l] = RemoveNodeFrom(Chain(l), n)]
  BY <1>4, <1>8
<1>10. l \in lists /\ n \in Nodes(Chain(l)) /\ UNCHANGED <<nodes, lists>>
  BY <1>5, <1>6 DEF RemoveFrom, list
<1>11. Abstract!RemoveFrom(l, n)
  BY <1>9, <1>10, SameOperators DEF Abstract!RemoveFrom
<1> QED BY <1>4, <1>11

LEMMA DelistStep ==
    ASSUME TypeOK, NEW chain \in [List -> Seq(Node)], Chains(chain),
           NEW l \in List, Delist(l)
    PROVE  /\ TypeOK' /\ \E d \in [List -> Seq(Node)] : Chains(d)'
           /\ Abstract!Delist(l)
<1> DEFINE c == chain[l]
           k == Len(c)
           n == tail[l]
<1>1. /\ c \in Seq(Node) /\ Len(c) \in Nat /\ Linked(c, head[l], tail[l], next, prev)
      /\ priority \in [Node -> Nat]
      /\ \A i \in 1 .. Len(c) : c[i] \in Node
      /\ next \in [Node -> Node \cup {NULL}] /\ prev \in [Node -> Node \cup {NULL}]
      /\ head \in [List -> Node \cup {NULL}] /\ tail \in [List -> Node \cup {NULL}]
  BY ChainNodes DEF Chains, TypeOK
<1> HIDE DEF c
<1>2. k \in 1 .. Len(c) /\ n = c[k] /\ n \in Node /\ next[n] = NULL /\ l \in lists
  <2>1. l \in lists /\ head[l] # NULL
    BY DEF Delist
  <2>2. Len(c) # 0 /\ tail[l] = c[Len(c)]
    BY <1>1, <2>1 DEF Linked
  <2>3. Len(c) \in 1 .. Len(c)
    BY <1>1, <2>2
  <2>4. next[c[Len(c)]] = NULL
    BY <1>1, <2>3 DEF Linked
  <2> QED BY <1>1, <2>1, <2>2, <2>3, <2>4
<1>3. Unlink(n, l)
  <2> HIDE DEF n
  <2>1. NULL \notin Node
    BY KernelListAssumption
  <2>2. prev' = [m \in Node |-> IF m = n THEN NULL ELSE IF m = next[n] THEN prev[n] ELSE prev[m]]
    BY <1>1, <1>2, <2>1 DEF Delist, n
  <2>3. CASE prev[n] # NULL
    <3>1. next' = [next EXCEPT ![prev[n]] = NULL, ![n] = NULL]
          /\ tail' = [tail EXCEPT ![l] = prev[n]] /\ head' = head
      BY <2>3 DEF Delist, n
    <3>2. next' = [m \in Node |-> IF m = n THEN NULL ELSE IF m = prev[n] THEN next[n] ELSE next[m]]
      BY <1>1, <1>2, <3>1
    <3> QED BY <1>2, <2>2, <2>3, <3>1, <3>2 DEF Unlink
  <2>4. CASE prev[n] = NULL
    <3>1. next' = [next EXCEPT ![n] = NULL]
          /\ tail' = [tail EXCEPT ![l] = NULL] /\ head' = [head EXCEPT ![l] = NULL]
      BY <2>4 DEF Delist, n
    <3>2. next' = [m \in Node |-> IF m = n THEN NULL ELSE IF m = prev[n] THEN next[n] ELSE next[m]]
      BY <1>1, <1>2, <2>1, <2>4, <3>1
    <3> QED BY <1>2, <2>2, <2>4, <3>1, <3>2 DEF Unlink
  <2> QED BY <2>3, <2>4
<1>4. Unlinks(chain, l, k, n)
  BY <1>2, <1>3 DEF Delist, Unlinks, c
<1> HIDE DEF n, k
<1>5. /\ TypeOK' /\ \E d \in [List -> Seq(Node)] : Chains(d)'
      /\ Chain(l)' = Listed(RemoveAt(c, k), priority)
      /\ \A m \in List : m # l => Chain(m)' = Chain(m)
  BY <1>4, UnlinkStep DEF c
<1>6. Chain(l) = Listed(c, priority)
  BY ContentsAre DEF c
<1> DEFINE list == Listed(c, priority)
<1>7. list \in Seq([node : Node, priority : Nat]) /\ Len(list) = Len(c) /\ k = Len(c)
  BY <1>1, ListedEntries DEF ListOf, k
<1> HIDE DEF list
<1>8. DelistData(list) = RemoveAt(list, k)
  BY <1>1, <1>2, <1>7, FrontIsRemoveAt DEF DelistData
<1>9. DelistData(Chain(l)) = Listed(RemoveAt(c, k), priority)
  <2>1. RemoveAt(list, k) = Listed(RemoveAt(c, k), priority)
    BY <1>1, <1>2, ListedWithout DEF list
  <2> QED BY <1>6, <1>8, <2>1 DEF list
<1>10. [m \in List |-> Chain(m)]' = [[m \in List |-> Chain(m)] EXCEPT ![l] = DelistData(Chain(l))]
  BY <1>5, <1>9
<1>11. Chain(l) # <<>>
  BY <1>1, <1>2, <1>6, <1>7 DEF list
<1>12. Abstract!Delist(l)
  BY <1>2, <1>10, <1>11, SameOperators DEF Abstract!Delist, Delist
<1> QED BY <1>5, <1>12

\* The functions that change no list leave what a caller sees.
LEMMA SameContents ==
    ASSUME TypeOK, TypeOK', NEW chain \in [List -> Seq(Node)], Chains(chain), Chains(chain)',
           \A l \in List, n \in Node : In(chain[l], n) => priority'[n] = priority[n]
    PROVE  [l \in List |-> Chain(l)]' = [l \in List |-> Chain(l)]
<1>1. ASSUME NEW l \in List PROVE Chain(l)' = Chain(l)
  <2>1. Chain(l)' = Listed(chain[l], priority') /\ Chain(l) = Listed(chain[l], priority)
    BY ContentsAre, ContentsAfter
  <2>2. Listed(chain[l], priority') = Listed(chain[l], priority)
    BY SameListed
  <2> QED BY <2>1, <2>2
<1> QED BY <1>1

LEMMA CreateNodeStep ==
    ASSUME TypeOK, NEW chain \in [List -> Seq(Node)], Chains(chain),
           NEW n \in Node, CreateNode(n)
    PROVE  TypeOK' /\ Chains(chain)' /\ Abstract!CreateNode(n)
<1>1. TypeOK'
  BY DEF TypeOK, CreateNode
<1>2. ~ enlisted[n] /\ \A l \in List : ~ In(chain[l], n)
  BY DEF Chains, CreateNode
<1>3. \A l \in List, m \in Node : In(chain[l], m) => next'[m] = next[m] /\ prev'[m] = prev[m]
  BY <1>2 DEF CreateNode, TypeOK
<1>4. \A l \in List : Linked(chain[l], head[l], tail[l], next', prev')
  BY <1>3, LinkedSame DEF Chains
<1>5. \A m \in Node : enlisted'[m] <=> enlisted[m]
  BY <1>2 DEF CreateNode, TypeOK
<1>6. Chains(chain)'
  <2>1. head' = head /\ tail' = tail /\ size' = size /\ lists' = lists /\ nodes \subseteq nodes'
    BY DEF CreateNode
  <2> QED BY <1>4, <1>5, <2>1 DEF Chains
<1>7. \A l \in List, m \in Node : In(chain[l], m) => priority'[m] = priority[m]
  BY <1>2 DEF CreateNode, TypeOK
<1>8. [l \in List |-> Chain(l)]' = [l \in List |-> Chain(l)]
  BY <1>1, <1>6, <1>7, SameContents
<1> QED BY <1>1, <1>6, <1>8 DEF Abstract!CreateNode, CreateNode

LEMMA DeleteNodeStep ==
    ASSUME TypeOK, NEW chain \in [List -> Seq(Node)], Chains(chain),
           NEW n \in Node, DeleteNode(n)
    PROVE  TypeOK' /\ Chains(chain)' /\ Abstract!DeleteNode(n)
<1>1. TypeOK' /\ priority \in [Node -> Nat]
  BY DEF TypeOK, DeleteNode, links
<1>2. Chains(chain)'
  BY DEF Chains, DeleteNode, links
<1>3. [l \in List |-> Chain(l)]' = [l \in List |-> Chain(l)]
  BY <1>1, <1>2, SameContents DEF DeleteNode, links
<1>4. \A l \in List : n \notin Nodes(Chain(l))
  <2>1. \A l \in List : ~ In(chain[l], n)
    BY DEF DeleteNode, Chains
  <2> QED BY <1>1, <2>1, ContentsAre, ListedNodes
<1>5. Abstract!Unlisted(n)
  BY <1>4, SameOperators DEF Abstract!Unlisted, DeleteNode, TypeOK
<1> QED BY <1>1, <1>2, <1>3, <1>5 DEF Abstract!DeleteNode, DeleteNode

LEMMA CreateListStep ==
    ASSUME TypeOK, NEW chain \in [List -> Seq(Node)], Chains(chain),
           NEW l \in List, CreateList(l)
    PROVE  TypeOK' /\ Chains(chain)' /\ Abstract!CreateList(l)
<1>1. TypeOK'
  BY KernelListAssumption DEF TypeOK, CreateList
<1>2. chain[l] = <<>> /\ Len(chain[l]) = 0
  BY DEF Chains, CreateList
<1>3. /\ head' = [head EXCEPT ![l] = NULL] /\ tail' = [tail EXCEPT ![l] = NULL]
      /\ size' = [size EXCEPT ![l] = 0] /\ lists' = lists \cup {l}
      /\ UNCHANGED <<nodes, next, prev, priority, enlisted>>
  BY DEF CreateList
<1>4. ASSUME NEW m \in List
      PROVE  Linked(chain[m], head'[m], tail'[m], next, prev) /\ Len(chain[m]) <= size'[m]
  <2>1. CASE m = l
    BY <1>2, <1>3, <2>1 DEF Linked, TypeOK
  <2>2. CASE m # l
    BY <1>3, <2>2 DEF Chains, TypeOK
  <2> QED BY <2>1, <2>2
<1>5. Chains(chain)'
  BY <1>3, <1>4 DEF Chains
<1>6. [m \in List |-> Chain(m)]' = [m \in List |-> Chain(m)]
  BY <1>1, <1>3, <1>5, SameContents
<1> QED BY <1>1, <1>5, <1>6 DEF Abstract!CreateList, CreateList

LEMMA DeleteListStep ==
    ASSUME TypeOK, NEW chain \in [List -> Seq(Node)], Chains(chain),
           NEW l \in List, DeleteList(l)
    PROVE  TypeOK' /\ Chains(chain)' /\ Abstract!DeleteList(l)
<1>1. TypeOK'
  BY DEF TypeOK, DeleteList, links
<1>2. chain[l] \in Seq(Node) /\ Len(chain[l]) \in Nat /\ \A i \in 1 .. Len(chain[l]) : chain[l][i] # NULL
  BY ChainNodes
<1>3. Len(chain[l]) = 0
  <2>1. Linked(chain[l], NULL, tail[l], next, prev)
    BY DEF DeleteList, Chains
  <2> QED BY <1>2, <2>1 DEF Linked
<1>4. chain[l] = <<>>
  BY <1>2, <1>3, EmptySeq
<1>5. Chains(chain)'
  BY <1>4 DEF Chains, DeleteList, links
<1>6. [m \in List |-> Chain(m)]' = [m \in List |-> Chain(m)]
  BY <1>1, <1>5, SameContents DEF DeleteList, links
<1>7. Chain(l) = <<>>
  <2>1. Chain(l) = Listed(chain[l], priority)
    BY ContentsAre
  <2> QED BY <1>3, <2>1 DEF Listed
<1> QED BY <1>1, <1>5, <1>6, <1>7 DEF Abstract!DeleteList, DeleteList

LEMMA AgeStep ==
    ASSUME TypeOK, NEW chain \in [List -> Seq(Node)], Chains(chain),
           NEW n \in Node, Age(n)
    PROVE  TypeOK' /\ Chains(chain)' /\ \E l \in List : Abstract!Age(n, l)
<1>1. /\ priority \in [Node -> Nat] /\ priority[n] > 0
      /\ priority' = [priority EXCEPT ![n] = @ - 1] /\ priority[n] - 1 \in Nat
  BY DEF TypeOK, Age
<1>2. TypeOK'
  BY <1>1 DEF TypeOK, Age
<1>3. Chains(chain)'
  BY DEF Chains, Age
<1>4. PICK l \in List : In(chain[l], n)
  BY DEF Chains, Age
<1>5. l \in lists
  <2>1. chain[l] # <<>>
    BY <1>4 DEF In
  <2> QED BY <2>1 DEF Chains
<1> DEFINE c == chain[l]
<1>6. /\ c \in Seq(Node) /\ Len(c) \in Nat
      /\ \A i, j \in 1 .. Len(c) : c[i] = c[j] => i = j
      /\ \A i \in 1 .. Len(c) : c[i] \in Node
  BY ChainNodes DEF Chains, Linked
<1>7. PICK i \in 1 .. Len(c) : c[i] = n
  BY <1>4 DEF In
<1>8. ASSUME NEW m \in List, m # l PROVE Chain(m)' = Chain(m)
  <2>1. ~ In(chain[m], n)
    BY <1>4, <1>8 DEF Chains
  <2>2. \A x \in Node : In(chain[m], x) => priority'[x] = priority[x]
    BY <1>1, <2>1
  <2>3. Listed(chain[m], priority') = Listed(chain[m], priority)
    BY <2>2, SameListed
  <2>4. Chain(m)' = Listed(chain[m], priority') /\ Chain(m) = Listed(chain[m], priority)
    BY <1>2, <1>3, ContentsAre, ContentsAfter
  <2> QED BY <2>3, <2>4
<1>9. Chain(l) = Listed(c, priority) /\ Chain(l)' = Listed(c, priority')
  BY <1>2, <1>3, ContentsAre, ContentsAfter
<1> HIDE DEF c
<1> DEFINE list == Listed(c, priority)
<1>10. /\ DOMAIN list = 1 .. Len(c) /\ list[i].node = n /\ list[i].priority > 0
       /\ list = [j \in 1 .. Len(c) |-> [node |-> c[j], priority |-> priority[c[j]]]]
  BY <1>1, <1>6, <1>7, ListedEntries DEF Listed, Entry
<1>11. Listed(c, priority') = [list EXCEPT ![i].priority = @ - 1]
  <2>1. Listed(c, priority') = [j \in 1 .. Len(c) |-> [node |-> c[j], priority |-> priority'[c[j]]]]
    BY DEF Listed, Entry
  <2>2. \A j \in 1 .. Len(c) : priority'[c[j]] = IF j = i THEN priority[c[j]] - 1 ELSE priority[c[j]]
    BY <1>1, <1>6, <1>7
  <2> HIDE DEF list
  <2>3. [list EXCEPT ![i].priority = @ - 1]
          = [j \in 1 .. Len(c) |-> IF j = i THEN [list[i] EXCEPT !.priority = @ - 1] ELSE list[j]]
    BY <1>10
  <2>4. \A j \in 1 .. Len(c) :
           [node |-> c[j], priority |-> priority'[c[j]]]
             = IF j = i THEN [list[i] EXCEPT !.priority = @ - 1] ELSE list[j]
    BY <1>10, <2>2
  <2> QED BY <2>1, <2>3, <2>4
<1>12. [m \in List |-> Chain(m)]'
         = [[m \in List |-> Chain(m)] EXCEPT ![l][i].priority = @ - 1]
  BY <1>8, <1>9, <1>11
<1>13. Abstract!Age(n, l)
  <2>1. i \in DOMAIN Chain(l) /\ Chain(l)[i].node = n /\ Chain(l)[i].priority > 0
    BY <1>9, <1>10
  <2>2. UNCHANGED <<nodes, lists>>
    BY DEF Age
  <2> QED BY <1>5, <1>12, <2>1, <2>2 DEF Abstract!Age
<1> QED BY <1>2, <1>3, <1>13

-----------------------------------------------------------------------------
(* The theorems                                                            *)

LEMMA ListsInit == Init => ListsInv /\ Abstract!Init
<1> SUFFICES ASSUME Init PROVE ListsInv /\ Abstract!Init
  OBVIOUS
<1> DEFINE chain == [l \in List |-> <<>>]
<1>1. TypeOK
  BY KernelListAssumption DEF Init, TypeOK
<1>2. chain \in [List -> Seq(Node)] /\ Chains(chain)
  BY DEF Init, Chains, Linked, In
<1> HIDE DEF chain
<1>3. \A l \in List : Chain(l) = Listed(chain[l], priority)
  BY <1>1, <1>2, ContentsAre
<1>4. \A l \in List : Chain(l) = <<>>
  BY <1>3 DEF Listed, chain
<1> QED BY <1>1, <1>2, <1>4 DEF ListsInv, Abstract!Init, Init

LEMMA ListsStep ==
    ListsInv /\ [Next]_vars
      => ListsInv' /\ [Abstract!Next]_<<nodes, lists, [l \in List |-> Chain(l)]>>
<1> SUFFICES ASSUME ListsInv, [Next]_vars
             PROVE  ListsInv' /\ [Abstract!Next]_<<nodes, lists, [l \in List |-> Chain(l)]>>
  OBVIOUS
<1> USE DEF ListsInv
<1>0. PICK chain \in [List -> Seq(Node)] : Chains(chain)
  OBVIOUS
<1>1. ASSUME NEW n \in Node, CreateNode(n) PROVE ListsInv' /\ Abstract!Next
  BY <1>0, <1>1, CreateNodeStep DEF Abstract!Next
<1>2. ASSUME NEW n \in Node, DeleteNode(n) PROVE ListsInv' /\ Abstract!Next
  BY <1>0, <1>2, DeleteNodeStep DEF Abstract!Next
<1>3. ASSUME NEW n \in Node, Age(n) PROVE ListsInv' /\ Abstract!Next
  BY <1>0, <1>3, AgeStep DEF Abstract!Next
<1>4. ASSUME NEW l \in List, CreateList(l) PROVE ListsInv' /\ Abstract!Next
  BY <1>0, <1>4, CreateListStep DEF Abstract!Next
<1>5. ASSUME NEW l \in List, DeleteList(l) PROVE ListsInv' /\ Abstract!Next
  BY <1>0, <1>5, DeleteListStep DEF Abstract!Next
<1>6. ASSUME NEW l \in List, Delist(l) PROVE ListsInv' /\ Abstract!Next
  BY <1>0, <1>6, DelistStep DEF Abstract!Next
<1>7. ASSUME NEW n \in Node, NEW l \in List, NEW p \in Priority, Enlist(n, l, p)
      PROVE  ListsInv' /\ Abstract!Next
  BY <1>0, <1>7, EnlistStep DEF Abstract!Next
<1>8. ASSUME NEW n \in Node, NEW l \in List, RemoveFrom(l, n) PROVE ListsInv' /\ Abstract!Next
  BY <1>0, <1>8, RemoveFromStep DEF Abstract!Next
<1>9. CASE UNCHANGED vars
  <2>1. TypeOK' /\ Chains(chain)' /\ priority' = priority
    BY <1>0, <1>9 DEF vars, links, TypeOK, Chains
  <2>2. [l \in List |-> Chain(l)]' = [l \in List |-> Chain(l)]
    BY <1>0, <2>1, SameContents
  <2> QED BY <1>9, <2>1, <2>2 DEF vars
<1> QED BY <1>1, <1>2, <1>3, <1>4, <1>5, <1>6, <1>7, <1>8, <1>9 DEF Next

\* Every list has a chain that its links spell out, in every state.
THEOREM ListsInvariant == Spec => []ListsInv
<1>1. Init => ListsInv
  BY ListsInit
<1>2. ListsInv /\ [Next]_vars => ListsInv'
  BY ListsStep
<1> QED BY <1>1, <1>2, PTL DEF Spec

\* Every field of a node and of a list holds a value of its C type; the size
\* field never falls below zero.
THEOREM ListsTypes == Spec => []TypeOK
<1>1. ListsInv => TypeOK
  BY DEF ListsInv
<1> QED BY <1>1, ListsInvariant, PTL

\* The two directions of every list agree with each other, the flags with both,
\* and no node is in two lists.
THEOREM ListsAreWellLinked == Spec => []WellLinked
<1>1. ASSUME ListsInv PROVE WellLinked
  <2>1. PICK chain \in [List -> Seq(Node)] : Chains(chain)
    BY <1>1 DEF ListsInv
  <2>2. TypeOK
    BY <1>1 DEF ListsInv
  <2>3. ASSUME NEW l \in List
        PROVE  /\ Len(Chain(l)) = Len(chain[l]) /\ DOMAIN Chain(l) = 1 .. Len(chain[l])
               /\ \A i \in 1 .. Len(chain[l]) : Chain(l)[i].node = chain[l][i]
               /\ Nodes(Chain(l)) = {chain[l][i] : i \in 1 .. Len(chain[l])}
               /\ Len(chain[l]) \in Nat /\ Len(chain[l]) <= Cardinality(Node)
               /\ Linked(chain[l], head[l], tail[l], next, prev) /\ Len(chain[l]) <= size[l]
    <3>1. Chain(l) = Listed(chain[l], priority) /\ priority \in [Node -> Nat]
      BY <2>1, <2>2, ContentsAre DEF TypeOK
    <3>2. Linked(chain[l], head[l], tail[l], next, prev) /\ Len(chain[l]) <= size[l]
      BY <2>1 DEF Chains
    <3>3. Len(chain[l]) \in Nat /\ Len(chain[l]) <= Cardinality(Node)
      BY <3>2, ChainLength DEF Linked
    <3>4. /\ Len(Listed(chain[l], priority)) = Len(chain[l])
          /\ DOMAIN Listed(chain[l], priority) = 1 .. Len(chain[l])
          /\ \A i \in 1 .. Len(chain[l]) : Listed(chain[l], priority)[i].node = chain[l][i]
          /\ Nodes(Listed(chain[l], priority)) = {chain[l][i] : i \in 1 .. Len(chain[l])}
      BY <3>1, ListedEntries
    <3> QED BY <3>1, <3>2, <3>3, <3>4
  <2>4. LinksAgree
    <3> SUFFICES ASSUME NEW l \in lists
                 PROVE  /\ Len(Chain(l)) <= Cardinality(Node)
                        /\ \A i \in DOMAIN Chain(l) :
                              prev[Chain(l)[i].node] = IF i = 1 THEN NULL ELSE Chain(l)[i - 1].node
                        /\ tail[l] = IF Chain(l) = <<>> THEN NULL ELSE Last(Chain(l)).node
                        /\ Len(Chain(l)) <= size[l]
      BY DEF LinksAgree
    <3>1. l \in List
      BY <2>2 DEF TypeOK
    <3>2. \A i \in DOMAIN Chain(l) :
             prev[Chain(l)[i].node] = IF i = 1 THEN NULL ELSE Chain(l)[i - 1].node
      BY <2>3, <3>1 DEF Linked
    <3>3. tail[l] = IF Chain(l) = <<>> THEN NULL ELSE Last(Chain(l)).node
      <4>1. CASE Len(chain[l]) = 0
        <5>1. Chain(l) = Listed(chain[l], priority)
          BY <2>1, <2>2, <3>1, ContentsAre
        <5>2. Chain(l) = <<>>
          BY <4>1, <5>1 DEF Listed
        <5> QED BY <2>3, <3>1, <4>1, <5>2 DEF Linked
      <4>2. CASE Len(chain[l]) # 0
        <5>1. Chain(l) # <<>> /\ Len(chain[l]) \in 1 .. Len(chain[l])
          BY <2>3, <3>1, <4>2
        <5> QED BY <2>3, <3>1, <4>2, <5>1 DEF Linked, Last
      <4> QED BY <4>1, <4>2
    <3> QED BY <2>3, <3>1, <3>2, <3>3
  <2>5. \A l \in List, n \in Node : n \in Nodes(Chain(l)) <=> In(chain[l], n)
    BY <2>3 DEF In
  <2>6. \A l \in List : Nodes(Chain(l)) \subseteq Node
    BY <2>1, <2>3, ChainNodes
  <2>7. \A l \in List, n \in Node : In(chain[l], n) => l \in lists
    <3>1. SUFFICES ASSUME NEW l \in List, NEW n \in Node, In(chain[l], n), l \notin lists
                   PROVE  FALSE
      OBVIOUS
    <3>2. chain[l] = <<>>
      BY <2>1, <3>1 DEF Chains
    <3> QED BY <3>1, <3>2 DEF In
  <2>8. FlagIsTruth
    <3>1. lists \subseteq List /\ nodes \subseteq Node
      BY <2>2 DEF TypeOK
    <3>2. \A n \in nodes : enlisted[n] <=> \E l \in lists : n \in Nodes(Chain(l))
      BY <2>1, <2>5, <2>7, <3>1 DEF Chains
    <3>3. \A l \in lists : Nodes(Chain(l)) \subseteq nodes
      BY <2>1, <2>5, <2>6, <3>1 DEF Chains
    <3>4. \A l, m \in lists : l # m => Nodes(Chain(l)) \cap Nodes(Chain(m)) = {}
      BY <2>1, <2>5, <2>6, <3>1 DEF Chains
    <3> QED BY <3>2, <3>3, <3>4 DEF FlagIsTruth
  <2> QED BY <2>4, <2>8 DEF WellLinked
<1> QED BY <1>1, ListsInvariant, PTL

\* The functions of kernel_list.c implement the priority lists of its header.
THEOREM ListsAreAsPromised == Spec => ImplementsPriorityLists
<1>1. Init => ListsInv /\ Abstract!Init
  BY ListsInit
<1>2. ListsInv /\ [Next]_vars
        => ListsInv' /\ [Abstract!Next]_<<nodes, lists, [l \in List |-> Chain(l)]>>
  BY ListsStep
<1> QED BY <1>1, <1>2, PTL DEF Spec, ImplementsPriorityLists, Abstract!Spec, Abstract!vars
=============================================================================
