--------------------------- MODULE SessionProofs ---------------------------
(***************************************************************************)
(* Theorems about Session, for every set of files, nodes and names and     *)
(* every bound of the histories.                                           *)
(***************************************************************************)
EXTENDS Session, TLAPS, FiniteSetTheorems

-----------------------------------------------------------------------------
(***************************************************************************)
(* Trees, and the ids of what is in them.                                  *)
(***************************************************************************)
InTree(t, n, r) == t.up[n] = r \/ (t.up[n] \in Nodes /\ t.up[t.up[n]] = r)

\* What a step, made or undone, leaves of a tree.
LEMMA AttachedTree ==
    ASSUME NEW t \in Tree, NEW ns, NEW at \in Nodes \union Roots \union {None}
    PROVE  /\ Attached(t, ns, at) \in Tree
           /\ Attached(t, ns, at).name = t.name
           /\ \A n \in Nodes : Attached(t, ns, at).up[n] = IF n \in ns THEN at ELSE t.up[n]
<1> DEFINE up == [n \in Nodes |-> IF n \in ns THEN at ELSE t.up[n]]
<1>1. up \in [Nodes -> Nodes \union Roots \union {None}]
  BY DEF Tree
<1>2. Attached(t, ns, at) = [t EXCEPT !.up = up]
  BY DEF Attached
<1>3. \A n \in Nodes : up[n] = IF n \in ns THEN at ELSE t.up[n]
  OBVIOUS
<1> HIDE DEF up
<1> QED
  BY <1>1, <1>2, <1>3 DEF Tree

LEMMA NamedTree ==
    ASSUME NEW t \in Tree, NEW ns, NEW a \in Names
    PROVE  /\ Named(t, ns, a) \in Tree
           /\ Named(t, ns, a).up = t.up
           /\ \A n \in Nodes : Named(t, ns, a).name[n] = IF n \in ns THEN a ELSE t.name[n]
<1> DEFINE name == [n \in Nodes |-> IF n \in ns THEN a ELSE t.name[n]]
<1>1. name \in [Nodes -> Names]
  BY DEF Tree
<1>2. Named(t, ns, a) = [t EXCEPT !.name = name]
  BY DEF Named
<1>3. \A n \in Nodes : name[n] = IF n \in ns THEN a ELSE t.name[n]
  OBVIOUS
<1> HIDE DEF name
<1> QED
  BY <1>1, <1>2, <1>3 DEF Tree

\* The top of a node's tree, where that is a root.
LEMMA OwnerInTree ==
    ASSUME NEW t \in Tree, Shallow(t), NEW n \in Nodes, NEW r \in Roots
    PROVE  ownerSourceOf(t, n) = r <=> InTree(t, n, r)
<1>1. /\ Nodes \intersect Roots = {} /\ None \notin Nodes \union Roots
      /\ t.up[n] \in Nodes \union Roots \union {None}
  BY SessionAssumption DEF Tree
<1>2. CASE t.up[n] = None
  BY <1>1, <1>2 DEF ownerSourceOf, InTree, Up
<1>3. CASE t.up[n] \in Roots
  BY <1>1, <1>3 DEF ownerSourceOf, InTree, Up
<1>4. CASE t.up[n] \in Nodes
  <2>1. t.up[t.up[n]] \in Roots \union {None}
    BY <1>4 DEF Shallow, Tree
  <2> QED
    BY <1>1, <1>4, <2>1 DEF ownerSourceOf, InTree, Up
<1> QED
  BY <1>1, <1>2, <1>3, <1>4

\* The nodes of the open files.
LEMMA InOpen ==
    ASSUME NEW t \in Tree, Shallow(t), NEW srcs \in [Sources -> Roots \union {None}], NEW n \in Nodes
    PROVE  n \in OpenNodes(t, srcs) <=> \E r \in Open(srcs) : InTree(t, n, r)
<1>1. Open(srcs) \subseteq Roots
  BY DEF Open
<1> QED
  BY <1>1, OwnerInTree DEF OpenNodes

LEMMA InFlat ==
    ASSUME NEW t \in Tree, Shallow(t), NEW r \in Roots, NEW n \in Nodes
    PROVE  n \in flatten(t, r) <=> InTree(t, n, r)
BY OwnerInTree DEF flatten

\* An id begins with the label of the tree its node is in.
LEMMA IdInTree ==
    ASSUME NEW t \in Tree, NEW n \in Nodes, NEW r \in Roots, InTree(t, n, r)
    PROVE  id(t, n) \in Ids /\ id(t, n)[1] = Label[r]
<1>1. Nodes \intersect Roots = {}
  BY SessionAssumption
<1>2. CASE t.up[n] = r
  <2>1. id(t, n) = <<Label[r], t.name[n]>> /\ t.name[n] \in Names
    BY <1>2 DEF id, IsEntry, Tree
  <2> QED
    BY <2>1 DEF Ids
<1>3. CASE t.up[n] \in Nodes /\ t.up[t.up[n]] = r
  <2>1. /\ id(t, n) = <<Label[r], t.name[t.up[n]], t.name[n]>>
        /\ t.name[n] \in Names /\ t.name[t.up[n]] \in Names
    BY <1>1, <1>3 DEF id, IsEntry, Tree
  <2> QED
    BY <2>1 DEF Ids
<1> QED
  BY <1>2, <1>3 DEF InTree

-----------------------------------------------------------------------------
(***************************************************************************)
(* The index of a set of nodes.                                            *)
(***************************************************************************)
IndexOf(t, index, ns) ==
    /\ index \in [Ids -> Nodes \union {None}]
    /\ \A n \in ns : index[id(t, n)] \in ns /\ id(t, index[id(t, n)]) = id(t, n)
    /\ \A i \in Ids : i \notin IdsOf(t, ns) => index[i] = None

NotedIn(t, shared, ns) ==
    /\ shared \subseteq Ids
    /\ \A m, n \in ns : m # n /\ id(t, m) = id(t, n) => id(t, n) \in shared

\* Each id of what is indexed is one of theirs; every other is as it was.
LEMMA IndexedAt ==
    ASSUME NEW t, NEW index \in [Ids -> Nodes \union {None}], NEW ns \in SUBSET Nodes
    PROVE  /\ Indexed(t, index, ns) \in [Ids -> Nodes \union {None}]
           /\ \A n \in ns : id(t, n) \in Ids =>
                  LET m == Indexed(t, index, ns)[id(t, n)] IN m \in ns /\ id(t, m) = id(t, n)
           /\ \A i \in Ids : i \notin IdsOf(t, ns) => Indexed(t, index, ns)[i] = index[i]
<1> DEFINE at(i) == IF i \in IdsOf(t, ns) THEN CHOOSE n \in ns : id(t, n) = i ELSE index[i]
<1>1. Indexed(t, index, ns) = [i \in Ids |-> at(i)]
  BY DEF Indexed
<1>2. \A i \in IdsOf(t, ns) : at(i) \in ns /\ id(t, at(i)) = i
  <2> SUFFICES ASSUME NEW i \in IdsOf(t, ns) PROVE at(i) \in ns /\ id(t, at(i)) = i
    OBVIOUS
  <2>1. \E n \in ns : id(t, n) = i
    BY DEF IdsOf
  <2>2. LET n == CHOOSE n \in ns : id(t, n) = i IN n \in ns /\ id(t, n) = i
    BY <2>1
  <2> QED
    BY <2>2
<1>3. \A i \in Ids : i \notin IdsOf(t, ns) => at(i) = index[i]
  OBVIOUS
<1>4. \A n \in ns : id(t, n) \in IdsOf(t, ns)
  BY DEF IdsOf
<1> HIDE DEF at
<1>5. \A i \in Ids : at(i) \in Nodes \union {None}
  BY <1>2, <1>3
<1> QED
  BY <1>1, <1>2, <1>3, <1>4, <1>5

LEMMA WithoutAt ==
    ASSUME NEW index \in [Ids -> Nodes \union {None}], NEW is
    PROVE  /\ Without(index, is) \in [Ids -> Nodes \union {None}]
           /\ \A i \in Ids : Without(index, is)[i] = IF i \in is THEN None ELSE index[i]
BY DEF Without

\* Every tree again: the ids of what is open, and which of them are shared.
LEMMA AllIndexed ==
    ASSUME NEW t, NEW ns \in SUBSET Nodes, \A n \in ns : id(t, n) \in Ids
    PROVE  IndexOf(t, Indexed(t, Empty, ns), ns) /\ NotedIn(t, Shared(t, Empty, ns), ns)
<1>1. Empty \in [Ids -> Nodes \union {None}] /\ \A i \in Ids : Empty[i] = None
  BY DEF Empty
<1>2. IndexOf(t, Indexed(t, Empty, ns), ns)
  BY <1>1, IndexedAt DEF IndexOf
<1>3. NotedIn(t, Shared(t, Empty, ns), ns)
  BY DEF NotedIn, Shared, IdsOf
<1> QED
  BY <1>2, <1>3

\* Some nodes' ids taken out and others' put in, as a tree takes another's place or goes.
LEMMA Replaced ==
    ASSUME NEW t, NEW before \in SUBSET Nodes, NEW out \in SUBSET before, NEW ns \in SUBSET Nodes,
           NEW index, NEW shared, IndexOf(t, index, before), NotedIn(t, shared, before),
           \A n \in before \union ns : id(t, n) \in Ids,
           \A m \in before \ out, n \in out \union ns : id(t, m) # id(t, n)
    PROVE  LET cleared == Without(index, IdsOf(t, out))
               after   == (before \ out) \union ns
           IN  /\ IndexOf(t, Indexed(t, cleared, ns), after)
               /\ NotedIn(t, shared \union Shared(t, cleared, ns), after)
<1> DEFINE cleared == Without(index, IdsOf(t, out))
           after   == (before \ out) \union ns
           new     == Indexed(t, cleared, ns)
<1>1. /\ cleared \in [Ids -> Nodes \union {None}]
      /\ \A i \in Ids : cleared[i] = IF i \in IdsOf(t, out) THEN None ELSE index[i]
  BY WithoutAt DEF IndexOf
<1> HIDE DEF cleared
<1>2. /\ new \in [Ids -> Nodes \union {None}]
      /\ \A n \in ns : id(t, n) \in Ids => new[id(t, n)] \in ns /\ id(t, new[id(t, n)]) = id(t, n)
      /\ \A i \in Ids : i \notin IdsOf(t, ns) => new[i] = cleared[i]
  BY <1>1, IndexedAt
<1> HIDE DEF new
<1>3. ASSUME NEW n \in after
      PROVE  new[id(t, n)] \in after /\ id(t, new[id(t, n)]) = id(t, n)
  <2>1. CASE n \in ns
    BY <1>2, <2>1
  <2>2. CASE n \in before \ out
    <3>1. /\ id(t, n) \in Ids /\ id(t, n) \notin IdsOf(t, out) /\ id(t, n) \notin IdsOf(t, ns)
      BY <2>2 DEF IdsOf
    <3>2. new[id(t, n)] = index[id(t, n)]
      BY <1>1, <1>2, <3>1
    <3>3. index[id(t, n)] \in before /\ id(t, index[id(t, n)]) = id(t, n)
      BY <2>2 DEF IndexOf
    <3>4. index[id(t, n)] \notin out
      BY <3>1, <3>3 DEF IdsOf
    <3> QED
      BY <3>2, <3>3, <3>4
  <2> QED
    BY <1>3, <2>1, <2>2
<1>4. ASSUME NEW i \in Ids, i \notin IdsOf(t, after)
      PROVE  new[i] = None
  <2>1. i \notin IdsOf(t, ns) /\ (i \in IdsOf(t, before) => i \in IdsOf(t, out))
    BY <1>4 DEF IdsOf
  <2>2. i \notin IdsOf(t, before) => index[i] = None
    BY DEF IndexOf
  <2> QED
    BY <1>1, <1>2, <2>1, <2>2
<1>5. IndexOf(t, new, after)
  BY <1>2, <1>3, <1>4 DEF IndexOf
<1>6. NotedIn(t, shared \union Shared(t, cleared, ns), after)
  BY DEF NotedIn, Shared, IdsOf
<1> QED
  BY <1>5, <1>6 DEF new, cleared

\* What of `after` shared one of `ids` with what left.
Back(t, keyed, noted, ids, after, leaving) ==
    {n \in after \ leaving : id(t, n) \in ids \intersect noted /\ keyed[id(t, n)] = None}

\* reindexAround: out with what was under an entry, in with what is, and back what shared
\* an id with one that left.
LEMMA Rekeyed ==
    ASSUME NEW t0, NEW t, NEW before \in SUBSET Nodes, NEW out \in SUBSET before,
           NEW after \in SUBSET Nodes, NEW ns \in SUBSET after, NEW leaving,
           NEW index, NEW shared, IndexOf(t0, index, before), NotedIn(t0, shared, before),
           \A n \in before : id(t0, n) \in Ids, \A n \in after : id(t, n) \in Ids,
           after \ ns = before \ out, after \intersect leaving = {},
           \A n \in after \ ns : id(t, n) = id(t0, n)
    PROVE  LET ids     == IdsOf(t0, out)
               cleared == Without(index, ids)
               keyed   == Indexed(t, cleared, ns)
               noted   == shared \union Shared(t, cleared, ns)
               back    == Back(t, keyed, noted, ids, after, leaving)
           IN  /\ IndexOf(t, Indexed(t, keyed, back), after)
               /\ NotedIn(t, noted \union Shared(t, keyed, back), after)
<1> DEFINE ids     == IdsOf(t0, out)
           cleared == Without(index, ids)
           keyed   == Indexed(t, cleared, ns)
           noted   == shared \union Shared(t, cleared, ns)
           back    == Back(t, keyed, noted, ids, after, leaving)
           new     == Indexed(t, keyed, back)
<1>1. /\ cleared \in [Ids -> Nodes \union {None}]
      /\ \A i \in Ids : cleared[i] = IF i \in ids THEN None ELSE index[i]
  BY WithoutAt DEF IndexOf
<1> HIDE DEF cleared
<1>2. /\ keyed \in [Ids -> Nodes \union {None}]
      /\ \A n \in ns : keyed[id(t, n)] \in ns /\ id(t, keyed[id(t, n)]) = id(t, n)
      /\ \A i \in Ids : i \notin IdsOf(t, ns) => keyed[i] = cleared[i]
  <2>1. ns \in SUBSET Nodes /\ \A n \in ns : id(t, n) \in Ids
    OBVIOUS
  <2> QED
    BY <1>1, <2>1, IndexedAt
<1> HIDE DEF keyed
<1>3. /\ new \in [Ids -> Nodes \union {None}]
      /\ \A n \in back : new[id(t, n)] \in back /\ id(t, new[id(t, n)]) = id(t, n)
      /\ \A i \in Ids : i \notin IdsOf(t, back) => new[i] = keyed[i]
  <2>1. back \in SUBSET Nodes /\ \A n \in back : id(t, n) \in Ids
    BY DEF Back
  <2> HIDE DEF back
  <2>2. keyed \in [Ids -> Nodes \union {None}]
    BY <1>2
  <2> QED
    BY <2>1, <2>2, IndexedAt
<1> HIDE DEF new
\* What stayed, and is indexed still.
<1>4. ASSUME NEW n \in after \ ns, id(t, n) \notin ids
      PROVE  LET m == index[id(t, n)] IN m \in after \ ns /\ id(t, m) = id(t, n)
  <2> DEFINE m == index[id(t, n)]
  <2>1. n \in before /\ id(t, n) = id(t0, n)
    BY <1>4
  <2>2. m \in before /\ id(t0, m) = id(t0, n)
    BY <2>1 DEF IndexOf
  <2>3. m \notin out
    BY <1>4, <2>1, <2>2 DEF IdsOf
  <2>4. m \in after \ ns
    BY <2>2, <2>3
  <2> QED
    BY <2>1, <2>2, <2>4
\* What shared an id with what left is known to have.
<1>5. ASSUME NEW n \in after \ ns, id(t, n) \in ids
      PROVE  id(t, n) \in shared
  <2>1. n \in before \ out /\ id(t, n) = id(t0, n)
    BY <1>5
  <2>2. PICK m \in out : id(t0, m) = id(t0, n)
    BY <1>5, <2>1 DEF IdsOf
  <2> QED
    BY <2>1, <2>2 DEF NotedIn
<1>6. ASSUME NEW n \in after
      PROVE  new[id(t, n)] \in after /\ id(t, new[id(t, n)]) = id(t, n)
  <2>1. CASE id(t, n) \in IdsOf(t, back)
    <3>1. PICK m \in back : id(t, m) = id(t, n)
      BY <2>1 DEF IdsOf
    <3>2. back \subseteq after
      BY DEF Back
    <3> HIDE DEF back
    <3> QED
      BY <1>3, <3>1, <3>2
  <2>2. CASE id(t, n) \notin IdsOf(t, back)
    <3>1. new[id(t, n)] = keyed[id(t, n)]
      BY <1>3, <2>2
    <3>2. CASE id(t, n) \in IdsOf(t, ns)
      <4>1. PICK m \in ns : id(t, m) = id(t, n)
        BY <3>2 DEF IdsOf
      <4> QED
        BY <1>2, <3>1, <4>1
    <3>3. CASE id(t, n) \notin IdsOf(t, ns) /\ id(t, n) \notin ids
      <4>1. n \in after \ ns
        BY <3>3 DEF IdsOf
      <4>2. keyed[id(t, n)] = index[id(t, n)]
        BY <1>1, <1>2, <3>3
      <4> QED
        BY <1>4, <3>1, <3>3, <4>1, <4>2
    <3>4. CASE id(t, n) \notin IdsOf(t, ns) /\ id(t, n) \in ids
      <4>1. n \in after \ ns
        BY <3>4 DEF IdsOf
      <4>2. keyed[id(t, n)] = None
        BY <1>1, <1>2, <3>4
      <4>3. n \in back
        BY <1>5, <3>4, <4>1, <4>2 DEF Back
      <4> QED
        BY <2>2, <4>3 DEF IdsOf
    <3> QED
      BY <3>2, <3>3, <3>4
  <2> QED
    BY <2>1, <2>2
<1>7. ASSUME NEW i \in Ids, i \notin IdsOf(t, after)
      PROVE  new[i] = None
  <2>1. i \notin IdsOf(t, back) /\ i \notin IdsOf(t, ns)
    <3>1. back \subseteq after
      BY DEF Back
    <3> HIDE DEF back
    <3> QED
      BY <1>7, <3>1 DEF IdsOf
  <2>2. new[i] = cleared[i]
    BY <1>2, <1>3, <2>1 DEF IdsOf
  <2>3. i \in IdsOf(t0, before) => i \in ids
    BY <1>7 DEF IdsOf
  <2>4. i \notin IdsOf(t0, before) => index[i] = None
    BY DEF IndexOf
  <2> QED
    BY <1>1, <2>2, <2>3, <2>4
<1>8. ASSUME NEW m \in after, NEW n \in after, m # n, id(t, m) = id(t, n)
      PROVE  id(t, n) \in noted
  <2>1. CASE m \in ns /\ n \in ns
    BY <1>8, <2>1 DEF Shared, IdsOf
  <2>2. CASE m \notin ns /\ n \notin ns
    <3>1. m \in before /\ n \in before /\ id(t0, m) = id(t, m) /\ id(t0, n) = id(t, n)
      BY <2>2
    <3> QED
      BY <1>8, <3>1 DEF NotedIn
  <2>3. ASSUME NEW k \in after \ ns, NEW l \in ns, id(t, k) = id(t, l)
        PROVE  id(t, k) \in noted
    <3>1. CASE id(t, k) \in ids
      BY <1>5, <3>1
    <3>2. CASE id(t, k) \notin ids
      <4>1. cleared[id(t, l)] = index[id(t, k)]
        BY <1>1, <2>3, <3>2
      <4>2. index[id(t, k)] \in after \ ns
        BY <1>4, <3>2
      <4>3. cleared[id(t, l)] \notin {None, l}
        BY <4>1, <4>2, SessionAssumption
      <4>4. id(t, l) \in Shared(t, cleared, ns)
        BY <4>3 DEF Shared, IdsOf
      <4> QED
        BY <2>3, <4>4
    <3> QED
      BY <3>1, <3>2
  <2> QED
    BY <1>8, <2>1, <2>2, <2>3
<1>9. IndexOf(t, new, after)
  BY <1>3, <1>6, <1>7 DEF IndexOf
<1>10. NotedIn(t, noted \union Shared(t, keyed, back), after)
  <2>1. \A ix, xs : Shared(t, ix, xs) \subseteq IdsOf(t, xs)
    BY DEF Shared
  <2>2. back \subseteq after
    BY DEF Back
  <2> HIDE DEF back
  <2>3. IdsOf(t, ns) \subseteq Ids /\ IdsOf(t, back) \subseteq Ids
    BY <2>2 DEF IdsOf
  <2> QED
    BY <1>8, <2>1, <2>3 DEF NotedIn
<1> QED
  BY <1>9, <1>10 DEF new, keyed, cleared

-----------------------------------------------------------------------------
(***************************************************************************)
(* Histories.                                                              *)
(***************************************************************************)
Histories == [Sources -> Seq(Step)]

LEMMA StackPush ==
    ASSUME NEW q \in Seq(Step), NEW c \in Step
    PROVE  /\ Append(q, c) \in Seq(Step)
           /\ Range(Append(q, c)) = Range(q) \union {c}
<1>1. /\ Append(q, c) \in Seq(Step)
      /\ DOMAIN q = 1 .. Len(q) /\ DOMAIN Append(q, c) = 1 .. Len(q) + 1
      /\ Append(q, c)[Len(q) + 1] = c
      /\ \A i \in 1 .. Len(q) : Append(q, c)[i] = q[i]
      /\ Len(q) \in Nat
  OBVIOUS
<1> QED
  BY <1>1 DEF Range

LEMMA StackPop ==
    ASSUME NEW q \in Seq(Step), q # <<>>
    PROVE  /\ Front(q) \in Seq(Step) /\ Last(q) \in Step /\ Last(q) \in Range(q)
           /\ Range(Front(q)) \subseteq Range(q)
           /\ Range(q) \subseteq Range(Front(q)) \union {Last(q)}
<1>1. Len(q) \in Nat /\ Len(q) > 0 /\ DOMAIN q = 1 .. Len(q)
  OBVIOUS
<1>2. /\ Front(q) \in Seq(Step) /\ DOMAIN Front(q) = 1 .. Len(q) - 1
      /\ \A i \in 1 .. Len(q) - 1 : Front(q)[i] = q[i]
  BY <1>1 DEF Front
<1>3. Last(q) = q[Len(q)] /\ Last(q) \in Step
  BY <1>1 DEF Last
<1> QED
  BY <1>1, <1>2, <1>3 DEF Range

HistoriesOK == undo \in Histories /\ redo \in Histories

LEMMA EditableSource ==
    ASSUME NEW r \in Editable
    PROVE  r \in Roots /\ Label[r] \in Sources /\ SrcOf[r] = Label[r]
BY SessionAssumption

\* A new edit is the next to undo, and nothing is left to redo.
LEMMA Pushed ==
    ASSUME HistoriesOK, NEW r \in Editable, NEW c \in Step, pushExecuted(r, c)
    PROVE  HistoriesOK' /\ \A s \in Sources : Steps(s)' \subseteq Steps(s) \union {c}
<1> DEFINE s0 == Label[r]
<1>1. s0 \in Sources
  BY EditableSource
<1>2. /\ undo' = [undo EXCEPT ![s0] = Append(undo[s0], c)]
      /\ redo' = [redo EXCEPT ![s0] = <<>>]
  BY DEF pushExecuted
<1>3. undo[s0] \in Seq(Step) /\ <<>> \in Seq(Step) /\ Range(<<>>) = {}
  BY <1>1 DEF HistoriesOK, Histories, Range
<1>4. /\ Append(undo[s0], c) \in Seq(Step)
      /\ Range(Append(undo[s0], c)) = Range(undo[s0]) \union {c}
  BY <1>3, StackPush
<1> HIDE DEF s0
<1>5. HistoriesOK'
  BY <1>1, <1>2, <1>3, <1>4 DEF HistoriesOK, Histories
<1>6. ASSUME NEW s \in Sources
      PROVE  Steps(s)' \subseteq Steps(s) \union {c}
  <2>1. CASE s = s0
    <3>1. undo'[s] = Append(undo[s0], c) /\ redo'[s] = <<>>
      BY <1>1, <1>2, <2>1 DEF HistoriesOK, Histories
    <3> QED
      BY <1>3, <1>4, <2>1, <3>1 DEF Steps
  <2>2. CASE s # s0
    <3>1. undo'[s] = undo[s] /\ redo'[s] = redo[s]
      BY <1>2, <2>2 DEF HistoriesOK, Histories
    <3> QED
      BY <3>1 DEF Steps
  <2> QED
    BY <2>1, <2>2
<1> QED
  BY <1>5, <1>6

\* Undoing and redoing move a step from one stack to the other.
LEMMA Moved ==
    ASSUME NEW from \in Histories, NEW to \in Histories, NEW s0 \in Sources, from[s0] # <<>>
    PROVE  LET from1 == [from EXCEPT ![s0] = Front(from[s0])]
               to1   == [to EXCEPT ![s0] = Append(to[s0], Last(from[s0]))]
           IN  /\ from1 \in Histories /\ to1 \in Histories
               /\ Last(from[s0]) \in Step /\ Last(from[s0]) \in Range(from[s0])
               /\ \A s \in Sources :
                      Range(from1[s]) \union Range(to1[s]) \subseteq Range(from[s]) \union Range(to[s])
<1> DEFINE c == Last(from[s0])
           front == Front(from[s0])
           more == Append(to[s0], c)
           from1 == [from EXCEPT ![s0] = front]
           to1 == [to EXCEPT ![s0] = more]
<1>1. from[s0] \in Seq(Step) /\ to[s0] \in Seq(Step)
  BY DEF Histories
<1>2. front \in Seq(Step) /\ c \in Step /\ c \in Range(from[s0]) /\ Range(front) \subseteq Range(from[s0])
  BY <1>1, StackPop
<1> HIDE DEF c, front
<1>3. more \in Seq(Step) /\ Range(more) = Range(to[s0]) \union {c}
  BY <1>1, <1>2, StackPush
<1> HIDE DEF more
<1>4. from1 = [from EXCEPT ![s0] = front] /\ to1 = [to EXCEPT ![s0] = more]
  OBVIOUS
<1> HIDE DEF from1, to1
<1>5. from1 \in Histories /\ to1 \in Histories
  BY <1>2, <1>3, <1>4 DEF Histories
<1>6. ASSUME NEW s \in Sources
      PROVE  Range(from1[s]) \union Range(to1[s]) \subseteq Range(from[s]) \union Range(to[s])
  <2>1. CASE s = s0
    <3>1. from1[s] = front /\ to1[s] = more
      BY <1>4, <2>1 DEF Histories
    <3> QED
      BY <1>2, <1>3, <2>1, <3>1
  <2>2. CASE s # s0
    <3>1. from1[s] = from[s] /\ to1[s] = to[s]
      BY <1>4, <2>2 DEF Histories
    <3> QED
      BY <3>1
  <2> QED
    BY <2>1, <2>2
<1> QED
  BY <1>2, <1>5, <1>6 DEF c, front, more, from1, to1

\* A close or a reload ends a history, or it stays.
LEMMA Cleared ==
    ASSUME HistoriesOK, NEW srcs, clear(srcs)
    PROVE  HistoriesOK' /\ \A s \in Sources : Steps(s)' \subseteq Steps(s)
<1>1. <<>> \in Seq(Step) /\ Range(<<>>) = {}
  BY DEF Range
<1>2. HistoriesOK'
  BY <1>1 DEF HistoriesOK, Histories, clear
<1>3. ASSUME NEW s \in Sources
      PROVE  Steps(s)' \subseteq Steps(s)
  BY <1>1 DEF clear, Steps
<1> QED
  BY <1>2, <1>3

-----------------------------------------------------------------------------
(***************************************************************************)
(* Levels: what a step makes, or puts back, is where it may be.            *)
(***************************************************************************)
TreesOK == tree \in Tree /\ LevelsKept /\ StepsNamed /\ HistoriesOK

\* Levels are what keeps a tree shallow.
LEMMA LevelsAreShallow ==
    ASSUME tree \in Tree, LevelsKept
    PROVE  Shallow(tree)
BY DEF Shallow, LevelsKept, IsChild, IsParent

LEMMA ShallowStays ==
    ASSUME TreesOK'
    PROVE  tree' \in Tree /\ Shallow(tree')
BY DEF TreesOK, Shallow, LevelsKept, IsChild, IsParent

\* No step attaches a node but to where it was, or to where a step has it.
LEMMA LevelsStay ==
    ASSUME TreesOK, tree' \in Tree, HistoriesOK', NEW c,
           c.at = None \/ (c.on # {} /\ \A n \in c.on : n \in Nodes /\ tree.up[n] = c.at),
           RenamesOne(c),
           \A s \in Sources : Steps(s)' \subseteq Steps(s) \union {c},
           \A n \in Nodes : \/ tree'.up[n] \in {tree.up[n], None}
                            \/ \E s \in Sources : \E d \in Steps(s) :
                                   n \in d.on /\ tree'.up[n] = d.at
    PROVE  TreesOK'
<1>1. Nodes \intersect Roots = {} /\ None \notin Nodes \union Roots
  BY SessionAssumption
<1>2. ASSUME NEW n \in Nodes, IsChild(n)' PROVE IsChild(n)
  <2>1. CASE tree'.up[n] \in Nodes
    BY <1>1, <2>1 DEF IsChild
  <2>2. CASE \E s \in Sources : \E d \in Steps(s)' : n \in d.on /\ d.at \in Nodes
    <3>1. PICK s \in Sources : \E d \in Steps(s)' : n \in d.on /\ d.at \in Nodes
      BY <2>2
    <3>2. PICK d \in Steps(s)' : n \in d.on /\ d.at \in Nodes
      BY <3>1
    <3>3. d \in Steps(s) \/ d = c
      OBVIOUS
    <3> QED
      BY <1>1, <3>2, <3>3 DEF IsChild
  <2> QED
    BY <1>2, <2>1, <2>2 DEF IsChild
<1>3. ASSUME NEW n \in Nodes, IsTop(n)' PROVE IsTop(n)
  <2>1. CASE tree'.up[n] \in Roots
    BY <1>1, <2>1 DEF IsTop
  <2>2. CASE \E s \in Sources : \E d \in Steps(s)' : n \in d.on /\ d.at \in Roots
    <3>1. PICK s \in Sources : \E d \in Steps(s)' : n \in d.on /\ d.at \in Roots
      BY <2>2
    <3>2. PICK d \in Steps(s)' : n \in d.on /\ d.at \in Roots
      BY <3>1
    <3>3. d \in Steps(s) \/ d = c
      OBVIOUS
    <3> QED
      BY <1>1, <3>2, <3>3 DEF IsTop
  <2> QED
    BY <1>3, <2>1, <2>2 DEF IsTop
<1>4. ASSUME NEW n \in Nodes, IsParent(n)' PROVE IsParent(n)
  <2>1. CASE \E m \in Nodes : tree'.up[m] = n
    BY <1>1, <2>1 DEF IsParent
  <2>2. CASE \E s \in Sources : \E d \in Steps(s)' : d.at = n
    <3>1. PICK s \in Sources : \E d \in Steps(s)' : d.at = n
      BY <2>2
    <3>2. PICK d \in Steps(s)' : d.at = n
      BY <3>1
    <3>3. d \in Steps(s) \/ d = c
      OBVIOUS
    <3> QED
      BY <1>1, <3>2, <3>3 DEF IsParent
  <2> QED
    BY <1>4, <2>1, <2>2 DEF IsParent
<1>5. LevelsKept'
  BY <1>2, <1>3, <1>4 DEF LevelsKept, TreesOK
<1>6. StepsNamed'
  BY DEF StepsNamed, TreesOK
<1> QED
  BY <1>5, <1>6 DEF TreesOK

\* What is unused is on no level yet.
LEMMA UnusedIs ==
    ASSUME tree \in Tree, NEW n \in Unused
    PROVE  /\ n \in Nodes /\ tree.up[n] = None /\ \A m \in Nodes : tree.up[m] # n
           /\ \A s \in Sources : \A c \in Steps(s) : n \notin c.on /\ c.at # n
           /\ ~IsChild(n) /\ ~IsTop(n) /\ ~IsParent(n)
<1>1. n \in Nodes /\ Subtree(tree, n) = {n} /\ tree.up[n] = None
  BY DEF Unused
<1>2. None \notin Nodes \union Roots
  BY SessionAssumption
<1>3. \A m \in Nodes : tree.up[m] # n
  BY <1>1, <1>2 DEF Subtree
<1>4. ASSUME NEW s \in Sources, NEW c \in Steps(s)
      PROVE  n \notin c.on /\ c.at # n
  BY DEF Unused
<1> QED
  BY <1>1, <1>2, <1>3, <1>4 DEF IsChild, IsTop, IsParent

\* A new node goes in a root, or in an entry.
LEMMA LevelsGrow ==
    ASSUME TreesOK, tree' \in Tree, HistoriesOK', NEW n0 \in Unused, NEW p,
           p \in Roots \/ (p \in Nodes /\ IsEntry(tree, p)), NEW c,
           c.on = {n0}, c.at = p, c.op # "rename",
           \A s \in Sources : Steps(s)' \subseteq Steps(s) \union {c},
           \A n \in Nodes : tree'.up[n] = IF n = n0 THEN p ELSE tree.up[n]
    PROVE  TreesOK'
<1>1. Nodes \intersect Roots = {} /\ None \notin Nodes \union Roots
  BY SessionAssumption
<1>2. /\ n0 \in Nodes /\ ~IsChild(n0) /\ ~IsTop(n0) /\ ~IsParent(n0) /\ tree.up[n0] = None
      /\ p \in Nodes => IsTop(p) /\ p # n0
  BY <1>1, UnusedIs DEF TreesOK, IsEntry, IsTop
<1>3. ASSUME NEW n \in Nodes, IsChild(n)' PROVE IsChild(n) \/ (n = n0 /\ p \in Nodes)
  <2>1. CASE tree'.up[n] \in Nodes
    BY <2>1 DEF IsChild
  <2>2. CASE \E s \in Sources : \E d \in Steps(s)' : n \in d.on /\ d.at \in Nodes
    <3>1. PICK s \in Sources : \E d \in Steps(s)' : n \in d.on /\ d.at \in Nodes
      BY <2>2
    <3>2. PICK d \in Steps(s)' : n \in d.on /\ d.at \in Nodes
      BY <3>1
    <3>3. d \in Steps(s) \/ d = c
      OBVIOUS
    <3> QED
      BY <3>2, <3>3 DEF IsChild
  <2> QED
    BY <1>3, <2>1, <2>2 DEF IsChild
<1>4. ASSUME NEW n \in Nodes, IsTop(n)' PROVE IsTop(n) \/ (n = n0 /\ p \in Roots)
  <2>1. CASE tree'.up[n] \in Roots
    BY <2>1 DEF IsTop
  <2>2. CASE \E s \in Sources : \E d \in Steps(s)' : n \in d.on /\ d.at \in Roots
    <3>1. PICK s \in Sources : \E d \in Steps(s)' : n \in d.on /\ d.at \in Roots
      BY <2>2
    <3>2. PICK d \in Steps(s)' : n \in d.on /\ d.at \in Roots
      BY <3>1
    <3>3. d \in Steps(s) \/ d = c
      OBVIOUS
    <3> QED
      BY <3>2, <3>3 DEF IsTop
  <2> QED
    BY <1>4, <2>1, <2>2 DEF IsTop
<1>5. ASSUME NEW n \in Nodes, IsParent(n)' PROVE IsParent(n) \/ n = p
  <2>1. CASE \E m \in Nodes : tree'.up[m] = n
    BY <2>1 DEF IsParent
  <2>2. CASE \E s \in Sources : \E d \in Steps(s)' : d.at = n
    <3>1. PICK s \in Sources : \E d \in Steps(s)' : d.at = n
      BY <2>2
    <3>2. PICK d \in Steps(s)' : d.at = n
      BY <3>1
    <3>3. d \in Steps(s) \/ d = c
      OBVIOUS
    <3> QED
      BY <3>2, <3>3 DEF IsParent
  <2> QED
    BY <1>5, <2>1, <2>2 DEF IsParent
<1>6. LevelsKept'
  <2> SUFFICES ASSUME NEW n \in Nodes, IsChild(n)' PROVE ~IsTop(n)' /\ ~IsParent(n)'
    BY DEF LevelsKept
  <2>1. CASE IsChild(n)
    <3>1. ~IsTop(n) /\ ~IsParent(n) /\ n # n0
      BY <1>2, <2>1 DEF LevelsKept, TreesOK
    <3> QED
      BY <1>2, <1>4, <1>5, <3>1
  <2>2. CASE n = n0 /\ p \in Nodes
    BY <1>1, <1>2, <1>4, <1>5, <2>2
  <2> QED
    BY <1>3, <2>1, <2>2
<1>7. StepsNamed'
  BY DEF StepsNamed, RenamesOne, TreesOK
<1> QED
  BY <1>6, <1>7 DEF TreesOK

-----------------------------------------------------------------------------
(***************************************************************************)
(* How an edit's indexing follows what it does to the trees.               *)
(***************************************************************************)
SourcesOK ==
    /\ dataSources \in [Sources -> Roots \union {None}]
    /\ \A s \in Sources : dataSources[s] # None => SrcOf[dataSources[s]] = s

IndexTyped == nodeIndex \in [Ids -> Nodes \union {None}] /\ sharedIds \subseteq Ids

\* Every tree is gone through, or what is rekeyed is all that changed.
Reindexes ==
    /\ UNCHANGED dataSources
    /\ \/ reindexAll(tree')
       \/ \E changed, leaving \in SUBSET Nodes :
              /\ Found' \ changed = Found \ changed
              /\ Found' \intersect leaving = {}
              /\ \A n \in Found' \ changed : id(tree', n) = id(tree, n)
              /\ Rekey(tree', IdsOf(tree, Found \intersect changed), Found' \intersect changed, leaving)

\* Every id of an open file's node is an id.
LEMMA FoundIds ==
    ASSUME NEW t \in Tree, Shallow(t), NEW srcs \in [Sources -> Roots \union {None}]
    PROVE  OpenNodes(t, srcs) \in SUBSET Nodes /\ \A n \in OpenNodes(t, srcs) : id(t, n) \in Ids
<1>1. OpenNodes(t, srcs) \subseteq Nodes
  BY DEF OpenNodes
<1>2. Open(srcs) \subseteq Roots
  BY DEF Open
<1>3. ASSUME NEW n \in OpenNodes(t, srcs)
      PROVE  id(t, n) \in Ids
  <2>1. PICK r \in Open(srcs) : InTree(t, n, r)
    BY <1>1, InOpen
  <2> QED
    BY <1>1, <1>2, <2>1, IdInTree
<1> QED
  BY <1>1, <1>3

\* The ids put in and noted are ids.
LEMMA SharedIds ==
    ASSUME NEW t, NEW index, NEW ns, \A n \in ns : id(t, n) \in Ids
    PROVE  IdsOf(t, ns) \subseteq Ids /\ Shared(t, index, ns) \subseteq Ids
BY DEF IdsOf, Shared

LEMMA RekeyTyped ==
    ASSUME tree' \in Tree, Shallow(tree'), SourcesOK, IndexTyped, UNCHANGED dataSources,
           NEW is, NEW ns \in SUBSET Found', NEW leaving, Rekey(tree', is, ns, leaving)
    PROVE  IndexTyped'
<1> DEFINE cleared == Without(nodeIndex, is)
           index   == Indexed(tree', cleared, ns)
           shared  == sharedIds \union Shared(tree', cleared, ns)
           back    == LeftBehind(tree', index, shared, is, leaving)
<1>1. Found' = OpenNodes(tree', dataSources) /\ Found' \in SUBSET Nodes
      /\ \A n \in Found' : id(tree', n) \in Ids
  BY FoundIds DEF Found, SourcesOK
<1>2. back \in SUBSET Found'
  BY <1>1 DEF LeftBehind
<1>3. ns \in SUBSET Nodes /\ back \in SUBSET Nodes
      /\ (\A n \in ns : id(tree', n) \in Ids) /\ (\A n \in back : id(tree', n) \in Ids)
  BY <1>1, <1>2
<1>4. nodeIndex' = Indexed(tree', index, back) /\ sharedIds' = shared \union Shared(tree', index, back)
  BY DEF Rekey
<1>5. cleared \in [Ids -> Nodes \union {None}]
  BY WithoutAt DEF IndexTyped
<1> HIDE DEF cleared, back
<1>6. index \in [Ids -> Nodes \union {None}]
  BY <1>3, <1>5, IndexedAt
<1>7. shared \subseteq Ids
  BY <1>3, SharedIds DEF IndexTyped
<1> HIDE DEF index, shared
<1>8. nodeIndex' \in [Ids -> Nodes \union {None}]
  BY <1>3, <1>4, <1>6, IndexedAt
<1>9. sharedIds' \subseteq Ids
  BY <1>3, <1>4, <1>7, SharedIds
<1> QED
  BY <1>8, <1>9 DEF IndexTyped

LEMMA ReindexesTyped ==
    ASSUME tree' \in Tree, Shallow(tree'), SourcesOK, IndexTyped, Reindexes
    PROVE  IndexTyped'
<1>1. Found' = OpenNodes(tree', dataSources) /\ Found' \in SUBSET Nodes
      /\ \A n \in Found' : id(tree', n) \in Ids
  BY FoundIds DEF Found, SourcesOK, Reindexes
<1>2. CASE reindexAll(tree')
  <2>1. nodeIndex' = Indexed(tree', Empty, Found') /\ sharedIds' = Shared(tree', Empty, Found')
    BY <1>1, <1>2 DEF reindexAll
  <2> QED
    BY <1>1, <2>1, AllIndexed DEF IndexTyped, IndexOf, NotedIn
<1>3. ASSUME NEW changed \in SUBSET Nodes, NEW leaving \in SUBSET Nodes,
             Rekey(tree', IdsOf(tree, Found \intersect changed), Found' \intersect changed, leaving)
      PROVE  IndexTyped'
  BY <1>3, RekeyTyped DEF Reindexes
<1> QED
  BY <1>2, <1>3 DEF Reindexes

\* The index is of the open trees, and their twins are noted.
IndexOK == IndexOf(tree, nodeIndex, Found) /\ NotedIn(tree, sharedIds, Found)

LEMMA ReindexesRight ==
    ASSUME tree \in Tree, Shallow(tree), tree' \in Tree, Shallow(tree'), SourcesOK, IndexOK, Reindexes
    PROVE  IndexOK'
<1>1. Found' = OpenNodes(tree', dataSources) /\ Found' \in SUBSET Nodes
      /\ \A n \in Found' : id(tree', n) \in Ids
  BY FoundIds DEF Found, SourcesOK, Reindexes
<1>2. Found \in SUBSET Nodes /\ \A n \in Found : id(tree, n) \in Ids
  BY FoundIds DEF Found, SourcesOK
<1>3. CASE reindexAll(tree')
  <2>1. nodeIndex' = Indexed(tree', Empty, Found') /\ sharedIds' = Shared(tree', Empty, Found')
    BY <1>1, <1>3 DEF reindexAll
  <2> QED
    BY <1>1, <2>1, AllIndexed DEF IndexOK
<1>4. ASSUME NEW changed \in SUBSET Nodes, NEW leaving \in SUBSET Nodes,
             Found' \ changed = Found \ changed, Found' \intersect leaving = {},
             \A n \in Found' \ changed : id(tree', n) = id(tree, n),
             Rekey(tree', IdsOf(tree, Found \intersect changed), Found' \intersect changed, leaving)
      PROVE  IndexOK'
  <2> DEFINE out     == Found \intersect changed
             ns      == Found' \intersect changed
             ids     == IdsOf(tree, out)
             cleared == Without(nodeIndex, ids)
             keyed   == Indexed(tree', cleared, ns)
             noted   == sharedIds \union Shared(tree', cleared, ns)
             back    == Back(tree', keyed, noted, ids, Found', leaving)
  <2>1. out \in SUBSET Found /\ ns \in SUBSET Found' /\ Found' \ ns = Found \ out
        /\ \A n \in Found' \ ns : id(tree', n) = id(tree, n)
    BY <1>4
  <2>2. back = LeftBehind(tree', keyed, noted, ids, leaving)
    BY <1>1 DEF LeftBehind, Back
  <2>3. nodeIndex' = Indexed(tree', keyed, back)
        /\ sharedIds' = noted \union Shared(tree', keyed, back)
    BY <1>4, <2>2 DEF Rekey
  <2>4. /\ IndexOf(tree', Indexed(tree', keyed, back), Found')
        /\ NotedIn(tree', noted \union Shared(tree', keyed, back), Found')
    <3>1. IndexOf(tree, nodeIndex, Found) /\ NotedIn(tree, sharedIds, Found)
      BY DEF IndexOK
    <3>2. Found' \in SUBSET Nodes /\ Found' \intersect leaving = {}
          /\ \A n \in Found' : id(tree', n) \in Ids
      BY <1>1, <1>4
    <3> HIDE DEF out, ns
    <3> QED
      BY <1>2, <2>1, <3>1, <3>2, Rekeyed
  <2> QED
    BY <2>3, <2>4 DEF IndexOK
<1> QED
  BY <1>3, <1>4 DEF Reindexes

\* What is neither changed nor inside what is stays open, under the id it had.
LEMMA ElsewhereStays ==
    ASSUME tree \in Tree, Shallow(tree), tree' \in Tree, Shallow(tree'), SourcesOK,
           UNCHANGED dataSources, NEW changed \in SUBSET Nodes,
           \A m \in Nodes \ changed : /\ tree'.up[m] = tree.up[m] /\ tree'.name[m] = tree.name[m]
                                      /\ tree.up[m] \notin changed
    PROVE  /\ Found' \ changed = Found \ changed
           /\ \A n \in Found' \ changed : id(tree', n) = id(tree, n)
<1>1. /\ \A n \in Nodes : n \in Found <=> \E r \in Open(dataSources) : InTree(tree, n, r)
      /\ \A n \in Nodes : n \in Found' <=> \E r \in Open(dataSources) : InTree(tree', n, r)
      /\ Found \subseteq Nodes /\ Found' \subseteq Nodes
  BY InOpen DEF Found, SourcesOK, OpenNodes
<1>2. ASSUME NEW n \in Nodes \ changed
      PROVE  /\ \A r \in Open(dataSources) : InTree(tree', n, r) <=> InTree(tree, n, r)
             /\ tree.up[n] # None => id(tree', n) = id(tree, n)
  <2>1. /\ tree'.up[n] = tree.up[n] /\ tree'.name[n] = tree.name[n]
        /\ tree.up[n] \in Nodes => /\ tree'.up[tree.up[n]] = tree.up[tree.up[n]]
                                   /\ tree'.name[tree.up[n]] = tree.name[tree.up[n]]
    OBVIOUS
  <2>2. CASE tree.up[n] \in Nodes
    BY <2>1, <2>2, SessionAssumption DEF InTree, id, IsEntry
  <2>3. CASE tree.up[n] \notin Nodes
    <3>1. tree.up[n] \in Roots \union {None}
      BY <2>3 DEF Tree
    <3> QED
      BY <2>1, <2>3, <3>1 DEF InTree, id, IsEntry
  <2> QED
    BY <2>2, <2>3
<1>3. \A n \in Nodes, r \in Open(dataSources) : InTree(tree, n, r) => tree.up[n] # None
  BY SessionAssumption DEF InTree, Open, SourcesOK
<1> QED
  BY <1>1, <1>2, <1>3

\* Rekeying what changed, where what is around it stays.
LEMMA RekeyReindexes ==
    ASSUME tree \in Tree, Shallow(tree), tree' \in Tree, Shallow(tree'), SourcesOK,
           UNCHANGED dataSources, NEW changed \in SUBSET Nodes, NEW leaving \in SUBSET Nodes,
           \A m \in Nodes \ changed : /\ tree'.up[m] = tree.up[m] /\ tree'.name[m] = tree.name[m]
                                      /\ tree.up[m] \notin changed,
           NEW out, out = Found \intersect changed, NEW ns, ns = Found' \intersect changed,
           Found' \intersect leaving = {}, NEW ids, ids = IdsOf(tree, out),
           Rekey(tree', ids, ns, leaving)
    PROVE  Reindexes
<1>1. /\ Found' \ changed = Found \ changed
      /\ \A n \in Found' \ changed : id(tree', n) = id(tree, n)
  BY ElsewhereStays
<1> QED
  BY <1>1 DEF Reindexes

\* An entry of an open file is open with all that is in it.
LEMMA EntryFound ==
    ASSUME NEW t \in Tree, Shallow(t), NEW srcs \in [Sources -> Roots \union {None}],
           NEW e \in Nodes, t.up[e] \in Open(srcs)
    PROVE  Subtree(t, e) \subseteq OpenNodes(t, srcs)
<1>1. \A m \in Subtree(t, e) : m \in Nodes /\ InTree(t, m, t.up[e])
  BY DEF Subtree, InTree
<1> QED
  BY <1>1, InOpen

\* What is in no tree is not open, nor is what is in it.
LEMMA DetachedNotFound ==
    ASSUME NEW t \in Tree, Shallow(t), NEW srcs \in [Sources -> Roots \union {None}],
           NEW e \in Nodes, t.up[e] = None
    PROVE  Subtree(t, e) \intersect OpenNodes(t, srcs) = {}
<1>1. Open(srcs) \subseteq Roots /\ Nodes \intersect Roots = {} /\ None \notin Nodes \union Roots
  BY SessionAssumption DEF Open
<1>2. ASSUME NEW m \in Subtree(t, e), NEW r \in Open(srcs), InTree(t, m, r) PROVE FALSE
  BY <1>1, <1>2 DEF Subtree, InTree
<1>3. \A m \in Subtree(t, e) : m \in Nodes
  BY DEF Subtree
<1> QED
  BY <1>2, <1>3, InOpen

\* The entry of a node of a tree.
LEMMA EntryIs ==
    ASSUME tree \in Tree, Shallow(tree), NEW n \in Nodes, ownerSourceOf(tree, n) \in Roots
    PROVE  /\ EntryOf(n) \in Nodes /\ tree.up[EntryOf(n)] = ownerSourceOf(tree, n)
           /\ n \in Subtree(tree, EntryOf(n))
<1>1. InTree(tree, n, ownerSourceOf(tree, n))
  BY OwnerInTree
<1>2. Nodes \intersect Roots = {}
  BY SessionAssumption
<1>3. CASE tree.up[n] = ownerSourceOf(tree, n)
  BY <1>3 DEF EntryOf, IsEntry, Subtree
<1>4. CASE tree.up[n] \in Nodes /\ tree.up[tree.up[n]] = ownerSourceOf(tree, n)
  BY <1>2, <1>4 DEF EntryOf, IsEntry, Subtree
<1> QED
  BY <1>1, <1>3, <1>4 DEF InTree

\* Only an entry has what is under it.
LEMMA SubtreeApart ==
    ASSUME tree \in Tree, Shallow(tree), NEW e \in Nodes, tree.up[e] \in Roots,
           NEW m \in Nodes \ Subtree(tree, e)
    PROVE  tree.up[m] \notin Subtree(tree, e)
<1>1. m # e /\ tree.up[m] # e
  BY DEF Subtree
<1>2. SUFFICES ASSUME tree.up[m] \in Nodes, tree.up[tree.up[m]] = e PROVE FALSE
  BY <1>1 DEF Subtree
<1> QED
  BY <1>2 DEF Shallow

\* A name changed under an entry.
LEMMA EditedReindexes ==
    ASSUME tree \in Tree, Shallow(tree), SourcesOK, UNCHANGED dataSources,
           NEW n \in Nodes, NEW a \in Names, tree' = Named(tree, {n}, a), EditedInEntry(n, tree')
    PROVE  Reindexes
<1>1. /\ tree' \in Tree /\ tree'.up = tree.up
      /\ \A m \in Nodes : m # n => tree'.name[m] = tree.name[m]
  BY NamedTree
<1>2. Shallow(tree')
  BY <1>1 DEF Shallow
<1>3. CASE ownerSourceOf(tree, n) \notin Open(dataSources)
  BY <1>3 DEF EditedInEntry, Reindexes
<1>4. CASE ownerSourceOf(tree, n) \in Open(dataSources)
  <2> DEFINE e == EntryOf(n)
             changed == Subtree(tree, e)
  <2>1. Open(dataSources) \subseteq Roots
    BY DEF Open, SourcesOK
  <2>2. e \in Nodes /\ tree.up[e] \in Open(dataSources) /\ n \in changed
    BY <1>4, <2>1, EntryIs
  <2>3. Subtree(tree', e) = changed
    BY <1>1 DEF Subtree
  <2>4. Rekey(tree', IdsOf(tree, changed), changed, {})
    BY <1>4, <2>3 DEF EditedInEntry
  <2> HIDE DEF e
  <2>5. changed \subseteq Found
    BY <2>2, EntryFound DEF Found, SourcesOK
  <2>6. tree'.up[e] \in Open(dataSources')
    BY <1>1, <2>2
  <2>7. changed \subseteq Found'
    BY <1>1, <1>2, <2>2, <2>3, <2>6, EntryFound DEF Found, SourcesOK
  <2>8. \A m \in Nodes \ changed : tree.up[m] \notin changed
    BY <2>1, <2>2, SubtreeApart
  <2>9. changed \in SUBSET Nodes
    BY <2>2 DEF Subtree
  <2> HIDE DEF changed
  <2>10. \A m \in Nodes \ changed : tree'.up[m] = tree.up[m] /\ tree'.name[m] = tree.name[m]
    BY <1>1, <2>2
  <2>11. changed = Found \intersect changed /\ changed = Found' \intersect changed
    BY <2>5, <2>7
  <2> QED
    BY <1>1, <1>2, <2>4, <2>8, <2>9, <2>10, <2>11, RekeyReindexes
<1> QED
  BY <1>3, <1>4

-----------------------------------------------------------------------------
(***************************************************************************)
(* The actions, one by one: what an edit keeps, and that its indexing      *)
(* follows it.                                                             *)
(***************************************************************************)
Selections ==
    /\ context \in Roots \union Nodes \union {None}
    /\ entries \subseteq Nodes
    /\ preview \in Nodes \union {None}

\* The inductive form of TypeOK.
Kept == TreesOK /\ SourcesOK /\ IndexTyped /\ Selections

Edits == TreesOK' /\ Reindexes /\ Selections'

LEMMA KeptIsShallow ==
    ASSUME TreesOK
    PROVE  tree \in Tree /\ Shallow(tree)
BY LevelsAreShallow DEF TreesOK

\* No new step, and nothing attached but where a step has it.
LEMMA LevelsHeld ==
    ASSUME TreesOK, tree' \in Tree, HistoriesOK',
           \A s \in Sources : Steps(s)' \subseteq Steps(s),
           \A n \in Nodes : \/ tree'.up[n] \in {tree.up[n], None}
                            \/ \E s \in Sources : \E d \in Steps(s) :
                                   n \in d.on /\ tree'.up[n] = d.at
    PROVE  TreesOK'
<1> DEFINE c == Adding({}, None, FALSE)
<1>1. c.at = None /\ RenamesOne(c)
  BY DEF Adding, RenamesOne
<1>2. \A s \in Sources : Steps(s)' \subseteq Steps(s) \union {c}
  OBVIOUS
<1> HIDE DEF c
<1> QED
  BY <1>1, <1>2, LevelsStay

LEMMA HistoryKept ==
    ASSUME HistoriesOK, UNCHANGED history
    PROVE  HistoriesOK' /\ \A s \in Sources : Steps(s)' = Steps(s)
BY DEF history, HistoriesOK, Steps

\* What is selected after a removal.
LEMMA SelectionAfterRemoval ==
    ASSUME Selections, NEW removed, NEW follow, NEW next \in SUBSET Nodes,
           selectAfterRemoval(follow, removed, next)
    PROVE  Selections'
BY DEF selectAfterRemoval, releaseSubtreeSelection, Selects, Selections

\* The tree with an unused node put in.
LEMMA Grown ==
    ASSUME TreesOK, NEW n0 \in Unused, NEW a \in Names, NEW p \in Nodes \union Roots
    PROVE  LET t == Attached(Named(tree, {n0}, a), {n0}, p)
           IN  /\ t \in Tree
               /\ \A n \in Nodes : t.up[n] = IF n = n0 THEN p ELSE tree.up[n]
               /\ \A n \in Nodes : n # n0 => t.name[n] = tree.name[n]
<1> DEFINE u == Named(tree, {n0}, a)
           t == Attached(u, {n0}, p)
<1>1. tree \in Tree
  BY DEF TreesOK
<1>2. u \in Tree /\ u.up = tree.up /\ \A n \in Nodes : n # n0 => u.name[n] = tree.name[n]
  BY <1>1, NamedTree
<1> HIDE DEF u
<1>3. /\ t \in Tree /\ t.name = u.name
      /\ \A n \in Nodes : t.up[n] = IF n \in {n0} THEN p ELSE u.up[n]
  BY <1>2, AttachedTree
<1> HIDE DEF t
<1>4. /\ t \in Tree
      /\ \A n \in Nodes : t.up[n] = IF n = n0 THEN p ELSE tree.up[n]
      /\ \A n \in Nodes : n # n0 => t.name[n] = tree.name[n]
  BY <1>2, <1>3
<1> QED
  BY <1>4 DEF t, u

LEMMA EditableIs ==
    ASSUME NEW x, editableOwnerOf(x) # None
    PROVE  /\ x # None /\ editableOwnerOf(x) = ownerSourceOf(tree, x)
           /\ editableOwnerOf(x) \in Editable /\ editableOwnerOf(x) \in Roots
BY SessionAssumption DEF editableOwnerOf

LEMMA AddEdits ==
    ASSUME Kept, NEW r \in Editable, NEW p, p \in Roots \/ (p \in Nodes /\ IsEntry(tree, p)),
           NEW n \in Unused, NEW a \in Names, NEW follow \in BOOLEAN,
           Add(r, p, Attached(Named(tree, {n}, a), {n}, p), Adding({n}, p, follow))
    PROVE  TreesOK' /\ Reindexes
<1> DEFINE c == Adding({n}, p, follow)
           t == Attached(Named(tree, {n}, a), {n}, p)
<1>1. TreesOK /\ HistoriesOK /\ tree \in Tree
  BY DEF Kept, TreesOK
<1>2. n \in Nodes
  BY <1>1, UnusedIs
<1>3. c \in Step /\ c.on = {n} /\ c.at = p /\ c.op # "rename"
  BY <1>2 DEF Adding, Step
<1>4. tree' = t /\ pushExecuted(r, c) /\ reindexAll(t) /\ UNCHANGED dataSources
  BY DEF Add, FiledUnder
<1>5. t \in Tree /\ \A m \in Nodes : t.up[m] = IF m = n THEN p ELSE tree.up[m]
  <2>1. p \in Nodes \union Roots
    OBVIOUS
  <2> QED
    BY ZenonT(40), <1>1, <2>1, Grown
<1> HIDE DEF c, t
<1>6. HistoriesOK' /\ \A s \in Sources : Steps(s)' \subseteq Steps(s) \union {c}
  BY <1>1, <1>3, <1>4, Pushed
<1>7. TreesOK'
  BY <1>1, <1>3, <1>4, <1>5, <1>6, LevelsGrow
<1> QED
  BY <1>4, <1>7 DEF Reindexes

LEMMA AddEntryEdits ==
    ASSUME Kept, addEntry
    PROVE  Edits
<1> DEFINE r == editableOwnerOf(context)
<1>1. r # None
  BY DEF addEntry
<1>2. r \in Editable /\ r \in Roots
  BY <1>1, EditableIs
<1>3. PICK n \in Unused, a \in FreeNames(r) :
          /\ Add(r, r, Attached(Named(tree, {n}, a), {n}, r), Adding({n}, r, TRUE))
          /\ Selects(context, {n}, preview)
  BY DEF addEntry
<1>4. n \in Nodes /\ a \in Names
  BY DEF Unused, FreeNames
<1> HIDE DEF r
<1>5. TreesOK' /\ Reindexes
  BY <1>2, <1>3, <1>4, AddEdits
<1>6. Selections'
  BY <1>3, <1>4 DEF Kept, Selections, Selects
<1> QED
  BY <1>5, <1>6 DEF Edits

LEMMA AddChildEdits ==
    ASSUME Kept, NEW p \in Nodes, NEW follow \in BOOLEAN, addChildOfNode(p, follow)
    PROVE  Edits
<1> DEFINE r == editableOwnerOf(p)
<1>1. IsEntry(tree, p) /\ r # None
  BY DEF addChildOfNode
<1>2. r \in Editable
  BY <1>1, EditableIs
<1>3. PICK n \in Unused, a \in FreeNames(p) :
          Add(r, p, Attached(Named(tree, {n}, a), {n}, p), Adding({n}, p, follow))
  BY DEF addChildOfNode
<1>4. a \in Names
  BY DEF FreeNames
<1> HIDE DEF r
<1>5. TreesOK' /\ Reindexes
  BY <1>1, <1>2, <1>3, <1>4, AddEdits
<1>6. Selections'
  BY DEF addChildOfNode, Kept, Selections, selection
<1> QED
  BY <1>5, <1>6 DEF Edits

\* The nodes of a removal are all of the one file.
LEMMA OwnerOfAll ==
    ASSUME NEW ns \in SUBSET Nodes, editableOwnerOfAll(ns) # None
    PROVE  \A n \in ns : editableOwnerOf(n) = editableOwnerOfAll(ns)
<1> DEFINE owners == {editableOwnerOf(n) : n \in ns}
           f == [n \in ns |-> editableOwnerOf(n)]
<1>1. IsFiniteSet(ns)
  BY SessionAssumption, FS_Subset
<1>2. f \in Surjection(ns, owners)
  BY DEF Surjection
<1>3. IsFiniteSet(owners)
  BY <1>1, <1>2, FS_Surjection
<1>4. Cardinality(owners) = 1 /\ editableOwnerOfAll(ns) = CHOOSE r \in owners : TRUE
  BY DEF editableOwnerOfAll
<1>5. PICK r : owners = {r}
  BY <1>3, <1>4, FS_Singleton
<1>6. \A n \in ns : editableOwnerOf(n) \in owners
  OBVIOUS
<1> HIDE DEF owners
<1> QED
  BY <1>4, <1>5, <1>6

\* What is removed is of the one file, and was in the same node or root.
DeleteOf(ns, follow, r, gone, at) ==
    /\ r \in Editable /\ gone # {} /\ gone \subseteq ns
    /\ \A n \in gone : tree.up[n] = at /\ editableOwnerOf(n) = r
    /\ tree' = Attached(tree, gone, None) /\ pushExecuted(r, Deleting(gone, at, follow))
    /\ selectAfterRemoval(follow, UNION {Subtree(tree, n) : n \in gone}, NextSelected(at))
    /\ reindexAll(tree') /\ UNCHANGED dataSources

LEMMA DeleteIs ==
    ASSUME NEW ns \in SUBSET Nodes, NEW follow \in BOOLEAN, Delete(ns, editableOwnerOfAll(ns), follow)
    PROVE  \E r, gone, at : DeleteOf(ns, follow, r, gone, at)
<1> DEFINE r == editableOwnerOfAll(ns)
           gone == IF Cardinality(ns) = 1 THEN ns ELSE {n \in ns : IsEntry(tree, n)}
           at == tree.up[CHOOSE n \in gone : TRUE]
<1>1. /\ r # None /\ gone # {} /\ tree' = Attached(tree, gone, None)
      /\ pushExecuted(r, Deleting(gone, at, follow))
      /\ selectAfterRemoval(follow, UNION {Subtree(tree, n) : n \in gone}, NextSelected(at))
      /\ reindexAll(tree') /\ UNCHANGED dataSources
  BY DEF Delete, FiledUnder
<1>2. gone \subseteq ns /\ gone \subseteq Nodes
  OBVIOUS
<1>3. \A n \in gone : editableOwnerOf(n) = r
  BY <1>1, <1>2, OwnerOfAll
<1>4. \A n \in gone : tree.up[n] = at
  <2>1. CASE Cardinality(ns) = 1
    <3>1. IsFiniteSet(ns)
      BY SessionAssumption, FS_Subset
    <3>2. PICK x : ns = {x}
      BY <2>1, <3>1, FS_Singleton
    <3>3. gone = {x}
      BY <2>1, <3>2
    <3> HIDE DEF gone
    <3> QED
      BY <3>3
  <2>2. CASE Cardinality(ns) # 1
    <3>1. ASSUME NEW n \in gone PROVE tree.up[n] = r
      <4>1. ownerSourceOf(tree, n) = r
        BY <1>1, <1>3, EditableIs
      <4>2. tree.up[n] \in Roots
        BY <2>2 DEF IsEntry
      <4> QED
        BY <1>2, <4>1, <4>2, SessionAssumption DEF ownerSourceOf, Up
    <3>2. (CHOOSE n \in gone : TRUE) \in gone
      BY <1>1
    <3> HIDE DEF gone
    <3> QED
      BY <3>1, <3>2
  <2> QED
    BY <2>1, <2>2
<1>5. r \in Editable
  <2>1. PICK n \in gone : TRUE
    BY <1>1
  <2> QED
    BY <1>1, <1>3, <2>1, EditableIs
<1> HIDE DEF r, gone, at
<1>6. DeleteOf(ns, follow, r, gone, at)
  BY <1>1, <1>2, <1>3, <1>4, <1>5 DEF DeleteOf
<1> QED
  BY <1>6

LEMMA DeleteEdits ==
    ASSUME Kept, NEW ns \in SUBSET Nodes, NEW follow \in BOOLEAN,
           Delete(ns, editableOwnerOfAll(ns), follow)
    PROVE  Edits
<1>1. TreesOK /\ HistoriesOK /\ tree \in Tree
  BY DEF Kept, TreesOK
<1>2. PICK r, gone, at : DeleteOf(ns, follow, r, gone, at)
  BY DeleteIs
<1> DEFINE removed == UNION {Subtree(tree, n) : n \in gone}
           c == Deleting(gone, at, follow)
           t == Attached(tree, gone, None)
<1>3. /\ r \in Editable /\ gone # {} /\ gone \subseteq Nodes /\ \A n \in gone : tree.up[n] = at
      /\ tree' = t /\ pushExecuted(r, c)
      /\ selectAfterRemoval(follow, removed, NextSelected(at))
      /\ reindexAll(t) /\ UNCHANGED dataSources
  BY <1>2 DEF DeleteOf
<1>4. at \in Nodes \union Roots \union {None}
  BY <1>1, <1>3 DEF Tree
<1>5. c \in Step /\ c.on = gone /\ c.at = at /\ RenamesOne(c)
  BY <1>3, <1>4 DEF Deleting, Step, RenamesOne
<1>6. t \in Tree /\ \A n \in Nodes : t.up[n] = IF n \in gone THEN None ELSE tree.up[n]
  BY <1>1, AttachedTree
<1> HIDE DEF c, t, removed
<1>7. HistoriesOK' /\ \A s \in Sources : Steps(s)' \subseteq Steps(s) \union {c}
  BY <1>1, <1>3, <1>5, Pushed
<1>8. TreesOK'
  BY <1>1, <1>3, <1>5, <1>6, <1>7, LevelsStay
<1>9. Selections'
  BY <1>3, SelectionAfterRemoval DEF NextSelected, Kept
<1> QED
  BY <1>3, <1>8, <1>9 DEF Edits, Reindexes

LEMMA EditNameEdits ==
    ASSUME Kept, NEW n \in Nodes, NEW a \in Names, editName(n, a)
    PROVE  Edits
<1> DEFINE r == editableOwnerOf(n)
           c == Renaming(n, a)
<1>1. TreesOK /\ HistoriesOK /\ tree \in Tree /\ Shallow(tree) /\ SourcesOK
  BY KeptIsShallow DEF Kept, TreesOK
<1>2. /\ r # None /\ tree' = Named(tree, {n}, a) /\ EditedInEntry(n, tree')
      /\ pushExecuted(r, c) /\ UNCHANGED <<dataSources, selection>>
  BY DEF editName, FiledUnder
<1>3. r \in Editable
  BY <1>2, EditableIs
<1>4. tree.name[n] \in Names
  BY <1>1 DEF Tree
<1>5. c \in Step /\ c.at = None /\ RenamesOne(c)
  BY <1>4 DEF Renaming, Step, RenamesOne
<1> HIDE DEF r, c
<1>6. HistoriesOK' /\ \A s \in Sources : Steps(s)' \subseteq Steps(s) \union {c}
  BY <1>1, <1>2, <1>3, <1>5, Pushed
<1>7. tree' \in Tree /\ tree'.up = tree.up
  BY <1>1, <1>2, NamedTree
<1>8. TreesOK'
  BY <1>1, <1>5, <1>6, <1>7, LevelsStay
<1>9. Reindexes
  BY <1>1, <1>2, EditedReindexes
<1>10. Selections'
  BY <1>2 DEF Kept, Selections, selection
<1> QED
  BY <1>8, <1>9, <1>10 DEF Edits

\* A step made or undone leaves a tree, with its nodes where the step has them or in none.
LEMMA StepTree ==
    ASSUME tree \in Tree, NEW c \in Step, RenamesOne(c), NEW t, t = Done(tree, c) \/ t = Undone(tree, c)
    PROVE  /\ t \in Tree
           /\ c.op = "rename" => t.up = tree.up /\ \E a \in Names : t = Named(tree, c.on, a)
           /\ \A n \in Nodes : t.up[n] \in {tree.up[n], None} \/ (n \in c.on /\ t.up[n] = c.at)
<1>1. /\ c.op \in {"add", "delete", "rename"}
      /\ c.at \in Nodes \union Roots \union {None} /\ None \in Nodes \union Roots \union {None}
      /\ c.on \subseteq Nodes
  BY DEF Step
<1>2. CASE c.op = "rename"
  <2>1. c.from \in Names /\ c.to \in Names
    BY <1>2 DEF RenamesOne
  <2>2. \E a \in Names : t = Named(tree, c.on, a)
    BY <1>2, <2>1 DEF Done, Undone
  <2>3. PICK a \in Names : t = Named(tree, c.on, a)
    BY <2>2
  <2>4. t \in Tree /\ t.up = tree.up
    BY <2>3, NamedTree
  <2> QED
    BY <2>2, <2>4
<1>3. CASE c.op # "rename"
  <2>1. PICK at \in {c.at, None} : t = Attached(tree, c.on, at)
    BY <1>1, <1>3 DEF Done, Undone
  <2>2. at \in Nodes \union Roots \union {None}
    BY <1>1, <2>1
  <2>3. t \in Tree /\ \A n \in Nodes : t.up[n] = IF n \in c.on THEN at ELSE tree.up[n]
    BY <2>1, <2>2, AttachedTree
  <2> QED
    BY <1>3, <2>1, <2>3
<1> QED
  BY <1>2, <1>3

\* Either of them, of a step there is, with the step gone from one stack to the other.
LEMMA WalkEdits ==
    ASSUME Kept, NEW s0 \in Sources, NEW c \in Step, c \in Steps(s0),
           NEW t, t = Done(tree, c) \/ t = Undone(tree, c), tree' = t,
           HistoriesOK', \A s \in Sources : Steps(s)' \subseteq Steps(s),
           Reindexed(c, t), NEW adds \in BOOLEAN, Reselected(c, adds), UNCHANGED dataSources
    PROVE  Edits
<1>1. TreesOK /\ tree \in Tree /\ Shallow(tree) /\ SourcesOK /\ RenamesOne(c)
  BY KeptIsShallow DEF Kept, TreesOK, StepsNamed
<1>2. /\ t \in Tree
      /\ c.op = "rename" => t.up = tree.up /\ \E a \in Names : t = Named(tree, c.on, a)
      /\ \A n \in Nodes : t.up[n] \in {tree.up[n], None} \/ (n \in c.on /\ t.up[n] = c.at)
  BY <1>1, StepTree
<1>3. TreesOK'
  BY <1>1, <1>2, LevelsHeld
<1>4. CASE c.op = "rename"
  <2>1. PICK n \in Nodes : c.on = {n}
    BY <1>1, <1>4 DEF RenamesOne
  <2>2. PICK a \in Names : t = Named(tree, {n}, a)
    BY <1>2, <1>4, <2>1
  <2>3. EditedInEntry(n, tree')
    BY <1>4, <2>1 DEF Reindexed
  <2>4. Reindexes
    BY <1>1, <2>2, <2>3, EditedReindexes
  <2>5. Selections'
    BY <1>4 DEF Reselected, Kept, Selections, selection
  <2> QED
    BY <1>3, <2>4, <2>5 DEF Edits
<1>5. CASE c.op # "rename"
  <2>1. Reindexes
    BY <1>5 DEF Reindexed, Reindexes
  <2> DEFINE removed == UNION {Subtree(tree, n) : n \in c.on}
             next == NextSelected(c.at)
  <2>2. c.on \subseteq Nodes /\ next \in SUBSET Nodes /\ Selections
    BY DEF Step, NextSelected, Kept
  <2>3. \/ UNCHANGED selection
        \/ Selects(context, c.on, preview)
        \/ selectAfterRemoval(c.follow, removed, next)
    BY <1>5 DEF Reselected
  <2> HIDE DEF removed, next
  <2>4. ASSUME UNCHANGED selection PROVE Selections'
    BY <2>2, <2>4 DEF Selections, selection
  <2>5. ASSUME Selects(context, c.on, preview) PROVE Selections'
    BY <2>2, <2>5 DEF Selections, Selects
  <2>6. ASSUME selectAfterRemoval(c.follow, removed, next) PROVE Selections'
    BY <2>2, <2>6, SelectionAfterRemoval
  <2> QED
    BY <1>3, <2>1, <2>3, <2>4, <2>5, <2>6 DEF Edits
<1> QED
  BY <1>4, <1>5

LEMMA UndoEdits ==
    ASSUME Kept, undoAction
    PROVE  Edits
<1> DEFINE r == editableOwnerOf(context)
           s0 == Label[r]
           c == Last(undo[s0])
           t == Undone(tree, c)
<1>1. /\ r # None /\ undo[s0] # <<>> /\ tree' = t
      /\ undo' = [undo EXCEPT ![s0] = Front(undo[s0])]
      /\ redo' = [redo EXCEPT ![s0] = Append(redo[s0], c)]
      /\ Reindexed(c, t) /\ Reselected(c, c.op = "delete") /\ UNCHANGED dataSources
  BY DEF undoAction
<1>2. s0 \in Sources
  BY <1>1, EditableIs, EditableSource
<1>3. undo \in Histories /\ redo \in Histories
  BY DEF Kept, TreesOK, HistoriesOK
<1> HIDE DEF r, s0
<1>4. /\ undo' \in Histories /\ redo' \in Histories
      /\ c \in Step /\ c \in Range(undo[s0])
      /\ \A s \in Sources : Range(undo'[s]) \union Range(redo'[s]) \subseteq Range(undo[s]) \union Range(redo[s])
  <2>1. /\ undo[s0] # <<>>
        /\ undo' = [undo EXCEPT ![s0] = Front(undo[s0])]
        /\ redo' = [redo EXCEPT ![s0] = Append(redo[s0], Last(undo[s0]))]
    BY <1>1
  <2> QED
    BY <1>2, <1>3, <2>1, Moved
<1> HIDE DEF c
<1>5. HistoriesOK' /\ (\A s \in Sources : Steps(s)' \subseteq Steps(s)) /\ c \in Steps(s0)
  BY <1>4 DEF HistoriesOK, Steps
<1> QED
  BY <1>1, <1>2, <1>4, <1>5, WalkEdits

LEMMA RedoEdits ==
    ASSUME Kept, redoAction
    PROVE  Edits
<1> DEFINE r == editableOwnerOf(context)
           s0 == Label[r]
           c == Last(redo[s0])
           t == Done(tree, c)
<1>1. /\ r # None /\ redo[s0] # <<>> /\ tree' = t
      /\ redo' = [redo EXCEPT ![s0] = Front(redo[s0])]
      /\ undo' = [undo EXCEPT ![s0] = Append(undo[s0], c)]
      /\ Reindexed(c, t) /\ Reselected(c, c.op = "add") /\ UNCHANGED dataSources
  BY DEF redoAction
<1>2. s0 \in Sources
  BY <1>1, EditableIs, EditableSource
<1>3. undo \in Histories /\ redo \in Histories
  BY DEF Kept, TreesOK, HistoriesOK
<1> HIDE DEF r, s0
<1>4. /\ undo' \in Histories /\ redo' \in Histories
      /\ c \in Step /\ c \in Range(redo[s0])
      /\ \A s \in Sources : Range(redo'[s]) \union Range(undo'[s]) \subseteq Range(redo[s]) \union Range(undo[s])
  <2>1. /\ redo[s0] # <<>>
        /\ redo' = [redo EXCEPT ![s0] = Front(redo[s0])]
        /\ undo' = [undo EXCEPT ![s0] = Append(undo[s0], Last(redo[s0]))]
    BY <1>1
  <2> QED
    BY <1>2, <1>3, <2>1, Moved
<1> HIDE DEF c
<1>5. HistoriesOK' /\ (\A s \in Sources : Steps(s)' \subseteq Steps(s)) /\ c \in Steps(s0)
  BY <1>4 DEF HistoriesOK, Steps
<1> QED
  BY <1>1, <1>2, <1>4, <1>5, WalkEdits

\* Host edits: an entry of a file the host edits is an entry of an open file.
LEMMA HostEntry ==
    ASSUME Kept, NEW e \in Nodes, IsEntry(tree, e), HostOwned(ownerSourceOf(tree, e))
    PROVE  /\ tree \in Tree /\ Shallow(tree) /\ SourcesOK /\ TreesOK /\ HistoriesOK
           /\ tree.up[e] \in Open(dataSources) /\ tree.up[e] \in Roots
           /\ Subtree(tree, e) \in SUBSET Nodes /\ e \in Subtree(tree, e)
           /\ Subtree(tree, e) \subseteq Found
           /\ \A m \in Nodes \ Subtree(tree, e) : tree.up[m] \notin Subtree(tree, e)
<1>1. tree \in Tree /\ Shallow(tree) /\ SourcesOK /\ TreesOK /\ HistoriesOK
  BY KeptIsShallow DEF Kept, TreesOK
<1>2. tree.up[e] \in Roots /\ ownerSourceOf(tree, e) = tree.up[e]
  BY SessionAssumption DEF IsEntry, ownerSourceOf, Up
<1>3. tree.up[e] \in Open(dataSources)
  BY <1>2 DEF HostOwned
<1>4. Subtree(tree, e) \subseteq Found
  BY <1>1, <1>3, EntryFound DEF Found, SourcesOK
<1>5. \A m \in Nodes \ Subtree(tree, e) : tree.up[m] \notin Subtree(tree, e)
  BY <1>1, <1>2, SubtreeApart
<1> QED
  BY <1>1, <1>2, <1>3, <1>4, <1>5 DEF Subtree

LEMMA SelectionReleased ==
    ASSUME Selections, NEW ns, releaseSubtreeSelection(ns)
    PROVE  Selections'
BY DEF releaseSubtreeSelection, Selects, Selections

\* A host's edit is of the tree, the index and the selection.
LEMMA HostEditIs ==
    ASSUME Kept, NEW t, NEW ids, NEW ns, NEW leaving, HostEdit(t, ids, ns, leaving)
    PROVE  /\ tree' = t /\ Rekey(tree', ids, ns, leaving) /\ UNCHANGED dataSources
           /\ Selections' /\ HistoriesOK' /\ \A s \in Sources : Steps(s)' = Steps(s)
<1>1. tree' = t /\ Rekey(tree', ids, ns, leaving) /\ UNCHANGED <<dataSources, history>>
      /\ releaseSubtreeSelection(leaving)
  BY DEF HostEdit
<1>2. Selections'
  BY <1>1, SelectionReleased DEF Kept
<1>3. HistoriesOK' /\ \A s \in Sources : Steps(s)' = Steps(s)
  BY <1>1, HistoryKept DEF Kept, TreesOK
<1> QED
  BY <1>1, <1>2, <1>3

LEMMA HostRenameEdits ==
    ASSUME Kept, NEW e \in Nodes, IsEntry(tree, e), HostOwned(ownerSourceOf(tree, e)),
           NEW n \in Subtree(tree, e), NEW a \in Names, NEW t, t = Named(tree, {n}, a),
           HostEdit(t, IdsOf(tree, Subtree(tree, e)), Subtree(t, e), Subtree(tree, e) \ Subtree(t, e))
    PROVE  Edits
<1> DEFINE changed == Subtree(tree, e)
           leaving == changed \ Subtree(t, e)
<1>1. /\ tree \in Tree /\ Shallow(tree) /\ SourcesOK /\ TreesOK /\ HistoriesOK
      /\ changed \in SUBSET Nodes /\ e \in changed /\ changed \subseteq Found
      /\ tree.up[e] \in Open(dataSources)
      /\ \A m \in Nodes \ changed : tree.up[m] \notin changed
  BY HostEntry
<1>2. /\ t \in Tree /\ t.up = tree.up
      /\ \A m \in Nodes : m # n => t.name[m] = tree.name[m]
  BY <1>1, NamedTree
<1>3. Subtree(t, e) = changed /\ leaving = {} /\ Shallow(t)
  <2>1. Subtree(t, e) = changed
    BY <1>2 DEF Subtree
  <2>2. Shallow(t)
    BY <1>1, <1>2 DEF Shallow
  <2> QED
    BY <2>1, <2>2
<1>4. /\ tree' = t /\ Rekey(tree', IdsOf(tree, changed), changed, {}) /\ UNCHANGED dataSources
      /\ Selections' /\ HistoriesOK' /\ \A s \in Sources : Steps(s)' = Steps(s)
  <2>1. HostEdit(t, IdsOf(tree, changed), changed, {})
    BY <1>3
  <2> QED
    BY <2>1, HostEditIs
<1>5. changed \subseteq Found'
  <2>1. tree'.up[e] \in Open(dataSources')
    BY <1>1, <1>2, <1>4
  <2> QED
    BY <1>1, <1>2, <1>3, <1>4, <2>1, EntryFound DEF Found, SourcesOK
<1>6. TreesOK'
  BY <1>1, <1>2, <1>4, LevelsHeld
<1>7. Reindexes
  <2>1. changed = Found \intersect changed /\ changed = Found' \intersect changed
    BY <1>1, <1>5
  <2>2. n \in changed
    OBVIOUS
  <2> HIDE DEF changed
  <2>3. \A m \in Nodes \ changed : /\ tree'.up[m] = tree.up[m] /\ tree'.name[m] = tree.name[m]
                                    /\ tree.up[m] \notin changed
    BY <1>1, <1>2, <1>4, <2>2
  <2>4. /\ tree' \in Tree /\ Shallow(tree') /\ Found' \intersect {} = {} /\ {} \in SUBSET Nodes
        /\ UNCHANGED dataSources /\ Rekey(tree', IdsOf(tree, changed), changed, {})
    BY <1>2, <1>3, <1>4
  <2> QED
    BY <1>1, <2>1, <2>3, <2>4, RekeyReindexes
<1> QED
  BY <1>4, <1>6, <1>7 DEF Edits

\* A child removed, or the entry itself: what is under the entry afterwards is all that
\* is still open of what was.
LEMMA HostRemovalEdits ==
    ASSUME Kept, NEW e \in Nodes, IsEntry(tree, e), HostOwned(ownerSourceOf(tree, e)),
           NEW n \in Subtree(tree, e), NEW t, t = Attached(tree, {n}, None),
           NEW ns, ns = IF n = e THEN {} ELSE Subtree(t, e), NEW leaving, leaving = Subtree(tree, e) \ ns,
           HostEdit(t, IdsOf(tree, Subtree(tree, e)), ns, leaving)
    PROVE  Edits
<1> DEFINE changed == Subtree(tree, e)
<1>1. /\ tree \in Tree /\ Shallow(tree) /\ SourcesOK /\ TreesOK /\ HistoriesOK
      /\ changed \in SUBSET Nodes /\ e \in changed /\ changed \subseteq Found
      /\ tree.up[e] \in Open(dataSources) /\ tree.up[e] \in Roots
      /\ \A m \in Nodes \ changed : tree.up[m] \notin changed
  BY HostEntry
<1>2. /\ t \in Tree /\ t.name = tree.name
      /\ \A m \in Nodes : t.up[m] = IF m = n THEN None ELSE tree.up[m]
  BY <1>1, AttachedTree
<1>3. /\ tree' = t /\ Rekey(tree', IdsOf(tree, changed), ns, leaving) /\ UNCHANGED dataSources
      /\ Selections' /\ HistoriesOK' /\ \A s \in Sources : Steps(s)' = Steps(s)
  BY HostEditIs
<1>4. None \notin Nodes \union Roots /\ Nodes \intersect Roots = {}
  BY SessionAssumption
<1>5. TreesOK' /\ Shallow(t)
  <2>1. TreesOK'
    BY <1>1, <1>2, <1>3, LevelsHeld
  <2>2. Shallow(tree')
    BY <2>1, ShallowStays
  <2> QED
    BY <1>3, <2>1, <2>2
<1>6. leaving \intersect Found' = {} /\ ns = Found' \intersect changed /\ leaving \in SUBSET Nodes
  <2>0. Found' = OpenNodes(t, dataSources)
    BY <1>3 DEF Found
  <2>1. CASE n = e
    <3>1. ns = {} /\ leaving = changed /\ Subtree(t, e) = changed
      BY <1>1, <1>2, <1>4, <2>1 DEF Subtree
    <3>2. Subtree(t, e) \intersect OpenNodes(t, dataSources) = {}
      <4>1. t.up[e] = None
        BY <1>2, <2>1
      <4> QED
        BY <1>1, <1>2, <1>5, <4>1, DetachedNotFound DEF SourcesOK
    <3> QED
      BY <1>1, <2>0, <3>1, <3>2
  <2>2. CASE n # e
    <3>1. ns = changed \ {n} /\ leaving = {n} /\ n \in Nodes
      BY ZenonT(40), <1>1, <1>2, <1>4, <2>2 DEF Subtree
    <3>2. n \notin OpenNodes(t, dataSources)
      <4>1. t.up[n] = None
        BY <1>2, <3>1
      <4> QED
        BY <1>1, <1>2, <1>5, <3>1, <4>1, DetachedNotFound DEF SourcesOK, Subtree
    <3>3. Subtree(t, e) \subseteq OpenNodes(t, dataSources)
      <4>1. t.up[e] \in Open(dataSources)
        BY <1>1, <1>2, <2>2
      <4> QED
        BY <1>1, <1>2, <1>5, <4>1, EntryFound DEF SourcesOK
    <3>4. ns \subseteq OpenNodes(t, dataSources)
      BY <2>2, <3>3
    <3> HIDE DEF changed
    <3> QED
      BY <1>1, <2>0, <3>1, <3>2, <3>4
  <2> QED
    BY <2>1, <2>2
<1>7. Reindexes
  <2>1. changed = Found \intersect changed
    BY <1>1
  <2>2. n \in changed
    OBVIOUS
  <2> HIDE DEF changed
  <2>3. \A m \in Nodes \ changed : tree'.up[m] = tree.up[m] /\ tree'.name[m] = tree.name[m]
    BY <1>2, <1>3, <2>2
  <2> QED
    BY <1>1, <1>2, <1>3, <1>5, <1>6, <2>1, <2>3, RekeyReindexes
<1> QED
  BY <1>3, <1>5, <1>7 DEF Edits

\* A new node put in a file's tree, in an entry or as one.
LEMMA HostAdditionEdits ==
    ASSUME Kept, NEW n \in Unused, NEW a \in Names, NEW p,
           p \in Open(dataSources) \/ (p \in Nodes /\ IsEntry(tree, p) /\ HostOwned(ownerSourceOf(tree, p))),
           NEW t, t = Attached(Named(tree, {n}, a), {n}, p),
           NEW out, out = IF p \in Nodes THEN Subtree(tree, p) ELSE {},
           NEW ns, ns = IF p \in Nodes THEN Subtree(t, p) ELSE {n},
           NEW ids, ids = IdsOf(tree, out), HostEdit(t, ids, ns, {})
    PROVE  Edits
<1> DEFINE changed == out \union {n}
           c == Adding({n}, p, FALSE)
<1> HIDE DEF changed, c
<1>1. TreesOK /\ HistoriesOK /\ tree \in Tree /\ Shallow(tree) /\ SourcesOK
  BY KeptIsShallow DEF Kept, TreesOK
<1>2. Open(dataSources) \subseteq Roots /\ None \notin Nodes \union Roots /\ Nodes \intersect Roots = {}
  BY <1>1, SessionAssumption DEF Open, SourcesOK
<1>3. /\ n \in Nodes /\ tree.up[n] = None /\ \A m \in Nodes : tree.up[m] # n
  BY <1>1, UnusedIs
<1>4. p \in Roots \/ (p \in Nodes /\ IsEntry(tree, p))
  BY <1>2
<1>5. /\ t \in Tree /\ \A m \in Nodes : t.up[m] = IF m = n THEN p ELSE tree.up[m]
      /\ \A m \in Nodes : m # n => t.name[m] = tree.name[m]
  <2> DEFINE u == Attached(Named(tree, {n}, a), {n}, p)
  <2>1. p \in Nodes \union Roots
    BY <1>4
  <2> DEFINE Goes(n0, a0, p0, t0) == /\ t0 \in Tree
                                     /\ \A m \in Nodes : t0.up[m] = IF m = n0 THEN p0 ELSE tree.up[m]
                                     /\ \A m \in Nodes : m # n0 => t0.name[m] = tree.name[m]
  <2>2. Goes(n, a, p, u)
    BY ZenonT(40), <1>1, <2>1, Grown
  <2>3. t = u
    OBVIOUS
  <2> HIDE DEF u
  <2> QED
    BY <2>2, <2>3
<1>6. /\ tree' = t /\ Rekey(tree', ids, ns, {}) /\ UNCHANGED dataSources
      /\ Selections' /\ HistoriesOK' /\ \A s \in Sources : Steps(s)' = Steps(s)
  BY HostEditIs
<1>7. c.on = {n} /\ c.at = p /\ c.op # "rename"
  BY DEF Adding, c
<1>8. TreesOK' /\ Shallow(t)
  <2>0. tree' \in Tree /\ HistoriesOK' /\ (\A s \in Sources : Steps(s)' \subseteq Steps(s) \union {c})
        /\ \A m \in Nodes : tree'.up[m] = IF m = n THEN p ELSE tree.up[m]
    BY <1>5, <1>6
  <2>1. TreesOK'
    BY <1>1, <1>4, <1>7, <2>0, LevelsGrow
  <2>2. Shallow(tree')
    BY <2>1, ShallowStays
  <2> QED
    BY <1>6, <2>1, <2>2
<1>9. n \notin Found
  BY <1>1, <1>3, DetachedNotFound DEF Found, SourcesOK, Subtree
<1>10. /\ out = Found \intersect changed /\ ns = Found' \intersect changed
       /\ changed \in SUBSET Nodes /\ \A m \in Nodes \ changed : tree.up[m] \notin changed
  <2> USE DEF changed
  <2>0. Found' = OpenNodes(t, dataSources)
    BY <1>6 DEF Found
  <2>1. CASE p \in Nodes
    <3>1. /\ tree.up[p] \in Open(dataSources) /\ out \in SUBSET Nodes /\ p \in out /\ out \subseteq Found
          /\ \A m \in Nodes \ out : tree.up[m] \notin out
      BY <1>2, <2>1, HostEntry
    <3>2. p # n /\ t.up[p] = tree.up[p] /\ ns = out \union {n}
      <4>1. p # n /\ t.up[p] = tree.up[p]
        BY <1>2, <1>3, <1>5, <2>1, <3>1
      <4>2. Subtree(t, p) = Subtree(tree, p) \union {n}
        BY <1>2, <1>3, <1>5, <2>1, <4>1 DEF Subtree
      <4> QED
        BY <2>1, <4>1, <4>2
    <3>3. ns \subseteq OpenNodes(t, dataSources)
      <4>1. t.up[p] \in Open(dataSources)
        BY <3>1, <3>2
      <4> QED
        BY <1>1, <1>5, <1>8, <2>1, <4>1, EntryFound DEF SourcesOK
    <3> QED
      BY <1>3, <1>9, <2>0, <3>1, <3>2, <3>3
  <2>2. CASE p \notin Nodes
    <3>1. p \in Open(dataSources) /\ out = {} /\ ns = {n}
      BY <2>2
    <3>2. n \in OpenNodes(t, dataSources)
      <4>1. t.up[n] \in Open(dataSources)
        BY <1>3, <1>5, <3>1
      <4> QED
        BY <1>1, <1>3, <1>5, <1>8, <4>1, EntryFound DEF SourcesOK, Subtree
    <3> QED
      BY <1>3, <1>9, <2>0, <3>1, <3>2
  <2> QED
    BY <2>1, <2>2
<1>11. \A m \in Nodes \ changed : tree'.up[m] = tree.up[m] /\ tree'.name[m] = tree.name[m]
  BY <1>5, <1>6 DEF changed
<1>12. Reindexes
  BY <1>1, <1>5, <1>6, <1>8, <1>10, <1>11, RekeyReindexes
<1> QED
  BY <1>6, <1>8, <1>12 DEF Edits

LEMMA MutateEdits ==
    ASSUME Kept, NEW e \in Nodes, mutateSubtree(e)
    PROVE  Edits
<1> DEFINE before == Subtree(tree, e)
           mutate(t) == HostEdit(t, IdsOf(tree, before), Subtree(t, e), before \ Subtree(t, e))
<1>1. /\ IsEntry(tree, e) /\ HostOwned(ownerSourceOf(tree, e))
      /\ \/ \E n \in before : \E a \in FreeNames(tree.up[n]) : mutate(Named(tree, {n}, a))
         \/ \E n \in before \ {e} : mutate(Attached(tree, {n}, None))
         \/ \E n \in Unused, a \in FreeNames(e) : mutate(Attached(Named(tree, {n}, a), {n}, e))
  BY DEF mutateSubtree
<1>2. tree \in Tree /\ e \in before /\ before \in SUBSET Nodes /\ Nodes \intersect Roots = {}
      /\ None \notin Nodes
  BY <1>1, HostEntry, SessionAssumption
<1>3. ASSUME NEW n \in before, NEW a \in FreeNames(tree.up[n]), mutate(Named(tree, {n}, a))
      PROVE  Edits
  <2>1. a \in Names
    BY DEF FreeNames
  <2> QED
    BY <1>1, <1>3, <2>1, HostRenameEdits
<1>4. ASSUME NEW n \in before \ {e}, mutate(Attached(tree, {n}, None))
      PROVE  Edits
  BY <1>1, <1>4, HostRemovalEdits
<1>5. ASSUME NEW n \in Unused, NEW a \in FreeNames(e), mutate(Attached(Named(tree, {n}, a), {n}, e))
      PROVE  Edits
  <2> DEFINE t == Attached(Named(tree, {n}, a), {n}, e)
  <2>1. a \in Names
    BY DEF FreeNames
  <2>2. before \ Subtree(t, e) = {}
    <3>1. TreesOK /\ e \in Nodes \union Roots
      BY DEF Kept
    <3>2. \A m \in Nodes : t.up[m] = IF m = n THEN e ELSE tree.up[m]
      BY ZenonT(40), <2>1, <3>1, Grown
    <3> HIDE DEF t
    <3> QED
      BY <3>2 DEF Subtree
  <2>3. HostEdit(t, IdsOf(tree, before), Subtree(t, e), {})
    BY <1>5, <2>2
  <2> QED
    BY <1>1, <2>1, <2>3, HostAdditionEdits
<1> QED
  BY <1>1, <1>3, <1>4, <1>5

LEMMA UnindexEdits ==
    ASSUME Kept, NEW e \in Nodes, unindexSubtree(e)
    PROVE  Edits
<1>1. /\ IsEntry(tree, e) /\ HostOwned(ownerSourceOf(tree, e))
      /\ HostEdit(Attached(tree, {e}, None), IdsOf(tree, Subtree(tree, e)), {}, Subtree(tree, e))
  BY DEF unindexSubtree
<1>2. e \in Subtree(tree, e) /\ Subtree(tree, e) = Subtree(tree, e) \ {}
  BY DEF Subtree
<1> QED
  BY <1>1, <1>2, HostRemovalEdits

LEMMA IndexSubtreeEdits ==
    ASSUME Kept, NEW r \in Roots, indexSubtree(r)
    PROVE  Edits
<1>1. PICK n \in Unused, a \in FreeNames(r) :
          HostEdit(Attached(Named(tree, {n}, a), {n}, r), {}, {n}, {})
  BY DEF indexSubtree
<1>2. r \in Open(dataSources) /\ r \notin Nodes /\ a \in Names /\ {} = IdsOf(tree, {})
  BY SessionAssumption DEF indexSubtree, HostOwned, FreeNames, IdsOf
<1> QED
  BY <1>1, <1>2, HostAdditionEdits

-----------------------------------------------------------------------------
(***************************************************************************)
(* Files opened, reloaded and closed.                                      *)
(***************************************************************************)
\* The nodes of a file's tree, and those of the tree under a srcId.
TreeOf(s) == IF dataSources[s] = None THEN {} ELSE flatten(tree, dataSources[s])

\* A tree's nodes are open when it is, and its ids begin with its label.
LEMMA FlatIds ==
    ASSUME NEW t \in Tree, Shallow(t), NEW r \in Roots
    PROVE  /\ flatten(t, r) \in SUBSET Nodes
           /\ \A n \in flatten(t, r) : id(t, n) \in Ids /\ id(t, n)[1] = Label[r]
<1>1. flatten(t, r) \in SUBSET Nodes
  BY DEF flatten
<1> QED
  BY <1>1, InFlat, IdInTree

\* registerSource: the tree that was there out of the index, the new one in.
LEMMA RegisterIs ==
    ASSUME Kept, NEW r \in Roots, registerSource(r)
    PROVE  LET s       == SrcOf[r]
               cleared == Without(nodeIndex, IdsOf(tree, TreeOf(s)))
               ns      == flatten(tree, r)
           IN  /\ s \in Sources /\ dataSources' = [dataSources EXCEPT ![s] = r] /\ UNCHANGED tree
               /\ nodeIndex' = Indexed(tree, cleared, ns)
               /\ sharedIds' = sharedIds \union Shared(tree, cleared, ns)
               /\ Selections' /\ TreesOK'
<1> DEFINE s == SrcOf[r]
           cleared == Without(nodeIndex, IdsOf(tree, TreeOf(s)))
           ns == flatten(tree, r)
           previous == dataSources[s]
           index == IF previous = None THEN nodeIndex ELSE deindexSource(nodeIndex, previous)
<1>1. /\ dataSources' = [dataSources EXCEPT ![s] = r] /\ UNCHANGED tree
      /\ IF previous \in {None, r} THEN UNCHANGED <<selection, history>>
         ELSE releaseSelection({previous}) /\ clear({s})
      /\ nodeIndex' = Indexed(tree, index, ns)
      /\ sharedIds' = sharedIds \union Shared(tree, index, ns)
  BY DEF registerSource
<1>2. index = cleared
  <2>1. CASE previous = None
    <3>1. TreeOf(s) = {} /\ IdsOf(tree, {}) = {}
      BY <2>1 DEF TreeOf, IdsOf
    <3>2. Without(nodeIndex, {}) = nodeIndex
      BY DEF Without, Kept, IndexTyped
    <3> QED
      BY <2>1, <3>1, <3>2
  <2>2. CASE previous # None
    BY <2>2 DEF TreeOf, deindexSource
  <2> QED
    BY <2>1, <2>2
<1>3. s \in Sources
  BY SessionAssumption
<1>4. /\ Selections' /\ HistoriesOK' /\ \A q \in Sources : Steps(q)' \subseteq Steps(q)
  <2>1. CASE previous \in {None, r}
    <3>1. UNCHANGED <<selection, history>>
      BY <1>1, <2>1
    <3>2. Selections'
      BY <3>1 DEF Kept, Selections, selection
    <3> QED
      BY <3>1, <3>2, HistoryKept DEF Kept, TreesOK
  <2>2. CASE previous \notin {None, r}
    <3>1. releaseSelection({previous}) /\ clear({s})
      BY <1>1, <2>2
    <3>2. Selections'
      BY <3>1, SelectionReleased DEF Kept, releaseSelection
    <3> QED
      BY <3>1, <3>2, Cleared DEF Kept, TreesOK
  <2> QED
    BY <2>1, <2>2
<1>5. TreesOK'
  <2>1. TreesOK /\ tree' \in Tree /\ \A n \in Nodes : tree'.up[n] = tree.up[n]
    BY <1>1 DEF Kept, TreesOK
  <2> QED
    BY <1>4, <2>1, LevelsHeld
<1> QED
  BY <1>1, <1>2, <1>3, <1>4, <1>5

LEMMA RegisterKeeps ==
    ASSUME Kept, NEW r \in Roots, registerSource(r)
    PROVE  Kept'
<1> DEFINE s == SrcOf[r]
           cleared == Without(nodeIndex, IdsOf(tree, TreeOf(s)))
           ns == flatten(tree, r)
<1>1. /\ s \in Sources /\ dataSources' = [dataSources EXCEPT ![s] = r] /\ UNCHANGED tree
      /\ nodeIndex' = Indexed(tree, cleared, ns)
      /\ sharedIds' = sharedIds \union Shared(tree, cleared, ns)
      /\ Selections' /\ TreesOK'
  BY RegisterIs
<1>2. tree \in Tree /\ Shallow(tree)
  BY KeptIsShallow DEF Kept
<1>3. ns \in SUBSET Nodes /\ \A n \in ns : id(tree, n) \in Ids
  BY <1>2, FlatIds
<1>4. cleared \in [Ids -> Nodes \union {None}]
  BY WithoutAt DEF Kept, IndexTyped
<1>5. SourcesOK'
  BY <1>1 DEF Kept, SourcesOK
<1> HIDE DEF cleared, ns
<1>6. nodeIndex' \in [Ids -> Nodes \union {None}]
  BY <1>1, <1>3, <1>4, IndexedAt
<1>7. sharedIds' \subseteq Ids
  BY <1>1, <1>3, SharedIds DEF Kept, IndexTyped
<1> QED
  BY <1>1, <1>5, <1>6, <1>7 DEF Kept, IndexTyped

\* A tree's nodes are in the one tree.
LEMMA OneTree ==
    ASSUME NEW t \in Tree, Shallow(t), NEW n \in Nodes, NEW r \in Roots, NEW q \in Roots,
           InTree(t, n, r), InTree(t, n, q)
    PROVE  r = q
BY OwnerInTree

\* What is open under the other srcIds, and under the one.
LEMMA FoundUnder ==
    ASSUME tree \in Tree, Shallow(tree), SourcesOK, NEW s \in Sources,
           NEW q \in Roots \union {None}, q # None => SrcOf[q] = s
    PROVE  LET new == IF q = None THEN {} ELSE flatten(tree, q)
           IN  /\ OpenNodes(tree, [dataSources EXCEPT ![s] = q]) = (Found \ TreeOf(s)) \union new
               /\ TreeOf(s) \subseteq Found
<1> DEFINE srcs == [dataSources EXCEPT ![s] = q]
           new == IF q = None THEN {} ELSE flatten(tree, q)
<1>1. /\ srcs \in [Sources -> Roots \union {None}] /\ srcs[s] = q
      /\ \A x \in Sources : x # s => srcs[x] = dataSources[x]
  BY DEF SourcesOK
<1> HIDE DEF srcs
<1>2. None \notin Roots
  BY SessionAssumption
<1>3. \A r : r \in Open(srcs) <=> \/ r = q /\ q # None
                                  \/ \E x \in Sources \ {s} : r = dataSources[x] /\ r # None
  BY <1>1 DEF Open
<1>4. \A r : r \in Open(dataSources) <=> \/ r = dataSources[s] /\ r # None
                                         \/ \E x \in Sources \ {s} : r = dataSources[x] /\ r # None
  BY DEF Open
<1>5. \A n \in Nodes : n \in TreeOf(s) <=> dataSources[s] # None /\ InTree(tree, n, dataSources[s])
  BY InFlat DEF TreeOf, SourcesOK
<1>6. \A n \in Nodes : n \in new <=> q # None /\ InTree(tree, n, q)
  BY InFlat
<1>7. \A n \in Nodes : n \in OpenNodes(tree, srcs) <=> \E r \in Open(srcs) : InTree(tree, n, r)
  BY <1>1, InOpen
<1>8. \A n \in Nodes : n \in Found <=> \E r \in Open(dataSources) : InTree(tree, n, r)
  BY InOpen DEF Found, SourcesOK
<1>9. OpenNodes(tree, srcs) \subseteq Nodes /\ Found \subseteq Nodes /\ TreeOf(s) \subseteq Nodes /\ new \subseteq Nodes
  BY DEF OpenNodes, Found, TreeOf, flatten
<1> HIDE DEF new
<1>10. TreeOf(s) \subseteq Found
  BY <1>4, <1>5, <1>8, <1>9
<1>11. ASSUME NEW n \in Nodes
       PROVE  n \in OpenNodes(tree, srcs) <=> n \in (Found \ TreeOf(s)) \union new
  <2>1. ASSUME NEW x \in Sources \ {s}, dataSources[x] # None, InTree(tree, n, dataSources[x]), n \in TreeOf(s)
        PROVE  FALSE
    <3>1. dataSources[x] \in Roots /\ dataSources[s] \in Roots /\ SrcOf[dataSources[x]] = x
          /\ SrcOf[dataSources[s]] = s
      BY <1>5, <2>1 DEF SourcesOK
    <3>2. dataSources[x] = dataSources[s]
      BY <1>5, <2>1, <3>1, OneTree
    <3> QED
      BY <3>1, <3>2
  <2>2. CASE n \in OpenNodes(tree, srcs)
    <3>1. PICK r \in Open(srcs) : InTree(tree, n, r)
      BY <1>7, <2>2
    <3>2. CASE r = q /\ q # None
      BY <1>6, <2>2, <3>1, <3>2
    <3>3. CASE \E x \in Sources \ {s} : r = dataSources[x] /\ r # None
      <4>1. n \in Found
        BY <1>4, <1>8, <3>1, <3>3
      <4> QED
        BY <2>1, <2>2, <3>1, <3>3, <4>1
    <3> QED
      BY <1>3, <3>1, <3>2, <3>3
  <2>3. CASE n \in new
    BY <1>3, <1>6, <1>7, <2>3
  <2>4. CASE n \in Found \ TreeOf(s)
    <3>1. PICK r \in Open(dataSources) : InTree(tree, n, r)
      BY <1>8, <2>4
    <3> QED
      BY <1>3, <1>4, <1>5, <1>7, <2>4, <3>1
  <2> QED
    BY <2>2, <2>3, <2>4
<1>12. OpenNodes(tree, srcs) = (Found \ TreeOf(s)) \union new
  BY <1>9, <1>11
<1> QED
  BY <1>10, <1>12 DEF srcs, new

\* The ids of two files differ, where their labels do.
LEMMA IdsApart ==
    ASSUME LabelsApart, tree \in Tree, Shallow(tree), SourcesOK, NEW s \in Sources,
           NEW q \in Roots, SrcOf[q] = s
    PROVE  \A m \in Found \ TreeOf(s), n \in flatten(tree, q) : id(tree, m) # id(tree, n)
<1> SUFFICES ASSUME NEW m \in Found \ TreeOf(s), NEW n \in flatten(tree, q)
             PROVE  id(tree, m) # id(tree, n)
  OBVIOUS
<1>1. m \in Nodes
  BY DEF Found, OpenNodes
<1>2. PICK r \in Open(dataSources) : InTree(tree, m, r)
  BY <1>1, InOpen DEF Found, SourcesOK
<1>3. PICK x \in Sources : r = dataSources[x] /\ r # None
  BY <1>2 DEF Open
<1>4. r \in Roots /\ SrcOf[r] = x
  BY <1>3 DEF SourcesOK
<1>5. x # s
  BY <1>1, <1>2, <1>3, <1>4, InFlat DEF TreeOf
<1>6. Label[r] # Label[q]
  BY <1>4, <1>5 DEF LabelsApart
<1>7. id(tree, m)[1] = Label[r]
  BY <1>1, <1>2, <1>4, IdInTree
<1>8. id(tree, n)[1] = Label[q]
  BY FlatIds
<1> QED
  BY <1>6, <1>7, <1>8

LEMMA RegisterRight ==
    ASSUME LabelsApart, Kept, IndexOK, NEW r \in Roots, registerSource(r)
    PROVE  IndexOK'
<1> DEFINE s == SrcOf[r]
           out == TreeOf(s)
           cleared == Without(nodeIndex, IdsOf(tree, out))
           ns == flatten(tree, r)
           after == (Found \ out) \union ns
<1>1. /\ s \in Sources /\ dataSources' = [dataSources EXCEPT ![s] = r] /\ UNCHANGED tree
      /\ nodeIndex' = Indexed(tree, cleared, ns)
      /\ sharedIds' = sharedIds \union Shared(tree, cleared, ns)
  BY RegisterIs
<1>2. tree \in Tree /\ Shallow(tree) /\ SourcesOK /\ r # None
  BY KeptIsShallow, SessionAssumption DEF Kept
<1>3. Found' = after /\ out \subseteq Found
  BY <1>1, <1>2, FoundUnder DEF Found
<1>4. Found \in SUBSET Nodes /\ \A n \in Found : id(tree, n) \in Ids
  BY <1>2, FoundIds DEF Found, SourcesOK
<1>5. ns \in SUBSET Nodes /\ \A n \in ns : id(tree, n) \in Ids
  BY <1>2, FlatIds
<1>6. \A m \in Found \ out, n \in out \union ns : id(tree, m) # id(tree, n)
  <2>1. \A m \in Found \ out, n \in ns : id(tree, m) # id(tree, n)
    BY <1>1, <1>2, IdsApart
  <2>2. ASSUME dataSources[s] # None
        PROVE  \A m \in Found \ out, n \in out : id(tree, m) # id(tree, n)
    <3>1. dataSources[s] \in Roots /\ SrcOf[dataSources[s]] = s
      BY <1>1, <1>2, <2>2 DEF SourcesOK
    <3>2. \A m \in Found \ TreeOf(s), n \in flatten(tree, dataSources[s]) : id(tree, m) # id(tree, n)
      BY <1>1, <1>2, <3>1, IdsApart
    <3> QED
      BY <2>2, <3>2 DEF TreeOf
  <2>3. dataSources[s] = None => out = {}
    BY DEF TreeOf
  <2> HIDE DEF out, ns
  <2> QED
    BY <2>1, <2>2, <2>3
<1> HIDE DEF out, ns
<1>7. /\ IndexOf(tree, Indexed(tree, cleared, ns), after)
      /\ NotedIn(tree, sharedIds \union Shared(tree, cleared, ns), after)
  <2>1. IndexOf(tree, nodeIndex, Found) /\ NotedIn(tree, sharedIds, Found)
    BY DEF IndexOK
  <2>2. out \in SUBSET Found /\ \A n \in Found \union ns : id(tree, n) \in Ids
    BY <1>3, <1>4, <1>5
  <2> QED
    BY <1>4, <1>5, <1>6, <2>1, <2>2, Replaced
<1> QED
  BY <1>1, <1>3, <1>7 DEF IndexOK

\* removeDataSource: the tree's ids out of the index.
LEMMA RemoveKeeps ==
    ASSUME Kept, NEW s \in Sources, removeDataSource(s)
    PROVE  /\ Kept' /\ UNCHANGED <<tree, sharedIds>>
           /\ dataSources' = [dataSources EXCEPT ![s] = None]
           /\ nodeIndex' = Without(nodeIndex, IdsOf(tree, TreeOf(s)))
<1>1. /\ dataSources[s] # None /\ UNCHANGED <<tree, sharedIds>>
      /\ nodeIndex' = deindexSource(nodeIndex, dataSources[s])
      /\ dataSources' = [dataSources EXCEPT ![s] = None]
      /\ releaseSelection({dataSources[s]}) /\ clear({s})
  BY DEF removeDataSource
<1>2. nodeIndex' = Without(nodeIndex, IdsOf(tree, TreeOf(s)))
  BY <1>1 DEF deindexSource, TreeOf
<1>3. IndexTyped'
  BY <1>1, <1>2, WithoutAt DEF Kept, IndexTyped
<1>4. SourcesOK'
  BY <1>1 DEF Kept, SourcesOK
<1>5. Selections'
  BY <1>1, SelectionReleased DEF Kept, releaseSelection
<1>6. HistoriesOK' /\ \A q \in Sources : Steps(q)' \subseteq Steps(q)
  BY <1>1, Cleared DEF Kept, TreesOK
<1>7. TreesOK /\ tree' \in Tree /\ \A n \in Nodes : tree'.up[n] = tree.up[n]
  BY <1>1 DEF Kept, TreesOK
<1>8. TreesOK'
  BY <1>6, <1>7, LevelsHeld
<1> QED
  BY <1>1, <1>2, <1>3, <1>4, <1>5, <1>8 DEF Kept

LEMMA RemoveRight ==
    ASSUME LabelsApart, Kept, IndexOK, NEW s \in Sources, removeDataSource(s)
    PROVE  IndexOK'
<1> DEFINE out == TreeOf(s)
           cleared == Without(nodeIndex, IdsOf(tree, out))
<1>1. /\ UNCHANGED <<tree, sharedIds>> /\ dataSources' = [dataSources EXCEPT ![s] = None]
      /\ nodeIndex' = cleared
  BY RemoveKeeps
<1>2. tree \in Tree /\ Shallow(tree) /\ SourcesOK
  BY KeptIsShallow DEF Kept
<1>3. Found' = (Found \ out) \union {} /\ out \subseteq Found
  <2>1. /\ OpenNodes(tree, [dataSources EXCEPT ![s] = None]) = (Found \ TreeOf(s)) \union {}
        /\ TreeOf(s) \subseteq Found
    BY <1>2, FoundUnder
  <2> QED
    BY <1>1, <2>1 DEF Found
<1>4. Found \in SUBSET Nodes /\ \A n \in Found : id(tree, n) \in Ids
  BY <1>2, FoundIds DEF Found, SourcesOK
<1>5. \A m \in Found \ out, n \in out : id(tree, m) # id(tree, n)
  <2>1. ASSUME dataSources[s] # None
        PROVE  \A m \in Found \ TreeOf(s), n \in TreeOf(s) : id(tree, m) # id(tree, n)
    <3>1. dataSources[s] \in Roots /\ SrcOf[dataSources[s]] = s
      BY <1>2, <2>1 DEF SourcesOK
    <3>2. \A m \in Found \ TreeOf(s), n \in flatten(tree, dataSources[s]) : id(tree, m) # id(tree, n)
      BY <1>2, <3>1, IdsApart
    <3> QED
      BY <2>1, <3>2 DEF TreeOf
  <2> QED
    BY <2>1 DEF removeDataSource
<1> HIDE DEF out
<1>6. cleared \in [Ids -> Nodes \union {None}]
      /\ \A i \in Ids : cleared[i] = IF i \in IdsOf(tree, out) THEN None ELSE nodeIndex[i]
  BY WithoutAt DEF Kept, IndexTyped
<1> HIDE DEF cleared
<1>7. ASSUME NEW n \in Found \ out
      PROVE  cleared[id(tree, n)] \in Found \ out /\ id(tree, cleared[id(tree, n)]) = id(tree, n)
  <2>1. id(tree, n) \in Ids /\ id(tree, n) \notin IdsOf(tree, out)
    BY <1>4, <1>5 DEF IdsOf
  <2>2. nodeIndex[id(tree, n)] \in Found /\ id(tree, nodeIndex[id(tree, n)]) = id(tree, n)
    BY DEF IndexOK, IndexOf
  <2>3. nodeIndex[id(tree, n)] \notin out
    BY <2>1, <2>2 DEF IdsOf
  <2> QED
    BY <1>6, <2>1, <2>2, <2>3
<1>8. ASSUME NEW i \in Ids, i \notin IdsOf(tree, Found \ out)
      PROVE  cleared[i] = None
  <2>1. i \in IdsOf(tree, Found) => i \in IdsOf(tree, out)
    BY <1>8 DEF IdsOf
  <2>2. i \notin IdsOf(tree, Found) => nodeIndex[i] = None
    BY DEF IndexOK, IndexOf
  <2> QED
    BY <1>6, <2>1, <2>2
<1>9. IndexOf(tree, cleared, Found \ out)
  BY <1>6, <1>7, <1>8 DEF IndexOf
<1>10. NotedIn(tree, sharedIds, Found \ out)
  BY DEF IndexOK, NotedIn
<1> QED
  BY <1>1, <1>3, <1>9, <1>10 DEF IndexOK

LEMMA RemoveAllKeeps ==
    ASSUME Kept, removeAll
    PROVE  Kept' /\ IndexOK'
<1>1. /\ dataSources' = [s \in Sources |-> None] /\ nodeIndex' = Empty /\ sharedIds' = {}
      /\ Selects(None, {}, None) /\ clear(Sources) /\ UNCHANGED tree
  BY DEF removeAll
<1>2. Found' = {}
  BY <1>1 DEF Found, OpenNodes, Open
<1>3. IndexOK'
  BY <1>1, <1>2 DEF IndexOK, IndexOf, NotedIn, Empty
<1>4. SourcesOK' /\ IndexTyped' /\ Selections'
  BY <1>1 DEF SourcesOK, IndexTyped, Empty, Selections, Selects
<1>5. HistoriesOK' /\ \A q \in Sources : Steps(q)' \subseteq Steps(q)
  BY <1>1, Cleared DEF Kept, TreesOK
<1>6. TreesOK /\ tree' \in Tree /\ \A n \in Nodes : tree'.up[n] = tree.up[n]
  BY <1>1 DEF Kept, TreesOK
<1>7. TreesOK'
  BY <1>5, <1>6, LevelsHeld
<1> QED
  BY <1>3, <1>4, <1>7 DEF Kept

\* What is selected is in the files that are open.
LEMMA SelectKeeps ==
    ASSUME Kept, NEW ctx \in Roots \union Nodes \union {None}, NEW ns \in SUBSET Nodes,
           NEW shown \in Nodes \union {None}, Selects(ctx, ns, shown),
           UNCHANGED <<tree, dataSources, nodeIndex, sharedIds, history>>
    PROVE  Kept' /\ (IndexOK => IndexOK')
<1>1. TreesOK'
  BY DEF Kept, TreesOK, LevelsKept, IsChild, IsTop, IsParent, StepsNamed, HistoriesOK, Steps, history
<1>2. SourcesOK' /\ IndexTyped' /\ Selections'
  BY DEF Kept, SourcesOK, IndexTyped, Selections, Selects
<1>3. IndexOK => IndexOK'
  BY DEF IndexOK, Found
<1> QED
  BY <1>1, <1>2, <1>3 DEF Kept

-----------------------------------------------------------------------------
(***************************************************************************)
(* The actions together.                                                   *)
(***************************************************************************)
LEMMA EditsKeep ==
    ASSUME Kept, Edits
    PROVE  Kept' /\ (IndexOK => IndexOK')
<1>1. tree \in Tree /\ Shallow(tree) /\ SourcesOK /\ IndexTyped
  BY KeptIsShallow DEF Kept
<1>2. tree' \in Tree /\ Shallow(tree') /\ Reindexes
  BY ShallowStays DEF Edits
<1>3. IndexTyped'
  BY <1>1, <1>2, ReindexesTyped
<1>4. SourcesOK'
  BY <1>1 DEF Edits, Reindexes, SourcesOK
<1>5. IndexOK => IndexOK'
  BY <1>1, <1>2, ReindexesRight
<1> QED
  BY <1>3, <1>4, <1>5 DEF Edits, Kept

LEMMA StepKeeps ==
    ASSUME Kept, [Next]_vars
    PROVE  Kept' /\ (LabelsApart /\ IndexOK => IndexOK')
<1>1. ASSUME NEW r \in Roots, registerSource(r)
      PROVE  Kept' /\ (LabelsApart /\ IndexOK => IndexOK')
  BY <1>1, RegisterKeeps, RegisterRight
<1>2. ASSUME NEW s \in Sources, removeDataSource(s)
      PROVE  Kept' /\ (LabelsApart /\ IndexOK => IndexOK')
  BY <1>2, RemoveKeeps, RemoveRight
<1>3. CASE removeAll
  BY <1>3, RemoveAllKeeps
<1>4. /\ context \in Roots \union Nodes \union {None} /\ entries \in SUBSET Nodes
      /\ preview \in Nodes \union {None}
  BY DEF Kept, Selections
<1>5. ASSUME NEW x \in Viewed \intersect InView, setActiveContext(x)
      PROVE  Kept' /\ (LabelsApart /\ IndexOK => IndexOK')
  <2>1. x \in Roots \union Nodes \union {None} /\ {} \in SUBSET Nodes
    BY SessionAssumption
  <2> QED
    BY <1>4, <1>5, <2>1, SelectKeeps DEF setActiveContext
<1>6. ASSUME NEW ns \in Selectable, setActiveEntry(ns)
      PROVE  Kept' /\ (LabelsApart /\ IndexOK => IndexOK')
  <2>1. ns \in SUBSET Nodes
    BY SessionAssumption
  <2> QED
    BY <1>4, <1>6, <2>1, SelectKeeps DEF setActiveEntry
<1>7. ASSUME NEW n \in Shown \intersect InView, setPreviewNode(n)
      PROVE  Kept' /\ (LabelsApart /\ IndexOK => IndexOK')
  <2>1. n \in Nodes \union {None}
    BY SessionAssumption
  <2> QED
    BY <1>4, <1>7, <2>1, SelectKeeps DEF setPreviewNode
<1>8. CASE addEntry
  BY <1>8, AddEntryEdits, EditsKeep
<1>9. CASE addChild
  BY <1>4, <1>9, AddChildEdits, EditsKeep DEF addChild
<1>10. ASSUME NEW i \in DOMAIN nodeIndex, addChildTo(i)
       PROVE  Kept' /\ (LabelsApart /\ IndexOK => IndexOK')
  <2>1. resolveId(i) \in Nodes /\ addChildOfNode(resolveId(i), FALSE)
    BY <1>10 DEF addChildTo, resolveId, Kept, IndexTyped
  <2> QED
    BY <2>1, AddChildEdits, EditsKeep
<1>11. CASE deleteNode
  BY <1>4, <1>11, DeleteEdits, EditsKeep DEF deleteNode
<1>12. ASSUME NEW is \in SUBSET {i \in DOMAIN nodeIndex : nodeIndex[i] # None}, deleteNodesById(is)
       PROVE  Kept' /\ (LabelsApart /\ IndexOK => IndexOK')
  <2> DEFINE ns == {nodeIndex[i] : i \in is} \ {None}
  <2>1. ns \in SUBSET Nodes
    BY DEF Kept, IndexTyped
  <2>2. Delete(ns, editableOwnerOfAll(ns), FALSE)
    BY <1>12 DEF deleteNodesById
  <2> HIDE DEF ns
  <2> QED
    BY <2>1, <2>2, DeleteEdits, EditsKeep
<1>13. ASSUME NEW n \in Nodes, NEW a \in Names, editName(n, a)
       PROVE  Kept' /\ (LabelsApart /\ IndexOK => IndexOK')
  BY <1>13, EditNameEdits, EditsKeep
<1>14. CASE undoAction
  BY <1>14, UndoEdits, EditsKeep
<1>15. CASE redoAction
  BY <1>15, RedoEdits, EditsKeep
<1>16. ASSUME NEW e \in Nodes, mutateSubtree(e) \/ unindexSubtree(e)
       PROVE  Kept' /\ (LabelsApart /\ IndexOK => IndexOK')
  BY <1>16, MutateEdits, UnindexEdits, EditsKeep
<1>17. ASSUME NEW r \in Roots, indexSubtree(r)
       PROVE  Kept' /\ (LabelsApart /\ IndexOK => IndexOK')
  BY <1>17, IndexSubtreeEdits, EditsKeep
<1>18. CASE UNCHANGED vars
  BY <1>4, <1>18, SelectKeeps DEF vars, selection, Selects
<1> QED
  BY <1>1, <1>2, <1>3, <1>5, <1>6, <1>7, <1>8, <1>9, <1>10, <1>11, <1>12, <1>13, <1>14, <1>15,
     <1>16, <1>17, <1>18 DEF Next

LEMMA InitKeeps ==
    ASSUME Init
    PROVE  Kept /\ IndexOK
<1>1. /\ tree.up = ParsedUp /\ tree.name = ParsedName /\ tree \in Tree
  BY SessionAssumption DEF Init, Tree
<1>2. HistoriesOK /\ \A s \in Sources : Steps(s) = {}
  <2>1. <<>> \in Seq(Step) /\ Range(<<>>) = {}
    BY DEF Range
  <2> QED
    BY <2>1 DEF Init, HistoriesOK, Histories, Steps
<1>3. LevelsKept /\ StepsNamed
  BY <1>1, <1>2, SessionAssumption DEF LevelsKept, StepsNamed, IsChild, IsTop, IsParent
<1>4. SourcesOK /\ IndexTyped /\ Selections
  BY DEF Init, SourcesOK, IndexTyped, Empty, Selections
<1>5. Found = {}
  BY DEF Init, Found, OpenNodes, Open
<1>6. IndexOK
  BY <1>5 DEF Init, IndexOK, IndexOf, NotedIn, Empty
<1> QED
  BY <1>1, <1>2, <1>3, <1>4, <1>6 DEF Kept, TreesOK

\* Every variable holds what it should, and no tree is deeper than entries' children: an
\* undone or redone step puts a node back at the level it was, however steps of several
\* files, host's edits, reloads and closes come between (UndoManager, DataModel).
THEOREM SessionTypeCorrect == Spec => []TypeOK
<1>1. Init => Kept
  BY InitKeeps
<1>2. Kept /\ [Next]_vars => Kept'
  BY StepKeeps
<1>3. Kept => TypeOK
  BY KeptIsShallow DEF Kept, TypeOK, TreesOK, SourcesOK, IndexTyped, Selections, HistoriesOK, Histories
<1> QED
  BY <1>1, <1>2, <1>3, PTL DEF Spec

\* The index and the noted ids are those of the open trees, through every edit, undo,
\* redo, reload and close, where no two files a host opens are labelled alike.
LEMMA IndexKept ==
    ASSUME LabelsApart
    PROVE  Spec => [](Kept /\ IndexOK)
<1>1. Init => Kept /\ IndexOK
  BY InitKeeps
<1>2. Kept /\ IndexOK /\ [Next]_vars => (Kept /\ IndexOK)'
  BY StepKeeps
<1> QED
  BY <1>1, <1>2, PTL DEF Spec

\* A piecemeal index is the one a walk of every open tree would make: registerSource,
\* deindexSource, reindexAround, indexSubtree and unindexHeld keep it so in any order.
THEOREM IndexFollowsTheTrees ==
    ASSUME LabelsApart
    PROVE  Spec => []IndexIsOfTheTrees
<1>1. Kept /\ IndexOK => IndexIsOfTheTrees
  <2> SUFFICES ASSUME Kept, IndexOK, NEW i \in DOMAIN nodeIndex
               PROVE  IF i \in IdsOf(tree, Found) THEN nodeIndex[i] \in Found /\ id(tree, nodeIndex[i]) = i
                      ELSE nodeIndex[i] = None
    BY DEF IndexIsOfTheTrees
  <2>1. i \in Ids
    BY DEF Kept, IndexTyped
  <2>2. CASE i \in IdsOf(tree, Found)
    <3>1. PICK n \in Found : id(tree, n) = i
      BY <2>2 DEF IdsOf
    <3>2. nodeIndex[id(tree, n)] \in Found /\ id(tree, nodeIndex[id(tree, n)]) = id(tree, n)
      BY <3>1 DEF IndexOK, IndexOf
    <3> QED
      BY <2>2, <3>1, <3>2
  <2>3. CASE i \notin IdsOf(tree, Found)
    BY <2>1, <2>3 DEF IndexOK, IndexOf
  <2> QED
    BY <2>2, <2>3
<1> QED
  BY <1>1, IndexKept, PTL

\* Ids of entries and of their children, as beginnings of one another.
LEMMA EntryBegins ==
    ASSUME NEW l, NEW a, NEW k, NEW b, NEW s, NEW t, s = <<l, a>>, t = <<k, b>>
    PROVE  IsPrefix(s, t) <=> l = k /\ a = b
BY DEF IsPrefix

LEMMA EntryBeginsChild ==
    ASSUME NEW l, NEW a, NEW k, NEW b, NEW d, NEW s, NEW t, s = <<l, a>>, t = <<k, b, d>>
    PROVE  IsPrefix(s, t) <=> l = k /\ a = b
BY DEF IsPrefix

LEMMA ChildBegins ==
    ASSUME NEW l, NEW a, NEW c, NEW k, NEW b, NEW d, NEW s, NEW t, s = <<l, a, c>>, t = <<k, b, d>>
    PROVE  IsPrefix(s, t) <=> l = k /\ a = b /\ c = d
BY DEF IsPrefix

LEMMA ChildBeginsNoEntry ==
    ASSUME NEW l, NEW a, NEW c, NEW k, NEW b, NEW s, NEW t, s = <<l, a, c>>, t = <<k, b>>
    PROVE  ~IsPrefix(s, t)
BY DEF IsPrefix

\* The id of a node of an open file: its entry's, and one name more where it is a child.
LEMMA IdOf ==
    ASSUME tree \in Tree, Shallow(tree), SourcesOK, NEW n \in Found
    PROVE  \E r \in Open(dataSources) :
               /\ r \in Roots /\ n \in Nodes
               /\ \/ tree.up[n] = r /\ id(tree, n) = <<Label[r], tree.name[n]>>
                  \/ /\ tree.up[n] \in Nodes /\ tree.up[tree.up[n]] = r /\ tree.up[n] \in Found
                     /\ id(tree, n) = <<Label[r], tree.name[tree.up[n]], tree.name[n]>>
                     /\ id(tree, tree.up[n]) = <<Label[r], tree.name[tree.up[n]]>>
<1>1. n \in Nodes /\ Nodes \intersect Roots = {}
  BY SessionAssumption DEF Found, OpenNodes
<1>2. PICK r \in Open(dataSources) : InTree(tree, n, r)
  BY <1>1, InOpen DEF Found, SourcesOK
<1>3. r \in Roots
  BY DEF Open, SourcesOK
<1>4. CASE tree.up[n] = r
  BY <1>1, <1>3, <1>4 DEF id, IsEntry
<1>5. CASE tree.up[n] \in Nodes /\ tree.up[tree.up[n]] = r
  <2>1. InTree(tree, tree.up[n], r)
    BY <1>5 DEF InTree
  <2>2. tree.up[n] \in Found
    BY <1>5, <2>1, InOpen DEF Found, SourcesOK
  <2> QED
    BY <1>1, <1>3, <1>5, <2>2 DEF id, IsEntry
<1> QED
  BY <1>2, <1>4, <1>5 DEF InTree

\* Two open files of one label are one.
LEMMA OneOfALabel ==
    ASSUME LabelsApart, SourcesOK
    PROVE  \A r, q \in Open(dataSources) : Label[r] = Label[q] => r = q
<1> SUFFICES ASSUME NEW r \in Open(dataSources), NEW q \in Open(dataSources), Label[r] = Label[q]
             PROVE  r = q
  OBVIOUS
<1>1. PICK x \in Sources : r = dataSources[x] /\ r # None
  BY DEF Open
<1>2. PICK y \in Sources : q = dataSources[y] /\ q # None
  BY DEF Open
<1>3. r \in Roots /\ q \in Roots /\ SrcOf[r] = x /\ SrcOf[q] = y
  BY <1>1, <1>2 DEF SourcesOK
<1> QED
  BY <1>1, <1>2, <1>3 DEF LabelsApart

Alone == {n \in Found : \A m \in Found \ {n, tree.up[n]} : ~IsPrefix(id(tree, m), id(tree, n))}

\* A sibling of a node's own name, or of its entry's, answers to what the node's id is in.
LEMMA TwinIsNotAlone ==
    ASSUME tree \in Tree, Shallow(tree), SourcesOK, NEW n \in Found, hasTwin(tree, n)
    PROVE  n \notin Alone
<1>1. PICK r \in Open(dataSources) :
          /\ r \in Roots /\ n \in Nodes
          /\ \/ tree.up[n] = r /\ id(tree, n) = <<Label[r], tree.name[n]>>
             \/ /\ tree.up[n] \in Nodes /\ tree.up[tree.up[n]] = r /\ tree.up[n] \in Found
                /\ id(tree, n) = <<Label[r], tree.name[tree.up[n]], tree.name[n]>>
                /\ id(tree, tree.up[n]) = <<Label[r], tree.name[tree.up[n]]>>
  BY IdOf
<1>2. PICK m \in {n, tree.up[n]} \intersect Nodes :
          tree.up[m] # None /\ \E o \in Siblings(tree, m) : tree.name[o] = tree.name[m]
  BY DEF hasTwin
<1>3. PICK o \in Nodes \ {m} : tree.up[o] = tree.up[m] /\ tree.name[o] = tree.name[m]
  BY <1>2 DEF Siblings
<1>4. Nodes \intersect Roots = {}
  BY SessionAssumption
<1>5. InTree(tree, o, r)
  BY <1>1, <1>2, <1>3, <1>4 DEF InTree, Shallow
<1>6. o \in Found
  BY <1>5, InOpen DEF Found, SourcesOK
<1>7. o # n /\ o # tree.up[n]
  BY <1>1, <1>2, <1>3, <1>4 DEF Shallow
<1>8. IsPrefix(id(tree, o), id(tree, n))
  <2>1. CASE tree.up[n] = r
    <3>1. id(tree, o) = id(tree, n)
      BY <1>1, <1>2, <1>3, <1>4, <2>1 DEF id, IsEntry
    <3> QED
      BY <1>1, <1>4, <2>1, <3>1, EntryBegins, EntryBeginsChild, ChildBegins, ChildBeginsNoEntry
  <2>2. CASE tree.up[n] # r /\ m = n
    <3>1. id(tree, o) = id(tree, n)
      BY <1>1, <1>2, <1>3, <1>4, <2>2 DEF id, IsEntry
    <3> QED
      BY <1>1, <2>2, <3>1, EntryBegins, EntryBeginsChild, ChildBegins, ChildBeginsNoEntry
  <2>3. CASE tree.up[n] # r /\ m = tree.up[n]
    <3>1. id(tree, o) = <<Label[r], tree.name[tree.up[n]]>>
      BY <1>1, <1>2, <1>3, <1>4, <2>3 DEF id, IsEntry
    <3> QED
      BY <1>1, <2>3, <3>1, EntryBegins, EntryBeginsChild, ChildBegins, ChildBeginsNoEntry
  <2> QED
    BY <1>2, <2>1, <2>2, <2>3
<1> QED
  BY <1>6, <1>7, <1>8 DEF Alone

\* And what answers to it is such a sibling.
LEMMA NotAloneIsTwin ==
    ASSUME LabelsApart, tree \in Tree, Shallow(tree), SourcesOK, IndexOK, NEW n \in Found, n \notin Alone
    PROVE  idIsShared(n)
<1>1. PICK m \in Found \ {n, tree.up[n]} : IsPrefix(id(tree, m), id(tree, n))
  BY DEF Alone
<1>2. PICK r \in Open(dataSources) :
          /\ r \in Roots /\ n \in Nodes
          /\ \/ tree.up[n] = r /\ id(tree, n) = <<Label[r], tree.name[n]>>
             \/ /\ tree.up[n] \in Nodes /\ tree.up[tree.up[n]] = r /\ tree.up[n] \in Found
                /\ id(tree, n) = <<Label[r], tree.name[tree.up[n]], tree.name[n]>>
                /\ id(tree, tree.up[n]) = <<Label[r], tree.name[tree.up[n]]>>
  BY IdOf
<1>3. PICK q \in Open(dataSources) :
          /\ q \in Roots /\ m \in Nodes
          /\ \/ tree.up[m] = q /\ id(tree, m) = <<Label[q], tree.name[m]>>
             \/ /\ tree.up[m] \in Nodes /\ tree.up[tree.up[m]] = q /\ tree.up[m] \in Found
                /\ id(tree, m) = <<Label[q], tree.name[tree.up[m]], tree.name[m]>>
                /\ id(tree, tree.up[m]) = <<Label[q], tree.name[tree.up[m]]>>
  BY IdOf
<1>4. Nodes \intersect Roots = {} /\ None \notin Nodes \union Roots
  BY SessionAssumption
<1>5. \A k, l \in Found : k # l /\ id(tree, k) = id(tree, l) => id(tree, l) \in sharedIds
  BY DEF IndexOK, NotedIn
\* Siblings of one name, at the node or at the entry it is in.
<1>6. ASSUME NEW k \in {n, tree.up[n]} \intersect Nodes, NEW o \in Nodes \ {k}, tree.up[k] # None,
             tree.up[o] = tree.up[k], tree.name[o] = tree.name[k]
      PROVE  hasTwin(tree, n)
  BY <1>6 DEF hasTwin, Siblings
<1>7. CASE tree.up[n] = r
  <2>1. tree.up[m] = q /\ Label[q] = Label[r] /\ tree.name[m] = tree.name[n]
    BY <1>1, <1>2, <1>3, <1>4, <1>7, EntryBegins, EntryBeginsChild, ChildBegins, ChildBeginsNoEntry
  <2>2. q = r
    BY <2>1, OneOfALabel
  <2>3. id(tree, m) = id(tree, n)
    BY <1>2, <1>3, <1>4, <1>7, <2>1, <2>2
  <2>4. hasTwin(tree, n)
    BY <1>1, <1>2, <1>3, <1>4, <1>6, <1>7, <2>1, <2>2
  <2>5. id(tree, n) \in sharedIds
    BY <1>1, <1>5, <2>3
  <2> QED
    BY <1>1, <2>3, <2>4, <2>5 DEF idIsShared
<1>8. CASE tree.up[n] # r /\ tree.up[m] = q
  <2>1. Label[q] = Label[r] /\ tree.name[m] = tree.name[tree.up[n]]
    BY <1>1, <1>2, <1>3, <1>4, <1>8, EntryBegins, EntryBeginsChild, ChildBegins, ChildBeginsNoEntry
  <2>2. q = r
    BY <2>1, OneOfALabel
  <2>3. id(tree, m) = id(tree, tree.up[n])
    BY <1>2, <1>3, <1>4, <1>8, <2>1, <2>2
  <2>4. hasTwin(tree, n)
    BY <1>1, <1>2, <1>3, <1>4, <1>6, <1>8, <2>1, <2>2
  <2>5. id(tree, m) \in sharedIds
    BY <1>1, <1>2, <1>5, <1>8, <2>3
  <2> QED
    BY <1>1, <2>4, <2>5 DEF idIsShared
<1>9. CASE tree.up[n] # r /\ tree.up[m] # q
  <2>1. /\ Label[q] = Label[r] /\ tree.name[tree.up[m]] = tree.name[tree.up[n]]
        /\ tree.name[m] = tree.name[n]
    BY <1>1, <1>2, <1>3, <1>9, EntryBegins, EntryBeginsChild, ChildBegins, ChildBeginsNoEntry
  <2>2. q = r
    BY <2>1, OneOfALabel
  <2>3. id(tree, m) = id(tree, n)
    BY <1>2, <1>3, <1>9, <2>1, <2>2
  <2>4. hasTwin(tree, n)
    <3>1. CASE tree.up[m] = tree.up[n]
      BY <1>1, <1>2, <1>3, <1>4, <1>6, <1>9, <2>1, <3>1
    <3>2. CASE tree.up[m] # tree.up[n]
      BY <1>2, <1>3, <1>4, <1>6, <1>9, <2>1, <2>2, <3>2
    <3> QED
      BY <3>1, <3>2
  <2>5. id(tree, n) \in sharedIds
    BY <1>1, <1>5, <2>3
  <2> QED
    BY <1>1, <2>3, <2>4, <2>5 DEF idIsShared
<1> QED
  BY <1>7, <1>8, <1>9

\* An id answers with the node it names alone, and with none where it names two, or what
\* it is inside does: hasTwin with what is noted as shared misses none and refuses no other.
THEOREM AnswersWithTheOne ==
    ASSUME LabelsApart
    PROVE  Spec => []FoundIsTheOne
<1>1. Kept /\ IndexOK => FoundIsTheOne
  <2> SUFFICES ASSUME Kept, IndexOK, NEW i \in DOMAIN nodeIndex
               PROVE  resolveId(i) = IF i \in IdsOf(tree, Alone)
                                     THEN CHOOSE n \in Alone : id(tree, n) = i ELSE None
    BY DEF FoundIsTheOne, Alone
  <2>1. tree \in Tree /\ Shallow(tree) /\ SourcesOK /\ i \in Ids
    BY KeptIsShallow DEF Kept, IndexTyped
  <2>2. \A n \in Found : n \in Alone <=> ~idIsShared(n)
    BY <2>1, TwinIsNotAlone, NotAloneIsTwin DEF idIsShared
  <2>3. i \notin IdsOf(tree, Found) => nodeIndex[i] = None
    BY <2>1 DEF IndexOK, IndexOf
  <2>4. Alone \subseteq Found
    BY DEF Alone
  <2>5. ASSUME i \in IdsOf(tree, Found)
        PROVE  nodeIndex[i] \in Found /\ id(tree, nodeIndex[i]) = i
    BY <2>5 DEF IndexOK, IndexOf, IdsOf
  <2>6. CASE i \in IdsOf(tree, Alone)
    <3>1. PICK n \in Alone : id(tree, n) = i
      BY <2>6 DEF IdsOf
    <3>2. \A k \in Found : id(tree, k) = i => k = n
      <4> SUFFICES ASSUME NEW k \in Found, id(tree, k) = i, k # n PROVE FALSE
        OBVIOUS
      <4>1. IsPrefix(id(tree, k), id(tree, n))
        <5>1. PICK r : \E a : i = <<r, a>> \/ \E b : i = <<r, a, b>>
          BY <2>1 DEF Ids
        <5> QED
          BY <3>1, <5>1, EntryBegins, EntryBeginsChild, ChildBegins, ChildBeginsNoEntry
      <4>2. k = tree.up[n]
        BY <3>1, <4>1 DEF Alone
      <4>3. id(tree, k) # id(tree, n)
        <5>1. n \in Found /\ k \in Nodes /\ Nodes \intersect Roots = {}
          BY <2>4, <3>1, SessionAssumption DEF Found, OpenNodes
        <5>2. \E l, a, b : id(tree, n) = <<l, a, b>> /\ id(tree, k) = <<l, a>>
          BY <2>1, <4>2, <5>1, IdOf
        <5>3. PICK l, a, b : id(tree, n) = <<l, a, b>> /\ id(tree, k) = <<l, a>>
          BY <5>2
        <5>4. Len(<<l, a, b>>) = 3 /\ Len(<<l, a>>) = 2
          OBVIOUS
        <5> QED
          BY <5>3, <5>4
      <4> QED
        BY <3>1, <4>3
    <3>3. nodeIndex[i] = n
      BY <2>4, <2>5, <3>1, <3>2 DEF IdsOf
    <3>4. resolveId(i) = n
      BY <2>2, <2>4, <3>1, <3>3, SessionAssumption DEF resolveId, Found, OpenNodes
    <3>5. (CHOOSE k \in Alone : id(tree, k) = i) = n
      BY <2>4, <3>1, <3>2
    <3> QED
      BY <2>6, <3>4, <3>5
  <2>7. CASE i \notin IdsOf(tree, Alone)
    <3>1. nodeIndex[i] # None => nodeIndex[i] \in Found /\ id(tree, nodeIndex[i]) = i
      BY <2>3, <2>5
    <3>2. nodeIndex[i] # None => idIsShared(nodeIndex[i])
      BY <2>2, <2>7, <3>1 DEF IdsOf
    <3> QED
      BY <2>7, <3>2 DEF resolveId
  <2> QED
    BY <2>6, <2>7
<1> QED
  BY <1>1, IndexKept, PTL
=============================================================================
