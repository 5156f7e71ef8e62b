------------------------ MODULE SessionHistoryProofs ------------------------
(***************************************************************************)
(* Theorems about a session's histories and its selection, for every set   *)
(* of files, nodes and names and every bound: a file's history can be      *)
(* walked end to end, leads back to where the file was, and nothing that   *)
(* has left the open files stays selected.                                 *)
(*                                                                         *)
(* The argument is about a trail: the trees a file's steps lead through,   *)
(* from before the first to undo to after the last to redo.  It is told    *)
(* only of the nodes at home in the file, which no other file's steps      *)
(* touch; so an edit elsewhere leaves it as it is.                         *)
(***************************************************************************)
EXTENDS SessionProofs

-----------------------------------------------------------------------------
(***************************************************************************)
(* Induction over an interval, down and up.                                *)
(***************************************************************************)
LEMMA LeastOf ==
    ASSUME NEW S, IsFiniteSet(S), NEW F, F \subseteq SUBSET S, F # {}
    PROVE  \E x \in F : \A y \in F : y \subseteq x => y = x
<1>1. IsWellFoundedOn(StrictSubsetOrdering(S), FiniteSubsetsOf(S))
  BY FS_StrictSubsetOrderingWellFounded
<1>2. F \subseteq FiniteSubsetsOf(S)
  BY FS_Subset DEF FiniteSubsetsOf
<1>3. PICK x \in F : \A y \in F : <<y, x>> \notin StrictSubsetOrdering(S)
  BY <1>1, <1>2, WFMin
<1>4. \A y \in F : y \subseteq x => y = x
  BY <1>3 DEF StrictSubsetOrdering
<1> QED
  BY <1>4

LEMMA Descends ==
    ASSUME NEW a \in Int, NEW b \in Int, NEW S, b \in S, \A i \in a .. b - 1 : i + 1 \in S => i \in S
    PROVE  a .. b \subseteq S
<1> SUFFICES ASSUME NEW j \in a .. b, j \notin S PROVE FALSE
  OBVIOUS
<1> DEFINE I == a .. b
           F == {i .. b : i \in {i \in a .. b : i \notin S}}
<1>1. IsFiniteSet(I) /\ F \subseteq SUBSET I /\ F # {}
  BY FS_Interval
<1> HIDE DEF F, I
<1>2. PICK x \in F : \A y \in F : y \subseteq x => y = x
  BY <1>1, LeastOf
<1> USE DEF F
<1>3. PICK i \in a .. b : i \notin S /\ x = i .. b
  OBVIOUS
<1>4. i \in a .. b - 1 /\ i + 1 \in a .. b /\ i + 1 \notin S
  BY <1>3
<1>5. (i + 1) .. b \in F
  BY <1>4
<1>6. (i + 1) .. b \subseteq x /\ i \in x /\ i \notin (i + 1) .. b
  BY <1>3, <1>4
<1> QED
  BY <1>2, <1>5, <1>6

LEMMA Ascends ==
    ASSUME NEW a \in Int, NEW b \in Int, NEW S, a \in S, \A i \in a .. b - 1 : i \in S => i + 1 \in S
    PROVE  a .. b \subseteq S
<1> SUFFICES ASSUME NEW j \in a .. b, j \notin S PROVE FALSE
  OBVIOUS
<1> DEFINE I == a .. b
           F == {a .. i : i \in {i \in a .. b : i \notin S}}
<1>1. IsFiniteSet(I) /\ F \subseteq SUBSET I /\ F # {}
  BY FS_Interval
<1> HIDE DEF F, I
<1>2. PICK x \in F : \A y \in F : y \subseteq x => y = x
  BY <1>1, LeastOf
<1> USE DEF F
<1>3. PICK i \in a .. b : i \notin S /\ x = a .. i
  OBVIOUS
<1>4. i - 1 \in a .. b - 1 /\ i - 1 \in a .. b /\ i - 1 \notin S
  BY <1>3
<1>5. a .. (i - 1) \in F
  BY <1>4
<1>6. a .. (i - 1) \subseteq x /\ i \in x /\ i \notin a .. (i - 1)
  BY <1>3, <1>4
<1> QED
  BY <1>2, <1>5, <1>6

-----------------------------------------------------------------------------
(***************************************************************************)
(* What a step takes a file through.                                       *)
(***************************************************************************)
\* x is the file's root or an entry of it, of the nodes N.
Holds(t, x, r, N) == x = r \/ (x \in N /\ t.up[x] = r)

\* The step c of file r takes what t has of N to what u has.
Takes(t, u, c, r, N) ==
    /\ c.on \subseteq N
    /\ \A n \in N \ c.on : u.up[n] = t.up[n] /\ u.name[n] = t.name[n]
    /\ \/ /\ c.op = "add" /\ Holds(t, c.at, r, N)
          /\ \A n \in c.on : t.up[n] = None /\ u.up[n] = c.at /\ u.name[n] = t.name[n]
       \/ /\ c.op = "delete" /\ Holds(t, c.at, r, N)
          /\ \A n \in c.on : t.up[n] = c.at /\ u.up[n] = None /\ u.name[n] = t.name[n]
       \/ /\ c.op = "rename" /\ {c.from, c.to} \subseteq Names
          /\ \A n \in c.on : /\ u.up[n] = t.up[n] /\ Holds(t, t.up[n], r, N)
                             /\ t.name[n] = c.from /\ u.name[n] = c.to

Alike(t, u, N) == \A n \in N : u.up[n] = t.up[n] /\ u.name[n] = t.name[n]

\* t, with the nodes of N as u has them.
Over(t, u, N) == [up   |-> [n \in Nodes |-> IF n \in N THEN u.up[n] ELSE t.up[n]],
                  name |-> [n \in Nodes |-> IF n \in N THEN u.name[n] ELSE t.name[n]]]

LEMMA OverTree ==
    ASSUME NEW t \in Tree, NEW u \in Tree, NEW N
    PROVE  /\ Over(t, u, N) \in Tree
           /\ \A n \in Nodes : /\ Over(t, u, N).up[n] = IF n \in N THEN u.up[n] ELSE t.up[n]
                               /\ Over(t, u, N).name[n] = IF n \in N THEN u.name[n] ELSE t.name[n]
BY DEF Over, Tree

LEMMA SameTree ==
    ASSUME NEW t \in Tree, NEW u \in Tree, Alike(t, u, Nodes)
    PROVE  t = u
<1>1. t.up = u.up /\ t.name = u.name
  BY DEF Alike, Tree
<1> QED
  BY <1>1 DEF Tree

\* Making and undoing the step do what it says, whatever the rest of the tree is.
LEMMA OverTakes ==
    ASSUME NEW t \in Tree, NEW a \in Tree, NEW b \in Tree, NEW c \in Step, NEW r, NEW N \in SUBSET Nodes,
           Takes(a, b, c, r, N)
    PROVE  Undone(Over(t, b, N), c) = Over(t, a, N) /\ Done(Over(t, a, N), c) = Over(t, b, N)
<1> DEFINE x == Over(t, a, N)
           y == Over(t, b, N)
<1>1. /\ x \in Tree /\ y \in Tree
      /\ \A n \in Nodes : x.up[n] = IF n \in N THEN a.up[n] ELSE t.up[n]
      /\ \A n \in Nodes : x.name[n] = IF n \in N THEN a.name[n] ELSE t.name[n]
      /\ \A n \in Nodes : y.up[n] = IF n \in N THEN b.up[n] ELSE t.up[n]
      /\ \A n \in Nodes : y.name[n] = IF n \in N THEN b.name[n] ELSE t.name[n]
  BY OverTree
<1> HIDE DEF x, y
<1>2. c.on \subseteq N /\ c.at \in Nodes \union Roots \union {None} /\ None \in Nodes \union Roots \union {None}
  BY DEF Takes, Step
<1>3. CASE c.op = "rename"
  <2>1. /\ c.from \in Names /\ c.to \in Names
        /\ \A n \in N \ c.on : b.up[n] = a.up[n] /\ b.name[n] = a.name[n]
        /\ \A n \in c.on : b.up[n] = a.up[n] /\ a.name[n] = c.from /\ b.name[n] = c.to
    BY <1>3 DEF Takes
  <2>2. Undone(y, c) = Named(y, c.on, c.from) /\ Done(x, c) = Named(x, c.on, c.to)
    BY <1>3 DEF Undone, Done
  <2>3. /\ Undone(y, c) \in Tree /\ Undone(y, c).up = y.up
        /\ \A n \in Nodes : Undone(y, c).name[n] = IF n \in c.on THEN c.from ELSE y.name[n]
    BY <1>1, <2>1, <2>2, NamedTree
  <2>4. /\ Done(x, c) \in Tree /\ Done(x, c).up = x.up
        /\ \A n \in Nodes : Done(x, c).name[n] = IF n \in c.on THEN c.to ELSE x.name[n]
    BY <1>1, <2>1, <2>2, NamedTree
  <2>5. Alike(Undone(y, c), x, Nodes)
    BY <1>1, <1>2, <2>1, <2>3 DEF Alike
  <2>6. Alike(Done(x, c), y, Nodes)
    BY <1>1, <1>2, <2>1, <2>4 DEF Alike
  <2> QED
    BY <1>1, <2>3, <2>4, <2>5, <2>6, SameTree DEF x, y
<1>4. CASE c.op # "rename"
  <2>1. PICK from \in {c.at, None}, to \in {c.at, None} :
            /\ Undone(y, c) = Attached(y, c.on, from) /\ Done(x, c) = Attached(x, c.on, to)
            /\ \A n \in N \ c.on : b.up[n] = a.up[n] /\ b.name[n] = a.name[n]
            /\ \A n \in c.on : a.up[n] = from /\ b.up[n] = to /\ b.name[n] = a.name[n]
    BY <1>4 DEF Takes, Undone, Done
  <2>2. from \in Nodes \union Roots \union {None} /\ to \in Nodes \union Roots \union {None}
    BY <1>2, <2>1
  <2>3. /\ Undone(y, c) \in Tree /\ Undone(y, c).name = y.name
        /\ \A n \in Nodes : Undone(y, c).up[n] = IF n \in c.on THEN from ELSE y.up[n]
    BY <1>1, <2>1, <2>2, AttachedTree
  <2>4. /\ Done(x, c) \in Tree /\ Done(x, c).name = x.name
        /\ \A n \in Nodes : Done(x, c).up[n] = IF n \in c.on THEN to ELSE x.up[n]
    BY <1>1, <2>1, <2>2, AttachedTree
  <2>5. Alike(Undone(y, c), x, Nodes)
    BY <1>1, <1>2, <2>1, <2>3 DEF Alike
  <2>6. Alike(Done(x, c), y, Nodes)
    BY <1>1, <1>2, <2>1, <2>4 DEF Alike
  <2> QED
    BY <1>1, <2>3, <2>4, <2>5, <2>6, SameTree DEF x, y
<1> QED
  BY <1>3, <1>4

\* The top of x's tree is the file's root when the file holds x.
LEMMA OwnerHolds ==
    ASSUME NEW t \in Tree, NEW r \in Roots, NEW x, Holds(t, x, r, Nodes)
    PROVE  ownerSourceOf(t, x) = r
BY SessionAssumption DEF ownerSourceOf, Holds, Up

LEMMA OwnedNode ==
    ASSUME NEW t \in Tree, NEW r \in Roots, NEW n \in Nodes
    PROVE  ownerSourceOf(t, n) = r <=> Holds(t, t.up[n], r, Nodes)
<1>1. /\ Nodes \intersect Roots = {} /\ None \notin Nodes \union Roots
      /\ t.up[n] \in Nodes \union Roots \union {None}
  BY SessionAssumption DEF Tree
<1> QED
  BY <1>1 DEF ownerSourceOf, Holds, Up

LEMMA OverApplies ==
    ASSUME NEW t \in Tree, NEW a \in Tree, NEW b, NEW c \in Step, NEW r \in Roots, NEW N \in SUBSET Nodes,
           Takes(a, b, c, r, N)
    PROVE  Applies(Over(t, a, N), r, c)
<1> DEFINE x == Over(t, a, N)
<1>1. /\ x \in Tree
      /\ \A n \in N : x.up[n] = a.up[n] /\ x.name[n] = a.name[n]
  BY OverTree
<1> HIDE DEF x
<1>2. \A y : Holds(a, y, r, N) => Holds(x, y, r, Nodes)
  BY <1>1 DEF Holds
<1>3. SUFFICES ASSUME NEW n \in c.on
               PROVE  CASE c.op = "add"    -> x.up[n] = None /\ ownerSourceOf(x, c.at) = r
                        [] c.op = "delete" -> x.up[n] = c.at /\ ownerSourceOf(x, c.at) = r
                        [] c.op = "rename" -> x.name[n] = c.from /\ ownerSourceOf(x, n) = r
  BY DEF Applies, x
<1>4. n \in N /\ n \in Nodes
  BY DEF Takes
<1>5. CASE c.op = "add"
  <2>1. a.up[n] = None /\ Holds(a, c.at, r, N)
    BY <1>5 DEF Takes
  <2>2. ownerSourceOf(x, c.at) = r
    BY <1>1, <1>2, <2>1, OwnerHolds
  <2> QED
    BY <1>1, <1>4, <1>5, <2>1, <2>2
<1>6. CASE c.op = "delete"
  <2>1. a.up[n] = c.at /\ Holds(a, c.at, r, N)
    BY <1>6 DEF Takes
  <2>2. ownerSourceOf(x, c.at) = r
    BY <1>1, <1>2, <2>1, OwnerHolds
  <2> QED
    BY <1>1, <1>4, <1>6, <2>1, <2>2
<1>7. CASE c.op = "rename"
  <2>1. a.name[n] = c.from /\ Holds(a, a.up[n], r, N)
    BY <1>7 DEF Takes
  <2>2. ownerSourceOf(x, n) = r
    BY <1>1, <1>2, <1>4, <2>1, OwnedNode
  <2> QED
    BY <1>1, <1>4, <1>7, <2>1, <2>2
<1> QED
  BY <1>5, <1>6, <1>7 DEF Step

-----------------------------------------------------------------------------
(***************************************************************************)
(* Trails, and the history whose they are.                                 *)
(***************************************************************************)
Trail(T, C, K, r, N) ==
    /\ T \in [0 .. K -> Tree] /\ C \in [1 .. K -> Step]
    /\ \A k \in 1 .. K : Takes(T[k - 1], T[k], C[k], r, N)

\* The trail T, with its steps C, of the undo u and the redo v of file r in tree t.
Past(t, u, v, r, N, T, C) ==
    /\ Trail(T, C, Len(u) + Len(v), r, N)
    /\ Alike(t, T[Len(u)], N)
    /\ \A k \in 1 .. Len(u) : C[k] = u[k]
    /\ \A k \in 1 .. Len(v) : C[Len(u) + Len(v) + 1 - k] = v[k]

\* The functions Session walks a history by.
WalksBack(g, t, u, k) ==
    g = [i \in k .. Len(u) |-> IF i = Len(u) THEN t ELSE Undone(g[i + 1], u[i + 1])]
WalksOn(g, t, v, k) ==
    g = [i \in k .. Len(v) |-> IF i = Len(v) THEN t ELSE Done(g[i + 1], v[i + 1])]

Unwound(t, u, k) == (CHOOSE g : WalksBack(g, t, u, k))[k]
Rewound(t, v, k) == (CHOOSE g : WalksOn(g, t, v, k))[k]

LEMMA WalkedBack == ASSUME NEW s, NEW k PROVE UndoneFrom(s, k) = Unwound(tree, undo[s], k)
BY DEF UndoneFrom, Unwound, WalksBack

LEMMA WalkedOn == ASSUME NEW s, NEW k PROVE RedoneFrom(s, k) = Rewound(tree, redo[s], k)
BY DEF RedoneFrom, Rewound, WalksOn

\* Walking back, the tree has of the file what its trail has, and the rest as it is.
LEMMA UnwoundIs ==
    ASSUME NEW t \in Tree, NEW u \in Seq(Step), NEW v \in Seq(Step), NEW r, NEW N \in SUBSET Nodes,
           NEW T, NEW C, Past(t, u, v, r, N, T, C), NEW k \in 0 .. Len(u)
    PROVE  Unwound(t, u, k) = Over(t, T[k], N)
<1> DEFINE L == Len(u)
           h == [i \in k .. L |-> Over(t, T[i], N)]
           g == CHOOSE g : WalksBack(g, t, u, k)
<1>1. /\ L \in Nat /\ Len(v) \in Nat /\ Trail(T, C, L + Len(v), r, N)
      /\ Alike(t, T[L], N) /\ \A i \in 1 .. L : C[i] = u[i]
  BY DEF Past
<1>2. ASSUME NEW i \in k .. L
      PROVE  h[i] = IF i = L THEN t ELSE Undone(h[i + 1], u[i + 1])
  <2>1. CASE i = L
    <3>1. T[L] \in Tree
      BY <1>1 DEF Trail
    <3>2. Over(t, T[L], N) \in Tree /\ Alike(Over(t, T[L], N), t, Nodes)
      BY <1>1, <3>1, OverTree DEF Alike
    <3> QED
      BY <2>1, <3>2, SameTree
  <2>2. CASE i # L
    <3>1. i + 1 \in k .. L /\ i + 1 \in 1 .. L /\ i + 1 \in 1 .. L + Len(v) /\ i \in 0 .. L + Len(v) /\ i + 1 \in 0 .. L + Len(v)
      BY <1>1, <2>2
    <3>2. /\ T[i] \in Tree /\ T[i + 1] \in Tree /\ C[i + 1] \in Step /\ C[i + 1] = u[i + 1]
      BY <1>1, <3>1 DEF Trail
    <3>3. Takes(T[(i + 1) - 1], T[i + 1], C[i + 1], r, N) /\ (i + 1) - 1 = i
      BY <1>1, <3>1 DEF Trail
    <3>4. Takes(T[i], T[i + 1], u[i + 1], r, N)
      BY <3>2, <3>3
    <3>5. Undone(Over(t, T[i + 1], N), u[i + 1]) = Over(t, T[i], N)
      BY <3>2, <3>4, OverTakes
    <3> QED
      BY <2>2, <3>1, <3>5
  <2> QED
    BY <2>1, <2>2
<1>3. WalksBack(h, t, u, k)
  <2> DEFINE w == [i \in k .. L |-> IF i = L THEN t ELSE Undone(h[i + 1], u[i + 1])]
  <2>1. \A i \in k .. L : w[i] = h[i]
    BY <1>2
  <2>2. h = w
    BY <2>1
  <2> QED
    BY <2>2 DEF WalksBack
<1> HIDE DEF h
<1>4. WalksBack(g, t, u, k)
  BY <1>3
<1> HIDE DEF g
<1>5. \A i \in k .. L : g[i] = IF i = L THEN t ELSE Undone(g[i + 1], u[i + 1])
  <2> DEFINE w == [i \in k .. L |-> IF i = L THEN t ELSE Undone(g[i + 1], u[i + 1])]
  <2>1. g = w
    BY <1>4 DEF WalksBack
  <2>2. \A i \in k .. L : w[i] = IF i = L THEN t ELSE Undone(g[i + 1], u[i + 1])
    OBVIOUS
  <2> HIDE DEF w
  <2> QED
    BY <2>1, <2>2
<1> DEFINE S == {i \in k .. L : g[i] = h[i]}
<1>6. L \in S
  BY <1>1, <1>2, <1>5
<1>7. ASSUME NEW i \in k .. L - 1, i + 1 \in S
      PROVE  i \in S
  <2>1. i \in k .. L /\ i # L /\ g[i + 1] = h[i + 1]
    BY <1>1, <1>7
  <2> QED
    BY <1>2, <1>5, <2>1
<1>8. k .. L \subseteq S
  <2>1. k \in Int /\ L \in Int
    BY <1>1
  <2> HIDE DEF S
  <2> QED
    BY <1>6, <1>7, <2>1, Descends
<1>9. k \in k .. L
  BY <1>1
<1>10. g[k] = h[k] /\ h[k] = Over(t, T[k], N)
  BY <1>8, <1>9 DEF h
<1> QED
  BY <1>10 DEF Unwound, g

\* So does walking on.
LEMMA RewoundIs ==
    ASSUME NEW t \in Tree, NEW u \in Seq(Step), NEW v \in Seq(Step), NEW r, NEW N \in SUBSET Nodes,
           NEW T, NEW C, Past(t, u, v, r, N, T, C), NEW k \in 0 .. Len(v),
           NEW j, j = Len(u) + Len(v) - k
    PROVE  Rewound(t, v, k) = Over(t, T[j], N)
<1> DEFINE M == Len(v)
           K == Len(u) + M
           h == [i \in k .. M |-> Over(t, T[K - i], N)]
           g == CHOOSE g : WalksOn(g, t, v, k)
<1>1. /\ M \in Nat /\ Len(u) \in Nat /\ K \in Nat /\ K - M = Len(u) /\ Trail(T, C, K, r, N)
      /\ Alike(t, T[K - M], N) /\ \A i \in 1 .. M : C[K + 1 - i] = v[i]
  BY DEF Past
<1>2. ASSUME NEW i \in k .. M
      PROVE  h[i] = IF i = M THEN t ELSE Done(h[i + 1], v[i + 1])
  <2>1. CASE i = M
    <3>1. T[K - M] \in Tree
      BY <1>1 DEF Trail
    <3>2. Over(t, T[K - M], N) \in Tree /\ Alike(Over(t, T[K - M], N), t, Nodes)
      BY <1>1, <3>1, OverTree DEF Alike
    <3> QED
      BY <2>1, <3>2, SameTree
  <2>2. CASE i # M
    <3>0. i \in Nat /\ i < M /\ k \in Nat /\ k <= i /\ K = Len(u) + M
      BY <1>1, <2>2
    <3> HIDE DEF K, M
    <3>1. /\ i + 1 \in k .. M /\ i + 1 \in 1 .. M /\ K - i \in 1 .. K /\ K - i \in 0 .. K
          /\ K - (i + 1) \in 0 .. K /\ (K - i) - 1 = K - (i + 1) /\ K + 1 - (i + 1) = K - i
      BY <1>1, <3>0
    <3>2. /\ T[K - i] \in Tree /\ T[K - (i + 1)] \in Tree /\ C[K - i] \in Step
      BY <1>1, <3>1 DEF Trail
    <3>3. C[K + 1 - (i + 1)] = v[i + 1]
      BY <1>1, <3>1
    <3>4. Takes(T[(K - i) - 1], T[K - i], C[K - i], r, N)
      BY <1>1, <3>1 DEF Trail
    <3>5. Takes(T[K - (i + 1)], T[K - i], v[i + 1], r, N) /\ v[i + 1] \in Step
      BY <3>1, <3>2, <3>3, <3>4
    <3>6. Done(Over(t, T[K - (i + 1)], N), v[i + 1]) = Over(t, T[K - i], N)
      BY <3>2, <3>5, OverTakes
    <3> QED
      BY <2>2, <3>1, <3>6
  <2> QED
    BY <2>1, <2>2
<1> HIDE DEF K
<1>3. WalksOn(h, t, v, k)
  <2> DEFINE w == [i \in k .. M |-> IF i = M THEN t ELSE Done(h[i + 1], v[i + 1])]
  <2>1. \A i \in k .. M : w[i] = h[i]
    BY <1>2
  <2>2. h = w
    BY <2>1
  <2> QED
    BY <2>2 DEF WalksOn
<1> HIDE DEF h
<1>4. WalksOn(g, t, v, k)
  BY <1>3
<1> HIDE DEF g
<1>5. \A i \in k .. M : g[i] = IF i = M THEN t ELSE Done(g[i + 1], v[i + 1])
  <2> DEFINE w == [i \in k .. M |-> IF i = M THEN t ELSE Done(g[i + 1], v[i + 1])]
  <2>1. g = w
    BY <1>4 DEF WalksOn
  <2>2. \A i \in k .. M : w[i] = IF i = M THEN t ELSE Done(g[i + 1], v[i + 1])
    OBVIOUS
  <2> HIDE DEF w
  <2> QED
    BY <2>1, <2>2
<1> DEFINE S == {i \in k .. M : g[i] = h[i]}
<1>6. M \in S
  BY <1>1, <1>2, <1>5
<1>7. ASSUME NEW i \in k .. M - 1, i + 1 \in S
      PROVE  i \in S
  <2>1. i \in k .. M /\ i # M /\ g[i + 1] = h[i + 1]
    BY <1>1, <1>7
  <2> QED
    BY <1>2, <1>5, <2>1
<1>8. k .. M \subseteq S
  <2>1. k \in Int /\ M \in Int
    BY <1>1
  <2> HIDE DEF S
  <2> QED
    BY <1>6, <1>7, <2>1, Descends
<1>9. k \in k .. M
  BY <1>1
<1>10. g[k] = h[k] /\ h[k] = Over(t, T[j], N)
  BY <1>8, <1>9 DEF h, K
<1> QED
  BY <1>10 DEF Rewound, g, K

\* A history whose trail there is can be walked end to end.
LEMMA PastApplies ==
    ASSUME TreesOK, NEW s \in Sources, NEW r \in Roots, NEW N \in SUBSET Nodes, NEW T, NEW C,
           Past(tree, undo[s], redo[s], r, N, T, C)
    PROVE  /\ \A k \in DOMAIN undo[s] : Reverses(UndoneFrom(s, k), r, undo[s][k])
           /\ \A k \in DOMAIN redo[s] : Applies(RedoneFrom(s, k), r, redo[s][k])
<1> DEFINE L == Len(undo[s])
           M == Len(redo[s])
<1>1. /\ tree \in Tree /\ undo[s] \in Seq(Step) /\ redo[s] \in Seq(Step)
      /\ L \in Nat /\ M \in Nat /\ DOMAIN undo[s] = 1 .. L /\ DOMAIN redo[s] = 1 .. M
  BY DEF TreesOK, HistoriesOK, Histories
<1>2. /\ T \in [0 .. L + M -> Tree] /\ C \in [1 .. L + M -> Step]
      /\ \A k \in 1 .. L + M : Takes(T[k - 1], T[k], C[k], r, N)
      /\ \A k \in 1 .. L : C[k] = undo[s][k]
      /\ \A k \in 1 .. M : C[L + M + 1 - k] = redo[s][k]
  BY DEF Past, Trail
<1>0. L = Len(undo[s]) /\ M = Len(redo[s])
  OBVIOUS
<1> HIDE DEF L, M
<1>3. ASSUME NEW k \in 1 .. L
      PROVE  Reverses(UndoneFrom(s, k), r, undo[s][k])
  <2> DEFINE c == undo[s][k]
             y == Over(tree, T[k], N)
  <2>1. k \in 0 .. L /\ k \in 1 .. L + M /\ k \in 0 .. L + M /\ k - 1 \in 0 .. L + M
    BY <1>1
  <2>2. /\ T[k - 1] \in Tree /\ T[k] \in Tree /\ c \in Step /\ Takes(T[k - 1], T[k], c, r, N)
    BY <1>2, <2>1
  <2>3. UndoneFrom(s, k) = y
    <3>1. Unwound(tree, undo[s], k) = y
      BY <1>0, <1>1, <2>1, UnwoundIs
    <3> QED
      BY <3>1, WalkedBack
  <2> HIDE DEF c
  <2>4. Undone(y, c) = Over(tree, T[k - 1], N) /\ Done(Over(tree, T[k - 1], N), c) = y
    BY <1>1, <2>2, OverTakes
  <2>5. Applies(Over(tree, T[k - 1], N), r, c)
    BY <1>1, <2>2, OverApplies
  <2> HIDE DEF y
  <2>6. Reverses(y, r, c)
    BY <2>4, <2>5 DEF Reverses
  <2> QED
    BY <2>3, <2>6 DEF c
<1>4. ASSUME NEW k \in 1 .. M
      PROVE  Applies(RedoneFrom(s, k), r, redo[s][k])
  <2> DEFINE j == L + M + 1 - k
             c == redo[s][k]
  <2>1. /\ k \in 0 .. M /\ j \in 1 .. L + M /\ j \in 0 .. L + M /\ j - 1 \in 0 .. L + M /\ j - 1 = L + M - k
    BY <1>1
  <2>2. C[j] = c
    BY <1>2
  <2> HIDE DEF j, c
  <2>3. RedoneFrom(s, k) = Over(tree, T[j - 1], N)
    <3> DEFINE i == j - 1
    <3>1. k \in 0 .. Len(redo[s]) /\ i = Len(undo[s]) + Len(redo[s]) - k
      BY <1>0, <2>1
    <3> HIDE DEF i
    <3> DEFINE u == undo[s]
               v == redo[s]
    <3>2. tree \in Tree /\ u \in Seq(Step) /\ v \in Seq(Step) /\ Past(tree, u, v, r, N, T, C)
          /\ k \in 0 .. Len(v) /\ i = Len(u) + Len(v) - k
      BY <1>1, <3>1
    <3> HIDE DEF u, v
    <3>3. Rewound(tree, v, k) = Over(tree, T[i], N)
      BY <3>2, RewoundIs
    <3> QED
      BY <3>3, WalkedOn DEF i, v
  <2>4. /\ T[j - 1] \in Tree /\ T[j] \in Tree /\ c \in Step /\ Takes(T[j - 1], T[j], c, r, N)
    BY <1>2, <2>1, <2>2
  <2>5. Applies(Over(tree, T[j - 1], N), r, c)
    BY <1>1, <2>4, OverApplies
  <2> QED
    BY <2>3, <2>5 DEF c
<1> QED
  BY <1>1, <1>3, <1>4

-----------------------------------------------------------------------------
(***************************************************************************)
(* What an edit does to a trail: one elsewhere, a new step, a step undone, *)
(* a step redone, and an unused node that is put in.                       *)
(***************************************************************************)
\* A step takes like to like.
LEMMA TakesAlike ==
    ASSUME NEW a, NEW b, NEW t, NEW u, NEW c, NEW r, NEW N,
           Takes(a, b, c, r, N), Alike(a, t, N), Alike(b, u, N)
    PROVE  Takes(t, u, c, r, N)
<1>1. \A x : Holds(a, x, r, N) => Holds(t, x, r, N)
  BY DEF Holds, Alike
<1>2. c.on \subseteq N /\ \A n \in N \ c.on : u.up[n] = t.up[n] /\ u.name[n] = t.name[n]
  BY DEF Takes, Alike
<1> QED
  BY <1>1, <1>2 DEF Takes, Alike

\* No history, no trail but where the tree is.
LEMMA NoPast ==
    ASSUME NEW t \in Tree, NEW r, NEW N
    PROVE  \E T, C : Past(t, <<>>, <<>>, r, N, T, C)
<1> DEFINE T == [k \in 0 .. 0 |-> t]
           C == [k \in 1 .. 0 |-> Adding({}, None, FALSE)]
<1>1. Len(<<>>) = 0 /\ 0 + 0 = 0 /\ 1 .. 0 = {} /\ 0 \in 0 .. 0
  OBVIOUS
<1>2. T \in [0 .. 0 -> Tree] /\ C \in [1 .. 0 -> Step] /\ T[0] = t
  BY <1>1
<1> HIDE DEF T, C
<1>3. Past(t, <<>>, <<>>, r, N, T, C)
  BY <1>1, <1>2 DEF Past, Trail, Alike
<1> QED
  BY <1>3

\* An edit that leaves the file's nodes as they are leaves its trail.
LEMMA PastElsewhere ==
    ASSUME NEW t, NEW u, NEW v, NEW r, NEW N, NEW T, NEW C, Past(t, u, v, r, N, T, C),
           NEW t2, Alike(t, t2, N)
    PROVE  Past(t2, u, v, r, N, T, C)
BY DEF Past, Alike

\* A new step ends the trail where the tree is, and takes it one tree on.
LEMMA PastMakes ==
    ASSUME NEW t \in Tree, NEW u \in Seq(Step), NEW v \in Seq(Step), NEW r, NEW N, NEW T, NEW C,
           Past(t, u, v, r, N, T, C), NEW c \in Step, NEW t2 \in Tree, Takes(t, t2, c, r, N)
    PROVE  \E T2, C2 : Past(t2, Append(u, c), <<>>, r, N, T2, C2) /\ T2[0] = T[0]
<1> DEFINE L == Len(u)
           K == L + Len(v)
           T2 == [k \in 0 .. L + 1 |-> IF k = L + 1 THEN t2 ELSE T[k]]
           C2 == [k \in 1 .. L + 1 |-> IF k = L + 1 THEN c ELSE C[k]]
           w == Append(u, c)
<1>1. /\ L \in Nat /\ Len(v) \in Nat /\ K \in Nat /\ L <= K
      /\ Len(w) = L + 1 /\ w[L + 1] = c /\ \A k \in 1 .. L : w[k] = u[k]
      /\ Len(<<>>) = 0
  OBVIOUS
<1>2. /\ T \in [0 .. K -> Tree] /\ C \in [1 .. K -> Step]
      /\ \A k \in 1 .. K : Takes(T[k - 1], T[k], C[k], r, N)
      /\ Alike(t, T[L], N) /\ \A k \in 1 .. L : C[k] = u[k]
  BY DEF Past, Trail
<1> HIDE DEF L, K, w
<1>3. T2 \in [0 .. L + 1 -> Tree]
  <2>1. ASSUME NEW k \in 0 .. L + 1, k # L + 1 PROVE T[k] \in Tree
    <3>1. k \in 0 .. K
      BY <1>1, <2>1
    <3> QED
      BY <1>2, <3>1
  <2> QED
    BY <2>1
<1>4. C2 \in [1 .. L + 1 -> Step]
  <2>1. ASSUME NEW k \in 1 .. L + 1, k # L + 1 PROVE C[k] \in Step
    <3>1. k \in 1 .. K
      BY <1>1, <2>1
    <3> QED
      BY <1>2, <3>1
  <2> QED
    BY <2>1
<1>5. /\ T2[L + 1] = t2 /\ C2[L + 1] = c
      /\ \A k \in 0 .. L : T2[k] = T[k]
      /\ \A k \in 1 .. L : C2[k] = C[k]
  BY <1>1
<1> HIDE DEF T2, C2
<1>6. ASSUME NEW k \in 1 .. L + 1
      PROVE  Takes(T2[k - 1], T2[k], C2[k], r, N)
  <2>1. CASE k = L + 1
    <3>1. k - 1 = L /\ L \in 0 .. L
      BY <1>1, <2>1
    <3>2. T2[k - 1] = T[L] /\ T2[k] = t2 /\ C2[k] = c
      BY <1>5, <2>1, <3>1
    <3>3. Alike(t2, t2, N)
      BY DEF Alike
    <3> QED
      BY <1>2, <3>2, <3>3, TakesAlike
  <2>2. CASE k # L + 1
    <3>1. k \in 1 .. L /\ k \in 0 .. L /\ k - 1 \in 0 .. L /\ k \in 1 .. K
      BY <1>1, <2>2
    <3>2. T2[k - 1] = T[k - 1] /\ T2[k] = T[k] /\ C2[k] = C[k]
      BY <1>5, <3>1
    <3> QED
      BY <1>2, <3>1, <3>2
  <2> QED
    BY <2>1, <2>2
<1>7. Trail(T2, C2, L + 1 + 0, r, N)
  <2>1. L + 1 + 0 = L + 1
    BY <1>1
  <2> QED
    BY <1>3, <1>4, <1>6, <2>1 DEF Trail
<1>8. \A k \in 1 .. L + 1 : C2[k] = w[k]
  <2>1. ASSUME NEW k \in 1 .. L + 1 PROVE k = L + 1 \/ k \in 1 .. L
    BY <1>1
  <2> QED
    BY <1>1, <1>2, <1>5, <2>1
<1>9. Past(t2, w, <<>>, r, N, T2, C2)
  BY <1>1, <1>5, <1>7, <1>8 DEF Past, Alike
<1>10. T2[0] = T[0]
  BY <1>1, <1>5
<1> QED
  BY <1>9, <1>10 DEF w

LEMMA SameLength ==
    ASSUME NEW m \in Nat, NEW j \in Nat, 1 .. m = 1 .. j
    PROVE  m = j
<1>1. (m = 0 \/ m \in 1 .. j) /\ (j = 0 \/ j \in 1 .. m)
  <2>1. (m = 0 \/ m \in 1 .. m) /\ (j = 0 \/ j \in 1 .. j)
    OBVIOUS
  <2> QED
    BY <2>1
<1> QED
  BY <1>1

\* Undoing a step is one tree back on the trail.
LEMMA PastUndoes ==
    ASSUME NEW t \in Tree, NEW u \in Seq(Step), u # <<>>, NEW v \in Seq(Step), NEW r, NEW N \in SUBSET Nodes,
           NEW T, NEW C, Past(t, u, v, r, N, T, C), NEW c, c = Last(u), NEW t2, t2 = Undone(t, c)
    PROVE  /\ Past(t2, Front(u), Append(v, c), r, N, T, C) /\ Takes(t2, t, c, r, N) /\ t2 \in Tree
           /\ Alike(t, t2, Nodes \ N)
<1> DEFINE L == Len(u)
           M == Len(v)
           front == Front(u)
           more == Append(v, c)
           x == Over(t, T[L - 1], N)
<1>1. /\ L \in Nat /\ L # 0 /\ M \in Nat
      /\ Len(front) = L - 1 /\ (\A k \in 1 .. L - 1 : front[k] = u[k]) /\ c = u[L]
      /\ Len(more) = M + 1 /\ (\A k \in 1 .. M : more[k] = v[k]) /\ more[M + 1] = c
  <2>1. L \in Nat /\ L # 0 /\ M \in Nat
    OBVIOUS
  <2>2. Len(front) = L - 1 /\ (\A k \in 1 .. L - 1 : front[k] = u[k]) /\ c = u[L]
    <3>1. front = SubSeq(u, 1, L - 1)
      BY DEF Front
    <3>2. Len(SubSeq(u, 1, L - 1)) = L - 1
      <4> DEFINE m == Len(SubSeq(u, 1, L - 1))
                 j == L - 1
      <4>1. m \in Nat /\ 1 .. m = 1 .. j /\ j \in Nat
        BY <2>1
      <4> HIDE DEF m, j
      <4>2. m = j
        BY <4>1, SameLength
      <4> QED
        BY <4>2 DEF m, j
    <3>3. \A k \in 1 .. L - 1 : SubSeq(u, 1, L - 1)[k] = u[k]
      BY <2>1
    <3>4. c = u[L]
      BY DEF Last
    <3> HIDE DEF front
    <3> QED
      BY <3>1, <3>2, <3>3, <3>4
  <2>3. c \in Step
    BY StackPop
  <2>4. Len(more) = M + 1 /\ (\A k \in 1 .. M : more[k] = v[k]) /\ more[M + 1] = c
    BY <2>3
  <2> QED
    BY <2>1, <2>2, <2>4
<1>2. /\ T \in [0 .. L + M -> Tree] /\ C \in [1 .. L + M -> Step]
      /\ \A k \in 1 .. L + M : Takes(T[k - 1], T[k], C[k], r, N)
      /\ Alike(t, T[L], N)
      /\ \A k \in 1 .. L : C[k] = u[k]
      /\ \A k \in 1 .. M : C[L + M + 1 - k] = v[k]
  BY DEF Past, Trail
<1> HIDE DEF L, M, front, more
<1>3. /\ L \in 1 .. L /\ L \in 1 .. L + M /\ L \in 0 .. L + M /\ L - 1 \in 0 .. L + M
      /\ (L - 1) + (M + 1) = L + M
  BY <1>1
<1>4. T[L] \in Tree /\ T[L - 1] \in Tree /\ C[L] = c /\ c \in Step /\ Takes(T[L - 1], T[L], c, r, N)
  BY <1>1, <1>2, <1>3
<1>5. Over(t, T[L], N) = t
  <2>1. Over(t, T[L], N) \in Tree /\ Alike(Over(t, T[L], N), t, Nodes)
    BY <1>2, <1>4, OverTree DEF Alike
  <2> QED
    BY <2>1, SameTree
<1>6. Undone(t, c) = x
  BY <1>4, <1>5, OverTakes
<1>7. /\ x \in Tree /\ Alike(x, T[L - 1], N) /\ Alike(T[L - 1], x, N)
      /\ Alike(t, x, Nodes \ N)
  BY <1>4, OverTree DEF Alike
<1> HIDE DEF x
<1>8. Takes(x, t, c, r, N)
  <2>1. Alike(T[L], t, N)
    BY <1>2 DEF Alike
  <2> QED
    BY <1>4, <1>7, <2>1, TakesAlike
<1>9. \A k \in 1 .. M + 1 : C[L + M + 1 - k] = more[k]
  <2> SUFFICES ASSUME NEW k \in 1 .. M + 1 PROVE C[L + M + 1 - k] = more[k]
    OBVIOUS
  <2>1. CASE k = M + 1
    <3>1. L + M + 1 - k = L
      BY <1>1, <2>1
    <3> QED
      BY <1>1, <1>4, <2>1, <3>1
  <2>2. CASE k # M + 1
    <3>1. k \in 1 .. M
      BY <1>1, <2>2
    <3> QED
      BY <1>1, <1>2, <3>1
  <2> QED
    BY <2>1, <2>2
<1>10. \A k \in 1 .. L - 1 : C[k] = front[k]
  <2>1. ASSUME NEW k \in 1 .. L - 1 PROVE k \in 1 .. L
    BY <1>1
  <2> QED
    BY <1>1, <1>2, <2>1
<1>11. Past(x, front, more, r, N, T, C)
  <2>1. Trail(T, C, L + M, r, N)
    BY <1>2 DEF Trail
  <2>2. Len(front) + Len(more) = L + M /\ Len(more) = M + 1 /\ Len(front) = L - 1
    BY <1>1, <1>3
  <2> QED
    BY <1>7, <1>9, <1>10, <2>1, <2>2 DEF Past
<1> QED
  BY <1>6, <1>7, <1>8, <1>11 DEF front, more

\* Redoing a step is one tree on.
LEMMA PastRedoes ==
    ASSUME NEW t \in Tree, NEW u \in Seq(Step), NEW v \in Seq(Step), v # <<>>, NEW r, NEW N \in SUBSET Nodes,
           NEW T, NEW C, Past(t, u, v, r, N, T, C), NEW c, c = Last(v), NEW t2, t2 = Done(t, c)
    PROVE  /\ Past(t2, Append(u, c), Front(v), r, N, T, C) /\ Takes(t, t2, c, r, N) /\ t2 \in Tree
           /\ Alike(t, t2, Nodes \ N)
<1> DEFINE L == Len(u)
           M == Len(v)
           front == Front(v)
           more == Append(u, c)
           x == Over(t, T[L + 1], N)
<1>1. /\ L \in Nat /\ M # 0 /\ M \in Nat
      /\ Len(front) = M - 1 /\ (\A k \in 1 .. M - 1 : front[k] = v[k]) /\ c = v[M]
      /\ Len(more) = L + 1 /\ (\A k \in 1 .. L : more[k] = u[k]) /\ more[L + 1] = c
  <2>1. M \in Nat /\ M # 0 /\ L \in Nat
    OBVIOUS
  <2>2. Len(front) = M - 1 /\ (\A k \in 1 .. M - 1 : front[k] = v[k]) /\ c = v[M]
    <3>1. front = SubSeq(v, 1, M - 1)
      BY DEF Front
    <3>2. Len(SubSeq(v, 1, M - 1)) = M - 1
      <4> DEFINE m == Len(SubSeq(v, 1, M - 1))
                 j == M - 1
      <4>1. m \in Nat /\ 1 .. m = 1 .. j /\ j \in Nat
        BY <2>1
      <4> HIDE DEF m, j
      <4>2. m = j
        BY <4>1, SameLength
      <4> QED
        BY <4>2 DEF m, j
    <3>3. \A k \in 1 .. M - 1 : SubSeq(v, 1, M - 1)[k] = v[k]
      BY <2>1
    <3>4. c = v[M]
      BY DEF Last
    <3> HIDE DEF front
    <3> QED
      BY <3>1, <3>2, <3>3, <3>4
  <2>3. c \in Step
    BY StackPop
  <2>4. Len(more) = L + 1 /\ (\A k \in 1 .. L : more[k] = u[k]) /\ more[L + 1] = c
    BY <2>3
  <2> QED
    BY <2>1, <2>2, <2>4
<1>2. /\ T \in [0 .. L + M -> Tree] /\ C \in [1 .. L + M -> Step]
      /\ \A k \in 1 .. L + M : Takes(T[k - 1], T[k], C[k], r, N)
      /\ Alike(t, T[L], N)
      /\ \A k \in 1 .. L : C[k] = u[k]
      /\ \A k \in 1 .. M : C[L + M + 1 - k] = v[k]
  BY DEF Past, Trail
<1> HIDE DEF L, M, front, more
<1>3. /\ M \in 1 .. M /\ L + 1 \in 1 .. L + M /\ L \in 0 .. L + M /\ L + 1 \in 0 .. L + M
      /\ (L + 1) + (M - 1) = L + M /\ (L + 1) - 1 = L /\ L + M + 1 - M = L + 1
  BY <1>1
<1>4. /\ T[L] \in Tree /\ T[L + 1] \in Tree /\ C[L + 1] = c /\ c \in Step
      /\ Takes(T[L], T[L + 1], c, r, N)
  <2>1. C[L + M + 1 - M] = v[M]
    BY <1>2, <1>3
  <2>2. C[L + 1] = c /\ c \in Step
    BY <1>1, <1>2, <1>3, <2>1
  <2>3. Takes(T[(L + 1) - 1], T[L + 1], C[L + 1], r, N)
    BY <1>2, <1>3
  <2> QED
    BY <1>2, <1>3, <2>2, <2>3
<1>5. Over(t, T[L], N) = t
  <2>1. Over(t, T[L], N) \in Tree /\ Alike(Over(t, T[L], N), t, Nodes)
    BY <1>2, <1>4, OverTree DEF Alike
  <2> QED
    BY <2>1, SameTree
<1>6. Done(t, c) = x
  BY <1>4, <1>5, OverTakes
<1>7. /\ x \in Tree /\ Alike(x, T[L + 1], N) /\ Alike(T[L + 1], x, N)
      /\ Alike(t, x, Nodes \ N)
  BY <1>4, OverTree DEF Alike
<1> HIDE DEF x
<1>8. Takes(t, x, c, r, N)
  <2>1. Alike(T[L], t, N)
    BY <1>2 DEF Alike
  <2> QED
    BY <1>4, <1>7, <2>1, TakesAlike
<1>9. \A k \in 1 .. M - 1 : C[L + M + 1 - k] = front[k]
  <2>1. ASSUME NEW k \in 1 .. M - 1 PROVE k \in 1 .. M
    BY <1>1
  <2> QED
    BY <1>1, <1>2, <2>1
<1>10. \A k \in 1 .. L + 1 : C[k] = more[k]
  <2>1. ASSUME NEW k \in 1 .. L + 1 PROVE k = L + 1 \/ k \in 1 .. L
    BY <1>1
  <2> QED
    BY <1>1, <1>2, <1>4, <2>1
<1>11. Past(x, more, front, r, N, T, C)
  <2>1. Trail(T, C, L + M, r, N)
    BY <1>2 DEF Trail
  <2>2. Len(more) + Len(front) = L + M /\ Len(more) = L + 1 /\ Len(front) = M - 1
    BY <1>1, <1>3
  <2> QED
    BY <1>7, <1>9, <1>10, <2>1, <2>2 DEF Past
<1> QED
  BY <1>6, <1>7, <1>8, <1>11 DEF front, more

\* A file's nodes, as t has them.
FileOn(t, r, N) == [n \in {m \in N : Holds(t, t.up[m], r, N)} |-> <<t.up[n], t.name[n]>>]

\* Every step of a trail is one to undo or to redo.
LEMMA StepOfPast ==
    ASSUME NEW t, NEW u \in Seq(Step), NEW v \in Seq(Step), NEW r, NEW N, NEW T, NEW C,
           Past(t, u, v, r, N, T, C), NEW k \in 1 .. Len(u) + Len(v)
    PROVE  C[k] \in Range(u) \union Range(v)
<1> DEFINE L == Len(u)
           M == Len(v)
<1>1. /\ L \in Nat /\ M \in Nat /\ DOMAIN u = 1 .. L /\ DOMAIN v = 1 .. M
      /\ \A i \in 1 .. L : C[i] = u[i]
      /\ \A i \in 1 .. M : C[L + M + 1 - i] = v[i]
      /\ k \in 1 .. L + M
  BY DEF Past
<1> HIDE DEF L, M
<1>2. CASE k <= L
  <2>1. k \in 1 .. L
    BY <1>1, <1>2
  <2> QED
    BY <1>1, <2>1 DEF Range
<1>3. CASE k > L
  <2> DEFINE i == L + M + 1 - k
  <2>1. i \in 1 .. M /\ L + M + 1 - i = k
    BY <1>1, <1>3
  <2> HIDE DEF i
  <2>2. C[k] = v[i]
    BY <1>1, <2>1
  <2> QED
    BY <1>1, <2>1, <2>2 DEF Range
<1> QED
  BY <1>1, <1>2, <1>3

\* What no step of a trail is on stays where it is all along it.
LEMMA Untouched ==
    ASSUME NEW K \in Nat, NEW T, NEW C, NEW r, NEW N, Trail(T, C, K, r, N), NEW n \in N,
           \A k \in 1 .. K : n \notin C[k].on
    PROVE  \A k, j \in 0 .. K : T[k].up[n] = T[j].up[n]
<1> DEFINE S == {k \in 0 .. K : T[k].up[n] = T[0].up[n]}
<1>1. 0 \in S
  OBVIOUS
<1>2. ASSUME NEW i \in 0 .. K - 1, i \in S PROVE i + 1 \in S
  <2>1. i + 1 \in 1 .. K /\ i + 1 \in 0 .. K /\ (i + 1) - 1 = i
    OBVIOUS
  <2>2. Takes(T[(i + 1) - 1], T[i + 1], C[i + 1], r, N)
    BY <2>1 DEF Trail
  <2>3. Takes(T[i], T[i + 1], C[i + 1], r, N) /\ n \notin C[i + 1].on
    BY <2>1, <2>2
  <2>4. T[i + 1].up[n] = T[i].up[n]
    BY <2>3 DEF Takes
  <2> QED
    BY <1>2, <2>1, <2>4
<1>3. 0 .. K \subseteq S
  <2>1. 0 \in Int /\ K \in Int
    OBVIOUS
  <2> HIDE DEF S
  <2> QED
    BY <1>1, <1>2, <2>1, Ascends
<1> QED
  BY <1>3

\* t before an unused node is put in it under the name a.
Patched(t, n, a) == Attached(Named(t, {n}, a), {n}, None)

LEMMA PatchedTree ==
    ASSUME NEW t \in Tree, NEW n \in Nodes, NEW a \in Names
    PROVE  /\ Patched(t, n, a) \in Tree
           /\ \A m \in Nodes : Patched(t, n, a).up[m] = IF m = n THEN None ELSE t.up[m]
           /\ \A m \in Nodes : Patched(t, n, a).name[m] = IF m = n THEN a ELSE t.name[m]
<1> DEFINE u == Named(t, {n}, a)
           p == Patched(t, n, a)
<1>1. u \in Tree /\ u.up = t.up /\ \A m \in Nodes : u.name[m] = IF m \in {n} THEN a ELSE t.name[m]
  BY NamedTree
<1> HIDE DEF u
<1>2. /\ p \in Tree /\ p.name = u.name
      /\ \A m \in Nodes : p.up[m] = IF m \in {n} THEN None ELSE u.up[m]
  <2>1. Attached(u, {n}, None) = p
    BY DEF Patched, u
  <2> HIDE DEF p
  <2> QED
    BY <1>1, <2>1, AttachedTree
<1> HIDE DEF p
<1>3. /\ p \in Tree
      /\ \A m \in Nodes : p.up[m] = IF m = n THEN None ELSE t.up[m]
      /\ \A m \in Nodes : p.name[m] = IF m = n THEN a ELSE t.name[m]
  BY <1>1, <1>2
<1> QED
  BY <1>3 DEF p

\* An unused node's name, and whose it is, are nothing to a step.
LEMMA TakesPatched ==
    ASSUME NEW a \in Tree, NEW b \in Tree, NEW c, NEW r \in Roots, NEW N \in SUBSET Nodes,
           NEW N2 \in SUBSET Nodes, NEW n \in Nodes, NEW x \in Names,
           Takes(a, b, c, r, N), N2 \ {n} = N \ {n}, n \notin c.on, c.at # n,
           n \in N => a.up[n] = None
    PROVE  Takes(Patched(a, n, x), Patched(b, n, x), c, r, N2)
<1> DEFINE a2 == Patched(a, n, x)
           b2 == Patched(b, n, x)
<1>1. /\ \A m \in Nodes : m # n => a2.up[m] = a.up[m] /\ a2.name[m] = a.name[m]
      /\ \A m \in Nodes : m # n => b2.up[m] = b.up[m] /\ b2.name[m] = b.name[m]
      /\ a2.up[n] = None /\ b2.up[n] = None /\ a2.name[n] = x /\ b2.name[n] = x
  BY PatchedTree
<1> HIDE DEF a2, b2
<1>2. r # None /\ r # n
  BY SessionAssumption
<1>3. ASSUME NEW y, Holds(a, y, r, N) PROVE Holds(a2, y, r, N2)
  BY <1>1, <1>2, <1>3 DEF Holds
<1>4. c.on \subseteq N2 /\ \A m \in c.on : m # n /\ m \in Nodes
  BY DEF Takes
<1>5. \A m \in N2 \ c.on : b2.up[m] = a2.up[m] /\ b2.name[m] = a2.name[m]
  BY <1>1 DEF Takes
<1>6. \A m \in c.on : /\ a2.up[m] = a.up[m] /\ a2.name[m] = a.name[m]
                      /\ b2.up[m] = b.up[m] /\ b2.name[m] = b.name[m]
  BY <1>1, <1>4
<1>7. Takes(a2, b2, c, r, N2)
  <2>1. CASE c.op = "add"
    <3>1. Holds(a2, c.at, r, N2)
      BY <1>3, <2>1 DEF Takes
    <3> QED
      BY <1>4, <1>5, <1>6, <2>1, <3>1 DEF Takes
  <2>2. CASE c.op = "delete"
    <3>1. Holds(a2, c.at, r, N2)
      BY <1>3, <2>2 DEF Takes
    <3> QED
      BY <1>4, <1>5, <1>6, <2>2, <3>1 DEF Takes
  <2>3. CASE c.op = "rename"
    <3>1. \A m \in c.on : Holds(a2, a2.up[m], r, N2)
      BY <1>3, <1>6, <2>3 DEF Takes
    <3> QED
      BY <1>4, <1>5, <1>6, <2>3, <3>1 DEF Takes
  <2> QED
    BY <2>1, <2>2, <2>3 DEF Takes
<1> QED
  BY <1>7 DEF a2, b2

\* Of N2 in t2, there is a trail that begins as T does.
AlsoOf(t2, u, v, r, N, T, C, N2) ==
    \E T2 : /\ Past(t2, u, v, r, N2, T2, C)
            /\ r \in Roots => FileOn(T2[0], r, N2) = FileOn(T[0], r, N)

\* Nor to a trail, or to what the file is on any tree of it.
LEMMA PastPatched ==
    ASSUME NEW t \in Tree, NEW u \in Seq(Step), NEW v \in Seq(Step), NEW r, NEW N \in SUBSET Nodes,
           NEW T, NEW C, Past(t, u, v, r, N, T, C), r \in Roots \/ (u = <<>> /\ v = <<>>),
           NEW N2 \in SUBSET Nodes, NEW n \in Nodes, NEW x \in Names, N2 \ {n} = N \ {n}, t.up[n] = None,
           \A c \in Range(u) \union Range(v) : n \notin c.on /\ c.at # n,
           NEW t2, t2 = Patched(t, n, x)
    PROVE  AlsoOf(t2, u, v, r, N, T, C, N2)
<1> DEFINE L == Len(u)
           M == Len(v)
           T2 == [k \in 0 .. L + M |-> Patched(T[k], n, x)]
<1>1. L \in Nat /\ M \in Nat /\ L + M \in Nat /\ Trail(T, C, L + M, r, N) /\ Alike(t, T[L], N)
  BY DEF Past
<1>2. \A k \in 1 .. L + M : C[k] \in Range(u) \union Range(v)
  BY StepOfPast
<1>3. L = Len(u) /\ M = Len(v)
  OBVIOUS
<1> HIDE DEF L, M
<1>4. \A k \in 0 .. L + M : T[k] \in Tree /\ T2[k] = Patched(T[k], n, x)
  BY <1>1 DEF Trail
<1>5. T2 \in [0 .. L + M -> Tree]
  BY <1>4, PatchedTree
<1> HIDE DEF T2
<1>6. L \in 0 .. L + M /\ 0 \in 0 .. L + M
  BY <1>1
<1>7. n \in N => \A k \in 0 .. L + M : T[k].up[n] = None
  <2> SUFFICES ASSUME n \in N, NEW k \in 0 .. L + M PROVE T[k].up[n] = None
    OBVIOUS
  <2>1. T[L].up[n] = None
    BY <1>1 DEF Alike
  <2>2. T[k].up[n] = T[L].up[n]
    BY <1>1, <1>2, <1>6, Untouched
  <2> QED
    BY <2>1, <2>2
<1>8. ASSUME NEW k \in 1 .. L + M
      PROVE  Takes(T2[k - 1], T2[k], C[k], r, N2)
  <2>1. k \in 0 .. L + M /\ k - 1 \in 0 .. L + M
    BY <1>1
  <2>2. /\ T2[k - 1] = Patched(T[k - 1], n, x) /\ T2[k] = Patched(T[k], n, x)
        /\ T[k - 1] \in Tree /\ T[k] \in Tree
        /\ n \in N => T[k - 1].up[n] = None
    BY <1>4, <1>7, <2>1
  <2>3. n \notin C[k].on /\ C[k].at # n /\ Takes(T[k - 1], T[k], C[k], r, N)
    BY <1>1, <1>2 DEF Trail
  <2>4. r \in Roots
    <3>1. CASE u = <<>> /\ v = <<>>
      BY <1>1, <1>3, <3>1
    <3> QED
      BY <3>1
  <2> QED
    BY <2>2, <2>3, <2>4, TakesPatched
<1>9. Trail(T2, C, L + M, r, N2)
  BY <1>1, <1>5, <1>8 DEF Trail
<1>10. Alike(t2, T2[L], N2)
  <2>1. /\ \A m \in Nodes : t2.up[m] = IF m = n THEN None ELSE t.up[m]
        /\ \A m \in Nodes : t2.name[m] = IF m = n THEN x ELSE t.name[m]
    BY PatchedTree
  <2>2. /\ \A m \in Nodes : T2[L].up[m] = IF m = n THEN None ELSE T[L].up[m]
        /\ \A m \in Nodes : T2[L].name[m] = IF m = n THEN x ELSE T[L].name[m]
    BY <1>4, <1>6, PatchedTree
  <2> QED
    BY <1>1, <2>1, <2>2 DEF Alike
<1>11. Past(t2, u, v, r, N2, T2, C)
  <2>1. (\A k \in 1 .. L : C[k] = u[k]) /\ \A k \in 1 .. M : C[L + M + 1 - k] = v[k]
    BY <1>3 DEF Past
  <2> QED
    BY <1>3, <1>9, <1>10, <2>1 DEF Past
<1>12. ASSUME r \in Roots
       PROVE  FileOn(T2[0], r, N2) = FileOn(T[0], r, N)
  <2> DEFINE a == T[0]
             b == T2[0]
  <2>1. a \in Tree /\ b \in Tree
    BY <1>4, <1>5, <1>6
  <2>2. /\ \A m \in Nodes : m # n => b.up[m] = a.up[m] /\ b.name[m] = a.name[m]
        /\ b.up[n] = None
    BY <1>4, <1>6, PatchedTree
  <2>3. n \in N => a.up[n] = None
    BY <1>6, <1>7
  <2> HIDE DEF a, b
  <2>4. r # None /\ r # n /\ None \notin Nodes
    BY <1>12, SessionAssumption
  <2>5. \A m \in Nodes : m \in N2 /\ Holds(b, b.up[m], r, N2) <=> m \in N /\ Holds(a, a.up[m], r, N)
    BY <2>2, <2>3, <2>4 DEF Holds
  <2>6. {m \in N2 : Holds(b, b.up[m], r, N2)} = {m \in N : Holds(a, a.up[m], r, N)}
    BY <2>5
  <2>7. \A m \in {m \in N : Holds(a, a.up[m], r, N)} : b.up[m] = a.up[m] /\ b.name[m] = a.name[m]
    BY <2>2, <2>3, <2>4 DEF Holds
  <2>8. FileOn(b, r, N2) = FileOn(a, r, N)
    BY <2>6, <2>7 DEF FileOn
  <2> QED
    BY <2>8 DEF a, b
<1> QED
  BY <1>11, <1>12 DEF AlsoOf

-----------------------------------------------------------------------------
(***************************************************************************)
(* Whose each node is, and what a step of the session does to every file's *)
(* trail.                                                                  *)
(***************************************************************************)
\* H has each node at home in a file: the one it is in, or was last in.
Homed(t, H) ==
    /\ H \in [Nodes -> Roots \union {None}]
    /\ \A n \in Nodes : /\ t.up[n] \in Roots => H[n] = t.up[n]
                        /\ t.up[n] \in Nodes => H[n] = H[t.up[n]]

Of(H, r) == {n \in Nodes : H[n] = r}

PastOf(s, H, T, C) == Past(tree, undo[s], redo[s], dataSources[s], Of(H, dataSources[s]), T, C)

\* A file that is not open has no history, and each one's is of a trail.
ClosedOK == \A s \in Sources : dataSources[s] = None => undo[s] = <<>> /\ redo[s] = <<>>

TrailsOK == \E H : Homed(tree, H) /\ \A s \in Sources : \E T, C : PastOf(s, H, T, C)

\* What LeadsBack is about.
Stays(s) == /\ dataSources[s] # None /\ dataSources'[s] = dataSources[s]
            /\ <<undo[s], undo'[s]>> # <<<<>>, <<>>>>

\* A step takes each trail to one, which for a file that stays begins as it did.
Follows(H, H2) ==
    \A s \in Sources : \A T, C :
        PastOf(s, H, T, C) =>
            \E T2, C2 :
                /\ Past(tree', undo'[s], redo'[s], dataSources'[s], Of(H2, dataSources'[s]), T2, C2)
                /\ Stays(s) => FileOn(T2[0], dataSources[s], Of(H2, dataSources[s]))
                                   = FileOn(T[0], dataSources[s], Of(H, dataSources[s]))

Carries(H) == \E H2 : Homed(tree', H2) /\ Follows(H, H2)

\* No other file's history is touched.
Others(s0) ==
    /\ UNCHANGED dataSources
    /\ \A s \in Sources \ {s0} : undo'[s] = undo[s] /\ redo'[s] = redo[s]

LEMMA AtHome ==
    ASSUME NEW t \in Tree, NEW H, Homed(t, H), NEW r \in Roots, NEW n \in Nodes,
           Holds(t, t.up[n], r, Nodes)
    PROVE  n \in Of(H, r)
BY DEF Homed, Holds, Of

\* The nodes a step is on, and what it puts them in, are at home in the file.
LEMMA TakesAtHome ==
    ASSUME NEW t \in Tree, NEW H, Homed(t, H), NEW r \in Roots, NEW u, NEW c,
           Takes(t, u, c, r, Nodes), c.op # "add"
    PROVE  Takes(t, u, c, r, Of(H, r))
<1> DEFINE N == Of(H, r)
<1>1. N \subseteq Nodes
  BY DEF Of
<1>2. \A x : Holds(t, x, r, Nodes) => Holds(t, x, r, N)
  BY DEF Holds, Homed, Of
<1>3. ASSUME NEW n \in c.on PROVE n \in N
  <2>1. n \in Nodes /\ Holds(t, t.up[n], r, Nodes)
    BY DEF Takes
  <2> QED
    BY <2>1, AtHome
<1> HIDE DEF N
<1>4. Takes(t, u, c, r, N)
  BY <1>1, <1>2, <1>3 DEF Takes
<1> QED
  BY <1>4 DEF N

\* A step made, or undone, takes nothing away from home.
LEMMA HomedStays ==
    ASSUME NEW t, NEW H, Homed(t, H), NEW r \in Roots, NEW u, NEW c,
           \A n \in Nodes \ Of(H, r) : u.up[n] = t.up[n],
           Takes(t, u, c, r, Of(H, r)) \/ Takes(u, t, c, r, Of(H, r))
    PROVE  Homed(u, H)
<1> SUFFICES ASSUME NEW n \in Nodes
             PROVE  /\ u.up[n] \in Roots => H[n] = u.up[n]
                    /\ u.up[n] \in Nodes => H[n] = H[u.up[n]]
  BY DEF Homed
<1>1. Nodes \intersect Roots = {} /\ None \notin Nodes \union Roots
  BY SessionAssumption
<1>2. CASE u.up[n] = t.up[n]
  BY <1>2 DEF Homed
<1>3. CASE u.up[n] # t.up[n]
  <2>1. n \in Of(H, r) /\ H[n] = r
    BY <1>3 DEF Of
  <2>2. u.up[n] = None \/ u.up[n] = r \/ u.up[n] \in Of(H, r)
    BY <1>3, <2>1 DEF Takes, Holds
  <2> QED
    BY <1>1, <2>1, <2>2 DEF Of
<1> QED
  BY <1>2, <1>3

LEMMA OneSource ==
    ASSUME SourcesOK, NEW s0 \in Sources, NEW s \in Sources, s # s0, dataSources[s0] # None
    PROVE  dataSources[s] # dataSources[s0]
BY DEF SourcesOK

LEMMA HistorySeqs ==
    ASSUME TreesOK, NEW s \in Sources
    PROVE  tree \in Tree /\ undo[s] \in Seq(Step) /\ redo[s] \in Seq(Step)
BY DEF TreesOK, HistoriesOK, Histories

\* The tree stays, and so does each history, or it ends with its file.
LEMMA QuietCarries ==
    ASSUME TreesOK, NEW H, Homed(tree, H), UNCHANGED tree,
           \A s \in Sources :
               \/ undo'[s] = undo[s] /\ redo'[s] = redo[s] /\ dataSources'[s] = dataSources[s]
               \/ /\ undo'[s] = <<>> /\ redo'[s] = <<>>
                  /\ dataSources'[s] # dataSources[s] \/ dataSources[s] = None
    PROVE  Carries(H)
<1>1. ASSUME NEW s \in Sources, NEW T, NEW C, PastOf(s, H, T, C)
      PROVE  \E T2, C2 :
                /\ Past(tree', undo'[s], redo'[s], dataSources'[s], Of(H, dataSources'[s]), T2, C2)
                /\ Stays(s) => FileOn(T2[0], dataSources[s], Of(H, dataSources[s]))
                                   = FileOn(T[0], dataSources[s], Of(H, dataSources[s]))
  <2>1. CASE undo'[s] = undo[s] /\ redo'[s] = redo[s] /\ dataSources'[s] = dataSources[s]
    <3>1. Past(tree', undo'[s], redo'[s], dataSources'[s], Of(H, dataSources'[s]), T, C)
      BY <1>1, <2>1 DEF PastOf
    <3> QED
      BY <3>1
  <2>2. CASE /\ undo'[s] = <<>> /\ redo'[s] = <<>>
             /\ dataSources'[s] # dataSources[s] \/ dataSources[s] = None
    <3>1. ~Stays(s)
      BY <2>2 DEF Stays
    <3>2. tree \in Tree
      BY DEF TreesOK
    <3>3. PICK T2, C2 : Past(tree, <<>>, <<>>, dataSources'[s], Of(H, dataSources'[s]), T2, C2)
      BY <3>2, NoPast
    <3>4. Past(tree', undo'[s], redo'[s], dataSources'[s], Of(H, dataSources'[s]), T2, C2)
      BY <2>2, <3>3
    <3> QED
      BY <3>1, <3>4
  <2> QED
    BY <2>1, <2>2
<1>2. Homed(tree', H)
  OBVIOUS
<1> QED
  BY <1>1, <1>2 DEF Carries, Follows

\* A step is made and put on the stack: a removal or a rename.
LEMMA MakingCarries ==
    ASSUME TreesOK, SourcesOK, NEW H, Homed(tree, H), NEW s0 \in Sources, NEW r \in Roots, dataSources[s0] = r,
           NEW c \in Step, c.op # "add", Takes(tree, tree', c, r, Nodes), tree' \in Tree, Others(s0),
           undo'[s0] = Append(undo[s0], c), redo'[s0] = <<>>
    PROVE  Carries(H)
<1>1. Takes(tree, tree', c, r, Of(H, r)) /\ tree \in Tree /\ r # None
  BY HistorySeqs, TakesAtHome, SessionAssumption
<1>2. \A n \in Nodes \ Of(H, r) : tree'.up[n] = tree.up[n] /\ tree'.name[n] = tree.name[n]
  BY <1>1 DEF Takes
<1>3. Homed(tree', H)
  BY <1>1, <1>2, HomedStays
<1>4. ASSUME NEW s \in Sources, NEW T, NEW C, PastOf(s, H, T, C)
      PROVE  \E T2, C2 :
                /\ Past(tree', undo'[s], redo'[s], dataSources'[s], Of(H, dataSources'[s]), T2, C2)
                /\ Stays(s) => FileOn(T2[0], dataSources[s], Of(H, dataSources[s]))
                                   = FileOn(T[0], dataSources[s], Of(H, dataSources[s]))
  <2>0. dataSources'[s] = dataSources[s]
    BY DEF Others
  <2>1. CASE s = s0
    <3>1. Past(tree, undo[s0], redo[s0], r, Of(H, r), T, C)
      BY <1>4, <2>1 DEF PastOf
    <3>2. undo[s0] \in Seq(Step) /\ redo[s0] \in Seq(Step)
      BY HistorySeqs
    <3>3. PICK T2, C2 : Past(tree', Append(undo[s0], c), <<>>, r, Of(H, r), T2, C2) /\ T2[0] = T[0]
      BY <1>1, <3>1, <3>2, PastMakes
    <3> QED
      BY <2>0, <2>1, <3>3
  <2>2. CASE s # s0
    <3>1. dataSources[s] # r
      BY <1>1, <2>2, OneSource
    <3>2. Alike(tree, tree', Of(H, dataSources[s]))
      BY <1>2, <3>1 DEF Alike, Of
    <3>3. Past(tree', undo[s], redo[s], dataSources[s], Of(H, dataSources[s]), T, C)
      BY <1>4, <3>2, PastElsewhere DEF PastOf
    <3>4. undo'[s] = undo[s] /\ redo'[s] = redo[s]
      BY <2>2 DEF Others
    <3> QED
      BY <2>0, <3>3, <3>4
  <2> QED
    BY <2>1, <2>2
<1> QED
  BY <1>3, <1>4 DEF Carries, Follows

\* A step is undone, or made again.
LEMMA WalkingCarries ==
    ASSUME TreesOK, SourcesOK, NEW H, Homed(tree, H), NEW s0 \in Sources, NEW r \in Roots, dataSources[s0] = r,
           NEW T0, NEW C0, PastOf(s0, H, T0, C0), Others(s0),
           \/ /\ undo[s0] # <<>> /\ tree' = Undone(tree, Last(undo[s0]))
              /\ undo'[s0] = Front(undo[s0]) /\ redo'[s0] = Append(redo[s0], Last(undo[s0]))
           \/ /\ redo[s0] # <<>> /\ tree' = Done(tree, Last(redo[s0]))
              /\ redo'[s0] = Front(redo[s0]) /\ undo'[s0] = Append(undo[s0], Last(redo[s0]))
    PROVE  Carries(H)
<1> DEFINE N == Of(H, r)
           u == undo[s0]
           v == redo[s0]
           u2 == undo'[s0]
           v2 == redo'[s0]
           t == tree
           t2 == tree'
<1>1. /\ t \in Tree /\ u \in Seq(Step) /\ v \in Seq(Step) /\ N \in SUBSET Nodes /\ r # None
      /\ Past(t, u, v, r, N, T0, C0)
  BY HistorySeqs, SessionAssumption DEF Of, PastOf
<1>2. \/ /\ u # <<>> /\ t2 = Undone(t, Last(u)) /\ u2 = Front(u) /\ v2 = Append(v, Last(u))
      \/ /\ v # <<>> /\ t2 = Done(t, Last(v)) /\ v2 = Front(v) /\ u2 = Append(u, Last(v))
  OBVIOUS
<1> HIDE DEF N, u, v, u2, v2, t, t2
<1>3. /\ \A T, C : Past(t, u, v, r, N, T, C) => Past(t2, u2, v2, r, N, T, C)
      /\ \E c : Takes(t, t2, c, r, N) \/ Takes(t2, t, c, r, N)
      /\ Alike(t, t2, Nodes \ N)
  <2>1. CASE u # <<>> /\ t2 = Undone(t, Last(u)) /\ u2 = Front(u) /\ v2 = Append(v, Last(u))
    <3> DEFINE c == Last(u)
    <3>1. c = Last(u) /\ t2 = Undone(t, c) /\ u # <<>>
      BY <2>1
    <3> HIDE DEF c
    <3>2. ASSUME NEW T, NEW C, Past(t, u, v, r, N, T, C)
          PROVE  /\ Past(t2, Front(u), Append(v, c), r, N, T, C) /\ Takes(t2, t, c, r, N)
                 /\ Alike(t, t2, Nodes \ N)
      BY <1>1, <3>1, <3>2, PastUndoes
    <3> QED
      BY <1>1, <2>1, <3>1, <3>2
  <2>2. CASE v # <<>> /\ t2 = Done(t, Last(v)) /\ v2 = Front(v) /\ u2 = Append(u, Last(v))
    <3> DEFINE c == Last(v)
    <3>1. c = Last(v) /\ t2 = Done(t, c) /\ v # <<>>
      BY <2>2
    <3> HIDE DEF c
    <3>2. ASSUME NEW T, NEW C, Past(t, u, v, r, N, T, C)
          PROVE  /\ Past(t2, Append(u, c), Front(v), r, N, T, C) /\ Takes(t, t2, c, r, N)
                 /\ Alike(t, t2, Nodes \ N)
      <4>1. /\ t \in Tree /\ u \in Seq(Step) /\ v \in Seq(Step) /\ N \in SUBSET Nodes
            /\ v # <<>> /\ c = Last(v) /\ t2 = Done(t, c)
        BY <1>1, <3>1
      <4>2. Past(t, u, v, r, N, T, C)
        BY <3>2
      <4> QED
        BY <4>1, <4>2, PastRedoes
    <3> QED
      BY <1>1, <2>2, <3>1, <3>2
  <2> QED
    BY <1>2, <2>1, <2>2
<1> USE DEF N, u, v, u2, v2, t, t2
<1>4. Homed(tree', H)
  <2>1. \A n \in Nodes \ Of(H, r) : tree'.up[n] = tree.up[n]
    BY <1>3 DEF Alike
  <2> QED
    BY <1>3, <2>1, HomedStays
<1>5. ASSUME NEW s \in Sources, NEW T, NEW C, PastOf(s, H, T, C)
      PROVE  /\ Past(tree', undo'[s], redo'[s], dataSources'[s], Of(H, dataSources'[s]), T, C)
             /\ Of(H, dataSources'[s]) = Of(H, dataSources[s])
  <2>0. dataSources'[s] = dataSources[s]
    BY DEF Others
  <2>1. CASE s = s0
    BY <1>3, <1>5, <2>0, <2>1 DEF PastOf
  <2>2. CASE s # s0
    <3>1. dataSources[s] # r
      BY <1>1, <2>2, OneSource
    <3>2. Alike(tree, tree', Of(H, dataSources[s]))
      BY <1>3, <3>1 DEF Alike, Of
    <3>3. Past(tree', undo[s], redo[s], dataSources[s], Of(H, dataSources[s]), T, C)
      BY <1>5, <3>2, PastElsewhere DEF PastOf
    <3>4. undo'[s] = undo[s] /\ redo'[s] = redo[s]
      BY <2>2 DEF Others
    <3> QED
      BY <2>0, <3>3, <3>4
  <2> QED
    BY <2>1, <2>2
<1>6. Follows(H, H)
  BY <1>5 DEF Follows
<1> QED
  BY <1>4, <1>6 DEF Carries

\* A host's removal or rename, in a file without history.
LEMMA HostCarries ==
    ASSUME TreesOK, SourcesOK, NEW H, Homed(tree, H), NEW s0 \in Sources, NEW r \in Roots, dataSources[s0] = r,
           tree' \in Tree, \A n \in Nodes : tree'.up[n] \in {tree.up[n], None},
           \A n \in Nodes \ Of(H, r) : tree'.up[n] = tree.up[n] /\ tree'.name[n] = tree.name[n],
           Others(s0), undo[s0] = <<>>, undo'[s0] = <<>>, redo'[s0] = <<>>
    PROVE  Carries(H)
<1>1. Homed(tree', H)
  BY SessionAssumption DEF Homed
<1>2. ASSUME NEW s \in Sources, NEW T, NEW C, PastOf(s, H, T, C)
      PROVE  \E T2, C2 :
                /\ Past(tree', undo'[s], redo'[s], dataSources'[s], Of(H, dataSources'[s]), T2, C2)
                /\ Stays(s) => FileOn(T2[0], dataSources[s], Of(H, dataSources[s]))
                                   = FileOn(T[0], dataSources[s], Of(H, dataSources[s]))
  <2>0. dataSources'[s] = dataSources[s]
    BY DEF Others
  <2>1. CASE s = s0
    <3>1. ~Stays(s)
      BY <2>1 DEF Stays
    <3>2. PICK T2, C2 : Past(tree', <<>>, <<>>, dataSources'[s], Of(H, dataSources'[s]), T2, C2)
      BY NoPast
    <3> QED
      BY <2>1, <3>1, <3>2
  <2>2. CASE s # s0
    <3>1. dataSources[s] # r
      BY <2>2, OneSource, SessionAssumption
    <3>2. Alike(tree, tree', Of(H, dataSources[s]))
      BY <3>1 DEF Alike, Of
    <3>3. Past(tree', undo[s], redo[s], dataSources[s], Of(H, dataSources[s]), T, C)
      BY <1>2, <3>2, PastElsewhere DEF PastOf
    <3>4. undo'[s] = undo[s] /\ redo'[s] = redo[s]
      BY <2>2 DEF Others
    <3> QED
      BY <2>0, <3>3, <3>4
  <2> QED
    BY <2>1, <2>2
<1> QED
  BY <1>1, <1>2 DEF Carries, Follows

\* An unused node put in: by an edit, or by a host in a file without history.
LEMMA GrowingCarries ==
    ASSUME TreesOK, SourcesOK, ClosedOK, NEW H, Homed(tree, H), NEW s0 \in Sources, NEW r \in Roots,
           dataSources[s0] = r, NEW n \in Unused, NEW a \in Names, NEW p, Holds(tree, p, r, Nodes),
           tree' = Attached(Named(tree, {n}, a), {n}, p), Others(s0),
           NEW c \in Step, c.op = "add", c.on = {n}, c.at = p,
           \/ undo'[s0] = Append(undo[s0], c) /\ redo'[s0] = <<>>
           \/ undo[s0] = <<>> /\ undo'[s0] = <<>> /\ redo'[s0] = <<>>
    PROVE  Carries(H)
<1> DEFINE H2 == [H EXCEPT ![n] = r]
           t1 == Patched(tree, n, a)
<1>1. /\ tree \in Tree /\ n \in Nodes /\ tree.up[n] = None /\ (\A m \in Nodes : tree.up[m] # n)
      /\ \A s \in Sources : \A d \in Steps(s) : n \notin d.on /\ d.at # n
  BY UnusedIs DEF TreesOK
<1>2. /\ Nodes \intersect Roots = {} /\ None \notin Nodes \union Roots
      /\ p \in Nodes \union Roots /\ p # n /\ (p = r \/ (p \in Nodes /\ tree.up[p] = r))
  BY <1>1, SessionAssumption DEF Holds
<1>3. /\ t1 \in Tree
      /\ \A m \in Nodes : t1.up[m] = IF m = n THEN None ELSE tree.up[m]
      /\ \A m \in Nodes : t1.name[m] = IF m = n THEN a ELSE tree.name[m]
  BY <1>1, PatchedTree
<1> HIDE DEF t1
<1>4. /\ tree' \in Tree
      /\ \A m \in Nodes : tree'.up[m] = IF m = n THEN p ELSE t1.up[m]
      /\ \A m \in Nodes : tree'.name[m] = t1.name[m]
  <2> DEFINE x == Named(tree, {n}, a)
  <2>1. x \in Tree /\ x.up = tree.up /\ \A m \in Nodes : x.name[m] = IF m \in {n} THEN a ELSE tree.name[m]
    BY <1>1, NamedTree
  <2> DEFINE y == Attached(x, {n}, p)
  <2>2. tree' = y
    OBVIOUS
  <2> HIDE DEF x
  <2>3. p \in Nodes \union Roots \union {None}
    BY <1>2
  <2>4. /\ y \in Tree /\ y.name = x.name
        /\ \A m \in Nodes : y.up[m] = IF m \in {n} THEN p ELSE x.up[m]
    BY <2>1, <2>3, AttachedTree
  <2> HIDE DEF y
  <2>5. \A m \in Nodes : y.up[m] = IF m = n THEN p ELSE t1.up[m]
    <3>1. \A m \in Nodes : m # n => t1.up[m] = tree.up[m]
      BY <1>3
    <3> QED
      BY <2>1, <2>4, <3>1
  <2>6. \A m \in Nodes : y.name[m] = t1.name[m]
    BY <1>3, <2>1, <2>4
  <2> QED
    BY <2>2, <2>4, <2>5, <2>6
<1>5. H2 \in [Nodes -> Roots \union {None}] /\ \A m \in Nodes : H2[m] = IF m = n THEN r ELSE H[m]
  BY <1>1 DEF Homed
<1> HIDE DEF H2
<1>6. Homed(tree', H2)
  <2> SUFFICES ASSUME NEW m \in Nodes
               PROVE  /\ tree'.up[m] \in Roots => H2[m] = tree'.up[m]
                      /\ tree'.up[m] \in Nodes => H2[m] = H2[tree'.up[m]]
    BY <1>5 DEF Homed
  <2>1. CASE m = n
    <3>1. tree'.up[m] = p /\ H2[m] = r
      BY <1>4, <1>5, <2>1
    <3>2. CASE p = r
      BY <1>2, <3>1, <3>2
    <3>3. CASE p \in Nodes /\ tree.up[p] = r
      <4>1. H[p] = r
        BY <3>3 DEF Homed
      <4>2. H2[p] = r
        BY <1>2, <1>5, <3>3, <4>1
      <4> QED
        BY <1>2, <3>1, <3>3, <4>2
    <3> QED
      BY <1>2, <3>2, <3>3
  <2>2. CASE m # n
    <3>1. tree'.up[m] = tree.up[m] /\ tree.up[m] # n
      BY <1>1, <1>3, <1>4, <2>2
    <3> QED
      BY <1>5, <2>2, <3>1 DEF Homed
  <2> QED
    BY <2>1, <2>2
<1>7. ASSUME NEW s \in Sources, NEW T, NEW C, PastOf(s, H, T, C)
      PROVE  \E T2, C2 :
                /\ Past(tree', undo'[s], redo'[s], dataSources'[s], Of(H2, dataSources'[s]), T2, C2)
                /\ Stays(s) => FileOn(T2[0], dataSources[s], Of(H2, dataSources[s]))
                                   = FileOn(T[0], dataSources[s], Of(H, dataSources[s]))
  <2> DEFINE q == dataSources[s]
             u == undo[s]
             v == redo[s]
             N == Of(H, q)
             N2 == Of(H2, q)
  <2>1. /\ dataSources'[s] = q /\ u \in Seq(Step) /\ v \in Seq(Step)
        /\ N \in SUBSET Nodes /\ N2 \in SUBSET Nodes /\ N2 \ {n} = N \ {n}
    BY <1>5, HistorySeqs DEF Others, Of
  <2>2. q \in Roots \/ (u = <<>> /\ v = <<>>)
    BY DEF SourcesOK, ClosedOK
  <2>3. \A d \in Range(u) \union Range(v) : n \notin d.on /\ d.at # n
    BY <1>1 DEF Steps
  <2>4. Past(tree, u, v, q, N, T, C)
    BY <1>7 DEF PastOf
  <2>5. n \in N2 <=> q = r
    BY <1>1, <1>5 DEF Of
  <2>6. Stays(s) => q \in Roots
    BY DEF Stays, SourcesOK
  <2> HIDE DEF q, u, v, N, N2
  <2>7. PICK T1 : /\ Past(t1, u, v, q, N2, T1, C)
                  /\ q \in Roots => FileOn(T1[0], q, N2) = FileOn(T[0], q, N)
    <3>1. tree \in Tree /\ n \in Nodes /\ tree.up[n] = None /\ t1 = Patched(tree, n, a)
      BY <1>1 DEF t1
    <3>2. /\ u \in Seq(Step) /\ v \in Seq(Step) /\ N \in SUBSET Nodes
          /\ N2 \in SUBSET Nodes /\ N2 \ {n} = N \ {n}
      BY <2>1
    <3>3. /\ tree \in Tree /\ n \in Nodes /\ a \in Names /\ tree.up[n] = None
          /\ Past(tree, u, v, q, N, T, C) /\ (q \in Roots \/ (u = <<>> /\ v = <<>>))
          /\ \A d \in Range(u) \union Range(v) : n \notin d.on /\ d.at # n
      BY <2>2, <2>3, <2>4, <3>1
    <3>4. AlsoOf(t1, u, v, q, N, T, C, N2)
      BY <3>1, <3>2, <3>3, PastPatched
    <3> QED
      BY <3>4 DEF AlsoOf
  <2>8. CASE s # s0
    <3>1. q # r
      BY <1>2, <2>8, OneSource DEF q
    <3>2. Alike(t1, tree', N2)
      BY <1>4, <2>1, <2>5, <3>1 DEF Alike
    <3>3. Past(tree', u, v, q, N2, T1, C)
      BY <2>7, <3>2, PastElsewhere
    <3>4. undo'[s] = u /\ redo'[s] = v
      BY <2>8 DEF Others, u, v
    <3>5. Past(tree', undo'[s], redo'[s], q, N2, T1, C)
      BY <3>3, <3>4
    <3> QED
      BY <2>1, <2>6, <2>7, <3>5 DEF q, N, N2
  <2>9. CASE s = s0 /\ undo[s0] = <<>> /\ undo'[s0] = <<>> /\ redo'[s0] = <<>>
    <3>1. ~Stays(s)
      BY <2>9 DEF Stays
    <3>2. PICK T2, C2 : Past(tree', <<>>, <<>>, q, N2, T2, C2)
      BY <1>4, NoPast
    <3> QED
      BY <2>1, <2>9, <3>1, <3>2 DEF q, N2
  <2>10. CASE s = s0 /\ undo'[s0] = Append(undo[s0], c) /\ redo'[s0] = <<>>
    <3>1. q = r /\ n \in N2 /\ undo'[s] = Append(u, c) /\ redo'[s] = <<>>
      BY <2>5, <2>10 DEF q, u
    <3>2. Holds(t1, p, r, N2)
      <4>1. CASE p = r
        BY <4>1 DEF Holds
      <4>2. CASE p \in Nodes /\ tree.up[p] = r
        <5>1. H[p] = r
          BY <4>2 DEF Homed
        <5>2. p \in N2
          BY <1>2, <1>5, <3>1, <4>2, <5>1 DEF N2, Of
        <5> QED
          BY <1>2, <1>3, <4>2, <5>2 DEF Holds
      <4> QED
        BY <1>2, <4>1, <4>2
    <3>3. Takes(t1, tree', c, r, N2)
      <4>1. c.on \subseteq N2 /\ c.op = "add" /\ Holds(t1, c.at, r, N2)
        BY <3>1, <3>2
      <4>2. \A m \in N2 \ c.on : tree'.up[m] = t1.up[m] /\ tree'.name[m] = t1.name[m]
        BY <1>4, <2>1
      <4>3. \A m \in c.on : t1.up[m] = None /\ tree'.up[m] = c.at /\ tree'.name[m] = t1.name[m]
        BY <1>1, <1>3, <1>4
      <4> QED
        BY ONLY <4>1, <4>2, <4>3 DEF Takes
    <3>4. PICK T2, C2 : Past(tree', Append(u, c), <<>>, q, N2, T2, C2) /\ T2[0] = T1[0]
      <4> DEFINE t2 == tree'
      <4>1. /\ t1 \in Tree /\ t2 \in Tree /\ Takes(t1, t2, c, q, N2)
            /\ Past(t1, u, v, q, N2, T1, C) /\ u \in Seq(Step) /\ v \in Seq(Step)
        BY <1>3, <1>4, <2>1, <2>7, <3>1, <3>3
      <4> HIDE DEF t2
      <4>2. \E T2, C2 : Past(t2, Append(u, c), <<>>, q, N2, T2, C2) /\ T2[0] = T1[0]
        BY <4>1, PastMakes
      <4> QED
        BY <4>2 DEF t2
    <3>5. Past(tree', undo'[s], redo'[s], q, N2, T2, C2)
      BY <3>1, <3>4
    <3> QED
      BY <2>1, <2>6, <2>7, <3>4, <3>5 DEF q, N, N2
  <2> QED
    BY <2>8, <2>9, <2>10
<1> QED
  BY <1>6, <1>7 DEF Carries, Follows

-----------------------------------------------------------------------------
(***************************************************************************)
(* What is selected, and the open files.                                   *)
(***************************************************************************)
\* No tree but an open one has the node or root x in it.
InOpenOnly(t, srcs, x) ==
    /\ x \in Roots => x \in Open(srcs)
    /\ x \in Nodes => \A q \in Roots : Holds(t, t.up[x], q, Nodes) => q \in Open(srcs)

\* The entries selected are in open files; so is the context, or it is in none.
ViewOK == entries \subseteq Found /\ InOpenOnly(tree, dataSources, context)

\* The inductive invariant.
Whole == Kept /\ IndexOK /\ ClosedOK /\ TrailsOK /\ ViewOK

LEMMA OpenIs ==
    ASSUME NEW t \in Tree, NEW srcs \in [Sources -> Roots \union {None}], NEW n \in Nodes
    PROVE  n \in OpenNodes(t, srcs) <=> \E q \in Open(srcs) : Holds(t, t.up[n], q, Nodes)
<1>1. Open(srcs) \subseteq Roots
  BY DEF Open
<1> QED
  BY <1>1, OwnedNode DEF OpenNodes

LEMMA OpenSource ==
    ASSUME SourcesOK, NEW r \in Editable, r \in Open(dataSources)
    PROVE  Label[r] \in Sources /\ dataSources[Label[r]] = r /\ r \in Roots
BY EditableSource, SessionAssumption DEF SourcesOK, Open

\* The nodes `on` are put in `at`, of the file r, where they were in none.
PutIn(t, u, on, at, r) ==
    /\ on \subseteq Nodes /\ Holds(t, at, r, Nodes)
    /\ \A n \in Nodes \ on : u.up[n] = t.up[n]
    /\ \A n \in on : t.up[n] = None /\ u.up[n] = at

LEMMA PutInIs ==
    ASSUME NEW t \in Tree, NEW u \in Tree, NEW on, NEW at, NEW srcs \in [Sources -> Roots \union {None}],
           NEW r \in Open(srcs), PutIn(t, u, on, at, r)
    PROVE  /\ OpenNodes(t, srcs) \subseteq OpenNodes(u, srcs)
           /\ on \subseteq OpenNodes(u, srcs)
           /\ {at} \intersect Nodes \subseteq OpenNodes(t, srcs)
           /\ OpenNodes(u, srcs) \ UNION {Subtree(u, n) : n \in on} \subseteq OpenNodes(t, srcs)
           /\ \A m \in Nodes : \A q \in Roots :
                  /\ Holds(t, t.up[m], q, Nodes) => Holds(u, u.up[m], q, Nodes)
                  /\ Holds(u, u.up[m], q, Nodes) => Holds(t, t.up[m], q, Nodes) \/ q \in Open(srcs)
<1>1. /\ Open(srcs) \subseteq Roots /\ r \in Roots
      /\ Nodes \intersect Roots = {} /\ None \notin Nodes \union Roots
  BY SessionAssumption DEF Open
<1>2. /\ on \subseteq Nodes /\ Holds(t, at, r, Nodes)
      /\ \A n \in Nodes \ on : u.up[n] = t.up[n]
      /\ \A n \in on : t.up[n] = None /\ u.up[n] = at
  BY DEF PutIn
<1>3. ASSUME NEW m \in Nodes, NEW q \in Roots, Holds(t, t.up[m], q, Nodes)
      PROVE  Holds(u, u.up[m], q, Nodes)
  BY <1>1, <1>2, <1>3 DEF Holds
<1>4. ASSUME NEW m \in Nodes, NEW q \in Roots, Holds(u, u.up[m], q, Nodes)
      PROVE  Holds(t, t.up[m], q, Nodes) \/ q = r
  BY <1>1, <1>2, <1>4 DEF Holds
<1>5. OpenNodes(t, srcs) \subseteq Nodes /\ OpenNodes(u, srcs) \subseteq Nodes
  BY DEF OpenNodes
<1>6. OpenNodes(t, srcs) \subseteq OpenNodes(u, srcs)
  BY <1>1, <1>3, <1>5, OpenIs
<1>7. on \subseteq OpenNodes(u, srcs)
  <2> SUFFICES ASSUME NEW n \in on PROVE n \in OpenNodes(u, srcs)
    OBVIOUS
  <2>1. Holds(u, u.up[n], r, Nodes)
    BY <1>1, <1>2 DEF Holds
  <2> QED
    BY <1>2, <2>1, OpenIs
<1>8. {at} \intersect Nodes \subseteq OpenNodes(t, srcs)
  <2> SUFFICES ASSUME at \in Nodes PROVE at \in OpenNodes(t, srcs)
    OBVIOUS
  <2>1. Holds(t, t.up[at], r, Nodes)
    BY <1>1, <1>2 DEF Holds
  <2> QED
    BY <2>1, OpenIs
<1>9. ASSUME NEW m \in OpenNodes(u, srcs), m \notin UNION {Subtree(u, n) : n \in on}
      PROVE  m \in OpenNodes(t, srcs)
  <2>1. m \in Nodes
    BY <1>5
  <2>2. PICK q \in Open(srcs) : Holds(u, u.up[m], q, Nodes)
    BY <2>1, OpenIs
  <2>3. m \notin on /\ u.up[m] \notin on
    BY <1>2, <1>9, <2>1 DEF Subtree
  <2>4. Holds(t, t.up[m], q, Nodes)
    BY <1>2, <2>1, <2>2, <2>3 DEF Holds
  <2> QED
    BY <2>1, <2>4, OpenIs
<1> QED
  BY <1>3, <1>4, <1>6, <1>7, <1>8, <1>9

\* What a step takes a tree through is a node put in, taken out, or renamed.
LEMMA TakesIs ==
    ASSUME NEW t, NEW u, NEW c, NEW r \in Roots, Takes(t, u, c, r, Nodes)
    PROVE  /\ c.op = "add" => PutIn(t, u, c.on, c.at, r)
           /\ c.op = "delete" => PutIn(u, t, c.on, c.at, r)
           /\ c.op = "rename" => \A n \in Nodes : u.up[n] = t.up[n]
<1>1. Nodes \intersect Roots = {} /\ None \notin Nodes \union Roots
  BY SessionAssumption
<1>2. c.op = "delete" => Holds(u, c.at, r, Nodes)
  <2> SUFFICES ASSUME c.op = "delete" PROVE Holds(u, c.at, r, Nodes)
    OBVIOUS
  <2>1. Holds(t, c.at, r, Nodes) /\ \A n \in c.on : t.up[n] = c.at
    BY DEF Takes
  <2>2. c.at \in Nodes => c.at \notin c.on
    BY <1>1, <2>1 DEF Holds
  <2> QED
    BY <2>1, <2>2 DEF Takes, Holds
<1> QED
  BY <1>2 DEF Takes, PutIn

LEMMA TakesWide ==
    ASSUME NEW t, NEW u, NEW c, NEW r, NEW N \in SUBSET Nodes, Takes(t, u, c, r, N),
           \A n \in Nodes \ N : u.up[n] = t.up[n] /\ u.name[n] = t.name[n]
    PROVE  Takes(t, u, c, r, Nodes)
<1>1. \A x : Holds(t, x, r, N) => Holds(t, x, r, Nodes)
  BY DEF Holds
<1>2. c.on \subseteq Nodes /\ \A n \in Nodes \ c.on : u.up[n] = t.up[n] /\ u.name[n] = t.name[n]
  BY DEF Takes
<1> QED
  BY <1>1, <1>2 DEF Takes

\* What may be anywhere but in an open file may be there still.
OwnersStay ==
    \A m \in Nodes : \A q \in Roots :
        Holds(tree', tree'.up[m], q, Nodes) => Holds(tree, tree.up[m], q, Nodes) \/ q \in Open(dataSources)

\* The selection lets go of what is removed, and its entries are in open files.
LEMMA ViewReleased ==
    ASSUME ViewOK, Selections, UNCHANGED dataSources, OwnersStay, NEW removed \in SUBSET Nodes,
           Found \ removed \subseteq Found', NEW es, es \subseteq Found',
           Selects(IF context \in removed THEN None ELSE context, es,
                   IF preview \in removed THEN None ELSE preview)
    PROVE  ViewOK' /\ LetsGo
<1>1. None \notin Nodes \union Roots /\ Nodes \intersect Roots = {}
  BY SessionAssumption
<1>2. /\ context' = IF context \in removed THEN None ELSE context
      /\ entries' = es
      /\ preview' = IF preview \in removed THEN None ELSE preview
  BY DEF Selects
<1>3. InOpenOnly(tree', dataSources', context')
  BY <1>1, <1>2 DEF InOpenOnly, ViewOK, OwnersStay
<1>4. Selected' \subseteq Found' \union (Selected \ Found)
  <2> SUFFICES ASSUME NEW n \in Selected', n \notin Found'
               PROVE  n \in Selected \ Found
    OBVIOUS
  <2>1. n \in Selected /\ n \notin removed
    BY <1>1, <1>2 DEF Selected
  <2> QED
    BY <2>1
<1> QED
  BY <1>2, <1>3, <1>4 DEF ViewOK, LetsGo

\* The selection moves on after a step.
LEMMA ViewFollows ==
    ASSUME ViewOK, UNCHANGED dataSources, OwnersStay, Followed, NEW es, es \subseteq Found',
           Selects(context, es, preview)
    PROVE  ViewOK' /\ LetsGo
<1>1. context' = context /\ entries' = es
  BY DEF Selects
<1>2. InOpenOnly(tree', dataSources', context')
  BY <1>1 DEF InOpenOnly, ViewOK, OwnersStay
<1> QED
  BY <1>1, <1>2 DEF ViewOK, LetsGo

\* Nothing is removed.
LEMMA ViewStays ==
    ASSUME ViewOK, Selections, UNCHANGED dataSources, OwnersStay, Found \subseteq Found',
           NEW es, es \subseteq Found', Selects(context, es, preview)
    PROVE  ViewOK' /\ LetsGo
<1> DEFINE removed == {n \in Nodes : FALSE}
<1>1. /\ removed \in SUBSET Nodes /\ Found \ removed \subseteq Found'
      /\ Selects(IF context \in removed THEN None ELSE context, es,
                 IF preview \in removed THEN None ELSE preview)
  OBVIOUS
<1> HIDE DEF removed
<1> QED
  BY <1>1, ViewReleased

LEMMA ClosedStays ==
    ASSUME ClosedOK, NEW s0 \in Sources, dataSources[s0] # None, Others(s0)
    PROVE  ClosedOK'
BY DEF ClosedOK, Others

\* A removal, and the selection after it.
LEMMA ViewAfterRemoval ==
    ASSUME ViewOK, Selections, SourcesOK, UNCHANGED dataSources, tree \in Tree, tree' \in Tree,
           NEW r \in Open(dataSources), NEW on, NEW at, PutIn(tree', tree, on, at, r),
           NEW follow \in BOOLEAN, follow => Followed,
           selectAfterRemoval(follow, UNION {Subtree(tree, n) : n \in on}, NextSelected(at))
    PROVE  ViewOK' /\ LetsGo
<1> DEFINE removed == UNION {Subtree(tree, n) : n \in on}
           t == tree'
<1>1. /\ {at} \intersect Nodes \subseteq OpenNodes(t, dataSources)
      /\ OpenNodes(tree, dataSources) \ removed \subseteq OpenNodes(t, dataSources)
      /\ \A m \in Nodes : \A q \in Roots :
             Holds(t, t.up[m], q, Nodes) => Holds(tree, tree.up[m], q, Nodes)
  <2> DEFINE u == tree
             srcs == dataSources
  <2>1. /\ t \in Tree /\ u \in Tree /\ srcs \in [Sources -> Roots \union {None}]
        /\ r \in Open(srcs) /\ PutIn(t, u, on, at, r)
    BY DEF SourcesOK
  <2> HIDE DEF t, u, srcs
  <2>2. /\ {at} \intersect Nodes \subseteq OpenNodes(t, srcs)
        /\ OpenNodes(u, srcs) \ UNION {Subtree(u, n) : n \in on} \subseteq OpenNodes(t, srcs)
        /\ \A m \in Nodes : \A q \in Roots : Holds(t, t.up[m], q, Nodes) => Holds(u, u.up[m], q, Nodes)
    BY <2>1, PutInIs
  <2> QED
    BY <2>2 DEF u, srcs
<1>2. NextSelected(at) \subseteq Found' /\ Found \ removed \subseteq Found' /\ OwnersStay
  BY <1>1 DEF Found, NextSelected, OwnersStay
<1>3. removed \in SUBSET Nodes
  BY DEF PutIn, Subtree
<1> HIDE DEF removed
<1>4. selectAfterRemoval(follow, removed, NextSelected(at))
  BY DEF removed
<1>5. CASE follow
  <2>1. Selects(context, NextSelected(at), preview)
    BY <1>4, <1>5 DEF selectAfterRemoval
  <2> QED
    BY <1>2, <1>5, <2>1, ViewFollows
<1>6. CASE ~follow
  <2>1. Selects(IF context \in removed THEN None ELSE context, entries \ removed,
                IF preview \in removed THEN None ELSE preview)
    BY <1>4, <1>6 DEF selectAfterRemoval, releaseSubtreeSelection
  <2>2. entries \ removed \subseteq Found'
    BY <1>2 DEF ViewOK
  <2> QED
    BY <1>2, <1>3, <2>1, <2>2, ViewReleased
<1> QED
  BY <1>5, <1>6

-----------------------------------------------------------------------------
(***************************************************************************)
(* The actions, one by one: what each does to what is selected, and to     *)
(* every file's trail.                                                     *)
(***************************************************************************)
\* H has every node at home, and every history is of a trail of its file's nodes.
Told(H) == Homed(tree, H) /\ \A s \in Sources : \E T, C : PastOf(s, H, T, C)

Goes == ViewOK' /\ LetsGo /\ ClosedOK' /\ \A H : Told(H) => Carries(H)

LEMMA WholeIs ==
    ASSUME Whole
    PROVE  /\ TreesOK /\ SourcesOK /\ IndexTyped /\ Selections /\ HistoriesOK /\ IndexOK /\ ClosedOK /\ ViewOK
           /\ tree \in Tree /\ entries \subseteq Found /\ Found \subseteq Nodes
           /\ dataSources \in [Sources -> Roots \union {None}]
           /\ Open(dataSources) \subseteq Roots
           /\ Nodes \intersect Roots = {} /\ None \notin Nodes \union Roots
<1>1. TreesOK /\ SourcesOK /\ IndexTyped /\ Selections /\ HistoriesOK /\ IndexOK /\ ClosedOK /\ ViewOK /\ tree \in Tree
  BY DEF Whole, Kept, TreesOK
<1>2. dataSources \in [Sources -> Roots \union {None}] /\ Open(dataSources) \subseteq Roots
  BY <1>1 DEF SourcesOK, Open
<1>3. entries \subseteq Found /\ Found \subseteq Nodes
  BY <1>1 DEF ViewOK, Found, OpenNodes
<1> QED
  BY <1>1, <1>2, <1>3, SessionAssumption

\* The file edited by way of what is selected, or of the index, is open.
LEMMA OpenOwner ==
    ASSUME Whole, NEW x, x = context \/ x \in Found, editableOwnerOf(x) # None, NEW r, r = editableOwnerOf(x)
    PROVE  /\ r \in Editable /\ r \in Roots /\ r \in Open(dataSources) /\ r = ownerSourceOf(tree, x)
           /\ Label[r] \in Sources /\ dataSources[Label[r]] = r
           /\ x \in Nodes => Holds(tree, tree.up[x], r, Nodes)
<1>1. /\ SourcesOK /\ tree \in Tree /\ ViewOK /\ Selections /\ Found \subseteq Nodes
      /\ Nodes \intersect Roots = {} /\ None \notin Nodes \union Roots
  BY WholeIs
<1>2. x # None /\ r = ownerSourceOf(tree, x) /\ r \in Editable /\ r \in Roots
  BY EditableIs
<1>3. x \in Nodes => Holds(tree, tree.up[x], r, Nodes)
  BY <1>1, <1>2, OwnedNode
<1>4. r \in Open(dataSources)
  <2>1. CASE x \in Found
    BY <1>2, <2>1 DEF Found, OpenNodes
  <2>2. CASE x = context
    <3>1. x \in Roots \/ x \in Nodes
      BY <1>1, <1>2, <2>2 DEF Selections
    <3>2. CASE x \in Roots
      BY <1>1, <1>2, <2>2, <3>2 DEF ownerSourceOf, Up, ViewOK, InOpenOnly
    <3>3. CASE x \in Nodes
      BY <1>1, <1>2, <1>3, <2>2, <3>3 DEF ViewOK, InOpenOnly
    <3> QED
      BY <3>1, <3>2, <3>3
  <2> QED
    BY <2>1, <2>2
<1>5. Label[r] \in Sources /\ dataSources[Label[r]] = r
  BY <1>1, <1>2, <1>4, OpenSource
<1> QED
  BY <1>2, <1>3, <1>4, <1>5

LEMMA PushedIs ==
    ASSUME HistoriesOK, NEW r \in Editable, NEW c, pushExecuted(r, c), UNCHANGED dataSources
    PROVE  /\ Others(Label[r])
           /\ undo'[Label[r]] = Append(undo[Label[r]], c) /\ redo'[Label[r]] = <<>>
<1>1. Label[r] \in Sources
  BY EditableSource
<1>2. DOMAIN undo = Sources /\ DOMAIN redo = Sources
  BY DEF HistoriesOK, Histories
<1> QED
  BY <1>1, <1>2 DEF pushExecuted, Others

\* The step made or undone is the last of one of the stacks, which has grown.
LEMMA FollowedBy ==
    ASSUME NEW s0 \in Sources, NEW c \in Step, c.follow,
           \/ undo[s0] \in Seq(Step) /\ undo'[s0] = Append(undo[s0], c)
           \/ redo[s0] \in Seq(Step) /\ redo'[s0] = Append(redo[s0], c)
    PROVE  Followed
<1>1. ASSUME NEW q \in Seq(Step), NEW q2, q2 = Append(q, c)
      PROVE  Len(q2) > Len(q) /\ Last(q2) = c
  <2>1. Len(q) \in Nat /\ Len(q2) = Len(q) + 1 /\ q2[Len(q) + 1] = c
    BY <1>1
  <2> QED
    BY <2>1 DEF Last
<1>2. CASE undo[s0] \in Seq(Step) /\ undo'[s0] = Append(undo[s0], c)
  BY <1>1, <1>2 DEF Followed
<1>3. CASE redo[s0] \in Seq(Step) /\ redo'[s0] = Append(redo[s0], c)
  BY <1>1, <1>3 DEF Followed
<1> QED
  BY <1>2, <1>3

\* What a node put in leaves of what is open.
LEMMA PutInView ==
    ASSUME SourcesOK, UNCHANGED dataSources, tree \in Tree, tree' \in Tree,
           NEW r \in Open(dataSources), NEW on, NEW at, PutIn(tree, tree', on, at, r)
    PROVE  Found \subseteq Found' /\ on \subseteq Found' /\ OwnersStay
<1> DEFINE u == tree'
<1>1. u \in Tree /\ dataSources \in [Sources -> Roots \union {None}] /\ PutIn(tree, u, on, at, r)
  BY DEF SourcesOK
<1> HIDE DEF u
<1>2. /\ OpenNodes(tree, dataSources) \subseteq OpenNodes(u, dataSources)
      /\ on \subseteq OpenNodes(u, dataSources)
      /\ \A m \in Nodes : \A q \in Roots :
             Holds(u, u.up[m], q, Nodes) => Holds(tree, tree.up[m], q, Nodes) \/ q \in Open(dataSources)
  BY <1>1, PutInIs
<1> QED
  BY <1>2 DEF u, Found, OwnersStay

\* Nor does anything change of that when nothing is put in or taken out.
LEMMA SameUps ==
    ASSUME SourcesOK, UNCHANGED dataSources, tree \in Tree, tree' \in Tree,
           \A n \in Nodes : tree'.up[n] = tree.up[n]
    PROVE  Found' = Found /\ OwnersStay
<1> DEFINE u == tree'
<1>1. u \in Tree /\ dataSources \in [Sources -> Roots \union {None}]
  BY DEF SourcesOK
<1>2. \A x, q : Holds(u, x, q, Nodes) <=> Holds(tree, x, q, Nodes)
  BY DEF Holds
<1> HIDE DEF u
<1>3. \A n \in Nodes : n \in OpenNodes(u, dataSources) <=> n \in OpenNodes(tree, dataSources)
  BY <1>1, <1>2, OpenIs DEF u
<1>4. OpenNodes(u, dataSources) = OpenNodes(tree, dataSources)
  BY <1>3 DEF OpenNodes
<1> QED
  BY <1>2, <1>4 DEF u, Found, OwnersStay

\* An unused node, put in.
LEMMA UnusedPutIn ==
    ASSUME TreesOK, NEW n \in Unused, NEW a \in Names, NEW r \in Roots, NEW p, Holds(tree, p, r, Nodes),
           NEW t, t = Attached(Named(tree, {n}, a), {n}, p)
    PROVE  t \in Tree /\ PutIn(tree, t, {n}, p, r)
<1>1. n \in Nodes /\ tree.up[n] = None /\ p \in Nodes \union Roots
  BY UnusedIs DEF TreesOK, Holds
<1>2. t \in Tree /\ \A m \in Nodes : t.up[m] = IF m = n THEN p ELSE tree.up[m]
  <2> DEFINE u == Attached(Named(tree, {n}, a), {n}, p)
             Is(v) == v \in Tree /\ \A m \in Nodes : v.up[m] = IF m = n THEN p ELSE tree.up[m]
  <2>1. p \in Nodes \union Roots
    BY <1>1
  <2>2. Is(u)
    BY ZenonT(40), <2>1, Grown
  <2>3. t = u
    OBVIOUS
  <2> HIDE DEF u
  <2> QED
    BY <2>2, <2>3
<1> QED
  BY <1>1, <1>2 DEF PutIn

\* An entry or a child added.
LEMMA AddGoes ==
    ASSUME Whole, NEW r \in Editable, r \in Open(dataSources), NEW p, Holds(tree, p, r, Nodes),
           NEW n \in Unused, NEW a \in Names, NEW follow \in BOOLEAN,
           Add(r, p, Attached(Named(tree, {n}, a), {n}, p), Adding({n}, p, follow)),
           NEW es, es \in {{n}, entries}, Selects(context, es, preview)
    PROVE  Goes
<1> DEFINE s0 == Label[r]
           c == Adding({n}, p, follow)
           t == Attached(Named(tree, {n}, a), {n}, p)
<1>1. /\ TreesOK /\ SourcesOK /\ Selections /\ HistoriesOK /\ ClosedOK /\ ViewOK /\ tree \in Tree
      /\ entries \subseteq Found /\ None \notin Nodes \union Roots
  BY WholeIs
<1>2. s0 \in Sources /\ dataSources[s0] = r /\ r \in Roots
  BY <1>1, OpenSource
<1>3. tree' = t /\ pushExecuted(r, c) /\ UNCHANGED dataSources
  BY DEF Add, FiledUnder
<1>4. n \in Nodes /\ p \in Nodes \union Roots
  BY <1>1, <1>2, UnusedIs DEF Holds
<1>5. c \in Step /\ c.op = "add" /\ c.on = {n} /\ c.at = p
  BY <1>4 DEF Adding, Step
<1> HIDE DEF c
<1>6. Others(s0) /\ undo'[s0] = Append(undo[s0], c) /\ redo'[s0] = <<>>
  BY <1>1, <1>3, PushedIs
<1>7. t \in Tree /\ PutIn(tree, t, {n}, p, r)
  BY <1>1, <1>2, UnusedPutIn
<1>8. ASSUME NEW H, Told(H) PROVE Carries(H)
  <2>1. Homed(tree, H)
    BY <1>8 DEF Told
  <2> HIDE DEF s0
  <2> QED
    BY <1>1, <1>2, <1>3, <1>5, <1>6, <2>1, GrowingCarries
<1> HIDE DEF t, s0
<1>9. Found \subseteq Found' /\ {n} \subseteq Found' /\ OwnersStay
  BY <1>1, <1>3, <1>7, PutInView
<1>10. es \subseteq Found'
  BY <1>1, <1>9
<1>11. ViewOK' /\ LetsGo
  BY <1>1, <1>3, <1>9, <1>10, ViewStays
<1>12. ClosedOK'
  BY <1>1, <1>2, <1>6, ClosedStays
<1> QED
  BY <1>8, <1>11, <1>12 DEF Goes

LEMMA AddEntryGoes ==
    ASSUME Whole, addEntry
    PROVE  Goes
<1> DEFINE r == editableOwnerOf(context)
<1>1. r # None
  BY DEF addEntry
<1>2. r \in Editable /\ r \in Open(dataSources)
  BY <1>1, OpenOwner
<1>3. PICK n \in Unused, a \in FreeNames(r) :
          /\ Add(r, r, Attached(Named(tree, {n}, a), {n}, r), Adding({n}, r, TRUE))
          /\ Selects(context, {n}, preview)
  BY DEF addEntry
<1>4. a \in Names /\ Holds(tree, r, r, Nodes)
  BY DEF FreeNames, Holds
<1> HIDE DEF r
<1> QED
  BY <1>2, <1>3, <1>4, AddGoes

LEMMA AddChildGoes ==
    ASSUME Whole, NEW p \in Found, NEW follow \in BOOLEAN, addChildOfNode(p, follow)
    PROVE  Goes
<1> DEFINE r == editableOwnerOf(p)
<1>1. IsEntry(tree, p) /\ r # None /\ UNCHANGED selection /\ p \in Nodes
  BY WholeIs DEF addChildOfNode
<1>2. r \in Editable /\ r \in Roots /\ r \in Open(dataSources) /\ r = ownerSourceOf(tree, p)
  BY <1>1, OpenOwner
<1>3. PICK n \in Unused, a \in FreeNames(p) :
          Add(r, p, Attached(Named(tree, {n}, a), {n}, p), Adding({n}, p, follow))
  BY DEF addChildOfNode
<1>4. a \in Names
  BY DEF FreeNames
<1>5. tree.up[p] = r
  BY <1>1, <1>2, SessionAssumption DEF IsEntry, ownerSourceOf, Up
<1>6. Holds(tree, p, r, Nodes)
  BY <1>1, <1>5 DEF Holds
<1>7. Selects(context, entries, preview)
  BY <1>1 DEF selection, Selects
<1> HIDE DEF r
<1> QED
  BY <1>2, <1>3, <1>4, <1>6, <1>7, AddGoes

\* What the index answers with is in the open files.
LEMMA IndexedFound ==
    ASSUME Whole, NEW i \in DOMAIN nodeIndex, nodeIndex[i] # None
    PROVE  nodeIndex[i] \in Found
<1>1. i \in Ids
  BY WholeIs DEF IndexTyped
<1>2. i \in IdsOf(tree, Found)
  BY <1>1, WholeIs DEF IndexOK, IndexOf
<1>3. PICK n \in Found : id(tree, n) = i
  BY <1>2 DEF IdsOf
<1> QED
  BY <1>3, WholeIs DEF IndexOK, IndexOf

\* Removals: what is removed is of an open file.
LEMMA DeleteGoes ==
    ASSUME Whole, NEW ns \in SUBSET Found, NEW follow \in BOOLEAN, Delete(ns, editableOwnerOfAll(ns), follow)
    PROVE  Goes
<1>1. /\ TreesOK /\ SourcesOK /\ Selections /\ HistoriesOK /\ ClosedOK /\ ViewOK /\ tree \in Tree
      /\ Found \subseteq Nodes /\ None \notin Nodes \union Roots
  BY WholeIs
<1>2. PICK r, gone, at : DeleteOf(ns, follow, r, gone, at)
  <2>1. ns \in SUBSET Nodes
    BY <1>1
  <2> QED
    BY <2>1, DeleteIs
<1> DEFINE removed == UNION {Subtree(tree, n) : n \in gone}
           c == Deleting(gone, at, follow)
           t == Attached(tree, gone, None)
           s0 == Label[r]
<1>3. /\ r \in Editable /\ gone # {} /\ gone \subseteq Found /\ gone \subseteq Nodes
      /\ \A n \in gone : tree.up[n] = at /\ editableOwnerOf(n) = r
      /\ tree' = t /\ pushExecuted(r, c)
      /\ selectAfterRemoval(follow, removed, NextSelected(at)) /\ UNCHANGED dataSources
  BY <1>1, <1>2 DEF DeleteOf
<1>4. /\ r \in Roots /\ r \in Open(dataSources) /\ s0 \in Sources /\ dataSources[s0] = r
      /\ Holds(tree, at, r, Nodes)
  <2>1. PICK n \in gone : TRUE
    BY <1>3
  <2>2. n \in Found /\ n \in Nodes /\ editableOwnerOf(n) = r /\ r # None /\ tree.up[n] = at
    BY <1>3, <2>1, EditableSource, SessionAssumption
  <2> QED
    BY <2>2, OpenOwner
<1>5. at \in Nodes \union Roots
  BY <1>4 DEF Holds
<1>6. c \in Step /\ c.op = "delete" /\ c.on = gone /\ c.at = at /\ c.follow = follow
  BY <1>3, <1>5 DEF Deleting, Step
<1>7. /\ t \in Tree /\ t.name = tree.name
      /\ \A n \in Nodes : t.up[n] = IF n \in gone THEN None ELSE tree.up[n]
  BY <1>1, AttachedTree
<1> HIDE DEF c, t, removed
<1>8. Others(s0) /\ undo'[s0] = Append(undo[s0], c) /\ redo'[s0] = <<>>
  BY <1>1, <1>3, PushedIs
<1> HIDE DEF s0
<1>9. Takes(tree, tree', c, r, Nodes)
  BY <1>3, <1>4, <1>6, <1>7 DEF Takes
<1>10. ASSUME NEW H, Told(H) PROVE Carries(H)
  <2>1. Homed(tree, H)
    BY <1>10 DEF Told
  <2>2. c.op # "add" /\ tree' \in Tree
    BY <1>3, <1>6, <1>7
  <2> QED
    BY <1>1, <1>4, <1>6, <1>8, <1>9, <2>1, <2>2, MakingCarries
<1>11. PutIn(tree', tree, gone, at, r)
  <2>1. PutIn(tree', tree, c.on, c.at, r)
    BY <1>4, <1>6, <1>9, TakesIs
  <2> QED
    BY <1>6, <2>1
<1>12. follow => Followed
  <2>1. undo[s0] \in Seq(Step)
    BY <1>1, <1>4, HistorySeqs
  <2> QED
    BY <1>4, <1>6, <1>8, <2>1, FollowedBy
<1>13. ViewOK' /\ LetsGo
  <2>1. tree' \in Tree
    BY <1>3, <1>7
  <2>2. selectAfterRemoval(follow, UNION {Subtree(tree, n) : n \in gone}, NextSelected(at))
    BY <1>3 DEF removed
  <2> QED
    BY <1>1, <1>3, <1>4, <1>11, <1>12, <2>1, <2>2, ViewAfterRemoval
<1>14. ClosedOK'
  BY <1>1, <1>4, <1>8, ClosedStays
<1> QED
  BY <1>10, <1>13, <1>14 DEF Goes

\* A rename, in the file of what is selected.
LEMMA EditNameGoes ==
    ASSUME Whole, NEW n \in Nodes, NEW a \in Names, editName(n, a)
    PROVE  Goes
<1> DEFINE r == editableOwnerOf(n)
           c == Renaming(n, a)
           s0 == Label[r]
<1>1. /\ TreesOK /\ SourcesOK /\ Selections /\ HistoriesOK /\ ClosedOK /\ ViewOK /\ tree \in Tree
      /\ Found \subseteq Nodes /\ entries \subseteq Found /\ None \notin Nodes \union Roots
  BY WholeIs
<1>2. /\ r # None /\ tree' = Named(tree, {n}, a) /\ pushExecuted(r, c)
      /\ UNCHANGED <<dataSources, selection>> /\ n \in ActiveNodes
  BY DEF editName, FiledUnder
<1>3. n = context \/ n \in Found
  BY <1>1, <1>2 DEF ActiveNodes
<1>4. /\ r \in Editable /\ r \in Roots /\ r \in Open(dataSources) /\ s0 \in Sources /\ dataSources[s0] = r
      /\ Holds(tree, tree.up[n], r, Nodes)
  BY <1>2, <1>3, OpenOwner
<1>5. tree.name[n] \in Names
  BY <1>1 DEF Tree
<1>6. c \in Step /\ c.op = "rename" /\ c.on = {n} /\ c.from = tree.name[n] /\ c.to = a
  BY <1>5 DEF Renaming, Step
<1> HIDE DEF c, r
<1>7. /\ tree' \in Tree /\ tree'.up = tree.up
      /\ \A m \in Nodes : tree'.name[m] = IF m \in {n} THEN a ELSE tree.name[m]
  <2> DEFINE t == Named(tree, {n}, a)
  <2>1. /\ t \in Tree /\ t.up = tree.up
        /\ \A m \in Nodes : t.name[m] = IF m \in {n} THEN a ELSE tree.name[m]
    BY <1>1, NamedTree
  <2> HIDE DEF t
  <2> QED
    BY <1>2, <2>1 DEF t
<1>8. Others(s0) /\ undo'[s0] = Append(undo[s0], c) /\ redo'[s0] = <<>>
  BY <1>1, <1>2, <1>4, PushedIs
<1> HIDE DEF s0
<1>9. Takes(tree, tree', c, r, Nodes)
  BY <1>4, <1>5, <1>6, <1>7 DEF Takes
<1>10. ASSUME NEW H, Told(H) PROVE Carries(H)
  <2>1. Homed(tree, H)
    BY <1>10 DEF Told
  <2>2. c.op # "add"
    BY <1>6
  <2> QED
    BY <1>1, <1>4, <1>6, <1>7, <1>8, <1>9, <2>1, <2>2, MakingCarries
<1>11. ViewOK' /\ LetsGo
  <2>1. Found' = Found /\ OwnersStay
    BY <1>1, <1>2, <1>7, SameUps
  <2>2. Selects(context, entries, preview)
    BY <1>2 DEF selection, Selects
  <2>3. entries \subseteq Found' /\ Found \subseteq Found' /\ UNCHANGED dataSources
    BY <1>1, <1>2, <2>1
  <2> QED
    BY <1>1, <2>1, <2>2, <2>3, ViewStays
<1>12. ClosedOK'
  BY <1>1, <1>4, <1>8, ClosedStays
<1> QED
  BY <1>10, <1>11, <1>12 DEF Goes

\* The selection after a step is made again, or undone.
LEMMA WalkView ==
    ASSUME Whole, UNCHANGED dataSources, tree' \in Tree, NEW r \in Open(dataSources), NEW c \in Step,
           NEW adds \in BOOLEAN, Reselected(c, adds), c.follow => Followed,
           c.op = "rename" => \A n \in Nodes : tree'.up[n] = tree.up[n],
           c.op # "rename" /\ adds => PutIn(tree, tree', c.on, c.at, r),
           c.op # "rename" /\ ~adds => PutIn(tree', tree, c.on, c.at, r)
    PROVE  ViewOK' /\ LetsGo
<1>1. /\ SourcesOK /\ Selections /\ ViewOK /\ tree \in Tree /\ entries \subseteq Found
  BY WholeIs
<1>2. CASE c.op = "rename"
  <2>1. Found' = Found /\ OwnersStay
    BY <1>1, <1>2, SameUps
  <2>2. Selects(context, entries, preview)
    BY <1>2 DEF Reselected, selection, Selects
  <2>3. entries \subseteq Found' /\ Found \subseteq Found'
    BY <1>1, <2>1
  <2> QED
    BY <1>1, <2>1, <2>2, <2>3, ViewStays
<1>3. CASE c.op # "rename" /\ adds
  <2>1. Found \subseteq Found' /\ c.on \subseteq Found' /\ OwnersStay
    BY <1>1, <1>3, PutInView
  <2>2. PICK es : es \in {c.on, entries} /\ Selects(context, es, preview)
    BY <1>3 DEF Reselected, selection, Selects
  <2>3. es \subseteq Found'
    BY <1>1, <2>1, <2>2
  <2> QED
    BY <1>1, <2>1, <2>2, <2>3, ViewStays
<1>4. CASE c.op # "rename" /\ ~adds
  <2>1. selectAfterRemoval(c.follow, UNION {Subtree(tree, n) : n \in c.on}, NextSelected(c.at))
    BY <1>4 DEF Reselected
  <2>2. c.follow \in BOOLEAN
    BY DEF Step
  <2> QED
    BY <1>1, <1>4, <2>1, <2>2, ViewAfterRemoval
<1> QED
  BY <1>2, <1>3, <1>4

\* What undoing, or redoing, a step on a trail takes the tree through.
LEMMA UndoingTakes ==
    ASSUME NEW t \in Tree, NEW u \in Seq(Step), u # <<>>, NEW v \in Seq(Step), NEW r, NEW N \in SUBSET Nodes,
           NEW T, NEW C, Past(t, u, v, r, N, T, C)
    PROVE  /\ Last(u) \in Step /\ Undone(t, Last(u)) \in Tree
           /\ Takes(Undone(t, Last(u)), t, Last(u), r, Nodes)
<1> DEFINE c == Last(u)
           t2 == Undone(t, c)
<1>1. c = Last(u) /\ t2 = Undone(t, c) /\ c \in Step
  BY StackPop
<1> HIDE DEF c, t2
<1>4. /\ t \in Tree /\ u \in Seq(Step) /\ v \in Seq(Step) /\ N \in SUBSET Nodes /\ u # <<>>
      /\ c = Last(u) /\ t2 = Undone(t, c)
  BY <1>1
<1>5. Past(t, u, v, r, N, T, C)
  OBVIOUS
<1>2. Takes(t2, t, c, r, N)
  BY <1>4, <1>5, PastUndoes
<1>7. Alike(t, t2, Nodes \ N)
  BY <1>4, <1>5, PastUndoes
<1>6. t2 \in Tree
  BY <1>4, <1>5, PastUndoes
<1>3. Takes(t2, t, c, r, Nodes)
  <2>1. \A n \in Nodes \ N : t2.up[n] = t.up[n] /\ t2.name[n] = t.name[n]
    BY <1>7 DEF Alike
  <2>2. \A n \in Nodes \ N : t.up[n] = t2.up[n] /\ t.name[n] = t2.name[n]
    BY <2>1
  <2> QED
    BY <1>2, <2>1, <2>2, TakesWide
<1> QED
  BY <1>1, <1>6, <1>3

LEMMA RedoingTakes ==
    ASSUME NEW t \in Tree, NEW u \in Seq(Step), NEW v \in Seq(Step), v # <<>>, NEW r, NEW N \in SUBSET Nodes,
           NEW T, NEW C, Past(t, u, v, r, N, T, C)
    PROVE  /\ Last(v) \in Step /\ Done(t, Last(v)) \in Tree
           /\ Takes(t, Done(t, Last(v)), Last(v), r, Nodes)
<1> DEFINE c == Last(v)
           t2 == Done(t, c)
<1>1. c = Last(v) /\ t2 = Done(t, c) /\ c \in Step
  BY StackPop
<1> HIDE DEF c, t2
<1>4. /\ t \in Tree /\ u \in Seq(Step) /\ v \in Seq(Step) /\ N \in SUBSET Nodes /\ v # <<>>
      /\ c = Last(v) /\ t2 = Done(t, c)
  BY <1>1
<1>5. Past(t, u, v, r, N, T, C)
  OBVIOUS
<1>2. Takes(t, t2, c, r, N)
  BY <1>4, <1>5, PastRedoes
<1>7. Alike(t, t2, Nodes \ N)
  BY <1>4, <1>5, PastRedoes
<1>6. t2 \in Tree
  BY <1>4, <1>5, PastRedoes
<1>3. Takes(t, t2, c, r, Nodes)
  <2>1. \A n \in Nodes \ N : t2.up[n] = t.up[n] /\ t2.name[n] = t.name[n]
    BY <1>7 DEF Alike
  <2>2. \A n \in Nodes \ N : t.up[n] = t2.up[n] /\ t.name[n] = t2.name[n]
    BY <2>1
  <2> QED
    BY <1>2, <2>1, <2>2, TakesWide
<1> QED
  BY <1>1, <1>6, <1>3

LEMMA SomePast ==
    ASSUME Whole, NEW s0 \in Sources, NEW r, dataSources[s0] = r
    PROVE  \E N, T, C : N \in SUBSET Nodes /\ Past(tree, undo[s0], redo[s0], r, N, T, C)
<1>1. PICK H : \A s \in Sources : \E T, C : PastOf(s, H, T, C)
  BY DEF Whole, TrailsOK
<1>2. PICK T, C : PastOf(s0, H, T, C)
  BY <1>1
<1>3. Of(H, r) \in SUBSET Nodes
  BY DEF Of
<1> QED
  BY <1>2, <1>3 DEF PastOf

LEMMA UndoGoes ==
    ASSUME Whole, undoAction
    PROVE  Goes
<1> DEFINE r == editableOwnerOf(context)
           s0 == Label[r]
           c == Last(undo[s0])
           adds == c.op = "delete"
<1>1. /\ r # None /\ undo[s0] # <<>> /\ tree' = Undone(tree, c)
      /\ undo' = [undo EXCEPT ![s0] = Front(undo[s0])]
      /\ redo' = [redo EXCEPT ![s0] = Append(redo[s0], c)]
      /\ Reselected(c, adds) /\ UNCHANGED dataSources
  BY DEF undoAction
<1>2. /\ TreesOK /\ SourcesOK /\ HistoriesOK /\ ClosedOK /\ tree \in Tree /\ None \notin Nodes \union Roots
  BY WholeIs
<1>3. r \in Roots /\ r \in Open(dataSources) /\ s0 \in Sources /\ dataSources[s0] = r
  BY <1>1, OpenOwner
<1> HIDE DEF r, s0
<1>4. c \in Step /\ tree' \in Tree /\ Takes(tree', tree, c, r, Nodes)
  <2> DEFINE t == Undone(tree, c)
  <2>1. undo[s0] # <<>>
    BY <1>1
  <2>2. undo[s0] \in Seq(Step) /\ redo[s0] \in Seq(Step)
    BY <1>2, <1>3, HistorySeqs
  <2>3. PICK N, T, C : N \in SUBSET Nodes /\ Past(tree, undo[s0], redo[s0], r, N, T, C)
    BY <1>3, SomePast
  <2>4. c \in Step /\ t \in Tree /\ Takes(t, tree, c, r, Nodes)
    BY <1>2, <2>1, <2>2, <2>3, UndoingTakes
  <2> QED
    BY <1>1, <2>4
<1>5. /\ Others(s0) /\ undo'[s0] = Front(undo[s0]) /\ redo'[s0] = Append(redo[s0], Last(undo[s0]))
      /\ tree' = Undone(tree, Last(undo[s0]))
  <2>1. DOMAIN undo = Sources /\ DOMAIN redo = Sources
    BY <1>2 DEF HistoriesOK, Histories
  <2> QED
    BY <1>1, <1>3, <2>1 DEF Others
<1> HIDE DEF c
<1>6. /\ adds \in BOOLEAN
      /\ c.op = "rename" => \A n \in Nodes : tree'.up[n] = tree.up[n]
      /\ c.op # "rename" /\ adds => PutIn(tree, tree', c.on, c.at, r)
      /\ c.op # "rename" /\ ~adds => PutIn(tree', tree, c.on, c.at, r)
  <2>1. /\ c.op = "add" => PutIn(tree', tree, c.on, c.at, r)
        /\ c.op = "delete" => PutIn(tree, tree', c.on, c.at, r)
        /\ c.op = "rename" => \A n \in Nodes : tree.up[n] = tree'.up[n]
    BY <1>3, <1>4, TakesIs
  <2>2. c.op \in {"add", "delete", "rename"}
    BY <1>4 DEF Step
  <2> QED
    BY <2>1, <2>2
<1>7. c.follow => Followed
  <2>1. redo[s0] \in Seq(Step) /\ redo'[s0] = Append(redo[s0], c)
    BY <1>2, <1>3, <1>5, HistorySeqs DEF c
  <2> QED
    BY <1>3, <1>4, <2>1, FollowedBy
<1>8. ViewOK' /\ LetsGo
  BY <1>1, <1>3, <1>4, <1>6, <1>7, WalkView
<1>9. ClosedOK'
  BY <1>2, <1>3, <1>5, ClosedStays
<1>10. ASSUME NEW H, Told(H) PROVE Carries(H)
  <2>1. Homed(tree, H)
    BY <1>10 DEF Told
  <2>2. PICK T, C : PastOf(s0, H, T, C)
    BY <1>3, <1>10 DEF Told
  <2>3. undo[s0] # <<>>
    BY <1>1
  <2> QED
    BY <1>2, <1>3, <1>5, <2>1, <2>2, <2>3, WalkingCarries
<1> QED
  BY <1>8, <1>9, <1>10 DEF Goes

LEMMA RedoGoes ==
    ASSUME Whole, redoAction
    PROVE  Goes
<1> DEFINE r == editableOwnerOf(context)
           s0 == Label[r]
           c == Last(redo[s0])
           adds == c.op = "add"
<1>1. /\ r # None /\ redo[s0] # <<>> /\ tree' = Done(tree, c)
      /\ redo' = [redo EXCEPT ![s0] = Front(redo[s0])]
      /\ undo' = [undo EXCEPT ![s0] = Append(undo[s0], c)]
      /\ Reselected(c, adds) /\ UNCHANGED dataSources
  BY DEF redoAction
<1>2. /\ TreesOK /\ SourcesOK /\ HistoriesOK /\ ClosedOK /\ tree \in Tree /\ None \notin Nodes \union Roots
  BY WholeIs
<1>3. r \in Roots /\ r \in Open(dataSources) /\ s0 \in Sources /\ dataSources[s0] = r
  BY <1>1, OpenOwner
<1> HIDE DEF r, s0
<1>4. c \in Step /\ tree' \in Tree /\ Takes(tree, tree', c, r, Nodes)
  <2> DEFINE t == Done(tree, c)
  <2>1. redo[s0] # <<>>
    BY <1>1
  <2>2. undo[s0] \in Seq(Step) /\ redo[s0] \in Seq(Step)
    BY <1>2, <1>3, HistorySeqs
  <2>3. PICK N, T, C : N \in SUBSET Nodes /\ Past(tree, undo[s0], redo[s0], r, N, T, C)
    BY <1>3, SomePast
  <2>4. c \in Step /\ t \in Tree /\ Takes(tree, t, c, r, Nodes)
    BY <1>2, <2>1, <2>2, <2>3, RedoingTakes
  <2> QED
    BY <1>1, <2>4
<1>5. /\ Others(s0) /\ redo'[s0] = Front(redo[s0]) /\ undo'[s0] = Append(undo[s0], Last(redo[s0]))
      /\ tree' = Done(tree, Last(redo[s0]))
  <2>1. DOMAIN undo = Sources /\ DOMAIN redo = Sources
    BY <1>2 DEF HistoriesOK, Histories
  <2> QED
    BY <1>1, <1>3, <2>1 DEF Others
<1> HIDE DEF c
<1>6. /\ adds \in BOOLEAN
      /\ c.op = "rename" => \A n \in Nodes : tree'.up[n] = tree.up[n]
      /\ c.op # "rename" /\ adds => PutIn(tree, tree', c.on, c.at, r)
      /\ c.op # "rename" /\ ~adds => PutIn(tree', tree, c.on, c.at, r)
  <2>1. /\ c.op = "add" => PutIn(tree, tree', c.on, c.at, r)
        /\ c.op = "delete" => PutIn(tree', tree, c.on, c.at, r)
        /\ c.op = "rename" => \A n \in Nodes : tree'.up[n] = tree.up[n]
    BY <1>3, <1>4, TakesIs
  <2>2. c.op \in {"add", "delete", "rename"}
    BY <1>4 DEF Step
  <2> QED
    BY <2>1, <2>2
<1>7. c.follow => Followed
  <2>1. undo[s0] \in Seq(Step) /\ undo'[s0] = Append(undo[s0], c)
    BY <1>2, <1>3, <1>5, HistorySeqs DEF c
  <2> QED
    BY <1>3, <1>4, <2>1, FollowedBy
<1>8. ViewOK' /\ LetsGo
  BY <1>1, <1>3, <1>4, <1>6, <1>7, WalkView
<1>9. ClosedOK'
  BY <1>2, <1>3, <1>5, ClosedStays
<1>10. ASSUME NEW H, Told(H) PROVE Carries(H)
  <2>1. Homed(tree, H)
    BY <1>10 DEF Told
  <2>2. PICK T, C : PastOf(s0, H, T, C)
    BY <1>3, <1>10 DEF Told
  <2>3. redo[s0] # <<>>
    BY <1>1
  <2> QED
    BY <1>2, <1>3, <1>5, <2>1, <2>2, <2>3, WalkingCarries
<1> QED
  BY <1>8, <1>9, <1>10 DEF Goes

\* A host's edit: the history of its file is empty, and stays so.
LEMMA HostIs ==
    ASSUME Whole, NEW r, HostOwned(r), NEW t, NEW ids, NEW ns, NEW leaving, HostEdit(t, ids, ns, leaving)
    PROVE  /\ r \in Editable /\ r \in Roots /\ r \in Open(dataSources)
           /\ Label[r] \in Sources /\ dataSources[Label[r]] = r
           /\ tree' = t /\ UNCHANGED dataSources /\ Others(Label[r])
           /\ undo[Label[r]] = <<>> /\ undo'[Label[r]] = <<>> /\ redo'[Label[r]] = <<>>
           /\ Selects(IF context \in leaving THEN None ELSE context, entries \ leaving,
                      IF preview \in leaving THEN None ELSE preview)
<1>1. r \in Open(dataSources) /\ r \in Editable /\ undo[Label[r]] = <<>> /\ redo[Label[r]] = <<>>
  BY SessionAssumption DEF HostOwned
<1>2. r \in Roots /\ Label[r] \in Sources /\ dataSources[Label[r]] = r
  BY <1>1, OpenSource, WholeIs
<1>3. tree' = t /\ UNCHANGED <<dataSources, undo, redo>> /\ releaseSubtreeSelection(leaving)
  BY DEF HostEdit, history
<1> QED
  BY <1>1, <1>2, <1>3 DEF Others, releaseSubtreeSelection

\* What is left selected is in the open files.
LEMMA HostView ==
    ASSUME Whole, UNCHANGED dataSources, OwnersStay, NEW leaving \in SUBSET Nodes, Found \ leaving \subseteq Found',
           Selects(IF context \in leaving THEN None ELSE context, entries \ leaving,
                   IF preview \in leaving THEN None ELSE preview)
    PROVE  ViewOK' /\ LetsGo
<1>1. ViewOK /\ Selections /\ entries \ leaving \subseteq Found'
  BY WholeIs
<1> QED
  BY <1>1, ViewReleased

\* A name changed under an entry, or what is under it taken out.
LEMMA HostChangeGoes ==
    ASSUME Whole, NEW r, HostOwned(r), NEW n \in Nodes, Holds(tree, tree.up[n], r, Nodes),
           NEW t, \/ \E a \in Names : t = Named(tree, {n}, a)
                  \/ t = Attached(tree, {n}, None),
           NEW ids, NEW ns, NEW leaving \in SUBSET Nodes, t.up = tree.up \/ Subtree(tree, n) \subseteq leaving,
           HostEdit(t, ids, ns, leaving)
    PROVE  Goes
<1> DEFINE s0 == Label[r]
<1>1. /\ TreesOK /\ SourcesOK /\ Selections /\ ClosedOK /\ ViewOK /\ tree \in Tree
      /\ Found \subseteq Nodes /\ Nodes \intersect Roots = {} /\ None \notin Nodes \union Roots
  BY WholeIs
<1>2. /\ r \in Editable /\ r \in Roots /\ r \in Open(dataSources) /\ s0 \in Sources /\ dataSources[s0] = r
      /\ tree' = t /\ UNCHANGED dataSources /\ Others(s0)
      /\ undo[s0] = <<>> /\ undo'[s0] = <<>> /\ redo'[s0] = <<>>
      /\ Selects(IF context \in leaving THEN None ELSE context, entries \ leaving,
                 IF preview \in leaving THEN None ELSE preview)
  BY HostIs
<1> HIDE DEF s0
<1>3. /\ t \in Tree
      /\ \A m \in Nodes : m # n => t.up[m] = tree.up[m] /\ t.name[m] = tree.name[m]
      /\ t.up = tree.up \/ (t.up[n] = None /\ tree.up[n] # None)
      /\ t.up[n] \in {tree.up[n], None}
  <2>1. ASSUME NEW a \in Names, t = Named(tree, {n}, a)
        PROVE  /\ t \in Tree /\ t.up = tree.up
               /\ \A m \in Nodes : m # n => t.name[m] = tree.name[m]
    BY <1>1, <2>1, NamedTree
  <2>2. ASSUME t = Attached(tree, {n}, None)
        PROVE  /\ t \in Tree /\ t.name = tree.name
               /\ \A m \in Nodes : t.up[m] = IF m = n THEN None ELSE tree.up[m]
    <3>1. None \in Nodes \union Roots \union {None}
      OBVIOUS
    <3> QED
      BY <1>1, <2>2, <3>1, AttachedTree
  <2>3. tree.up[n] # None
    BY <1>1, <1>2 DEF Holds
  <2> QED
    BY <2>1, <2>2, <2>3
<1>4. ASSUME NEW H, Told(H) PROVE Carries(H)
  <2>1. Homed(tree, H)
    BY <1>4 DEF Told
  <2>2. n \in Of(H, r)
    BY <1>1, <1>2, <2>1, AtHome
  <2>3. \A m \in Nodes \ Of(H, r) : tree'.up[m] = tree.up[m] /\ tree'.name[m] = tree.name[m]
    BY <1>2, <1>3, <2>2
  <2>4. tree' \in Tree /\ \A m \in Nodes : tree'.up[m] \in {tree.up[m], None}
    BY <1>2, <1>3
  <2> QED
    BY <1>1, <1>2, <2>1, <2>3, <2>4, HostCarries
<1>5. ClosedOK'
  BY <1>1, <1>2, ClosedStays
<1>6. ViewOK' /\ LetsGo
  <2>1. tree' \in Tree
    BY <1>2, <1>3
  <2>2. CASE t.up = tree.up
    <3>1. \A m \in Nodes : tree'.up[m] = tree.up[m]
      BY <1>2, <2>2
    <3>2. Found' = Found /\ OwnersStay
      BY <1>1, <1>2, <2>1, <3>1, SameUps
    <3>3. Found \ leaving \subseteq Found'
      BY <3>2
    <3> QED
      BY <1>2, <3>2, <3>3, HostView
  <2>3. CASE t.up # tree.up
    <3> DEFINE at == tree.up[n]
               u == tree'
    <3>1. t.up[n] = None /\ at # n
      BY <1>1, <1>2, <1>3, <2>3 DEF Holds
    <3>2. PutIn(u, tree, {n}, at, r)
      <4>1. Holds(t, at, r, Nodes)
        BY <1>3, <3>1 DEF Holds
      <4>2. \A m \in Nodes \ {n} : tree.up[m] = t.up[m]
        BY <1>3
      <4> QED
        BY <1>2, <3>1, <4>1, <4>2 DEF PutIn
    <3>3. u \in Tree /\ dataSources \in [Sources -> Roots \union {None}]
      BY <1>1, <2>1 DEF SourcesOK
    <3> HIDE DEF u, at
    <3>4. /\ OpenNodes(tree, dataSources) \ UNION {Subtree(tree, m) : m \in {n}} \subseteq OpenNodes(u, dataSources)
          /\ \A m \in Nodes : \A q \in Roots :
                 Holds(u, u.up[m], q, Nodes) => Holds(tree, tree.up[m], q, Nodes)
      BY <1>1, <1>2, <3>2, <3>3, PutInIs
    <3>5. OwnersStay
      BY <3>4 DEF OwnersStay, u
    <3>6. Found \ leaving \subseteq Found'
      <4>1. UNION {Subtree(tree, m) : m \in {n}} \subseteq leaving
        BY <2>3
      <4> QED
        BY <1>2, <3>4, <4>1 DEF Found, u
    <3> QED
      BY <1>2, <3>5, <3>6, HostView
  <2> QED
    BY <2>2, <2>3
<1> QED
  BY <1>4, <1>5, <1>6 DEF Goes

\* A node put in.
LEMMA HostAdditionGoes ==
    ASSUME Whole, NEW r, HostOwned(r), NEW p, Holds(tree, p, r, Nodes), NEW n \in Unused, NEW a \in Names,
           NEW t, t = Attached(Named(tree, {n}, a), {n}, p),
           NEW ids, NEW ns, NEW leaving \in SUBSET Nodes, HostEdit(t, ids, ns, leaving)
    PROVE  Goes
<1> DEFINE s0 == Label[r]
           c == Adding({n}, p, FALSE)
<1>1. /\ TreesOK /\ SourcesOK /\ ClosedOK /\ tree \in Tree /\ None \notin Nodes \union Roots
  BY WholeIs
<1>2. /\ r \in Roots /\ r \in Open(dataSources) /\ s0 \in Sources /\ dataSources[s0] = r
      /\ tree' = t /\ UNCHANGED dataSources /\ Others(s0)
      /\ undo[s0] = <<>> /\ undo'[s0] = <<>> /\ redo'[s0] = <<>>
      /\ Selects(IF context \in leaving THEN None ELSE context, entries \ leaving,
                 IF preview \in leaving THEN None ELSE preview)
  BY HostIs
<1>3. n \in Nodes /\ p \in Nodes \union Roots
  BY <1>1, <1>2, UnusedIs DEF Holds
<1>4. c \in Step /\ c.op = "add" /\ c.on = {n} /\ c.at = p
  BY <1>3 DEF Adding, Step
<1> HIDE DEF c, s0
<1>5. ASSUME NEW H, Told(H) PROVE Carries(H)
  <2>1. Homed(tree, H)
    BY <1>5 DEF Told
  <2>2. tree' = Attached(Named(tree, {n}, a), {n}, p) /\ n \in Unused /\ a \in Names /\ Holds(tree, p, r, Nodes)
    BY <1>2
  <2> QED
    BY <1>1, <1>2, <1>4, <2>1, <2>2, GrowingCarries
<1>6. ClosedOK'
  BY <1>1, <1>2, ClosedStays
<1>7. t \in Tree /\ PutIn(tree, t, {n}, p, r)
  BY <1>1, <1>2, UnusedPutIn
<1>8. Found \subseteq Found' /\ OwnersStay
  BY <1>1, <1>2, <1>7, PutInView
<1>9. ViewOK' /\ LetsGo
  <2>1. Found \ leaving \subseteq Found'
    BY <1>8
  <2> QED
    BY <1>2, <1>8, <2>1, HostView
<1> QED
  BY <1>5, <1>6, <1>9 DEF Goes

\* An entry of a file a host edits, and what is under it.
LEMMA HostSubtree ==
    ASSUME Whole, NEW e \in Nodes, IsEntry(tree, e), NEW r, r = ownerSourceOf(tree, e)
    PROVE  /\ r \in Roots /\ tree.up[e] = r /\ Holds(tree, e, r, Nodes)
           /\ Subtree(tree, e) \in SUBSET Nodes /\ e \in Subtree(tree, e)
           /\ \A n \in Subtree(tree, e) : Holds(tree, tree.up[n], r, Nodes)
           /\ \A n \in Subtree(tree, e) \ {e} : Subtree(tree, n) = {n}
<1>1. /\ TreesOK /\ tree \in Tree /\ Nodes \intersect Roots = {} /\ None \notin Nodes \union Roots
  BY WholeIs
<1>2. r \in Roots /\ tree.up[e] = r
  BY <1>1 DEF IsEntry, ownerSourceOf, Up
<1>3. \A n \in Subtree(tree, e) \ {e} : tree.up[n] = e /\ n \in Nodes
  BY DEF Subtree
<1>4. \A n \in Subtree(tree, e) \ {e} : Subtree(tree, n) = {n}
  <2>1. Shallow(tree)
    BY <1>1, KeptIsShallow
  <2> SUFFICES ASSUME NEW n \in Subtree(tree, e) \ {e}, NEW m \in Nodes, tree.up[m] = n PROVE FALSE
    BY DEF Subtree
  <2> QED
    BY <1>3, <2>1 DEF Shallow
<1> QED
  BY <1>2, <1>3, <1>4 DEF Subtree, Holds

LEMMA MutateGoes ==
    ASSUME Whole, NEW e \in Nodes, mutateSubtree(e)
    PROVE  Goes
<1> DEFINE before == Subtree(tree, e)
           r == ownerSourceOf(tree, e)
           mutate(t) == HostEdit(t, IdsOf(tree, before), Subtree(t, e), before \ Subtree(t, e))
<1>1. /\ IsEntry(tree, e) /\ HostOwned(r)
      /\ \/ \E n \in before : \E a \in FreeNames(tree.up[n]) : mutate(Named(tree, {n}, a))
         \/ \E n \in before \ {e} : mutate(Attached(tree, {n}, None))
         \/ \E n \in Unused, a \in FreeNames(e) : mutate(Attached(Named(tree, {n}, a), {n}, e))
  BY DEF mutateSubtree
<1>2. /\ r \in Roots /\ tree.up[e] = r /\ Holds(tree, e, r, Nodes)
      /\ before \in SUBSET Nodes /\ e \in before
      /\ \A n \in before : Holds(tree, tree.up[n], r, Nodes)
      /\ \A n \in before \ {e} : Subtree(tree, n) = {n}
  BY <1>1, HostSubtree
<1>3. tree \in Tree /\ Nodes \intersect Roots = {} /\ None \notin Nodes \union Roots
  BY WholeIs
<1>4. ASSUME NEW n \in before, NEW a \in FreeNames(tree.up[n]), mutate(Named(tree, {n}, a))
      PROVE  Goes
  <2> DEFINE t == Named(tree, {n}, a)
             leaving == before \ Subtree(t, e)
             ids == IdsOf(tree, before)
             ns == Subtree(t, e)
  <2>1. a \in Names /\ n \in Nodes /\ leaving \in SUBSET Nodes
    BY <1>2 DEF FreeNames
  <2>2. t.up = tree.up
    BY <1>3, <2>1, NamedTree
  <2>3. HostEdit(t, ids, ns, leaving) /\ t = Named(tree, {n}, a)
    BY <1>4
  <2>4. HostOwned(r) /\ Holds(tree, tree.up[n], r, Nodes)
    BY <1>1, <1>2
  <2> HIDE DEF t, leaving, ids, ns, r
  <2> QED
    BY <2>1, <2>2, <2>3, <2>4, HostChangeGoes
<1>5. ASSUME NEW n \in before \ {e}, mutate(Attached(tree, {n}, None))
      PROVE  Goes
  <2> DEFINE t == Attached(tree, {n}, None)
             leaving == before \ Subtree(t, e)
             ids == IdsOf(tree, before)
             ns == Subtree(t, e)
  <2>1. n \in Nodes /\ leaving \in SUBSET Nodes
    BY <1>2
  <2>2. Subtree(tree, n) \subseteq leaving
    <3>1. t.up[n] = None
      <4>1. None \in Nodes \union Roots \union {None}
        OBVIOUS
      <4> QED
        BY <1>3, <2>1, <4>1, AttachedTree
    <3> HIDE DEF t
    <3>2. n \notin Subtree(t, e)
      BY <1>3, <3>1 DEF Subtree
    <3> QED
      BY <1>2, <3>2
  <2>3. HostEdit(t, ids, ns, leaving) /\ t = Attached(tree, {n}, None)
    BY <1>5
  <2>4. HostOwned(r) /\ Holds(tree, tree.up[n], r, Nodes)
    BY <1>1, <1>2
  <2> HIDE DEF t, leaving, ids, ns, r
  <2> QED
    BY <2>1, <2>2, <2>3, <2>4, HostChangeGoes
<1>6. ASSUME NEW n \in Unused, NEW a \in FreeNames(e), mutate(Attached(Named(tree, {n}, a), {n}, e))
      PROVE  Goes
  <2> DEFINE t == Attached(Named(tree, {n}, a), {n}, e)
             leaving == before \ Subtree(t, e)
             ids == IdsOf(tree, before)
             ns == Subtree(t, e)
  <2>1. a \in Names /\ leaving \in SUBSET Nodes
    BY <1>2 DEF FreeNames
  <2>2. HostEdit(t, ids, ns, leaving) /\ t = Attached(Named(tree, {n}, a), {n}, e)
    BY <1>6
  <2> HIDE DEF t, leaving, ids, ns, r
  <2> QED
    BY <1>1, <1>2, <2>1, <2>2, HostAdditionGoes
<1> QED
  BY <1>1, <1>4, <1>5, <1>6

LEMMA UnindexGoes ==
    ASSUME Whole, NEW e \in Nodes, unindexSubtree(e)
    PROVE  Goes
<1> DEFINE r == ownerSourceOf(tree, e)
           t == Attached(tree, {e}, None)
           leaving == Subtree(tree, e)
           ids == IdsOf(tree, Subtree(tree, e))
<1>1. /\ IsEntry(tree, e) /\ HostOwned(r) /\ HostEdit(t, ids, {}, leaving)
      /\ t = Attached(tree, {e}, None)
  BY DEF unindexSubtree
<1>2. leaving \in SUBSET Nodes /\ Holds(tree, tree.up[e], r, Nodes) /\ Subtree(tree, e) \subseteq leaving
  BY <1>1, HostSubtree
<1> HIDE DEF r, t, leaving, ids
<1> QED
  BY <1>1, <1>2, HostChangeGoes

LEMMA IndexSubtreeGoes ==
    ASSUME Whole, NEW r \in Roots, indexSubtree(r)
    PROVE  Goes
<1>1. PICK n \in Unused, a \in FreeNames(r) :
          HostEdit(Attached(Named(tree, {n}, a), {n}, r), {}, {n}, {})
  BY DEF indexSubtree
<1> DEFINE t == Attached(Named(tree, {n}, a), {n}, r)
<1>2. HostOwned(r) /\ a \in Names /\ Holds(tree, r, r, Nodes) /\ {} \in SUBSET Nodes
      /\ t = Attached(Named(tree, {n}, a), {n}, r) /\ HostEdit(t, {}, {n}, {})
  BY <1>1 DEF indexSubtree, FreeNames, Holds
<1> HIDE DEF t
<1> QED
  BY <1>2, HostAdditionGoes

\* Files opened, reloaded and closed, and what is selected: the trees stay as they are.
LEMMA FilesView ==
    ASSUME Whole, UNCHANGED tree, NEW gone \in SUBSET Roots,
           Open(dataSources) \ gone \subseteq Open(dataSources'),
           releaseSelection(gone) \/ (gone = {} /\ UNCHANGED selection)
    PROVE  ViewOK' /\ LetsGo
<1> DEFINE removed == gone \union {n \in Nodes : ownerSourceOf(tree, n) \in gone}
<1>1. /\ ViewOK /\ Selections /\ tree \in Tree /\ entries \subseteq Found /\ Found \subseteq Nodes
      /\ Open(dataSources) \subseteq Roots
      /\ Nodes \intersect Roots = {} /\ None \notin Nodes \union Roots
  BY WholeIs
<1>2. /\ context' = IF context \in removed THEN None ELSE context
      /\ entries' = entries \ removed
      /\ preview' = IF preview \in removed THEN None ELSE preview
  <2>1. CASE releaseSelection(gone)
    BY <2>1 DEF releaseSelection, releaseSubtreeSelection, Selects
  <2>2. CASE gone = {} /\ UNCHANGED selection
    BY <2>2 DEF selection
  <2> QED
    BY <2>1, <2>2
<1>3. Found \ removed \subseteq Found'
  BY DEF Found, OpenNodes
<1>4. entries' \subseteq Found'
  BY <1>1, <1>2, <1>3
<1>5. InOpenOnly(tree', dataSources', context')
  <2> SUFFICES ASSUME context \notin removed, context' = context
               PROVE  InOpenOnly(tree, dataSources', context)
    BY <1>1, <1>2 DEF InOpenOnly
  <2>1. context \in Roots => context \in Open(dataSources')
    BY <1>1 DEF ViewOK, InOpenOnly
  <2>2. ASSUME context \in Nodes, NEW q \in Roots, Holds(tree, tree.up[context], q, Nodes)
        PROVE  q \in Open(dataSources')
    <3>1. q \in Open(dataSources)
      BY <1>1, <2>2 DEF ViewOK, InOpenOnly
    <3>2. ownerSourceOf(tree, context) = q
      BY <1>1, <2>2, OwnedNode
    <3> QED
      BY <2>2, <3>1, <3>2
  <2> QED
    BY <2>1, <2>2 DEF InOpenOnly
<1>6. Selected' \subseteq Found' \union (Selected \ Found)
  <2> SUFFICES ASSUME NEW n \in Selected', n \notin Found'
               PROVE  n \in Selected \ Found
    OBVIOUS
  <2>1. n \in Selected /\ n \notin removed
    BY <1>1, <1>2 DEF Selected
  <2> QED
    BY <1>3, <2>1
<1> QED
  BY <1>4, <1>5, <1>6 DEF ViewOK, LetsGo

\* What a close, or a reload, does to every history.
LEMMA ClearIs ==
    ASSUME NEW srcs, clear(srcs)
    PROVE  \A s \in Sources : IF s \in srcs THEN undo'[s] = <<>> /\ redo'[s] = <<>>
                              ELSE undo'[s] = undo[s] /\ redo'[s] = redo[s]
BY DEF clear

LEMMA RegisterGoes ==
    ASSUME Whole, NEW r \in Roots, registerSource(r)
    PROVE  Goes
<1> DEFINE s0 == SrcOf[r]
           previous == dataSources[s0]
           gone == {previous} \ {None, r}
<1>1. /\ dataSources' = [dataSources EXCEPT ![s0] = r] /\ UNCHANGED tree
      /\ IF previous \in {None, r} THEN UNCHANGED <<selection, history>>
         ELSE releaseSelection({previous}) /\ clear({s0})
  BY DEF registerSource
<1>2. /\ TreesOK /\ ClosedOK /\ dataSources \in [Sources -> Roots \union {None}]
      /\ None \notin Nodes \union Roots
  BY WholeIs
<1>3. s0 \in Sources /\ previous \in Roots \union {None}
  BY <1>2, SessionAssumption
<1>4. dataSources'[s0] = r /\ \A s \in Sources \ {s0} : dataSources'[s] = dataSources[s]
  BY <1>1, <1>2, <1>3
<1>5. \A s \in Sources \ {s0} : undo'[s] = undo[s] /\ redo'[s] = redo[s]
  <2>1. CASE previous \in {None, r}
    BY <1>1, <2>1 DEF history
  <2>2. CASE previous \notin {None, r}
    BY <1>1, <2>2, ClearIs
  <2> QED
    BY <2>1, <2>2
<1>6. /\ previous # r => undo'[s0] = <<>> /\ redo'[s0] = <<>>
      /\ previous = r => undo'[s0] = undo[s0] /\ redo'[s0] = redo[s0]
  <2>1. CASE previous \in {None, r}
    BY <1>1, <1>2, <1>3, <2>1 DEF history, ClosedOK
  <2>2. CASE previous \notin {None, r}
    BY <1>1, <1>3, <2>2, ClearIs
  <2> QED
    BY <2>1, <2>2
<1>7. ASSUME NEW H, Told(H) PROVE Carries(H)
  <2>1. Homed(tree, H)
    BY <1>7 DEF Told
  <2>2. \A s \in Sources :
               \/ undo'[s] = undo[s] /\ redo'[s] = redo[s] /\ dataSources'[s] = dataSources[s]
               \/ /\ undo'[s] = <<>> /\ redo'[s] = <<>>
                  /\ dataSources'[s] # dataSources[s] \/ dataSources[s] = None
    BY <1>4, <1>5, <1>6
  <2> QED
    BY <1>1, <1>2, <2>1, <2>2, QuietCarries
<1>8. ClosedOK'
  BY <1>2, <1>4, <1>5 DEF ClosedOK
<1>9. Open(dataSources) \ gone \subseteq Open(dataSources')
  BY <1>3, <1>4 DEF Open
<1>10. releaseSelection(gone) \/ (gone = {} /\ UNCHANGED selection)
  <2>1. CASE previous \in {None, r}
    BY <1>1, <2>1
  <2>2. CASE previous \notin {None, r}
    <3>1. gone = {previous}
      BY <2>2
    <3> QED
      BY <1>1, <2>2, <3>1
  <2> QED
    BY <2>1, <2>2
<1>11. gone \in SUBSET Roots
  BY <1>3
<1> HIDE DEF gone
<1>12. ViewOK' /\ LetsGo
  BY <1>1, <1>9, <1>10, <1>11, FilesView
<1> QED
  BY <1>7, <1>8, <1>12 DEF Goes

LEMMA RemoveGoes ==
    ASSUME Whole, NEW s0 \in Sources, removeDataSource(s0)
    PROVE  Goes
<1> DEFINE gone == {dataSources[s0]}
<1>1. /\ dataSources[s0] # None /\ UNCHANGED tree
      /\ dataSources' = [dataSources EXCEPT ![s0] = None]
      /\ releaseSelection(gone) /\ clear({s0})
  BY DEF removeDataSource
<1>2. /\ TreesOK /\ ClosedOK /\ dataSources \in [Sources -> Roots \union {None}]
  BY WholeIs
<1>3. dataSources'[s0] = None /\ \A s \in Sources \ {s0} : dataSources'[s] = dataSources[s]
  BY <1>1, <1>2
<1>4. /\ undo'[s0] = <<>> /\ redo'[s0] = <<>>
      /\ \A s \in Sources \ {s0} : undo'[s] = undo[s] /\ redo'[s] = redo[s]
  BY <1>1, ClearIs
<1>5. ASSUME NEW H, Told(H) PROVE Carries(H)
  <2>1. Homed(tree, H)
    BY <1>5 DEF Told
  <2>2. \A s \in Sources :
               \/ undo'[s] = undo[s] /\ redo'[s] = redo[s] /\ dataSources'[s] = dataSources[s]
               \/ /\ undo'[s] = <<>> /\ redo'[s] = <<>>
                  /\ dataSources'[s] # dataSources[s] \/ dataSources[s] = None
    BY <1>1, <1>3, <1>4
  <2> QED
    BY <1>1, <1>2, <2>1, <2>2, QuietCarries
<1>6. ClosedOK'
  BY <1>2, <1>3, <1>4 DEF ClosedOK
<1>7. gone \in SUBSET Roots /\ Open(dataSources) \ gone \subseteq Open(dataSources')
  BY <1>1, <1>2, <1>3 DEF Open
<1> HIDE DEF gone
<1>8. ViewOK' /\ LetsGo
  BY <1>1, <1>7, FilesView
<1> QED
  BY <1>5, <1>6, <1>8 DEF Goes

LEMMA RemoveAllGoes ==
    ASSUME Whole, removeAll
    PROVE  Goes
<1>1. /\ dataSources' = [s \in Sources |-> None] /\ UNCHANGED tree
      /\ Selects(None, {}, None) /\ clear(Sources)
  BY DEF removeAll
<1>2. /\ TreesOK /\ ClosedOK /\ dataSources \in [Sources -> Roots \union {None}]
      /\ None \notin Nodes \union Roots
  BY WholeIs
<1>3. \A s \in Sources : undo'[s] = <<>> /\ redo'[s] = <<>> /\ dataSources'[s] = None
  BY <1>1, ClearIs
<1>4. ASSUME NEW H, Told(H) PROVE Carries(H)
  <2>1. Homed(tree, H)
    BY <1>4 DEF Told
  <2>2. \A s \in Sources :
               \/ undo'[s] = undo[s] /\ redo'[s] = redo[s] /\ dataSources'[s] = dataSources[s]
               \/ /\ undo'[s] = <<>> /\ redo'[s] = <<>>
                  /\ dataSources'[s] # dataSources[s] \/ dataSources[s] = None
    BY <1>3
  <2> QED
    BY <1>1, <1>2, <2>1, <2>2, QuietCarries
<1>5. ClosedOK'
  BY <1>3 DEF ClosedOK
<1>6. ViewOK' /\ LetsGo
  <2>1. context' = None /\ entries' = {} /\ preview' = None
    BY <1>1 DEF Selects
  <2>2. InOpenOnly(tree', dataSources', context')
    BY <1>2, <2>1 DEF InOpenOnly
  <2>3. Selected' = {}
    BY <1>2, <2>1 DEF Selected
  <2> QED
    BY <2>1, <2>2, <2>3 DEF ViewOK, LetsGo
<1> QED
  BY <1>4, <1>5, <1>6 DEF Goes

\* What a host selects is in view; so a selection is, and so is one left as it is.
LEMMA SelectGoes ==
    ASSUME Whole, UNCHANGED <<tree, dataSources, history>>, NEW ctx, NEW ns, NEW shown, Selects(ctx, ns, shown),
           ctx = context \/ ctx \in InView, ns \subseteq Found, shown = preview \/ shown \in Found
    PROVE  Goes
<1>1. /\ TreesOK /\ ClosedOK /\ ViewOK /\ tree \in Tree /\ Found \subseteq Nodes
      /\ Open(dataSources) \subseteq Roots
      /\ Nodes \intersect Roots = {} /\ None \notin Nodes \union Roots
  BY WholeIs
<1>2. context' = ctx /\ entries' = ns /\ preview' = shown /\ Found' = Found
  BY DEF Selects, Found
<1>3. ASSUME NEW H, Told(H) PROVE Carries(H)
  <2>1. Homed(tree, H)
    BY <1>3 DEF Told
  <2>2. \A s \in Sources :
               \/ undo'[s] = undo[s] /\ redo'[s] = redo[s] /\ dataSources'[s] = dataSources[s]
               \/ /\ undo'[s] = <<>> /\ redo'[s] = <<>>
                  /\ dataSources'[s] # dataSources[s] \/ dataSources[s] = None
    BY DEF history
  <2> QED
    BY <1>1, <2>1, <2>2, QuietCarries
<1>4. ClosedOK'
  BY <1>1 DEF ClosedOK, history
<1>5. InOpenOnly(tree', dataSources', context')
  <2>1. CASE ctx = context
    BY <1>1, <1>2, <2>1 DEF ViewOK
  <2>2. CASE ctx \in Open(dataSources)
    BY <1>1, <1>2, <2>2 DEF InOpenOnly
  <2>3. CASE ctx \in Found
    <3>1. \A q \in Roots : Holds(tree, tree.up[ctx], q, Nodes) => q \in Open(dataSources)
      BY <1>1, <2>3, OwnedNode DEF Found, OpenNodes
    <3> QED
      BY <1>1, <1>2, <2>3, <3>1 DEF InOpenOnly
  <2> QED
    BY <2>1, <2>2, <2>3 DEF InView, Found
<1>6. Selected' \subseteq Found' \union (Selected \ Found)
  <2> SUFFICES ASSUME NEW n \in Selected', n \notin Found
               PROVE  n \in Selected
    BY <1>2
  <2>1. (n \in Nodes /\ n = ctx) \/ (n = shown /\ n # None)
    BY <1>2 DEF Selected
  <2>2. ctx \in InView /\ ctx \in Nodes => ctx \in Found
    BY <1>1 DEF InView, Found
  <2> QED
    BY <2>1, <2>2 DEF Selected
<1> QED
  BY <1>2, <1>3, <1>4, <1>5, <1>6 DEF Goes, ViewOK, LetsGo

-----------------------------------------------------------------------------
(***************************************************************************)
(* The invariant, and the theorems.                                        *)
(***************************************************************************)
LEMMA StepGoes ==
    ASSUME Whole, [Next]_vars
    PROVE  Goes
<1>1. ASSUME NEW r \in Roots, registerSource(r) PROVE Goes
  BY <1>1, RegisterGoes
<1>2. ASSUME NEW s \in Sources, removeDataSource(s) PROVE Goes
  BY <1>2, RemoveGoes
<1>3. CASE removeAll
  BY <1>3, RemoveAllGoes
<1>4. /\ entries \subseteq Found /\ Found \subseteq Nodes /\ Open(dataSources) \subseteq Roots
      /\ Nodes \intersect Roots = {} /\ None \notin Nodes \union Roots
      /\ Found = OpenNodes(tree, dataSources)
  BY WholeIs DEF Found
<1>5. ASSUME NEW x \in Viewed \intersect InView, setActiveContext(x) PROVE Goes
  BY <1>4, <1>5, SelectGoes DEF setActiveContext
<1>6. ASSUME NEW ns \in Selectable, ns \subseteq InView, setActiveEntry(ns) PROVE Goes
  <2>1. ns \subseteq Found
    BY <1>4, <1>6, SessionAssumption DEF InView
  <2> QED
    BY <1>6, <2>1, SelectGoes DEF setActiveEntry
<1>7. ASSUME NEW n \in Shown \intersect InView, setPreviewNode(n) PROVE Goes
  <2>1. n \in Found
    BY <1>4, <1>7, SessionAssumption DEF InView
  <2> QED
    BY <1>4, <1>7, <2>1, SelectGoes DEF setPreviewNode
<1>8. CASE addEntry
  BY <1>8, AddEntryGoes
<1>9. CASE addChild
  BY <1>4, <1>9, AddChildGoes DEF addChild
<1>10. ASSUME NEW i \in DOMAIN nodeIndex, addChildTo(i) PROVE Goes
  <2>1. resolveId(i) = nodeIndex[i] /\ nodeIndex[i] # None /\ addChildOfNode(resolveId(i), FALSE)
    BY <1>10 DEF addChildTo, resolveId
  <2>2. nodeIndex[i] \in Found
    BY <2>1, IndexedFound
  <2> QED
    BY <2>1, <2>2, AddChildGoes
<1>11. CASE deleteNode
  BY <1>4, <1>11, DeleteGoes DEF deleteNode
<1>12. ASSUME NEW is \in SUBSET {i \in DOMAIN nodeIndex : nodeIndex[i] # None}, deleteNodesById(is)
       PROVE  Goes
  <2> DEFINE ns == {nodeIndex[i] : i \in is} \ {None}
  <2>1. ns \in SUBSET Found
    BY IndexedFound
  <2>2. Delete(ns, editableOwnerOfAll(ns), FALSE)
    BY <1>12 DEF deleteNodesById
  <2> HIDE DEF ns
  <2> QED
    BY <2>1, <2>2, DeleteGoes
<1>13. ASSUME NEW n \in Nodes, NEW a \in Names, editName(n, a) PROVE Goes
  BY <1>13, EditNameGoes
<1>14. CASE undoAction
  BY <1>14, UndoGoes
<1>15. CASE redoAction
  BY <1>15, RedoGoes
<1>16. ASSUME NEW e \in Nodes, mutateSubtree(e) \/ unindexSubtree(e) PROVE Goes
  BY <1>16, MutateGoes, UnindexGoes
<1>17. ASSUME NEW r \in Roots, indexSubtree(r) PROVE Goes
  BY <1>17, IndexSubtreeGoes
<1>18. CASE UNCHANGED vars
  <2>1. UNCHANGED <<tree, dataSources, history>> /\ Selects(context, entries, preview)
    BY <1>18 DEF vars, selection, Selects
  <2> QED
    BY <1>4, <2>1, SelectGoes
<1> QED
  BY <1>1, <1>2, <1>3, <1>5, <1>6, <1>7, <1>8, <1>9, <1>10, <1>11, <1>12, <1>13, <1>14, <1>15,
     <1>16, <1>17, <1>18 DEF Next

\* A step keeps the invariant.
LEMMA WholeStays ==
    ASSUME LabelsApart, Whole, [Next]_vars
    PROVE  Whole'
<1>1. Goes
  BY StepGoes
<1>2. Kept' /\ IndexOK'
  BY StepKeeps DEF Whole
<1>3. PICK H : Told(H)
  BY DEF Whole, TrailsOK, Told
<1>4. PICK H2 : Homed(tree', H2) /\ Follows(H, H2)
  BY <1>1, <1>3 DEF Goes, Carries
<1>5. ASSUME NEW s \in Sources PROVE \E T, C : PastOf(s, H2, T, C)'
  <2>1. PICK T, C : PastOf(s, H, T, C)
    BY <1>3 DEF Told
  <2>2. \E T2, C2 : Past(tree', undo'[s], redo'[s], dataSources'[s], Of(H2, dataSources'[s]), T2, C2)
    BY <1>4, <2>1 DEF Follows
  <2> QED
    BY <2>2 DEF PastOf
<1>6. TrailsOK'
  BY <1>4, <1>5 DEF TrailsOK
<1> QED
  BY <1>1, <1>2, <1>6 DEF Goes, Whole

LEMMA InitWhole ==
    ASSUME Init
    PROVE  Whole
<1> DEFINE H == [n \in Nodes |-> IF ParsedUp[n] \in Roots THEN ParsedUp[n]
                                 ELSE IF ParsedUp[n] \in Nodes THEN ParsedUp[ParsedUp[n]] ELSE None]
<1>1. Kept /\ IndexOK
  BY InitKeeps
<1>2. ClosedOK
  BY DEF Init, ClosedOK
<1>3. Nodes \intersect Roots = {} /\ None \notin Nodes \union Roots
  BY SessionAssumption
<1>4. ViewOK
  BY <1>3 DEF Init, ViewOK, InOpenOnly
<1>5. tree.up = ParsedUp /\ tree \in Tree
  BY <1>1 DEF Init, Kept, TreesOK
<1>6. Homed(tree, H)
  <2>1. \A n \in Nodes : ParsedUp[n] \in Nodes => ParsedUp[ParsedUp[n]] \in Roots
    BY SessionAssumption
  <2>2. H \in [Nodes -> Roots \union {None}]
    BY <2>1
  <2>3. \A n \in Nodes : /\ ParsedUp[n] \in Roots => H[n] = ParsedUp[n]
                         /\ ParsedUp[n] \in Nodes => H[n] = H[ParsedUp[n]]
    BY <1>3, <2>1
  <2> HIDE DEF H
  <2> QED
    BY <1>5, <2>2, <2>3 DEF Homed
<1> HIDE DEF H
<1>7. ASSUME NEW s \in Sources PROVE \E T, C : PastOf(s, H, T, C)
  <2>1. undo[s] = <<>> /\ redo[s] = <<>>
    BY DEF Init
  <2>2. PICK T, C : Past(tree, <<>>, <<>>, dataSources[s], Of(H, dataSources[s]), T, C)
    BY <1>5, NoPast
  <2>3. PastOf(s, H, T, C)
    BY <2>1, <2>2 DEF PastOf
  <2> QED
    BY <2>3
<1>8. TrailsOK
  BY <1>6, <1>7 DEF TrailsOK
<1> QED
  BY <1>1, <1>2, <1>4, <1>8 DEF Whole

LEMMA WholeKept ==
    ASSUME LabelsApart
    PROVE  Spec => []Whole
<1>1. Init => Whole
  BY InitWhole
<1>2. Whole /\ [Next]_vars => Whole'
  BY WholeStays
<1> QED
  BY <1>1, <1>2, PTL DEF Spec

\* A file's history is of the tree open under it and can be walked end to end, whatever
\* was edited, undone, redone, reloaded or closed between, in this file or another
\* (UndoManager: a stack per srcId, a new edit ends the redo, a close or reload both).
THEOREM HistoriesAreWalkable ==
    ASSUME LabelsApart
    PROVE  Spec => []HistoryApplies
<1>1. Whole => HistoryApplies
  <2> SUFFICES ASSUME Whole, NEW s \in Sources
               PROVE  /\ \A k \in DOMAIN undo[s] : Reverses(UndoneFrom(s, k), dataSources[s], undo[s][k])
                      /\ \A k \in DOMAIN redo[s] : Applies(RedoneFrom(s, k), dataSources[s], redo[s][k])
    BY DEF HistoryApplies
  <2> DEFINE r == dataSources[s]
  <2>1. TreesOK /\ ClosedOK /\ r \in Roots \union {None}
    BY WholeIs
  <2>2. CASE r = None
    <3>1. undo[s] = <<>> /\ redo[s] = <<>>
      BY <2>1, <2>2 DEF ClosedOK
    <3> QED
      BY <3>1
  <2>3. CASE r # None
    <3> HIDE DEF r
    <3>1. PICK N, T, C : N \in SUBSET Nodes /\ Past(tree, undo[s], redo[s], r, N, T, C)
      BY SomePast DEF r
    <3>2. /\ \A k \in DOMAIN undo[s] : Reverses(UndoneFrom(s, k), r, undo[s][k])
          /\ \A k \in DOMAIN redo[s] : Applies(RedoneFrom(s, k), r, redo[s][k])
      BY <2>1, <2>3, <3>1, PastApplies
    <3> QED
      BY <3>2 DEF r
  <2> QED
    BY <2>2, <2>3
<1> QED
  BY <1>1, WholeKept, PTL

\* Of a tree put together so, the file is what the other has of it at home.
LEMMA OpenedIs ==
    ASSUME NEW t \in Tree, NEW a \in Tree, NEW H, Homed(t, H), NEW r \in Roots
    PROVE  FileIn(Over(t, a, Of(H, r)), r) = FileOn(a, r, Of(H, r))
<1> DEFINE N == Of(H, r)
           x == Over(t, a, N)
<1>1. N \subseteq Nodes /\ Nodes \intersect Roots = {} /\ None \notin Nodes \union Roots
  BY SessionAssumption DEF Of
<1>2. /\ x \in Tree
      /\ \A n \in Nodes : /\ x.up[n] = IF n \in N THEN a.up[n] ELSE t.up[n]
                          /\ x.name[n] = IF n \in N THEN a.name[n] ELSE t.name[n]
  BY OverTree
<1>3. \A n \in Nodes : /\ t.up[n] = r => n \in N
                       /\ t.up[n] \in Nodes /\ t.up[n] \in N => n \in N
  BY DEF Homed, Of
<1> HIDE DEF N, x
<1>4. ASSUME NEW n \in Nodes
      PROVE  ownerSourceOf(x, n) = r <=> n \in N /\ Holds(a, a.up[n], r, N)
  <2>1. ownerSourceOf(x, n) = r <=> Holds(x, x.up[n], r, Nodes)
    BY <1>2, OwnedNode
  <2>2. CASE n \in N
    <3>1. x.up[n] = a.up[n]
      BY <1>2, <2>2
    <3>2. \A p \in Nodes : x.up[p] = r => p \in N
      BY <1>2, <1>3
    <3>3. Holds(x, a.up[n], r, Nodes) <=> Holds(a, a.up[n], r, N)
      BY <1>1, <1>2, <3>2 DEF Holds
    <3> QED
      BY <2>1, <2>2, <3>1, <3>3
  <2>3. CASE n \notin N
    <3>1. x.up[n] = t.up[n] /\ t.up[n] # r
      BY <1>2, <1>3, <2>3
    <3>2. t.up[n] \in Nodes => t.up[n] \notin N /\ x.up[t.up[n]] = t.up[t.up[n]] /\ t.up[t.up[n]] # r
      BY <1>2, <1>3, <2>3
    <3> QED
      BY <2>1, <2>3, <3>1, <3>2 DEF Holds
  <2> QED
    BY <2>2, <2>3
<1>5. flatten(x, r) = {m \in N : Holds(a, a.up[m], r, N)}
  BY <1>1, <1>4 DEF flatten
<1>6. \A n \in N : x.up[n] = a.up[n] /\ x.name[n] = a.name[n]
  BY <1>1, <1>2
<1>7. FileIn(x, r) = FileOn(a, r, N)
  BY <1>5, <1>6 DEF FileIn, FileOn
<1> QED
  BY <1>7 DEF x, N

\* Walked back to its start.
LEMMA UnwoundWhole ==
    ASSUME NEW t \in Tree, NEW u \in Seq(Step), NEW v \in Seq(Step), NEW r, NEW N \in SUBSET Nodes,
           NEW T, NEW C, Past(t, u, v, r, N, T, C)
    PROVE  T[0] \in Tree /\ Unwound(t, u, 0) = Over(t, T[0], N)
<1>1. 0 \in 0 .. Len(u)
  OBVIOUS
<1>2. T[0] \in Tree
  <2>1. Len(u) + Len(v) \in Nat /\ T \in [0 .. Len(u) + Len(v) -> Tree]
    BY DEF Past, Trail
  <2> QED
    BY <2>1
<1> QED
  BY <1>1, <1>2, UnwoundIs

\* Where a history leads back to is where its trail begins.
LEMMA TrailBegins ==
    ASSUME NEW t \in Tree, NEW u \in Seq(Step), NEW v \in Seq(Step), NEW H, Homed(t, H), NEW r \in Roots,
           NEW T, NEW C, Past(t, u, v, r, Of(H, r), T, C)
    PROVE  FileIn(Unwound(t, u, 0), r) = FileOn(T[0], r, Of(H, r))
<1> DEFINE N == Of(H, r)
<1>1. /\ N \in SUBSET Nodes /\ t \in Tree /\ u \in Seq(Step) /\ v \in Seq(Step)
      /\ Past(t, u, v, r, N, T, C)
  BY DEF Of
<1> DEFINE a == T[0]
<1>2. a \in Tree /\ Unwound(t, u, 0) = Over(t, a, N)
  <2> HIDE DEF N
  <2> QED
    BY <1>1, UnwoundWhole
<1> HIDE DEF a
<1>3. FileIn(Over(t, a, Of(H, r)), r) = FileOn(a, r, Of(H, r))
  BY <1>2, OpenedIs
<1> QED
  BY <1>2, <1>3 DEF a

\* Undoing all of a file's history leads to the same file, whatever is edited, undone or
\* redone, there or elsewhere, until it is reloaded, closed or has no history left
\* (UndoManager, and each command's closures over what it put in or took out).
THEOREM HistoriesLeadBack ==
    ASSUME LabelsApart
    PROVE  Spec => HistoryLeadsBack
<1>1. Whole /\ [Next]_vars => [LeadsBack]_<<tree, undo>>
  <2> SUFFICES ASSUME Whole, [Next]_vars, NEW s \in Sources, Stays(s)
               PROVE  Opened(s)' = Opened(s)
    BY DEF LeadsBack, Stays
  <2> DEFINE r == dataSources[s]
  <2>1. Goes /\ Kept'
    BY StepGoes, StepKeeps DEF Whole
  <2>2. PICK H : Told(H)
    BY DEF Whole, TrailsOK, Told
  <2>3. PICK H2 : Homed(tree', H2) /\ Follows(H, H2)
    BY <2>1, <2>2 DEF Goes, Carries
  <2>4. PICK T, C : PastOf(s, H, T, C)
    BY <2>2 DEF Told
  <2>5. PICK T2, C2 :
            /\ Past(tree', undo'[s], redo'[s], dataSources'[s], Of(H2, dataSources'[s]), T2, C2)
            /\ FileOn(T2[0], r, Of(H2, r)) = FileOn(T[0], r, Of(H, r))
    BY <2>3, <2>4 DEF Follows
  <2>6. r \in Roots /\ dataSources'[s] = r
    BY WholeIs DEF Stays
  <2>7. /\ tree \in Tree /\ undo[s] \in Seq(Step) /\ redo[s] \in Seq(Step) /\ Homed(tree, H)
        /\ Past(tree, undo[s], redo[s], r, Of(H, r), T, C)
    BY <2>2, <2>4, WholeIs, HistorySeqs DEF Told, PastOf
  <2>8. /\ tree' \in Tree /\ undo'[s] \in Seq(Step) /\ redo'[s] \in Seq(Step) /\ Homed(tree', H2)
        /\ Past(tree', undo'[s], redo'[s], r, Of(H2, r), T2, C2)
    BY <2>1, <2>3, <2>5, <2>6 DEF Kept, TreesOK, HistoriesOK, Histories
  <2> HIDE DEF r
  <2>9. FileIn(Unwound(tree, undo[s], 0), r) = FileOn(T[0], r, Of(H, r))
    BY <2>6, <2>7, TrailBegins
  <2>10. FileIn(Unwound(tree', undo'[s], 0), r) = FileOn(T2[0], r, Of(H2, r))
    <3> DEFINE t == tree'
               u == undo'[s]
               v == redo'[s]
    <3>1. /\ t \in Tree /\ u \in Seq(Step) /\ v \in Seq(Step) /\ Homed(t, H2)
          /\ Past(t, u, v, r, Of(H2, r), T2, C2)
      BY <2>8
    <3> HIDE DEF t, u, v
    <3>2. FileIn(Unwound(t, u, 0), r) = FileOn(T2[0], r, Of(H2, r))
      BY <2>6, <3>1, TrailBegins
    <3> QED
      BY <3>2 DEF t, u
  <2>11. Opened(s) = FileIn(Unwound(tree, undo[s], 0), r)
    BY WalkedBack DEF Opened, r
  <2>12. Opened(s)' = FileIn(Unwound(tree', undo'[s], 0), dataSources'[s])
    BY DEF Opened, UndoneFrom, Unwound, WalksBack, FileIn, flatten, ownerSourceOf, Up
  <2> QED
    BY <2>5, <2>6, <2>9, <2>10, <2>11, <2>12 DEF r
<1> QED
  BY <1>1, WholeKept, PTL DEF Spec, HistoryLeadsBack

\* No call but a selection-driven one leaves the context or the preview at a node that has
\* left the open files, and none leaves a selected entry there (releaseSelection,
\* releaseSubtreeSelection, selectAfterRemoval).
THEOREM SelectionsAreLetGo ==
    ASSUME LabelsApart
    PROVE  Spec => SelectionIsLetGo
<1>1. Whole /\ [Next]_vars => [LetsGo]_<<tree, dataSources, selection>>
  BY StepGoes DEF Goes
<1> QED
  BY <1>1, WholeKept, PTL DEF Spec, SelectionIsLetGo
=============================================================================
