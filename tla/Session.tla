------------------------------ MODULE Session ------------------------------
(***************************************************************************)
(* An editing session (core/DataModel.ts with core/UndoManager.ts): the    *)
(* open files' trees, the index that answers for their nodes by id, the    *)
(* selection, and each file's undo and redo.                               *)
(*                                                                         *)
(* Everything here is synchronous, so an action is one call into the       *)
(* session with all it calls and publishes, up to its return.              *)
(*                                                                         *)
(* A tree is a root, its entries and their children.  Sections, the order  *)
(* of siblings and what a node holds are left out; what a node is named is *)
(* kept, since an id is a path of names.                                   *)
(***************************************************************************)
EXTENDS Integers, Sequences, FiniteSets, SequencesExt

CONSTANTS
    Sources,        \* the srcIds files are registered under
    Roots,          \* the trees a host may register
    SrcOf,          \* root -> the srcId it is registered under
    Label,          \* root -> its name, which its nodes' ids begin with
    Editable,       \* the roots that have a `dirty` flag
    HostEdited,     \* the roots a host edits itself, too
    Nodes,
    ParsedUp,       \* node -> its parent as read from a file, or None
    ParsedName,     \* node -> its name as read
    Names,
    Viewed,         \* the roots and nodes a host makes the context,
    Selectable,     \* the sets of nodes it selects as entries,
    Shown,          \* and the nodes it previews
    MaxSteps,       \* srcId -> the bound of its undo history
    None

ASSUME SessionAssumption ==
    /\ IsFiniteSet(Nodes)
    /\ SrcOf \in [Roots -> Sources]
    /\ ParsedUp \in [Nodes -> Nodes \union Roots \union {None}]
    /\ \A n \in Nodes : ParsedUp[n] \in Nodes => ParsedUp[ParsedUp[n]] \in Roots
    /\ ParsedName \in [Nodes -> Names]
    /\ \A r \in Editable : r \in Roots /\ Label[r] = SrcOf[r]
    /\ HostEdited \subseteq Editable
    /\ Nodes \intersect Roots = {}
    /\ None \notin Nodes \union Roots \union Names
    /\ Viewed \subseteq Roots \union Nodes
    /\ Selectable \subseteq SUBSET Nodes
    /\ Shown \subseteq Nodes
    /\ MaxSteps \in [Sources -> Nat]

Ids == {<<Label[r], a>> : r \in Roots, a \in Names}
           \union {<<Label[r], a, b>> : r \in Roots, a \in Names, b \in Names}

VARIABLES
    tree,           \* [up: node -> its parent, or None; name: node -> its name]
    dataSources,    \* srcId -> the root registered under it, or None
    nodeIndex,      \* id -> the node last indexed under it, or None
    sharedIds,
    context,        \* contextNode: a root, a node or None
    entries,        \* entryNodes
    preview,        \* previewNode: a node or None
    undo,           \* srcId -> its steps, the next to undo last
    redo

selection == <<context, entries, preview>>
history   == <<undo, redo>>
vars == <<tree, dataSources, nodeIndex, sharedIds, selection, history>>

-----------------------------------------------------------------------------
(***************************************************************************)
(* Trees.                                                                  *)
(***************************************************************************)
Tree == [up : [Nodes -> Nodes \union Roots \union {None}], name : [Nodes -> Names]]

\* No deeper than a root, its entries and their children.
Shallow(t) == \A n \in Nodes : t.up[n] \in Nodes => t.up[t.up[n]] \notin Nodes

Up(t, x) == IF x \in Nodes THEN t.up[x] ELSE None

\* ownerSourceOf: the top of the tree x is in, which is x itself where it is in none.
ownerSourceOf(t, x) ==
    LET p == Up(t, x)
    IN  IF p = None THEN x ELSE IF Up(t, p) = None THEN p ELSE Up(t, p)

flatten(t, r) == {n \in Nodes : ownerSourceOf(t, n) = r}
Subtree(t, n) == {n} \union {m \in Nodes : t.up[m] = n}
IsEntry(t, n) == t.up[n] \in Roots
Siblings(t, n) == {m \in Nodes \ {n} : t.up[m] = t.up[n]}

id(t, n) ==
    IF IsEntry(t, n) THEN <<Label[t.up[n]], t.name[n]>>
    ELSE <<Label[t.up[t.up[n]]], t.name[t.up[n]], t.name[n]>>

Open(srcs) == {srcs[s] : s \in Sources} \ {None}
OpenNodes(t, srcs) == {n \in Nodes : ownerSourceOf(t, n) \in Open(srcs)}

editableOwnerOf(x) ==
    IF x # None /\ ownerSourceOf(tree, x) \in Editable THEN ownerSourceOf(tree, x) ELSE None

editableOwnerOfAll(ns) ==
    LET owners == {editableOwnerOf(n) : n \in ns}
    IN  IF Cardinality(owners) = 1 THEN CHOOSE r \in owners : TRUE ELSE None

-----------------------------------------------------------------------------
(***************************************************************************)
(* The index.  `shared` notes each id a second node was indexed under.     *)
(***************************************************************************)
Empty == [i \in Ids |-> None]
Without(index, ids) == [i \in DOMAIN index |-> IF i \in ids THEN None ELSE index[i]]
IdsOf(t, ns) == {id(t, n) : n \in ns}

\* indexNode of each of ns: of two with one id, either is the last.
Indexed(t, index, ns) ==
    LET held == IdsOf(t, ns)
    IN  [i \in DOMAIN index |-> IF i \in held THEN CHOOSE n \in ns : id(t, n) = i ELSE index[i]]

Shared(t, index, ns) ==
    {i \in IdsOf(t, ns) : \E n \in ns : id(t, n) = i /\ (index[i] \notin {None, n}
                                              \/ \E m \in ns \ {n} : id(t, m) = i)}

\* reindexAll: what every node added, deleted or changed in its children publishes.
reindexAll(t) ==
    /\ nodeIndex' = Indexed(t, Empty, OpenNodes(t, dataSources))
    /\ sharedIds' = Shared(t, Empty, OpenNodes(t, dataSources))

\* Mutant: a twin of what left is not put back.
LeftBehindNever(t, index, shared, ids, leaving) == {}

\* reindexLeftBehind: the open nodes, other than those leaving, with one of `ids`.
LeftBehind(t, index, shared, ids, leaving) ==
    {n \in OpenNodes(t, dataSources) \ leaving :
        id(t, n) \in ids \intersect shared /\ index[id(t, n)] = None}

\* Out with `ids`, in with `ns`, as trees stand in t, and back what shared one of them.
Rekey(t, ids, ns, leaving) ==
    LET cleared == Without(nodeIndex, ids)
        index   == Indexed(t, cleared, ns)
        shared  == sharedIds \union Shared(t, cleared, ns)
        back    == LeftBehind(t, index, shared, ids, leaving)
    IN  /\ nodeIndex' = Indexed(t, index, back)
        /\ sharedIds' = shared \union Shared(t, index, back)

hasTwin(t, n) ==
    \E m \in {n, t.up[n]} \intersect Nodes :
        t.up[m] # None /\ \E o \in Siblings(t, m) : t.name[o] = t.name[m]

\* Mutant: only the id itself is looked for, and not what it is inside.
idIsSharedItself(n) == hasTwin(tree, n) /\ id(tree, n) \in sharedIds

idIsShared(n) == hasTwin(tree, n) /\ \E i \in sharedIds : IsPrefix(i, id(tree, n))

\* resolveId, as findNodeById answers.
resolveId(i) == IF nodeIndex[i] = None \/ idIsShared(nodeIndex[i]) THEN None ELSE nodeIndex[i]

-----------------------------------------------------------------------------
(***************************************************************************)
(* The selection.                                                          *)
(***************************************************************************)
Selects(ctx, ns, shown) == context' = ctx /\ entries' = ns /\ preview' = shown

\* releaseSubtreeSelection, and releaseSelection of what is in the tree of a root.
releaseSubtreeSelection(ns) ==
    Selects(IF context \in ns THEN None ELSE context,
            entries \ ns,
            IF preview \in ns THEN None ELSE preview)

releaseSelection(roots) ==
    releaseSubtreeSelection(roots \union {n \in Nodes : ownerSourceOf(tree, n) \in roots})

\* Mutant: an addressed removal leaves the selection alone.
selectAfterRemovalAlone(follow, removed, next) ==
    IF follow THEN Selects(context, next, preview) ELSE UNCHANGED selection

\* selectAfterRemoval: 'follow' moves the selection on, 'keep' lets go of what left.
selectAfterRemoval(follow, removed, next) ==
    IF follow THEN Selects(context, next, preview) ELSE releaseSubtreeSelection(removed)

\* Mutant: what an entry is removed from is selected, as what a child is.
NextSelectedAny(at) == {at}

\* What 'follow' selects after a removal: for a child what it was in, for an entry nothing.
NextSelected(at) == {at} \intersect Nodes

setActiveContext(x) ==
    /\ Selects(x, {}, preview)
    /\ UNCHANGED <<tree, dataSources, nodeIndex, sharedIds, history>>

setActiveEntry(ns) ==
    /\ Selects(context, ns, preview)
    /\ UNCHANGED <<tree, dataSources, nodeIndex, sharedIds, history>>

setPreviewNode(n) ==
    /\ Selects(context, entries, n)
    /\ UNCHANGED <<tree, dataSources, nodeIndex, sharedIds, history>>

-----------------------------------------------------------------------------
(***************************************************************************)
(* UndoManager.  A step is what its command's closures hold.               *)
(***************************************************************************)
Step == [op     : {"add", "delete", "rename"},
         on     : SUBSET Nodes,
         at     : Nodes \union Roots \union {None},    \* the parent added to or deleted from
         from   : Names \union {None},
         to     : Names \union {None},
         follow : BOOLEAN]

Adding(ns, at, follow) ==
    [op |-> "add", on |-> ns, at |-> at, from |-> None, to |-> None, follow |-> follow]
Deleting(ns, at, follow) ==
    [op |-> "delete", on |-> ns, at |-> at, from |-> None, to |-> None, follow |-> follow]
Renaming(n, to) ==
    [op |-> "rename", on |-> {n}, at |-> None, from |-> tree.name[n], to |-> to, follow |-> FALSE]

Attached(t, ns, at) == [t EXCEPT !.up = [n \in Nodes |-> IF n \in ns THEN at ELSE t.up[n]]]
Named(t, ns, a)     == [t EXCEPT !.name = [n \in Nodes |-> IF n \in ns THEN a ELSE t.name[n]]]

\* The tree once a step has been made, and once it has been undone.
Done(t, c) ==
    CASE c.op = "add"    -> Attached(t, c.on, c.at)
      [] c.op = "delete" -> Attached(t, c.on, None)
      [] c.op = "rename" -> Named(t, c.on, c.to)
Undone(t, c) ==
    CASE c.op = "add"    -> Attached(t, c.on, None)
      [] c.op = "delete" -> Attached(t, c.on, c.at)
      [] c.op = "rename" -> Named(t, c.on, c.from)

\* Mutant: what was undone can still be redone after an edit.
pushExecutedKeepingRedo(r, c) ==
    /\ undo' = [undo EXCEPT ![Label[r]] = Append(@, c)]
    /\ UNCHANGED redo

pushExecuted(r, c) ==
    /\ undo' = [undo EXCEPT ![Label[r]] = Append(@, c)]
    /\ redo' = [redo EXCEPT ![Label[r]] = <<>>]

clear(srcs) ==
    /\ undo' = [s \in Sources |-> IF s \in srcs THEN <<>> ELSE undo[s]]
    /\ redo' = [s \in Sources |-> IF s \in srcs THEN <<>> ELSE redo[s]]

-----------------------------------------------------------------------------
(***************************************************************************)
(* Files.                                                                  *)
(***************************************************************************)
\* deindexSource: by the ids its nodes answer to.
deindexSource(index, r) == Without(index, IdsOf(tree, flatten(tree, r)))

\* registerSource.  Another tree under the srcId replaces the one there.
registerSource(r) ==
    LET previous == dataSources[SrcOf[r]]
        index    == IF previous = None THEN nodeIndex ELSE deindexSource(nodeIndex, previous)
    IN  /\ dataSources' = [dataSources EXCEPT ![SrcOf[r]] = r]
        /\ IF previous \in {None, r} THEN UNCHANGED <<selection, history>>
           ELSE releaseSelection({previous}) /\ clear({SrcOf[r]})
        /\ nodeIndex' = Indexed(tree, index, flatten(tree, r))
        /\ sharedIds' = sharedIds \union Shared(tree, index, flatten(tree, r))
        /\ UNCHANGED tree

removeDataSource(s) ==
    /\ dataSources[s] # None
    /\ nodeIndex' = deindexSource(nodeIndex, dataSources[s])
    /\ dataSources' = [dataSources EXCEPT ![s] = None]
    /\ releaseSelection({dataSources[s]})
    /\ clear({s})
    /\ UNCHANGED <<tree, sharedIds>>

removeAll ==
    /\ dataSources' = [s \in Sources |-> None]
    /\ nodeIndex' = Empty
    /\ sharedIds' = {}
    /\ Selects(None, {}, None)
    /\ clear(Sources)
    /\ UNCHANGED tree

-----------------------------------------------------------------------------
(***************************************************************************)
(* Edits of the session's own, each one undo step of the file it is in.    *)
(***************************************************************************)
Steps(s) == Range(undo[s]) \union Range(redo[s])

\* Nodes nothing holds: what a new one may be.
Unused ==
    LET held == UNION {UNION {c.on \union {c.at} : c \in Steps(s)} : s \in Sources}
    IN  {n \in Nodes : Subtree(tree, n) = {n} /\ tree.up[n] = None}
            \ (held \union entries \union {context, preview} \union Range(nodeIndex))

FreeNames(p) == Names \ {tree.name[n] : n \in {m \in Nodes : tree.up[m] = p}}

\* Bound: an edit is made only while the file's history has room.
HasRoom(r) == Len(undo[Label[r]]) < MaxSteps[Label[r]]

\* Mutant: filed under the file the context is in.
FiledUnderContext(r) == IF editableOwnerOf(context) = None THEN r ELSE editableOwnerOf(context)

\* The file a step is filed under: the one its nodes are in.
FiledUnder(r) == r

Add(r, p, t, c) ==
    /\ HasRoom(r)
    /\ tree' = t
    /\ pushExecuted(FiledUnder(r), c)
    /\ reindexAll(t)
    /\ UNCHANGED dataSources

\* addEntry: into the context's file, under a name not taken, and selected.
addEntry ==
    LET r == editableOwnerOf(context)
    IN  /\ r # None
        /\ \E n \in Unused, a \in FreeNames(r) :
               /\ Add(r, r, Attached(Named(tree, {n}, a), {n}, r), Adding({n}, r, TRUE))
               /\ Selects(context, {n}, preview)

\* addChildOfNode.  The child is selected by a redo, and not by the add.
addChildOfNode(p, follow) ==
    /\ IsEntry(tree, p)
    /\ editableOwnerOf(p) # None
    /\ \E n \in Unused, a \in FreeNames(p) :
           Add(editableOwnerOf(p), p, Attached(Named(tree, {n}, a), {n}, p), Adding({n}, p, follow))
    /\ UNCHANGED selection

addChild == \E p \in entries : entries = {p} /\ addChildOfNode(p, TRUE)

addChildTo(i) == resolveId(i) # None /\ addChildOfNode(resolveId(i), FALSE)

\* deleteOneNode, and deleteEntryBatch of the entries among several.
Delete(ns, r, follow) ==
    LET gone    == IF Cardinality(ns) = 1 THEN ns ELSE {n \in ns : IsEntry(tree, n)}
        at      == tree.up[CHOOSE n \in gone : TRUE]
        removed == UNION {Subtree(tree, n) : n \in gone}
        t       == Attached(tree, gone, None)
    IN  /\ r # None
        /\ HasRoom(r)
        /\ gone # {}
        /\ tree' = t
        /\ pushExecuted(FiledUnder(r), Deleting(gone, at, follow))
        /\ selectAfterRemoval(follow, removed, NextSelected(at))
        /\ reindexAll(t)
        /\ UNCHANGED dataSources

deleteNode == entries # {} /\ Delete(entries, editableOwnerOfAll(entries), TRUE)

deleteNodesById(is) ==
    LET ns == {nodeIndex[i] : i \in is} \ {None}
    IN  /\ ns # {}
        /\ \A n \in ns : ~idIsShared(n)
        /\ Delete(ns, editableOwnerOfAll(ns), FALSE)

EntryOf(n) == IF IsEntry(tree, n) THEN n ELSE tree.up[n]

\* editInEntry: the index kept for the entry alone, or, of a tree not open, rebuilt.
EditedInEntry(n, t) ==
    IF ownerSourceOf(tree, n) \in Open(dataSources)
    THEN Rekey(t, IdsOf(tree, Subtree(tree, EntryOf(n))), Subtree(t, EntryOf(n)), {})
    ELSE reindexAll(t)

\* getActiveNode, the first of the entries or the context: any of several here.
ActiveNodes == IF entries # {} THEN entries ELSE {context} \intersect Nodes

\* editProperty, of a name: refused where another of the siblings has it.
editName(n, a) ==
    /\ n \in ActiveNodes
    /\ editableOwnerOf(n) # None
    /\ HasRoom(editableOwnerOf(n))
    /\ ~idIsShared(n)
    /\ a \in FreeNames(tree.up[n])
    /\ tree' = Named(tree, {n}, a)
    /\ EditedInEntry(n, Named(tree, {n}, a))
    /\ pushExecuted(FiledUnder(editableOwnerOf(n)), Renaming(n, a))
    /\ UNCHANGED <<dataSources, selection>>

\* The selection and the index after a step has been made again, or undone.
Reindexed(c, t) ==
    IF c.op = "rename" THEN \E n \in c.on : EditedInEntry(n, t) ELSE reindexAll(t)

Reselected(c, adds) ==
    IF c.op = "rename" THEN UNCHANGED selection
    ELSE IF adds THEN IF c.follow THEN Selects(context, c.on, preview) ELSE UNCHANGED selection
    ELSE selectAfterRemoval(c.follow, UNION {Subtree(tree, n) : n \in c.on}, NextSelected(c.at))

\* undoAction and redoAction, of the context's file.
undoAction ==
    LET r == editableOwnerOf(context)
    IN  /\ r # None
        /\ undo[Label[r]] # <<>>
        /\ LET c == Last(undo[Label[r]])
               t == Undone(tree, c)
           IN  /\ tree' = t
               /\ undo' = [undo EXCEPT ![Label[r]] = Front(@)]
               /\ redo' = [redo EXCEPT ![Label[r]] = Append(@, c)]
               /\ Reindexed(c, t)
               /\ Reselected(c, c.op = "delete")
        /\ UNCHANGED dataSources

redoAction ==
    LET r == editableOwnerOf(context)
    IN  /\ r # None
        /\ redo[Label[r]] # <<>>
        /\ LET c == Last(redo[Label[r]])
               t == Done(tree, c)
           IN  /\ tree' = t
               /\ redo' = [redo EXCEPT ![Label[r]] = Front(@)]
               /\ undo' = [undo EXCEPT ![Label[r]] = Append(@, c)]
               /\ Reindexed(c, t)
               /\ Reselected(c, c.op = "add")
        /\ UNCHANGED dataSources

-----------------------------------------------------------------------------
(***************************************************************************)
(* Edits a host makes of the tree itself, in a file whose undo is its own, *)
(* and the session is told of (mutateSubtree, indexSubtree,                *)
(* unindexSubtree).                                                        *)
(***************************************************************************)
HostOwned(r) ==
    /\ r \in Open(dataSources) \intersect HostEdited
    /\ undo[Label[r]] = <<>> /\ redo[Label[r]] = <<>>

HostEdit(t, ids, ns, leaving) ==
    /\ tree' = t
    /\ Rekey(t, ids, ns, leaving)
    /\ releaseSubtreeSelection(leaving)
    /\ UNCHANGED <<dataSources, history>>

\* Under an entry: one of its nodes renamed, a child removed or a child added.
mutateSubtree(e) ==
    LET before == Subtree(tree, e)
        mutate(t) == HostEdit(t, IdsOf(tree, before), Subtree(t, e), before \ Subtree(t, e))
    IN  /\ IsEntry(tree, e) /\ HostOwned(ownerSourceOf(tree, e))
        /\ \/ \E n \in before : \E a \in FreeNames(tree.up[n]) : mutate(Named(tree, {n}, a))
           \/ \E n \in before \ {e} : mutate(Attached(tree, {n}, None))
           \/ \E n \in Unused, a \in FreeNames(e) : mutate(Attached(Named(tree, {n}, a), {n}, e))

unindexSubtree(e) ==
    /\ IsEntry(tree, e) /\ HostOwned(ownerSourceOf(tree, e))
    /\ HostEdit(Attached(tree, {e}, None), IdsOf(tree, Subtree(tree, e)), {}, Subtree(tree, e))

indexSubtree(r) ==
    /\ HostOwned(r)
    /\ \E n \in Unused, a \in FreeNames(r) :
           HostEdit(Attached(Named(tree, {n}, a), {n}, r), {}, {n}, {})

-----------------------------------------------------------------------------
Init ==
    /\ tree = [up |-> ParsedUp, name |-> ParsedName]
    /\ dataSources = [s \in Sources |-> None]
    /\ nodeIndex = Empty
    /\ sharedIds = {}
    /\ context = None
    /\ entries = {}
    /\ preview = None
    /\ undo = [s \in Sources |-> <<>>]
    /\ redo = [s \in Sources |-> <<>>]

\* What a host may name: open files and the nodes in them.
InView == Open(dataSources) \union OpenNodes(tree, dataSources)

Next ==
    \/ \E r \in Roots : registerSource(r)
    \/ \E s \in Sources : removeDataSource(s)
    \/ removeAll
    \/ \E x \in Viewed \intersect InView : setActiveContext(x)
    \/ \E ns \in Selectable : ns \subseteq InView /\ setActiveEntry(ns)
    \/ \E n \in Shown \intersect InView : setPreviewNode(n)
    \/ addEntry
    \/ addChild
    \/ \E i \in DOMAIN nodeIndex : addChildTo(i)
    \/ deleteNode
    \/ \E is \in SUBSET {i \in DOMAIN nodeIndex : nodeIndex[i] # None} : deleteNodesById(is)
    \/ \E n \in Nodes, a \in Names : editName(n, a)
    \/ undoAction
    \/ redoAction
    \/ \E e \in Nodes : mutateSubtree(e) \/ unindexSubtree(e)
    \/ \E r \in Roots : indexSubtree(r)

Spec == Init /\ [][Next]_vars

-----------------------------------------------------------------------------
(***************************************************************************)
(* Properties.                                                             *)
(***************************************************************************)
TypeOK ==
    /\ tree \in Tree
    /\ Shallow(tree)
    /\ dataSources \in [Sources -> Roots \union {None}]
    /\ \A s \in Sources : dataSources[s] # None => SrcOf[dataSources[s]] = s
    /\ nodeIndex \in [Ids -> Nodes \union {None}]
    /\ sharedIds \subseteq Ids
    /\ context \in Roots \union Nodes \union {None}
    /\ entries \subseteq Nodes
    /\ preview \in Nodes \union {None}
    /\ undo \in [Sources -> Seq(Step)] /\ redo \in [Sources -> Seq(Step)]

Found == OpenNodes(tree, dataSources)

\* The index is of the open trees, through every edit, undo, reload, close and
\* host's edit that keeps it piecemeal: it holds exactly the ids of their nodes, each
\* with a node that answers to it now (registerSource, reindexAround, unindexHeld).
IndexIsOfTheTrees ==
    LET held == IdsOf(tree, Found)
    IN  \A i \in DOMAIN nodeIndex :
            IF i \in held THEN nodeIndex[i] \in Found /\ id(tree, nodeIndex[i]) = i
            ELSE nodeIndex[i] = None

\* An id names a node only when it names one: findNodeById answers with the only node
\* of the open files that answers to the id, and with none where two do, or two
\* answer to what it is inside, however the twins came together or were parted.
FoundIsTheOne ==
    LET alone == {n \in Found : \A m \in Found \ {n, tree.up[n]} :
                                    ~IsPrefix(id(tree, m), id(tree, n))}
    IN  \A i \in DOMAIN nodeIndex :
            resolveId(i) = IF i \in IdsOf(tree, alone)
                           THEN CHOOSE n \in alone : id(tree, n) = i ELSE None

\* A step made or undone for a selection-driven call, which moves the selection on.
Followed ==
    \E s \in Sources :
        \/ Len(undo'[s]) > Len(undo[s]) /\ Last(undo'[s]).follow
        \/ Len(redo'[s]) > Len(redo[s]) /\ Last(redo'[s]).follow

Selected == ({context} \intersect Nodes) \union entries \union ({preview} \ {None})

LetsGo ==
    /\ entries' \subseteq Found'
    /\ Selected' \subseteq Found' \union (Selected \ Found) \/ Followed

\* No call but a selection-driven one leaves the context or the preview at a node that is
\* in no open file, and none at all leaves a selected entry there: not a close, a reload,
\* a removal by id, a host's edit, nor the undo or redo of one under another's context.
SelectionIsLetGo == [][LetsGo]_<<tree, dataSources, selection>>

\* A step can be made again, or undone, on the tree t of root r.
Applies(t, r, c) ==
    \A n \in c.on :
        CASE c.op = "add"    -> t.up[n] = None /\ ownerSourceOf(t, c.at) = r
          [] c.op = "delete" -> t.up[n] = c.at /\ ownerSourceOf(t, c.at) = r
          [] c.op = "rename" -> t.name[n] = c.from /\ ownerSourceOf(t, n) = r
Reverses(t, r, c) == Applies(Undone(t, c), r, c) /\ Done(Undone(t, c), c) = t

\* The tree once all but the first k steps have been undone, or redone.
UndoneFrom(s, k) ==
    LET from[i \in k .. Len(undo[s])] ==
            IF i = Len(undo[s]) THEN tree ELSE Undone(from[i + 1], undo[s][i + 1])
    IN  from[k]
RedoneFrom(s, k) ==
    LET from[i \in k .. Len(redo[s])] ==
            IF i = Len(redo[s]) THEN tree ELSE Done(from[i + 1], redo[s][i + 1])
    IN  from[k]

\* A file's history is of the tree open under it, and can be walked end to end: each
\* step undoes what the one after it leaves, and each that was undone can be redone
\* (UndoManager: a stack per srcId, a new edit ends the redo, a close or reload both).
HistoryApplies ==
    \A s \in Sources :
        /\ \A k \in DOMAIN undo[s] : Reverses(UndoneFrom(s, k), dataSources[s], undo[s][k])
        /\ \A k \in DOMAIN redo[s] : Applies(RedoneFrom(s, k), dataSources[s], redo[s][k])

\* The file as t has it, and as it is once all its history is undone.
FileIn(t, r) == [n \in flatten(t, r) |-> <<t.up[n], t.name[n]>>]
Opened(s) == FileIn(UndoneFrom(s, 0), dataSources[s])

LeadsBack ==
    \A s \in Sources :
        dataSources[s] # None /\ dataSources'[s] = dataSources[s] /\ <<undo[s], undo'[s]>> # <<<<>>, <<>>>>
        => Opened(s)' = Opened(s)

\* Undoing everything leads back to the file as it was before its first edit: no edit,
\* undo or redo, of this file or under another's context, changes where that is.
HistoryLeadsBack == [][LeadsBack]_<<tree, undo>>

-----------------------------------------------------------------------------
(***************************************************************************)
(* What the invariants rest on.                                            *)
(***************************************************************************)
\* No two files a host opens are labelled alike.
LabelsApart == \A r, q \in Roots : Label[r] = Label[q] => SrcOf[r] = SrcOf[q]

\* A step that renames renames one node.
RenamesOne(c) == c.op = "rename" => {c.from, c.to} \subseteq Names /\ \E n \in Nodes : c.on = {n}

StepsNamed == \A s \in Sources : \A c \in Steps(s) : RenamesOne(c)

\* What is a child, an entry or a parent in the tree, or would be with a step made or undone.
IsChild(n) == \/ tree.up[n] \in Nodes
              \/ \E s \in Sources : \E c \in Steps(s) : n \in c.on /\ c.at \in Nodes
IsTop(n)   == \/ tree.up[n] \in Roots
              \/ \E s \in Sources : \E c \in Steps(s) : n \in c.on /\ c.at \in Roots
IsParent(n) == \/ \E m \in Nodes : tree.up[m] = n
               \/ \E s \in Sources : \E c \in Steps(s) : c.at = n

\* A node keeps its level: what was a child is never an entry, nor has children.
LevelsKept == \A n \in Nodes : IsChild(n) => ~IsTop(n) /\ ~IsParent(n)

\* Every id that two nodes of the open files answer to is known to be shared.
TwinsAreNoted ==
    \A m, n \in Found : m # n /\ id(tree, m) = id(tree, n) => id(tree, n) \in sharedIds
=============================================================================
