------------------------------ MODULE MatFile ------------------------------
(***************************************************************************)
(* A MAT-file open in an editor: a run of records, each one variable, and  *)
(* the subsystem, a record with no name that holds every object the        *)
(* variables have a handle of.  What is edited is written fresh or into    *)
(* the subsystem, and every other record as it was read, so a save decides *)
(* of each variable, by the marks its edits left, which of these it is.    *)
(* The nodes of one object are kept in step by copies.                     *)
(*                                                                         *)
(* A variable here is a plain value, an object of one of two classes or a  *)
(* cell of such values: a Simulink.Parameter, whose Value is an array of   *)
(* which edits change one element, and whose Min is one number; or a       *)
(* string, which typed over a plain value makes an object, and back.  How  *)
(* a value is encoded, and what follows a Value (Dimensions, Complexity,   *)
(* DataType), is left out.                                                 *)
(***************************************************************************)
EXTENDS Integers, SequencesExt, FiniteSetsExt

CONSTANTS
    Files,          \* the files that may be opened
    NewNames,       \* the names a variable may be given
    Values, Texts, Minima,  \* what may be typed of a Value, of a string and of a Min
    Default,        \* what a new variable of each kind holds
    MaxEdits,       \* bounds the edits made, undone or not
    None

MatFileAssumption ==
    /\ MaxEdits \in Nat
    /\ \A f \in Files :
        /\ Len(f.records) < 10 /\ f.subsystem \in 0..Len(f.records)
        /\ f.subsystem # 0 => f.records[f.subsystem].element.kind = "objects"

\* doc: tree is the entries, nodes each node, heap what each Value node holds by its token, master
\* the node each object is edited through, replaced the entry typed over each, created the strings
\* made, whether still held or not, and strayed whether a step was undone in a Value node that a copy
\* had replaced.
VARIABLES
    file,       \* records, which of them is the subsystem (0: none), and its objects, as read
    doc,        \* what is open
    counts,     \* how many entries have each name, None until it is asked (_nameCounts)
    past,       \* the steps done
    future,     \* and those undone
    edits       \* the edits made

vars == <<file, doc, counts, past, future, edits>>

-----------------------------------------------------------------------------
(***************************************************************************)
(* The nodes read of a file: entry i of record i, and member j of its cell *)
(* 10 i + j.  An object's value is the token of its Value node.            *)
(***************************************************************************)
Decoded(element) == element.kind \in {"plain", "object", "string", "cell"}

ReadNode(name, id, e, record, object) ==
    [name |-> name, kind |-> e.kind, record |-> record, status |-> "Saved",
     value   |-> CASE e.kind = "plain" -> e.value [] e.kind = "object" -> id
                   [] e.kind = "string" -> object.value [] OTHER -> None,
     min     |-> IF e.kind = "object" THEN object.min ELSE None,
     object  |-> IF e.kind \in {"object", "string"} THEN e.id ELSE None,
     members |-> IF e.kind = "cell" THEN [j \in DOMAIN e.members |-> 10 * id + j] ELSE <<>>,
     valueEdited |-> FALSE, plainEdited |-> FALSE, objectEdited |-> FALSE]

parseMat(f) ==
    LET shown   == {i \in DOMAIN f.records : Decoded(f.records[i].element)}
        below   == {<<i, j>> \in shown \X (1..9) :
                       /\ f.records[i].element.kind = "cell"
                       /\ j \in DOMAIN f.records[i].element.members}
        ids     == shown \union {10 * p[1] + p[2] : p \in below}
        E(n)    == IF n < 10 THEN f.records[n].element
                   ELSE f.records[n \div 10].element.members[n % 10]
        objects == {n \in ids : E(n).kind = "object"}
    IN  [tree   |-> SelectSeq([i \in DOMAIN f.records |-> i], LAMBDA i : i \in shown),
         nodes  |-> [n \in ids |->
                       ReadNode(IF n < 10 THEN f.records[n].name ELSE None, n, E(n),
                                IF n < 10 THEN n ELSE 0,
                                IF E(n).kind \in {"object", "string"} THEN f.objects[E(n).id] ELSE None)],
         heap   |-> [n \in objects |-> f.objects[E(n).id].value],
         master |-> [o \in DOMAIN f.objects |-> None],
         replaced |-> <<>>, created |-> <<>>, strayed |-> FALSE]

\* The entry a node is in, None of one that is in no tree.
_entryOf(d, n) ==
    LET holds == {e \in Range(d.tree) : e = n \/ n \in Range(d.nodes[e].members)}
    IN  IF holds = {} THEN None ELSE CHOOSE e \in holds : TRUE

IsObject(d, n) == d.nodes[n].object # None
IsParameter(d, n) == d.nodes[n].kind = "object"

ValueOf(d, n) == IF IsParameter(d, n) THEN d.heap[d.nodes[n].value] ELSE d.nodes[n].value

\* What a node shows of itself.
Shows(d, n) == IF IsObject(d, n) THEN [value |-> ValueOf(d, n), min |-> d.nodes[n].min]
               ELSE ValueOf(d, n)

-----------------------------------------------------------------------------
(***************************************************************************)
(* The marks an edit at a node leaves on it and on its entry.              *)
(***************************************************************************)
_markModified(d, n) ==
    LET e == _entryOf(d, n)
    IN  [d EXCEPT !.nodes[n].objectEdited = @ \/ IsObject(d, n),
                  !.nodes[e].status = "Modified", !.nodes[e].valueEdited = TRUE,
                  !.nodes[e].plainEdited = @ \/ ~IsObject(d, n)]

Marks(node) == [v |-> node.valueEdited, p |-> node.plainEdited, o |-> node.objectEdited]

Marked(d, n, marks) ==
    [d EXCEPT !.nodes[n].valueEdited = marks.v, !.nodes[n].plainEdited = marks.p,
              !.nodes[n].objectEdited = marks.o]

\* The marks of a node and of the entry above it; and those put back.
_editMarks(d, n) == [node |-> Marks(d.nodes[n]), entry |-> Marks(d.nodes[_entryOf(d, n)])]

WithMarks(d, n, marks) == Marked(Marked(d, n, marks.node), _entryOf(d, n), marks.entry)

-----------------------------------------------------------------------------
(***************************************************************************)
(* The names of the entries and of the records with no node, counted once  *)
(* and then moved with each entry that comes, goes or is renamed.          *)
(***************************************************************************)
AllNames == (NewNames \union {file.records[i].name : i \in DOMAIN file.records}) \ {None}

Unread == {i \in DOMAIN file.records :
              file.records[i].name # None /\ ~Decoded(file.records[i].element)}

Recounted(d) ==
    [a \in AllNames |-> Cardinality({e \in Range(d.tree) : d.nodes[e].name = a})
                        + Cardinality({i \in Unread : file.records[i].name = a})]

Asked == IF counts = None THEN Recounted(doc) ELSE counts

_namespaceHolds(a) == Asked[a]

_entriesMoved(held, gone, came) ==
    IF held = None THEN None
    ELSE [a \in DOMAIN held |-> held[a] + (IF a = came THEN 1 ELSE 0)
                                        - (IF a = gone THEN 1 ELSE 0)]

-----------------------------------------------------------------------------
(***************************************************************************)
(* The nodes of one object.  What each shows is the file's until an edit   *)
(* is made at one, its master, which is then copied into the others.       *)
(***************************************************************************)
twinGroupsOf(d, o) ==
    LET members == {n \in DOMAIN d.nodes : IsParameter(d, n) /\ d.nodes[n].object = o}
    IN  IF Cardinality(members) > 1 THEN members ELSE {}

_attachedTwins(d, o) ==
    LET attached == {n \in twinGroupsOf(d, o) : _entryOf(d, n) # None}
    IN  IF Cardinality(attached) > 1 THEN attached ELSE {}

AsTheFile(d, n) == Shows(d, n) = file.objects[d.nodes[n].object]

FreshToken(heap) == Min((1..(Cardinality(DOMAIN heap) + 1)) \ DOMAIN heap)

\* A Value is copied as a Value node of its own, and a Min by its field.
copyObjectProperty(d, from, to) ==
    LET held  == Shows(d, from)
        token == IF held.value = Shows(d, to).value THEN d.nodes[to].value ELSE FreshToken(d.heap)
    IN  [d EXCEPT !.nodes[to].value = token, !.nodes[to].min = held.min,
                  !.heap = [t \in DOMAIN @ \union {token} |-> IF t = token THEN held.value ELSE @[t]]]

\* Mutant: what an edit is copied into is not marked edited.
_copiedUnmarked(d, from, to) == copyObjectProperty(d, from, to)

CopiedInto(d, from, to) == _markModified(copyObjectProperty(d, from, to), to)

mirrorTwins(d, o) ==
    LET attached == _attachedTwins(d, o)
        changed  == {n \in attached : ~AsTheFile(d, n)}
        master   == IF d.master[o] # None \/ changed = {} THEN d.master[o]
                    ELSE CHOOSE n \in changed : TRUE
        behind   == {n \in attached : Shows(d, n) # Shows(d, master)}
        copied   == FoldSet(LAMBDA n, c : CopiedInto(c, master, n), d, behind)
    IN  IF attached = {} THEN d
        ELSE IF master \notin attached THEN [d EXCEPT !.master[o] = master]
        ELSE [copied EXCEPT !.master[o] =
                IF \A n \in twinGroupsOf(d, o) : AsTheFile(copied, n) THEN None ELSE master]

\* After an edit anywhere in an entry.
_mirrorTwins(d, e) ==
    FoldSet(LAMBDA o, c : mirrorTwins(c, o), d,
            {o \in DOMAIN d.master :
                file.subsystem # 0 /\ \E n \in twinGroupsOf(d, o) : _entryOf(d, n) = e})

-----------------------------------------------------------------------------
(***************************************************************************)
(* Why a node takes no edit.                                               *)
(***************************************************************************)
PastSubsystem(d, e) ==
    d.nodes[e].record # 0 /\ file.subsystem # 0 /\ d.nodes[e].record > file.subsystem

_twinRefused(d, n) ==
    LET group == twinGroupsOf(d, d.nodes[n].object)
    IN  /\ n \in group
        /\ \/ d.master[d.nodes[n].object] \notin {None, n}
           \/ \E m \in group \ {n} :
                LET e == _entryOf(d, m)
                IN  /\ e # None
                    /\ PastSubsystem(d, e) \/ _namespaceHolds(d.nodes[e].name) > 1

_editRefused(d, n) ==
    LET e == _entryOf(d, n)
    IN  \/ PastSubsystem(d, e)
        \/ _namespaceHolds(d.nodes[e].name) > 1
        \/ IsObject(d, n) /\ _twinRefused(d, n)

-----------------------------------------------------------------------------
(***************************************************************************)
(* The history.  A step of a Value holds the node's own state before and   *)
(* after; one of an element, the Value node it was made in, which a copy   *)
(* may have replaced since.  What nothing holds any more is let go.        *)
(***************************************************************************)
Held(node) == [value |-> node.value, min |-> node.min, marks |-> Marks(node)]

PutBack(d, n, held) ==
    LET m == _markModified(d, n)
    IN  Marked([m EXCEPT !.nodes[n].value = held.value, !.nodes[n].min = held.min], n, held.marks)

Tokens(step) == CASE step.kind = "value" -> {step.before.value, step.after.value}
                  [] step.kind = "row"   -> {step.token}
                  [] OTHER -> {}

Reached(d, steps) ==
    LET read   == {n \in DOMAIN d.nodes : n < 100}
        nodes  == read \union Range(d.tree) \union {st.node : st \in steps}
                    \union {st.made : st \in {s \in steps : s.kind = "retype"}}
        tokens == {d.nodes[n].value : n \in {m \in nodes : IsParameter(d, m)}}
                    \union UNION {Tokens(st) : st \in steps}
    IN  [d EXCEPT !.nodes = [n \in nodes |-> d.nodes[n]],
                  !.heap  = [t \in DOMAIN d.heap \intersect tokens |-> d.heap[t]],
                  !.replaced = [n \in {m \in DOMAIN @ \intersect nodes : @[m] \in nodes} |-> @[n]]]

Make(d, step) ==
    /\ edits < MaxEdits
    /\ edits' = edits + 1
    /\ past' = Append(past, step)
    /\ future' = <<>>
    /\ doc' = Reached(d, Range(past) \union {step})
    /\ UNCHANGED file

\* An edit of node n, by what it makes of the document, and what it is copied into.
Edited(n, d, step) == Make(_mirrorTwins(d, _entryOf(d, n)), step)

-----------------------------------------------------------------------------
(***************************************************************************)
(* The edits.                                                              *)
(***************************************************************************)
InTree == {n \in DOMAIN doc.nodes : _entryOf(doc, n) # None}

TypedOf(kind) == IF kind = "string" THEN Texts ELSE Values

_rename(d, e, name) == [d EXCEPT !.nodes[e].name = name, !.nodes[e].status = "Modified"]

rename(e, name) ==
    LET node == doc.nodes[e]
    IN  /\ e \in Range(doc.tree) /\ name # node.name
        /\ ~PastSubsystem(doc, e)
        /\ _namespaceHolds(name) = 0
        /\ counts' = _entriesMoved(Asked, node.name, name)
        /\ Edited(e, _rename(doc, e, name),
                  [kind |-> "rename", node |-> e, from |-> node.name, to |-> name,
                   marks |-> _editMarks(doc, e)])

\* A whole value typed: of a parameter, as a Value node of its own.
typeValue(n, v) ==
    LET token == FreshToken(doc.heap)
        d     == IF IsParameter(doc, n)
                 THEN [doc EXCEPT !.nodes[n].value = token,
                                  !.heap = [t \in DOMAIN @ \union {token} |->
                                                IF t = token THEN v ELSE @[t]]]
                 ELSE [doc EXCEPT !.nodes[n].value = v]
        typed == _markModified(d, n)
    IN  /\ doc.nodes[n].kind # "cell"
        /\ v \in TypedOf(doc.nodes[n].kind) \ {ValueOf(doc, n)}
        /\ ~_editRefused(doc, n)
        /\ counts' = Asked
        /\ Edited(n, typed, [kind |-> IF IsParameter(doc, n) THEN "value" ELSE "plain", node |-> n,
                             before |-> Held(doc.nodes[n]), after |-> Held(typed.nodes[n]),
                             marks |-> _editMarks(doc, n)])

\* One element typed of the Value of an object, in place.
typeElement(n, v) ==
    LET token == doc.nodes[n].value
    IN  /\ IsParameter(doc, n)
        /\ v # doc.heap[token]
        /\ ~_editRefused(doc, n)
        /\ counts' = Asked
        /\ Edited(n, _markModified([doc EXCEPT !.heap[token] = v], n),
                  [kind |-> "row", node |-> n, token |-> token, from |-> doc.heap[token], to |-> v,
                   marks |-> _editMarks(doc, n)])

_setMinMax(d, n, v) == _markModified([d EXCEPT !.nodes[n].min = v], n)

typeMin(n, v) ==
    /\ IsParameter(doc, n)
    /\ v # doc.nodes[n].min
    /\ ~_editRefused(doc, n)
    /\ counts' = Asked
    /\ Edited(n, _setMinMax(doc, n, v),
              [kind |-> "min", node |-> n, from |-> doc.nodes[n].min, to |-> v])

-----------------------------------------------------------------------------
(***************************************************************************)
(* Variables that come and go, and the members of a cell.                  *)
(***************************************************************************)
\* A new node: a string's is one more object, placed after all that were made before it.
Created(d, n, kind, name, v) ==
    LET made == IF kind = "string" THEN Append(d.created, n) ELSE d.created
        e    == IF kind = "string" THEN [kind |-> kind, id |-> Len(file.objects) + Len(made)]
                ELSE [kind |-> kind, value |-> v]
        node == ReadNode(name, n, e, 0, [value |-> v])
    IN  [d EXCEPT !.nodes = [m \in DOMAIN @ \union {n} |-> IF m = n THEN node ELSE @[m]],
                  !.created = made]

execAddEntry(name, kind) ==
    LET n == 100 + edits
        d == Created(doc, n, kind, name, Default[kind])
    IN  /\ _namespaceHolds(name) = 0
        /\ counts' = _entriesMoved(Asked, None, name)
        /\ Make([d EXCEPT !.tree = Append(@, n), !.nodes[n].status = "New"],
                [kind |-> "add", node |-> n])

execRemoveEntry(e) ==
    /\ e \in Range(doc.tree)
    /\ counts' = _entriesMoved(counts, doc.nodes[e].name, None)
    /\ Make([doc EXCEPT !.tree = Remove(@, e)],
            [kind |-> "remove", node |-> e,
             index |-> CHOOSE i \in DOMAIN doc.tree : doc.tree[i] = e])

removeChildNode(d, cell, n) == _markModified([d EXCEPT !.nodes[cell].members = Remove(@, n)], cell)

execRemoveChild(n) ==
    LET cell == _entryOf(doc, n)
    IN  /\ n \notin Range(doc.tree)
        /\ ~_editRefused(doc, cell)
        /\ counts' = Asked
        /\ Edited(cell, removeChildNode(doc, cell, n),
                  [kind |-> "take", node |-> n, cell |-> cell, marks |-> _editMarks(doc, cell),
                   index |-> CHOOSE i \in DOMAIN doc.nodes[cell].members :
                                doc.nodes[cell].members[i] = n])

-----------------------------------------------------------------------------
(***************************************************************************)
(* A string typed over a plain value, or the other way, makes another      *)
(* variable, or member, in its place.                                      *)
(***************************************************************************)
Swapped(seq, from, to) == [i \in DOMAIN seq |-> IF seq[i] = from THEN to ELSE seq[i]]

swap(d, cell, from, to) ==
    IF cell = None THEN [d EXCEPT !.tree = Swapped(@, from, to)]
    ELSE [d EXCEPT !.nodes[cell].members = Swapped(@, from, to)]

_retype(n, v) ==
    LET kind   == IF doc.nodes[n].kind = "plain" THEN "string" ELSE "plain"
        made   == 100 + edits
        entry  == _entryOf(doc, n)
        cell   == IF entry = n THEN None ELSE entry
        placed == swap(Created(doc, made, kind, doc.nodes[n].name, v), cell, n, made)
        held   == IF cell = None THEN placed ELSE _markModified(placed, cell)
        marked == IF v = Default[kind] THEN held ELSE _markModified(held, made)
    IN  /\ doc.nodes[n].kind \in {"plain", "string"}
        /\ v \in TypedOf(kind)
        /\ ~_editRefused(doc, n)
        /\ counts' = Asked
        /\ Make(IF cell # None THEN marked
                ELSE [marked EXCEPT !.replaced = [m \in DOMAIN @ \union {n} |->
                                                     IF m = n THEN made ELSE @[m]]],
                [kind |-> "retype", node |-> n, made |-> made, cell |-> cell,
                 marks |-> _editMarks(doc, n), remark |-> _editMarks(marked, made)])

-----------------------------------------------------------------------------
(***************************************************************************)
(* Undo and redo.  A Min is set again, and an added variable put back at   *)
(* the end; the rest put back what they hold.  The marks a step found are  *)
(* put back before the copies are made, and after them of a member.        *)
(***************************************************************************)
PutElement(d, st, v) ==
    _markModified([d EXCEPT !.heap[st.token] = v,
                            !.strayed = @ \/ d.nodes[st.node].value # st.token], st.node)

Undone(d, st) ==
    CASE st.kind = "rename" -> WithMarks(_rename(d, st.node, st.from), st.node, st.marks)
      [] st.kind \in {"value", "plain"} -> WithMarks(PutBack(d, st.node, st.before), st.node, st.marks)
      [] st.kind = "row"    -> WithMarks(PutElement(d, st, st.from), st.node, st.marks)
      [] st.kind = "min"    -> _setMinMax(d, st.node, st.from)
      [] st.kind = "add"    -> [d EXCEPT !.tree = Remove(@, st.node)]
      [] st.kind = "remove" -> [d EXCEPT !.tree = InsertAt(@, st.index, st.node)]
      [] st.kind = "retype" ->
            LET d0 == swap(d, st.cell, st.made, st.node)
            IN  IF st.cell = None THEN d0 ELSE Marked(d0, st.cell, st.marks.entry)
      [] st.kind = "take"   ->
            _markModified([d EXCEPT !.nodes[st.cell].members = InsertAt(@, st.index, st.node)], st.cell)

Redone(d, st) ==
    CASE st.kind = "rename" -> _rename(d, st.node, st.to)
      [] st.kind \in {"value", "plain"} -> PutBack(d, st.node, st.after)
      [] st.kind = "row"    -> PutElement(d, st, st.to)
      [] st.kind = "min"    -> _setMinMax(d, st.node, st.to)
      [] st.kind = "add"    -> [d EXCEPT !.tree = Append(@, st.node)]
      [] st.kind = "remove" -> [d EXCEPT !.tree = Remove(@, st.node)]
      [] st.kind = "retype" ->
            LET d0 == swap(d, st.cell, st.node, st.made)
            IN  IF st.cell = None THEN d0 ELSE WithMarks(d0, st.made, st.remark)
      [] st.kind = "take"   -> removeChildNode(d, st.cell, st.node)

\* A step of a whole entry, or of a string's, is copied nowhere.
Mirrored(d, st) ==
    IF st.kind \in {"add", "remove", "retype"} THEN d
    ELSE _mirrorTwins(d, _entryOf(d, IF st.kind = "take" THEN st.cell ELSE st.node))

\* The names a step changes, as they go and come when it is made.
Moved(st, name) ==
    CASE st.kind = "rename" -> [gone |-> st.from, came |-> st.to]
      [] st.kind = "add"    -> [gone |-> None, came |-> name]
      [] st.kind = "remove" -> [gone |-> name, came |-> None]
      [] OTHER -> [gone |-> None, came |-> None]

undo ==
    LET st    == Last(past)
        d     == Mirrored(Undone(doc, st), st)
        moved == Moved(st, doc.nodes[st.node].name)
    IN  /\ past # <<>>
        /\ doc' = Reached(IF st.kind = "take" THEN WithMarks(d, st.cell, st.marks) ELSE d,
                          Range(past) \union Range(future))
        /\ counts' = _entriesMoved(IF st.kind = "min" THEN Asked ELSE counts, moved.came, moved.gone)
        /\ past' = Front(past) /\ future' = <<st>> \o future
        /\ UNCHANGED <<file, edits>>

redo ==
    LET st    == Head(future)
        moved == Moved(st, doc.nodes[st.node].name)
    IN  /\ future # <<>>
        /\ doc' = Reached(Mirrored(Redone(doc, st), st), Range(past) \union Range(future))
        /\ counts' = _entriesMoved(IF st.kind = "min" THEN Asked ELSE counts, moved.gone, moved.came)
        /\ past' = Append(past, st) /\ future' = Tail(future)
        /\ UNCHANGED <<file, edits>>

-----------------------------------------------------------------------------
(***************************************************************************)
(* A save: what is planned of each record, and of what was added, which    *)
(* stands before the subsystem, or where what it was typed over stood.  An *)
(* object in a cell written fresh is the handle it was read as; one made   *)
(* is numbered among those still held.                                     *)
(***************************************************************************)
_liveCreations(d) == SelectSeq(d.created, LAMBDA n : n \in DOMAIN d.nodes /\ _entryOf(d, n) # None)

_liveId(d, n) ==
    IF n \notin Range(d.created) THEN d.nodes[n].object
    ELSE Len(file.objects) + (CHOOSE k \in DOMAIN _liveCreations(d) : _liveCreations(d)[k] = n)

Element(d, n) ==
    LET E(m) == IF IsObject(d, m) THEN [kind |-> d.nodes[m].kind, id |-> _liveId(d, m)]
                ELSE [kind |-> "plain", value |-> d.nodes[m].value]
    IN  IF d.nodes[n].kind # "cell" THEN E(n)
        ELSE [kind |-> "cell",
              members |-> [j \in DOMAIN d.nodes[n].members |-> E(d.nodes[n].members[j])]]

verbatim(i) == [how |-> "verbatim", name |-> file.records[i].name, element |-> file.records[i].element]

renamedOf(d, n) ==
    [how |-> "renamed", name |-> d.nodes[n].name, element |-> file.records[d.nodes[n].record].element]

freshOf(d, n) == [how |-> "fresh", name |-> d.nodes[n].name, element |-> Element(d, n)]

editOf(node) ==
    IF node.status = "New" THEN "value"
    ELSE IF node.status = "Modified" /\ node.valueEdited
         THEN IF node.plainEdited THEN "value" ELSE "objects"
    ELSE IF node.name # file.records[node.record].name THEN "name" ELSE "none"

\* What was typed over an entry, and over that, and is in the tree.
_replacementOf(d, i) ==
    LET over[k \in 0..MaxEdits, n \in DOMAIN d.nodes] ==
            IF n \notin DOMAIN d.replaced \/ k = 0 THEN None
            ELSE LET next == d.replaced[n]
                 IN  IF next \notin Range(d.tree) THEN over[k - 1, next]
                     ELSE IF d.nodes[next].record = 0 THEN next ELSE None
    IN  IF file.subsystem # 0 /\ i > file.subsystem THEN None ELSE over[MaxEdits, i]

PlannedOf(d, i) ==
    IF i \notin DOMAIN d.nodes THEN <<verbatim(i)>>
    ELSE IF i \notin Range(d.tree)
         THEN IF _replacementOf(d, i) = None THEN <<>> ELSE <<freshOf(d, _replacementOf(d, i))>>
    ELSE LET edit == editOf(d.nodes[i])
         IN  CASE edit = "value" -> <<freshOf(d, i)>>
               [] edit = "name" \/ (edit = "objects" /\ d.nodes[i].name # file.records[i].name)
                      -> <<renamedOf(d, i)>>
               [] OTHER -> <<verbatim(i)>>

Added(d) ==
    LET placed == {_replacementOf(d, i) : i \in (DOMAIN file.records \intersect DOMAIN d.nodes)
                                                \ Range(d.tree)}
        added  == SelectSeq(d.tree, LAMBDA n : d.nodes[n].record = 0 /\ n \notin placed)
    IN  [k \in DOMAIN added |-> freshOf(d, added[k])]

planOf(d) ==
    FlattenSeq([i \in DOMAIN file.records |->
                   IF i = file.subsystem THEN Added(d) \o <<verbatim(i)>> ELSE PlannedOf(d, i)])
    \o (IF file.subsystem = 0 THEN Added(d) ELSE <<>>)

refuseDuplicates(plan) ==
    \E i, j \in DOMAIN plan : i # j /\ plan[i].name = plan[j].name /\ plan[i].how # "verbatim"

\* The variables whose objects are asked for their edits, and the objects of them edited.
Under(d, e) == {e} \union Range(d.nodes[e].members)

OfObjects(d) ==
    {e \in Range(d.tree) :
        IF d.nodes[e].record # 0 THEN editOf(d.nodes[e]) \in {"value", "objects"}
        ELSE Under(d, e) \intersect Range(d.created) # {}}

EditedObjects(d) ==
    {n \in UNION {Under(d, e) : e \in OfObjects(d)} : d.nodes[n].objectEdited}

\* What the edits of an object set one of its properties to: the file's is no edit.
SetTo(d, o, property(_)) ==
    {property(Shows(d, n)) : n \in {m \in EditedObjects(d) : d.nodes[m].object = o}}
        \ {property(file.objects[o])}

Val(shown) == shown.value
Minimum(shown) == shown.min

_objectSubsystemEdit(d) ==
    LET Of(o, property(_)) == IF SetTo(d, o, property) = {} THEN property(file.objects[o])
                              ELSE CHOOSE v \in SetTo(d, o, property) : TRUE
        live == _liveCreations(d)
    IN  [o \in DOMAIN file.objects |-> [value |-> Of(o, Val), min |-> Of(o, Minimum)]]
        \o (IF OfObjects(d) = {} THEN <<>>
            ELSE [k \in DOMAIN live |-> IF live[k] \in EditedObjects(d) THEN Shows(d, live[k])
                                        ELSE [value |-> Default["string"], min |-> None]])

SaveRefused(d) ==
    \/ \E e \in Range(d.tree) : PastSubsystem(d, e) /\ editOf(d.nodes[e]) # "none"
    \/ refuseDuplicates(planOf(d))
    \/ \E o \in DOMAIN file.objects :
          Cardinality(SetTo(d, o, Val)) > 1 \/ Cardinality(SetTo(d, o, Minimum)) > 1

serializeMatFile(d) ==
    IF SaveRefused(d) THEN None ELSE [plan |-> planOf(d), objects |-> _objectSubsystemEdit(d)]

-----------------------------------------------------------------------------
Init ==
    /\ file \in Files
    /\ doc = parseMat(file)
    /\ counts = None
    /\ past = <<>> /\ future = <<>> /\ edits = 0

Next ==
    \/ \E n \in InTree :
          \/ \E name \in NewNames : rename(n, name)
          \/ \E v \in Values : typeValue(n, v) \/ typeElement(n, v)
          \/ \E v \in Texts : typeValue(n, v)
          \/ \E v \in Minima : typeMin(n, v)
          \/ \E v \in Values \union Texts : _retype(n, v)
          \/ execRemoveEntry(n) \/ execRemoveChild(n)
    \/ \E name \in NewNames, kind \in DOMAIN Default : execAddEntry(name, kind)
    \/ undo
    \/ redo

Spec == Init /\ [][Next]_vars

-----------------------------------------------------------------------------
(***************************************************************************)
(* What is promised.                                                       *)
(***************************************************************************)
TypeOK ==
    /\ file \in Files
    /\ Range(doc.tree) \subseteq DOMAIN doc.nodes /\ IsInjective(doc.tree)
    /\ \A n \in DOMAIN doc.nodes : IsParameter(doc, n) => doc.nodes[n].value \in DOMAIN doc.heap
    /\ \A o \in DOMAIN doc.master : doc.master[o] \in DOMAIN doc.nodes \union {None}
    /\ edits \in 0..MaxEdits /\ Len(past) + Len(future) <= edits

\* What a file's records and objects are read as, in their order, before the subsystem and past
\* it; and what the tree shows.
Loaded(plan, objects) ==
    LET read(e) == CASE e.kind = "plain"  -> e.value
                     [] e.kind \in {"object", "string"} -> objects[e.id]
                     [] OTHER -> [j \in DOMAIN e.members |->
                                     IF e.members[j].kind = "plain" THEN e.members[j].value
                                     ELSE objects[e.members[j].id]]
        at    == {i \in DOMAIN plan : plan[i].element.kind = "objects"}
        shown(i) == IF Decoded(plan[i].element)
                    THEN <<[name |-> plan[i].name, shows |-> read(plan[i].element),
                            past |-> \E s \in at : s < i]>>
                    ELSE <<>>
    IN  FlattenSeq([i \in DOMAIN plan |-> shown(i)])

ShownTree(d) ==
    LET shows(n) == IF d.nodes[n].kind = "cell"
                    THEN [j \in DOMAIN d.nodes[n].members |-> Shows(d, d.nodes[n].members[j])]
                    ELSE Shows(d, n)
    IN  [k \in DOMAIN d.tree |-> [name |-> d.nodes[d.tree[k]].name, shows |-> shows(d.tree[k]),
                                  past |-> PastSubsystem(d, d.tree[k])]]

Before(shown) == SelectSeq(shown, LAMBDA s : ~s.past)
Beyond(shown) == SelectSeq(shown, LAMBDA s : s.past)

\* Whatever was edited, undone and made again, the file can be saved, and what was saved reads
\* back as the variables shown, in their order: no edit the editor takes is one the save refuses
\* or leaves out, of an object by whichever of its nodes it was made (MatFileWriter,
\* MatNode._objectSubsystemEdit).
SavedIsShown ==
    LET saved == serializeMatFile(doc)
        read  == Loaded(saved.plan, saved.objects)
    IN  /\ saved # None
        /\ Before(read) = Before(ShownTree(doc)) /\ Beyond(read) = Beyond(ShownTree(doc))

\* With every step undone, each record is written as the bytes it was read from, and no object
\* is written, whatever the steps marked and copied (DataModel.editProperty, editMarksOf).
UndoneIsAsRead ==
    past = <<>> => serializeMatFile(doc) = [plan |-> [i \in DOMAIN file.records |-> verbatim(i)],
                                            objects |-> file.objects]

\* No Min is refused when a step sets it again (DataModel.setAgain), which would keep the history
\* from going on, but where a step that changed nothing left the object as no step before it had.
StepsAreTaken ==
    ~doc.strayed =>
        /\ past # <<>> /\ Last(past).kind = "min" => ~_editRefused(doc, Last(past).node)
        /\ future # <<>> /\ Head(future).kind = "min" => ~_editRefused(doc, Head(future).node)
=============================================================================
