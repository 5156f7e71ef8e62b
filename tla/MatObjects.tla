----------------------------- MODULE MatObjects ------------------------------
(***************************************************************************)
(* The objects of a MAT-file open in an editor (MatNode.ts, matObjectEdit, *)
(* MatFileWriter).  An object made is merged at once into a copy of the    *)
(* file's subsystem, and a property edited is only shown; a save merges    *)
(* again what is still held, where some of what was made is not, writes    *)
(* what is shown of each object into the records, and puts the subsystem   *)
(* written to VerifySubsystem.                                             *)
(*                                                                         *)
(* Each variable here is one object: several variables of one object, and  *)
(* variables past the subsystem, are MatFile's.                            *)
(***************************************************************************)
EXTENDS McosMerge

CONSTANTS
    ObjectFiles,          \* the files that may be opened
    Creatable,      \* the classes a variable may be created of (MAT_CREATABLE_CLASSES)
    Offered,        \* what may be typed of each property
    ElementNames,   \* the names a bus element may be given
    ObjectEdits,       \* bounds the edits made, undone or not, the deletes left out
    ObjectDeletes      \* bounds the deletes a history holds

MatObjectsAssumption ==
    /\ ObjectEdits \in Nat /\ ObjectDeletes \in Nat
    /\ Creatable \subseteq DOMAIN Templates /\ BusElement \in DOMAIN Templates

\* mcos: file is what was read, the element of the subsystem, None of none, and the records before
\* it; sub the subsystem of it (_mcosSubsystem), made the objects created and the records they
\* are in (_creation), tree the variables and nodes each of them, by a number: i for record i.
VARIABLES
    mcos,        \* what is open
    mcosPast,       \* the steps done
    mcosFuture,     \* and those undone
    mcosEdits,      \* the edits made, the deletes left out
    outcome     \* the file a save wrote, NoneYet of what was not saved since, None of a save refused

vars == <<mcos, mcosPast, mcosFuture, mcosEdits, outcome>>

-----------------------------------------------------------------------------
(***************************************************************************)
(* What is edited of an object: a property of its own, saved as a cell or  *)
(* as a string; a storage setting, of the object of the 'handle' system it *)
(* holds; or the text a string is.                                         *)
(***************************************************************************)
Own(saved, kind) == [saved |-> saved, kind |-> kind]
OWN_SPOTS ==
    LET of == {<< <<"Simulink", "Parameter">>, <<Own("Value", "cell"), Own("Min", "cell"),
                  Own("StorageClass", "setting"), Own("Alias", "setting")>> >>,
               << <<"", "string">>, <<Own("any", "payload")>> >>,
               << Bus, <<Own("Alignment", "cell"), Own("DataScope", "str")>> >>,
               << BusElement, <<Own("Name", "cell"), Own("DataType", "cell")>> >>,
               << <<"Simulink", "ValueType">>, <<Own("DataType", "cell")>> >>}
    IN  [c \in {p[1] : p \in of} |-> (CHOOSE p \in of : p[1] = c)[2]]
Saved(class) == {s.saved : s \in ToSet(OWN_SPOTS[class])}

\* A property as the object holds it, None of one it does not save; and its class's default.
Held(sub, id, saved) ==
    LET b    == sub.blob
        list == PvListOf(b, id)
        at   == Position(b, list, saved)
        cell == At(sub.values, list[at].value)
    IN  IF at = 0 THEN None
        ELSE CASE list[at].flag = StringKind -> [kind |-> "str", value |-> At(b.strings, list[at].value)]
               [] list[at].flag = CellKind /\ cell.kind = "value" -> [kind |-> "cell", value |-> cell.value]
               [] OTHER -> [kind |-> "other", value |-> None]

DefaultOf(sub, id, saved) ==
    LET of == SelectSeq(At(sub.defaults, At(sub.blob.objects, id).classIndex),
                        LAMBDA d : d.name = saved /\ d.cell.kind = "value")
    IN  IF of = <<>> THEN None ELSE of[1].cell.value

\* The cell of the object of the 'handle' system a parameter holds, read; None of none.
SettingsOf(sub, id) ==
    LET list == PvListOf(sub.blob, id)
        at   == Position(sub.blob, list, "CoderInfo")
    IN  IF at = 0 \/ list[at].flag /= CellKind \/ ~IsHandle(At(sub.values, list[at].value)) THEN None
        ELSE ReadHandle(At(sub.values, list[at].value))

\* The value the file holds of a property; None where it reads as none, and takes no edit.
ReferenceOf(sub, id, spot) ==
    LET TextOf(k)    == IF k = None \/ ValueCellUsers(sub, k) > 1 THEN None ELSE At(sub.values, k).text
        SettingOf(h) == IF IsCoderInfo(h) THEN HeldText(h, spot.saved) ELSE None
        ValueOf(held) == IF held = None THEN DefaultOf(sub, id, spot.saved) ELSE held.value
    IN  CASE spot.kind = "payload" -> TextOf(StringObjectOf(sub, id))
          [] spot.kind = "setting" -> SettingOf(SettingsOf(sub, id))
          [] OTHER -> ValueOf(Held(sub, id, spot.saved))

ShownOf(sub, class, id) ==
    [s \in Saved(class) |->
        ReferenceOf(sub, id, CHOOSE spot \in ToSet(OWN_SPOTS[class]) : spot.saved = s)]

\* The rows under a bus are its elements, and its structure is edited, only where its elements
\* are all read; row i of the file's is element i, and a row added has a number past them.
FileRows(sub, id) == IF ElementsCell(sub, id) = None THEN <<>> ELSE BusElementsOf(sub, id)
RowsOf(sub, class, id) ==
    LET Of(ids) == [i \in DOMAIN ids |-> [key |-> i, shown |-> ShownOf(sub, BusElement, ids[i])]]
    IN  IF class /= Bus THEN <<>> ELSE Of(FileRows(sub, id))

NodeOf(sub, name, class, id) ==
    LET read == sub /= None /\ class \in DOMAIN OWN_SPOTS
    IN  [name |-> name, class |-> class, edited |-> FALSE,
         shown |-> IF read THEN ShownOf(sub, class, id) ELSE NoneYet,
         rows  |-> IF read THEN RowsOf(sub, class, id) ELSE <<>>]

parseMat(f) ==
    LET sub == IF f.element = None THEN None ELSE ReadSubsystem(f.element)
    IN  [file |-> f, sub |-> sub, made |-> None, tree |-> [i \in DOMAIN f.records |-> i],
         nodes |-> [i \in DOMAIN f.records |->
                      NodeOf(sub, f.records[i].name, f.records[i].class, f.records[i].id)]]

-----------------------------------------------------------------------------
(***************************************************************************)
(* The objects created, and those of them a save writes.                   *)
(***************************************************************************)
IsCreated(d, k) == k > Len(d.file.records)
CreatedOf(d) == IF d.made = None THEN <<>> ELSE d.made.created
_liveCreations(d) == SelectSeq(CreatedOf(d), LAMBDA c : Contains(d.tree, c.node))

rowsAdded(before, sub) == [i \in 1 .. Len(sub.blob.objects) - Len(before.blob.objects) |->
                              LastOf(before.blob.objects) + i]

_mergeInto(m, c) ==
    LET Joined(made) ==
          IF ~made.ok THEN None
          ELSE [m EXCEPT !.sub = made.sub, !.classes = made.classes,
                         !.created = Append(@, [node |-> c.node, class |-> c.class, id |-> made.id,
                                                row |-> made.row, rows |-> rowsAdded(m.sub, made.sub)])]
    IN  IF m = None THEN None ELSE Joined(MergeTemplateObject(m.sub, m.classes, c.class, <<>>))
RECURSIVE MergeAll(_, _, _)
MergeAll(m, list, n) == IF n = 0 THEN m ELSE _mergeInto(MergeAll(m, list, n - 1), list[n])

Original(d) == IF d.made /= None THEN d.made.original
               ELSE IF d.file.element /= None THEN d.sub
               ELSE CreateSubsystem(Templates[<<"", "string">>].sub)
Fresh(original) == [original |-> original, sub |-> original, classes |-> NoneYet, created |-> <<>>]

\* What a save starts from: the file's records, and those of the objects created that are still
\* held; where some are not, the others are merged again, alone.
_liveCreation(d) ==
    LET live == _liveCreations(d)
    IN  IF live = <<>> THEN [Fresh(d.sub) EXCEPT !.classes = IF d.made = None THEN @ ELSE d.made.classes]
        ELSE IF live = d.made.created THEN d.made
        ELSE MergeAll(Fresh(d.made.original), live, Len(live))

\* The records an object was read of, and it in them.
StateOf(d, k) ==
    IF IsCreated(d, k)
    THEN [sub |-> d.made.sub,
          id  |-> (CHOOSE c \in ToSet(d.made.created) : c.node = k).id]
    ELSE [sub |-> d.sub, id |-> d.file.records[k].id]

\* An object of those records, in the records a save writes: made, of what is still held.
Remapped(d, made, k, id) ==
    LET of(m) == CHOOSE c \in ToSet(m.created) : c.node = k
        at == FirstOf({i \in DOMAIN of(d.made).rows : of(d.made).rows[i] = id})
    IN  IF ~IsCreated(d, k) \/ at = 0 THEN id ELSE of(made).rows[at]

-----------------------------------------------------------------------------
(***************************************************************************)
(* Planning what is written of an object (planPropertyEdits).  A property  *)
(* set to its class's default is removed, and one held as another kind of  *)
(* value is written as it is held.                                         *)
(***************************************************************************)
PlannedOp(sub, id, spot, value) ==
    LET held    == Held(sub, id, spot.saved)
        default == DefaultOf(sub, id, spot.saved)
        kind    == IF held = None THEN spot.kind ELSE held.kind
    IN  IF default /= None /\ value = default
        THEN IF held = None THEN <<>> ELSE <<Unset(spot.saved)>>
        ELSE IF held /= None /\ held.value = value THEN <<>>
        ELSE <<IF kind = "cell" THEN SetCell(spot.saved, value) ELSE SetOf("str", spot.saved, value)>>

Refusable(sub, id, spot) ==
    LET held == Held(sub, id, spot.saved)
    IN  \/ held = None /\ DefaultOf(sub, id, spot.saved) = None
        \/ held /= None /\ held.kind = "other"

\* The spots of a kind of what is shown of an object that are not as the file holds them.
EditedSpots(sub, id, class, shown, kinds) ==
    SelectSeq(OWN_SPOTS[class],
              LAMBDA s : /\ s.kind \in kinds
                         /\ shown[s.saved] \notin {None, ReferenceOf(sub, id, s)})

\* What a property list takes: the properties set, then those removed.
OpsOf(sub, id, class, shown) ==
    LET Ordered(ops) ==
            SelectSeq(ops, LAMBDA o : o.op /= "remove") \o SelectSeq(ops, LAMBDA o : o.op = "remove")
        Planned(spots) ==
            Flat([i \in DOMAIN spots |-> PlannedOp(sub, id, spots[i], shown[spots[i].saved])])
    IN  Ordered(Planned(EditedSpots(sub, id, class, shown, {"cell", "str"})))

SettingOps(sub, id, class, shown) ==
    LET Of(spots) == [i \in DOMAIN spots |-> SetCell(spots[i].saved, shown[spots[i].saved])]
    IN  Of(EditedSpots(sub, id, class, shown, {"setting"}))

\* No identifier is held under the storage class that takes none.
coderInfo(shown) == "StorageClass" \in DOMAIN shown /\ shown["StorageClass"] = "Auto" =>
                        shown["Alias"] \in {"", None}

\* Two elements of one name make a bus of none.
NamesOf(rows) == [i \in DOMAIN rows |-> rows[i].shown["Name"]]
planPropertyEdits(sub, id, node) ==
    /\ \A s \in ToSet(EditedSpots(sub, id, node.class, node.shown, {"cell", "str"})) : ~Refusable(sub, id, s)
    /\ coderInfo(node.shown)
    /\ IsInjective(NamesOf(node.rows))

-----------------------------------------------------------------------------
(***************************************************************************)
(* A bus as its rows stand: the file's elements kept, in their order, then *)
(* those added.                                                            *)
(***************************************************************************)
Kept(node, n) == SelectSeq([i \in DOMAIN node.rows |-> node.rows[i].key], LAMBDA k : k <= n)
Added(node, n) == SelectSeq(node.rows, LAMBDA r : r.key > n)
busStructureOf(sub, id, node) ==
    LET Of(n) == IF Added(node, n) /= <<>> \/ Len(Kept(node, n)) /= n
                 THEN [kept |-> Kept(node, n), added |-> Added(node, n)] ELSE None
    IN  IF node.class /= Bus THEN None ELSE Of(Len(FileRows(sub, id)))

\* The name each is added under, to be given its own once written: that one, or another where an
\* element kept has it in the file.
AddedAs(kept, names) ==
    LET Numbered(k) == "a" \o ToString(k)
        Free(name, taken) ==
            IF name \notin ToSet(taken) \cup {""} THEN name
            ELSE Numbered(FirstOf({k \in 1 .. Len(taken) + 1 : Numbered(k) \notin ToSet(taken)}))
        all == FoldLeft(LAMBDA taken, name : Append(taken, Free(name, taken)), kept, names)
    IN  SubSeq(all, Len(kept) + 1, Len(all))

\* Which class rows the append that adds them has given already: those of the objects created,
\* though the records written may hold none of these.
WithAdded(cut, id, now, had, classes) ==
    IF cut = None \/ now.added = <<>> THEN cut
    ELSE AddBusElements(cut, classes, id,
                        AddedAs([i \in DOMAIN now.kept |-> had[now.kept[i]]], NamesOf(now.added)))
RECURSIVE CutRows(_, _, _, _)
CutRows(sub, id, gone, n) ==
    LET After(s) == IF s = None THEN None ELSE RemoveBusElement(s, id, gone[n])
    IN  IF n = 0 THEN sub ELSE After(CutRows(sub, id, gone, n - 1))
\* had: the names the file's elements have in it.
projectedBusState(sub, id, now, had, classes) ==
    LET gone == SelectSeq(Reverse([i \in DOMAIN had |-> i]), LAMBDA i : ~Contains(now.kept, i))
    IN  WithAdded(CutRows(sub, id, gone, Len(gone)), id, now, had, classes)

-----------------------------------------------------------------------------
(***************************************************************************)
(* A save.                                                                 *)
(***************************************************************************)
EditedNodes(d) == SelectSeq(d.tree, LAMBDA k : d.nodes[k].edited)

\* The structure of a bus, where its rows do not stand as its records have them.
StructureOf(d, k) == LET at == StateOf(d, k) IN busStructureOf(at.sub, at.id, d.nodes[k])

\* The records with each bus's structure as its rows stand.
ProjectedAt(sub, made, d, k, at) ==
    IF sub = None THEN None
    ELSE projectedBusState(sub, Remapped(d, made, k, at.id), StructureOf(d, k),
                           NamesOf(RowsOf(at.sub, Bus, at.id)), made.classes)
BusNodes(d) == SelectSeq(EditedNodes(d), LAMBDA k : StructureOf(d, k) /= None)
RECURSIVE Projected(_, _, _, _)
Projected(d, made, buses, n) ==
    IF n = 0 THEN made.sub
    ELSE ProjectedAt(Projected(d, made, buses, n - 1), made, d, buses[n], StateOf(d, buses[n]))

\* What is written of each object: its own properties, its settings, and each element it holds.
Target(id, handleOf, ops) == IF ops = <<>> THEN <<>> ELSE <<[id |-> id, handleOf |-> handleOf, ops |-> ops]>>
\* here: the elements as read; there: as written.  One added is held against what is written.
ElementTarget(at, sub, r, e, here) ==
    IF r.key <= Len(here) THEN Target(e, None, OpsOf(at.sub, here[r.key], BusElement, r.shown))
                          ELSE Target(e, None, OpsOf(sub, e, BusElement, r.shown))
ElementTargets(at, sub, rows, here, there) ==
    Flat([i \in DOMAIN rows |-> ElementTarget(at, sub, rows[i], there[i], here)])
TargetsAt(node, at, sub, id) ==
    Target(id, None, OpsOf(at.sub, at.id, node.class, node.shown))
    \o Target(id, "CoderInfo", SettingOps(at.sub, at.id, node.class, node.shown))
    \o (IF node.rows = <<>> THEN <<>>
        ELSE ElementTargets(at, sub, node.rows, FileRows(at.sub, at.id), FileRows(sub, id)))
TargetsOf(d, made, sub, k) ==
    TargetsAt(d.nodes[k], StateOf(d, k), sub, Remapped(d, made, k, StateOf(d, k).id))

\* The strings edited, each as the payload it is and its text.
StringsOf(d, made, live) ==
    LET IsEdited(k, at) ==
            EditedSpots(at.sub, at.id, d.nodes[k].class, d.nodes[k].shown, {"payload"}) /= <<>>
        Of(k, id) == [id |-> id, cell |-> StringObjectOf(live, id), text |-> d.nodes[k].shown["any"]]
        Each(ks) == [i \in DOMAIN ks |-> Of(ks[i], Remapped(d, made, ks[i], StateOf(d, ks[i]).id))]
    IN  Each(SelectSeq(EditedNodes(d), LAMBDA k : IsEdited(k, StateOf(d, k))))

RECURSIVE WithStrings(_, _, _)
WithStrings(sub, strings, n) ==
    LET After(s) == IF s = None THEN None
                    ELSE ReplaceValueCell(s, strings[n].cell, Payload(strings[n].text), "value")
    IN  IF n = 0 THEN sub ELSE After(WithStrings(sub, strings, n - 1))

editedObjects(targets, strings, buses) ==
    LET SavedBy(t) == IF t.handleOf /= None THEN {t.handleOf}
                      ELSE {t.ops[i].saved : i \in DOMAIN t.ops}
        each == {[id |-> targets[i].id, saved |-> SavedBy(targets[i])] : i \in DOMAIN targets}
                \cup {[id |-> e.id, saved |-> {"any"}] : e \in ToSet(strings)}
                \cup {[id |-> id, saved |-> {Elements}] : id \in buses}
    IN  [id \in {e.id : e \in each} |-> UNION {e.saved : e \in {x \in each : x.id = id}}]

\* The variables written: a record as it was read, renumbered nowhere, or one made.
Variable(name, class, id, row) == [name |-> name, class |-> class, id |-> id, row |-> row]
RecordsOf(d, live) ==
    LET Of(k) == IF ~IsCreated(d, k) THEN [d.file.records[k] EXCEPT !.name = d.nodes[k].name]
                 ELSE LET c == CHOOSE x \in ToSet(live) : x.node = k
                      IN  Variable(d.nodes[k].name, c.class, c.id, c.row)
    IN  [i \in DOMAIN d.tree |-> Of(d.tree[i])]
AsReferences(vs) == [i \in DOMAIN vs |-> [ids |-> <<vs[i].id>>, class |-> vs[i].row, shown |-> vs[i].class]]
IsRead(d, v) == \E i \in DOMAIN d.file.records : d.file.records[i].id = v.id /\ d.file.records[i].row = v.row

\* The subsystem written of records edited, where the comparison lets it pass; else None.
Verified(d, made, records, edited, written, element) ==
    VerifySubsystem(element, written, made.original,
                    [id \in {i \in DOMAIN edited : Names(made.original.blob.objects, i)} |-> edited[id]],
                    AsReferences(SelectSeq(records, LAMBDA v : ~IsRead(d, v))),
                    AsReferences(SelectSeq(records, LAMBDA v : IsRead(d, v))))

TargetsIn(d, made, sub) ==
    Flat([i \in DOMAIN EditedNodes(d) |-> TargetsOf(d, made, sub, EditedNodes(d)[i])])

\* made: what the save starts from; sub: with the structure of its buses; written: with the edits.
WritesEdits(d, made, buses, sub, targets, strings) ==
    \E written \in {WithStrings(ApplyObjectOps(sub, targets, Len(targets)), strings, Len(strings))} :
    \E element \in {IF written /= None /\ Writable(written) THEN WriteSubsystem(written) ELSE None},
       edited \in {editedObjects(targets, strings,
                                 {Remapped(d, made, k, StateOf(d, k).id) : k \in ToSet(buses)})},
       records \in {RecordsOf(d, made.created)} :
       outcome' = IF element /= None /\ Verified(d, made, records, edited, written, element)
                  THEN [element |-> element, records |-> records] ELSE None
Writes(d, made, buses, sub, targets, strings) ==
    IF targets = <<>> /\ strings = <<>> /\ sub = d.sub
    THEN outcome' = [element |-> d.file.element, records |-> RecordsOf(d, <<>>)]
    ELSE WritesEdits(d, made, buses, sub, targets, strings)
WritesOf(d, made) ==
    \E buses \in {BusNodes(d)} : \E sub \in {Projected(d, made, buses, Len(buses))} :
       IF sub = None /\ made.sub /= None THEN outcome' = None
       ELSE \E targets \in {TargetsIn(d, made, sub)}, strings \in {StringsOf(d, made, made.sub)} :
               Writes(d, made, buses, sub, targets, strings)
serializeMatFile(d) ==
    \E made \in {_liveCreation(d)} : IF made = None THEN outcome' = None ELSE WritesOf(d, made)

-----------------------------------------------------------------------------
(***************************************************************************)
(* The history: a step holds what it changes, before and after.            *)
(***************************************************************************)
Make(step, d) ==
    /\ mcosEdits' = mcosEdits + (IF step.kind = "remove" THEN 0 ELSE 1)
    /\ mcos' = d
    /\ mcosPast' = Append(mcosPast, step) /\ mcosFuture' = <<>> /\ outcome' = NoneYet

WithNode(d, k, node) == [d EXCEPT !.nodes = With(@, k, node)]

-----------------------------------------------------------------------------
(***************************************************************************)
(* The edits.                                                              *)
(***************************************************************************)
_creationRefusal(d) == /\ d.made = None /\ d.file.element /= None
                       /\ d.sub = None \/ ~MeasuredVersion(d.sub)

\* Whether the file as it was read takes an object of a class, tried once.
_classRefusal(d, class) ==
    \/ class \notin Creatable
    \/ d.file.element /= None /\
         (_creationRefusal(d) \/ ~MergeTemplateObject(d.sub, NoneYet, class, <<>>).ok)

newEntryName(d, class) ==
    <<class[2], Min({n \in 0 .. Len(d.tree) :
                       \A k \in ToSet(d.tree) : d.nodes[k].name /= <<class[2], n>>})>>

execAddEntry(class) ==
    LET k == Len(mcos.file.records) + Len(CreatedOf(mcos)) + 1
    IN  /\ ~_classRefusal(mcos, class)
        /\ \E made \in {_mergeInto(IF mcos.made = None THEN Fresh(Original(mcos)) ELSE mcos.made,
                                 [node |-> k, class |-> class])} :
              /\ made /= None
              /\ Make([kind |-> "add", node |-> k],
                      WithNode([mcos EXCEPT !.made = made, !.tree = Append(@, k)], k,
                               NodeOf(made.sub, newEntryName(mcos, class), class, Last(made.created).id)))

execRemoveEntry(k) ==
    LET at == FirstOf({i \in DOMAIN mcos.tree : mcos.tree[i] = k})
    IN  /\ Len(SelectSeq(mcosPast, LAMBDA st : st.kind = "remove")) < ObjectDeletes
        /\ Make([kind |-> "remove", node |-> k, at |-> at], [mcos EXCEPT !.tree = RemoveAt(@, at)])

\* Why no property of an object is edited, whatever it is given.
Uneditable(d, k) ==
    LET at == StateOf(d, k)
    IN  \/ at.sub = None \/ d.nodes[k].class \notin DOMAIN OWN_SPOTS
        \/ ~MeasuredVersion(at.sub)

\* Why one is not: it reads as none, or it is a setting no storage class, or none MATLAB keeps, is
\* set beside.
matSpotRefusal(node, saved) ==
    \/ node.shown[saved] = None
    \/ saved = "Alias" /\ node.shown["StorageClass"] = "Auto"
    \/ saved \in {"Alias", "StorageClass"} /\ node.shown["StorageClass"] \notin SavedClasses

Edited(node) == [node EXCEPT !.edited = TRUE]
EditNode(k, node) ==
    LET at == StateOf(mcos, k)
    IN  /\ planPropertyEdits(at.sub, at.id, node)
        /\ Make([kind |-> "edit", node |-> k, before |-> mcos.nodes[k], after |-> node],
                WithNode(mcos, k, node))

setProperty(k, saved, value) ==
    LET node == mcos.nodes[k]
    IN  /\ ~Uneditable(mcos, k)
        /\ saved \in DOMAIN node.shown /\ value /= node.shown[saved]
        /\ ~matSpotRefusal(node, saved)
        /\ EditNode(k, Edited([node EXCEPT !.shown[saved] = value]))

setElement(k, i, saved, value) ==
    LET node == mcos.nodes[k]
    IN  /\ ~Uneditable(mcos, k)
        /\ node.rows[i].shown[saved] \notin {None, value}
        /\ EditNode(k, Edited([node EXCEPT !.rows[i].shown[saved] = value]))

\* Rows come and go only where the bus's own cell of elements takes it.
busStructureRefusal(d, k) ==
    LET at == StateOf(d, k)
    IN  Uneditable(d, k) \/ d.nodes[k].class /= Bus \/ ElementsCell(at.sub, at.id) = None

addElement(k, name) ==
    LET node == mcos.nodes[k]
        new  == [ShownOf(ElementTemplate.sub, BusElement, ElementTemplate.id) EXCEPT !["Name"] = name]
        read == StateOf(mcos, k)
        keys == {r.key : r \in ToSet(node.rows)} \cup {Len(FileRows(read.sub, read.id))}
    IN  /\ ~busStructureRefusal(mcos, k)
        /\ ~Contains(NamesOf(node.rows), name)
        /\ EditNode(k, Edited([node EXCEPT !.rows = Append(@, [key |-> Max(keys) + 1, shown |-> new])]))

removeElement(k, i) ==
    /\ ~busStructureRefusal(mcos, k)
    /\ EditNode(k, Edited([mcos.nodes[k] EXCEPT !.rows = RemoveAt(@, i)]))

\* An object made and taken back stays among those created, and is there again when it is redone.
Back(d, st) ==
    CASE st.kind = "add"    -> [d EXCEPT !.tree = SelectSeq(@, LAMBDA k : k /= st.node)]
      [] st.kind = "remove" -> [d EXCEPT !.tree = InsertAt(@, st.at, st.node)]
      [] st.kind = "edit"   -> WithNode(d, st.node, st.before)
Again(d, st) ==
    CASE st.kind = "add"    -> [d EXCEPT !.tree = Append(@, st.node)]
      [] st.kind = "remove" -> [d EXCEPT !.tree = RemoveAt(@, st.at)]
      [] st.kind = "edit"   -> WithNode(d, st.node, st.after)

undo ==
    /\ mcosPast /= <<>>
    /\ mcos' = Back(mcos, Last(mcosPast))
    /\ mcosPast' = Front(mcosPast) /\ mcosFuture' = <<Last(mcosPast)>> \o mcosFuture
    /\ outcome' = NoneYet /\ UNCHANGED mcosEdits
redo ==
    /\ mcosFuture /= <<>>
    /\ mcos' = Again(mcos, Head(mcosFuture))
    /\ mcosPast' = Append(mcosPast, Head(mcosFuture)) /\ mcosFuture' = Tail(mcosFuture)
    /\ outcome' = NoneYet /\ UNCHANGED mcosEdits

\* The file is saved and opened again, while an edit is left to make.
reopen ==
    /\ mcosPast /= <<>> /\ mcosEdits < ObjectEdits /\ outcome \notin {NoneYet, None}
    /\ mcos' = parseMat(outcome)
    /\ mcosPast' = <<>> /\ mcosFuture' = <<>>
    /\ outcome' = NoneYet /\ UNCHANGED mcosEdits

-----------------------------------------------------------------------------
Init ==
    /\ mcos \in {parseMat(f) : f \in ObjectFiles}
    /\ mcosPast = <<>> /\ mcosFuture = <<>> /\ mcosEdits = 0
    /\ outcome = NoneYet

save ==
    /\ outcome = NoneYet /\ serializeMatFile(mcos)
    /\ UNCHANGED <<mcos, mcosPast, mcosFuture, mcosEdits>>

Next ==
    \/ /\ mcosEdits < ObjectEdits
       /\ \/ \E class \in Creatable : execAddEntry(class)
          \/ \E k \in ToSet(mcos.tree) :
                \/ \E saved \in DOMAIN Offered : \E value \in Offered[saved] : setProperty(k, saved, value)
                \/ \E i \in DOMAIN mcos.nodes[k].rows :
                      \/ removeElement(k, i)
                      \/ \E name \in ElementNames : setElement(k, i, "Name", name)
                      \/ \E value \in Offered["DataType"] : setElement(k, i, "DataType", value)
                \/ \E name \in ElementNames : addElement(k, name)
    \/ \E k \in ToSet(mcos.tree) : execRemoveEntry(k)
    \/ undo
    \/ redo
    \/ save
    \/ reopen

Spec == Init /\ [][Next]_vars

-----------------------------------------------------------------------------
(***************************************************************************)
(* What is promised.                                                       *)
(***************************************************************************)
TypeOK ==
    /\ IsInjective(mcos.tree) /\ ToSet(mcos.tree) \subseteq DOMAIN mcos.nodes
    /\ \A c \in ToSet(CreatedOf(mcos)) : c.node \in DOMAIN mcos.nodes /\ IsCreated(mcos, c.node)
    /\ \A k \in DOMAIN mcos.nodes : mcos.nodes[k].name[1] \in STRING
    /\ mcosEdits \in 0 .. ObjectEdits

\* What is shown of each variable, in their order.
ShownTree(d) ==
    LET Of(n) == [name |-> n.name, class |-> n.class, shown |-> n.shown,
                  rows |-> [i \in DOMAIN n.rows |-> n.rows[i].shown]]
    IN  [i \in DOMAIN d.tree |-> Of(d.nodes[d.tree[i]])]

\* Whatever was created, edited, deleted and taken back, the file can be saved: the subsystem a
\* save writes is one its own comparison lets pass, and reads back as the objects shown
\* (MatNode._objectSubsystemEdit, matObjectSubsystemEdit, verifySubsystem).
SavedIsShown ==
    outcome /= NoneYet => outcome /= None /\ ShownTree(parseMat(outcome)) = ShownTree(mcos)

\* What an object of the file holds of each property, in their order.
HeldList(sub, id) ==
    LET Of(t) == <<At(sub.blob.strings, t.name), t.flag,
                   CASE t.flag = StringKind -> <<At(sub.blob.strings, t.value)>>
                     [] t.flag = CellKind -> <<At(sub.values, t.value)>>
                     [] OTHER -> <<t.value>> >>
    IN  [i \in DOMAIN HeldBy(sub.blob, id) |-> Of(HeldBy(sub.blob, id)[i])]
EditedIds(d) ==
    UNION {{StateOf(d, k).id} \cup ToSet(FileRows(d.sub, StateOf(d, k).id)) :
              k \in {j \in ToSet(d.tree) : d.nodes[j].edited /\ ~IsCreated(d, j)}}

\* An object of the file that no edit was made of, a variable's or not, is where it was and holds
\* what it did, whatever is written beside it.
KeptIn(was, is, id) ==
    /\ HeldList(is, id) = HeldList(was, id)
    /\ At(is.defaults, At(is.blob.objects, id).classIndex)
         = At(was.defaults, At(was.blob.objects, id).classIndex)
UntouchedKept ==
    mcos.sub /= None /\ outcome \notin {NoneYet, None} =>
       \A now \in {ReadSubsystem(outcome.element)}, id \in 1 .. LastOf(mcos.sub.blob.objects) \ EditedIds(mcos) :
          At(mcos.sub.blob.objects, id) /= NullObject => KeptIn(mcos.sub, now, id)

\* With every step undone, what was created leaves nothing in the file, and no object is written.
WrittenAsRead == mcosPast = <<>> /\ outcome /= NoneYet => outcome = mcos.file

=============================================================================
