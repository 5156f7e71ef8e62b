----------------------------- MODULE McosMerge ------------------------------
(***************************************************************************)
(* What is written into a subsystem: an object of a class, copied from the *)
(* records MATLAB itself wrote of one (McosTemplateMerge.ts), the storage  *)
(* settings an object of the 'handle' system holds (McosSubsystemCodec.ts),*)
(* the properties of an object (McosObjectWrite.ts), and the comparison    *)
(* that every written subsystem is put to before it is handed over.        *)
(***************************************************************************)
EXTENDS McosSubsystem

CONSTANT Templates      \* for each class, its template: a subsystem, the object in it and its row

\* A copy in progress: the subsystem copied into, the row each class has been given, and the
\* object each object of the template has become.
Copying(sub, classes, ids) == [sub |-> sub, classes |-> classes, ids |-> ids]
NoneYet == [k \in {} |-> 0]
With(f, k, v) == [j \in DOMAIN f \cup {k} |-> IF j = k THEN v ELSE f[j]]

NameOnly(name) == [name |-> name, elements |-> <<>>]
AsTemplate     == [name |-> None, elements |-> <<>>]
Bus        == <<"Simulink", "Bus">>
BusElement == <<"Simulink", "BusElement">>
Elements   == "Elements_internal"
ElementTemplate == Templates[BusElement]

-----------------------------------------------------------------------------
(***************************************************************************)
(* Copying a template's object, in the order in which MATLAB appends one:  *)
(* its row and its lists, then each property with what it holds, then its  *)
(* class's row and its list of dynamic properties.                         *)
(***************************************************************************)
\* The properties of the template that a row of the file defaults to what they hold: MATLAB
\* saves none of these.
Rebased(template, sub, row) ==
    LET b == template.sub.blob
        theirs == At(sub.defaults, row)
    IN  {At(b.strings, t.name) : t \in {u \in ToSet(PvListOf(b, template.id)) :
           /\ u.flag = CellKind
           /\ \E d \in ToSet(theirs) : /\ d.name = At(b.strings, u.name)
                                       /\ d.cell = At(template.sub.values, u.value)}}

SavedText(sub, id, saved) ==
    LET list == PvListOf(sub.blob, id)
        at   == Position(sub.blob, list, saved)
    IN  IF at = 0 \/ list[at].flag /= CellKind \/ At(sub.values, list[at].value).kind /= "value" THEN ""
        ELSE At(sub.values, list[at].value).value

Gathered(c, ids) == [st |-> c.st, ids |-> Append(ids, c.id)]
InRow(of, ids)   == [st |-> of.st, cell |-> Reference(ids, of.row)]
WithDefault(c, row, i) == [c.st EXCEPT !.sub.defaults[row + 1][i].cell = c.cell]

RECURSIVE CopyObject(_, _, _, _, _), FillObject(_, _, _, _, _), CopyList(_, _, _, _, _, _, _),
          CopyTriple(_, _, _, _), CopyValue(_, _, _, _, _), CopyReference(_, _, _),
          CopyIds(_, _, _, _), CopyId(_, _, _), Classed(_, _, _), ClassRow(_, _, _),
          CopyDefaults(_, _, _, _, _), CopyElements(_, _, _), CopyNamed(_, _, _, _)

\* A class is given one new row in one append, whether or not the file holds one of it; the
\* objects its defaults hold are copied too.
ClassRow(st, src, k) ==
    LET class == ClassNameOf(src.blob, k)
        row   == Len(st.sub.blob.classes)
        spec  == [namespace |-> class[1], name |-> class[2],
                  alias |-> At(src.blob.strings, At(src.aliases, k)),
                  version |-> At(src.blob.classes, k).version,
                  classData |-> At(src.classData, k), defaults |-> At(src.defaults, k)]
    IN  IF class \in DOMAIN st.classes THEN [st |-> st, row |-> st.classes[class]]
        ELSE [row |-> row,
              st  |-> CopyDefaults([st EXCEPT !.sub = AddClass(@, spec), !.classes = With(@, class, row)],
                                   src, spec.defaults, row, Len(spec.defaults))]

\* Of the first n of them; as below, of the first n of a list.
CopyDefaults(st, src, struct, row, n) ==
    LET before == CopyDefaults(st, src, struct, row, n - 1)
    IN  IF n = 0 THEN st
        ELSE IF ValueCellReferences(struct[n].cell) = "none" THEN before
        ELSE WithDefault(CopyReference(before, src, struct[n].cell), row, n)

Classed(done, src, k) ==
    IF k = None THEN [st |-> done.st, cell |-> Reference(done.ids, None)]
    ELSE InRow(ClassRow(done.st, src, k), done.ids)

CopyId(acc, src, id) ==
    IF id = 0 THEN [acc EXCEPT !.ids = Append(@, 0)]
    ELSE Gathered(CopyObject(acc.st, src, id, AsTemplate, {}), acc.ids)
CopyIds(st, src, ids, n) ==
    IF n = 0 THEN [st |-> st, ids |-> <<>>] ELSE CopyId(CopyIds(st, src, ids, n - 1), src, ids[n])
CopyReference(st, src, cell) == Classed(CopyIds(st, src, cell.ids, Len(cell.ids)), src, cell.class)

CopyTriple(st, src, t, over) ==
    LET saved == At(src.blob.strings, t.name)
    IN  CopyValue([st EXCEPT !.sub = Interned(@, <<saved>>)], src, saved, t, over)

\* A property and what it holds: st has its name.
CopyValue(st, src, saved, t, over) ==
    LET Done(s, flag, value) == [st |-> s, triple |-> Triple(IndexOf(st.sub, saved), flag, value)]
        Held(c)    == Done([c.st EXCEPT !.sub = AddValueCell(@, c.cell)], CellKind, Len(c.st.sub.values))
        Own(cell)  == Held([st |-> st, cell |-> cell])
        Object(c)  == Done(c.st, ObjectKind, c.id)
        Text(sub, text) == Done([st EXCEPT !.sub = sub], StringKind, IndexOf(sub, text))
        Alone(made) == [made EXCEPT !.st.ids = st.ids]
        cell == At(src.values, t.value)
    IN  CASE saved = "Name" /\ over.name /= None -> Own(ValueCell(over.name))
          [] saved = Elements /\ over.elements /= <<>> ->
               Held(Classed(Alone(CopyElements(st, over.elements, 0)),
                            ElementTemplate.sub, ElementTemplate.row))
          [] OTHER ->
             CASE t.flag = StringKind  -> LET text == At(src.blob.strings, t.value)
                                          IN  Text(Interned(st.sub, <<text>>), text)
               [] t.flag = IntegerKind -> Done(st, IntegerKind, t.value)
               [] t.flag = ObjectKind  -> Object(CopyObject(st, src, t.value, AsTemplate, {}))
               [] t.flag = CellKind /\ ValueCellReferences(cell) = "none" -> Own(cell)
               [] OTHER -> Held(CopyReference(st, src, cell))

\* The object's row is there before its lists are filled, and says its class and lists after.
CopyObject(st, src, tid, over, drop) ==
    LET row == At(src.blob.objects, tid)
        id  == Max({Len(st.sub.blob.objects), 1})
        Begun(with) ==
          LET ctor == IF row.ctorList = 0 THEN with.ctorLists ELSE AppendWithNull(with.ctorLists, <<>>)
              pv   == IF row.pvList = 0 THEN with.pvLists ELSE AppendWithNull(with.pvLists, <<>>)
          IN  [st |-> [st EXCEPT !.sub.blob = [with EXCEPT !.ctorLists = ctor, !.pvLists = pv],
                                 !.ids = With(@, tid, id)],
               id     |-> id,
               ctorAt |-> IF row.ctorList = 0 THEN 0 ELSE LastOf(ctor),
               pvAt   |-> IF row.pvList = 0 THEN 0 ELSE LastOf(pv)]
        Said(of, begun) ==
          LET had == of.st.sub.blob.dynamicProps
              dyn == IF row.dynamicProps = 0 THEN had ELSE AppendWithNull(had, <<>>)
          IN  [st |-> [of.st EXCEPT
                         !.sub.blob.dynamicProps = dyn,
                         !.sub.blob.objects[id + 1] =
                            [@ EXCEPT !.classIndex = of.row, !.ctorList = begun.ctorAt,
                                      !.pvList = begun.pvAt,
                                      !.dynamicProps = IF row.dynamicProps = 0 THEN 0 ELSE LastOf(dyn)]],
               id |-> id]
        Filled(begun) == Said(ClassRow(FillObject(begun, src, tid, over, drop), src, row.classIndex), begun)
    IN  IF tid \in DOMAIN st.ids THEN [st |-> st, id |-> st.ids[tid]]
        ELSE Filled(Begun(AppendObjectRow(st.sub).blob))

\* Its arguments, then its properties.
CopyList(st, src, list, n, over, into, at) ==
    LET Into(c) == [c.st EXCEPT !.sub.blob[into][at + 1] = Append(@, c.triple)]
    IN  IF n = 0 THEN st
        ELSE Into(CopyTriple(CopyList(st, src, list, n - 1, over, into, at), src, list[n], over))
FillObject(begun, src, tid, over, drop) ==
    LET ctor == CtorListOf(src.blob, tid)
        pv   == SelectSeq(PvListOf(src.blob, tid), LAMBDA t : At(src.blob.strings, t.name) \notin drop)
    IN  CopyList(CopyList(begun.st, src, ctor, Len(ctor), AsTemplate, "ctorLists", begun.ctorAt),
                 src, pv, Len(pv), over, "pvLists", begun.pvAt)

\* New elements of a bus: in the class row of the bus's own elements (fileRow), or in the one
\* this append gives the class (0).  The row the append gives it is put back at the end.
CopyNamed(st, names, n, drop) ==
    LET t == ElementTemplate
        Over(name) == IF name = SavedText(t.sub, t.id, "Name") THEN AsTemplate ELSE NameOnly(name)
        After(acc) == Gathered(CopyObject([acc.st EXCEPT !.ids = NoneYet], t.sub, t.id, Over(names[n]), drop),
                               acc.ids)
    IN  IF n = 0 THEN [st |-> st, ids |-> <<>>] ELSE After(CopyNamed(st, names, n - 1, drop))
CopyElements(st, names, fileRow) ==
    LET given == IF fileRow = 0 THEN st ELSE [st EXCEPT !.classes = With(@, BusElement, fileRow)]
        drop  == IF fileRow = 0 THEN {} ELSE Rebased(ElementTemplate, st.sub, fileRow)
        Back(made) == IF fileRow = 0 THEN made ELSE [made EXCEPT !.st.classes = st.classes]
    IN  Back(CopyNamed(given, names, Len(names), drop))

-----------------------------------------------------------------------------
(***************************************************************************)
(* What is called: a new object, and the elements of a bus.  A call that   *)
(* throws part way cuts every table back to the length it had.             *)
(***************************************************************************)
Undone(before, after) ==
    LET cut(s, t) == SubSeq(s, 1, Len(t))
        b == before.blob
        a == after.blob
    IN  [after EXCEPT !.blob = [a EXCEPT !.strings = cut(@, b.strings), !.classes = cut(@, b.classes),
                                         !.ctorLists = cut(@, b.ctorLists),
                                         !.objects = cut(@, b.objects),
                                         !.pvLists = cut(@, b.pvLists),
                                         !.dynamicProps = cut(@, b.dynamicProps)],
                      !.classData = cut(@, before.classData), !.aliases = cut(@, before.aliases),
                      !.defaults = cut(@, before.defaults),
                      !.values = before.values, !.rest = before.rest]

UniqueNames(names) == IsInjective(names) /\ ~Contains(names, "")

\* A new object of a class: [ok, sub, classes, id, row].  classes are the rows this append has
\* given already.
Merged(sub, of, id, rest) ==
    LET Said(said) == IF said = None THEN [ok |-> FALSE, sub |-> Undone(sub, of.st.sub)]
                      ELSE [ok |-> TRUE, sub |-> said, classes |-> of.st.classes, id |-> id, row |-> of.row]
    IN  Said(AddClassSystems(of.st.sub, rest))
MergedRow(sub, c, t) == Merged(sub, ClassRow(c.st, t.sub, t.row), c.id, t.sub.rest)
MergeTemplateObject(sub, classes, class, elements) ==
    LET t == Templates[class]
    IN  IF sub.blob.version /= t.sub.blob.version \/ ~UniqueNames(elements) THEN [ok |-> FALSE, sub |-> sub]
        ELSE MergedRow(sub, CopyObject(Copying(sub, classes, NoneYet), t.sub, t.id,
                                       [name |-> None, elements |-> elements], {}), t)

\* Where a bus holds its elements: the cell, or None where it is not one an edit replaces.
ElementsCell(sub, id) ==
    LET b    == sub.blob
        list == PvListOf(b, id)
        at   == Position(b, list, Elements)
        cell == At(sub.values, list[at].value)
    IN  IF \/ ClassNameOf(b, At(b.objects, id).classIndex) /= Bus
           \/ at = 0 \/ list[at].flag /= CellKind \/ cell.kind /= "reference"
           \/ cell.class = None \/ ClassNameOf(b, cell.class) /= BusElement
           \/ Contains(cell.ids, 0) \/ ValueCellUsers(sub, list[at].value) > 1
        THEN None ELSE list[at].value

BusElementsOf(sub, id) == At(sub.values, ElementsCell(sub, id)).ids
WithElements(sub, k, ids) ==
    ReplaceValueCell(sub, k, Reference(ids, At(sub.values, k).class), "reference")

AddElementsAt(sub, classes, k, names) ==
    LET old == At(sub.values, k)
        had == [i \in DOMAIN old.ids |-> SavedText(sub, old.ids[i], "Name")]
        Made(c) == WithElements(c.st.sub, k, old.ids \o c.ids)
    IN  IF k = None \/ ~MeasuredVersion(sub) \/ ~UniqueNames(had \o names) THEN None
        ELSE Made(CopyElements(Copying(sub, classes, NoneYet), names, old.class))
AddBusElements(sub, classes, id, names) == AddElementsAt(sub, classes, ElementsCell(sub, id), names)

\* The reference alone is dropped: what it named stays where it is.
RemoveBusElement(sub, id, at) ==
    LET Of(k) == LET ids == At(sub.values, k).ids
                 IN  IF k = None \/ at \notin DOMAIN ids THEN None
                     ELSE WithElements(sub, k, RemoveAt(ids, at))
    IN  Of(ElementsCell(sub, id))

-----------------------------------------------------------------------------
(***************************************************************************)
(* An object of the 'handle' system: tables of its own inside one cell.    *)
(***************************************************************************)
CoderInfo == <<"Simulink", "CoderInfo">>

\* How each storage class is saved: as which text, and whether in a value cell.
StorageClasses ==
    [Auto           |-> [saved |-> "Auto", charCell |-> FALSE],
     ExportedGlobal |-> [saved |-> "ExportedGlobal", charCell |-> FALSE],
     ExternPointer  |-> [saved |-> "ExternPointer", charCell |-> TRUE]]
SavedClasses == {StorageClasses[c].saved : c \in DOMAIN StorageClasses}

HandleRecords(cell) ==
    LET Of(blob) == IF blob = None \/ ~NoneDangling(blob, cell.values, <<>>) THEN None
                    ELSE [shown |-> cell.shown, blob |-> blob, root |-> cell.root,
                          values |-> cell.values]
    IN  IF IsHandle(cell) THEN Of(ReadBlob(cell.words, TRUE)) ELSE None
HandleCell(h) == [kind |-> "handle", shown |-> h.shown, words |-> WriteBlob(h.blob, TRUE),
                  root |-> h.root, values |-> h.values]
\* A handle whose records do not write back as the cell is not read.
ReadHandle(cell) ==
    LET Of(h) == IF h = None \/ HandleCell(h) /= cell THEN None ELSE h IN Of(HandleRecords(cell))

IsCoderInfo(h) == /\ h /= None
                  /\ ClassNameOf(h.blob, At(h.blob.objects, 1).classIndex) = CoderInfo
HeldText(h, saved) ==
    LET list == PvListOf(h.blob, 1)
        at   == Position(h.blob, list, saved)
    IN  IF at = 0 THEN None
        ELSE IF list[at].flag = StringKind THEN At(h.blob.strings, list[at].value)
        ELSE IF list[at].flag = CellKind /\ At(h.values, list[at].value).kind = "value"
        THEN At(h.values, list[at].value).value ELSE None

\* One setting given: a storage class saved as a string is interned; the others, and the storage
\* class that is not, go into a value cell, the one it has or a new one.
WithSetting(h, saved, value) ==
    LET list  == PvListOf(h.blob, 1)
        at    == Position(h.blob, list, saved)
        class == StorageClasses[value]
        text  == IF saved = "StorageClass" THEN class.saved ELSE value
        strings == InternString(h.blob.strings, text)
        Put(hh, t) == [hh EXCEPT !.blob.pvLists[At(h.blob.objects, 1).pvList + 1][at] = t]
    IN  IF saved = "StorageClass" /\ ~class.charCell
        THEN Put([h EXCEPT !.blob.strings = strings],
                 Triple(list[at].name, StringKind, IndexIn(strings, text)))
        ELSE IF list[at].flag = CellKind
        THEN [h EXCEPT !.values[list[at].value + 1] = ValueCell(text)]
        ELSE Put([h EXCEPT !.values = Append(@, ValueCell(text))],
                 Triple(list[at].name, CellKind, Len(h.values)))

\* The strings and the value cells in the order MATLAB writes them: an object's class and its
\* properties, and the objects a property holds when it is come to.
TakeString(strings, text) ==
    LET at == IndexIn(Tail(strings), text) + 1
    IN  IF at > 0 THEN [strings |-> strings, at |-> at]
        ELSE [strings |-> Append(strings, text), at |-> Len(strings)]

RECURSIVE Visit(_, _, _), VisitTriple(_, _, _, _), VisitList(_, _, _, _), VisitAll(_, _, _, _)
VisitAll(st, h, ids, n) == IF n = 0 THEN st ELSE Visit(VisitAll(st, h, ids, n - 1), h, ids[n])
VisitTriple(s, h, row, i) ==
    LET t     == At(h.blob.pvLists, row.pvList)[i]
        name  == TakeString(s.strings, At(h.blob.strings, t.name))
        text  == TakeString(name.strings, At(h.blob.strings, t.value))
        cell  == At(h.values, t.value)
        ids   == IF cell.kind = "reference" THEN cell.ids ELSE <<>>
        Put(u, value) == [u EXCEPT !.pvLists[row.pvList + 1][i] = Triple(name.at, t.flag, value)]
    IN  CASE t.flag = StringKind -> Put([s EXCEPT !.strings = text.strings], text.at)
          [] t.flag = CellKind   ->
               VisitAll(Put([s EXCEPT !.strings = name.strings, !.values = Append(@, cell)], Len(s.values)),
                        h, ids, Len(ids))
          [] OTHER -> Put([s EXCEPT !.strings = name.strings], t.value)
VisitList(s, h, row, n) == IF n = 0 THEN s ELSE VisitTriple(VisitList(s, h, row, n - 1), h, row, n)
Visit(st, h, id) ==
    LET row  == At(h.blob.objects, id)
        class == At(h.blob.classes, row.classIndex)
        ns   == IF class.namespace = 0 THEN [strings |-> st.strings, at |-> 0]
                ELSE TakeString(st.strings, At(h.blob.strings, class.namespace))
        nm   == TakeString(ns.strings, At(h.blob.strings, class.name))
        begun == IF row.classIndex \in st.named THEN st
                 ELSE [st EXCEPT !.strings = nm.strings, !.named = @ \cup {row.classIndex},
                                 !.classes[row.classIndex + 1] =
                                    [@ EXCEPT !.namespace = ns.at, !.name = nm.at]]
    IN  IF id \in st.seen THEN st
        ELSE VisitList([begun EXCEPT !.seen = @ \cup {id}], h, row, Len(PvListOf(h.blob, id)))

\* Done only where no object has arguments, none shares a list or a cell, and every class has an
\* object: None, the refusal, elsewhere.
RebuildAsMatlab(h) ==
    LET b    == h.blob
        ids  == 1 .. LastOf(b.objects)
        held == SelectSeq(Flat(b.pvLists), LAMBDA t : t.flag = CellKind)
        Of(st) == IF st.named /= ClassRows(b) THEN None
                  ELSE [h EXCEPT !.blob.strings = st.strings, !.blob.classes = st.classes,
                                 !.blob.pvLists = st.pvLists, !.values = st.values]
    IN  IF \/ \E id \in ids : At(b.objects, id).ctorList /= 0
           \/ \E id, jd \in ids : /\ id /= jd /\ At(b.objects, id).pvList /= 0
                                  /\ At(b.objects, id).pvList = At(b.objects, jd).pvList
           \/ ~IsInjective([i \in DOMAIN held |-> held[i].value])
        THEN None
        ELSE Of(VisitAll([strings |-> <<"">>, values |-> <<>>, pvLists |-> b.pvLists,
                          classes |-> b.classes, named |-> {}, seen |-> {}],
                         h, [i \in ids |-> i], LastOf(b.objects)))

\* edits: what each setting named is given.  Only a storage class that was measured is edited.
ReadsBack(made, new) == IF ReadHandle(made) = new THEN made ELSE None
WrittenHandle(new)   == IF new = None THEN None ELSE ReadsBack(HandleCell(new), new)
RECURSIVE WithSettings(_, _, _, _)
WithSettings(h, edits, keys, n) ==
    IF n = 0 THEN h ELSE WithSetting(WithSettings(h, edits, keys, n - 1), keys[n], edits[keys[n]])
EditSettings(h, edits) ==
    LET keys == SelectSeq(<<"StorageClass", "Alias", "Alignment">>, LAMBDA k : k \in DOMAIN edits)
    IN  IF \/ ~IsCoderInfo(h)
           \/ HeldText(h, "StorageClass") \notin SavedClasses
           \/ "StorageClass" \in DOMAIN edits /\ edits["StorageClass"] \notin DOMAIN StorageClasses
           \/ \E k \in DOMAIN edits : HeldText(h, k) = None
        THEN None
        ELSE WrittenHandle(RebuildAsMatlab(WithSettings(h, edits, keys, Len(keys))))
EditHandleCoderInfo(cell, edits) == EditSettings(ReadHandle(cell), edits)

-----------------------------------------------------------------------------
(***************************************************************************)
(* Writing an object's properties.  An operation removes a property or     *)
(* gives it a cell, a string or an integer.                                *)
(***************************************************************************)
Unset(saved)            == [op |-> "remove", saved |-> saved]
SetCell(saved, value)   == [op |-> "cell", saved |-> saved, value |-> ValueCell(value)]
SetOf(op, saved, value) == [op |-> op, saved |-> saved, value |-> value]

ApplyTripleOp(sub, id, op) ==
    LET b    == sub.blob
        list == PvListOf(b, id)
        at   == Position(b, list, op.saved)
        flag == IF op.op = "str" THEN StringKind ELSE IntegerKind
        named == Interned(sub, (IF at = 0 THEN <<op.saved>> ELSE <<>>)
                               \o (IF op.op = "str" THEN <<op.value>> ELSE <<>>))
        triple == Triple(IF at = 0 THEN IndexOf(named, op.saved) ELSE list[at].name, flag,
                         IF op.op = "str" THEN IndexOf(named, op.value) ELSE op.value)
        held == list[at].flag = CellKind
    IN  IF ~OwnPvList(sub, id) THEN None
        ELSE CASE op.op = "remove" -> IF at = 0 THEN sub ELSE WithPvList(sub, id, RemoveAt(list, at))
               [] op.op = "cell"   ->
                    IF at /= 0 /\ held /\ (\/ At(sub.values, list[at].value).kind = "reference"
                                            \/ ValueCellUsers(sub, list[at].value) > 1)
                    THEN None
                    ELSE SetProperty(sub, id, op.saved, op.value, "value")
               [] op.op \in {"str", "int"} ->
                    IF at /= 0 /\ list[at].flag /= flag THEN None
                    ELSE WithPvList(named, id, IF at = 0 THEN Append(list, triple)
                                               ELSE InsertAt(RemoveAt(list, at), at, triple))

RECURSIVE ApplyTripleOps(_, _, _, _)
ApplyTripleOps(sub, id, ops, n) ==
    LET After(s) == IF s = None THEN None ELSE ApplyTripleOp(s, id, ops[n])
    IN  IF n = 0 THEN sub ELSE After(ApplyTripleOps(sub, id, ops, n - 1))

\* The settings of an object of the 'handle' system that another object's property holds: a
\* later operation on one of them takes the place of an earlier.
ApplyHandleOps(sub, owner, saved, ops) ==
    LET list  == PvListOf(sub.blob, owner)
        at    == Position(sub.blob, list, saved)
        edits == [s \in {o.saved : o \in ToSet(ops)} |->
                     ops[Max({i \in DOMAIN ops : ops[i].saved = s})].value.value]
        Of(cell) == IF cell = None THEN None ELSE SetProperty(sub, owner, saved, cell, "handle")
    IN  IF at = 0 \/ list[at].flag /= CellKind THEN None
        ELSE Of(EditHandleCoderInfo(At(sub.values, list[at].value), edits))

\* edits: [id, ops, handleOf], in the order they are made.
ApplyEdit(s, e) ==
    IF s = None THEN None
    ELSE IF e.handleOf /= None THEN ApplyHandleOps(s, e.id, e.handleOf, e.ops)
    ELSE ApplyTripleOps(s, e.id, e.ops, Len(e.ops))
RECURSIVE ApplyObjectOps(_, _, _)
ApplyObjectOps(sub, edits, n) ==
    IF n = 0 THEN sub ELSE ApplyEdit(ApplyObjectOps(sub, edits, n - 1), edits[n])

-----------------------------------------------------------------------------
(***************************************************************************)
(* The comparison a written subsystem is put to: it reads back as meant,   *)
(* names nothing it does not hold, has every record the file had where the *)
(* file had it, has changed nothing no edit was for, and has made no       *)
(* object that another owns or two name.                                   *)
(***************************************************************************)
ReferencesHold(sub) ==
    \A c \in ToSet(sub.values) : c.kind = "reference" =>
       /\ c.class /= None => c.class \in ClassRows(sub.blob)
       /\ \A id \in ToSet(c.ids) :
            /\ Names(sub.blob.objects, id)
            /\ id /= 0 /\ Len(c.ids) = 1 /\ c.class /= None =>
                 At(sub.blob.objects, id).classIndex = c.class

\* Nothing read is moved: an object MATLAB left unfilled may be filled.
Keeps(was, is) == Len(is) >= Len(was) /\ SubSeq(is, 1, Len(was)) = was
NothingMoved(was, is) ==
    LET a == was.blob
        b == is.blob
    IN  /\ Len(is.values) >= Len(was.values) /\ Len(b.ctorLists) >= Len(a.ctorLists)
        /\ Len(b.pvLists) >= Len(a.pvLists) /\ Len(b.dynamicProps) >= Len(a.dynamicProps)
        /\ Keeps(a.strings, b.strings) /\ Keeps(a.classes, b.classes)
        /\ Len(b.objects) >= Len(a.objects)
        /\ \A i \in DOMAIN a.objects : a.objects[i] /= NullObject => b.objects[i] = a.objects[i]
        /\ Keeps(was.classData, is.classData) /\ Keeps(was.aliases, is.aliases)
        /\ Keeps(was.defaults, is.defaults)

UntouchedSame(was, is) ==
    /\ is.blob.version = was.blob.version /\ is.blob.removedProps = was.blob.removedProps
    /\ is.blob.fileHeader = was.blob.fileHeader /\ is.blob.valuePointers = was.blob.valuePointers
    /\ Keeps(was.rest, is.rest)

Unfilled(was, id) == ~Names(was.blob.objects, id) \/ At(was.blob.objects, id) = NullObject
ListsOf(o) == <<o.ctorList, o.pvList, o.dynamicProps>>
HeldBy(b, id) == CtorListOf(b, id) \o PvListOf(b, id)

\* A 'handle' written names its object 1, of the class it shows, and each of its objects holds
\* others of its table, each once.
HandleHolds(h) ==
    /\ h /= None /\ h.root = <<1>>
    /\ ClassNameOf(h.blob, At(h.blob.objects, 1).classIndex) = h.shown
    /\ \A id \in 1 .. LastOf(h.blob.objects) : \A t \in ToSet(PvListOf(h.blob, id)) :
         LET cell == At(h.values, t.value)
         IN  t.flag = CellKind /\ cell.kind = "reference" =>
                 /\ ToSet(cell.ids) \subseteq (1 .. LastOf(h.blob.objects)) \ {id}
                 /\ IsInjective(cell.ids)
    /\ h.shown = CoderInfo => HeldText(h, "StorageClass") \in SavedClasses
HandleShape(h) ==
    IF h = None THEN None
    ELSE <<h.shown, h.root, h.blob.objects,
           [i \in DOMAIN h.blob.classes |-> ClassNameOf(h.blob, i - 1)],
           SelectSeq(h.values, LAMBDA v : v.kind = "reference")>>

\* What the edits made: new objects own their lists and hold only new ones; a reference written
\* names each object once, of its class, and no object two cells name.
NewRecordsHold(was, is) ==
    LET b == is.blob
        ids == 1 .. LastOf(b.objects)
        written == {k \in 0 .. LastOf(is.values) :
                      ~Names(was.values, k) \/ At(was.values, k) /= At(is.values, k)}
        handles == {k \in written : \/ IsHandle(At(is.values, k))
                                    \/ Names(was.values, k) /\ IsHandle(At(was.values, k))}
        NamedBy(id) == {k \in 0 .. LastOf(is.values) :
                          \E r \in ToSet(ReferencesIn(At(is.values, k))) : Contains(r.ids, id)}
    IN  /\ \A id \in {i \in ids : Unfilled(was, i)} :
             /\ \A i \in 1 .. 3 :
                  LET list == ListsOf(At(b.objects, id))[i]
                      held == <<was.blob.ctorLists, was.blob.pvLists, was.blob.dynamicProps>>[i]
                  IN  list /= 0 => /\ list >= Len(held)
                                   /\ \A j \in ids \ {id} : ListsOf(At(b.objects, j))[i] /= list
             /\ \A t \in ToSet(HeldBy(b, id)) :
                  t.flag = ObjectKind => t.value /= id /\ t.value \in ids /\ Unfilled(was, t.value)
        /\ \A k \in written \ handles : \A r \in ToSet(ReferencesIn(At(is.values, k))) :
             /\ IsInjective(r.ids)
             /\ \A id \in ToSet(r.ids) :
                  /\ id \in ids
                  /\ r.class /= None => At(b.objects, id).classIndex = r.class
                  /\ ~\E t \in ToSet(HeldBy(b, id)) : t.flag = CellKind /\ t.value = k
                  /\ NamedBy(id) = {k}
        /\ \A k \in handles : LET new == ReadHandle(At(is.values, k)) IN
             /\ HandleHolds(new)
             /\ Names(was.values, k) /\ IsHandle(At(was.values, k)) =>
                  HandleShape(ReadHandle(At(was.values, k))) = HandleShape(new)
        /\ handles /= {} => Contains(is.rest, "handle")
        /\ Contains(is.rest, "handle") /\ ~Contains(was.rest, "handle") =>
             \E c \in ToSet(is.values) : IsHandle(c)

\* edited: the properties each object edited is given, by its id.
OnlyEdited(was, is, edited) ==
    LET a == was.blob
        b == is.blob
        read == {id \in 1 .. LastOf(a.objects) : At(a.objects, id) /= NullObject}
        Named(id) == IF id \in DOMAIN edited THEN edited[id] ELSE {}
        Kept(blob, list, id) ==
            SelectSeq([i \in DOMAIN list |-> <<At(blob.strings, list[i].name), list[i].flag, list[i].value>>],
                      LAMBDA t : t[1] \notin Named(id))
        Dynamic(blob, id) == LET k == At(blob.objects, id).dynamicProps
                             IN  IF k = 0 THEN <<>> ELSE At(blob.dynamicProps, k)
        free == UNION {{t.value : t \in {u \in ToSet(HeldBy(a, id)) :
                          u.flag = CellKind /\ At(a.strings, u.name) \in Named(id)}} : id \in read}
    IN  /\ \A id \in read :
             /\ Kept(a, CtorListOf(a, id), id) = Kept(b, CtorListOf(b, id), id)
             /\ Kept(a, PvListOf(a, id), id) = Kept(b, PvListOf(b, id), id)
             /\ Dynamic(a, id) = Dynamic(b, id)
        /\ \A k \in 0 .. LastOf(was.values) : k \notin free => At(was.values, k) = At(is.values, k)

\* created, kept: the references of the variables that were made, and of those that stay.
VariablesHold(sub, created, kept) ==
    LET b == sub.blob
        NamedBy(id) == {i \in DOMAIN (created \o kept) : Contains((created \o kept)[i].ids, id)}
        inside == UNION {UNION {ToSet(r.ids) : r \in ToSet(ReferencesIn(c))} : c \in ToSet(sub.values)}
                  \cup {t.value : t \in {u \in ToSet(Flat(b.ctorLists \o b.pvLists)) : u.flag = ObjectKind}}
    IN  \A i \in DOMAIN created :
          /\ created[i].class \in ClassRows(b)
          /\ ClassNameOf(b, created[i].class) = created[i].shown
          /\ \A id \in ToSet(created[i].ids) :
               /\ id \in 1 .. LastOf(b.objects)
               /\ At(b.objects, id).classIndex = created[i].class
               /\ NamedBy(id) = {i} /\ id \notin inside

VerifySubsystem(file, is, was, edited, created, kept) ==
    /\ ReadSubsystem(file) = is
    /\ ReferencesHold(is) /\ NothingMoved(was, is) /\ UntouchedSame(was, is)
    /\ NewRecordsHold(was, is) /\ OnlyEdited(was, is, edited)
    /\ VariablesHold(is, created, kept)
=============================================================================
