--------------------------- MODULE McosSubsystem ----------------------------
(***************************************************************************)
(* The subsystem of a MAT-file: the tables in which MATLAB saves every     *)
(* object of the file, read into records, edited by appending, and written *)
(* back (McosSubsystemCodec.ts).                                           *)
(*                                                                         *)
(* A table of the code is indexed from 0 and holds a null entry there, so  *)
(* entry k of a sequence here is At(s, k).  Its bytes are taken in words   *)
(* of four: a string of the string table is one word, its code.  What the  *)
(* element around the tables is made of is kept byte for byte and is left  *)
(* out, all but the names of the class systems its last element holds.     *)
(***************************************************************************)
EXTENDS Integers, Sequences, FiniteSets, SequencesExt, FiniteSetsExt

CONSTANTS
    Alphabet,   \* the strings there are, in an order: a word of the string table is a place in it
    None      \* what the code holds as null

At(s, k) == s[k + 1]
Names(s, k) == k \in 0 .. Len(s) - 1

\* What a value cell holds: a value, words that name objects, a cell array of such cells, a
\* string array's payload, an object of the 'handle' class system with tables of its own, or
\* an element nothing here reads.
ValueCell(v)      == [kind |-> "value", value |-> v]
Reference(ids, c) == [kind |-> "reference", ids |-> ids, class |-> c]
CellArray(ms)     == [kind |-> "cells", members |-> ms]
Payload(t)        == [kind |-> "payload", text |-> t]
Unread            == [kind |-> "unread"]

StringKind  == 0
CellKind    == 1
IntegerKind == 2
ObjectKind  == 3
Triple(name, flag, value) == [name |-> name, flag |-> flag, value |-> value]

NullClass  == [namespace |-> 0, name |-> 0, version |-> 0]
NullObject == [classIndex |-> 0, child |-> 0, sibling |-> 0, ctorList |-> 0, pvList |-> 0,
               dynamicProps |-> 0]

-----------------------------------------------------------------------------
(***************************************************************************)
(* Writing the tables.                                                     *)
(***************************************************************************)
Padded(ws) == IF Len(ws) % 2 = 0 THEN ws ELSE Append(ws, 0)
Flat(seqs) == FlattenSeq(seqs)
FirstOf(places) == IF places = {} THEN 0 ELSE Min(places)

TripleWords(t) == <<t.name, t.flag, t.value>>
AllTripleWords(list) == Flat([i \in DOMAIN list |-> TripleWords(list[i])])
ListWords(list) == Padded(<<Len(list)>> \o AllTripleWords(list))
IdsWords(ids) == Padded(<<Len(ids)>> \o ids)
ClassWords(c) == <<c.namespace, c.name, c.version, 0>>
ObjectWords(o) == <<o.classIndex, o.child, o.sibling, o.ctorList, o.pvList, o.dynamicProps>>
RemovedWords(r) == <<r.objectId, Len(r.names)>> \o r.names
PerArrayWords(e) == <<e.index, Len(e.triples)>> \o AllTripleWords(e.triples)
PlaceIn(strings, text) == CHOOSE i \in DOMAIN strings : strings[i] = text
CodeOf(string) == PlaceIn(Alphabet, string)

\* The words of the strings, then of sections 0 to 6.
SectionsOf(b) ==
    <<Padded([i \in 1 .. Len(b.strings) - 1 |-> CodeOf(b.strings[i + 1])]),
      Flat([i \in DOMAIN b.classes |-> ClassWords(b.classes[i])]),
      Flat([i \in DOMAIN b.ctorLists |-> ListWords(b.ctorLists[i])]),
      Flat([i \in DOMAIN b.objects |-> ObjectWords(b.objects[i])]),
      Flat([i \in DOMAIN b.pvLists |-> ListWords(b.pvLists[i])]),
      Flat([i \in DOMAIN b.dynamicProps |-> IdsWords(b.dynamicProps[i])]),
      Flat([i \in DOMAIN b.valuePointers |-> IdsWords(b.valuePointers[i])]),
      IF b.removedProps = None THEN <<>>
      ELSE Padded(<<Len(b.removedProps)>>
                  \o Flat([i \in DOMAIN b.removedProps |-> RemovedWords(b.removedProps[i])]))>>

\* Section 7 says where it starts.
FileHeaderWords(header, at) ==
    IF header = None THEN <<>>
    ELSE IF header.perArray = None THEN <<0, 0>>
    ELSE <<1, at + 2>>
         \o Padded(<<Len(header.perArray)>>
                   \o Flat([i \in DOMAIN header.perArray |-> PerArrayWords(header.perArray[i])]))

\* A header of ten words (the version, how many strings, where each section starts) and the
\* sections one after the other.  The tables of a 'handle' object say 0 for the last two.
Assembled(b, handle, sections) ==
    LET start[i \in 0 .. 7] ==
            IF i = 0 THEN 10 + Len(sections[1]) ELSE start[i - 1] + Len(sections[i + 1])
    IN  <<b.version, Len(b.strings) - 1>>
        \o [i \in 1 .. 8 |-> IF handle /\ i >= 7 THEN 0 ELSE start[i - 1]]
        \o Flat(sections) \o FileHeaderWords(b.fileHeader, start[7])
WriteBlob(b, handle) == Assembled(b, handle, SectionsOf(b))

-----------------------------------------------------------------------------
(***************************************************************************)
(* Reading them back.  A read that finds the tables other than the writer  *)
(* makes them gives None, the refusal.                                   *)
(***************************************************************************)
Even(n) == n + (n % 2)
Word(w, q) == w[q + 1]
Words(w, q, n) == SubSeq(w, q + 1, q + n)

\* The lists of the section that reaches from word q to word end, each a count and as many
\* items of so many words, padded; None when one runs past the end.
RECURSIVE ListsAt(_, _, _, _)
ListsAt(w, q, end, width) ==
    IF q >= end THEN IF q = end THEN <<>> ELSE None
    ELSE LET n == Word(w, q)
             After(rest) == IF rest = None THEN None ELSE <<Words(w, q + 1, width * n)>> \o rest
         IN  IF n > (end - q - 1) \div width THEN None
             ELSE After(ListsAt(w, q + Even(1 + width * n), end, width))

\* So many entries from word q, each a key, a count and its items, not padded; and where they
\* end.
RECURSIVE EntriesAt(_, _, _, _, _)
EntriesAt(w, q, count, end, width) ==
    IF count = 0 THEN [entries |-> <<>>, at |-> q]
    ELSE IF q + 2 > end \/ Word(w, q + 1) > (end - q - 2) \div width THEN None
    ELSE LET n == Word(w, q + 1)
             After(rest) ==
                 IF rest = None THEN None
                 ELSE [entries |-> <<[key |-> Word(w, q), items |-> Words(w, q + 2, width * n)]>>
                                   \o rest.entries,
                       at |-> rest.at]
         IN  After(EntriesAt(w, q + 2 + width * n, count - 1, end, width))

TripleOf(ws) == Triple(ws[1], ws[2], ws[3])
TriplesOf(ws) == [i \in 1 .. Len(ws) \div 3 |-> TripleOf(Words(ws, 3 * (i - 1), 3))]
ClassOf(ws) == [namespace |-> ws[1], name |-> ws[2], version |-> ws[3]]
ObjectOf(ws) == [classIndex |-> ws[1], child |-> ws[2], sibling |-> ws[3], ctorList |-> ws[4],
                 pvList |-> ws[5], dynamicProps |-> ws[6]]

\* Where section i starts: the last two of a 'handle' object's tables are at the end.
Start(w, handle, i) == IF handle /\ i >= 6 THEN Len(w) ELSE Word(w, 2 + i)

EntriesEnd(read, from, to) == read /= None /\ from + Even(read.at - from) = to      \* padded

\* Each section that may be missing: [ok, and what it holds].
RemovedOf(w, from, to) ==
    LET Of(read) ==
          IF ~EntriesEnd(read, from, to) THEN [ok |-> FALSE]
          ELSE [ok |-> TRUE,
                held |-> [i \in DOMAIN read.entries |->
                            [objectId |-> read.entries[i].key, names |-> read.entries[i].items]]]
    IN  IF from = to THEN [ok |-> TRUE, held |-> None]
        ELSE Of(EntriesAt(w, from + 1, Word(w, from), to, 1))

FileHeaderOf(w, h) ==
    LET Of(read) ==
          IF ~EntriesEnd(read, h + 2, Len(w)) THEN [ok |-> FALSE]
          ELSE [ok |-> TRUE,
                held |-> [perArray |-> [i \in DOMAIN read.entries |->
                                           [index   |-> read.entries[i].key,
                                            triples |-> TriplesOf(read.entries[i].items)]]]]
    IN  IF h = Len(w) THEN [ok |-> TRUE, held |-> None]
        ELSE IF Word(w, h) = 0 THEN [ok |-> h + 2 = Len(w), held |-> [perArray |-> None]]
        ELSE IF Word(w, h) /= 1 \/ Word(w, h + 1) /= h + 2 THEN [ok |-> FALSE]
        ELSE Of(EntriesAt(w, h + 3, Word(w, h + 2), Len(w), 3))

\* s: where each section starts, and the words end.
TablesOf(w, s, ctorLists, pvLists, dynamicProps, valuePointers, removed, header) ==
    IF None \in {ctorLists, pvLists, dynamicProps, valuePointers} \/ ~removed.ok \/ ~header.ok
    THEN None
    ELSE [version       |-> Word(w, 0),
          strings       |-> <<"">> \o [i \in 1 .. Word(w, 1) |-> Alphabet[Word(w, 9 + i)]],
          classes       |-> [k \in 1 .. (s[1] - s[0]) \div 4 |-> ClassOf(Words(w, s[0] + 4 * (k - 1), 4))],
          ctorLists     |-> [k \in DOMAIN ctorLists |-> TriplesOf(ctorLists[k])],
          objects       |-> [k \in 1 .. (s[3] - s[2]) \div 6 |-> ObjectOf(Words(w, s[2] + 6 * (k - 1), 6))],
          pvLists       |-> [k \in DOMAIN pvLists |-> TriplesOf(pvLists[k])],
          dynamicProps  |-> dynamicProps,
          valuePointers |-> valuePointers,
          removedProps  |-> removed.held,
          fileHeader    |-> header.held]

SectionsAt(w, s) ==
    IF \/ \E i \in 0 .. 7 : s[i] < (IF i = 0 THEN 10 ELSE s[i - 1]) \/ s[i] > Len(w)
       \/ s[0] /= 10 + Even(Word(w, 1))
       \/ (s[1] - s[0]) % 4 /= 0 \/ (s[3] - s[2]) % 6 /= 0
    THEN None
    ELSE TablesOf(w, s, ListsAt(w, s[1], s[2], 3), ListsAt(w, s[3], s[4], 3), ListsAt(w, s[4], s[5], 1),
                  ListsAt(w, s[5], s[6], 1), RemovedOf(w, s[6], s[7]), FileHeaderOf(w, s[7]))

ReadBlob(w, handle) ==
    IF Len(w) < 10 \/ Word(w, 0) \notin (IF handle THEN {1} ELSE {4, 5}) THEN None
    ELSE SectionsAt(w, [i \in 0 .. 7 |-> Start(w, handle, i)])

-----------------------------------------------------------------------------
(***************************************************************************)
(* The subsystem: the tables, a reserved cell, the value cells, and the    *)
(* cells that hold one entry for every class.                              *)
(***************************************************************************)
EmptyStruct == <<>>
PerClass(entries) == [kind |-> "perClass", entries |-> entries]
TrailingCells(version) == IF version = 4 THEN 3 ELSE 4
MeasuredVersion(sub) == sub.blob.version = 4

Writable(sub) ==
    /\ sub.blob.version \in {4, 5}
    /\ (sub.packages = None) = (sub.blob.version = 4)
    /\ sub.packages /= None => Len(sub.packages) = Len(sub.blob.classes)
    /\ Len(sub.classData) = Len(sub.blob.classes) /\ Len(sub.aliases) = Len(sub.blob.classes)
    /\ Len(sub.defaults) = Len(sub.blob.classes)

WriteSubsystem(sub) ==
    [cells |-> <<[kind |-> "blob", words |-> WriteBlob(sub.blob, FALSE)], [kind |-> "reserved"]>>
               \o sub.values
               \o (IF sub.packages = None THEN <<>> ELSE <<PerClass(sub.packages)>>)
               \o <<PerClass(sub.classData), PerClass(sub.aliases), PerClass(sub.defaults)>>,
     rest  |-> sub.rest]

\* Whether the tables name what they do not hold: a string, a value cell, an object, a class
\* row or a list.  List 0 is the null list, which a table of no lists stands for too.
TripleHolds(t, b, values) ==
    /\ Names(b.strings, t.name)
    /\ CASE t.flag = StringKind  -> Names(b.strings, t.value)
         [] t.flag = CellKind    -> Names(values, t.value)
         [] t.flag = IntegerKind -> TRUE
         [] t.flag = ObjectKind  -> Names(b.objects, t.value)
         [] OTHER                -> FALSE

PerArray(b) == IF b.fileHeader = None \/ b.fileHeader.perArray = None THEN <<>>
               ELSE [i \in DOMAIN b.fileHeader.perArray |-> b.fileHeader.perArray[i].triples]
ListOf(lists, k) == k = 0 \/ Names(lists, k)
\* texts: the aliases and the packages of the classes.
NoneDangling(b, values, texts) ==
    /\ Len(b.classes) > 0 => At(b.classes, 0) = NullClass
    /\ Len(b.objects) > 0 => At(b.objects, 0) = NullObject
    /\ \A c \in ToSet(b.classes) : Names(b.strings, c.namespace) /\ Names(b.strings, c.name)
    /\ \A list \in ToSet(b.ctorLists \o b.pvLists \o PerArray(b)) :
         \A t \in ToSet(list) : TripleHolds(t, b, values)
    /\ \A k \in 1 .. Len(b.objects) - 1 :
         LET o == At(b.objects, k)
         IN  /\ o.classIndex >= 1 /\ Names(b.classes, o.classIndex)
             /\ Names(b.objects, o.child) /\ Names(b.objects, o.sibling)
             /\ ListOf(b.ctorLists, o.ctorList) /\ ListOf(b.pvLists, o.pvList)
             /\ ListOf(b.dynamicProps, o.dynamicProps)
    /\ \A ids \in ToSet(b.dynamicProps) : \A id \in ToSet(ids) : Names(b.objects, id)
    /\ b.removedProps /= None =>
         \A r \in ToSet(b.removedProps) :
            Names(b.objects, r.objectId) /\ \A n \in ToSet(r.names) : Names(b.strings, n)
    /\ \A n \in ToSet(texts) : Names(b.strings, n)

LayersOf(cells, rest, blob) ==
    LET trailing == TrailingCells(blob.version)
        perClass(k) == cells[Len(cells) - k].entries      \* the k-th from the last
        packages == IF trailing = 4 THEN perClass(3) ELSE None
        Of(values) ==
          IF NoneDangling(blob, values, perClass(1) \o IF packages = None THEN <<>> ELSE packages)
          THEN [blob |-> blob, values |-> values, packages |-> packages,
                classData |-> perClass(2), aliases |-> perClass(1), defaults |-> perClass(0),
                rest |-> rest]
          ELSE None
    IN  IF \/ Len(cells) < 2 + trailing
           \/ \E k \in 0 .. trailing - 1 : \/ cells[Len(cells) - k].kind /= "perClass"
                                            \/ Len(perClass(k)) /= Len(blob.classes)
        THEN None
        ELSE Of(SubSeq(cells, 3, Len(cells) - trailing))

ReadLayers(file) ==
    LET Of(blob) == IF blob = None THEN None ELSE LayersOf(file.cells, file.rest, blob)
    IN  IF Len(file.cells) < 2 \/ file.cells[1].kind /= "blob" THEN None
        ELSE Of(ReadBlob(file.cells[1].words, FALSE))

\* A file whose records do not write back as the file is not read at all.
ReadSubsystem(file) ==
    LET Of(sub) == IF sub = None \/ ~Writable(sub) \/ WriteSubsystem(sub) /= file THEN None ELSE sub
    IN  Of(ReadLayers(file))

-----------------------------------------------------------------------------
(***************************************************************************)
(* Appending to the tables.  No edit is made of any version but the        *)
(* measured one: the edits of this section are called of that one only.    *)
(***************************************************************************)
EmptyBlob(shape) ==
    [version |-> shape.version, strings |-> <<"">>, classes |-> <<NullClass>>, ctorLists |-> <<>>,
     objects |-> <<NullObject>>, pvLists |-> << <<>> >>, dynamicProps |-> <<>>,
     valuePointers |-> <<>>,
     removedProps |-> IF shape.removedProps = None THEN None ELSE <<>>,
     fileHeader |-> IF shape.fileHeader = None THEN None
                    ELSE [perArray |-> IF shape.fileHeader.perArray = None THEN None
                                       ELSE <<>>]]

\* The subsystem given to a file that has none, of the shape of another.
CreateSubsystem(shape) ==
    [blob |-> EmptyBlob(shape.blob), values |-> <<>>, packages |-> None,
     classData |-> SubSeq(shape.classData, 1, 1), aliases |-> SubSeq(shape.aliases, 1, 1),
     defaults |-> SubSeq(shape.defaults, 1, 1), rest |-> shape.rest]

IndexIn(strings, text) == FirstOf({i \in DOMAIN strings : strings[i] = text}) - 1
IndexOf(sub, text)     == IndexIn(sub.blob.strings, text)
InternString(strings, text) == IF Contains(strings, text) THEN strings ELSE Append(strings, text)
InternStrings(strings, texts) ==
    LET upTo[i \in 0 .. Len(texts)] == IF i = 0 THEN strings ELSE InternString(upTo[i - 1], texts[i])
    IN  upTo[Len(texts)]
Interned(sub, texts) == [sub EXCEPT !.blob.strings = InternStrings(@, texts)]

ClassNameOf(b, k) == <<At(b.strings, At(b.classes, k).namespace), At(b.strings, At(b.classes, k).name)>>
ClassRows(b) == 1 .. Len(b.classes) - 1

\* A class is always given a row of its own, after the null class's, and an entry in every
\* per-class cell; the names of its defaults' fields are among the strings as well.
FieldNames(struct) == [i \in DOMAIN struct |-> struct[i].name]
AddClass(sub, spec) ==
    LET with0 == IF Len(sub.blob.classes) > 0 THEN sub
                 ELSE [sub EXCEPT !.blob.classes = <<NullClass>>,
                                  !.classData = Append(@, EmptyStruct), !.aliases = Append(@, 0),
                                  !.defaults = Append(@, EmptyStruct)]
        named == Interned(with0, <<spec.name, spec.namespace, spec.alias>> \o FieldNames(spec.defaults))
        row   == [namespace |-> IndexOf(named, spec.namespace), name |-> IndexOf(named, spec.name),
                  version |-> spec.version]
    IN  [named EXCEPT !.blob.classes = Append(@, row), !.classData = Append(@, spec.classData),
                      !.aliases = Append(@, IndexOf(named, spec.alias)),
                      !.defaults = Append(@, spec.defaults)]

AppendObjectRow(sub) ==
    LET b == sub.blob
        with0 == IF Len(b.objects) > 0 THEN b
                 ELSE [b EXCEPT !.objects = <<NullObject>>,
                                !.pvLists = IF Len(@) = 0 THEN << <<>> >> ELSE @]
    IN  [sub EXCEPT !.blob = [with0 EXCEPT !.objects = Append(@, NullObject)]]

AppendWithNull(lists, list) == Append(IF Len(lists) = 0 THEN << <<>> >> ELSE lists, list)
AddValueCell(sub, cell) == [sub EXCEPT !.values = Append(@, cell)]
LastOf(s) == Len(s) - 1

-----------------------------------------------------------------------------
(***************************************************************************)
(* Editing what is there.  An edit that throws gives None.               *)
(***************************************************************************)
RECURSIVE HoldsObjectReference(_)
HoldsObjectReference(cell) ==
    \/ cell.kind \in {"reference", "handle", "unread"}
    \/ cell.kind = "cells" /\ \E m \in ToSet(cell.members) : HoldsObjectReference(m)

IsHandle(cell) == cell.kind = "handle"

\* A handle that reads whole, and is replaced by one of its class.
SameHandleClass(x, y) ==
    /\ IsHandle(x) /\ IsHandle(y) /\ x.shown = y.shown
    /\ \A c \in {x, y} : ReadBlob(c.words, TRUE) /= None

\* "how" names what the caller allows: "value", "reference" or "handle".
ReplaceValueCell(sub, k, cell, how) ==
    LET old == At(sub.values, k)
    IN  IF \/ ~Names(sub.values, k)
           \/ how = "handle" /\ ~SameHandleClass(old, cell)
           \/ how = "value" /\ (HoldsObjectReference(old) \/ HoldsObjectReference(cell))
        THEN None
        ELSE [sub EXCEPT !.values[k + 1] = cell]

ValueCellUsers(sub, k) ==
    LET lists == sub.blob.ctorLists \o sub.blob.pvLists \o PerArray(sub.blob)
        uses  == Flat(lists)
    IN  Cardinality({i \in DOMAIN uses : uses[i].flag = CellKind /\ uses[i].value = k})

PvListOf(b, id) == LET k == At(b.objects, id).pvList IN IF k = 0 THEN <<>> ELSE At(b.pvLists, k)
CtorListOf(b, id) == LET k == At(b.objects, id).ctorList IN IF k = 0 THEN <<>> ELSE At(b.ctorLists, k)
Position(b, list, savedName) == 
    FirstOf({i \in DOMAIN list : At(b.strings, list[i].name) = savedName})

\* A property list is edited only when it is one object's own.
OwnPvList(sub, id) ==
    LET b == sub.blob
    IN  /\ id >= 1 /\ Names(b.objects, id)
        /\ At(b.objects, id).pvList /= 0
        /\ \A k \in 0 .. LastOf(b.objects) : k /= id => At(b.objects, k).pvList /= At(b.objects, id).pvList

WithPvList(sub, id, list) == [sub EXCEPT !.blob.pvLists[At(sub.blob.objects, id).pvList + 1] = list]

\* The cell of a property is replaced where it is; a property that holds no cell is given one
\* in its place; one the object does not save is appended.
SetProperty(sub, id, savedName, cell, how) ==
    IF ~OwnPvList(sub, id) THEN None
    ELSE LET b    == sub.blob
             list == PvListOf(b, id)
             at   == Position(b, list, savedName)
             named == Interned(sub, <<savedName>>)
             held == AddValueCell(IF at = 0 THEN named ELSE sub, cell)
             triple == Triple(IF at = 0 THEN IndexOf(named, savedName) ELSE list[at].name,
                              CellKind, LastOf(held.values))
         IN  IF at /= 0 /\ list[at].flag = CellKind
             THEN IF ValueCellUsers(sub, list[at].value) > 1 THEN None
                  ELSE ReplaceValueCell(sub, list[at].value, cell, how)
             ELSE IF /\ how = "value"
                     /\ \/ at /= 0 /\ list[at].flag = ObjectKind
                        \/ HoldsObjectReference(cell)
                  THEN None
             ELSE WithPvList(held, id, IF at = 0 THEN Append(list, triple)
                                       ELSE [list EXCEPT ![at] = triple])

\* The string array an object is, held by its one constructor argument: its cell, or None.
StringObjectOf(sub, id) ==
    LET b    == sub.blob
        list == CtorListOf(b, id)
    IN  IF /\ At(b.objects, id).pvList = 0 /\ Len(list) = 1
           /\ ClassNameOf(b, At(b.objects, id).classIndex) = <<"", "string">>
           /\ At(b.strings, list[1].name) = "any" /\ list[1].flag = CellKind
           /\ At(sub.values, list[1].value).kind = "payload"
        THEN list[1].value ELSE None

\* How a cell names objects: not at all, by being a reference, or somewhere within.
RECURSIVE NamesObjects(_)
NamesObjects(cell) ==
    \/ cell.kind \in {"reference", "unread"}
    \/ cell.kind = "cells" /\ \E m \in ToSet(cell.members) : NamesObjects(m)
ValueCellReferences(cell) ==
    IF cell.kind = "reference" THEN "descriptor" ELSE IF NamesObjects(cell) THEN "nested" ELSE "none"

\* The references a cell holds, and the cell with each of them renamed.
RECURSIVE ReferencesIn(_)
ReferencesIn(cell) ==
    IF cell.kind = "reference" THEN <<cell>>
    ELSE IF cell.kind = "cells" THEN Flat([i \in DOMAIN cell.members |-> ReferencesIn(cell.members[i])]) ELSE <<>>

\* The class systems a stream is said to hold: 'handle' is added beside MCOS and nothing else.
AddClassSystems(sub, names) ==
    LET missing == SelectSeq(names, LAMBDA n : ~Contains(sub.rest, n))
        others  == {n \in ToSet(sub.rest) : n /= "MCOS" /\ ~Contains(names, n)}
    IN  IF missing /= <<>> /\ others /= {} THEN None ELSE [sub EXCEPT !.rest = @ \o missing]
=============================================================================
