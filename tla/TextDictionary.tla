--------------------------- MODULE TextDictionary ---------------------------
(***************************************************************************)
(* A text dictionary open in a host: the document (JSON), the tree read of *)
(* it that the table shows, the table's edits written into the document as *)
(* range replacements, and the change events the host repaints from, most  *)
(* often by replacing one entry rather than reading everything again       *)
(* (edit/entrySplice.ts, structuralEdit.ts, entryOps.ts, jsonEntrySync.ts). *)
(*                                                                         *)
(* A document is the text of its entries array, as a sequence of elements  *)
(* and commas, each one long, so an offset is a number of them; what else  *)
(* the file holds, indents and the insides of an element are left out.  A  *)
(* change that one table edit, keystroke or undo makes is one replacement. *)
(*                                                                         *)
(* The host is not part of this repository.  It is modelled as the         *)
(* planners' comments and tests say it calls them: one table edit at a     *)
(* time, painted before it is written; its change event matched with what  *)
(* was painted (isPaintedEcho), then with the edit made (planOwnEdit),     *)
(* then with those remembered (planKnownOps, planKnownChange), then by     *)
(* where in the text it lies (planEntrySync); and all read again where     *)
(* none of them knows it.                                                  *)
(***************************************************************************)
EXTENDS Integers, Sequences, FiniteSets, FiniteSetsExt, SequencesExt

CONSTANTS
    Bases,          \* the names entries are made under
    InitialTexts,   \* the documents opened
    Payloads,       \* the entries on the clipboard
    TypedValues,    \* what a keystroke may leave an element's value as
    Chance,         \* whether one entry may be taken for another: a keystroke gives an element
                    \* another's identity or makes a remembered change, or a row edited bears
                    \* another's name and has no uuid
    SameLength,     \* whether two elements may be equally long
    MaxCopies,      \* bounds the numbers uniqueName appends: no fewer than there are entries
    MaxEntries,     \* bounds the elements of a document
    MaxEdits,       \* bounds the changes made to it
    MaxKnown,       \* the edits the host remembers
    None

Sections == {"design", "arch", "other"}

\* SECTION_NAMESPACE: design and arch share one.
Namespace(sec) == IF sec = "other" THEN {"other"} ELSE {"design", "arch"}

\* The classes and values told apart: "num" is a scalar variable, "vec" one that is not,
\* "bus" an object, and "broken" text in an element that no JSON parser reads.
ValueKinds == {"num", "num2", "vec", "bus", "broken"}

\* A name is a base and the numbers appended to it: <<A>>, <<A, 1>>, <<A, 1, 1>>.
Names == {<<b>> : b \in Bases}
             \union {<<b, i>> : b \in Bases, i \in 1 .. MaxCopies}
             \union {<<b, i, j>> : b \in Bases, i \in 1 .. MaxCopies, j \in 1 .. MaxCopies}

Element == [name : Names, uuid : Nat \union {None}, sec : Sections, val : ValueKinds]
Comma   == [name |-> None, uuid |-> None, sec |-> None, val |-> ","]

TextDictionaryAssumption ==
    /\ MaxEntries \in Nat
    /\ MaxCopies \in Nat \ (0 .. MaxEntries)
    /\ MaxEdits \in Nat
    /\ MaxKnown \in Nat
    /\ Chance \in BOOLEAN
    /\ SameLength \in BOOLEAN
    /\ TypedValues \subseteq ValueKinds
    /\ \A t \in InitialTexts : t \in Seq(Element \union {Comma})
    /\ Payloads \subseteq [name : Names, val : ValueKinds \ {"broken"}]

VARIABLES
    text,       \* the document
    model,      \* section -> its entries, in order, as the tree holds them
    fresh,      \* the last wide repaint found a document to read
    pending,    \* the write of a painted edit that has not landed, or None
    known,      \* the ring of remembered edits, newest last
    done,       \* the editor's own undo and redo stacks of changes
    undone,
    uuids,      \* the uuids generated
    edits       \* how many changes the document has had

docVars == <<text, done, undone, edits>>
vars == <<docVars, model, fresh, pending, known, uuids>>

-----------------------------------------------------------------------------
(***************************************************************************)
(* The document.                                                           *)
(***************************************************************************)
\* walkElements: elements with one comma between each and the next.
Scans(t) == /\ t = <<>> \/ Len(t) % 2 = 1
            /\ \A i \in DOMAIN t : (t[i] = Comma) = (i % 2 = 0)

parsesAsJson(t) == Scans(t) /\ \A i \in DOMAIN t : t[i].val # "broken"

Elements(t) == SelectSeq(t, LAMBDA x : x # Comma)

\* SlddNode.parse: each entry into its section, in the order of the array.
Read(t) == [s \in Sections |-> SelectSeq(Elements(t), LAMBDA e : e.sec = s)]

applyTextPatch(t, p) ==
    SubSeq(t, 1, p.offset) \o p.text \o SubSeq(t, p.offset + p.length + 1, Len(t))

Replaced(t, p)  == SubSeq(t, p.offset + 1, p.offset + p.length)
TakenBack(t, p) == [offset |-> p.offset, length |-> Len(p.text), text |-> Replaced(t, p)]

\* What is common before and after is left alone.
minimalReplacement(old, new) ==
    LET shorter == Min({Len(old), Len(new)})
        prefix  == Max({k \in 0 .. shorter : SubSeq(old, 1, k) = SubSeq(new, 1, k)})
        Ending(t, k) == SubSeq(t, Len(t) - k + 1, Len(t))
        suffix  == Max({k \in 0 .. shorter - prefix : Ending(old, k) = Ending(new, k)})
    IN  IF old = new THEN [offset |-> 0, length |-> Len(old), text |-> new]
        ELSE [offset |-> prefix, length |-> Len(old) - suffix - prefix,
              text |-> SubSeq(new, prefix + 1, Len(new) - suffix)]

\* The element a selector names, or 0: by its name, and by its uuid where two have it.
indexOfEntryElement(t, sel) ==
    LET matches == {i \in DOMAIN t : t[i].name = sel.name}
        exact   == {i \in matches : sel.uuid # None /\ t[i].uuid = sel.uuid}
    IN  IF ~Scans(t) \/ matches = {} THEN 0
        ELSE IF Cardinality(matches) > 1 /\ exact # {} THEN Min(exact) ELSE Min(matches)

\* Mutant: the last element is cut like any other, and leaves the comma before it.
findEntryElementSpanForward(t, i) ==
    [offset |-> i - 1, length |-> IF i = Len(t) THEN 1 ELSE 2, text |-> <<>>]

\* The removal of an element with the one comma that goes with it.
findEntryElementSpan(t, i) ==
    CASE Len(t) = 1 -> [offset |-> 0, length |-> 1, text |-> <<>>]
      [] i < Len(t) -> [offset |-> i - 1, length |-> 2, text |-> <<>>]
      [] OTHER      -> [offset |-> i - 2, length |-> 2, text |-> <<>>]

\* deleteEntriesByName: one after another, past any not found.
deleteEntriesByName(t, sels) ==
    FoldLeft(LAMBDA out, sel :
                 LET i == indexOfEntryElement(out, sel) IN
                 IF i = 0 THEN out ELSE applyTextPatch(out, findEntryElementSpan(out, i)),
             t, sels)

\* insertNewEntry of each: at the end of the array (findEntriesArrayInsertion).
insertNewEntries(t, new) ==
    FoldLeft(LAMBDA out, e : IF out = <<>> THEN <<e>> ELSE out \o <<Comma, e>>, t, new)

-----------------------------------------------------------------------------
(***************************************************************************)
(* The tree, and the ops that move it (entryOps.ts).  A row is a section   *)
(* and a name, as an entry's id is.  None is a tree an op threw over.      *)
(***************************************************************************)
Row(sec, name) == [sec |-> sec, name |-> name]

NamesIn(m, secs) == UNION {{m[s][i].name : i \in DOMAIN m[s]} : s \in secs}

\* liveEntry: the one entry indexed under the row, or none.
liveEntry(m, row) == {i \in DOMAIN m[row.sec] : m[row.sec][i].name = row.name}

replaceEntry(m, row, rec) ==
    IF Cardinality(liveEntry(m, row)) # 1 THEN None
    ELSE [m EXCEPT ![row.sec][Max(liveEntry(m, row))] = rec]

removeEntry(m, row) ==
    IF Cardinality(liveEntry(m, row)) # 1 THEN None
    ELSE [m EXCEPT ![row.sec] = RemoveAt(@, Max(liveEntry(m, row)))]

\* At its index, or last where there is no such index any more.
insertEntry(m, sec, at, rec) ==
    [m EXCEPT ![sec] = InsertAt(@, Min({at, Len(@) + 1}), rec)]

ReplaceOp(row, rec)    == [kind |-> "replace", row |-> row, at |-> 0, rec |-> rec]
InsertOp(sec, at, rec) == [kind |-> "insert", row |-> Row(sec, rec.name), at |-> at, rec |-> rec]
RemoveOp(row)          == [kind |-> "remove", row |-> row, at |-> 0, rec |-> None]

applyEntryOps(m, ops) ==
    FoldLeft(LAMBDA t, op :
                 CASE t = None            -> None
                   [] op.kind = "replace" -> replaceEntry(t, op.row, op.rec)
                   [] op.kind = "insert"  -> insertEntry(t, op.row.sec, op.at, op.rec)
                   [] op.kind = "remove"  -> removeEntry(t, op.row),
             m, ops)

\* removeEntries: each with the op that puts it back where it was when it was taken.
removeEntries(m, rows) ==
    FoldLeft(LAMBDA acc, row :
                 LET i == Max(liveEntry(acc.m, row)) IN
                 [m    |-> removeEntry(acc.m, row),
                  redo |-> Append(acc.redo, RemoveOp(row)),
                  undo |-> <<InsertOp(row.sec, i, acc.m[row.sec][i])>> \o acc.undo],
             [m |-> m, redo |-> <<>>, undo |-> <<>>], rows)

\* The name asked for, or that with the first number that is free; there is none past the bound.
FirstFree(base, taken) ==
    LET numbered == {i \in 1 .. MaxCopies : Append(base, i) \notin taken}
    IN  IF base \notin taken THEN base ELSE Append(base, Min(numbered))

\* Mutant: a name is looked for in the section alone.
uniqueNameInSection(m, sec, base) == FirstFree(base, NamesIn(m, {sec}))

\* _uniqueName: free in the namespace.
uniqueName(m, sec, base) == FirstFree(base, NamesIn(m, Namespace(sec)))

\* assertTypeAllowed, and once it is read assertConstantValueAllowed: what a section takes.
Takes(sec, val) ==
    CASE sec = "design" -> TRUE
      [] sec = "arch"   -> val # "vec"
      [] sec = "other"  -> val # "bus"

\* prepareEntryForPaste of each payload in turn, with the uuids from `from` on.
pasteEntries(m, sec, payloads, from) ==
    FoldLeft(LAMBDA acc, p :
                 LET rec == [name |-> uniqueName(acc.m, sec, p.name), uuid |-> from + Len(acc.new),
                             sec |-> sec, val |-> p.val]
                 IN  [m    |-> [acc.m EXCEPT ![sec] = Append(@, rec)],
                      new  |-> Append(acc.new, rec),
                      redo |-> Append(acc.redo, InsertOp(sec, Len(acc.m[sec]) + 1, rec)),
                      undo |-> <<RemoveOp(Row(sec, rec.name))>> \o acc.undo],
             [m |-> m, new |-> <<>>, redo |-> <<>>, undo |-> <<>>], payloads)

-----------------------------------------------------------------------------
(***************************************************************************)
(* What a change event is taken to be: ops on the tree, or None.           *)
(***************************************************************************)
\* isEchoOfEdit and isUndoOfEdit: where it is, how long, and what it writes.  What it takes
\* out is not compared, and is other text only where that is as long.
Echoes(ch, past) == /\ ch = past.submitted
                    /\ SameLength \/ Replaced(text, ch) = past.replaced
Undoes(ch, past) == /\ ch = [offset |-> past.submitted.offset, length |-> Len(past.submitted.text),
                             text   |-> past.replaced]
                    /\ SameLength \/ Replaced(text, ch) = past.submitted.text

Remembered(ch) == {i \in DOMAIN known : Echoes(ch, known[i]) \/ Undoes(ch, known[i])}

planKnownOps(ch) ==
    LET hits == {i \in Remembered(ch) : known[i].redo # None}
    IN  IF hits = {} THEN None
        ELSE LET past == known[Max(hits)] IN IF Echoes(ch, past) THEN past.redo ELSE past.undo

\* resolve: the entries with the record's uuid, or where there are none those with its name.
resolve(m, rec) ==
    LET all   == UNION {{<<s, i>> : i \in DOMAIN m[s]} : s \in Sections}
        uuid  == {x \in all : rec.uuid # None /\ m[x[1]][x[2]].uuid = rec.uuid}
        named == {x \in all : m[x[1]][x[2]].name = rec.name}
    IN  IF uuid # {} THEN uuid ELSE named

\* The text is one element that parses, names one entry, and its section as that entry does.
planFromElementText(m, t) ==
    LET found == resolve(m, t[1])
        x     == CHOOSE x \in found : TRUE
        entry == m[x[1]][x[2]]
    IN  IF /\ Len(t) = 1
           /\ t[1].val \notin {"broken", ","}
           /\ Cardinality(found) = 1
           /\ entry.sec = t[1].sec
        THEN <<ReplaceOp(Row(x[1], entry.name), t[1])>>
        ELSE None

planKnownChange(m, ch) == IF Remembered(ch) = {} THEN None ELSE planFromElementText(m, ch.text)

\* Mutant: how many elements there are is not compared.
planEntrySyncUncounted(m, newText, ch) ==
    IF Scans(newText) THEN planFromElementText(m, ch.text) ELSE None

\* The change is all in one element, and there are as many elements as entries.
planEntrySync(m, newText, ch) ==
    IF Scans(newText) /\ Len(Elements(newText)) = Len(m.design) + Len(m.arch) + Len(m.other)
    THEN planFromElementText(m, ch.text)
    ELSE None

\* A change that is not the edit expected.
planChange(newText, ch) ==
    CASE ~fresh -> None
      [] planKnownOps(ch) # None -> planKnownOps(ch)
      [] planKnownChange(model, ch) # None -> planKnownChange(model, ch)
      [] OTHER -> planEntrySync(model, newText, ch)

\* The wide repaint: the tree is read again, or is left as it is while no tree can be read.
ReadAgain(t) ==
    IF parsesAsJson(t) THEN model' = Read(t) /\ fresh' = TRUE
    ELSE fresh' = FALSE /\ UNCHANGED model

Repaint(t, ops) ==
    IF ops # None /\ applyEntryOps(model, ops) # None
    THEN model' = applyEntryOps(model, ops) /\ UNCHANGED fresh
    ELSE ReadAgain(t)

-----------------------------------------------------------------------------
(***************************************************************************)
(* The table's edits.  Each is painted, and its write submitted.           *)
(***************************************************************************)
Editing == fresh /\ pending = None /\ edits < MaxEdits

\* Where in the document's elements the i-th entry of a section is.
Position(t, sec, i) ==
    CHOOSE k \in DOMAIN Elements(t) :
        /\ Elements(t)[k].sec = sec
        /\ Cardinality({j \in 1 .. k : Elements(t)[j].sec = sec}) = i

\* A selector that can mean only one element.
Certain(t, e) ==
    \/ Cardinality({k \in DOMAIN t : t[k].name = e.name}) = 1
    \/ e.uuid # None /\ Cardinality({k \in DOMAIN t : t[k].uuid = e.uuid}) = 1

\* `wanted` is what the edit is to make of the elements; it is read by no step.
Submit(m, patch, kind, redo, undo, wanted) ==
    /\ Len(wanted) <= MaxEntries
    /\ model' = m
    /\ pending' = [submitted |-> patch, kind |-> kind, redo |-> redo, undo |-> undo,
                   stale |-> FALSE, wanted |-> wanted]
    /\ UNCHANGED <<docVars, fresh, known>>

\* cellEdit, and the splice of the entry where the text had it (spliceEntry).
cellEdit(sec, i, rec) ==
    LET was == model[sec][i]
        at  == indexOfEntryElement(text, was)
    IN  /\ Editing
        /\ Cardinality(liveEntry(model, Row(sec, was.name))) = 1
        /\ rec # was
        /\ Chance \/ Certain(text, was)
        /\ Submit([model EXCEPT ![sec][i] = rec],
                  [offset |-> at - 1, length |-> 1, text |-> <<rec>>],
                  "cell", <<ReplaceOp(Row(sec, rec.name), rec)>>, None,
                  [Elements(text) EXCEPT ![Position(text, sec, i)] = rec])
        /\ UNCHANGED uuids

\* A name another entry of the namespace has is refused (DataNode._setProperty).
renameEntry == \E sec \in Sections : \E i \in DOMAIN model[sec] : \E b \in Bases :
    /\ <<b>> \notin NamesIn(model, Namespace(sec))
    /\ cellEdit(sec, i, [model[sec][i] EXCEPT !.name = <<b>>])

setValue == \E sec \in Sections : \E i \in DOMAIN model[sec] : \E v \in {"num", "num2"} :
    /\ model[sec][i].val \in {"num", "num2"}
    /\ cellEdit(sec, i, [model[sec][i] EXCEPT !.val = v])

\* Entries taken out and payloads pasted into a section, as one write.
Restructure(rows, sec, payloads) ==
    LET entryOf(row) == model[row.sec][Max(liveEntry(model, row))]
        taken   == [k \in DOMAIN rows |-> entryOf(rows[k])]
        removal == removeEntries(model, rows)
        pasted  == pasteEntries(removal.m, sec, payloads, uuids + 1)
        new     == insertNewEntries(deleteEntriesByName(text, taken), pasted.new)
        patch   == CASE rows = <<>> ->
                            [offset |-> Len(text), length |-> 0,
                             text |-> SubSeq(new, Len(text) + 1, Len(new))]
                     [] Len(rows) = 1 /\ payloads = <<>> ->
                            findEntryElementSpan(text, indexOfEntryElement(text, taken[1]))
                     [] OTHER -> minimalReplacement(text, new)
        gone    == {Position(text, r.sec, Max(liveEntry(model, r))) : r \in Range(rows)}
        kept    == SetToSortSeq(DOMAIN Elements(text) \ gone, <)
    IN  /\ Editing
        /\ \A r \in Range(rows) : Cardinality(liveEntry(model, r)) = 1
        /\ Chance \/ \A e \in Range(taken) : Certain(text, e)
        /\ \A p \in Range(payloads) : Takes(sec, p.val)
        /\ Submit(pasted.m, patch, "structural",
                  removal.redo \o pasted.redo, pasted.undo \o removal.undo,
                  [k \in DOMAIN kept |-> Elements(text)[kept[k]]] \o pasted.new)
        /\ uuids' = uuids + Len(payloads)

Rows == UNION {{Row(s, n) : n \in NamesIn(model, {s})} : s \in Sections}

deleteEntries == \E r \in Rows, q \in Rows :
    Restructure(IF r = q THEN <<r>> ELSE <<r, q>>, "design", <<>>)

addNewEntry == \E sec \in Sections, b \in Bases :
    Restructure(<<>>, sec, <<[name |-> <<b>>, val |-> "num"]>>)

paste == \E sec \in Sections, p \in Payloads, q \in Payloads :
    Restructure(<<>>, sec, <<p, q>>)

move == \E sec \in Sections, row \in Rows :
    /\ Cardinality(liveEntry(model, row)) = 1
    /\ LET e == model[row.sec][Max(liveEntry(model, row))]
       IN  Restructure(<<row>>, sec, <<[name |-> e.name, val |-> e.val]>>)

-----------------------------------------------------------------------------
(***************************************************************************)
(* The host's document and its change events (external).                   *)
(***************************************************************************)
Change(ch) ==
    /\ edits < MaxEdits
    /\ text' = applyTextPatch(text, ch)
    /\ Len(Elements(text')) <= MaxEntries
    /\ edits' = edits + 1

\* isPaintedEcho and hintFor: the rows painted are those still shown.
Expected(w) == ~w.stale

\* The write lands, and its event comes: skipped, read back as it was written, or planned.
land ==
    /\ pending # None
    /\ Change(pending.submitted)
    /\ CASE ~Expected(pending) -> Repaint(text', planChange(text', pending.submitted))
         [] Expected(pending) /\ pending.kind = "cell" -> Repaint(text', pending.redo)
         [] OTHER -> UNCHANGED <<model, fresh>>
    /\ known' = LET past == [submitted |-> pending.submitted,
                             replaced  |-> Replaced(text, pending.submitted),
                             redo      |-> IF pending.kind = "cell" THEN None ELSE pending.redo,
                             undo      |-> pending.undo]
                IN  SubSeq(Append(known, past), Max({1, Len(known) + 2 - MaxKnown}), Len(known) + 1)
    /\ done' = Append(done, TakenBack(text, pending.submitted))
    /\ undone' = <<>>
    /\ pending' = None
    /\ UNCHANGED uuids

\* A save, or a view that asks for its rows, reads the text as it is before the write lands.
repaintAll ==
    /\ pending # None
    /\ ReadAgain(text)
    /\ pending' = [pending EXCEPT !.stale = TRUE]
    /\ UNCHANGED <<docVars, known, uuids>>

\* An element is given the name or the uuid of another.
TakesIdentity(ch) ==
    LET i == ch.offset + 1
    IN  /\ ch.length = 1 /\ Len(ch.text) = 1
        /\ Comma \notin {ch.text[1], text[i]}
        /\ <<ch.text[1].name, ch.text[1].uuid>> # <<text[i].name, text[i].uuid>>
        /\ \E k \in DOMAIN text \ {i} :
              \/ text[k].name = ch.text[1].name
              \/ ch.text[1].uuid # None /\ text[k].uuid = ch.text[1].uuid

\* A change that is not the table's.
Event(ch) ==
    /\ pending = None
    /\ Chance \/ ~TakesIdentity(ch)
    /\ Change(ch)
    /\ Repaint(text', planChange(text', ch))
    /\ UNCHANGED <<pending, known, uuids>>

At(o, n, t) == [offset |-> o, length |-> n, text |-> t]

\* What a keystroke in one element leaves of it.
Typings(e) ==
    LET elements == Range(Elements(text))
    IN  {[e EXCEPT !.val = v] : v \in TypedValues}
            \union {[e EXCEPT !.name = <<b>>] : b \in Bases}
            \union IF Chance THEN {x \in elements : x.sec = e.sec} ELSE {}

\* Keystrokes: inside an element, and lines cut and pasted with or without their comma.
TypedChanges ==
    UNION {{At(k - 1, 1, <<x>>) : x \in Typings(text[k])} : k \in {k \in DOMAIN text : text[k] # Comma}}
        \union {At(o, n, <<>>) : o \in 0 .. Len(text), n \in 1 .. 3}
        \union {At(o, n, <<x>>) : o \in 0 .. Len(text), n \in {0, 3}, x \in Range(text)}
        \union {At(o, 0, <<x, Comma>>) : o \in 0 .. Len(text), x \in Range(Elements(text))}

type == \E ch \in TypedChanges :
    /\ ch.offset + ch.length <= Len(text)
    /\ Replaced(text, ch) # ch.text
    /\ Chance \/ Remembered(ch) = {}
    /\ Event(ch)
    /\ done' = Append(done, TakenBack(text, ch))
    /\ undone' = <<>>

editorUndo ==
    /\ done # <<>>
    /\ Event(Last(done))
    /\ done' = Front(done)
    /\ undone' = Append(undone, TakenBack(text, Last(done)))

editorRedo ==
    /\ undone # <<>>
    /\ Event(Last(undone))
    /\ undone' = Front(undone)
    /\ done' = Append(done, TakenBack(text, Last(undone)))

-----------------------------------------------------------------------------
Init ==
    /\ text \in InitialTexts
    /\ model = Read(text)
    /\ fresh = TRUE
    /\ pending = None
    /\ known = <<>>
    /\ done = <<>>
    /\ undone = <<>>
    /\ uuids = Max({0} \union ({x.uuid : x \in Range(text)} \ {None}))
    /\ edits = 0

Next ==
    \/ renameEntry \/ setValue \/ deleteEntries \/ addNewEntry \/ paste \/ move
    \/ land \/ repaintAll
    \/ type \/ editorUndo \/ editorRedo

Spec == Init /\ [][Next]_vars

-----------------------------------------------------------------------------
(***************************************************************************)
(* Properties.                                                             *)
(***************************************************************************)
TypeOK ==
    /\ text \in Seq(Element \union {Comma})
    /\ model \in [Sections -> Seq(Element)]
    /\ fresh \in BOOLEAN
    /\ pending = None \/ pending.kind \in {"cell", "structural"}
    /\ Len(known) <= MaxKnown
    /\ uuids \in Nat
    /\ edits \in 0 .. MaxEdits

\* However the table was repainted, entry by entry or whole, of which edits, keystrokes and
\* undos, and whatever repaint came before a write landed: once no write is pending it shows
\* what reading the document again would (jsonSyncFuzzOps.test.ts: "a planned keystroke
\* repaints exactly what a re-parse would").
NarrowIsWide == fresh /\ pending = None => parsesAsJson(text) /\ model = Read(text)

\* A write of the table's leaves an entries array, and in it every element as it was but those
\* of the rows edited (indexOfEntryElement: "the user watched the row they had not touched
\* disappear").
WritesItsOwn ==
    [][pending # None /\ pending' = None
           => Scans(text') /\ Elements(text') = pending.wanted]_vars

Bearing(m, secs, n) == UNION {{<<s, i>> : i \in {i \in DOMAIN m[s] : m[s][i].name = n}} : s \in secs}

\* Adding, pasting, moving and renaming give no two entries of one namespace one name, however
\* many are pasted at once and whichever section of it they go to.
NoNameTwice ==
    [][pending = None /\ pending' # None
           => \A s \in Sections : \A n \in NamesIn(model', {s}) :
                  Cardinality(Bearing(model', Namespace(s), n))
                      <= Max({1, Cardinality(Bearing(model, Namespace(s), n))})]_vars
=============================================================================
