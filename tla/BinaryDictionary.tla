-------------------------- MODULE BinaryDictionary --------------------------
(***************************************************************************)
(* A compressed-binary dictionary edited in a host, and what a save of it  *)
(* keeps: an entry nobody edited is its bytes, an edited one is merged of   *)
(* the bytes it was read from and what the writers make of the model        *)
(* (parser/BinarySlddSerializer.ts, EntryMerge.ts, EntrySource.ts), and a   *)
(* gate compares the result with the file (edit/binarySaveGate.ts).         *)
(*                                                                         *)
(* A chunk is a sequence of entry fragments.  A fragment's value is one     *)
(* element, or an array of them, of parts with keys; a part has a value and *)
(* how it is spelt, by "file" or by "writer".  The reader does not read the *)
(* part "x" nor the entry's own `extra`.  Layout, what is outside the       *)
(* entries, sections and deeper values are left out.  `id` marks an entry   *)
(* and an element across edits; the origins tell the code as much.          *)
(*                                                                         *)
(* The host is not part of this repository.  Its bookkeeping is modelled as *)
(* test/binarySaveGateOps.test.ts reproduces it.                            *)
(***************************************************************************)
EXTENDS Integers, Sequences, FiniteSets, FiniteSetsExt, SequencesExt

CONSTANTS
    Documents,      \* the chunks opened
    NewNames,       \* the names given by a rename or to an entry added
    Values,         \* what a part is set to; "v0" is the default
    FileIds,        \* no id or UUID of a chunk opened is above it, however many there are
    MaxEdits,       \* bounds the edits, undos and redos
    MaxReads,       \* bounds how often the whole chunk is read
    MaxElements,    \* bounds the elements of an array
    None

ReadKeys == {"a", "b"}

entryKey(e) == IF e.uuid # None THEN <<"uuid", e.uuid>> ELSE <<"name", e.name>>

IsRecord(r, fields) == r = [k \in fields |-> r[k]]

IsElement(e) ==
    /\ IsRecord(e, {"id", "origin", "parts"})
    /\ e.origin = None
    /\ IsRecord(e.parts, DOMAIN e.parts)
    /\ \A k \in DOMAIN e.parts : IsRecord(e.parts[k], {"val", "how"})

\* An entry as a file has it: what is not an array is one element.
IsFragment(f) ==
    /\ IsRecord(f, {"id", "name", "uuid", "mod", "array", "extra", "scans", "pairs", "open", "elements"})
    /\ IsRecord(f.open, {"val", "how"})
    /\ Len(f.elements) \in Nat
    /\ IsRecord(f.elements, 1 .. Len(f.elements))
    /\ ~f.array => Len(f.elements) = 1
    /\ \A k \in DOMAIN f.elements : IsElement(f.elements[k])

\* A chunk as a file has it.  Each id is of one entry, a UUID is of one entry, and an entry without
\* one shares its name with none.
ToldApart(chunk) ==
    \A i, j \in DOMAIN chunk : i # j =>
        /\ chunk[i].id # chunk[j].id
        /\ entryKey(chunk[i]) # entryKey(chunk[j])
        /\ chunk[i].uuid = None => chunk[i].name # chunk[j].name

IsChunk(chunk) ==
    /\ Len(chunk) \in Nat
    /\ IsRecord(chunk, 1 .. Len(chunk))
    /\ \A i \in DOMAIN chunk : IsFragment(chunk[i])
    /\ ToldApart(chunk)

ASSUME BinaryDictionaryAssumption ==
    /\ MaxEdits \in Nat /\ MaxReads \in Nat /\ MaxElements \in Nat /\ FileIds \in Nat
    /\ "v0" \in Values
    /\ None \notin Nat
    /\ \A chunk \in Documents : IsChunk(chunk) /\ \A i \in DOMAIN chunk :
           /\ chunk[i].id \in 1 .. FileIds /\ chunk[i].uuid \in 1 .. FileIds \union {None}
           /\ \A e \in Range(chunk[i].elements) : e.id \in 1 .. FileIds

VARIABLES
    text,       \* the chunk as edited
    saved,      \* the chunk as last read or saved, for the gate
    model,      \* the entries, in the order of the tree
    frame,      \* which read of the whole chunk the model is of, and that chunk
    edited,     \* the keys of the entries the edits named since the save
    unchecked,  \* key -> the keys of the entries the check could not be held to
    done,       \* the host's stacks of edits
    undone,
    edits,      \* how many there have been
    opened,     \* ghost: the chunk opened
    touched     \* ghost: the parts and elements the edits were of

hostVars == <<edited, unchecked, done, undone, edits>>
vars == <<text, saved, model, frame, hostVars, opened, touched>>

-----------------------------------------------------------------------------
(***************************************************************************)
(* The reader and the writers.                                             *)
(***************************************************************************)
\* A part the file does not have reads as the default.
ReadElement(e, origin) ==
    [id |-> e.id, origin |-> origin,
     vals |-> [k \in ReadKeys |-> IF k \in DOMAIN e.parts THEN e.parts[k].val ELSE "v0"]]

NoSource == [frame |-> None, index |-> None, fragment |-> None, name |-> None]

HasSource(node) == node.source.frame # None

\* readEntryFragment: the entry of one fragment.  An array's elements know where they were read.
readEntryFragment(f) ==
    [id |-> f.id, name |-> f.name, uuid |-> f.uuid, mod |-> f.mod, status |-> "read",
     array |-> f.array,
     elements |-> [i \in DOMAIN f.elements |->
                      ReadElement(f.elements[i], IF f.array THEN i ELSE None)],
     source |-> NoSource]

\* The writers always write an "a", and no "b" that is the default.
WrittenElement(e) ==
    [id |-> e.id, origin |-> e.origin,
     parts |-> [k \in {"a"} \union {k \in {"b"} : e.vals[k] # "v0"} |->
                   [val |-> e.vals[k], how |-> "writer"]]]

\* regenerateEntryXml, with the origins a merge asks for.
regenerateEntryXml(node) ==
    [id |-> node.id, name |-> node.name, uuid |-> node.uuid,
     mod |-> IF node.mod = None THEN "now" ELSE node.mod,
     array |-> node.array, extra |-> None, scans |-> TRUE, pairs |-> TRUE,
     open |-> [val |-> Len(node.elements), how |-> "writer"],
     elements |-> [i \in DOMAIN node.elements |-> WrittenElement(node.elements[i])]]

\* Mutant: what is written whole keeps the origins.
stripOriginsNot(f) == f

stripOrigins(f) ==
    [f EXCEPT !.elements = [i \in DOMAIN f.elements |-> [f.elements[i] EXCEPT !.origin = None]]]

-----------------------------------------------------------------------------
(***************************************************************************)
(* The merge of o, the bytes; b, what the writers make of o read again; and *)
(* c, what they make of the entry now.                                      *)
(***************************************************************************)
\* node of two parts.
MergedPart(o, b, c) == IF b = c THEN o ELSE c

Has(parts, k) == k \in DOMAIN parts

\* Mutant: a part that the writers do not write is taken for one deleted.
KeepsKeyRead(o, b, c, k) == Has(c, k)

\* keyed, of the parts of the bytes: dropped only if b has the part and c has not.
KeepsKey(o, b, c, k) == Has(c, k) \/ ~Has(b, k)

\* keyed: what c has and o has not is an addition, unless b has it and it is the same.
MergedParts(o, b, c) ==
    LET kept  == {k \in DOMAIN o : KeepsKey(o, b, c, k)}
        added == {k \in DOMAIN c \ DOMAIN o : ~(Has(b, k) /\ b[k] = c[k])}
    IN  [k \in kept \union added |->
            IF ~Has(c, k) THEN o[k]
            ELSE IF Has(o, k) /\ Has(b, k) THEN MergedPart(o[k], b[k], c[k])
            ELSE c[k]]

\* node of two elements.
MergedElement(o, b, c) ==
    IF b = c THEN o
    ELSE IF DOMAIN o.parts = {} THEN [c EXCEPT !.origin = None]
    ELSE [o EXCEPT !.parts = MergedParts(o.parts, b.parts, c.parts)]

Unmarked(b, c) == \A e \in Range(b) \union Range(c) : e.origin = None

\* Whether the elements of three values can be told one from another: by their origins, or as the
\* only one of each.
PairsUp(o, b, c) ==
    IF Unmarked(b, c) THEN Len(o) = 1 /\ Len(b) = 1 /\ Len(c) = 1
    ELSE /\ Len(b) = Len(o)
         /\ \A j \in DOMAIN b : b[j].origin = j
         /\ \A k \in DOMAIN c : c[k].origin # None =>
                /\ c[k].origin \in DOMAIN o
                /\ \A l \in DOMAIN c : c[l].origin = c[k].origin => l = k

\* Mutant: the elements are paired by where they are.
MergedElementsByPlace(o, b, c) ==
    [k \in DOMAIN c |-> IF k \in DOMAIN o \intersect DOMAIN b THEN MergedElement(o[k], b[k], c[k])
                        ELSE [c[k] EXCEPT !.origin = None]]

\* elements: an element with no origin is as it is now.
MergedElements(o, b, c) ==
    [k \in DOMAIN c |->
        LET j == IF Unmarked(b, c) THEN 1 ELSE c[k].origin
        IN  IF j = None THEN c[k] ELSE MergedElement(o[j], b[j], c[k])]

\* What a merge of the elements needs of the three values.
Mergeable(o, b, c) ==
    /\ o.pairs /\ o.elements # <<>> /\ b.elements # <<>> /\ c.elements # <<>>
    /\ PairsUp(o.elements, b.elements, c.elements)

\* node of two values: the open tag and the elements, or the value as it is now where its
\* elements cannot be paired.
MergedValue(o, b, c) ==
    CASE b.open = c.open /\ b.elements = c.elements ->
             [open |-> o.open, elements |-> o.elements, pairs |-> o.pairs]
      [] ~(b.open = c.open /\ b.elements = c.elements) /\ Mergeable(o, b, c) ->
             [open |-> MergedPart(o.open, b.open, c.open),
              elements |-> MergedElements(o.elements, b.elements, c.elements), pairs |-> TRUE]
      [] OTHER -> [open |-> c.open, elements |-> stripOrigins(c).elements, pairs |-> TRUE]

\* mergeEntry, of bytes the scan reads.
mergeEntry(o, b, c) ==
    LET value == MergedValue(o, b, c)
    IN  IF b = c THEN o
        ELSE [o EXCEPT !.name = MergedPart(@, b.name, c.name),
                       !.uuid = MergedPart(@, b.uuid, c.uuid),
                       !.mod  = IF @ = None THEN c.mod ELSE MergedPart(@, b.mod, c.mod),
                       !.open = value.open,
                       !.elements = value.elements,
                       !.pairs = value.pairs]

baseOf(source) == regenerateEntryXml(readEntryFragment(source.fragment))

\* The entry again, as the writers write it: what the check of a merge compares.
Line(node) == stripOrigins(regenerateEntryXml(node))

Merged(node) == mergeEntry(node.source.fragment, baseOf(node.source), regenerateEntryXml(node))

\* mergedEntry, with its check that the merge reads as the model.
mergedEntry(node) ==
    /\ HasSource(node)
    /\ node.source.fragment.scans
    /\ Line(readEntryFragment(Merged(node))) = Line(node)

\* Mutant: an entry that is not marked is its bytes, though its name was set around the API.
uneditedBytesUnheld(node) == HasSource(node) /\ node.status \notin {"Modified", "New"}

\* uneditedBytes with keptFragmentOf: not marked, and named as it was when its bytes were attached.
uneditedBytes(node) ==
    /\ HasSource(node)
    /\ node.status \notin {"Modified", "New"}
    /\ node.name = node.source.name

entryObjectXml(node) ==
    CASE uneditedBytes(node) -> node.source.fragment
      [] ~uneditedBytes(node) /\ mergedEntry(node) -> Merged(node)
      [] OTHER -> Line(node)

-----------------------------------------------------------------------------
(***************************************************************************)
(* The whole chunk.                                                        *)
(***************************************************************************)
\* Attached with what the entry then said.
Sourced(node, n, i, f) ==
    [node EXCEPT !.source = [frame |-> n, index |-> i, fragment |-> f, name |-> node.name]]

\* SlddNode.parse of the n-th read.
ReadChunk(chunk, n) == [i \in DOMAIN chunk |-> Sourced(readEntryFragment(chunk[i]), n, i, chunk[i])]

\* framedChunkXml: each entry in its own place, and after the last those that have none.
buildDataChunkXml(nodes, fr) ==
    LET PlacedAt(i) == {k \in DOMAIN nodes : /\ nodes[k].source.frame = fr.n
                                             /\ nodes[k].source.index = i}
        placed == {Min(PlacedAt(i)) : i \in {i \in DOMAIN fr.chunk : PlacedAt(i) # {}}}
        Earlier(k, l) == IF k \in placed
                         THEN l \in placed => nodes[k].source.index < nodes[l].source.index
                         ELSE l \notin placed /\ k < l
        order(n) == CHOOSE k \in DOMAIN nodes : Cardinality({l \in DOMAIN nodes : Earlier(l, k)}) = n - 1
    IN  [n \in DOMAIN nodes |-> entryObjectXml(nodes[order(n)])]

\* Where the entry a selector names is, or 0: by uuid, else the first of its name.
EntryAt(chunk, sel) ==
    LET named == {i \in DOMAIN chunk : chunk[i].name = sel.name}
        exact == {i \in named : sel.uuid = None \/ chunk[i].uuid = sel.uuid}
    IN  CASE exact # {} -> Min(exact)
          [] exact = {} /\ named # {} -> Min(named)
          [] OTHER -> 0

spliceEntryObject(chunk, node, before) ==
    LET at == EntryAt(chunk, before) IN
    IF at = 0 THEN chunk ELSE [chunk EXCEPT ![at] = entryObjectXml(node)]

-----------------------------------------------------------------------------
(***************************************************************************)
(* The gate.                                                               *)
(***************************************************************************)
KeyedIn(chunk, key) == {i \in DOMAIN chunk : entryKey(chunk[i]) = key}

Keys(chunk) == {entryKey(f) : f \in Range(chunk)}

\* keptPartsOf: what of the bytes is not in w, the entry as written, though b and c agree on it.
keptPartsOf(o, b, c, w) ==
    LET PartsLost(oe, be, ce, we) ==
            \E k \in DOMAIN oe.parts :
                \/ /\ Has(be.parts, k) /\ Has(ce.parts, k) /\ be.parts[k] = ce.parts[k]
                   /\ ~Has(we.parts, k) \/ we.parts[k] # oe.parts[k]
                \/ /\ ~Has(be.parts, k) /\ ~Has(ce.parts, k)
                   /\ ~Has(we.parts, k) \/ we.parts[k] # oe.parts[k]
        ElementLost(oe, be, ce, we) ==
            /\ oe # we
            /\ be = ce \/ (DOMAIN oe.parts # {} /\ PartsLost(oe, be, ce, we))
        ElementsLost ==
            IF Unmarked(b.elements, c.elements)
            THEN /\ \A s \in {o, b, c, w} : Len(s.elements) = 1
                 /\ ElementLost(o.elements[1], b.elements[1], c.elements[1], w.elements[1])
            ELSE \/ Len(w.elements) # Len(c.elements)
                 \/ \E k \in DOMAIN c.elements :
                        LET j == c.elements[k].origin IN
                        /\ j # None
                        /\ j \in DOMAIN o.elements \intersect DOMAIN b.elements
                        /\ ElementLost(o.elements[j], b.elements[j], c.elements[k], w.elements[k])
        ValueLost ==
            IF b.open = c.open /\ b.elements = c.elements
            THEN o.open # w.open \/ o.elements # w.elements
            ELSE /\ o.pairs /\ o.elements # <<>> /\ b.elements # <<>> /\ c.elements # <<>>
                 /\ w.elements # <<>>
                 /\ (b.open = c.open /\ o.open # w.open) \/ ElementsLost
    IN  /\ o # w
        /\ \/ b = c
           \/ o.extra # w.extra
           \/ b.uuid = c.uuid /\ o.uuid # w.uuid
           \/ ValueLost

\* keptPartsViolations: whether there are any in an entry written as w.
keptPartsViolated(node, w) ==
    /\ HasSource(node)
    /\ IF uneditedBytes(node) THEN w # node.source.fragment
       ELSE /\ node.source.fragment.scans
            /\ keptPartsOf(node.source.fragment, baseOf(node.source), regenerateEntryXml(node), w)

\* checkIsArmed: an entry written as nothing is a violation.
checkIsArmed(node) == HasSource(node) /\ (uneditedBytes(node) \/ node.source.fragment.scans)

\* Mutant: what could not be checked when it was edited is asked again of the node.
AliasesForgotten(key) == {}

\* The keys an entry that could not be checked has gone by.
Aliases(key) == IF key \in DOMAIN unchecked THEN unchecked[key] ELSE {}

\* The entries of the saved chunk that entry i of a chunk is paired with: that of its key with as
\* many of the key before it.
Priors(chunk, i) ==
    LET key == entryKey(chunk[i])
        Before(c, k) == Cardinality({j \in KeyedIn(c, key) : j < k})
    IN  {j \in KeyedIn(saved, key) : Before(saved, j) = Before(chunk, i)}

\* Why entry i of a chunk is refused, if it is.
EntryRefusal(chunk, i) ==
    LET f     == chunk[i]
        key   == entryKey(f)
        nodes == {k \in DOMAIN model : entryKey(model[k]) = key /\ model[k].name = f.name}
        node  == model[Min(nodes)]
    IN  IF \E j \in Priors(chunk, i) : saved[j] = f THEN {}
        ELSE IF key \notin edited THEN {"notEdited"}
        ELSE IF Aliases(key) \intersect Keys(saved) # {} THEN {"cannotBeChecked"}
        ELSE IF Cardinality(nodes) # 1 THEN {"notInTheModel"}
        ELSE IF keptPartsViolated(node, f) THEN {"changesMore"}
        ELSE IF Priors(chunk, i) # {} /\ ~checkIsArmed(node) THEN {"cannotBeChecked"}
        ELSE {}

Dropped(chunk) ==
    {key \in Keys(saved) \ edited :
        Cardinality(KeyedIn(saved, key)) > Cardinality(KeyedIn(chunk, key))}

\* savedChunkRefusal: why a chunk is refused, if it is.
savedChunkRefusal(chunk) ==
    UNION {EntryRefusal(chunk, i) : i \in DOMAIN chunk}
        \union (IF Dropped(chunk) = {} THEN {} ELSE {"dropped"})

-----------------------------------------------------------------------------
(***************************************************************************)
(* The host's edits.                                                       *)
(***************************************************************************)
\* uncheckableEntries of an entry changed in its slot: its keys, if the check is not held to it.
uncheckableEntries(before, node) == IF checkIsArmed(node) THEN {} ELSE {entryKey(before), entryKey(node)}

\* markUnchecked: every key of a group maps to the group, with what those keys were already in.
markUnchecked(marks, group) ==
    LET all == group \union UNION {marks[k] : k \in group \intersect DOMAIN marks}
    IN  [k \in DOMAIN marks \union all |-> IF k \in all THEN all ELSE marks[k]]

\* An edit as it is pushed: the chunk it leads to and from, its keys and groups, and its op.
Push(step, newText, newModel) ==
    /\ edits < MaxEdits
    /\ edits' = edits + 1
    /\ text' = newText
    /\ model' = newModel
    /\ edited' = edited \union step.keys
    /\ unchecked' = markUnchecked(unchecked, step.group)
    /\ done' = Append(done, step)
    /\ undone' = <<>>
    /\ UNCHANGED <<saved, frame, opened>>

Step(kind, node, at, place, before, after, keys, group) ==
    [kind |-> kind, id |-> node.id, at |-> at, place |-> place,
     before |-> before, after |-> after, keys |-> keys, group |-> group]

\* An edit of the entry at k, which leaves it as `node`.
CellEdit(k, node, parts) ==
    LET was == model[k]
        newText == spliceEntryObject(text, node, was)
    IN  /\ node # was
        /\ Push(Step("replace", node, k, NoSource, text, newText, {entryKey(was), entryKey(node)},
                     uncheckableEntries(was, node)),
                newText, [model EXCEPT ![k] = node])
        /\ touched' = touched \union parts

Marked(node) == [node EXCEPT !.status = IF @ = "New" THEN @ ELSE "Modified", !.mod = "edited"]

setValue == \E k \in DOMAIN model : \E i \in DOMAIN model[k].elements :
    \E key \in ReadKeys, v \in Values :
        /\ v # model[k].elements[i].vals[key]
        /\ CellEdit(k, [Marked(model[k]) EXCEPT !.elements[i].vals[key] = v],
                    {<<model[k].id, model[k].elements[i].id, key>>})

removeElement == \E k \in DOMAIN model : \E i \in DOMAIN model[k].elements :
    /\ model[k].array
    /\ Len(model[k].elements) > 1
    /\ CellEdit(k, [Marked(model[k]) EXCEPT !.elements = RemoveAt(@, i)],
                {<<model[k].id, model[k].elements[i].id>>})

addElement == \E k \in DOMAIN model :
    /\ model[k].array
    /\ Len(model[k].elements) < MaxElements
    /\ CellEdit(k, [Marked(model[k]) EXCEPT
                       !.elements = Append(@, [id |-> FileIds + 1 + edits, origin |-> None,
                                               vals |-> [key \in ReadKeys |-> "v0"]])],
                {<<model[k].id>>})

\* A rename by the API marks the entry; a host that sets node.name does not.
renameEntry == \E k \in DOMAIN model, name \in NewNames, marked \in BOOLEAN :
    /\ name \notin {model[j].name : j \in DOMAIN model}
    /\ CellEdit(k, [IF marked THEN Marked(model[k]) ELSE model[k] EXCEPT !.name = name], {})

deleteEntryXml == \E k \in DOMAIN model :
    LET at == EntryAt(text, model[k])
        newText == IF at = 0 THEN text ELSE RemoveAt(text, at)
    IN  /\ Push(Step("remove", model[k], k, model[k].source, text, newText, {entryKey(model[k])}, {}),
                newText, RemoveAt(model, k))
        /\ UNCHANGED touched

\* With a UUID made for it, that no other entry has.
addNewEntryXml == \E name \in NewNames :
    LET node == [id |-> FileIds + 1 + edits, name |-> name, uuid |-> FileIds + 1 + edits, mod |-> "edited",
                 status |-> "New", array |-> FALSE,
                 elements |-> <<[id |-> FileIds + 1 + edits, origin |-> None,
                                 vals |-> [key \in ReadKeys |-> "v0"]]>>,
                 source |-> NoSource]
        newText == Append(text, entryObjectXml(node))
    IN  /\ name \notin {model[j].name : j \in DOMAIN model}
        /\ Push(Step("insert", node, Len(model) + 1, NoSource, text, newText, {entryKey(node)},
                     uncheckableEntries(node, node)),
                newText, Append(model, node))
        /\ UNCHANGED touched

-----------------------------------------------------------------------------
(***************************************************************************)
(* Undo and redo: the chunk is put back, and the entry rebuilt of what it   *)
(* then says, in the place of the node it takes over.                       *)
(***************************************************************************)
Fragment(chunk, id) == chunk[Min({i \in DOMAIN chunk : chunk[i].id = id})]

\* Mutant: the rebuilt entry is given no place and no bytes.
RebuiltUnsourced(f, place) == readEntryFragment(f)

\* rebuild: with the place of the node taken over, if that has one.
Rebuilt(f, place) ==
    LET node == readEntryFragment(f) IN
    IF place.frame = None THEN node ELSE Sourced(node, place.frame, place.index, f)

\* Applying the op of a step, its fragment cut of the chunk it restores.
Applied(nodes, kind, step, chunk) ==
    LET k == Min({j \in DOMAIN nodes : nodes[j].id = step.id})
    IN  CASE kind = "remove"  -> RemoveAt(nodes, k)
          [] kind = "replace" -> [nodes EXCEPT ![k] = Rebuilt(Fragment(chunk, step.id), @.source)]
          [] kind = "insert"  -> InsertAt(nodes, Min({step.at, Len(nodes) + 1}),
                                          Rebuilt(Fragment(chunk, step.id), step.place))

Opposite == [replace |-> "replace", remove |-> "insert", insert |-> "remove"]

Replay(step, kind, chunk) ==
    /\ edits < MaxEdits
    /\ edits' = edits + 1
    /\ text' = chunk
    /\ model' = Applied(model, kind, step, chunk)
    /\ edited' = edited \union step.keys
    /\ unchecked' = markUnchecked(unchecked, step.group)
    /\ UNCHANGED <<saved, frame, opened, touched>>

undo ==
    /\ done # <<>>
    /\ Replay(Last(done), Opposite[Last(done).kind], Last(done).before)
    /\ done' = Front(done)
    /\ undone' = Append(undone, Last(done))

redo ==
    /\ undone # <<>>
    /\ Replay(Last(undone), Last(undone).kind, Last(undone).after)
    /\ undone' = Front(undone)
    /\ done' = Append(done, Last(undone))

\* The webview reloads, or a repaint could state no ops: the chunk is read again.
readAgain ==
    /\ frame.n < MaxReads
    /\ frame' = [n |-> frame.n + 1, chunk |-> text]
    /\ model' = ReadChunk(text, frame.n + 1)
    /\ UNCHANGED <<text, saved, hostVars, opened, touched>>

save ==
    /\ text # saved
    /\ savedChunkRefusal(text) = {}
    /\ saved' = text
    /\ edited' = {}
    /\ unchecked' = <<>>
    /\ UNCHANGED <<text, model, frame, done, undone, edits, opened, touched>>

Init ==
    /\ text \in Documents
    /\ saved = text
    /\ frame = [n |-> 0, chunk |-> text]
    /\ model = ReadChunk(text, 0)
    /\ edited = {}
    /\ unchecked = <<>>
    /\ done = <<>>
    /\ undone = <<>>
    /\ edits = 0
    /\ opened = text
    /\ touched = {}

Next ==
    \/ setValue \/ removeElement \/ addElement \/ renameEntry
    \/ deleteEntryXml \/ addNewEntryXml
    \/ undo \/ redo \/ readAgain \/ save

Spec == Init /\ [][Next]_vars

-----------------------------------------------------------------------------
(***************************************************************************)
(* Properties.                                                             *)
(***************************************************************************)
\* What a node shows.
Shown(node) == [id |-> node.id, name |-> node.name, uuid |-> node.uuid,
                vals |-> [i \in DOMAIN node.elements |-> node.elements[i].vals]]

TypeOK ==
    /\ edits \in 0 .. MaxEdits
    /\ frame.n \in 0 .. MaxReads
    /\ \A f \in Range(text) : \A e \in Range(f.elements) : e.origin = None
    /\ \A n \in Range(model) : n.status \in {"read", "Modified", "New"}
    /\ DOMAIN unchecked = UNION {unchecked[k] : k \in DOMAIN unchecked}

\* The chunk read again is the entries shown, whatever was edited, undone and read again since, and
\* however each of them came to be written (mergedEntry: "read again it must give the model's text").
TextIsModel ==
    [i \in DOMAIN text |-> Shown(readEntryFragment(text[i]))] = [i \in DOMAIN model |-> Shown(model[i])]

\* The two saves agree: a chunk built of the model holds the entries as the edited chunk does, if
\* not always in its order (an entry put back after a re-read is placed last).
BuildIsText ==
    LET built == buildDataChunkXml(model, frame)
    IN  Len(built) = Len(text) /\ Range(built) = Range(text)

\* Nothing an edit did not touch is respelt or lost: not what the reader does not read, nor a part
\* or an element beside the one edited, through edits on top of one another, undo, redo and a
\* re-read (EntryMerge.ts: "an edited entry keeps the bytes of what the edit did not touch").
UntouchedKept ==
    \A f \in Range(text), o \in Range(opened) :
        f.id = o.id /\ o.scans =>
            /\ f.extra = o.extra
            /\ \/ ~o.pairs /\ \E t \in touched : t[1] = o.id
               \/ \A e \in {e \in Range(o.elements) : <<o.id, e.id>> \notin touched} :
                      \E g \in Range(f.elements) :
                          /\ g.id = e.id
                          /\ \A k \in DOMAIN e.parts : <<o.id, e.id, k>> \notin touched =>
                                 k \in DOMAIN g.parts /\ g.parts[k] = e.parts[k]

\* The gate refuses nothing an edit of the host made, but an edit it cannot check.
GateLets == savedChunkRefusal(text) \subseteq {"cannotBeChecked"}

\* An entry the check cannot read is saved as the file has it, or not at all, whatever has rebuilt
\* its node since the edit (binarySaveGate.ts: "the document keeps the answer, under every key the
\* entry has gone by, until a save").
UncheckableStays ==
    [][saved' # saved =>
           \A f \in Range(saved), g \in Range(saved') : f.id = g.id /\ ~f.scans => g = f]_vars

\* The same of an entry with a UUID, which a rename does not give another key, if nothing is given
\* the name it has in the file; and of any entry while no node of it has been rebuilt.
KeyedUncheckableStays ==
    [][saved' # saved =>
           \A f \in Range(saved), g \in Range(saved') :
               /\ f.id = g.id
               /\ ~f.scans
               /\ \/ f.uuid # None /\ f.name \notin NewNames
                  \/ frame.n = 0 /\ Len(done) = edits
               => g = f]_vars
=============================================================================
