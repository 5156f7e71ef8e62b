# Data Explorer core: specifications

TLA+ specifications of the parts of `data-explorer-core` that keep state between calls, the runs
that check them with TLC, and the proofs TLAPS checks. Each definition is named after the function
it models and `PROJECT.json` gives its lines under `src/`.

| module | what it is of | checked by | proved in |
|---|---|---|---|
| `SourceCache` | `folder/sourceCache.ts`, what `folder/usagePlan.ts` reads of it, and the two watchers | four `SourceCache_*` configurations, through `MCSourceCache` and `MCSourceCacheBounds` | `SourceCacheProofs`, `SourceCacheBoundsProofs` |
| `SafeReplace` | `folder/safeReplace.ts` over a file system that fails | `Host_folder`, through `MCHost` | `SafeReplaceProofs`, `HostProofs` |
| `AtomicSave` | what a save promises, which `SafeReplace` implements | as `KeepsPromise` of the above | the refinement, in `SafeReplaceProofs` |
| `WatchFolder` | `node/watchFolder.ts` under a changing folder | `Host_folder` and `Host_replaced`, through `MCHost` | `HostProofs` |
| `Session` | `core/DataModel.ts` with `core/UndoManager.ts` | `Session_edits`, through `MCSession` | `SessionProofs`, `SessionHistoryProofs` |
| `Usage` | which blocks use which definitions: `datamodel/usage/`, the queries of `core/DataModel.ts`, and what of a folder `folder/usagePlan.ts` reads | `Session_edits`, through `MCSession` | – |
| `TextDictionary` | a text dictionary's edits and its narrow repaint: `edit/entrySplice.ts`, `structuralEdit.ts`, `entryOps.ts`, `jsonEntrySync.ts`, `dictionaryPaste.ts` | `Documents_edits` and `Documents_taken`, through `MCDocuments` | – |
| `BinaryDictionary` | what a save of a compressed dictionary keeps: `parser/EntryMerge.ts`, `EntrySource.ts`, `BinarySlddSerializer.ts`, `edit/binarySaveGate.ts` | `Documents_edits` and `Documents_renamed`, through `MCDocuments` | `BinaryEntryProofs`, `BinaryDictionaryProofs` |
| `MatlabVariable` | one value and its rows: `datamodel/node/data/MatlabVariableNode.ts`, `node/childEdit.ts` | `Documents_edits`, `Documents_rows` and `Documents_shapes`, through `MCDocuments` | – |
| `MatFile` | the variables of a MAT-file and what a save plans of each: `node/container/MatNode.ts`, `parser/MatFileWriter.ts`, the copies between the nodes of one object | `Documents_edits`, through `MCDocuments` | – |
| `McosSubsystem` | the tables MATLAB saves objects in, read, edited and written back: `parser/McosSubsystemCodec.ts` | `Documents_edits`, through `MatObjects` | – |
| `McosMerge` | an object made of a template, the properties written into the tables, and the check every write is put to: `parser/McosTemplateMerge.ts`, `McosObjectWrite.ts` | `Documents_edits`, through `MatObjects` | – |
| `MatObjects` | the objects of a MAT-file, created, edited, deleted and saved: `node/data/matObjectEdit.ts` and others | `Documents_edits`, through `MCDocuments`; `MCObjects` holds its instance | – |

## Inventory

The repository is a library of about 86,000 lines of TypeScript. Most of it is readers and writers
of MAT, SLX, MDL, SLDD and project files, and classes of nodes: sequential functions of bytes,
tested with fixtures, which a model checker adds little to. State that several callers share, or
that a long sequence of edits builds up, is in the places below.

**Source cache** (`folder/sourceCache.ts`). *State*: three maps from a file to what was derived
from it and the version it was derived at (`cheap`, `parsed`, `models`); two maps from a file to a
derivation in flight (`reading`, `parsing`); a ring of pinned parses; a budget; a counter of what
has been forgotten (`generation`). *Operations*: `cheapOne`/`cheapAll`, `parsedModelOf`,
`parsedModelForOpenTab`, `fillModelSummaries`, `planSummaries`, `forgetSource`,
`forgetUnseenWrite`, `clearSourceCache`. *Hard*: each ask awaits a stat and a read, and between
them others ask, write, forget, clear, evict and pin; a version is `mtime:size`, so a write may leave
it where it was. *Correct when*: no artifact is answered under a version that now means other
bytes; every ask is answered; a file is derived once; the parses held are bounded and the right
ones are let go.

**Safe save** (`folder/safeReplace.ts`). *State*: the file, the temporary files beside it, what of
them is on disk. *Operations*: `replaceFile`, with `writeInPlace`, `keepsAccess` and
`removeStaleTemps`. *Hard*: any call may fail, the process or the machine may go between any two,
another window may save the same file, the folder may go. *Correct when*: the name holds the old
file or the new one, whole, but for the fallback in place, which never empties it; nobody's access
changes; other names of the file stay on it.

**Folder watch** (`node/watchFolder.ts`, with `listFolder.ts`). *State*: a timer, the names a burst
touched, whether anything may have changed, whether the watcher stopped. *Operations*: `onEvent`,
`flush`, `onError`, `dispose`. *Hard*: an event is judged by what is at its path when it arrives,
which may be long after what it is about; a folder's files go with it without an event of their own.
*Correct when*: a host that reads again what it is told of ends up with what the folder lists.

**Session** (`core/DataModel.ts`). *State*: the open trees, an index from ids to nodes, the ids two
nodes have had, the selection (context, entries, preview), an undo and a redo stack to a file
(`core/UndoManager.ts`). *Operations*: register, remove, select, add, add child, delete by
selection or by id, edit a property, undo, redo, and a host's own edits (`mutateSubtree`,
`indexSubtree`, `unindexSubtree`). *Hard*: an id is a path of names, so a rename moves the ids of a
subtree, and two nodes of one name share one; the index is kept piecemeal on some paths and rebuilt
on others; undo replays a command on whatever tree is there. *Correct when*: the index is of the open
trees, an id finds a node only if it is the only one, nothing selected is in no file, and each
history is of its own file's edits.

**Text dictionary** (`edit/`). *State*: the document as text, the tree the table shows, a ring of
the last edits and the ops each was painted with. *Operations*: a cell edited or renamed, entries
added, deleted, pasted and moved, each made on the tree and written as range replacements; a change
event resolved to ops on the tree. *Hard*: the tree is not read again from the text when the planners
say which entries changed, so one wrong answer leaves the table and every later range out of step;
undo, keystrokes and a repaint come between an edit and its event. *Correct when*: the tree shown is
what a whole read would give, and an edit writes the rows it is of.

**Binary dictionary** (`parser/EntryMerge.ts` and others, `edit/binarySaveGate.ts`). *State*: the
chunk, the bytes and origins each entry was read with, the keys edited and the keys not checkable.
*Operations*: edits of an entry and its elements, rename, delete, add, undo, redo, a read of the whole
chunk, a save. *Hard*: an edited entry is merged of three versions, paired by place of origin; an
entry is rebuilt by undo from a fragment of another time; the gate knows entries by keys that edits
change. *Correct when*: what nobody edited is kept, the two ways a chunk is written agree, and a save
that would lose bytes is refused.

**Value of a variable** (`datamodel/node/data/MatlabVariableNode.ts`). *State*: kind, class, shape,
elements, rows, the values held from the file, the undo steps with the rows and copies they hold.
*Operations*: a row added or deleted, the value typed, an element typed, undo, redo. *Hard*: the node
changes what it is as it is edited, and a step is undone on whatever it has become. *Correct when*: the
rows are the value, undoing leads back, and an unedited value is written as it was read.

**MAT-file** (`datamodel/node/container/MatNode.ts`, `parser/MatFileWriter.ts`,
`parser/McosSubsystemCodec.ts` and others). *State*: the records as read, the subsystem that holds every
object of the file, the marks each edit leaves, the objects created, the counts of names, the undo
steps. *Operations*: a value or a property typed, an entry renamed, retyped, added, created of a class,
deleted; undo, redo and save. *Hard*: one object may be shown by several variables, whose nodes are kept
alike by copies; a save decides of each record whether to keep its bytes, write it fresh or write into
the subsystem; the subsystem is tables that name each other by number and share what they hold; a new
object is copied from what MATLAB wrote of another. *Correct when*: a save is not refused for what was
offered, what it writes reads back as what is shown, what nobody edited keeps its bytes, and a file
wholly undone is written as it was read.

**Usages** (`datamodel/usage/`, `core/DataModel.ts`, `folder/usagePlan.ts`). *State*: the sources of a
session in the order they were opened; the summaries a plan reads of the cache are in `SourceCache`.
*Operations*: which blocks use a definition, which definition a block's parameter reads, by two
engines; which files of a folder must be read to answer for one. *Hard*: the two engines do not share
their resolution; a model's masks shadow what it reads; references are spelled without a folder and in
any case. *Correct when*: both engines give a definition the users that read it, and the part of a
folder planned for answers as the whole does.

They interact by calls. A host opens a folder (`node/index.ts`), lists it, asks the cache for each
file's artifact through `mapLimited`, registers what it opens in a session, and hears of changes from
a watcher, on which it forgets files of the cache (`forgetUnseenWrite` for the workspace,
`forgetSource` for a file it shows in a tab). The session tells its listeners of edits by the event
bus (`core/EventBus.ts`), synchronously. An editor that holds a dictionary as a document makes a table
edit on the tree and submits it as a change of the document, whose event comes back later. A save goes
through `replaceFile` (`node/save.ts`), and the write comes back as an event.

`PROJECT.json` lists every component, the ones not modelled too, and under `hazards` what in this
code a test would hardly reach, each with the properties that would show it going wrong.

## How the modules correspond to the code

### SourceCache

JavaScript runs one continuation at a time, so an action is the code between two awaits. A caller
(`call[c]`) goes through `Ask`, `Stat` (the version it is given), then the tier it asked for: a hit,
a join of a flight at the same version, or a start, which takes the slot in the same turn
(`coalesced`); `ReadBytes` is the read; `CheapSettle` and `ParseSettle` are what runs when it comes
back: the derivation, the store if nothing has been forgotten since, the slot given up if it is
still this flight's, and the answer to everyone who joined. A usage plan goes on from its cheap
artifact to the filter of `fillModelSummaries`, the parse and the merge.

- A file's content is the number of times it has been written, and an artifact is the content it
  was derived from. `Corrupt` contents are those the parser throws on.
- A version is a token: a write takes the next token, keeps it or goes back to an earlier one.
- `generation`, compared for equality only, is the flag `fresh` of each derivation: set when it
  begins, taken from all of them by a forget. A joiner that will itself store a summary has one too.
- `parsed`'s insertion order is the relation `older`.
- A joined caller is answered by its flight, not by the slot it found it in.
- `quiet` is a ghost: whether the ask was made with every event of its file handled, and no write
  of it since.

The disk and its events are the environment. A file in `TabFiles` has a watcher that forgets on
every event; the workspace's watcher runs `forgetUnseenWrite`, its stat awaited (`checking`).

### SafeReplace and AtomicSave

An action is one call of the file system, with each outcome the code distinguishes: success, an
error it falls back from, and one it passes on. A file is a sequence of chunks, each with the author
who wrote it, so that a partly written file is told from a whole one. `durable` is the set of
contents an inode may have after a loss of power (a write adds to it, a `sync` leaves only what is
there), and `names` is the same for the directory entry. Several `Savers` run at once. `Kill` ends one,
`PowerLoss` ends all and picks what was durable. `AtomicSave` has none of that: a file, what a loss
of power may bring back, and whether each save is running, has taken the name, or has ended.
`KeepsPromise` is the refinement.

### WatchFolder

The folder has names, each a file, a folder with one file in it, or nothing, and each change emits
the events the platform gives for it. Events are delivered in any order, with or without a name, after
any other change. The timer is a count of ticks. `known` is a host that does what the doc comment
asks: it reads again what a report names, and everything at a report without names.

`MCHost` extends `SafeReplace` and `WatchFolder` and holds them side by side: a run of it does one or
the other, and what it does not do stands still, so a behaviour of it is one of each.

### Session

Everything in a session is synchronous, so an action is a whole call with all it publishes. A tree
is a root, entries and their children; sections, the order of siblings and what a node holds are left
out, and what it is named is kept, since ids are paths of names. Each node has one parent function
`tree.up` and one name. An add, a delete or a rename files a `Step`, which `Done` and `Undone` make and
take back on whatever tree is there. A listener of the session's own bus that rebuilds the index
(`reindexAll`) is part of the action that publishes. A host edits a file itself only while the file
has no history, since a host that edits a tree by other means keeps its undo itself.

`SrcOf` is the file a tree is read of and `Label` what its ids begin with. They differ where two
projects have one base name (`addProjectSource`), since a project's label is the name without its
folder; `LabelsApart` says no two do.

`MCSession` extends `Session` and holds three parts, one at a time: one file edited in every way, two
files with longer histories, and the usages.

### Usage

A session is the sources registered, each with what it was read with; a model is its blocks in the
reader's order, each with its parameters, the names each reads and its masks. The session resolves a
name by `resolutionOrder` and lists `findUsages`; the index does so of summaries, by `resolveName`,
and lists `usagesOf` and `paramsOf`. `resolveLink` is where a link of either leads, and `usageScope`
the part of a folder that is read for a file.

### TextDictionary

A document is a sequence of elements and commas, one long each, so an offset is a count of them; an
element has a name, a uuid, a section and a value, one of which (`"broken"`) no parser reads. `Read`
is a whole read, `model` the tree. A table edit (`cellEdit`, `Restructure`) paints the tree first
and leaves its change `pending` until `land` writes it; `type`, `editorUndo` and `editorRedo` change
the text alone. Each change's event is resolved by `planChange` in the order the planners' comments
give: the painted echo, the edit just made, those remembered, the range in the text, and then a
whole read.

The host that calls the planners is not in this repository; it is modelled as their comments and tests
say it calls them. `Chance` and `SameLength` say whether two changes may agree by chance in what the
planners compare (offset, length, text): the run has them off, and "What was found" says what follows
from having them on.

### BinaryDictionary

A chunk is a sequence of fragments, each an entry with one element or an array of them, and each
element a record of parts with a value and how it is spelt, by the file or by the writer. `mergeEntry`
is the three-way merge over them, `buildDataChunkXml` the write of the whole chunk and
`spliceEntryObject` that of one entry; `savedChunkRefusal` is the gate. An edit changes the tree and the
chunk, and is a `Step` that `undo` and `redo` take back with the entry rebuilt of the text (`Rebuilt`).
The host's bookkeeping (which keys were edited, which could not be checked) is that of the test
`binarySaveGateOps.test.ts`. `opened` and `touched` are ghosts. `savedChunkRefusal` here is every
reason there is to refuse a chunk, where the code returns the first. A chunk opened is an `IsChunk`: in
it no two entries have one key, and the name of an entry without a uuid is no other's. Ids, which the
code has no use for but to be told apart, are numbers: `FileIds` is above those of the chunks opened, and
an entry added has a uuid and an id past them, made by no other edit.

### MatlabVariable

The state is the node (`kind`, classes, shape, elements, what it holds of the file) with its row nodes,
and the two stacks. The helpers take a whole state and return one, as the methods they are named
after mutate the node: `addChildNode`, `removeChildNode`, `restoreChildNode`, `Uncollapsed`. What reads
typed text is external: `Typed` and `Elements` are what it reads. The map of the shapes a cell had before
its removals, `_cellDimsBefore`, is an object the node refers to: the field `cellDimsBefore` is the
reference, none at first, and `cellDims` has the maps. What a typed value holds of the node and puts back
is the reference, with the map as it has become. `strayed` is a ghost: whether a step has not found the
row it was of, or a removal undone not the shape.

### MatFile, McosSubsystem, McosMerge and MatObjects

`MatFile` has a file as a run of records, and of each the marks by which `planOf` decides what a save
writes of it. An object has a master, the node it is edited through, and twins that `mirrorTwins` copies
it to. `strayed` is a ghost: whether a step was undone in a `Value` node that a copy has replaced since.

`McosSubsystem` has the tables themselves: strings, classes, objects, property lists, cells and
defaults, each naming the others by number, with the words they are written as, and the edits that
append to them. `McosMerge` is the copy of a template's object into another file's tables, in the
order MATLAB appends, the triples a property's edit writes, and `VerifySubsystem`. `MatObjects` is
the document over them: an object made is merged at once into a copy of the subsystem; a property
edited is only shown until a save merges again what is still held and writes what is shown. The
templates and strings are in `MCObjects`.

`MCDocuments` holds the five documents side by side, one of them open in a run. It extends
`BinaryDictionary`, whose properties the runs then check as the theorems state them (the chunk is
empty while another document is open), and has instances of the others.

## What is checked

Twelve runs; each passing one is complete (TLC explores every state of the instance).

| run | instance | shows |
|---|---|---|
| `SourceCache_live` | two callers, cheap asks and plans, a watched model, one write, every fault | `TypeOK`, `AsksAreAnswered`, `EventuallyCurrent` |
| `SourceCache_bounds` | four caches, one at a time: five models of two sizes, two pins and a budget of one small model; a model, a data file and a project asked for by three callers, with stats and reads that fail; two plans over an unwatched model, two writes; two callers, a tab's or a plan's, over one watched model that nothing clears, two writes, two versions, one content that does not parse | `MapBound`, `EvictsOldestUnpinned`; `OneDerivation`; `CurrentUnlessDisplaced`; `SlotsAreFlights`, `JoinersHaveAFlight`, `WatchedTiersCurrent`, `QuietAnswersCurrent` |
| `Host_folder` | two savers, files of one and two chunks over one of two; a supported file and one that is not, a folder and a skipped one, two changes, a debounce of one tick | `AccessKept`, `NeverEmptied`, `OriginalStays`, `KeepsPromise`; `InStep`, `ComesInStep`, `StopIsTold`; `TypeOK` |
| `Session_edits` | three parts, one at a time: a file re-read as another tree, two twins and a node to add, a host's own edits; two files with two undo steps each; two models, three dictionaries of which two have one base, and a MAT-file, in every order of opening | `TypeOK`, `IndexIsOfTheTrees`, `FoundIsTheOne`, `SelectionIsLetGo`, `HistoryApplies`, `HistoryLeadsBack`; `UsersAreTheReaders`, `ScopeAnswersAlike` |
| `Documents_edits` | texts with one name in two namespaces, with and without uuids, and empty, under three changes; three chunks under three edits and one read; four values under four edits; MAT-files whose variables share objects, under three edits; five subsystems under two edits and a delete, with saves | `NarrowIsWide`, `WritesItsOwn`, `NoNameTwice`; `TextIsModel`, `BuildIsText`, `UntouchedKept`, `GateLets`, `KeyedUncheckableStays`; `RowsAreTheValue`, `HistoryLeadsBack`, `WrittenAsRead`; `SavedIsShown`; `DocumentsTypeOK` |
| `SourceCache_unseen` | two callers, one unwatched model, two writes, cheap asks and plans | **violated** `TiersCurrent` |
| `SourceCache_usage` | one caller, two models, one of them watched, one write | **violated** `UsageAnswersCurrent` |
| `Host_replaced` | one name for a folder and for a file | **violated** `InStep` |
| `Documents_taken` | two elements with no uuid, one keystroke | **violated** `NarrowIsWide` |
| `Documents_renamed` | one entry without a uuid that the check cannot be held to | **violated** `UncheckableStays` |
| `Documents_rows` | a row of two doubles, three edits | **violated** `StepsFindTheirRows` |
| `Documents_shapes` | a value and a column cell typed in its place, three edits | **violated** `ShapesComeBack` |

Where several documents keep a promise of one kind, one name states it of each: `HistoryLeadsBack`
of `MCDocuments` is of values and of a MAT-file's steps, `WrittenAsRead` of values, of a MAT-file
wholly undone and of objects, and `SavedIsShown` of both kinds of MAT-file.

*Bounds.* `MaxWrites` and `MaxVersion` bound the disk: two writes and two tokens are a write that
moves the version and one that moves it back, with a flight begun before each, which is the longest
chain the comments of the cache describe. The budget and folder caches take no write, since
neither's properties are of writes; the watched one is not cleared, which `SourceCache_live` and the
proofs have beside its writes. Five models against two pins leave one to be stored and two that may
be evicted in either order. Two savers are the one writing and the one sweeping. Two changes of a
folder are the change and what is at its path when its event arrives; the event set has no order, so
this includes every late and swapped delivery. `MaxSteps` bounds the undo of each file: two steps
are one undone and one not, and the new step that ends a redo. `TextEdits`, `MaxEdits`
(of a chunk), `ValueEdits`, `MatEdits` and `ObjectEdits` bound the changes of a document, undos and keystrokes
among them, except for a value, whose undos are not counted: three of a text are an edit, what comes
before its event and what follows; three of a chunk are an edit, its undo and the next edit of the
rebuilt entry; four of a value are enough to grow it, cut it to one element, type over it and
delete; three of a MAT-file are an edit of a shared object, of another of its nodes, and an undo;
two of the objects, with a delete beside, are an object made and edited, or two made and the first
let go, which has the save merge again. `MaxRows` is above what those edits can
reach; `MaxEntries` and `MaxElements` let a text and an array have one element more than the longest
opened. Symmetry is over callers and, in
the bounds run, the models of one size no tab tells apart; the run with liveness properties uses
none.

*Deadlock* is checked, but for the hosts' runs, which end when the save has or the changes are
spent, and the documents' runs, which end when the edits are.

*Fairness.* `SourceCache!FairSpec`: each step of a call is weakly fair, since a promise of a stat or
a read settles and its continuation runs, and each watcher's event is delivered. Asks and writes are
not fair. `MCHost!FairSpec`: events are delivered, and a timer runs and fires. Changes of the
folder, errors and `dispose` are not fair.

### What was found

Each of the first seven is a run that TLC finds violated.

- **A displaced flight** (`SourceCache_unseen`). The slot of a file holds one flight. When a caller
  at another version takes it, the first runs on, unseen by `heldVersionsOf`, though its comment
  counts every derivation in flight. A write that puts the file back at its version is then taken
  for one the version key can see, nothing is forgotten, and the flight stores the bytes of before.
  `CurrentUnlessDisplaced` shows this is the only way.
- **A summary of another version** (`SourceCache_usage`). `summaryOf` merges whatever summary is held
  for a model, where the comment on `forgetIfVersionUnmoved` has every tier re-check the version. After
  an ordinary save, a forget of any other file while the model is re-read leaves the old summary
  to be merged.
- **A folder replaced by a file** (`Host_replaced`). A folder is removed and a file with its
  name, without an extension, is there by the time its event is looked at: neither a folder nor gone,
  so nothing is reported. `Host_folder` keeps the names of files and folders apart and has no such loss.
- **A name taken** (`Documents_taken`). The planners of a text resolve a change to the entry that bears
  the *new* text's name, and never check that it is the entry that changed
  (`jsonEntrySync.ts:256-318`), though their header promises never a wrong table. A keystroke that gives
  an element without a uuid another's name repaints the other's row. `Chance = FALSE` has
  `Documents_edits` leave such keystrokes out.
- **An unchecked entry renamed** (`Documents_renamed`). An entry with no uuid that the check cannot be
  held to is edited, rebuilt and renamed; the rename is checkable by then, so its new key is not
  linked to the old one, and the save loses what the file held in it and nobody edited.
  `KeyedUncheckableStays` shows an entry that keeps its key has no such loss, if nothing is given
  the name it has in the file. That condition came of the proof: a host that sets `node.name` away from
  the file's name and back, without marking the node, has its own check armed again by bytes that are
  whole; the keys are then not linked for a later edit, and an undo of both after a save, which clears
  what was not checked, writes the entry anew with nothing to stop it. Six edits, above the runs' bound.
- **A row that is not the one held** (`Documents_rows`). An array cut to one element drops that
  element's row and an undo makes another, though `childEdit.ts` says a redo restores the same node. A
  step that held the first then finds no row to take out, and the value keeps an element.
- **A shape filed in another map** (`Documents_shapes`). A cell keeps the shape it had before each
  removal in a map that is one of the node's own fields: none at first, made at the first removal
  (`MatlabVariableNode.ts:3361`), and put back by reference, or as none, when a value typed is undone or
  redone (`DataNode.ts:1266-1295`). Type `{1;2}`, delete its first element, type another value, undo all
  three, redo all three, and undo twice: the redone delete filed its shape in a new map, the undo of the
  redone value put back the first, and the cell comes back 1x2, where the field's own comment
  (lines 384-386) has it come back 2x1. `HistoryLeadsBack` says nothing past such a removal, which
  `strayed` marks.

Met while modelling, and kept out of the passing runs by a named condition:

- A remembered edit of a text is known again by its offset, length and inserted text, not by what it
  removed (`jsonEntrySync.ts:385-433`), so a keystroke that agrees in those is taken for it.
  `SameLength = FALSE` leaves it out.
- An entry added to a compressed dictionary and saved has no bytes to be merged with, so the next edit
  of it is refused (`"cannotBeChecked"`) until the file is read again: `GateLets` lets that pass.
- Deleting an element that was typed over, undone and redone in some orders loses the delete's redo,
  and a collapse is taken for one that came before it, since `_applyParsed` and `_becomeStruct` do not
  clear `_preCollapseDims`. `strayed` marks these histories, and `HistoryLeadsBack` says nothing of them.
- Undoing an edit of a `Value` whose row a copy between two variables of one object has replaced acts
  on the row that was (`ParameterNode.ts:563-574`, `childEdit.ts:52-63`); `strayed` marks it in `MatFile`.
- Two properties of an object whose values share a cell, or two objects that share a list, are offered
  for editing where `matSpotRefusal` looks only at whether the *object* is shared, and the save then
  refuses (`applyTripleOps`, `ownPvList`), though `MatNode.ts:641-648` says a refusal comes before.
  `MCObjects!SharedFiles` is such a file, kept out of `SmallFiles`.
- The session lists a block once for each of its parameters that reads a definition and the index once
  for each block; of two open files of one base name the session takes the first opened and the index the
  last; a block without a SID is linked to by its name, which may be a variable's; and an origin's link
  to a masked block none of whose parameters is an expression leads to no row. `EnginesAgree` and
  `LinksLeadBack`, the parts of `UsersAreTheReaders`, compare the engines up to these.
- A watched folder's name that has an extension, or is a supported file's, is outside `NamesApart`: the
  comment of `watchFolder` says a removed name with no extension is taken for a folder's.

None of the first three is of the safety of a user's data: two answer with an artifact out of date,
and one leaves a list with a folder that is gone. The fourth shows a wrong table over a right text; the
last three change what is saved.

## What is proved

Eight modules of proofs, for every value of the constants, the bounds of the runs among them. Each assumes its component's named assumption on the constants, which TLC evaluates
on every run: `ConstantsAssumption` (finitely many models, at least one pin), `SaveAssumption`,
`WatchAssumption`, `SessionAssumption` (finitely many nodes; a file is read as entries and their
children), `BinaryDictionaryAssumption` (a chunk opened is well formed, with ids up to some number, `FileIds`) and,
for the composed cache, `PartsAssumption`. Where a theorem has a hypothesis more, it
is named below.

### The cache

`SourceCacheProofs`, for any callers, files and bounds:

1. `StructureInvariant`: the types, `SlotsAreFlights`, `JoinersHaveAFlight` and `CallsOK` are
   inductive together. A joiner's flight can be lost only by settling, which answers it; that needs
   the slot to be a flight when it is joined, and that needs a call to have a version when it takes
   one. `TypeCorrect`, `SlotsHoldOnlyFlights` and `EveryJoinerHasItsFlight` follow.
2. `SettledInvariant`: `SettledIsNow` is inductive given the first. `WatchedTiersCurrent` alone is
   not: it says nothing of the flights that are about to store. The strengthening says that of a
   watched file with no event pending, the tiers, and every derivation that is still *trusted* (may
   store, can be joined, or has a joiner who may store or must be answered), hold what the
   file holds now, under whatever version. A write breaks it for the file, and makes it unsettled; the
   event's `forgetSource` restores it, since it empties the tiers and both slots and takes `fresh`
   from every derivation. `WatchedTiersStayCurrent` and `QuietAnswersAreCurrent` follow.

The second half of `SourceCacheProofs` is of what the parse map holds: `MapStaysWithinBound` and
`StoresEvictOldest`.
The size of a set is a fold, a function defined by recursion over subsets. What it computes is shown
without an induction principle, which would take an operator: of the subsets a claim fails for, one is
least, since strict inclusion on a finite set is well founded, and it cannot be (`SmallestSubset`). The
same argument, of the places in an order, shows which parses the walk of `evictParsed` lets go. The
invariant is `BudgetInvariant`: only models are parsed, what is held has one order of use, the ring
is no longer than its length, and the bound.

`SourceCacheBoundsProofs` has `DerivedOnce`, whose invariant says that a derivation alone at its
version, of a file not written, is the one in the slot; and `WorkspaceStaysCurrent`, that a tier holds
old content under the current version only once a flight has been displaced. The invariant accounts for
each old artifact and each flight that would store one: it is in a slot or a tier that
`heldVersionsOf` sees, or was displaced. The proof widened what counts as displaced: a flight that
another file's forget made unfit to store, and that a plan then joined, stores its summary by the
joiner, and is displaced by it as much as by a caller at another version. `OnlyTheDisplacedEscape` is
the same of `Spec`, where the watcher's stat answers.

### The host

`SafeReplaceProofs`, for any number of windows and any lengths. `SaveInvariant` holds seven facts
with the types, which lean on each other: `NeverEmptied`; a temporary file that is under the name is one whose save is
past its rename; a write in place has open no file that is still written as a temporary
one; a temporary file is what its saver has
written of it, whole and on disk at the rename; what replaces a file has its access; the host's own
write comes only after the folder went; and while a file with other names or a read-only one is
there, no save is on its way to a rename. `AccessIsKept`, `OriginalIsNeverEmptied` and
`OriginalIsNeverReplaced` follow, and `ImplementsAtomicSave`: under the refinement mapping the
name's file, what a loss of power may bring back and each save's phase are `AtomicSave`'s, the
rename is its `Replace`, a turn to writing in place its `Overwrite`, each call of that a `Scribble`,
and the calls before the rename are stutters.

`HostProofs`, of the watch: `NothingIsMissed` is `InStep` under `NamesApart`, that no name is a file's
and a folder's, and folders' names have no extension (`Host_replaced` shows the first is needed; the
second is documented). Its invariant, `Covered`, is that where a watching host is behind the folder, the
burst will tell it or an event yet to come leads there; it needs `AllPlaced`, that a host holds
nothing a listing could not.

And of the host: a behaviour of `MCHost` is one of each, so all of these hold of the spec the runs
check.

### The session

`SessionProofs`, for any files, nodes and names:

- `SessionTypeCorrect`. The types are not inductive: an undo puts back a node under a parent that must
  be at the right level, so `LevelsKept` speaks of what is in the trees and of what any step, done or
  undone, would put there.
- `IndexFollowsTheTrees` and `AnswersWithTheOne`, under `LabelsApart`. The invariant is `IndexOK`: the
  index is of exactly the ids of the open trees, an id that one node has is that node's, and every id that
  two have is noted as shared (`TwinsAreNoted`, which is what makes `hasTwin` sound). Beside the
  trees registered and closed, every edit is shown to be a whole reindex or a re-keying of all that
  changed (`Reindexes`), and each of these to keep it; the last is `reindexAround`'s, where a node left
  behind may have lost its twin or gained one. Without `LabelsApart` it is false: two projects of one base
  name have ids in common, and closing one takes them from the other.

`SessionHistoryProofs`, under `LabelsApart`:

- `HistoriesAreWalkable`: each step of a file's undo and redo applies when its turn comes and is taken
  back exactly. `HistoryApplies` speaks of trees that are computed by walking back, and is not inductive:
  an edit of one file changes the tree the other's history is walked in. The invariant has for each file
  a *trail*, a sequence of trees from before its first step to undo to after its last to redo, each a
  step from the one before, told only of the nodes *at home* in the file. `Homed` gives each node one
  file, and only the nodes of a file are touched by its steps, so a step elsewhere leaves its trail as it
  is; an edit cuts the trail and adds a tree, an undo or redo moves the place in it, a host's edit or
  an added node patches every tree of it. That walking back meets the trail (`UnwoundIs`, `RewoundIs`) is
  an induction over an interval, by the least place where it would fail.
- `HistoriesLeadBack`: where undoing everything leads is where the trail begins, which no step moves
  while the file stays open and has a history.
- `SelectionsAreLetGo`, with `ViewOK`: what is selected is in an open file, and the context, if it is in a
  file, is in an open one; so whatever takes nodes out also lets go of them.

The whole of it is `Whole`; that each action keeps it is one lemma per action (`RegisterGoes`,
`DeleteGoes`, `UndoGoes` and so on), whose common form is `Goes`.

### The compressed dictionary

`BinaryEntryProofs` and `BinaryDictionaryProofs`, for any chunks, names and values and any number of
edits, reads and elements.

The first is of one entry, whatever its bytes. `MergeReadsAsModel`: a merge of bytes the scan reads,
with what the writers make of them and of the node now, reads again as the node, so the check that
`mergedEntry` makes never fails; what it needs is that every element of the node is one the bytes hold,
no two the same, or was added (`ComesFrom`), which each edit keeps. `MergeKeeps` and
`MergeLosesNothing`: what no edit touched is in the merge as the bytes have it, and
`keptPartsOf`, which is another program over the same three texts, finds nothing lost. `MergeOfWritten`:
of bytes the writers wrote, a merge is what they would write now, which an entry put back by a redo needs.

The second has the inductive invariant `Inv`. None of the properties is inductive, since an undo puts
back a chunk of any number of edits ago and rebuilds a node of it. Its seven parts:

- `Kept`: the chunks saved and edited are well formed, and each fragment in them *descends* from the one
  opened: same uuid, the same bytes if the scan cannot read it, and nothing untouched lost.
- `Aligned`: entry by entry the tree is the chunk. Each node reads as its fragment, the fragment is what
  would be written of the node now, and what the node was read of descends likewise.
- `History`: each step done or undone leads from a well-formed chunk to another by one entry replaced,
  removed or inserted, and the steps meet end to end at the chunk.
- `Named`: what differs from the chunk saved has been named by an edit since.
- `Removed`: an entry of the file that was taken out is out, and one step done took it.
- `Unread` and `Fresh`: an entry the check cannot read that is not as saved is marked as such; while
  nothing has rebuilt a node, under the key it has now.

`TextReadsAsTheModel`, `BuildsTheText`, `UntouchedIsKept`, `GateLetsEdits` and `KeyedUncheckableKept`
follow. For `BuildsTheText` the order in which a chunk is built is shown to be one, each entry's place in
it being how many come before (`OneOfRank`), so that the entries written are those of the tree, each once.

### Only model-checked

- Liveness (`AsksAreAnswered`, `EventuallyCurrent`, `ComesInStep`, `StopIsTold`), which the
  prover does not reach.
- The other four documents: their planners and tables are folds and recursive definitions over
  sequences, and what they compute for every input needs induction over data. `MCDocuments` also reaches
  recursive operators (`McosSubsystem`, `McosMerge`, `MatObjects`), as `Usage` does, for which the prover
  has no arithmetic; so `UsersAreTheReaders` and `ScopeAnswersAlike` stay with TLC, as do
  `NarrowIsWide` and the others of `Documents_edits`. `DocumentsTypeOK` is checked of all five, and
  proved of the compressed dictionary (`DictionaryTypeCorrect`).
- `MCDocuments` is checked with `DocumentsSpec`, whose steps on a chunk are `BinaryDictionary`'s; the
  theorems are of that module's own `Spec`.
- `MCSession` is checked with `PartsSpec`, whose steps in the first two parts are `Session`'s; the
  theorems are of `Session`'s own `Spec`.

## What is not modelled

- **Readers and writers** of SLX, MDL and project files, and the encodings of MAT and SLDD, which are most
  of the repository's lines: each is a function of bytes with no state between calls, whose correctness
  is about layouts and encodings. A model of one would be its program again.
- **Node classes** other than a variable's value and the objects of `MatObjects`, schema tables, display
  and formatting: values computed from a node when asked.
- **Queries** other than usages (`core/findQuery.ts` and others), variant conditions and names: pure
  functions of text or of a tree.
- In the session: types, sections, order, its own paste and move, mirrors between rows, and listeners
  of a host that call back into it. In the cache: a fill of several models at once, which is so many
  plans. In a text dictionary: indents and the insides of elements. In a compressed one: attributes,
  epilog and layout. In a value: deeper nesting. In a MAT-file: structs, paste, what follows a Parameter's
  Value (its dimensions, complexity and type), and classes other than six. In usages: the parse of an
  expression into names, and workspaces of a model.

## Plan

1. *(done)* `SourceCache`, `SafeReplace` and `AtomicSave`, `WatchFolder`, `Session`, the documents,
   `Usage`, and the MAT-file down to its tables, with their runs.
2. *(done)* The proofs of the cache, the host, the session and a compressed dictionary.
3. Proofs about the other documents: the undo of a value and of a MAT-file's steps.
4. `MapLimited`: the workers, their cursor and a read that rejects; order, the bound on reads at
   once, and what still runs after a rejection.
5. `Folder`: `WatchFolder` composed with `SourceCache`, from the write on disk to the artifact a host
   shows.
6. A session with re-entrant listeners and steps that throw part-way.
