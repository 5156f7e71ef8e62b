---------------------------- MODULE MCDocuments ----------------------------
(***************************************************************************)
(* The documents an editor has open, one at a time: a dictionary that is   *)
(* text (TextDictionary), a chunk of one that is not (BinaryDictionary),   *)
(* one value (MatlabVariable), a MAT-file (MatFile) or the objects of one, *)
(* down to their records (MatObjects).  What is not open stands still.     *)
(***************************************************************************)
EXTENDS BinaryDictionary

CONSTANTS
    Opened,         \* which of "text", "chunk", "value", "mat" and "objects" may be open
    Texts, MatlabValues, Mats, ObjectFiles,     \* the documents of each but the chunks
    Alphabet, Templates, Creatable, Offered, ElementNames,  \* see MatObjects
    Chance,         \* see TextDictionary
    TextEdits, ValueEdits, MatEdits, ObjectEdits, ObjectDeletes,    \* bounds the edits of each
    A, B

INSTANCE MCObjects

VARIABLES open,
    doc, tree, fresh, pending, known, changes, unchanges, uuids, textEdits,
    value, rows, cellDims, past, future, asRead, valueEdits, strayed,
    mat, file, counts, steps, undoneSteps, matEdits,
    mcos, mcosPast, mcosFuture, mcosEdits, outcome

-----------------------------------------------------------------------------
Clipboard == {[name |-> <<A>>, val |-> "vec"]}

T == INSTANCE TextDictionary WITH
    Bases <- {A, B}, InitialTexts <- Texts, Payloads <- Clipboard, TypedValues <- {"num2", "broken"},
    SameLength <- FALSE, MaxCopies <- 4, MaxEntries <- 3, MaxEdits <- TextEdits, MaxKnown <- 2,
    text <- doc, model <- tree, done <- changes, undone <- unchanges, edits <- textEdits

\* What is typed of a value and of its elements.
P(type, elements, dims) == [type |-> type, elements |-> elements, dims |-> dims]
Num(n, im) == [n |-> n, im |-> im]
Row    == P("numbers", <<Num(1, None), Num(2, None)>>, <<1, 2>>)
Column == P("cell", <<Num(1, None), Num(2, None)>>, <<2, 1>>)
Empty  == P("numbers", <<>>, <<0, 0>>)

V == INSTANCE MatlabVariable WITH
    AsRead <- MatlabValues, Typed <- {Column, Empty}, Elements <- {Num(1, None), Num(1, 1)},
    MaxEdits <- ValueEdits, MaxRows <- 16, edits <- valueEdits

ASSUME T!TextDictionaryAssumption
M == INSTANCE MatFile WITH
    Files <- Mats, NewNames <- {"A", "U"}, Values <- {"v0", "v1"}, Texts <- {"", "s1"},
    Minima <- {"none", "1"}, Default <- [plain |-> "v0", string |-> ""], MaxEdits <- MatEdits,
    doc <- mat, past <- steps, future <- undoneSteps, edits <- matEdits

Ob == INSTANCE MatObjects

ASSUME V!MatlabVariableAssumption
ASSUME M!MatFileAssumption
ASSUME Ob!MatObjectsAssumption

\* The files are ones the reader reads, but for those that have nothing to read.
ASSUME \A f \in ObjectFiles : f.element # None => Ob!ReadSubsystem(f.element) # None

-----------------------------------------------------------------------------
\* One name in two namespaces, told apart by a uuid; one entry with no uuid; and nothing.
Comma == [name |-> None, uuid |-> None, sec |-> None, val |-> ","]
Of(b, u, sec) == [name |-> <<b>>, uuid |-> u, sec |-> sec, val |-> "num"]
SmallTexts == {<<Of(A, 1, "design"), Comma, Of(A, 2, "other")>>,
               <<Of(B, None, "arch")>>,
               <<>>}
NoUuids == {<<Of(A, None, "design"), Comma, Of(B, None, "design")>>}

\* Three chunks: an array of two elements, beside an entry the scan does not read, with a
\* UUID and without; and two entries of one name, one with a comment among its parts and one
\* with no LastMod.
Part(v) == [val |-> v, how |-> "file"]
Elem(id, parts) == [id |-> id, origin |-> None, parts |-> parts]
Entry(id, name, uuid, mod, array, scans, pairs, elements) ==
    [id |-> id, name |-> name, uuid |-> uuid, mod |-> mod, array |-> array, extra |-> "kept",
     scans |-> scans, pairs |-> pairs, open |-> [val |-> Len(elements), how |-> "file"],
     elements |-> elements]
Bus == Entry(1, "A", 1, "file", TRUE, TRUE, TRUE,
             <<Elem(1, [a |-> Part("v1"), x |-> Part("x")]),
               Elem(2, [b |-> Part("v0"), x |-> Part("x")])>>)
Unread(uuid) == Entry(2, "B", uuid, "file", FALSE, FALSE, TRUE, <<Elem(1, [a |-> Part("v1")])>>)
Undated   == Entry(1, "A", 1, None, FALSE, TRUE, TRUE,
                   <<Elem(1, [b |-> Part("v1"), x |-> Part("x")])>>)
Commented == Entry(2, "A", 2, "file", FALSE, TRUE, FALSE,
                   <<Elem(1, [a |-> Part("v1"), x |-> Part("x")])>>)
SmallChunks == {<<Bus, Unread(2)>>, <<Unread(None)>>, <<Undated, Commented>>}
UnreadAlone == {<<Unread(None)>>}

\* A complex row of int16, a column of cells and one of strings, and an empty array.
SmallValues ==
    LET two == <<Num(1, None), Num(2, None)>>
    IN  {[parsed |-> P("numbers", <<Num(1, 0), Num(2, 1)>>, <<1, 2>>), class |-> "int16"],
         [parsed |-> Column, class |-> "double"],
         [parsed |-> P("strings", two, <<2, 1>>), class |-> "double"],
         [parsed |-> Empty, class |-> "double"]}

\* Three MAT-files: a handle held by a variable and in a cell, before a record that is not read;
\* two variables of one name, a string, and a handle held past the objects too; and no objects.
Plain(v)      == [kind |-> "plain", value |-> v]
Handle(id)    == [kind |-> "object", id |-> id]
String(id)    == [kind |-> "string", id |-> id]
CellOf(ms)    == [kind |-> "cell", members |-> ms]
Record(n, e)  == [name |-> n, element |-> e]
Objects       == Record(None, [kind |-> "objects"])
Parameter     == [value |-> "v0", min |-> "none"]
SmallMats ==
    {[records |-> <<Record("H", Handle(1)), Record("C", CellOf(<<Plain("v0"), Handle(1)>>)),
                    Record("U", [kind |-> "unread"]), Objects>>,
      subsystem |-> 4, objects |-> <<Parameter>>],
     [records |-> <<Record("A", Handle(1)), Record("A", Plain("v0")), Record("H", Handle(2)),
                    Record("S", String(3)), Objects, Record("P", Handle(2))>>,
      subsystem |-> 5, objects |-> <<Parameter, Parameter, [value |-> "s1", min |-> None]>>],
     [records |-> <<Record("A", Plain("v0")), Record("B", Plain("v1"))>>,
      subsystem |-> 0, objects |-> <<>>]}
OneRow == {[parsed |-> Row, class |-> "double"]}

-----------------------------------------------------------------------------
NoText  == /\ doc = None /\ tree = None /\ fresh = None /\ pending = None /\ known = None
           /\ changes = None /\ unchanges = None /\ uuids = None /\ textEdits = None
\* No chunk is an empty one, so what is said of a chunk is said of every document.
NoChunk == /\ text = <<>> /\ saved = text /\ opened = text /\ frame = [n |-> 0, chunk |-> text]
           /\ model = <<>> /\ edited = {} /\ unchecked = <<>> /\ done = <<>> /\ undone = <<>>
           /\ edits = 0 /\ touched = {}
NoValue == /\ value = None /\ rows = None /\ cellDims = None /\ past = None /\ future = None
           /\ asRead = None /\ valueEdits = None /\ strayed = None
NoMat   == /\ mat = None /\ file = None /\ counts = None /\ steps = None
           /\ undoneSteps = None /\ matEdits = None
NoObjectFile == /\ mcos = None /\ mcosPast = None /\ mcosFuture = None
                /\ mcosEdits = None /\ outcome = None

textVars  == <<doc, tree, fresh, pending, known, changes, unchanges, uuids, textEdits>>
valueVars == <<value, rows, cellDims, past, future, asRead, valueEdits, strayed>>
matVars   == <<mat, file, counts, steps, undoneSteps, matEdits>>
objectVars == <<mcos, mcosPast, mcosFuture, mcosEdits, outcome>>
documentsVars == <<open, textVars, vars, valueVars, matVars, objectVars>>

DocumentsInit ==
    /\ open \in Opened
    /\ IF open = "text"  THEN T!Init ELSE NoText
    /\ IF open = "chunk" THEN Init ELSE NoChunk
    /\ IF open = "value" THEN V!Init ELSE NoValue
    /\ IF open = "mat"   THEN M!Init ELSE NoMat
    /\ IF open = "objects" THEN Ob!Init ELSE NoObjectFile

DocumentsNext ==
    \/ open = "text"  /\ T!Next /\ UNCHANGED <<open, vars, valueVars, matVars, objectVars>>
    \/ open = "chunk" /\ Next /\ UNCHANGED <<open, textVars, valueVars, matVars, objectVars>>
    \/ open = "value" /\ V!Next /\ UNCHANGED <<open, textVars, vars, matVars, objectVars>>
    \/ open = "mat"   /\ M!Next /\ UNCHANGED <<open, textVars, vars, valueVars, objectVars>>
    \/ open = "objects" /\ Ob!Next /\ UNCHANGED <<open, textVars, vars, valueVars, matVars>>

DocumentsSpec == DocumentsInit /\ [][DocumentsNext]_documentsVars

-----------------------------------------------------------------------------
(***************************************************************************)
(* The properties of each but the chunk, whose are BinaryDictionary's, of  *)
(* the document that is open.                                              *)
(***************************************************************************)
DocumentsTypeOK ==
    /\ TypeOK
    /\ open = "text"  => T!TypeOK
    /\ open = "value" => V!TypeOK
    /\ open = "mat"   => M!TypeOK
    /\ open = "objects" => Ob!TypeOK

\* The table of a text shows what reading the text again would.
NarrowIsWide == open = "text" => T!NarrowIsWide

\* A write of the table's changes the rows edited and no other.
WritesItsOwn == T!WritesItsOwn

\* No namespace is given one name twice.
NoNameTwice == T!NoNameTwice

\* The rows under a value are the value.
RowsAreTheValue == open = "value" => V!RowsAreTheValue

\* The steps of a value's history meet the value they were made of, and none of a file's is refused.
HistoryLeadsBack ==
    /\ open = "value" => V!HistoryLeadsBack
    /\ open = "mat"   => M!StepsAreTaken

\* What is written as it was read is what was read, a file wholly undone is so written, and what no
\* edit of a file's objects touched is as it was.
WrittenAsRead ==
    /\ open = "value" => V!WrittenAsRead
    /\ open = "mat"   => M!UndoneIsAsRead
    /\ open = "objects" => Ob!WrittenAsRead /\ Ob!UntouchedKept

\* A file can always be saved, and reads back as the variables shown.
SavedIsShown ==
    /\ open = "mat" => M!SavedIsShown
    /\ open = "objects" => Ob!SavedIsShown

\* An element put back into a cell brings the cell's shape back.
ShapesComeBack == open = "value" => V!ShapesComeBack

\* The rows a value's steps hold are there when they are undone.
StepsFindTheirRows == open = "value" => V!StepsFindTheirRows
=============================================================================
