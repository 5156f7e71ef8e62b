--------------------------- MODULE MatlabVariable ---------------------------
(***************************************************************************)
(* One MATLAB value of a dictionary edited in a session: rows added and    *)
(* deleted, an element or the whole value typed, every edit undone and     *)
(* redone (datamodel/node/data/MatlabVariableNode.ts, node/DataNode.ts,    *)
(* node/childEdit.ts and the edits of core/DataModel.ts that call them).   *)
(*                                                                         *)
(* The value is a node with a row node for each element.  It changes what  *)
(* it is as it is edited: an array cut to one element is a scalar with no  *)
(* rows, an empty one given a field is a struct.  The undo steps hold row  *)
(* nodes and copies of the value, so what a step finds when it is undone   *)
(* depends on every edit made and undone since.                            *)
(*                                                                         *)
(* An element is a number with no imaginary part or with one, which a      *)
(* complex array holds as text; a string is told by its number alone.      *)
(* What reads the typed text is external: the inputs are what it reads.    *)
(***************************************************************************)
EXTENDS Integers, Sequences, FiniteSets, SequencesExt, Functions

CONSTANTS
    AsRead,     \* the values a dictionary may open with, as InitialValue makes them
    Typed,      \* the whole values typed, as MatlabValueParser reads them
    Elements,   \* the elements typed
    MaxEdits,   \* bounds the edits made, and so the steps held
    MaxRows,    \* bounds the row nodes alive at once
    None

Rows == 1 .. MaxRows

MatlabVariableAssumption == MaxEdits \in Nat /\ MaxRows \in Nat

VARIABLES
    value,      \* the node: its own fields and its children
    rows,       \* every row node's _scalarType and _scalarValue
    cellDims,   \* the maps of _cellDimsBefore: the shapes a cell had before rows left it
    past,       \* the undo stack of the document
    future,     \* and its redo stack
    asRead,     \* what the value was when it was read
    edits,      \* counts the edits made
    strayed     \* how steps have gone astray: by their "row", or the "shape" one was to bring back

vars == <<value, rows, cellDims, past, future, asRead, edits, strayed>>

NoRow == [type |-> None, val |-> None]

\* Text, as an element with an imaginary part is held, is complex; a number is not.
Real(n)   == [n |-> n, im |-> None]
IsText(e) == e # None /\ e.im # None

elementClass(class)    == IF class = "int16" THEN class ELSE "double"
complexClassTag(class) == IF class = "int16" THEN class ELSE None
elementCount(dims)     == FoldLeft(LAMBDA p, d : p * d, 1, dims)

indexOf(children, r) == SelectInSeq(children, LAMBDA c : c = r)

Fresh(used) == CHOOSE r \in Rows \ used : \A q \in Rows \ used : r <= q

-----------------------------------------------------------------------------
(***************************************************************************)
(* What a node works out of itself.  Here and below s is a whole state of  *)
(* the value: its node, its rows and its maps.  The node has one map or    *)
(* none; another may come back with a step that holds it.                  *)
(***************************************************************************)
State == [node |-> value, rows |-> rows, cellDims |-> cellDims]

IsStruct(node) == node.kind = "scalar" /\ node.scalarType = "struct"

RowValues(s) == [k \in DOMAIN s.node.children |-> s.rows[s.node.children[k]].val]

_liveElements(s) == IF s.node.children = <<>> THEN s.node.elements ELSE RowValues(s)

_isComplexValue(s) ==
    \/ s.node.scalarType = "complex"
    \/ /\ s.node.kind = "array"
       /\ IF _liveElements(s) = <<>> THEN s.node.elementType = "complex"
          ELSE \E e \in Range(_liveElements(s)) : IsText(e)

_complexClass(node) ==
    LET tag == complexClassTag(IF node.kind = "array" THEN node.scalarType ELSE node.collapsedClass)
    IN  IF tag = None THEN "double" ELSE tag

className(node) ==
    CASE node.kind = "cell"          -> "cell"
      [] node.kind = "string"        -> "string"
      [] node.scalarType = "complex" -> _complexClass(node)
      [] OTHER                       -> node.scalarType

\* What the table shows of the value and of its rows, and the save writes.
Shown(s) ==
    [kind |-> s.node.kind, class |-> className(s.node), dims |-> s.node.dims,
     value |-> CASE s.node.kind \in {"array", "string"} -> _liveElements(s)
                 [] s.node.kind = "cell" \/ IsStruct(s.node) -> RowValues(s)
                 [] OTHER -> <<s.node.scalarValue>>,
     rows |-> Len(s.node.children)]

_isMatrixShaped(node) ==
    /\ node.kind \in {"array", "cell", "string"}
    /\ elementCount(node.dims) > 0
    /\ Cardinality({i \in DOMAIN node.dims : node.dims[i] # 1}) > 1

\* Mutant: every vector is taken for a row.
_updateDimsForCountOfRow(dims, count) == <<1, count>>

\* The shape of a vector of so many elements, along the axis it ran along.
_updateDimsForCount(dims, count) ==
    LET axes == IF elementCount(dims) = 0 THEN {} ELSE {i \in DOMAIN dims : dims[i] # 1}
    IN  IF count <= 1 \/ axes = {} THEN <<1, count>>
        ELSE [i \in DOMAIN dims |-> IF \A j \in axes : i <= j /\ i \in axes THEN count ELSE 1]

\* _settleRows and _settleComplexity: an array is complex while one element of it has an
\* imaginary part that is not 0, and every element and row of it is then held as text.
_settleRows(s, elements, complex) ==
    LET type == IF complex THEN "complex" ELSE elementClass(s.node.scalarType)
        At(r) == indexOf(s.node.children, r)
    IN  [s EXCEPT !.node.elements = elements, !.node.elementType = type,
                  !.rows = [r \in Rows |->
                      IF r \in Range(s.node.children) /\ At(r) <= Len(elements)
                      THEN [type |-> type, val |-> elements[At(r)]] ELSE s.rows[r]]]

_settleComplexity(s) ==
    LET elements == IF Len(s.node.children) = Len(s.node.elements) THEN _liveElements(s)
                    ELSE s.node.elements
        complex  == \E e \in Range(elements) : IsText(e) /\ e.im # 0
        Settled(e) == IF e = None THEN e
                      ELSE IF ~complex THEN Real(e.n)
                      ELSE IF IsText(e) THEN e ELSE [e EXCEPT !.im = 0]
    IN  IF s.node.kind # "array"
           \/ (s.node.elementType # "complex" /\ ~ \E e \in Range(elements) : IsText(e))
        THEN s
        ELSE _settleRows(s, [k \in DOMAIN elements |-> Settled(elements[k])], complex)

\* What the value was read from, which a save writes again, is let go by an edit.
_markModified(s) == [s EXCEPT !.node.raw = FALSE, !.node.valueEdited = TRUE]

-----------------------------------------------------------------------------
(***************************************************************************)
(* A row added, a row taken out, and a row put back.                       *)
(***************************************************************************)
WithRow(s, r, type, val) == [s EXCEPT !.rows[r] = [type |-> type, val |-> val]]

_addArrayChild(s, r) ==
    LET wide == [WithRow(s, r, elementClass(s.node.scalarType), Real(0)) EXCEPT
                    !.node.children = Append(@, r),
                    !.node.elements = Append(@, Real(0)),
                    !.node.dims = _updateDimsForCount(@, Len(s.node.elements) + 1)]
    IN  _markModified(_settleComplexity(wide))

\* Mutant: the cell is not marked.
_addCellChildUnmarked(s, r) ==
    [WithRow(s, r, "double", Real(0)) EXCEPT
        !.node.children = Append(@, r),
        !.node.dims = _updateDimsForCount(@, Len(s.node.children) + 1)]

_addCellChild(s, r) ==
    _markModified([WithRow(s, r, "double", Real(0)) EXCEPT
        !.node.children = Append(@, r),
        !.node.dims = _updateDimsForCount(@, Len(s.node.children) + 1)])

_addStringChild(s, r) ==
    _markModified([WithRow(s, r, "string", Real(0)) EXCEPT
        !.node.children = Append(@, r),
        !.node.elements = Append(@, Real(0)),
        !.node.dims = _updateDimsForCount(@, Len(s.node.elements) + 1)])

_addStructField(s, r) ==
    _markModified([WithRow(s, r, "double", Real(0)) EXCEPT !.node.children = Append(@, r)])

_becomeStruct(s) ==
    [s EXCEPT !.node.kind = "scalar", !.node.scalarType = "struct", !.node.scalarValue = None,
              !.node.elements = <<>>, !.node.dims = <<1, 1>>, !.node.children = <<>>]

_takesFieldOnAdd(node) == node.kind = "array" /\ node.elements = <<>>

\* _addChildNow, of a value that is no empty array.
addChildNode(s, r) ==
    CASE IsStruct(s.node)         -> _addStructField(s, r)
      [] s.node.kind = "array"    -> _addArrayChild(s, r)
      [] s.node.kind = "cell"     -> _addCellChild(s, r)
      [] s.node.kind = "string"   -> _addStringChild(s, r)

\* _addChildRefusal, for a value of a dictionary.
canAddChild(node) ==
    /\ node.kind = "scalar" => IsStruct(node)
    /\ ~_isMatrixShaped(node)
    /\ node.kind = "string" => elementCount(node.dims) # 1 /\ node.elements # <<>>

\* Cut to one element, an array is a scalar with no rows, which keeps its class and, for the
\* undo, the shape it had.
_updateArrayAfterRemove(t) ==
    LET s == _settleComplexity(t) IN
    IF Len(s.node.elements) = 1
    THEN [s EXCEPT !.node.preCollapseDims = s.node.dims,
                   !.node.preCollapseType =
                       IF s.node.elementType = "complex" THEN s.node.scalarType ELSE None,
                   !.node.collapsedClass = IF _isComplexValue(s) THEN s.node.scalarType ELSE @,
                   !.node.scalarType = IF _isComplexValue(s) THEN "complex" ELSE @,
                   !.node.kind = "scalar", !.node.scalarValue = s.node.elements[1],
                   !.node.dims = <<1, 1>>, !.node.elements = <<>>, !.node.children = <<>>]
    ELSE [s EXCEPT !.node.dims =
              IF s.node.elements = <<>> THEN <<1, 0>>
              ELSE _updateDimsForCount(@, Len(s.node.elements))]

_updateStringAfterRemove(s) ==
    CASE Len(s.node.elements) = 1 ->
             [s EXCEPT !.node.preCollapseDims = s.node.dims, !.node.dims = <<1, 1>>,
                       !.node.children = <<>>]
      [] Len(s.node.elements) = 0 -> [s EXCEPT !.node.dims = <<1, 0>>]
      [] OTHER -> [s EXCEPT !.node.dims = _updateDimsForCount(@, Len(s.node.elements))]

\* _cellDimsBefore, by row: the map is made where there is none, and a shape read is let go.
FreshMap(s) == CHOOSE m \in 1 .. Cardinality(DOMAIN s.cellDims) + 1 : m \notin DOMAIN s.cellDims

CellDims(s) == IF s.node.cellDimsBefore = None THEN <<>> ELSE s.cellDims[s.node.cellDimsBefore]

Filed(s, r) ==
    LET m == IF s.node.cellDimsBefore = None THEN FreshMap(s) ELSE s.node.cellDimsBefore
    IN  [s EXCEPT !.node.cellDimsBefore = m,
                  !.cellDims = (m :> ((r :> s.node.dims) @@ CellDims(s))) @@ @]

LetGo(s, r) ==
    IF r \notin DOMAIN CellDims(s) THEN s
    ELSE [s EXCEPT !.cellDims[s.node.cellDimsBefore] = Restrict(@, DOMAIN @ \ {r})]

\* A row that is not among the children is no one's to take out.
removeChildNode(s, r) ==
    LET i       == indexOf(s.node.children, r)
        without == [s EXCEPT !.node.children = RemoveAt(@, i)]
        cut     == [without EXCEPT !.node.elements = RemoveAt(@, i)]
    IN  IF i = 0 THEN s
        ELSE _markModified(
            CASE s.node.kind = "array"  -> _updateArrayAfterRemove(cut)
              [] s.node.kind = "string" -> _updateStringAfterRemove(cut)
              [] s.node.kind = "cell"   ->
                     [Filed(without, r) EXCEPT
                         !.node.dims = _updateDimsForCount(@, Len(without.node.children))]
              [] OTHER                  -> without)

\* _removeChildRefusal, for a value of a dictionary.
canRemoveChild(node, r) ==
    /\ node.kind = "scalar" => IsStruct(node)
    /\ ~_isMatrixShaped(node)
    /\ node.kind = "string" => Len(node.dims) <= 2
    /\ r \in Range(node.children)

\* Mutant: the element a collapsed array kept gets no row.
UncollapsedBare(s, survivor) ==
    IF s.node.kind = "scalar"
    THEN [s EXCEPT !.node.kind = "array", !.node.elements = <<s.node.scalarValue>>,
                   !.node.dims = s.node.preCollapseDims]
    ELSE s

\* The row of the element a collapsed array kept, made anew.
Uncollapsed(s, survivor) ==
    LET class == IF s.node.preCollapseType # None THEN s.node.preCollapseType ELSE s.node.scalarType
        type  == IF s.node.preCollapseType # None THEN "complex" ELSE s.node.elementType
        val   == s.node.scalarValue
    IN  IF s.node.kind = "scalar"
        THEN [WithRow(s, survivor, IF type = "complex" /\ IsText(val) THEN "complex"
                                   ELSE elementClass(class), val) EXCEPT
                !.node.scalarType = class, !.node.elementType = type,
                !.node.collapsedClass = IF s.node.preCollapseType # None THEN None ELSE @,
                !.node.preCollapseType = None,
                !.node.kind = "array", !.node.elements = <<val>>, !.node.scalarValue = None,
                !.node.dims = s.node.preCollapseDims, !.node.preCollapseDims = None,
                !.node.children = <<survivor>>]
        ELSE [WithRow(s, survivor, "string", s.node.elements[1]) EXCEPT
                !.node.dims = IF s.node.preCollapseDims = None THEN <<1, 1>>
                              ELSE s.node.preCollapseDims,
                !.node.preCollapseDims = None,
                !.node.children = <<survivor>>]

IsCollapsed(node) ==
    \/ node.kind = "scalar" /\ node.preCollapseDims # None
    \/ node.kind = "string" /\ node.children = <<>> /\ Len(node.elements) = 1

\* Array.splice: past the end is at the end.
splice(seq, i, e) == InsertAt(seq, IF i > Len(seq) THEN Len(seq) + 1 ELSE i, e)

restoreChildNode(t, r, i, survivor) ==
    LET s    == IF IsCollapsed(t.node) THEN Uncollapsed(t, survivor) ELSE t
        back == [s EXCEPT !.node.children = splice(@, i, r)]
        full == [back EXCEPT !.node.elements = splice(@, i, s.rows[r].val),
                             !.node.dims = _updateDimsForCount(@, Len(s.node.elements) + 1)]
        was  == CellDims(s)
    IN  _markModified(
            CASE s.node.kind = "array"  -> _settleComplexity(full)
              [] s.node.kind = "string" -> full
              [] s.node.kind = "cell"   ->
                     [LetGo(back, r) EXCEPT !.node.dims =
                         IF r \in DOMAIN was /\ elementCount(was[r]) = Len(back.node.children)
                         THEN was[r] ELSE _updateDimsForCount(@, Len(back.node.children))]
              [] OTHER                  -> back)

-----------------------------------------------------------------------------
(***************************************************************************)
(* The whole value typed, and an element.                                  *)
(***************************************************************************)
_numericClassAfter(node) ==
    elementClass(IF node.kind = "scalar" /\ node.scalarType = "complex" THEN _complexClass(node)
                 ELSE node.scalarType)

\* The rows of a list typed in: the lowest row nodes that nothing holds.
FreshRows(used, n) ==
    LET free == {r \in Rows \ used : Cardinality({q \in Rows \ used : q < r}) < n}
    IN  SetToSortSeq(free, <)

\* p is what was typed: a list of numbers, some complex or none, a list of strings, a cell,
\* or one number.
_applyParsed(s, p, used) ==
    LET numeric == _numericClassAfter(s.node)
        list    == p.type # "number"
        rowed   == list /\ (p.type = "cell" \/ Len(p.elements) > 1)
        new     == IF rowed THEN FreshRows(used, Len(p.elements)) ELSE <<>>
        complex == \E e \in Range(p.elements) : IsText(e)
        element == CASE p.type = "cell"    -> "double"
                     [] p.type = "strings" -> "string"
                     [] complex            -> "complex"
                     [] OTHER              -> elementClass(numeric)
        At(r)   == indexOf(new, r)
        made    == [s EXCEPT
            !.rows = [r \in Rows |-> IF r \in Range(new)
                                     THEN [type |-> element, val |-> p.elements[At(r)]] ELSE @[r]],
            !.node.children = new, !.node.raw = FALSE, !.node.collapsedClass = None,
            !.node.dims = p.dims]
    IN  CASE p.type = "cell"    -> [made EXCEPT !.node.kind = "cell", !.node.scalarType = "double"]
          [] p.type = "strings" -> [made EXCEPT !.node.kind = "string", !.node.scalarType = "string",
                                                !.node.elements = p.elements]
          [] p.type = "numbers" -> [made EXCEPT !.node.kind = "array", !.node.scalarType = numeric,
                                                !.node.elementType = element,
                                                !.node.elements = p.elements]
          [] p.type = "number" /\ complex ->
                 [made EXCEPT !.node.kind = "scalar", !.node.scalarType = "complex",
                              !.node.scalarValue = p.elements[1],
                              !.node.collapsedClass = complexClassTag(numeric)]
          [] OTHER -> [made EXCEPT !.node.kind = "scalar", !.node.scalarType = numeric,
                                   !.node.scalarValue = p.elements[1]]

\* _setConstrainedValue and _elementEdited: an element of an array or of strings typed.
_setConstrainedValue(s, r, e) ==
    LET type  == CASE s.node.kind = "string" -> "string"
                   [] IsText(e)              -> "complex"
                   [] OTHER                  -> elementClass(s.node.scalarType)
        typed == WithRow(s, r, type, e)
    IN  _markModified(_settleComplexity(
            [typed EXCEPT !.node.elements[indexOf(s.node.children, r)] = e]))

-----------------------------------------------------------------------------
(***************************************************************************)
(* What the steps hold.  A step is what was done, on which row, with what  *)
(* the closures of its undo and redo keep: the marks before it, or copies  *)
(* of the value and its rows before and after it.  was and is, what was    *)
(* shown before and after it, are kept for the properties alone.           *)
(***************************************************************************)
_editMarks(node) == [raw |-> node.raw, valueEdited |-> node.valueEdited]

WithMarks(s, marks) ==
    [s EXCEPT !.node.raw = marks.raw, !.node.valueEdited = marks.valueEdited]

\* _ownStateRestorer: the node's own fields and its children put back, the rows as they now
\* are; _elementRestorer: and what its array's rows hold.  heldCopy gives back _cellDimsBefore as
\* it was, none or a map, and the map as it has become.
Held(s) == [node |-> s.node,
            rows |-> [r \in Rows |-> IF r \in Range(s.node.children) THEN s.rows[r] ELSE NoRow]]

PutBack(s, held) == [s EXCEPT !.node = held.node]

PutRowsBack(s, held) ==
    [PutBack(s, held) EXCEPT
        !.rows = [r \in Rows |-> IF held.rows[r] = NoRow THEN @[r] ELSE held.rows[r]]]

StepRows(step) == Range(step.before.node.children) \union Range(step.after.node.children)
                      \union ({step.row} \ {None})
Used == Range(value.children)
            \union UNION {StepRows(s) : s \in Range(past)}
            \union UNION {StepRows(s) : s \in Range(future)}

\* A row nothing holds any more is no one's, and nor is a map.
Kept(s, p, f) ==
    LET steps == Range(p) \union Range(f)
        held  == Range(s.node.children) \union UNION {StepRows(x) : x \in steps}
        maps  == {s.node.cellDimsBefore}
                     \union UNION {{x.before.node.cellDimsBefore, x.after.node.cellDimsBefore} : x \in steps}
    IN  [s EXCEPT !.rows = [r \in Rows |-> IF r \in held THEN @[r] ELSE NoRow],
                  !.cellDims = [m \in DOMAIN @ \intersect maps |-> Restrict(@[m], DOMAIN @[m] \intersect held)]]

Nothing == [node |-> [children |-> <<>>, cellDimsBefore |-> None], rows |-> <<>>]

Becomes(s, p, f) ==
    LET k == Kept(s, p, f)
    IN  /\ value' = k.node
        /\ rows' = k.rows
        /\ cellDims' = k.cellDims
        /\ past' = p
        /\ future' = f

\* pushExecuted: the step made goes on the undo stack, and what was undone is let go.
Make(step, s) ==
    /\ Becomes(s, Append(past, [step EXCEPT !.was = Shown(State), !.is = Shown(s)]), <<>>)
    /\ edits' = edits + 1
    /\ UNCHANGED <<asRead, strayed>>

Step(what, r, i) ==
    [what |-> what, row |-> r, at |-> i, dims |-> value.dims, marks |-> _editMarks(value),
     before |-> Nothing, after |-> Nothing, was |-> None, is |-> None]

Editing == edits < MaxEdits /\ Cardinality(Rows \ Used) >= 3

-----------------------------------------------------------------------------
(***************************************************************************)
(* The edits a session makes.                                              *)
(***************************************************************************)
\* addChildOfNode, of the value: execAddChild.
addChild ==
    /\ Editing
    /\ ~_takesFieldOnAdd(value)
    /\ canAddChild(value)
    /\ LET r == Fresh(Used)
       IN  Make(Step("add", r, Len(value.children) + 1), addChildNode(State, r))

\* And of an empty array, which it makes a struct: _addFirstStructField.
_addFirstStructField ==
    /\ Editing
    /\ _takesFieldOnAdd(value)
    /\ LET r == Fresh(Used)
       IN  Make([Step("first", r, 1) EXCEPT !.before = Held(State)],
                _addStructField(_becomeStruct(State), r))

\* deleteOneNode, of a row: execRemoveChild.
deleteRow(r) ==
    /\ Editing
    /\ canRemoveChild(value, r)
    /\ Make(Step("remove", r, indexOf(value.children, r)), removeChildNode(State, r))

\* editProperty of the value's Value: a text that shows what is there is no edit, and every
\* empty shows one text.
ShowsAs(p) ==
    LET shown == Shown(State)
    IN  /\ shown.value = p.elements
        /\ shown.dims = p.dims \/ p.elements = <<>>
        /\ shown.kind = "cell" <=> p.type = "cell"
        /\ shown.kind = "string" <=> p.type = "strings"

typeValue(p) ==
    /\ Editing
    /\ ~IsStruct(value)
    /\ ~ShowsAs(p)
    /\ LET after == _markModified(_applyParsed(State, p, Used))
       IN  Make([Step("value", None, 0) EXCEPT !.before = Held(State), !.after = Held(after)], after)

\* editProperty of a row's Value: an element's restorer puts its whole array back.
typeElement(r, e) ==
    /\ Editing
    /\ value.kind \in {"array", "string"}
    /\ r \in Range(value.children)
    /\ value.kind = "string" => ~IsText(e)
    /\ rows[r].val # e
    /\ LET after == _setConstrainedValue(State, r, e)
       IN  Make([Step("element", r, 0) EXCEPT !.before = Held(State),
                                              !.after = Held(after)], after)

\* And a cell's element or a struct's field, a value of its own, puts itself back.
typeMember(r, e) ==
    /\ Editing
    /\ value.kind = "cell" \/ IsStruct(value)
    /\ r \in Range(value.children)
    /\ rows[r].val # e
    /\ LET Own(s) == [Nothing EXCEPT !.rows = <<s.rows[r]>>]
           after  == _markModified(WithRow(State, r, IF IsText(e) THEN "complex" ELSE "double", e))
       IN  Make([Step("member", r, 0) EXCEPT !.before = Own(State), !.after = Own(after)], after)

\* What the undo of a step runs, and its redo.
Undone(step, survivor) ==
    LET back == CASE step.what = "add"     -> removeChildNode(State, step.row)
                  [] step.what = "remove"  -> restoreChildNode(State, step.row, step.at, survivor)
                  [] step.what = "member"  -> [State EXCEPT !.rows[step.row] = step.before.rows[1]]
                  [] step.what = "element" -> PutRowsBack(State, step.before)
                  [] OTHER                 -> PutBack(State, step.before)
        shaped == IF step.what = "add" /\ value.kind = "cell"
                  THEN [back EXCEPT !.node.dims = step.dims] ELSE back
    IN  WithMarks(shaped, step.marks)

Redone(step, survivor) ==
    CASE step.what = "add"    -> restoreChildNode(State, step.row, step.at, survivor)
      [] step.what = "remove" -> removeChildNode(State, step.row)
      [] step.what = "first"  ->
             _markModified([_becomeStruct(State) EXCEPT !.node.children = <<step.row>>])
      [] step.what = "member" -> _markModified([State EXCEPT !.rows[step.row] = step.after.rows[1]])
      [] step.what = "element" -> PutRowsBack(State, step.after)
      [] OTHER                -> PutBack(State, step.after)

\* A step goes astray that finds its row gone from the value, a struct taken for an array
\* because of a collapse before it was one, or the rows it puts back holding something else; and
\* one that puts back an element of a cell whose shape went into a map no longer the cell's.
Strays(step, restores, held) ==
    LET row   == CASE restores -> IsStruct(value) /\ value.preCollapseDims # None
                   [] step.what \in {"add", "remove"} -> step.row \notin Range(value.children)
                   [] step.what = "value" -> \E r \in Range(held.node.children) : rows[r] # held.rows[r]
                   [] OTHER -> FALSE
        shape == restores /\ value.kind = "cell" /\ step.row \notin DOMAIN CellDims(State)
    IN  {k \in {"row", "shape"} : IF k = "row" THEN row ELSE shape}

undo ==
    /\ past # <<>>
    /\ Rows \ Used # {}
    /\ LET step == Last(past)
       IN  /\ Becomes(Undone(step, Fresh(Used)), Front(past), Append(future, step))
           /\ strayed' = (strayed \union Strays(step, step.what = "remove", step.before))
    /\ UNCHANGED <<asRead, edits>>

redo ==
    /\ future # <<>>
    /\ Rows \ Used # {}
    /\ LET step == Last(future)
       IN  /\ Becomes(Redone(step, Fresh(Used)), Append(past, step), Front(future))
           /\ strayed' = (strayed \union Strays(step, step.what = "add", step.after))
    /\ UNCHANGED <<asRead, edits>>

-----------------------------------------------------------------------------
\* A value as a dictionary holds it: p and the class of its numbers.
InitialValue(p, class) ==
    LET blank == [kind |-> "scalar", scalarType |-> class, elementType |-> None, scalarValue |-> None,
                  elements |-> <<>>, dims |-> <<1, 1>>, children |-> <<>>, preCollapseDims |-> None,
                  preCollapseType |-> None, collapsedClass |-> None, cellDimsBefore |-> None,
                  raw |-> FALSE, valueEdited |-> FALSE]
        none  == [node |-> blank, rows |-> [r \in Rows |-> NoRow], cellDims |-> <<>>]
    IN  [_applyParsed(none, p, {}) EXCEPT !.node.raw = TRUE]

Init ==
    \E s \in {InitialValue(a.parsed, a.class) : a \in AsRead} :
        /\ value = s.node
        /\ rows = s.rows
        /\ cellDims = s.cellDims
        /\ asRead = Shown(s)
        /\ past = <<>>
        /\ future = <<>>
        /\ edits = 0
        /\ strayed = {}

Next ==
    \/ addChild
    \/ _addFirstStructField
    \/ \E r \in Rows : deleteRow(r)
    \/ \E p \in Typed : typeValue(p)
    \/ \E r \in Rows, e \in Elements : typeElement(r, e) \/ typeMember(r, e)
    \/ undo
    \/ redo

Spec == Init /\ [][Next]_vars

-----------------------------------------------------------------------------
(***************************************************************************)
(* Properties.                                                             *)
(***************************************************************************)
Element == [n : Nat, im : {None, 0, 1}]

TypeOK ==
    /\ value.kind \in {"scalar", "array", "string", "cell"}
    /\ value.scalarType \in {"double", "int16", "complex", "struct", "string"}
    /\ value.children \in Seq(Rows)
    /\ value.elements \in Seq(Element \union {None})
    /\ value.scalarValue \in Element \union {None}
    /\ rows \in [Rows -> [type : {"double", "int16", "complex", "string"}, val : Element \union {None}]
                             \union {NoRow}]
    /\ edits \in 0 .. MaxEdits
    /\ Len(past) + Len(future) <= edits

\* The rows shown under a value are the value: one row for every element of an array, a string
\* array or a cell, in order and holding what the save writes, as many as the shape says, all
\* complex or none; a value of one element has no rows; and no row is there twice.
RowsAreTheValue ==
    strayed # {} \/
    /\ IsInjective(value.children)
    /\ value.kind = "scalar" => value.dims = <<1, 1>>
    /\ value.kind = "scalar" /\ ~IsStruct(value) =>
           /\ value.children = <<>>
           /\ value.scalarType = "complex" <=> IsText(value.scalarValue)
    /\ value.kind = "cell" => elementCount(value.dims) = Len(value.children)
    /\ value.kind \in {"array", "string"} =>
           /\ elementCount(value.dims) = Len(value.elements)
           /\ Len(value.elements) = 1 => value.kind = "string"
           /\ Len(value.children) = IF Len(value.elements) = 1 THEN 0 ELSE Len(value.elements)
           /\ _liveElements(State) = value.elements
    /\ value.kind = "array" =>
           \/ \A r \in Range(value.children) : rows[r].type = "complex" /\ IsText(rows[r].val)
           \/ \A r \in Range(value.children) :
                  rows[r].type = elementClass(value.scalarType) /\ ~IsText(rows[r].val)

\* The history leads where it says: the step undone next finds the value as its edit left it,
\* and the step redone next as its edit found it.
HistoryLeadsBack ==
    strayed # {} \/
    /\ past # <<>> => Last(past).is = Shown(State)
    /\ future # <<>> => Last(future).was = Shown(State)

\* What a save writes as it was read is what was read, and a value with every edit of it
\* undone is written so.
WrittenAsRead ==
    /\ value.raw /\ strayed = {} => Shown(State) = asRead
    /\ past = <<>> => value.raw /\ ~value.valueEdited

\* The comments of childEdit.ts and restoreChildNode, of every history: the row a step holds is
\* in the value when the step comes to be undone or redone, and a struct is never taken for an
\* array that was cut down.
StepsFindTheirRows == "row" \notin strayed

\* The comment of _cellDimsBefore, of every history: an element of a cell deleted and restored
\* leaves the cell in the shape it had before the removal, and not one the count makes.
ShapesComeBack ==
    LET step == Last(future)
    IN  "row" \in strayed \/ future = <<>> \/ step.what # "remove" \/ value.kind # "cell"
            \/ value.dims = step.was.dims
=============================================================================
