----------------------------- MODULE MCObjects ------------------------------
(***************************************************************************)
(* What the subsystems of MCDocuments are made of: the strings, and the    *)
(* templates a new object is copied from, each with the properties that    *)
(* tell the kinds of property apart.                                       *)
(***************************************************************************)
EXTENDS Sequences

CONSTANTS None

Strings ==
    <<"", "Simulink", "lookuptable", "string", "any", "Parameter", "Value", "CoderInfo", "Min",
      "Bus", "BusElement", "Alignment", "Preserve", "Elements_internal", "DataScope", "Auto",
      "Name", "DataType", "Breakpoint", "Breakpoints", "StructTypeInfo", "ValueType",
      "StorageClass", "ExportedGlobal", "ExternPointer", "TypeQualifier", "Alias",
      "CustomAttributes", "AttribClass", "be", "Exported">>

K(ns, name) == [namespace |-> ns, name |-> name, version |-> 0]
O(class, ctor, pv, dyn) == [classIndex |-> class, child |-> 0, sibling |-> 0, ctorList |-> ctor,
                            pvList |-> pv, dynamicProps |-> dyn]
P3(name, flag, v) == [name |-> name, flag |-> flag, value |-> v]
PlainCell(v) == [kind |-> "value", value |-> v]
RefCell(ids, class) == [kind |-> "reference", ids |-> ids, class |-> class]

Tables(version, strings, classes, ctorLists, objects, pvLists, dyn, removed, header) ==
    [version |-> version, strings |-> <<"">> \o strings, classes |-> <<K(0, 0)>> \o classes,
     ctorLists |-> ctorLists, objects |-> <<O(0, 0, 0, 0)>> \o objects, pvLists |-> pvLists,
     dynamicProps |-> dyn, valuePointers |-> <<>>, removedProps |-> removed, fileHeader |-> header]

\* A subsystem whose classes have no alias, no saved data and, but for those given, no defaults.
Whole(tables, values, defaults, rest) ==
    LET each == [i \in DOMAIN tables.classes |-> <<>>]
    IN  [blob |-> tables, values |-> values, packages |-> None, classData |-> each,
         aliases |-> [i \in DOMAIN each |-> 0], defaults |-> defaults, rest |-> rest]
Bare(tables, values, rest) == Whole(tables, values, [i \in DOMAIN tables.classes |-> <<>>], rest)

M0 == INSTANCE McosMerge WITH Alphabet <- Strings,
        Templates <- [c \in {<<"Simulink", "BusElement">>} |-> 0]

\* A CoderInfo of the 'handle' system: its custom attributes are an object of their own.
Coder(class) == M0!HandleCell(
    [shown |-> <<"Simulink", "CoderInfo">>, root |-> <<1>>,
     values |-> <<PlainCell(""), PlainCell("-1"), RefCell(<<2>>, 2)>>,
     blob |-> Tables(1, <<"Simulink", "CoderInfo", "StorageClass", class, "TypeQualifier", "",
                          "Alias", "Alignment", "CustomAttributes", "AttribClass">>,
                     <<K(1, 2), K(0, 10)>>, << <<>> >>, <<O(1, 0, 1, 0), O(2, 0, 2, 0)>>,
                     << <<>>, <<P3(3, 0, 4), P3(5, 0, 6), P3(7, 1, 0), P3(8, 1, 1), P3(9, 1, 2)>>, <<>> >>,
                     << <<>> >>, None, None)])

ParameterOf == [id |-> 1, row |-> 1, sub |-> Bare(
    Tables(4, <<"Value", "CoderInfo", "Min", "Parameter", "Simulink">>, <<K(5, 4)>>, <<>>,
           <<O(1, 0, 1, 1)>>, << <<>>, <<P3(1, 1, 0), P3(2, 1, 1), P3(3, 1, 2)>> >>,
           << <<>>, <<>> >>, <<>>, None),
    <<PlainCell("v0"), Coder("Auto"), PlainCell("none")>>, <<"MCOS", "handle">>)]

StringOf == [id |-> 1, row |-> 1, sub |-> Bare(
    Tables(4, <<"any", "string">>, <<K(0, 2)>>, << <<>>, <<P3(1, 1, 0)>> >>, <<O(1, 1, 0, 1)>>,
           << <<>> >>, << <<>>, <<>> >>, <<>>, [perArray |-> <<>>]),
    <<[kind |-> "payload", text |-> ""]>>, <<"MCOS">>)]

BusOf == [id |-> 1, row |-> 2, sub |-> Bare(
    Tables(4, <<"Alignment", "Preserve", "Elements_internal", "BusElement", "Simulink", "DataScope",
                "Auto", "Bus">>,
           <<K(5, 4), K(5, 8)>>, <<>>, <<O(2, 0, 1, 1)>>,
           << <<>>, <<P3(1, 1, 0), P3(2, 2, 0), P3(3, 1, 1), P3(6, 0, 7)>> >>,
           << <<>>, <<>> >>, <<>>, None),
    <<PlainCell("-1"), RefCell(<<>>, 1)>>, <<"MCOS">>)]

ElementOf == [id |-> 1, row |-> 1, sub |-> Bare(
    Tables(4, <<"Name", "DataType", "BusElement", "Simulink">>, <<K(4, 3)>>, <<>>,
           <<O(1, 0, 1, 1)>>, << <<>>, <<P3(1, 1, 0), P3(2, 1, 1)>> >>,
           << <<>>, <<>> >>, <<>>, None),
    <<PlainCell("a"), PlainCell("double")>>, <<"MCOS">>)]

\* A breakpoint holds two objects of classes of its own, each by a reference.
BreakpointOf == [id |-> 1, row |-> 3, sub |-> Bare(
    Tables(4, <<"Breakpoints", "Value", "Breakpoint", "lookuptable", "CoderInfo", "StructTypeInfo",
                "DataScope", "Auto", "Simulink">>,
           <<K(4, 3), K(4, 6), K(9, 3)>>, <<>>,
           <<O(3, 0, 1, 3), O(1, 0, 2, 1), O(2, 0, 3, 2)>>,
           << <<>>, <<P3(1, 1, 1), P3(5, 1, 2), P3(6, 1, 3)>>, <<P3(2, 1, 0)>>, <<P3(7, 0, 8)>> >>,
           << <<>>, <<>>, <<>>, <<>> >>, <<>>, None),
    <<PlainCell("v0"), RefCell(<<2>>, 1), Coder("Auto"), RefCell(<<3>>, 2)>>, <<"MCOS", "handle">>)]

\* A value type's class holds an element among its defaults.
ValueTypeOf == [id |-> 1, row |-> 1, sub |-> Whole(
    Tables(4, <<"ValueType", "Simulink", "DataType", "be", "Name", "BusElement">>,
           <<K(2, 1), K(2, 6)>>, <<>>, <<O(1, 0, 1, 2), O(2, 0, 2, 1)>>,
           << <<>>, <<>>, <<P3(5, 1, 0)>> >>, << <<>>, <<>>, <<>> >>, <<>>, None),
    <<PlainCell("a")>>,
    << <<>>, <<[name |-> "DataType", cell |-> PlainCell("double")], [name |-> "be", cell |-> RefCell(<<2>>, 2)]>>, <<>> >>,
    <<"MCOS">>)]

SmallTemplates ==
    LET of == {<< <<"Simulink", "Parameter">>, ParameterOf>>, << <<"", "string">>, StringOf>>,
               << <<"Simulink", "Bus">>, BusOf>>, << <<"Simulink", "BusElement">>, ElementOf>>,
               << <<"Simulink", "Breakpoint">>, BreakpointOf>>, << <<"Simulink", "ValueType">>, ValueTypeOf>>}
    IN  [c \in {p[1] : p \in of} |-> (CHOOSE p \in of : p[1] = c)[2]]

-----------------------------------------------------------------------------
\* Five MAT-files: with no objects; with a parameter; with a bus whose elements have a class
\* default, beside a string no variable holds; of a version no edit was measured on; and with a
\* class system beside MCOS that takes no other.
Variable(name, class, id, row) == [name |-> <<name, 0>>, class |-> class, id |-> id, row |-> row]
FileOf(sub, records) == [element |-> M0!WriteSubsystem(sub), records |-> records]
ParVariable == Variable("Parameter", <<"Simulink", "Parameter">>, 1, 1)

BusSubsystem == Whole(
    Tables(4, <<"Elements_internal", "BusElement", "Simulink", "Bus", "DataScope", "Auto", "Name",
                "DataType", "any", "string">>,
           <<K(3, 2), K(3, 4), K(0, 10)>>, << <<>>, <<P3(9, 1, 3)>> >>,
           <<O(2, 0, 1, 1), O(1, 0, 2, 2), O(1, 0, 3, 3), O(3, 1, 0, 4)>>,
           << <<>>, <<P3(1, 1, 2), P3(5, 0, 6)>>, <<P3(7, 1, 0)>>, <<P3(7, 1, 1), P3(8, 1, 4)>> >>,
           << <<>>, <<>>, <<>>, <<>>, <<>> >>, <<>>, None),
    <<PlainCell("a"), PlainCell("b"), RefCell(<<2, 3>>, 1), [kind |-> "payload", text |-> ""],
      PlainCell("single")>>,
    << <<>>, <<[name |-> "DataType", cell |-> PlainCell("double")]>>,
       <<[name |-> "Alignment", cell |-> PlainCell("-1")]>>, <<>> >>, <<"MCOS">>)

NoObjects == [element |-> None, records |-> <<>>]
AParameter == FileOf(ParameterOf.sub, <<ParVariable>>)
ABus == FileOf(BusSubsystem, <<Variable("Bus", <<"Simulink", "Bus">>, 1, 2)>>)
Unmeasured == FileOf([ParameterOf.sub EXCEPT !.blob.version = 5, !.packages = <<0, 0>>],
                     <<ParVariable>>)
Java == FileOf([StringOf.sub EXCEPT !.rest = <<"MCOS", "java">>],
               <<Variable("string", <<"", "string">>, 1, 1)>>)
SmallFiles == {NoObjects, AParameter, ABus, Unmeasured, Java}

\* A parameter whose Value and Min are one cell.
SharedFiles ==
    {FileOf([ParameterOf.sub EXCEPT !.blob.pvLists[2][3].value = 0], <<ParVariable>>)}

SmallClasses == {<<"Simulink", "Parameter">>, <<"", "string">>, <<"Simulink", "Bus">>,
                 <<"Simulink", "ValueType">>}

SmallOffers ==
    [Value |-> {"v0", "v1"}, StorageClass |-> {"Auto", "ExternPointer"}, Alias |-> {"", "x"},
     any |-> {"", "s"}, DataScope |-> {"Auto", "Exported"}, Alignment |-> {"-1", "8"},
     DataType |-> {"double", "single"}]
=============================================================================
