----------------------------- MODULE MCSession -----------------------------
(***************************************************************************)
(* Session for TLC in two parts, and the usages of another session: one    *)
(* file's trees edited in every way, with the host's own edits and a file  *)
(* that changes, and one step to undo; plain edits of two files, with two  *)
(* steps to undo in each; and two models and what they read, whose usages  *)
(* are asked for.  Each part of Session takes only steps of it.            *)
(***************************************************************************)
EXTENDS Session

CONSTANTS f1, f2, a1, a2, a3, b1, x1, x2, x3, n1, X, Y

VARIABLES part,     \* "edited", "history" or "usage"
    sources

-----------------------------------------------------------------------------
\* a1 and a2 are the trees read of file f1 before and after it changed: x1 and x2, of one
\* name, and then nothing; a3 is another, of x3.  b1 is that of file f2, read as empty.  n1
\* is what may be added.
FileOf    == [r \in Roots |-> IF r = b1 THEN f2 ELSE f1]
Read      == [m \in Nodes |-> CASE m \in {x1, x2} -> a1 [] m = x3 -> a3 [] OTHER -> None]
Called    == [m \in Nodes |-> IF m = n1 THEN Y ELSE X]
Entries   == {{x1}, {x1, x2}, {x3}, {x3, n1}}
TwoSteps  == [s \in Sources |-> 2]

\* Two models, three dictionaries, of which two have one base, and a MAT-file.  ctl.slx has a
\* mask within a mask, each naming what the other reads; a block with no name and one with no
\* SID, named as a variable is.
UsageFiles == {"a/ctl.slx", "a/plant.slx", "a/p.sldd", "b/P.sldd", "a/q.sldd", "a/k.mat"}
Spelled    == {"P.SLDD", "q.sldd", "k.mat"}
Bases == [p \in UsageFiles \union Spelled |->
    CASE p \in {"a/p.sldd", "b/P.sldd", "P.SLDD"} -> "p.sldd"
      [] p \in {"a/q.sldd", "q.sldd"}             -> "q.sldd"
      [] p \in {"a/k.mat", "k.mat"}               -> "k.mat"
      [] OTHER                                    -> p]
Kinds == [p \in UsageFiles \union Spelled |->
    CASE Bases[p] \in {"p.sldd", "q.sldd"} -> "sldd"
      [] Bases[p] = "k.mat"                -> "mat"
      [] OTHER                             -> "model"]
Param(name, reads)            == [name |-> name, reads |-> reads]
Masked(name, expression, reads) == [name |-> name, expression |-> expression, reads |-> reads]
Block(name, sid, inside, params, mask) ==
    [name |-> name, sid |-> sid, inside |-> inside, params |-> params, mask |-> mask]
CtlBlocks == <<
    Block("Outer", "1", 0, <<>>, <<Masked("u", TRUE, <<"v">>), Masked("z", FALSE, <<>>)>>),
    Block("", "2", 1, <<>>, <<Masked("v", TRUE, <<"u">>)>>),
    Block("Gain", "3", 2, <<Param("Gain", <<"u", "v">>)>>, <<>>),
    Block("Sum", "4", 1, <<Param("Bias", <<"v", "u", "v">>), Param("Limit", <<"v">>)>>, <<>>),
    Block("u", "", 0, <<Param("Gain", <<"u", "v">>), Param("Text", <<>>)>>, <<>>)>>
PlantBlocks == <<
    Block("Delay", "1", 0, <<Param("Value", <<"u">>), Param("Sample", <<"v">>)>>, <<>>)>>
Model(workspace, dictionary, externals, mat, blocks) ==
    [workspace |-> workspace, dictionary |-> dictionary, externals |-> externals,
     workspaceMat |-> mat, blocks |-> blocks]
Sldd(held, refs) == [entries |-> held, refs |-> refs]
UsageContents == [f \in UsageFiles |->
    CASE f = "a/ctl.slx" ->
            {Model({"u"}, "P.SLDD", <<"q.sldd", "k.mat">>, None, CtlBlocks),
             Model({}, "P.SLDD", <<"q.sldd">>, "k.mat", CtlBlocks)}
      [] f = "a/plant.slx" -> {Model({}, None, <<"k.mat", "q.sldd">>, None, PlantBlocks)}
      [] f = "a/p.sldd" -> {Sldd({<<"Design", "u">>, <<"Other", "u">>}, <<"q.sldd">>),
                            Sldd({<<"Design", "v">>}, <<>>)}
      [] f = "b/P.sldd" -> {Sldd({<<"Design", "v">>}, <<"q.sldd">>)}
      [] f = "a/q.sldd" -> {Sldd({<<"Design", "u">>, <<"Other", "v">>}, <<"P.SLDD">>)}
      [] OTHER -> {[names |-> {"u"}], [names |-> {"v"}]}]
UsageNames == {"u", "v"}

U == INSTANCE Usage WITH
    Files <- UsageFiles, Refs <- Spelled, Base <- Bases, Kind <- Kinds,
    Contents <- UsageContents, Names <- UsageNames, MaxOpen <- 5, dataSources <- sources

ASSUME U!UsageAssumption

Trees(rs) == Open(dataSources') \subseteq rs

\* The trees of f1 edited, with one step to undo, and those of f2 only read.
EditedNext == /\ Next
              /\ Trees({a1, a2, b1})
              /\ \A s \in Sources : Len(undo'[s]) <= IF s = f1 THEN 1 ELSE 0

HistoryNext == Next /\ Trees({a3, b1})

PartsInit == Init /\ U!Init /\ part \in {"edited", "history", "usage"}

PartsNext == \/ part = "edited"  /\ EditedNext /\ UNCHANGED <<part, sources>>
             \/ part = "history" /\ HistoryNext /\ UNCHANGED <<part, sources>>
             \/ part = "usage"   /\ U!Next /\ UNCHANGED <<part, vars>>

PartsSpec == PartsInit /\ [][PartsNext]_<<vars, part, sources>>

-----------------------------------------------------------------------------
\* A definition's users are the blocks that read it, the session and the index answer alike,
\* and their links lead to what they name.
UsersAreTheReaders ==
    part = "usage" => U!TypeOK /\ U!UsersReadIt /\ U!EnginesAgree /\ U!LinksLeadBack

\* The files chosen for one of a folder answer for it as the whole folder does.
ScopeAnswersAlike == part = "usage" => U!ScopeAnswersAlike
=============================================================================
