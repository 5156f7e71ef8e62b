------------------------------- MODULE Usage -------------------------------
(***************************************************************************)
(* Which blocks use which definitions.  Two engines answer it: a session,  *)
(* of the trees registered with it (core/DataModel.ts), and an index, of   *)
(* summaries of a set of files (datamodel/usage/UsageIndex.ts), which a    *)
(* host may build of a part of a folder (usageScope.ts, usagePlan.ts).     *)
(*                                                                         *)
(* A model is its blocks in the order the reader walks them, each with     *)
(* what its parameters read; a dictionary or a MAT-file is its entries.    *)
(* A file's base is its basename with case folded.                         *)
(***************************************************************************)
EXTENDS Integers, Sequences, FiniteSets, SequencesExt

CONSTANTS
    Files,          \* the srcIds, each a path
    Refs,           \* the references to files as models and dictionaries spell them
    Base,           \* path or reference -> its base
    Kind,           \* path or reference -> "model", "sldd" or "mat"
    Contents,       \* file -> the contents it may be read with
    Names,          \* the identifiers definitions are named by
    MaxOpen,        \* the bound of files registered at once
    None

UsageAssumption ==
    /\ DOMAIN Base = Files \union Refs
    /\ Kind \in [Files \union Refs -> {"model", "sldd", "mat"}]
    /\ \A p, q \in Files \union Refs : Base[p] = Base[q] => Kind[p] = Kind[q]
    /\ DOMAIN Contents = Files
    /\ None \notin Files \union Refs \union Names
    /\ MaxOpen \in Nat

\* dataSources: the sources registered, first to last, each with what it was read with.
VARIABLE dataSources

IndexOf(f) == CHOOSE i \in DOMAIN dataSources : dataSources[i].file = f
Open       == {s.file : s \in Range(dataSources)}
ContentOf(f) == dataSources[IndexOf(f)].content

FirstOfEach(s) == FoldLeft(LAMBDA t, x : IF x \in Range(t) THEN t ELSE Append(t, x), <<>>, s)

-----------------------------------------------------------------------------
(***************************************************************************)
(* What reading a model gives: its parameters that read data, and the      *)
(* masks' scopes.                                                          *)
(***************************************************************************)
blockKey(b)   == IF b.sid # "" THEN b.sid ELSE b.name
blockLabel(b) == IF b.name # "" THEN b.name ELSE b.sid

\* The path of the system a block is in: the labels of the blocks around it.
SystemPath(c) ==
    LET path[i \in DOMAIN c.blocks] ==
            LET up == c.blocks[i].inside
            IN  IF up = 0 THEN <<>> ELSE Append(path[up], blockLabel(c.blocks[up]))
    IN  path

\* A parameter that reads nothing is not recorded, nor is a mask parameter that is no
\* expression.  A mask parameter's value is a parameter of the masked block.
blockParams(c) ==
    LET Param(i, property, reads) ==
            [key |-> blockKey(c.blocks[i]), system |-> SystemPath(c)[i],
             property |-> property, reads |-> reads]
        Own(i) == LET block     == c.blocks[i]
                      plain == SelectSeq(block.params, LAMBDA p : p.reads # <<>>)
                      mask  == SelectSeq(block.mask, LAMBDA p : p.expression /\ p.reads # <<>>)
                      made(s) == [k \in DOMAIN s |-> Param(i, s[k].name, s[k].reads)]
                  IN  made(plain) \o made(mask)
    IN  FlattenSeq([i \in DOMAIN c.blocks |-> Own(i)])

masksOf(c) ==
    LET masked == SelectSeq([i \in DOMAIN c.blocks |-> i], LAMBDA i : c.blocks[i].mask # <<>>)
    IN  [k \in DOMAIN masked |->
            LET i == masked[k]
                block == c.blocks[i]
            IN  [key   |-> blockKey(block),
                 path  |-> Append(SystemPath(c)[i], blockLabel(block)),
                 names |-> {p.name : p \in Range(block.mask)}]]

\* The innermost of the masks around a system that names n, the first of several.
maskDefining(masks, system, n) ==
    LET around(k) == n \in masks[k].names /\ IsPrefix(masks[k].path, system)
        found == {k \in DOMAIN masks : around(k)}
    IN  IF found = {} THEN None
        ELSE masks[CHOOSE k \in found :
                \A j \in found : \/ Len(masks[j].path) < Len(masks[k].path)
                                 \/ (Len(masks[j].path) = Len(masks[k].path) /\ k <= j)]

\* The identifiers of a parameter, each once.
Identifiers(p) == FirstOfEach(p.reads)

\* A workspace's MAT-file is listed with the other externals as well.
externalsOf(c) ==
    IF c.workspaceMat = None \/ c.workspaceMat \in Range(c.externals)
    THEN c.externals ELSE Append(c.externals, c.workspaceMat)

referencesOf(c) == (IF c.dictionary = None THEN <<>> ELSE <<c.dictionary>>) \o externalsOf(c)

OfKind(refs, kind) == SelectSeq(refs, LAMBDA r : Kind[r] = kind)

-----------------------------------------------------------------------------
(***************************************************************************)
(* The session.                                                            *)
(***************************************************************************)
\* A srcId spelled as the reference is beats one of the same base; of equals, the first
\* registered.
openSourceNamed(name) ==
    LET rank(i) == CASE dataSources[i].file = name              -> 4
                     [] Base[dataSources[i].file] = Base[name]  -> 3
                     [] OTHER                                   -> 0
        found   == {i \in DOMAIN dataSources : rank(i) > 0}
    IN  IF found = {} THEN None
        ELSE dataSources[CHOOSE i \in found :
                \A j \in found : rank(j) < rank(i) \/ (rank(j) = rank(i) /\ i <= j)].file

\* The nodes that are definitions: a model's workspace variables, a dictionary's entries, in
\* any section, and a MAT-file's variables.
DefinitionsIn(f) ==
    LET c  == ContentOf(f)
        In == CASE Kind[f] = "model" -> {<<"workspace", n>> : n \in c.workspace}
                [] Kind[f] = "sldd"  -> c.entries
                [] OTHER             -> {<<"variables", n>> : n \in c.names}
    IN  {[file |-> f, section |-> e[1], name |-> e[2]] : e \in In}

Definitions == UNION {DefinitionsIn(f) : f \in Open}

definedNamesOf(f) == {d.name : d \in DefinitionsIn(f)}

\* The dictionaries a queue of references reaches, breadth first, each base once; one that is
\* not open leads no further.
RECURSIVE DictionaryOrder(_, _)
DictionaryOrder(queue, seen) ==
    IF queue = <<>> THEN <<>>
    ELSE LET ref  == Head(queue)
             f    == openSourceNamed(ref)
             more == seen \union {Base[ref]}
         IN  IF Base[ref] \in seen \/ f = None THEN DictionaryOrder(Tail(queue), more)
             ELSE <<f>> \o DictionaryOrder(Tail(queue) \o ContentOf(f).refs, more)

\* The files a model's names are looked for in, first to last.
resolutionOrder(model) ==
    LET c        == ContentOf(model)
        refs     == referencesOf(c)
        isOpen(f) == f # None
        ws       == IF c.workspaceMat = None THEN None ELSE openSourceNamed(c.workspaceMat)
        named    == [k \in DOMAIN OfKind(refs, "mat") |-> openSourceNamed(OfKind(refs, "mat")[k])]
    IN  FirstOfEach(<<model>> \o SelectSeq(<<ws>>, isOpen)
            \o DictionaryOrder(OfKind(refs, "sldd"), {})
            \o SelectSeq(named, LAMBDA f : f # None /\ f # ws))

\* Whether definition d is in the file that a model's blocks find its name in.
Visible(model, d) ==
    LET order  == resolutionOrder(model)
        found  == {i \in DOMAIN order : d.name \in definedNamesOf(order[i])}
    IN  found # {} /\ d.file = order[CHOOSE i \in found : \A j \in found : i <= j]

ModelsOpen == SelectSeq([i \in DOMAIN dataSources |-> dataSources[i].file],
                        LAMBDA f : Kind[f] = "model")

\* One usage for each parameter that reads d's name out of every mask that names it.
findUsages(d) ==
    LET of(f) ==
            IF ~Visible(f, d) THEN <<>>
            ELSE LET c     == ContentOf(f)
                     uses  == SelectSeq(blockParams(c), LAMBDA p :
                                /\ d.name \in Range(Identifiers(p))
                                /\ maskDefining(masksOf(c), p.system, d.name) = None)
                 IN  [k \in DOMAIN uses |-> [model |-> f, key |-> uses[k].key,
                                            property |-> uses[k].property]]
    IN  FlattenSeq([k \in DOMAIN ModelsOpen |-> of(ModelsOpen[k])])

\* The rows a model's tree keeps of its blocks: one for each key that has parameters.
BlockRows(f) == IF Kind[f] # "model" THEN {}
                ELSE {p.key : p \in Range(blockParams(ContentOf(f)))}

\* What a link leads to: the definitions of its name, or else the block of its key.  A name
\* and a key are written alike.
resolveLink(link) ==
    LET f     == openSourceNamed(link.source)
        named == IF f = None THEN {} ELSE {d \in DefinitionsIn(f) : d.name = link.name}
    IN  CASE f = None                  -> [status |-> "source-not-open"]
          [] f # None /\ named # {}    -> [status |-> "resolved", nodes |-> named]
          [] f # None /\ named = {} /\ link.name \in BlockRows(f)
                                       -> [status |-> "resolved", block |-> link.name]
          [] OTHER                     -> [status |-> "not-found"]

-----------------------------------------------------------------------------
(***************************************************************************)
(* The index, of the summaries of a sequence of files.                     *)
(***************************************************************************)
modelSummary(s) ==
    LET bases(refs) == [k \in DOMAIN refs |-> Base[refs[k]]]
    IN  [srcId           |-> s.file,
         workspaceNames  |-> s.content.workspace,
         slddRefs        |-> bases(OfKind(referencesOf(s.content), "sldd")),
         matRefs         |-> bases(OfKind(referencesOf(s.content), "mat")),
         workspaceMatRef |-> IF s.content.workspaceMat = None THEN None
                             ELSE Base[s.content.workspaceMat],
         masks           |-> masksOf(s.content),
         blockParams     |-> blockParams(s.content)]

dataSummary(s) ==
    IF Kind[s.file] = "sldd"
    THEN [srcId |-> s.file, names |-> {e[2] : e \in s.content.entries},
          slddRefs |-> [k \in DOMAIN s.content.refs |-> Base[s.content.refs[k]]]]
    ELSE [srcId |-> s.file, names |-> s.content.names, slddRefs |-> <<>>]

\* Of several files of one base the last is kept.
mergeFileSummaries(files) ==
    LET models   == SelectSeq(files, LAMBDA s : Kind[s.file] = "model")
        ByName(kind) ==
            LET have(b) == {i \in DOMAIN files : Kind[files[i].file] = kind
                                                /\ Base[files[i].file] = b}
            IN  [b \in {Base[s.file] : s \in {x \in Range(files) : Kind[x.file] = kind}} |->
                    dataSummary(files[CHOOSE i \in have(b) : \A j \in have(b) : j <= i])]
    IN  [models     |-> [k \in DOMAIN models |-> modelSummary(models[k])],
         slddByName |-> ByName("sldd"),
         matByName  |-> ByName("mat")]

\* The dictionary that has n, of those a queue of bases reaches breadth first.
RECURSIVE InDictionaries(_, _, _, _)
InDictionaries(byName, n, queue, seen) ==
    IF queue = <<>> THEN None
    ELSE LET ref  == Head(queue)
             more == seen \union {ref}
         IN  IF ref \in seen \/ ref \notin DOMAIN byName
             THEN InDictionaries(byName, n, Tail(queue), more)
             ELSE IF n \in byName[ref].names THEN byName[ref].srcId
             ELSE InDictionaries(byName, n, Tail(queue) \o byName[ref].slddRefs, more)

\* As resolveName was: the workspace's MAT-file after the dictionaries, with the others.
resolveNameMatLast(model, n, sums, system) ==
    LET inMat(ref) == ref \in DOMAIN sums.matByName /\ n \in sums.matByName[ref].names
        mask       == maskDefining(model.masks, system, n)
        dictionary == InDictionaries(sums.slddByName, n, model.slddRefs, {})
        mats       == SelectSeq(model.matRefs, inMat)
        At(kind, srcId) == [kind |-> kind, srcId |-> srcId, mask |-> None]
    IN  IF mask # None
        THEN [kind |-> "mask", srcId |-> model.srcId, mask |-> mask.key]
        ELSE IF n \in model.workspaceNames THEN At("workspace", model.srcId)
        ELSE IF dictionary # None THEN At("sldd", dictionary)
        ELSE IF mats # <<>> THEN At("mat", sums.matByName[mats[1]].srcId)
        ELSE At(None, None)

\* Where a name that a parameter in a system reads is found: in the masks around it, in the
\* workspace, in the workspace's MAT-file, in the dictionaries, in the other MAT-files.
resolveName(model, n, sums, system) ==
    LET inMat(ref) == ref \in DOMAIN sums.matByName /\ n \in sums.matByName[ref].names
        mask       == maskDefining(model.masks, system, n)
        dictionary == InDictionaries(sums.slddByName, n, model.slddRefs, {})
        mats       == SelectSeq(model.matRefs, inMat)
        At(kind, srcId) == [kind |-> kind, srcId |-> srcId, mask |-> None]
    IN  IF mask # None
        THEN [kind |-> "mask", srcId |-> model.srcId, mask |-> mask.key]
        ELSE IF n \in model.workspaceNames THEN At("workspace", model.srcId)
        ELSE IF inMat(model.workspaceMatRef)
        THEN At("mat", sums.matByName[model.workspaceMatRef].srcId)
        ELSE IF dictionary # None THEN At("sldd", dictionary)
        ELSE IF mats # <<>> THEN At("mat", sums.matByName[mats[1]].srcId)
        ELSE At(None, None)

\* One usage for each block, and each name of a parameter credited where it resolves; a name
\* a mask gives is credited nowhere.
usagesOf(sums, srcId, n) ==
    LET of(m) ==
            LET uses == SelectSeq(m.blockParams, LAMBDA p :
                    /\ n \in Range(Identifiers(p))
                    /\ LET r == resolveName(m, n, sums, p.system)
                       IN  r.kind \notin {"mask", None} /\ r.srcId = srcId)
                add(s, p) == IF \E u \in Range(s) : u.key = p.key THEN s
                             ELSE Append(s, [model |-> m.srcId, key |-> p.key,
                                             property |-> p.property])
            IN  FoldLeft(add, <<>>, uses)
    IN  FlattenSeq([k \in DOMAIN sums.models |-> of(sums.models[k])])

\* Where each parameter of a block comes from: the first of its names that resolves.
paramsOf(sums, srcId, key) ==
    LET m       == CHOOSE m \in Range(sums.models) : m.srcId = srcId
        Ps      == SelectSeq(m.blockParams, LAMBDA p : p.key = key)
        origin(p) ==
            LET found == SelectSeq(Identifiers(p), LAMBDA n :
                            resolveName(m, n, sums, p.system).kind # None)
            IN  IF found = <<>> THEN [kind |-> None, name |-> None, link |-> None]
                ELSE LET r == resolveName(m, found[1], sums, p.system)
                     IN  [kind |-> r.kind, name |-> found[1],
                          link |-> [name   |-> IF r.mask = None THEN found[1] ELSE r.mask,
                                    source |-> r.srcId]]
    IN  [k \in DOMAIN Ps |-> [property |-> Ps[k].property, origin |-> origin(Ps[k])]]

-----------------------------------------------------------------------------
(***************************************************************************)
(* The part of a folder that answers for one of its files.                 *)
(***************************************************************************)
chainSourceOf(s) ==
    CASE Kind[s.file] = "model" -> referencesOf(s.content)
      [] Kind[s.file] = "sldd"  -> s.content.refs
      [] OTHER                  -> <<>>

\* The bases a file's chain reaches; every file of a base is followed, and only a
\* dictionary leads further.
RECURSIVE chainClosure(_, _, _)
chainClosure(files, queue, seen) ==
    IF queue \subseteq seen THEN seen
    ELSE LET next == {s \in Range(files) : /\ Base[s.file] \in queue \ seen
                                            /\ Kind[s.file] = "sldd"}
         IN  chainClosure(files,
                UNION {{Base[r] : r \in Range(chainSourceOf(s))} : s \in next}, seen \union queue)

closureOf(files, s) == chainClosure(files, {Base[r] : r \in Range(chainSourceOf(s))}, {})

\* The same, with one file of each base.
usageScopeOfOne(opened, files) ==
    LET models == {s \in Range(files) :
                     IF Kind[opened] = "model" THEN s.file = opened
                     ELSE Kind[s.file] = "model" /\ Base[opened] \in closureOf(files, s)}
        bases  == UNION {closureOf(files, s) : s \in models}
        firstOf(s) == \A i, j \in DOMAIN files :
                        files[i] = s /\ Base[files[j].file] = Base[s.file] => i <= j
        keep   == {opened} \union {s.file : s \in models}
                      \union {s.file : s \in {x \in Range(files) :
                                    /\ Kind[x.file] # "model"
                                    /\ Base[x.file] \in bases /\ firstOf(x)}}
    IN  SelectSeq(files, LAMBDA s : s.file \in keep)

\* The models whose chain reaches the opened file, or the opened model alone, and every file
\* of their chains, in the order of the folder.
usageScope(opened, files) ==
    LET models == {s \in Range(files) :
                     IF Kind[opened] = "model" THEN s.file = opened
                     ELSE Kind[s.file] = "model" /\ Base[opened] \in closureOf(files, s)}
        bases  == UNION {closureOf(files, s) : s \in models}
        keep   == {opened} \union {s.file : s \in models}
                      \union {s.file : s \in {x \in Range(files) :
                                    Kind[x.file] # "model" /\ Base[x.file] \in bases}}
    IN  SelectSeq(files, LAMBDA s : s.file \in keep)

planSummaries(opened) == mergeFileSummaries(usageScope(opened, dataSources))

-----------------------------------------------------------------------------
(***************************************************************************)
(* What a host does: a file is registered, again with what it holds now,   *)
(* which keeps its place, or removed.                                      *)
(***************************************************************************)
Init == dataSources = <<>>

registerSource(f, c) ==
    \/ /\ f \in Open
       /\ dataSources' = [dataSources EXCEPT ![IndexOf(f)] = [file |-> f, content |-> c]]
    \/ /\ f \notin Open
       /\ Len(dataSources) < MaxOpen
       /\ dataSources' = Append(dataSources, [file |-> f, content |-> c])

removeDataSource(f) ==
    /\ f \in Open
    /\ dataSources' = SelectSeq(dataSources, LAMBDA s : s.file # f)

removeAll ==
    /\ dataSources # <<>>
    /\ dataSources' = <<>>

Next == \/ \E f \in Files : \E c \in Contents[f] : registerSource(f, c)
        \/ \E f \in Files : removeDataSource(f)
        \/ removeAll

Spec == Init /\ [][Next]_dataSources

-----------------------------------------------------------------------------
\* The sources registered are files of their own, each with a content of its own.
TypeOK ==
    /\ \A s \in Range(dataSources) : s.file \in Files /\ s.content \in Contents[s.file]
    /\ Cardinality(Open) = Len(dataSources)

AloneOfItsBase == \A f, g \in Open : Base[f] = Base[g] => f = g

\* Whether a block reads a name where no mask around it gives it: the rule of a mask's scope
\* (maskScope.ts), told of the blocks and not of the reader's paths.
ReadsPastMasks(c, i, n) ==
    LET around[j \in 0..Len(c.blocks)] ==
            IF j = 0 THEN {} ELSE {c.blocks[j].inside} \union around[c.blocks[j].inside]
        block == c.blocks[i]
    IN  /\ \A j \in around[i] \ {0} : n \notin {p.name : p \in Range(c.blocks[j].mask)}
        /\ \/ \E p \in Range(block.params) : n \in Range(p.reads)
           \/ \E p \in Range(block.mask) : p.expression /\ n \in Range(p.reads)

\* A definition's users are the blocks of the models that find its name in its file, and that
\* read the name past their masks: a mask hides it from what is in the masked block, and not
\* from the masked block's own parameters.
UsersReadIt ==
    \A d \in Definitions : \A m \in Range(ModelsOpen) :
        {u.key : u \in {v \in Range(findUsages(d)) : v.model = m}} =
            IF ~Visible(m, d) THEN {}
            ELSE LET c == ContentOf(m)
                 IN  {blockKey(c.blocks[i]) :
                        i \in {j \in DOMAIN c.blocks : ReadsPastMasks(c, j, d.name)}}

\* The session and the index answer alike (UsageIndex.ts:19-20), of files no two of which have
\* one base: the same blocks in the same order, once each; and what the index says a parameter
\* comes from is what the session's link leads to, and credits that block with.
EnginesAgree ==
    AloneOfItsBase =>
        LET sums == mergeFileSummaries(dataSources)
            firstOfBlock(s) == FoldLeft(LAMBDA t, u :
                IF \E v \in Range(t) : v.model = u.model /\ v.key = u.key THEN t
                ELSE Append(t, u), <<>>, s)
        IN  /\ \A d \in Definitions :
                 firstOfBlock(findUsages(d)) = usagesOf(sums, d.file, d.name)
            /\ \A m \in Range(ModelsOpen) : \A key \in BlockRows(m) :
                 \A p \in Range(paramsOf(sums, m, key)) :
                     p.origin.kind \notin {None, "mask"} =>
                         LET to == resolveLink(p.origin.link)
                         IN  /\ to.status = "resolved"
                             /\ \A d \in to.nodes : \E u \in Range(findUsages(d)) :
                                    u.model = m /\ u.key = key

\* A usage's link leads back to its block, wherever no definition of the model has the block's
\* key for its name.
LinksLeadBack ==
    \A d \in Definitions : \A u \in Range(findUsages(d)) :
        u.key \notin definedNamesOf(u.model) =>
            resolveLink([name |-> u.key, source |-> u.model]) =
                [status |-> "resolved", block |-> u.key]

\* An index of the part of the folder that was chosen for a file answers for the file as the
\* index of the whole folder does (usageScope.ts), files of one base included.
ScopeAnswersAlike ==
    LET whole == mergeFileSummaries(dataSources)
    IN  \A f \in Open :
            LET part == planSummaries(f)
            IN  /\ \A n \in Names : usagesOf(part, f, n) = usagesOf(whole, f, n)
                /\ Kind[f] = "model" =>
                     \A key \in BlockRows(f) : paramsOf(part, f, key) = paramsOf(whole, f, key)
=============================================================================
