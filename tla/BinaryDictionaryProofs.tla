----------------------- MODULE BinaryDictionaryProofs -----------------------
(***************************************************************************)
(* Theorems about BinaryDictionary, for every chunk opened, every set of   *)
(* names and values and every bound: the inductive invariant Inv, and the  *)
(* properties that follow of it.                                           *)
(***************************************************************************)
EXTENDS BinaryEntryProofs, WellFoundedInduction

\* Entry by entry, the tree is the chunk.
AlignedTo(t, m, op, tch, top) ==
    /\ Len(m) = Len(t)
    /\ IsSeq(m)
    /\ \A k \in DOMAIN m :
           /\ NodeOK(m[k], op, tch, top)
           /\ ReadsAsNode(t[k], m[k])
           /\ t[k] = entryObjectXml(m[k])

\* `big` has one entry that `small` has not.
OneMore(big, small, at, id) ==
    /\ at \in DOMAIN big
    /\ big[at].id = id
    /\ small = RemoveAt(big, at)

\* One entry is changed.
Replaces(s, k) ==
    LET x == s.before[k]
        y == s.after[k]
    IN  /\ x.id = s.id /\ y.id = s.id
        /\ \A i \in DOMAIN s.before : i # k => s.after[i] = s.before[i]
        /\ {entryKey(x), entryKey(y)} \subseteq s.keys
        /\ (x # y /\ (~x.scans \/ (~y.scans /\ y.name \notin NewNames))) =>
               {entryKey(x), entryKey(y)} \subseteq s.group

StepOK(s, op, tch, top) ==
    /\ ChunkOK(s.before, op, tch, top)
    /\ ChunkOK(s.after, op, tch, top)
    /\ \/ /\ s.kind = "replace"
          /\ Len(s.before) = Len(s.after)
          /\ \E k \in DOMAIN s.before : Replaces(s, k)
       \/ /\ s.kind = "remove"
          /\ OneMore(s.before, s.after, s.at, s.id)
          /\ entryKey(s.before[s.at]) \in s.keys
          /\ s.id \in 1 .. FileIds => s.place.frame # None
       \/ /\ s.kind = "insert"
          /\ OneMore(s.after, s.before, s.at, s.id)
          /\ s.at = Len(s.after)
          /\ s.id \notin 1 .. FileIds
          /\ s.place.frame = None
          /\ entryKey(s.after[s.at]) \in s.keys

\* The edits to undo lead to the chunk, and those to redo from it.
HistoryOf(dn, un, t, op, tch, n) ==
    /\ IsSeq(dn) /\ IsSeq(un)
    /\ Len(dn) + Len(un) <= n
    /\ \A i \in DOMAIN dn : StepOK(dn[i], op, tch, FileIds + n)
    /\ \A i \in DOMAIN un : StepOK(un[i], op, tch, FileIds + n)
    /\ \A i \in DOMAIN dn : dn[i].after = IF i = Len(dn) THEN t ELSE dn[i + 1].before
    /\ \A i \in DOMAIN un : un[i].before = IF i = Len(un) THEN t ELSE un[i + 1].after

\* The groups of keys are apart.
MarksOK(marks) ==
    \A k \in DOMAIN marks :
        /\ k \in marks[k]
        /\ \A l \in marks[k] : l \in DOMAIN marks /\ marks[l] = marks[k]

AliasesIn(marks, key) == IF key \in DOMAIN marks THEN marks[key] ELSE {}

\* What differs from the chunk last read or saved has been named.
NamedIn(t, sv, ed) ==
    /\ \A f \in Range(t) : f \in Range(sv) \/ entryKey(f) \in ed
    /\ \A f \in Range(sv) : f \in Range(t) \/ entryKey(f) \in ed

\* The entries of the file that have been taken out are out, and only an undo brings them back.
Takes(s) == s.kind = "remove" /\ s.id \in 1 .. FileIds

RemovedIn(dn, t) ==
    \A i \in DOMAIN dn : Takes(dn[i]) =>
        /\ \A f \in Range(t) : f.id # dn[i].id
        /\ \A j \in DOMAIN dn : Takes(dn[j]) /\ dn[j].id = dn[i].id => j = i

\* An entry the check cannot read, and how it now is.
MarkedAs(f, g, marks) ==
    (f.id = g.id /\ ~f.scans /\ f # g /\ f.uuid # None /\ f.name \notin NewNames) =>
        entryKey(f) \in DOMAIN marks

UnreadIn(sv, t, dn, marks) ==
    \A f \in Range(sv) :
        /\ \A g \in Range(t) : MarkedAs(f, g, marks)
        /\ \A i \in DOMAIN dn : Takes(dn[i]) => MarkedAs(f, dn[i].before[dn[i].at], marks)

\* And while nothing has rebuilt a node.
FreshIn(t, m, sv, marks, un, op) ==
    /\ un = <<>>
    /\ \A k \in DOMAIN m : HasSource(m[k]) => m[k].source.fragment \in Range(op)
    /\ \A f \in Range(sv), g \in Range(t) : f.id = g.id /\ ~f.scans /\ f # g =>
           entryKey(f) \in AliasesIn(marks, entryKey(g))

Kept ==
    /\ edits \in 0 .. MaxEdits
    /\ frame.n \in 0 .. MaxReads
    /\ IsChunk(frame.chunk)
    /\ opened \in Documents
    /\ ChunkOK(saved, opened, touched, FileIds + edits)
    /\ ChunkOK(text, opened, touched, FileIds + edits)
    /\ MarksOK(unchecked)

Aligned == AlignedTo(text, model, opened, touched, FileIds + edits)

History == HistoryOf(done, undone, text, opened, touched, edits)

Named == NamedIn(text, saved, edited)

Removed == RemovedIn(done, text)

Unread == UnreadIn(saved, text, done, unchecked)

Fresh == frame.n = 0 /\ Len(done) = edits => FreshIn(text, model, saved, unchecked, undone, opened)

Inv == Kept /\ Aligned /\ History /\ Named /\ Removed /\ Unread /\ Fresh

-----------------------------------------------------------------------------
(***************************************************************************)
(* Chunks.                                                                 *)
(***************************************************************************)
LEMMA ChunkSeq ==
    ASSUME NEW c, IsChunk(c)
    PROVE  /\ IsSeq(c) /\ DOMAIN c = 1 .. Len(c) /\ Len(c) \in Nat
           /\ \A i \in 1 .. Len(c) : IsFragment(c[i])
           /\ Range(c) = {c[i] : i \in 1 .. Len(c)}
  BY RangeOf DEF IsChunk, IsSeq, IsRecord

\* A chunk that is opened is well formed.
LEMMA OpenedIs ==
    ASSUME NEW op \in Documents
    PROVE  IsOpened(op)
  BY BinaryDictionaryAssumption DEF IsOpened

\* The entry of an id is the one at its place.
LEMMA OneOfId ==
    ASSUME NEW c, IsChunk(c), NEW k \in DOMAIN c, NEW id, id = c[k].id
    PROVE  /\ \A i \in DOMAIN c : c[i].id = id => i = k
           /\ Fragment(c, id) = c[k]
<1>1. k \in Int
  BY ChunkSeq
<1>2. \A i \in DOMAIN c : c[i].id = id => i = k
  BY DEF IsChunk, ToldApart
<1>3. {i \in DOMAIN c : c[i].id = id} = {k}
  BY <1>2
<1> QED BY <1>1, <1>2, <1>3, MinOfOne DEF Fragment

\* In a chunk, entries of one key and one name are one.
LEMMA SameEntry ==
    ASSUME NEW c, IsChunk(c), NEW f \in Range(c), NEW g \in Range(c), f.id = g.id
    PROVE  f = g
<1>1. PICK i \in DOMAIN c : f = c[i]
  BY DEF Range
<1>2. PICK j \in DOMAIN c : g = c[j]
  BY DEF Range
<1> QED BY <1>1, <1>2 DEF IsChunk, ToldApart

\* A selector finds the entry it is made of.
LEMMA FindsEntry ==
    ASSUME NEW c, IsChunk(c), NEW k \in DOMAIN c, NEW n, c[k].name = n.name, c[k].uuid = n.uuid
    PROVE  EntryAt(c, n) = k
<1> DEFINE named == {i \in DOMAIN c : c[i].name = n.name}
           exact == {i \in named : n.uuid = None \/ c[i].uuid = n.uuid}
<1>1. k \in Int
  BY ChunkSeq
<1>2. ASSUME NEW i \in exact PROVE i = k
  <2>1. CASE n.uuid = None
    BY <2>1 DEF IsChunk, ToldApart
  <2>2. CASE n.uuid # None
    <3>1. entryKey(c[i]) = entryKey(c[k])
      BY <2>2 DEF entryKey
    <3> QED BY <3>1 DEF IsChunk, ToldApart
  <2> QED BY <2>1, <2>2
<1>3. exact = {k}
  BY <1>2
<1>4. EntryAt(c, n) = IF exact # {} THEN Min(exact) ELSE EntryAt(c, n)
  BY DEF EntryAt
<1> HIDE DEF exact
<1> QED BY <1>1, <1>3, <1>4, MinOfOne

With(s, k, e) == [s EXCEPT ![k] = e]

\* A chunk is well formed still with an entry changed,
LEMMA ChunkSet ==
    ASSUME NEW c, IsChunk(c), NEW k \in DOMAIN c, NEW e, IsFragment(e),
           e.id = c[k].id, e.uuid = c[k].uuid,
           e.name = c[k].name \/ \A i \in DOMAIN c : c[i].name # e.name,
           NEW d, d = With(c, k, e)
    PROVE  /\ IsChunk(d) /\ Len(d) = Len(c)
           /\ DOMAIN d = DOMAIN c
           /\ \A i \in DOMAIN c : d[i] = IF i = k THEN e ELSE c[i]
<1>1. IsSeq(c) /\ DOMAIN c = 1 .. Len(c) /\ \A i \in DOMAIN c : IsFragment(c[i])
  BY ChunkSeq
<1>2. /\ IsSeq(d) /\ Len(d) = Len(c) /\ DOMAIN d = DOMAIN c
      /\ \A i \in DOMAIN c : d[i] = IF i = k THEN e ELSE c[i]
  BY <1>1, ExceptIs DEF With
<1>3. ASSUME NEW i \in DOMAIN d, NEW j \in DOMAIN d, i # j
      PROVE  /\ d[i].id # d[j].id
             /\ entryKey(d[i]) # entryKey(d[j])
             /\ d[i].uuid = None => d[i].name # d[j].name
  <2>1. \A x, y \in DOMAIN c : x # y =>
            /\ c[x].id # c[y].id
            /\ entryKey(c[x]) # entryKey(c[y])
            /\ c[x].uuid = None => c[x].name # c[y].name
    BY DEF IsChunk, ToldApart
  <2>2. /\ d[i].id = c[i].id /\ d[j].id = c[j].id
        /\ d[i].uuid = c[i].uuid /\ d[j].uuid = c[j].uuid
        /\ d[i].name = c[i].name \/ (i = k /\ d[i].name = e.name)
        /\ d[j].name = c[j].name \/ (j = k /\ d[j].name = e.name)
    BY <1>2
  <2>3. CASE e.name = c[k].name
    <3>1. d[i].name = c[i].name /\ d[j].name = c[j].name
      BY <2>2, <2>3
    <3>2. entryKey(d[i]) = entryKey(c[i]) /\ entryKey(d[j]) = entryKey(c[j])
      BY <2>2, <3>1 DEF entryKey
    <3> QED BY <1>2, <1>3, <2>1, <2>2, <3>1, <3>2
  <2>4. CASE \A x \in DOMAIN c : c[x].name # e.name
    <3>1. d[i].name # d[j].name \/ (d[i].name = c[i].name /\ d[j].name = c[j].name)
      BY <1>2, <1>3, <2>2, <2>4
    <3>2. c[i].id # c[j].id /\ entryKey(c[i]) # entryKey(c[j])
          /\ (c[i].uuid = None => c[i].name # c[j].name)
      BY <1>2, <1>3, <2>1
    <3>3. d[i].uuid = None => d[i].name # d[j].name
      BY <2>2, <3>1, <3>2
    <3>4. entryKey(d[i]) # entryKey(d[j])
      BY <2>2, <3>1, <3>2 DEF entryKey
    <3> QED BY <2>2, <3>2, <3>3, <3>4
  <2> QED BY <2>3, <2>4
<1>4. \A i \in DOMAIN d : IsFragment(d[i])
  BY <1>1, <1>2
<1> QED BY <1>2, <1>3, <1>4 DEF IsChunk, ToldApart, IsSeq

\* with one taken out,
LEMMA ChunkCut ==
    ASSUME NEW c, IsChunk(c), NEW k \in DOMAIN c, NEW d, d = RemoveAt(c, k)
    PROVE  /\ IsChunk(d) /\ Len(d) = Len(c) - 1 /\ DOMAIN d = 1 .. Len(c) - 1
           /\ \A i \in 1 .. Len(c) - 1 : d[i] = IF i < k THEN c[i] ELSE c[i + 1]
           /\ \A f \in Range(d) : f \in Range(c) /\ f.id # c[k].id
           /\ \A f \in Range(c) : f \in Range(d) \/ f = c[k]
<1> DEFINE Was(i) == IF i < k THEN i ELSE i + 1
<1>1. IsSeq(c) /\ DOMAIN c = 1 .. Len(c) /\ Len(c) \in Nat /\ \A i \in DOMAIN c : IsFragment(c[i])
  BY ChunkSeq
<1>2. /\ IsSeq(d) /\ Len(d) = Len(c) - 1 /\ DOMAIN d = 1 .. Len(c) - 1
      /\ \A i \in 1 .. Len(c) - 1 : d[i] = IF i < k THEN c[i] ELSE c[i + 1]
  BY <1>1, RemoveAtIs
<1>3. /\ \A i \in DOMAIN d : Was(i) \in DOMAIN c /\ d[i] = c[Was(i)] /\ Was(i) # k
      /\ \A i, j \in DOMAIN d : i # j => Was(i) # Was(j)
      /\ \A j \in DOMAIN c : j # k => \E i \in DOMAIN d : Was(i) = j
  <2>1. ASSUME NEW j \in DOMAIN c, j # k PROVE \E i \in DOMAIN d : Was(i) = j
    <3>1. CASE j < k
      BY <1>1, <1>2, <3>1
    <3>2. CASE j > k
      <4>1. j - 1 \in DOMAIN d /\ Was(j - 1) = j
        BY <1>1, <1>2, <3>2
      <4> QED BY <4>1
    <3> QED BY <1>1, <2>1, <3>1, <3>2
  <2> QED BY <1>1, <1>2, <2>1
<1> HIDE DEF Was
<1>4. IsChunk(d)
  <2>1. ToldApart(d)
    BY <1>3 DEF IsChunk, ToldApart
  <2> QED BY <1>1, <1>2, <1>3, <2>1 DEF IsChunk, IsSeq
<1>5. \A i \in DOMAIN d : d[i].id # c[k].id
  BY <1>3 DEF IsChunk, ToldApart
<1> QED BY <1>2, <1>3, <1>4, <1>5 DEF Range

\* A fragment that no fragment of the chunk shares an id, a UUID or a name with.
Newcomer(c, e) ==
    /\ IsChunk(c) /\ IsFragment(e) /\ e.uuid # None
    /\ \A i \in DOMAIN c : c[i].id # e.id /\ c[i].uuid # e.uuid /\ c[i].name # e.name

\* d is c with e after it.
Longer(d, c, e) ==
    /\ Len(d) = Len(c) + 1 /\ DOMAIN d = 1 .. Len(c) + 1
    /\ \A i \in 1 .. Len(c) : d[i] = c[i]
    /\ d[Len(c) + 1] = e

\* and with one added.
LEMMA ChunkAdd ==
    ASSUME NEW c, NEW e, NEW d, Newcomer(c, e), d = Append(c, e)
    PROVE  IsChunk(d) /\ Longer(d, c, e)
<1>0. /\ IsChunk(c) /\ IsFragment(e) /\ e.uuid # None
      /\ \A i \in DOMAIN c : c[i].id # e.id /\ c[i].uuid # e.uuid /\ c[i].name # e.name
  BY DEF Newcomer
<1>1. IsSeq(c) /\ DOMAIN c = 1 .. Len(c) /\ Len(c) \in Nat /\ \A i \in DOMAIN c : IsFragment(c[i])
  BY <1>0, ChunkSeq
<1>2. /\ IsSeq(d) /\ Len(d) = Len(c) + 1 /\ DOMAIN d = 1 .. Len(c) + 1
      /\ \A i \in 1 .. Len(c) : d[i] = c[i]
      /\ d[Len(c) + 1] = e
  BY <1>1, AppendIs
<1>3. \A i \in DOMAIN d : i \in DOMAIN c \/ i = Len(c) + 1
  BY <1>1, <1>2
<1>4. ASSUME NEW i \in DOMAIN d, NEW j \in DOMAIN d, i # j
      PROVE  /\ d[i].id # d[j].id
             /\ entryKey(d[i]) # entryKey(d[j])
             /\ d[i].uuid = None => d[i].name # d[j].name
  <2>1. CASE i \in DOMAIN c /\ j \in DOMAIN c
    BY <1>0, <1>1, <1>2, <1>4, <2>1 DEF IsChunk, ToldApart
  <2>2. CASE i \in DOMAIN c /\ j = Len(c) + 1
    BY <1>0, <1>1, <1>2, <2>2 DEF entryKey
  <2>3. CASE i = Len(c) + 1 /\ j \in DOMAIN c
    BY <1>0, <1>1, <1>2, <2>3 DEF entryKey
  <2> QED BY <1>3, <1>4, <2>1, <2>2, <2>3
<1>5. \A i \in DOMAIN d : IsFragment(d[i])
  BY <1>0, <1>1, <1>2, <1>3
<1> QED BY <1>2, <1>4, <1>5 DEF IsChunk, ToldApart, IsSeq, Longer

-----------------------------------------------------------------------------
(***************************************************************************)
(* The marks of what could not be checked.                                 *)
(***************************************************************************)
LEMMA MarksAfter ==
    ASSUME NEW m, MarksOK(m), NEW g, NEW r, r = markUnchecked(m, g)
    PROVE  /\ MarksOK(r)
           /\ DOMAIN m \subseteq DOMAIN r
           /\ g \subseteq DOMAIN r
           /\ \A k : AliasesIn(m, k) \subseteq AliasesIn(r, k)
           /\ \A k \in g : g \subseteq AliasesIn(r, k)
           /\ \A k, l \in g : AliasesIn(m, l) \subseteq AliasesIn(r, k)
<1> DEFINE all == g \union UNION {m[k] : k \in g \intersect DOMAIN m}
<1>1. r = [k \in DOMAIN m \union all |-> IF k \in all THEN all ELSE m[k]]
  BY DEF markUnchecked
<1>2. /\ g \subseteq all
      /\ \A k \in g \intersect DOMAIN m : m[k] \subseteq all
      /\ \A l \in all : l \in g \/ \E k \in g \intersect DOMAIN m : l \in m[k]
  OBVIOUS
<1> HIDE DEF all
<1>3. /\ DOMAIN r = DOMAIN m \union all
      /\ \A k \in all : r[k] = all
      /\ \A k \in DOMAIN m : k \notin all => r[k] = m[k]
  BY <1>1
<1>4. \A k \in DOMAIN m : k \in all => m[k] \subseteq all
  BY <1>2 DEF MarksOK
<1>5. \A k \in DOMAIN m : k \notin all => \A l \in m[k] : l \notin all
  <2>1. SUFFICES ASSUME NEW k \in DOMAIN m, NEW l \in m[k], l \in all PROVE k \in all
    OBVIOUS
  <2>2. k \in m[k] /\ l \in DOMAIN m /\ m[l] = m[k]
    BY <2>1 DEF MarksOK
  <2> QED BY <1>4, <2>1, <2>2
<1>6. MarksOK(r)
  <2>1. ASSUME NEW k \in DOMAIN r
        PROVE  k \in r[k] /\ \A l \in r[k] : l \in DOMAIN r /\ r[l] = r[k]
    <3>1. CASE k \in all
      BY <1>3, <3>1
    <3>2. CASE k \notin all
      <4>1. k \in DOMAIN m /\ r[k] = m[k]
        BY <1>3, <2>1, <3>2
      <4>2. k \in m[k] /\ \A l \in m[k] : l \in DOMAIN m /\ m[l] = m[k] /\ l \notin all
        BY <1>5, <3>2, <4>1 DEF MarksOK
      <4> QED BY <1>3, <4>1, <4>2
    <3> QED BY <3>1, <3>2
  <2> QED BY <2>1 DEF MarksOK
<1> QED BY <1>2, <1>3, <1>4, <1>6 DEF AliasesIn

-----------------------------------------------------------------------------
(***************************************************************************)
(* Edits.                                                                  *)
(***************************************************************************)
LEMMA StepMore ==
    ASSUME NEW s, NEW op, NEW tch, NEW top \in Int, StepOK(s, op, tch, top),
           NEW tch2, tch \subseteq tch2, NEW top2 \in Int, top <= top2
    PROVE  StepOK(s, op, tch2, top2)
  BY ChunkMore DEF StepOK

\* An edit leads from one of its chunks to the other.
Leads(s, a, b) == (a = s.before /\ b = s.after) \/ (a = s.after /\ b = s.before)

\* What two chunks of an edit do not share is of the keys it names.
LEMMA StepNames ==
    ASSUME NEW s, NEW op, NEW tch, NEW top, StepOK(s, op, tch, top)
    PROVE  /\ \A f \in Range(s.before) : f \in Range(s.after) \/ entryKey(f) \in s.keys
           /\ \A f \in Range(s.after) : f \in Range(s.before) \/ entryKey(f) \in s.keys
<1>1. /\ IsChunk(s.before) /\ DOMAIN s.before = 1 .. Len(s.before)
      /\ IsChunk(s.after) /\ DOMAIN s.after = 1 .. Len(s.after)
  BY ChunkSeq DEF StepOK, ChunkOK
<1>2. CASE s.kind = "replace"
  <2>1. PICK k \in DOMAIN s.before : Replaces(s, k)
    BY <1>2 DEF StepOK
  <2>2. Len(s.before) = Len(s.after)
    BY <1>2 DEF StepOK
  <2>3. /\ \A i \in DOMAIN s.before : i # k => s.after[i] = s.before[i]
        /\ entryKey(s.before[k]) \in s.keys /\ entryKey(s.after[k]) \in s.keys
    BY <2>1 DEF Replaces
  <2> QED BY <1>1, <2>2, <2>3 DEF Range
<1>3. CASE s.kind = "remove"
  <2>1. s.at \in DOMAIN s.before /\ s.after = RemoveAt(s.before, s.at) /\ entryKey(s.before[s.at]) \in s.keys
    BY <1>3 DEF StepOK, OneMore
  <2> QED BY <1>1, <2>1, ChunkCut
<1>4. CASE s.kind = "insert"
  <2>1. s.at \in DOMAIN s.after /\ s.before = RemoveAt(s.after, s.at) /\ entryKey(s.after[s.at]) \in s.keys
    BY <1>4 DEF StepOK, OneMore
  <2> QED BY <1>1, <2>1, ChunkCut
<1> QED BY <1>2, <1>3, <1>4 DEF StepOK

\* What is named stays named.
LEMMA NamedAfter ==
    ASSUME NEW t, NEW sv, NEW ed, NamedIn(t, sv, ed),
           NEW s, NEW op, NEW tch, NEW top, StepOK(s, op, tch, top),
           NEW t2, Leads(s, t, t2), NEW ed2, ed2 = ed \union s.keys
    PROVE  NamedIn(t2, sv, ed2)
<1>1. /\ \A f \in Range(t) : f \in Range(t2) \/ entryKey(f) \in s.keys
      /\ \A f \in Range(t2) : f \in Range(t) \/ entryKey(f) \in s.keys
  BY StepNames DEF Leads
<1> QED BY <1>1 DEF NamedIn

\* An entry of the chunk an edit leads to is one of the chunk it leads from, or what the edit made
\* of one, or the one it puts back.
LEMMA StepMakes ==
    ASSUME NEW s, NEW op, NEW tch, NEW top, StepOK(s, op, tch, top),
           NEW a, NEW b, Leads(s, a, b), NEW g \in Range(b), g \notin Range(a)
    PROVE  \/ /\ s.kind = "replace"
              /\ \E x \in Range(a) :
                    /\ x.id = g.id /\ x.id = s.id
                    /\ ~x.scans /\ x.name \notin NewNames => {entryKey(x), entryKey(g)} \subseteq s.group
           \/ s.kind = "remove" /\ a = s.after /\ g = s.before[s.at] /\ g.id = s.id
           \/ s.kind = "insert" /\ g.id \notin 1 .. FileIds
<1>1. /\ IsChunk(s.before) /\ DOMAIN s.before = 1 .. Len(s.before)
      /\ IsChunk(s.after) /\ DOMAIN s.after = 1 .. Len(s.after)
  BY ChunkSeq DEF StepOK, ChunkOK
<1>2. CASE s.kind = "replace"
  <2>1. PICK k \in DOMAIN s.before : Replaces(s, k)
    BY <1>2 DEF StepOK
  <2>2. DOMAIN s.before = DOMAIN s.after
    BY <1>1, <1>2 DEF StepOK
  <2> DEFINE x == s.before[k]
             y == s.after[k]
  <2>3. /\ x.id = s.id /\ y.id = s.id
        /\ \A i \in DOMAIN s.before : i # k => s.after[i] = s.before[i]
        /\ (x # y /\ (~x.scans \/ (~y.scans /\ y.name \notin NewNames))) =>
               {entryKey(x), entryKey(y)} \subseteq s.group
    BY <2>1 DEF Replaces
  <2>4. x \in Range(s.before) /\ y \in Range(s.after)
    BY <2>2 DEF Range
  <2>5. CASE a = s.before /\ b = s.after
    <3>1. g = y
      BY <2>2, <2>3, <2>5 DEF Range
    <3>2. x # y
      BY <2>4, <2>5, <3>1
    <3> HIDE DEF x, y
    <3> QED BY <1>2, <2>3, <2>4, <2>5, <3>1, <3>2
  <2>6. CASE a = s.after /\ b = s.before
    <3>1. g = x
      BY <2>2, <2>3, <2>6 DEF Range
    <3>2. x # y
      BY <2>4, <2>6, <3>1
    <3> HIDE DEF x, y
    <3> QED BY <1>2, <2>3, <2>4, <2>6, <3>1, <3>2
  <2> QED BY <2>5, <2>6 DEF Leads
<1>3. CASE s.kind = "remove"
  <2>1. s.at \in DOMAIN s.before /\ s.after = RemoveAt(s.before, s.at) /\ s.before[s.at].id = s.id
    BY <1>3 DEF StepOK, OneMore
  <2>2. /\ \A f \in Range(s.after) : f \in Range(s.before)
        /\ \A f \in Range(s.before) : f \in Range(s.after) \/ f = s.before[s.at]
    BY <1>1, <2>1, ChunkCut
  <2> QED BY <1>3, <2>1, <2>2 DEF Leads
<1>4. CASE s.kind = "insert"
  <2>1. s.at \in DOMAIN s.after /\ s.before = RemoveAt(s.after, s.at) /\ s.after[s.at].id = s.id
        /\ s.id \notin 1 .. FileIds
    BY <1>4 DEF StepOK, OneMore
  <2>2. /\ \A f \in Range(s.before) : f \in Range(s.after)
        /\ \A f \in Range(s.after) : f \in Range(s.before) \/ f = s.after[s.at]
    BY <1>1, <2>1, ChunkCut
  <2> QED BY <1>4, <2>1, <2>2 DEF Leads
<1> QED BY <1>2, <1>3, <1>4 DEF StepOK

\* An entry the check cannot read stays marked.
LEMMA UnreadAfter ==
    ASSUME NEW sv, NEW t, NEW dn, NEW marks, UnreadIn(sv, t, dn, marks), MarksOK(marks),
           NEW op, IsOpened(op), NEW tch, NEW top, ChunkOK(sv, op, tch, top),
           NEW s, StepOK(s, op, tch, top), NEW t2, Leads(s, t, t2),
           NEW marks2, marks2 = markUnchecked(marks, s.group),
           NEW dn2,
           \/ /\ t = s.before
              /\ \A i \in DOMAIN dn2 : (i \in DOMAIN dn /\ dn2[i] = dn[i]) \/ dn2[i] = s
           \/ /\ t = s.after
              /\ \A i \in DOMAIN dn2 : i \in DOMAIN dn /\ dn2[i] = dn[i]
              /\ \E i \in DOMAIN dn : dn[i] = s
    PROVE  UnreadIn(sv, t2, dn2, marks2)
<1>1. DOMAIN marks \subseteq DOMAIN marks2 /\ s.group \subseteq DOMAIN marks2
  BY MarksAfter
<1>2. \A f, g : MarkedAs(f, g, marks) => MarkedAs(f, g, marks2)
  BY <1>1 DEF MarkedAs
<1>3. ASSUME NEW f \in Range(sv), NEW g \in Range(t2) PROVE MarkedAs(f, g, marks2)
  <2>1. CASE g \in Range(t)
    BY <1>2, <2>1 DEF UnreadIn
  <2>2. CASE g \notin Range(t)
    <3>1. SUFFICES ASSUME f.id = g.id, ~f.scans, f # g, f.uuid # None, f.name \notin NewNames
                   PROVE  entryKey(f) \in DOMAIN marks2
      BY DEF MarkedAs
    <3>2. f \in Range(op) /\ f.id \in 1 .. FileIds
      BY <3>1 DEF ChunkOK, Descends, IsOpened, Range
    <3>3. CASE s.kind = "replace"
      <4>1. PICK x \in Range(t) :
                    /\ x.id = g.id
                    /\ ~x.scans /\ x.name \notin NewNames => {entryKey(x), entryKey(g)} \subseteq s.group
        BY <2>2, <3>3, StepMakes
      <4>2. CASE x = f
        BY <1>1, <3>1, <4>1, <4>2
      <4>3. CASE x # f
        BY <1>1, <3>1, <4>1, <4>3 DEF UnreadIn, MarkedAs
      <4> QED BY <4>2, <4>3
    <3>4. CASE s.kind = "remove"
      <4>1. t = s.after /\ g = s.before[s.at] /\ g.id = s.id
        BY <2>2, <3>4, StepMakes
      <4>2. t # s.before
        BY <2>2, <4>1 DEF Leads
      <4>3. PICK i \in DOMAIN dn : dn[i] = s
        BY <4>2
      <4>4. Takes(s)
        BY <3>1, <3>2, <3>4, <4>1 DEF Takes
      <4>5. MarkedAs(f, g, marks)
        BY <4>1, <4>3, <4>4 DEF UnreadIn
      <4> QED BY <1>1, <3>1, <4>5 DEF MarkedAs
    <3>5. CASE s.kind = "insert"
      <4>1. g.id \notin 1 .. FileIds
        BY <2>2, <3>5, StepMakes
      <4> QED BY <3>1, <3>2, <4>1
    <3> QED BY <3>3, <3>4, <3>5 DEF StepOK
  <2> QED BY <2>1, <2>2
<1>4. ASSUME NEW f \in Range(sv), NEW i \in DOMAIN dn2, Takes(dn2[i])
      PROVE  MarkedAs(f, dn2[i].before[dn2[i].at], marks2)
  <2>1. CASE i \in DOMAIN dn /\ dn2[i] = dn[i]
    BY <1>2, <1>4, <2>1 DEF UnreadIn
  <2>2. CASE t = s.before /\ dn2[i] = s
    <3>1. s.at \in DOMAIN s.before
      BY <1>4, <2>2 DEF Takes, StepOK, OneMore
    <3>2. s.before[s.at] \in Range(t)
      BY <2>2, <3>1 DEF Range
    <3> QED BY <1>2, <2>2, <3>2 DEF UnreadIn
  <2> QED BY <2>1, <2>2
<1> QED BY <1>3, <1>4 DEF UnreadIn

\* What has been taken out is out: an edit made, or made again.
LEMMA RemovedForward ==
    ASSUME NEW dn, NEW t, RemovedIn(dn, t), IsSeq(dn),
           NEW op, NEW tch, NEW top, NEW s, StepOK(s, op, tch, top), t = s.before,
           NEW t2, t2 = s.after, NEW dn2, dn2 = Append(dn, s)
    PROVE  RemovedIn(dn2, t2)
<1>1. /\ DOMAIN dn = 1 .. Len(dn) /\ Len(dn) \in Nat
      /\ DOMAIN dn2 = 1 .. Len(dn) + 1
      /\ \A i \in 1 .. Len(dn) : dn2[i] = dn[i]
      /\ dn2[Len(dn) + 1] = s
  BY SeqFacts, AppendIs DEF IsSeq
<1>2. \A i \in DOMAIN dn2 : i \in DOMAIN dn \/ i = Len(dn) + 1
  BY <1>1
<1>3. /\ IsChunk(s.before) /\ DOMAIN s.before = 1 .. Len(s.before)
      /\ IsChunk(s.after) /\ DOMAIN s.after = 1 .. Len(s.after)
  BY ChunkSeq DEF StepOK, ChunkOK
<1>4. ASSUME NEW g \in Range(t2), g.id \in 1 .. FileIds
      PROVE  \E f \in Range(t) : f.id = g.id
  <2>1. CASE g \in Range(t)
    BY <2>1
  <2>2. CASE g \notin Range(t)
    <3>1. s.kind = "remove" => \A f \in Range(t2) : f \in Range(t)
      BY <1>3, ChunkCut DEF StepOK, OneMore
    <3> QED BY <1>4, <2>2, <3>1, StepMakes DEF Leads, StepOK
  <2> QED BY <2>1, <2>2
<1>5. Takes(s) => /\ s.at \in DOMAIN s.before /\ s.before[s.at].id = s.id /\ s.before[s.at] \in Range(t)
                  /\ \A f \in Range(t2) : f.id # s.id
  <2>1. SUFFICES ASSUME Takes(s)
                 PROVE /\ s.at \in DOMAIN s.before /\ s.before[s.at].id = s.id /\ s.before[s.at] \in Range(t)
                       /\ \A f \in Range(t2) : f.id # s.id
    OBVIOUS
  <2>2. s.at \in DOMAIN s.before /\ s.before[s.at].id = s.id /\ s.after = RemoveAt(s.before, s.at)
    BY <2>1 DEF Takes, StepOK, OneMore
  <2>3. \A f \in Range(t2) : f.id # s.id
    BY <1>3, <2>2, ChunkCut
  <2> QED BY <2>2, <2>3 DEF Range
<1>6. ASSUME NEW i \in DOMAIN dn, Takes(dn[i]) PROVE \A f \in Range(t2) : f.id # dn[i].id
  BY <1>4, <1>6 DEF RemovedIn, Takes
<1>7. ASSUME NEW i \in DOMAIN dn, Takes(dn[i]), Takes(s) PROVE dn[i].id # s.id
  BY <1>5, <1>7 DEF RemovedIn
<1>8. ASSUME NEW i \in DOMAIN dn2, Takes(dn2[i])
      PROVE  /\ \A f \in Range(t2) : f.id # dn2[i].id
             /\ \A j \in DOMAIN dn2 : Takes(dn2[j]) /\ dn2[j].id = dn2[i].id => j = i
  <2>1. \A f \in Range(t2) : f.id # dn2[i].id
    BY <1>1, <1>2, <1>5, <1>6, <1>8
  <2>2. ASSUME NEW j \in DOMAIN dn2, Takes(dn2[j]), dn2[j].id = dn2[i].id PROVE j = i
    <3>1. CASE i \in DOMAIN dn /\ j \in DOMAIN dn
      BY <1>1, <1>8, <2>2, <3>1 DEF RemovedIn
    <3>2. CASE i \in DOMAIN dn /\ j = Len(dn) + 1
      BY <1>1, <1>7, <1>8, <2>2, <3>2
    <3>3. CASE i = Len(dn) + 1 /\ j \in DOMAIN dn
      BY <1>1, <1>7, <1>8, <2>2, <3>3
    <3> QED BY <1>2, <3>1, <3>2, <3>3
  <2> QED BY <2>1, <2>2
<1> QED BY <1>8 DEF RemovedIn

\* And an edit undone.
LEMMA RemovedBack ==
    ASSUME NEW dn, NEW t, RemovedIn(dn, t), IsSeq(dn), dn # <<>>,
           NEW op, NEW tch, NEW top, NEW s, StepOK(s, op, tch, top), t = s.after,
           NEW t2, t2 = s.before, NEW dn2, dn2 = Front(dn), s = Last(dn)
    PROVE  RemovedIn(dn2, t2)
<1>1. /\ DOMAIN dn = 1 .. Len(dn) /\ Len(dn) \in Nat \ {0}
      /\ DOMAIN dn2 = 1 .. Len(dn) - 1
      /\ \A i \in 1 .. Len(dn) - 1 : dn2[i] = dn[i]
      /\ dn[Len(dn)] = s
  BY SeqFacts, FrontIs
<1>2. \A i \in DOMAIN dn2 : i \in DOMAIN dn /\ dn2[i] = dn[i] /\ i # Len(dn)
  BY <1>1
<1>3. ASSUME NEW i \in DOMAIN dn2, Takes(dn2[i]), NEW g \in Range(t2), g.id = dn2[i].id
      PROVE  FALSE
  <2>1. \A f \in Range(t) : f.id # dn2[i].id
    BY <1>2, <1>3 DEF RemovedIn
  <2>2. g \notin Range(t) /\ g.id \in 1 .. FileIds
    BY <1>3, <2>1 DEF Takes
  <2>3. s.kind = "remove" /\ g.id = s.id
    BY <1>3, <2>1, <2>2, StepMakes DEF Leads
  <2>4. Takes(s)
    BY <2>2, <2>3 DEF Takes
  <2>5. Len(dn) \in DOMAIN dn
    BY <1>1
  <2>6. i \in DOMAIN dn /\ dn2[i] = dn[i] /\ i # Len(dn)
    BY <1>2
  <2>7. Takes(dn[i]) /\ Takes(dn[Len(dn)]) /\ dn[Len(dn)].id = dn[i].id
    BY <1>1, <1>3, <2>3, <2>4, <2>6
  <2> QED BY <2>5, <2>6, <2>7 DEF RemovedIn
<1>4. \A i, j \in DOMAIN dn2 : Takes(dn2[i]) /\ Takes(dn2[j]) /\ dn2[j].id = dn2[i].id => j = i
  BY <1>2 DEF RemovedIn
<1> QED BY <1>3, <1>4 DEF RemovedIn

-----------------------------------------------------------------------------
(***************************************************************************)
(* The stacks of edits.                                                    *)
(***************************************************************************)
LEMMA HistoryPush ==
    ASSUME NEW dn, NEW un, NEW t, NEW op, NEW tch, NEW n \in Nat, HistoryOf(dn, un, t, op, tch, n),
           NEW tch2, tch \subseteq tch2,
           NEW s, StepOK(s, op, tch2, FileIds + (n + 1)), s.before = t,
           NEW dn2, dn2 = Append(dn, s)
    PROVE  HistoryOf(dn2, <<>>, s.after, op, tch2, n + 1)
<1>1. /\ IsSeq(dn) /\ DOMAIN dn = 1 .. Len(dn) /\ Len(dn) \in Nat /\ Len(un) \in Nat
      /\ Len(dn) + Len(un) <= n
      /\ IsSeq(dn2) /\ Len(dn2) = Len(dn) + 1 /\ DOMAIN dn2 = 1 .. Len(dn) + 1
      /\ \A i \in 1 .. Len(dn) : dn2[i] = dn[i]
      /\ dn2[Len(dn) + 1] = s
  BY SeqFacts, AppendIs DEF IsSeq, HistoryOf
<1>2. IsSeq(<<>>) /\ Len(<<>>) = 0 /\ DOMAIN <<>> = {}
  BY DEF IsSeq, IsRecord
<1>3. ASSUME NEW i \in DOMAIN dn PROVE StepOK(dn[i], op, tch2, FileIds + (n + 1))
  <2>1. StepOK(dn[i], op, tch, FileIds + n)
    BY DEF HistoryOf
  <2>2. FileIds + n \in Int /\ FileIds + (n + 1) \in Int /\ FileIds + n <= FileIds + (n + 1)
    BY FileIdsNat
  <2> QED BY <2>1, <2>2, StepMore
<1>4. \A i \in DOMAIN dn2 : StepOK(dn2[i], op, tch2, FileIds + (n + 1))
  <2>1. \A i \in DOMAIN dn2 : i \in DOMAIN dn \/ i = Len(dn) + 1
    BY <1>1
  <2> QED BY <1>1, <1>3, <2>1
<1>5. ASSUME NEW i \in DOMAIN dn2
      PROVE  dn2[i].after = IF i = Len(dn2) THEN s.after ELSE dn2[i + 1].before
  <2>1. CASE i = Len(dn) + 1
    BY <1>1, <2>1
  <2>2. CASE i # Len(dn) + 1
    <3>1. i \in 1 .. Len(dn) /\ dn2[i] = dn[i] /\ i # Len(dn2)
      BY <1>1, <2>2
    <3>2. dn[i].after = IF i = Len(dn) THEN t ELSE dn[i + 1].before
      BY <1>1, <3>1 DEF HistoryOf
    <3>3. CASE i = Len(dn)
      BY <1>1, <3>1, <3>2, <3>3
    <3>4. CASE i # Len(dn)
      <4>1. i + 1 \in 1 .. Len(dn)
        BY <1>1, <3>1, <3>4
      <4>2. dn2[i + 1] = dn[i + 1]
        BY <1>1, <4>1
      <4> QED BY <3>1, <3>2, <3>4, <4>2
    <3> QED BY <3>3, <3>4
  <2> QED BY <2>1, <2>2
<1>6. Len(dn2) + Len(<<>>) <= n + 1
  BY <1>1, <1>2
<1> QED BY <1>1, <1>2, <1>4, <1>5, <1>6 DEF HistoryOf

\* An edit is moved from one stack to the other.
Moves(a, b, a2, b2) ==
    /\ IsSeq(a2) /\ IsSeq(b2) /\ Len(a2) = Len(a) - 1 /\ Len(b2) = Len(b) + 1
    /\ Last(a) = a[Len(a)] /\ Len(a) \in DOMAIN a
    /\ \A i \in DOMAIN a2 : i \in DOMAIN a /\ a2[i] = a[i] /\ i # Len(a)
    /\ \A i \in DOMAIN a2 : i = Len(a2) => i + 1 = Len(a)
    /\ \A i \in DOMAIN a2 : i # Len(a2) => i + 1 \in DOMAIN a2 /\ i + 1 # Len(a) /\ a2[i + 1] = a[i + 1]
    /\ \A i \in DOMAIN b2 : (i \in DOMAIN b /\ b2[i] = b[i] /\ i # Len(b2)) \/ (i = Len(b2) /\ b2[i] = Last(a))
    /\ \A i \in DOMAIN b : b2[i + 1] = IF i = Len(b) THEN Last(a) ELSE b[i + 1]

\* The top of one stack is moved to the other.
LEMMA HistoryMove ==
    ASSUME NEW a, NEW b, IsSeq(a), IsSeq(b), a # <<>>
    PROVE  Moves(a, b, Front(a), Append(b, Last(a)))
<1> DEFINE a2 == Front(a)
           b2 == Append(b, Last(a))
<1>1. /\ DOMAIN a = 1 .. Len(a) /\ DOMAIN b = 1 .. Len(b) /\ Len(b) \in Nat
      /\ Len(a) \in Nat \ {0} /\ Last(a) = a[Len(a)]
      /\ IsSeq(a2) /\ Len(a2) = Len(a) - 1 /\ DOMAIN a2 = 1 .. Len(a) - 1
      /\ \A i \in 1 .. Len(a) - 1 : a2[i] = a[i]
  BY SeqFacts, FrontIs DEF IsSeq
<1>2. /\ IsSeq(b2) /\ Len(b2) = Len(b) + 1 /\ DOMAIN b2 = 1 .. Len(b) + 1
      /\ \A i \in 1 .. Len(b) : b2[i] = b[i]
      /\ b2[Len(b) + 1] = Last(a)
  BY AppendIs
<1> HIDE DEF a2, b2
<1>3. \A i \in DOMAIN b2 : (i \in DOMAIN b /\ b2[i] = b[i] /\ i # Len(b2)) \/ (i = Len(b2) /\ b2[i] = Last(a))
  BY <1>1, <1>2
<1>4. \A i \in DOMAIN a2 : i # Len(a2) => i + 1 \in DOMAIN a2 /\ i + 1 # Len(a) /\ a2[i + 1] = a[i + 1]
  BY <1>1
<1>5. ASSUME NEW i \in DOMAIN b
      PROVE  b2[i + 1] = IF i = Len(b) THEN Last(a) ELSE b[i + 1]
  <2>1. CASE i = Len(b)
    BY <1>2, <2>1
  <2>2. CASE i # Len(b)
    <3>1. i + 1 \in 1 .. Len(b)
      BY <1>1, <2>2
    <3> QED BY <1>2, <2>2, <3>1
  <2> QED BY <2>1, <2>2
<1>6. Moves(a, b, a2, b2)
  BY <1>1, <1>2, <1>3, <1>4, <1>5 DEF Moves
<1> QED BY <1>6 DEF a2, b2

\* By an undo,
LEMMA HistoryUndo ==
    ASSUME NEW dn, NEW un, NEW t, NEW op, NEW tch, NEW n \in Nat, HistoryOf(dn, un, t, op, tch, n),
           dn # <<>>, NEW dn2, dn2 = Front(dn), NEW un2, un2 = Append(un, Last(dn))
    PROVE  /\ StepOK(Last(dn), op, tch, FileIds + n) /\ Last(dn).after = t
           /\ HistoryOf(dn2, un2, Last(dn).before, op, tch, n + 1)
<1>1. IsSeq(dn) /\ IsSeq(un) /\ Len(dn) + Len(un) <= n
  BY DEF HistoryOf
<1>2. Moves(dn, un, dn2, un2)
  BY <1>1, HistoryMove
<1>3. StepOK(Last(dn), op, tch, FileIds + n) /\ Last(dn).after = t
  BY <1>2 DEF Moves, HistoryOf
<1>4. \A s : StepOK(s, op, tch, FileIds + n) => StepOK(s, op, tch, FileIds + (n + 1))
  <2>1. FileIds + n \in Int /\ FileIds + (n + 1) \in Int /\ FileIds + n <= FileIds + (n + 1) /\ tch \subseteq tch
    BY FileIdsNat
  <2> QED BY <2>1, StepMore
<1>5. /\ \A i \in DOMAIN dn2 : StepOK(dn2[i], op, tch, FileIds + (n + 1))
      /\ \A i \in DOMAIN un2 : StepOK(un2[i], op, tch, FileIds + (n + 1))
  BY <1>2, <1>3, <1>4 DEF Moves, HistoryOf
<1>6. \A i \in DOMAIN dn2 : dn2[i].after = IF i = Len(dn2) THEN Last(dn).before ELSE dn2[i + 1].before
  BY <1>2 DEF Moves, HistoryOf
<1>7. \A i \in DOMAIN un2 : un2[i].before = IF i = Len(un2) THEN Last(dn).before ELSE un2[i + 1].after
  BY <1>2, <1>3 DEF Moves, HistoryOf
<1>8. Len(dn2) + Len(un2) <= n + 1
  BY <1>1, <1>2 DEF Moves, IsSeq
<1> QED BY <1>2, <1>3, <1>5, <1>6, <1>7, <1>8 DEF Moves, HistoryOf

\* and by a redo.
LEMMA HistoryRedo ==
    ASSUME NEW dn, NEW un, NEW t, NEW op, NEW tch, NEW n \in Nat, HistoryOf(dn, un, t, op, tch, n),
           un # <<>>, NEW un2, un2 = Front(un), NEW dn2, dn2 = Append(dn, Last(un))
    PROVE  /\ StepOK(Last(un), op, tch, FileIds + n) /\ Last(un).before = t
           /\ HistoryOf(dn2, un2, Last(un).after, op, tch, n + 1)
<1>1. IsSeq(dn) /\ IsSeq(un) /\ Len(un) + Len(dn) <= n
  BY DEF HistoryOf, IsSeq
<1>2. Moves(un, dn, un2, dn2)
  BY <1>1, HistoryMove
<1>3. StepOK(Last(un), op, tch, FileIds + n) /\ Last(un).before = t
  BY <1>2 DEF Moves, HistoryOf
<1>4. \A s : StepOK(s, op, tch, FileIds + n) => StepOK(s, op, tch, FileIds + (n + 1))
  <2>1. FileIds + n \in Int /\ FileIds + (n + 1) \in Int /\ FileIds + n <= FileIds + (n + 1) /\ tch \subseteq tch
    BY FileIdsNat
  <2> QED BY <2>1, StepMore
<1>5. /\ \A i \in DOMAIN un2 : StepOK(un2[i], op, tch, FileIds + (n + 1))
      /\ \A i \in DOMAIN dn2 : StepOK(dn2[i], op, tch, FileIds + (n + 1))
  BY <1>2, <1>3, <1>4 DEF Moves, HistoryOf
<1>6. \A i \in DOMAIN un2 : un2[i].before = IF i = Len(un2) THEN Last(un).after ELSE un2[i + 1].after
  BY <1>2 DEF Moves, HistoryOf
<1>7. \A i \in DOMAIN dn2 : dn2[i].after = IF i = Len(dn2) THEN Last(un).after ELSE dn2[i + 1].before
  BY <1>2, <1>3 DEF Moves, HistoryOf
<1>8. Len(dn2) + Len(un2) <= n + 1
  BY <1>1, <1>2 DEF Moves, IsSeq
<1> QED BY <1>2, <1>3, <1>5, <1>6, <1>7, <1>8 DEF Moves, HistoryOf

-----------------------------------------------------------------------------
(***************************************************************************)
(* The tree beside the chunk.                                              *)
(***************************************************************************)
\* One entry of the tree and the fragment it is of.
Beside(f, n, op, tch, top) ==
    /\ NodeOK(n, op, tch, top)
    /\ ReadsAsNode(f, n)
    /\ f = entryObjectXml(n)

\* The tree stays beside the chunk when more has been touched and more ids given.
LEMMA BesideMore ==
    ASSUME NEW f, NEW n, NEW op, NEW tch, NEW top \in Int, Beside(f, n, op, tch, top),
           NEW tch2, tch \subseteq tch2, NEW top2 \in Int, top <= top2
    PROVE  Beside(f, n, op, tch2, top2)
  BY NodeMore DEF Beside

\* What is aligned entry by entry is beside.
LEMMA AlignedIs ==
    ASSUME NEW t, NEW m, NEW op, NEW tch, NEW top, IsChunk(t), AlignedTo(t, m, op, tch, top)
    PROVE  /\ IsSeq(m) /\ Len(m) = Len(t) /\ Len(m) \in Nat
           /\ DOMAIN m = 1 .. Len(m) /\ DOMAIN t = 1 .. Len(m)
           /\ \A k \in DOMAIN m :
                  /\ Beside(t[k], m[k], op, tch, top)
                  /\ IsNode(m[k])
                  /\ t[k].id = m[k].id /\ t[k].name = m[k].name /\ t[k].uuid = m[k].uuid
                  /\ entryKey(t[k]) = entryKey(m[k])
<1>1. IsSeq(m) /\ Len(m) = Len(t) /\ Len(m) \in Nat /\ DOMAIN m = 1 .. Len(m) /\ DOMAIN t = 1 .. Len(m)
  BY ChunkSeq, SeqFacts DEF AlignedTo, IsSeq
<1>2. ASSUME NEW k \in DOMAIN m PROVE Beside(t[k], m[k], op, tch, top)
  BY DEF AlignedTo, Beside
<1>3. ASSUME NEW k \in DOMAIN m
      PROVE  /\ IsNode(m[k])
             /\ t[k].id = m[k].id /\ t[k].name = m[k].name /\ t[k].uuid = m[k].uuid
  BY <1>2 DEF Beside, ReadsAsNode, NodeOK
<1>4. \A k \in DOMAIN m : entryKey(t[k]) = entryKey(m[k])
  BY <1>3 DEF entryKey
<1> QED BY <1>1, <1>2, <1>3, <1>4

\* An entry is changed in its place.
LEMMA AlignedSet ==
    ASSUME NEW t, NEW m, NEW op, NEW tch, NEW top \in Int, IsChunk(t), AlignedTo(t, m, op, tch, top),
           NEW tch2, tch \subseteq tch2, NEW top2 \in Int, top <= top2,
           NEW k \in DOMAIN m, NEW n, NEW t2, IsChunk(t2), Len(t2) = Len(t),
           \A i \in DOMAIN t : i # k => t2[i] = t[i],
           Beside(t2[k], n, op, tch2, top2),
           NEW m2, m2 = With(m, k, n)
    PROVE  AlignedTo(t2, m2, op, tch2, top2)
<1>1. /\ IsSeq(m) /\ Len(m) = Len(t) /\ DOMAIN m = 1 .. Len(m) /\ DOMAIN t = 1 .. Len(m)
      /\ \A i \in DOMAIN m : Beside(t[i], m[i], op, tch, top)
  BY AlignedIs
<1>2. /\ IsSeq(m2) /\ Len(m2) = Len(m) /\ DOMAIN m2 = 1 .. Len(m)
      /\ \A i \in 1 .. Len(m) : m2[i] = IF i = k THEN n ELSE m[i]
  BY <1>1, ExceptIs DEF With
<1>3. \A i \in DOMAIN m2 : Beside(t2[i], m2[i], op, tch2, top2)
  BY <1>1, <1>2, BesideMore
<1> QED BY <1>1, <1>2, <1>3 DEF AlignedTo, Beside

\* An entry is taken out.
LEMMA AlignedCut ==
    ASSUME NEW t, NEW m, NEW op, NEW tch, NEW top \in Int, IsChunk(t), AlignedTo(t, m, op, tch, top),
           NEW tch2, tch \subseteq tch2, NEW top2 \in Int, top <= top2,
           NEW k \in DOMAIN m, NEW t2, t2 = RemoveAt(t, k), NEW m2, m2 = RemoveAt(m, k)
    PROVE  /\ AlignedTo(t2, m2, op, tch2, top2)
           /\ \A i \in DOMAIN m2 : \E j \in DOMAIN m : m2[i] = m[j]
<1>1. /\ IsSeq(m) /\ Len(m) = Len(t) /\ Len(m) \in Nat /\ DOMAIN m = 1 .. Len(m) /\ DOMAIN t = 1 .. Len(m)
      /\ \A i \in DOMAIN m : Beside(t[i], m[i], op, tch, top)
  BY AlignedIs
<1>2. /\ IsSeq(m2) /\ Len(m2) = Len(m) - 1 /\ DOMAIN m2 = 1 .. Len(m) - 1
      /\ \A i \in 1 .. Len(m) - 1 : m2[i] = IF i < k THEN m[i] ELSE m[i + 1]
  BY <1>1, RemoveAtIs
<1>3. /\ Len(t2) = Len(m) - 1
      /\ \A i \in 1 .. Len(m) - 1 : t2[i] = IF i < k THEN t[i] ELSE t[i + 1]
  <2>1. IsChunk(t) /\ k \in DOMAIN t /\ t2 = RemoveAt(t, k)
    BY <1>1
  <2>2. /\ Len(t2) = Len(t) - 1
        /\ \A i \in 1 .. Len(t) - 1 : t2[i] = IF i < k THEN t[i] ELSE t[i + 1]
    BY ONLY <2>1, ChunkCut
  <2> QED BY <2>2, <1>1
<1>4. ASSUME NEW i \in DOMAIN m2
      PROVE  \E j \in DOMAIN m : m2[i] = m[j] /\ t2[i] = t[j]
  <2>1. i \in DOMAIN m /\ i + 1 \in DOMAIN m
    BY <1>1, <1>2
  <2> QED BY <2>1, <1>2, <1>3
<1>5. \A i \in DOMAIN m2 : Beside(t2[i], m2[i], op, tch2, top2)
  BY <1>1, <1>4, BesideMore
<1> QED BY <1>2, <1>3, <1>4, <1>5 DEF AlignedTo, Beside

\* An entry is put in.
LEMMA AlignedPut ==
    ASSUME NEW t, NEW m, NEW op, NEW tch, NEW top \in Int, IsChunk(t), AlignedTo(t, m, op, tch, top),
           NEW tch2, tch \subseteq tch2, NEW top2 \in Int, top <= top2,
           NEW t2, IsChunk(t2), NEW k \in DOMAIN t2, t = RemoveAt(t2, k),
           NEW n, Beside(t2[k], n, op, tch2, top2),
           NEW m2, m2 = InsertAt(m, k, n)
    PROVE  AlignedTo(t2, m2, op, tch2, top2)
<1>1. /\ IsSeq(m) /\ Len(m) = Len(t) /\ Len(m) \in Nat /\ DOMAIN m = 1 .. Len(m) /\ DOMAIN t = 1 .. Len(m)
      /\ \A i \in DOMAIN m : Beside(t[i], m[i], op, tch, top)
  BY AlignedIs
<1>2. DOMAIN t2 = 1 .. Len(t2) /\ Len(t2) \in Nat
  BY ChunkSeq
<1>3. Len(t) = Len(t2) - 1 /\ \A i \in 1 .. Len(t2) - 1 : t[i] = IF i < k THEN t2[i] ELSE t2[i + 1]
  BY ChunkCut
<1>4. k \in 1 .. Len(m) + 1 /\ Len(t2) = Len(m) + 1
  BY <1>1, <1>2, <1>3
<1>5. /\ IsSeq(m2) /\ Len(m2) = Len(m) + 1 /\ DOMAIN m2 = 1 .. Len(m) + 1
      /\ \A i \in 1 .. Len(m) + 1 : m2[i] = IF i < k THEN m[i] ELSE IF i = k THEN n ELSE m[i - 1]
  <2>1. IsSeq(m) /\ k \in 1 .. Len(m) + 1 /\ m2 = InsertAt(m, k, n)
    BY <1>1, <1>4
  <2> QED BY ONLY <2>1, InsertAtIs
<1>6. ASSUME NEW i \in DOMAIN m2 PROVE Beside(t2[i], m2[i], op, tch2, top2)
  <2>1. CASE i < k
    <3>1. i \in 1 .. Len(m) /\ i \in 1 .. Len(t2) - 1
      BY <1>4, <1>5, <2>1
    <3>2. t2[i] = t[i] /\ m2[i] = m[i]
      BY <1>3, <1>5, <2>1, <3>1
    <3> QED BY <1>1, <3>1, <3>2, BesideMore
  <2>2. CASE i = k
    BY <1>5, <2>2
  <2>3. CASE i > k
    <3>1. i - 1 \in 1 .. Len(m) /\ i - 1 \in 1 .. Len(t2) - 1 /\ ~(i - 1 < k) /\ (i - 1) + 1 = i
          /\ ~(i < k) /\ i # k
      BY <1>4, <1>5, <2>3
    <3>2. t2[i] = t[i - 1]
      BY <1>3, <3>1
    <3>3. m2[i] = m[i - 1]
      BY <1>5, <3>1
    <3> QED BY <1>1, <3>1, <3>2, <3>3, BesideMore
  <2> QED BY <1>4, <1>5, <2>1, <2>2, <2>3
<1> QED BY <1>4, <1>5, <1>6 DEF AlignedTo, Beside

\* What is appended is inserted at the end.
LEMMA AppendInserts ==
    ASSUME NEW s, IsSeq(s), NEW e
    PROVE  /\ InsertAt(s, Len(s) + 1, e) = Append(s, e)
           /\ RemoveAt(Append(s, e), Len(s) + 1) = s
<1>1. Len(s) \in Nat /\ Len(s) + 1 \in 1 .. Len(s) + 1
  BY DEF IsSeq
<1>2. /\ IsSeq(InsertAt(s, Len(s) + 1, e)) /\ Len(InsertAt(s, Len(s) + 1, e)) = Len(s) + 1
      /\ \A i \in 1 .. Len(s) + 1 : InsertAt(s, Len(s) + 1, e)[i] =
             IF i < Len(s) + 1 THEN s[i] ELSE IF i = Len(s) + 1 THEN e ELSE s[i - 1]
  BY <1>1, InsertAtIs
<1>3. /\ IsSeq(Append(s, e)) /\ Len(Append(s, e)) = Len(s) + 1
      /\ \A i \in 1 .. Len(s) : Append(s, e)[i] = s[i]
      /\ Append(s, e)[Len(s) + 1] = e
  BY AppendIs
<1>4. \A i \in 1 .. Len(s) + 1 : InsertAt(s, Len(s) + 1, e)[i] = Append(s, e)[i]
  BY <1>1, <1>2, <1>3
<1>5. InsertAt(s, Len(s) + 1, e) = Append(s, e)
  BY <1>2, <1>3, <1>4, SeqSame
<1> QED BY <1>1, <1>5, RemoveOfInsert

-----------------------------------------------------------------------------
(***************************************************************************)
(* An edit of an entry.                                                    *)
(***************************************************************************)
\* What cannot be read and the check is armed for is as it was.
LEMMA ArmedIsAsItWas ==
    ASSUME NEW op, IsOpened(op), NEW n, NEW tch, NEW top, NodeOK(n, op, tch, top), checkIsArmed(n),
           ~n.source.fragment.scans
    PROVE  uneditedBytes(n) /\ entryObjectXml(n) = n.source.fragment
<1>1. HasSource(n) /\ uneditedBytes(n)
  BY DEF checkIsArmed
<1> QED BY <1>1 DEF entryObjectXml

EditOf(k, was, node, before, after) ==
    Step("replace", node, k, NoSource, before, after, {entryKey(was), entryKey(node)},
         uncheckableEntries(was, node))

\* An edit that leaves what no node has been rebuilt since as it was.
StaysFresh(t, m, t2, m2, op, tch, top, s) ==
    \A sv, marks, un : /\ ChunkOK(sv, op, tch, top)
                       /\ MarksOK(marks)
                       /\ FreshIn(t, m, sv, marks, un, op)
        => FreshIn(t2, m2, sv, markUnchecked(marks, s.group), <<>>, op)

\* An edit of an entry splices the entry as it then is written, and nothing else.
LEMMA EditIs ==
    ASSUME NEW op, IsOpened(op), NEW t, NEW m, NEW tch, NEW top \in Int,
           ChunkOK(t, op, tch, top), AlignedTo(t, m, op, tch, top),
           NEW tch2, tch \subseteq tch2, NEW top2 \in Int, top <= top2,
           NEW k \in DOMAIN m, NEW was, was = m[k],
           NEW node, NodeOK(node, op, tch2, top2),
           node.id = was.id, node.uuid = was.uuid, node.source = was.source,
           node.name = was.name \/ \A i \in DOMAIN m : m[i].name # node.name,
           node.status \notin {"Modified", "New"} => node.name \in NewNames,
           NEW t2, t2 = spliceEntryObject(t, node, was),
           NEW m2, m2 = With(m, k, node),
           NEW s, s = EditOf(k, was, node, t, t2)
    PROVE  /\ ChunkOK(t2, op, tch2, top2)
           /\ AlignedTo(t2, m2, op, tch2, top2)
           /\ StepOK(s, op, tch2, top2)
           /\ StaysFresh(t, m, t2, m2, op, tch, top, s)
<1> DEFINE e == entryObjectXml(node)
           x == t[k]
<1>0. IsChunk(t)
  BY DEF ChunkOK
<1>1. /\ IsSeq(m) /\ Len(m) = Len(t) /\ Len(m) \in Nat /\ DOMAIN m = 1 .. Len(m) /\ DOMAIN t = 1 .. Len(m)
      /\ \A i \in DOMAIN m :
                  /\ Beside(t[i], m[i], op, tch, top)
                  /\ IsNode(m[i])
                  /\ t[i].id = m[i].id /\ t[i].name = m[i].name /\ t[i].uuid = m[i].uuid
                  /\ entryKey(t[i]) = entryKey(m[i])
  BY <1>0, AlignedIs
<1>2. x.id = was.id /\ x.name = was.name /\ x.uuid = was.uuid /\ entryKey(x) = entryKey(was)
      /\ Beside(x, was, op, tch, top)
  BY <1>1
<1>3. EntryAt(t, was) = k
  BY <1>0, <1>1, <1>2, FindsEntry
<1>4. k # 0
  BY <1>1
<1>5. t2 = With(t, k, e)
  BY <1>3, <1>4 DEF spliceEntryObject, With
<1>6. ReadsAsNode(e, node) /\ Descends(e, op, tch2, top2)
  BY EntryIs
<1>7. /\ e.id = node.id /\ e.uuid = node.uuid /\ e.name = node.name /\ IsFragment(e)
      /\ entryKey(e) = entryKey(node)
  BY <1>6 DEF ReadsAsNode, entryKey
<1> HIDE DEF e
<1>8. /\ IsChunk(t2) /\ Len(t2) = Len(t) /\ DOMAIN t2 = DOMAIN t
      /\ \A i \in DOMAIN t : t2[i] = IF i = k THEN e ELSE t[i]
  <2>1. e.name = t[k].name \/ \A i \in DOMAIN t : t[i].name # e.name
    BY <1>1, <1>2, <1>7
  <2>2. k \in DOMAIN t /\ e.id = t[k].id /\ e.uuid = t[k].uuid
    BY <1>1, <1>2, <1>7
  <2>3. IsFragment(e)
    BY <1>7
  <2> QED BY ONLY <1>0, <1>5, <2>1, <2>2, <2>3, ChunkSet
<1>9. t2[k] = e /\ k \in DOMAIN t
  BY <1>1, <1>8
<1>10. ChunkOK(t2, op, tch2, top2)
  <2>1. ChunkOK(t, op, tch2, top2)
    BY ChunkMore
  <2> QED BY <1>6, <1>8, <2>1 DEF ChunkOK
<1>11. Beside(e, node, op, tch2, top2)
  BY <1>6 DEF Beside, e
<1>12. AlignedTo(t2, m2, op, tch2, top2)
  <2>1. \A i \in DOMAIN t : i # k => t2[i] = t[i]
    BY <1>8
  <2>2. Beside(t2[k], node, op, tch2, top2)
    BY <1>9, <1>11
  <2>3. IsChunk(t2) /\ Len(t2) = Len(t)
    BY <1>8
  <2>4. /\ top \in Int /\ AlignedTo(t, m, op, tch, top) /\ tch \subseteq tch2 /\ top2 \in Int /\ top <= top2
        /\ k \in DOMAIN m /\ m2 = With(m, k, node)
    OBVIOUS
  <2> QED BY ONLY <1>0, <2>1, <2>2, <2>3, <2>4, AlignedSet
<1>13. /\ s.kind = "replace" /\ s.id = node.id /\ s.before = t /\ s.after = t2
       /\ s.keys = {entryKey(was), entryKey(node)} /\ s.group = uncheckableEntries(was, node)
  BY DEF EditOf, Step
<1>14. \/ s.group = {entryKey(x), entryKey(e)}
       \/ s.group = {} /\ checkIsArmed(node)
  BY <1>2, <1>7, <1>13 DEF uncheckableEntries
<1> HIDE DEF x
<1>15. ASSUME checkIsArmed(node), x # e, ~x.scans PROVE FALSE
  <2>1. HasSource(node)
    BY <1>15 DEF checkIsArmed
  <2>2. HasSource(was)
    BY <2>1 DEF HasSource
  <2>3. x = entryObjectXml(was) /\ NodeOK(was, op, tch, top)
    BY <1>2, <2>2 DEF Beside
  <2>4. was.source.fragment = x
    BY <1>15, <2>3, UnreadIsSource
  <2>5. ~node.source.fragment.scans
    BY <1>15, <2>4
  <2>6. e = node.source.fragment
    BY <1>15, <2>5, ArmedIsAsItWas DEF e
  <2> QED BY <1>15, <2>4, <2>6
<1>16. ASSUME ~e.scans, e.name \notin NewNames PROVE FALSE
  <2>1. uneditedBytes(node)
    BY <1>16, UnreadIsSource DEF e
  <2>2. node.status \notin {"Modified", "New"}
    BY <2>1 DEF uneditedBytes
  <2> QED BY <2>2, <1>7, <1>16
<1>17. Replaces(s, k)
  <2>1. s.before[k] = x /\ s.after[k] = e
    BY <1>9, <1>13 DEF x
  <2>2. \A i \in DOMAIN s.before : i # k => s.after[i] = s.before[i]
    BY <1>8, <1>13
  <2>3. {entryKey(x), entryKey(e)} \subseteq s.keys /\ x.id = s.id /\ e.id = s.id
    BY <1>2, <1>7, <1>13
  <2>4. (x # e /\ (~x.scans \/ (~e.scans /\ e.name \notin NewNames))) => {entryKey(x), entryKey(e)} \subseteq s.group
    BY <1>14, <1>15, <1>16
  <2> QED BY <2>1, <2>2, <2>3, <2>4 DEF Replaces
<1>18. StepOK(s, op, tch2, top2)
  <2>1. ChunkOK(t, op, tch2, top2)
    BY ChunkMore
  <2> QED BY <1>8, <1>9, <1>10, <1>13, <1>17, <2>1 DEF StepOK
<1>19. ASSUME NEW sv, NEW marks, NEW un, ChunkOK(sv, op, tch, top), MarksOK(marks),
              FreshIn(t, m, sv, marks, un, op)
       PROVE  FreshIn(t2, m2, sv, markUnchecked(marks, s.group), <<>>, op)
  <2>0. PICK marks2 : marks2 = markUnchecked(marks, s.group)
    OBVIOUS
  <2>1. /\ \A y : AliasesIn(marks, y) \subseteq AliasesIn(marks2, y)
        /\ \A y \in s.group : s.group \subseteq AliasesIn(marks2, y)
        /\ \A y, z \in s.group : AliasesIn(marks, z) \subseteq AliasesIn(marks2, y)
    <3>1. MarksOK(marks)
      BY <1>19
    <3> QED BY ONLY <3>1, <2>0, MarksAfter
  <2>2. \A i \in DOMAIN m : HasSource(m[i]) => m[i].source.fragment \in Range(op)
    BY <1>19 DEF FreshIn
  <2>3. \A i \in DOMAIN m2 : i \in DOMAIN m /\ m2[i] = IF i = k THEN node ELSE m[i]
    BY <1>1, ExceptIs DEF With
  <2>4. \A i \in DOMAIN m2 : HasSource(m2[i]) => m2[i].source.fragment \in Range(op)
    <3>1. HasSource(node) => HasSource(was)
      BY DEF HasSource
    <3> QED BY <2>2, <2>3, <3>1
  <2>5. ASSUME NEW f \in Range(sv), NEW g \in Range(t2), f.id = g.id, ~f.scans, f # g
        PROVE  entryKey(f) \in AliasesIn(marks2, entryKey(g))
    <3>1. PICK i \in DOMAIN t : g = IF i = k THEN e ELSE t[i]
      BY <1>8, <2>5 DEF Range
    <3>2. CASE i # k
      <4>1. g \in Range(t)
        BY <3>1, <3>2 DEF Range
      <4>2. entryKey(f) \in AliasesIn(marks, entryKey(g))
        BY <1>19, <2>5, <4>1 DEF FreshIn
      <4> QED BY <2>1, <4>2
    <3>3. CASE i = k
      <4>1. g = e /\ x.id = e.id /\ x \in Range(t)
        BY <1>2, <1>7, <1>9, <3>1, <3>3 DEF Range, x
      <4>2. f \in Range(op) /\ f.id \in 1 .. FileIds
        BY <1>19, <2>5 DEF ChunkOK, Descends, IsOpened, Range
      <4>3. ASSUME checkIsArmed(node) PROVE FALSE
        <5>1. HasSource(node) /\ HasSource(was)
          BY <4>3 DEF checkIsArmed, HasSource
        <5>2. was.source.fragment \in Range(op) /\ was.source.fragment.id = was.id
          <6>1. was.source.fragment \in Range(op)
            BY <2>2, <5>1
          <6>2. SourceOK(was, was.source.fragment, op, tch, top)
            BY <1>2, <5>1 DEF Beside, NodeOK
          <6> QED BY <6>1, <6>2 DEF SourceOK, ComesFrom
        <5>3. was.source.fragment = f
          <6>1. was.source.fragment.id = f.id
            BY <1>2, <2>5, <4>1, <5>2
          <6> QED BY <4>2, <5>2, <6>1, SameEntry DEF IsOpened
        <5>4. e = f
          BY <2>5, <4>3, <5>3, ArmedIsAsItWas DEF e
        <5> QED BY <2>5, <4>1, <5>4
      <4>4. s.group = {entryKey(x), entryKey(e)}
        BY <1>14, <4>3
      <4>5. CASE x = f
        BY <2>1, <4>1, <4>4, <4>5
      <4>6. CASE x # f
        <5>1. entryKey(f) \in AliasesIn(marks, entryKey(x))
          BY <1>19, <2>5, <4>1, <4>6 DEF FreshIn
        <5> QED BY <2>1, <4>1, <4>4, <5>1
      <4> QED BY <4>5, <4>6
    <3> QED BY <3>2, <3>3
  <2>6. FreshIn(t2, m2, sv, marks2, <<>>, op)
    BY <2>4, <2>5 DEF FreshIn
  <2> QED BY <2>0, <2>6
<1> QED BY <1>10, <1>12, <1>18, <1>19 DEF StaysFresh

-----------------------------------------------------------------------------
(***************************************************************************)
(* The start, a read, and an edit pushed.                                  *)
(***************************************************************************)
LEMMA OpenedDescends ==
    ASSUME NEW c, IsOpened(c)
    PROVE  ChunkOK(c, c, {}, FileIds)
<1>1. ASSUME NEW i \in DOMAIN c, NEW o \in Range(c), c[i].id = o.id
      PROVE  c[i].uuid = o.uuid /\ (o.scans => Keeps(c[i], o, {}))
  <2>1. c[i] = o
    <3>1. c[i] \in Range(c) /\ IsChunk(c)
      BY DEF Range, IsOpened
    <3> QED BY <1>1, <3>1, SameEntry
  <2>2. \A e \in Range(o.elements) : ElementKept(o, o, e, {})
    BY DEF ElementKept
  <2>3. o.scans => Keeps(o, o, {})
    BY <2>2 DEF Keeps
  <2> QED BY <2>1, <2>3
<1>2. \A i \in DOMAIN c : Descends(c[i], c, {}, FileIds)
  BY <1>1 DEF Descends, IsOpened, Range
<1> QED BY <1>2 DEF ChunkOK, IsOpened

\* A chunk read whole is aligned with what is read of it.
LEMMA ReadAligned ==
    ASSUME NEW c, NEW op, NEW tch, NEW top, ChunkOK(c, op, tch, top), NEW n \in Nat,
           NEW m, m = ReadChunk(c, n)
    PROVE  /\ AlignedTo(c, m, op, tch, top)
           /\ \A k \in DOMAIN m : m[k].source.fragment = c[k] /\ k \in DOMAIN c
<1>1. IsChunk(c) /\ Len(c) \in Nat /\ DOMAIN c = 1 .. Len(c) /\ \A i \in DOMAIN c : IsFragment(c[i])
  BY ChunkSeq DEF ChunkOK
<1>2. m = [i \in 1 .. Len(c) |-> Sourced(readEntryFragment(c[i]), n, i, c[i])]
  BY <1>1 DEF ReadChunk
<1>3. Len(m) = Len(c) /\ IsSeq(m) /\ DOMAIN m = 1 .. Len(c)
  BY <1>1, <1>2 DEF IsSeq, IsRecord
<1>4. ASSUME NEW k \in DOMAIN m
      PROVE  /\ NodeOK(m[k], op, tch, top)
             /\ ReadsAsNode(c[k], m[k])
             /\ m[k].source.fragment = c[k]
             /\ entryObjectXml(m[k]) = c[k]
  <2>1. IsFragment(c[k]) /\ Descends(c[k], op, tch, top) /\ n # None
    BY <1>1, <1>3, BinaryDictionaryAssumption DEF ChunkOK
  <2>2. m[k] = Sourced(readEntryFragment(c[k]), n, k, c[k])
    BY <1>2, <1>3
  <2> QED BY <2>1, <2>2, SourcedIs
<1> QED BY <1>1, <1>3, <1>4 DEF AlignedTo

\* The invariant holds at the start.
LEMMA InvInit == Init => Inv
<1> SUFFICES ASSUME Init PROVE Inv
  OBVIOUS
<1>1. /\ text \in Documents /\ saved = text /\ frame.n = 0 /\ model = ReadChunk(text, 0)
      /\ edited = {} /\ unchecked = <<>> /\ done = <<>> /\ undone = <<>> /\ edits = 0
      /\ opened = text /\ touched = {}
  BY DEF Init
<1>2. IsOpened(text)
  BY <1>1, OpenedIs
<1>3. ChunkOK(text, text, {}, FileIds)
  BY <1>2, OpenedDescends
<1>4. FileIds + edits = FileIds
  BY <1>1, FileIdsNat
<1>5. IsSeq(<<>>) /\ Len(<<>>) = 0 /\ DOMAIN <<>> = {}
  BY DEF IsSeq, IsRecord
<1>6. Kept
  <2>1. MarksOK(unchecked)
    BY <1>1, <1>5 DEF MarksOK
  <2>2. IsChunk(frame.chunk)
    <3>1. frame.chunk = text
      BY DEF Init
    <3> QED BY <1>3, <3>1 DEF ChunkOK
  <2> QED BY <1>1, <1>3, <1>4, <2>1, <2>2, BinaryDictionaryAssumption DEF Kept
<1>7. /\ AlignedTo(text, model, text, {}, FileIds)
      /\ \A k \in DOMAIN model : model[k].source.fragment = text[k] /\ k \in DOMAIN text
  BY <1>1, <1>3, ReadAligned
<1>8. Aligned
  BY <1>1, <1>4, <1>7 DEF Aligned
<1>9. History
  <2>1. /\ IsSeq(done) /\ IsSeq(undone) /\ Len(done) + Len(undone) <= edits
        /\ DOMAIN done = {} /\ DOMAIN undone = {}
    BY <1>1, <1>5
  <2> QED BY <2>1 DEF History, HistoryOf
<1>10. Named /\ Removed
  BY <1>1, <1>5 DEF Named, NamedIn, Removed, RemovedIn
<1>11. \A f \in Range(saved), g \in Range(text) : f.id = g.id => f = g
  BY <1>1, <1>2, SameEntry DEF IsOpened
<1>12. Unread
  BY <1>1, <1>5, <1>11 DEF Unread, UnreadIn, MarkedAs
<1>13. Fresh
  BY <1>1, <1>7, <1>11 DEF Fresh, FreshIn, Range
<1> QED BY <1>6, <1>8, <1>9, <1>10, <1>12, <1>13 DEF Inv

\* It holds after an edit whose chunk and tree are aligned and whose step is a true one.
LEMMA InvPush ==
    ASSUME Inv, NEW s, NEW t2, NEW m2, Push(s, t2, m2),
           NEW tch2, touched' = tch2, touched \subseteq tch2,
           s.before = text, s.after = t2,
           ChunkOK(t2, opened, tch2, FileIds + (edits + 1)),
           AlignedTo(t2, m2, opened, tch2, FileIds + (edits + 1)),
           StepOK(s, opened, tch2, FileIds + (edits + 1)),
           NEW marks2, marks2 = markUnchecked(unchecked, s.group),
           FreshIn(text, model, saved, unchecked, undone, opened) =>
               FreshIn(t2, m2, saved, marks2, <<>>, opened)
    PROVE  Inv'
<1>1. /\ edits < MaxEdits /\ edits' = edits + 1 /\ text' = t2 /\ model' = m2
      /\ edited' = edited \union s.keys /\ unchecked' = marks2
      /\ done' = Append(done, s) /\ undone' = <<>>
      /\ saved' = saved /\ frame' = frame /\ opened' = opened
  BY DEF Push
<1>2. /\ edits \in 0 .. MaxEdits /\ frame.n \in 0 .. MaxReads /\ opened \in Documents
      /\ ChunkOK(saved, opened, touched, FileIds + edits)
      /\ MarksOK(unchecked)
      /\ HistoryOf(done, undone, text, opened, touched, edits)
      /\ NamedIn(text, saved, edited) /\ RemovedIn(done, text)
      /\ UnreadIn(saved, text, done, unchecked)
  BY DEF Inv, Kept, History, Named, Removed, Unread
<1>3. /\ edits \in Nat /\ edits + 1 \in 0 .. MaxEdits
      /\ FileIds + edits \in Int /\ FileIds + (edits + 1) \in Int /\ FileIds + edits <= FileIds + (edits + 1)
  BY <1>1, <1>2, BinaryDictionaryAssumption
<1>4. ChunkOK(saved, opened, tch2, FileIds + (edits + 1))
  BY <1>2, <1>3, ChunkMore
<1>5. Kept'
  <2>1. MarksOK(marks2)
    BY <1>2, MarksAfter
  <2>2. IsChunk(frame.chunk)
    BY DEF Inv, Kept
  <2> QED BY <1>1, <1>2, <1>3, <1>4, <2>1, <2>2 DEF Kept
<1>6. Aligned'
  BY <1>1 DEF Aligned
<1>7. IsSeq(done) /\ Len(done) \in Nat
  BY <1>2 DEF HistoryOf, IsSeq
<1>8. /\ Len(Append(done, s)) = Len(done) + 1
      /\ \A i \in DOMAIN Append(done, s) :
             (i \in DOMAIN done /\ Append(done, s)[i] = done[i]) \/ Append(done, s)[i] = s
  <2>1. /\ DOMAIN Append(done, s) = 1 .. Len(done) + 1
        /\ \A i \in 1 .. Len(done) : Append(done, s)[i] = done[i]
        /\ Append(done, s)[Len(done) + 1] = s
        /\ DOMAIN done = 1 .. Len(done)
        /\ Len(Append(done, s)) = Len(done) + 1
    BY <1>7, AppendIs, SeqFacts
  <2>2. \A i \in 1 .. Len(done) + 1 : i \in 1 .. Len(done) \/ i = Len(done) + 1
    BY <1>7
  <2> QED BY <2>1, <2>2
<1>9. History'
  <2>1. HistoryOf(Append(done, s), <<>>, s.after, opened, tch2, edits + 1)
    BY <1>2, <1>3, HistoryPush
  <2> QED BY <1>1, <2>1 DEF History
<1>10. Leads(s, text, t2)
  BY DEF Leads
<1>11. Named'
  <2>1. NamedIn(t2, saved, edited \union s.keys)
    BY <1>2, <1>10, NamedAfter
  <2> QED BY <1>1, <2>1 DEF Named
<1>12. Removed'
  <2>1. RemovedIn(Append(done, s), t2)
    BY <1>2, <1>7, RemovedForward
  <2> QED BY <1>1, <2>1 DEF Removed
<1>13. Unread'
  <2>1. UnreadIn(saved, t2, Append(done, s), marks2)
    <3>1. PICK d : d = Append(done, s)
      OBVIOUS
    <3>2. \A i \in DOMAIN d : (i \in DOMAIN done /\ d[i] = done[i]) \/ d[i] = s
      BY <1>8, <3>1
    <3>3. IsOpened(opened)
      BY <1>2, OpenedIs
    <3>4. UnreadIn(saved, text, done, unchecked) /\ MarksOK(unchecked) /\ StepOK(s, opened, tch2, FileIds + (edits + 1))
          /\ text = s.before /\ marks2 = markUnchecked(unchecked, s.group)
      BY <1>2
    <3>5. UnreadIn(saved, t2, d, marks2)
      BY ONLY <1>4, <1>10, <3>2, <3>3, <3>4, UnreadAfter
    <3> QED BY <3>1, <3>5
  <2> QED BY <1>1, <2>1 DEF Unread
<1>14. Fresh'
  <2>1. SUFFICES ASSUME frame.n = 0, Len(done) + 1 = edits + 1
                 PROVE  FreshIn(t2, m2, saved, marks2, <<>>, opened)
    BY <1>1, <1>8 DEF Fresh
  <2>2. Len(done) = edits
    BY <1>3, <1>7, <2>1
  <2> QED BY <2>1, <2>2 DEF Inv, Fresh
<1> QED BY <1>5, <1>6, <1>9, <1>11, <1>12, <1>13, <1>14 DEF Inv

-----------------------------------------------------------------------------
(***************************************************************************)
(* Undo and redo.                                                          *)
(***************************************************************************)
LEMMA MinOfTwo ==
    ASSUME NEW k \in Int, NEW l \in Int, k <= l
    PROVE  Min({k, l}) = k
  BY DEF Min

\* A node rebuilt of a fragment is as it should be, and written as that fragment.
LEMMA RebuiltIs ==
    ASSUME NEW op, NEW tch, NEW top, NEW f, IsFragment(f), Descends(f, op, tch, top),
           NEW place, f.id \in 1 .. FileIds => place.frame # None, NEW n, n = Rebuilt(f, place)
    PROVE  Beside(f, n, op, tch, top)
<1>1. CASE place.frame = None
  <2>1. n = readEntryFragment(f) /\ f.id \notin 1 .. FileIds
    BY <1>1 DEF Rebuilt
  <2> QED BY <2>1, UnsourcedIs DEF Beside
<1>2. CASE place.frame # None
  <2>1. n = Sourced(readEntryFragment(f), place.frame, place.index, f)
    BY <1>2 DEF Rebuilt
  <2> QED BY <1>2, <2>1, SourcedIs DEF Beside
<1> QED BY <1>1, <1>2

\* A step undone or redone leaves the tree aligned with the chunk it puts back.
LEMMA ReplayAligned ==
    ASSUME NEW op, NEW tch, NEW top \in Int, NEW t, NEW m, AlignedTo(t, m, op, tch, top),
           NEW s, StepOK(s, op, tch, top), NEW kind, NEW t2,
           \/ t = s.before /\ t2 = s.after /\ kind = s.kind
           \/ t = s.after /\ t2 = s.before /\ kind = Opposite[s.kind],
           NEW m2, m2 = Applied(m, kind, s, t2)
    PROVE  AlignedTo(t2, m2, op, tch, top)
<1>1. ChunkOK(t, op, tch, top) /\ ChunkOK(t2, op, tch, top) /\ IsChunk(t) /\ IsChunk(t2)
  BY DEF StepOK, ChunkOK
<1>2. /\ IsSeq(m) /\ Len(m) = Len(t) /\ Len(m) \in Nat /\ DOMAIN m = 1 .. Len(m) /\ DOMAIN t = 1 .. Len(m)
      /\ \A k \in DOMAIN m : /\ Beside(t[k], m[k], op, tch, top)
                             /\ t[k].id = m[k].id
  BY <1>1, AlignedIs
<1>3. DOMAIN t2 = 1 .. Len(t2) /\ \A k \in DOMAIN t2 : IsFragment(t2[k]) /\ Descends(t2[k], op, tch, top)
  BY <1>1, ChunkSeq DEF ChunkOK
<1>4. tch \subseteq tch /\ top <= top
  OBVIOUS
<1> DEFINE At == Min({j \in DOMAIN m : m[j].id = s.id})
<1>5. ASSUME NEW k \in DOMAIN t, t[k].id = s.id PROVE At = k
  <2>1. \A i \in DOMAIN t : t[i].id = s.id => i = k
    BY <1>1, <1>5, OneOfId
  <2>2. {j \in DOMAIN m : m[j].id = s.id} = {k}
    BY <1>2, <1>5, <2>1
  <2> QED BY <1>2, <2>2, MinOfOne
<1>6. ASSUME NEW k \in DOMAIN t2, t2[k].id = s.id PROVE Fragment(t2, s.id) = t2[k]
  BY <1>1, <1>6, OneOfId
<1>7. /\ kind = "remove" => m2 = RemoveAt(m, At)
      /\ kind = "replace" => m2 = With(m, At, Rebuilt(Fragment(t2, s.id), m[At].source))
      /\ kind = "insert" => m2 = InsertAt(m, Min({s.at, Len(m) + 1}), Rebuilt(Fragment(t2, s.id), s.place))
  BY DEF Applied, With
<1> HIDE DEF At
<1>8. CASE kind = "replace"
  <2>1. s.kind = "replace"
    BY <1>8 DEF Opposite, StepOK
  <2>2. PICK k \in DOMAIN s.before : Replaces(s, k)
    BY <2>1 DEF StepOK
  <2>3. Len(s.before) = Len(s.after)
    BY <2>1 DEF StepOK
  <2>4. /\ k \in DOMAIN t /\ k \in DOMAIN m /\ k \in DOMAIN t2 /\ Len(t2) = Len(t)
        /\ t[k].id = s.id /\ t2[k].id = s.id
        /\ \A i \in DOMAIN t : i # k => t2[i] = t[i]
    BY <1>2, <1>3, <2>2, <2>3 DEF Replaces
  <2>5. At = k /\ Fragment(t2, s.id) = t2[k]
    BY <1>5, <1>6, <2>4
  <2>6. PICK n : n = Rebuilt(t2[k], m[k].source)
    OBVIOUS
  <2>7. m2 = With(m, k, n)
    BY <1>7, <1>8, <2>5, <2>6
  <2>8. t2[k].id \in 1 .. FileIds => m[k].source.frame # None
    BY <1>2, <2>4 DEF Beside, NodeOK, HasSource
  <2>9. Beside(t2[k], n, op, tch, top)
    BY <1>3, <2>4, <2>6, <2>8, RebuiltIs
  <2>10. AlignedTo(t, m, op, tch, top) /\ top \in Int
    OBVIOUS
  <2> QED BY ONLY <1>1, <1>4, <2>4, <2>7, <2>9, <2>10, AlignedSet
<1>9. CASE kind = "remove"
  <2>1. OneMore(t, t2, s.at, s.id)
    BY <1>9 DEF Opposite, StepOK
  <2>2. s.at \in DOMAIN t /\ s.at \in DOMAIN m /\ At = s.at /\ t2 = RemoveAt(t, s.at)
    BY <1>2, <1>5, <2>1 DEF OneMore
  <2>3. m2 = RemoveAt(m, s.at)
    BY <1>7, <1>9, <2>2
  <2>4. AlignedTo(t, m, op, tch, top) /\ top \in Int
    OBVIOUS
  <2> QED BY ONLY <1>1, <1>4, <2>2, <2>3, <2>4, AlignedCut
<1>10. CASE kind = "insert"
  <2>1. OneMore(t2, t, s.at, s.id)
    BY <1>10 DEF Opposite, StepOK
  <2>2. s.id \in 1 .. FileIds => s.place.frame # None
    BY <1>10 DEF Opposite, StepOK
  <2>3. s.at \in DOMAIN t2 /\ t2[s.at].id = s.id /\ t = RemoveAt(t2, s.at)
    BY <2>1 DEF OneMore
  <2>4. Len(t2) - 1 = Len(m) /\ Len(t2) \in Nat /\ s.at \in Int /\ s.at <= Len(m) + 1
    <3>1. Len(t) = Len(t2) - 1
      BY <1>1, <2>3, ChunkCut
    <3> QED BY <1>1, <1>2, <1>3, <2>3, <3>1, ChunkSeq
  <2>5. Min({s.at, Len(m) + 1}) = s.at
    BY <1>2, <2>4, MinOfTwo
  <2>6. PICK n : n = Rebuilt(t2[s.at], s.place)
    OBVIOUS
  <2>7. m2 = InsertAt(m, s.at, n)
    BY <1>6, <1>7, <1>10, <2>3, <2>5, <2>6
  <2>8. Beside(t2[s.at], n, op, tch, top)
    BY <1>3, <2>2, <2>3, <2>6, RebuiltIs
  <2>9. AlignedTo(t, m, op, tch, top) /\ top \in Int
    OBVIOUS
  <2> QED BY ONLY <1>1, <1>4, <2>3, <2>7, <2>8, <2>9, AlignedPut
<1> QED BY <1>8, <1>9, <1>10 DEF StepOK, Opposite

\* What is aligned stays so when more ids have been given.
LEMMA AlignedMore ==
    ASSUME NEW t, NEW m, NEW op, NEW tch, NEW top \in Int, AlignedTo(t, m, op, tch, top),
           NEW tch2, tch \subseteq tch2, NEW top2 \in Int, top <= top2
    PROVE  AlignedTo(t, m, op, tch2, top2)
<1>1. ASSUME NEW k \in DOMAIN m PROVE NodeOK(m[k], op, tch2, top2)
  BY NodeMore DEF AlignedTo
<1> QED BY <1>1 DEF AlignedTo

\* What undo and redo have in common.
LEMMA InvReplay ==
    ASSUME Inv, NEW s, StepOK(s, opened, touched, FileIds + edits), NEW kind, NEW t2,
           \/ text = s.before /\ t2 = s.after /\ kind = s.kind
           \/ text = s.after /\ t2 = s.before /\ kind = Opposite[s.kind],
           Replay(s, kind, t2)
    PROVE  /\ Kept' /\ Aligned' /\ Named'
           /\ edits' = edits + 1 /\ text' = t2 /\ saved' = saved /\ opened' = opened
           /\ touched' = touched /\ unchecked' = markUnchecked(unchecked, s.group)
<1>1. /\ edits < MaxEdits /\ edits' = edits + 1 /\ text' = t2 /\ model' = Applied(model, kind, s, t2)
      /\ edited' = edited \union s.keys /\ unchecked' = markUnchecked(unchecked, s.group)
      /\ saved' = saved /\ frame' = frame /\ opened' = opened /\ touched' = touched
  BY DEF Replay
<1>2. /\ edits \in 0 .. MaxEdits /\ frame.n \in 0 .. MaxReads /\ opened \in Documents
      /\ ChunkOK(saved, opened, touched, FileIds + edits)
      /\ MarksOK(unchecked)
      /\ NamedIn(text, saved, edited)
      /\ AlignedTo(text, model, opened, touched, FileIds + edits)
  BY DEF Inv, Kept, Named, Aligned
<1>3. /\ edits \in Nat /\ edits + 1 \in 0 .. MaxEdits
      /\ FileIds + edits \in Int /\ FileIds + (edits + 1) \in Int /\ FileIds + edits <= FileIds + (edits + 1)
      /\ touched \subseteq touched
  BY <1>1, <1>2, BinaryDictionaryAssumption
<1>4. ChunkOK(saved, opened, touched, FileIds + (edits + 1)) /\ ChunkOK(t2, opened, touched, FileIds + (edits + 1))
  <2>1. ChunkOK(t2, opened, touched, FileIds + edits)
    BY DEF StepOK
  <2> QED BY <1>2, <1>3, <2>1, ChunkMore
<1>5. MarksOK(unchecked')
  BY <1>1, <1>2, MarksAfter
<1>6. Kept'
  <2>1. IsChunk(frame.chunk)
    BY DEF Inv, Kept
  <2> QED BY <1>1, <1>2, <1>3, <1>4, <1>5, <2>1 DEF Kept
<1>7. PICK m2 : m2 = Applied(model, kind, s, t2)
  OBVIOUS
<1>8. AlignedTo(t2, m2, opened, touched, FileIds + edits)
  BY <1>2, <1>3, <1>7, ReplayAligned
<1>9. AlignedTo(t2, m2, opened, touched, FileIds + (edits + 1))
  BY <1>3, <1>8, AlignedMore
<1>10. Aligned'
  BY <1>1, <1>7, <1>9 DEF Aligned
<1>11. Named'
  <2>1. Leads(s, text, t2)
    BY DEF Leads
  <2>2. NamedIn(t2, saved, edited \union s.keys)
    BY <1>2, <2>1, NamedAfter
  <2> QED BY <1>1, <2>2 DEF Named
<1> QED BY <1>1, <1>6, <1>10, <1>11

\* An undo keeps the invariant: the chunk is the one before the last edit.
LEMMA InvUndo == Inv /\ undo => Inv'
<1> SUFFICES ASSUME Inv, undo PROVE Inv'
  OBVIOUS
<1>1. PICK s : s = Last(done)
  OBVIOUS
<1>2. /\ done # <<>> /\ Replay(s, Opposite[s.kind], s.before)
      /\ done' = Front(done) /\ undone' = Append(undone, s)
  BY <1>1 DEF undo
<1>3. /\ edits \in Nat /\ HistoryOf(done, undone, text, opened, touched, edits)
      /\ RemovedIn(done, text) /\ UnreadIn(saved, text, done, unchecked)
      /\ MarksOK(unchecked) /\ opened \in Documents
      /\ ChunkOK(saved, opened, touched, FileIds + edits)
  BY BinaryDictionaryAssumption DEF Inv, Kept, History, Removed, Unread
<1>4. /\ StepOK(s, opened, touched, FileIds + edits) /\ s.after = text
      /\ HistoryOf(Front(done), Append(undone, s), s.before, opened, touched, edits + 1)
  BY <1>1, <1>2, <1>3, HistoryUndo
<1>5. PICK t2 : t2 = s.before
  OBVIOUS
<1>6. PICK kind : kind = Opposite[s.kind]
  OBVIOUS
<1>7. /\ Kept' /\ Aligned' /\ Named'
      /\ edits' = edits + 1 /\ text' = t2 /\ saved' = saved /\ opened' = opened
      /\ touched' = touched /\ unchecked' = markUnchecked(unchecked, s.group)
  <2>1. Replay(s, kind, t2)
    BY <1>2, <1>5, <1>6
  <2>2. \/ text = s.before /\ t2 = s.after /\ kind = s.kind
        \/ text = s.after /\ t2 = s.before /\ kind = Opposite[s.kind]
    BY <1>4, <1>5, <1>6
  <2> QED BY <1>4, <2>1, <2>2, InvReplay
<1>8. History'
  BY <1>2, <1>4, <1>5, <1>7 DEF History
<1>9. IsSeq(done) /\ DOMAIN done = 1 .. Len(done) /\ IsSeq(Front(done)) /\ Len(Front(done)) = Len(done) - 1
      /\ Len(done) \in Nat \ {0} /\ done[Len(done)] = s
      /\ \A i \in DOMAIN Front(done) : i \in DOMAIN done /\ Front(done)[i] = done[i]
  <2>1. IsSeq(done) /\ IsSeq(undone)
    BY <1>3 DEF HistoryOf
  <2>2. /\ Len(done) \in Nat \ {0} /\ Last(done) = done[Len(done)]
        /\ IsSeq(Front(done)) /\ Len(Front(done)) = Len(done) - 1
        /\ DOMAIN Front(done) = 1 .. Len(done) - 1
        /\ \A i \in 1 .. Len(done) - 1 : Front(done)[i] = done[i]
        /\ DOMAIN done = 1 .. Len(done)
    BY <1>2, <2>1, FrontIs, SeqFacts
  <2> QED BY <1>1, <2>1, <2>2
<1>10. Removed'
  <2>1. RemovedIn(Front(done), t2)
    <3>1. PICK d : d = Front(done)
      OBVIOUS
    <3>2. RemovedIn(done, text) /\ IsSeq(done) /\ done # <<>> /\ StepOK(s, opened, touched, FileIds + edits)
          /\ text = s.after /\ s = Last(done)
      BY <1>1, <1>2, <1>3, <1>4, <1>9
    <3>3. RemovedIn(d, t2)
      BY ONLY <1>5, <3>1, <3>2, RemovedBack
    <3> QED BY <3>1, <3>3
  <2> QED BY <1>2, <1>7, <2>1 DEF Removed
<1>11. Unread'
  <2>1. PICK d : d = Front(done)
    OBVIOUS
  <2>2. PICK marks2 : marks2 = markUnchecked(unchecked, s.group)
    OBVIOUS
  <2>3. \A i \in DOMAIN d : i \in DOMAIN done /\ d[i] = done[i]
    BY <1>9, <2>1
  <2>4. \E i \in DOMAIN done : done[i] = s
    BY <1>9
  <2>5. Leads(s, text, t2) /\ text = s.after
    BY <1>4, <1>5 DEF Leads
  <2>6. IsOpened(opened)
    BY <1>3, OpenedIs
  <2>7. UnreadIn(saved, text, done, unchecked) /\ MarksOK(unchecked)
        /\ ChunkOK(saved, opened, touched, FileIds + edits) /\ StepOK(s, opened, touched, FileIds + edits)
    BY <1>3, <1>4
  <2>8. UnreadIn(saved, t2, d, marks2)
    BY ONLY <2>2, <2>3, <2>4, <2>5, <2>6, <2>7, UnreadAfter
  <2> QED BY <1>2, <1>7, <2>1, <2>2, <2>8 DEF Unread
<1>12. Fresh'
  <2>1. Len(done') <= edits /\ Len(done') \in Int
    <3>1. Len(undone) \in Nat /\ Len(done) + Len(undone) <= edits
      BY <1>3 DEF HistoryOf, IsSeq
    <3> QED BY <1>2, <1>3, <1>9, <3>1
  <2>2. Len(done') # edits'
    BY <1>3, <1>7, <2>1
  <2> QED BY <2>2 DEF Fresh
<1> QED BY <1>7, <1>8, <1>10, <1>11, <1>12 DEF Inv

\* And a redo, whose chunk is the one after it.
LEMMA InvRedo == Inv /\ redo => Inv'
<1> SUFFICES ASSUME Inv, redo PROVE Inv'
  OBVIOUS
<1>1. PICK s : s = Last(undone)
  OBVIOUS
<1>2. /\ undone # <<>> /\ Replay(s, s.kind, s.after)
      /\ undone' = Front(undone) /\ done' = Append(done, s)
  BY <1>1 DEF redo
<1>3. /\ edits \in Nat /\ HistoryOf(done, undone, text, opened, touched, edits)
      /\ RemovedIn(done, text) /\ UnreadIn(saved, text, done, unchecked)
      /\ MarksOK(unchecked) /\ opened \in Documents
      /\ ChunkOK(saved, opened, touched, FileIds + edits)
  BY BinaryDictionaryAssumption DEF Inv, Kept, History, Removed, Unread
<1>4. /\ StepOK(s, opened, touched, FileIds + edits) /\ s.before = text
      /\ HistoryOf(Append(done, s), Front(undone), s.after, opened, touched, edits + 1)
  BY <1>1, <1>2, <1>3, HistoryRedo
<1>5. PICK t2 : t2 = s.after
  OBVIOUS
<1>6. PICK kind : kind = s.kind
  OBVIOUS
<1>7. /\ Kept' /\ Aligned' /\ Named'
      /\ edits' = edits + 1 /\ text' = t2 /\ saved' = saved /\ opened' = opened
      /\ touched' = touched /\ unchecked' = markUnchecked(unchecked, s.group)
  <2>1. Replay(s, kind, t2)
    BY <1>2, <1>5, <1>6
  <2>2. \/ text = s.before /\ t2 = s.after /\ kind = s.kind
        \/ text = s.after /\ t2 = s.before /\ kind = Opposite[s.kind]
    BY <1>4, <1>5, <1>6
  <2> QED BY <1>4, <2>1, <2>2, InvReplay
<1>8. History'
  BY <1>2, <1>4, <1>5, <1>7 DEF History
<1>9. IsSeq(done) /\ Len(done) \in Nat
  BY <1>3 DEF HistoryOf, IsSeq
<1>10. Removed'
  <2>1. RemovedIn(Append(done, s), t2)
    BY <1>3, <1>4, <1>5, <1>9, RemovedForward
  <2> QED BY <1>2, <1>7, <2>1 DEF Removed
<1>11. /\ Len(Append(done, s)) = Len(done) + 1
       /\ \A i \in DOMAIN Append(done, s) :
              (i \in DOMAIN done /\ Append(done, s)[i] = done[i]) \/ Append(done, s)[i] = s
  <2>1. /\ DOMAIN Append(done, s) = 1 .. Len(done) + 1
        /\ \A i \in 1 .. Len(done) : Append(done, s)[i] = done[i]
        /\ Append(done, s)[Len(done) + 1] = s
        /\ DOMAIN done = 1 .. Len(done)
        /\ Len(Append(done, s)) = Len(done) + 1
    BY <1>9, AppendIs, SeqFacts
  <2>2. \A i \in 1 .. Len(done) + 1 : i \in 1 .. Len(done) \/ i = Len(done) + 1
    BY <1>9
  <2> QED BY <2>1, <2>2
<1>12. Unread'
  <2>1. PICK d : d = Append(done, s)
    OBVIOUS
  <2>2. PICK marks2 : marks2 = markUnchecked(unchecked, s.group)
    OBVIOUS
  <2>3. \A i \in DOMAIN d : (i \in DOMAIN done /\ d[i] = done[i]) \/ d[i] = s
    BY <1>11, <2>1
  <2>4. Leads(s, text, t2) /\ text = s.before
    BY <1>4, <1>5 DEF Leads
  <2>5. IsOpened(opened)
    BY <1>3, OpenedIs
  <2>6. UnreadIn(saved, text, done, unchecked) /\ MarksOK(unchecked)
        /\ ChunkOK(saved, opened, touched, FileIds + edits) /\ StepOK(s, opened, touched, FileIds + edits)
    BY <1>3, <1>4
  <2>7. UnreadIn(saved, t2, d, marks2)
    BY ONLY <2>2, <2>3, <2>4, <2>5, <2>6, UnreadAfter
  <2> QED BY <1>2, <1>7, <2>1, <2>2, <2>7 DEF Unread
<1>13. Fresh'
  <2>1. Len(done) + Len(undone) <= edits /\ Len(undone) \in Nat \ {0}
    BY <1>2, <1>3, FrontIs DEF HistoryOf
  <2>2. Len(done') # edits'
    BY <1>2, <1>3, <1>7, <1>9, <1>11, <2>1
  <2> QED BY <2>2 DEF Fresh
<1> QED BY <1>7, <1>8, <1>10, <1>12, <1>13 DEF Inv

-----------------------------------------------------------------------------
(***************************************************************************)
(* A read of the whole chunk, and a save.                                  *)
(***************************************************************************)
LEMMA InvRead == Inv /\ readAgain => Inv'
<1> SUFFICES ASSUME Inv, readAgain PROVE Inv'
  OBVIOUS
<1>1. /\ frame.n < MaxReads /\ frame'.n = frame.n + 1 /\ model' = ReadChunk(text, frame.n + 1)
      /\ text' = text /\ saved' = saved /\ edited' = edited /\ unchecked' = unchecked
      /\ done' = done /\ undone' = undone /\ edits' = edits /\ opened' = opened /\ touched' = touched
  BY DEF readAgain, hostVars
<1>2. frame.n \in 0 .. MaxReads /\ ChunkOK(text, opened, touched, FileIds + edits)
  BY DEF Inv, Kept
<1>3. frame.n + 1 \in 0 .. MaxReads /\ frame.n + 1 \in Nat /\ frame.n + 1 # 0
  BY <1>1, <1>2, BinaryDictionaryAssumption
<1>4. Kept'
  <2>1. IsChunk(frame'.chunk)
    BY <1>2 DEF readAgain, ChunkOK
  <2> QED BY <1>1, <1>3, <2>1 DEF Inv, Kept
<1>5. Aligned'
  <2>1. AlignedTo(text, ReadChunk(text, frame.n + 1), opened, touched, FileIds + edits)
    BY <1>2, <1>3, ReadAligned
  <2> QED BY <1>1, <2>1 DEF Aligned
<1>6. History' /\ Named' /\ Removed' /\ Unread'
  BY <1>1 DEF Inv, History, Named, Removed, Unread
<1>7. Fresh'
  BY <1>1, <1>3 DEF Fresh
<1> QED BY <1>4, <1>5, <1>6, <1>7 DEF Inv

\* And a save, which leaves nothing edited and nothing unchecked.
LEMMA InvSave == Inv /\ save => Inv'
<1> SUFFICES ASSUME Inv, save PROVE Inv'
  OBVIOUS
<1>1. /\ saved' = text /\ edited' = {} /\ unchecked' = <<>>
      /\ text' = text /\ model' = model /\ frame' = frame
      /\ done' = done /\ undone' = undone /\ edits' = edits /\ opened' = opened /\ touched' = touched
  BY DEF save
<1>2. ChunkOK(text, opened, touched, FileIds + edits)
  BY DEF Inv, Kept
<1>3. Kept'
  <2>1. MarksOK(<<>>)
    BY DEF MarksOK
  <2> QED BY <1>1, <1>2, <2>1 DEF Inv, Kept
<1>4. Aligned' /\ History' /\ Removed'
  BY <1>1 DEF Inv, Aligned, History, Removed
<1>5. Named'
  BY <1>1 DEF Named, NamedIn
<1>6. \A f, g \in Range(text) : f.id = g.id => f = g
  BY <1>2, SameEntry DEF ChunkOK
<1>7. Unread'
  <2>1. ASSUME NEW f \in Range(text), NEW g \in Range(text) PROVE MarkedAs(f, g, <<>>)
    BY <1>6 DEF MarkedAs
  <2>2. ASSUME NEW f \in Range(text), NEW i \in DOMAIN done, Takes(done[i])
        PROVE  MarkedAs(f, done[i].before[done[i].at], <<>>)
    <3>1. f.id # done[i].id
      BY <2>2 DEF Inv, Removed, RemovedIn
    <3>2. done[i].before[done[i].at].id = done[i].id
      BY <2>2 DEF Inv, History, HistoryOf, StepOK, OneMore, Takes
    <3> QED BY <3>1, <3>2 DEF MarkedAs
  <2> QED BY <1>1, <2>1, <2>2 DEF Unread, UnreadIn
<1>8. Fresh'
  BY <1>1, <1>6 DEF Inv, Fresh, FreshIn
<1> QED BY <1>3, <1>4, <1>5, <1>7, <1>8 DEF Inv

-----------------------------------------------------------------------------
(***************************************************************************)
(* The edits.                                                              *)
(***************************************************************************)
LEMMA InvFacts ==
    ASSUME Inv
    PROVE  /\ edits \in Nat /\ FileIds + edits \in Int /\ FileIds + (edits + 1) \in Int /\ FileIds + edits <= FileIds + (edits + 1)
           /\ IsOpened(opened)
           /\ ChunkOK(text, opened, touched, FileIds + edits) /\ IsChunk(text)
           /\ ChunkOK(saved, opened, touched, FileIds + edits) /\ IsChunk(saved)
           /\ MarksOK(unchecked)
           /\ AlignedTo(text, model, opened, touched, FileIds + edits)
           /\ IsSeq(model) /\ Len(model) = Len(text) /\ Len(model) \in Nat
           /\ DOMAIN model = 1 .. Len(model) /\ DOMAIN text = 1 .. Len(model)
           /\ \A k \in DOMAIN model :
                  /\ Beside(text[k], model[k], opened, touched, FileIds + edits)
                  /\ NodeOK(model[k], opened, touched, FileIds + edits)
                  /\ IsNode(model[k])
                  /\ text[k].id = model[k].id /\ text[k].name = model[k].name /\ text[k].uuid = model[k].uuid
                  /\ entryKey(text[k]) = entryKey(model[k])
<1>1. /\ edits \in 0 .. MaxEdits /\ opened \in Documents
      /\ ChunkOK(text, opened, touched, FileIds + edits)
      /\ ChunkOK(saved, opened, touched, FileIds + edits)
      /\ MarksOK(unchecked)
      /\ AlignedTo(text, model, opened, touched, FileIds + edits)
  BY DEF Inv, Kept, Aligned
<1>2. edits \in Nat /\ FileIds + edits \in Int /\ FileIds + (edits + 1) \in Int /\ FileIds + edits <= FileIds + (edits + 1)
  BY <1>1, BinaryDictionaryAssumption
<1>3. IsChunk(text) /\ IsChunk(saved)
  BY <1>1 DEF ChunkOK
<1>4. IsOpened(opened)
  BY <1>1, OpenedIs
<1>5. \A k \in DOMAIN model : Beside(text[k], model[k], opened, touched, FileIds + edits)
                                => NodeOK(model[k], opened, touched, FileIds + edits)
  BY DEF Beside
<1> QED BY <1>1, <1>2, <1>3, <1>4, <1>5, AlignedIs

\* An edit of an entry keeps the invariant, whatever it makes of the node that is as it should be.
LEMMA InvCell ==
    ASSUME Inv, NEW k \in DOMAIN model, NEW was, was = model[k], NEW node, NEW parts,
           CellEdit(k, node, parts),
           NodeOK(node, opened, touched \union parts, FileIds + (edits + 1)),
           node.id = was.id, node.uuid = was.uuid, node.source = was.source,
           node.name = was.name \/ \A i \in DOMAIN model : model[i].name # node.name,
           node.status \notin {"Modified", "New"} => node.name \in NewNames
    PROVE  Inv'
<1>1. PICK t2 : t2 = spliceEntryObject(text, node, was)
  OBVIOUS
<1>2. PICK s : s = EditOf(k, was, node, text, t2)
  OBVIOUS
<1>3. PICK m2 : m2 = With(model, k, node)
  OBVIOUS
<1>4. PICK marks2 : marks2 = markUnchecked(unchecked, s.group)
  OBVIOUS
<1>5. PICK tch2 : tch2 = touched \union parts
  OBVIOUS
<1>6. Push(s, t2, m2) /\ touched' = tch2
  BY <1>1, <1>2, <1>3, <1>5 DEF CellEdit, With, EditOf
<1>7. touched \subseteq tch2 /\ NodeOK(node, opened, tch2, FileIds + (edits + 1))
  BY <1>5
<1>8. /\ IsOpened(opened) /\ ChunkOK(text, opened, touched, FileIds + edits)
      /\ ChunkOK(saved, opened, touched, FileIds + edits) /\ MarksOK(unchecked)
      /\ AlignedTo(text, model, opened, touched, FileIds + edits)
      /\ FileIds + edits \in Int /\ FileIds + (edits + 1) \in Int /\ FileIds + edits <= FileIds + (edits + 1)
  BY InvFacts
<1>9. /\ k \in DOMAIN model /\ was = model[k]
      /\ node.id = was.id /\ node.uuid = was.uuid /\ node.source = was.source
      /\ node.name = was.name \/ \A i \in DOMAIN model : model[i].name # node.name
      /\ node.status \notin {"Modified", "New"} => node.name \in NewNames
  OBVIOUS
<1>10. /\ ChunkOK(t2, opened, tch2, FileIds + (edits + 1))
       /\ AlignedTo(t2, m2, opened, tch2, FileIds + (edits + 1))
       /\ StepOK(s, opened, tch2, FileIds + (edits + 1))
       /\ StaysFresh(text, model, t2, m2, opened, touched, FileIds + edits, s)
  <2>1. PICK top : top = FileIds + edits
    OBVIOUS
  <2>2. PICK top2 : top2 = FileIds + (edits + 1)
    OBVIOUS
  <2>3. PICK t : t = text
    OBVIOUS
  <2>4. PICK m : m = model
    OBVIOUS
  <2>5. /\ IsOpened(opened) /\ ChunkOK(t, opened, touched, top) /\ AlignedTo(t, m, opened, touched, top)
        /\ top \in Int /\ top2 \in Int /\ top <= top2 /\ NodeOK(node, opened, tch2, top2)
        /\ touched \subseteq tch2
    BY <1>7, <1>8, <2>1, <2>2, <2>3, <2>4
  <2>6. /\ k \in DOMAIN m /\ was = m[k]
        /\ node.id = was.id /\ node.uuid = was.uuid /\ node.source = was.source
        /\ node.name = was.name \/ \A i \in DOMAIN m : m[i].name # node.name
        /\ node.status \notin {"Modified", "New"} => node.name \in NewNames
    BY <1>9, <2>4
  <2>7. t2 = spliceEntryObject(t, node, was) /\ s = EditOf(k, was, node, t, t2) /\ m2 = With(m, k, node)
    BY <1>1, <1>2, <1>3, <2>3, <2>4
  <2>8. /\ ChunkOK(t2, opened, tch2, top2)
        /\ AlignedTo(t2, m2, opened, tch2, top2)
        /\ StepOK(s, opened, tch2, top2)
        /\ StaysFresh(t, m, t2, m2, opened, touched, top, s)
    BY ONLY <2>5, <2>6, <2>7, EditIs
  <2> QED BY <2>1, <2>2, <2>3, <2>4, <2>8
<1>11. FreshIn(text, model, saved, unchecked, undone, opened) => FreshIn(t2, m2, saved, marks2, <<>>, opened)
  BY <1>4, <1>8, <1>10 DEF StaysFresh
<1>12. s.before = text /\ s.after = t2
  BY <1>2 DEF EditOf, Step
<1>13. Inv
  OBVIOUS
<1> QED BY ONLY <1>4, <1>6, <1>7, <1>10, <1>11, <1>12, <1>13, InvPush

\* Each edit of an entry is one such.
LEMMA InvSetValue == Inv /\ setValue => Inv'
<1> SUFFICES ASSUME Inv, NEW k \in DOMAIN model, NEW i \in DOMAIN model[k].elements,
                    NEW key \in ReadKeys, NEW v \in Values,
                    CellEdit(k, [Marked(model[k]) EXCEPT !.elements[i].vals[key] = v],
                             {<<model[k].id, model[k].elements[i].id, key>>})
             PROVE  Inv'
  BY DEF setValue
<1>1. PICK was : was = model[k]
  OBVIOUS
<1>2. PICK node : node = SetIn(was, i, key, v)
  OBVIOUS
<1>3. PICK parts : parts = {<<was.id, was.elements[i].id, key>>}
  OBVIOUS
<1>4. CellEdit(k, node, parts)
  BY <1>1, <1>2, <1>3 DEF SetIn, RemovedFrom, AddedTo
<1>5. /\ NodeOK(was, opened, touched, FileIds + edits)
      /\ FileIds + edits \in Int /\ FileIds + (edits + 1) \in Int /\ FileIds + edits <= FileIds + (edits + 1)
      /\ i \in DOMAIN was.elements /\ key \in ReadKeys
  BY <1>1, InvFacts
<1>6. PICK tch2 : tch2 = touched \union {<<was.id, was.elements[i].id, key>>}
  OBVIOUS
<1>7. /\ NodeOK(node, opened, tch2, FileIds + (edits + 1))
      /\ node.id = was.id /\ node.name = was.name /\ node.uuid = was.uuid /\ node.source = was.source
      /\ node.status \in {"Modified", "New"}
  BY ONLY <1>2, <1>5, <1>6, SetNode
<1>8. NodeOK(node, opened, touched \union parts, FileIds + (edits + 1))
  BY <1>3, <1>6, <1>7
<1> QED BY <1>1, <1>4, <1>7, <1>8, InvCell

\* So is an element taken out,
LEMMA InvRemoveElement == Inv /\ removeElement => Inv'
<1> SUFFICES ASSUME Inv, NEW k \in DOMAIN model, NEW i \in DOMAIN model[k].elements, model[k].array,
                    CellEdit(k, [Marked(model[k]) EXCEPT !.elements = RemoveAt(@, i)],
                             {<<model[k].id, model[k].elements[i].id>>})
             PROVE  Inv'
  BY DEF removeElement
<1>1. PICK was : was = model[k]
  OBVIOUS
<1>2. PICK node : node = RemovedFrom(was, i)
  OBVIOUS
<1>3. PICK parts : parts = {<<was.id, was.elements[i].id>>}
  OBVIOUS
<1>4. CellEdit(k, node, parts)
  BY <1>1, <1>2, <1>3 DEF SetIn, RemovedFrom, AddedTo
<1>5. /\ NodeOK(was, opened, touched, FileIds + edits)
      /\ FileIds + edits \in Int /\ FileIds + (edits + 1) \in Int /\ FileIds + edits <= FileIds + (edits + 1)
      /\ i \in DOMAIN was.elements /\ was.array
  BY <1>1, InvFacts
<1>6. PICK tch2 : tch2 = touched \union {<<was.id, was.elements[i].id>>}
  OBVIOUS
<1>7. /\ NodeOK(node, opened, tch2, FileIds + (edits + 1))
      /\ node.id = was.id /\ node.name = was.name /\ node.uuid = was.uuid /\ node.source = was.source
      /\ node.status \in {"Modified", "New"}
  BY ONLY <1>2, <1>5, <1>6, RemoveNode
<1>8. NodeOK(node, opened, touched \union parts, FileIds + (edits + 1))
  BY <1>3, <1>6, <1>7
<1> QED BY <1>1, <1>4, <1>7, <1>8, InvCell

\* one added,
LEMMA InvAddElement == Inv /\ addElement => Inv'
<1> DEFINE e == [id |-> FileIds + 1 + edits, origin |-> None, vals |-> [key \in ReadKeys |-> "v0"]]
<1> SUFFICES ASSUME Inv, NEW k \in DOMAIN model, model[k].array,
                    CellEdit(k, [Marked(model[k]) EXCEPT !.elements = Append(@, e)], {<<model[k].id>>})
             PROVE  Inv'
  BY DEF addElement
<1>0. PICK x : x = e
  OBVIOUS
<1>1. PICK was : was = model[k]
  OBVIOUS
<1>2. PICK node : node = AddedTo(was, x)
  OBVIOUS
<1>3. PICK parts : parts = {<<was.id>>}
  OBVIOUS
<1>4. CellEdit(k, node, parts)
  BY <1>0, <1>1, <1>2, <1>3 DEF AddedTo
<1>5. /\ NodeOK(was, opened, touched, FileIds + edits)
      /\ FileIds + edits \in Int /\ FileIds + (edits + 1) \in Int /\ FileIds + edits <= FileIds + (edits + 1)
      /\ was.array /\ IsNodeElement(x) /\ x.origin = None
  <2>1. IsNodeElement(x) /\ x.origin = None
    BY <1>0 DEF IsNodeElement, IsRecord
  <2> QED BY <1>1, <2>1, InvFacts
<1>6. PICK tch2 : tch2 = touched \union {<<was.id>>}
  OBVIOUS
<1>7. /\ NodeOK(node, opened, tch2, FileIds + (edits + 1))
      /\ node.id = was.id /\ node.name = was.name /\ node.uuid = was.uuid /\ node.source = was.source
      /\ node.status \in {"Modified", "New"}
  BY ONLY <1>2, <1>5, <1>6, AddNode
<1>8. NodeOK(node, opened, touched \union parts, FileIds + (edits + 1))
  BY <1>3, <1>6, <1>7
<1> QED BY <1>1, <1>4, <1>7, <1>8, InvCell

\* and a rename.
LEMMA InvRename == Inv /\ renameEntry => Inv'
<1> SUFFICES ASSUME Inv, NEW k \in DOMAIN model, NEW name \in NewNames, NEW marked \in BOOLEAN,
                    name \notin {model[j].name : j \in DOMAIN model},
                    CellEdit(k, [IF marked THEN Marked(model[k]) ELSE model[k] EXCEPT !.name = name], {})
             PROVE  Inv'
  BY DEF renameEntry
<1>1. PICK was : was = model[k]
  OBVIOUS
<1>2. PICK node : node = Renamed(was, name, marked)
  OBVIOUS
<1>3. CellEdit(k, node, {})
  BY <1>1, <1>2 DEF Renamed
<1>4. /\ NodeOK(was, opened, touched, FileIds + edits)
      /\ FileIds + edits \in Int /\ FileIds + (edits + 1) \in Int /\ FileIds + edits <= FileIds + (edits + 1)
      /\ marked \in BOOLEAN
  BY <1>1, InvFacts
<1>5. /\ NodeOK(node, opened, touched, FileIds + (edits + 1))
      /\ node.id = was.id /\ node.name = name /\ node.uuid = was.uuid /\ node.source = was.source
  BY ONLY <1>2, <1>4, RenameNode
<1>6. NodeOK(node, opened, touched \union {}, FileIds + (edits + 1))
  BY <1>5
<1>7. /\ \A i \in DOMAIN model : model[i].name # node.name
      /\ node.name \in NewNames
  BY <1>5
<1> QED BY <1>1, <1>3, <1>5, <1>6, <1>7, InvCell

\* An entry taken out of chunk and tree.
LEMMA InvDelete == Inv /\ deleteEntryXml => Inv'
<1> SUFFICES ASSUME Inv, NEW k \in DOMAIN model,
                    LET at == EntryAt(text, model[k])
                        newText == IF at = 0 THEN text ELSE RemoveAt(text, at)
                    IN  Push(Step("remove", model[k], k, model[k].source, text, newText, {entryKey(model[k])}, {}),
                             newText, RemoveAt(model, k)) /\ UNCHANGED touched
             PROVE  Inv'
  BY DEF deleteEntryXml
<1>1. /\ FileIds + edits \in Int /\ FileIds + (edits + 1) \in Int /\ FileIds + edits <= FileIds + (edits + 1) /\ IsOpened(opened)
      /\ ChunkOK(text, opened, touched, FileIds + edits) /\ IsChunk(text) /\ MarksOK(unchecked)
      /\ AlignedTo(text, model, opened, touched, FileIds + edits)
      /\ k \in DOMAIN text /\ k \in 1 .. Len(model)
      /\ NodeOK(model[k], opened, touched, FileIds + edits)
      /\ text[k].id = model[k].id /\ text[k].name = model[k].name /\ text[k].uuid = model[k].uuid
      /\ entryKey(text[k]) = entryKey(model[k])
  BY InvFacts
<1>2. EntryAt(text, model[k]) = k /\ k # 0
  BY <1>1, FindsEntry
<1>3. PICK t2 : t2 = RemoveAt(text, k)
  OBVIOUS
<1>4. PICK m2 : m2 = RemoveAt(model, k)
  OBVIOUS
<1>5. PICK s : s = Step("remove", model[k], k, model[k].source, text, t2, {entryKey(model[k])}, {})
  OBVIOUS
<1>6. Push(s, t2, m2) /\ touched' = touched
  BY <1>2, <1>3, <1>4, <1>5
<1>7. /\ s.kind = "remove" /\ s.id = model[k].id /\ s.at = k /\ s.place = model[k].source
      /\ s.before = text /\ s.after = t2 /\ s.keys = {entryKey(model[k])} /\ s.group = {}
  BY <1>5 DEF Step
<1>8. /\ IsChunk(t2)
      /\ \A f \in Range(t2) : f \in Range(text) /\ f.id # text[k].id
  BY <1>1, <1>3, ChunkCut
<1>9. ChunkOK(t2, opened, touched, FileIds + edits)
  <2>1. \A f \in Range(text) : Descends(f, opened, touched, FileIds + edits)
    BY <1>1 DEF ChunkOK, Range
  <2> QED BY <1>8, <2>1 DEF ChunkOK, Range
<1>10. /\ ChunkOK(t2, opened, touched, FileIds + (edits + 1))
       /\ ChunkOK(text, opened, touched, FileIds + (edits + 1))
  BY <1>1, <1>9, ChunkMore
<1>11. /\ AlignedTo(t2, m2, opened, touched, FileIds + (edits + 1))
       /\ \A i \in DOMAIN m2 : \E j \in DOMAIN model : m2[i] = model[j]
  <2>1. PICK top : top = FileIds + edits
    OBVIOUS
  <2>2. PICK top2 : top2 = FileIds + (edits + 1)
    OBVIOUS
  <2>3. PICK t : t = text
    OBVIOUS
  <2>4. PICK m : m = model
    OBVIOUS
  <2>5. /\ top \in Int /\ top2 \in Int /\ top <= top2 /\ touched \subseteq touched
        /\ IsChunk(t) /\ AlignedTo(t, m, opened, touched, top)
        /\ k \in DOMAIN m /\ t2 = RemoveAt(t, k) /\ m2 = RemoveAt(m, k)
    BY <1>1, <1>3, <1>4, <2>1, <2>2, <2>3, <2>4
  <2>6. /\ AlignedTo(t2, m2, opened, touched, top2)
        /\ \A i \in DOMAIN m2 : \E j \in DOMAIN m : m2[i] = m[j]
    BY ONLY <2>5, AlignedCut
  <2> QED BY <2>2, <2>4, <2>6
<1>12. StepOK(s, opened, touched, FileIds + (edits + 1))
  <2>1. OneMore(s.before, s.after, s.at, s.id)
    BY <1>1, <1>3, <1>7 DEF OneMore
  <2>2. entryKey(s.before[s.at]) \in s.keys
    BY <1>1, <1>7
  <2>3. s.id \in 1 .. FileIds => s.place.frame # None
    BY <1>1, <1>7 DEF NodeOK, HasSource
  <2> QED BY <1>7, <1>10, <2>1, <2>2, <2>3 DEF StepOK
<1>13. PICK marks2 : marks2 = markUnchecked(unchecked, s.group)
  OBVIOUS
<1>14. ASSUME FreshIn(text, model, saved, unchecked, undone, opened)
       PROVE  FreshIn(t2, m2, saved, marks2, <<>>, opened)
  <2>1. \A y : AliasesIn(unchecked, y) \subseteq AliasesIn(marks2, y)
    BY <1>1, <1>13, MarksAfter
  <2> QED BY <1>8, <1>11, <1>14, <2>1 DEF FreshIn
<1>15. s.before = text /\ s.after = t2 /\ touched \subseteq touched /\ Inv
  BY <1>7
<1> QED BY ONLY <1>6, <1>10, <1>11, <1>12, <1>13, <1>14, <1>15, InvPush

\* An entry added to both.
LEMMA InvAdd == Inv /\ addNewEntryXml => Inv'
<1> DEFINE Added(name) == [id |-> FileIds + 1 + edits, name |-> name,
                 uuid |-> FileIds + 1 + edits, mod |-> "edited",
                 status |-> "New", array |-> FALSE,
                 elements |-> <<[id |-> FileIds + 1 + edits, origin |-> None,
                                 vals |-> [key \in ReadKeys |-> "v0"]]>>,
                 source |-> NoSource]
<1> SUFFICES ASSUME Inv, NEW name \in NewNames, name \notin {model[j].name : j \in DOMAIN model},
                    LET newText == Append(text, entryObjectXml(Added(name)))
                    IN  Push(Step("insert", Added(name), Len(model) + 1, NoSource, text, newText,
                                  {entryKey(Added(name))}, uncheckableEntries(Added(name), Added(name))),
                             newText, Append(model, Added(name))) /\ UNCHANGED touched
             PROVE  Inv'
  BY DEF addNewEntryXml
<1>1. /\ edits \in Nat /\ FileIds + edits \in Int /\ FileIds + (edits + 1) \in Int /\ FileIds + edits <= FileIds + (edits + 1)
      /\ IsOpened(opened)
      /\ ChunkOK(text, opened, touched, FileIds + edits) /\ IsChunk(text) /\ MarksOK(unchecked)
      /\ ChunkOK(saved, opened, touched, FileIds + edits)
      /\ AlignedTo(text, model, opened, touched, FileIds + edits)
      /\ IsSeq(model) /\ IsSeq(text) /\ Len(model) = Len(text) /\ Len(model) \in Nat
      /\ DOMAIN model = 1 .. Len(model) /\ DOMAIN text = 1 .. Len(model)
      /\ \A k \in DOMAIN model : text[k].name = model[k].name
  BY InvFacts, ChunkSeq
<1>2. PICK top : top = FileIds + (edits + 1)
  OBVIOUS
<1>3. PICK node : node = Added(name)
  OBVIOUS
<1>4. top = FileIds + 1 + edits /\ top \in Int /\ FileIds < top
  BY <1>1, <1>2, FileIdsNat
<1>5. node = [id |-> top, name |-> name, uuid |-> top, mod |-> "edited",
                 status |-> "New", array |-> FALSE,
                 elements |-> <<[id |-> top, origin |-> None,
                                 vals |-> [key \in ReadKeys |-> "v0"]]>>,
                 source |-> NoSource]
  BY <1>3, <1>4
<1>6. NodeOK(node, opened, touched, top) /\ ~HasSource(node)
  BY <1>4, <1>5, NewNode
<1>7. node.id = top /\ node.name = name /\ node.uuid = top
  BY <1>5
<1>8. PICK e : e = entryObjectXml(node)
  OBVIOUS
<1>9. PICK t2 : t2 = Append(text, e)
  OBVIOUS
<1>10. PICK m2 : m2 = Append(model, node)
  OBVIOUS
<1>11. PICK s : s = Step("insert", node, Len(model) + 1, NoSource, text, t2, {entryKey(node)},
                         uncheckableEntries(node, node))
  OBVIOUS
<1>12. Push(s, t2, m2) /\ touched' = touched
  BY <1>3, <1>8, <1>9, <1>10, <1>11
<1> HIDE DEF Added
<1>13. /\ s.kind = "insert" /\ s.id = top /\ s.at = Len(model) + 1 /\ s.place = NoSource
       /\ s.before = text /\ s.after = t2 /\ s.keys = {entryKey(node)}
  BY <1>7, <1>11 DEF Step
<1>14. /\ ReadsAsNode(e, node) /\ Descends(e, opened, touched, top)
  BY <1>1, <1>6, <1>8, EntryIs
<1>15. /\ IsFragment(e) /\ e.id = top /\ e.name = name /\ e.uuid = top
       /\ entryKey(e) = entryKey(node)
  BY <1>7, <1>14 DEF ReadsAsNode, entryKey
<1>16. /\ e.uuid # None
       /\ \A i \in DOMAIN text : text[i].id # e.id /\ text[i].uuid # e.uuid /\ text[i].name # e.name
  <2>0. None \notin Nat /\ e.uuid \in Nat
    BY <1>1, <1>2, <1>15, FileIdsNat, BinaryDictionaryAssumption
  <2>1. \A i \in DOMAIN text : /\ text[i].id \in 1 .. FileIds + edits
                              /\ text[i].uuid \in 1 .. FileIds + edits \union {None}
    BY <1>1 DEF ChunkOK, Descends
  <2>2. \A i \in DOMAIN text : text[i].name # name
    BY <1>1
  <2>3. top \notin 1 .. FileIds + edits
    <3>1. edits \in Nat
      BY <1>1
    <3> QED BY ONLY <3>1, <1>2, FileIdsNat, SMT
  <2>4. top # None
    BY ONLY <1>15, <2>0, Zenon
  <2>5. ASSUME NEW i \in DOMAIN text PROVE text[i].id # top /\ text[i].uuid # top
    BY ONLY <2>1, <2>3, <2>4, <2>5, Zenon
  <2> QED BY <1>15, <2>2, <2>4, <2>5, Zenon
<1>17. /\ IsChunk(t2) /\ Len(t2) = Len(text) + 1 /\ DOMAIN t2 = 1 .. Len(text) + 1
       /\ \A i \in 1 .. Len(text) : t2[i] = text[i]
       /\ t2[Len(text) + 1] = e
  <2>1. PICK c : c = text
    OBVIOUS
  <2>2. Newcomer(c, e) /\ t2 = Append(c, e)
    BY <1>1, <1>9, <1>15, <1>16, <2>1 DEF Newcomer
  <2>3. IsChunk(t2) /\ Longer(t2, c, e)
    BY ONLY <2>2, ChunkAdd
  <2> QED BY <2>1, <2>3 DEF Longer
<1>18. ChunkOK(t2, opened, touched, top) /\ ChunkOK(text, opened, touched, top)
  <2>1. ChunkOK(text, opened, touched, top)
    BY <1>1, <1>2, ChunkMore
  <2>2. \A i \in DOMAIN t2 : i \in DOMAIN text \/ i = Len(text) + 1
    BY <1>1, <1>17
  <2>3. \A i \in DOMAIN t2 : Descends(t2[i], opened, touched, top)
    BY <1>1, <1>14, <1>17, <2>1, <2>2 DEF ChunkOK
  <2> QED BY <1>17, <2>1, <2>3 DEF ChunkOK
<1>19. PICK at : at = Len(text) + 1
  OBVIOUS
<1>20. at \in DOMAIN t2 /\ t2[at] = e /\ text = RemoveAt(t2, at) /\ m2 = InsertAt(model, at, node)
  <2>1. at \in DOMAIN t2 /\ t2[at] = e
    BY <1>1, <1>17, <1>19
  <2>2. PICK m : m = model
    OBVIOUS
  <2>3. PICK t : t = text
    OBVIOUS
  <2>4. RemoveAt(Append(t, e), Len(t) + 1) = t
    BY <1>1, <2>3, AppendInserts
  <2>5. InsertAt(m, Len(m) + 1, node) = Append(m, node)
    BY <1>1, <2>2, AppendInserts
  <2>6. text = RemoveAt(t2, at)
    BY <1>9, <1>19, <2>3, <2>4
  <2>7. m2 = InsertAt(model, at, node)
    BY <1>1, <1>10, <1>19, <2>2, <2>5
  <2> QED BY <2>1, <2>6, <2>7
<1>21. AlignedTo(t2, m2, opened, touched, top)
  <2>1. Beside(t2[at], node, opened, touched, top)
    BY <1>6, <1>8, <1>14, <1>20 DEF Beside
  <2>2. touched \subseteq touched /\ FileIds + edits <= top
    BY <1>1, <1>2
  <2> QED BY ONLY <1>1, <1>4, <1>17, <1>20, <2>1, <2>2, AlignedPut
<1>22. StepOK(s, opened, touched, top)
  <2>1. s.at = at
    BY <1>1, <1>13, <1>19
  <2>2. OneMore(s.after, s.before, s.at, s.id)
    BY <1>13, <1>15, <1>20, <2>1 DEF OneMore
  <2>3. s.at = Len(s.after) /\ entryKey(s.after[s.at]) \in s.keys
    BY <1>13, <1>15, <1>17, <1>19, <1>20, <2>1
  <2>4. s.id \notin 1 .. FileIds /\ s.place.frame = None
    BY <1>4, <1>13, FileIdsNat DEF NoSource
  <2> QED BY <1>13, <1>18, <2>2, <2>3, <2>4 DEF StepOK
<1>23. PICK marks2 : marks2 = markUnchecked(unchecked, s.group)
  OBVIOUS
<1>24. ASSUME FreshIn(text, model, saved, unchecked, undone, opened)
       PROVE  FreshIn(t2, m2, saved, marks2, <<>>, opened)
  <2>1. \A y : AliasesIn(unchecked, y) \subseteq AliasesIn(marks2, y)
    BY <1>1, <1>23, MarksAfter
  <2>2. \A i \in DOMAIN m2 : (i \in DOMAIN model /\ m2[i] = model[i]) \/ m2[i] = node
    <3>1. /\ DOMAIN m2 = 1 .. Len(model) + 1
          /\ \A i \in 1 .. Len(model) : m2[i] = model[i]
          /\ m2[Len(model) + 1] = node
      BY <1>1, <1>10, AppendIs
    <3>2. \A i \in 1 .. Len(model) + 1 : i \in 1 .. Len(model) \/ i = Len(model) + 1
      BY <1>1
    <3> QED BY <1>1, <3>1, <3>2
  <2>3. ASSUME NEW f \in Range(saved), NEW g \in Range(t2), f.id = g.id, ~f.scans, f # g
        PROVE  g \in Range(text)
    <3>1. f.id \in 1 .. FileIds
      BY <1>1, <2>3 DEF ChunkOK, Descends, IsOpened, Range
    <3>2. PICK i \in DOMAIN t2 : g = t2[i]
      BY DEF Range
    <3>3. i \in DOMAIN text
      BY <1>1, FileIdsNat, <1>4, <1>15, <1>17, <2>3, <3>1, <3>2
    <3> QED BY <1>1, <1>17, <3>2, <3>3 DEF Range
  <2> QED BY <1>6, <1>24, <2>1, <2>2, <2>3 DEF FreshIn
<1>25. s.before = text /\ s.after = t2 /\ touched \subseteq touched /\ Inv
  BY <1>13
<1>26. /\ ChunkOK(t2, opened, touched, FileIds + (edits + 1))
       /\ AlignedTo(t2, m2, opened, touched, FileIds + (edits + 1))
       /\ StepOK(s, opened, touched, FileIds + (edits + 1))
  BY <1>2, <1>18, <1>21, <1>22
<1> QED BY ONLY <1>12, <1>23, <1>24, <1>25, <1>26, InvPush

-----------------------------------------------------------------------------
\* The invariant holds of every behaviour.
LEMMA InvHolds == Spec => []Inv
<1>1. Inv /\ UNCHANGED vars => Inv'
  BY DEF Inv, Kept, Aligned, History, Named, Removed, Unread, Fresh, vars, hostVars
<1>2. Inv /\ [Next]_vars => Inv'
  BY <1>1, InvSetValue, InvRemoveElement, InvAddElement, InvRename, InvDelete, InvAdd,
     InvUndo, InvRedo, InvRead, InvSave DEF Next
<1> QED BY <1>2, InvInit, PTL DEF Spec

-----------------------------------------------------------------------------
(***************************************************************************)
(* The properties.                                                         *)
(***************************************************************************)
\* What the state of the host and of the entries is made of.
LEMMA InvType == Inv => TypeOK
<1> SUFFICES ASSUME Inv PROVE TypeOK
  OBVIOUS
<1>1. /\ edits \in 0 .. MaxEdits /\ frame.n \in 0 .. MaxReads /\ IsChunk(text) /\ MarksOK(unchecked)
      /\ \A k \in DOMAIN model : NodeOK(model[k], opened, touched, FileIds + edits)
  BY InvFacts DEF Inv, Kept
<1>2. \A f \in Range(text) : \A e \in Range(f.elements) : e.origin = None
  <2>1. \A f \in Range(text) : IsFragment(f)
    BY <1>1 DEF IsChunk, Range
  <2> QED BY <2>1 DEF IsFragment, IsElement, Range
<1>3. \A n \in Range(model) : n.status \in {"read", "Modified", "New"}
  BY <1>1 DEF NodeOK, Range
<1>4. DOMAIN unchecked = UNION {unchecked[k] : k \in DOMAIN unchecked}
  BY <1>1 DEF MarksOK
<1> QED BY <1>1, <1>2, <1>3, <1>4 DEF TypeOK

\* A fragment read again shows what the node it is read as shows.
LEMMA ShownAlike ==
    ASSUME NEW f, NEW n, ReadsAsNode(f, n), IsNode(n)
    PROVE  Shown(readEntryFragment(f)) = Shown(n)
<1> DEFINE r == readEntryFragment(f)
<1>1. /\ DOMAIN f.elements = 1 .. Len(n.elements) /\ DOMAIN n.elements = 1 .. Len(n.elements)
      /\ \A i \in 1 .. Len(n.elements) : ReadsAs(f.elements[i], n.elements[i])
      /\ f.id = n.id /\ f.name = n.name /\ f.uuid = n.uuid
  BY DEF ReadsAsNode, IsFragment, IsRecord, IsNode
<1>2. /\ r.id = n.id /\ r.name = n.name /\ r.uuid = n.uuid
      /\ DOMAIN r.elements = DOMAIN n.elements
      /\ \A i \in DOMAIN n.elements : \E x : r.elements[i] = ReadElement(f.elements[i], x)
  BY <1>1 DEF readEntryFragment
<1>3. \A i \in DOMAIN n.elements : r.elements[i].vals = n.elements[i].vals
  BY SMTT(30), <1>1, <1>2 DEF ReadsAs
<1> HIDE DEF r
<1>4. [i \in DOMAIN r.elements |-> r.elements[i].vals] = [i \in DOMAIN n.elements |-> n.elements[i].vals]
  BY <1>2, <1>3
<1>5. Shown(r) = Shown(n)
  BY ONLY <1>2, <1>4 DEF Shown
<1> QED BY <1>5 DEF r

\* Entry by entry the chunk reads as the tree.
LEMMA InvTextIsModel == Inv => TextIsModel
<1> SUFFICES ASSUME Inv PROVE TextIsModel
  OBVIOUS
<1>1. /\ DOMAIN text = DOMAIN model
      /\ \A k \in DOMAIN model : ReadsAsNode(text[k], model[k]) /\ IsNode(model[k])
  BY InvFacts DEF Beside
<1>2. \A k \in DOMAIN model : Shown(readEntryFragment(text[k])) = Shown(model[k])
  BY <1>1, ShownAlike
<1> QED BY <1>1, <1>2 DEF TextIsModel

\* Each entry of the chunk keeps what it owes to the one opened.
LEMMA InvUntouchedKept == Inv => UntouchedKept
<1> SUFFICES ASSUME Inv, NEW f \in Range(text), NEW o \in Range(opened), f.id = o.id, o.scans
             PROVE  /\ f.extra = o.extra
                    /\ \/ ~o.pairs /\ \E t \in touched : t[1] = o.id
                       \/ \A e \in {e \in Range(o.elements) : <<o.id, e.id>> \notin touched} :
                              \E g \in Range(f.elements) :
                                  /\ g.id = e.id
                                  /\ \A k \in DOMAIN e.parts : <<o.id, e.id, k>> \notin touched =>
                                         k \in DOMAIN g.parts /\ g.parts[k] = e.parts[k]
  BY DEF UntouchedKept
<1>1. Descends(f, opened, touched, FileIds + edits)
  <2>1. ChunkOK(text, opened, touched, FileIds + edits)
    BY InvFacts
  <2> QED BY <2>1 DEF ChunkOK, Range
<1>2. Keeps(f, o, touched)
  BY <1>1 DEF Descends
<1> QED BY <1>2 DEF Keeps, ElementKept

\* The key of an entry of the text is that of its node alone, and the saved chunk has it once.
LEMMA KeyOnce ==
    ASSUME NEW c, IsChunk(c), NEW i \in DOMAIN c
    PROVE  KeyedIn(c, entryKey(c[i])) = {i}
  BY DEF IsChunk, ToldApart, KeyedIn

\* Nothing of its key is before an entry of a chunk.
LEMMA FirstOfKey ==
    ASSUME NEW c, IsChunk(c), NEW i \in DOMAIN c, NEW key, key = entryKey(c[i])
    PROVE  Cardinality({j \in KeyedIn(c, key) : j < i}) = 0
<1>1. i \in Int
  BY ChunkSeq
<1>2. KeyedIn(c, key) = {i}
  BY KeyOnce
<1>3. {j \in KeyedIn(c, key) : j < i} = {}
  BY <1>1, <1>2
<1> QED BY <1>3, FS_EmptySet

\* An entry the file has as it is now is compared with itself.
LEMMA PriorIs ==
    ASSUME Inv, NEW i \in DOMAIN text
    PROVE  (\E j \in Priors(text, i) : saved[j] = text[i]) <=> text[i] \in Range(saved)
<1>1. IsChunk(text) /\ IsChunk(saved)
  BY InvFacts
<1>2. ASSUME NEW j \in DOMAIN saved, saved[j] = text[i]
      PROVE  j \in Priors(text, i)
  <2>1. PICK key : key = entryKey(text[i])
    OBVIOUS
  <2>2. key = entryKey(saved[j])
    BY <1>2, <2>1
  <2>3. Cardinality({l \in KeyedIn(text, key) : l < i}) = 0
    BY <1>1, <2>1, FirstOfKey
  <2>4. Cardinality({l \in KeyedIn(saved, key) : l < j}) = 0
    BY <1>1, <2>2, FirstOfKey
  <2>5. j \in KeyedIn(saved, key)
    BY <2>2 DEF KeyedIn
  <2> QED BY <2>1, <2>3, <2>4, <2>5 DEF Priors
<1>3. \A j \in Priors(text, i) : j \in DOMAIN saved
  BY DEF Priors, KeyedIn
<1> QED BY <1>2, <1>3 DEF Range

\* What the gate asks of an entry that is written by its node.
LEMMA WrittenPasses ==
    ASSUME NEW f, NEW n, NEW op, NEW tch, NEW top, Beside(f, n, op, tch, top)
    PROVE  ~keptPartsViolated(n, f)
<1>1. CASE ~HasSource(n)
  BY <1>1 DEF keptPartsViolated
<1>2. CASE HasSource(n) /\ uneditedBytes(n)
  BY <1>2 DEF keptPartsViolated, Beside, entryObjectXml
<1>3. CASE HasSource(n) /\ ~uneditedBytes(n) /\ ~n.source.fragment.scans
  BY <1>3 DEF keptPartsViolated
<1>4. CASE HasSource(n) /\ ~uneditedBytes(n) /\ n.source.fragment.scans
  <2>1. PICK s : s = n.source.fragment
    OBVIOUS
  <2>2. IsNode(n) /\ IsFragment(s) /\ ComesFrom(n, s)
    BY <1>4, <2>1 DEF Beside, NodeOK, SourceOK
  <2>3. mergedEntry(n)
    BY <1>4, <2>1, <2>2, MergeReadsAsModel
  <2>4. f = Merged(n)
    BY <1>4, <2>3 DEF Beside, entryObjectXml
  <2>5. PICK b : b = regenerateEntryXml(readEntryFragment(s))
    OBVIOUS
  <2>6. PICK c : c = regenerateEntryXml(n)
    OBVIOUS
  <2>7. f = mergeEntry(s, b, c) /\ b = baseOf(n.source)
    BY <2>1, <2>4, <2>5, <2>6 DEF Merged, baseOf
  <2>8. ~keptPartsOf(s, b, c, f)
    BY <2>2, <2>5, <2>6, <2>7, MergeLosesNothing
  <2> QED BY <1>4, <2>1, <2>6, <2>7, <2>8 DEF keptPartsViolated
<1> QED BY <1>1, <1>2, <1>3, <1>4

\* An entry of the chunk is refused as one that cannot be checked, or not at all.
LEMMA RefusesOnlyUncheckable ==
    ASSUME Inv, NEW i \in DOMAIN text
    PROVE  EntryRefusal(text, i) \subseteq {"cannotBeChecked"}
<1>1. PICK f : f = text[i]
  OBVIOUS
<1>2. PICK key : key = entryKey(f)
  OBVIOUS
<1>3. PICK nodes : nodes = {k \in DOMAIN model : entryKey(model[k]) = key /\ model[k].name = f.name}
  OBVIOUS
<1>4. /\ IsChunk(text) /\ DOMAIN model = DOMAIN text /\ i \in Int
      /\ \A k \in DOMAIN model : /\ Beside(text[k], model[k], opened, touched, FileIds + edits)
                                 /\ entryKey(text[k]) = entryKey(model[k])
                                 /\ text[k].name = model[k].name
  BY InvFacts
<1>5. nodes = {i}
  <2>1. \A k \in DOMAIN text : entryKey(text[k]) = key => k = i
    BY <1>1, <1>2, <1>4 DEF IsChunk, ToldApart
  <2> QED BY <1>1, <1>2, <1>3, <1>4, <2>1
<1>6. Cardinality(nodes) = 1 /\ Min(nodes) = i
  BY <1>4, <1>5, FS_Singleton, MinOfOne
<1>7. (\E j \in Priors(text, i) : saved[j] = f) \/ key \in edited
  <2>1. f \in Range(saved) \/ key \in edited
    BY <1>1, <1>2 DEF Inv, Named, NamedIn, Range
  <2> QED BY <1>1, <2>1, PriorIs
<1>8. ~keptPartsViolated(model[i], f)
  BY <1>1, <1>4, WrittenPasses
<1>9. EntryRefusal(text, i) =
        IF \E j \in Priors(text, i) : saved[j] = f THEN {}
        ELSE IF key \notin edited THEN {"notEdited"}
        ELSE IF Aliases(key) \intersect Keys(saved) # {} THEN {"cannotBeChecked"}
        ELSE IF Cardinality(nodes) # 1 THEN {"notInTheModel"}
        ELSE IF keptPartsViolated(model[Min(nodes)], f) THEN {"changesMore"}
        ELSE IF Priors(text, i) # {} /\ ~checkIsArmed(model[Min(nodes)]) THEN {"cannotBeChecked"}
        ELSE {}
  BY <1>1, <1>2, <1>3 DEF EntryRefusal
<1> QED BY <1>6, <1>7, <1>8, <1>9

\* And none that was in the file is missing but one that was edited.
LEMMA InvGateLets == Inv => GateLets
<1> SUFFICES ASSUME Inv PROVE GateLets
  OBVIOUS
<1>1. \A i \in DOMAIN text : EntryRefusal(text, i) \subseteq {"cannotBeChecked"}
  BY RefusesOnlyUncheckable
<1>2. ASSUME NEW key \in Keys(saved) \ edited
      PROVE  ~(Cardinality(KeyedIn(saved, key)) > Cardinality(KeyedIn(text, key)))
  <2>1. PICK j \in DOMAIN saved : entryKey(saved[j]) = key
    BY DEF Keys, Range
  <2>2. saved[j] \in Range(text)
    BY <1>2, <2>1 DEF Inv, Named, NamedIn, Range
  <2>3. PICK i \in DOMAIN text : text[i] = saved[j]
    BY <2>2 DEF Range
  <2>4. IsChunk(text) /\ IsChunk(saved)
    BY InvFacts
  <2>5. KeyedIn(saved, key) = {j} /\ KeyedIn(text, key) = {i}
    BY <2>1, <2>3, <2>4, KeyOnce
  <2>6. Cardinality(KeyedIn(saved, key)) = 1 /\ Cardinality(KeyedIn(text, key)) = 1
    BY <2>5, FS_Singleton
  <2> QED BY <2>6
<1>3. Dropped(text) = {}
  BY <1>2 DEF Dropped
<1> QED BY <1>1, <1>3 DEF GateLets, savedChunkRefusal

\* A step that saves, seen from the state it is taken in.
LEMMA SaveKeepsUnread ==
    ASSUME Inv, save, NEW f \in Range(saved), NEW g \in Range(saved'), f.id = g.id, ~f.scans,
           (f.uuid # None /\ f.name \notin NewNames) \/ (frame.n = 0 /\ Len(done) = edits)
    PROVE  g = f
<1>1. SUFFICES ASSUME g # f PROVE FALSE
  OBVIOUS
<1>2. g \in Range(text) /\ savedChunkRefusal(text) = {}
  BY DEF save
<1>3. PICK i \in DOMAIN text : g = text[i]
  BY <1>2 DEF Range
<1>4. PICK key : key = entryKey(g)
  OBVIOUS
<1>5. IsChunk(saved) /\ MarksOK(unchecked)
  BY InvFacts
<1>6. entryKey(f) \in Keys(saved)
  BY DEF Keys
<1>7. entryKey(f) \in Aliases(key)
  <2>1. CASE f.uuid # None /\ f.name \notin NewNames
    <3>1. /\ Descends(f, opened, touched, FileIds + edits)
          /\ Descends(g, opened, touched, FileIds + edits)
      <4>1. ChunkOK(saved, opened, touched, FileIds + edits) /\ ChunkOK(text, opened, touched, FileIds + edits)
        BY InvFacts
      <4> QED BY <1>3, <4>1 DEF ChunkOK, Range
    <3>2. g.uuid = f.uuid
      BY <3>1 DEF Descends
    <3>3. entryKey(f) = key
      BY <1>4, <2>1, <3>2 DEF entryKey
    <3>4. MarkedAs(f, g, unchecked)
      BY <1>2 DEF Inv, Unread, UnreadIn
    <3>5. entryKey(f) \in DOMAIN unchecked
      BY <1>1, <2>1, <3>4 DEF MarkedAs
    <3> QED BY <1>5, <3>3, <3>5 DEF MarksOK, Aliases
  <2>2. CASE frame.n = 0 /\ Len(done) = edits
    <3>1. FreshIn(text, model, saved, unchecked, undone, opened)
      BY <2>2 DEF Inv, Fresh
    <3>2. entryKey(f) \in AliasesIn(unchecked, entryKey(g))
      BY <1>1, <1>2, <3>1 DEF FreshIn
    <3> QED BY <1>4, <3>2 DEF AliasesIn, Aliases
  <2> QED BY <2>1, <2>2
<1>8. Aliases(key) \intersect Keys(saved) # {}
  BY <1>6, <1>7
<1>9. ~ \E j \in Priors(text, i) : saved[j] = g
  <2>1. g \notin Range(saved)
    BY <1>1, <1>5, SameEntry
  <2> QED BY <1>3, <2>1, PriorIs
<1>10. EntryRefusal(text, i) # {}
  <2>1. CASE key \notin edited
    <3>1. EntryRefusal(text, i) = {"notEdited"}
      BY <1>3, <1>4, <1>9, <2>1 DEF EntryRefusal
    <3> QED BY <3>1
  <2>2. CASE key \in edited
    <3>1. EntryRefusal(text, i) = {"cannotBeChecked"}
      BY <1>3, <1>4, <1>8, <1>9, <2>2 DEF EntryRefusal
    <3> QED BY <3>1
  <2> QED BY <2>1, <2>2
<1>11. EntryRefusal(text, i) \subseteq savedChunkRefusal(text)
  BY DEF savedChunkRefusal
<1> QED BY <1>2, <1>10, <1>11

\* No other step changes what is saved.
LEMMA OnlySaveSaves == Next /\ saved' # saved => save
<1>1. \A k, node, parts : CellEdit(k, node, parts) => saved' = saved
  BY DEF CellEdit, Push
<1>2. \A s, t, m : Push(s, t, m) => saved' = saved
  BY DEF Push
<1>3. \A s, kind, c : Replay(s, kind, c) => saved' = saved
  BY DEF Replay
<1>4. /\ setValue => saved' = saved
      /\ removeElement => saved' = saved
      /\ addElement => saved' = saved
      /\ renameEntry => saved' = saved
  BY ONLY <1>1 DEF setValue, removeElement, addElement, renameEntry
<1>5. deleteEntryXml \/ addNewEntryXml => saved' = saved
  BY ONLY <1>2 DEF deleteEntryXml, addNewEntryXml
<1>6. undo \/ redo => saved' = saved
  BY ONLY <1>3 DEF undo, redo
<1>7. readAgain => saved' = saved
  BY DEF readAgain
<1> QED BY <1>4, <1>5, <1>6, <1>7 DEF Next

-----------------------------------------------------------------------------
\* Every state of a session over a compressed-binary chunk has the types the code gives it.
THEOREM DictionaryTypeCorrect == Spec => []TypeOK
BY InvHolds, InvType, PTL

\* Read again, the chunk as edited shows what the tree shows, however each entry came to be written
\* (mergedEntry: "read again it must give the model's text").
THEOREM TextReadsAsTheModel == Spec => []TextIsModel
BY InvHolds, InvTextIsModel, PTL

\* Nothing the edits did not touch is respelt or lost, through edits, undo, redo and re-reads.
THEOREM UntouchedIsKept == Spec => []UntouchedKept
BY InvHolds, InvUntouchedKept, PTL

\* The gate refuses no chunk the host made, but for an entry whose edit it cannot check.
THEOREM GateLetsEdits == Spec => []GateLets
BY InvHolds, InvGateLets, PTL

\* And no save has an entry the check cannot read other than as the file has it, if its key has
\* stayed the same, or nothing has rebuilt its node.
THEOREM KeyedUncheckableKept == Spec => KeyedUncheckableStays
<1>1. Inv /\ [Next]_vars => [saved' # saved =>
             \A f \in Range(saved), g \in Range(saved') :
               /\ f.id = g.id
               /\ ~f.scans
               /\ \/ f.uuid # None /\ f.name \notin NewNames
                  \/ frame.n = 0 /\ Len(done) = edits
               => g = f]_vars
  <2> SUFFICES ASSUME Inv, Next, saved' # saved, NEW f \in Range(saved), NEW g \in Range(saved'),
                      f.id = g.id, ~f.scans,
                      (f.uuid # None /\ f.name \notin NewNames) \/ (frame.n = 0 /\ Len(done) = edits)
               PROVE  g = f
    OBVIOUS
  <2>1. save
    BY OnlySaveSaves
  <2> QED BY <2>1, SaveKeepsUnread
<1> QED BY <1>1, InvHolds, PTL DEF Spec, KeyedUncheckableStays

\* A set of numbers that is not empty has a least.
LEMMA MinOf ==
    ASSUME NEW S \in SUBSET Nat, S # {}
    PROVE  Min(S) \in S /\ \A x \in S : Min(S) <= x
<1> DEFINE R == {ss \in Nat \X Nat : ss[1] < ss[2]}
<1>1. IsWellFoundedOn(R, Nat)
  BY NatLessThanWellFounded DEF OpToRel
<1> HIDE DEF R
<1>2. PICK x \in S : \A y \in S : <<y, x>> \notin R
  BY <1>1, WFMin
<1>3. ASSUME NEW y \in S PROVE x <= y
  <2>1. y < x => <<y, x>> \in R
    BY DEF R
  <2>2. x \in Nat /\ y \in Nat
    OBVIOUS
  <2> QED BY <1>2, <2>1, <2>2
<1> QED BY <1>3 DEF Min

-----------------------------------------------------------------------------
(***************************************************************************)
(* A chunk built of the tree.                                              *)
(***************************************************************************)
\* In an order of the numbers up to n, by how many are before each, there is one of each rank.
Orders(R, D) ==
    /\ \A k \in D : <<k, k>> \notin R
    /\ \A k, l, m \in D : <<k, l>> \in R /\ <<l, m>> \in R => <<k, m>> \in R
    /\ \A k, l \in D : k # l => <<k, l>> \in R \/ <<l, k>> \in R

RankIn(R, D) == [k \in D |-> Cardinality({l \in D : <<l, k>> \in R})]

RanksAll(rank, n, D) ==
    /\ \A k \in D : rank[k] \in 0 .. n - 1
    /\ \A k, l \in D : rank[k] = rank[l] => k = l
    /\ \A i \in 0 .. n - 1 : \E k \in D : rank[k] = i

\* There is one of each rank, and no two of one.
LEMMA OneOfRank ==
    ASSUME NEW n \in Nat, NEW D, D = 1 .. n, NEW R, Orders(R, D), NEW rank, rank = RankIn(R, D)
    PROVE  RanksAll(rank, n, D)
<1>0. /\ \A k \in D : <<k, k>> \notin R
      /\ \A k, l, m \in D : <<k, l>> \in R /\ <<l, m>> \in R => <<k, m>> \in R
      /\ \A k, l \in D : k # l => <<k, l>> \in R \/ <<l, k>> \in R
      /\ rank = [k \in D |-> Cardinality({l \in D : <<l, k>> \in R})]
  BY DEF Orders, RankIn
<1> DEFINE Below(k) == {l \in D : <<l, k>> \in R}
<1>1. IsFiniteSet(D) /\ Cardinality(D) = n
  BY FS_Interval
<1>2. \A k \in D : Below(k) \in SUBSET (D \ {k})
  BY <1>0
<1>3. \A k \in D : IsFiniteSet(D \ {k}) /\ Cardinality(D \ {k}) = n - 1
  BY <1>1, FS_RemoveElement
<1>4. \A k \in D : rank[k] = Cardinality(Below(k))
  BY <1>0
<1> HIDE DEF Below
<1>5. \A k \in D : IsFiniteSet(Below(k)) /\ Cardinality(Below(k)) \in Nat /\ Cardinality(Below(k)) <= n - 1
  <2>1. TAKE k \in D
  <2>2. PICK E : E = D \ {k}
    OBVIOUS
  <2>3. IsFiniteSet(E) /\ Cardinality(E) = n - 1 /\ Below(k) \in SUBSET E
    BY <1>2, <1>3, <2>2
  <2>4. IsFiniteSet(Below(k)) /\ Cardinality(Below(k)) <= Cardinality(E)
    BY <2>3, FS_Subset
  <2> QED BY <2>3, <2>4, FS_CardinalityType
<1>6. \A k \in D : rank[k] \in 0 .. n - 1
  BY <1>4, <1>5
<1>7. ASSUME NEW k \in D, NEW l \in D, <<k, l>> \in R
      PROVE  rank[k] < rank[l]
  <2>1. k \notin Below(k) /\ Below(k) \union {k} \in SUBSET Below(l)
    BY <1>0, <1>7 DEF Below
  <2>2. Cardinality(Below(k) \union {k}) = Cardinality(Below(k)) + 1
    BY <1>5, <2>1, FS_AddElement
  <2>3. Cardinality(Below(k) \union {k}) <= Cardinality(Below(l))
    BY <1>5, <2>1, FS_Subset
  <2>4. PICK a \in Nat : a = Cardinality(Below(k))
    BY <1>5
  <2>5. PICK b \in Nat : b = Cardinality(Below(l))
    BY <1>5
  <2>6. a + 1 <= b
    BY <2>2, <2>3, <2>4, <2>5
  <2> QED BY <1>4, <2>4, <2>5, <2>6
<1>8. ASSUME NEW k \in D, NEW l \in D, rank[k] = rank[l]
      PROVE  k = l
  <2>1. rank[k] \in Int /\ ~(rank[k] < rank[l]) /\ ~(rank[l] < rank[k])
    BY <1>6, <1>8
  <2>2. <<k, l>> \notin R /\ <<l, k>> \notin R
    BY <1>7, <2>1
  <2> QED BY <1>0, <2>2
<1>9. rank \in Injection(D, 0 .. n - 1)
  <2>1. DOMAIN rank = D /\ rank = [k \in DOMAIN rank |-> rank[k]]
    BY <1>0
  <2>2. rank \in [D -> 0 .. n - 1]
    BY ONLY <1>6, <2>1
  <2> QED BY <1>8, <2>2 DEF Injection, IsInjective
<1>10. IsFiniteSet(0 .. n - 1) /\ Cardinality(0 .. n - 1) = n
  <2>1. 0 \in Int /\ n - 1 \in Int /\ (IF 0 > n - 1 THEN 0 ELSE (n - 1) - 0 + 1) = n
    OBVIOUS
  <2> QED BY <2>1, FS_Interval
<1>11. rank \in Surjection(D, 0 .. n - 1)
  BY <1>1, <1>9, <1>10, FS_Injection
<1>12. \A i \in 0 .. n - 1 : \E k \in D : rank[k] = i
  BY <1>11 DEF Surjection
<1> QED BY <1>6, <1>8, <1>12 DEF RanksAll

\* Where an entry is before another in a chunk that is built: those in their own places by the place,
\* and before those that have none.
PlacedIn(nodes, fr, i) == {k \in DOMAIN nodes : nodes[k].source.frame = fr.n /\ nodes[k].source.index = i}

FirstPlaced(nodes, fr) == {Min(PlacedIn(nodes, fr, i)) : i \in {i \in DOMAIN fr.chunk : PlacedIn(nodes, fr, i) # {}}}

Earlier(nodes, placed, k, l) ==
    IF k \in placed THEN l \in placed => nodes[k].source.index < nodes[l].source.index
    ELSE l \notin placed /\ k < l

\* What is built is each entry as it is written, in some order.
Arranges(built, nodes, order) ==
    /\ \A i \in DOMAIN nodes : order[i] \in DOMAIN nodes
    /\ \A k \in DOMAIN nodes : \E i \in DOMAIN nodes : order[i] = k
    /\ built = [i \in DOMAIN nodes |-> entryObjectXml(nodes[order[i]])]

\* A chunk that is built is the tree's entries in an order.
LEMMA BuiltIs ==
    ASSUME NEW nodes, IsSeq(nodes), NEW fr, IsChunk(fr.chunk), NEW built, built = buildDataChunkXml(nodes, fr)
    PROVE  \E order : Arranges(built, nodes, order)
<1>1. PICK n \in Nat : n = Len(nodes) /\ DOMAIN nodes = 1 .. n
  BY SeqFacts
<1>2. PICK D : D = 1 .. n
  OBVIOUS
<1>3. PICK placed : placed = FirstPlaced(nodes, fr)
  OBVIOUS
<1>4. PICK R : R = {p \in D \X D : Earlier(nodes, placed, p[1], p[2])}
  OBVIOUS
<1>5. PICK rank : rank = RankIn(R, D)
  OBVIOUS
<1>6. PICK order : order = [i \in D |-> CHOOSE k \in D : rank[k] = i - 1]
  OBVIOUS
<1>7. \A k, l \in D : <<k, l>> \in R <=> Earlier(nodes, placed, k, l)
  BY <1>4
<1>8. built = [i \in D |-> entryObjectXml(nodes[order[i]])]
  <2>1. \A k \in D : {l \in D : Earlier(nodes, placed, l, k)} = {l \in D : <<l, k>> \in R}
    BY <1>7
  <2>2. \A k \in D : Cardinality({l \in D : Earlier(nodes, placed, l, k)}) = rank[k]
    BY <1>5, <2>1 DEF RankIn
  <2>3. built = [i \in D |-> entryObjectXml(nodes[CHOOSE k \in D :
                    Cardinality({l \in D : Earlier(nodes, placed, l, k)}) = i - 1])]
    BY SMTT(30), <1>1, <1>2, <1>3 DEF buildDataChunkXml, Earlier, FirstPlaced, PlacedIn
  <2>4. \A i \in D : order[i] = CHOOSE k \in D : Cardinality({l \in D : Earlier(nodes, placed, l, k)}) = i - 1
    <3>1. TAKE i \in D
    <3>2. \A k \in D : Cardinality({l \in D : Earlier(nodes, placed, l, k)}) = i - 1 <=> rank[k] = i - 1
      BY <2>2
    <3> QED BY <1>6, <3>2
  <2> QED BY <2>3, <2>4
<1>9. \A k \in placed : nodes[k].source.index \in Int
  <2>1. TAKE k \in placed
  <2>2. PICK i \in DOMAIN fr.chunk : PlacedIn(nodes, fr, i) # {} /\ k = Min(PlacedIn(nodes, fr, i))
    BY <1>3 DEF FirstPlaced
  <2>3. PlacedIn(nodes, fr, i) \in SUBSET Nat
    BY <1>1 DEF PlacedIn
  <2>4. k \in PlacedIn(nodes, fr, i)
    BY <2>2, <2>3, MinOf
  <2> QED BY SMTT(30), <2>2, <2>4, ChunkSeq DEF PlacedIn
<1>10. \A k, l \in placed : nodes[k].source.index = nodes[l].source.index => k = l
  <2>1. ASSUME NEW k \in placed
        PROVE  k = Min(PlacedIn(nodes, fr, nodes[k].source.index))
    <3>2. PICK i \in DOMAIN fr.chunk : PlacedIn(nodes, fr, i) # {} /\ k = Min(PlacedIn(nodes, fr, i))
      BY <1>3 DEF FirstPlaced
    <3>3. PlacedIn(nodes, fr, i) \in SUBSET Nat
      BY <1>1 DEF PlacedIn
    <3>4. k \in PlacedIn(nodes, fr, i)
      BY <3>2, <3>3, MinOf
    <3> QED BY <3>2, <3>4 DEF PlacedIn
  <2> QED BY <2>1
<1>11. Orders(R, D)
  BY <1>2, <1>7, <1>9, <1>10 DEF Earlier, Orders
<1>12. RanksAll(rank, n, D)
  BY <1>2, <1>5, <1>11, OneOfRank
<1>13. \A i \in D : order[i] \in D /\ rank[order[i]] = i - 1
  <2>1. TAKE i \in D
  <2>2. i - 1 \in 0 .. n - 1
    BY <1>2
  <2>3. \E k \in D : rank[k] = i - 1
    BY <1>12, <2>2 DEF RanksAll
  <2> QED BY <1>6, <2>3
<1>14. ASSUME NEW k \in D PROVE \E i \in D : order[i] = k
  <2>1. rank[k] + 1 \in D /\ (rank[k] + 1) - 1 = rank[k]
    BY <1>2, <1>12 DEF RanksAll
  <2>2. order[rank[k] + 1] = k
    BY <1>12, <1>13, <2>1 DEF RanksAll
  <2> QED BY <2>1, <2>2
<1>15. Arranges(built, nodes, order)
  BY <1>1, <1>2, <1>8, <1>13, <1>14 DEF Arranges
<1> QED BY <1>15

\* So it has the entries of the edited chunk, which is aligned with the tree.
LEMMA InvBuildIsText == Inv => BuildIsText
<1> SUFFICES ASSUME Inv PROVE BuildIsText
  OBVIOUS
<1>1. PICK built : built = buildDataChunkXml(model, frame)
  OBVIOUS
<1>2. /\ IsSeq(model) /\ IsSeq(text) /\ DOMAIN model = DOMAIN text /\ Len(model) = Len(text)
      /\ DOMAIN model = 1 .. Len(model) /\ Len(model) \in Nat
      /\ \A k \in DOMAIN model : text[k] = entryObjectXml(model[k])
  BY InvFacts, ChunkSeq DEF Beside
<1>3. IsChunk(frame.chunk)
  BY DEF Inv, Kept
<1>4. PICK order : Arranges(built, model, order)
  BY <1>1, <1>2, <1>3, BuiltIs
<1>5. DOMAIN built = DOMAIN model /\ \A i \in DOMAIN model : built[i] = text[order[i]]
  BY <1>2, <1>4 DEF Arranges
<1>6. Len(built) = Len(text)
  BY <1>2, <1>4 DEF Arranges
<1>7. Range(built) = Range(text)
  BY <1>2, <1>4, <1>5 DEF Range, Arranges
<1> QED BY <1>1, <1>6, <1>7 DEF BuildIsText

\* The two saves agree: what is built of the tree holds each entry as the edited chunk has it.
THEOREM BuildsTheText == Spec => []BuildIsText
BY InvHolds, InvBuildIsText, PTL
=============================================================================
