------------------------- MODULE BinaryEntryProofs --------------------------
(***************************************************************************)
(* What becomes of one entry of BinaryDictionary: the merge of its bytes   *)
(* reads as the model, keeps of the bytes what no edit touched and is what *)
(* the writers write where they wrote the bytes; and every edit of a node  *)
(* leaves one of which the same is true.                                   *)
(***************************************************************************)
EXTENDS BinaryDictionary, TLAPS, SequenceTheorems, FiniteSetTheorems

\* The ids of what is opened are bounded.
LEMMA FileIdsNat == FileIds \in Nat
BY BinaryDictionaryAssumption

\* An element of a node, with a value of each part.
IsNodeElement(e) ==
    /\ IsRecord(e, {"id", "origin", "vals"})
    /\ IsRecord(e.vals, ReadKeys)

\* An element of a fragment that is read as element e of a node.
ReadsAs(m, e) ==
    /\ IsElement(m)
    /\ m.id = e.id
    /\ \A x : ReadElement(m, x).vals = e.vals

IsNode(n) ==
    /\ IsRecord(n, {"id", "name", "uuid", "mod", "status", "array", "elements", "source"})
    /\ IsRecord(n.source, {"frame", "index", "fragment", "name"})
    /\ Len(n.elements) \in Nat
    /\ IsRecord(n.elements, 1 .. Len(n.elements))
    /\ \A i \in DOMAIN n.elements : IsNodeElement(n.elements[i])
    /\ ~n.array => Len(n.elements) = 1 /\ n.elements[1].origin = None

\* What every edit of an entry read of fragment f leaves of it: each element of an array is one
\* of the fragment's, no two of them the same, or has been added.
ComesFrom(n, f) ==
    /\ n.id = f.id /\ n.uuid = f.uuid /\ n.array = f.array
    /\ n.array => \A i \in DOMAIN n.elements :
           LET j == n.elements[i].origin
           IN  j # None => /\ j \in DOMAIN f.elements
                           /\ n.elements[i].id = f.elements[j].id
                           /\ \A l \in DOMAIN n.elements : n.elements[l].origin = j => l = i
    /\ ~n.array => n.elements[1].id = f.elements[1].id

-----------------------------------------------------------------------------
(***************************************************************************)
(* What is read of what is written.                                        *)
(***************************************************************************)
\* An element that is written is read as it was.
LEMMA ReadsAgain ==
    ASSUME NEW e, IsNodeElement(e), NEW x
    PROVE  ReadElement(WrittenElement(e), x) = [id |-> e.id, origin |-> x, vals |-> e.vals]
<1>1. DOMAIN WrittenElement(e).parts = {"a"} \union {k \in {"b"} : e.vals[k] # "v0"}
  BY DEF WrittenElement
<1>2. \A k \in ReadKeys : (IF k \in DOMAIN WrittenElement(e).parts THEN WrittenElement(e).parts[k].val ELSE "v0") = e.vals[k]
  BY <1>1 DEF WrittenElement, ReadKeys
<1>3. [k \in ReadKeys |-> IF k \in DOMAIN WrittenElement(e).parts THEN WrittenElement(e).parts[k].val ELSE "v0"]
        = e.vals
  BY <1>2 DEF IsNodeElement, IsRecord
<1>4. WrittenElement(e).id = e.id
  BY DEF WrittenElement
<1> QED BY <1>3, <1>4 DEF ReadElement

\* An element that is read has every part.
LEMMA ReadIsRecord ==
    ASSUME NEW e, NEW x
    PROVE  /\ IsNodeElement(ReadElement(e, x))
           /\ ReadElement(e, x).id = e.id
           /\ ReadElement(e, x).origin = x
  BY DEF IsNodeElement, ReadElement, IsRecord

\* An element that is written, without its origin, is one a file may have.
LEMMA WrittenIsElement ==
    ASSUME NEW e
    PROVE  /\ IsElement([WrittenElement(e) EXCEPT !.origin = None])
           /\ [WrittenElement(e) EXCEPT !.origin = None].id = e.id
           /\ [WrittenElement(e) EXCEPT !.origin = None].parts = WrittenElement(e).parts
  BY DEF IsElement, WrittenElement, IsRecord


\* What the writers write of an element's parts.
LEMMA WrittenParts ==
    ASSUME NEW e
    PROVE  LET p == WrittenElement(e).parts
           IN  /\ IsRecord(p, DOMAIN p)
               /\ DOMAIN p \subseteq ReadKeys
               /\ "a" \in DOMAIN p
               /\ "b" \in DOMAIN p <=> e.vals["b"] # "v0"
               /\ \A k \in DOMAIN p : p[k] = [val |-> e.vals[k], how |-> "writer"]
  BY DEF WrittenElement, IsRecord, ReadKeys

-----------------------------------------------------------------------------
(***************************************************************************)
(* What a merge reads as.                                                  *)
(***************************************************************************)
\* Merged parts read as those of the element now.
LEMMA MergedPartsRead ==
    ASSUME NEW o, NEW e, NEW x, IsElement(o), IsNodeElement(e)
    PROVE  LET r == ReadElement(o, x)
               p == MergedParts(o.parts, WrittenElement(r).parts, WrittenElement(e).parts)
           IN  /\ IsRecord(p, DOMAIN p)
               /\ \A k \in DOMAIN p : IsRecord(p[k], {"val", "how"})
               /\ \A k \in ReadKeys : (IF k \in DOMAIN p THEN p[k].val ELSE "v0") = e.vals[k]
<1> DEFINE r == ReadElement(o, x)
           b == WrittenElement(r).parts
           c == WrittenElement(e).parts
           kept  == {k \in DOMAIN o.parts : KeepsKey(o.parts, b, c, k)}
           added == {k \in DOMAIN c \ DOMAIN o.parts : ~(Has(b, k) /\ b[k] = c[k])}
           p == MergedParts(o.parts, b, c)
<1>b. /\ \A k \in DOMAIN b : b[k] = [val |-> r.vals[k], how |-> "writer"]
      /\ DOMAIN b \subseteq ReadKeys
      /\ "a" \in DOMAIN b
      /\ "b" \in DOMAIN b <=> r.vals["b"] # "v0"
  BY WrittenParts
<1>c. /\ \A k \in DOMAIN c : c[k] = [val |-> e.vals[k], how |-> "writer"]
      /\ DOMAIN c \subseteq ReadKeys
      /\ "a" \in DOMAIN c
      /\ "b" \in DOMAIN c <=> e.vals["b"] # "v0"
  BY WrittenParts
<1>r. \A k \in ReadKeys : r.vals[k] = IF k \in DOMAIN o.parts THEN o.parts[k].val ELSE "v0"
  BY DEF ReadElement
<1>o. \A k \in DOMAIN o.parts : IsRecord(o.parts[k], {"val", "how"})
  BY DEF IsElement
<1> HIDE DEF r, b, c
<1>1. p = [k \in kept \union added |->
            IF ~Has(c, k) THEN o.parts[k]
            ELSE IF Has(o.parts, k) /\ Has(b, k) THEN MergedPart(o.parts[k], b[k], c[k])
            ELSE c[k]]
  BY DEF MergedParts
<1>2. DOMAIN p = kept \union added /\ IsRecord(p, DOMAIN p)
  BY <1>1 DEF IsRecord
<1>3. \A k \in DOMAIN p :
        p[k] = IF k \notin DOMAIN c THEN o.parts[k]
               ELSE IF k \in DOMAIN o.parts /\ k \in DOMAIN b /\ b[k] = c[k] THEN o.parts[k]
               ELSE c[k]
  BY <1>1, <1>2 DEF Has, MergedPart
<1>4. \A k \in DOMAIN p : IsRecord(p[k], {"val", "how"})
  <2>1. \A k \in DOMAIN c : IsRecord(c[k], {"val", "how"})
    BY <1>c DEF IsRecord
  <2>2. \A k \in DOMAIN p : k \notin DOMAIN c => k \in DOMAIN o.parts
    BY <1>2
  <2> HIDE DEF p, kept, added
  <2> QED BY <2>1, <2>2, <1>o, <1>3
<1>5. ASSUME NEW k \in ReadKeys
      PROVE  (IF k \in DOMAIN p THEN p[k].val ELSE "v0") = e.vals[k]
  <2>1. k \in DOMAIN p <=> k \in kept \/ k \in added
    BY <1>2
  <2>2. k \in kept <=> k \in DOMAIN o.parts /\ (k \in DOMAIN c \/ k \notin DOMAIN b)
    BY DEF KeepsKey, Has
  <2>3. k \in added <=> k \in DOMAIN c /\ k \notin DOMAIN o.parts /\ ~(k \in DOMAIN b /\ b[k] = c[k])
    BY DEF Has
  <2>4. k \in DOMAIN p =>
          p[k] = IF k \notin DOMAIN c THEN o.parts[k]
               ELSE IF k \in DOMAIN o.parts /\ k \in DOMAIN b /\ b[k] = c[k] THEN o.parts[k]
               ELSE c[k]
    BY <1>3
  <2>5. k \in DOMAIN c => c[k].val = e.vals[k]
    BY <1>c
  <2>6. k \in DOMAIN b => b[k].val = r.vals[k]
    BY <1>b
  <2>7. k \notin DOMAIN c => e.vals[k] = "v0"
    BY <1>c DEF ReadKeys
  <2>8. k \notin DOMAIN b => r.vals[k] = "v0"
    BY <1>b DEF ReadKeys
  <2>9. r.vals[k] = IF k \in DOMAIN o.parts THEN o.parts[k].val ELSE "v0"
    BY <1>r
  <2> HIDE DEF p, kept, added
  <2> QED BY <2>1, <2>2, <2>3, <2>4, <2>5, <2>6, <2>7, <2>8, <2>9
<1> QED BY <1>2, <1>4, <1>5 DEF r, b, c

\* A merged element reads as the element now.
LEMMA MergedReadsAs ==
    ASSUME NEW o, NEW e, NEW x, IsElement(o), IsNodeElement(e), e.id = o.id, e.origin = x
    PROVE  ReadsAs(MergedElement(o, WrittenElement(ReadElement(o, x)), WrittenElement(e)), e)
<1> DEFINE r == ReadElement(o, x)
           b == WrittenElement(r)
           c == WrittenElement(e)
           m == MergedElement(o, b, c)
<1> SUFFICES IsElement(m) /\ m.id = e.id /\ \A y : ReadElement(m, y).vals = e.vals
  BY DEF ReadsAs
<1>1. IsNodeElement(r) /\ r.id = o.id /\ r.origin = x
  BY ReadIsRecord
<1>2. CASE b = c
  <2>1. ReadElement(b, x).vals = r.vals /\ ReadElement(c, x).vals = e.vals
    BY <1>1, ReadsAgain
  <2>2. m = o
    BY <1>2 DEF MergedElement
  <2>3. \A y : ReadElement(o, y).vals = r.vals
    BY DEF ReadElement
  <2> QED BY <1>2, <2>1, <2>2, <2>3
<1>3. CASE b # c /\ DOMAIN o.parts = {}
  <2>1. m = [c EXCEPT !.origin = None]
    BY <1>3 DEF MergedElement
  <2>2. m.parts = c.parts /\ IsElement(m) /\ m.id = c.id /\ c.id = e.id
    BY <2>1, WrittenIsElement DEF WrittenElement
  <2>3. \A y : ReadElement(m, y).vals = ReadElement(c, y).vals
    BY <2>2 DEF ReadElement
  <2> QED BY <2>2, <2>3, ReadsAgain
<1>4. CASE b # c /\ DOMAIN o.parts # {}
  <2> DEFINE p == MergedParts(o.parts, b.parts, c.parts)
  <2>1. m = [o EXCEPT !.parts = p]
    BY <1>4 DEF MergedElement
  <2>2. m = [id |-> o.id, origin |-> None, parts |-> p]
    BY <2>1 DEF IsElement, IsRecord
  <2>3. /\ IsRecord(p, DOMAIN p)
        /\ \A k \in DOMAIN p : IsRecord(p[k], {"val", "how"})
        /\ \A k \in ReadKeys : (IF k \in DOMAIN p THEN p[k].val ELSE "v0") = e.vals[k]
    BY MergedPartsRead
  <2> HIDE DEF p
  <2>4. IsElement(m)
    BY <2>2, <2>3 DEF IsElement, IsRecord
  <2>5. [k \in ReadKeys |-> IF k \in DOMAIN p THEN p[k].val ELSE "v0"] = e.vals
    BY <2>3 DEF IsNodeElement, IsRecord
  <2> QED BY <2>2, <2>4, <2>5 DEF ReadElement
<1> QED BY <1>2, <1>3, <1>4

\* And so does one that is written.
LEMMA WrittenReadsAs ==
    ASSUME NEW e, IsNodeElement(e)
    PROVE  /\ ReadsAs([WrittenElement(e) EXCEPT !.origin = None], e)
           /\ e.origin = None => ReadsAs(WrittenElement(e), e)
<1>1. \A x : ReadElement(WrittenElement(e), x).vals = e.vals
  BY ReadsAgain
<1>2. \A m, x : m.parts = WrittenElement(e).parts => ReadElement(m, x).vals = ReadElement(WrittenElement(e), x).vals
  BY DEF ReadElement
<1>3. ReadsAs([WrittenElement(e) EXCEPT !.origin = None], e)
  <2> DEFINE m == [WrittenElement(e) EXCEPT !.origin = None]
  <2>1. IsElement(m) /\ m.id = e.id /\ m.parts = WrittenElement(e).parts
    BY WrittenIsElement DEF WrittenElement
  <2> HIDE DEF m
  <2>2. \A x : ReadElement(m, x).vals = e.vals
    BY <1>1, <1>2, <2>1
  <2>3. ReadsAs(m, e)
    BY <2>1, <2>2 DEF ReadsAs
  <2> QED BY <2>3 DEF m
<1>4. ASSUME e.origin = None PROVE ReadsAs(WrittenElement(e), e)
  <2>1. IsElement(WrittenElement(e)) /\ WrittenElement(e).id = e.id
    BY <1>4 DEF IsElement, WrittenElement, IsRecord
  <2> QED BY <2>1, <1>1 DEF ReadsAs
<1> QED BY <1>3, <1>4

\* The elements read of a fragment, and as they are written: the base of a merge.
LEMMA BaseElements ==
    ASSUME NEW f, IsFragment(f), NEW b, b = regenerateEntryXml(readEntryFragment(f))
    PROVE  LET Place(i) == IF f.array THEN i ELSE None
           IN  /\ b.open = [val |-> Len(f.elements), how |-> "writer"]
               /\ Len(b.elements) = Len(f.elements)
               /\ DOMAIN b.elements = 1 .. Len(f.elements)
               /\ IsRecord(b.elements, 1 .. Len(f.elements))
               /\ \A i \in DOMAIN f.elements :
                      /\ b.elements[i] = WrittenElement(ReadElement(f.elements[i], Place(i)))
                      /\ b.elements[i].origin = Place(i)
               /\ DOMAIN f.elements = 1 .. Len(f.elements)
<1> DEFINE n == readEntryFragment(f)
           Place(i) == IF f.array THEN i ELSE None
<1>1. DOMAIN f.elements = 1 .. Len(f.elements) /\ Len(f.elements) \in Nat
  BY DEF IsFragment, IsRecord
<1>2. n.elements = [i \in 1 .. Len(f.elements) |-> ReadElement(f.elements[i], Place(i))]
  BY <1>1 DEF readEntryFragment
<1>3. Len(n.elements) = Len(f.elements)
  BY <1>1, <1>2
<1>4. b.elements = [i \in 1 .. Len(f.elements) |-> WrittenElement(n.elements[i])]
  BY <1>2 DEF regenerateEntryXml
<1>5. b.open = [val |-> Len(f.elements), how |-> "writer"]
  BY <1>3 DEF regenerateEntryXml
<1>6. Len(b.elements) = Len(f.elements)
  BY <1>1, <1>4
<1>7. \A i \in DOMAIN f.elements :
         /\ b.elements[i] = WrittenElement(ReadElement(f.elements[i], Place(i)))
         /\ b.elements[i].origin = Place(i)
  <2>1. TAKE i \in DOMAIN f.elements
  <2>2. b.elements[i] = WrittenElement(ReadElement(f.elements[i], Place(i)))
    BY <1>1, <1>2, <1>4
  <2>3. WrittenElement(ReadElement(f.elements[i], Place(i))).origin = Place(i)
    BY ReadIsRecord DEF WrittenElement
  <2> QED BY <2>2, <2>3
<1>8. DOMAIN b.elements = 1 .. Len(f.elements) /\ IsRecord(b.elements, 1 .. Len(f.elements))
  BY <1>4 DEF IsRecord
<1> QED BY <1>1, <1>5, <1>6, <1>7, <1>8

\* And those of the entry now: an element of an array keeps the place it was read in.
LEMMA NowElements ==
    ASSUME NEW n, IsNode(n), NEW c, c = regenerateEntryXml(n)
    PROVE  /\ c.open = [val |-> Len(n.elements), how |-> "writer"]
           /\ Len(c.elements) = Len(n.elements)
           /\ DOMAIN c.elements = 1 .. Len(n.elements)
           /\ IsRecord(c.elements, 1 .. Len(n.elements))
           /\ DOMAIN n.elements = 1 .. Len(n.elements)
           /\ \A i \in DOMAIN n.elements :
                  /\ c.elements[i] = WrittenElement(n.elements[i])
                  /\ c.elements[i].origin = n.elements[i].origin
<1>1. DOMAIN n.elements = 1 .. Len(n.elements) /\ Len(n.elements) \in Nat
  BY DEF IsNode, IsRecord
<1>2. c.elements = [i \in 1 .. Len(n.elements) |-> WrittenElement(n.elements[i])]
  BY <1>1 DEF regenerateEntryXml
<1>3. c.open = [val |-> Len(n.elements), how |-> "writer"]
  BY DEF regenerateEntryXml
<1>4. Len(c.elements) = Len(n.elements)
  BY <1>1, <1>2
<1>5. \A i \in DOMAIN n.elements :
         c.elements[i] = WrittenElement(n.elements[i]) /\ c.elements[i].origin = n.elements[i].origin
  BY <1>1, <1>2 DEF WrittenElement
<1>6. DOMAIN c.elements = 1 .. Len(n.elements) /\ IsRecord(c.elements, 1 .. Len(n.elements))
  BY <1>2 DEF IsRecord
<1> QED BY <1>1, <1>3, <1>4, <1>5, <1>6

\* Where the elements can be paired at all, they can be told apart.
LEMMA ElementsPairUp ==
    ASSUME NEW n, NEW f, IsNode(n), IsFragment(f), ComesFrom(n, f),
           NEW b, b = regenerateEntryXml(readEntryFragment(f)), NEW c, c = regenerateEntryXml(n),
           f.elements # <<>>
    PROVE  /\ PairsUp(f.elements, b.elements, c.elements)
           /\ Unmarked(b.elements, c.elements) <=> ~f.array
<1>b. /\ Len(b.elements) = Len(f.elements)
      /\ DOMAIN b.elements = 1 .. Len(f.elements)
      /\ DOMAIN f.elements = 1 .. Len(f.elements)
      /\ \A i \in DOMAIN f.elements : b.elements[i].origin = IF f.array THEN i ELSE None
  BY BaseElements
<1>c. /\ Len(c.elements) = Len(n.elements)
      /\ DOMAIN c.elements = 1 .. Len(n.elements)
      /\ DOMAIN n.elements = 1 .. Len(n.elements)
      /\ \A i \in DOMAIN n.elements : c.elements[i].origin = n.elements[i].origin
  BY NowElements
<1>f. Len(f.elements) \in Nat /\ (~f.array => Len(f.elements) = 1) /\ f.elements = [k \in 1 .. Len(f.elements) |-> f.elements[k]]
  BY DEF IsFragment, IsRecord
<1>1. 1 \in DOMAIN f.elements
  <2>1. Len(f.elements) # 0
    <3>1. SUFFICES ASSUME Len(f.elements) = 0 PROVE FALSE
      OBVIOUS
    <3>2. 1 .. Len(f.elements) = {}
      BY <3>1
    <3>3. f.elements = <<>>
      BY <1>f, <3>2
    <3> QED BY <3>3
  <2> QED BY <2>1, <1>f, <1>b
<1>2. CASE f.array
  <2>1. b.elements[1].origin # None
    BY <1>b, <1>1, <1>2, BinaryDictionaryAssumption
  <2>2. ~Unmarked(b.elements, c.elements)
    BY <2>1, <1>1, <1>b DEF Unmarked, Range
  <2>3. \A j \in DOMAIN b.elements : b.elements[j].origin = j
    BY <1>2, <1>b
  <2>4. n.array
    BY <1>2 DEF ComesFrom
  <2>5. ASSUME NEW k \in DOMAIN c.elements, c.elements[k].origin # None
        PROVE  /\ c.elements[k].origin \in DOMAIN f.elements
               /\ \A l \in DOMAIN c.elements : c.elements[l].origin = c.elements[k].origin => l = k
    BY <2>4, <2>5, <1>c DEF ComesFrom
  <2> QED BY <1>2, <1>b, <2>2, <2>3, <2>5 DEF PairsUp
<1>3. CASE ~f.array
  <2>1. ~n.array /\ Len(n.elements) = 1 /\ n.elements[1].origin = None
    BY <1>3 DEF ComesFrom, IsNode
  <2>2. Unmarked(b.elements, c.elements)
    BY <2>1, <1>3, <1>b, <1>c, <1>f DEF Unmarked, Range
  <2> QED BY <1>3, <2>1, <2>2, <1>b, <1>c, <1>f DEF PairsUp
<1> QED BY <1>2, <1>3

\* The counterpart of element i of a node, in the fragment it came from.
From(n, i) == IF n.array THEN n.elements[i].origin ELSE 1

\* Each merged element reads as the one now, whichever it is paired with.
LEMMA MergedOfElement ==
    ASSUME NEW n, NEW f, IsNode(n), IsFragment(f), ComesFrom(n, f),
           NEW b, b = regenerateEntryXml(readEntryFragment(f)), NEW c, c = regenerateEntryXml(n),
           f.elements # <<>>,
           NEW i \in DOMAIN n.elements
    PROVE  LET v == MergedElements(f.elements, b.elements, c.elements)
               x == n.elements[i].origin
               j == From(n, i)
           IN  /\ j = None => v[i] = WrittenElement(n.elements[i]) /\ x = None
               /\ j # None =>
                      /\ j \in DOMAIN f.elements
                      /\ n.elements[i].id = f.elements[j].id
                      /\ v[i] = MergedElement(f.elements[j], WrittenElement(ReadElement(f.elements[j], x)),
                                              WrittenElement(n.elements[i]))
<1> DEFINE v == MergedElements(f.elements, b.elements, c.elements)
           x == n.elements[i].origin
           j == From(n, i)
<1>b. \A k \in DOMAIN f.elements :
          b.elements[k] = WrittenElement(ReadElement(f.elements[k], IF f.array THEN k ELSE None))
  BY BaseElements
<1>c. /\ DOMAIN c.elements = DOMAIN n.elements
      /\ c.elements[i] = WrittenElement(n.elements[i])
      /\ c.elements[i].origin = x
  BY NowElements
<1>u. Unmarked(b.elements, c.elements) <=> ~f.array
  BY ElementsPairUp
<1>a. n.array = f.array
  BY DEF ComesFrom
<1>1. v[i] = LET k == IF Unmarked(b.elements, c.elements) THEN 1 ELSE c.elements[i].origin
             IN  IF k = None THEN c.elements[i] ELSE MergedElement(f.elements[k], b.elements[k], c.elements[i])
  BY <1>c DEF MergedElements
<1>2. v[i] = IF j = None THEN c.elements[i] ELSE MergedElement(f.elements[j], b.elements[j], c.elements[i])
  BY <1>1, <1>u, <1>a, <1>c DEF From
<1>3. CASE n.array
  <2>1. j = x
    BY <1>3 DEF From
  <2>2. j # None => j \in DOMAIN f.elements /\ n.elements[i].id = f.elements[j].id
    BY <1>3, <2>1 DEF ComesFrom
  <2>3. j # None => b.elements[j] = WrittenElement(ReadElement(f.elements[j], x))
    BY <2>1, <2>2, <1>b, <1>3, <1>a
  <2> HIDE DEF v, x, j
  <2>4. (j = None => v[i] = WrittenElement(n.elements[i]) /\ x = None)
        /\ (j # None => /\ j \in DOMAIN f.elements /\ n.elements[i].id = f.elements[j].id
                        /\ v[i] = MergedElement(f.elements[j], WrittenElement(ReadElement(f.elements[j], x)),
                                              WrittenElement(n.elements[i])))
    BY <1>2, <1>c, <2>1, <2>2, <2>3
  <2> QED BY <2>4 DEF v, x, j
<1>4. CASE ~n.array
  <2>1. j = 1 /\ i = 1 /\ x = None /\ j # None
    BY <1>4, BinaryDictionaryAssumption DEF From, IsNode, IsRecord
  <2>2. 1 \in DOMAIN f.elements /\ n.elements[i].id = f.elements[1].id
    BY <1>4, <1>a, <2>1 DEF IsFragment, IsRecord, ComesFrom
  <2>3. b.elements[1] = WrittenElement(ReadElement(f.elements[1], None))
    BY <2>2, <1>b, <1>4, <1>a
  <2> HIDE DEF v, x, j
  <2>4. j # None /\ j \in DOMAIN f.elements /\ n.elements[i].id = f.elements[j].id
                        /\ v[i] = MergedElement(f.elements[j], WrittenElement(ReadElement(f.elements[j], x)),
                                              WrittenElement(n.elements[i]))
    BY <1>2, <1>c, <2>1, <2>2, <2>3
  <2> QED BY <2>4 DEF v, x, j
<1> QED BY <1>3, <1>4

\* The value of a merge is read as the value of the node.
LEMMA MergedValueReads ==
    ASSUME NEW n, NEW f, IsNode(n), IsFragment(f), ComesFrom(n, f),
           NEW b, b = regenerateEntryXml(readEntryFragment(f)), NEW c, c = regenerateEntryXml(n),
           NEW v, v = MergedValue(f, b, c)
    PROVE  /\ Len(v.elements) = Len(n.elements)
           /\ IsRecord(v.elements, 1 .. Len(n.elements))
           /\ \A i \in 1 .. Len(n.elements) : ReadsAs(v.elements[i], n.elements[i])
           /\ IsRecord(v.open, {"val", "how"})
<1>b. /\ b.open = [val |-> Len(f.elements), how |-> "writer"]
      /\ Len(b.elements) = Len(f.elements)
      /\ DOMAIN f.elements = 1 .. Len(f.elements)
      /\ \A i \in DOMAIN f.elements :
            b.elements[i] = WrittenElement(ReadElement(f.elements[i], IF f.array THEN i ELSE None))
  BY BaseElements
<1>c. /\ c.open = [val |-> Len(n.elements), how |-> "writer"]
      /\ Len(c.elements) = Len(n.elements)
      /\ DOMAIN c.elements = 1 .. Len(n.elements)
      /\ IsRecord(c.elements, 1 .. Len(n.elements))
      /\ DOMAIN n.elements = 1 .. Len(n.elements)
      /\ \A i \in DOMAIN n.elements :
             c.elements[i] = WrittenElement(n.elements[i]) /\ c.elements[i].origin = n.elements[i].origin
  BY NowElements
<1>n. Len(n.elements) \in Nat /\ \A i \in DOMAIN n.elements : IsNodeElement(n.elements[i])
  BY DEF IsNode
<1>f. /\ Len(f.elements) \in Nat /\ IsRecord(f.elements, 1 .. Len(f.elements))
      /\ IsRecord(f.open, {"val", "how"})
      /\ \A k \in DOMAIN f.elements : IsElement(f.elements[k])
  BY DEF IsFragment
<1>1. CASE b.open = c.open /\ b.elements = c.elements
  <2>1. v = [open |-> f.open, elements |-> f.elements, pairs |-> f.pairs]
    BY <1>1 DEF MergedValue
  <2>2. Len(f.elements) = Len(n.elements)
    BY <1>1, <1>b, <1>c
  <2>3. ASSUME NEW i \in 1 .. Len(n.elements) PROVE ReadsAs(f.elements[i], n.elements[i])
    <3> DEFINE r == ReadElement(f.elements[i], IF f.array THEN i ELSE None)
    <3>1. WrittenElement(r) = WrittenElement(n.elements[i])
      BY <1>1, <1>b, <1>c, <2>2
    <3>2. IsNodeElement(r) /\ IsNodeElement(n.elements[i]) /\ r.id = f.elements[i].id
      BY ReadIsRecord, <1>n, <1>c
    <3> HIDE DEF r
    <3>3. ReadElement(WrittenElement(r), None) = [id |-> r.id, origin |-> None, vals |-> r.vals]
      BY <3>2, ReadsAgain
    <3>4. ReadElement(WrittenElement(n.elements[i]), None)
            = [id |-> n.elements[i].id, origin |-> None, vals |-> n.elements[i].vals]
      BY <3>2, ReadsAgain
    <3>5. r.id = n.elements[i].id /\ r.vals = n.elements[i].vals
      BY <3>1, <3>3, <3>4
    <3>6. \A x : ReadElement(f.elements[i], x).vals = r.vals
      BY DEF ReadElement, r
    <3> QED BY <3>2, <3>5, <3>6, <1>f, <1>b, <2>2 DEF ReadsAs
  <2> QED BY <2>1, <2>2, <2>3, <1>f
<1>2. CASE ~(b.open = c.open /\ b.elements = c.elements) /\ Mergeable(f, b, c)
  <2> DEFINE m == MergedElements(f.elements, b.elements, c.elements)
  <2>1. v = [open |-> MergedPart(f.open, b.open, c.open), elements |-> m, pairs |-> TRUE]
    BY <1>2 DEF MergedValue
  <2>2. IsRecord(m, 1 .. Len(n.elements))
    BY <1>c DEF MergedElements, IsRecord
  <2>3. ASSUME NEW i \in 1 .. Len(n.elements) PROVE ReadsAs(m[i], n.elements[i])
    <3> DEFINE x == n.elements[i].origin
               j == From(n, i)
    <3>1. /\ j = None => m[i] = WrittenElement(n.elements[i]) /\ x = None
          /\ j # None =>
                /\ j \in DOMAIN f.elements
                /\ n.elements[i].id = f.elements[j].id
                /\ m[i] = MergedElement(f.elements[j], WrittenElement(ReadElement(f.elements[j], x)),
                                        WrittenElement(n.elements[i]))
      <4>1. f.elements # <<>> /\ i \in DOMAIN n.elements
        BY <1>2, <1>c DEF Mergeable
      <4> QED BY <4>1, MergedOfElement
    <3>2. IsNodeElement(n.elements[i])
      BY <1>n, <1>c
    <3> HIDE DEF m, x, j
    <3>3. CASE j = None
      BY <3>1, <3>2, <3>3, WrittenReadsAs DEF x
    <3>4. CASE j # None
      <4>1. IsElement(f.elements[j])
        BY <3>1, <3>4, <1>f
      <4>2. ReadsAs(MergedElement(f.elements[j], WrittenElement(ReadElement(f.elements[j], x)),
                                        WrittenElement(n.elements[i])), n.elements[i])
        BY <4>1, <3>1, <3>2, <3>4, MergedReadsAs DEF x
      <4> QED BY <4>2, <3>1, <3>4
    <3> QED BY <3>3, <3>4
  <2>4. IsRecord(MergedPart(f.open, b.open, c.open), {"val", "how"})
    BY <1>f, <1>c DEF MergedPart, IsRecord
  <2> HIDE DEF m
  <2>5. Len(m) = Len(n.elements)
    BY <2>2, <1>n DEF IsRecord
  <2> QED BY <2>1, <2>2, <2>3, <2>4, <2>5
<1>3. CASE ~(b.open = c.open /\ b.elements = c.elements) /\ ~Mergeable(f, b, c)
  <2> DEFINE m == stripOrigins(c).elements
  <2>1. v = [open |-> c.open, elements |-> m, pairs |-> TRUE]
    BY <1>3 DEF MergedValue
  <2>2. m = [i \in 1 .. Len(n.elements) |-> [c.elements[i] EXCEPT !.origin = None]]
    BY <1>c DEF stripOrigins, regenerateEntryXml
  <2>3. \A i \in 1 .. Len(n.elements) : ReadsAs(m[i], n.elements[i])
    BY <2>2, <1>c, <1>n, WrittenReadsAs
  <2>4. IsRecord(c.open, {"val", "how"})
    BY <1>c DEF IsRecord
  <2> HIDE DEF m
  <2>5. Len(m) = Len(n.elements) /\ IsRecord(m, 1 .. Len(n.elements))
    BY <2>2, <1>n DEF IsRecord
  <2> QED BY <2>1, <2>3, <2>4, <2>5
<1> QED BY <1>1, <1>2, <1>3

ModOf(n) == IF n.mod = None THEN "now" ELSE n.mod

\* A fragment that is read as node n: what every way of writing an entry comes to.
ReadsAsNode(f, n) ==
    /\ IsFragment(f)
    /\ f.id = n.id /\ f.name = n.name /\ f.uuid = n.uuid /\ f.array = n.array
    /\ Len(f.elements) = Len(n.elements)
    /\ \A i \in 1 .. Len(n.elements) : ReadsAs(f.elements[i], n.elements[i])

\* An entry as the writers write it whole, told field by field.
LEMMA LineIs ==
    ASSUME NEW n, Len(n.elements) \in Nat, DOMAIN n.elements = 1 .. Len(n.elements)
    PROVE  Line(n) =
               [id |-> n.id, name |-> n.name, uuid |-> n.uuid, mod |-> ModOf(n), array |-> n.array,
                extra |-> None, scans |-> TRUE, pairs |-> TRUE,
                open |-> [val |-> Len(n.elements), how |-> "writer"],
                elements |-> [i \in 1 .. Len(n.elements) |->
                                 [WrittenElement(n.elements[i]) EXCEPT !.origin = None]]]
<1> DEFINE c == regenerateEntryXml(n)
<1>1. c = [id |-> n.id, name |-> n.name, uuid |-> n.uuid, mod |-> ModOf(n), array |-> n.array,
           extra |-> None, scans |-> TRUE, pairs |-> TRUE,
           open |-> [val |-> Len(n.elements), how |-> "writer"],
           elements |-> [i \in 1 .. Len(n.elements) |-> WrittenElement(n.elements[i])]]
  BY DEF regenerateEntryXml, ModOf
<1>2. Line(n) = [c EXCEPT !.elements = [i \in DOMAIN c.elements |-> [c.elements[i] EXCEPT !.origin = None]]]
  BY DEF Line, stripOrigins
<1>3. /\ DOMAIN c.elements = 1 .. Len(n.elements)
      /\ \A i \in 1 .. Len(n.elements) : c.elements[i] = WrittenElement(n.elements[i])
  BY DEF regenerateEntryXml
<1> HIDE DEF c
<1>4. [i \in DOMAIN c.elements |-> [c.elements[i] EXCEPT !.origin = None]]
        = [i \in 1 .. Len(n.elements) |-> [WrittenElement(n.elements[i]) EXCEPT !.origin = None]]
  BY <1>3
<1> QED BY <1>1, <1>2, <1>4

\* An entry written whole reads as the node.
LEMMA LineReads ==
    ASSUME NEW n, IsNode(n)
    PROVE  ReadsAsNode(Line(n), n) /\ Line(n).scans
<1>1. /\ Len(n.elements) \in Nat /\ DOMAIN n.elements = 1 .. Len(n.elements)
      /\ \A i \in DOMAIN n.elements : IsNodeElement(n.elements[i])
      /\ ~n.array => Len(n.elements) = 1
  BY DEF IsNode, IsRecord
<1> DEFINE m == [i \in 1 .. Len(n.elements) |-> [WrittenElement(n.elements[i]) EXCEPT !.origin = None]]
<1>2. \A i \in 1 .. Len(n.elements) : ReadsAs(m[i], n.elements[i])
  BY <1>1, WrittenReadsAs
<1>3. Len(m) = Len(n.elements) /\ IsRecord(m, 1 .. Len(n.elements)) /\ DOMAIN m = 1 .. Len(n.elements)
  BY <1>1 DEF IsRecord
<1>4. Line(n) =
               [id |-> n.id, name |-> n.name, uuid |-> n.uuid, mod |-> ModOf(n), array |-> n.array,
                extra |-> None, scans |-> TRUE, pairs |-> TRUE,
                open |-> [val |-> Len(n.elements), how |-> "writer"], elements |-> m]
  BY <1>1, LineIs
<1> HIDE DEF m
<1>5. IsFragment(Line(n))
  <2>1. \A i \in 1 .. Len(n.elements) : IsElement(m[i])
    BY <1>2 DEF ReadsAs
  <2>2. IsRecord(Line(n), {"id", "name", "uuid", "mod", "array", "extra", "scans", "pairs", "open", "elements"})
    BY <1>4 DEF IsRecord
  <2>3. IsRecord(Line(n).open, {"val", "how"})
    BY <1>4 DEF IsRecord
  <2>4. Line(n).elements = m /\ Line(n).array = n.array
    BY <1>4
  <2> QED BY <1>1, <1>3, <2>1, <2>2, <2>3, <2>4 DEF IsFragment
<1> QED BY <1>2, <1>3, <1>4, <1>5 DEF ReadsAsNode

\* Elements that are read alike are written alike.
LEMMA WrittenAlike ==
    ASSUME NEW e, NEW g, e.id = g.id, e.vals = g.vals
    PROVE  [WrittenElement(e) EXCEPT !.origin = None] = [WrittenElement(g) EXCEPT !.origin = None]
<1>1. WrittenElement(e).parts = WrittenElement(g).parts
  BY DEF WrittenElement
<1>2. \A p : [[id |-> e.id, origin |-> e.origin, parts |-> p] EXCEPT !.origin = None]
              = [id |-> e.id, origin |-> None, parts |-> p]
  OBVIOUS
<1>3. \A p : [[id |-> g.id, origin |-> g.origin, parts |-> p] EXCEPT !.origin = None]
              = [id |-> e.id, origin |-> None, parts |-> p]
  OBVIOUS
<1>4. /\ WrittenElement(e) = [id |-> e.id, origin |-> e.origin, parts |-> WrittenElement(e).parts]
      /\ WrittenElement(g) = [id |-> g.id, origin |-> g.origin, parts |-> WrittenElement(e).parts]
  BY <1>1 DEF WrittenElement
<1> QED BY <1>2, <1>3, <1>4

\* And so are entries.
LEMMA LinesAlike ==
    ASSUME NEW f, NEW n, IsNode(n), ReadsAsNode(f, n), ModOf(f) = ModOf(n)
    PROVE  Line(readEntryFragment(f)) = Line(n)
<1> DEFINE r == readEntryFragment(f)
<1>1. /\ r.id = n.id /\ r.name = n.name /\ r.uuid = n.uuid /\ r.array = n.array
      /\ ModOf(r) = ModOf(n)
  BY DEF readEntryFragment, ReadsAsNode, ModOf
<1>2. /\ Len(n.elements) \in Nat /\ DOMAIN n.elements = 1 .. Len(n.elements)
      /\ DOMAIN f.elements = 1 .. Len(n.elements)
  BY DEF IsNode, IsRecord, ReadsAsNode, IsFragment
<1>3. r.elements = [i \in 1 .. Len(n.elements) |-> ReadElement(f.elements[i], IF f.array THEN i ELSE None)]
  BY <1>2 DEF readEntryFragment
<1>4. Len(r.elements) = Len(n.elements) /\ DOMAIN r.elements = 1 .. Len(n.elements)
  BY <1>2, <1>3
<1>5. ASSUME NEW i \in 1 .. Len(n.elements)
      PROVE  [WrittenElement(r.elements[i]) EXCEPT !.origin = None]
               = [WrittenElement(n.elements[i]) EXCEPT !.origin = None]
  <2>1. r.elements[i] = ReadElement(f.elements[i], IF f.array THEN i ELSE None)
    BY <1>3
  <2>2. ReadsAs(f.elements[i], n.elements[i])
    BY DEF ReadsAsNode
  <2>3. r.elements[i].id = n.elements[i].id /\ r.elements[i].vals = n.elements[i].vals
    BY <2>1, <2>2, ReadIsRecord DEF ReadsAs
  <2> QED BY <2>3, WrittenAlike
<1> HIDE DEF r
<1>6. [i \in 1 .. Len(r.elements) |-> [WrittenElement(r.elements[i]) EXCEPT !.origin = None]]
        = [i \in 1 .. Len(n.elements) |-> [WrittenElement(n.elements[i]) EXCEPT !.origin = None]]
  BY <1>4, <1>5
<1>7. Line(r) =
               [id |-> r.id, name |-> r.name, uuid |-> r.uuid, mod |-> ModOf(r), array |-> r.array,
                extra |-> None, scans |-> TRUE, pairs |-> TRUE,
                open |-> [val |-> Len(r.elements), how |-> "writer"],
                elements |-> [i \in 1 .. Len(r.elements) |->
                                 [WrittenElement(r.elements[i]) EXCEPT !.origin = None]]]
  BY <1>2, <1>4, LineIs
<1>8. Line(n) =
               [id |-> n.id, name |-> n.name, uuid |-> n.uuid, mod |-> ModOf(n), array |-> n.array,
                extra |-> None, scans |-> TRUE, pairs |-> TRUE,
                open |-> [val |-> Len(n.elements), how |-> "writer"],
                elements |-> [i \in 1 .. Len(n.elements) |->
                                 [WrittenElement(n.elements[i]) EXCEPT !.origin = None]]]
  BY <1>2, LineIs
<1>9. Line(r) = Line(n)
  BY <1>1, <1>4, <1>6, <1>7, <1>8
<1> QED BY <1>9 DEF r

\* A merge is an entry a file may have, and reads as the node.
LEMMA MergeIs ==
    ASSUME NEW n, NEW f, IsNode(n), IsFragment(f), ComesFrom(n, f),
           NEW b, b = regenerateEntryXml(readEntryFragment(f)), NEW c, c = regenerateEntryXml(n),
           NEW m, m = mergeEntry(f, b, c), NEW v, v = MergedValue(f, b, c)
    PROVE  /\ ReadsAsNode(m, n)
           /\ ModOf(m) = ModOf(n)
           /\ m.scans = f.scans /\ m.extra = f.extra /\ m.elements = v.elements
           /\ m.pairs = v.pairs
<1>1. /\ Len(v.elements) = Len(n.elements)
      /\ IsRecord(v.elements, 1 .. Len(n.elements))
      /\ \A i \in 1 .. Len(n.elements) : ReadsAs(v.elements[i], n.elements[i])
      /\ IsRecord(v.open, {"val", "how"})
  BY MergedValueReads
<1>2. /\ b.name = f.name /\ b.uuid = f.uuid /\ b.mod = ModOf(f)
      /\ c.name = n.name /\ c.uuid = n.uuid /\ c.mod = ModOf(n)
  BY DEF regenerateEntryXml, readEntryFragment, ModOf
<1>3. f.id = n.id /\ f.uuid = n.uuid /\ f.array = n.array
  BY DEF ComesFrom
<1>4. CASE b = c
  <2>1. m = f
    BY <1>4 DEF mergeEntry
  <2>2. v.elements = f.elements /\ v.pairs = f.pairs
    BY <1>4 DEF MergedValue
  <2> QED BY <2>1, <2>2, <1>1, <1>2, <1>3, <1>4 DEF ReadsAsNode
<1>5. CASE b # c
  <2>1. m = [f EXCEPT !.name = MergedPart(@, b.name, c.name),
                       !.uuid = MergedPart(@, b.uuid, c.uuid),
                       !.mod  = IF @ = None THEN c.mod ELSE MergedPart(@, b.mod, c.mod),
                       !.open = v.open,
                       !.elements = v.elements,
                       !.pairs = v.pairs]
    BY <1>5 DEF mergeEntry
  <2>2. m = [id |-> f.id, name |-> MergedPart(f.name, b.name, c.name),
             uuid |-> MergedPart(f.uuid, b.uuid, c.uuid),
             mod |-> IF f.mod = None THEN c.mod ELSE MergedPart(f.mod, b.mod, c.mod),
             array |-> f.array, extra |-> f.extra, scans |-> f.scans, pairs |-> v.pairs,
             open |-> v.open, elements |-> v.elements]
    BY ZenonT(30), <2>1 DEF IsFragment, IsRecord
  <2>3. m.name = n.name /\ m.uuid = n.uuid /\ ModOf(m) = ModOf(n)
    BY <2>2, <1>2, <1>3 DEF MergedPart, ModOf
  <2>4. IsFragment(m)
    <3>1. Len(n.elements) \in Nat /\ (~n.array => Len(n.elements) = 1)
      BY DEF IsNode
    <3>2. \A i \in 1 .. Len(n.elements) : IsElement(v.elements[i])
      BY <1>1 DEF ReadsAs
    <3>3. DOMAIN v.elements = 1 .. Len(n.elements)
      BY <1>1 DEF IsRecord
    <3>4. IsRecord(m, {"id", "name", "uuid", "mod", "array", "extra", "scans", "pairs", "open", "elements"})
      BY <2>2 DEF IsRecord
    <3> QED BY <2>2, <1>1, <1>3, <3>1, <3>2, <3>3, <3>4 DEF IsFragment
  <2> QED BY <2>2, <2>3, <2>4, <1>1, <1>3 DEF ReadsAsNode
<1> QED BY <1>4, <1>5

\* A merge of bytes the scan reads passes its own check: read again, it gives the model's text.
THEOREM MergeReadsAsModel ==
    ASSUME NEW n, IsNode(n), HasSource(n), IsFragment(n.source.fragment),
           ComesFrom(n, n.source.fragment), n.source.fragment.scans
    PROVE  mergedEntry(n)
<1>1. ReadsAsNode(Merged(n), n) /\ ModOf(Merged(n)) = ModOf(n)
  <2> DEFINE f == n.source.fragment
             b == regenerateEntryXml(readEntryFragment(f))
             c == regenerateEntryXml(n)
             v == MergedValue(f, b, c)
  <2>1. Merged(n) = mergeEntry(f, b, c)
    BY DEF Merged, baseOf
  <2> HIDE DEF b, c, v, f
  <2>2. ReadsAsNode(mergeEntry(f, b, c), n) /\ ModOf(mergeEntry(f, b, c)) = ModOf(n)
    BY MergeIs DEF b, c, v, f
  <2> QED BY <2>1, <2>2
<1>2. Line(readEntryFragment(Merged(n))) = Line(n)
  BY <1>1, LinesAlike
<1> QED BY <1>2 DEF mergedEntry

-----------------------------------------------------------------------------
(***************************************************************************)
(* What the writers wrote, they write again.                               *)
(***************************************************************************)
\* A fragment that is as the writers write what is read of it.
AsWritten(f) == f = Line(readEntryFragment(f))

\* An entry written whole is one.
LEMMA LineAsWritten ==
    ASSUME NEW n, IsNode(n)
    PROVE  AsWritten(Line(n))
<1>1. ReadsAsNode(Line(n), n)
  BY LineReads
<1>2. Line(n).mod = ModOf(n)
  BY LineIs DEF IsNode, IsRecord
<1>3. ModOf(Line(n)) = ModOf(n)
  BY <1>2 DEF ModOf
<1> QED BY <1>1, <1>3, LinesAlike DEF AsWritten

\* Parts that were as the writers write them are merged to what they write now.
LEMMA PartsOfWritten ==
    ASSUME NEW b, NEW c, IsRecord(c, DOMAIN c)
    PROVE  MergedParts(b, b, c) = c
<1>1. DOMAIN MergedParts(b, b, c) = DOMAIN c
  BY DEF MergedParts, KeepsKey, Has
<1>2. \A k \in DOMAIN c : MergedParts(b, b, c)[k] = c[k]
  BY DEF MergedParts, KeepsKey, Has, MergedPart
<1>3. MergedParts(b, b, c) = [k \in DOMAIN MergedParts(b, b, c) |-> MergedParts(b, b, c)[k]]
  BY DEF MergedParts
<1> QED BY <1>1, <1>2, <1>3 DEF IsRecord

\* And so are elements.
LEMMA MergedElementOfWritten ==
    ASSUME NEW o, NEW e, NEW x, IsElement(o), IsNodeElement(e), e.id = o.id, e.origin = x,
           NEW b, b = WrittenElement(ReadElement(o, x)), NEW c, c = WrittenElement(e),
           o = [b EXCEPT !.origin = None]
    PROVE  MergedElement(o, b, c) = [c EXCEPT !.origin = None]
<1>1. CASE b = c
  BY <1>1 DEF MergedElement
<1>2. CASE b # c
  <2>1. c = [id |-> e.id, origin |-> x, parts |-> c.parts] /\ IsRecord(c.parts, DOMAIN c.parts)
    <3>1. c = [id |-> e.id, origin |-> x, parts |-> c.parts]
      BY DEF WrittenElement
    <3>2. IsRecord(c.parts, DOMAIN c.parts)
      BY WrittenParts
    <3> QED BY <3>1, <3>2
  <2>2. o.parts = b.parts /\ DOMAIN o.parts # {}
    <3>1. "a" \in DOMAIN b.parts
      BY WrittenParts
    <3>2. o.parts = b.parts
      BY DEF WrittenElement
    <3> QED BY <3>1, <3>2
  <2>3. MergedElement(o, b, c) = [o EXCEPT !.parts = MergedParts(o.parts, b.parts, c.parts)]
    BY <1>2, <2>2 DEF MergedElement
  <2>4. MergedParts(o.parts, b.parts, c.parts) = c.parts
    BY <2>1, <2>2, PartsOfWritten
  <2>5. \A p : [o EXCEPT !.parts = p] = [id |-> e.id, origin |-> None, parts |-> p]
    BY DEF IsElement, IsRecord
  <2>6. [c EXCEPT !.origin = None] = [id |-> e.id, origin |-> None, parts |-> c.parts]
    BY <2>1
  <2> QED BY ZenonT(30), <2>3, <2>4, <2>5, <2>6
<1> QED BY <1>1, <1>2

\* What a merge makes of an entry the writers wrote is what they write of it now.
LEMMA MergeOfWritten ==
    ASSUME NEW n, NEW f, IsNode(n), IsFragment(f), ComesFrom(n, f), AsWritten(f),
           NEW b, b = regenerateEntryXml(readEntryFragment(f)), NEW c, c = regenerateEntryXml(n),
           NEW m, m = mergeEntry(f, b, c)
    PROVE  m = Line(n)
<1> DEFINE v == MergedValue(f, b, c)
<1>b. /\ b.open = [val |-> Len(f.elements), how |-> "writer"]
      /\ DOMAIN b.elements = 1 .. Len(f.elements)
      /\ DOMAIN f.elements = 1 .. Len(f.elements)
      /\ \A i \in DOMAIN f.elements :
            b.elements[i] = WrittenElement(ReadElement(f.elements[i], IF f.array THEN i ELSE None))
  BY BaseElements
<1>c. /\ c.open = [val |-> Len(n.elements), how |-> "writer"]
      /\ DOMAIN c.elements = 1 .. Len(n.elements)
      /\ DOMAIN n.elements = 1 .. Len(n.elements)
      /\ \A i \in DOMAIN n.elements : c.elements[i] = WrittenElement(n.elements[i])
  BY NowElements
<1>n. Len(n.elements) \in Nat /\ \A i \in DOMAIN n.elements : IsNodeElement(n.elements[i])
  BY DEF IsNode
<1>s. f = stripOrigins(b)
  BY DEF AsWritten, Line
<1>f. /\ f.open = b.open /\ f.extra = None /\ f.scans = TRUE /\ f.pairs = TRUE
      /\ f.name = b.name /\ f.uuid = b.uuid /\ f.mod = b.mod
      /\ \A i \in DOMAIN f.elements : f.elements[i] = [b.elements[i] EXCEPT !.origin = None]
  <2>1. PICK r : r = readEntryFragment(f)
    OBVIOUS
  <2>2. /\ IsRecord(b, {"id", "name", "uuid", "mod", "array", "extra", "scans", "pairs", "open", "elements"})
        /\ b.extra = None /\ b.scans = TRUE /\ b.pairs = TRUE
    BY <2>1 DEF regenerateEntryXml, IsRecord
  <2>3. PICK es : es = [i \in DOMAIN b.elements |-> [b.elements[i] EXCEPT !.origin = None]]
    OBVIOUS
  <2>4. f = [b EXCEPT !.elements = es]
    BY <1>s, <2>3 DEF stripOrigins
  <2>5. /\ f.open = b.open /\ f.extra = b.extra /\ f.scans = b.scans /\ f.pairs = b.pairs
        /\ f.name = b.name /\ f.uuid = b.uuid /\ f.mod = b.mod
        /\ f.elements = es
    BY ONLY <2>2, <2>4 DEF IsRecord
  <2> QED BY <1>b, <2>2, <2>3, <2>5
<1>d. /\ c.extra = None /\ c.scans = TRUE /\ c.pairs = TRUE /\ c.name = n.name /\ c.uuid = n.uuid
      /\ c.mod = ModOf(n)
  BY DEF regenerateEntryXml, ModOf
<1>l. Line(n) = [id |-> n.id, name |-> n.name, uuid |-> n.uuid, mod |-> ModOf(n), array |-> n.array,
                 extra |-> None, scans |-> TRUE, pairs |-> TRUE, open |-> c.open,
                 elements |-> [i \in 1 .. Len(n.elements) |-> [c.elements[i] EXCEPT !.origin = None]]]
  BY <1>c, <1>n, LineIs
<1>v. IsRecord(v.elements, 1 .. Len(n.elements))
  BY MergedValueReads
<1>1. CASE b = c
  BY <1>1, <1>s DEF mergeEntry, Line
<1>2. CASE b # c
  <2>1. v.open = c.open /\ v.pairs = TRUE
    <3>1. CASE b.open = c.open /\ b.elements = c.elements
      BY <1>f, <3>1 DEF MergedValue
    <3>2. CASE ~(b.open = c.open /\ b.elements = c.elements) /\ Mergeable(f, b, c)
      BY <1>f, <3>2 DEF MergedValue, MergedPart
    <3>3. CASE ~(b.open = c.open /\ b.elements = c.elements) /\ ~Mergeable(f, b, c)
      BY <3>3 DEF MergedValue
    <3> QED BY <3>1, <3>2, <3>3
  <2>2. ASSUME NEW i \in 1 .. Len(n.elements)
        PROVE  v.elements[i] = [c.elements[i] EXCEPT !.origin = None]
    <3>1. CASE b.open = c.open /\ b.elements = c.elements
      <4>1. v.elements = f.elements
        BY <3>1 DEF MergedValue
      <4> QED BY <1>b, <1>c, <1>f, <3>1, <4>1
    <3>2. CASE ~(b.open = c.open /\ b.elements = c.elements) /\ Mergeable(f, b, c)
      <4>1. PICK e : e = n.elements[i]
        OBVIOUS
      <4>2. PICK x : x = e.origin
        OBVIOUS
      <4>3. PICK j : j = From(n, i)
        OBVIOUS
      <4>4. /\ v.elements = MergedElements(f.elements, b.elements, c.elements)
            /\ f.elements # <<>> /\ i \in DOMAIN n.elements
        BY <1>c, <3>2 DEF MergedValue, Mergeable
      <4>5. /\ j = None => v.elements[i] = WrittenElement(e) /\ x = None
            /\ j # None =>
                   /\ j \in DOMAIN f.elements
                   /\ e.id = f.elements[j].id
                   /\ v.elements[i] = MergedElement(f.elements[j], WrittenElement(ReadElement(f.elements[j], x)),
                                                    WrittenElement(e))
        BY <4>1, <4>2, <4>3, <4>4, MergedOfElement
      <4>6. c.elements[i] = WrittenElement(e) /\ IsNodeElement(e)
        BY <1>c, <1>n, <4>1
      <4>7. CASE j = None
        BY <4>2, <4>5, <4>6, <4>7 DEF WrittenElement
      <4>8. CASE j # None
        <5>1. PICK o : o = f.elements[j]
          OBVIOUS
        <5>2. PICK y : y = IF f.array THEN j ELSE None
          OBVIOUS
        <5>3. /\ IsElement(o) /\ e.id = o.id
              /\ o = [WrittenElement(ReadElement(o, y)) EXCEPT !.origin = None]
          BY <1>b, <1>f, <4>5, <4>8, <5>1, <5>2 DEF IsFragment
        <5>4. ReadElement(o, x).id = ReadElement(o, y).id /\ ReadElement(o, x).vals = ReadElement(o, y).vals
          BY DEF ReadElement
        <5>5. o = [WrittenElement(ReadElement(o, x)) EXCEPT !.origin = None]
          BY <5>3, <5>4, WrittenAlike
        <5>6. MergedElement(o, WrittenElement(ReadElement(o, x)), WrittenElement(e))
                = [WrittenElement(e) EXCEPT !.origin = None]
          BY <4>2, <4>6, <5>3, <5>5, MergedElementOfWritten
        <5> QED BY <4>5, <4>6, <4>8, <5>1, <5>6
      <4> QED BY <4>7, <4>8
    <3>3. CASE ~(b.open = c.open /\ b.elements = c.elements) /\ ~Mergeable(f, b, c)
      <4>1. v.elements = stripOrigins(c).elements
        BY <3>3 DEF MergedValue
      <4>2. stripOrigins(c).elements = [k \in DOMAIN c.elements |-> [c.elements[k] EXCEPT !.origin = None]]
        BY DEF stripOrigins, regenerateEntryXml
      <4> QED BY <1>c, <4>1, <4>2
    <3> QED BY <3>1, <3>2, <3>3
  <2> HIDE DEF v
  <2>3. v.elements = [i \in 1 .. Len(n.elements) |-> [c.elements[i] EXCEPT !.origin = None]]
    BY <1>v, <2>2 DEF IsRecord
  <2>4. m = [f EXCEPT !.name = MergedPart(@, b.name, c.name),
                       !.uuid = MergedPart(@, b.uuid, c.uuid),
                       !.mod  = IF @ = None THEN c.mod ELSE MergedPart(@, b.mod, c.mod),
                       !.open = v.open,
                       !.elements = v.elements,
                       !.pairs = v.pairs]
    BY <1>2 DEF mergeEntry, v
  <2>5. m = [id |-> f.id, name |-> MergedPart(f.name, b.name, c.name),
             uuid |-> MergedPart(f.uuid, b.uuid, c.uuid),
             mod |-> IF f.mod = None THEN c.mod ELSE MergedPart(f.mod, b.mod, c.mod),
             array |-> f.array, extra |-> f.extra, scans |-> f.scans, pairs |-> v.pairs,
             open |-> v.open, elements |-> v.elements]
    BY <2>4 DEF IsFragment, IsRecord
  <2>6. /\ MergedPart(f.name, b.name, c.name) = n.name
        /\ MergedPart(f.uuid, b.uuid, c.uuid) = n.uuid
        /\ (IF f.mod = None THEN c.mod ELSE MergedPart(f.mod, b.mod, c.mod)) = ModOf(n)
    BY <1>f, <1>d DEF MergedPart
  <2>7. f.id = n.id /\ f.array = n.array
    BY DEF ComesFrom
  <2> QED BY <1>f, <1>l, <2>1, <2>3, <2>5, <2>6, <2>7
<1> QED BY <1>1, <1>2

-----------------------------------------------------------------------------
(***************************************************************************)
(* What a merge keeps.                                                     *)
(***************************************************************************)
\* A part the two writings agree on is as the bytes have it.
LEMMA PartKept ==
    ASSUME NEW o, NEW b, NEW c, NEW k \in DOMAIN o,
           \/ k \in DOMAIN b /\ k \in DOMAIN c /\ b[k] = c[k]
           \/ k \notin DOMAIN b /\ k \notin DOMAIN c
    PROVE  k \in DOMAIN MergedParts(o, b, c) /\ MergedParts(o, b, c)[k] = o[k]
  BY DEF MergedParts, KeepsKey, Has, MergedPart

\* A part an edit did not change, or the reader does not read, is as the bytes have it.
LEMMA MergedElementKeeps ==
    ASSUME NEW o, NEW e, NEW x, IsElement(o), IsNodeElement(e), e.id = o.id, e.origin = x,
           NEW m, m = MergedElement(o, WrittenElement(ReadElement(o, x)), WrittenElement(e)),
           NEW k \in DOMAIN o.parts,
           k \in ReadKeys => e.vals[k] = ReadElement(o, None).vals[k]
    PROVE  m.id = o.id /\ k \in DOMAIN m.parts /\ m.parts[k] = o.parts[k]
<1> DEFINE r == ReadElement(o, x)
           b == WrittenElement(r)
           c == WrittenElement(e)
<1>1. CASE b = c
  BY <1>1 DEF MergedElement
<1>2. CASE b # c
  <2>1. m = [o EXCEPT !.parts = MergedParts(o.parts, b.parts, c.parts)]
    BY <1>2 DEF MergedElement
  <2>2. m.id = o.id /\ m.parts = MergedParts(o.parts, b.parts, c.parts)
    BY <2>1 DEF IsElement, IsRecord
  <2>b. /\ DOMAIN b.parts \subseteq ReadKeys
        /\ "a" \in DOMAIN b.parts
        /\ "b" \in DOMAIN b.parts <=> r.vals["b"] # "v0"
        /\ \A i \in DOMAIN b.parts : b.parts[i] = [val |-> r.vals[i], how |-> "writer"]
    BY WrittenParts
  <2>c. /\ DOMAIN c.parts \subseteq ReadKeys
        /\ "a" \in DOMAIN c.parts
        /\ "b" \in DOMAIN c.parts <=> e.vals["b"] # "v0"
        /\ \A i \in DOMAIN c.parts : c.parts[i] = [val |-> e.vals[i], how |-> "writer"]
    BY WrittenParts
  <2>3. k \in ReadKeys => e.vals[k] = r.vals[k]
    BY DEF ReadElement
  <2> HIDE DEF b, c, r
  <2>4. \/ k \in DOMAIN b.parts /\ k \in DOMAIN c.parts /\ b.parts[k] = c.parts[k]
        \/ k \notin DOMAIN b.parts /\ k \notin DOMAIN c.parts
    BY <2>b, <2>c, <2>3 DEF ReadKeys
  <2> QED BY <2>2, <2>4, PartKept
<1> QED BY <1>1, <1>2

\* The check of what is kept finds nothing lost of a merge of two elements.
LEMMA ElementNotLost ==
    ASSUME NEW o, NEW b, NEW c, NEW w, w = MergedElement(o, b, c), IsElement(o), o # w
    PROVE  /\ b # c
           /\ DOMAIN o.parts # {} =>
                  \A k \in DOMAIN o.parts :
                      \/ k \in DOMAIN b.parts /\ k \in DOMAIN c.parts /\ b.parts[k] = c.parts[k]
                      \/ k \notin DOMAIN b.parts /\ k \notin DOMAIN c.parts
                      => k \in DOMAIN w.parts /\ w.parts[k] = o.parts[k]
<1>1. b # c
  BY DEF MergedElement
<1>2. ASSUME DOMAIN o.parts # {}, NEW k \in DOMAIN o.parts,
             \/ k \in DOMAIN b.parts /\ k \in DOMAIN c.parts /\ b.parts[k] = c.parts[k]
             \/ k \notin DOMAIN b.parts /\ k \notin DOMAIN c.parts
      PROVE  k \in DOMAIN w.parts /\ w.parts[k] = o.parts[k]
  <2>1. w = [o EXCEPT !.parts = MergedParts(o.parts, b.parts, c.parts)]
    BY <1>1, <1>2 DEF MergedElement
  <2>2. w.parts = MergedParts(o.parts, b.parts, c.parts)
    BY <2>1 DEF IsElement, IsRecord
  <2> QED BY <2>2, <1>2, PartKept
<1> QED BY <1>1, <1>2

\* And nothing of a merge of two entries.
LEMMA MergeLosesNothing ==
    ASSUME NEW n, NEW f, IsNode(n), IsFragment(f), ComesFrom(n, f),
           NEW b, b = regenerateEntryXml(readEntryFragment(f)), NEW c, c = regenerateEntryXml(n)
    PROVE  ~keptPartsOf(f, b, c, mergeEntry(f, b, c))
<1> DEFINE w == mergeEntry(f, b, c)
           v == MergedValue(f, b, c)
<1> SUFFICES ASSUME keptPartsOf(f, b, c, w) PROVE FALSE
  OBVIOUS
<1>1. f # w /\ b # c
  BY DEF keptPartsOf, mergeEntry
<1>2. w = [f EXCEPT !.name = MergedPart(@, b.name, c.name),
                       !.uuid = MergedPart(@, b.uuid, c.uuid),
                       !.mod  = IF @ = None THEN c.mod ELSE MergedPart(@, b.mod, c.mod),
                       !.open = v.open,
                       !.elements = v.elements,
                       !.pairs = v.pairs]
  BY <1>1 DEF mergeEntry
<1>3. /\ w.uuid = MergedPart(f.uuid, b.uuid, c.uuid) /\ w.extra = f.extra
      /\ w.open = v.open /\ w.elements = v.elements
  BY <1>2 DEF IsFragment, IsRecord
<1>4. \A k \in DOMAIN f.elements : IsElement(f.elements[k])
  BY DEF IsFragment
<1>5. f.elements # <<>> => PairsUp(f.elements, b.elements, c.elements)
  BY ElementsPairUp
<1>6. /\ Len(c.elements) = Len(n.elements)
      /\ DOMAIN c.elements = 1 .. Len(n.elements)
      /\ Len(n.elements) \in Nat
  BY NowElements DEF IsNode
<1> HIDE DEF w, v
<1>7. CASE b.open = c.open /\ b.elements = c.elements
  <2>1. v = [open |-> f.open, elements |-> f.elements, pairs |-> f.pairs]
    BY <1>7 DEF MergedValue, v
  <2>2. f.open = w.open /\ f.elements = w.elements
    BY <2>1, <1>3
  <2> QED BY <2>2, <1>1, <1>3, <1>7 DEF keptPartsOf, MergedPart
<1>8. CASE ~(b.open = c.open /\ b.elements = c.elements)
  <2>1. /\ f.pairs /\ f.elements # <<>> /\ b.elements # <<>> /\ c.elements # <<>>
        /\ w.elements # <<>>
    BY <1>1, <1>3, <1>8 DEF keptPartsOf, MergedPart
  <2>2. Mergeable(f, b, c)
    BY <2>1, <1>5 DEF Mergeable
  <2>3. v = [open |-> MergedPart(f.open, b.open, c.open),
              elements |-> MergedElements(f.elements, b.elements, c.elements), pairs |-> TRUE]
    BY <2>2, <1>8 DEF MergedValue, v
  <2>4. b.open = c.open => f.open = w.open
    BY <2>3, <1>3 DEF MergedPart
  <2>5. w.elements = [k \in DOMAIN c.elements |->
            LET j == IF Unmarked(b.elements, c.elements) THEN 1 ELSE c.elements[k].origin
            IN  IF j = None THEN c.elements[k] ELSE MergedElement(f.elements[j], b.elements[j], c.elements[k])]
    BY <2>3, <1>3 DEF MergedElements
  <2>6. Len(w.elements) = Len(c.elements)
    BY <2>5, <1>6
  <2>7. ASSUME Unmarked(b.elements, c.elements), Len(f.elements) = 1, Len(c.elements) = 1
        PROVE  LET o == f.elements[1]
                   x == w.elements[1]
               IN  x = MergedElement(o, b.elements[1], c.elements[1]) /\ IsElement(o)
    <3>1. 1 \in DOMAIN c.elements /\ 1 \in DOMAIN f.elements /\ 1 # None
      BY <2>7, <1>6, BinaryDictionaryAssumption DEF IsFragment, IsRecord
    <3> QED BY <2>5, <2>7, <3>1, <1>4
  <2>8. ASSUME ~Unmarked(b.elements, c.elements), NEW k \in DOMAIN c.elements, NEW j,
               j = c.elements[k].origin, j # None, j \in DOMAIN f.elements
        PROVE  w.elements[k] = MergedElement(f.elements[j], b.elements[j], c.elements[k])
    BY <2>5, <2>8
  <2>9. CASE Unmarked(b.elements, c.elements)
    <3> DEFINE o == f.elements[1]
               be == b.elements[1]
               ce == c.elements[1]
               we == w.elements[1]
    <3>1. /\ Len(f.elements) = 1 /\ Len(c.elements) = 1
          /\ o # we
          /\ \/ be = ce
             \/ /\ DOMAIN o.parts # {}
                /\ \E k \in DOMAIN o.parts :
                    \/ /\ Has(be.parts, k) /\ Has(ce.parts, k) /\ be.parts[k] = ce.parts[k]
                       /\ ~Has(we.parts, k) \/ we.parts[k] # o.parts[k]
                    \/ /\ ~Has(be.parts, k) /\ ~Has(ce.parts, k)
                       /\ ~Has(we.parts, k) \/ we.parts[k] # o.parts[k]
      BY <1>1, <1>3, <1>8, <2>1, <2>4, <2>9 DEF keptPartsOf, MergedPart
    <3>2. we = MergedElement(o, be, ce) /\ IsElement(o)
      BY <2>7, <2>9, <3>1
    <3> HIDE DEF o, be, ce, we
    <3> QED BY <3>1, <3>2, ElementNotLost DEF Has
  <2>10. CASE ~Unmarked(b.elements, c.elements)
    <3>1. PICK k \in DOMAIN c.elements :
            LET j == c.elements[k].origin
                o == f.elements[j]
                be == b.elements[j]
                ce == c.elements[k]
                we == w.elements[k]
            IN  /\ j # None
                /\ j \in DOMAIN f.elements \intersect DOMAIN b.elements
                /\ o # we
                /\ \/ be = ce
                   \/ /\ DOMAIN o.parts # {}
                      /\ \E i \in DOMAIN o.parts :
                        \/ /\ Has(be.parts, i) /\ Has(ce.parts, i) /\ be.parts[i] = ce.parts[i]
                           /\ ~Has(we.parts, i) \/ we.parts[i] # o.parts[i]
                        \/ /\ ~Has(be.parts, i) /\ ~Has(ce.parts, i)
                           /\ ~Has(we.parts, i) \/ we.parts[i] # o.parts[i]
      BY <1>1, <1>3, <1>8, <2>1, <2>4, <2>6, <2>10 DEF keptPartsOf, MergedPart
    <3> DEFINE j == c.elements[k].origin
               o == f.elements[j]
               be == b.elements[j]
               ce == c.elements[k]
               we == w.elements[k]
    <3>2. we = MergedElement(o, be, ce) /\ IsElement(o)
      BY <2>8, <2>10, <3>1, <1>4
    <3>3. /\ o # we
          /\ \/ be = ce
             \/ /\ DOMAIN o.parts # {}
                /\ \E i \in DOMAIN o.parts :
                        \/ /\ Has(be.parts, i) /\ Has(ce.parts, i) /\ be.parts[i] = ce.parts[i]
                           /\ ~Has(we.parts, i) \/ we.parts[i] # o.parts[i]
                        \/ /\ ~Has(be.parts, i) /\ ~Has(ce.parts, i)
                           /\ ~Has(we.parts, i) \/ we.parts[i] # o.parts[i]
      BY <3>1
    <3> HIDE DEF j, o, be, ce, we
    <3> QED BY <3>2, <3>3, ElementNotLost DEF Has
  <2> QED BY <2>9, <2>10
<1> QED BY <1>7, <1>8

\* A merged element is the one of the bytes.
LEMMA MergedElementId ==
    ASSUME NEW o, NEW e, NEW x, IsElement(o), IsNodeElement(e), e.id = o.id
    PROVE  MergedElement(o, WrittenElement(ReadElement(o, x)), WrittenElement(e)).id = o.id
<1>1. \A c : WrittenElement(e).id = o.id /\ [WrittenElement(e) EXCEPT !.origin = None].id = o.id
  BY WrittenIsElement DEF WrittenElement
<1>2. \A p : [o EXCEPT !.parts = p].id = o.id
  BY DEF IsElement, IsRecord
<1> QED BY <1>1, <1>2 DEF MergedElement

\* The edits so far, as the invariant needs them: what was opened, what was touched, and the
\* greatest id given.
\* What is written has kept of the bytes o what the edits did not touch.
ElementKept(f, o, e, tch) ==
    \E g \in Range(f.elements) :
        /\ g.id = e.id
        /\ \A k \in DOMAIN e.parts : <<o.id, e.id, k>> \notin tch =>
               k \in DOMAIN g.parts /\ g.parts[k] = e.parts[k]

Keeps(f, o, tch) ==
    /\ f.scans
    /\ f.extra = o.extra
    /\ o.pairs => f.pairs
    /\ \/ ~o.pairs /\ \E t \in tch : t[1] = o.id
       \/ \A e \in Range(o.elements) : <<o.id, e.id>> \notin tch => ElementKept(f, o, e, tch)

\* A fragment of an entry, opened or added: what it owes to the one opened.
Descends(f, op, tch, top) ==
    /\ f.id \in 1 .. top
    /\ f.uuid \in 1 .. top \union {None}
    /\ ~f.scans => f \in Range(op)
    /\ f.id \notin 1 .. FileIds => AsWritten(f)
    /\ \A o \in Range(op) : f.id = o.id => f.uuid = o.uuid /\ (o.scans => Keeps(f, o, tch))

ChunkOK(chunk, op, tch, top) ==
    IsChunk(chunk) /\ \A i \in DOMAIN chunk : Descends(chunk[i], op, tch, top)

\* The elements of a node, of the bytes s it was read of: those no edit touched are there, and
\* show what they did.
Retains(n, s, tch) ==
    /\ (\A t \in tch : t[1] # n.id) => n.elements = readEntryFragment(s).elements
    /\ \A j \in DOMAIN s.elements : <<n.id, s.elements[j].id>> \notin tch =>
           \E k \in DOMAIN n.elements :
               /\ From(n, k) = j
               /\ \A key \in ReadKeys : <<n.id, s.elements[j].id, key>> \notin tch =>
                      n.elements[k].vals[key] = ReadElement(s.elements[j], None).vals[key]

SourceOK(n, s, op, tch, top) ==
    /\ IsFragment(s)
    /\ Descends(s, op, tch, top)
    /\ ComesFrom(n, s)
    /\ n.source.name = s.name
    /\ n.status \notin {"Modified", "New"} => n.elements = readEntryFragment(s).elements
    /\ Retains(n, s, tch)

NodeOK(n, op, tch, top) ==
    /\ IsNode(n)
    /\ n.status \in {"read", "Modified", "New"}
    /\ n.id \in 1 .. top
    /\ n.uuid \in 1 .. top \union {None}
    /\ n.id \in 1 .. FileIds => HasSource(n)
    /\ HasSource(n) => SourceOK(n, n.source.fragment, op, tch, top)

\* What is opened.
IsOpened(op) ==
    /\ IsChunk(op)
    /\ \A i \in DOMAIN op : op[i].id \in 1 .. FileIds /\ op[i].uuid \in 1 .. FileIds \union {None}

-----------------------------------------------------------------------------
\* The members of a sequence.
LEMMA RangeOf ==
    ASSUME NEW s
    PROVE  Range(s) = {s[i] : i \in DOMAIN s}
  BY DEF Range

\* What an element shows is not of its place.
LEMMA ReadVals ==
    ASSUME NEW e, NEW x, NEW y
    PROVE  ReadElement(e, x).vals = ReadElement(e, y).vals
  BY DEF ReadElement

\* Bytes read are a node of those bytes, that is written as they are.
LEMMA SourcedIs ==
    ASSUME NEW f, IsFragment(f), NEW op, NEW tch, NEW top, Descends(f, op, tch, top),
           NEW x, x # None, NEW i, NEW n, n = Sourced(readEntryFragment(f), x, i, f)
    PROVE  /\ NodeOK(n, op, tch, top)
           /\ ReadsAsNode(f, n)
           /\ HasSource(n) /\ n.source.fragment = f
           /\ entryObjectXml(n) = f
<1> DEFINE es == [k \in DOMAIN f.elements |-> ReadElement(f.elements[k], IF f.array THEN k ELSE None)]
<1>1. n = [id |-> f.id, name |-> f.name, uuid |-> f.uuid, mod |-> f.mod, status |-> "read",
           array |-> f.array, elements |-> es,
           source |-> [frame |-> x, index |-> i, fragment |-> f, name |-> f.name]]
  BY DEF Sourced, readEntryFragment
<1>2. /\ Len(f.elements) \in Nat /\ DOMAIN f.elements = 1 .. Len(f.elements)
      /\ ~f.array => Len(f.elements) = 1
      /\ \A k \in DOMAIN f.elements : IsElement(f.elements[k])
  BY DEF IsFragment, IsRecord
<1>3. /\ Len(es) = Len(f.elements) /\ DOMAIN es = 1 .. Len(f.elements)
      /\ IsRecord(es, 1 .. Len(f.elements))
      /\ \A k \in 1 .. Len(f.elements) : es[k] = ReadElement(f.elements[k], IF f.array THEN k ELSE None)
  BY <1>2 DEF IsRecord
<1>4. \A k \in 1 .. Len(f.elements) :
         IsNodeElement(es[k]) /\ es[k].id = f.elements[k].id
            /\ es[k].origin = IF f.array THEN k ELSE None
  BY <1>3, ReadIsRecord
<1>5. readEntryFragment(f).elements = es
  BY DEF readEntryFragment
<1> HIDE DEF es
<1>6. /\ n.id = f.id /\ n.name = f.name /\ n.uuid = f.uuid /\ n.status = "read"
      /\ n.array = f.array /\ n.elements = es
      /\ n.source = [frame |-> x, index |-> i, fragment |-> f, name |-> f.name]
  BY <1>1
<1>7. IsNode(n)
  <2>1. /\ IsRecord(n, {"id", "name", "uuid", "mod", "status", "array", "elements", "source"})
        /\ IsRecord(n.source, {"frame", "index", "fragment", "name"})
    BY <1>1 DEF IsRecord
  <2>2. ASSUME ~n.array PROVE Len(n.elements) = 1 /\ n.elements[1].origin = None
    <3>1. ~f.array /\ Len(f.elements) = 1
      BY <2>2, <1>2, <1>6
    <3>2. es[1].origin = None
      BY <3>1, <1>4
    <3> QED BY <3>1, <3>2, <1>3, <1>6
  <2>3. Len(es) \in Nat /\ IsRecord(es, 1 .. Len(es)) /\ \A k \in DOMAIN es : IsNodeElement(es[k])
    BY <1>2, <1>3, <1>4
  <2>4. Len(n.elements) \in Nat /\ IsRecord(n.elements, 1 .. Len(n.elements))
        /\ \A k \in DOMAIN n.elements : IsNodeElement(n.elements[k])
    BY <2>3, <1>6
  <2> QED BY <2>1, <2>2, <2>4 DEF IsNode
<1>8. \A k \in 1 .. Len(f.elements) : ReadsAs(f.elements[k], es[k])
  <2>1. \A k \in 1 .. Len(f.elements) : \A y : ReadElement(f.elements[k], y).vals = es[k].vals
    BY <1>3, ReadVals
  <2> QED BY <2>1, <1>2, <1>4 DEF ReadsAs
<1>9. ReadsAsNode(f, n)
  BY <1>3, <1>6, <1>8 DEF ReadsAsNode
<1>10. HasSource(n) /\ n.source.fragment = f /\ n.source.name = f.name
  BY <1>6 DEF HasSource
<1>11. entryObjectXml(n) = f
  BY <1>6, <1>10 DEF entryObjectXml, uneditedBytes
<1>12. ComesFrom(n, f)
  <2>1. ASSUME n.array, NEW k \in DOMAIN n.elements
        PROVE  /\ n.elements[k].origin = k
               /\ k \in DOMAIN f.elements /\ n.elements[k].id = f.elements[k].id
    BY <2>1, <1>2, <1>3, <1>4, <1>6
  <2>2. ~n.array => n.elements[1].id = f.elements[1].id
    BY <1>2, <1>4, <1>6
  <2> QED BY <2>1, <2>2, <1>6 DEF ComesFrom
<1>13. Retains(n, f, tch)
  <2>1. ASSUME NEW j \in DOMAIN f.elements
        PROVE  /\ j \in DOMAIN n.elements
               /\ From(n, j) = j
               /\ n.elements[j].vals = ReadElement(f.elements[j], None).vals
    <3>1. n.array => From(n, j) = j
      BY <1>2, <1>3, <1>4, <1>6 DEF From
    <3>2. ~n.array => From(n, j) = j
      BY <1>2, <1>6 DEF From
    <3>3. n.elements[j].vals = ReadElement(f.elements[j], None).vals
      BY <1>2, <1>3, <1>6, ReadVals
    <3> QED BY <3>1, <3>2, <3>3, <1>2, <1>3, <1>6
  <2> QED BY <2>1, <1>5, <1>6 DEF Retains
<1>14. n.id \in 1 .. top /\ n.uuid \in 1 .. top \union {None}
  BY <1>6 DEF Descends
<1> QED BY <1>5, <1>6, <1>7, <1>9, <1>10, <1>11, <1>12, <1>13, <1>14 DEF NodeOK, SourceOK

\* And an entry added has none.
LEMMA UnsourcedIs ==
    ASSUME NEW f, IsFragment(f), NEW op, NEW tch, NEW top, Descends(f, op, tch, top), f.id \notin 1 .. FileIds,
           NEW n, n = readEntryFragment(f)
    PROVE  /\ NodeOK(n, op, tch, top) /\ ReadsAsNode(f, n) /\ ~HasSource(n)
           /\ f = entryObjectXml(n)
<1> DEFINE m == Sourced(n, 0, 0, f)
<1>1. NodeOK(m, op, tch, top) /\ ReadsAsNode(f, m)
  BY SourcedIs, BinaryDictionaryAssumption
<1>2. /\ n.id = m.id /\ n.name = m.name /\ n.uuid = m.uuid /\ n.status = m.status
      /\ n.array = m.array /\ n.elements = m.elements /\ n.source = NoSource
      /\ m.id = f.id
  BY DEF Sourced, readEntryFragment
<1>3. IsRecord(n, {"id", "name", "uuid", "mod", "status", "array", "elements", "source"})
  BY DEF readEntryFragment, IsRecord
<1>4. IsRecord(n.source, {"frame", "index", "fragment", "name"})
  BY <1>2 DEF NoSource, IsRecord
<1>5. ~HasSource(n)
  BY <1>2 DEF NoSource, HasSource
<1>6. ReadsAsNode(f, n)
  BY <1>1, <1>2 DEF ReadsAsNode
<1> HIDE DEF m
<1>7. IsNode(n)
  BY <1>1, <1>2, <1>3, <1>4 DEF NodeOK, IsNode
<1>8. f = Line(n)
  BY DEF Descends, AsWritten
<1>9. f = entryObjectXml(n)
  BY <1>5, <1>8 DEF entryObjectXml, uneditedBytes, mergedEntry
<1> QED BY <1>1, <1>2, <1>5, <1>6, <1>7, <1>9 DEF NodeOK

\* A merge keeps of the bytes opened what no edit touched.
LEMMA MergeKeeps ==
    ASSUME NEW n, NEW s, IsNode(n), NEW op, NEW tch, NEW top, SourceOK(n, s, op, tch, top),
           NEW o, o.id = s.id, Keeps(s, o, tch),
           NEW b, b = regenerateEntryXml(readEntryFragment(s)), NEW c, c = regenerateEntryXml(n),
           NEW m, m = mergeEntry(s, b, c)
    PROVE  Keeps(m, o, tch)
<1> DEFINE v == MergedValue(s, b, c)
<1>1. IsFragment(s) /\ ComesFrom(n, s) /\ Retains(n, s, tch) /\ n.id = o.id
  BY DEF SourceOK, ComesFrom
<1>2. m.scans = s.scans /\ m.extra = s.extra /\ m.elements = v.elements /\ m.pairs = v.pairs
  BY <1>1, MergeIs
<1>3. s.scans /\ s.extra = o.extra /\ (o.pairs => s.pairs)
  BY DEF Keeps
<1>4. o.pairs => m.pairs
  BY <1>2, <1>3 DEF MergedValue
<1>b. /\ b.open = [val |-> Len(s.elements), how |-> "writer"]
      /\ DOMAIN s.elements = 1 .. Len(s.elements)
      /\ Len(s.elements) \in Nat
  BY <1>1, BaseElements DEF IsFragment
<1>c. /\ c.open = [val |-> Len(n.elements), how |-> "writer"]
      /\ DOMAIN c.elements = 1 .. Len(n.elements)
      /\ DOMAIN n.elements = 1 .. Len(n.elements)
      /\ \A i \in DOMAIN n.elements : IsNodeElement(n.elements[i])
  BY NowElements DEF IsNode
<1> HIDE DEF v
<1>5. CASE ~o.pairs /\ \E t \in tch : t[1] = o.id
  BY <1>2, <1>3, <1>4, <1>5 DEF Keeps
<1>6. CASE ~(~o.pairs /\ \E t \in tch : t[1] = o.id)
  <2>1. SUFFICES ASSUME NEW e \in Range(o.elements), <<o.id, e.id>> \notin tch
                 PROVE  ElementKept(m, o, e, tch)
    BY <1>2, <1>3, <1>4 DEF Keeps
  <2>2. ElementKept(s, o, e, tch)
    BY <2>1, <1>6 DEF Keeps
  <2>3. CASE b.open = c.open /\ b.elements = c.elements
    <3>1. v = [open |-> s.open, elements |-> s.elements, pairs |-> s.pairs]
      BY <2>3 DEF MergedValue, v
    <3>2. m.elements = s.elements
      BY <3>1, <1>2
    <3> QED BY <3>2, <2>2 DEF ElementKept
  <2>4. CASE ~(b.open = c.open /\ b.elements = c.elements)
    <3>1. PICK j \in DOMAIN s.elements :
              /\ s.elements[j].id = e.id
              /\ \A k \in DOMAIN e.parts : <<o.id, e.id, k>> \notin tch =>
                     k \in DOMAIN s.elements[j].parts /\ s.elements[j].parts[k] = e.parts[k]
      BY <2>2 DEF ElementKept, Range
    <3>2. PICK i \in DOMAIN n.elements :
              /\ From(n, i) = j
              /\ \A key \in ReadKeys : <<n.id, s.elements[j].id, key>> \notin tch =>
                      n.elements[i].vals[key] = ReadElement(s.elements[j], None).vals[key]
      BY <1>1, <2>1, <3>1 DEF Retains
    <3>3. \E t \in tch : t[1] = n.id
      <4>1. SUFFICES ASSUME n.elements = readEntryFragment(s).elements PROVE FALSE
        BY <1>1 DEF Retains
      <4>2. b.open = c.open /\ b.elements = c.elements
        BY <4>1 DEF regenerateEntryXml
      <4> QED BY <4>2, <2>4
    <3>4. s.pairs
      BY <3>3, <1>1, <1>3, <1>6
    <3>5. s.elements # <<>> /\ b.elements # <<>> /\ c.elements # <<>>
      <4>1. DOMAIN b.elements = 1 .. Len(s.elements)
        BY <1>1, BaseElements
      <4>2. j \in 1 .. Len(s.elements) /\ i \in 1 .. Len(n.elements)
        BY <1>b, <1>c
      <4> QED BY <4>1, <4>2, <1>b, <1>c
    <3>6. Mergeable(s, b, c)
      BY <1>1, <3>4, <3>5, ElementsPairUp DEF Mergeable
    <3>7. v = [open |-> MergedPart(s.open, b.open, c.open),
              elements |-> MergedElements(s.elements, b.elements, c.elements), pairs |-> TRUE]
      BY <2>4, <3>6 DEF MergedValue, v
    <3> DEFINE x == n.elements[i].origin
               p == s.elements[j]
               g == n.elements[i]
               z == MergedElement(p, WrittenElement(ReadElement(p, x)), WrittenElement(g))
    <3>8. j # None
      BY <1>b, BinaryDictionaryAssumption
    <3>9. n.elements[i].id = s.elements[j].id
          /\ MergedElements(s.elements, b.elements, c.elements)[i] = z
      BY <1>1, <3>2, <3>5, <3>8, MergedOfElement
    <3>10. /\ IsElement(p) /\ IsNodeElement(g) /\ g.id = p.id /\ g.origin = x
      BY <1>1, <1>c, <3>9 DEF IsFragment
    <3>11. /\ m.elements[i] = z
           /\ i \in DOMAIN m.elements
      BY <1>2, <1>c, <3>7, <3>9 DEF MergedElements
    <3> HIDE DEF z
    <3>12. ASSUME NEW k \in DOMAIN e.parts, <<o.id, e.id, k>> \notin tch
           PROVE  z.id = p.id /\ k \in DOMAIN z.parts /\ z.parts[k] = e.parts[k]
      <4>1. k \in DOMAIN p.parts /\ p.parts[k] = e.parts[k]
        BY <3>1, <3>12
      <4>2. k \in ReadKeys => g.vals[k] = ReadElement(p, None).vals[k]
        BY <1>1, <3>1, <3>2, <3>12
      <4> HIDE DEF p, g, x
      <4>3. z.id = p.id /\ k \in DOMAIN z.parts /\ z.parts[k] = p.parts[k]
        BY <3>10, <4>1, <4>2, MergedElementKeeps DEF z
      <4> QED BY <4>1, <4>3
    <3>13. z.id = p.id
      <4>1. z.id = p.id
        BY <3>10, MergedElementId DEF z
      <4> QED BY <4>1
    <3> QED BY <3>1, <3>11, <3>12, <3>13 DEF ElementKept, Range
  <2> QED BY <2>3, <2>4
<1> QED BY <1>5, <1>6

\* However an entry comes to be written, it is read as the node, and owes the file what it should.
LEMMA EntryIs ==
    ASSUME NEW n, NEW op, NEW tch, NEW top, IsOpened(op), NodeOK(n, op, tch, top),
           NEW w, w = entryObjectXml(n)
    PROVE  ReadsAsNode(w, n) /\ Descends(w, op, tch, top)
<1> DEFINE s == n.source.fragment
<1>1. IsNode(n) /\ n.id \in 1 .. top /\ n.uuid \in 1 .. top \union {None}
  BY DEF NodeOK
<1>2. CASE ~HasSource(n)
  <2>1. w = Line(n)
    BY <1>2 DEF entryObjectXml, uneditedBytes, mergedEntry
  <2>2. ReadsAsNode(w, n) /\ w.scans /\ w.id = n.id /\ w.uuid = n.uuid
    BY <1>1, <2>1, LineReads DEF ReadsAsNode
  <2>3. n.id \notin 1 .. FileIds
    BY <1>2 DEF NodeOK
  <2>4. \A o \in Range(op) : o.id # w.id
    BY <2>2, <2>3 DEF IsOpened, Range
  <2>5. AsWritten(w)
    BY <1>1, <2>1, LineAsWritten
  <2> QED BY <1>1, <2>2, <2>4, <2>5 DEF Descends
<1>3. CASE HasSource(n) /\ uneditedBytes(n)
  <2>1. w = s
    BY <1>3 DEF entryObjectXml
  <2>2. SourceOK(n, s, op, tch, top) /\ n.elements = readEntryFragment(s).elements /\ n.name = s.name
    BY <1>3 DEF NodeOK, SourceOK, uneditedBytes
  <2>3. /\ IsFragment(s) /\ Descends(s, op, tch, top)
        /\ n.id = s.id /\ n.uuid = s.uuid /\ n.array = s.array
    BY <2>2 DEF SourceOK, ComesFrom
  <2> DEFINE r == Sourced(readEntryFragment(s), 0, 0, s)
  <2>4. ReadsAsNode(s, r)
    BY <2>3, SourcedIs, BinaryDictionaryAssumption
  <2>5. r.elements = n.elements /\ r.id = n.id /\ r.name = n.name /\ r.uuid = n.uuid /\ r.array = n.array
    BY <2>2, <2>3 DEF Sourced, readEntryFragment
  <2> HIDE DEF r, s
  <2>6. ReadsAsNode(s, n)
    BY <2>4, <2>5 DEF ReadsAsNode
  <2> QED BY <2>1, <2>3, <2>6
<1>4. CASE HasSource(n) /\ ~uneditedBytes(n) /\ s.scans
  <2>1. SourceOK(n, s, op, tch, top) /\ IsFragment(s) /\ ComesFrom(n, s) /\ Descends(s, op, tch, top)
    BY <1>4 DEF NodeOK, SourceOK
  <2>2. mergedEntry(n)
    BY <1>1, <1>4, <2>1, MergeReadsAsModel
  <2>3. w = Merged(n)
    BY <1>4, <2>2 DEF entryObjectXml
  <2> DEFINE b == regenerateEntryXml(readEntryFragment(s))
             c == regenerateEntryXml(n)
             m == mergeEntry(s, b, c)
  <2>4. w = m
    BY <2>3 DEF Merged, baseOf
  <2> HIDE DEF b, c, s
  <2>5. ReadsAsNode(m, n) /\ m.scans = s.scans
    BY <1>1, <2>1, MergeIs DEF b, c
  <2>6. \A o : o.id = s.id /\ Keeps(s, o, tch) => Keeps(m, o, tch)
    BY <1>1, <2>1, MergeKeeps DEF b, c
  <2> HIDE DEF m
  <2>7. m.id = s.id /\ m.uuid = s.uuid
    BY <2>1, <2>5 DEF ReadsAsNode, ComesFrom
  <2>8. m.id \notin 1 .. FileIds => AsWritten(m)
    <3>1. SUFFICES ASSUME m.id \notin 1 .. FileIds PROVE AsWritten(m)
      OBVIOUS
    <3>2. AsWritten(s)
      BY <2>1, <2>7, <3>1 DEF Descends
    <3>3. m = Line(n)
      BY <1>1, <2>1, <3>2, MergeOfWritten DEF b, c, m
    <3> QED BY <1>1, <3>3, LineAsWritten
  <2>9. Descends(m, op, tch, top)
    BY <1>4, <2>1, <2>5, <2>6, <2>7, <2>8 DEF Descends
  <2> QED BY <2>4, <2>5, <2>9
<1>5. CASE HasSource(n) /\ ~uneditedBytes(n) /\ ~s.scans
  <2>1. w = Line(n)
    BY <1>5 DEF entryObjectXml, mergedEntry
  <2>2. ReadsAsNode(w, n) /\ w.scans /\ w.id = n.id /\ w.uuid = n.uuid
    BY <1>1, <2>1, LineReads DEF ReadsAsNode
  <2>3. Descends(s, op, tch, top) /\ s.id = n.id /\ s.uuid = n.uuid
    BY <1>5 DEF NodeOK, SourceOK, ComesFrom
  <2>4. \A o \in Range(op) : o.id = s.id => o.uuid = s.uuid /\ ~o.scans
    BY <1>5, <2>3 DEF Descends, Keeps
  <2>5. AsWritten(w)
    BY <1>1, <2>1, LineAsWritten
  <2> QED BY <1>1, <2>2, <2>3, <2>4, <2>5 DEF Descends
<1> QED BY <1>2, <1>3, <1>4, <1>5

\* Only bytes the scan does not read can be written as such.
LEMMA UnreadIsSource ==
    ASSUME NEW n, NEW op, NEW tch, NEW top, IsOpened(op), NodeOK(n, op, tch, top),
           NEW w, w = entryObjectXml(n), ~w.scans
    PROVE  HasSource(n) /\ uneditedBytes(n) /\ n.source.fragment = w
<1> DEFINE s == n.source.fragment
<1>1. IsNode(n)
  BY DEF NodeOK
<1>2. uneditedBytes(n)
  <2>1. SUFFICES ASSUME ~uneditedBytes(n) PROVE FALSE
    OBVIOUS
  <2>2. CASE mergedEntry(n)
    <3>1. HasSource(n) /\ s.scans /\ w = Merged(n)
      BY <2>1, <2>2 DEF mergedEntry, entryObjectXml
    <3>2. IsFragment(s) /\ ComesFrom(n, s)
      BY <3>1 DEF NodeOK, SourceOK
    <3>3. Merged(n) = mergeEntry(s, regenerateEntryXml(readEntryFragment(s)), regenerateEntryXml(n))
      BY DEF Merged, baseOf
    <3> HIDE DEF s
    <3>4. Merged(n).scans = s.scans
      BY <1>1, <3>2, <3>3, MergeIs
    <3> QED BY <3>1, <3>4
  <2>3. CASE ~mergedEntry(n)
    <3>1. w = Line(n)
      BY <2>1, <2>3 DEF entryObjectXml
    <3> QED BY <3>1, <1>1, LineReads
  <2> QED BY <2>2, <2>3
<1> QED BY <1>2 DEF uneditedBytes, entryObjectXml

-----------------------------------------------------------------------------
(***************************************************************************)
(* Sequences.                                                              *)
(***************************************************************************)
IsSeq(s) == Len(s) \in Nat /\ IsRecord(s, 1 .. Len(s))

\* What is taken of a sequence.
LEMMA SeqFacts ==
    ASSUME NEW s, IsSeq(s)
    PROVE  /\ s \in Seq(Range(s)) /\ DOMAIN s = 1 .. Len(s)
           /\ \A S : (\A i \in 1 .. Len(s) : s[i] \in S) => s \in Seq(S)
<1>1. DOMAIN s = 1 .. Len(s) /\ Len(s) \in Nat /\ s = [i \in 1 .. Len(s) |-> s[i]]
  BY DEF IsSeq, IsRecord
<1>2. ASSUME NEW S, \A i \in 1 .. Len(s) : s[i] \in S PROVE s \in Seq(S)
  <2>1. s \in [1 .. Len(s) -> S]
    BY <1>1, <1>2
  <2> QED BY <2>1, <1>1, SeqDef
<1>3. \A i \in 1 .. Len(s) : s[i] \in Range(s)
  BY <1>1 DEF Range
<1> QED BY <1>1, <1>2, <1>3

\* A function on the numbers up to n is a sequence.
LEMMA SeqIs ==
    ASSUME NEW S, NEW s \in Seq(S)
    PROVE  IsSeq(s)
  BY LenProperties DEF IsSeq, IsRecord

\* Two sequences are the same if they have the same members in the same places.
LEMMA SeqSame ==
    ASSUME NEW s, NEW t, IsSeq(s), IsSeq(t), Len(s) = Len(t), \A i \in 1 .. Len(s) : s[i] = t[i]
    PROVE  s = t
  BY DEF IsSeq, IsRecord

\* Where the members are of each way to change a sequence.
LEMMA AppendIs ==
    ASSUME NEW s, IsSeq(s), NEW e
    PROVE  /\ IsSeq(Append(s, e))
           /\ Len(Append(s, e)) = Len(s) + 1
           /\ DOMAIN Append(s, e) = 1 .. Len(s) + 1
           /\ \A i \in 1 .. Len(s) : Append(s, e)[i] = s[i]
           /\ Append(s, e)[Len(s) + 1] = e
<1> DEFINE S == Range(s) \union {e}
<1>1. s \in Seq(S)
  BY SeqFacts DEF Range
<1>2. e \in S
  OBVIOUS
<1> HIDE DEF S
<1>3. /\ Append(s, e) \in Seq(S)
      /\ Len(Append(s, e)) = Len(s) + 1
      /\ \A i \in 1 .. Len(s) : Append(s, e)[i] = s[i]
      /\ Append(s, e)[Len(s) + 1] = e
  BY <1>1, <1>2, AppendProperties
<1>4. IsSeq(Append(s, e))
  BY <1>3, SeqIs
<1> QED BY <1>3, <1>4, SeqFacts

LEMMA RemoveAtIs ==
    ASSUME NEW s, IsSeq(s), NEW k \in 1 .. Len(s)
    PROVE  /\ IsSeq(RemoveAt(s, k))
           /\ Len(RemoveAt(s, k)) = Len(s) - 1
           /\ DOMAIN RemoveAt(s, k) = 1 .. Len(s) - 1
           /\ \A i \in 1 .. Len(s) - 1 : RemoveAt(s, k)[i] = IF i < k THEN s[i] ELSE s[i + 1]
<1> DEFINE S == Range(s)
           a == SubSeq(s, 1, k - 1)
           b == SubSeq(s, k + 1, Len(s))
<1>1. s \in Seq(S) /\ Len(s) \in Nat /\ \A i \in 1 .. Len(s) : s[i] \in S
  BY SeqFacts DEF Range, IsSeq
<1> HIDE DEF S
<1>2. a \in Seq(S) /\ Len(a) = k - 1 /\ \A i \in 1 .. k - 1 : a[i] = s[i]
  <2>1. k \in Int /\ k - 1 \in Int /\ \A i \in 1 .. k - 1 : s[i] \in S
    BY <1>1
  <2>2. /\ a \in Seq(S)
        /\ Len(a) = IF 1 <= k - 1 THEN k - 1 - 1 + 1 ELSE 0
        /\ \A i \in 1 .. (k - 1) - 1 + 1 : a[i] = s[1 + i - 1]
    BY <2>1, SubSeqProperties
  <2>3. Len(a) = k - 1
    BY <2>1, <2>2
  <2>4. \A i \in 1 .. k - 1 : i \in 1 .. (k - 1) - 1 + 1 /\ 1 + i - 1 = i
    BY <2>1
  <2> QED BY <2>2, <2>3, <2>4
<1>3. b \in Seq(S) /\ Len(b) = Len(s) - k /\ \A i \in 1 .. Len(s) - k : b[i] = s[k + i]
  <2>1. k \in Int /\ k + 1 \in Int /\ Len(s) \in Int /\ \A i \in k + 1 .. Len(s) : s[i] \in S
    BY <1>1
  <2>2. /\ b \in Seq(S)
        /\ Len(b) = IF k + 1 <= Len(s) THEN Len(s) - (k + 1) + 1 ELSE 0
        /\ \A i \in 1 .. Len(s) - (k + 1) + 1 : b[i] = s[k + 1 + i - 1]
    BY <2>1, SubSeqProperties
  <2>3. Len(b) = Len(s) - k
    BY <2>1, <2>2
  <2>4. \A i \in 1 .. Len(s) - k : i \in 1 .. Len(s) - (k + 1) + 1 /\ k + 1 + i - 1 = k + i
    BY <2>1
  <2> QED BY <2>2, <2>3, <2>4
<1>4. RemoveAt(s, k) = a \o b
  BY DEF RemoveAt
<1> HIDE DEF a, b
<1>5. /\ a \o b \in Seq(S)
      /\ Len(a \o b) = Len(a) + Len(b)
      /\ \A i \in 1 .. Len(a) + Len(b) : (a \o b)[i] = IF i <= Len(a) THEN a[i] ELSE b[i - Len(a)]
  BY <1>2, <1>3, ConcatProperties
<1>6. Len(a) + Len(b) = Len(s) - 1
  BY <1>1, <1>2, <1>3
<1>7. ASSUME NEW i \in 1 .. Len(s) - 1
      PROVE  (a \o b)[i] = IF i < k THEN s[i] ELSE s[i + 1]
  <2>1. (a \o b)[i] = IF i <= k - 1 THEN a[i] ELSE b[i - (k - 1)]
    BY <1>2, <1>5, <1>6
  <2>2. CASE i < k
    BY <1>1, <1>2, <2>1, <2>2
  <2>3. CASE ~(i < k)
    <3>1. i - (k - 1) \in 1 .. Len(s) - k /\ k + (i - (k - 1)) = i + 1
      BY <1>1, <2>3
    <3>2. b[i - (k - 1)] = s[k + (i - (k - 1))]
      BY <1>3, <3>1
    <3> QED BY <1>1, <2>1, <2>3, <3>1, <3>2
  <2> QED BY <2>2, <2>3
<1>8. IsSeq(a \o b) /\ DOMAIN (a \o b) = 1 .. Len(a \o b)
  BY <1>5, SeqIs, SeqFacts
<1> QED BY <1>4, <1>5, <1>6, <1>7, <1>8

LEMMA InsertAtIs ==
    ASSUME NEW s, IsSeq(s), NEW k \in 1 .. Len(s) + 1, NEW e
    PROVE  /\ IsSeq(InsertAt(s, k, e))
           /\ Len(InsertAt(s, k, e)) = Len(s) + 1
           /\ DOMAIN InsertAt(s, k, e) = 1 .. Len(s) + 1
           /\ \A i \in 1 .. Len(s) + 1 :
                  InsertAt(s, k, e)[i] = IF i < k THEN s[i] ELSE IF i = k THEN e ELSE s[i - 1]
<1> DEFINE S == Range(s) \union {e}
           a == SubSeq(s, 1, k - 1)
           b == SubSeq(s, k, Len(s))
           c == <<e>>
<1>1. s \in Seq(S) /\ Len(s) \in Nat /\ e \in S /\ \A i \in 1 .. Len(s) : s[i] \in S
  BY SeqFacts DEF Range, IsSeq
<1> HIDE DEF S
<1>2. a \in Seq(S) /\ Len(a) = k - 1 /\ \A i \in 1 .. k - 1 : a[i] = s[i]
  <2>1. k \in Int /\ k - 1 \in Int /\ \A i \in 1 .. k - 1 : s[i] \in S
    BY <1>1
  <2>2. /\ a \in Seq(S)
        /\ Len(a) = IF 1 <= k - 1 THEN k - 1 - 1 + 1 ELSE 0
        /\ \A i \in 1 .. (k - 1) - 1 + 1 : a[i] = s[1 + i - 1]
    BY <2>1, SubSeqProperties
  <2>3. Len(a) = k - 1
    BY <2>1, <2>2
  <2>4. \A i \in 1 .. k - 1 : i \in 1 .. (k - 1) - 1 + 1 /\ 1 + i - 1 = i
    BY <2>1
  <2> QED BY <2>2, <2>3, <2>4
<1>3. b \in Seq(S) /\ Len(b) = Len(s) - k + 1 /\ \A i \in 1 .. Len(s) - k + 1 : b[i] = s[k + i - 1]
  <2>1. k \in Int /\ Len(s) \in Int /\ \A i \in k .. Len(s) : s[i] \in S
    BY <1>1
  <2>2. /\ b \in Seq(S)
        /\ Len(b) = IF k <= Len(s) THEN Len(s) - k + 1 ELSE 0
        /\ \A i \in 1 .. Len(s) - k + 1 : b[i] = s[k + i - 1]
    BY <2>1, SubSeqProperties
  <2>3. Len(b) = Len(s) - k + 1
    BY <2>1, <2>2
  <2> QED BY <2>2, <2>3
<1>4. InsertAt(s, k, e) = (a \o c) \o b
  BY DEF InsertAt
<1>c. c \in Seq(S) /\ Len(c) = 1 /\ c[1] = e
  BY <1>1
<1> HIDE DEF a, b, c
<1>5. /\ a \o c \in Seq(S)
      /\ Len(a \o c) = Len(a) + Len(c)
      /\ \A i \in 1 .. Len(a) + Len(c) : (a \o c)[i] = IF i <= Len(a) THEN a[i] ELSE c[i - Len(a)]
  BY <1>2, <1>c, ConcatProperties
<1> DEFINE d == a \o c
           r == d \o b
<1>6. /\ Len(d) = k
      /\ \A i \in 1 .. k : d[i] = IF i < k THEN s[i] ELSE e
  <2>1. Len(d) = k
    BY <1>2, <1>c, <1>5
  <2>2. ASSUME NEW i \in 1 .. k PROVE d[i] = IF i < k THEN s[i] ELSE e
    <3>1. d[i] = IF i <= k - 1 THEN a[i] ELSE c[i - (k - 1)]
      BY <1>2, <1>c, <1>5
    <3>2. ~(i < k) => i - (k - 1) = 1
      BY <1>1
    <3>3. i < k => i \in 1 .. k - 1 /\ i <= k - 1
      BY <1>1
    <3>4. ~(i < k) => ~(i <= k - 1)
      BY <1>1
    <3> QED BY <1>2, <1>c, <3>1, <3>2, <3>3, <3>4
  <2> QED BY <2>1, <2>2
<1>d. d \in Seq(S)
  BY <1>5
<1> HIDE DEF d
<1>7. /\ r \in Seq(S)
      /\ Len(r) = Len(d) + Len(b)
      /\ \A i \in 1 .. Len(d) + Len(b) : r[i] = IF i <= Len(d) THEN d[i] ELSE b[i - Len(d)]
  BY <1>3, <1>d, ConcatProperties
<1>8. Len(d) + Len(b) = Len(s) + 1
  BY <1>1, <1>3, <1>6
<1> HIDE DEF r
<1>9. ASSUME NEW i \in 1 .. Len(s) + 1
      PROVE  r[i] = IF i < k THEN s[i] ELSE IF i = k THEN e ELSE s[i - 1]
  <2>1. r[i] = IF i <= k THEN d[i] ELSE b[i - k]
    BY <1>6, <1>7, <1>8
  <2>2. CASE i <= k
    BY <1>1, <1>6, <2>1, <2>2
  <2>3. CASE ~(i <= k)
    <3>1. i - k \in 1 .. Len(s) - k + 1 /\ k + (i - k) - 1 = i - 1
      BY <1>1, <2>3
    <3>2. b[i - k] = s[k + (i - k) - 1]
      BY <1>3, <3>1
    <3> QED BY <1>1, <2>1, <2>3, <3>1, <3>2
  <2> QED BY <2>2, <2>3
<1>10. IsSeq(r) /\ DOMAIN r = 1 .. Len(r)
  BY <1>7, SeqIs, SeqFacts
<1> QED BY <1>4, <1>7, <1>8, <1>9, <1>10 DEF r, d

LEMMA FrontIs ==
    ASSUME NEW s, IsSeq(s), s # <<>>
    PROVE  /\ Len(s) \in Nat \ {0} /\ Last(s) = s[Len(s)]
           /\ IsSeq(Front(s))
           /\ Len(Front(s)) = Len(s) - 1
           /\ DOMAIN Front(s) = 1 .. Len(s) - 1
           /\ \A i \in 1 .. Len(s) - 1 : Front(s)[i] = s[i]
<1> DEFINE S == Range(s)
           a == SubSeq(s, 1, Len(s) - 1)
<1>1. s \in Seq(S) /\ Len(s) \in Nat /\ \A i \in 1 .. Len(s) : s[i] \in S
  BY SeqFacts DEF Range, IsSeq
<1> HIDE DEF S
<1>2. Len(s) \in Nat \ {0}
  BY <1>1, EmptySeq
<1>3. \A i \in 1 .. Len(s) - 1 : s[i] \in S
  BY <1>1
<1>4. /\ a \in Seq(S)
      /\ Len(a) = IF 1 <= Len(s) - 1 THEN Len(s) - 1 - 1 + 1 ELSE 0
      /\ \A i \in 1 .. (Len(s) - 1) - 1 + 1 : a[i] = s[1 + i - 1]
  <2>1. Len(s) - 1 \in Int /\ 1 \in Int
    BY <1>1
  <2> QED BY <2>1, <1>3, SubSeqProperties
<1>5. Len(a) = Len(s) - 1
  <2> DEFINE l == Len(s)
             m == Len(a)
  <2>1. l \in Nat \ {0} /\ m = IF 1 <= l - 1 THEN l - 1 - 1 + 1 ELSE 0
    BY <1>2, <1>4
  <2> HIDE DEF l, m
  <2>2. m = l - 1
    BY <2>1
  <2> QED BY <2>2 DEF l, m
<1>6. \A i \in 1 .. Len(s) - 1 : i \in 1 .. (Len(s) - 1) - 1 + 1 /\ 1 + i - 1 = i
  BY <1>2
<1> HIDE DEF a
<1>7. IsSeq(a) /\ DOMAIN a = 1 .. Len(a)
  BY <1>4, SeqIs, SeqFacts
<1> QED BY <1>2, <1>4, <1>5, <1>6, <1>7 DEF Front, Last, a

LEMMA ExceptIs ==
    ASSUME NEW s, IsSeq(s), NEW k \in 1 .. Len(s), NEW e
    PROVE  /\ IsSeq([s EXCEPT ![k] = e])
           /\ Len([s EXCEPT ![k] = e]) = Len(s)
           /\ DOMAIN [s EXCEPT ![k] = e] = 1 .. Len(s)
           /\ \A i \in 1 .. Len(s) : [s EXCEPT ![k] = e][i] = IF i = k THEN e ELSE s[i]
<1> DEFINE S == Range(s) \union {e}
<1>1. s \in Seq(S) /\ e \in S
  BY SeqFacts DEF Range
<1> HIDE DEF S
<1>2. /\ [s EXCEPT ![k] = e] \in Seq(S)
      /\ Len([s EXCEPT ![k] = e]) = Len(s)
      /\ \A j \in 1 .. Len(s) : [s EXCEPT ![k] = e][j] = IF j=k THEN e ELSE s[j]
  BY <1>1, ExceptSeq
<1>3. IsSeq([s EXCEPT ![k] = e])
  BY <1>2, SeqIs
<1> QED BY <1>2, <1>3, SeqFacts

\* What is put in and taken out again leaves the sequence as it was.
LEMMA RemoveOfInsert ==
    ASSUME NEW s, IsSeq(s), NEW k \in 1 .. Len(s) + 1, NEW e
    PROVE  RemoveAt(InsertAt(s, k, e), k) = s
<1> DEFINE t == InsertAt(s, k, e)
           r == RemoveAt(t, k)
<1>1. /\ IsSeq(t) /\ Len(t) = Len(s) + 1 /\ Len(s) \in Nat
      /\ \A i \in 1 .. Len(s) + 1 : t[i] = IF i < k THEN s[i] ELSE IF i = k THEN e ELSE s[i - 1]
  BY InsertAtIs DEF IsSeq
<1> HIDE DEF t
<1>2. k \in 1 .. Len(t)
  BY <1>1
<1>3. /\ IsSeq(r) /\ Len(r) = Len(t) - 1
      /\ \A i \in 1 .. Len(t) - 1 : r[i] = IF i < k THEN t[i] ELSE t[i + 1]
  BY <1>1, <1>2, RemoveAtIs
<1> HIDE DEF r
<1>4. ASSUME NEW i \in 1 .. Len(s) PROVE r[i] = s[i]
  BY <1>1, <1>3
<1>5. Len(r) = Len(s)
  BY <1>1, <1>3
<1>6. r = s
  BY <1>3, <1>4, <1>5, SeqSame
<1> QED BY <1>6 DEF r, t

\* The least of one number.
LEMMA MinOfOne ==
    ASSUME NEW k \in Int
    PROVE  Min({k}) = k
  BY DEF Min

-----------------------------------------------------------------------------
(***************************************************************************)
(* What holds of fragments and nodes holds still when more has been        *)
(* touched and more ids given.                                             *)
(***************************************************************************)
LEMMA DescendsMore ==
    ASSUME NEW f, NEW op, NEW tch, NEW top \in Int, Descends(f, op, tch, top),
           NEW tch2, tch \subseteq tch2, NEW top2 \in Int, top <= top2
    PROVE  Descends(f, op, tch2, top2)
<1>1. ASSUME NEW o, Keeps(f, o, tch) PROVE Keeps(f, o, tch2)
  <2>1. \A e : ElementKept(f, o, e, tch) => ElementKept(f, o, e, tch2)
    BY DEF ElementKept
  <2> QED BY <1>1, <2>1 DEF Keeps
<1>2. f.id \in 1 .. top2
  BY DEF Descends
<1> QED BY <1>1, <1>2 DEF Descends

\* So do those of a chunk.
LEMMA ChunkMore ==
    ASSUME NEW c, NEW op, NEW tch, NEW top \in Int, ChunkOK(c, op, tch, top),
           NEW tch2, tch \subseteq tch2, NEW top2 \in Int, top <= top2
    PROVE  ChunkOK(c, op, tch2, top2)
  BY DescendsMore DEF ChunkOK

\* A node has kept no less.
LEMMA RetainsMore ==
    ASSUME NEW n, NEW s, NEW tch, Retains(n, s, tch), NEW tch2, tch \subseteq tch2
    PROVE  Retains(n, s, tch2)
<1>1. ASSUME NEW j \in DOMAIN s.elements, <<n.id, s.elements[j].id>> \notin tch2
      PROVE  \E k \in DOMAIN n.elements :
               /\ From(n, k) = j
               /\ \A key \in ReadKeys : <<n.id, s.elements[j].id, key>> \notin tch2 =>
                      n.elements[k].vals[key] = ReadElement(s.elements[j], None).vals[key]
  <2>1. <<n.id, s.elements[j].id>> \notin tch
    BY <1>1
  <2>2. PICK k \in DOMAIN n.elements :
               /\ From(n, k) = j
               /\ \A key \in ReadKeys : <<n.id, s.elements[j].id, key>> \notin tch =>
                      n.elements[k].vals[key] = ReadElement(s.elements[j], None).vals[key]
    BY <2>1 DEF Retains
  <2> QED BY <2>2
<1>2. (\A t \in tch2 : t[1] # n.id) => n.elements = readEntryFragment(s).elements
  BY DEF Retains
<1> QED BY <1>1, <1>2 DEF Retains

\* An entry after an edit of it: what has to be shown.
LEMMA NodeAfter ==
    ASSUME NEW n, NEW op, NEW tch, NEW top \in Int, NodeOK(n, op, tch, top),
           NEW tch2, tch \subseteq tch2, NEW top2 \in Int, top <= top2,
           NEW m, IsNode(m), m.id = n.id, m.uuid = n.uuid, m.array = n.array, m.source = n.source,
           m.status \in {"read", "Modified", "New"},
           m.status \notin {"Modified", "New"} =>
               n.status \notin {"Modified", "New"} /\ m.elements = n.elements,
           \A s : HasSource(n) /\ IsFragment(s) /\ ComesFrom(n, s) /\ Retains(n, s, tch) =>
                      ComesFrom(m, s) /\ Retains(m, s, tch2)
    PROVE  NodeOK(m, op, tch2, top2)
<1> DEFINE s == n.source.fragment
<1>1. n.id \in 1 .. top /\ (n.id \in 1 .. FileIds => HasSource(n))
  BY DEF NodeOK
<1>2. HasSource(m) <=> HasSource(n)
  BY DEF HasSource
<1>3. m.id \in 1 .. top2
  BY <1>1
<1>4. ASSUME HasSource(n) PROVE SourceOK(m, s, op, tch2, top2)
  <2>1. SourceOK(n, s, op, tch, top)
    BY <1>4 DEF NodeOK
  <2> HIDE DEF s
  <2>2. /\ IsFragment(s) /\ Descends(s, op, tch, top) /\ ComesFrom(n, s) /\ n.source.name = s.name
        /\ n.status \notin {"Modified", "New"} => n.elements = readEntryFragment(s).elements
        /\ Retains(n, s, tch)
    BY <2>1 DEF SourceOK
  <2>3. Descends(s, op, tch2, top2)
    BY <2>2, DescendsMore
  <2>4. ComesFrom(m, s) /\ Retains(m, s, tch2)
    BY <1>4, <2>2
  <2> QED BY <2>2, <2>3, <2>4 DEF SourceOK
<1> QED BY <1>1, <1>2, <1>3, <1>4 DEF NodeOK

\* And is as it should be still.
LEMMA NodeMore ==
    ASSUME NEW n, NEW op, NEW tch, NEW top \in Int, NodeOK(n, op, tch, top),
           NEW tch2, tch \subseteq tch2, NEW top2 \in Int, top <= top2
    PROVE  NodeOK(n, op, tch2, top2)
<1>1. IsNode(n) /\ n.status \in {"read", "Modified", "New"}
  BY DEF NodeOK
<1>2. \A s : Retains(n, s, tch) => Retains(n, s, tch2)
  BY RetainsMore
<1> QED BY <1>1, <1>2, NodeAfter

-----------------------------------------------------------------------------
(***************************************************************************)
(* The edits of an entry.                                                  *)
(***************************************************************************)
Holding(n, e) == [Marked(n) EXCEPT !.elements = e]

\* What is marked is changed in nothing else.
LEMMA MarkedIs ==
    ASSUME NEW n, IsNode(n), NEW e, NEW m, m = Holding(n, e)
    PROVE  /\ m.id = n.id /\ m.name = n.name /\ m.uuid = n.uuid /\ m.array = n.array
           /\ m.source = n.source /\ m.elements = e
           /\ m.status \in {"Modified", "New"}
           /\ IsRecord(m, {"id", "name", "uuid", "mod", "status", "array", "elements", "source"})
<1>1. Marked(n) = [n EXCEPT !.status = IF n.status = "New" THEN "New" ELSE "Modified", !.mod = "edited"]
  BY DEF Marked
<1>2. IsRecord(n, {"id", "name", "uuid", "mod", "status", "array", "elements", "source"})
  BY DEF IsNode
<1> DEFINE st == IF n.status = "New" THEN "New" ELSE "Modified"
<1>3. Marked(n) = [id |-> n.id, name |-> n.name, uuid |-> n.uuid, mod |-> "edited",
                   status |-> st, array |-> n.array, elements |-> n.elements, source |-> n.source]
  BY <1>1, <1>2 DEF IsRecord
<1>4. st \in {"Modified", "New"}
  OBVIOUS
<1> HIDE DEF st
<1>5. m = [id |-> n.id, name |-> n.name, uuid |-> n.uuid, mod |-> "edited",
           status |-> st, array |-> n.array, elements |-> e, source |-> n.source]
  BY <1>3 DEF Holding
<1>6. IsRecord(m, {"id", "name", "uuid", "mod", "status", "array", "elements", "source"})
  BY <1>5 DEF IsRecord
<1> QED BY <1>4, <1>5, <1>6

SetIn(n, i, key, v) == [Marked(n) EXCEPT !.elements[i].vals[key] = v]

RemovedFrom(n, i) == [Marked(n) EXCEPT !.elements = RemoveAt(@, i)]

AddedTo(n, e) == [Marked(n) EXCEPT !.elements = Append(@, e)]

Renamed(n, name, marked) == [IF marked THEN Marked(n) ELSE n EXCEPT !.name = name]

\* setValue.
LEMMA SetNode ==
    ASSUME NEW n, NEW op, NEW tch, NEW top \in Int, NodeOK(n, op, tch, top),
           NEW top2 \in Int, top <= top2,
           NEW i \in DOMAIN n.elements, NEW key \in ReadKeys, NEW v,
           NEW m, m = SetIn(n, i, key, v),
           NEW tch2, tch2 = tch \union {<<n.id, n.elements[i].id, key>>}
    PROVE  /\ NodeOK(m, op, tch2, top2)
           /\ m.id = n.id /\ m.name = n.name /\ m.uuid = n.uuid /\ m.source = n.source
           /\ m.status \in {"Modified", "New"}
<1> DEFINE g == [n.elements[i] EXCEPT !.vals[key] = v]
           E == [n.elements EXCEPT ![i] = g]
<1>1. IsNode(n) /\ IsSeq(n.elements) /\ DOMAIN n.elements = 1 .. Len(n.elements)
      /\ \A k \in 1 .. Len(n.elements) : IsNodeElement(n.elements[k])
  BY SeqFacts DEF NodeOK, IsNode, IsSeq
<1>2. m = Holding(n, E)
  <2>1. Marked(n).elements = n.elements
    BY <1>1 DEF Marked, IsNode, IsRecord
  <2> QED BY <2>1 DEF Holding, SetIn
<1>3. /\ IsNodeElement(g) /\ g.id = n.elements[i].id /\ g.origin = n.elements[i].origin
      /\ \A k \in ReadKeys : k # key => g.vals[k] = n.elements[i].vals[k]
  <2>1. IsNodeElement(n.elements[i])
    BY <1>1
  <2>2. g = [id |-> n.elements[i].id, origin |-> n.elements[i].origin,
             vals |-> [n.elements[i].vals EXCEPT ![key] = v]]
    BY <2>1 DEF IsNodeElement, IsRecord
  <2>3. IsRecord([n.elements[i].vals EXCEPT ![key] = v], ReadKeys)
    BY <2>1 DEF IsNodeElement, IsRecord
  <2>4. \A k \in ReadKeys : k # key => [n.elements[i].vals EXCEPT ![key] = v][k] = n.elements[i].vals[k]
    BY <2>1 DEF IsNodeElement, IsRecord
  <2> HIDE DEF g
  <2> QED BY <2>2, <2>3, <2>4 DEF IsNodeElement, IsRecord
<1> HIDE DEF g
<1>4. /\ IsSeq(E) /\ Len(E) = Len(n.elements) /\ DOMAIN E = 1 .. Len(n.elements)
      /\ \A k \in 1 .. Len(n.elements) : E[k] = IF k = i THEN g ELSE n.elements[k]
  BY <1>1, ExceptIs
<1> HIDE DEF E
<1>5. /\ m.id = n.id /\ m.name = n.name /\ m.uuid = n.uuid /\ m.array = n.array
      /\ m.source = n.source /\ m.elements = E
      /\ m.status \in {"Modified", "New"}
      /\ IsRecord(m, {"id", "name", "uuid", "mod", "status", "array", "elements", "source"})
  BY <1>1, <1>2, MarkedIs
<1>6. \A k \in 1 .. Len(n.elements) :
         /\ E[k].id = n.elements[k].id /\ E[k].origin = n.elements[k].origin
         /\ IsNodeElement(E[k])
         /\ \A x \in ReadKeys : (k = i /\ x = key) \/ E[k].vals[x] = n.elements[k].vals[x]
  BY <1>1, <1>3, <1>4
<1>7. IsNode(m)
  <2>1. ~n.array => Len(n.elements) = 1 /\ n.elements[1].origin = None
    BY <1>1 DEF IsNode
  <2>2. ASSUME ~m.array PROVE Len(m.elements) = 1 /\ m.elements[1].origin = None
    <3>1. Len(n.elements) = 1 /\ n.elements[1].origin = None
      BY <2>1, <2>2, <1>5
    <3>2. 1 \in 1 .. Len(n.elements)
      BY <3>1
    <3> QED BY <3>1, <3>2, <1>4, <1>5, <1>6
  <2>3. IsRecord(m.source, {"frame", "index", "fragment", "name"})
    BY <1>1, <1>5 DEF IsNode
  <2>4. Len(E) \in Nat /\ IsRecord(E, 1 .. Len(E)) /\ \A k \in DOMAIN E : IsNodeElement(E[k])
    BY <1>4, <1>6 DEF IsSeq
  <2>5. Len(m.elements) \in Nat /\ IsRecord(m.elements, 1 .. Len(m.elements))
        /\ \A k \in DOMAIN m.elements : IsNodeElement(m.elements[k])
    BY <2>4, <1>5
  <2> QED BY <2>2, <2>3, <2>5, <1>5 DEF IsNode
<1>8. \A k \in 1 .. Len(n.elements) : From(m, k) = From(n, k)
  BY <1>5, <1>6 DEF From
<1>9. ASSUME NEW s, IsFragment(s), ComesFrom(n, s), Retains(n, s, tch)
      PROVE  ComesFrom(m, s) /\ Retains(m, s, tch2)
  <2>1. ComesFrom(m, s)
    <3>1. ~n.array => 1 \in 1 .. Len(n.elements)
      BY <1>1 DEF IsNode
    <3>2. ~m.array => m.elements[1].id = s.elements[1].id
      BY <1>5, <1>6, <1>9, <3>1 DEF ComesFrom
    <3>3. ASSUME m.array, NEW k \in DOMAIN m.elements, m.elements[k].origin # None
          PROVE  LET j == m.elements[k].origin
                 IN  /\ j \in DOMAIN s.elements
                     /\ m.elements[k].id = s.elements[j].id
                     /\ \A l \in DOMAIN m.elements : m.elements[l].origin = j => l = k
      <4>1. k \in DOMAIN n.elements /\ n.elements[k].origin = m.elements[k].origin
            /\ n.elements[k].id = m.elements[k].id
        BY <1>1, <1>4, <1>5, <1>6, <3>3
      <4>2. \A l \in DOMAIN m.elements : l \in DOMAIN n.elements /\ m.elements[l].origin = n.elements[l].origin
        BY <1>1, <1>4, <1>5, <1>6
      <4> QED BY <4>1, <4>2, <1>5, <1>9, <3>3 DEF ComesFrom
    <3> QED BY <1>5, <1>9, <3>2, <3>3 DEF ComesFrom
  <2>2. Retains(m, s, tch2)
    <3>1. ~\A t \in tch2 : t[1] # m.id
      <4>1. <<n.id, n.elements[i].id, key>>[1] = m.id
        BY <1>5
      <4> QED BY <4>1
    <3>2. ASSUME NEW j \in DOMAIN s.elements, <<m.id, s.elements[j].id>> \notin tch2
          PROVE  \E k \in DOMAIN m.elements :
                   /\ From(m, k) = j
                   /\ \A x \in ReadKeys : <<m.id, s.elements[j].id, x>> \notin tch2 =>
                          m.elements[k].vals[x] = ReadElement(s.elements[j], None).vals[x]
      <4>1. PICK k \in DOMAIN n.elements :
                   /\ From(n, k) = j
                   /\ \A x \in ReadKeys : <<n.id, s.elements[j].id, x>> \notin tch =>
                          n.elements[k].vals[x] = ReadElement(s.elements[j], None).vals[x]
        BY <1>5, <1>9, <3>2 DEF Retains
      <4>2. k \in DOMAIN m.elements /\ From(m, k) = j
        BY <4>1, <1>1, <1>4, <1>5, <1>8
      <4>3. n.elements[k].id = s.elements[j].id
        <5>1. CASE n.array
          <6>1. n.elements[k].origin = j /\ j # None
            <7>1. j \in Nat
              BY <1>9 DEF IsFragment, IsRecord
            <7> QED BY <4>1, <5>1, <7>1, BinaryDictionaryAssumption DEF From
          <6> QED BY <6>1, <5>1, <1>9 DEF ComesFrom
        <5>2. CASE ~n.array
          <6>1. j = 1 /\ k = 1
            BY <4>1, <5>2, <1>1 DEF From, IsNode
          <6> QED BY <6>1, <5>2, <1>9 DEF ComesFrom
        <5> QED BY <5>1, <5>2
      <4>4. ASSUME NEW x \in ReadKeys, <<m.id, s.elements[j].id, x>> \notin tch2
            PROVE  m.elements[k].vals[x] = ReadElement(s.elements[j], None).vals[x]
        <5>1. n.elements[k].vals[x] = ReadElement(s.elements[j], None).vals[x]
          BY <4>1, <4>4, <1>5
        <5>2. ~(k = i /\ x = key)
          BY <4>3, <4>4, <1>5
        <5> QED BY <5>1, <5>2, <1>1, <1>5, <1>6
      <4> QED BY <4>2, <4>4
    <3> QED BY <3>1, <3>2 DEF Retains
  <2> QED BY <2>1, <2>2
<1>10. tch \subseteq tch2
  OBVIOUS
<1>11. NodeOK(m, op, tch2, top2)
  BY <1>5, <1>7, <1>9, <1>10, NodeAfter
<1> QED BY <1>5, <1>11

\* removeElement.
LEMMA RemoveNode ==
    ASSUME NEW n, NEW op, NEW tch, NEW top \in Int, NodeOK(n, op, tch, top),
           NEW top2 \in Int, top <= top2,
           n.array, NEW i \in DOMAIN n.elements,
           NEW m, m = RemovedFrom(n, i),
           NEW tch2, tch2 = tch \union {<<n.id, n.elements[i].id>>}
    PROVE  /\ NodeOK(m, op, tch2, top2)
           /\ m.id = n.id /\ m.name = n.name /\ m.uuid = n.uuid /\ m.source = n.source
           /\ m.status \in {"Modified", "New"}
<1> DEFINE Was(k) == IF k < i THEN k ELSE k + 1
<1>0. PICK E : E = RemoveAt(n.elements, i)
  OBVIOUS
<1>1. IsNode(n) /\ IsSeq(n.elements) /\ DOMAIN n.elements = 1 .. Len(n.elements)
      /\ Len(n.elements) \in Nat
      /\ \A k \in 1 .. Len(n.elements) : IsNodeElement(n.elements[k])
  BY SeqFacts DEF NodeOK, IsNode, IsSeq
<1>2. m = Holding(n, E)
  <2>1. Marked(n).elements = n.elements
    BY <1>1 DEF Marked, IsNode, IsRecord
  <2> QED BY <1>0, <2>1 DEF Holding, RemovedFrom
<1>3. /\ IsSeq(E) /\ Len(E) = Len(n.elements) - 1 /\ DOMAIN E = 1 .. Len(n.elements) - 1
      /\ \A k \in 1 .. Len(n.elements) - 1 : E[k] = n.elements[Was(k)]
  BY SMTT(30), <1>0, <1>1, RemoveAtIs
<1>4. /\ \A k \in 1 .. Len(n.elements) - 1 : Was(k) \in 1 .. Len(n.elements) /\ Was(k) # i
      /\ \A k, l \in 1 .. Len(n.elements) - 1 : Was(k) = Was(l) => k = l
      /\ \A j \in 1 .. Len(n.elements) : j # i => \E k \in 1 .. Len(n.elements) - 1 : Was(k) = j
  <2>1. i \in 1 .. Len(n.elements)
    BY <1>1
  <2>2. ASSUME NEW j \in 1 .. Len(n.elements), j # i
        PROVE  \E k \in 1 .. Len(n.elements) - 1 : Was(k) = j
    <3>1. CASE j < i
      BY <1>1, <2>1, <3>1
    <3>2. CASE j > i
      <4>1. j - 1 \in 1 .. Len(n.elements) - 1 /\ Was(j - 1) = j
        BY <1>1, <2>1, <3>2
      <4> QED BY <4>1
    <3> QED BY <1>1, <2>1, <2>2, <3>1, <3>2
  <2> QED BY <1>1, <2>1, <2>2
<1> HIDE DEF Was
<1>5. /\ m.id = n.id /\ m.name = n.name /\ m.uuid = n.uuid /\ m.array = n.array
      /\ m.source = n.source /\ m.elements = E
      /\ m.status \in {"Modified", "New"}
      /\ IsRecord(m, {"id", "name", "uuid", "mod", "status", "array", "elements", "source"})
  <2>1. IsNode(n)
    BY <1>1
  <2> QED BY ONLY <2>1, <1>2, MarkedIs
<1>6. \A k \in DOMAIN E : IsNodeElement(E[k])
  BY <1>1, <1>3, <1>4
<1>7. IsNode(m)
  <2>1. IsRecord(m.source, {"frame", "index", "fragment", "name"})
    BY <1>1, <1>5 DEF IsNode
  <2>2. Len(E) \in Nat /\ IsRecord(E, 1 .. Len(E))
    BY <1>3 DEF IsSeq
  <2> QED BY <2>1, <2>2, <1>5, <1>6 DEF IsNode
<1>8. ASSUME NEW s, IsFragment(s), ComesFrom(n, s), Retains(n, s, tch)
      PROVE  ComesFrom(m, s) /\ Retains(m, s, tch2)
  <2>0. \A k \in DOMAIN n.elements : LET j == n.elements[k].origin IN j # None =>
            /\ j \in DOMAIN s.elements
            /\ n.elements[k].id = s.elements[j].id
            /\ \A l \in DOMAIN n.elements : n.elements[l].origin = j => l = k
    BY <1>8 DEF ComesFrom
  <2>1. ASSUME NEW k \in DOMAIN E, E[k].origin # None
        PROVE  LET j == E[k].origin
               IN  /\ j \in DOMAIN s.elements
                   /\ E[k].id = s.elements[j].id
                   /\ \A l \in DOMAIN E : E[l].origin = j => l = k
    <3>1. Was(k) \in DOMAIN n.elements /\ E[k] = n.elements[Was(k)]
      BY <1>1, <1>3, <1>4
    <3>2. ASSUME NEW l \in DOMAIN E, E[l].origin = E[k].origin PROVE l = k
      <4>1. Was(l) \in DOMAIN n.elements /\ E[l] = n.elements[Was(l)]
        BY <1>1, <1>3, <1>4
      <4>2. Was(l) = Was(k)
        BY <2>0, <2>1, <3>1, <3>2, <4>1
      <4> QED BY <4>2, <1>3, <1>4
    <3> QED BY <2>0, <2>1, <3>1, <3>2
  <2>2. ComesFrom(m, s)
    <3>1. m.id = s.id /\ m.uuid = s.uuid /\ m.array = s.array /\ m.array
      BY <1>5, <1>8 DEF ComesFrom
    <3>2. \A k \in DOMAIN m.elements : m.elements[k].origin # None =>
            /\ m.elements[k].origin \in DOMAIN s.elements
            /\ m.elements[k].id = s.elements[m.elements[k].origin].id
            /\ \A l \in DOMAIN m.elements : m.elements[l].origin = m.elements[k].origin => l = k
      BY <2>1, <1>5
    <3> QED BY <3>1, <3>2 DEF ComesFrom
  <2>3. ~\A t \in tch2 : t[1] # m.id
    <3>1. <<n.id, n.elements[i].id>>[1] = m.id
      BY <1>5
    <3> QED BY <3>1
  <2>4. ASSUME NEW j \in DOMAIN s.elements, <<m.id, s.elements[j].id>> \notin tch2
        PROVE  \E k \in DOMAIN m.elements :
                 /\ From(m, k) = j
                 /\ \A x \in ReadKeys : <<m.id, s.elements[j].id, x>> \notin tch2 =>
                        m.elements[k].vals[x] = ReadElement(s.elements[j], None).vals[x]
    <3>0. <<n.id, s.elements[j].id>> \notin tch
      BY <1>5, <2>4
    <3>1. PICK k \in DOMAIN n.elements :
                 /\ From(n, k) = j
                 /\ \A x \in ReadKeys : <<n.id, s.elements[j].id, x>> \notin tch =>
                        n.elements[k].vals[x] = ReadElement(s.elements[j], None).vals[x]
      BY <1>8, <3>0 DEF Retains
    <3>2. n.elements[k].origin = j /\ j # None
      <4>1. j \in Nat
        BY <1>8 DEF IsFragment, IsRecord
      <4> QED BY <3>1, <4>1, BinaryDictionaryAssumption DEF From
    <3>3. k # i
      BY <2>0, <2>4, <3>2, <1>5
    <3>4. PICK l \in 1 .. Len(n.elements) - 1 : Was(l) = k
      BY <1>1, <1>4, <3>3
    <3>5. l \in DOMAIN m.elements /\ m.elements[l] = n.elements[k]
      BY <1>3, <1>5, <3>4
    <3>6. From(m, l) = j
      BY <1>5, <3>2, <3>5 DEF From
    <3> QED BY <3>1, <3>5, <3>6, <1>5
  <2>5. Retains(m, s, tch2)
    BY <2>3, <2>4 DEF Retains
  <2> QED BY <2>2, <2>5
<1>9. tch \subseteq tch2
  OBVIOUS
<1>10. NodeOK(m, op, tch2, top2)
  BY <1>5, <1>7, <1>8, <1>9, NodeAfter
<1> QED BY <1>5, <1>10

\* addElement.
LEMMA AddNode ==
    ASSUME NEW n, NEW op, NEW tch, NEW top \in Int, NodeOK(n, op, tch, top),
           NEW top2 \in Int, top <= top2,
           n.array, NEW e, IsNodeElement(e), e.origin = None,
           NEW m, m = AddedTo(n, e),
           NEW tch2, tch2 = tch \union {<<n.id>>}
    PROVE  /\ NodeOK(m, op, tch2, top2)
           /\ m.id = n.id /\ m.name = n.name /\ m.uuid = n.uuid /\ m.source = n.source
           /\ m.status \in {"Modified", "New"}
<1>0. PICK E : E = Append(n.elements, e)
  OBVIOUS
<1>1. IsNode(n) /\ IsSeq(n.elements) /\ DOMAIN n.elements = 1 .. Len(n.elements)
      /\ Len(n.elements) \in Nat
      /\ \A k \in 1 .. Len(n.elements) : IsNodeElement(n.elements[k])
  BY SeqFacts DEF NodeOK, IsNode, IsSeq
<1>2. m = Holding(n, E)
  <2>1. Marked(n).elements = n.elements
    BY <1>1 DEF Marked, IsNode, IsRecord
  <2> QED BY <1>0, <2>1 DEF Holding, AddedTo
<1>3. /\ IsSeq(E) /\ Len(E) = Len(n.elements) + 1 /\ DOMAIN E = 1 .. Len(n.elements) + 1
      /\ \A k \in 1 .. Len(n.elements) : E[k] = n.elements[k]
      /\ E[Len(n.elements) + 1] = e
  BY <1>0, <1>1, AppendIs
<1>5. /\ m.id = n.id /\ m.name = n.name /\ m.uuid = n.uuid /\ m.array = n.array
      /\ m.source = n.source /\ m.elements = E
      /\ m.status \in {"Modified", "New"}
      /\ IsRecord(m, {"id", "name", "uuid", "mod", "status", "array", "elements", "source"})
  <2>1. IsNode(n)
    BY <1>1
  <2> QED BY ONLY <2>1, <1>2, MarkedIs
<1>6. \A k \in DOMAIN E : IsNodeElement(E[k]) /\ (k \in DOMAIN n.elements \/ E[k].origin = None)
  BY <1>1, <1>3
<1>7. IsNode(m)
  <2>1. IsRecord(m.source, {"frame", "index", "fragment", "name"})
    BY <1>1, <1>5 DEF IsNode
  <2>2. Len(E) \in Nat /\ IsRecord(E, 1 .. Len(E))
    BY <1>3 DEF IsSeq
  <2> QED BY <2>1, <2>2, <1>5, <1>6 DEF IsNode
<1>8. ASSUME NEW s, IsFragment(s), ComesFrom(n, s), Retains(n, s, tch)
      PROVE  ComesFrom(m, s) /\ Retains(m, s, tch2)
  <2>0. \A k \in DOMAIN n.elements : LET j == n.elements[k].origin IN j # None =>
            /\ j \in DOMAIN s.elements
            /\ n.elements[k].id = s.elements[j].id
            /\ \A l \in DOMAIN n.elements : n.elements[l].origin = j => l = k
    BY <1>8 DEF ComesFrom
  <2>1. ASSUME NEW k \in DOMAIN E, E[k].origin # None
        PROVE  LET j == E[k].origin
               IN  /\ j \in DOMAIN s.elements
                   /\ E[k].id = s.elements[j].id
                   /\ \A l \in DOMAIN E : E[l].origin = j => l = k
    <3>1. k \in DOMAIN n.elements /\ E[k] = n.elements[k]
      BY <1>1, <1>3, <1>6, <2>1
    <3>2. ASSUME NEW l \in DOMAIN E, E[l].origin = E[k].origin PROVE l = k
      <4>1. l \in DOMAIN n.elements /\ E[l] = n.elements[l]
        BY <1>1, <1>3, <1>6, <2>1, <3>2
      <4> QED BY <2>0, <2>1, <3>1, <3>2, <4>1
    <3> QED BY <2>0, <2>1, <3>1, <3>2
  <2>2. ComesFrom(m, s)
    <3>1. m.id = s.id /\ m.uuid = s.uuid /\ m.array = s.array /\ m.array
      BY <1>5, <1>8 DEF ComesFrom
    <3>2. \A k \in DOMAIN m.elements : m.elements[k].origin # None =>
            /\ m.elements[k].origin \in DOMAIN s.elements
            /\ m.elements[k].id = s.elements[m.elements[k].origin].id
            /\ \A l \in DOMAIN m.elements : m.elements[l].origin = m.elements[k].origin => l = k
      BY <2>1, <1>5
    <3> QED BY <3>1, <3>2 DEF ComesFrom
  <2>3. ~\A t \in tch2 : t[1] # m.id
    <3>1. <<n.id>>[1] = m.id
      BY <1>5
    <3> QED BY <3>1
  <2>4. ASSUME NEW j \in DOMAIN s.elements, <<m.id, s.elements[j].id>> \notin tch2
        PROVE  \E k \in DOMAIN m.elements :
                 /\ From(m, k) = j
                 /\ \A x \in ReadKeys : <<m.id, s.elements[j].id, x>> \notin tch2 =>
                        m.elements[k].vals[x] = ReadElement(s.elements[j], None).vals[x]
    <3>0. <<n.id, s.elements[j].id>> \notin tch
      BY <1>5, <2>4
    <3>1. PICK k \in DOMAIN n.elements :
                 /\ From(n, k) = j
                 /\ \A x \in ReadKeys : <<n.id, s.elements[j].id, x>> \notin tch =>
                        n.elements[k].vals[x] = ReadElement(s.elements[j], None).vals[x]
      BY <1>8, <3>0 DEF Retains
    <3>5. k \in DOMAIN m.elements /\ m.elements[k] = n.elements[k]
      <4>1. k \in 1 .. Len(n.elements)
        BY <1>1
      <4>2. k \in DOMAIN E /\ E[k] = n.elements[k]
        BY <1>1, <1>3, <4>1
      <4> QED BY <4>2, <1>5
    <3>6. From(m, k) = j
      <4>1. m.array = n.array /\ m.elements[k].origin = n.elements[k].origin
        BY <1>5, <3>5
      <4> QED BY <4>1, <3>1 DEF From
    <3> QED BY <3>1, <3>5, <3>6, <1>5
  <2>5. Retains(m, s, tch2)
    BY <2>3, <2>4 DEF Retains
  <2> QED BY <2>2, <2>5
<1>9. tch \subseteq tch2
  OBVIOUS
<1>10. NodeOK(m, op, tch2, top2)
  BY <1>5, <1>7, <1>8, <1>9, NodeAfter
<1> QED BY <1>5, <1>10

\* renameEntry, by the API and around it.
LEMMA RenameNode ==
    ASSUME NEW n, NEW op, NEW tch, NEW top \in Int, NodeOK(n, op, tch, top),
           NEW top2 \in Int, top <= top2,
           NEW name, NEW marked \in BOOLEAN,
           NEW m, m = Renamed(n, name, marked)
    PROVE  /\ NodeOK(m, op, tch, top2)
           /\ m.id = n.id /\ m.name = name /\ m.uuid = n.uuid /\ m.source = n.source
<1> DEFINE r == IF marked THEN Marked(n) ELSE n
<1>1. IsNode(n) /\ n.status \in {"read", "Modified", "New"}
  BY DEF NodeOK
<1>2. IsRecord(n, {"id", "name", "uuid", "mod", "status", "array", "elements", "source"})
  BY <1>1 DEF IsNode
<1>3. /\ r.id = n.id /\ r.uuid = n.uuid /\ r.array = n.array /\ r.source = n.source
      /\ r.elements = n.elements
      /\ r.status \in {"read", "Modified", "New"}
      /\ r.status \notin {"Modified", "New"} => n.status \notin {"Modified", "New"}
      /\ IsRecord(r, {"id", "name", "uuid", "mod", "status", "array", "elements", "source"})
  <2>1. CASE marked
    <3>1. Marked(n).elements = n.elements
      BY <1>2 DEF Marked, IsRecord
    <3>2. Marked(n) = Holding(n, n.elements)
      <4>1. Marked(n) = [n EXCEPT !.status = IF n.status = "New" THEN "New" ELSE "Modified", !.mod = "edited"]
        BY DEF Marked
      <4>2. IsRecord(Marked(n), {"id", "name", "uuid", "mod", "status", "array", "elements", "source"})
        BY <4>1, <1>2 DEF IsRecord
      <4> QED BY <3>1, <4>2 DEF IsRecord, Holding
    <3>3. /\ Marked(n).id = n.id /\ Marked(n).uuid = n.uuid /\ Marked(n).array = n.array
          /\ Marked(n).source = n.source
          /\ Marked(n).status \in {"Modified", "New"}
          /\ IsRecord(Marked(n), {"id", "name", "uuid", "mod", "status", "array", "elements", "source"})
      BY <1>1, <3>2, MarkedIs
    <3> QED BY <2>1, <3>1, <3>3
  <2>2. CASE ~marked
    BY <1>1, <1>2, <2>2
  <2> QED BY <2>1, <2>2
<1>4. m = [r EXCEPT !.name = name]
  BY DEF Renamed
<1> HIDE DEF r
<1>5. m = [id |-> r.id, name |-> name, uuid |-> r.uuid, mod |-> r.mod, status |-> r.status,
           array |-> r.array, elements |-> r.elements, source |-> r.source]
  BY <1>3, <1>4 DEF IsRecord
<1>6. IsRecord(m, {"id", "name", "uuid", "mod", "status", "array", "elements", "source"})
  BY <1>5 DEF IsRecord
<1>7. /\ m.id = n.id /\ m.name = name /\ m.uuid = n.uuid /\ m.array = n.array
      /\ m.source = n.source /\ m.elements = n.elements /\ m.status = r.status
  BY <1>3, <1>5
<1>8. IsNode(m)
  BY <1>1, <1>6, <1>7 DEF IsNode
<1>9. \A s : /\ ComesFrom(n, s) => ComesFrom(m, s)
             /\ Retains(n, s, tch) => Retains(m, s, tch)
  BY <1>7 DEF ComesFrom, Retains, From
<1>10. tch \subseteq tch
  OBVIOUS
<1>11. /\ m.status \in {"read", "Modified", "New"}
       /\ m.status \notin {"Modified", "New"} => n.status \notin {"Modified", "New"} /\ m.elements = n.elements
  BY <1>3, <1>7
<1>12. NodeOK(m, op, tch, top2)
  BY <1>7, <1>8, <1>9, <1>10, <1>11, NodeAfter
<1> QED BY <1>7, <1>12

\* addNewEntryXml.
LEMMA NewNode ==
    ASSUME NEW op, NEW tch, NEW top \in Int, FileIds < top, NEW name,
           NEW m, m = [id |-> top, name |-> name, uuid |-> top, mod |-> "edited",
                 status |-> "New", array |-> FALSE,
                 elements |-> <<[id |-> top, origin |-> None,
                                 vals |-> [key \in ReadKeys |-> "v0"]]>>,
                 source |-> NoSource]
    PROVE  NodeOK(m, op, tch, top) /\ ~HasSource(m)
<1> DEFINE e == [id |-> top, origin |-> None, vals |-> [key \in ReadKeys |-> "v0"]]
<1>1. IsNodeElement(e) /\ e.origin = None
  BY DEF IsNodeElement, IsRecord
<1> HIDE DEF e
<1>2. /\ m.id = top /\ m.uuid = top /\ m.status = "New" /\ m.array = FALSE /\ m.source = NoSource
      /\ m.elements = <<e>>
      /\ IsRecord(m, {"id", "name", "uuid", "mod", "status", "array", "elements", "source"})
  BY DEF IsRecord, e
<1>3. Len(<<e>>) = 1 /\ IsRecord(<<e>>, 1 .. 1) /\ \A i \in DOMAIN <<e>> : <<e>>[i] = e
  BY DEF IsRecord
<1>4. IsRecord(m.source, {"frame", "index", "fragment", "name"}) /\ ~HasSource(m)
  BY <1>2 DEF NoSource, IsRecord, HasSource
<1>5. IsNode(m)
  BY <1>1, <1>2, <1>3, <1>4 DEF IsNode
<1>6. m.id \in 1 .. top /\ m.uuid \in 1 .. top /\ m.id \notin 1 .. FileIds
  BY <1>2, FileIdsNat
<1> QED BY <1>2, <1>4, <1>5, <1>6 DEF NodeOK
=============================================================================
