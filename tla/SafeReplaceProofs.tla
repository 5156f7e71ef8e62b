------------------------- MODULE SafeReplaceProofs -------------------------
(***************************************************************************)
(* Theorems about SafeReplace, for every set of saves, every length of     *)
(* their files, and with or without a write of the host's own.             *)
(***************************************************************************)
EXTENDS SafeReplace, TLAPS, SequenceTheorems

-----------------------------------------------------------------------------
(***************************************************************************)
(* The operators the steps are built from.                                 *)
(***************************************************************************)

\* The temporary files, the files made under the name and the original differ.
LEMMA InodesDiffer ==
    ASSUME NEW s \in Savers
    PROVE  /\ Orig \in Inodes /\ Temp(s) \in Inodes /\ Made(s) \in Inodes
           /\ Temp(s) # Orig /\ Made(s) # Orig
           /\ \A t \in Savers : Temp(s) # Made(t)
           /\ \A t \in Savers : Temp(s) = Temp(t) => s = t
BY DEF Inodes, Orig, Temp, Made

LEMMA WholeType ==
    ASSUME NEW a \in Authors
    PROVE  /\ Whole(a) \in Content
           /\ Len(Whole(a)) = Chunks[a]
           /\ Whole(a) # <<>>
           /\ Whole(a)[1] = a
BY SaveAssumption DEF Whole, Content, Authors

LEMMA ChunkType ==
    ASSUME NEW d \in Content, NEW i \in Nat \ {0}, NEW a \in Authors
    PROVE  /\ Chunk(d, i, a) \in Content
           /\ Len(Chunk(d, i, a)) >= Len(d)
           /\ d # <<>> => Chunk(d, i, a)[1] \in {a, d[1]}
BY DEF Chunk, Content

LEMMA ResizedType ==
    ASSUME NEW d \in Content, NEW n \in Nat \ {0}
    PROVE  /\ Resized(d, n) \in Content
           /\ Len(Resized(d, n)) = n
           /\ d # <<>> => Resized(d, n)[1] = d[1]
BY DEF Resized, Content

-----------------------------------------------------------------------------
(***************************************************************************)
(* Types.                                                                  *)
(***************************************************************************)
LEMMA InitType == SaveInit => SaveTypeOK
<1> SUFFICES ASSUME SaveInit PROVE SaveTypeOK
  OBVIOUS
<1>1. \A a \in Authors : Whole(a) \in Content
  BY WholeType
<1>2. <<>> \in Content
  BY DEF Content
<1>3. data \in [Inodes -> Content]
  BY <1>1, <1>2 DEF SaveInit, Authors
<1>4. durable \in [Inodes -> SUBSET Content] /\ \A i \in Inodes : data[i] \in durable[i]
  BY <1>3 DEF SaveInit
<1>5. Orig \in Inodes
  BY DEF Inodes
<1>6. save \in [Savers -> Progress] /\ \A s \in Savers : save[s].at <= Chunks[s]
  BY SaveAssumption DEF SaveInit, NotBegun, Progress, Phases, Ended, Authors
<1> QED
  BY <1>3, <1>4, <1>5, <1>6 DEF SaveInit, SaveTypeOK

\* A save that takes up another call, its other fields of their types.
LEMMA SavesType ==
    ASSUME SaveTypeOK, NEW s \in Savers, NEW r \in Progress, r.at <= Chunks[s],
           save' = [save EXCEPT ![s] = r]
    PROVE  save' \in [Savers -> Progress] /\ \A t \in Savers : save'[t].at <= Chunks[t]
BY DEF SaveTypeOK

\* What GoesTo and DropsTo make of the record.
LEMMA GoesToType ==
    ASSUME SaveTypeOK, NEW s \in Savers, NEW pc \in Phases, GoesTo(s, pc)
    PROVE  save' \in [Savers -> Progress] /\ \A t \in Savers : save'[t].at <= Chunks[t]
<1> DEFINE r == [save[s] EXCEPT !.pc = pc]
<1>1. save[s] \in Progress /\ save[s].at <= Chunks[s]
  BY DEF SaveTypeOK
<1>2. r \in Progress /\ r.at = save[s].at
  BY <1>1 DEF Progress
<1>3. save' = [save EXCEPT ![s] = r]
  BY DEF GoesTo
<1> QED
  BY <1>1, <1>2, <1>3, SavesType

LEMMA DropsToType ==
    ASSUME SaveTypeOK, NEW s \in Savers, NEW next \in {"failed", "open"}, DropsTo(s, next)
    PROVE  save' \in [Savers -> Progress] /\ \A t \in Savers : save'[t].at <= Chunks[t]
<1> DEFINE r == [save[s] EXCEPT !.pc = "drop", !.next = next]
<1>1. save[s] \in Progress /\ save[s].at <= Chunks[s]
  BY DEF SaveTypeOK
<1>2. r \in Progress /\ r.at = save[s].at
  <2>1. "drop" \in Phases
    BY DEF Phases
  <2> QED
    BY <1>1, <2>1 DEF Progress
<1>3. save' = [save EXCEPT ![s] = r]
  BY DEF DropsTo, SaveTypeOK
<1> QED
  BY <1>1, <1>2, <1>3, SavesType

\* A write, a flush and a new file leave contents, and keep what is held among
\* what may be left.
LEMMA PutsType ==
    ASSUME SaveTypeOK, NEW i, NEW d \in Content, Puts(i, d)
    PROVE  /\ data' \in [Inodes -> Content] /\ durable' \in [Inodes -> SUBSET Content]
           /\ \A j \in Inodes : data'[j] \in durable'[j]
BY DEF SaveTypeOK, Puts

LEMMA FlushedType ==
    ASSUME SaveTypeOK, NEW i, Flushed(i), UNCHANGED data
    PROVE  /\ durable' \in [Inodes -> SUBSET Content]
           /\ \A j \in Inodes : data'[j] \in durable'[j]
BY DEF SaveTypeOK, Flushed

LEMMA CreatesType ==
    ASSUME SaveTypeOK, NEW i, Creates(i)
    PROVE  /\ data' \in [Inodes -> Content] /\ durable' \in [Inodes -> SUBSET Content]
           /\ \A j \in Inodes : data'[j] \in durable'[j]
<1>1. <<>> \in Content
  BY DEF Content
<1> QED
  BY <1>1 DEF SaveTypeOK, Creates

\* The state is well typed, and what each file holds is among what may be left of
\* it: every handler of replaceFile and writeInPlace keeps its record.
LEMMA StepType == SaveTypeOK /\ [SaveNext]_saveVars => SaveTypeOK'
<1> SUFFICES ASSUME SaveTypeOK, [SaveNext]_saveVars
             PROVE  SaveTypeOK'
  OBVIOUS
<1> USE DEF At
<1>ph. /\ Ended \subseteq Phases
       /\ {"idle", "access", "list", "sweep", "temp", "write", "keep", "sync", "rename"} \subseteq Phases
       /\ {"drop", "syncDir", "open", "create", "over", "flush", "provide", "provided"} \subseteq Phases
       /\ {"failed", "replaced", "in-place", "dead"} \subseteq Phases
  BY DEF Phases, Ended
<1>em. <<>> \in Content
  BY DEF Content
<1>1. ASSUME NEW s \in Savers, SaverStep(s)
      PROVE  SaveTypeOK'
  <2>t. /\ save[s] \in Progress /\ save \in [Savers -> Progress]
        /\ Chunks[s] \in Nat /\ save[s].at <= Chunks[s] /\ s \in Authors
        /\ Temp(s) \in Inodes /\ Made(s) \in Inodes
    BY <1>1, SaveAssumption, InodesDiffer DEF SaveTypeOK, Authors
  <2>1. CASE Stat(s)
    <3>1. PICK r \in Progress : r.at = save[s].at /\ save' = [save EXCEPT ![s] = r]
      BY <2>1, <2>t, <1>ph DEF Stat, GoesTo, Progress
    <3> QED
      BY <2>1, <2>t, <3>1, SavesType DEF Stat, SaveTypeOK, fileVars
  <2>2. CASE Access(s)
    BY <2>2, <1>ph, GoesToType DEF Access, SaveTypeOK, fileVars
  <2>3. CASE ListTemps(s)
    <3>1. PICK r \in Progress : r.at = save[s].at /\ save' = [save EXCEPT ![s] = r]
      BY <2>3, <2>t, <1>ph DEF ListTemps, GoesTo, Progress, SaveTypeOK
    <3> QED
      BY <2>3, <2>t, <3>1, SavesType DEF ListTemps, SaveTypeOK, fileVars
  <2>4. CASE Sweep(s)
    <3>1. PICK r \in Progress : r.at = save[s].at /\ save' = [save EXCEPT ![s] = r]
      BY <2>4, <2>t, <1>ph DEF Sweep, GoesTo, Progress
    <3>2. temps' \subseteq temps
      BY <2>4 DEF Sweep
    <3> QED
      BY <2>4, <2>t, <3>1, <3>2, SavesType DEF Sweep, SaveTypeOK
  <2>5. CASE OpenTemp(s)
    <3>1. save' \in [Savers -> Progress] /\ \A t \in Savers : save'[t].at <= Chunks[t]
      <4> DEFINE r == [save[s] EXCEPT !.pc = "write", !.at = 0]
      <4>1. r \in Progress /\ r.at <= Chunks[s]
        <5>1. /\ "write" \in Phases /\ "over" \in Phases
              /\ name \in Inodes \union {None} /\ Made(s) \in Inodes \union {None}
          BY <2>t, <1>ph DEF SaveTypeOK
        <5>2. r.at = 0 /\ r \in Progress
          BY <5>1, <2>t DEF Progress
        <5> QED
          BY <5>2, <2>t
      <4>2. save' = [save EXCEPT ![s] = r] \/ \E pc \in Phases : GoesTo(s, pc)
        BY <2>5, <1>ph DEF OpenTemp
      <4> QED
        BY <4>1, <4>2, SavesType, GoesToType
    <3>2. Creates(Temp(s)) \/ UNCHANGED <<data, durable>>
      BY <2>5 DEF OpenTemp
    <3>3. temps' \subseteq Savers /\ aged' \subseteq temps'
      BY <2>5 DEF OpenTemp, SaveTypeOK
    <3> QED
      BY <2>5, <2>t, <3>1, <3>2, <3>3, SavesType, CreatesType DEF OpenTemp, SaveTypeOK
  <2>6. CASE WriteTemp(s)
    <3>1. PICK r \in Progress : r.at <= Chunks[s] /\ save' = [save EXCEPT ![s] = r]
      BY <2>6, <2>t, <1>ph DEF WriteTemp, GoesTo, DropsTo, Progress
    <3>2. Append(data[Temp(s)], s) \in Content
      BY <2>t DEF SaveTypeOK, Content
    <3>3. Puts(Temp(s), Append(data[Temp(s)], s)) \/ UNCHANGED <<data, durable>>
      BY <2>6 DEF WriteTemp
    <3> QED
      BY <2>6, <2>t, <3>1, <3>2, <3>3, SavesType, PutsType DEF WriteTemp, SaveTypeOK
  <2>7. CASE keepsAccess(s)
    <3>1. save' \in [Savers -> Progress] /\ \A t \in Savers : save'[t].at <= Chunks[t]
      BY <2>7, <1>ph, GoesToType, DropsToType DEF keepsAccess
    <3> QED
      BY <2>7, <2>t, <3>1 DEF keepsAccess, SaveTypeOK
  <2>8. CASE Sync(s)
    <3>1. save' \in [Savers -> Progress] /\ \A t \in Savers : save'[t].at <= Chunks[t]
      BY <2>8, <1>ph, GoesToType, DropsToType DEF Sync
    <3>2. Flushed(Temp(s)) \/ UNCHANGED durable
      BY <2>8 DEF Sync
    <3> QED
      BY <2>8, <2>t, <3>1, <3>2, FlushedType DEF Sync, SaveTypeOK
  <2>9. CASE Rename(s)
    <3>1. save' \in [Savers -> Progress] /\ \A t \in Savers : save'[t].at <= Chunks[t]
      BY <2>9, <1>ph, GoesToType, DropsToType DEF Rename
    <3>2. names' \subseteq Inodes \union {None} /\ name' \in names'
      BY <2>9, <2>t DEF Rename, SaveTypeOK
    <3>3. temps' \subseteq temps /\ aged' \subseteq temps'
      BY <2>9 DEF Rename
    <3> QED
      BY <2>9, <3>1, <3>2, <3>3 DEF Rename, SaveTypeOK
  <2>10. CASE Drop(s)
    <3>1. save' \in [Savers -> Progress] /\ \A t \in Savers : save'[t].at <= Chunks[t]
      <4>1. save[s].next \in Phases
        BY <2>t, <1>ph DEF Progress, Ended
      <4> QED
        BY <2>10, <4>1, GoesToType DEF Drop
    <3> QED
      BY <2>10, <3>1 DEF Drop, SaveTypeOK
  <2>11. CASE SyncDir(s)
    <3>1. save' \in [Savers -> Progress] /\ \A t \in Savers : save'[t].at <= Chunks[t]
      BY <2>11, <1>ph, GoesToType DEF SyncDir
    <3> QED
      BY <2>11, <3>1 DEF SyncDir, SaveTypeOK
  <2>12. CASE Open(s)
    <3>1. save' \in [Savers -> Progress] /\ \A t \in Savers : save'[t].at <= Chunks[t]
      <4> DEFINE r == [save[s] EXCEPT !.pc = "over", !.on = name, !.at = 0]
      <4>1. r \in Progress /\ r.at <= Chunks[s]
        <5>1. /\ "write" \in Phases /\ "over" \in Phases
              /\ name \in Inodes \union {None} /\ Made(s) \in Inodes \union {None}
          BY <2>t, <1>ph DEF SaveTypeOK
        <5>2. r.at = 0 /\ r \in Progress
          BY <5>1, <2>t DEF Progress
        <5> QED
          BY <5>2, <2>t
      <4>2. save' = [save EXCEPT ![s] = r] \/ \E pc \in Phases : GoesTo(s, pc)
        BY <2>12, <1>ph DEF Open
      <4> QED
        BY <4>1, <4>2, SavesType, GoesToType
    <3> QED
      BY <2>12, <2>t, <3>1, SavesType DEF Open, SaveTypeOK, fileVars
  <2>13. CASE Create(s)
    <3>1. save' \in [Savers -> Progress] /\ \A t \in Savers : save'[t].at <= Chunks[t]
      <4> DEFINE r == [save[s] EXCEPT !.pc = "over", !.on = Made(s), !.at = 0]
      <4>1. r \in Progress /\ r.at <= Chunks[s]
        <5>1. /\ "write" \in Phases /\ "over" \in Phases
              /\ name \in Inodes \union {None} /\ Made(s) \in Inodes \union {None}
          BY <2>t, <1>ph DEF SaveTypeOK
        <5>2. r.at = 0 /\ r \in Progress
          BY <5>1, <2>t DEF Progress
        <5> QED
          BY <5>2, <2>t
      <4>2. save' = [save EXCEPT ![s] = r] \/ \E pc \in Phases : GoesTo(s, pc)
        BY <2>13, <1>ph DEF Create
      <4> QED
        BY <4>1, <4>2, SavesType, GoesToType
    <3>2. Creates(Made(s)) \/ UNCHANGED <<data, durable>>
      BY <2>13 DEF Create
    <3>3. names' \subseteq Inodes \union {None} /\ name' \in names'
      BY <2>13, <2>t DEF Create, SaveTypeOK
    <3> QED
      BY <2>13, <2>t, <3>1, <3>2, <3>3, SavesType, CreatesType DEF Create, SaveTypeOK
  <2>14. CASE Over(s)
    <3> DEFINE d == data[save[s].on]
    <3>1. CASE save[s].on = None
      <4>1. None \notin Inodes
        BY SaveAssumption
      <4>2. data' = data /\ durable' = durable
        BY <2>14, <3>1, <4>1 DEF Over, Puts, SaveTypeOK
      <4>3. PICK r \in Progress : r.at <= Chunks[s] /\ save' = [save EXCEPT ![s] = r]
        BY <2>14, <2>t, <1>ph DEF Over, GoesTo, Progress
      <4> QED
        BY <2>14, <2>t, <4>2, <4>3, SavesType DEF Over, SaveTypeOK
    <3>2. CASE save[s].on \in Inodes
      <4>1. d \in Content
        BY <3>2 DEF SaveTypeOK
      <4>2. PICK r \in Progress : r.at <= Chunks[s] /\ save' = [save EXCEPT ![s] = r]
        BY <2>14, <2>t, <1>ph DEF Over, GoesTo, Progress
      <4>3. /\ Chunk(d, save[s].at + 1, s) \in Content
            /\ Resized(d, Chunks[s]) \in Content
        <5>1. save[s].at + 1 \in Nat \ {0} /\ Chunks[s] \in Nat \ {0}
          BY <2>t, SaveAssumption DEF Progress
        <5> QED
          BY <4>1, <5>1, <2>t, ChunkType, ResizedType
      <4>4. \/ Puts(save[s].on, Chunk(d, save[s].at + 1, s))
            \/ Puts(save[s].on, Resized(d, Chunks[s]))
            \/ UNCHANGED <<data, durable>>
        BY <2>14 DEF Over
      <4> QED
        BY <2>14, <2>t, <4>2, <4>3, <4>4, SavesType, PutsType DEF Over, SaveTypeOK
    <3> QED
      BY <2>t, <3>1, <3>2 DEF Progress
  <2>15. CASE Flush(s)
    <3>1. save' \in [Savers -> Progress] /\ \A t \in Savers : save'[t].at <= Chunks[t]
      BY <2>15, <1>ph, GoesToType DEF Flush
    <3>2. Flushed(save[s].on) \/ UNCHANGED durable
      BY <2>15 DEF Flush
    <3> QED
      BY <2>15, <2>t, <3>1, <3>2, FlushedType DEF Flush, SaveTypeOK
  <2>16. CASE ProviderOpens(s)
    <3> DEFINE i == IF name = None THEN Made(s) ELSE name
    <3>1. PICK r \in Progress : r.at <= Chunks[s] /\ save' = [save EXCEPT ![s] = r]
      BY <2>16, <2>t, <1>ph DEF ProviderOpens, GoesTo, Progress, SaveTypeOK
    <3>2. Puts(i, <<>>) \/ UNCHANGED <<data, durable>>
      BY <2>16 DEF ProviderOpens
    <3>3. names' \subseteq Inodes \union {None} /\ name' \in names'
      BY <2>16, <2>t DEF ProviderOpens, SaveTypeOK
    <3>4. folder' \in BOOLEAN
      BY <2>16 DEF ProviderOpens, SaveTypeOK
    <3> QED
      BY <2>16, <2>t, <3>1, <3>2, <3>3, <3>4, <1>em, SavesType, PutsType DEF ProviderOpens, SaveTypeOK
  <2>17. CASE ProviderWrites(s)
    <3>1. save' \in [Savers -> Progress] /\ \A t \in Savers : save'[t].at <= Chunks[t]
      BY <2>17, <1>ph, GoesToType DEF ProviderWrites
    <3> QED
      BY <2>17, <2>t, <3>1, PutsType, WholeType DEF ProviderWrites, SaveTypeOK
  <2> QED
    BY <1>1, <2>1, <2>2, <2>3, <2>4, <2>5, <2>6, <2>7, <2>8, <2>9, <2>10, <2>11, <2>12, <2>13,
       <2>14, <2>15, <2>16, <2>17 DEF SaverStep
<1>2. ASSUME NEW s \in Savers, Kill(s)
      PROVE  SaveTypeOK'
  BY <1>2, <1>ph, GoesToType DEF Kill, SaveTypeOK, fileVars
<1>3. ASSUME NEW s \in Savers, Age(s)
      PROVE  SaveTypeOK'
  BY <1>3 DEF Age, SaveTypeOK
<1>4. CASE PowerLoss
  <2>1. PICK i \in names :
            /\ name' = i
            /\ IF i = None THEN UNCHANGED data
               ELSE \E d \in durable[i] : data' = [data EXCEPT ![i] = d]
            /\ temps' = {s \in Savers : (s \in temps \/ Temp(s) \in names) /\ i # Temp(s)}
    BY <1>4 DEF PowerLoss
  <2>2. data' \in [Inodes -> Content]
    BY <2>1 DEF SaveTypeOK
  <2>3. durable' \in [Inodes -> SUBSET Content] /\ \A j \in Inodes : data'[j] \in durable'[j]
    BY <1>4, <2>2 DEF PowerLoss
  <2>4. save' \in [Savers -> Progress] /\ \A s \in Savers : save'[s].at <= Chunks[s]
    <3>1. ASSUME NEW s \in Savers
          PROVE  /\ save[s] \in Progress /\ save[s].at <= Chunks[s]
                 /\ [save[s] EXCEPT !.pc = "dead"] \in Progress
                 /\ [save[s] EXCEPT !.pc = "dead"].at = save[s].at
      BY <1>ph DEF SaveTypeOK, Progress
    <3> QED
      BY <1>4, <3>1 DEF PowerLoss
  <2> QED
    BY <1>4, <2>1, <2>2, <2>3, <2>4 DEF PowerLoss, SaveTypeOK
<1>5. CASE RemoveFolder
  BY <1>5 DEF RemoveFolder, SaveTypeOK
<1>6. CASE UNCHANGED saveVars
  BY <1>6 DEF saveVars, fileVars, SaveTypeOK
<1> QED
  BY <1>1, <1>2, <1>3, <1>4, <1>5, <1>6 DEF SaveNext

-----------------------------------------------------------------------------
(***************************************************************************)
(* What a step of one save leaves of the others, and of the name.          *)
(***************************************************************************)

\* A step is of one save: the others' records are as they were.
LEMMA OthersStay ==
    ASSUME SaveTypeOK, NEW s \in Savers, SaverStep(s) \/ Kill(s),
           NEW t \in Savers \ {s}
    PROVE  save'[t] = save[t]
<1>1. save \in [Savers -> Progress]
  BY DEF SaveTypeOK
<1>2. CASE Stat(s) \/ Access(s) \/ ListTemps(s) \/ Sweep(s) \/ OpenTemp(s) \/ WriteTemp(s)
  BY <1>1, <1>2 DEF Stat, Access, ListTemps, Sweep, OpenTemp, WriteTemp, GoesTo, DropsTo
<1>3. CASE keepsAccess(s) \/ Sync(s) \/ Rename(s) \/ Drop(s) \/ SyncDir(s)
  BY <1>1, <1>3 DEF keepsAccess, Sync, Rename, Drop, SyncDir, GoesTo, DropsTo
<1>4. CASE \/ Open(s) \/ Create(s) \/ Over(s) \/ Flush(s)
           \/ ProviderOpens(s) \/ ProviderWrites(s) \/ Kill(s)
  BY <1>1, <1>4 DEF Open, Create, Over, Flush, ProviderOpens, ProviderWrites, Kill, GoesTo
<1> QED
  BY <1>2, <1>3, <1>4 DEF SaverStep

\* A call of the file system, and those that may come after it.
NextCalls ==
    [idle    |-> {"access", "list", "failed"},
     access  |-> {"open", "list", "failed"},
     list    |-> {"sweep", "temp"},
     sweep   |-> {"sweep", "temp"},
     temp    |-> {"write", "provide", "open", "failed"},
     write   |-> {"write", "keep", "sync", "drop"},
     keep    |-> {"sync", "drop"},
     sync    |-> {"rename", "drop"},
     rename  |-> {"syncDir", "drop"},
     drop    |-> {"failed", "open"},
     syncDir |-> {"replaced"},
     open    |-> {"over", "create", "failed"},
     create  |-> {"over", "failed"},
     over    |-> {"over", "flush", "failed"},
     flush   |-> {"in-place", "failed"},
     provide |-> {"provided", "failed"},
     provided |-> {"in-place"}]

\* A step that only takes the save to another call takes it to that call.
LEMMA GoesToCall ==
    ASSUME SaveTypeOK, NEW s \in Savers, NEW pc, GoesTo(s, pc)
    PROVE  save'[s].pc = pc
<1>1. save[s] \in Progress /\ save'[s] = [save[s] EXCEPT !.pc = pc]
  BY DEF GoesTo, SaveTypeOK
<1> QED
  BY <1>1 DEF Progress

\* The calls a save makes, in the order the code makes them.
LEMMA NextCall ==
    ASSUME SaveTypeOK, NEW s \in Savers, SaverStep(s)
    PROVE  save[s].pc \in DOMAIN NextCalls /\ save'[s].pc \in NextCalls[save[s].pc]
<1>1. save \in [Savers -> Progress] /\ save[s] \in Progress
  BY DEF SaveTypeOK
<1> USE <1>1 DEF At, GoesTo, DropsTo, Progress
<1>2. CASE Stat(s)
  <2>1. save[s].pc = "idle" /\ save'[s].pc \in {"access", "list", "failed"}
    <3>1. ASSUME ~GoesTo(s, "failed")
          PROVE  save'[s].pc = IF name = None THEN "list" ELSE "access"
      <4> DEFINE pc == IF name = None THEN "list" ELSE "access"
                 found == name # None
                 many == linked /\ name = Orig
      <4>1. save' = [save EXCEPT ![s] = [@ EXCEPT !.pc = pc, !.found = found, !.many = many]]
        BY <1>2, <3>1 DEF Stat
      <4> HIDE DEF pc, found, many
      <4>2. save'[s].pc = pc
        BY <4>1
      <4> QED
        BY <4>2 DEF pc
    <3>2. GoesTo(s, "failed") => save'[s].pc = "failed"
      OBVIOUS
    <3> QED
      BY <1>2, <3>1, <3>2 DEF Stat
  <2> QED
    BY <2>1 DEF NextCalls
<1>3. CASE Access(s)
  <2>1. save[s].pc = "access" /\ save'[s].pc \in {"open", "list", "failed"}
    BY <1>3 DEF Access
  <2> QED
    BY <2>1 DEF NextCalls
<1>4. CASE ListTemps(s)
  <2>1. save[s].pc = "list" /\ save'[s].pc \in {"sweep", "temp"}
    <3>1. \/ save' = [save EXCEPT ![s] = [@ EXCEPT !.pc = "sweep", !.seen = temps]]
          \/ GoesTo(s, "temp")
      BY <1>4 DEF ListTemps
    <3>2. ASSUME save' = [save EXCEPT ![s] = [@ EXCEPT !.pc = "sweep", !.seen = temps]]
          PROVE  save'[s].pc = "sweep"
      BY <3>2
    <3> QED
      BY <1>4, <3>1, <3>2, GoesToCall DEF ListTemps
  <2> QED
    BY <2>1 DEF NextCalls
<1>5. CASE Sweep(s)
  <2>1. save[s].pc = "sweep" /\ save'[s].pc \in {"sweep", "temp"}
    BY <1>5 DEF Sweep
  <2> QED
    BY <2>1 DEF NextCalls
<1>6. CASE OpenTemp(s)
  <2>1. save[s].pc = "temp" /\ save'[s].pc \in {"write", "provide", "open", "failed"}
    <3>1. \/ save' = [save EXCEPT ![s] = [@ EXCEPT !.pc = "write", !.at = 0]]
          \/ \E pc \in {"write", "provide", "open", "failed"} : GoesTo(s, pc)
      BY <1>6 DEF OpenTemp
    <3>2. save'[s].pc \in {"write", "provide", "open", "failed"}
      <4>1. ASSUME save' = [save EXCEPT ![s] = [@ EXCEPT !.pc = "write", !.at = 0]]
            PROVE  save'[s].pc = "write"
        BY <4>1
      <4> QED
        BY <3>1, <4>1, GoesToCall
    <3> QED
      BY <1>6, <3>2 DEF OpenTemp
  <2> QED
    BY <2>1 DEF NextCalls
<1>7. CASE WriteTemp(s)
  <2>1. save[s].pc = "write" /\ save'[s].pc \in {"write", "keep", "sync", "drop"}
    BY <1>7 DEF WriteTemp
  <2> QED
    BY <2>1 DEF NextCalls
<1>8. CASE keepsAccess(s)
  <2>1. save[s].pc = "keep" /\ save'[s].pc \in {"sync", "drop"}
    BY <1>8 DEF keepsAccess
  <2> QED
    BY <2>1 DEF NextCalls
<1>9. CASE Sync(s)
  <2>1. save[s].pc = "sync" /\ save'[s].pc \in {"rename", "drop"}
    BY <1>9 DEF Sync
  <2> QED
    BY <2>1 DEF NextCalls
<1>10. CASE Rename(s)
  <2>1. save[s].pc = "rename" /\ save'[s].pc \in {"syncDir", "drop"}
    BY <1>10 DEF Rename
  <2> QED
    BY <2>1 DEF NextCalls
<1>11. CASE Drop(s)
  <2>1. save[s].pc = "drop" /\ save'[s].pc \in {"failed", "open"}
    BY <1>11 DEF Drop
  <2> QED
    BY <2>1 DEF NextCalls
<1>12. CASE SyncDir(s)
  <2>1. save[s].pc = "syncDir" /\ save'[s].pc \in {"replaced"}
    BY <1>12 DEF SyncDir
  <2> QED
    BY <2>1 DEF NextCalls
<1>13. CASE Open(s)
  <2>1. save[s].pc = "open" /\ save'[s].pc \in {"over", "create", "failed"}
    <3>1. \/ save' = [save EXCEPT ![s] = [@ EXCEPT !.pc = "over", !.on = name, !.at = 0]]
          \/ \E pc \in {"over", "create", "failed"} : GoesTo(s, pc)
      BY <1>13 DEF Open
    <3>2. save'[s].pc \in {"over", "create", "failed"}
      <4>1. ASSUME save' = [save EXCEPT ![s] = [@ EXCEPT !.pc = "over", !.on = name, !.at = 0]]
            PROVE  save'[s].pc = "over"
        BY <4>1
      <4> QED
        BY <3>1, <4>1, GoesToCall
    <3> QED
      BY <1>13, <3>2 DEF Open
  <2> QED
    BY <2>1 DEF NextCalls
<1>14. CASE Create(s)
  <2>1. save[s].pc = "create" /\ save'[s].pc \in {"over", "failed"}
    <3>1. \/ save' = [save EXCEPT ![s] = [@ EXCEPT !.pc = "over", !.on = Made(s), !.at = 0]]
          \/ GoesTo(s, "failed")
      BY <1>14 DEF Create
    <3>2. ASSUME save' = [save EXCEPT ![s] = [@ EXCEPT !.pc = "over", !.on = Made(s), !.at = 0]]
          PROVE  save'[s].pc = "over"
      BY <3>2
    <3> QED
      BY <1>14, <3>1, <3>2, GoesToCall DEF Create
  <2> QED
    BY <2>1 DEF NextCalls
<1>15. CASE Over(s)
  <2>1. save[s].pc = "over" /\ save'[s].pc \in {"over", "flush", "failed"}
    BY <1>15 DEF Over
  <2> QED
    BY <2>1 DEF NextCalls
<1>16. CASE Flush(s)
  <2>1. save[s].pc = "flush" /\ save'[s].pc \in {"in-place", "failed"}
    BY <1>16 DEF Flush
  <2> QED
    BY <2>1 DEF NextCalls
<1>17. CASE ProviderOpens(s)
  <2>1. save[s].pc = "provide" /\ save'[s].pc \in {"provided", "failed"}
    <3> DEFINE i == IF name = None THEN Made(s) ELSE name
    <3>1. \/ save' = [save EXCEPT ![s] = [@ EXCEPT !.pc = "provided", !.on = i]]
          \/ GoesTo(s, "failed")
      BY <1>17 DEF ProviderOpens
    <3> HIDE DEF i
    <3>2. ASSUME save' = [save EXCEPT ![s] = [@ EXCEPT !.pc = "provided", !.on = i]]
          PROVE  save'[s].pc = "provided"
      BY <3>2
    <3> QED
      BY <1>17, <3>1, <3>2, GoesToCall DEF ProviderOpens
  <2> QED
    BY <2>1 DEF NextCalls
<1>18. CASE ProviderWrites(s)
  <2>1. save[s].pc = "provided" /\ save'[s].pc \in {"in-place"}
    BY <1>18 DEF ProviderWrites
  <2> QED
    BY <2>1 DEF NextCalls
<1> QED
  BY <1>2, <1>3, <1>4, <1>5, <1>6, <1>7, <1>8, <1>9, <1>10, <1>11, <1>12, <1>13, <1>14, <1>15, <1>16, <1>17, <1>18
     DEF SaverStep

\* A step puts no inode under the name but the saver's own: its temporary file,
\* by a rename, or the file it makes.
LEMMA NamesStep ==
    ASSUME SaveTypeOK, NEW s \in Savers, SaverStep(s)
    PROVE  \/ names' \subseteq names
           \/ names' = names \union {Made(s)}
           \/ /\ names' = names \union {Temp(s)}
              /\ save[s].pc = "rename" /\ save'[s].pc = "syncDir"
<1>1. save \in [Savers -> Progress] /\ save[s] \in Progress /\ name \in names
  BY DEF SaveTypeOK
<1> USE <1>1 DEF At, GoesTo, fileVars
<1>2. CASE Stat(s) \/ Access(s) \/ ListTemps(s) \/ Sweep(s) \/ OpenTemp(s)
  BY <1>2 DEF Stat, Access, ListTemps, Sweep, OpenTemp
<1>3. CASE WriteTemp(s) \/ keepsAccess(s) \/ Sync(s) \/ Drop(s) \/ SyncDir(s)
  BY <1>3 DEF WriteTemp, keepsAccess, Sync, Drop, SyncDir
<1>4. CASE Rename(s)
  BY <1>4 DEF Rename, Progress
<1>5. CASE Open(s) \/ Create(s) \/ Over(s) \/ Flush(s)
  BY <1>5 DEF Open, Create, Over, Flush
<1>6. CASE ProviderOpens(s) \/ ProviderWrites(s)
  BY <1>6 DEF ProviderOpens, ProviderWrites
<1> QED
  BY <1>2, <1>3, <1>4, <1>5, <1>6 DEF SaverStep

\* What a save found out about the file it found out at the start.
LEMMA FoundStays ==
    ASSUME SaveTypeOK, NEW s \in Savers, SaverStep(s), save[s].pc # "idle"
    PROVE  save'[s].found = save[s].found /\ save'[s].many = save[s].many
<1>1. save \in [Savers -> Progress] /\ save[s] \in Progress
  BY DEF SaveTypeOK
<1>2. ~Stat(s)
  BY DEF Stat, At
<1>3. CASE Access(s) \/ Drop(s) \/ SyncDir(s) \/ Flush(s) \/ ProviderWrites(s)
  BY <1>1, <1>3 DEF Access, Drop, SyncDir, Flush, ProviderWrites, GoesTo, DropsTo, Progress
<1>4. CASE ListTemps(s) \/ Sweep(s)
  <2>1. CASE \E pc \in {"temp"} : GoesTo(s, pc)
    BY <1>1, <2>1 DEF GoesTo, Progress
  <2>2. CASE \E t \in Savers : save' = [save EXCEPT ![s].seen = @ \ {t}]
    BY <1>1, <2>2 DEF Progress
  <2>3. CASE save' = [save EXCEPT ![s] = [@ EXCEPT !.pc = "sweep", !.seen = temps]]
    <3>1. save'[s] = [save[s] EXCEPT !.pc = "sweep", !.seen = temps]
      BY <1>1, <2>3
    <3> QED
      BY <1>1, <3>1 DEF Progress
  <2> QED
    BY <1>4, <2>1, <2>2, <2>3 DEF ListTemps, Sweep, SaveTypeOK
<1>5. CASE WriteTemp(s) \/ Over(s)
  BY <1>1, <1>5 DEF WriteTemp, Over, GoesTo, DropsTo, Progress
<1>6. CASE keepsAccess(s) \/ Sync(s) \/ Rename(s)
  BY <1>1, <1>6 DEF keepsAccess, Sync, Rename, GoesTo, DropsTo, Progress
<1>7. CASE OpenTemp(s)
  <2>1. \/ save' = [save EXCEPT ![s] = [@ EXCEPT !.pc = "write", !.at = 0]]
        \/ \E pc \in Phases : GoesTo(s, pc)
    BY <1>7 DEF OpenTemp, Phases, Ended
  <2>2. CASE save' = [save EXCEPT ![s] = [@ EXCEPT !.pc = "write", !.at = 0]]
    <3>1. save'[s] = [save[s] EXCEPT !.pc = "write", !.at = 0]
      BY <1>1, <2>2
    <3> QED
      BY <1>1, <3>1 DEF Progress
  <2>3. CASE \E pc \in Phases : GoesTo(s, pc)
    BY <1>1, <2>3 DEF GoesTo, Progress
  <2> QED
    BY <2>1, <2>2, <2>3
<1>8. CASE Open(s)
  <2>1. \/ save' = [save EXCEPT ![s] = [@ EXCEPT !.pc = "over", !.on = name, !.at = 0]]
        \/ \E pc \in Phases : GoesTo(s, pc)
    BY <1>8 DEF Open, Phases, Ended
  <2>2. CASE save' = [save EXCEPT ![s] = [@ EXCEPT !.pc = "over", !.on = name, !.at = 0]]
    <3>1. save'[s] = [save[s] EXCEPT !.pc = "over", !.on = name, !.at = 0]
      BY <1>1, <2>2
    <3> QED
      BY <1>1, <3>1 DEF Progress
  <2>3. CASE \E pc \in Phases : GoesTo(s, pc)
    BY <1>1, <2>3 DEF GoesTo, Progress
  <2> QED
    BY <2>1, <2>2, <2>3
<1>9. CASE Create(s)
  <2>1. \/ save' = [save EXCEPT ![s] = [@ EXCEPT !.pc = "over", !.on = Made(s), !.at = 0]]
        \/ \E pc \in Phases : GoesTo(s, pc)
    BY <1>9 DEF Create, Phases, Ended
  <2>2. CASE save' = [save EXCEPT ![s] = [@ EXCEPT !.pc = "over", !.on = Made(s), !.at = 0]]
    <3>1. save'[s] = [save[s] EXCEPT !.pc = "over", !.on = Made(s), !.at = 0]
      BY <1>1, <2>2
    <3> QED
      BY <1>1, <3>1 DEF Progress
  <2>3. CASE \E pc \in Phases : GoesTo(s, pc)
    BY <1>1, <2>3 DEF GoesTo, Progress
  <2> QED
    BY <2>1, <2>2, <2>3
<1>10. CASE ProviderOpens(s)
  <2>1. \/ save' = [save EXCEPT ![s] = [@ EXCEPT !.pc = "provided", !.on = IF name = None THEN Made(s) ELSE name]]
        \/ \E pc \in Phases : GoesTo(s, pc)
    BY <1>10 DEF ProviderOpens, Phases, Ended
  <2>2. CASE save' = [save EXCEPT ![s] = [@ EXCEPT !.pc = "provided", !.on = IF name = None THEN Made(s) ELSE name]]
    <3>1. save'[s] = [save[s] EXCEPT !.pc = "provided", !.on = IF name = None THEN Made(s) ELSE name]
      BY <1>1, <2>2
    <3> QED
      BY <1>1, <3>1 DEF Progress
  <2>3. CASE \E pc \in Phases : GoesTo(s, pc)
    BY <1>1, <2>3 DEF GoesTo, Progress
  <2> QED
    BY <2>1, <2>2, <2>3
<1> QED
  BY <1>2, <1>3, <1>4, <1>5, <1>6, <1>7, <1>8, <1>9, <1>10 DEF SaverStep

\* No step changes what the file system says of the original, nor takes access
\* back that was handed on.
LEMMA AccessGrows ==
    ASSUME NEW s \in Savers, SaverStep(s)
    PROVE  linked' = linked /\ writable' = writable /\ kept \subseteq kept'
<1>1. CASE Stat(s) \/ Access(s) \/ ListTemps(s) \/ Sweep(s) \/ OpenTemp(s) \/ WriteTemp(s)
  BY <1>1 DEF Stat, Access, ListTemps, Sweep, OpenTemp, WriteTemp, fileVars
<1>2. CASE keepsAccess(s) \/ Sync(s) \/ Rename(s) \/ Drop(s) \/ SyncDir(s)
  BY <1>2 DEF keepsAccess, Sync, Rename, Drop, SyncDir
<1>3. CASE \/ Open(s) \/ Create(s) \/ Over(s) \/ Flush(s)
           \/ ProviderOpens(s) \/ ProviderWrites(s)
  BY <1>3 DEF Open, Create, Over, Flush, ProviderOpens, ProviderWrites, fileVars
<1> QED
  BY <1>1, <1>2, <1>3 DEF SaverStep

\* A save that writes in place writes where it wrote before, or into a file it
\* has made, or into what is under the name.
LEMMA WritesStep ==
    ASSUME SaveTypeOK, NEW s \in Savers, SaverStep(s), save'[s].pc \in {"over", "flush", "provided"}
    PROVE  \/ save[s].pc = "over" /\ save'[s].on = save[s].on
           \/ save[s].pc \in {"open", "provide"} /\ save'[s].on = name /\ name # None
           \/ save[s].pc \in {"create", "provide"} /\ save'[s].on = Made(s)
<1>1. save \in [Savers -> Progress] /\ save[s] \in Progress
  BY DEF SaveTypeOK
<1>2. save[s].pc \in {"open", "create", "over", "provide"}
  BY NextCall DEF NextCalls
<1>3. Open(s) \/ Create(s) \/ Over(s) \/ ProviderOpens(s)
  BY <1>2 DEF SaverStep, At, Stat, Access, ListTemps, Sweep, OpenTemp, WriteTemp, keepsAccess,
       Sync, Rename, Drop, SyncDir, Flush, ProviderWrites
<1>4. CASE Open(s)
  <2>1. name # None /\ save' = [save EXCEPT ![s] = [@ EXCEPT !.pc = "over", !.on = name, !.at = 0]]
    <3>1. ~GoesTo(s, "create") /\ ~GoesTo(s, "failed")
      BY <1>1 DEF GoesTo, Progress
    <3> QED
      BY <1>4, <3>1 DEF Open
  <2>2. save'[s] = [save[s] EXCEPT !.pc = "over", !.on = name, !.at = 0]
    BY <1>1, <2>1
  <2> QED
    BY <1>1, <1>4, <2>1, <2>2 DEF Open, At, Progress
<1>5. CASE Create(s)
  <2>1. save' = [save EXCEPT ![s] = [@ EXCEPT !.pc = "over", !.on = Made(s), !.at = 0]]
    <3>1. ~GoesTo(s, "failed")
      BY <1>1 DEF GoesTo, Progress
    <3> QED
      BY <1>5, <3>1 DEF Create
  <2>2. save'[s] = [save[s] EXCEPT !.pc = "over", !.on = Made(s), !.at = 0]
    BY <1>1, <2>1
  <2> QED
    BY <1>1, <1>5, <2>2 DEF Create, At, Progress
<1>6. CASE Over(s)
  <2>1. save'[s].on = save[s].on
    <3>1. CASE save' = [save EXCEPT ![s].at = @ + 1]
      BY <1>1, <3>1 DEF Progress
    <3>2. ASSUME NEW pc, GoesTo(s, pc)
          PROVE  save'[s].on = save[s].on
      BY <1>1, <3>2 DEF GoesTo, Progress
    <3> QED
      BY <1>6, <3>1, <3>2 DEF Over
  <2> QED
    BY <1>6, <2>1 DEF Over, At
<1>7. CASE ProviderOpens(s)
  <2> DEFINE i == IF name = None THEN Made(s) ELSE name
  <2>1. save' = [save EXCEPT ![s] = [@ EXCEPT !.pc = "provided", !.on = i]]
    <3>1. ~GoesTo(s, "failed")
      BY <1>1 DEF GoesTo, Progress
    <3> QED
      BY <1>7, <3>1 DEF ProviderOpens
  <2> HIDE DEF i
  <2>2. save'[s] = [save[s] EXCEPT !.pc = "provided", !.on = i]
    BY <1>1, <2>1
  <2>3. save'[s].on = i
    BY <1>1, <2>2 DEF Progress
  <2> QED
    BY <1>7, <2>3 DEF ProviderOpens, At, i
<1> QED
  BY <1>3, <1>4, <1>5, <1>6, <1>7

\* A step touches the contents of the saver's own files, of what is under the
\* name, and of what it has open, and no others.
LEMMA ContentsStay ==
    ASSUME SaveTypeOK, NEW s \in Savers, SaverStep(s), NEW j \in Inodes,
           j \notin {Temp(s), Made(s), name},
           save[s].pc \in {"over", "flush", "provided"} => j # save[s].on
    PROVE  data'[j] = data[j] /\ durable'[j] = durable[j]
<1>1. data \in [Inodes -> Content] /\ durable \in [Inodes -> SUBSET Content]
  BY DEF SaveTypeOK
<1> USE <1>1 DEF At, Puts, Flushed, Creates, fileVars
<1>2. CASE Stat(s) \/ Access(s) \/ ListTemps(s) \/ Sweep(s) \/ OpenTemp(s) \/ WriteTemp(s)
  BY <1>2 DEF Stat, Access, ListTemps, Sweep, OpenTemp, WriteTemp
<1>3. CASE keepsAccess(s) \/ Sync(s) \/ Rename(s) \/ Drop(s) \/ SyncDir(s)
  BY <1>3 DEF keepsAccess, Sync, Rename, Drop, SyncDir
<1>4. CASE Open(s) \/ Create(s) \/ Over(s) \/ Flush(s)
  BY <1>4 DEF Open, Create, Over, Flush
<1>5. CASE ProviderOpens(s) \/ ProviderWrites(s)
  BY <1>5 DEF ProviderOpens, ProviderWrites
<1> QED
  BY <1>2, <1>3, <1>4, <1>5 DEF SaverStep

\* What happens around the saves: a save goes on as it was or is dead, the name
\* is on an inode it was on, or on none, and a file holds what was left of it.
LEMMA AroundStep ==
    ASSUME SaveTypeOK, [SaveNext]_saveVars, \A s \in Savers : ~SaverStep(s)
    PROVE  /\ \A t \in Savers :
                \/ save'[t] = save[t] /\ (Saving(t) => UNCHANGED <<data, durable>>)
                \/ /\ Saving(t) /\ save'[t].pc = "dead"
                   /\ save'[t].found = save[t].found
           /\ names' \subseteq names \/ names' = {None}
           /\ UNCHANGED <<linked, writable, kept>>
           /\ ~folder' => ~folder \/ (names' = {None} /\ temps' = {})
           /\ temps' \subseteq temps \union {s \in Savers : Temp(s) \in names}
           /\ \A j \in Inodes : durable'[j] \subseteq durable[j]
<1>t. save \in [Savers -> Progress] /\ \A s \in Savers : save[s] \in Progress
  BY DEF SaveTypeOK
<1>1. ASSUME NEW s \in Savers, Kill(s)
      PROVE  /\ \A t \in Savers :
                   \/ save'[t] = save[t]
                   \/ Saving(t) /\ save'[t].pc = "dead" /\ save'[t].found = save[t].found
             /\ UNCHANGED fileVars
  BY <1>1, <1>t DEF Kill, GoesTo, Progress
<1>2. CASE PowerLoss
  <2>1. ASSUME NEW t \in Savers
        PROVE  \/ save'[t] = save[t] /\ ~Saving(t)
               \/ Saving(t) /\ save'[t].pc = "dead" /\ save'[t].found = save[t].found
    BY <1>2, <1>t DEF PowerLoss, Progress
  <2>2. \A j \in Inodes : data'[j] \in durable[j]
    BY <1>2 DEF PowerLoss, SaveTypeOK
  <2>3. \A j \in Inodes : durable'[j] \subseteq durable[j]
    BY <1>2, <2>2 DEF PowerLoss
  <2>4. names' \subseteq names /\ temps' \subseteq temps \union {s \in Savers : Temp(s) \in names}
    BY <1>2 DEF PowerLoss
  <2> QED
    BY <1>2, <2>1, <2>3, <2>4 DEF PowerLoss
<1>3. ASSUME NEW s \in Savers, Age(s)
      PROVE  UNCHANGED <<writable, linked, folder, names, data, durable, kept, temps, save>>
  BY <1>3 DEF Age
<1>4. CASE RemoveFolder
  BY <1>4 DEF RemoveFolder
<1>5. CASE UNCHANGED saveVars
  BY <1>5 DEF saveVars, fileVars
<1> QED
  BY <1>1, <1>2, <1>3, <1>4, <1>5 DEF SaveNext, fileVars

-----------------------------------------------------------------------------
(***************************************************************************)
(* The inductive invariant.  Each part is kept by every step, given the    *)
(* parts before it.                                                        *)
(***************************************************************************)
Beyond == {"syncDir", "replaced", "dead"}

\* An inode that was a temporary file is under the name only past the rename.
TakenIsBeyond == \A s \in Savers : Temp(s) \in names => save[s].pc \in Beyond

\* A save that writes in place has a file open, and none that is still being
\* written as a temporary one.
WritesWhatIsTaken ==
    \A s \in Savers : save[s].pc \in {"over", "flush", "provided"} =>
        /\ save[s].on \in Inodes
        /\ \A t \in Savers : save[s].on = Temp(t) => save[t].pc \in Beyond

\* A temporary file holds what its saver has written of it, whole before the
\* rename, and on disk by then.
TempsAreWhole ==
    \A s \in Savers :
        /\ save[s].pc = "write" => data[Temp(s)] = [i \in 1 .. save[s].at |-> s]
        /\ save[s].pc \in {"keep", "sync", "rename"} => data[Temp(s)] = Whole(s)
        /\ save[s].pc = "rename" => durable[Temp(s)] = {Whole(s)}

\* What is to replace a file that was found has its access, before it does and
\* for as long as it may come back.
AccessHandedOn ==
    \A s \in Savers :
        save[s].found /\ (save[s].pc \in {"sync", "rename"} \/ Temp(s) \in names) => Temp(s) \in kept

\* The host's own write happens only where the folder went, and the original with it.
OriginalIsGone ==
    /\ ~folder => names = {None} /\ temps = {}
    /\ \A s \in Savers : /\ save[s].pc \in {"provide", "provided"} => Orig \notin names
                         /\ save[s].pc = "provided" => save[s].on # Orig

\* While an original that must not be replaced is there, no save is on its way to a rename.
OriginalIsAlone ==
    Orig \in names /\ (linked \/ ~writable) =>
        /\ names = {Orig}
        /\ \A s \in Savers :
               /\ save[s].pc \in {"idle", "access", "open", "over", "flush", "failed", "in-place", "dead"}
               /\ save[s].pc = "access" => save[s].many = linked

LEMMA TakenStep == SaveTypeOK /\ TakenIsBeyond /\ [SaveNext]_saveVars => TakenIsBeyond'
<1> SUFFICES ASSUME SaveTypeOK, TakenIsBeyond, [SaveNext]_saveVars,
                    NEW t \in Savers, Temp(t) \in names'
             PROVE  save'[t].pc \in Beyond
  BY DEF TakenIsBeyond
<1>1. ASSUME NEW s \in Savers, SaverStep(s)
      PROVE  save'[t].pc \in Beyond
  <2>1. Temp(t) \in names \/ (t = s /\ save'[s].pc = "syncDir")
    BY <1>1, NamesStep, InodesDiffer
  <2>2. CASE t = s
    BY <1>1, <2>1, <2>2, NextCall DEF NextCalls, TakenIsBeyond, Beyond
  <2>3. CASE t # s
    BY <1>1, <2>1, <2>3, OthersStay DEF TakenIsBeyond
  <2> QED
    BY <2>2, <2>3
<1>2. CASE \A s \in Savers : ~SaverStep(s)
  <2>1. Temp(t) \in names
    <3>1. Temp(t) # None
      BY SaveAssumption, InodesDiffer
    <3> QED
      BY <1>2, <3>1, AroundStep
  <2> QED
    BY <1>2, <2>1, AroundStep DEF TakenIsBeyond, Beyond
<1> QED
  BY <1>1, <1>2

LEMMA BeyondStays ==
    ASSUME SaveTypeOK, [SaveNext]_saveVars, NEW t \in Savers, save[t].pc \in Beyond
    PROVE  save'[t].pc \in Beyond
<1>1. ASSUME NEW s \in Savers, SaverStep(s)
      PROVE  save'[t].pc \in Beyond
  <2>1. CASE t = s
    BY <1>1, <2>1, NextCall DEF NextCalls, Beyond
  <2> QED
    BY <1>1, <2>1, OthersStay
<1>2. CASE \A s \in Savers : ~SaverStep(s)
  BY <1>2, AroundStep DEF Beyond
<1> QED
  BY <1>1, <1>2

LEMMA WritesWhatIsTakenStep ==
    SaveTypeOK /\ TakenIsBeyond /\ WritesWhatIsTaken /\ [SaveNext]_saveVars => WritesWhatIsTaken'
<1> SUFFICES ASSUME SaveTypeOK, TakenIsBeyond, WritesWhatIsTaken, [SaveNext]_saveVars,
                    NEW u \in Savers, save'[u].pc \in {"over", "flush", "provided"}
             PROVE  /\ save'[u].on \in Inodes
                    /\ \A t \in Savers : save'[u].on = Temp(t) => save'[t].pc \in Beyond
  BY DEF WritesWhatIsTaken
<1>1. CASE save[u].pc \in {"over", "flush", "provided"} /\ save'[u].on = save[u].on
  BY <1>1, BeyondStays DEF WritesWhatIsTaken
<1>2. ASSUME save'[u].on = Made(u)
      PROVE  save'[u].on \in Inodes /\ \A t \in Savers : save'[u].on # Temp(t)
  BY <1>2, InodesDiffer
<1>3. ASSUME save'[u].on = name, name # None
      PROVE  /\ save'[u].on \in Inodes
             /\ \A t \in Savers : save'[u].on = Temp(t) => save'[t].pc \in Beyond
  BY <1>3, BeyondStays DEF SaveTypeOK, TakenIsBeyond
<1>4. ASSUME NEW s \in Savers, SaverStep(s)
      PROVE  \/ save[u].pc \in {"over", "flush", "provided"} /\ save'[u].on = save[u].on
             \/ save'[u].on = Made(u)
             \/ save'[u].on = name /\ name # None
  <2>1. CASE u = s
    BY <1>4, <2>1, WritesStep
  <2>2. CASE u # s
    BY <1>4, <2>2, OthersStay
  <2> QED
    BY <2>1, <2>2
<1>5. ASSUME \A s \in Savers : ~SaverStep(s)
      PROVE  save[u].pc \in {"over", "flush", "provided"} /\ save'[u].on = save[u].on
  BY <1>5, AroundStep
<1> QED
  BY <1>1, <1>2, <1>3, <1>4, <1>5

\* While a save is at its temporary file no step of another touches it.
LEMMA TempUntouched ==
    ASSUME SaveTypeOK, TakenIsBeyond, WritesWhatIsTaken, [SaveNext]_saveVars,
           NEW t \in Savers, save'[t].pc \in {"write", "keep", "sync", "rename"}, ~SaverStep(t)
    PROVE  /\ save'[t] = save[t]
           /\ data'[Temp(t)] = data[Temp(t)] /\ durable'[Temp(t)] = durable[Temp(t)]
<1>1. ASSUME NEW s \in Savers, SaverStep(s)
      PROVE  /\ save'[t] = save[t]
             /\ data'[Temp(t)] = data[Temp(t)] /\ durable'[Temp(t)] = durable[Temp(t)]
  <2>1. s # t /\ save'[t] = save[t] /\ save[t].pc \notin Beyond
    BY <1>1, OthersStay DEF Beyond
  <2>2. Temp(t) \in Inodes /\ Temp(t) \notin {Temp(s), Made(s)}
    BY <2>1, InodesDiffer
  <2>3. Temp(t) # name
    BY <2>1 DEF TakenIsBeyond, SaveTypeOK
  <2>4. save[s].pc \in {"over", "flush", "provided"} => Temp(t) # save[s].on
    BY <2>1 DEF WritesWhatIsTaken
  <2> QED
    BY <1>1, <2>1, <2>2, <2>3, <2>4, ContentsStay
<1>2. CASE \A s \in Savers : ~SaverStep(s)
  <2>1. save'[t] = save[t] /\ Saving(t)
    BY <1>2, AroundStep DEF Saving, Ended
  <2> QED
    BY <1>2, <2>1, AroundStep DEF Saving
<1> QED
  BY <1>1, <1>2

LEMMA TempsAreWholeStep ==
    SaveTypeOK /\ TakenIsBeyond /\ WritesWhatIsTaken /\ TempsAreWhole /\ [SaveNext]_saveVars
        => TempsAreWhole'
<1> SUFFICES ASSUME SaveTypeOK, TakenIsBeyond, WritesWhatIsTaken, TempsAreWhole,
                    [SaveNext]_saveVars, NEW t \in Savers
             PROVE  /\ save'[t].pc = "write" => data'[Temp(t)] = [i \in 1 .. save'[t].at |-> t]
                    /\ save'[t].pc \in {"keep", "sync", "rename"} => data'[Temp(t)] = Whole(t)
                    /\ save'[t].pc = "rename" => durable'[Temp(t)] = {Whole(t)}
  BY DEF TempsAreWhole
<1>t. /\ save \in [Savers -> Progress] /\ save[t] \in Progress
      /\ data \in [Inodes -> Content] /\ durable \in [Inodes -> SUBSET Content]
      /\ Temp(t) \in Inodes /\ Chunks[t] \in Nat /\ save[t].at \in Nat /\ save[t].at <= Chunks[t]
  BY SaveAssumption, InodesDiffer DEF SaveTypeOK, Authors, Progress
<1>1. CASE ~SaverStep(t)
  BY <1>1, TempUntouched DEF TempsAreWhole
<1>2. CASE save'[t].pc \notin {"write", "keep", "sync", "rename"}
  BY <1>2
<1>3. CASE OpenTemp(t) /\ save'[t].pc = "write"
  <2>1. ~GoesTo(t, "failed") /\ ~GoesTo(t, "open") /\ ~GoesTo(t, "provide")
    BY <1>t, <1>3 DEF GoesTo, Progress
  <2>2. Creates(Temp(t)) /\ save' = [save EXCEPT ![t] = [@ EXCEPT !.pc = "write", !.at = 0]]
    BY <1>3, <2>1 DEF OpenTemp
  <2>3. save'[t] = [save[t] EXCEPT !.pc = "write", !.at = 0]
    BY <1>t, <2>2
  <2>4. save'[t].at = 0
    BY <1>t, <2>3 DEF Progress
  <2>5. data'[Temp(t)] = <<>>
    BY <1>t, <2>2 DEF Creates
  <2> QED
    BY <1>3, <2>4, <2>5
<1>4. CASE WriteTemp(t)
  <2>1. data[Temp(t)] = [i \in 1 .. save[t].at |-> t] /\ save[t].pc = "write"
    BY <1>4 DEF TempsAreWhole, WriteTemp, At
  <2>2. CASE /\ Puts(Temp(t), Append(data[Temp(t)], t))
             /\ save' = [save EXCEPT ![t].at = @ + 1]
    <3>1. save'[t].pc = "write" /\ save'[t].at = save[t].at + 1
      BY <1>t, <2>1, <2>2 DEF Progress
    <3>2. data'[Temp(t)] = Append(data[Temp(t)], t)
      BY <1>t, <2>2 DEF Puts
    <3>3. Append(data[Temp(t)], t) = [i \in 1 .. save[t].at + 1 |-> t]
      BY <1>t, <2>1
    <3> QED
      BY <3>1, <3>2, <3>3
  <2>3. CASE /\ save[t].at = Chunks[t]
             /\ GoesTo(t, IF save[t].found THEN "keep" ELSE "sync")
             /\ UNCHANGED <<data, durable>>
    <3>1. save'[t].pc \in {"keep", "sync"}
      BY <1>t, <2>3 DEF GoesTo, Progress
    <3>2. data'[Temp(t)] = Whole(t)
      BY <1>t, <2>1, <2>3 DEF Whole
    <3> QED
      BY <3>1, <3>2
  <2>4. CASE DropsTo(t, "failed")
    <3>1. save'[t].pc = "drop"
      BY <1>t, <2>4 DEF DropsTo, Progress
    <3> QED
      BY <3>1
  <2> QED
    BY <1>4, <2>2, <2>3, <2>4 DEF WriteTemp
<1>5. CASE keepsAccess(t)
  <2>1. save'[t].pc \in {"sync", "drop"} /\ save[t].pc = "keep"
    BY <1>5, NextCall DEF NextCalls, SaverStep, keepsAccess, At
  <2> QED
    BY <1>5, <2>1 DEF keepsAccess, TempsAreWhole
<1>6. CASE Sync(t) /\ save'[t].pc = "rename"
  <2>1. save[t].pc = "sync" /\ UNCHANGED data
    BY <1>6 DEF Sync, At
  <2>2. ~DropsTo(t, "failed")
    BY <1>t, <1>6 DEF DropsTo, Progress
  <2>3. Flushed(Temp(t))
    BY <1>6, <2>2 DEF Sync
  <2> QED
    BY <1>t, <1>6, <2>1, <2>3 DEF Flushed, TempsAreWhole
<1>7. ASSUME SaverStep(t), save'[t].pc \in {"write", "keep", "sync", "rename"}
      PROVE  \/ OpenTemp(t) /\ save'[t].pc = "write"
             \/ WriteTemp(t) \/ keepsAccess(t)
             \/ Sync(t) /\ save'[t].pc = "rename"
  <2>1. \/ save[t].pc = "temp" /\ save'[t].pc = "write"
        \/ save[t].pc \in {"write", "keep"}
        \/ save[t].pc = "sync" /\ save'[t].pc = "rename"
    BY <1>7, NextCall DEF NextCalls
  <2> QED
    BY <1>7, <2>1 DEF SaverStep, At, Stat, Access, ListTemps, Sweep, OpenTemp, WriteTemp,
         keepsAccess, Sync, Rename, Drop, SyncDir, Open, Create, Over, Flush, ProviderOpens,
         ProviderWrites
<1> QED
  BY <1>1, <1>2, <1>3, <1>4, <1>5, <1>6, <1>7

LEMMA AccessHandedOnStep ==
    SaveTypeOK /\ TakenIsBeyond /\ AccessHandedOn /\ [SaveNext]_saveVars => AccessHandedOn'
<1> SUFFICES ASSUME SaveTypeOK, TakenIsBeyond, AccessHandedOn, [SaveNext]_saveVars,
                    NEW t \in Savers, save'[t].found,
                    save'[t].pc \in {"sync", "rename"} \/ Temp(t) \in names'
             PROVE  Temp(t) \in kept'
  BY DEF AccessHandedOn
<1>t. save \in [Savers -> Progress] /\ save[t] \in Progress /\ Temp(t) \in Inodes
  BY InodesDiffer DEF SaveTypeOK
<1>1. ASSUME NEW s \in Savers, SaverStep(s), s # t
      PROVE  Temp(t) \in kept'
  <2>1. save'[t] = save[t] /\ kept \subseteq kept'
    BY <1>1, OthersStay, AccessGrows
  <2>2. Temp(t) \in names' => Temp(t) \in names
    BY <1>1, NamesStep, InodesDiffer
  <2> QED
    BY <2>1, <2>2 DEF AccessHandedOn
<1>2. CASE SaverStep(t)
  <2>1. kept \subseteq kept' /\ save[t].pc # "idle" /\ save[t].found
    <3>1. CASE save[t].pc = "idle"
      <4>1. save'[t].pc \in {"access", "list", "failed"}
        BY <1>2, <3>1, NextCall DEF NextCalls
      <4>2. Temp(t) \notin names
        BY <3>1 DEF TakenIsBeyond, Beyond
      <4> QED
        BY <1>2, <3>1, <4>1, <4>2, NamesStep, InodesDiffer
    <3> QED
      BY <1>2, <3>1, FoundStays, AccessGrows
  <2>2. CASE WriteTemp(t)
    <3>1. save[t].pc = "write" /\ names' = names
      BY <2>2 DEF WriteTemp, At
    <3>2. save'[t].pc # "sync" /\ save'[t].pc # "rename"
      <4>1. ASSUME NEW pc, GoesTo(t, pc) PROVE save'[t].pc = pc
        BY <1>t, <4>1 DEF GoesTo, Progress
      <4>2. DropsTo(t, "failed") => save'[t].pc = "drop"
        BY <1>t DEF DropsTo, Progress
      <4>3. save' = [save EXCEPT ![t].at = @ + 1] => save'[t].pc = "write"
        BY <1>t, <3>1 DEF Progress
      <4> QED
        BY <2>1, <2>2, <4>1, <4>2, <4>3 DEF WriteTemp
    <3> QED
      BY <2>1, <3>1, <3>2 DEF AccessHandedOn
  <2>3. CASE keepsAccess(t)
    <3>1. save[t].pc = "keep" /\ names' = names
      BY <2>3 DEF keepsAccess, At
    <3>2. DropsTo(t, "open") \/ DropsTo(t, "failed") => save'[t].pc = "drop"
      BY <1>t DEF DropsTo, Progress
    <3> QED
      BY <2>1, <2>3, <3>1, <3>2 DEF keepsAccess, AccessHandedOn
  <2>4. CASE save[t].pc \notin {"write", "keep"}
    <3>1. save'[t].pc \in {"sync", "rename"} => save[t].pc = "sync"
      BY <1>2, <2>4, NextCall DEF NextCalls
    <3>2. Temp(t) \in names' => Temp(t) \in names \/ save[t].pc = "rename"
      BY <1>2, NamesStep, InodesDiffer
    <3> QED
      BY <2>1, <3>1, <3>2 DEF AccessHandedOn
  <2>5. save[t].pc \in {"write", "keep"} => WriteTemp(t) \/ keepsAccess(t)
    BY <1>2 DEF SaverStep, At, Stat, Access, ListTemps, Sweep, OpenTemp, Sync, Rename, Drop,
         SyncDir, Open, Create, Over, Flush, ProviderOpens, ProviderWrites
  <2> QED
    BY <2>2, <2>3, <2>4, <2>5
<1>3. CASE \A s \in Savers : ~SaverStep(s)
  <2>1. Temp(t) # None
    BY <1>t, SaveAssumption
  <2> QED
    BY <1>3, <2>1, AroundStep DEF AccessHandedOn
<1> QED
  BY <1>1, <1>2, <1>3

LEMMA OriginalIsGoneStep ==
    SaveTypeOK /\ OriginalIsGone /\ [SaveNext]_saveVars => OriginalIsGone'
<1> SUFFICES ASSUME SaveTypeOK, OriginalIsGone, [SaveNext]_saveVars
             PROVE  OriginalIsGone'
  OBVIOUS
<1>t. save \in [Savers -> Progress] /\ \A s \in Savers : save[s] \in Progress
  BY DEF SaveTypeOK
<1>1. Orig \notin names => Orig \notin names'
  <2>1. ASSUME NEW s \in Savers, SaverStep(s)
        PROVE  Orig \notin names => Orig \notin names'
    BY <2>1, NamesStep, InodesDiffer
  <2>2. CASE \A s \in Savers : ~SaverStep(s)
    <3>1. Orig # None
      BY SaveAssumption DEF Inodes
    <3> QED
      BY <2>2, <3>1, AroundStep
  <2> QED
    BY <2>1, <2>2
<1>2. ASSUME ~folder'
      PROVE  names' = {None} /\ temps' = {}
  <2>1. ASSUME NEW s \in Savers, SaverStep(s)
        PROVE  names' = {None} /\ temps' = {}
    <3>1. ~folder /\ names = {None} /\ temps = {}
      <4>1. folder' = folder \/ folder' = TRUE
        BY <2>1 DEF SaverStep, Stat, Access, ListTemps, Sweep, OpenTemp, WriteTemp, keepsAccess, Sync,
             Rename, Drop, SyncDir, Open, Create, Over, Flush, ProviderOpens, ProviderWrites, fileVars
      <4> QED
        BY <1>2, <4>1 DEF OriginalIsGone, SaveTypeOK
    <3>2. name = None
      BY <3>1 DEF SaveTypeOK
    <3>3. CASE Stat(s) \/ Access(s) \/ ListTemps(s) \/ Sweep(s) \/ OpenTemp(s) \/ WriteTemp(s)
      BY <3>1, <3>3 DEF Stat, Access, ListTemps, Sweep, OpenTemp, WriteTemp, fileVars
    <3>4. CASE keepsAccess(s) \/ Sync(s) \/ Rename(s) \/ Drop(s) \/ SyncDir(s)
      BY <3>1, <3>2, <3>4 DEF keepsAccess, Sync, Rename, Drop, SyncDir
    <3>5. CASE \/ Open(s) \/ Create(s) \/ Over(s) \/ Flush(s)
               \/ ProviderOpens(s) \/ ProviderWrites(s)
      BY <1>2, <3>1, <3>5 DEF Open, Create, Over, Flush, ProviderOpens, ProviderWrites, fileVars
    <3> QED
      BY <2>1, <3>3, <3>4, <3>5 DEF SaverStep
  <2>2. CASE \A s \in Savers : ~SaverStep(s)
    <3>1. folder \/ (names = {None} /\ temps = {})
      BY DEF OriginalIsGone
    <3>2. \A s \in Savers : Temp(s) # None
      BY SaveAssumption, InodesDiffer
    <3>3. name' \in names'
      BY StepType DEF SaveTypeOK
    <3> QED
      BY <1>2, <2>2, <3>1, <3>2, <3>3, AroundStep DEF SaveTypeOK
  <2> QED
    BY <2>1, <2>2
<1>3. ASSUME NEW u \in Savers
      PROVE  /\ save'[u].pc \in {"provide", "provided"} => Orig \notin names'
             /\ save'[u].pc = "provided" => save'[u].on # Orig
  <2>1. CASE save'[u] = save[u]
    BY <1>1, <2>1 DEF OriginalIsGone
  <2>2. CASE SaverStep(u)
    <3>1. CASE save'[u].pc = "provide"
      <4>1. save[u].pc = "temp"
        BY <2>2, <3>1, NextCall DEF NextCalls
      <4>2. OpenTemp(u)
        BY <2>2, <4>1 DEF SaverStep, At, Stat, Access, ListTemps, Sweep, WriteTemp, keepsAccess, Sync,
             Rename, Drop, SyncDir, Open, Create, Over, Flush, ProviderOpens, ProviderWrites
      <4>3. ~GoesTo(u, "open") /\ ~GoesTo(u, "failed")
        BY <1>t, <3>1 DEF GoesTo, Progress
      <4>4. save' # [save EXCEPT ![u] = [@ EXCEPT !.pc = "write", !.at = 0]]
        <5>1. [save[u] EXCEPT !.pc = "write", !.at = 0].pc = "write"
          BY <1>t DEF Progress
        <5> QED
          BY <1>t, <3>1, <5>1
      <4>5. ~folder /\ names' = names
        BY <4>2, <4>3, <4>4 DEF OpenTemp
      <4>6. Orig # None
        BY SaveAssumption DEF Inodes
      <4> QED
        BY <3>1, <4>5, <4>6 DEF OriginalIsGone
    <3>2. CASE save'[u].pc = "provided"
      <4>1. save[u].pc = "provide" /\ save'[u].on \in {name, Made(u)}
        BY <2>2, <3>2, NextCall, WritesStep DEF NextCalls
      <4> QED
        BY <1>1, <3>2, <4>1, InodesDiffer DEF OriginalIsGone, SaveTypeOK
    <3> QED
      BY <3>1, <3>2
  <2>3. CASE save'[u].pc = "dead"
    BY <2>3
  <2> QED
    <3>1. ASSUME NEW s \in Savers, SaverStep(s)
          PROVE  s = u \/ save'[u] = save[u]
      BY <3>1, OthersStay
    <3>2. CASE \A s \in Savers : ~SaverStep(s)
      BY <2>1, <2>3, <3>2, AroundStep
    <3> QED
      BY <2>1, <2>2, <3>1, <3>2
<1> QED
  BY <1>2, <1>3 DEF OriginalIsGone

LEMMA OriginalIsAloneStep ==
    SaveTypeOK /\ OriginalIsGone /\ OriginalIsAlone /\ [SaveNext]_saveVars => OriginalIsAlone'
<1> DEFINE Here == {"idle", "access", "open", "over", "flush", "failed", "in-place", "dead"}
<1> SUFFICES ASSUME SaveTypeOK, OriginalIsGone, OriginalIsAlone, [SaveNext]_saveVars,
                    Orig \in names', linked' \/ ~writable'
             PROVE  /\ names' = {Orig}
                    /\ \A u \in Savers : /\ save'[u].pc \in Here
                                         /\ save'[u].pc = "access" => save'[u].many = linked'
  BY DEF OriginalIsAlone
<1>t. save \in [Savers -> Progress] /\ \A s \in Savers : save[s] \in Progress
  BY DEF SaveTypeOK
<1>1. linked' = linked /\ writable' = writable
  <2>1. ASSUME NEW s \in Savers, SaverStep(s)
        PROVE  linked' = linked /\ writable' = writable
    BY <2>1, AccessGrows
  <2>2. CASE \A s \in Savers : ~SaverStep(s)
    BY <2>2, AroundStep
  <2> QED
    BY <2>1, <2>2
<1>2. Orig \in names
  <2>1. ASSUME NEW s \in Savers, SaverStep(s)
        PROVE  Orig \in names
    BY <2>1, NamesStep, InodesDiffer
  <2>2. CASE \A s \in Savers : ~SaverStep(s)
    <3>1. Orig # None
      BY SaveAssumption DEF Inodes
    <3> QED
      BY <2>2, <3>1, AroundStep
  <2> QED
    BY <2>1, <2>2
<1>3. /\ names = {Orig} /\ name = Orig /\ folder /\ Orig # None
      /\ \A u \in Savers : save[u].pc \in Here /\ (save[u].pc = "access" => save[u].many = linked)
  <2>1. Orig # None
    BY SaveAssumption DEF Inodes
  <2> QED
    BY <1>1, <1>2, <2>1 DEF OriginalIsAlone, OriginalIsGone, SaveTypeOK
<1>4. ASSUME NEW s \in Savers, SaverStep(s)
      PROVE  /\ names' = {Orig}
             /\ save'[s].pc \in Here
             /\ save'[s].pc = "access" => save'[s].many = linked'
  <2>1. save[s].pc \in {"idle", "access", "open", "over", "flush"}
    BY <1>3, <1>4, NextCall DEF NextCalls
  <2>2. Stat(s) \/ Access(s) \/ Open(s) \/ Over(s) \/ Flush(s)
    BY <1>4, <2>1 DEF SaverStep, At, ListTemps, Sweep, OpenTemp, WriteTemp, keepsAccess, Sync,
         Rename, Drop, SyncDir, Create, ProviderOpens, ProviderWrites
  <2>3. names' = names
    BY <2>2 DEF Stat, Access, Open, Over, Flush, fileVars
  <2>4. CASE Stat(s)
    <3>1. CASE GoesTo(s, "failed")
      <4>1. save'[s].pc = "failed"
        BY <1>t, <3>1 DEF GoesTo, Progress
      <4> QED
        BY <1>3, <2>3, <4>1
    <3>2. CASE ~GoesTo(s, "failed")
      <4>1. save' = [save EXCEPT ![s] = [@ EXCEPT !.pc = "access", !.found = TRUE, !.many = linked]]
        BY <1>3, <2>4, <3>2 DEF Stat, SaveTypeOK
      <4>2. save'[s] = [save[s] EXCEPT !.pc = "access", !.found = TRUE, !.many = linked]
        BY <1>t, <4>1
      <4>3. save'[s].pc = "access" /\ save'[s].many = linked
        BY <1>t, <4>2 DEF Progress
      <4> QED
        BY <1>1, <1>3, <2>3, <4>3
    <3> QED
      BY <3>1, <3>2
  <2>5. CASE Access(s)
    <3>1. save'[s].pc \in {"failed", "open"}
      <4>1. GoesTo(s, "failed") \/ GoesTo(s, "open")
        BY <1>1, <1>3, <2>5 DEF Access, At, SaveTypeOK
      <4> QED
        BY <1>t, <4>1 DEF GoesTo, Progress
    <3> QED
      BY <1>3, <2>3, <3>1
  <2>6. CASE Open(s)
    <3>1. save'[s].pc \in {"over", "failed"}
      <4>1. save'[s].pc = "create" => GoesTo(s, IF name = None THEN "create" ELSE "failed")
        <5>1. [save[s] EXCEPT !.pc = "over", !.on = name, !.at = 0].pc = "over"
          BY <1>t DEF Progress
        <5> QED
          BY <1>t, <2>6, <5>1 DEF Open
      <4>2. save'[s].pc \in {"over", "create", "failed"}
        BY <1>4, <2>6, NextCall DEF NextCalls, Open, At
      <4> QED
        BY <1>3, <1>t, <4>1, <4>2 DEF GoesTo, Progress
    <3> QED
      BY <1>3, <2>3, <3>1
  <2>7. CASE Over(s) \/ Flush(s)
    <3>1. save'[s].pc \in {"over", "flush", "failed", "in-place"}
      BY <1>4, <2>7, NextCall DEF NextCalls, Over, Flush, At
    <3> QED
      BY <1>3, <2>3, <3>1
  <2> QED
    BY <2>2, <2>4, <2>5, <2>6, <2>7
<1>5. CASE \E s \in Savers : SaverStep(s)
  <2>1. PICK s \in Savers : SaverStep(s)
    BY <1>5
  <2>2. ASSUME NEW u \in Savers \ {s}
        PROVE  save'[u] = save[u]
    BY <2>1, <2>2, OthersStay
  <2> QED
    BY <1>1, <1>3, <1>4, <2>1, <2>2
<1>6. CASE \A s \in Savers : ~SaverStep(s)
  <2>1. names' = {Orig}
    BY <1>3, <1>6, AroundStep
  <2> QED
    BY <1>1, <1>3, <1>6, <2>1, AroundStep
<1> QED
  BY <1>5, <1>6

\* What may be left of the original is never empty: a write in place covers it
\* chunk by chunk and then cuts it, but never below the file it writes.
LEMMA NeverEmptiedStep ==
    SaveTypeOK /\ WritesWhatIsTaken /\ OriginalIsGone /\ NeverEmptied /\ [SaveNext]_saveVars
        => NeverEmptied'
<1> DEFINE Full(d) == /\ d # <<>> /\ d[1] # Zeros
                      /\ \E a \in Authors : Len(d) >= Chunks[a]
<1> SUFFICES ASSUME SaveTypeOK, WritesWhatIsTaken, OriginalIsGone, NeverEmptied,
                    [SaveNext]_saveVars, NEW d \in durable'[Orig]
             PROVE  Full(d)
  BY DEF NeverEmptied
<1>t. /\ save \in [Savers -> Progress] /\ \A s \in Savers : save[s] \in Progress
      /\ data \in [Inodes -> Content] /\ durable \in [Inodes -> SUBSET Content]
      /\ Orig \in Inodes /\ data[Orig] \in durable[Orig]
  BY DEF SaveTypeOK, Inodes
<1>n. \A e \in durable[Orig] : Full(e)
  BY DEF NeverEmptied
<1>1. CASE d \in durable[Orig]
  BY <1>1, <1>n
<1>2. ASSUME NEW s \in Savers, SaverStep(s), d \notin durable[Orig]
      PROVE  Full(d)
  <2> DEFINE o == data[Orig]
  <2>1. Full(o) /\ o \in Content /\ Len(o) \in Nat /\ Len(o) > 0 /\ s \in Authors /\ Chunks[s] \in Nat \ {0}
    BY <1>t, <1>n, SaveAssumption DEF Content, Authors
  <2>2. durable'[Orig] # durable[Orig]
    BY <1>2
  <2>3. Orig = name \/ (save[s].pc \in {"over", "flush", "provided"} /\ save[s].on = Orig)
    BY <1>2, <1>t, <2>2, ContentsStay, InodesDiffer
  <2>4. save[s].pc \notin {"provide", "provided"}
    BY <2>3 DEF OriginalIsGone, SaveTypeOK
  <2>5. CASE Flush(s)
    <3>1. durable'[Orig] \in {durable[Orig], {o}}
      BY <1>t, <2>5 DEF Flush, Flushed
    <3> QED
      BY <1>t, <1>2, <3>1
  <2>6. CASE Over(s)
    <3>1. save[s].at + 1 \in Nat \ {0} /\ save[s].pc = "over"
      BY <1>t, <2>6 DEF Progress, Over, At
    <3>2. d \in {Chunk(o, save[s].at + 1, s), Resized(o, Chunks[s])}
      BY <1>t, <1>2, <2>6 DEF Over, Puts
    <3>3. Full(Chunk(o, save[s].at + 1, s))
      <4> DEFINE c == Chunk(o, save[s].at + 1, s)
      <4>1. c \in Content /\ Len(c) >= Len(o) /\ c[1] \in {s, o[1]}
        <5>1. ASSUME NEW i \in Nat \ {0}, NEW e \in Content, e # <<>>
              PROVE  /\ Chunk(e, i, s) \in Content /\ Len(Chunk(e, i, s)) >= Len(e)
                     /\ Chunk(e, i, s)[1] \in {s, e[1]}
          <6>1. s \in Authors
            BY <2>1
          <6> QED
            BY <5>1, <6>1, ChunkType
        <5> QED
          BY <2>1, <3>1, <5>1
      <4>2. c # <<>> /\ Len(c) \in Nat
        BY <2>1, <4>1 DEF Content
      <4>3. c[1] # Zeros
        BY <2>1, <4>1, SaveAssumption
      <4>4. PICK a \in Authors : Len(o) >= Chunks[a]
        BY <2>1
      <4>5. Len(c) >= Chunks[a]
        BY <2>1, <4>1, <4>2, <4>4, SaveAssumption
      <4> QED
        BY <4>2, <4>3, <4>5
    <3>4. Full(Resized(o, Chunks[s]))
      <4> DEFINE c == Resized(o, Chunks[s])
      <4>1. c \in Content /\ Len(c) = Chunks[s] /\ c[1] = o[1]
        BY <2>1, ResizedType
      <4>2. c # <<>>
        BY <2>1, <4>1 DEF Content
      <4> QED
        BY <2>1, <4>1, <4>2
    <3> QED
      BY <3>2, <3>3, <3>4
  <2>7. CASE OpenTemp(s) \/ WriteTemp(s) \/ Sync(s) \/ Create(s)
    <3>1. Temp(s) # Orig /\ Made(s) # Orig
      BY InodesDiffer
    <3>2. durable'[Orig] = durable[Orig]
      BY <1>t, <2>7, <3>1 DEF OpenTemp, WriteTemp, Sync, Create, Creates, Puts, Flushed
    <3> QED
      BY <2>2, <3>2
  <2>8. CASE \/ Stat(s) \/ Access(s) \/ ListTemps(s) \/ Sweep(s) \/ keepsAccess(s)
             \/ Rename(s) \/ Drop(s) \/ SyncDir(s) \/ Open(s)
    BY <2>2, <2>8 DEF Stat, Access, ListTemps, Sweep, keepsAccess, Rename, Drop, SyncDir, Open, fileVars
  <2>9. ~ProviderOpens(s) /\ ~ProviderWrites(s)
    BY <2>4 DEF ProviderOpens, ProviderWrites, At
  <2> QED
    BY <1>2, <2>5, <2>6, <2>7, <2>8, <2>9 DEF SaverStep
<1>3. CASE \A s \in Savers : ~SaverStep(s)
  BY <1>1, <1>3, <1>t, AroundStep
<1> QED
  BY <1>1, <1>2, <1>3

-----------------------------------------------------------------------------
(***************************************************************************)
(* The invariant of the specification, and what follows from it.           *)
(***************************************************************************)
SaveIInv ==
    /\ SaveTypeOK /\ TakenIsBeyond /\ WritesWhatIsTaken /\ TempsAreWhole
    /\ AccessHandedOn /\ OriginalIsGone /\ OriginalIsAlone /\ NeverEmptied

LEMMA InitInvariant == SaveInit => SaveIInv
<1> SUFFICES ASSUME SaveInit PROVE SaveIInv
  OBVIOUS
<1>1. SaveTypeOK
  BY InitType
<1>2. /\ names \subseteq {Orig, None} /\ (Orig \in names => names = {Orig})
      /\ folder /\ temps = {} /\ None # Orig
      /\ \A s \in Savers : save[s] = NotBegun /\ Temp(s) \notin names
  <2>1. Orig \in Inodes /\ \A s \in Savers : Temp(s) \in Inodes /\ Temp(s) # Orig
    BY InodesDiffer DEF Inodes
  <2>2. None # Orig /\ \A s \in Savers : Temp(s) # None
    BY <2>1, SaveAssumption
  <2> QED
    BY <2>1, <2>2 DEF SaveInit
<1>3. \A s \in Savers : save[s].pc = "idle" /\ ~save[s].found
  BY <1>2 DEF NotBegun
<1>4. TakenIsBeyond /\ WritesWhatIsTaken /\ TempsAreWhole /\ AccessHandedOn
  BY <1>2, <1>3 DEF TakenIsBeyond, WritesWhatIsTaken, TempsAreWhole, AccessHandedOn
<1>5. OriginalIsGone /\ OriginalIsAlone
  BY <1>2, <1>3 DEF OriginalIsGone, OriginalIsAlone
<1>6. NeverEmptied
  <2>1. durable[Orig] = {Whole(Original)} /\ Original \in Authors
    BY DEF SaveInit, Inodes, Authors
  <2>2. Len(Whole(Original)) >= Chunks[Original] /\ Whole(Original) # <<>> /\ Whole(Original)[1] # Zeros
    BY <2>1, SaveAssumption, WholeType
  <2> QED
    BY <2>1, <2>2 DEF NeverEmptied
<1> QED
  BY <1>1, <1>4, <1>5, <1>6 DEF SaveIInv

LEMMA StepInvariant == SaveIInv /\ [SaveNext]_saveVars => SaveIInv'
BY StepType, TakenStep, WritesWhatIsTakenStep, TempsAreWholeStep, AccessHandedOnStep,
   OriginalIsGoneStep, OriginalIsAloneStep, NeverEmptiedStep DEF SaveIInv

\* Every reachable state satisfies the inductive invariant.
THEOREM SaveInvariant == SaveSpec => []SaveIInv
BY InitInvariant, StepInvariant, PTL DEF SaveSpec

\* However many windows save one file, and whatever fails, the files, their
\* contents and every save's progress are of their types (replaceFile).
THEOREM SaveTypeCorrect == SaveSpec => []SaveTypeOK
<1>1. SaveIInv => SaveTypeOK
  BY DEF SaveIInv
<1> QED
  BY <1>1, SaveInvariant, PTL

\* What replaces a file that was there has its mode, owner and group (keepsAccess).
THEOREM AccessIsKept == SaveSpec => []AccessKept
<1>1. SaveIInv => AccessKept
  BY DEF SaveIInv, AccessHandedOn, AccessKept, SaveTypeOK
<1> QED
  BY <1>1, SaveInvariant, PTL

\* No write in place leaves, or may leave after a crash, an empty file or one
\* shorter than each of those written (writeInPlace).
THEOREM OriginalIsNeverEmptied == SaveSpec => []NeverEmptied
<1>1. SaveIInv => NeverEmptied
  BY DEF SaveIInv
<1> QED
  BY <1>1, SaveInvariant, PTL

\* A file with other names, or that is read-only, is never replaced: replaceFile
\* takes it to writeInPlace, or refuses.
THEOREM OriginalIsNeverReplaced == SaveSpec => OriginalStays
<1>1. SaveIInv /\ SaveIInv' /\ [SaveNext]_saveVars
          => [name = Orig /\ (linked \/ ~writable) => name' \in {Orig, None}]_saveVars
  <2> SUFFICES ASSUME SaveIInv, SaveIInv', [SaveNext]_saveVars,
                      name = Orig, linked \/ ~writable, name' # Orig
               PROVE  name' = None
    OBVIOUS
  <2>1. Orig \in names /\ names = {Orig} /\ name' \in names'
    BY DEF SaveIInv, OriginalIsAlone, SaveTypeOK
  <2>2. ASSUME NEW s \in Savers, SaverStep(s)
        PROVE  names' = names
    <3>1. save[s].pc \in {"idle", "access", "open", "over", "flush"}
      BY <2>1, <2>2, NextCall DEF SaveIInv, OriginalIsAlone, NextCalls
    <3>2. Stat(s) \/ Access(s) \/ Open(s) \/ Over(s) \/ Flush(s)
      BY <2>2, <3>1 DEF SaverStep, At, ListTemps, Sweep, OpenTemp, WriteTemp, keepsAccess, Sync,
           Rename, Drop, SyncDir, Create, ProviderOpens, ProviderWrites
    <3> QED
      BY <3>2 DEF Stat, Access, Open, Over, Flush, fileVars
  <2>3. CASE \A s \in Savers : ~SaverStep(s)
    BY <2>1, <2>3, AroundStep DEF SaveIInv
  <2> QED
    BY <2>1, <2>2, <2>3
<1> QED
  BY <1>1, SaveInvariant, PTL DEF SaveSpec, OriginalStays

-----------------------------------------------------------------------------
(***************************************************************************)
(* SafeReplace implements AtomicSave, step by step.                        *)
(***************************************************************************)

\* A whole file is its author's, and anybody's content is some outcome.
LEMMA FileOfWhole ==
    ASSUME NEW a \in Authors, NEW i \in Inodes
    PROVE  FileOf(i, Whole(a)) = a
<1>1. \A b \in Authors : Whole(a) = Whole(b) => a = b
  BY WholeType
<1>2. (CHOOSE b \in Authors : Whole(a) = Whole(b)) = a
  BY <1>1
<1>3. i # None
  BY SaveAssumption
<1> QED
  BY <1>2, <1>3 DEF FileOf

LEMMA FileOfType == ASSUME NEW i, NEW d PROVE FileOf(i, d) \in Promise!Outcomes
<1>1. CASE i # None /\ \E a \in Authors : d = Whole(a)
  <2>1. (CHOOSE a \in Authors : d = Whole(a)) \in Authors
    BY <1>1
  <2> QED
    BY <1>1, <2>1 DEF FileOf, Promise!Outcomes, Authors
<1>2. CASE ~(i # None /\ \E a \in Authors : d = Whole(a))
  BY <1>2 DEF FileOf, Promise!Outcomes
<1> QED
  BY <1>1, <1>2

LEMMA OutcomesType == file \in Promise!Outcomes /\ past \subseteq Promise!Outcomes
BY FileOfType DEF file, past

\* A step of one save moves its promise, and no other's.
LEMMA StateMoves ==
    ASSUME SaveTypeOK, NEW s \in Savers, SaverStep(s) \/ Kill(s)
    PROVE  /\ state[s] = StateOf(save[s].pc)
           /\ state' = [state EXCEPT ![s] = StateOf(save'[s].pc)]
<1>1. \A t \in Savers \ {s} : save'[t] = save[t]
  BY OthersStay
<1> QED
  BY <1>1 DEF state

\* What is not under the name makes no difference to the promise.
LEMMA FileStays ==
    ASSUME SaveTypeOK, UNCHANGED <<name, names>>,
           \A i \in names \ {None} : data'[i] = data[i] /\ durable'[i] = durable[i]
    PROVE  UNCHANGED <<file, past>>
<1>1. file' = file
  BY DEF file, SaveTypeOK
<1>2. past' = past
  <2>1. \A i \in names : (IF i = None THEN {<<>>} ELSE durable[i])' = (IF i = None THEN {<<>>} ELSE durable[i])
    OBVIOUS
  <2> QED
    BY <2>1 DEF past
<1> QED
  BY <1>1, <1>2

\* A step that neither renames nor writes in place leaves the file as it was.
LEMMA QuietStep ==
    ASSUME SaveIInv, NEW s \in Savers, SaverStep(s),
           save'[s].pc \notin {"syncDir", "replaced", "in-place"},
           save[s].pc \in {"create", "over", "flush", "provide"} => save'[s].pc = "failed"
    PROVE  UNCHANGED <<file, past>>
<1>t. /\ SaveTypeOK /\ save \in [Savers -> Progress] /\ save[s] \in Progress
      /\ data \in [Inodes -> Content] /\ durable \in [Inodes -> SUBSET Content]
  BY DEF SaveIInv, SaveTypeOK
<1>g. ASSUME NEW pc, GoesTo(s, pc)
      PROVE  save'[s].pc = pc
  BY <1>t, <1>g DEF GoesTo, Progress
<1>1. CASE Stat(s) \/ Access(s) \/ ListTemps(s) \/ Sweep(s) \/ keepsAccess(s) \/ Drop(s) \/ Open(s)
  <2>1. UNCHANGED <<name, names, data, durable>>
    BY <1>1 DEF Stat, Access, ListTemps, Sweep, keepsAccess, Drop, Open, fileVars
  <2> QED
    BY <1>t, <2>1, FileStays
<1>2. CASE OpenTemp(s) \/ WriteTemp(s) \/ Sync(s)
  <2>1. /\ UNCHANGED <<name, names>>
        /\ \A i \in Inodes : i # Temp(s) => data'[i] = data[i] /\ durable'[i] = durable[i]
    BY <1>t, <1>2 DEF OpenTemp, WriteTemp, Sync, Creates, Puts, Flushed
  <2>2. Temp(s) \notin names
    BY <1>2 DEF OpenTemp, WriteTemp, Sync, At, SaveIInv, TakenIsBeyond, Beyond
  <2> QED
    BY <1>t, <2>1, <2>2, FileStays DEF SaveTypeOK
<1>3. CASE Rename(s)
  <2>1. ~GoesTo(s, "syncDir")
    BY <1>g
  <2>2. UNCHANGED <<name, names, data, durable>>
    BY <1>3, <2>1 DEF Rename
  <2> QED
    BY <1>t, <2>2, FileStays
<1>4. CASE Create(s)
  <2>1. save' # [save EXCEPT ![s] = [@ EXCEPT !.pc = "over", !.on = Made(s), !.at = 0]]
    <3>1. [save[s] EXCEPT !.pc = "over", !.on = Made(s), !.at = 0].pc = "over"
      BY <1>t DEF Progress
    <3> QED
      BY <1>t, <1>4, <3>1 DEF Create, At
  <2>2. UNCHANGED <<name, names, data, durable>>
    BY <1>4, <2>1 DEF Create
  <2> QED
    BY <1>t, <2>2, FileStays
<1>5. CASE Over(s)
  <2>1. save' # [save EXCEPT ![s].at = @ + 1] /\ ~GoesTo(s, "flush")
    <3>1. save' = [save EXCEPT ![s].at = @ + 1] => save'[s].pc = save[s].pc
      BY <1>t DEF Progress
    <3> QED
      BY <1>5, <1>g, <3>1 DEF Over, At
  <2>2. UNCHANGED <<name, names, data, durable>>
    BY <1>5, <2>1 DEF Over
  <2> QED
    BY <1>t, <2>2, FileStays
<1>6. CASE Flush(s)
  <2>1. ~GoesTo(s, "in-place")
    BY <1>g
  <2>2. UNCHANGED <<name, names, data, durable>>
    BY <1>6, <2>1 DEF Flush
  <2> QED
    BY <1>t, <2>2, FileStays
<1>7. CASE ProviderOpens(s)
  <2> DEFINE i == IF name = None THEN Made(s) ELSE name
  <2>1. save' # [save EXCEPT ![s] = [@ EXCEPT !.pc = "provided", !.on = i]]
    <3> HIDE DEF i
    <3>1. [save[s] EXCEPT !.pc = "provided", !.on = i].pc = "provided"
      BY <1>t DEF Progress
    <3> QED
      BY <1>t, <1>7, <3>1 DEF ProviderOpens, At
  <2>2. UNCHANGED <<name, names, data, durable>>
    BY <1>7, <2>1 DEF ProviderOpens
  <2> QED
    BY <1>t, <2>2, FileStays
<1>8. ~SyncDir(s) /\ ~ProviderWrites(s)
  BY <1>g DEF SyncDir, ProviderWrites
<1> QED
  BY <1>1, <1>2, <1>3, <1>4, <1>5, <1>6, <1>7, <1>8 DEF SaverStep

\* A step of one save is a step of its promise, or none.
LEMMA SaverImplements ==
    ASSUME SaveIInv, SaveIInv', NEW s \in Savers, SaverStep(s)
    PROVE  Promise!Next \/ UNCHANGED <<file, past, state>>
<1> DEFINE from == StateOf(save[s].pc)
           to   == StateOf(save'[s].pc)
           quiet == UNCHANGED <<file, past>>
<1>t. SaveTypeOK /\ SaveTypeOK' /\ save[s] \in Progress /\ save \in [Savers -> Progress]
  BY DEF SaveIInv, SaveTypeOK
<1>s. /\ state[s] = from /\ state' = [state EXCEPT ![s] = to]
      /\ state \in [Savers -> {"idle", "failed", "dead", "done", "taken", "overwriting", "saving"}]
  <2>1. state \in [Savers -> {"idle", "failed", "dead", "done", "taken", "overwriting", "saving"}]
    BY DEF state, StateOf
  <2> QED
    BY <1>t, <2>1, StateMoves
<1>f. file' \in Promise!Outcomes /\ past' \in SUBSET Promise!Outcomes
  <2>1. \A i, d : FileOf(i, d) \in Promise!Outcomes
    BY FileOfType
  <2> QED
    BY <2>1 DEF file, past
<1> HIDE DEF from, to
<1>1. CASE save[s].pc = "idle"
  <2>1. save'[s].pc \in {"access", "list", "failed"}
    BY <1>1, <1>t, NextCall DEF NextCalls
  <2>2. from = "idle" /\ to \in {"saving", "failed"}
    BY <1>1, <2>1 DEF from, to, StateOf
  <2>3. quiet
    BY <1>1, <2>1, QuietStep
  <2>4. Promise!Begin(s) \/ Promise!Fail(s)
    BY <1>s, <2>2, <2>3 DEF Promise!Begin, Promise!Fail, Promise!Moves
  <2> QED
    BY <2>4 DEF Promise!Next
<1>2. CASE save[s].pc \in {"access", "list", "sweep", "temp", "write", "keep", "sync", "drop"}
  <2>1. save'[s].pc \in {"open", "list", "failed", "sweep", "temp", "write", "provide", "keep",
                         "sync", "rename", "drop"}
    BY <1>2, <1>t, NextCall DEF NextCalls
  <2>2. from = "saving" /\ to \in {"saving", "overwriting", "failed"}
    BY <1>2, <2>1 DEF from, to, StateOf
  <2>3. quiet
    BY <1>2, <2>1, QuietStep
  <2>4. CASE to = "saving"
    BY <1>s, <2>2, <2>3, <2>4
  <2>5. CASE to \in {"overwriting", "failed"}
    <3>1. Promise!Overwrite(s) \/ Promise!Fail(s)
      BY <1>s, <2>2, <2>3, <2>5 DEF Promise!Overwrite, Promise!Fail, Promise!Moves
    <3> QED
      BY <3>1 DEF Promise!Next
  <2> QED
    BY <2>2, <2>4, <2>5
<1>3. CASE save[s].pc = "rename" /\ save'[s].pc # "syncDir"
  <2>1. save'[s].pc = "drop"
    BY <1>3, <1>t, NextCall DEF NextCalls
  <2>2. from = "saving" /\ to = "saving"
    BY <1>3, <2>1 DEF from, to, StateOf
  <2>3. quiet
    BY <1>3, <2>1, QuietStep
  <2> QED
    BY <1>s, <2>2, <2>3
<1>4. CASE save[s].pc = "rename" /\ save'[s].pc = "syncDir"
  <2>1. Rename(s)
    BY <1>4 DEF SaverStep, At, Stat, Access, ListTemps, Sweep, OpenTemp, WriteTemp, keepsAccess,
         Sync, Drop, SyncDir, Open, Create, Over, Flush, ProviderOpens, ProviderWrites
  <2>2. name' = Temp(s) /\ names' = names \union {Temp(s)} /\ UNCHANGED <<data, durable>>
    <3>1. ~DropsTo(s, "failed") /\ ~DropsTo(s, "open")
      BY <1>4, <1>t DEF DropsTo, Progress
    <3> QED
      BY <2>1, <3>1 DEF Rename
  <2>3. /\ data[Temp(s)] = Whole(s) /\ durable[Temp(s)] = {Whole(s)}
        /\ Temp(s) \in Inodes /\ Temp(s) # None /\ s \in Authors
    BY <1>4, SaveAssumption, InodesDiffer DEF SaveIInv, TempsAreWhole, Authors
  <2>4. FileOf(Temp(s), Whole(s)) = s
    BY <2>3, FileOfWhole
  <2>5. file' = s
    BY <2>2, <2>3, <2>4 DEF file
  <2>6. past' = past \union {s}
    <3>1. {FileOf(Temp(s), d) : d \in IF Temp(s) = None THEN {<<>>} ELSE durable[Temp(s)]} = {s}
      BY <2>3, <2>4
    <3> QED
      BY <2>2, <3>1 DEF past
  <2>7. from = "saving" /\ to = "taken"
    BY <1>4 DEF from, to, StateOf
  <2>8. Promise!Replace(s)
    BY <1>s, <2>5, <2>6, <2>7 DEF Promise!Replace, Promise!Moves
  <2> QED
    BY <2>8 DEF Promise!Next
<1>5. CASE save[s].pc = "syncDir"
  <2>1. SyncDir(s)
    BY <1>5 DEF SaverStep, At, Stat, Access, ListTemps, Sweep, OpenTemp, WriteTemp, keepsAccess,
         Sync, Rename, Drop, Open, Create, Over, Flush, ProviderOpens, ProviderWrites
  <2>2. UNCHANGED <<name, data, durable>> /\ names' \subseteq names /\ name \in names'
    BY <1>t, <2>1 DEF SyncDir, SaveTypeOK
  <2>3. file' = file
    BY <2>2 DEF file
  <2>4. past' \subseteq past /\ past' # {}
    <3>1. (IF name = None THEN {<<>>} ELSE durable[name]) # {}
      BY <1>t DEF SaveTypeOK
    <3>2. past' \subseteq past
      BY <2>2 DEF past
    <3>3. past' # {}
      <4>1. PICK d \in IF name = None THEN {<<>>} ELSE durable[name] : TRUE
        BY <3>1
      <4>2. FileOf(name, d) \in {FileOf(name, e) : e \in IF name = None THEN {<<>>} ELSE durable'[name]}
        BY <2>2, <4>1
      <4>3. FileOf(name, d) \in past'
        BY <2>2, <4>2 DEF past
      <4> QED
        BY <4>3
    <3> QED
      BY <3>2, <3>3
  <2>5. from = "taken" /\ to = "done"
    <3>1. save'[s].pc = "replaced"
      BY <1>5, <1>t, NextCall DEF NextCalls
    <3> QED
      BY <1>5, <3>1 DEF from, to, StateOf
  <2>6. Promise!Finish(s)
    BY <1>s, <2>3, <2>4, <2>5 DEF Promise!Finish, Promise!Moves
  <2> QED
    BY <2>6 DEF Promise!Next
<1>6. CASE save[s].pc \in {"open", "create", "over", "flush", "provide", "provided"}
  <2>1. save'[s].pc \in {"over", "create", "failed", "flush", "in-place", "provided"}
    BY <1>6, <1>t, NextCall DEF NextCalls
  <2>2. from = "overwriting" /\ to \in {"overwriting", "done", "failed"}
    BY <1>6, <2>1 DEF from, to, StateOf
  <2>3. CASE to \in {"overwriting", "done"}
    <3>1. Promise!Scribble(s)
      BY <1>s, <1>f, <2>2, <2>3 DEF Promise!Scribble, Promise!Moves
    <3> QED
      BY <3>1 DEF Promise!Next
  <2>4. CASE to = "failed"
    <3>1. save'[s].pc = "failed"
      BY <2>1, <2>4 DEF to, StateOf
    <3>2. quiet
      BY <3>1, QuietStep
    <3>3. Promise!GiveUp(s)
      BY <1>s, <2>2, <2>4, <3>2 DEF Promise!GiveUp, Promise!Moves
    <3> QED
      BY <3>3 DEF Promise!Next
  <2> QED
    BY <2>2, <2>3, <2>4
<1> QED
  <2>1. save[s].pc \in DOMAIN NextCalls
    BY <1>t, NextCall
  <2> QED
    BY <2>1, <1>1, <1>2, <1>3, <1>4, <1>5, <1>6 DEF NextCalls

LEMMA KillImplements ==
    ASSUME SaveTypeOK, NEW s \in Savers, Kill(s)
    PROVE  Promise!Next
<1>1. save'[s].pc = "dead" /\ save[s] \in Progress /\ UNCHANGED fileVars
  BY DEF Kill, GoesTo, SaveTypeOK, Progress
<1>2. StateOf(save[s].pc) \in Promise!Running /\ StateOf(save'[s].pc) = "dead"
  BY <1>1 DEF Kill, Saving, Ended, StateOf, Promise!Running, Progress, Phases
<1>3. UNCHANGED <<file, past>>
  BY <1>1, FileStays DEF fileVars, SaveTypeOK
<1>4. Promise!Kill(s)
  BY <1>2, <1>3, StateMoves DEF Promise!Kill, Promise!Moves
<1> QED
  BY <1>4 DEF Promise!Next

\* After a loss of power the name holds something it might have been left with,
\* and whoever was saving is dead.
LEMMA PowerLossImplements ==
    ASSUME SaveTypeOK, SaveTypeOK', PowerLoss
    PROVE  Promise!Next
<1>1. PICK i \in names :
          /\ name' = i
          /\ IF i = None THEN UNCHANGED data
             ELSE \E d \in durable[i] : data' = [data EXCEPT ![i] = d]
  BY DEF PowerLoss
<1>2. PICK d \in (IF i = None THEN {<<>>} ELSE durable[i]) :
          /\ file' = FileOf(i, d)
          /\ past' = {file'}
  <2>1. CASE i = None
    <3>1. file' = FileOf(i, <<>>)
      BY <1>1, <2>1 DEF file
    <3>2. past' = {FileOf(i, <<>>)}
      BY <1>1, <2>1 DEF past, PowerLoss
    <3> QED
      BY <2>1, <3>1, <3>2
  <2>2. CASE i # None
    <3>1. i \in Inodes
      BY <2>2 DEF SaveTypeOK
    <3>2. PICK d \in durable[i] : data' = [data EXCEPT ![i] = d]
      BY <1>1, <2>2
    <3>3. data'[i] = d /\ durable'[i] = {d}
      BY <3>1, <3>2 DEF PowerLoss, SaveTypeOK
    <3>4. file' = FileOf(i, d)
      BY <1>1, <2>2, <3>3 DEF file
    <3>5. past' = {FileOf(i, d)}
      <4>1. names' = {i}
        BY <1>1 DEF PowerLoss
      <4>2. {FileOf(i, e) : e \in IF i = None THEN {<<>>} ELSE durable'[i]} = {FileOf(i, d)}
        BY <2>2, <3>3
      <4> QED
        BY <4>1, <4>2 DEF past
    <3> QED
      BY <2>2, <3>4, <3>5
  <2> QED
    BY <2>1, <2>2
<1>3. file' \in past
  BY <1>2 DEF past
<1>4. state' = [s \in Savers |-> IF state[s] \in Promise!Running THEN "dead" ELSE state[s]]
  <2>1. ASSUME NEW s \in Savers
        PROVE  StateOf(save'[s].pc) = IF StateOf(save[s].pc) \in Promise!Running THEN "dead"
                                      ELSE StateOf(save[s].pc)
    <3>1. save[s] \in Progress
      BY DEF SaveTypeOK
    <3>2. CASE Saving(s)
      <4>1. save'[s].pc = "dead"
        BY <3>1, <3>2 DEF PowerLoss, Progress
      <4>2. StateOf(save[s].pc) \in Promise!Running
        BY <3>1, <3>2 DEF Saving, Ended, StateOf, Promise!Running, Progress, Phases
      <4> QED
        BY <4>1, <4>2 DEF StateOf
    <3>3. CASE ~Saving(s)
      <4>1. save'[s] = save[s]
        BY <3>3 DEF PowerLoss
      <4>2. StateOf(save[s].pc) \notin Promise!Running
        BY <3>3 DEF Saving, Ended, StateOf, Promise!Running
      <4> QED
        BY <4>1, <4>2
    <3> QED
      BY <3>2, <3>3
  <2> QED
    BY <2>1 DEF state
<1>5. Promise!PowerLoss
  BY <1>2, <1>3, <1>4 DEF Promise!PowerLoss
<1> QED
  BY <1>5 DEF Promise!Next

LEMMA RemoveImplements ==
    ASSUME RemoveFolder
    PROVE  Promise!Next
<1>1. file' = Gone
  BY DEF RemoveFolder, file, FileOf
<1>2. past' = {Gone}
  <2>1. FileOf(None, <<>>) = Gone
    BY DEF FileOf
  <2> QED
    BY <2>1 DEF RemoveFolder, past
<1>3. state' = state
  BY DEF RemoveFolder, state
<1>4. Promise!Remove
  BY <1>1, <1>2, <1>3 DEF Promise!Remove
<1> QED
  BY <1>4 DEF Promise!Next

\* Whatever fails, whoever is killed and wherever the power goes, the name holds
\* the old file or a new one, whole, and a save that could not do that has fallen
\* back to writing in place (replaceFile implements AtomicSave).
THEOREM ImplementsAtomicSave == SaveSpec => KeepsPromise
<1>1. SaveInit => Promise!Init
  <2> SUFFICES ASSUME SaveInit PROVE Promise!Init
    OBVIOUS
  <2>1. FileOf(Orig, Whole(Original)) = Original /\ FileOf(None, <<>>) = Gone /\ Orig \in Inodes
    BY FileOfWhole DEF FileOf, Authors, Inodes
  <2>2. data[Orig] = Whole(Original) /\ durable[Orig] = {Whole(Original)} /\ Orig # None
    BY <2>1, SaveAssumption DEF SaveInit
  <2>3. CASE name = Orig
    <3>1. file = Original
      BY <2>1, <2>2, <2>3 DEF file
    <3>2. past = {Original}
      BY <2>1, <2>2, <2>3 DEF past, SaveInit
    <3>3. state = [s \in Savers |-> "idle"]
      BY DEF state, SaveInit, NotBegun, StateOf
    <3> QED
      BY <3>1, <3>2, <3>3 DEF Promise!Init
  <2>4. CASE name = None
    <3>1. file = Gone
      BY <2>1, <2>4 DEF file
    <3>2. past = {Gone}
      BY <2>1, <2>4 DEF past, SaveInit
    <3>3. state = [s \in Savers |-> "idle"]
      BY DEF state, SaveInit, NotBegun, StateOf
    <3> QED
      BY <3>1, <3>2, <3>3 DEF Promise!Init
  <2> QED
    BY <2>3, <2>4 DEF SaveInit
<1>2. SaveIInv /\ SaveIInv' /\ [SaveNext]_saveVars => [Promise!Next]_(Promise!absVars)
  <2> SUFFICES ASSUME SaveIInv, SaveIInv', [SaveNext]_saveVars
               PROVE  Promise!Next \/ UNCHANGED <<file, past, state>>
    BY DEF Promise!absVars
  <2>1. ASSUME NEW s \in Savers, SaverStep(s)
        PROVE  Promise!Next \/ UNCHANGED <<file, past, state>>
    BY <2>1, SaverImplements
  <2>2. ASSUME NEW s \in Savers, Kill(s)
        PROVE  Promise!Next
    BY <2>2, KillImplements DEF SaveIInv
  <2>3. ASSUME NEW s \in Savers, Age(s)
        PROVE  UNCHANGED <<file, past, state>>
    BY <2>3 DEF Age, file, past, state
  <2>4. CASE PowerLoss
    BY <2>4, PowerLossImplements DEF SaveIInv
  <2>5. CASE RemoveFolder
    BY <2>5, RemoveImplements
  <2>6. CASE UNCHANGED saveVars
    BY <2>6 DEF saveVars, fileVars, file, past, state
  <2> QED
    BY <2>1, <2>2, <2>3, <2>4, <2>5, <2>6 DEF SaveNext
<1> QED
  BY <1>1, <1>2, SaveInvariant, PTL DEF SaveSpec, KeepsPromise, Promise!Spec
=============================================================================
