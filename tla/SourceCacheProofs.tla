------------------------- MODULE SourceCacheProofs -------------------------
(***************************************************************************)
(* Theorems about SourceCache, for every set of files and callers and      *)
(* every size, budget, ring and bound: its flights and slots, and what the *)
(* parse tier holds and lets go.                                           *)
(***************************************************************************)
EXTENDS SourceCache, TLAPS, SequenceTheorems, FiniteSetTheorems, WellFoundedInduction

-----------------------------------------------------------------------------
(***************************************************************************)
(* The operators the steps are built from.                                 *)
(***************************************************************************)

\* Splicing a pin out of the ring leaves a ring.
LEMMA UnpinnedType ==
    ASSUME NEW f, pinnedParses \in Seq(Files)
    PROVE  Unpinned(f) \in Seq(Files)
<1>1. ASSUME NEW i \in DOMAIN pinnedParses
      PROVE  RemoveAt(pinnedParses, i) \in Seq(Files)
  <2>1. /\ Len(pinnedParses) \in Nat
        /\ DOMAIN pinnedParses = 1 .. Len(pinnedParses)
        /\ \A j \in 1 .. Len(pinnedParses) : pinnedParses[j] \in Files
    OBVIOUS
  <2>2. SubSeq(pinnedParses, 1, i - 1) \in Seq(Files)
    <3>1. 1 \in Int /\ i - 1 \in Int /\ \A j \in 1 .. i - 1 : pinnedParses[j] \in Files
      BY <1>1, <2>1
    <3> QED
      BY <3>1, SubSeqProperties
  <2>3. SubSeq(pinnedParses, i + 1, Len(pinnedParses)) \in Seq(Files)
    <3>1. /\ i + 1 \in Int /\ Len(pinnedParses) \in Int
          /\ \A j \in i + 1 .. Len(pinnedParses) : pinnedParses[j] \in Files
      BY <1>1, <2>1
    <3> QED
      BY <3>1, SubSeqProperties
  <2> QED
    BY <2>2, <2>3, ConcatProperties DEF RemoveAt
<1>2. ASSUME f \in Pinned
      PROVE  (CHOOSE i \in DOMAIN pinnedParses : pinnedParses[i] = f) \in DOMAIN pinnedParses
  BY <1>2 DEF Pinned
<1> QED
  BY <1>1, <1>2 DEF Unpinned

LEMMA PinParseType ==
    ASSUME NEW f \in Files, pinnedParses \in Seq(Files), pinParse(f)
    PROVE  pinnedParses' \in Seq(Files)
<1> DEFINE ring == Append(Unpinned(f), f)
<1>1. Unpinned(f) \in Seq(Files)
  BY UnpinnedType
<1>2. ring \in Seq(Files) /\ ring # <<>>
  BY <1>1, AppendProperties
<1>3. Tail(ring) \in Seq(Files)
  BY <1>2, HeadTailProperties
<1> QED
  BY <1>2, <1>3 DEF pinParse

\* A call that moves to its next stage keeps its ask and its file.
LEMMA AtFields ==
    ASSUME NEW r \in Call, NEW pc \in Phases
    PROVE  /\ At(r, pc) \in Call
           /\ At(r, pc).pc = pc
           /\ At(r, pc).file = r.file
           /\ At(r, pc).ask = r.ask
           /\ At(r, pc).quiet = r.quiet
           /\ ~At(r, pc).fresh
BY ZenonT(30) DEF At, Idle, Call, Versions

LEMMA AnsweredFields ==
    ASSUME NEW r \in Call, NEW b \in Content \union {Nothing}
    PROVE  /\ Answered(r, b) \in Call
           /\ Answered(r, b).pc = "answered"
           /\ Answered(r, b).file = r.file
           /\ Answered(r, b).quiet = r.quiet
           /\ Answered(r, b).bytes = b
<1>1. At(r, "answered") \in Call
  BY AtFields DEF Phases
<1>2. At(r, "answered").pc = "answered" /\ At(r, "answered").file = r.file
      /\ At(r, "answered").quiet = r.quiet
  BY AtFields DEF Phases
<1> QED
  BY <1>1, <1>2 DEF Answered, Call

\* Answered or sent on to the summary; at its version in the second case.
LEMMA CheapAnsweredFields ==
    ASSUME NEW r \in Call, NEW b \in Content \union {Nothing}
    PROVE  LET s == CheapAnswered(r, b)
           IN  /\ s \in Call
               /\ s.pc \in {"answered", "filter"}
               /\ s.pc = "answered" => s.bytes = b
               /\ s.pc = "filter" => s.ver = r.ver
               /\ s.file = r.file
               /\ s.quiet = r.quiet
<1>1. [At(r, "filter") EXCEPT !.ver = r.ver] \in Call
  BY DEF At, Idle, Call, Versions, Phases
<1>2. LET s == [At(r, "filter") EXCEPT !.ver = r.ver]
      IN  s.pc = "filter" /\ s.ver = r.ver /\ s.file = r.file /\ s.quiet = r.quiet
  BY DEF At, Idle, Call
<1> QED
  BY <1>1, <1>2, AnsweredFields DEF CheapAnswered

\* Answered or sent on to the merge.
LEMMA ParseAnsweredFields ==
    ASSUME NEW r \in Call, NEW b \in Content \union {Nothing}
    PROVE  LET s == ParseAnswered(r, b)
           IN  /\ s \in Call
               /\ s.pc \in {"answered", "merge"}
               /\ s.pc = "answered" => s.bytes = b
               /\ s.file = r.file
               /\ s.quiet = r.quiet
BY AnsweredFields, AtFields DEF ParseAnswered, Phases

-----------------------------------------------------------------------------
(***************************************************************************)
(* Who is in flight and who waits on it.                                   *)
(***************************************************************************)
Flights ==
    /\ call \in [Callers -> Call]
    /\ reading \in Slots
    /\ parsing \in Slots
    /\ CallsOK
    /\ SlotsAreFlights
    /\ JoinersHaveAFlight

\* A caller with no derivation of its own owns no slot and has no joiners.
LEMMA Grounded ==
    ASSUME Flights, NEW c \in Callers, call[c].pc \notin {"read", "derive"}
    PROVE  /\ \A f \in Files : reading[f] # c /\ parsing[f] # c
           /\ \A d \in Callers : call[d].pc = "joined" => call[d].on # c
BY ConstantsAssumption DEF Flights, SlotsAreFlights, JoinersHaveAFlight, Flying, Slots

\* Such a caller may go anywhere but into a flight.
LEMMA GroundedStep ==
    ASSUME Flights, NEW c \in Callers, call[c].pc \notin {"read", "derive"},
           NEW r \in Call, r.pc \notin {"read", "derive", "joined"}, CallOK(r),
           call' = [call EXCEPT ![c] = r], UNCHANGED <<reading, parsing>>
    PROVE  Flights'
<1>1. \A d \in Callers : call'[d] = IF d = c THEN r ELSE call[d]
  BY DEF Flights
<1>2. call' \in [Callers -> Call]
  BY DEF Flights
<1>3. CallsOK'
  BY <1>1 DEF Flights, CallsOK, CallOK
<1>4. SlotsAreFlights'
  BY <1>1, Grounded, ConstantsAssumption DEF Flights, SlotsAreFlights, Flying, Slots
<1>5. JoinersHaveAFlight'
  BY <1>1, Grounded DEF Flights, JoinersHaveAFlight, Flying
<1> QED
  BY <1>2, <1>3, <1>4, <1>5 DEF Flights

\* Joining: the flight joined is in progress, on the same file at the same version.
LEMMA JoinStep ==
    ASSUME Flights, NEW c \in Callers, call[c].pc \notin {"read", "derive"},
           NEW r \in Call, CallOK(r), r.pc = "joined",
           r.on \in Callers, r.on # c, Flying(r.on, r.tier),
           call[r.on].file = r.file, call[r.on].ver = r.ver,
           call' = [call EXCEPT ![c] = r], UNCHANGED <<reading, parsing>>
    PROVE  Flights'
<1>1. \A d \in Callers : call'[d] = IF d = c THEN r ELSE call[d]
  BY DEF Flights
<1>2. call' \in [Callers -> Call]
  BY DEF Flights
<1>3. CallsOK'
  BY <1>1 DEF Flights, CallsOK, CallOK
<1>4. SlotsAreFlights'
  BY <1>1, Grounded, ConstantsAssumption DEF Flights, SlotsAreFlights, Flying, Slots
<1>5. JoinersHaveAFlight'
  BY <1>1, Grounded DEF Flights, JoinersHaveAFlight, Flying
<1> QED
  BY <1>2, <1>3, <1>4, <1>5 DEF Flights

\* Taking off: the caller may take the slot of its file and tier.
LEMMA StartStep ==
    ASSUME Flights, NEW c \in Callers, call[c].pc \notin {"read", "derive"},
           NEW r \in Call, CallOK(r), r.pc \in {"read", "derive"}, r.file \in Files,
           call' = [call EXCEPT ![c] = r],
           reading' = IF r.tier = "cheap" THEN [reading EXCEPT ![r.file] = c] ELSE reading,
           parsing' = IF r.tier = "parse" /\ r.ver # NoVersion
                      THEN [parsing EXCEPT ![r.file] = c] ELSE parsing
    PROVE  Flights'
<1>1. \A d \in Callers : call'[d] = IF d = c THEN r ELSE call[d]
  BY DEF Flights
<1>2. call' \in [Callers -> Call] /\ reading' \in Slots /\ parsing' \in Slots
  BY DEF Flights, Slots
<1>3. CallsOK'
  BY <1>1 DEF Flights, CallsOK, CallOK
<1>4. SlotsAreFlights'
  BY <1>1, Grounded, ConstantsAssumption
  DEF Flights, SlotsAreFlights, Flying, Slots, CallOK
<1>5. JoinersHaveAFlight'
  BY <1>1, Grounded DEF Flights, JoinersHaveAFlight, Flying
<1> QED
  BY <1>2, <1>3, <1>4, <1>5 DEF Flights

\* Landing: a flight and everyone who joined it go on to answers of their own,
\* and its slot goes with it.
LEMMA SettleStep ==
    ASSUME Flights, NEW c \in Callers, call[c].pc = "derive",
           NEW r \in [Callers -> Call],
           \A d \in {c} \union Joiners(c) :
               r[d].pc \notin {"read", "derive", "joined"} /\ CallOK(r[d]),
           call' = [d \in Callers |-> IF d = c \/ d \in Joiners(c) THEN r[d] ELSE call[d]],
           \/ call[c].tier = "cheap" /\ reading' = Landed(reading, c) /\ UNCHANGED parsing
           \/ call[c].tier = "parse" /\ parsing' = Landed(parsing, c) /\ UNCHANGED reading
    PROVE  Flights'
<1>1. \A d \in Callers : call'[d] = IF d = c \/ d \in Joiners(c) THEN r[d] ELSE call[d]
  OBVIOUS
<1>2. /\ call' \in [Callers -> Call]
      /\ reading' \in Slots
      /\ parsing' \in Slots
  BY DEF Flights, Slots, Landed
<1>3. CallsOK'
  BY <1>1 DEF Flights, CallsOK
<1>4. \A f \in Files : reading'[f] # c /\ parsing'[f] # c
  BY ConstantsAssumption DEF Flights, SlotsAreFlights, Flying, Slots, Landed
<1>5. \A f \in Files : reading'[f] \in {reading[f], None} /\ parsing'[f] \in {parsing[f], None}
  BY DEF Flights, Slots, Landed
<1>6. \A d \in Joiners(c) : \A f \in Files : reading[f] # d /\ parsing[f] # d
  BY Grounded DEF Joiners
<1>7. SlotsAreFlights'
  BY <1>1, <1>4, <1>5, <1>6, ConstantsAssumption DEF Flights, SlotsAreFlights, Flying, Slots
<1>8. JoinersHaveAFlight'
  BY <1>1 DEF Flights, JoinersHaveAFlight, Flying, Joiners
<1> QED
  BY <1>2, <1>3, <1>7, <1>8 DEF Flights

\* Whatever only clears slots and flags leaves flights and joiners as they were.
LEMMA ClearingStep ==
    ASSUME Flights, call' \in [Callers -> Call], reading' \in Slots, parsing' \in Slots,
           \A c \in Callers : /\ call'[c].pc = call[c].pc /\ call'[c].file = call[c].file
                              /\ call'[c].ver = call[c].ver /\ call'[c].tier = call[c].tier
                              /\ call'[c].on = call[c].on /\ call'[c].ask = call[c].ask,
           \A f \in Files : reading'[f] \in {reading[f], None} /\ parsing'[f] \in {parsing[f], None}
    PROVE  Flights'
<1>1. CallsOK'
  BY DEF Flights, CallsOK, CallOK
<1>2. SlotsAreFlights'
  BY ConstantsAssumption DEF Flights, SlotsAreFlights, Flying, Slots
<1>3. JoinersHaveAFlight'
  BY DEF Flights, JoinersHaveAFlight, Flying
<1> QED
  BY <1>1, <1>2, <1>3 DEF Flights

-----------------------------------------------------------------------------
(***************************************************************************)
(* Types, slots and joiners: one step per action.                          *)
(***************************************************************************)
Kept ==
    /\ disk \in [Files -> [version : Versions, content : Content]]
    /\ tabEvents \subseteq TabFiles
    /\ wsEvents \subseteq Files
    /\ checking \subseteq [file : Files, held : SUBSET Versions]
    /\ cheap \in Tier
    /\ parsed \in Tier
    /\ models \in Tier
    /\ older \subseteq Files \X Files
    /\ pinnedParses \in Seq(Files)

Structure == Kept /\ Flights

LEMMA AbsentInTier == \A t \in Tier : \A f \in Files : [t EXCEPT ![f] = Absent] \in Tier
BY DEF Tier

LEMMA OrderTypes ==
    ASSUME NEW o \in SUBSET (Files \X Files), NEW gone,
           NEW h \in SUBSET Files, NEW f \in Files
    PROVE  /\ OrderWithout(o, gone) \subseteq Files \X Files
           /\ OrderTouched(o, h, f) \subseteq Files \X Files
BY DEF OrderWithout, OrderTouched

LEMMA PinType ==
    ASSUME Structure, NEW c \in Callers, call[c].file \in Files, Pin(c)
    PROVE  pinnedParses' \in Seq(Files)
BY PinParseType DEF Structure, Kept, Pin

LEMMA ForgetStructure ==
    ASSUME Structure, NEW f \in Files, forgetSource(f)
    PROVE  /\ cheap' \in Tier /\ parsed' \in Tier /\ models' \in Tier
           /\ older' \subseteq Files \X Files
           /\ pinnedParses' \in Seq(Files)
           /\ Flights'
<1>1. cheap' \in Tier /\ parsed' \in Tier /\ models' \in Tier
  BY AbsentInTier DEF Structure, Kept, forgetSource
<1>2. older' \subseteq Files \X Files
  BY OrderTypes DEF Structure, Kept, forgetSource
<1>3. pinnedParses' \in Seq(Files)
  BY UnpinnedType DEF Structure, Kept, forgetSource
<1>4. reading' \in Slots /\ parsing' \in Slots
  BY DEF Structure, Flights, Slots, forgetSource
<1>5. \A g \in Files : reading'[g] \in {reading[g], None} /\ parsing'[g] \in {parsing[g], None}
  BY DEF Structure, Flights, Slots, forgetSource
<1>6. call' \in [Callers -> Call]
  <2>1. ASSUME NEW r \in Call
        PROVE  [r EXCEPT !.fresh = FALSE] \in Call
    BY DEF Call
  <2> QED
    BY <2>1 DEF Structure, Flights, forgetSource
<1>7. \A c \in Callers : /\ call'[c].pc = call[c].pc /\ call'[c].file = call[c].file
                         /\ call'[c].ver = call[c].ver /\ call'[c].tier = call[c].tier
                         /\ call'[c].on = call[c].on /\ call'[c].ask = call[c].ask
  BY DEF Structure, Flights, forgetSource, Call
<1>8. Flights'
  BY <1>4, <1>5, <1>6, <1>7, ClearingStep DEF Structure
<1> QED
  BY <1>1, <1>2, <1>3, <1>8

LEMMA TabWatcherStructure ==
    ASSUME Structure, NEW f \in Files, TabWatcher(f)
    PROVE  Structure'
<1>1. forgetSource(f)
  BY DEF TabWatcher
<1> QED
  BY <1>1, ForgetStructure DEF Structure, Kept, TabWatcher

LEMMA HeldVersionsType ==
    ASSUME Structure, NEW f \in Files
    PROVE  heldVersionsOf(f) \subseteq Versions
<1>1. {e.version : e \in {cheap[f], parsed[f], models[f]} \ {Absent}} \subseteq Versions
  BY DEF Structure, Kept, Tier, Entry
<1>2. {call[c].ver : c \in {parsing[f], reading[f]} \ {None}} \subseteq Versions
  BY DEF Structure, Flights, Slots, SlotsAreFlights, Call
<1> QED
  BY <1>1, <1>2 DEF heldVersionsOf

LEMMA ForgetUnseenStructure ==
    ASSUME Structure, NEW f \in Files, forgetUnseenWrite(f)
    PROVE  Structure'
<1>1. Kept'
  BY HeldVersionsType DEF Structure, Kept, forgetUnseenWrite, cacheVars
<1>2. Flights'
  BY ClearingStep DEF Structure, Flights, forgetUnseenWrite, cacheVars
<1> QED
  BY <1>1, <1>2 DEF Structure

LEMMA UnmovedStructure ==
    ASSUME Structure, NEW k \in checking, forgetIfVersionUnmoved(k)
    PROVE  Structure'
<1>1. checking' \subseteq [file : Files, held : SUBSET Versions] /\ k.file \in Files
  BY DEF Structure, Kept, forgetIfVersionUnmoved
<1>2. CASE forgetSource(k.file)
  BY <1>1, <1>2, ForgetStructure DEF Structure, Kept, forgetIfVersionUnmoved
<1>3. CASE UNCHANGED <<cacheVars, call>>
  <2>1. Flights'
    BY <1>3, ClearingStep DEF Structure, Flights, cacheVars
  <2> QED
    BY <1>1, <1>3, <2>1 DEF Structure, Kept, forgetIfVersionUnmoved, cacheVars
<1> QED
  BY <1>2, <1>3 DEF forgetIfVersionUnmoved

LEMMA ClearStructure ==
    ASSUME Structure, clearSourceCache
    PROVE  Structure'
<1>1. Kept'
  BY DEF Structure, Kept, clearSourceCache, watchVars, Tier
<1>2. Flights'
  BY ClearingStep DEF Structure, Flights, clearSourceCache
<1> QED
  BY <1>1, <1>2 DEF Structure

LEMMA WriteStructure ==
    ASSUME Structure, NEW f \in Files, NEW v \in Versions, Write(f, v)
    PROVE  Structure'
<1>1. Kept'
  BY ConstantsAssumption DEF Structure, Kept, Write, cacheVars, Content
<1>2. call' \in [Callers -> Call]
  <2>1. ASSUME NEW r \in Call, NEW q \in BOOLEAN
        PROVE  [r EXCEPT !.quiet = q] \in Call
    BY DEF Call
  <2>2. call \in [Callers -> Call] /\ \A c \in Callers : call[c].quiet \in BOOLEAN
    BY DEF Structure, Flights, Call
  <2>3. \A c \in Callers :
            [call[c] EXCEPT !.quiet = call[c].quiet /\ call[c].file # f] \in Call
    BY <2>1, <2>2
  <2> QED
    BY <2>3 DEF Write
<1>3. \A c \in Callers : /\ call'[c].pc = call[c].pc /\ call'[c].file = call[c].file
                         /\ call'[c].ver = call[c].ver /\ call'[c].tier = call[c].tier
                         /\ call'[c].on = call[c].on /\ call'[c].ask = call[c].ask
  BY DEF Structure, Flights, Write, Call
<1>4. Flights'
  BY <1>2, <1>3, ClearingStep DEF Structure, Flights, Write, cacheVars
<1> QED
  BY <1>1, <1>4 DEF Structure

LEMMA AskStructure ==
    ASSUME Structure, NEW c \in Callers, NEW ask \in Asks, NEW f \in Files, Ask(c, ask, f)
    PROVE  Structure'
<1> DEFINE r == [Idle EXCEPT !.pc = "stat", !.ask = ask, !.file = f, !.quiet = ~Unreported(f)]
<1>1. r \in Call /\ r.pc = "stat" /\ r.file = f
  <2>1. Unreported(f) \in BOOLEAN
    BY DEF Unreported
  <2> QED
    BY <2>1, ConstantsAssumption DEF Idle, Call, Phases
<1>2. CallOK(r)
  BY <1>1 DEF CallOK
<1>3. Flights'
  BY <1>1, <1>2, GroundedStep DEF Structure, Ask, cacheVars
<1> QED
  BY <1>3 DEF Structure, Kept, Ask, watchVars, cacheVars

LEMMA StatStructure ==
    ASSUME Structure, NEW c \in Callers, Stat(c)
    PROVE  Structure'
<1>1. PICK v \in Versions \union {NoVersion} :
          call' = [call EXCEPT ![c] = [call[c] EXCEPT !.pc = "statted", !.ver = v]]
  <2>1. disk[call[c].file].version \in Versions
    BY DEF Stat, Structure, Kept, Flights, CallsOK, CallOK
  <2> QED
    BY <2>1 DEF Stat
<1> DEFINE r == [call[c] EXCEPT !.pc = "statted", !.ver = v]
<1>2. r \in Call /\ r.pc = "statted" /\ CallOK(r)
  <2>1. call[c] \in Call /\ call[c].file \in Files
    BY DEF Structure, Flights, CallsOK, CallOK, Stat
  <2>2. r \in Call /\ r.pc = "statted" /\ r.file = call[c].file
    BY <2>1 DEF Call, Phases
  <2> QED
    BY <2>1, <2>2 DEF CallOK
<1>3. Flights'
  BY <1>1, <1>2, GroundedStep DEF Structure, Stat, cacheVars
<1> QED
  BY <1>3 DEF Structure, Kept, Stat, watchVars, cacheVars

\* The bytes come back to a flight that stays one.
LEMMA ReadBytesFields ==
    ASSUME Structure, NEW c \in Callers, ReadBytes(c)
    PROVE  \E b \in {disk[call[c].file].content, Nothing} :
               /\ b \in Content \union {Nothing}
               /\ call' = [call EXCEPT ![c] = [call[c] EXCEPT !.pc = "derive", !.bytes = b]]
BY DEF ReadBytes, Structure, Kept, Flights, CallsOK, CallOK

LEMMA ReadBytesStructure ==
    ASSUME Structure, NEW c \in Callers, ReadBytes(c)
    PROVE  Structure'
<1>1. PICK r \in Call :
          /\ call' = [call EXCEPT ![c] = r]
          /\ r.pc = "derive" /\ r.file = call[c].file
          /\ r.ver = call[c].ver /\ r.tier = call[c].tier /\ r.ask = call[c].ask
  <2>1. PICK b \in Content \union {Nothing} :
            call' = [call EXCEPT ![c] = [call[c] EXCEPT !.pc = "derive", !.bytes = b]]
    BY ReadBytesFields
  <2>2. LET r == [call[c] EXCEPT !.pc = "derive", !.bytes = b]
        IN  /\ r \in Call /\ r.pc = "derive" /\ r.file = call[c].file
            /\ r.ver = call[c].ver /\ r.tier = call[c].tier /\ r.ask = call[c].ask
    <3>1. call[c] \in Call
      BY DEF Structure, Flights
    <3> QED
      BY <3>1 DEF Call, Phases
  <2> QED
    BY <2>1, <2>2
<1>2. call[c].pc = "read" /\ r.pc = "derive" /\ r.file = call[c].file
      /\ r.ver = call[c].ver /\ r.tier = call[c].tier /\ r.ask = call[c].ask
  BY <1>1 DEF ReadBytes
<1>3. \A d \in Callers : call'[d] = IF d = c THEN r ELSE call[d]
  BY <1>1 DEF Structure, Flights
<1>4. call[c].pc = "read" /\ UNCHANGED <<watchVars, cacheVars>>
  BY DEF ReadBytes
<1>5. CallsOK'
  BY <1>2, <1>3, <1>4 DEF Structure, Flights, CallsOK, CallOK
<1>6. SlotsAreFlights'
  BY <1>2, <1>3, <1>4, ConstantsAssumption
  DEF Structure, Flights, SlotsAreFlights, Flying, Slots, cacheVars
<1>7. JoinersHaveAFlight'
  BY <1>2, <1>3, <1>4 DEF Structure, Flights, JoinersHaveAFlight, Flying
<1>8. call' \in [Callers -> Call]
  BY <1>1, <1>2 DEF Structure, Flights
<1> QED
  BY <1>4, <1>5, <1>6, <1>7, <1>8 DEF Structure, Kept, Flights, watchVars, cacheVars

LEMMA ReturnStructure ==
    ASSUME Structure, NEW c \in Callers, Return(c)
    PROVE  Structure'
<1>1. Idle \in Call /\ Idle.pc = "idle" /\ CallOK(Idle)
  BY DEF Idle, Call, Phases, CallOK
<1>2. Flights'
  BY <1>1, GroundedStep DEF Structure, Return, cacheVars
<1> QED
  BY <1>2 DEF Structure, Kept, Return, watchVars, cacheVars

LEMMA FillFilterStructure ==
    ASSUME Structure, NEW c \in Callers, FillFilter(c)
    PROVE  Structure'
<1>1. PICK r \in Call : /\ call' = [call EXCEPT ![c] = r]
                        /\ r.pc \in {"merge", "fill"} /\ CallOK(r)
  <2>1. At(call[c], "merge") \in Call /\ CallOK(At(call[c], "merge"))
    BY AtFields DEF Structure, Flights, CallsOK, CallOK, Phases, FillFilter
  <2>2. [call[c] EXCEPT !.pc = "fill"] \in Call /\ CallOK([call[c] EXCEPT !.pc = "fill"])
    BY DEF Structure, Flights, CallsOK, CallOK, Call, Phases, FillFilter
  <2>3. At(call[c], "merge").pc = "merge" /\ [call[c] EXCEPT !.pc = "fill"].pc = "fill"
    BY AtFields DEF Structure, Flights, Call, Phases
  <2>4. CASE Hit(models, call[c].file, call[c].ver)
    BY <2>1, <2>3, <2>4 DEF FillFilter
  <2>5. CASE ~Hit(models, call[c].file, call[c].ver)
    BY <2>2, <2>3, <2>5 DEF FillFilter
  <2> QED
    BY <2>4, <2>5
<1>2. Flights'
  BY <1>1, GroundedStep DEF Structure, FillFilter, cacheVars
<1> QED
  BY <1>2 DEF Structure, Kept, FillFilter, watchVars, cacheVars

LEMMA MergeStructure ==
    ASSUME Structure, NEW c \in Callers, Merge(c)
    PROVE  Structure'
<1> DEFINE b == models[call[c].file].content
           r == Answered(call[c], b)
<1>1. b \in Content \union {Nothing} /\ call[c] \in Call /\ call[c].file \in Files
  BY DEF Structure, Kept, Flights, CallsOK, CallOK, Merge, Tier, Entry, Absent
<1>2. r \in Call /\ r.pc = "answered" /\ CallOK(r)
  BY <1>1, AnsweredFields DEF CallOK
<1>3. Flights'
  BY <1>2, GroundedStep DEF Structure, Merge, cacheVars
<1> QED
  BY <1>3 DEF Structure, Kept, Merge, watchVars, cacheVars

LEMMA CheapHitStructure ==
    ASSUME Structure, NEW c \in Callers, CheapHit(c)
    PROVE  Structure'
<1> DEFINE b == IF call[c].ver = NoVersion THEN Nothing ELSE cheap[call[c].file].content
<1>1. b \in Content \union {Nothing} /\ call[c] \in Call /\ call[c].file \in Files
  BY DEF Structure, Kept, Flights, CallsOK, CallOK, CheapHit, AsksCheap, Tier, Entry, Absent
<1>2. call[c].ver = NoVersion => b = Nothing
  OBVIOUS
<1>3. PICK r \in Call : r = CheapAnswered(call[c], b)
  BY <1>1, CheapAnsweredFields
<1>4. r.pc \in {"answered", "filter"} /\ r.file = call[c].file
  BY <1>1, <1>3, CheapAnsweredFields
<1>5. r.pc = "filter" => r.ver = call[c].ver /\ b # Nothing
  BY <1>1, <1>3, CheapAnsweredFields, AnsweredFields DEF CheapAnswered
<1>6. CallOK(r)
  BY <1>1, <1>2, <1>4, <1>5 DEF CallOK
<1>7. call' = [call EXCEPT ![c] = r]
  BY <1>3 DEF CheapHit
<1>8. Flights'
  BY <1>4, <1>6, <1>7, GroundedStep DEF Structure, CheapHit, AsksCheap, cacheVars
<1> QED
  BY <1>8 DEF Structure, Kept, CheapHit, watchVars, cacheVars

\* What a caller about to join or start carries into it.
LEMMA AskerFields ==
    ASSUME Structure, NEW c \in Callers, AsksCheap(c) \/ AsksParse(c)
    PROVE  /\ call[c] \in Call
           /\ call[c].pc \notin {"read", "derive", "joined", "idle"}
           /\ call[c].file \in Files
           /\ AsksParse(c) /\ call[c].ask = "usage" => call[c].ver # NoVersion
BY DEF Structure, Flights, CallsOK, CallOK, AsksCheap, AsksParse

LEMMA CheapJoinStructure ==
    ASSUME Structure, NEW c \in Callers, CheapJoin(c)
    PROVE  Structure'
<1> DEFINE f == call[c].file
<1>1. AsksCheap(c) /\ f \in Files /\ call[c].ver # NoVersion
  BY AskerFields DEF CheapJoin
<1>2. /\ reading[f] \in Callers /\ Flying(reading[f], "cheap")
      /\ call[reading[f]].file = f /\ call[reading[f]].ver = call[c].ver
  BY <1>1 DEF CheapJoin, Joinable, Structure, Flights, SlotsAreFlights, Slots
<1>3. PICK r \in Call : /\ call' = [call EXCEPT ![c] = r]
                        /\ r.pc = "joined" /\ r.tier = "cheap" /\ r.on = reading[f]
                        /\ r.file = f /\ r.ver = call[c].ver
  <2>1. LET r == [call[c] EXCEPT !.pc = "joined", !.tier = "cheap", !.on = reading[f]]
        IN  /\ r \in Call /\ r.pc = "joined" /\ r.tier = "cheap" /\ r.on = reading[f]
            /\ r.file = f /\ r.ver = call[c].ver
    <3>1. call[c] \in Call
      BY <1>1, AskerFields
    <3> QED
      BY <1>1, <1>2, <3>1 DEF Call, Phases
  <2> QED
    BY <2>1 DEF CheapJoin
<1>4. CallOK(r) /\ r.on # c
  BY <1>1, <1>2, <1>3, AskerFields DEF CallOK, Flying
<1>5. Flights'
  BY <1>1, <1>2, <1>3, <1>4, AskerFields, JoinStep DEF Structure, CheapJoin, cacheVars
<1> QED
  BY <1>5 DEF Structure, Kept, CheapJoin, watchVars, cacheVars

LEMMA ParseJoinStructure ==
    ASSUME Structure, NEW c \in Callers, ParseJoin(c)
    PROVE  Structure'
<1> DEFINE f == call[c].file
<1>1. AsksParse(c) /\ f \in Files /\ call[c].ver # NoVersion
  BY AskerFields DEF ParseJoin
<1>2. /\ parsing[f] \in Callers /\ Flying(parsing[f], "parse")
      /\ call[parsing[f]].file = f /\ call[parsing[f]].ver = call[c].ver
  BY <1>1 DEF ParseJoin, Joinable, Structure, Flights, SlotsAreFlights, Slots
<1>3. PICK r \in Call : /\ call' = [call EXCEPT ![c] = r]
                        /\ r.pc = "joined" /\ r.tier = "parse" /\ r.on = parsing[f]
                        /\ r.file = f /\ r.ver = call[c].ver
  <2>1. LET r == [call[c] EXCEPT !.pc = "joined", !.tier = "parse",
                                 !.on = parsing[f], !.fresh = TRUE]
        IN  /\ r \in Call /\ r.pc = "joined" /\ r.tier = "parse" /\ r.on = parsing[f]
            /\ r.file = f /\ r.ver = call[c].ver
    <3>1. call[c] \in Call
      BY <1>1, AskerFields
    <3> QED
      BY <1>1, <1>2, <3>1 DEF Call, Phases
  <2> QED
    BY <2>1 DEF ParseJoin
<1>4. CallOK(r) /\ r.on # c
  BY <1>1, <1>2, <1>3, AskerFields DEF CallOK, Flying
<1>5. Flights'
  BY <1>1, <1>2, <1>3, <1>4, AskerFields, JoinStep DEF Structure, ParseJoin
<1>6. pinnedParses' \in Seq(Files)
  BY <1>1, PinType DEF ParseJoin
<1> QED
  BY <1>5, <1>6 DEF Structure, Kept, ParseJoin, watchVars

LEMMA HeldType == Held \subseteq Files
BY DEF Held

LEMMA ParseHitStructure ==
    ASSUME Structure, NEW c \in Callers, ParseHit(c)
    PROVE  Structure'
<1> DEFINE f == call[c].file
<1>1. call[c] \in Call /\ f \in Files /\ parsed[f].content \in Content \union {Nothing}
  BY AskerFields DEF ParseHit, Structure, Kept, Tier, Entry, Absent
<1>2. PICK r \in Call : /\ call' = [call EXCEPT ![c] = r]
                        /\ r.pc \in {"answered", "merge"} /\ r.file = f
  BY <1>1, ParseAnsweredFields DEF ParseHit
<1>3. CallOK(r)
  BY <1>1, <1>2 DEF CallOK
<1>4. Flights'
  BY <1>2, <1>3, AskerFields, GroundedStep DEF Structure, ParseHit
<1>5. pinnedParses' \in Seq(Files)
  BY <1>1, PinType DEF ParseHit
<1>6. models' \in Tier
  BY <1>1 DEF ParseHit, Structure, Kept, Tier
<1>7. older' \subseteq Files \X Files
  BY <1>1, HeldType, OrderTypes DEF ParseHit, Structure, Kept
<1> QED
  BY <1>4, <1>5, <1>6, <1>7 DEF Structure, Kept, ParseHit, watchVars

LEMMA CheapStartStructure ==
    ASSUME Structure, NEW c \in Callers, CheapStart(c)
    PROVE  Structure'
<1> DEFINE f == call[c].file
           a == [call[c] EXCEPT !.tier = "cheap", !.fresh = TRUE]
<1>1. AsksCheap(c) /\ f \in Files /\ call[c] \in Call /\ call[c].ver # NoVersion
  BY AskerFields DEF CheapStart
<1>2. /\ a \in Call /\ a.tier = "cheap" /\ a.file = f /\ a.ver = call[c].ver
      /\ parsed[f].content \in Content \union {Nothing}
  <2>1. a \in Call /\ a.tier = "cheap" /\ a.file = f /\ a.ver = call[c].ver
    BY <1>1 DEF Call
  <2>2. parsed[f].content \in Content \union {Nothing}
    BY <1>1 DEF Structure, Kept, Tier, Entry, Absent
  <2> QED
    BY <2>1, <2>2
<1>3. \A s \in Call : \A b \in Content \union {Nothing} :
          /\ [s EXCEPT !.pc = "derive", !.bytes = b] \in Call
          /\ [s EXCEPT !.pc = "read"] \in Call
  <2>1. ASSUME NEW s \in Call, NEW b \in Content \union {Nothing}
        PROVE  [s EXCEPT !.pc = "derive", !.bytes = b] \in Call
    BY DEF Call, Phases
  <2>2. ASSUME NEW s \in Call
        PROVE  [s EXCEPT !.pc = "read"] \in Call
    BY DEF Call, Phases
  <2> QED
    BY <2>1, <2>2
<1>4. /\ cheapOf(a) \in Call /\ cheapOf(a).pc \in {"read", "derive"}
      /\ cheapOf(a).tier = "cheap" /\ cheapOf(a).file = f /\ cheapOf(a).ver = call[c].ver
  <2> HIDE DEF a
  <2>1. a \in Call /\ a.tier = "cheap" /\ a.file = f /\ a.ver = call[c].ver
    BY <1>2
  <2>2. CASE f \in Projects
    BY <1>3, <2>1, <2>2 DEF cheapOf, Call
  <2>3. CASE f \notin Projects
    BY <1>2, <1>3, <2>1, <2>3 DEF cheapOf, Call
  <2> QED
    BY <2>2, <2>3
<1>5. PICK r \in Call : /\ r.pc \in {"read", "derive"} /\ r.tier = "cheap" /\ r.file = f
                        /\ r.ver = call[c].ver /\ call' = [call EXCEPT ![c] = r]
  BY <1>4 DEF CheapStart
<1>6. CallOK(r)
  BY <1>1, <1>5 DEF CallOK
<1>7. Flights'
  BY <1>1, <1>5, <1>6, AskerFields, StartStep DEF Structure, CheapStart
<1> QED
  BY <1>7 DEF Structure, Kept, CheapStart, watchVars

LEMMA ParseStartStructure ==
    ASSUME Structure, NEW c \in Callers, ParseStart(c)
    PROVE  Structure'
<1> DEFINE f == call[c].file
<1>1. AsksParse(c) /\ f \in Files /\ call[c] \in Call
  BY AskerFields DEF ParseStart
<1>2. PICK r \in Call : /\ call' = [call EXCEPT ![c] = r]
                        /\ r.pc = "read" /\ r.tier = "parse" /\ r.file = f
                        /\ r.ver = call[c].ver /\ r.ask = call[c].ask
  <2>1. LET r == [call[c] EXCEPT !.pc = "read", !.tier = "parse", !.fresh = TRUE]
        IN  /\ r \in Call /\ r.pc = "read" /\ r.tier = "parse" /\ r.file = f
            /\ r.ver = call[c].ver /\ r.ask = call[c].ask
    BY <1>1 DEF Call, Phases
  <2> QED
    BY <2>1 DEF ParseStart
<1>3. CallOK(r)
  BY <1>1, <1>2, AskerFields DEF CallOK
<1>4. parsing' = IF r.tier = "parse" /\ r.ver # NoVersion
                 THEN [parsing EXCEPT ![r.file] = c] ELSE parsing
  BY <1>2 DEF ParseStart
<1>5. Flights'
  BY <1>1, <1>2, <1>3, <1>4, AskerFields, StartStep DEF Structure, ParseStart
<1>6. pinnedParses' \in Seq(Files)
  BY <1>1, PinType DEF ParseStart
<1> QED
  BY <1>5, <1>6 DEF Structure, Kept, ParseStart, watchVars

LEMMA CheapSettleStructure ==
    ASSUME Structure, NEW c \in Callers, CheapSettle(c)
    PROVE  Structure'
<1> DEFINE b == call[c].bytes
           r == [d \in Callers |-> CheapAnswered(call[d], b)]
<1>1. /\ call \in [Callers -> Call] /\ b \in Content \union {Nothing}
      /\ call[c].file \in Files /\ call[c].ver \in Versions
      /\ call[c].pc = "derive" /\ call[c].tier = "cheap"
  BY DEF CheapSettle, Structure, Flights, CallsOK, CallOK, Call
<1>2. r \in [Callers -> Call]
  BY <1>1, CheapAnsweredFields
<1>3. \A d \in {c} \union Joiners(c) : call[d].file \in Files /\ call[d].ver # NoVersion
  BY <1>1 DEF Joiners, Structure, Flights, CallsOK, CallOK
<1>4. ASSUME NEW d \in {c} \union Joiners(c)
      PROVE  r[d].pc \notin {"read", "derive", "joined"} /\ CallOK(r[d])
  BY <1>1, <1>3, CheapAnsweredFields DEF CallOK, Joiners
<1>5. call' = [d \in Callers |-> IF d = c \/ d \in Joiners(c) THEN r[d] ELSE call[d]]
  BY DEF CheapSettle
<1>6. Flights'
  <2> HIDE DEF r
  <2> QED
    BY <1>1, <1>2, <1>4, <1>5, SettleStep DEF Structure, CheapSettle
<1>7. cheap' \in Tier
  <2> DEFINE e == [version |-> call[c].ver, content |-> b]
  <2>0. cheap \in Tier
    BY DEF Structure, Kept
  <2>1. CASE StoresCheap(call[c])
    <3>1. e \in Entry
      BY <1>1, <2>1 DEF StoresCheap, Entry
    <3>2. cheap' = [cheap EXCEPT ![call[c].file] = e]
      BY <2>1 DEF CheapSettle
    <3> HIDE DEF e
    <3> QED
      BY <1>1, <2>0, <3>1, <3>2 DEF Tier
  <2>2. CASE ~StoresCheap(call[c])
    BY <2>0, <2>2 DEF CheapSettle
  <2> QED
    BY <2>1, <2>2
<1> QED
  BY <1>6, <1>7 DEF Structure, Kept, CheapSettle, watchVars

LEMMA StoreParseTypes ==
    ASSUME Structure, NEW f \in Files, NEW entry \in Entry, StoreParse(f, entry)
    PROVE  parsed' \in Tier /\ older' \subseteq Files \X Files
<1>1. parsed' \in Tier
  BY DEF StoreParse, Structure, Kept, Tier
<1>2. Held \union {f} \subseteq Files
  BY HeldType
<1>3. OrderTouched(older, Held \union {f}, f) \subseteq Files \X Files
  BY <1>2, OrderTypes DEF Structure, Kept
<1>4. older' \subseteq Files \X Files
  BY <1>3 DEF StoreParse, OrderWithout
<1> QED
  BY <1>1, <1>4

LEMMA ParseSettleStructure ==
    ASSUME Structure, NEW c \in Callers, ParseSettle(c)
    PROVE  Structure'
<1> DEFINE f == call[c].file
           b == call[c].bytes
           entry == [version |-> call[c].ver, content |-> b]
           r == [d \in Callers |-> ParseAnswered(call[d], b)]
<1>1. /\ call \in [Callers -> Call] /\ b \in Content \union {Nothing}
      /\ f \in Files /\ call[c].ver \in Versions \union {NoVersion}
      /\ call[c].pc = "derive" /\ call[c].tier = "parse"
  BY DEF ParseSettle, Structure, Flights, CallsOK, CallOK, Call
<1>2. r \in [Callers -> Call]
  BY <1>1, ParseAnsweredFields
<1>3. \A d \in {c} \union Joiners(c) : call[d].file \in Files
  BY <1>1 DEF Joiners, Structure, Flights, CallsOK, CallOK
<1>4. ASSUME NEW d \in {c} \union Joiners(c)
      PROVE  r[d].pc \notin {"read", "derive", "joined"} /\ CallOK(r[d])
  BY <1>1, <1>3, ParseAnsweredFields DEF CallOK, Joiners
<1>5. call' = [d \in Callers |-> IF d = c \/ d \in Joiners(c) THEN r[d] ELSE call[d]]
  BY DEF ParseSettle
<1>6. Flights'
  <2> HIDE DEF r
  <2> QED
    BY <1>1, <1>2, <1>4, <1>5, SettleStep DEF Structure, ParseSettle
<1>7. (entry \in Entry /\ StoresParse(call[c])) \/ ~StoresParse(call[c])
  BY <1>1 DEF StoresParse, Entry
<1>8. parsed' \in Tier /\ older' \subseteq Files \X Files
  <2> HIDE DEF entry
  <2>1. CASE StoresParse(call[c]) /\ entry \in Entry
    BY <1>1, <2>1, StoreParseTypes DEF ParseSettle, entry
  <2>2. CASE ~StoresParse(call[c])
    BY <2>2 DEF ParseSettle, Structure, Kept
  <2> QED
    BY <1>7, <2>1, <2>2
<1>9. FillsSummary(c) => entry \in Entry
  <2>1. ASSUME NEW d \in {c} \union Joiners(c), call[d].ask = "usage"
        PROVE  call[c].ver # NoVersion
    BY <1>1, <2>1
    DEF Joiners, Structure, Flights, CallsOK, CallOK, JoinersHaveAFlight
  <2> QED
    BY <1>1, <2>1 DEF FillsSummary, Entry
<1>10. models' \in Tier
  BY <1>1, <1>9 DEF ParseSettle, Structure, Kept, Tier
<1> QED
  BY <1>6, <1>8, <1>10 DEF Structure, Kept, ParseSettle, watchVars

LEMMA InitStructure == Init => Structure
<1> SUFFICES ASSUME Init PROVE Structure
  OBVIOUS
<1>1. Idle \in Call /\ Idle.pc = "idle"
  BY DEF Idle, Call, Phases
<1>2. Kept
  BY ConstantsAssumption DEF Init, Kept, Versions, Content, Tier
<1>3. Flights
  BY <1>1, ConstantsAssumption
  DEF Init, Flights, Slots, CallsOK, CallOK, SlotsAreFlights, JoinersHaveAFlight
<1> QED
  BY <1>2, <1>3 DEF Structure

LEMMA CallerStepStructure ==
    ASSUME Structure, NEW c \in Callers, CallerStep(c)
    PROVE  Structure'
BY StatStructure, ReadBytesStructure, CheapHitStructure, CheapJoinStructure,
   CheapStartStructure, CheapSettleStructure, ParseHitStructure, ParseJoinStructure,
   ParseStartStructure, ParseSettleStructure, FillFilterStructure, MergeStructure,
   ReturnStructure DEF CallerStep

LEMMA WatcherStepStructure ==
    ASSUME Structure, WatcherStep
    PROVE  Structure'
BY TabWatcherStructure, ForgetUnseenStructure, UnmovedStructure DEF WatcherStep

LEMMA NextStructure == Structure /\ [Next]_vars => Structure'
<1> SUFFICES ASSUME Structure, [Next]_vars PROVE Structure'
  OBVIOUS
<1>1. CASE \E c \in Callers, ask \in Asks, f \in Files : Ask(c, ask, f)
  BY <1>1, AskStructure
<1>2. CASE \E c \in Callers : CallerStep(c)
  BY <1>2, CallerStepStructure
<1>3. CASE \E f \in Files, v \in Versions : Write(f, v)
  BY <1>3, WriteStructure
<1>4. CASE WatcherStep
  BY <1>4, WatcherStepStructure
<1>5. CASE clearSourceCache
  BY <1>5, ClearStructure
<1>6. CASE UNCHANGED vars
  <2>1. Flights'
    BY <1>6, ClearingStep DEF Structure, Flights, vars, cacheVars
  <2> QED
    BY <1>6, <2>1 DEF Structure, Kept, vars, watchVars, cacheVars
<1> QED
  BY <1>1, <1>2, <1>3, <1>4, <1>5, <1>6 DEF Next

\* In every reachable state the types, the slots and the joiners are in order.
THEOREM StructureInvariant == Spec => []Structure
BY InitStructure, NextStructure, PTL DEF Spec

\* Every entry point, watcher and forget leaves the cache well typed.
THEOREM TypeCorrect == Spec => []TypeOK
<1>1. Structure => TypeOK
  BY DEF Structure, Kept, Flights, TypeOK
<1> QED
  BY <1>1, StructureInvariant, PTL

\* The in-flight maps never name a flight that is over (coalesced's `finally`).
THEOREM SlotsHoldOnlyFlights == Spec => []SlotsAreFlights
<1>1. Structure => SlotsAreFlights
  BY DEF Structure, Flights
<1> QED
  BY <1>1, StructureInvariant, PTL

\* Nobody waits on a flight that will not answer it.
THEOREM EveryJoinerHasItsFlight == Spec => []JoinersHaveAFlight
<1>1. Structure => JoinersHaveAFlight
  BY DEF Structure, Flights
<1> QED
  BY <1>1, StructureInvariant, PTL

-----------------------------------------------------------------------------
(***************************************************************************)
(* What a watched file's watcher has settled is current.                   *)
(***************************************************************************)

\* A caller with nothing in flight goes on to something that is not a derivation.
LEMMA GroundedNow ==
    ASSUME Structure, SettledIsNow, NEW c \in Callers, call[c].pc \notin {"read", "derive"},
           NEW r \in Call, r.pc \notin {"derive", "joined"},
           call' = [call EXCEPT ![c] = r],
           UNCHANGED <<disk, tabEvents, cheap>>,
           \A f \in Settled : Now(f, parsed'[f].content) /\ Now(f, models'[f].content),
           \A f \in Files : /\ reading'[f] \in {reading[f], c, None}
                            /\ parsing'[f] \in {parsing[f], c, None},
           r.file \in TabFiles /\ r.quiet =>
               r.file \in Settled /\ (r.pc = "answered" => Now(r.file, r.bytes))
    PROVE  SettledIsNow'
<1>1. \A d \in Callers : call'[d] = IF d = c THEN r ELSE call[d]
  BY DEF Structure, Flights
<1>2. TiersAreNow'
  BY DEF SettledIsNow, TiersAreNow, Settled, Now
<1>3. ASSUME NEW d \in Callers, call'[d].pc = "derive", call'[d].file \in Settled', Trusted(d)'
      PROVE  Now(call[d].file, call[d].bytes)'
  <2>1. d # c /\ call'[d] = call[d] /\ call[d].file \in Files
    BY <1>1, <1>3 DEF Structure, Flights, CallsOK, CallOK
  <2>2. Trusted(d)
    BY <1>1, <1>3, <2>1, ConstantsAssumption DEF Trusted, Joiners
  <2> QED
    BY <1>3, <2>1, <2>2 DEF SettledIsNow, TrustedIsNow, Settled, Now
<1>4. QuietIsNow'
  BY <1>1 DEF SettledIsNow, QuietIsNow, Settled, Now
<1> QED
  BY <1>2, <1>3, <1>4 DEF SettledIsNow, TrustedIsNow

\* Joining a flight that owns its slot, which is trusted already.
LEMMA JoinNow ==
    ASSUME Structure, SettledIsNow, NEW c \in Callers, call[c].pc \notin {"read", "derive"},
           NEW r \in Call, r.pc = "joined", r.file = call[c].file, r.quiet = call[c].quiet,
           r.on \in Callers, r.on \in {reading[call[r.on].file], parsing[call[r.on].file]},
           call' = [call EXCEPT ![c] = r],
           UNCHANGED <<disk, tabEvents, cheap, parsed, models, reading, parsing>>
    PROVE  SettledIsNow'
<1>1. \A d \in Callers : call'[d] = IF d = c THEN r ELSE call[d]
  BY DEF Structure, Flights
<1>2. TiersAreNow'
  BY DEF SettledIsNow, TiersAreNow, Settled, Now
<1>3. ASSUME NEW d \in Callers, call'[d].pc = "derive", call'[d].file \in Settled', Trusted(d)'
      PROVE  Now(call[d].file, call[d].bytes)'
  <2>1. d # c /\ call'[d] = call[d]
    BY <1>1, <1>3
  <2>2. Trusted(d)
    BY <1>1, <1>3, <2>1 DEF Trusted, Joiners
  <2> QED
    BY <1>3, <2>1, <2>2 DEF SettledIsNow, TrustedIsNow, Settled, Now
<1>4. QuietIsNow'
  BY <1>1 DEF SettledIsNow, QuietIsNow, Settled, Now
<1> QED
  BY <1>2, <1>3, <1>4 DEF SettledIsNow, TrustedIsNow

\* A flight gets the bytes on disk, of a read or of a parse held at its version.
LEMMA BytesNow ==
    ASSUME Structure, SettledIsNow, NEW c \in Callers,
           NEW r \in Call, r.pc = "derive", r.file = call[c].file, r.quiet = call[c].quiet,
           call[c].file \in Settled => Now(r.file, r.bytes),
           call' = [call EXCEPT ![c] = r],
           UNCHANGED <<disk, tabEvents, cheap, parsed, models>>,
           \A f \in Files : /\ reading'[f] \in {reading[f], c}
                            /\ parsing'[f] \in {parsing[f], c}
    PROVE  SettledIsNow'
<1>1. \A d \in Callers : call'[d] = IF d = c THEN r ELSE call[d]
  BY DEF Structure, Flights
<1>2. TiersAreNow'
  BY DEF SettledIsNow, TiersAreNow, Settled, Now
<1>3. ASSUME NEW d \in Callers, call'[d].pc = "derive", call'[d].file \in Settled', Trusted(d)'
      PROVE  Now(call[d].file, call[d].bytes)'
  <2>1. CASE d = c
    BY <1>1, <1>3, <2>1 DEF Settled, Now
  <2>2. CASE d # c
    <3>1. call'[d] = call[d] /\ call[d].file \in Files
      BY <1>1, <1>3, <2>2 DEF Structure, Flights, CallsOK, CallOK
    <3>2. Trusted(d)
      BY <1>1, <1>3, <2>2, <3>1 DEF Trusted, Joiners
    <3> QED
      BY <1>3, <3>1, <3>2 DEF SettledIsNow, TrustedIsNow, Settled, Now
  <2> QED
    BY <2>1, <2>2
<1>4. QuietIsNow'
  BY <1>1 DEF SettledIsNow, QuietIsNow, Settled, Now
<1> QED
  BY <1>2, <1>3, <1>4 DEF SettledIsNow, TrustedIsNow

\* A flight lands: what it answers and may store came from a trusted derivation.
LEMMA SettleNow ==
    ASSUME Structure, SettledIsNow, NEW c \in Callers, call[c].pc = "derive",
           NEW r \in [Callers -> Call],
           \A d \in {c} \union Joiners(c) :
               /\ r[d].pc \notin {"derive", "joined"}
               /\ r[d].file = call[d].file /\ r[d].quiet = call[d].quiet
               /\ r[d].pc = "answered" => r[d].bytes = call[c].bytes,
           call' = [d \in Callers |-> IF d = c \/ d \in Joiners(c) THEN r[d] ELSE call[d]],
           UNCHANGED <<disk, tabEvents>>,
           TiersAreNow',
           \A f \in Files : /\ reading'[f] \in {reading[f], None}
                            /\ parsing'[f] \in {parsing[f], None}
    PROVE  SettledIsNow'
<1>1. \A d \in Callers : call'[d] = IF d = c \/ d \in Joiners(c) THEN r[d] ELSE call[d]
  OBVIOUS
<1>2. ASSUME NEW d \in Callers, call'[d].pc = "derive", call'[d].file \in Settled', Trusted(d)'
      PROVE  Now(call[d].file, call[d].bytes)'
  <2>1. d # c /\ call'[d] = call[d] /\ call[d].file \in Files
    BY <1>1, <1>2 DEF Structure, Flights, CallsOK, CallOK
  <2>2. Trusted(d)
    BY <1>1, <1>2, <2>1, ConstantsAssumption DEF Trusted, Joiners
  <2> QED
    BY <1>2, <2>1, <2>2 DEF SettledIsNow, TrustedIsNow, Settled, Now
<1>3. ASSUME NEW d \in Callers, call'[d].file \in TabFiles, call'[d].quiet
      PROVE  /\ call'[d].file \in Settled'
             /\ call'[d].pc = "answered" => Now(call[d].file, call[d].bytes)'
  <2>1. CASE d = c \/ d \in Joiners(c)
    <3>1. call[d].quiet /\ call[d].file = call'[d].file /\ call[d].file = call[c].file
      BY <1>1, <1>3, <2>1 DEF Joiners, Structure, Flights, JoinersHaveAFlight
    <3>2. call[d].file \in Settled
      BY <1>3, <3>1 DEF SettledIsNow, QuietIsNow
    <3>3. Trusted(c)
      BY <2>1, <3>1 DEF Trusted
    <3>4. Now(call[c].file, call[c].bytes)
      BY <3>1, <3>2, <3>3 DEF SettledIsNow, TrustedIsNow
    <3> QED
      BY <1>1, <2>1, <3>1, <3>2, <3>4 DEF Settled, Now
  <2>2. CASE ~(d = c \/ d \in Joiners(c))
    BY <1>1, <1>3, <2>2 DEF SettledIsNow, QuietIsNow, Settled, Now
  <2> QED
    BY <2>1, <2>2
<1> QED
  BY <1>2, <1>3 DEF SettledIsNow, TrustedIsNow, QuietIsNow

\* A forget of g leaves nothing of g, no slot on it and no flight that may store.
LEMMA ForgetNow ==
    ASSUME Structure, SettledIsNow, NEW g \in Files, forgetSource(g), UNCHANGED disk,
           tabEvents' \in {tabEvents, tabEvents \ {g}}
    PROVE  SettledIsNow'
<1>1. /\ call \in [Callers -> Call]
      /\ \A d \in Callers : call'[d] = [call[d] EXCEPT !.fresh = FALSE]
  BY DEF forgetSource, Structure, Flights
<1>2. \A d \in Callers : /\ call'[d].pc = call[d].pc /\ call'[d].file = call[d].file
                         /\ call'[d].quiet = call[d].quiet /\ call'[d].on = call[d].on
                         /\ call'[d].bytes = call[d].bytes /\ ~call'[d].fresh
  <2>1. ASSUME NEW r \in Call
        PROVE  LET s == [r EXCEPT !.fresh = FALSE]
               IN  /\ s.pc = r.pc /\ s.file = r.file /\ s.quiet = r.quiet
                   /\ s.on = r.on /\ s.bytes = r.bytes /\ s.fresh = FALSE
    BY DEF Call
  <2> SUFFICES ASSUME NEW d \in Callers
               PROVE  /\ call'[d].pc = call[d].pc /\ call'[d].file = call[d].file
                      /\ call'[d].quiet = call[d].quiet /\ call'[d].on = call[d].on
                      /\ call'[d].bytes = call[d].bytes /\ ~call'[d].fresh
    OBVIOUS
  <2>2. call[d] \in Call /\ call'[d] = [call[d] EXCEPT !.fresh = FALSE]
    BY <1>1
  <2> QED
    BY <2>1, <2>2
<1>3. \A f \in Settled' : f \in Settled \/ f = g
  BY DEF Settled
<1>4. TiersAreNow'
  <2>1. \A f \in Files : /\ cheap'[f].content \in {cheap[f].content, Nothing}
                         /\ parsed'[f].content \in {parsed[f].content, Nothing}
                         /\ models'[f].content \in {models[f].content, Nothing}
                         /\ f = g => /\ cheap'[f].content = Nothing
                                     /\ parsed'[f].content = Nothing
                                     /\ models'[f].content = Nothing
    BY DEF forgetSource, Structure, Kept, Tier, Absent
  <2>2. Settled' \subseteq Files
    BY ConstantsAssumption DEF Settled
  <2> QED
    BY <1>3, <2>1, <2>2 DEF SettledIsNow, TiersAreNow, Now
<1>5. ASSUME NEW d \in Callers, call'[d].file \in TabFiles, call'[d].quiet
      PROVE  call[d].file \in Settled /\ call[d].file \in Settled'
  BY <1>2, <1>5 DEF SettledIsNow, QuietIsNow, Settled
<1>6. ASSUME NEW d \in Callers, call'[d].pc = "derive", call'[d].file \in Settled', Trusted(d)'
      PROVE  Now(call[d].file, call[d].bytes)'
  <2> DEFINE f == call[d].file
  <2>1. f \in Settled'
    BY <1>2, <1>6
  <2>2. CASE f = g
    <3>1. reading'[f] # d /\ parsing'[f] # d
      BY <2>2, ConstantsAssumption DEF forgetSource, Structure, Flights, Slots
    <3>2. call'[d].quiet \/ \E e \in Joiners(d) : call'[e].quiet
      BY <1>2, <1>6, <3>1 DEF Trusted, Joiners
    <3>3. f \in Settled
      BY <1>2, <1>5, <2>1, <2>2, <3>2
      DEF Settled, Joiners, Structure, Flights, JoinersHaveAFlight
    <3>4. Trusted(d)
      BY <1>2, <3>2 DEF Trusted, Joiners
    <3> QED
      BY <1>2, <1>6, <3>3, <3>4 DEF SettledIsNow, TrustedIsNow, Now
  <2>3. CASE f # g
    <3>1. f \in Settled
      BY <1>3, <2>1, <2>3
    <3>2. reading'[f] = reading[f] /\ parsing'[f] = parsing[f]
      BY <2>3 DEF forgetSource, Structure, Flights, Slots
    <3>3. \A e \in Joiners(d)' : e \in Joiners(d) /\ call'[e].quiet = call[e].quiet
                                  /\ (call'[e].fresh => call[e].fresh)
      BY <1>2 DEF Joiners
    <3>4. (call'[d].fresh => call[d].fresh) /\ call'[d].quiet = call[d].quiet
          /\ call'[d].file = f
      BY <1>2
    <3>5. Trusted(d)
      BY <1>6, <3>2, <3>3, <3>4 DEF Trusted
    <3> QED
      BY <1>2, <1>6, <3>1, <3>5 DEF SettledIsNow, TrustedIsNow, Now
  <2> QED
    BY <2>2, <2>3
<1>7. QuietIsNow'
  BY <1>2, <1>5 DEF SettledIsNow, QuietIsNow, Now
<1> QED
  BY <1>4, <1>6, <1>7 DEF SettledIsNow, TrustedIsNow

\* A write of g leaves no ask of g quiet and g unsettled.
LEMMA WriteNow ==
    ASSUME Structure, SettledIsNow, NEW g \in Files, NEW v \in Versions, Write(g, v)
    PROVE  SettledIsNow'
<1>1. /\ call \in [Callers -> Call]
      /\ \A d \in Callers : call'[d] = [call[d] EXCEPT !.quiet = @ /\ call[d].file # g]
  BY DEF Write, Structure, Flights
<1>2. \A d \in Callers : /\ call'[d].pc = call[d].pc /\ call'[d].file = call[d].file
                         /\ call'[d].fresh = call[d].fresh /\ call'[d].on = call[d].on
                         /\ call'[d].bytes = call[d].bytes
                         /\ call'[d].quiet => call[d].quiet /\ call[d].file # g
  <2>1. ASSUME NEW r \in Call, NEW q
        PROVE  LET s == [r EXCEPT !.quiet = q]
               IN  /\ s.pc = r.pc /\ s.file = r.file /\ s.fresh = r.fresh
                   /\ s.on = r.on /\ s.bytes = r.bytes /\ s.quiet = q
    BY DEF Call
  <2> SUFFICES ASSUME NEW d \in Callers
               PROVE  /\ call'[d].pc = call[d].pc /\ call'[d].file = call[d].file
                      /\ call'[d].fresh = call[d].fresh /\ call'[d].on = call[d].on
                      /\ call'[d].bytes = call[d].bytes
                      /\ call'[d].quiet => call[d].quiet /\ call[d].file # g
    OBVIOUS
  <2> DEFINE q == call[d].quiet /\ call[d].file # g
  <2>2. call[d] \in Call /\ call'[d] = [call[d] EXCEPT !.quiet = q]
    BY <1>1
  <2> HIDE DEF q
  <2>3. call'[d].quiet = q /\ call'[d].pc = call[d].pc /\ call'[d].file = call[d].file
        /\ call'[d].fresh = call[d].fresh /\ call'[d].on = call[d].on
        /\ call'[d].bytes = call[d].bytes
    BY <2>1, <2>2
  <2> QED
    BY <2>3 DEF q
<1>3. /\ UNCHANGED <<cheap, parsed, models, reading, parsing>>
      /\ \A f \in Files \ {g} : disk'[f] = disk[f]
  BY DEF Write, cacheVars, Structure, Kept
<1>4. Settled' = Settled \ {g} /\ Settled \subseteq Files
  BY ConstantsAssumption DEF Write, Settled
<1>5. TiersAreNow'
  BY <1>3, <1>4 DEF SettledIsNow, TiersAreNow, Now
<1>6. ASSUME NEW d \in Callers, call'[d].pc = "derive", call'[d].file \in Settled', Trusted(d)'
      PROVE  Now(call[d].file, call[d].bytes)'
  <2>1. Trusted(d)
    BY <1>2, <1>3, <1>6 DEF Trusted, Joiners
  <2> QED
    BY <1>2, <1>3, <1>4, <1>6, <2>1 DEF SettledIsNow, TrustedIsNow, Now
<1>7. QuietIsNow'
  BY <1>2, <1>3, <1>4 DEF SettledIsNow, QuietIsNow, Now
<1> QED
  BY <1>5, <1>6, <1>7 DEF SettledIsNow, TrustedIsNow

LEMMA ClearNow ==
    ASSUME Structure, SettledIsNow, clearSourceCache
    PROVE  SettledIsNow'
<1>1. TiersAreNow'
  BY ConstantsAssumption DEF clearSourceCache, TiersAreNow, Settled, Now, Absent
<1>2. \A d \in Callers : Trusted(d)' <=> Trusted(d)
  BY DEF clearSourceCache, Trusted, Joiners
<1> QED
  BY <1>1, <1>2
  DEF clearSourceCache, watchVars, SettledIsNow, TrustedIsNow, QuietIsNow, Settled, Now

\* Nothing the property speaks of moves.
LEMMA StillNow ==
    ASSUME SettledIsNow, UNCHANGED <<disk, tabEvents, cacheVars, call>>
    PROVE  SettledIsNow'
<1>1. \A d \in Callers : Trusted(d)' <=> Trusted(d)
  BY DEF cacheVars, Trusted, Joiners
<1> QED
  BY <1>1
  DEF cacheVars, SettledIsNow, TiersAreNow, TrustedIsNow, QuietIsNow, Settled, Now

\* What a tier holds for a settled file is what is on disk.
LEMMA HeldIsNow ==
    ASSUME SettledIsNow, NEW f \in Settled
    PROVE  Now(f, cheap[f].content) /\ Now(f, parsed[f].content) /\ Now(f, models[f].content)
BY DEF SettledIsNow, TiersAreNow

LEMMA AskNow ==
    ASSUME Structure, SettledIsNow, NEW c \in Callers, NEW ask \in Asks, NEW f \in Files,
           Ask(c, ask, f)
    PROVE  SettledIsNow'
<1>1. PICK r \in Call : /\ call' = [call EXCEPT ![c] = r] /\ r.pc = "stat"
                        /\ r.file = f /\ (r.quiet => ~Unreported(f))
  <2> DEFINE r == [Idle EXCEPT !.pc = "stat", !.ask = ask, !.file = f, !.quiet = ~Unreported(f)]
  <2>1. Unreported(f) \in BOOLEAN
    BY DEF Unreported
  <2>2. r \in Call /\ r.pc = "stat" /\ r.file = f /\ (r.quiet => ~Unreported(f))
    BY <2>1, ConstantsAssumption DEF Idle, Call, Phases
  <2> QED
    BY <2>2 DEF Ask
<1>2. r.file \in TabFiles /\ r.quiet => r.file \in Settled
  BY <1>1 DEF Unreported, Settled
<1>3. UNCHANGED <<disk, tabEvents, cheap, parsed, models, reading, parsing>>
  BY DEF Ask, watchVars, cacheVars
<1> QED
  BY <1>1, <1>2, <1>3, HeldIsNow, GroundedNow DEF Ask

LEMMA StatNow ==
    ASSUME Structure, SettledIsNow, NEW c \in Callers, Stat(c)
    PROVE  SettledIsNow'
<1>1. call[c].pc = "stat" /\ call[c] \in Call /\ call[c].file \in Files
  BY DEF Stat, Structure, Flights, CallsOK, CallOK
<1>2. PICK v \in Versions \union {NoVersion} :
          call' = [call EXCEPT ![c] = [call[c] EXCEPT !.pc = "statted", !.ver = v]]
  BY <1>1 DEF Stat, Structure, Kept
<1>3. PICK r \in Call : /\ call' = [call EXCEPT ![c] = r] /\ r.pc = "statted"
                        /\ r.file = call[c].file /\ r.quiet = call[c].quiet
  <2>1. LET r == [call[c] EXCEPT !.pc = "statted", !.ver = v]
        IN  /\ r \in Call /\ r.pc = "statted"
            /\ r.file = call[c].file /\ r.quiet = call[c].quiet
    BY <1>1 DEF Call, Phases
  <2> QED
    BY <1>2, <2>1
<1>4. r.file \in TabFiles /\ r.quiet => r.file \in Settled
  BY <1>3 DEF SettledIsNow, QuietIsNow
<1>5. UNCHANGED <<disk, tabEvents, cheap, parsed, models, reading, parsing>>
  BY DEF Stat, watchVars, cacheVars
<1> QED
  BY <1>1, <1>3, <1>4, <1>5, HeldIsNow, GroundedNow

LEMMA ReadBytesNow ==
    ASSUME Structure, SettledIsNow, NEW c \in Callers, ReadBytes(c)
    PROVE  SettledIsNow'
<1>1. call[c] \in Call /\ UNCHANGED <<disk, tabEvents, cheap, parsed, models, reading, parsing>>
  BY DEF ReadBytes, Structure, Flights, watchVars, cacheVars
<1>2. PICK b \in Content \union {Nothing} :
          /\ b \in {disk[call[c].file].content, Nothing}
          /\ call' = [call EXCEPT ![c] = [call[c] EXCEPT !.pc = "derive", !.bytes = b]]
  BY ReadBytesFields
<1>3. PICK r \in Call : /\ call' = [call EXCEPT ![c] = r] /\ r.pc = "derive"
                        /\ r.file = call[c].file /\ r.quiet = call[c].quiet
                        /\ Now(r.file, r.bytes)
  <2>1. LET r == [call[c] EXCEPT !.pc = "derive", !.bytes = b]
        IN  /\ r \in Call /\ r.pc = "derive"
            /\ r.file = call[c].file /\ r.quiet = call[c].quiet /\ r.bytes = b
    BY <1>1 DEF Call, Phases
  <2> QED
    BY <1>2, <2>1 DEF Now
<1> QED
  BY <1>1, <1>3, BytesNow

LEMMA ReturnNow ==
    ASSUME Structure, SettledIsNow, NEW c \in Callers, Return(c)
    PROVE  SettledIsNow'
<1>1. Idle \in Call /\ Idle.pc = "idle" /\ ~Idle.quiet
  BY DEF Idle, Call, Phases
<1>2. UNCHANGED <<disk, tabEvents, cheap, parsed, models, reading, parsing>>
  BY DEF Return, watchVars, cacheVars
<1> QED
  BY <1>1, <1>2, HeldIsNow, GroundedNow DEF Return

LEMMA FillFilterNow ==
    ASSUME Structure, SettledIsNow, NEW c \in Callers, FillFilter(c)
    PROVE  SettledIsNow'
<1>1. call[c] \in Call /\ call[c].pc = "filter"
  BY DEF FillFilter, Structure, Flights
<1>2. PICK r \in Call : /\ call' = [call EXCEPT ![c] = r] /\ r.pc \in {"merge", "fill"}
                        /\ r.file = call[c].file /\ r.quiet = call[c].quiet
  <2>1. LET r == [call[c] EXCEPT !.pc = "fill"]
        IN  r \in Call /\ r.pc = "fill" /\ r.file = call[c].file /\ r.quiet = call[c].quiet
    BY <1>1 DEF Call, Phases
  <2>2. LET r == At(call[c], "merge")
        IN  r \in Call /\ r.pc = "merge" /\ r.file = call[c].file /\ r.quiet = call[c].quiet
    BY <1>1, AtFields DEF Phases
  <2> QED
    BY <2>1, <2>2 DEF FillFilter
<1>3. r.file \in TabFiles /\ r.quiet => r.file \in Settled
  BY <1>2 DEF SettledIsNow, QuietIsNow
<1>4. UNCHANGED <<disk, tabEvents, cheap, parsed, models, reading, parsing>>
  BY DEF FillFilter, watchVars, cacheVars
<1> QED
  BY <1>1, <1>2, <1>3, <1>4, HeldIsNow, GroundedNow

LEMMA MergeNow ==
    ASSUME Structure, SettledIsNow, NEW c \in Callers, Merge(c)
    PROVE  SettledIsNow'
<1> DEFINE b == models[call[c].file].content
<1>1. /\ call[c] \in Call /\ call[c].pc = "merge"
      /\ call[c].file \in Files /\ b \in Content \union {Nothing}
  BY DEF Merge, Structure, Kept, Flights, CallsOK, CallOK, Tier, Entry, Absent
<1>2. PICK r \in Call : /\ call' = [call EXCEPT ![c] = r] /\ r.pc = "answered" /\ r.bytes = b
                        /\ r.file = call[c].file /\ r.quiet = call[c].quiet
  <2>1. call' = [call EXCEPT ![c] = Answered(call[c], b)]
    BY DEF Merge
  <2> HIDE DEF b
  <2> QED
    BY <1>1, <2>1, AnsweredFields
<1>3. r.file \in TabFiles /\ r.quiet => r.file \in Settled /\ Now(r.file, r.bytes)
  BY <1>2, HeldIsNow DEF SettledIsNow, QuietIsNow
<1>4. UNCHANGED <<disk, tabEvents, cheap, parsed, models, reading, parsing>>
  BY DEF Merge, watchVars, cacheVars
<1> QED
  BY <1>1, <1>2, <1>3, <1>4, HeldIsNow, GroundedNow

LEMMA CheapHitNow ==
    ASSUME Structure, SettledIsNow, NEW c \in Callers, CheapHit(c)
    PROVE  SettledIsNow'
<1> DEFINE b == IF call[c].ver = NoVersion THEN Nothing ELSE cheap[call[c].file].content
<1>1. /\ call[c] \in Call /\ call[c].pc = "statted"
      /\ call[c].file \in Files /\ b \in Content \union {Nothing}
  BY DEF CheapHit, AsksCheap, Structure, Kept, Flights, CallsOK, CallOK, Tier, Entry, Absent
<1>2. PICK r \in Call : /\ call' = [call EXCEPT ![c] = r] /\ r.pc \in {"answered", "filter"}
                        /\ r.pc = "answered" => r.bytes = b
                        /\ r.file = call[c].file /\ r.quiet = call[c].quiet
  BY ZenonT(30), <1>1, CheapAnsweredFields DEF CheapHit
<1>3. call[c].file \in Settled => Now(call[c].file, b)
  BY HeldIsNow DEF Now
<1>4. r.file \in TabFiles /\ r.quiet
          => r.file \in Settled /\ (r.pc = "answered" => Now(r.file, r.bytes))
  BY <1>2, <1>3 DEF SettledIsNow, QuietIsNow
<1>5. UNCHANGED <<disk, tabEvents, cheap, parsed, models, reading, parsing>>
  BY DEF CheapHit, watchVars, cacheVars
<1> QED
  BY <1>1, <1>2, <1>4, <1>5, HeldIsNow, GroundedNow

LEMMA ParseHitNow ==
    ASSUME Structure, SettledIsNow, NEW c \in Callers, ParseHit(c)
    PROVE  SettledIsNow'
<1> DEFINE f == call[c].file
           b == parsed[f].content
<1>1. /\ call[c] \in Call /\ call[c].pc \notin {"read", "derive"}
      /\ f \in Files /\ b \in Content \union {Nothing}
  BY AskerFields DEF ParseHit, Structure, Kept, Tier, Entry, Absent
<1>2. PICK r \in Call : /\ call' = [call EXCEPT ![c] = r] /\ r.pc \in {"answered", "merge"}
                        /\ r.pc = "answered" => r.bytes = b
                        /\ r.file = f /\ r.quiet = call[c].quiet
  BY <1>1, ParseAnsweredFields DEF ParseHit
<1>3. r.file \in TabFiles /\ r.quiet
          => r.file \in Settled /\ (r.pc = "answered" => Now(r.file, r.bytes))
  BY <1>2, HeldIsNow DEF SettledIsNow, QuietIsNow
<1>4. UNCHANGED <<disk, tabEvents, cheap, parsed, reading, parsing>>
  BY DEF ParseHit, watchVars
<1>5. \A g \in Settled : Now(g, models'[g].content)
  BY <1>1, HeldIsNow, ConstantsAssumption DEF ParseHit, Settled, Structure, Kept, Tier
<1> QED
  BY <1>1, <1>2, <1>3, <1>4, <1>5, HeldIsNow, GroundedNow

LEMMA CheapJoinNow ==
    ASSUME Structure, SettledIsNow, NEW c \in Callers, CheapJoin(c)
    PROVE  SettledIsNow'
<1>1. /\ call[c] \in Call /\ call[c].pc \notin {"read", "derive"} /\ call[c].file \in Files
      /\ call[c].ver # NoVersion
  BY AskerFields DEF CheapJoin
<1> DEFINE o == reading[call[c].file]
<1>2. o \in Callers /\ call[o].file = call[c].file
  BY <1>1 DEF CheapJoin, Joinable, Structure, Flights, SlotsAreFlights, Slots
<1>3. PICK r \in Call : /\ call' = [call EXCEPT ![c] = r] /\ r.pc = "joined" /\ r.on = o
                        /\ r.file = call[c].file /\ r.quiet = call[c].quiet
  <2>1. LET r == [call[c] EXCEPT !.pc = "joined", !.tier = "cheap", !.on = o]
        IN  /\ r \in Call /\ r.pc = "joined" /\ r.on = o
            /\ r.file = call[c].file /\ r.quiet = call[c].quiet
    BY <1>1, <1>2 DEF Call, Phases
  <2> QED
    BY <2>1 DEF CheapJoin
<1>4. UNCHANGED <<disk, tabEvents, cheap, parsed, models, reading, parsing>>
  BY DEF CheapJoin, watchVars, cacheVars
<1> QED
  BY <1>1, <1>2, <1>3, <1>4, JoinNow

LEMMA ParseJoinNow ==
    ASSUME Structure, SettledIsNow, NEW c \in Callers, ParseJoin(c)
    PROVE  SettledIsNow'
<1>1. /\ call[c] \in Call /\ call[c].pc \notin {"read", "derive"} /\ call[c].file \in Files
      /\ call[c].ver # NoVersion
  BY AskerFields DEF ParseJoin
<1> DEFINE o == parsing[call[c].file]
<1>2. o \in Callers /\ call[o].file = call[c].file
  BY <1>1 DEF ParseJoin, Joinable, Structure, Flights, SlotsAreFlights, Slots
<1>3. PICK r \in Call : /\ call' = [call EXCEPT ![c] = r] /\ r.pc = "joined" /\ r.on = o
                        /\ r.file = call[c].file /\ r.quiet = call[c].quiet
  <2>1. LET r == [call[c] EXCEPT !.pc = "joined", !.tier = "parse", !.on = o, !.fresh = TRUE]
        IN  /\ r \in Call /\ r.pc = "joined" /\ r.on = o
            /\ r.file = call[c].file /\ r.quiet = call[c].quiet
    BY <1>1, <1>2 DEF Call, Phases
  <2> QED
    BY <2>1 DEF ParseJoin
<1>4. UNCHANGED <<disk, tabEvents, cheap, parsed, models, reading, parsing>>
  BY DEF ParseJoin, watchVars
<1> QED
  BY <1>1, <1>2, <1>3, <1>4, JoinNow

LEMMA ParseStartNow ==
    ASSUME Structure, SettledIsNow, NEW c \in Callers, ParseStart(c)
    PROVE  SettledIsNow'
<1>1. /\ call[c] \in Call /\ call[c].pc \notin {"read", "derive"} /\ call[c].file \in Files
  BY AskerFields DEF ParseStart
<1>2. PICK r \in Call : /\ call' = [call EXCEPT ![c] = r] /\ r.pc = "read"
                        /\ r.file = call[c].file /\ r.quiet = call[c].quiet
  <2>1. LET r == [call[c] EXCEPT !.pc = "read", !.tier = "parse", !.fresh = TRUE]
        IN  /\ r \in Call /\ r.pc = "read"
            /\ r.file = call[c].file /\ r.quiet = call[c].quiet
    BY <1>1 DEF Call, Phases
  <2> QED
    BY <2>1 DEF ParseStart
<1>3. r.file \in TabFiles /\ r.quiet => r.file \in Settled
  BY <1>2 DEF SettledIsNow, QuietIsNow
<1>4. /\ UNCHANGED <<disk, tabEvents, cheap, parsed, models, reading>>
      /\ \A f \in Files : parsing'[f] \in {parsing[f], c}
  BY DEF ParseStart, watchVars, Structure, Flights, Slots
<1> QED
  BY <1>1, <1>2, <1>3, <1>4, HeldIsNow, GroundedNow

\* A cheap read that starts from a parse held at its version starts from what is
\* on disk.
LEMMA CheapStartNow ==
    ASSUME Structure, SettledIsNow, NEW c \in Callers, CheapStart(c)
    PROVE  SettledIsNow'
<1> DEFINE f == call[c].file
<1>1. /\ call[c] \in Call /\ call[c].pc \notin {"read", "derive"} /\ f \in Files
      /\ parsed[f].content \in Content \union {Nothing}
  <2>1. call[c] \in Call /\ call[c].pc \notin {"read", "derive"} /\ f \in Files
    BY AskerFields DEF CheapStart
  <2>2. parsed[f] \in Entry \union {Absent}
    BY <2>1 DEF Structure, Kept, Tier
  <2> QED
    BY <2>1, <2>2 DEF Entry, Absent
<1>2. ASSUME NEW s \in Call, s.file = f, s.quiet = call[c].quiet
      PROVE  LET r == cheapOf(s)
             IN  /\ r \in Call /\ r.pc \in {"read", "derive"}
                 /\ r.file = f /\ r.quiet = call[c].quiet
                 /\ r.pc = "derive" => r.bytes \in {Nothing, parsed[f].content}
  <2>1. ASSUME NEW b \in Content \union {Nothing}
        PROVE  LET r == [s EXCEPT !.pc = "derive", !.bytes = b]
               IN  /\ r \in Call /\ r.pc = "derive" /\ r.bytes = b
                   /\ r.file = f /\ r.quiet = call[c].quiet
    BY <1>2 DEF Call, Phases
  <2>2. LET r == [s EXCEPT !.pc = "read"]
        IN  r \in Call /\ r.pc = "read" /\ r.file = f /\ r.quiet = call[c].quiet
    BY <1>2 DEF Call, Phases
  <2> QED
    BY <1>1, <1>2, <2>1, <2>2 DEF cheapOf
<1>3. PICK r \in Call : /\ call' = [call EXCEPT ![c] = r] /\ r.pc \in {"read", "derive"}
                        /\ r.file = f /\ r.quiet = call[c].quiet
                        /\ r.pc = "derive" => r.bytes \in {Nothing, parsed[f].content}
  <2>1. LET s == [call[c] EXCEPT !.tier = "cheap", !.fresh = TRUE]
        IN  s \in Call /\ s.file = f /\ s.quiet = call[c].quiet
    BY <1>1 DEF Call
  <2> QED
    BY <1>2, <2>1 DEF CheapStart
<1>4. /\ UNCHANGED <<disk, tabEvents, cheap, parsed, models, parsing>>
      /\ \A g \in Files : reading'[g] \in {reading[g], c}
  BY DEF CheapStart, watchVars, Structure, Flights, Slots
<1>5. CASE r.pc = "derive"
  <2>1. f \in Settled => Now(f, r.bytes)
    BY <1>3, <1>5, HeldIsNow DEF Now
  <2> QED
    BY <1>1, <1>3, <1>4, <1>5, <2>1, BytesNow
<1>6. CASE r.pc = "read"
  <2>1. r.file \in TabFiles /\ r.quiet => r.file \in Settled
    BY <1>3 DEF SettledIsNow, QuietIsNow
  <2> QED
    BY <1>1, <1>3, <1>4, <1>6, <2>1, HeldIsNow, GroundedNow
<1> QED
  BY <1>3, <1>5, <1>6

LEMMA CheapSettleNow ==
    ASSUME Structure, SettledIsNow, NEW c \in Callers, CheapSettle(c)
    PROVE  SettledIsNow'
<1> DEFINE f == call[c].file
           b == call[c].bytes
           r == [d \in Callers |-> CheapAnswered(call[d], b)]
<1>1. /\ call \in [Callers -> Call] /\ b \in Content \union {Nothing}
      /\ f \in Files /\ call[c].pc = "derive"
  BY DEF CheapSettle, Structure, Flights, CallsOK, CallOK, Call
<1>2. /\ r \in [Callers -> Call]
      /\ \A d \in Callers : /\ r[d].pc \notin {"derive", "joined"}
                            /\ r[d].file = call[d].file /\ r[d].quiet = call[d].quiet
                            /\ r[d].pc = "answered" => r[d].bytes = b
  BY <1>1, CheapAnsweredFields
<1>3. call' = [d \in Callers |-> IF d = c \/ d \in Joiners(c) THEN r[d] ELSE call[d]]
  BY DEF CheapSettle
<1>4. TiersAreNow'
  <2>1. f \in Settled /\ call[c].fresh => Now(f, b)
    BY <1>1 DEF SettledIsNow, TrustedIsNow, Trusted
  <2>2. ASSUME NEW g \in Settled
        PROVE  Now(g, cheap'[g].content)
    <3>1. g \in Files /\ Now(g, cheap[g].content)
      BY HeldIsNow, ConstantsAssumption DEF Settled
    <3>2. cheap \in [Files -> Entry \union {Absent}]
      BY DEF Structure, Kept, Tier
    <3>3. CASE StoresCheap(call[c])
      <4>1. call[c].fresh
        BY <3>3 DEF StoresCheap
      <4>2. cheap' = [cheap EXCEPT ![f] = [version |-> call[c].ver, content |-> b]]
        BY <3>3 DEF CheapSettle
      <4>3. cheap'[g] = IF g = f THEN [version |-> call[c].ver, content |-> b] ELSE cheap[g]
        BY <3>1, <3>2, <4>2
      <4> QED
        BY <2>1, <3>1, <4>1, <4>3
    <3>4. CASE ~StoresCheap(call[c])
      BY <3>1, <3>4 DEF CheapSettle
    <3> QED
      BY <3>3, <3>4
  <2> QED
    BY <2>2 DEF CheapSettle, watchVars, SettledIsNow, TiersAreNow, Settled, Now
<1>5. /\ UNCHANGED <<disk, tabEvents>>
      /\ \A g \in Files : /\ reading'[g] \in {reading[g], None}
                          /\ parsing'[g] \in {parsing[g], None}
  BY DEF CheapSettle, watchVars, Landed, Structure, Flights, Slots
<1> HIDE DEF r
<1> QED
  BY <1>1, <1>2, <1>3, <1>4, <1>5, SettleNow DEF Joiners

LEMMA ParseSettleNow ==
    ASSUME Structure, SettledIsNow, NEW c \in Callers, ParseSettle(c)
    PROVE  SettledIsNow'
<1> DEFINE f == call[c].file
           b == call[c].bytes
           r == [d \in Callers |-> ParseAnswered(call[d], b)]
<1>1. /\ call \in [Callers -> Call] /\ b \in Content \union {Nothing}
      /\ f \in Files /\ call[c].pc = "derive"
  BY DEF ParseSettle, Structure, Flights, CallsOK, CallOK, Call
<1>2. /\ r \in [Callers -> Call]
      /\ \A d \in Callers : /\ r[d].pc \notin {"derive", "joined"}
                            /\ r[d].file = call[d].file /\ r[d].quiet = call[d].quiet
                            /\ r[d].pc = "answered" => r[d].bytes = b
  BY <1>1, ParseAnsweredFields
<1>3. call' = [d \in Callers |-> IF d = c \/ d \in Joiners(c) THEN r[d] ELSE call[d]]
  BY DEF ParseSettle
<1>4. TiersAreNow'
  <2>1. f \in Settled /\ (call[c].fresh \/ \E d \in Joiners(c) : call[d].fresh) => Now(f, b)
    BY <1>1 DEF SettledIsNow, TrustedIsNow, Trusted
  <2>2. \A g \in Settled : Now(g, models'[g].content)
    BY <1>1, <2>1, HeldIsNow, ConstantsAssumption
    DEF ParseSettle, FillsSummary, Settled, Structure, Kept, Tier
  <2>3. \A g \in Settled : Now(g, parsed'[g].content)
    BY <1>1, <2>1, HeldIsNow, ConstantsAssumption
    DEF ParseSettle, StoresParse, StoreParse, Settled, Now, Absent
  <2> QED
    BY <2>2, <2>3 DEF ParseSettle, watchVars, SettledIsNow, TiersAreNow, Settled, Now
<1>5. /\ UNCHANGED <<disk, tabEvents>>
      /\ \A g \in Files : /\ reading'[g] \in {reading[g], None}
                          /\ parsing'[g] \in {parsing[g], None}
  BY DEF ParseSettle, watchVars, Landed, Structure, Flights, Slots
<1> HIDE DEF r
<1> QED
  BY <1>1, <1>2, <1>3, <1>4, <1>5, SettleNow DEF Joiners

LEMMA InitNow == Init => SettledIsNow
<1> SUFFICES ASSUME Init PROVE SettledIsNow
  OBVIOUS
<1>1. TiersAreNow
  BY ConstantsAssumption DEF Init, TiersAreNow, Settled, Now, Absent
<1>2. TrustedIsNow /\ QuietIsNow
  BY ConstantsAssumption DEF Init, TrustedIsNow, QuietIsNow, Idle
<1> QED
  BY <1>1, <1>2 DEF SettledIsNow

LEMMA CallerStepNow ==
    ASSUME Structure, SettledIsNow, NEW c \in Callers, CallerStep(c)
    PROVE  SettledIsNow'
BY StatNow, ReadBytesNow, CheapHitNow, CheapJoinNow, CheapStartNow, CheapSettleNow,
   ParseHitNow, ParseJoinNow, ParseStartNow, ParseSettleNow, FillFilterNow, MergeNow,
   ReturnNow DEF CallerStep

LEMMA WatcherStepNow ==
    ASSUME Structure, SettledIsNow, WatcherStep
    PROVE  SettledIsNow'
<1>1. ASSUME NEW f \in Files, TabWatcher(f)
      PROVE  SettledIsNow'
  BY <1>1, ForgetNow DEF TabWatcher
<1>2. ASSUME NEW f \in Files, forgetUnseenWrite(f)
      PROVE  SettledIsNow'
  BY <1>2, StillNow DEF forgetUnseenWrite
<1>3. ASSUME NEW k \in checking, forgetIfVersionUnmoved(k)
      PROVE  SettledIsNow'
  <2>1. k.file \in Files /\ UNCHANGED <<disk, tabEvents>>
    BY <1>3 DEF forgetIfVersionUnmoved, Structure, Kept
  <2>2. forgetSource(k.file) \/ UNCHANGED <<cacheVars, call>>
    BY <1>3 DEF forgetIfVersionUnmoved
  <2> QED
    BY <2>1, <2>2, ForgetNow, StillNow
<1> QED
  BY <1>1, <1>2, <1>3 DEF WatcherStep

LEMMA NextNow == Structure /\ SettledIsNow /\ [Next]_vars => SettledIsNow'
<1> SUFFICES ASSUME Structure, SettledIsNow, [Next]_vars PROVE SettledIsNow'
  OBVIOUS
<1>1. CASE \E c \in Callers, ask \in Asks, f \in Files : Ask(c, ask, f)
  BY <1>1, AskNow
<1>2. CASE \E c \in Callers : CallerStep(c)
  BY <1>2, CallerStepNow
<1>3. CASE \E f \in Files, v \in Versions : Write(f, v)
  BY <1>3, WriteNow
<1>4. CASE WatcherStep
  BY <1>4, WatcherStepNow
<1>5. CASE clearSourceCache
  BY <1>5, ClearNow
<1>6. CASE UNCHANGED vars
  BY <1>6, StillNow DEF vars, watchVars
<1> QED
  BY <1>1, <1>2, <1>3, <1>4, <1>5, <1>6 DEF Next

\* Of a watched file with no event pending, nothing held, trusted or answered to
\* an undisturbed ask is older than what is on disk.
THEOREM SettledInvariant == Spec => [](Structure /\ SettledIsNow)
BY InitStructure, NextStructure, InitNow, NextNow, PTL DEF Spec

\* What is settled is current.
LEMMA SettledTiersCurrent == Structure /\ SettledIsNow => WatchedTiersCurrent
<1> SUFFICES ASSUME Structure, SettledIsNow, NEW f \in TabFiles, ~Unreported(f)
             PROVE  TiersCurrentFor(f)
  BY DEF WatchedTiersCurrent
<1>1. f \in Settled /\ f \in Files
  BY ConstantsAssumption DEF Unreported, Settled
<1>2. ASSUME NEW t \in Tier, Now(f, t[f].content)
      PROVE  EntryCurrent(t, f)
  <2>1. CASE t[f] = Absent
    <3>1. disk[f].version \in Versions /\ NoVersion \notin Versions
      BY <1>1, ConstantsAssumption DEF Structure, Kept, Versions, NoVersion
    <3> QED
      BY <2>1, <3>1 DEF EntryCurrent, Absent
  <2>2. CASE t[f] \in Entry
    BY <1>2, <2>2, ConstantsAssumption DEF EntryCurrent, Entry, Now, Content, Nothing
  <2> QED
    BY <1>1, <2>1, <2>2 DEF Tier
<1> QED
  BY <1>1, <1>2, HeldIsNow DEF TiersCurrentFor, Structure, Kept

\* No tier of a watched file holds older content under the current version once
\* its watcher has acted, for any number of files and callers and any budget.
THEOREM WatchedTiersStayCurrent == Spec => []WatchedTiersCurrent
BY SettledTiersCurrent, SettledInvariant, PTL

\* An ask of a watched file that no write of it overlaps is answered with what is
\* on disk, whichever way it is answered.
THEOREM QuietAnswersAreCurrent == Spec => []QuietAnswersCurrent
<1>1. SettledIsNow => QuietAnswersCurrent
  BY DEF SettledIsNow, QuietIsNow, QuietAnswersCurrent, AnswerCurrent, Now
<1> QED
  BY <1>1, SettledInvariant, PTL

-----------------------------------------------------------------------------
(***************************************************************************)
(* Sizes add up.  TotalSize is a fold, a function defined by recursion over *)
(* the subsets of its argument; what is shown of it for every finite set is *)
(* shown of a smallest set it would fail for.                              *)
(***************************************************************************)

\* A family of subsets of a finite set has a member no other is part of.
LEMMA SmallestSubset ==
    ASSUME NEW S, IsFiniteSet(S), NEW T, T \subseteq SUBSET S, T # {}
    PROVE  \E x \in T : \A y \in T : y \subseteq x => y = x
<1>1. IsWellFoundedOn(StrictSubsetOrdering(S), FiniteSubsetsOf(S))
  BY FS_StrictSubsetOrderingWellFounded
<1>2. T \subseteq FiniteSubsetsOf(S)
  BY FS_Subset DEF FiniteSubsetsOf
<1>3. PICK x \in T : \A y \in T : <<y, x>> \notin StrictSubsetOrdering(S)
  BY <1>1, <1>2, WFMin
<1>4. \A y \in T : y \subseteq x => y = x
  BY <1>3 DEF StrictSubsetOrdering
<1> QED
  BY <1>4

\* The fold's own choice of a member, and what makes a function its iteration.
Chosen(s) == CHOOSE x \in s : TRUE

Sums(g, S) == g = [s \in SUBSET S |->
                     IF s = {} THEN 0 ELSE Size[Chosen(s)] + g[s \ {Chosen(s)}]]

Iteration(S) == CHOOSE g : Sums(g, S)

LEMMA TotalIsIterated == ASSUME NEW S PROVE TotalSize(S) = Iteration(S)[S]
BY DEF TotalSize, MapThenSumSet, MapThenFoldSet, Iteration, Sums, Chosen

LEMMA ChosenIn == ASSUME NEW s, s # {} PROVE Chosen(s) \in s
BY DEF Chosen

\* Two iterations agree wherever both are defined.
LEMMA SumsAgree ==
    ASSUME NEW U, IsFiniteSet(U), NEW S, NEW T, U \subseteq S, U \subseteq T,
           NEW g, NEW h, Sums(g, S), Sums(h, T)
    PROVE  g[U] = h[U]
<1> DEFINE B == {u \in SUBSET U : g[u] # h[u]}
<1>1. SUFFICES ASSUME B # {} PROVE FALSE
  BY <1>1
<1>2. PICK u \in B : \A v \in B : v \subseteq u => v = u
  <2>1. B \subseteq SUBSET U
    OBVIOUS
  <2> HIDE DEF B
  <2> QED
    BY <1>1, <2>1, SmallestSubset
<1>3. u \in SUBSET S /\ u \in SUBSET T
  OBVIOUS
<1>4. /\ g[u] = IF u = {} THEN 0 ELSE Size[Chosen(u)] + g[u \ {Chosen(u)}]
      /\ h[u] = IF u = {} THEN 0 ELSE Size[Chosen(u)] + h[u \ {Chosen(u)}]
  BY <1>3 DEF Sums
<1>5. u # {}
  BY <1>4
<1>6. u \ {Chosen(u)} \notin B
  BY <1>2, <1>5, ChosenIn
<1>7. g[u \ {Chosen(u)}] = h[u \ {Chosen(u)}]
  BY <1>6
<1> QED
  BY <1>4, <1>5, <1>7

\* Over a finite set there is one, and it is the one the fold takes.
LEMMA IterationSums ==
    ASSUME NEW S, IsFiniteSet(S)
    PROVE  Sums(Iteration(S), S)
<1> DEFINE B == {u \in SUBSET S : ~ Sums(Iteration(u), u)}
<1>1. SUFFICES ASSUME B # {} PROVE FALSE
  BY <1>1
<1>2. PICK u \in B : \A v \in B : v \subseteq u => v = u
  <2>1. B \subseteq SUBSET S
    OBVIOUS
  <2> HIDE DEF B
  <2> QED
    BY <1>1, <2>1, SmallestSubset
<1> DEFINE Below(s) == s \ {Chosen(s)}
           g == [s \in SUBSET u |-> IF s = {} THEN 0
                                    ELSE Size[Chosen(s)] + Iteration(Below(s))[Below(s)]]
<1>3. ASSUME NEW s \in SUBSET u, s # {}
      PROVE  Iteration(Below(s))[Below(s)] = g[Below(s)]
  <2> DEFINE v == Below(s)
  <2>1. v \in SUBSET u /\ v # u /\ IsFiniteSet(v)
    BY <1>3, ChosenIn, FS_Subset
  <2>2. Sums(Iteration(v), v)
    BY <1>2, <2>1
  <2>3. Iteration(v)[v] = IF v = {} THEN 0
                          ELSE Size[Chosen(v)] + Iteration(v)[Below(v)]
    BY <2>2 DEF Sums
  <2>4. CASE v = {}
    BY <2>1, <2>3, <2>4
  <2>5. CASE v # {}
    <3>1. Below(v) \in SUBSET u /\ Below(v) # u /\ Below(v) \subseteq v /\ IsFiniteSet(Below(v))
      BY <2>1, FS_Subset
    <3>2. Sums(Iteration(Below(v)), Below(v))
      BY <1>2, <2>1, <3>1
    <3>3. Iteration(v)[Below(v)] = Iteration(Below(v))[Below(v)]
      BY <2>2, <3>1, <3>2, SumsAgree
    <3> QED
      BY <2>1, <2>3, <2>5, <3>3
  <2> QED
    BY <2>4, <2>5
<1>4. Sums(g, u)
  BY <1>3 DEF Sums
<1>5. Sums(Iteration(u), u)
  BY <1>4 DEF Iteration
<1> QED
  BY <1>2, <1>5

\* One member at a time.
LEMMA TotalStep ==
    ASSUME NEW S, IsFiniteSet(S)
    PROVE  /\ S = {} => TotalSize(S) = 0
           /\ S # {} => TotalSize(S) = Size[Chosen(S)] + TotalSize(S \ {Chosen(S)})
<1> DEFINE T == S \ {Chosen(S)}
<1>1. IsFiniteSet(T) /\ T \subseteq S
  BY FS_Subset
<1>2. Sums(Iteration(S), S) /\ Sums(Iteration(T), T)
  BY <1>1, IterationSums
<1>3. Iteration(S)[T] = Iteration(T)[T]
  BY <1>1, <1>2, SumsAgree
<1>4. Iteration(S)[S] = IF S = {} THEN 0 ELSE Size[Chosen(S)] + Iteration(S)[T]
  BY <1>2 DEF Sums
<1> QED
  BY <1>3, <1>4, TotalIsIterated

\* Any set of models is finite, and its size is a number.
LEMMA TotalType ==
    ASSUME NEW S \in SUBSET Models
    PROVE  IsFiniteSet(S) /\ TotalSize(S) \in Nat
<1>1. \A s \in SUBSET Models : IsFiniteSet(s)
  BY ConstantsAssumption, FS_Subset
<1> DEFINE B == {s \in SUBSET Models : TotalSize(s) \notin Nat}
<1>2. SUFFICES ASSUME B # {} PROVE FALSE
  BY <1>1, <1>2
<1>3. PICK u \in B : \A v \in B : v \subseteq u => v = u
  <2>1. B \subseteq SUBSET Models
    OBVIOUS
  <2> HIDE DEF B
  <2> QED
    BY <1>2, <2>1, SmallestSubset, ConstantsAssumption
<1>4. u # {}
  <2>1. TotalSize({}) = 0
    BY TotalStep, FS_EmptySet
  <2> QED
    BY <2>1
<1>5. u \ {Chosen(u)} \notin B /\ Chosen(u) \in u
  BY <1>3, <1>4, ChosenIn
<1>6. TotalSize(u) = Size[Chosen(u)] + TotalSize(u \ {Chosen(u)})
  BY <1>1, <1>4, TotalStep
<1>7. Size[Chosen(u)] \in Nat /\ TotalSize(u \ {Chosen(u)}) \in Nat
  BY <1>5, ConstantsAssumption
<1> QED
  BY <1>6, <1>7

\* Adding a model adds its size.
LEMMA TotalAdds ==
    ASSUME NEW S \in SUBSET Models, NEW m \in Models \ S
    PROVE  TotalSize(S \union {m}) = TotalSize(S) + Size[m]
<1>1. \A s \in SUBSET Models : IsFiniteSet(s) /\ TotalSize(s) \in Nat
  BY TotalType
<1>2. \A x \in Models : Size[x] \in Nat
  BY ConstantsAssumption
<1> DEFINE Fails(s, x) == x \notin s /\ TotalSize(s \union {x}) # TotalSize(s) + Size[x]
           B == {s \in SUBSET Models : \E x \in Models : Fails(s, x)}
<1>3. SUFFICES ASSUME B # {} PROVE FALSE
  BY <1>3
<1>4. PICK u \in B : \A v \in B : v \subseteq u => v = u
  <2>1. B \subseteq SUBSET Models
    OBVIOUS
  <2> HIDE DEF B
  <2> QED
    BY <1>3, <2>1, SmallestSubset, ConstantsAssumption
<1>5. PICK x \in Models : Fails(u, x)
  OBVIOUS
<1> DEFINE w == u \union {x}
           y == Chosen(w)
<1>6. u \in SUBSET Models /\ w \in SUBSET Models /\ y \in w
  BY ChosenIn
<1>7. TotalSize(w) = Size[y] + TotalSize(w \ {y})
  BY <1>1, <1>6, TotalStep
<1>8. CASE y = x
  <2>1. w \ {y} = u
    BY <1>5, <1>8
  <2>2. TotalSize(w) = Size[x] + TotalSize(u)
    BY <1>7, <1>8, <2>1
  <2>3. Size[x] \in Nat /\ TotalSize(u) \in Nat
    BY <1>1, <1>2, <1>6
  <2>4. TotalSize(w) # TotalSize(u) + Size[x]
    BY <1>5
  <2> HIDE DEF w
  <2> QED
    BY <2>2, <2>3, <2>4
<1>9. CASE y # x
  <2> DEFINE v == u \ {y}
  <2>1. /\ y \in u /\ y \notin v /\ x \notin v
        /\ w \ {y} = v \union {x} /\ v \union {y} = u /\ v \in SUBSET Models
    BY <1>5, <1>6, <1>9
  <2>2. v \notin B
    BY <1>4, <2>1
  <2>3. TotalSize(v \union {x}) = TotalSize(v) + Size[x]
    BY <2>1, <2>2
  <2>4. TotalSize(v \union {y}) = TotalSize(v) + Size[y]
    BY <1>6, <2>1, <2>2
  <2>5. TotalSize(w) = Size[y] + (TotalSize(v) + Size[x])
    BY <1>7, <2>1, <2>3
  <2>6. TotalSize(u) = TotalSize(v) + Size[y]
    BY <2>1, <2>4
  <2>7. Size[x] \in Nat /\ Size[y] \in Nat /\ TotalSize(v) \in Nat
    BY <1>1, <1>2, <1>6, <2>1
  <2>8. TotalSize(w) # TotalSize(u) + Size[x]
    BY <1>5
  <2> HIDE DEF w, v, y
  <2> QED
    BY <2>5, <2>6, <2>7, <2>8
<1> QED
  BY <1>8, <1>9

\* The size of a set is the sizes of a part and of the rest.
LEMMA TotalParts ==
    ASSUME NEW S \in SUBSET Models, NEW U \in SUBSET S
    PROVE  TotalSize(S) = TotalSize(S \ U) + TotalSize(U)
<1>1. \A s \in SUBSET Models : TotalSize(s) \in Nat
  BY TotalType
<1>2. \A x \in Models : Size[x] \in Nat
  BY ConstantsAssumption
<1> DEFINE B == {s \in SUBSET S : TotalSize(S) # TotalSize(S \ s) + TotalSize(s)}
<1>3. SUFFICES ASSUME B # {} PROVE FALSE
  BY <1>3
<1>4. PICK u \in B : \A v \in B : v \subseteq u => v = u
  <2>1. B \subseteq SUBSET S /\ IsFiniteSet(S)
    BY TotalType
  <2> HIDE DEF B
  <2> QED
    BY <1>3, <2>1, SmallestSubset
<1>5. u # {}
  <2>1. TotalSize({}) = 0 /\ S \ {} = S
    BY TotalStep, FS_EmptySet
  <2> QED
    BY <1>1, <2>1
<1>6. PICK x : x \in u
  BY <1>5
<1> DEFINE v == u \ {x}
<1>7. /\ v \in SUBSET S /\ v \notin B /\ x \in Models /\ x \notin v /\ v \union {x} = u
      /\ S \ v = (S \ u) \union {x} /\ x \notin S \ u
  BY <1>4, <1>6
<1>8. TotalSize(S) = TotalSize(S \ v) + TotalSize(v)
  BY <1>7
<1>9. TotalSize(u) = TotalSize(v) + Size[x]
  BY <1>7, TotalAdds
<1>10. TotalSize(S \ v) = TotalSize(S \ u) + Size[x]
  BY <1>7, TotalAdds
<1>11. TotalSize(v) \in Nat /\ TotalSize(S \ u) \in Nat /\ Size[x] \in Nat
  BY <1>1, <1>2, <1>7
<1>12. TotalSize(S) # TotalSize(S \ u) + TotalSize(u)
  OBVIOUS
<1> HIDE DEF v
<1> QED
  BY <1>8, <1>9, <1>10, <1>11, <1>12

\* So a part is no larger than the whole.
LEMMA TotalOfPart ==
    ASSUME NEW S \in SUBSET Models, NEW U \in SUBSET S
    PROVE  TotalSize(U) <= TotalSize(S)
<1>1. TotalSize(S) \in Nat /\ TotalSize(U) \in Nat /\ TotalSize(S \ U) \in Nat
  BY TotalType
<1> QED
  BY <1>1, TotalParts

-----------------------------------------------------------------------------
(***************************************************************************)
(* The map's order.                                                        *)
(***************************************************************************)

\* Deleting leaves the order of the rest.
LEMMA OrderedWithout ==
    ASSUME NEW o, NEW H, NEW G, Ordered(o, H)
    PROVE  Ordered(OrderWithout(o, G), H \ G)
BY DEF Ordered, OrderWithout

\* A key that is set again comes last.
LEMMA OrderedTouched ==
    ASSUME NEW o, NEW H, NEW f, Ordered(o, H)
    PROVE  Ordered(OrderTouched(o, H \union {f}, f), H \union {f})
BY DEF Ordered, OrderTouched, OrderWithout

\* Some member of a set of keys has none of them before it.
LEMMA OldestOf ==
    ASSUME NEW o, NEW H, Ordered(o, H), IsFiniteSet(H), NEW R \in SUBSET H, R # {}
    PROVE  \E f \in R : \A g \in R : <<g, f>> \notin o
<1> DEFINE Before(f) == {g \in R : <<g, f>> \in o}
           T == {Before(f) : f \in R}
<1>1. PICK x \in T : \A y \in T : y \subseteq x => y = x
  <2>1. T \subseteq SUBSET R /\ T # {}
    OBVIOUS
  <2>2. IsFiniteSet(R)
    BY FS_Subset
  <2> HIDE DEF T
  <2> QED
    BY <2>1, <2>2, SmallestSubset
<1>2. PICK f \in R : x = Before(f)
  OBVIOUS
<1>3. ASSUME NEW g \in R, <<g, f>> \in o
      PROVE  FALSE
  <2>1. Before(g) \subseteq Before(f)
    BY <1>3 DEF Ordered
  <2>2. g \in Before(f) /\ g \notin Before(g)
    BY <1>3 DEF Ordered
  <2>3. Before(g) \in T
    OBVIOUS
  <2> QED
    BY <1>1, <1>2, <2>1, <2>2, <2>3
<1> QED
  BY <1>3

-----------------------------------------------------------------------------
(***************************************************************************)
(* What evictParsed lets go of a map H in the order o.                     *)
(***************************************************************************)

\* Neither a pinned parse nor what has just been stored; whatever is before one that goes
\* goes too; and only while the rest is over the budget.
LEMMA Evicted ==
    ASSUME NEW H \in SUBSET Models, NEW o, Ordered(o, H), NEW keep \in H
    PROVE  LET gone  == evictParsed(H, o, keep)
               stays == (H \ gone) \ (Pinned \union {keep})
           IN  /\ gone \subseteq (H \ Pinned) \ {keep}
               /\ gone \X stays \subseteq o
               /\ TotalSize(stays) <= parsedBudget
               /\ \A f \in gone : (\A g \in gone \ {f} : <<g, f>> \in o) =>
                      TotalSize((H \ gone) \ Pinned) + Size[f] > parsedBudget
<1> DEFINE evictable == (H \ Pinned) \ {keep}
           whole     == H \ Pinned
           before(f) == {g \in evictable : <<g, f>> \in o}
           gone      == evictParsed(H, o, keep)
           stays     == (H \ gone) \ (Pinned \union {keep})
<1>1. gone = {f \in evictable : TotalSize(whole) - TotalSize(before(f)) > parsedBudget}
  BY DEF evictParsed
<1>2. whole \in SUBSET Models /\ evictable \in SUBSET whole /\ stays = evictable \ gone
  BY <1>1
<1>3. \A s \in SUBSET Models : TotalSize(s) \in Nat
  BY TotalType
<1>4. parsedBudget \in Nat /\ \A m \in Models : Size[m] \in Nat
  BY ConstantsAssumption
<1>5. \A f \in evictable : before(f) \in SUBSET whole /\ before(f) \in SUBSET Models
  BY <1>2
<1>6. ASSUME NEW f \in evictable, NEW g \in evictable, <<g, f>> \in o, f \in gone
      PROVE  g \in gone
  <2>1. before(g) \in SUBSET before(f)
    BY <1>6 DEF Ordered
  <2>2. TotalSize(before(g)) <= TotalSize(before(f))
    BY <1>5, <2>1, TotalOfPart
  <2>3. /\ TotalSize(whole) \in Nat /\ TotalSize(before(g)) \in Nat
        /\ TotalSize(before(f)) \in Nat
    BY <1>2, <1>3, <1>5
  <2>4. TotalSize(whole) - TotalSize(before(f)) > parsedBudget
    BY <1>1, <1>6
  <2>5. TotalSize(whole) - TotalSize(before(g)) > parsedBudget
    <3> HIDE DEF whole, before
    <3> QED
      BY <1>4, <2>2, <2>3, <2>4
  <2> QED
    BY <1>1, <2>5
<1>7. gone \X stays \subseteq o
  <2> SUFFICES ASSUME NEW f \in gone, NEW g \in stays
               PROVE  <<f, g>> \in o
    OBVIOUS
  <2>1. f \in evictable /\ g \in evictable /\ g \notin gone
    BY <1>1, <1>2
  <2>2. <<g, f>> \notin o
    BY <1>6, <2>1
  <2> QED
    BY <2>1, <2>2 DEF Ordered
<1>8. TotalSize(stays) <= parsedBudget
  <2>1. CASE stays = {}
    <3>1. TotalSize({}) = 0
      BY TotalStep, FS_EmptySet
    <3> QED
      BY <1>4, <2>1, <3>1
  <2>2. CASE stays # {}
    <3>1. PICK f \in stays : \A g \in stays : <<g, f>> \notin o
      <4>1. IsFiniteSet(H) /\ stays \in SUBSET H
        BY TotalType
      <4> HIDE DEF stays
      <4> QED
        BY <2>2, <4>1, OldestOf
    <3>2. f \in evictable /\ f \notin gone
      BY <1>2
    <3>3. before(f) \in SUBSET whole /\ stays \in SUBSET (whole \ before(f))
      BY <1>2, <3>1, <3>2
    <3>4. TotalSize(whole) = TotalSize(whole \ before(f)) + TotalSize(before(f))
      BY <1>2, <3>3, TotalParts
    <3>5. TotalSize(stays) <= TotalSize(whole \ before(f))
      BY <1>2, <3>3, TotalOfPart
    <3>6. ~ (TotalSize(whole) - TotalSize(before(f)) > parsedBudget)
      BY <1>1, <3>2
    <3>7. /\ TotalSize(whole) \in Nat /\ TotalSize(before(f)) \in Nat
          /\ TotalSize(whole \ before(f)) \in Nat /\ TotalSize(stays) \in Nat
      BY <1>2, <1>3, <3>3
    <3> HIDE DEF whole, before, stays
    <3> QED
      BY <1>4, <3>4, <3>5, <3>6, <3>7
  <2> QED
    BY <2>1, <2>2
<1>9. ASSUME NEW f \in gone, \A g \in gone \ {f} : <<g, f>> \in o
      PROVE  TotalSize((H \ gone) \ Pinned) + Size[f] > parsedBudget
  <2> DEFINE rest == (H \ gone) \ Pinned
  <2>1. f \in evictable /\ f \in Models /\ f \notin before(f)
    BY <1>1 DEF Ordered
  <2>2. before(f) = gone \ {f}
    BY <1>1, <1>6, <1>9, <2>1 DEF Ordered
  <2>3. whole \ before(f) = rest \union {f} /\ f \notin rest /\ rest \in SUBSET Models
    BY <1>1, <1>2, <2>1, <2>2
  <2>4. TotalSize(whole) = TotalSize(whole \ before(f)) + TotalSize(before(f))
    BY <1>2, <1>5, <2>1, TotalParts
  <2>5. TotalSize(rest \union {f}) = TotalSize(rest) + Size[f]
    BY <2>1, <2>3, TotalAdds
  <2>6. TotalSize(whole) - TotalSize(before(f)) > parsedBudget
    BY <1>1
  <2>7. /\ TotalSize(whole) \in Nat /\ TotalSize(before(f)) \in Nat
        /\ TotalSize(rest) \in Nat /\ Size[f] \in Nat
    BY <1>2, <1>3, <1>4, <1>5, <2>1, <2>3
  <2>8. TotalSize(whole) = (TotalSize(rest) + Size[f]) + TotalSize(before(f))
    BY <2>3, <2>4, <2>5
  <2>9. TotalSize(rest) + Size[f] > parsedBudget
    <3> HIDE DEF whole, before, rest
    <3> QED
      BY <1>4, <2>6, <2>7, <2>8
  <2> QED
    BY <2>9
<1>10. gone \subseteq evictable
  BY <1>1
<1> HIDE DEF evictable, gone, stays
<1> QED
  BY <1>7, <1>8, <1>9, <1>10 DEF evictable, gone, stays

-----------------------------------------------------------------------------
(***************************************************************************)
(* Only models are parsed.                                                 *)
(***************************************************************************)
LEMMA AtParsesModel ==
    ASSUME NEW r \in Call, ParsesModel(r), NEW pc \in Phases \ {"filter", "fill"}
    PROVE  ParsesModel(At(r, pc))
<1>1. At(r, pc).tier = "none"
  BY DEF At, Idle, Call
<1> QED
  BY <1>1, AtFields DEF ParsesModel

LEMMA AnsweredParsesModel ==
    ASSUME NEW r \in Call, ParsesModel(r), NEW b \in Content \union {Nothing}
    PROVE  ParsesModel(Answered(r, b))
<1>1. At(r, "answered") \in Call /\ At(r, "answered").pc = "answered"
  BY AtFields DEF Phases
<1>2. ParsesModel(At(r, "answered"))
  BY AtParsesModel DEF Phases
<1>3. LET s == [At(r, "answered") EXCEPT !.bytes = b]
          q == At(r, "answered")
      IN  s.tier = q.tier /\ s.ask = q.ask /\ s.pc = q.pc /\ s.file = q.file
  BY <1>1 DEF Call
<1> QED
  BY <1>2, <1>3 DEF Answered, ParsesModel

LEMMA CheapAnsweredParsesModel ==
    ASSUME NEW r \in Call, ParsesModel(r), NEW b \in Content \union {Nothing}
    PROVE  ParsesModel(CheapAnswered(r, b))
<1>1. CASE r.ask = "usage" /\ b # Nothing /\ r.file \in Models
  <2>1. CheapAnswered(r, b).file = r.file
    BY CheapAnsweredFields
  <2> QED
    BY <1>1, <2>1 DEF ParsesModel
<1>2. CASE ~ (r.ask = "usage" /\ b # Nothing /\ r.file \in Models)
  BY <1>2, AnsweredParsesModel DEF CheapAnswered
<1> QED
  BY <1>1, <1>2

LEMMA ParseAnsweredParsesModel ==
    ASSUME NEW r \in Call, ParsesModel(r), NEW b \in Content \union {Nothing}
    PROVE  ParsesModel(ParseAnswered(r, b))
BY AnsweredParsesModel, AtParsesModel DEF ParseAnswered, Phases

\* A caller's step, its own record and those of the callers it answers.
LEMMA CallerParsesModels ==
    ASSUME Structure, \A d \in Callers : ParsesModel(call[d]), NEW c \in Callers, CallerStep(c)
    PROVE  \A d \in Callers : ParsesModel(call'[d])
<1>1. call \in [Callers -> Call] /\ call[c] \in Call /\ ParsesModel(call[c])
  BY DEF Structure, Flights
<1> DEFINE r == call[c]
           Only(x) == call' = [call EXCEPT ![c] = x]
<1>2. ASSUME NEW x, Only(x), ParsesModel(x)
      PROVE  \A d \in Callers : ParsesModel(call'[d])
  BY <1>1, <1>2
<1>3. \A f \in Files : /\ cheap[f].content \in Content \union {Nothing}
                        /\ parsed[f].content \in Content \union {Nothing}
                        /\ models[f].content \in Content \union {Nothing}
  BY DEF Structure, Kept, Tier, Entry, Absent
<1>4. \A d \in Callers : call[d].pc # "idle" => call[d].file \in Files
  BY DEF Structure, Flights, CallsOK, CallOK
<1>5. CASE Stat(c)
  <2>1. PICK v : Only([call[c] EXCEPT !.pc = "statted", !.ver = v])
    BY <1>5 DEF Stat
  <2>2. LET s == [r EXCEPT !.pc = "statted", !.ver = v]
        IN  s.tier = r.tier /\ s.ask = r.ask /\ s.pc = "statted" /\ s.file = r.file
    BY <1>1 DEF Call
  <2>3. ParsesModel([r EXCEPT !.pc = "statted", !.ver = v])
    BY <1>1, <2>2 DEF ParsesModel
  <2> QED
    BY <1>2, <2>1, <2>3
<1>6. CASE ReadBytes(c)
  <2>1. PICK b : Only([call[c] EXCEPT !.pc = "derive", !.bytes = b])
    BY <1>6, ReadBytesFields
  <2>2. LET s == [r EXCEPT !.pc = "derive", !.bytes = b]
        IN  s.tier = r.tier /\ s.ask = r.ask /\ s.pc = "derive" /\ s.file = r.file
    BY <1>1 DEF Call
  <2>3. ParsesModel([r EXCEPT !.pc = "derive", !.bytes = b])
    BY <1>1, <2>2 DEF ParsesModel
  <2> QED
    BY <1>2, <2>1, <2>3
<1>7. CASE CheapHit(c)
  <2>1. PICK b \in Content \union {Nothing} : Only(CheapAnswered(call[c], b))
    BY <1>3, <1>4, <1>7 DEF CheapHit, AsksCheap
  <2> QED
    BY <1>1, <1>2, <2>1, CheapAnsweredParsesModel
<1>8. CASE CheapJoin(c)
  <2>1. PICK e : Only([call[c] EXCEPT !.pc = "joined", !.tier = "cheap", !.on = e])
    BY <1>8 DEF CheapJoin
  <2>2. LET s == [r EXCEPT !.pc = "joined", !.tier = "cheap", !.on = e]
        IN  s.tier = "cheap" /\ s.ask = r.ask /\ s.pc = "joined" /\ s.file = r.file
    BY <1>1 DEF Call
  <2>3. ParsesModel([r EXCEPT !.pc = "joined", !.tier = "cheap", !.on = e])
    BY <1>1, <2>2 DEF ParsesModel
  <2> QED
    BY <1>2, <2>1, <2>3
<1>9. CASE CheapStart(c)
  <2> DEFINE s == [r EXCEPT !.tier = "cheap", !.fresh = TRUE]
  <2>1. s.tier = "cheap" /\ s.ask = r.ask /\ s.pc = r.pc /\ s.file = r.file /\ s \in Call
    BY <1>1 DEF Call
  <2> HIDE DEF s
  <2>2. LET q == cheapOf(s)
        IN  q.tier = "cheap" /\ q.ask = s.ask /\ q.pc \in {"derive", "read"} /\ q.file = s.file
    BY <2>1 DEF cheapOf, Call
  <2>3. ParsesModel(cheapOf(s))
    BY <1>1, <2>1, <2>2 DEF ParsesModel
  <2>4. Only(cheapOf(s))
    BY <1>9 DEF CheapStart, s
  <2> QED
    BY <1>2, <2>3, <2>4
<1>10. CASE CheapSettle(c)
  <2>1. \A d \in Callers : call'[d] \in {call[d], CheapAnswered(call[d], call[c].bytes)}
    BY <1>10 DEF CheapSettle
  <2>2. call[c].bytes \in Content \union {Nothing}
    BY <1>1 DEF Call
  <2> QED
    BY <1>1, <2>1, <2>2, CheapAnsweredParsesModel
<1>11. CASE ParseHit(c)
  <2>1. PICK b \in Content \union {Nothing} : Only(ParseAnswered(call[c], b))
    BY <1>3, <1>4, <1>11 DEF ParseHit, AsksParse
  <2> QED
    BY <1>1, <1>2, <2>1, ParseAnsweredParsesModel
<1>12. CASE ParseJoin(c)
  <2>1. PICK e : Only([call[c] EXCEPT !.pc = "joined", !.tier = "parse", !.on = e, !.fresh = TRUE])
    BY <1>12 DEF ParseJoin
  <2>2. [r EXCEPT !.pc = "joined", !.tier = "parse", !.on = e, !.fresh = TRUE].file = r.file
    BY <1>1 DEF Call
  <2>3. r.file \in Models
    BY <1>1, <1>12 DEF ParseJoin, AsksParse, ParsesModel
  <2>4. ParsesModel([r EXCEPT !.pc = "joined", !.tier = "parse", !.on = e, !.fresh = TRUE])
    BY <2>2, <2>3 DEF ParsesModel
  <2> QED
    BY <1>2, <2>1, <2>4
<1>13. CASE ParseStart(c)
  <2> DEFINE s == [r EXCEPT !.pc = "read", !.tier = "parse", !.fresh = TRUE]
  <2>1. Only(s)
    BY <1>13 DEF ParseStart
  <2>2. s.file = r.file
    BY <1>1 DEF Call
  <2>3. r.file \in Models
    BY <1>1, <1>13 DEF ParseStart, AsksParse, ParsesModel
  <2>4. ParsesModel(s)
    BY <2>2, <2>3 DEF ParsesModel
  <2> QED
    BY <1>2, <2>1, <2>4
<1>14. CASE ParseSettle(c)
  <2>1. \A d \in Callers : call'[d] \in {call[d], ParseAnswered(call[d], call[c].bytes)}
    BY <1>14 DEF ParseSettle
  <2>2. call[c].bytes \in Content \union {Nothing}
    BY <1>1 DEF Call
  <2> QED
    BY <1>1, <2>1, <2>2, ParseAnsweredParsesModel
<1>15. CASE FillFilter(c)
  <2>1. CASE Only(At(call[c], "merge"))
    BY <1>1, <1>2, <2>1, AtParsesModel DEF Phases
  <2>2. CASE Only([call[c] EXCEPT !.pc = "fill"])
    <3>1. [r EXCEPT !.pc = "fill"].file = r.file
      BY <1>1 DEF Call
    <3>2. r.file \in Models
      BY <1>1, <1>15 DEF FillFilter, ParsesModel
    <3>3. ParsesModel([r EXCEPT !.pc = "fill"])
      BY <3>1, <3>2 DEF ParsesModel
    <3> QED
      BY <1>2, <2>2, <3>3
  <2> QED
    BY <1>15, <2>1, <2>2 DEF FillFilter
<1>16. CASE Merge(c)
  <2>1. PICK b \in Content \union {Nothing} : Only(Answered(call[c], b))
    BY <1>3, <1>4, <1>16 DEF Merge
  <2> QED
    BY <1>1, <1>2, <2>1, AnsweredParsesModel
<1>17. CASE Return(c)
  <2>1. Only(Idle) /\ ParsesModel(Idle)
    BY <1>17 DEF Return, Idle, ParsesModel
  <2> QED
    BY <1>2, <2>1
<1> QED
  BY <1>5, <1>6, <1>7, <1>8, <1>9, <1>10, <1>11, <1>12, <1>13, <1>14, <1>15, <1>16, <1>17
  DEF CallerStep

-----------------------------------------------------------------------------
(***************************************************************************)
(* The pin ring.                                                           *)
(***************************************************************************)
LEMMA PinnedCount ==
    ASSUME pinnedParses \in Seq(Files)
    PROVE  IsFiniteSet(Pinned) /\ Cardinality(Pinned) <= Len(pinnedParses)
<1> DEFINE n == Len(pinnedParses)
<1>1. n \in Nat /\ DOMAIN pinnedParses = 1 .. n /\ pinnedParses \in [1 .. n -> Files]
  OBVIOUS
<1>2. pinnedParses \in Surjection(1 .. n, Pinned)
  BY <1>1 DEF Surjection, Pinned
<1>3. IsFiniteSet(1 .. n) /\ Cardinality(1 .. n) = n
  BY <1>1, FS_Interval
<1> QED
  BY <1>2, <1>3, FS_Surjection

LEMMA UnpinnedLength ==
    ASSUME NEW f, pinnedParses \in Seq(Files)
    PROVE  /\ Len(Unpinned(f)) <= Len(pinnedParses)
           /\ f \in Pinned => Len(Unpinned(f)) = Len(pinnedParses) - 1
<1> DEFINE n == Len(pinnedParses)
<1>1. n \in Nat /\ DOMAIN pinnedParses = 1 .. n
  OBVIOUS
<1>2. ASSUME NEW i \in DOMAIN pinnedParses
      PROVE  Len(RemoveAt(pinnedParses, i)) = n - 1
  <2>1. /\ SubSeq(pinnedParses, 1, i - 1) \in Seq(Files)
        /\ Len(SubSeq(pinnedParses, 1, i - 1)) = i - 1
    <3>1. 1 \in Int /\ i - 1 \in Int /\ \A j \in 1 .. i - 1 : pinnedParses[j] \in Files
      BY <1>1, <1>2
    <3> QED
      BY <1>1, <3>1, SubSeqProperties
  <2>2. /\ SubSeq(pinnedParses, i + 1, n) \in Seq(Files)
        /\ Len(SubSeq(pinnedParses, i + 1, n)) = n - i
    <3>1. i + 1 \in Int /\ n \in Int /\ \A j \in i + 1 .. n : pinnedParses[j] \in Files
      BY <1>1, <1>2
    <3> QED
      BY <1>1, <3>1, SubSeqProperties
  <2> QED
    BY <1>1, <2>1, <2>2, ConcatProperties DEF RemoveAt
<1>3. f \in Pinned =>
          (CHOOSE i \in DOMAIN pinnedParses : pinnedParses[i] = f) \in DOMAIN pinnedParses
  BY DEF Pinned
<1>4. CASE f \in Pinned
  <2>1. Len(Unpinned(f)) = n - 1
    BY <1>2, <1>3, <1>4 DEF Unpinned
  <2> QED
    BY <1>1, <2>1
<1>5. CASE f \notin Pinned
  <2>1. Len(Unpinned(f)) = n
    BY <1>5 DEF Unpinned
  <2>2. n <= n
    BY <1>1
  <2> QED
    BY <1>5, <2>1, <2>2
<1> QED
  BY <1>4, <1>5

LEMMA PinLength ==
    ASSUME Structure, NEW c \in Callers, call[c].file \in Files, Pin(c),
           Len(pinnedParses) <= PINNED_PARSES
    PROVE  Len(pinnedParses') <= PINNED_PARSES
<1> DEFINE f == call[c].file
           ring == Append(Unpinned(f), f)
<1>1. pinnedParses \in Seq(Files) /\ PINNED_PARSES \in Nat
  BY ConstantsAssumption DEF Structure, Kept
<1>2. Unpinned(f) \in Seq(Files) /\ Len(Unpinned(f)) <= Len(pinnedParses)
  BY <1>1, UnpinnedType, UnpinnedLength
<1>3. ring \in Seq(Files) /\ ring # <<>> /\ Len(ring) = Len(Unpinned(f)) + 1
  BY <1>2, AppendProperties
<1>4. Len(Tail(ring)) = Len(ring) - 1
  BY <1>3, HeadTailProperties
<1>5. Len(ring) \in Nat /\ Len(pinnedParses) \in Nat /\ Len(Unpinned(f)) \in Nat
  BY <1>1, <1>2, <1>3
<1>6. pinnedParses' \in {pinnedParses, ring, Tail(ring)}
      /\ (pinnedParses' = ring => Len(ring) <= PINNED_PARSES \/ ring = pinnedParses)
  <2> HIDE DEF ring
  <2> QED
    BY <1>1, <1>5 DEF Pin, pinParse, ring
<1> HIDE DEF ring
<1> QED
  BY <1>1, <1>2, <1>3, <1>4, <1>5, <1>6

-----------------------------------------------------------------------------
(***************************************************************************)
(* The map stays within its bound.                                         *)
(***************************************************************************)
Budgeted == Held \subseteq Models /\ Ordered(older, Held) /\ MapBound

\* What a smaller map spares.
LEMMA SmallerMapBound ==
    ASSUME Held \subseteq Models, MapBound, Held' \subseteq Held
    PROVE  MapBound'
<1>1. PICK spared \in SUBSET Held :
          Cardinality(spared) <= PINNED_PARSES + 1 /\ TotalSize(Held \ spared) <= parsedBudget
  BY DEF MapBound
<1> DEFINE kept == spared \intersect Held'
<1>2. IsFiniteSet(spared) /\ Cardinality(spared) \in Nat
  BY TotalType, FS_CardinalityType
<1>3. Cardinality(kept) <= Cardinality(spared) /\ Cardinality(kept) \in Nat
  BY <1>2, FS_Subset, FS_CardinalityType
<1>4. TotalSize(Held' \ kept) <= TotalSize(Held \ spared)
  BY TotalOfPart
<1>5. TotalSize(Held' \ kept) \in Nat /\ TotalSize(Held \ spared) \in Nat
  BY TotalType
<1>6. Cardinality(kept) <= PINNED_PARSES + 1
  BY <1>1, <1>2, <1>3, ConstantsAssumption
<1>7. TotalSize(Held' \ kept) <= parsedBudget
  BY <1>1, <1>4, <1>5, ConstantsAssumption
<1> QED
  BY <1>6, <1>7 DEF MapBound

\* What is held once a parse is stored.
LEMMA StoredHeld ==
    ASSUME NEW f \in Models, NEW entry \in Entry, StoreParse(f, entry),
           f \notin evictParsed(Held \union {f}, OrderTouched(older, Held \union {f}, f), f)
    PROVE  Held' = (Held \union {f})
                      \ evictParsed(Held \union {f}, OrderTouched(older, Held \union {f}, f), f)
<1> DEFINE held  == Held \union {f}
           gone  == evictParsed(held, OrderTouched(older, held, f), f)
<1>1. f \in Files /\ entry.version # NoVersion /\ Absent.version = NoVersion
  BY DEF Files, Entry, Versions, NoVersion, Absent
<1>2. parsed' = [g \in Files |-> IF g = f THEN entry
                                 ELSE IF g \in gone THEN Absent ELSE parsed[g]]
  BY DEF StoreParse
<1> HIDE DEF gone
<1>3. f \notin gone
  BY DEF gone
<1>4. \A g \in Files : parsed'[g].version # NoVersion <=> g \in held \ gone
  BY <1>1, <1>2, <1>3 DEF Held
<1> QED
  BY <1>1, <1>4 DEF Held, gone

\* Storing a parse makes room for it: what stays but for the pinned and itself is in budget.
LEMMA StoreParseBudgeted ==
    ASSUME Structure, Budgeted, Len(pinnedParses) <= PINNED_PARSES,
           NEW f \in Models, NEW entry \in Entry, StoreParse(f, entry)
    PROVE  Budgeted'
<1> DEFINE held  == Held \union {f}
           order == OrderTouched(older, held, f)
           gone  == evictParsed(held, order, f)
           stays == (held \ gone) \ (Pinned \union {f})
<1>1. held \in SUBSET Models /\ f \in held /\ Ordered(order, held)
  BY OrderedTouched DEF Budgeted
<1>2. gone \subseteq (held \ Pinned) \ {f} /\ TotalSize(stays) <= parsedBudget
  <2> HIDE DEF held, order
  <2> QED
    BY <1>1, Evicted
<1>3. Held' = held \ gone
  BY <1>2, StoredHeld
<1>4. older' = OrderWithout(order, gone)
  BY DEF StoreParse
<1>5. Ordered(older', Held')
  BY <1>1, <1>3, <1>4, OrderedWithout
<1>6. MapBound'
  <2> DEFINE spared == (Pinned \union {f}) \intersect Held'
  <2>1. IsFiniteSet(Pinned) /\ Cardinality(Pinned) <= PINNED_PARSES
    <3>1. pinnedParses \in Seq(Files) /\ Len(pinnedParses) \in Nat
      BY DEF Structure, Kept
    <3> QED
      BY <3>1, PinnedCount, FS_CardinalityType, ConstantsAssumption
  <2>2. /\ IsFiniteSet(Pinned \union {f})
        /\ Cardinality(Pinned \union {f}) <= PINNED_PARSES + 1
    <3>1. Cardinality(Pinned \union {f}) = IF f \in Pinned THEN Cardinality(Pinned)
                                             ELSE Cardinality(Pinned) + 1
      BY <2>1, FS_AddElement
    <3>2. Cardinality(Pinned) \in Nat /\ PINNED_PARSES \in Nat
      BY <2>1, FS_CardinalityType, ConstantsAssumption
    <3> QED
      BY <2>1, <3>1, <3>2, FS_AddElement
  <2>3. Cardinality(spared) <= Cardinality(Pinned \union {f})
    BY <2>2, FS_Subset
  <2>4. Cardinality(spared) <= PINNED_PARSES + 1
    <3>1. Cardinality(spared) \in Nat /\ Cardinality(Pinned \union {f}) \in Nat
      BY <2>2, FS_Subset, FS_CardinalityType
    <3> QED
      BY <2>2, <2>3, <3>1, ConstantsAssumption
  <2>5. Held' \ spared = stays
    BY <1>3
  <2> QED
    BY <1>2, <2>4, <2>5 DEF MapBound
<1> QED
  BY <1>1, <1>3, <1>5, <1>6 DEF Budgeted

\* Whatever only drops parses, or moves one to the recent end.
LEMMA DroppedBudgeted ==
    ASSUME Budgeted, NEW G, Held' = Held \ G, older' = OrderWithout(older, G)
    PROVE  Budgeted'
<1>1. Ordered(older', Held')
  BY OrderedWithout DEF Budgeted
<1>2. MapBound'
  BY SmallerMapBound DEF Budgeted
<1> QED
  BY <1>1, <1>2 DEF Budgeted

LEMMA TouchedBudgeted ==
    ASSUME Budgeted, NEW f \in Held, UNCHANGED parsed, older' = OrderTouched(older, Held, f)
    PROVE  Budgeted'
<1>1. Held' = Held /\ Held \union {f} = Held
  BY DEF Held
<1>2. Ordered(older', Held')
  BY <1>1, OrderedTouched DEF Budgeted
<1>3. MapBound'
  BY <1>1, SmallerMapBound DEF Budgeted
<1> QED
  BY <1>1, <1>2, <1>3 DEF Budgeted

LEMMA SameBudgeted ==
    ASSUME Budgeted, UNCHANGED <<parsed, older>>
    PROVE  Budgeted'
<1>1. Held' = Held
  BY DEF Held
<1> QED
  BY <1>1, SmallerMapBound DEF Budgeted

LEMMA ForgetInBudget ==
    ASSUME Structure, InBudget, NEW f \in Files, forgetSource(f)
    PROVE  InBudget'
<1>1. Held' = Held \ {f} /\ older' = OrderWithout(older, {f})
  BY DEF forgetSource, Held, Absent, Structure, Kept, Tier
<1>2. Budgeted'
  BY <1>1, DroppedBudgeted DEF InBudget, OnlyModelsParsed, Budgeted
<1>3. Len(pinnedParses') <= PINNED_PARSES
  <2>1. pinnedParses \in Seq(Files) /\ pinnedParses' = Unpinned(f)
    BY DEF Structure, Kept, forgetSource
  <2>2. Len(Unpinned(f)) <= Len(pinnedParses) /\ Unpinned(f) \in Seq(Files)
    BY <2>1, UnpinnedLength, UnpinnedType
  <2>3. Len(Unpinned(f)) \in Nat /\ Len(pinnedParses) \in Nat /\ PINNED_PARSES \in Nat
    BY <2>1, <2>2, ConstantsAssumption
  <2> QED
    BY <2>1, <2>2, <2>3 DEF InBudget
<1>4. \A d \in Callers : ParsesModel(call'[d])
  <2>1. ASSUME NEW d \in Callers
        PROVE  LET s == [call[d] EXCEPT !.fresh = FALSE]
               IN  /\ s.pc = call[d].pc /\ s.file = call[d].file
                   /\ s.ask = call[d].ask /\ s.tier = call[d].tier
    <3>1. call[d] \in Call
      BY DEF Structure, Flights
    <3> QED
      BY <3>1 DEF Call
  <2>2. \A d \in Callers : ParsesModel(call[d]) => ParsesModel([call[d] EXCEPT !.fresh = FALSE])
    BY <2>1 DEF ParsesModel
  <2> QED
    BY <2>2 DEF forgetSource, InBudget, OnlyModelsParsed
<1> QED
  BY <1>2, <1>3, <1>4 DEF InBudget, OnlyModelsParsed, Budgeted

LEMMA CallerInBudget ==
    ASSUME Structure, InBudget, NEW c \in Callers, CallerStep(c)
    PROVE  InBudget'
<1> DEFINE f == call[c].file
<1>1. \A d \in Callers : ParsesModel(call'[d])
  BY CallerParsesModels DEF InBudget, OnlyModelsParsed
<1>2. Budgeted /\ Len(pinnedParses) <= PINNED_PARSES
  BY DEF InBudget, OnlyModelsParsed, Budgeted
<1>3. call[c].pc # "idle" => f \in Files
  BY DEF Structure, Flights, CallsOK, CallOK
<1> SUFFICES Budgeted' /\ Len(pinnedParses') <= PINNED_PARSES
  BY <1>1 DEF InBudget, OnlyModelsParsed, Budgeted
<1>4. CASE UNCHANGED <<parsed, older, pinnedParses>>
  BY <1>2, <1>4, SameBudgeted
<1>5. CASE ParseHit(c)
  <2>1. f \in Held
    BY <1>3, <1>5 DEF ParseHit, AsksParse, Hit, Held
  <2>2. Budgeted'
    BY <1>2, <1>5, <2>1, TouchedBudgeted DEF ParseHit
  <2> QED
    BY <1>2, <1>3, <1>5, <2>2, PinLength DEF ParseHit, AsksParse
<1>6. CASE ParseJoin(c)
  BY <1>2, <1>3, <1>6, SameBudgeted, PinLength DEF ParseJoin, AsksParse
<1>7. CASE ParseStart(c)
  BY <1>2, <1>3, <1>7, SameBudgeted, PinLength DEF ParseStart, AsksParse
<1>8. CASE ParseSettle(c)
  <2> DEFINE entry == [version |-> call[c].ver, content |-> call[c].bytes]
  <2>1. CASE StoresParse(call[c])
    <3>1. f \in Models
      BY <1>8 DEF ParseSettle, InBudget, OnlyModelsParsed, ParsesModel
    <3>2. entry \in Entry
      BY <2>1 DEF StoresParse, Structure, Flights, Call, Entry
    <3>3. StoreParse(f, entry)
      BY <1>8, <2>1 DEF ParseSettle
    <3> HIDE DEF entry
    <3> QED
      BY <1>2, <1>8, <3>1, <3>2, <3>3, StoreParseBudgeted DEF ParseSettle
  <2>2. CASE ~StoresParse(call[c])
    BY <1>2, <1>8, <2>2, SameBudgeted DEF ParseSettle
  <2> QED
    BY <2>1, <2>2
<1> QED
  BY <1>4, <1>5, <1>6, <1>7, <1>8
  DEF CallerStep, Stat, ReadBytes, CheapHit, CheapJoin, CheapStart, CheapSettle, FillFilter,
      Merge, Return, cacheVars

LEMMA InitInBudget == Init => InBudget
<1> SUFFICES ASSUME Init PROVE InBudget
  OBVIOUS
<1>1. Held = {} /\ older = {}
  BY DEF Init, Held, Absent
<1>2. \A c \in Callers : ParsesModel(call[c])
  BY DEF Init, Idle, ParsesModel
<1>3. Ordered(older, Held)
  BY <1>1 DEF Ordered
<1>4. Len(pinnedParses) <= PINNED_PARSES
  BY ConstantsAssumption DEF Init
<1>5. MapBound
  <2>1. TotalSize({}) = 0 /\ Cardinality({}) = 0
    BY TotalStep, FS_EmptySet
  <2>2. {} \in SUBSET Held /\ Held \ {} = {}
    BY <1>1
  <2>3. 0 <= PINNED_PARSES + 1 /\ 0 <= parsedBudget
    BY ConstantsAssumption
  <2> QED
    BY <2>1, <2>2, <2>3 DEF MapBound
<1> QED
  BY <1>1, <1>2, <1>3, <1>4, <1>5 DEF InBudget, OnlyModelsParsed

LEMMA NextInBudget == Structure /\ InBudget /\ [Next]_vars => InBudget'
<1> SUFFICES ASSUME Structure, InBudget, [Next]_vars PROVE InBudget'
  OBVIOUS
<1>1. Budgeted /\ call \in [Callers -> Call]
  BY DEF InBudget, OnlyModelsParsed, Budgeted, Structure, Flights
<1>2. ASSUME UNCHANGED <<parsed, older, pinnedParses>>,
             \A d \in Callers : ParsesModel(call'[d])
      PROVE  InBudget'
  <2>1. Budgeted'
    BY <1>1, <1>2, SameBudgeted
  <2> QED
    BY <1>2, <2>1 DEF InBudget, OnlyModelsParsed, Budgeted
<1>3. CASE \E c \in Callers, ask \in Asks, f \in Files : Ask(c, ask, f)
  <2>1. PICK c \in Callers, ask \in Asks, f \in Files : Ask(c, ask, f)
    BY <1>3
  <2> DEFINE r == [Idle EXCEPT !.pc = "stat", !.ask = ask, !.file = f, !.quiet = ~Unreported(f)]
  <2>2. r.pc = "stat" /\ r.ask = ask /\ r.file = f /\ r.tier = "none"
    BY DEF Idle
  <2>3. ParsesModel(r)
    BY <2>1, <2>2 DEF Ask, ParsesModel
  <2>4. call' = [call EXCEPT ![c] = r] /\ UNCHANGED <<parsed, older, pinnedParses>>
    BY <2>1 DEF Ask, cacheVars
  <2> HIDE DEF r
  <2>5. \A d \in Callers : ParsesModel(call'[d])
    BY <1>1, <2>3, <2>4 DEF InBudget, OnlyModelsParsed
  <2> QED
    BY <1>2, <2>4, <2>5
<1>4. CASE \E c \in Callers : CallerStep(c)
  BY <1>4, CallerInBudget
<1>5. CASE \E f \in Files, v \in Versions : Write(f, v)
  <2>1. PICK f \in Files, v \in Versions : Write(f, v)
    BY <1>5
  <2>2. ASSUME NEW d \in Callers, NEW q
        PROVE  LET s == [call[d] EXCEPT !.quiet = q]
               IN  /\ s.pc = call[d].pc /\ s.file = call[d].file
                   /\ s.ask = call[d].ask /\ s.tier = call[d].tier
    <3>1. call[d] \in Call
      BY <1>1
    <3> QED
      BY <3>1 DEF Call
  <2>3. ASSUME NEW d \in Callers
        PROVE  ParsesModel(call'[d])
    <3> DEFINE q == call[d].quiet /\ call[d].file # f
    <3>1. call'[d] = [call[d] EXCEPT !.quiet = q]
      BY <2>1 DEF Write
    <3> HIDE DEF q
    <3> QED
      BY <2>2, <3>1 DEF ParsesModel, InBudget, OnlyModelsParsed
  <2> QED
    BY <1>2, <2>1, <2>3 DEF Write, cacheVars
<1>6. CASE WatcherStep
  <2>1. CASE \E f \in Files : TabWatcher(f)
    BY <2>1, ForgetInBudget DEF TabWatcher
  <2>2. CASE \E f \in Files : forgetUnseenWrite(f)
    BY <1>2, <2>2 DEF forgetUnseenWrite, cacheVars, InBudget, OnlyModelsParsed
  <2>3. CASE \E k \in checking : forgetIfVersionUnmoved(k)
    <3>1. PICK k \in checking : forgetIfVersionUnmoved(k)
      BY <2>3
    <3>2. k.file \in Files
      BY DEF Structure, Kept
    <3>3. CASE forgetSource(k.file)
      BY <3>2, <3>3, ForgetInBudget
    <3>4. CASE UNCHANGED <<cacheVars, call>>
      BY <1>2, <3>4 DEF cacheVars, InBudget, OnlyModelsParsed
    <3> QED
      BY <3>1, <3>3, <3>4 DEF forgetIfVersionUnmoved
  <2> QED
    BY <1>6, <2>1, <2>2, <2>3 DEF WatcherStep
<1>7. CASE clearSourceCache
  <2>1. Held' = Held \ Held /\ older' = OrderWithout(older, Held)
    <3>1. older' = {} /\ Held' = {}
      BY <1>7 DEF clearSourceCache, Held, Absent
    <3> QED
      BY <3>1, <1>1 DEF OrderWithout, Budgeted, Ordered
  <2>2. Budgeted'
    BY <1>1, <2>1, DroppedBudgeted
  <2> QED
    BY <1>7, <2>2, ConstantsAssumption
    DEF clearSourceCache, InBudget, OnlyModelsParsed, Budgeted
<1>8. CASE UNCHANGED vars
  BY <1>2, <1>8 DEF vars, cacheVars, InBudget, OnlyModelsParsed
<1> QED
  BY <1>3, <1>4, <1>5, <1>6, <1>7, <1>8 DEF Next

\* In every reachable state only models are parsed, the map has one order, the ring its
\* length, and the map its bound.
THEOREM BudgetInvariant == Spec => [](Structure /\ InBudget)
<1>1. Init => Structure /\ InBudget
  BY InitStructure, InitInBudget
<1>2. Structure /\ InBudget /\ [Next]_vars => (Structure /\ InBudget)'
  BY NextStructure, NextInBudget
<1> QED
  BY <1>1, <1>2, PTL DEF Spec

\* Whatever is pinned, stored, evicted, forgotten or cleared, the map is within the budget
\* but for as many parses as the ring pins and one more (evictParsed).
THEOREM MapStaysWithinBound == Spec => []MapBound
<1>1. InBudget => MapBound
  BY DEF InBudget
<1> QED
  BY <1>1, BudgetInvariant, PTL

-----------------------------------------------------------------------------
(***************************************************************************)
(* A store evicts by recency.                                              *)
(***************************************************************************)

\* Only its own settling ends a flight of the parse tier.
LEMMA EndsBySettling ==
    ASSUME Structure, Next, NEW c \in Callers, Flying(c, "parse"),
           call'[c].pc \in {"answered", "merge"}
    PROVE  ParseSettle(c)
<1>1. /\ call \in [Callers -> Call] /\ call[c] \in Call
      /\ call[c].pc \in {"read", "derive"} /\ call[c].tier = "parse"
  BY DEF Structure, Flights, Flying
<1>2. call'[c].pc # call[c].pc
  BY <1>1
<1>3. ASSUME NEW r \in Call, NEW v
      PROVE  /\ [r EXCEPT !.fresh = v].pc = r.pc
             /\ [r EXCEPT !.quiet = v].pc = r.pc
  BY DEF Call
<1>4. ASSUME NEW d \in Callers, CallerStep(d), d # c
      PROVE  FALSE
  <2>1. c \notin Joiners(d)
    BY <1>1 DEF Joiners
  <2>2. call'[c] = call[c]
    BY <1>1, <1>4, <2>1
    DEF CallerStep, Stat, ReadBytes, CheapHit, CheapJoin, CheapStart, CheapSettle, ParseHit,
        ParseJoin, ParseStart, ParseSettle, FillFilter, Merge, Return
  <2> QED
    BY <1>2, <2>2
<1>5. ASSUME CallerStep(c)
      PROVE  ParseSettle(c)
  <2>1. CASE ReadBytes(c)
    <3>1. PICK b : call' = [call EXCEPT ![c] = [call[c] EXCEPT !.pc = "derive", !.bytes = b]]
      BY <2>1, ReadBytesFields
    <3>2. [call[c] EXCEPT !.pc = "derive", !.bytes = b].pc = "derive"
      BY <1>1 DEF Call
    <3> QED
      BY <1>1, <3>1, <3>2
  <2> QED
    BY <1>1, <1>5, <2>1
    DEF CallerStep, Stat, CheapHit, CheapJoin, CheapStart, CheapSettle, ParseHit, AsksCheap,
        AsksParse, ParseJoin, ParseStart, FillFilter, Merge, Return
<1>6. ASSUME NEW d \in Callers, NEW ask \in Asks, NEW f \in Files, Ask(d, ask, f)
      PROVE  FALSE
  BY <1>1, <1>2, <1>6 DEF Ask
<1>7. ASSUME NEW f \in Files, forgetSource(f)
      PROVE  FALSE
  BY <1>1, <1>2, <1>3, <1>7 DEF forgetSource
<1>8. ASSUME NEW f \in Files, NEW v \in Versions, Write(f, v)
      PROVE  FALSE
  <2> DEFINE q == call[c].quiet /\ call[c].file # f
  <2>1. call'[c] = [call[c] EXCEPT !.quiet = q]
    BY <1>8 DEF Write
  <2> HIDE DEF q
  <2> QED
    BY <1>1, <1>2, <1>3, <2>1
<1>9. ASSUME WatcherStep
      PROVE  FALSE
  <2>1. \A k \in checking : k.file \in Files
    BY DEF Structure, Kept
  <2> QED
    BY <1>2, <1>7, <1>9, <2>1
    DEF WatcherStep, TabWatcher, forgetUnseenWrite, forgetIfVersionUnmoved
<1>10. ~ clearSourceCache
  BY <1>2 DEF clearSourceCache
<1> QED
  BY <1>4, <1>5, <1>6, <1>8, <1>9, <1>10 DEF Next

LEMMA EvictsByRecency ==
    ASSUME Structure, InBudget, [Next]_vars
    PROVE  EvictsOldestUnpinnedStep
<1> SUFFICES ASSUME NEW c \in Callers, Flying(c, "parse"), call'[c].pc \in {"answered", "merge"}
             PROVE  LET gone  == Held \ Held'
                        stays == (Held \intersect Held') \ (Pinned \union {call[c].file})
                    IN  /\ gone \intersect Pinned = {}
                        /\ gone \X stays \subseteq older
                        /\ \A f \in gone : (\A g \in gone \ {f} : <<g, f>> \in older) =>
                               parsedBudgetedBytes' + Size[f] > parsedBudget
  BY DEF EvictsOldestUnpinnedStep
<1>1. ParseSettle(c)
  <2>1. ~ UNCHANGED vars
    BY DEF vars, Flying
  <2> QED
    BY <2>1, EndsBySettling
<1>2. CASE ~StoresParse(call[c])
  <2>1. Held' = Held
    BY <1>1, <1>2 DEF ParseSettle, Held
  <2> QED
    BY <2>1
<1>3. CASE StoresParse(call[c])
  <2> DEFINE file  == call[c].file
             entry == [version |-> call[c].ver, content |-> call[c].bytes]
             held  == Held \union {file}
             order == OrderTouched(older, held, file)
             gone  == evictParsed(held, order, file)
             rest  == (held \ gone) \ (Pinned \union {file})
  <2>1. file \in Models
    BY <1>1 DEF ParseSettle, InBudget, OnlyModelsParsed, ParsesModel
  <2>2. entry \in Entry
    BY <1>3 DEF StoresParse, Structure, Flights, Call, Entry
  <2>3. StoreParse(file, entry)
    BY <1>1, <1>3 DEF ParseSettle
  <2>4. held \in SUBSET Models /\ file \in held /\ Ordered(order, held)
    BY <2>1, OrderedTouched DEF InBudget, OnlyModelsParsed
  <2>5. /\ gone \subseteq (held \ Pinned) \ {file}
        /\ gone \X rest \subseteq order
        /\ \A f \in gone : (\A g \in gone \ {f} : <<g, f>> \in order) =>
               TotalSize((held \ gone) \ Pinned) + Size[f] > parsedBudget
    <3>1. /\ gone = evictParsed(held, order, file)
          /\ rest = (held \ gone) \ (Pinned \union {file})
      OBVIOUS
    <3> HIDE DEF held, order, gone, rest, entry
    <3> QED
      BY <2>4, <3>1, Evicted
  <2>6. Held' = held \ gone
    <3> HIDE DEF entry
    <3> QED
      BY <2>1, <2>2, <2>3, <2>5, StoredHeld
  <2>7. Held \ Held' = gone /\ (Held \intersect Held') \ (Pinned \union {file}) = rest
    BY <2>5, <2>6
  <2>8. \A f, g \in held \ {file} : <<f, g>> \in order <=> <<f, g>> \in older
    BY DEF OrderTouched, OrderWithout
  <2>9. parsedBudgetedBytes' = TotalSize((held \ gone) \ Pinned)
    BY <1>1, <2>6 DEF parsedBudgetedBytes, Pinned, ParseSettle
  <2>10. gone \X rest \subseteq older
    <3> SUFFICES ASSUME NEW f \in gone, NEW g \in rest PROVE <<f, g>> \in older
      OBVIOUS
    <3>1. f \in held \ {file} /\ g \in held \ {file}
      BY <2>5
    <3>2. <<f, g>> \in order
      BY <2>5
    <3> HIDE DEF held, order, gone, rest
    <3> QED
      BY <2>8, <3>1, <3>2
  <2>11. ASSUME NEW f \in gone, \A g \in gone \ {f} : <<g, f>> \in older
         PROVE  \A g \in gone \ {f} : <<g, f>> \in order
    <3>1. gone \subseteq held \ {file}
      BY <2>5
    <3> HIDE DEF held, order, gone
    <3> QED
      BY <2>8, <2>11, <3>1
  <2> HIDE DEF gone, rest, held, order
  <2> QED
    BY <2>5, <2>7, <2>9, <2>10, <2>11
<1> QED
  BY <1>2, <1>3

\* A store evicts no pinned parse, none used more recently than one that stays, and none it
\* could have kept (evictParsed).
THEOREM StoresEvictOldest == Spec => EvictsOldestUnpinned
<1>1. Structure /\ InBudget /\ [Next]_vars => [EvictsOldestUnpinnedStep]_vars
  BY EvictsByRecency
<1> QED
  BY <1>1, BudgetInvariant, PTL DEF Spec, EvictsOldestUnpinned
=============================================================================
