---------------------- MODULE SourceCacheBoundsProofs ----------------------
(***************************************************************************)
(* Theorems about the flights of SourceCache: that a file is derived once, *)
(* and that only a displaced flight escapes forgetUnseenWrite.             *)
(***************************************************************************)
EXTENDS MCSourceCacheBounds, SourceCacheProofs

-----------------------------------------------------------------------------
(***************************************************************************)
(* What a caller's step does to the calls and the slots: it stays on the   *)
(* ground, takes off, reads, or settles with everyone who joined it.       *)
(***************************************************************************)
InAir(r) == r.pc \in {"read", "derive"}

OnGround(c, r) ==
    /\ ~InAir(call[c]) /\ ~InAir(r)
    /\ r.file \in {call[c].file, None}
    /\ r.ver \in {call[c].ver, NoVersion} \union {disk[call[c].file].version}
    /\ call' = [call EXCEPT ![c] = r]
    /\ UNCHANGED <<cheap, parsed, reading, parsing>>
    /\ \/ UNCHANGED models
       \/ models' = [models EXCEPT ![call[c].file] = parsed[call[c].file]]

TakesOff(c, r) ==
    LET f == call[c].file
    IN  /\ f \in Files
        /\ ~InAir(call[c]) /\ InAir(r)
        /\ r.file = f /\ r.ver = call[c].ver
        /\ call' = [call EXCEPT ![c] = r]
        /\ \/ /\ r.tier = "cheap" /\ r.ver # NoVersion
              /\ ~Joinable(reading, f, r.ver)
              /\ r.pc = "derive" => \/ r.bytes = Nothing
                                    \/ r.ver = parsed[f].version /\ r.bytes = parsed[f].content
              /\ reading' = [reading EXCEPT ![f] = c] /\ UNCHANGED parsing
           \/ /\ r.tier = "parse" /\ r.pc = "read"
              /\ \/ r.ver = NoVersion /\ UNCHANGED parsing
                 \/ /\ r.ver # NoVersion /\ ~Joinable(parsing, f, r.ver)
                    /\ parsing' = [parsing EXCEPT ![f] = c]
              /\ UNCHANGED reading
        /\ UNCHANGED <<cheap, parsed, models>>

Reads(c, r) ==
    /\ call[c].pc = "read" /\ r.pc = "derive"
    /\ r.file = call[c].file /\ r.ver = call[c].ver /\ r.tier = call[c].tier
    /\ r.bytes \in {disk[call[c].file].content, Nothing}
    /\ call' = [call EXCEPT ![c] = r]
    /\ UNCHANGED <<cheap, parsed, models, reading, parsing>>

\* What is stored on settling is the flight's, and what goes is gone.
Keeps(c, tier, next) ==
    \A f \in Files : \/ next[f] \in {tier[f], Absent}
                     \/ /\ f = call[c].file
                        /\ next[f] = [version |-> call[c].ver, content |-> call[c].bytes]

Settles(c) ==
    /\ call[c].pc = "derive"
    /\ \A d \in Callers :
           IF d = c \/ d \in Joiners(c)
           THEN ~InAir(call'[d]) /\ call'[d].file = call[d].file
                /\ call'[d].ver \in {call[d].ver, NoVersion}
           ELSE call'[d] = call[d]
    /\ \/ /\ call[c].tier = "cheap"
          /\ reading' = Landed(reading, c) /\ UNCHANGED <<parsing, parsed, models>>
          /\ Keeps(c, cheap, cheap')
          /\ cheap' # cheap => call[c].fresh
       \/ /\ call[c].tier = "parse"
          /\ parsing' = Landed(parsing, c) /\ UNCHANGED <<reading, cheap>>
          /\ Keeps(c, parsed, parsed') /\ Keeps(c, models, models')
          /\ ~StoresParse(call[c]) => UNCHANGED parsed
          /\ models' # models => FillsSummary(c)

\* A call's next stage, its version kept or dropped.
LEMMA AtVer ==
    ASSUME NEW r \in Call, NEW pc \in Phases
    PROVE  At(r, pc).ver = NoVersion
BY DEF At, Idle, Call

LEMMA AnsweredVer ==
    ASSUME NEW r \in Call, NEW b \in Content \union {Nothing}
    PROVE  Answered(r, b).ver = NoVersion
<1>1. At(r, "answered") \in Call /\ At(r, "answered").ver = NoVersion
  BY AtFields, AtVer DEF Phases
<1> QED
  BY <1>1 DEF Answered, Call

LEMMA LandedVer ==
    ASSUME NEW r \in Call, NEW b \in Content \union {Nothing}
    PROVE  /\ CheapAnswered(r, b).ver \in {r.ver, NoVersion}
           /\ ParseAnswered(r, b).ver = NoVersion
<1>1. CheapAnswered(r, b).ver \in {r.ver, NoVersion}
  <2>1. CASE r.ask = "usage" /\ b # Nothing /\ r.file \in Models
    <3>1. [At(r, "filter") EXCEPT !.ver = r.ver].ver = r.ver
      BY DEF At, Idle, Call
    <3> QED
      BY <2>1, <3>1 DEF CheapAnswered
  <2>2. CASE ~ (r.ask = "usage" /\ b # Nothing /\ r.file \in Models)
    BY <2>2, AnsweredVer DEF CheapAnswered
  <2> QED
    BY <2>1, <2>2
<1>2. ParseAnswered(r, b).ver = NoVersion
  BY AtVer, AnsweredVer DEF ParseAnswered, Phases
<1> QED
  BY <1>1, <1>2

\* No caller writes, or does a watcher's work.
LEMMA CallerLeavesDisk ==
    ASSUME NEW c \in Callers, CallerStep(c)
    PROVE  UNCHANGED watchVars
BY DEF CallerStep, Stat, ReadBytes, CheapHit, CheapJoin, CheapStart, CheapSettle,
       ParseHit, ParseJoin, ParseStart, ParseSettle, FillFilter, Merge, Return

\* Every step of a caller is of one of these kinds.
LEMMA CallerKinds ==
    ASSUME Structure, NEW c \in Callers, CallerStep(c)
    PROVE  \/ Settles(c)
           \/ \E r \in Call : OnGround(c, r) \/ TakesOff(c, r) \/ Reads(c, r)
<1> DEFINE f == call[c].file
<1>1. /\ call \in [Callers -> Call] /\ call[c] \in Call
      /\ \A d \in Callers : call[d].pc # "idle" => call[d].file \in Files
      /\ f \in Files => /\ disk[f].version \in Versions /\ disk[f].content \in Content
                        /\ cheap[f].content \in Content \union {Nothing}
                        /\ parsed[f].content \in Content \union {Nothing}
                        /\ models[f].content \in Content \union {Nothing}
  BY DEF Structure, Flights, CallsOK, CallOK, Kept, Tier, Entry, Absent
<1>2. /\ cheap \in Tier /\ parsed \in Tier /\ models \in Tier
      /\ reading \in Slots /\ parsing \in Slots /\ SlotsAreFlights
      /\ \A d \in Joiners(c) : call[d].pc = "joined"
  BY DEF Structure, Kept, Flights, Joiners
<1>3. CASE Stat(c)
  <2>1. PICK v \in {disk[f].version, NoVersion} :
            call' = [call EXCEPT ![c] = [call[c] EXCEPT !.pc = "statted", !.ver = v]]
    BY <1>3 DEF Stat
  <2> DEFINE r == [call[c] EXCEPT !.pc = "statted", !.ver = v]
  <2>2. f \in Files /\ call[c].pc = "stat"
    BY <1>1, <1>3 DEF Stat
  <2>3. r \in Call /\ r.pc = "statted" /\ r.file = f /\ r.ver = v
    BY <1>1, <2>2 DEF Call, Phases
  <2>4. OnGround(c, r)
    BY <1>3, <2>1, <2>2, <2>3 DEF OnGround, InAir, Stat, cacheVars
  <2> QED
    BY <2>3, <2>4
<1>4. CASE ReadBytes(c)
  <2>1. PICK b \in {disk[f].content, Nothing} :
            /\ b \in Content \union {Nothing}
            /\ call' = [call EXCEPT ![c] = [call[c] EXCEPT !.pc = "derive", !.bytes = b]]
    BY <1>4, ReadBytesFields
  <2> DEFINE r == [call[c] EXCEPT !.pc = "derive", !.bytes = b]
  <2>2. /\ r \in Call /\ r.pc = "derive" /\ r.file = f /\ r.ver = call[c].ver
        /\ r.tier = call[c].tier /\ r.bytes = b
    BY <1>1, <2>1 DEF Call, Phases
  <2>3. Reads(c, r)
    BY <1>4, <2>1, <2>2 DEF Reads, ReadBytes, cacheVars
  <2> QED
    BY <2>2, <2>3
<1>5. CASE CheapHit(c)
  <2>1. PICK b \in Content \union {Nothing} : call' = [call EXCEPT ![c] = CheapAnswered(call[c], b)]
    BY <1>1, <1>5 DEF CheapHit, AsksCheap
  <2> DEFINE r == CheapAnswered(call[c], b)
  <2>2. /\ r \in Call /\ r.pc \in {"answered", "filter"} /\ r.file = f
        /\ r.ver \in {call[c].ver, NoVersion}
    BY <1>1, CheapAnsweredFields, LandedVer
  <2>3. OnGround(c, r)
    <3> HIDE DEF r
    <3> QED
      BY <1>5, <2>1, <2>2 DEF OnGround, InAir, CheapHit, AsksCheap, cacheVars, r
  <2> QED
    BY <2>2, <2>3
<1>6. CASE CheapJoin(c) \/ ParseJoin(c)
  <2>1. AsksCheap(c) \/ AsksParse(c)
    BY <1>6 DEF CheapJoin, ParseJoin
  <2>2. PICK r \in Call : /\ call' = [call EXCEPT ![c] = r]
                          /\ r.pc = "joined" /\ r.file = f /\ r.ver = call[c].ver
    <3>1. CASE CheapJoin(c)
      <4>1. PICK e : call' = [call EXCEPT ![c] = [call[c] EXCEPT !.pc = "joined", !.tier = "cheap",
                                                                  !.on = e]]
        BY <3>1 DEF CheapJoin
      <4> DEFINE r == [call[c] EXCEPT !.pc = "joined", !.tier = "cheap", !.on = e]
      <4>2. call'[c] = r /\ call' \in [Callers -> Call]
        BY <1>1, <1>6, <3>1, <4>1, CheapJoinStructure DEF Structure, Flights
      <4>3. r.pc = "joined" /\ r.file = f /\ r.ver = call[c].ver
        BY <1>1 DEF Call
      <4> QED
        BY <4>1, <4>2, <4>3
    <3>2. CASE ParseJoin(c)
      <4>1. PICK e : call' = [call EXCEPT ![c] = [call[c] EXCEPT !.pc = "joined", !.tier = "parse",
                                                                  !.on = e, !.fresh = TRUE]]
        BY <3>2 DEF ParseJoin
      <4> DEFINE r == [call[c] EXCEPT !.pc = "joined", !.tier = "parse", !.on = e, !.fresh = TRUE]
      <4>2. call'[c] = r /\ call' \in [Callers -> Call]
        BY <1>1, <1>6, <3>2, <4>1, ParseJoinStructure DEF Structure, Flights
      <4>3. r.pc = "joined" /\ r.file = f /\ r.ver = call[c].ver
        BY <1>1 DEF Call
      <4> QED
        BY <4>1, <4>2, <4>3
    <3> QED
      BY <1>6, <3>1, <3>2
  <2>3. OnGround(c, r)
    BY <1>6, <2>1, <2>2 DEF OnGround, InAir, CheapJoin, ParseJoin, AsksCheap, AsksParse, cacheVars
  <2> QED
    BY <2>3
<1>7. CASE CheapStart(c)
  <2> DEFINE a == [call[c] EXCEPT !.tier = "cheap", !.fresh = TRUE]
             r == cheapOf(a)
  <2>1. AsksCheap(c) /\ f \in Files /\ call[c].ver # NoVersion /\ call' = [call EXCEPT ![c] = r]
    BY <1>7, AskerFields DEF CheapStart
  <2>2. a \in Call /\ a.tier = "cheap" /\ a.file = f /\ a.ver = call[c].ver
    BY <1>1 DEF Call
  <2>3. /\ r.tier = "cheap" /\ r.file = f /\ r.ver = call[c].ver /\ InAir(r)
        /\ r.pc = "derive" => \/ r.bytes = Nothing
                              \/ r.ver = parsed[f].version /\ r.bytes = parsed[f].content
    <3> HIDE DEF a
    <3> QED
      BY <2>2 DEF cheapOf, Call, InAir, Hit
  <2>4. r \in Call
    <3>1. call' \in [Callers -> Call]
      BY <1>7, CheapStartStructure DEF Structure, Flights
    <3> HIDE DEF r
    <3> QED
      BY <1>1, <2>1, <3>1
  <2>5. TakesOff(c, r)
    <3> HIDE DEF r
    <3> QED
      BY <1>7, <2>1, <2>3 DEF TakesOff, InAir, CheapStart, AsksCheap
  <2> QED
    BY <2>4, <2>5
<1>8. CASE ParseStart(c)
  <2> DEFINE r == [call[c] EXCEPT !.pc = "read", !.tier = "parse", !.fresh = TRUE]
  <2>1. AsksParse(c) /\ f \in Files /\ call' = [call EXCEPT ![c] = r]
    BY <1>8, AskerFields DEF ParseStart
  <2>2. r \in Call /\ r.pc = "read" /\ r.tier = "parse" /\ r.file = f /\ r.ver = call[c].ver
    BY <1>1 DEF Call, Phases
  <2>3. TakesOff(c, r)
    <3> HIDE DEF r
    <3> QED
      BY <1>8, <2>1, <2>2 DEF TakesOff, InAir, ParseStart, AsksParse
  <2> QED
    BY <2>2, <2>3
<1>9. CASE ParseHit(c)
  <2>1. PICK b \in Content \union {Nothing} : call' = [call EXCEPT ![c] = ParseAnswered(call[c], b)]
    BY <1>1, <1>9 DEF ParseHit, AsksParse
  <2> DEFINE r == ParseAnswered(call[c], b)
  <2>2. /\ r \in Call /\ r.pc \in {"answered", "merge"} /\ r.file = f /\ r.ver = NoVersion
    BY <1>1, ParseAnsweredFields, LandedVer
  <2>3. call[c].pc \in {"statted", "fill"}
    BY <1>9 DEF ParseHit, AsksParse
  <2>4. UNCHANGED <<cheap, parsed, reading, parsing>>
    BY <1>9 DEF ParseHit
  <2>5. \/ UNCHANGED models
        \/ models' = [models EXCEPT ![f] = parsed[f]]
    BY <1>9 DEF ParseHit
  <2>6. call' = [call EXCEPT ![c] = r]
    BY <2>1
  <2>7. OnGround(c, r)
    <3> HIDE DEF r
    <3>1. ~InAir(call[c]) /\ ~InAir(r)
      BY <2>2, <2>3 DEF InAir
    <3>2. r.file \in {f, None} /\ r.ver \in {call[c].ver, NoVersion} \union {disk[f].version}
      BY <2>2
    <3> QED
      BY <2>4, <2>5, <2>6, <3>1, <3>2 DEF OnGround
  <2> QED
    BY <2>2, <2>7
<1>10. CASE FillFilter(c)
  <2>1. PICK r \in Call : /\ call' = [call EXCEPT ![c] = r] /\ ~InAir(r)
                          /\ r.file = f /\ r.ver \in {call[c].ver, NoVersion}
    <3>1. CASE call' = [call EXCEPT ![c] = At(call[c], "merge")]
      <4> DEFINE r == At(call[c], "merge")
      <4>1. r \in Call /\ r.pc = "merge" /\ r.file = f
        BY <1>1, AtFields DEF Phases
      <4>2. r.ver = NoVersion
        BY <1>1, AtVer DEF Phases
      <4> HIDE DEF r
      <4>3. ~InAir(r)
        BY <4>1 DEF InAir
      <4> QED
        BY <3>1, <4>1, <4>2, <4>3 DEF r
    <3>2. CASE call' = [call EXCEPT ![c] = [call[c] EXCEPT !.pc = "fill"]]
      <4> DEFINE r == [call[c] EXCEPT !.pc = "fill"]
      <4>1. r \in Call /\ r.pc = "fill" /\ r.file = f /\ r.ver = call[c].ver
        BY <1>1 DEF Call, Phases
      <4> QED
        BY <3>2, <4>1 DEF InAir
    <3> QED
      BY <1>10, <3>1, <3>2 DEF FillFilter
  <2>2. OnGround(c, r)
    BY <1>10, <2>1 DEF OnGround, InAir, FillFilter, cacheVars
  <2> QED
    BY <2>2
<1>11. CASE Merge(c)
  <2> DEFINE r == Answered(call[c], models[f].content)
  <2>1. f \in Files /\ call' = [call EXCEPT ![c] = r]
    BY <1>1, <1>11 DEF Merge
  <2>2. r \in Call /\ r.pc = "answered" /\ r.file = f /\ r.ver = NoVersion
    BY <1>1, <2>1, AnsweredFields, AnsweredVer
  <2>3. OnGround(c, r)
    <3> HIDE DEF r
    <3> QED
      BY <1>11, <2>1, <2>2 DEF OnGround, InAir, Merge, cacheVars
  <2> QED
    BY <2>2, <2>3
<1>12. CASE Return(c)
  <2>1. Idle \in Call /\ Idle.pc = "idle" /\ Idle.file = None /\ Idle.ver = NoVersion
    BY DEF Idle, Call, Phases
  <2>2. OnGround(c, Idle)
    BY <1>12, <2>1 DEF OnGround, InAir, Return, cacheVars
  <2> QED
    BY <2>1, <2>2
<1>13. CASE CheapSettle(c)
  <2>1. call[c].pc = "derive" /\ call[c].tier = "cheap" /\ call[c].bytes \in Content \union {Nothing}
    BY <1>1, <1>13 DEF CheapSettle, Call
  <2>2. \A d \in Callers : LET r == CheapAnswered(call[d], call[c].bytes)
                           IN  ~InAir(r) /\ r.file = call[d].file
                               /\ r.ver \in {call[d].ver, NoVersion}
    BY <1>1, <2>1, CheapAnsweredFields, LandedVer DEF InAir
  <2>3. Keeps(c, cheap, cheap') /\ (cheap' # cheap => call[c].fresh)
    BY <1>1, <1>2, <1>13, <2>1 DEF Keeps, CheapSettle, StoresCheap, Tier
  <2> QED
    BY <1>13, <2>1, <2>2, <2>3 DEF Settles, CheapSettle
<1>14. CASE ParseSettle(c)
  <2>1. /\ call[c].pc = "derive" /\ call[c].tier = "parse"
        /\ call[c].bytes \in Content \union {Nothing}
    BY <1>1, <1>14 DEF ParseSettle, Call
  <2>2. \A d \in Callers : LET r == ParseAnswered(call[d], call[c].bytes)
                           IN  ~InAir(r) /\ r.file = call[d].file
                               /\ r.ver \in {call[d].ver, NoVersion}
    BY <1>1, <2>1, ParseAnsweredFields, LandedVer DEF InAir
  <2>3. Keeps(c, parsed, parsed')
    <3>1. CASE UNCHANGED parsed
      BY <3>1 DEF Keeps
    <3>2. CASE StoreParse(f, [version |-> call[c].ver, content |-> call[c].bytes])
      BY <1>2, <3>2 DEF Keeps, StoreParse, Tier
    <3> QED
      BY <1>14, <3>1, <3>2 DEF ParseSettle
  <2>4. Keeps(c, models, models') /\ (models' # models => FillsSummary(c))
    BY <1>2, <1>14 DEF Keeps, ParseSettle, Tier
  <2>5. ~StoresParse(call[c]) => UNCHANGED parsed
    BY <1>14 DEF ParseSettle
  <2> QED
    BY <1>14, <2>1, <2>2, <2>3, <2>4, <2>5 DEF Settles, ParseSettle
<1> QED
  BY <1>3, <1>4, <1>5, <1>6, <1>7, <1>8, <1>9, <1>10, <1>11, <1>12, <1>13, <1>14 DEF CallerStep

-----------------------------------------------------------------------------
(***************************************************************************)
(* One derivation of a file that is not written.                           *)
(***************************************************************************)
Undisturbed(f) ==
    /\ disk[f].version = 0
    /\ f \notin tabEvents \union wsEvents
    /\ \A k \in checking : k.file # f

AloneIn(f) ==
    \A c \in Callers : call[c].file = f =>
        /\ call[c].ver \in {0, NoVersion}
        /\ Flying(c, "cheap") => reading[f] = c
        /\ Flying(c, "parse") /\ call[c].ver # NoVersion => parsing[f] = c

LEMMA UnwrittenSplit ==
    UnwrittenAlone <=> \A f \in Files : disk[f].content = 0 => Undisturbed(f) /\ AloneIn(f)
BY DEF UnwrittenAlone, Undisturbed, AloneIn

\* A step of a caller keeps every file's flights in their slots.
LEMMA CallerAlone ==
    ASSUME Structure, NEW c \in Callers, CallerStep(c), NEW f \in Files,
           Undisturbed(f), AloneIn(f)
    PROVE  AloneIn(f)'
<1>1. /\ call \in [Callers -> Call] /\ reading \in Slots /\ parsing \in Slots
      /\ SlotsAreFlights /\ CallsOK
      /\ None \notin Files /\ None \notin Callers
  BY ConstantsAssumption DEF Structure, Flights
<1>2. \A g \in Files : ~InAir(call[c]) => reading[g] # c /\ parsing[g] # c
  BY <1>1 DEF SlotsAreFlights, Flying, InAir
<1>3. ASSUME NEW r \in Call, OnGround(c, r)
      PROVE  AloneIn(f)'
  <2>1. \A d \in Callers : call'[d] = IF d = c THEN r ELSE call[d]
    BY <1>1, <1>3 DEF OnGround
  <2> QED
    BY <1>1, <1>3, <2>1 DEF OnGround, InAir, AloneIn, Undisturbed, Flying
<1>4. ASSUME NEW r \in Call, Reads(c, r)
      PROVE  AloneIn(f)'
  <2>1. \A d \in Callers : call'[d] = IF d = c THEN r ELSE call[d]
    BY <1>1, <1>4 DEF Reads
  <2> QED
    BY <1>1, <1>4, <2>1 DEF Reads, AloneIn, Flying
<1>5. ASSUME NEW r \in Call, TakesOff(c, r)
      PROVE  AloneIn(f)'
  <2>1. \A d \in Callers : call'[d] = IF d = c THEN r ELSE call[d]
    BY <1>1, <1>5 DEF TakesOff
  <2>2. CASE call[c].file # f
    <3>1. reading'[f] = reading[f] /\ parsing'[f] = parsing[f]
      BY <1>1, <1>5, <2>2 DEF TakesOff, Slots
    <3> QED
      BY <1>5, <2>1, <2>2, <3>1 DEF TakesOff, AloneIn, Flying
  <2>3. CASE call[c].file = f /\ r.tier = "cheap"
    <3>1. r.ver = 0 /\ ~Joinable(reading, f, 0) /\ r.file = f
          /\ reading' = [reading EXCEPT ![f] = c] /\ UNCHANGED parsing
      BY <1>5, <2>3 DEF TakesOff, AloneIn
    <3>2. reading[f] = None
      BY <1>1, <3>1 DEF Joinable, SlotsAreFlights, AloneIn, Slots
    <3>3. \A d \in Callers : ~ (call[d].file = f /\ Flying(d, "cheap"))
      BY <1>1, <3>2 DEF AloneIn
    <3>4. reading'[f] = c
      BY <1>1, <3>1 DEF Slots
    <3> QED
      BY <2>1, <2>3, <3>1, <3>3, <3>4 DEF AloneIn, Flying
  <2>4. CASE call[c].file = f /\ r.tier = "parse" /\ r.ver = NoVersion
    BY <1>5, <2>1, <2>4 DEF TakesOff, AloneIn, Flying
  <2>5. CASE call[c].file = f /\ r.tier = "parse" /\ r.ver # NoVersion
    <3>1. r.ver = 0 /\ ~Joinable(parsing, f, 0) /\ r.file = f
          /\ parsing' = [parsing EXCEPT ![f] = c] /\ UNCHANGED reading
      BY <1>5, <2>5 DEF TakesOff, AloneIn
    <3>2. parsing[f] = None
      BY <1>1, <3>1 DEF Joinable, SlotsAreFlights, AloneIn, Slots
    <3>3. \A d \in Callers : ~ (call[d].file = f /\ Flying(d, "parse") /\ call[d].ver # NoVersion)
      BY <1>1, <3>2 DEF AloneIn
    <3>4. parsing'[f] = c
      BY <1>1, <3>1 DEF Slots
    <3> QED
      BY <2>1, <2>5, <3>1, <3>3, <3>4 DEF AloneIn, Flying
  <2> QED
    BY <1>5, <2>2, <2>3, <2>4, <2>5 DEF TakesOff
<1>6. ASSUME Settles(c)
      PROVE  AloneIn(f)'
  <2>1. \A d \in Callers \ {c} :
            /\ reading[f] = d => reading'[f] = d
            /\ parsing[f] = d => parsing'[f] = d
    BY <1>1, <1>6 DEF Settles, Landed, Slots
  <2>2. \A d \in Callers : InAir(call'[d]) => call'[d] = call[d] /\ d # c
    BY <1>6 DEF Settles
  <2>3. \A d \in Callers : call'[d].file = call[d].file /\ call'[d].ver \in {call[d].ver, NoVersion}
    BY <1>6 DEF Settles
  <2> SUFFICES ASSUME NEW d \in Callers, call'[d].file = f
               PROVE  /\ call'[d].ver \in {0, NoVersion}
                      /\ Flying(d, "cheap")' => reading'[f] = d
                      /\ Flying(d, "parse")' /\ call'[d].ver # NoVersion => parsing'[f] = d
    BY DEF AloneIn
  <2>4. call'[d].ver \in {0, NoVersion}
    BY <2>3 DEF AloneIn
  <2>5. CASE ~InAir(call'[d])
    BY <2>4, <2>5 DEF Flying, InAir
  <2>6. CASE InAir(call'[d])
    <3>1. call'[d] = call[d] /\ d # c /\ call[d].file = f
      BY <2>2, <2>3, <2>6
    <3>2. Flying(d, "cheap") => reading[f] = d
      BY <3>1 DEF AloneIn
    <3>3. Flying(d, "parse") /\ call[d].ver # NoVersion => parsing[f] = d
      BY <3>1 DEF AloneIn
    <3>4. /\ Flying(d, "cheap")' <=> Flying(d, "cheap")
          /\ Flying(d, "parse")' <=> Flying(d, "parse")
      BY <3>1 DEF Flying
    <3>5. /\ reading[f] = d => reading'[f] = d
          /\ parsing[f] = d => parsing'[f] = d
      BY <2>1, <3>1
    <3>6. call'[d].ver = call[d].ver
      BY <3>1
    <3> QED
      BY <2>4, <3>2, <3>3, <3>4, <3>5, <3>6
  <2> QED
    BY <2>5, <2>6
<1> QED
  BY <1>3, <1>4, <1>5, <1>6, CallerKinds

\* Whoever only clears flags, other files' slots or the tiers.
LEMMA StillAlone ==
    ASSUME NEW f \in Files, AloneIn(f), reading'[f] = reading[f], parsing'[f] = parsing[f],
           \A c \in Callers : /\ call'[c].pc = call[c].pc /\ call'[c].file = call[c].file
                              /\ call'[c].ver = call[c].ver /\ call'[c].tier = call[c].tier
    PROVE  AloneIn(f)'
BY DEF AloneIn, Flying

\* The flags a forget and a write clear leave the rest of a call as it was.
LEMMA FlagFields ==
    ASSUME NEW r \in Call, NEW v
    PROVE  /\ LET s == [r EXCEPT !.fresh = v]
              IN  /\ s.pc = r.pc /\ s.file = r.file /\ s.ver = r.ver /\ s.tier = r.tier
                  /\ s.bytes = r.bytes /\ s.on = r.on /\ s.fresh = v
           /\ LET s == [r EXCEPT !.quiet = v]
              IN  /\ s.pc = r.pc /\ s.file = r.file /\ s.ver = r.ver /\ s.tier = r.tier
                  /\ s.bytes = r.bytes /\ s.on = r.on /\ s.fresh = r.fresh
BY DEF Call

LEMMA ForgetCalls ==
    ASSUME Structure, NEW g \in Files, forgetSource(g), NEW c \in Callers
    PROVE  /\ call'[c].pc = call[c].pc /\ call'[c].file = call[c].file
           /\ call'[c].ver = call[c].ver /\ call'[c].tier = call[c].tier
           /\ call'[c].bytes = call[c].bytes /\ ~call'[c].fresh
<1>1. call[c] \in Call /\ call'[c] = [call[c] EXCEPT !.fresh = FALSE]
  BY DEF Structure, Flights, forgetSource
<1> QED
  BY <1>1, FlagFields

LEMMA WriteCalls ==
    ASSUME Structure, NEW g \in Files, NEW v \in Versions, Write(g, v), NEW c \in Callers
    PROVE  /\ call'[c].pc = call[c].pc /\ call'[c].file = call[c].file
           /\ call'[c].ver = call[c].ver /\ call'[c].tier = call[c].tier
           /\ call'[c].bytes = call[c].bytes /\ call'[c].fresh = call[c].fresh
<1> DEFINE q == call[c].quiet /\ call[c].file # g
<1>1. call[c] \in Call /\ call'[c] = [call[c] EXCEPT !.quiet = q]
  BY DEF Structure, Flights, Write
<1> HIDE DEF q
<1> QED
  BY <1>1, FlagFields

\* Nothing the disk or its watchers do reaches a file that was not written.
LEMMA NextAlone ==
    ASSUME Structure, UnwrittenAlone, [Next]_vars
    PROVE  UnwrittenAlone'
<1> SUFFICES ASSUME NEW f \in Files, disk'[f].content = 0
             PROVE  Undisturbed(f)' /\ AloneIn(f)'
  BY DEF UnwrittenAlone, Undisturbed, AloneIn
<1>1. /\ call \in [Callers -> Call] /\ reading \in Slots /\ parsing \in Slots
      /\ disk \in [Files -> [version : Versions, content : Content]]
  BY DEF Structure, Flights, Kept
<1>2. ASSUME disk[f].content = 0
      PROVE  Undisturbed(f) /\ AloneIn(f)
  BY <1>2, UnwrittenSplit
<1>3. CASE \E c \in Callers, ask \in Asks, g \in Files : Ask(c, ask, g)
  <2>1. PICK c \in Callers, ask \in Asks, g \in Files : Ask(c, ask, g)
    BY <1>3
  <2> DEFINE r == [Idle EXCEPT !.pc = "stat", !.ask = ask, !.file = g, !.quiet = ~Unreported(g)]
  <2>2. r.pc = "stat" /\ r.ver = NoVersion
    BY DEF Idle
  <2>3. \A d \in Callers : call'[d] = IF d = c THEN r ELSE call[d]
    BY <1>1, <2>1 DEF Ask
  <2>4. UNCHANGED <<watchVars, cacheVars>>
    BY <2>1 DEF Ask
  <2> HIDE DEF r
  <2> QED
    BY <1>2, <2>2, <2>3, <2>4 DEF watchVars, cacheVars, Undisturbed, AloneIn, Flying
<1>4. CASE \E c \in Callers : CallerStep(c)
  <2>1. PICK c \in Callers : CallerStep(c)
    BY <1>4
  <2>2. UNCHANGED watchVars
    BY <2>1, CallerLeavesDisk
  <2> QED
    BY <1>2, <2>1, <2>2, CallerAlone DEF watchVars, Undisturbed
<1>5. CASE \E g \in Files, v \in Versions : Write(g, v)
  <2>1. PICK g \in Files, v \in Versions : Write(g, v)
    BY <1>5
  <2>2. disk[g].content \in Nat
    BY <1>1 DEF Content
  <2>3. g # f
    BY <1>1, <2>1, <2>2 DEF Write
  <2>4. /\ disk'[f] = disk[f] /\ UNCHANGED <<checking, reading, parsing>>
        /\ tabEvents' \subseteq tabEvents \union {g} /\ wsEvents' = wsEvents \union {g}
    BY <1>1, <2>1, <2>3 DEF Write, cacheVars
  <2>5. Undisturbed(f)'
    BY <1>2, <2>3, <2>4 DEF Undisturbed
  <2>6. AloneIn(f)'
    BY <1>2, <2>1, <2>4, WriteCalls, StillAlone
  <2> QED
    BY <2>5, <2>6
<1>6. CASE WatcherStep
  <2>1. UNCHANGED disk
    BY <1>6 DEF WatcherStep, TabWatcher, forgetUnseenWrite, forgetIfVersionUnmoved
  <2>2. Undisturbed(f) /\ AloneIn(f)
    BY <1>2, <2>1
  <2>3. ASSUME NEW g \in Files, g # f, forgetSource(g)
        PROVE  AloneIn(f)'
    <3>1. reading'[f] = reading[f] /\ parsing'[f] = parsing[f]
      BY <1>1, <2>3 DEF forgetSource, Slots
    <3> QED
      BY <2>2, <2>3, <3>1, ForgetCalls, StillAlone
  <2>4. CASE \E g \in Files : TabWatcher(g)
    BY <2>1, <2>2, <2>3, <2>4 DEF TabWatcher, Undisturbed
  <2>5. CASE \E g \in Files : forgetUnseenWrite(g)
    BY <2>1, <2>2, <2>5, StillAlone DEF forgetUnseenWrite, cacheVars, Undisturbed
  <2>6. CASE \E k \in checking : forgetIfVersionUnmoved(k)
    <3>1. PICK k \in checking : forgetIfVersionUnmoved(k)
      BY <2>6
    <3>2. k.file \in Files /\ k.file # f
      BY <2>2 DEF Structure, Kept, Undisturbed
    <3>3. AloneIn(f)'
      BY <2>2, <2>3, <3>1, <3>2, StillAlone DEF forgetIfVersionUnmoved, cacheVars
    <3> QED
      BY <2>1, <2>2, <3>1, <3>3 DEF forgetIfVersionUnmoved, Undisturbed
  <2> QED
    BY <1>6, <2>4, <2>5, <2>6 DEF WatcherStep
<1>7. CASE clearSourceCache \/ UNCHANGED vars
  <2>1. UNCHANGED <<watchVars, reading, parsing, call>>
    BY <1>7 DEF clearSourceCache, vars, cacheVars
  <2> QED
    BY <1>2, <2>1, StillAlone DEF watchVars, Undisturbed
<1> QED
  BY <1>3, <1>4, <1>5, <1>6, <1>7 DEF Next

LEMMA InitAlone == Init => UnwrittenAlone
BY ConstantsAssumption DEF Init, UnwrittenAlone, Idle, Flying

\* While a file is not written, no two callers derive it in the same tier at the same
\* version, whoever joins, clears, or forgets another file meanwhile (coalesced).
THEOREM DerivedOnce == Spec => []OneDerivation
<1>1. Init => Structure /\ UnwrittenAlone
  BY InitStructure, InitAlone
<1>2. Structure /\ UnwrittenAlone /\ [Next]_vars => (Structure /\ UnwrittenAlone)'
  BY NextStructure, NextAlone
<1>3. Structure /\ UnwrittenAlone => OneDerivation
  <2> SUFFICES ASSUME Structure, UnwrittenAlone, NEW c \in Callers, NEW d \in Callers,
                      NEW tier \in {"cheap", "parse"}, Flying(c, tier), Flying(d, tier),
                      call[c].file = call[d].file, disk[call[c].file].content = 0,
                      call[c].ver = call[d].ver, call[c].ver # NoVersion
               PROVE  c = d
    BY DEF OneDerivation
  <2>1. call[c].file \in Files
    BY DEF Structure, Flights, CallsOK, CallOK, Flying
  <2> QED
    BY <2>1 DEF UnwrittenAlone
<1> QED
  BY <1>1, <1>2, <1>3, PTL DEF Spec

-----------------------------------------------------------------------------
(***************************************************************************)
(* What the workspace's watcher has acted on.                              *)
(***************************************************************************)
AccountedIn(f) ==
    /\ Accounted(f, cheap[f].version, cheap[f].content)
    /\ Accounted(f, parsed[f].version, parsed[f].content)
    /\ Accounted(f, models[f].version, models[f].content)
    /\ \A c \in {reading[f], parsing[f]} \ {None} :
           call[c].pc = "derive" => Accounted(f, call[c].ver, call[c].bytes)

LEMMA AccountedSplit == OldIsAccounted <=> \A f \in Files : AccountedIn(f)
BY DEF OldIsAccounted, AccountedIn

LEMMA AccountedSplitNext == OldIsAccounted' <=> \A f \in Files : AccountedIn(f)'
BY DEF OldIsAccounted, AccountedIn

\* Nothing held and no flight to join: nothing to account for.
LEMMA ForgottenAccounted ==
    ASSUME Structure, NEW f \in Files, forgetSource(f)
    PROVE  AccountedIn(f)'
<1>1. cheap'[f] = Absent /\ parsed'[f] = Absent /\ models'[f] = Absent
  BY DEF Structure, Kept, Tier, forgetSource
<1>2. reading'[f] = None /\ parsing'[f] = None
  BY DEF Structure, Flights, Slots, forgetSource
<1> QED
  BY <1>1, <1>2 DEF AccountedIn, Accounted, Absent

\* A forget of another file takes away what it is asked to and no more.
LEMMA OtherForgotten ==
    ASSUME Structure, NEW f \in Files, NEW g \in Files, g # f, forgetSource(g),
           AccountedIn(f), disk'[f] = disk[f], Heard(f, disk[f].version)' => Heard(f, disk[f].version)
    PROVE  AccountedIn(f)'
<1>1. cheap'[f] = cheap[f] /\ parsed'[f] = parsed[f] /\ models'[f] = models[f]
  BY DEF Structure, Kept, Tier, forgetSource
<1>2. reading'[f] = reading[f] /\ parsing'[f] = parsing[f]
  BY DEF Structure, Flights, Slots, forgetSource
<1>3. \A c \in Callers : /\ call'[c].pc = call[c].pc /\ call'[c].ver = call[c].ver
                         /\ call'[c].bytes = call[c].bytes
  BY ForgetCalls
<1>4. \A c \in {reading[f], parsing[f]} \ {None} : c \in Callers
  BY DEF Structure, Flights, Slots
<1>5. ASSUME NEW v, NEW b, Accounted(f, v, b)
      PROVE  Accounted(f, v, b)'
  BY <1>5 DEF Accounted
<1> QED
  BY <1>1, <1>2, <1>3, <1>4, <1>5 DEF AccountedIn

\* What is held, and what is in a slot, is in the watcher's list of versions.
LEMMA HeldIsListed ==
    ASSUME Structure, NEW f \in Files
    PROVE  /\ \A tier \in {cheap, parsed, models} :
                  tier[f].content # Nothing => tier[f].version \in heldVersionsOf(f)
           /\ \A c \in {reading[f], parsing[f]} \ {None} : call[c].ver \in heldVersionsOf(f)
BY DEF Absent, heldVersionsOf

\* A caller's settling stores what a slot's flight read, whoever else is waiting for it.
LEMMA SettleStores ==
    ASSUME Structure, OldIsAccounted, ~SomeDisplaced, NEW c \in Callers, Settles(c),
           NEW f \in Files, f = call[c].file
    PROVE  /\ cheap' # cheap => Accounted(f, call[c].ver, call[c].bytes)
           /\ parsed' # parsed => Accounted(f, call[c].ver, call[c].bytes)
           /\ models' # models => Accounted(f, call[c].ver, call[c].bytes)
<1>1. /\ call[c].pc = "derive" /\ ~Displaced(c) /\ c # None
      /\ \A d \in Joiners(c) : call[d].ver = call[c].ver /\ call[d].ver # NoVersion
      /\ call[c].ask = "usage" => call[c].ver # NoVersion
  BY ConstantsAssumption DEF Settles, SomeDisplaced, Structure, Flights, JoinersHaveAFlight,
                             CallsOK, CallOK, Joiners
<1>2. ASSUME c \in {reading[f], parsing[f]}
      PROVE  Accounted(f, call[c].ver, call[c].bytes)
  BY <1>1, <1>2 DEF OldIsAccounted
<1>3. ASSUME cheap' # cheap
      PROVE  c = reading[f]
  BY <1>1, <1>3 DEF Settles, Displaced, Flying
<1>4. ASSUME parsed' # parsed
      PROVE  c = parsing[f]
  BY <1>1, <1>4 DEF Settles, Displaced, Flying, StoresParse
<1>5. ASSUME models' # models
      PROVE  c = parsing[f]
  <2>1. PICK d \in {c} \union Joiners(c) : call[d].ask = "usage" /\ call[d].fresh
    BY <1>5 DEF Settles, FillsSummary
  <2>2. call[c].ver # NoVersion /\ call[c].tier = "parse"
    BY <1>1, <1>5, <2>1 DEF Settles
  <2> QED
    BY <1>1, <2>1, <2>2 DEF Displaced, Flying
<1> QED
  BY <1>2, <1>3, <1>4, <1>5

\* A step of a caller, while no flight is displaced.
LEMMA CallerAccounted ==
    ASSUME Structure, OldIsAccounted, ~SomeDisplaced, NEW c \in Callers, CallerStep(c),
           UNCHANGED watchVars, NEW f \in Files
    PROVE  AccountedIn(f)'
<1>1. /\ call \in [Callers -> Call] /\ reading \in Slots /\ parsing \in Slots
      /\ cheap \in Tier /\ parsed \in Tier /\ models \in Tier
      /\ SlotsAreFlights /\ CallsOK /\ None \notin Files /\ None \notin Callers
  BY ConstantsAssumption DEF Structure, Flights, Kept
<1>2. AccountedIn(f)
  BY AccountedSplit
<1>3. ASSUME NEW v, NEW b
      PROVE  Accounted(f, v, b)' <=> Accounted(f, v, b)
  BY DEF Accounted, Heard, watchVars
<1>4. \A g \in Files : ~InAir(call[c]) => reading[g] # c /\ parsing[g] # c
  BY <1>1 DEF SlotsAreFlights, Flying, InAir
<1>5. \A d \in {reading[f], parsing[f]} \ {None} : d \in Callers
  BY <1>1 DEF Slots
<1>6. ASSUME NEW r \in Call, OnGround(c, r)
      PROVE  AccountedIn(f)'
  <2>1. \A d \in Callers \ {c} : call'[d] = call[d]
    BY <1>1, <1>6 DEF OnGround
  <2>2. /\ cheap'[f] = cheap[f] /\ parsed'[f] = parsed[f] /\ models'[f] \in {models[f], parsed[f]}
        /\ reading'[f] = reading[f] /\ parsing'[f] = parsing[f] /\ ~InAir(call[c])
    BY <1>1, <1>6 DEF OnGround, Tier
  <2>3. \A d \in {reading[f], parsing[f]} \ {None} : call'[d] = call[d]
    BY <1>4, <1>5, <2>1, <2>2
  <2> QED
    BY <1>2, <1>3, <2>2, <2>3 DEF AccountedIn
<1>7. ASSUME NEW r \in Call, Reads(c, r)
      PROVE  AccountedIn(f)'
  <2>1. /\ \A d \in Callers \ {c} : call'[d] = call[d]
        /\ call'[c] = r
    BY <1>1, <1>7 DEF Reads
  <2>2. UNCHANGED <<cheap, parsed, models, reading, parsing>>
    BY <1>7 DEF Reads
  <2>3. ASSUME NEW d \in {reading[f], parsing[f]} \ {None}, call'[d].pc = "derive"
        PROVE  Accounted(f, call'[d].ver, call'[d].bytes)
    <3>1. CASE d # c
      BY <1>2, <1>5, <2>1, <2>3, <3>1 DEF AccountedIn
    <3>2. CASE d = c
      <4>1. call[c].file = f
        BY <1>1, <1>5, <2>3, <3>2 DEF SlotsAreFlights
      <4>2. r.bytes \in {disk[f].content, Nothing}
        BY <1>7, <4>1 DEF Reads
      <4> QED
        BY <2>1, <3>2, <4>2 DEF Accounted
    <3> QED
      BY <3>1, <3>2
  <2> QED
    BY <1>2, <1>3, <2>2, <2>3 DEF AccountedIn
<1>8. ASSUME NEW r \in Call, TakesOff(c, r)
      PROVE  AccountedIn(f)'
  <2>1. /\ \A d \in Callers \ {c} : call'[d] = call[d]
        /\ call'[c] = r
    BY <1>1, <1>8 DEF TakesOff
  <2>2. /\ UNCHANGED <<cheap, parsed, models>> /\ ~InAir(call[c])
        /\ {reading'[f], parsing'[f]} \subseteq {reading[f], parsing[f]} \union
                                                (IF call[c].file = f THEN {c} ELSE {})
    BY <1>1, <1>8 DEF TakesOff, Slots
  <2>3. ASSUME call[c].file = f, r.pc = "derive"
        PROVE  Accounted(f, r.ver, r.bytes)
    <3>1. \/ r.bytes = Nothing
          \/ r.ver = parsed[f].version /\ r.bytes = parsed[f].content
      BY <1>8, <2>3 DEF TakesOff
    <3> QED
      BY <1>2, <3>1 DEF AccountedIn, Accounted
  <2>4. ASSUME NEW d \in {reading'[f], parsing'[f]} \ {None}, call'[d].pc = "derive"
        PROVE  Accounted(f, call'[d].ver, call'[d].bytes)
    <3>1. CASE d \in {reading[f], parsing[f]}
      <4>1. call'[d] = call[d]
        BY <1>4, <1>5, <2>1, <2>2, <2>4, <3>1
      <4> QED
        BY <1>2, <2>4, <3>1, <4>1 DEF AccountedIn
    <3>2. CASE d \notin {reading[f], parsing[f]}
      BY <2>1, <2>2, <2>3, <2>4, <3>2
    <3> QED
      BY <3>1, <3>2
  <2> QED
    BY <1>2, <1>3, <2>2, <2>4 DEF AccountedIn
<1>9. ASSUME Settles(c)
      PROVE  AccountedIn(f)'
  <2>1. \A d \in Callers : InAir(call'[d]) => call'[d] = call[d] /\ d # c
    BY <1>9 DEF Settles
  <2>2. {reading'[f], parsing'[f]} \subseteq {reading[f], parsing[f], None}
    BY <1>1, <1>9 DEF Settles, Landed, Slots
  <2>3. ASSUME NEW d \in {reading'[f], parsing'[f]} \ {None}, call'[d].pc = "derive"
        PROVE  Accounted(f, call'[d].ver, call'[d].bytes)
    BY <1>2, <1>5, <2>1, <2>2, <2>3 DEF AccountedIn, InAir
  <2>4. ASSUME NEW next, NEW tier, Keeps(c, tier, next),
               next # tier /\ f = call[c].file => Accounted(f, call[c].ver, call[c].bytes),
               Accounted(f, tier[f].version, tier[f].content)
        PROVE  Accounted(f, next[f].version, next[f].content)
    <3>1. CASE next = tier \/ next[f] = tier[f]
      BY <2>4, <3>1
    <3>2. CASE next[f] = Absent
      BY <3>2 DEF Absent, Accounted
    <3>3. CASE next # tier /\ f = call[c].file
               /\ next[f] = [version |-> call[c].ver, content |-> call[c].bytes]
      BY <2>4, <3>3
    <3> QED
      BY <2>4, <3>1, <3>2, <3>3 DEF Keeps
  <2>5. f = call[c].file =>
            /\ cheap' # cheap => Accounted(f, call[c].ver, call[c].bytes)
            /\ parsed' # parsed => Accounted(f, call[c].ver, call[c].bytes)
            /\ models' # models => Accounted(f, call[c].ver, call[c].bytes)
    BY <1>9, SettleStores
  <2>6. /\ cheap' = cheap \/ Keeps(c, cheap, cheap')
        /\ parsed' = parsed \/ Keeps(c, parsed, parsed')
        /\ models' = models \/ Keeps(c, models, models')
    BY <1>9 DEF Settles
  <2>7. /\ Accounted(f, cheap'[f].version, cheap'[f].content)
        /\ Accounted(f, parsed'[f].version, parsed'[f].content)
        /\ Accounted(f, models'[f].version, models'[f].content)
    BY <1>2, <2>4, <2>5, <2>6 DEF AccountedIn
  <2> QED
    BY <1>3, <2>3, <2>7 DEF AccountedIn
<1> QED
  BY <1>6, <1>7, <1>8, <1>9, CallerKinds

\* Whoever moves no tier, no slot and nothing a flight holds, and makes nothing heard.
LEMMA StillAccounted ==
    ASSUME Structure, NEW f \in Files, AccountedIn(f), disk'[f] = disk[f],
           Heard(f, disk[f].version)' => Heard(f, disk[f].version),
           UNCHANGED <<cheap, parsed, models, reading, parsing>>,
           \A c \in Callers : InAir(call[c]) => call'[c] = call[c]
    PROVE  AccountedIn(f)'
<1>1. \A c \in {reading[f], parsing[f]} \ {None} : call'[c] = call[c]
  BY DEF Structure, Flights, Slots, SlotsAreFlights, Flying, InAir
<1>2. ASSUME NEW v, NEW b, Accounted(f, v, b)
      PROVE  Accounted(f, v, b)'
  BY <1>2 DEF Accounted
<1> QED
  BY <1>1, <1>2 DEF AccountedIn

\* The workspace's watcher takes note of what it finds, or is told to look again.
LEMMA WatcherAccounted ==
    ASSUME Structure, ~WatcherStatFaults, WatcherStep, NEW f \in Files, AccountedIn(f)
    PROVE  AccountedIn(f)'
<1>1. UNCHANGED disk
  BY DEF WatcherStep, TabWatcher, forgetUnseenWrite, forgetIfVersionUnmoved
<1>2. ASSUME NEW g \in Files, TabWatcher(g)
      PROVE  AccountedIn(f)'
  <2>1. forgetSource(g) /\ UNCHANGED <<wsEvents, checking>>
    BY <1>2 DEF TabWatcher
  <2>2. Heard(f, disk[f].version)' => Heard(f, disk[f].version)
    BY <1>1, <2>1 DEF Heard
  <2> QED
    BY <1>1, <2>1, <2>2, ForgottenAccounted, OtherForgotten
<1>3. ASSUME NEW g \in Files, forgetUnseenWrite(g)
      PROVE  AccountedIn(f)'
  <2>1. /\ wsEvents' = wsEvents \ {g} /\ UNCHANGED <<cacheVars, call>>
        /\ checking \subseteq checking'
        /\ heldVersionsOf(g) # {} => [file |-> g, held |-> heldVersionsOf(g)] \in checking'
    BY <1>3 DEF forgetUnseenWrite
  <2>2. CASE g # f
    <3>1. Heard(f, disk[f].version)' => Heard(f, disk[f].version)
      BY <1>1, <2>1, <2>2 DEF Heard
    <3> QED
      BY <1>1, <2>1, <3>1, StillAccounted DEF cacheVars
  <2>3. CASE g = f
    <3>1. ASSUME NEW v \in heldVersionsOf(f)
          PROVE  ~Heard(f, v)'
      <4> DEFINE k == [file |-> f, held |-> heldVersionsOf(f)]
      <4>1. k \in checking' /\ k.file = f /\ v \in k.held
        BY <2>1, <2>3, <3>1
      <4> QED
        BY <4>1 DEF Heard
    <3>2. ASSUME NEW v, NEW b, b # Nothing => v \in heldVersionsOf(f)
          PROVE  Accounted(f, v, b)'
      BY <3>1, <3>2 DEF Accounted
    <3>3. UNCHANGED <<cheap, parsed, models, reading, parsing, call>>
      BY <2>1 DEF cacheVars
    <3> QED
      BY <3>2, <3>3, HeldIsListed DEF AccountedIn
  <2> QED
    BY <2>2, <2>3
<1>4. ASSUME NEW k \in checking, forgetIfVersionUnmoved(k)
      PROVE  AccountedIn(f)'
  <2>1. checking' = checking \ {k} /\ UNCHANGED wsEvents /\ k.file \in Files
    BY <1>4 DEF forgetIfVersionUnmoved, Structure, Kept
  <2>2. CASE k.file = f /\ forgetSource(f)
    BY <2>2, ForgottenAccounted
  <2>3. CASE k.file # f
    <3>1. Heard(f, disk[f].version)' => Heard(f, disk[f].version)
      BY <1>1, <2>1, <2>3 DEF Heard
    <3>2. CASE forgetSource(k.file)
      BY <1>1, <2>1, <2>3, <3>1, <3>2, OtherForgotten
    <3>3. CASE UNCHANGED <<cacheVars, call>>
      BY <1>1, <3>1, <3>3, StillAccounted DEF cacheVars
    <3> QED
      BY <1>4, <3>2, <3>3 DEF forgetIfVersionUnmoved
  <2>4. CASE k.file = f /\ disk[f].version \notin k.held /\ UNCHANGED <<cacheVars, call>>
    <3>1. Heard(f, disk[f].version)' => Heard(f, disk[f].version)
      BY <1>1, <2>1, <2>4 DEF Heard
    <3> QED
      BY <1>1, <2>4, <3>1, StillAccounted DEF cacheVars
  <2> QED
    BY <1>4, <2>2, <2>3, <2>4 DEF forgetIfVersionUnmoved
<1> QED
  BY <1>2, <1>3, <1>4 DEF WatcherStep

\* While no flight is displaced, whatever is held or joinable and is not what is on disk
\* is something the workspace's watcher has still to act on.
LEMMA NextAccounted ==
    ASSUME Structure, OldIsAccounted, ~SomeDisplaced, ~WatcherStatFaults, [Next]_vars
    PROVE  OldIsAccounted'
<1> SUFFICES ASSUME NEW f \in Files
             PROVE  AccountedIn(f)'
  BY AccountedSplitNext
<1>1. AccountedIn(f)
  BY AccountedSplit
<1>2. CASE \E c \in Callers, ask \in Asks, g \in Files : Ask(c, ask, g)
  <2>1. PICK c \in Callers, ask \in Asks, g \in Files : Ask(c, ask, g)
    BY <1>2
  <2>2. \A d \in Callers : InAir(call[d]) => call'[d] = call[d]
    BY <2>1 DEF Structure, Flights, Ask, InAir
  <2>3. UNCHANGED <<watchVars, cacheVars>>
    BY <2>1 DEF Ask
  <2>4. Heard(f, disk[f].version)' => Heard(f, disk[f].version)
    BY <2>3 DEF Heard, watchVars
  <2> QED
    BY <1>1, <2>2, <2>3, <2>4, StillAccounted DEF watchVars, cacheVars
<1>3. CASE \E c \in Callers : CallerStep(c)
  BY <1>3, CallerLeavesDisk, CallerAccounted
<1>4. CASE \E g \in Files, v \in Versions : Write(g, v)
  <2>1. PICK g \in Files, v \in Versions : Write(g, v)
    BY <1>4
  <2>2. CASE g = f
    <3>1. f \in wsEvents'
      BY <2>1, <2>2 DEF Write
    <3>2. \A v1, b : Accounted(f, v1, b)'
      BY <3>1 DEF Accounted, Heard
    <3> QED
      BY <3>2 DEF AccountedIn
  <2>3. CASE g # f
    <3>1. /\ disk'[f] = disk[f] /\ UNCHANGED <<cacheVars, checking>>
          /\ wsEvents' = wsEvents \union {g}
      BY <2>1, <2>3 DEF Write, Structure, Kept
    <3>2. \A c \in Callers : /\ call'[c].pc = call[c].pc /\ call'[c].ver = call[c].ver
                             /\ call'[c].bytes = call[c].bytes
      BY <2>1, WriteCalls
    <3>3. \A c \in {reading[f], parsing[f]} \ {None} : c \in Callers
      BY DEF Structure, Flights, Slots
    <3>4. ASSUME NEW v1, NEW b, Accounted(f, v1, b)
          PROVE  Accounted(f, v1, b)'
      BY <2>3, <3>1, <3>4 DEF Accounted, Heard
    <3> QED
      BY <1>1, <3>1, <3>2, <3>3, <3>4 DEF AccountedIn, cacheVars
  <2> QED
    BY <2>2, <2>3
<1>5. CASE WatcherStep
  BY <1>1, <1>5, WatcherAccounted
<1>6. CASE clearSourceCache
  <2>1. cheap'[f] = Absent /\ parsed'[f] = Absent /\ models'[f] = Absent
    BY <1>6 DEF clearSourceCache
  <2>2. UNCHANGED <<watchVars, reading, parsing, call>>
    BY <1>6 DEF clearSourceCache
  <2>3. ASSUME NEW v, NEW b, Accounted(f, v, b)
        PROVE  Accounted(f, v, b)'
    BY <2>2, <2>3 DEF Accounted, Heard, watchVars
  <2> QED
    BY <1>1, <2>1, <2>2, <2>3 DEF AccountedIn, Absent, Accounted
<1>7. CASE UNCHANGED vars
  <2>1. Heard(f, disk[f].version)' => Heard(f, disk[f].version)
    BY <1>7 DEF Heard, vars, watchVars
  <2> QED
    BY <1>1, <1>7, <2>1, StillAccounted DEF vars, watchVars, cacheVars
<1> QED
  BY <1>2, <1>3, <1>4, <1>5, <1>6, <1>7 DEF Next

LEMMA InitAccounted == Init => OldIsAccounted
BY DEF Init, OldIsAccounted, Accounted, Absent, Nothing

\* What is accounted for is current once its watchers have acted.
LEMMA AccountedIsCurrent ==
    ASSUME Structure, SettledIsNow, OldIsAccounted
    PROVE  TiersCurrent
<1> SUFFICES ASSUME NEW f \in Files, ~Unreported(f)
             PROVE  TiersCurrentFor(f)
  BY DEF TiersCurrent
<1>1. CASE f \in TabFiles
  BY <1>1, SettledTiersCurrent DEF WatchedTiersCurrent
<1>2. CASE f \notin TabFiles
  <2>1. \A v : Heard(f, v)
    BY <1>2 DEF Unreported, Heard
  <2>2. AccountedIn(f) /\ disk[f].version # NoVersion
    BY AccountedSplit DEF Structure, Kept, Versions, NoVersion
  <2>3. ASSUME NEW t \in Tier, Accounted(f, t[f].version, t[f].content)
        PROVE  EntryCurrent(t, f)
    <3>1. CASE t[f] = Absent
      BY <2>2, <3>1 DEF EntryCurrent, Absent
    <3>2. CASE t[f] \in Entry
      BY <2>1, <2>3, <3>2, ConstantsAssumption DEF EntryCurrent, Entry, Accounted, Content, Nothing
    <3> QED
      BY <3>1, <3>2 DEF Tier
  <2> QED
    BY <2>2, <2>3 DEF AccountedIn, TiersCurrentFor, Structure, Kept
<1> QED
  BY <1>1, <1>2

\* Whatever the files, the callers and the budget: if no flight is ever displaced, and the
\* watcher's stat answers, no tier holds old content under the current version of a file
\* once its watchers have acted (forgetUnseenWrite).
THEOREM OnlyTheDisplacedEscape ==
    ASSUME ~WatcherStatFaults
    PROVE  Spec /\ []~SomeDisplaced => []TiersCurrent
<1>1. Init => Structure /\ SettledIsNow /\ OldIsAccounted
  BY InitStructure, InitNow, InitAccounted
<1>2. ASSUME Structure, SettledIsNow, OldIsAccounted, ~SomeDisplaced, [Next]_vars
      PROVE  (Structure /\ SettledIsNow /\ OldIsAccounted)'
  BY <1>2, NextStructure, NextNow, NextAccounted
<1>3. Structure /\ SettledIsNow /\ OldIsAccounted => TiersCurrent
  BY AccountedIsCurrent
<1> QED
  BY <1>1, <1>2, <1>3, PTL DEF Spec

-----------------------------------------------------------------------------
(***************************************************************************)
(* The four parts TLC checks.                                              *)
(***************************************************************************)
\* Each part takes steps of SourceCache only.
LEMMA PartsTakeItsSteps == BoundsNext => [Next]_vars
<1> SUFFICES ASSUME BoundsNext PROVE [Next]_vars
  OBVIOUS
<1>1. ASSUME NEW callers \in SUBSET Callers, NEW asks \in SUBSET Asks, NEW files \in SUBSET Files,
             Asked(callers, asks, files)
      PROVE  Next
  BY <1>1 DEF Asked, Next
<1>2. Answering \/ (\E c \in Callers : CallerStep(c)) => Next
  BY DEF Answering, Next
<1>3. /\ Models \subseteq Files /\ {m1, d1, p1} \subseteq Files /\ {m2, m3} \subseteq Files
      /\ {c1, c2} \subseteq Callers
      /\ {"parse", "tab"} \subseteq Asks /\ {"cheap", "tab"} \subseteq Asks /\ {"usage"} \subseteq Asks
  BY PartsAssumption DEF Files
<1>4. CASE BudgetNext
  BY <1>1, <1>2, <1>3, <1>4 DEF BudgetNext, Next
<1>5. CASE FolderNext
  BY <1>1, <1>2, <1>3, <1>5 DEF FolderNext, Next
<1>6. CASE WorkspaceNext
  <2>1. (\E v \in Versions : Write(m2, v)) => Next
    BY <1>3 DEF Next
  <2>2. {m2} \subseteq Files
    BY <1>3
  <2> QED
    BY <1>1, <1>2, <1>3, <1>6, <2>1, <2>2 DEF WorkspaceNext, Next
<1>7. CASE WatchedNext
  <2>1. (\E v \in Versions : Write(m3, v)) => Next
    BY <1>3 DEF Next
  <2>2. {m3} \subseteq Files
    BY <1>3
  <2> QED
    BY <1>1, <1>2, <1>3, <1>7, <2>1, <2>2 DEF WatchedNext, Next
<1> QED
  BY <1>4, <1>5, <1>6, <1>7 DEF BoundsNext

PartsAccounted ==
    /\ Structure
    /\ SettledIsNow
    /\ of = "workspace" /\ ~displaced => OldIsAccounted /\ ~SomeDisplaced

\* Of any workspace, not only of the one TLC is given: until a flight is displaced, no
\* tier holds old content under the current version once its watchers have acted.
THEOREM WorkspaceStaysCurrent == BoundsSpec => []CurrentUnlessDisplaced
<1>1. BoundsInit => PartsAccounted
  <2> SUFFICES ASSUME BoundsInit PROVE PartsAccounted
    OBVIOUS
  <2>1. ~SomeDisplaced
    BY DEF BoundsInit, Init, SomeDisplaced, Displaced, Flying, Idle
  <2> QED
    BY <2>1, InitStructure, InitNow, InitAccounted DEF BoundsInit, PartsAccounted
<1>2. PartsAccounted /\ [BoundsNext]_<<vars, of, displaced>> => PartsAccounted'
  <2> SUFFICES ASSUME PartsAccounted, [BoundsNext]_<<vars, of, displaced>>
               PROVE  PartsAccounted'
    OBVIOUS
  <2>1. [Next]_vars
    BY PartsTakeItsSteps
  <2>2. (Structure /\ SettledIsNow)'
    BY <2>1, NextStructure, NextNow DEF PartsAccounted
  <2>3. ASSUME of' = "workspace", ~displaced'
        PROVE  (OldIsAccounted /\ ~SomeDisplaced)'
    <3>1. CASE BoundsNext
      <4>1. of = "workspace" /\ ~displaced /\ ~SomeDisplaced'
        BY <2>3, <3>1 DEF BoundsNext
      <4> QED
        BY <2>1, <4>1, NextAccounted, PartsAssumption DEF PartsAccounted
    <3>2. CASE UNCHANGED <<vars, of, displaced>>
      <4>1. OldIsAccounted /\ ~SomeDisplaced
        BY <2>3, <3>2 DEF PartsAccounted
      <4>2. ~SomeDisplaced'
        BY <3>2, <4>1 DEF SomeDisplaced, Displaced, Flying, Joiners, vars, cacheVars
      <4> QED
        BY <2>1, <4>1, <4>2, NextAccounted, PartsAssumption DEF PartsAccounted
    <3> QED
      BY <3>1, <3>2
  <2> QED
    BY <2>2, <2>3 DEF PartsAccounted
<1>3. PartsAccounted => CurrentUnlessDisplaced
  BY AccountedIsCurrent DEF PartsAccounted, CurrentUnlessDisplaced
<1> QED
  BY <1>1, <1>2, <1>3, PTL DEF BoundsSpec

=============================================================================
