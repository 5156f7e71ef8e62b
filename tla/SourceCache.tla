---------------------------- MODULE SourceCache ----------------------------
(***************************************************************************)
(* The shared cache a host reads its folder through (folder/sourceCache.ts *)
(* with the merge of folder/usagePlan.ts), the disk it reads, and the two  *)
(* watchers that report writes to it.                                      *)
(*                                                                         *)
(* JavaScript runs one continuation at a time, so an action here is the    *)
(* code between two awaits: a caller's step up to the next `await`, or one *)
(* watcher callback.  Everything interleaves between those.                *)
(*                                                                         *)
(* A file's content is a stamp: the number of times it has been written.   *)
(* Everything derived from bytes (a scan, a parse, a summary) is a         *)
(* function of them, so an artifact is the stamp it was derived from.      *)
(***************************************************************************)
EXTENDS Integers, Sequences, FiniteSets, SequencesExt

CONSTANTS
    Callers,            \* the concurrent asks a host can have in progress
    Models,             \* files whose kind is 'model'
    DataFiles,          \* files whose kind is 'sldd' or 'mat'
    Projects,           \* files whose kind is 'prj': classified, never cached
    TabFiles,           \* files a read-only tab shows, and so watches itself
    Asks,               \* the entry points in use, of "cheap", "parse", "tab", "usage"
    Size,               \* what a model's parse counts as against the budget
    parsedBudget,
    PINNED_PARSES,
    Corrupt,            \* the contents parseModel throws on
    MaxVersion,         \* bounds the version tokens
    MaxWrites,          \* bounds the writes of one file
    ReadFaults,         \* whether a caller's stat or read may answer null
    WatcherStatFaults,  \* whether the workspace watcher's stat may answer null
    None                \* no caller, no file

Files == Models \union DataFiles \union Projects

Nothing   == -1         \* no bytes: unread, or a reader's null
NoVersion == -1         \* the reader's null version
Versions  == 0 .. MaxVersion

ASSUME ConstantsAssumption ==
    /\ MaxVersion \in Nat
    /\ MaxWrites \in Nat
    /\ PINNED_PARSES \in Nat \ {0}
    /\ parsedBudget \in Nat
    /\ TabFiles \subseteq Files
    /\ Asks \subseteq {"cheap", "parse", "tab", "usage"}
    /\ Size \in [Models -> Nat]
    /\ IsFiniteSet(Models)
    /\ None \notin Callers
    /\ None \notin Files

VARIABLES
    disk,           \* file -> its version token and its content
    tabEvents,      \* writes a tab's watcher has yet to hear of
    wsEvents,       \* writes the workspace watcher has yet to hear of
    checking,       \* forgetUnseenWrite calls awaiting their stat
    cheap,          \* file -> cheap artifact
    parsed,         \* model -> its parse
    older,          \* <<f, g>>: f comes before g in the iteration order of `parsed`
    models,         \* model -> its full summary
    pinnedParses,   \* the pin ring, most recent last
    parsing,        \* file -> the caller whose parse can be joined
    reading,        \* file -> the caller whose cheap read can be joined
    call            \* caller -> where its ask has got to

watchVars == <<disk, tabEvents, wsEvents, checking>>
cacheVars == <<cheap, parsed, older, models, pinnedParses, parsing, reading>>
vars == <<watchVars, cacheVars, call>>

(***************************************************************************)
(* Shapes.  An absent entry is one held at no version: `hit.version ===    *)
(* version` fails on it for every version a reader can report.             *)
(***************************************************************************)
Content == 0 .. MaxWrites
Absent  == [version |-> NoVersion, content |-> Nothing]
Entry   == [version : Versions, content : Content]
Tier    == [Files -> Entry \union {Absent}]
Slots   == [Files -> Callers \union {None}]

Phases == {"idle", "stat", "statted", "read", "derive", "joined",
           "filter", "fill", "merge", "answered"}

Idle == [pc |-> "idle", ask |-> "none", file |-> None, ver |-> NoVersion,
         tier |-> "none", fresh |-> FALSE, bytes |-> Nothing, on |-> None, quiet |-> FALSE]

Call == [pc    : Phases,
         ask   : {"none", "cheap", "parse", "tab", "usage"},
         file  : Files \union {None},
         ver   : Versions \union {NoVersion},
         tier  : {"none", "cheap", "parse"},
         fresh : BOOLEAN,                       \* nothingForgottenSince its `at`
         bytes : Content \union {Nothing},
         on    : Callers \union {None},         \* the flight it has joined
         quiet : BOOLEAN]                       \* see Unreported; read by no step

TypeOK ==
    /\ disk \in [Files -> [version : Versions, content : Content]]
    /\ tabEvents \subseteq TabFiles
    /\ wsEvents \subseteq Files
    /\ checking \subseteq [file : Files, held : SUBSET Versions]
    /\ cheap \in Tier
    /\ parsed \in Tier
    /\ models \in Tier
    /\ older \subseteq Files \X Files
    /\ pinnedParses \in Seq(Files)
    /\ parsing \in Slots
    /\ reading \in Slots
    /\ call \in [Callers -> Call]

Init ==
    /\ disk = [f \in Files |-> [version |-> 0, content |-> 0]]
    /\ tabEvents = {}
    /\ wsEvents = {}
    /\ checking = {}
    /\ cheap = [f \in Files |-> Absent]
    /\ parsed = [f \in Files |-> Absent]
    /\ models = [f \in Files |-> Absent]
    /\ older = {}
    /\ pinnedParses = <<>>
    /\ parsing = [f \in Files |-> None]
    /\ reading = [f \in Files |-> None]
    /\ call = [c \in Callers |-> Idle]

-----------------------------------------------------------------------------
(***************************************************************************)
(* The parse tier's map: its order, its pins and its budget.               *)
(***************************************************************************)
Held == {f \in Files : parsed[f].version # NoVersion}

Pinned == {pinnedParses[i] : i \in DOMAIN pinnedParses}

\* The pin ring with f spliced out, wherever it was.
Unpinned(f) ==
    IF f \in Pinned
    THEN RemoveAt(pinnedParses, CHOOSE i \in DOMAIN pinnedParses : pinnedParses[i] = f)
    ELSE pinnedParses

pinParse(f) ==
    LET ring == Append(Unpinned(f), f)
    IN  pinnedParses' = IF Len(ring) > PINNED_PARSES THEN Tail(ring) ELSE ring

TotalSize(fs) == MapThenSumSet(LAMBDA f : Size[f], fs)

parsedBudgetedBytes == TotalSize(Held \ Pinned)

\* The Map's order once `gone` are deleted, and once f is deleted and set again.
OrderWithout(order, gone) == {p \in order : p[1] \notin gone /\ p[2] \notin gone}
OrderTouched(order, held, f) == OrderWithout(order, {f}) \union ((held \ {f}) \X {f})

\* Mutant: what has just been stored is forgiven its own size.
evictParsedForgiving(held, order, keep) ==
    LET evictable == (held \ Pinned) \ {keep}
        before(f) == {g \in evictable : <<g, f>> \in order}
    IN  {f \in evictable : TotalSize(evictable \ before(f)) > parsedBudget + Size[keep]}

\* Mutant: the pins are not looked at.
evictParsedPins(held, order, keep) ==
    {f \in held \ {keep} :
        TotalSize(held) - TotalSize({g \in held \ {keep} : <<g, f>> \in order}) > parsedBudget}

(***************************************************************************)
(* evictParsed: oldest first over what is neither `keep` nor pinned, each  *)
(* deleted if the total is still over the budget when its turn comes.      *)
(***************************************************************************)
evictParsed(held, order, keep) ==
    LET evictable == (held \ Pinned) \ {keep}
        total     == TotalSize(held \ Pinned)
        before(f) == {g \in evictable : <<g, f>> \in order}
    IN  {f \in evictable : total - TotalSize(before(f)) > parsedBudget}

-----------------------------------------------------------------------------
(***************************************************************************)
(* Dropping what is held.  `generation` is read for nothing but whether it *)
(* has moved since a caller's `at`, so each caller keeps that answer: its  *)
(* `fresh` is set where the code captures `at`, and a forget clears all.   *)
(***************************************************************************)
\* Mutant: the flights stay joinable.
forgetSourceKeepingFlights(f) ==
    /\ cheap' = [cheap EXCEPT ![f] = Absent]
    /\ parsed' = [parsed EXCEPT ![f] = Absent]
    /\ older' = OrderWithout(older, {f})
    /\ models' = [models EXCEPT ![f] = Absent]
    /\ pinnedParses' = Unpinned(f)
    /\ UNCHANGED <<parsing, reading>>
    /\ call' = [c \in Callers |-> [call[c] EXCEPT !.fresh = FALSE]]

forgetSource(f) ==
    /\ cheap' = [cheap EXCEPT ![f] = Absent]
    /\ parsed' = [parsed EXCEPT ![f] = Absent]
    /\ older' = OrderWithout(older, {f})
    /\ models' = [models EXCEPT ![f] = Absent]
    /\ pinnedParses' = Unpinned(f)
    /\ parsing' = [parsing EXCEPT ![f] = None]
    /\ reading' = [reading EXCEPT ![f] = None]
    /\ call' = [c \in Callers |-> [call[c] EXCEPT !.fresh = FALSE]]

\* Mutant: the flights' slots are cleared too.
clearSourceCacheAndFlights ==
    /\ cheap' = [f \in Files |-> Absent]
    /\ parsed' = [f \in Files |-> Absent]
    /\ older' = {}
    /\ models' = [f \in Files |-> Absent]
    /\ pinnedParses' = <<>>
    /\ parsing' = [f \in Files |-> None]
    /\ reading' = [f \in Files |-> None]
    /\ UNCHANGED <<watchVars, call>>

\* A workspace folder came or went.  In-flight work stays, and may store.
clearSourceCache ==
    /\ cheap' = [f \in Files |-> Absent]
    /\ parsed' = [f \in Files |-> Absent]
    /\ older' = {}
    /\ models' = [f \in Files |-> Absent]
    /\ pinnedParses' = <<>>
    /\ UNCHANGED <<watchVars, parsing, reading, call>>

\* Mutant: only what is stored counts.
heldVersionsAtRest(f) == {e.version : e \in {cheap[f], parsed[f], models[f]} \ {Absent}}

heldVersionsOf(f) ==
    {e.version : e \in {cheap[f], parsed[f], models[f]} \ {Absent}}
        \union {call[c].ver : c \in {parsing[f], reading[f]} \ {None}}

-----------------------------------------------------------------------------
(***************************************************************************)
(* The disk and its watchers.  A write may leave the version where it was  *)
(* (equal size within one mtime tick), move it on, or take it back (a      *)
(* restore keeps the recorded mtime).                                      *)
(***************************************************************************)

\* A write of f that the watcher whose forget f relies on has not acted on yet.
Unreported(f) ==
    \/ f \in TabFiles /\ f \in tabEvents
    \/ f \notin TabFiles /\ (f \in wsEvents \/ \E k \in checking : k.file = f)

Write(f, v) ==
    /\ disk[f].content < MaxWrites
    /\ v <= disk[f].version + 1
    /\ disk' = [disk EXCEPT ![f] = [version |-> v, content |-> disk[f].content + 1]]
    /\ tabEvents' = tabEvents \union ({f} \intersect TabFiles)
    /\ wsEvents' = wsEvents \union {f}
    /\ call' = [c \in Callers |->
                    [call[c] EXCEPT !.quiet = call[c].quiet /\ call[c].file # f]]
    /\ UNCHANGED <<cacheVars, checking>>

\* A read-only tab's watcher forgets on every event.
TabWatcher(f) ==
    /\ f \in tabEvents
    /\ tabEvents' = tabEvents \ {f}
    /\ forgetSource(f)
    /\ UNCHANGED <<disk, wsEvents, checking>>

\* The workspace watcher: what is held is read in the event's own turn.
forgetUnseenWrite(f) ==
    /\ f \in wsEvents
    /\ wsEvents' = wsEvents \ {f}
    /\ checking' = IF heldVersionsOf(f) = {}
                   THEN checking
                   ELSE checking \union {[file |-> f, held |-> heldVersionsOf(f)]}
    /\ UNCHANGED <<disk, tabEvents, cacheVars, call>>

\* ... and compared with the stat when that comes back.
forgetIfVersionUnmoved(k) ==
    /\ k \in checking
    /\ checking' = checking \ {k}
    /\ \/ /\ disk[k.file].version \in k.held
          /\ forgetSource(k.file)
       \/ /\ disk[k.file].version \notin k.held \/ WatcherStatFaults
          /\ UNCHANGED <<cacheVars, call>>
    /\ UNCHANGED <<disk, tabEvents, wsEvents>>

-----------------------------------------------------------------------------
(***************************************************************************)
(* Asking.  Every entry point is given a version the reader reported, and  *)
(* reports one of its own first.                                           *)
(***************************************************************************)
Ask(c, ask, f) ==
    /\ call[c].pc = "idle"
    /\ ask \in {"parse", "tab"} => f \in Models
    /\ call' = [call EXCEPT ![c] = [Idle EXCEPT !.pc = "stat", !.ask = ask, !.file = f,
                                                !.quiet = ~Unreported(f)]]
    /\ UNCHANGED <<watchVars, cacheVars>>

Stat(c) ==
    /\ call[c].pc = "stat"
    /\ \E v \in {disk[call[c].file].version} \union (IF ReadFaults THEN {NoVersion} ELSE {}) :
           call' = [call EXCEPT ![c] = [@ EXCEPT !.pc = "statted", !.ver = v]]
    /\ UNCHANGED <<watchVars, cacheVars>>

ReadBytes(c) ==
    /\ call[c].pc = "read"
    /\ \E b \in {disk[call[c].file].content} \union (IF ReadFaults THEN {Nothing} ELSE {}) :
           call' = [call EXCEPT ![c] = [@ EXCEPT !.pc = "derive", !.bytes = b]]
    /\ UNCHANGED <<watchVars, cacheVars>>

\* The call's answer has been used; nothing of it is kept.
Return(c) ==
    /\ call[c].pc = "answered"
    /\ call' = [call EXCEPT ![c] = Idle]
    /\ UNCHANGED <<watchVars, cacheVars>>

Hit(tier, f, v) == v # NoVersion /\ tier[f].version = v

\* Mutant: a flight at any version will do.
JoinableAtAny(slots, f, v) == slots[f] # None

\* coalesced: the flight a caller asking for v may join, if one is running.
Joinable(slots, f, v) == slots[f] # None /\ call[slots[f]].ver = v

\* Mutant: only a flight that still has its slot answers its joiners.
JoinersOfSlot(c) == {d \in Callers : /\ call[d].pc = "joined" /\ call[d].on = c
                                     /\ c \in {reading[call[c].file], parsing[call[c].file]}}

Joiners(c) == {d \in Callers : call[d].pc = "joined" /\ call[d].on = c}

\* Mutant: no `finally`.
LandedNever(slots, c) == slots

\* coalesced's `finally`: the slot is given up only if it is still this flight's.
Landed(slots, c) ==
    IF slots[call[c].file] = c THEN [slots EXCEPT ![call[c].file] = None] ELSE slots

\* What a call carries on with at its next stage; what it no longer reads is reset.
At(r, pc) == [Idle EXCEPT !.pc = pc, !.ask = r.ask, !.file = r.file, !.quiet = r.quiet]

Answered(r, b) == [At(r, "answered") EXCEPT !.bytes = b]

-----------------------------------------------------------------------------
(***************************************************************************)
(* The cheap tier: cheapOne, which is all of cheapAll for one file.        *)
(***************************************************************************)

\* What cheapOne's caller does with it: a usage plan goes on to the summary.
CheapAnswered(r, b) ==
    IF r.ask = "usage" /\ b # Nothing /\ r.file \in Models
    THEN [At(r, "filter") EXCEPT !.ver = r.ver]
    ELSE Answered(r, b)

AsksCheap(c) == call[c].pc = "statted" /\ call[c].ask \in {"cheap", "usage"}

CheapHit(c) ==
    LET f == call[c].file
        v == call[c].ver
    IN  /\ AsksCheap(c)
        /\ v = NoVersion \/ Hit(cheap, f, v)
        /\ call' = [call EXCEPT ![c] =
                       CheapAnswered(call[c], IF v = NoVersion THEN Nothing ELSE cheap[f].content)]
        /\ UNCHANGED <<watchVars, cacheVars>>

CheapJoin(c) ==
    LET f == call[c].file
        v == call[c].ver
    IN  /\ AsksCheap(c)
        /\ v # NoVersion
        /\ ~Hit(cheap, f, v)
        /\ Joinable(reading, f, v)
        /\ call' = [call EXCEPT ![c] = [@ EXCEPT !.pc = "joined", !.tier = "cheap",
                                                   !.on = reading[f]]]
        /\ UNCHANGED <<watchVars, cacheVars>>

\* cheapOf's three ways in: a project is dropped before any read, a model whose
\* parse is held at this version costs none, and anything else is read.
cheapOf(r) ==
    LET f == r.file
    IN  IF f \in Projects THEN [r EXCEPT !.pc = "derive", !.bytes = Nothing]
        ELSE IF f \in Models /\ Hit(parsed, f, r.ver)
             THEN [r EXCEPT !.pc = "derive", !.bytes = parsed[f].content]
             ELSE [r EXCEPT !.pc = "read"]

CheapStart(c) ==
    LET f == call[c].file
        v == call[c].ver
    IN  /\ AsksCheap(c)
        /\ v # NoVersion
        /\ ~Hit(cheap, f, v)
        /\ ~Joinable(reading, f, v)
        /\ reading' = [reading EXCEPT ![f] = c]
        /\ call' = [call EXCEPT ![c] =
                       cheapOf([call[c] EXCEPT !.tier = "cheap", !.fresh = TRUE])]
        /\ UNCHANGED <<watchVars, cheap, parsed, older, models, pinnedParses, parsing>>

\* Mutant: store whatever has been forgotten meanwhile.
StoresCheapForgotten(r) == r.bytes # Nothing

\* Mutant: a file that could not be read is stored as one that holds nothing.
StoresCheapUnread(r) == r.fresh

StoresCheap(r) == r.bytes # Nothing /\ r.fresh

\* The read came back: derive, store unless something was forgotten since, and
\* answer everyone who joined.
CheapSettle(c) ==
    LET f == call[c].file
        b == call[c].bytes
    IN  /\ call[c].pc = "derive"
        /\ call[c].tier = "cheap"
        /\ cheap' = IF StoresCheap(call[c])
                    THEN [cheap EXCEPT ![f] = [version |-> call[c].ver, content |-> b]]
                    ELSE cheap
        /\ reading' = Landed(reading, c)
        /\ call' = [d \in Callers |-> IF d = c \/ d \in Joiners(c)
                                      THEN CheapAnswered(call[d], b)
                                      ELSE call[d]]
        /\ UNCHANGED <<watchVars, parsed, older, models, pinnedParses, parsing>>

-----------------------------------------------------------------------------
(***************************************************************************)
(* The parse tier: parsedModelOf, from a tab (which pins first), from a    *)
(* name search, or from a usage plan filling a summary.                    *)
(***************************************************************************)
AsksParse(c) ==
    \/ call[c].pc = "statted" /\ call[c].ask \in {"parse", "tab"}
    \/ call[c].pc = "fill"

Pin(c) ==
    IF call[c].ask = "tab" /\ call[c].ver # NoVersion
    THEN pinParse(call[c].file)
    ELSE UNCHANGED pinnedParses

\* fillModelSummaries stores the summary in the continuation of the parse that
\* answered it, and its plan then merges; anyone else has what it asked for.
ParseAnswered(r, b) == IF r.ask = "usage" THEN At(r, "merge") ELSE Answered(r, b)

ParseHit(c) ==
    LET f == call[c].file
    IN  /\ AsksParse(c)
        /\ Hit(parsed, f, call[c].ver)
        /\ Pin(c)
        /\ older' = OrderTouched(older, Held, f)
        /\ models' = IF call[c].ask = "usage" THEN [models EXCEPT ![f] = parsed[f]] ELSE models
        /\ call' = [call EXCEPT ![c] = ParseAnswered(call[c], parsed[f].content)]
        /\ UNCHANGED <<watchVars, cheap, parsed, parsing, reading>>

ParseJoin(c) ==
    LET f == call[c].file
        v == call[c].ver
    IN  /\ AsksParse(c)
        /\ v # NoVersion
        /\ ~Hit(parsed, f, v)
        /\ Joinable(parsing, f, v)
        /\ Pin(c)
        /\ call' = [call EXCEPT ![c] = [@ EXCEPT !.pc = "joined", !.tier = "parse",
                                                   !.on = parsing[f], !.fresh = TRUE]]
        /\ UNCHANGED <<watchVars, cheap, parsed, older, models, parsing, reading>>

\* A versionless file is parsed for its caller and shared with nobody.
ParseStart(c) ==
    LET f == call[c].file
        v == call[c].ver
    IN  /\ AsksParse(c)
        /\ ~Hit(parsed, f, v)
        /\ v = NoVersion \/ ~Joinable(parsing, f, v)
        /\ Pin(c)
        /\ parsing' = IF v = NoVersion THEN parsing ELSE [parsing EXCEPT ![f] = c]
        /\ call' = [call EXCEPT ![c] = [@ EXCEPT !.pc = "read", !.tier = "parse", !.fresh = TRUE]]
        /\ UNCHANGED <<watchVars, cheap, parsed, older, models, reading>>

\* Mutant: store whatever has been forgotten meanwhile.
StoresParseForgotten(r) == r.bytes # Nothing /\ r.bytes \notin Corrupt /\ r.ver # NoVersion

\* The work's store: set at the recent end, then evict.
StoresParse(r) ==
    r.bytes # Nothing /\ r.bytes \notin Corrupt /\ r.ver # NoVersion /\ r.fresh

StoreParse(f, entry) ==
    LET held  == Held \union {f}
        order == OrderTouched(older, held, f)
        gone  == evictParsed(held, order, f)
    IN  /\ parsed' = [g \in Files |-> IF g = f THEN entry
                                      ELSE IF g \in gone THEN Absent ELSE parsed[g]]
        /\ older' = OrderWithout(order, gone)

\* fillModelSummaries' store, empty for a parse that threw: for the owner of the
\* flight or a plan that joined it, unless something was forgotten since it began.
FillsSummary(c) ==
    /\ call[c].bytes # Nothing
    /\ \E d \in {c} \union Joiners(c) : call[d].ask = "usage" /\ call[d].fresh

ParseSettle(c) ==
    LET f     == call[c].file
        b     == call[c].bytes
        entry == [version |-> call[c].ver, content |-> b]
    IN  /\ call[c].pc = "derive"
        /\ call[c].tier = "parse"
        /\ IF StoresParse(call[c]) THEN StoreParse(f, entry) ELSE UNCHANGED <<parsed, older>>
        /\ models' = IF FillsSummary(c) THEN [models EXCEPT ![f] = entry] ELSE models
        /\ parsing' = Landed(parsing, c)
        /\ call' = [d \in Callers |-> IF d = c \/ d \in Joiners(c)
                                      THEN ParseAnswered(call[d], b)
                                      ELSE call[d]]
        /\ UNCHANGED <<watchVars, cheap, pinnedParses, reading>>

-----------------------------------------------------------------------------
(***************************************************************************)
(* A usage plan: which models still need a summary, and the merge that     *)
(* reads the summaries back.                                               *)
(***************************************************************************)
FillFilter(c) ==
    /\ call[c].pc = "filter"
    /\ call' = [call EXCEPT ![c] = IF Hit(models, call[c].file, call[c].ver)
                                   THEN At(call[c], "merge")
                                   ELSE [call[c] EXCEPT !.pc = "fill"]]
    /\ UNCHANGED <<watchVars, cacheVars>>

\* summaryOf: whatever the map holds by then, with no look at its version.
Merge(c) ==
    /\ call[c].pc = "merge"
    /\ call' = [call EXCEPT ![c] = Answered(call[c], models[call[c].file].content)]
    /\ UNCHANGED <<watchVars, cacheVars>>

-----------------------------------------------------------------------------
CallerStep(c) ==
    \/ Stat(c)
    \/ ReadBytes(c)
    \/ CheapHit(c)
    \/ CheapJoin(c)
    \/ CheapStart(c)
    \/ CheapSettle(c)
    \/ ParseHit(c)
    \/ ParseJoin(c)
    \/ ParseStart(c)
    \/ ParseSettle(c)
    \/ FillFilter(c)
    \/ Merge(c)
    \/ Return(c)

WatcherStep ==
    \/ \E f \in Files : TabWatcher(f)
    \/ \E f \in Files : forgetUnseenWrite(f)
    \/ \E k \in checking : forgetIfVersionUnmoved(k)

Next ==
    \/ \E c \in Callers, ask \in Asks, f \in Files : Ask(c, ask, f)
    \/ \E c \in Callers : CallerStep(c)
    \/ \E f \in Files, v \in Versions : Write(f, v)
    \/ WatcherStep
    \/ clearSourceCache

Spec == Init /\ [][Next]_vars

\* Pending callbacks run: the event loop drops no continuation and no event.
Fairness ==
    /\ \A c \in Callers : WF_vars(CallerStep(c))
    /\ \A f \in Files : WF_vars(TabWatcher(f)) /\ WF_vars(forgetUnseenWrite(f))
    /\ WF_vars(\E k \in checking : forgetIfVersionUnmoved(k))

FairSpec == Spec /\ Fairness

-----------------------------------------------------------------------------
(***************************************************************************)
(* Properties.                                                             *)
(***************************************************************************)

\* c is running a derivation of its own in this tier.
Flying(c, tier) == call[c].pc \in {"read", "derive"} /\ call[c].tier = tier

\* The in-flight maps hold calls in progress and nothing else: a slot names a
\* caller that is still deriving that very file in that tier, at a version.  A
\* slot its flight left behind would make every later ask of that version wait
\* on a promise long settled (coalesced's `finally`, forgetSource's deletes).
SlotsAreFlights ==
    \A f \in Files :
        /\ reading[f] # None => Flying(reading[f], "cheap") /\ call[reading[f]].file = f
                                    /\ call[reading[f]].ver # NoVersion
        /\ parsing[f] # None => Flying(parsing[f], "parse") /\ call[parsing[f]].file = f
                                    /\ call[parsing[f]].ver # NoVersion

\* Nobody waits on a flight that will not answer it: whoever joined waits on a
\* caller still deriving the same file at the same version, whatever forget,
\* clear or newer flight took the slot meanwhile.
JoinersHaveAFlight ==
    \A d \in Callers : call[d].pc = "joined" =>
        /\ call[d].on \in Callers
        /\ Flying(call[d].on, call[d].tier)
        /\ call[call[d].on].file = call[d].file
        /\ call[call[d].on].ver = call[d].ver

\* What is held for f under the version the disk has is what the disk has.
EntryCurrent(tier, f) ==
    tier[f].version = disk[f].version => tier[f].content = disk[f].content

TiersCurrentFor(f) ==
    EntryCurrent(cheap, f) /\ EntryCurrent(parsed, f) /\ EntryCurrent(models, f)

\* A write that leaves mtime and size alone is not served from the cache once its
\* watcher has acted: for a file with a watcher that forgets on every event, no
\* tier holds older content under the current version, whatever was in flight,
\* evicted, cleared, joined or forgotten around it (forgetSource with
\* nothingForgottenSince).
WatchedTiersCurrent ==
    \A f \in TabFiles : ~Unreported(f) => TiersCurrentFor(f)

\* The same of every file, as forgetUnseenWrite is written to give it.
TiersCurrent ==
    \A f \in Files : ~Unreported(f) => TiersCurrentFor(f)

\* An ask that overlaps no write of its file, and begins when every earlier write
\* of it has been acted on, is answered with what is on disk: by a hit, by a read
\* of its own, by the flight it joined, or, for a usage plan, by the summary it
\* merges (cheapOne, parsedModelOf, parsedModelForOpenTab, planSummaries).
AnswerCurrent(c) ==
    /\ call[c].pc = "answered"
    /\ call[c].quiet
    /\ call[c].bytes # Nothing
    => call[c].bytes = disk[call[c].file].content

QuietAnswersCurrent ==
    \A c \in Callers : call[c].file \in TabFiles => AnswerCurrent(c)

\* The same of a usage plan over any file: its part of the answer is the summary
\* of what is on disk, or is missing (forgetIfVersionUnmoved: "every tier
\* re-checks the version before it answers").
UsageAnswersCurrent ==
    \A c \in Callers : call[c].ask = "usage" => AnswerCurrent(c)

\* A flight whose slot another flight took, and whose result will still be stored: by
\* itself, or by a plan that joined it before then.  heldVersionsOf does not see it.
Displaced(c) ==
    LET f == call[c].file
    IN  \/ Flying(c, "cheap") /\ reading[f] # c /\ call[c].fresh
        \/ /\ Flying(c, "parse") /\ parsing[f] # c /\ call[c].ver # NoVersion
           /\ \E d \in {c} \union Joiners(c) : call[d].fresh

SomeDisplaced == \E c \in Callers : Displaced(c)

\* While a file is not written, it is derived once per tier however many ask at once:
\* two callers never run the same derivation (coalesced sets the slot before its
\* first await, and only a watcher's forget takes it away).
OneDerivation ==
    \A c, d \in Callers : \A tier \in {"cheap", "parse"} :
        /\ Flying(c, tier) /\ Flying(d, tier)
        /\ call[c].file = call[d].file /\ disk[call[c].file].content = 0
        /\ call[c].ver = call[d].ver /\ call[c].ver # NoVersion
        => c = d

\* Pins moving between tabs and a newest entry larger than the budget never let
\* the map grow past the budget plus three parses (evictParsed's "three entries of
\* exemption however small the budget is").
MapBound ==
    \E spared \in SUBSET Held :
        Cardinality(spared) <= PINNED_PARSES + 1 /\ TotalSize(Held \ spared) <= parsedBudget

\* A store evicts by recency and only what it must: no pinned parse goes, each
\* that goes was used less recently than every unpinned one that stays (but for
\* the one just stored), and the last to go would have put the map over budget.
EvictsOldestUnpinnedStep ==
    \A c \in Callers : Flying(c, "parse") /\ call'[c].pc \in {"answered", "merge"} =>
        LET gone  == Held \ Held'
            stays == (Held \intersect Held') \ (Pinned \union {call[c].file})
        IN  /\ gone \intersect Pinned = {}
            /\ gone \X stays \subseteq older
            /\ \A f \in gone : (\A g \in gone \ {f} : <<g, f>> \in older) =>
                   parsedBudgetedBytes' + Size[f] > parsedBudget

EvictsOldestUnpinned == [][EvictsOldestUnpinnedStep]_vars

\* Every ask is answered: no join, displaced slot, failed read or corrupt file
\* leaves a caller waiting.
AsksAreAnswered ==
    \A c \in Callers : call[c].pc = "stat" ~> call[c].pc = "answered"

\* Once the writes are over, whatever was in flight when they happened, the tiers
\* of a watched file stop holding what is no longer there.
EventuallyCurrent ==
    \A f \in TabFiles : <>[](~Unreported(f) /\ TiersCurrentFor(f))

-----------------------------------------------------------------------------
(***************************************************************************)
(* What the safety properties rest on: the invariants the proofs carry.    *)
(***************************************************************************)

\* A call past its start has a file, and one that will store or fill at a version
\* has a version.
CallOK(r) ==
    /\ r.pc # "idle" => r.file \in Files
    /\ r.pc \in {"joined", "filter", "fill"} => r.ver # NoVersion
    /\ r.pc \in {"read", "derive"} /\ (r.tier = "cheap" \/ r.ask = "usage") => r.ver # NoVersion

CallsOK == \A c \in Callers : CallOK(call[c])

\* A derivation whose result something will still use: it may store, it can be
\* joined, or a caller that may store or must be answered truly waits on it.
Trusted(c) ==
    \/ call[c].fresh \/ call[c].quiet
    \/ c \in {reading[call[c].file], parsing[call[c].file]}
    \/ \E d \in Joiners(c) : call[d].fresh \/ call[d].quiet

\* The watched files with no event pending; what f holds now, or nothing.
Settled == TabFiles \ tabEvents
Now(f, b) == b \in {Nothing, disk[f].content}

\* For such a file whatever is held, trusted or answered to an undisturbed ask is
\* what is on disk, under any version.
TiersAreNow ==
    \A f \in Settled :
        Now(f, cheap[f].content) /\ Now(f, parsed[f].content) /\ Now(f, models[f].content)

TrustedIsNow ==
    \A c \in Callers :
        call[c].pc = "derive" /\ call[c].file \in Settled /\ Trusted(c)
            => Now(call[c].file, call[c].bytes)

QuietIsNow ==
    \A c \in Callers :
        call[c].file \in TabFiles /\ call[c].quiet
            => /\ call[c].file \in Settled
               /\ call[c].pc = "answered" => Now(call[c].file, call[c].bytes)

SettledIsNow == TiersAreNow /\ TrustedIsNow /\ QuietIsNow

\* Whatever reaches the parse tier is a model, so everything held has a size.
ParsesModel(r) ==
    \/ r.tier = "parse" \/ r.ask \in {"parse", "tab"} \/ r.pc \in {"filter", "fill"}
    => r.file \in Models

OnlyModelsParsed == Held \subseteq Models /\ \A c \in Callers : ParsesModel(call[c])

\* A Map iterates what it holds in one order.
Ordered(order, held) ==
    /\ order \subseteq held \X held
    /\ \A f \in held : <<f, f>> \notin order
    /\ \A f, g, h \in held : <<f, g>> \in order /\ <<g, h>> \in order => <<f, h>> \in order
    /\ \A f, g \in held : f = g \/ <<f, g>> \in order \/ <<g, f>> \in order

InBudget ==
    /\ OnlyModelsParsed
    /\ Ordered(older, Held)
    /\ Len(pinnedParses) <= PINNED_PARSES
    /\ MapBound

\* A file that was never written is at its first version for everyone, has no event to
\* come, and has its flights in their slots.
UnwrittenAlone ==
    \A f \in Files : disk[f].content = 0 =>
        /\ disk[f].version = 0
        /\ f \notin tabEvents \union wsEvents
        /\ \A k \in checking : k.file # f
        /\ \A c \in Callers : call[c].file = f =>
               /\ call[c].ver \in {0, NoVersion}
               /\ Flying(c, "cheap") => reading[f] = c
               /\ Flying(c, "parse") /\ call[c].ver # NoVersion => parsing[f] = c

\* Old content of f under its current version that the workspace watcher has still to act
\* on: it has yet to hear of the write, or it compares that version when its stat is back.
Heard(f, v) == f \notin wsEvents /\ \A k \in checking : k.file = f => v \notin k.held

Accounted(f, v, b) == v = disk[f].version /\ b \notin {Nothing, disk[f].content} => ~Heard(f, v)

\* Whatever a tier holds, or a flight in its slot has read, is accounted for.
OldIsAccounted ==
    \A f \in Files :
        /\ \A tier \in {cheap, parsed, models} : Accounted(f, tier[f].version, tier[f].content)
        /\ \A c \in {reading[f], parsing[f]} \ {None} :
               call[c].pc = "derive" => Accounted(f, call[c].ver, call[c].bytes)
=============================================================================
