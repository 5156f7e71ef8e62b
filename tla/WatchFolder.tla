---------------------------- MODULE WatchFolder ----------------------------
(***************************************************************************)
(* Following a folder's changes (node/watchFolder.ts): the platform's      *)
(* events, the burst they are collected into, and the report that ends it. *)
(* Around it, the folder as other programs change it, and a host that      *)
(* listed the folder once and has read again what each report named.       *)
(*                                                                         *)
(* Names are those directly under the root.  A folder holds at most one    *)
(* supported file.  A file's content is when it was written: the number of *)
(* changes by then.                                                        *)
(***************************************************************************)
EXTENDS Integers, FiniteSets

CONSTANTS
    FileNames,      \* the names files have under the root
    FolderNames,    \* the names folders have
    Supported,      \* the names isSupportedPath accepts
    Bare,           \* the names with no extension
    Skipped,        \* the names skipDirectory accepts
    Nameless,       \* whether the platform may leave the name out of an event
    Debounce,       \* the ticks of quiet that end a burst
    MaxChanges      \* bounds the changes made to the folder

Names == FileNames \union FolderNames

ASSUME WatchAssumption ==
    /\ Supported \subseteq Names /\ Bare \subseteq Names /\ Skipped \subseteq Names
    /\ Supported \intersect Bare = {}
    /\ Nameless \in BOOLEAN
    /\ Debounce \in Nat
    /\ MaxChanges \in Nat

\* The paths a host may hold: a name under the root, and the file within it.
Paths  == Names \X {"itself", "within"}
Within(n) == <<n, "within">>
Itself(n) == <<n, "itself">>

Missing == 0
Stamps  == 0 .. MaxChanges + 1
Off     == -1

VARIABLES
    kind,       \* name -> "none", "file" or "folder"
    stamp,      \* name -> the content of the file, or of the file within the folder
    changes,    \* the changes made
    events,     \* what the platform has yet to deliver
    watcher,    \* whether the FSWatcher is open
    error,
    disposed,
    timer,      \* the ticks left, or Off
    touched,
    anything,
    known,      \* path -> its content as the host last read it, or Missing
    untold      \* whether the watcher has stopped and the host has not heard

folderVars == <<kind, stamp, changes>>
watcherVars == <<watcher, error, disposed>>
burstVars  == <<timer, touched, anything>>
watchVars == <<folderVars, events, watcherVars, burstVars, known, untold>>

Event == [type : {"rename", "change"}, path : Paths]

WatchTypeOK ==
    /\ kind \in [Names -> {"none", "file", "folder"}]
    /\ stamp \in [Names -> Stamps]
    /\ changes \in 0 .. MaxChanges
    /\ events \subseteq Event
    /\ watcher \in BOOLEAN /\ error \in BOOLEAN /\ disposed \in BOOLEAN
    /\ timer \in {Off} \union (0 .. Debounce)
    /\ touched \subseteq Paths
    /\ anything \in BOOLEAN
    /\ known \in [Paths -> Stamps]
    /\ untold \in BOOLEAN

\* What listFolder finds, and the content a host reads there.
Listing ==
    [p \in Paths |->
        IF \/ p[2] = "itself" /\ kind[p[1]] = "file" /\ p[1] \in Supported
           \/ p[2] = "within" /\ kind[p[1]] = "folder" /\ p[1] \notin Skipped
        THEN stamp[p[1]] ELSE Missing]

\* A folder not watched from the start: missing, or on a platform that cannot.
WatchInit ==
    /\ kind \in {k \in [Names -> {"none", "file", "folder"}] :
                    \A n \in Names : /\ k[n] = "file" => n \in FileNames
                                     /\ k[n] = "folder" => n \in FolderNames}
    /\ stamp = [n \in Names |-> IF kind[n] = "none" THEN Missing ELSE 1]
    /\ changes = 0
    /\ events = {}
    /\ watcher \in BOOLEAN
    /\ error = ~watcher
    /\ disposed = FALSE
    /\ timer = Off
    /\ touched = {}
    /\ anything = FALSE
    /\ known = Listing
    /\ untold = FALSE

-----------------------------------------------------------------------------
(***************************************************************************)
(* The folder, as other programs change it, and the events of each change: *)
(* a folder takes what is in it along with no event of its own.            *)
(***************************************************************************)
Emits(es) == events' = IF watcher THEN events \union es ELSE events

Changed(es) ==
    /\ changes < MaxChanges
    /\ changes' = changes + 1
    /\ Emits(es)
    /\ UNCHANGED <<watcherVars, burstVars, known, untold>>

Renamed(p) == [type |-> "rename", path |-> p]
Written(p) == [type |-> "change", path |-> p]

\* The content of what is written now.
Fresh == changes + 2

Appear(n) ==
    /\ kind[n] = "none"
    /\ \/ n \in FileNames   /\ kind' = [kind EXCEPT ![n] = "file"]
       \/ n \in FolderNames /\ kind' = [kind EXCEPT ![n] = "folder"]
    /\ stamp' = [stamp EXCEPT ![n] = Fresh]
    /\ Changed({Renamed(Itself(n))})

Vanish(n) ==
    /\ kind[n] # "none"
    /\ kind' = [kind EXCEPT ![n] = "none"]
    /\ stamp' = [stamp EXCEPT ![n] = Missing]
    /\ Changed({Renamed(Itself(n))})

Move(n, m) ==
    /\ kind[n] = "folder" /\ kind[m] = "none" /\ m \in FolderNames
    /\ kind' = [kind EXCEPT ![n] = "none", ![m] = "folder"]
    /\ stamp' = [stamp EXCEPT ![n] = Missing, ![m] = stamp[n]]
    /\ Changed({Renamed(Itself(n)), Renamed(Itself(m))})

Write(n) ==
    /\ kind[n] = "file"
    /\ stamp' = [stamp EXCEPT ![n] = Fresh]
    /\ UNCHANGED kind
    /\ \E e \in {Renamed(Itself(n)), Written(Itself(n))} : Changed({e})

\* The folder's own metadata changes with the file in it.
WriteWithin(n) ==
    /\ kind[n] = "folder"
    /\ \/ stamp' = [stamp EXCEPT ![n] = Fresh]
       \/ stamp[n] # Missing /\ stamp' = [stamp EXCEPT ![n] = Missing]
    /\ UNCHANGED kind
    /\ \E e \in {Renamed(Within(n)), Written(Within(n))} : Changed({e, Written(Itself(n))})

-----------------------------------------------------------------------------
(***************************************************************************)
(* watchFolder.                                                            *)
(***************************************************************************)
\* Mutant: a tick too many.
scheduleLate == timer' = Debounce + 1

\* A pending timer is cleared and a whole quiet spell begins again.
schedule == timer' = Debounce

Touches(ps) ==
    /\ touched' = touched \union ps
    /\ schedule
    /\ UNCHANGED anything

TouchesAnything ==
    /\ anything' = TRUE
    /\ schedule
    /\ UNCHANGED touched

\* Mutant: a folder renamed into place is left to its files to report.
onEventOfFiles(type, n) ==
    IF n \in Supported THEN Touches({Itself(n)})
    ELSE IF kind[n] = "none" /\ n \in Bare \ Skipped THEN TouchesAnything
    ELSE UNCHANGED burstVars

\* onEvent, for a name under the root: what is there by now decides.
onEventItself(type, n) ==
    IF kind[n] = "folder"
    THEN IF n \in Skipped \/ type # "rename" THEN UNCHANGED burstVars ELSE TouchesAnything
    ELSE IF n \in Supported THEN Touches({Itself(n)})
    ELSE IF kind[n] = "none" /\ n \in Bare \ Skipped THEN TouchesAnything
    ELSE UNCHANGED burstVars

\* ... and for the supported file in a folder.
onEventWithin(n) ==
    IF n \in Skipped THEN UNCHANGED burstVars ELSE Touches({Within(n)})

onEvent(e, named) ==
    /\ e \in events
    /\ events' = events \ {e}
    /\ IF disposed THEN UNCHANGED burstVars
       ELSE IF ~named THEN TouchesAnything
       ELSE IF e.path[2] = "within" THEN onEventWithin(e.path[1])
       ELSE onEventItself(e.type, e.path[1])
    /\ UNCHANGED <<folderVars, watcherVars, known, untold>>

Tick ==
    /\ timer > 0
    /\ timer' = timer - 1
    /\ UNCHANGED <<folderVars, events, watcherVars, touched, anything, known, untold>>

\* Mutant: the burst's names are kept, its `anything` forgotten.
reportsNames == [p \in Paths |-> IF p \in touched THEN Listing[p] ELSE known[p]]

\* What the host has read once a report is with it: all it lists, or what is named.
reports == [p \in Paths |-> IF anything \/ p \in touched THEN Listing[p] ELSE known[p]]

flush ==
    /\ timer = 0
    /\ timer' = Off
    /\ touched' = {}
    /\ anything' = FALSE
    /\ known' = reports
    /\ untold' = (untold /\ ~anything)
    /\ UNCHANGED <<folderVars, events, watcherVars>>

\* Mutant: the watcher is closed and nothing scheduled.
onErrorQuietly ==
    /\ watcher
    /\ error' = TRUE
    /\ watcher' = FALSE
    /\ events' \in {events, {}}
    /\ untold' = TRUE
    /\ UNCHANGED <<folderVars, disposed, burstVars, known>>

\* The `error` event: what it had yet to deliver may be lost with it.
onError ==
    /\ watcher
    /\ error' = TRUE
    /\ watcher' = FALSE
    /\ events' \in {events, {}}
    /\ TouchesAnything
    /\ untold' = TRUE
    /\ UNCHANGED <<folderVars, disposed, known>>

dispose ==
    /\ ~disposed
    /\ disposed' = TRUE
    /\ timer' = Off
    /\ watcher' = FALSE
    /\ UNCHANGED <<folderVars, events, error, touched, anything, known, untold>>

-----------------------------------------------------------------------------
FolderStep ==
    \/ \E n \in Names : Appear(n) \/ Vanish(n) \/ Write(n) \/ WriteWithin(n)
    \/ \E n, m \in Names : Move(n, m)

Deliver == \E e \in events, named \in {TRUE, ~Nameless} : onEvent(e, named)

WatchNext == FolderStep \/ Deliver \/ Tick \/ flush \/ onError \/ dispose

WatchSpec == WatchInit /\ [][WatchNext]_watchVars

\* Events are delivered and timers fire; the folder need not change, nor fail.
WatchFairness == WF_watchVars(Deliver) /\ WF_watchVars(Tick) /\ WF_watchVars(flush)

-----------------------------------------------------------------------------
(***************************************************************************)
(* Properties.                                                             *)
(***************************************************************************)
watching == watcher /\ ~disposed

\* No change is lost: while the folder is watched, with every event delivered and
\* no burst pending, a host that read again what each report named, and all of it
\* at a report with no names, has exactly what the folder lists (onEvent asks what
\* is there when an event arrives, which may be long after what it is about).
InStep == watching /\ events = {} /\ timer = Off => known = Listing

\* Once the folder is quiet the host comes to have what it lists, however the
\* changes, their events and the bursts fell, unless the watch has ended.
ComesInStep == <>[](watching => known = Listing)

\* A watcher that stops on an error says so: the host hears, once more, that
\* anything may have changed, or has let go of the watch.
StopIsTold == untold ~> ~untold \/ disposed

=============================================================================
