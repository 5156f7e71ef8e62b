----------------------------- MODULE HostProofs -----------------------------
(***************************************************************************)
(* Theorems about WatchFolder, for every set of names, every debounce and  *)
(* any number of changes; and what a host does in a folder is a behaviour  *)
(* of SafeReplace and one of WatchFolder, so the theorems of each hold.    *)
(***************************************************************************)
EXTENDS MCHost, SafeReplaceProofs

\* onEvent asks what is at a path when it looks, so it can tell a folder that went
\* from a file only by the name.  Where no file bears a folder's name, and a
\* folder's name has no extension, it cannot be misled (Host_replaced shows it is,
\* where a file may).
NamesApart ==
    /\ FileNames \intersect FolderNames = {}
    /\ FolderNames \ Skipped \subseteq Bare

-----------------------------------------------------------------------------
(***************************************************************************)
(* Types.                                                                  *)
(***************************************************************************)

LEMMA ListingType ==
    ASSUME WatchTypeOK
    PROVE  Listing \in [Paths -> Stamps]
BY WatchAssumption DEF WatchTypeOK, Listing, Paths, Stamps, Missing

LEMMA EventTypes ==
    ASSUME NEW n \in Names
    PROVE  /\ Itself(n) \in Paths /\ Within(n) \in Paths
           /\ Renamed(Itself(n)) \in Event /\ Renamed(Within(n)) \in Event
           /\ Written(Itself(n)) \in Event /\ Written(Within(n)) \in Event
BY DEF Itself, Within, Renamed, Written, Event, Paths

\* What a burst may be left as by an event.
BurstType ==
    timer' \in {Off} \union (0 .. Debounce) /\ touched' \subseteq Paths /\ anything' \in BOOLEAN

LEMMA OnEventType ==
    ASSUME WatchTypeOK, NEW e \in events, NEW named \in BOOLEAN, onEvent(e, named)
    PROVE  BurstType
<1>1. ASSUME NEW ps \in SUBSET Paths, Touches(ps)
      PROVE  BurstType
  BY <1>1, WatchAssumption DEF Touches, schedule, WatchTypeOK, BurstType
<1>2. TouchesAnything => BurstType
  BY WatchAssumption DEF TouchesAnything, schedule, WatchTypeOK, BurstType
<1>3. UNCHANGED burstVars => BurstType
  BY DEF burstVars, WatchTypeOK, BurstType
<1>4. e.path \in Paths /\ e.path[1] \in Names
  BY DEF WatchTypeOK, Event, Paths
<1>5. {Itself(e.path[1])} \in SUBSET Paths /\ {Within(e.path[1])} \in SUBSET Paths
  BY <1>4, EventTypes
<1> QED
  BY <1>1, <1>2, <1>3, <1>5 DEF onEvent, onEventItself, onEventWithin

\* The folder, the burst and what the host holds are of their types.
LEMMA WatchStepType == WatchTypeOK /\ [WatchNext]_watchVars => WatchTypeOK'
<1> SUFFICES ASSUME WatchTypeOK, [WatchNext]_watchVars
             PROVE  WatchTypeOK'
  OBVIOUS
<1>a. Debounce \in Nat /\ MaxChanges \in Nat
  BY WatchAssumption
<1>1. ASSUME FolderStep
      PROVE  WatchTypeOK'
  <2>1. ASSUME NEW es \in SUBSET Event, Changed(es),
               kind' \in [Names -> {"none", "file", "folder"}], stamp' \in [Names -> Stamps]
        PROVE  WatchTypeOK'
    BY <1>a, <2>1 DEF Changed, Emits, watcherVars, burstVars, WatchTypeOK
  <2>2. ASSUME NEW es, Changed(es)
        PROVE  Fresh \in Stamps /\ Missing \in Stamps
    BY <1>a, <2>2 DEF Changed, Fresh, Stamps, Missing, WatchTypeOK
  <2>3. ASSUME NEW n \in Names, Appear(n)
        PROVE  WatchTypeOK'
    <3>1. kind' \in [Names -> {"none", "file", "folder"}] /\ stamp' \in [Names -> Stamps]
      BY <2>2, <2>3 DEF Appear, WatchTypeOK
    <3>2. {Renamed(Itself(n))} \in SUBSET Event
      BY EventTypes
    <3> QED
      BY <2>1, <2>3, <3>1, <3>2 DEF Appear
  <2>4. ASSUME NEW n \in Names, Vanish(n)
        PROVE  WatchTypeOK'
    <3>1. kind' \in [Names -> {"none", "file", "folder"}] /\ stamp' \in [Names -> Stamps]
      BY <2>2, <2>4 DEF Vanish, WatchTypeOK
    <3>2. {Renamed(Itself(n))} \in SUBSET Event
      BY EventTypes
    <3> QED
      BY <2>1, <2>4, <3>1, <3>2 DEF Vanish
  <2>5. ASSUME NEW n \in Names, NEW m \in Names, Move(n, m)
        PROVE  WatchTypeOK'
    <3>1. kind' \in [Names -> {"none", "file", "folder"}] /\ stamp' \in [Names -> Stamps]
      BY <2>2, <2>5 DEF Move, WatchTypeOK
    <3>2. {Renamed(Itself(n)), Renamed(Itself(m))} \in SUBSET Event
      BY EventTypes
    <3> QED
      BY <2>1, <2>5, <3>1, <3>2 DEF Move
  <2>6. ASSUME NEW n \in Names, Write(n)
        PROVE  WatchTypeOK'
    <3>1. PICK e \in {Renamed(Itself(n)), Written(Itself(n))} : Changed({e})
      BY <2>6 DEF Write
    <3>2. kind' \in [Names -> {"none", "file", "folder"}] /\ stamp' \in [Names -> Stamps]
      BY <2>2, <2>6, <3>1 DEF Write, WatchTypeOK
    <3>3. {e} \in SUBSET Event
      BY <3>1, EventTypes
    <3> QED
      BY <2>1, <3>1, <3>2, <3>3
  <2>7. ASSUME NEW n \in Names, WriteWithin(n)
        PROVE  WatchTypeOK'
    <3>1. PICK e \in {Renamed(Within(n)), Written(Within(n))} : Changed({e, Written(Itself(n))})
      BY <2>7 DEF WriteWithin
    <3>2. kind' \in [Names -> {"none", "file", "folder"}] /\ stamp' \in [Names -> Stamps]
      BY <2>2, <2>7, <3>1 DEF WriteWithin, WatchTypeOK
    <3>3. {e, Written(Itself(n))} \in SUBSET Event
      BY <3>1, EventTypes
    <3> QED
      BY <2>1, <3>1, <3>2, <3>3
  <2> QED
    BY <1>1, <2>3, <2>4, <2>5, <2>6, <2>7 DEF FolderStep
<1>2. CASE Deliver
  <2>1. PICK e \in events, named \in {TRUE, ~Nameless} : onEvent(e, named)
    BY <1>2 DEF Deliver
  <2>2. named \in BOOLEAN
    BY <2>1, WatchAssumption
  <2>3. BurstType
    BY <2>1, <2>2, OnEventType
  <2> QED
    BY <2>1, <2>3 DEF onEvent, folderVars, watcherVars, WatchTypeOK, BurstType
<1>3. CASE Tick
  BY <1>a, <1>3 DEF Tick, folderVars, watcherVars, WatchTypeOK, Off
<1>4. CASE flush
  <2>1. known' \in [Paths -> Stamps]
    BY <1>4, ListingType DEF flush, reports, WatchTypeOK
  <2> QED
    BY <1>4, <2>1 DEF flush, folderVars, watcherVars, WatchTypeOK
<1>5. CASE onError
  <2>1. events' \subseteq Event /\ timer' \in {Off} \union (0 .. Debounce)
    BY <1>a, <1>5 DEF onError, TouchesAnything, schedule, WatchTypeOK
  <2>2. UNCHANGED <<folderVars, disposed, known, touched>> /\ anything' /\ error' /\ ~watcher' /\ untold'
    BY <1>5 DEF onError, TouchesAnything
  <2> QED
    BY <1>5, <2>1, <2>2 DEF onError, TouchesAnything, folderVars, WatchTypeOK
<1>6. CASE dispose
  BY <1>6 DEF dispose, folderVars, WatchTypeOK
<1>7. CASE UNCHANGED watchVars
  BY <1>7 DEF watchVars, folderVars, watcherVars, burstVars, WatchTypeOK
<1> QED
  BY <1>1, <1>2, <1>3, <1>4, <1>5, <1>6, <1>7 DEF WatchNext

LEMMA WatchInitType == WatchInit => WatchTypeOK
<1> SUFFICES ASSUME WatchInit PROVE WatchTypeOK
  OBVIOUS
<1>1. kind \in [Names -> {"none", "file", "folder"}] /\ stamp \in [Names -> Stamps]
  BY WatchAssumption DEF WatchInit, Stamps, Missing
<1>2. known \in [Paths -> Stamps]
  <2>1. Listing \in [Paths -> Stamps]
    BY <1>1, WatchAssumption DEF Listing, Paths, Stamps, Missing
  <2> QED
    BY <2>1 DEF WatchInit
<1>3. changes \in 0 .. MaxChanges /\ timer \in {Off} \union (0 .. Debounce)
  BY WatchAssumption DEF WatchInit
<1>4. error \in BOOLEAN /\ watcher \in BOOLEAN
  BY DEF WatchInit
<1> QED
  BY <1>1, <1>2, <1>3, <1>4 DEF WatchInit, WatchTypeOK

\* The folder, what the platform has yet to deliver, the burst and what the host
\* holds stay of their types, for any names and any number of changes.
THEOREM WatchTypeCorrect == WatchSpec => []WatchTypeOK
BY WatchInitType, WatchStepType, PTL DEF WatchSpec

-----------------------------------------------------------------------------
(***************************************************************************)
(* No change is lost.                                                      *)
(***************************************************************************)

\* Files and folders have the names they may, and a host holds nothing a listing
\* could not.
Placed(p) ==
    IF p[2] = "itself" THEN p[1] \in Supported \intersect FileNames
    ELSE p[1] \in FolderNames \ Skipped

AllPlaced ==
    /\ \A n \in Names : /\ kind[n] = "file" => n \in FileNames
                        /\ kind[n] = "folder" => n \in FolderNames
    /\ \A p \in Paths : known[p] # Missing => Placed(p)

\* The events onEvent cannot look at without the burst naming p, or anything.
Leads(e, p) == e.path = p \/ (p[2] = "within" /\ e = Renamed(Itself(p[1])))

Told(p) == timer # Off /\ (anything \/ p \in touched)

\* Where a watching host is behind the folder, the burst will tell it, or an event
\* yet to be delivered will put it in one.
Covered == watching => \A p \in Paths : \/ known[p] = Listing[p]
                                        \/ Told(p)
                                        \/ \E e \in events : Leads(e, p)

LEMMA ListingPlaced ==
    ASSUME WatchTypeOK, AllPlaced, NEW p \in Paths, Listing[p] # Missing
    PROVE  Placed(p)
BY DEF Listing, AllPlaced, Placed, Paths

LEMMA PlacedStep == WatchTypeOK /\ AllPlaced /\ [WatchNext]_watchVars => AllPlaced'
<1> SUFFICES ASSUME WatchTypeOK, AllPlaced, [WatchNext]_watchVars
             PROVE  AllPlaced'
  OBVIOUS
<1>t. kind \in [Names -> {"none", "file", "folder"}] /\ known \in [Paths -> Stamps]
  BY DEF WatchTypeOK
<1> DEFINE KindsPlaced == \A n \in Names : /\ kind[n] = "file" => n \in FileNames
                                           /\ kind[n] = "folder" => n \in FolderNames
<1>k. KindsPlaced
  BY DEF AllPlaced
<1>1. ASSUME NEW n \in Names, Appear(n)
      PROVE  KindsPlaced' /\ known' = known
  BY <1>t, <1>k, <1>1 DEF Appear, Changed
<1>2. ASSUME NEW n \in Names, Vanish(n)
      PROVE  KindsPlaced' /\ known' = known
  BY <1>t, <1>k, <1>2 DEF Vanish, Changed
<1>3. ASSUME NEW n \in Names, NEW m \in Names, Move(n, m)
      PROVE  KindsPlaced' /\ known' = known
  BY <1>t, <1>k, <1>3 DEF Move, Changed
<1>4. ASSUME NEW n \in Names, Write(n) \/ WriteWithin(n)
      PROVE  KindsPlaced' /\ known' = known
  BY <1>k, <1>4 DEF Write, WriteWithin, Changed
<1>5. CASE Deliver \/ Tick \/ onError \/ dispose
  BY <1>k, <1>5 DEF Deliver, onEvent, Tick, onError, dispose, folderVars, AllPlaced
<1>6. CASE flush
  <2>1. KindsPlaced'
    BY <1>k, <1>6 DEF flush, folderVars
  <2>2. \A p \in Paths : known'[p] \in {known[p], Listing[p]}
    BY <1>6 DEF flush, reports
  <2> QED
    BY <2>1, <2>2, ListingPlaced DEF AllPlaced
<1>7. CASE UNCHANGED watchVars
  BY <1>k, <1>7 DEF watchVars, folderVars, AllPlaced
<1> QED
  BY <1>1, <1>2, <1>3, <1>4, <1>5, <1>6, <1>7 DEF WatchNext, FolderStep, AllPlaced

\* The changes made by a step of the folder: what the listing has changed at, an
\* event that leads there is now pending.
LEMMA FolderTells ==
    ASSUME WatchTypeOK, AllPlaced, FolderStep, watcher, NEW p \in Paths, Listing'[p] # Listing[p]
    PROVE  \E e \in events' : Leads(e, p)
<1>t. /\ kind \in [Names -> {"none", "file", "folder"}] /\ stamp \in [Names -> Stamps]
      /\ p[1] \in Names /\ p[2] \in {"itself", "within"} /\ p = <<p[1], p[2]>>
  BY DEF WatchTypeOK, Paths
<1>n. p = Itself(p[1]) \/ p = Within(p[1])
  BY <1>t DEF Itself, Within
<1>c. kind'[p[1]] # kind[p[1]] \/ stamp'[p[1]] # stamp[p[1]]
  BY <1>t DEF Listing
<1>r. ASSUME Renamed(Itself(p[1])) \in events'
      PROVE  \E e \in events' : Leads(e, p)
  BY <1>t, <1>n, <1>r DEF Leads, Renamed, Itself, Within
<1>1. ASSUME NEW n \in Names, Appear(n)
      PROVE  \E e \in events' : Leads(e, p)
  <2>1. p[1] = n
    BY <1>t, <1>c, <1>1 DEF Appear
  <2> QED
    BY <1>1, <1>r, <2>1 DEF Appear, Changed, Emits
<1>2. ASSUME NEW n \in Names, Vanish(n)
      PROVE  \E e \in events' : Leads(e, p)
  <2>1. p[1] = n
    BY <1>t, <1>c, <1>2 DEF Vanish
  <2> QED
    BY <1>2, <1>r, <2>1 DEF Vanish, Changed, Emits
<1>3. ASSUME NEW n \in Names, NEW m \in Names, Move(n, m)
      PROVE  \E e \in events' : Leads(e, p)
  <2>1. p[1] \in {n, m}
    BY <1>t, <1>c, <1>3 DEF Move
  <2> QED
    BY <1>3, <1>r, <2>1 DEF Move, Changed, Emits
<1>4. ASSUME NEW n \in Names, Write(n)
      PROVE  \E e \in events' : Leads(e, p)
  <2>1. p[1] = n /\ kind[n] = "file" /\ kind' = kind
    BY <1>t, <1>c, <1>4 DEF Write
  <2>2. p[2] = "itself"
    BY <1>t, <2>1 DEF Listing
  <2>3. p = Itself(n)
    BY <1>t, <2>1, <2>2 DEF Itself
  <2>4. PICK e \in {Renamed(Itself(n)), Written(Itself(n))} : e \in events'
    BY <1>4 DEF Write, Changed, Emits
  <2>5. e.path = p
    BY <2>3, <2>4 DEF Renamed, Written
  <2> QED
    BY <2>4, <2>5 DEF Leads
<1>5. ASSUME NEW n \in Names, WriteWithin(n)
      PROVE  \E e \in events' : Leads(e, p)
  <2>1. p[1] = n /\ kind[n] = "folder" /\ kind' = kind
    BY <1>t, <1>c, <1>5 DEF WriteWithin
  <2>2. p[2] = "within"
    BY <1>t, <2>1 DEF Listing
  <2>3. p = Within(n)
    BY <1>t, <2>1, <2>2 DEF Within
  <2>4. PICK e \in {Renamed(Within(n)), Written(Within(n))} : e \in events'
    BY <1>5 DEF WriteWithin, Changed, Emits
  <2>5. e.path = p
    BY <2>3, <2>4 DEF Renamed, Written
  <2> QED
    BY <2>4, <2>5 DEF Leads
<1> QED
  BY <1>1, <1>2, <1>3, <1>4, <1>5 DEF FolderStep

\* An event that leads to a path a listing may hold puts it in the burst, whatever
\* has come to be there by the time it is looked at.
LEMMA OnEventTells ==
    ASSUME NamesApart, WatchTypeOK, AllPlaced, NEW p \in Paths, Placed(p), ~disposed,
           NEW e \in events, NEW named \in BOOLEAN, onEvent(e, named), Leads(e, p)
    PROVE  Told(p)'
<1>a. Debounce # Off
  BY WatchAssumption DEF Off
<1>t. /\ kind \in [Names -> {"none", "file", "folder"}]
      /\ p[1] \in Names /\ p[2] \in {"itself", "within"} /\ p = <<p[1], p[2]>>
      /\ e.path \in Paths /\ e.path[1] \in Names /\ e.path[2] \in {"itself", "within"}
  BY DEF WatchTypeOK, Paths, Event
<1>1. TouchesAnything => Told(p)'
  BY <1>a DEF TouchesAnything, schedule, Told
<1>2. ASSUME NEW ps, Touches(ps), p \in ps
      PROVE  Told(p)'
  BY <1>a, <1>2 DEF Touches, schedule, Told
<1>3. CASE named /\ e.path[2] = "within"
  <2>1. e.path = p
    BY <1>3 DEF Leads, Renamed, Itself
  <2>2. p[1] \notin Skipped /\ onEventWithin(p[1]) /\ p = Within(p[1])
    BY <1>3, <1>t, <2>1 DEF onEvent, Placed, Within
  <2>3. Touches({Within(p[1])})
    BY <2>2 DEF onEventWithin
  <2> QED
    BY <1>2, <2>2, <2>3
<1>4. CASE named /\ e.path[2] = "itself" /\ p[2] = "itself"
  <2>1. e.path = p /\ p = Itself(p[1])
    BY <1>4, <1>t DEF Leads, Itself
  <2>2. onEventItself(e.type, p[1]) /\ p[1] \in Supported /\ p[1] \in FileNames
    BY <1>4, <2>1 DEF onEvent, Placed
  <2>3. kind[p[1]] # "folder"
    BY <1>t, <2>2 DEF NamesApart, AllPlaced
  <2>4. Touches({Itself(p[1])})
    BY <2>2, <2>3 DEF onEventItself
  <2> QED
    BY <1>2, <2>1, <2>4
<1>5. CASE named /\ e.path[2] = "itself" /\ p[2] = "within"
  <2>1. e = Renamed(Itself(p[1]))
    BY <1>5 DEF Leads
  <2>2. e.type = "rename" /\ e.path[1] = p[1]
    BY <2>1 DEF Renamed, Itself
  <2>3. onEventItself(e.type, p[1]) /\ p[1] \in FolderNames \ Skipped
    BY <1>5, <2>2 DEF onEvent, Placed
  <2>4. p[1] \in Bare \ Skipped /\ p[1] \notin Supported /\ p[1] \notin FileNames
    BY <2>3, WatchAssumption DEF NamesApart
  <2>5. kind[p[1]] \in {"none", "folder"}
    BY <1>t, <2>4 DEF AllPlaced
  <2>6. TouchesAnything
    BY <2>2, <2>3, <2>4, <2>5 DEF onEventItself
  <2> QED
    BY <1>1, <2>6
<1>6. CASE ~named
  BY <1>1, <1>6 DEF onEvent
<1> QED
  BY <1>t, <1>3, <1>4, <1>5, <1>6

\* An event takes nothing out of a burst.
LEMMA OnEventKeeps ==
    ASSUME NEW p \in Paths, Told(p), NEW e, NEW named, onEvent(e, named)
    PROVE  Told(p)'
<1>1. /\ timer' \in {timer, Debounce} /\ touched \subseteq touched' /\ (anything => anything')
  BY DEF onEvent, onEventItself, onEventWithin, Touches, TouchesAnything, schedule, burstVars
<1>2. Debounce # Off
  BY WatchAssumption DEF Off
<1> QED
  BY <1>1, <1>2 DEF Told

\* Every step of a watched folder keeps the host told, or about to be, of all it
\* is behind on.
LEMMA CoveredStep ==
    ASSUME NamesApart
    PROVE  WatchTypeOK /\ AllPlaced /\ Covered /\ [WatchNext]_watchVars => Covered'
<1> SUFFICES ASSUME WatchTypeOK, AllPlaced, Covered, [WatchNext]_watchVars,
                    watching', NEW p \in Paths, known'[p] # Listing'[p], ~Told(p)'
             PROVE  \E e \in events' : Leads(e, p)
  BY DEF Covered
<1>t. Listing \in [Paths -> Stamps] /\ known \in [Paths -> Stamps]
  BY ListingType DEF WatchTypeOK
<1>w. watcher /\ ~disposed /\ watching
  BY DEF WatchNext, FolderStep, Appear, Vanish, Move, Write, WriteWithin, Changed, Deliver, onEvent,
     Tick, flush, onError, dispose, watching, watcherVars, watchVars, WatchTypeOK
<1>c. \/ known[p] = Listing[p]
      \/ Told(p)
      \/ \E e \in events : Leads(e, p)
  BY <1>w DEF Covered
<1>1. CASE FolderStep
  <2>1. known' = known /\ UNCHANGED burstVars /\ events \subseteq events'
    BY <1>1, <1>w DEF FolderStep, Appear, Vanish, Move, Write, WriteWithin, Changed, Emits
  <2>2. ~Told(p)
    BY <2>1 DEF Told, burstVars
  <2>3. CASE Listing'[p] # Listing[p]
    BY <1>1, <1>w, <2>3, FolderTells
  <2>4. CASE Listing'[p] = Listing[p]
    BY <1>c, <2>1, <2>2, <2>4
  <2> QED
    BY <2>3, <2>4
<1>2. CASE Deliver
  <2>1. PICK e \in events, named \in {TRUE, ~Nameless} : onEvent(e, named)
    BY <1>2 DEF Deliver
  <2>2. named \in BOOLEAN
    BY WatchAssumption
  <2>3. known' = known /\ Listing' = Listing /\ events' = events \ {e}
    BY <2>1 DEF onEvent, folderVars, Listing
  <2>4. ~Told(p)
    BY <2>1, OnEventKeeps
  <2>5. PICK f \in events : Leads(f, p)
    BY <1>c, <2>3, <2>4
  <2>6. CASE f # e
    BY <2>3, <2>5, <2>6
  <2>7. CASE f = e
    <3>1. Placed(p)
      <4>1. known[p] # Missing \/ Listing[p] # Missing
        BY <2>3
      <4> QED
        BY <4>1, ListingPlaced DEF AllPlaced
    <3> QED
      BY <1>w, <2>1, <2>2, <2>5, <2>7, <3>1, OnEventTells
  <2> QED
    BY <2>6, <2>7
<1>3. CASE Tick
  <2>1. known' = known /\ Listing' = Listing /\ events' = events /\ ~Told(p)
    BY <1>3 DEF Tick, folderVars, Listing, Told, Off, WatchTypeOK
  <2> QED
    BY <1>c, <2>1
<1>4. CASE flush
  <2>1. Listing' = Listing /\ events' = events
    BY <1>4 DEF flush, folderVars, Listing
  <2>2. known'[p] = IF anything \/ p \in touched THEN Listing[p] ELSE known[p]
    BY <1>4 DEF flush, reports
  <2>3. ~Told(p) /\ known[p] # Listing[p]
    BY <2>1, <2>2 DEF Told
  <2> QED
    BY <1>c, <2>1, <2>3
<1>5. CASE onError \/ dispose
  BY <1>5 DEF onError, dispose, watching
<1>6. CASE UNCHANGED watchVars
  <2>1. known' = known /\ Listing' = Listing /\ events' = events /\ ~Told(p)
    BY <1>6 DEF watchVars, folderVars, burstVars, Listing, Told
  <2> QED
    BY <1>c, <2>1
<1> QED
  BY <1>1, <1>2, <1>3, <1>4, <1>5, <1>6 DEF WatchNext

\* However late events are delivered, and however the changes, the bursts and their
\* reports fall, a host that follows a folder whose names are apart is never left
\* behind: with nothing pending it holds what the folder lists (onEvent, flush).
THEOREM NothingIsMissed ==
    ASSUME NamesApart
    PROVE  WatchSpec => []InStep
<1>1. WatchInit => WatchTypeOK /\ AllPlaced /\ Covered
  <2> SUFFICES ASSUME WatchInit PROVE WatchTypeOK /\ AllPlaced /\ Covered
    OBVIOUS
  <2>1. WatchTypeOK
    BY WatchInitType
  <2>2. known = Listing
    BY DEF WatchInit
  <2>3. \A n \in Names : (kind[n] = "file" => n \in FileNames) /\ (kind[n] = "folder" => n \in FolderNames)
    BY DEF WatchInit
  <2>4. \A p \in Paths : Listing[p] # Missing => Placed(p)
    BY <2>1, <2>3 DEF Listing, Placed, Paths, WatchTypeOK
  <2> QED
    BY <2>1, <2>2, <2>3, <2>4 DEF AllPlaced, Covered
<1>2. WatchTypeOK /\ AllPlaced /\ Covered /\ [WatchNext]_watchVars
          => (WatchTypeOK /\ AllPlaced /\ Covered)'
  BY WatchStepType, PlacedStep, CoveredStep
<1>3. WatchTypeOK /\ Covered => InStep
  <2> SUFFICES ASSUME WatchTypeOK, Covered, watching, events = {}, timer = Off
               PROVE  known = Listing
    BY DEF InStep
  <2>1. \A p \in Paths : known[p] = Listing[p]
    BY DEF Covered, Told
  <2>2. known \in [Paths -> Stamps] /\ Listing \in [Paths -> Stamps]
    BY ListingType DEF WatchTypeOK
  <2> QED
    BY <2>1, <2>2
<1> QED
  BY <1>1, <1>2, <1>3, PTL DEF WatchSpec

-----------------------------------------------------------------------------
(***************************************************************************)
(* The host.                                                               *)
(***************************************************************************)

\* A host's steps are a save's, with the watch as it was.
LEMMA HostSaves == Spec => SaveSpec
<1>1. Init => SaveInit
  BY DEF Init
<1>2. [Next]_vars => [SaveNext]_saveVars
  BY DEF Next, vars, saveVars, fileVars
<1> QED
  BY <1>1, <1>2, PTL DEF Spec, SaveSpec

\* A host's steps are a watch's, with the save as it was.
LEMMA HostWatches == Spec => WatchSpec
<1>1. Init => WatchInit
  BY DEF Init
<1>2. [Next]_vars => [WatchNext]_watchVars
  BY DEF Next, vars, watchVars, folderVars, watcherVars, burstVars
<1> QED
  BY <1>1, <1>2, PTL DEF Spec, WatchSpec

\* All that a host keeps of its saves and of its watch is of its type.
THEOREM HostTypeCorrect == Spec => []TypeOK
<1>1. SaveTypeOK /\ WatchTypeOK => TypeOK
  BY DEF TypeOK
<1> QED
  BY <1>1, HostSaves, HostWatches, SaveTypeCorrect, WatchTypeCorrect, PTL
=============================================================================
