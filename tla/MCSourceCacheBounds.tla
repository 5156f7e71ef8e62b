------------------------ MODULE MCSourceCacheBounds ------------------------
(***************************************************************************)
(* Four parts of SourceCache for TLC, one at a time: the parses of five    *)
(* models against a small budget; a model, a data file and a project that  *)
(* three callers ask for; a model that is rewritten, with the workspace's  *)
(* watcher alone; and one that is rewritten while it is open in a tab.     *)
(* Each takes only steps of SourceCache.                                   *)
(***************************************************************************)
EXTENDS SourceCache, TLC

CONSTANTS m1, m2, m3, m4, m5, d1, p1, c1, c2, c3

ASSUME PartsAssumption ==
    /\ {c1, c2, c3} \subseteq Callers
    /\ {m1, m2, m3, m4, m5} \subseteq Models /\ d1 \in DataFiles /\ p1 \in Projects
    /\ Asks = {"cheap", "parse", "tab", "usage"}
    /\ ~WatcherStatFaults

VARIABLES of,       \* the part: "budget", "folder", "workspace" or "watched"
    displaced       \* whether a flight of the workspace has been displaced

Symmetric == Permutations({c1, c2}) \union Permutations({m4, m5})

\* The budget holds one model that is not m1.
Sizes == [m \in Models |-> IF m = m1 THEN 4 ELSE 2]

Asked(callers, asks, files) == \E c \in callers, ask \in asks, f \in files : Ask(c, ask, f)

\* A step of a caller whose stat and read answer.
Answering ==
    \E c \in Callers :
        /\ CallerStep(c)
        /\ call'[c].pc = "statted" => call'[c].ver # NoVersion
        /\ call'[c].pc = "derive" => call'[c].bytes # Nothing

BudgetNext ==
    \/ Asked({c1, c2}, {"parse", "tab"}, Models)
    \/ Answering
    \/ clearSourceCache

FolderNext ==
    \/ Asked(Callers, {"cheap", "tab"}, {m1, d1, p1})
    \/ \E c \in Callers : CallerStep(c)
    \/ clearSourceCache

WorkspaceNext ==
    \/ Asked({c1, c2}, {"usage"}, {m2})
    \/ Answering
    \/ \E v \in Versions : Write(m2, v)
    \/ WatcherStep
    \/ clearSourceCache

WatchedNext ==
    \/ Asked({c1, c2}, {"tab", "usage"}, {m3})
    \/ Answering
    \/ \E v \in Versions : Write(m3, v)
    \/ WatcherStep

BoundsInit == Init /\ of \in {"budget", "folder", "workspace", "watched"} /\ displaced = FALSE

BoundsNext ==
    /\ \/ of = "budget"    /\ BudgetNext
       \/ of = "folder"    /\ FolderNext
       \/ of = "workspace" /\ ~displaced /\ WorkspaceNext
       \/ of = "watched"   /\ WatchedNext
       \/ displaced /\ UNCHANGED vars       \* nothing is claimed of what follows
    /\ displaced' = (displaced \/ (of = "workspace" /\ SomeDisplaced'))
    /\ UNCHANGED of

BoundsSpec == BoundsInit /\ [][BoundsNext]_<<vars, of, displaced>>

-----------------------------------------------------------------------------
\* Relying on forgetUnseenWrite alone, a displaced flight is the only way to keep old
\* content under the current version: until a flight at another version has taken a running
\* one's slot, no order of asks, saves, restores, clears, stats and forgets does it.
CurrentUnlessDisplaced == of = "workspace" /\ ~displaced => TiersCurrent
=============================================================================
