---------------------------- MODULE SafeReplace ----------------------------
(***************************************************************************)
(* Saving over the user's file (folder/safeReplace.ts, replaceFile): a     *)
(* temporary file beside it, flushed and renamed over it, and the write in *)
(* place that is the fallback.  Several windows may save one file at once, *)
(* every call of the file system may fail, a window may be killed and the  *)
(* power may go between any two of them.                                   *)
(*                                                                         *)
(* An action is one awaited call of the file system and the code up to the *)
(* next.  Content is a sequence of chunks, each known by who wrote it.     *)
(* Paths are followed already: `name` is what the save's target names.     *)
(***************************************************************************)
EXTENDS Integers, Sequences, FiniteSets

CONSTANTS
    Savers,         \* the saves made, each by a window of its own
    Original,       \* the author of the file as it was
    Zeros,          \* what a file is extended with
    Gone, Torn,     \* see AtomicSave
    None,
    Chunks,         \* author -> the length of its file
    HasProvider     \* whether the host hands in a write of its own

Authors == Savers \union {Original}

Orig    == [as |-> "original", by |-> None]
Temp(s) == [as |-> "temp", by |-> s]
Made(s) == [as |-> "made", by |-> s]        \* created under the name itself
Inodes  == {Orig} \union {Temp(s) : s \in Savers} \union {Made(s) : s \in Savers}

\* No file is empty; the special values are nobody's name.
ASSUME SaveAssumption ==
    /\ Chunks \in [Authors -> Nat \ {0}]
    /\ HasProvider \in BOOLEAN
    /\ Original \notin Savers
    /\ {Zeros, Gone, Torn} \intersect Authors = {}
    /\ None \notin Inodes

Whole(a) == [i \in 1 .. Chunks[a] |-> a]

VARIABLES
    writable,   \* what `access` finds
    linked,     \* whether Orig has another name, elsewhere
    folder,     \* whether the folder is there
    name,       \* the inode under the name, or None
    names,      \* what it may be found on after a loss of power
    data,       \* inode -> its content
    durable,    \* inode -> the contents a loss of power may leave it with
    kept,       \* the inodes with the original's mode, owner and group
    temps,      \* the savers whose temporary file is in the folder
    aged,       \* those of them over STALE_TEMP_MS old
    save        \* saver -> where replaceFile has got to

fileVars == <<writable, linked, folder, name, names, data, durable, kept, temps, aged>>
saveVars == <<fileVars, save>>

Ended == {"replaced", "in-place", "failed", "dead"}

Phases == Ended \union
    {"idle", "access", "list", "sweep", "temp", "write", "keep", "sync", "rename",
     "drop", "syncDir", "open", "create", "over", "flush", "provide", "provided"}

NotBegun == [pc |-> "idle", found |-> FALSE, many |-> FALSE, seen |-> {},
             at |-> 0, on |-> None, next |-> "failed"]

Content == Seq(Authors \union {Zeros})

Progress == [pc : Phases, found : BOOLEAN, many : BOOLEAN, seen : SUBSET Savers,
             at : Nat, on : Inodes \union {None}, next : {"failed", "open"}]

SaveTypeOK ==
    /\ writable \in BOOLEAN /\ linked \in BOOLEAN /\ folder \in BOOLEAN
    /\ names \subseteq Inodes \union {None} /\ name \in names
    /\ data \in [Inodes -> Content]
    /\ durable \in [Inodes -> SUBSET Content]
    /\ \A i \in Inodes : data[i] \in durable[i]
    /\ kept \subseteq Inodes
    /\ temps \subseteq Savers /\ aged \subseteq temps
    /\ save \in [Savers -> Progress]
    /\ \A s \in Savers : save[s].at <= Chunks[s]

SaveInit ==
    /\ writable \in BOOLEAN
    /\ linked \in BOOLEAN
    /\ folder = TRUE
    /\ name \in {Orig, None}
    /\ names = {name}
    /\ data = [i \in Inodes |-> IF i = Orig THEN Whole(Original) ELSE <<>>]
    /\ durable = [i \in Inodes |-> {data[i]}]
    /\ kept = {Orig}
    /\ temps = {}
    /\ aged = {}
    /\ save = [s \in Savers |-> NotBegun]

-----------------------------------------------------------------------------
\* The next call, with nothing else of the save changed.
GoesTo(s, pc) == save' = [save EXCEPT ![s].pc = pc]

\* An error on the way to the rename: the temporary file goes, then `next`.
DropsTo(s, next) == save' = [save EXCEPT ![s].pc = "drop", ![s].next = next]

At(s, pc) == save[s].pc = pc

\* A write into inode i that leaves it holding d, not flushed; and its flush.
Puts(i, d) ==
    /\ data' = [data EXCEPT ![i] = d]
    /\ durable' = [durable EXCEPT ![i] = @ \union {d}]
Flushed(i) == durable' = [durable EXCEPT ![i] = {data[i]}]

\* A new, empty inode: what an earlier crash may leave of it is of no interest.
Creates(i) ==
    /\ data' = [data EXCEPT ![i] = <<>>]
    /\ durable' = [durable EXCEPT ![i] = {<<>>}]

\* Chunk i of d written by a, past a hole if need be; d cut or extended to n.
Chunk(d, i, a) ==
    [j \in 1 .. (IF i > Len(d) THEN i ELSE Len(d)) |->
        IF j = i THEN a ELSE IF j <= Len(d) THEN d[j] ELSE Zeros]
Resized(d, n) == [j \in 1 .. n |-> IF j <= Len(d) THEN d[j] ELSE Zeros]

-----------------------------------------------------------------------------
(***************************************************************************)
(* replaceFile, up to the temporary file.                                  *)
(***************************************************************************)
\* Mutant: the link count is not looked at.
StatUncounted(s) ==
    /\ At(s, "idle")
    /\ \/ save' = [save EXCEPT ![s] = [@ EXCEPT !.pc = IF name = None THEN "list" ELSE "access",
                                              !.found = name # None]]
       \/ GoesTo(s, "failed")
    /\ UNCHANGED fileVars

Stat(s) ==
    /\ At(s, "idle")
    /\ \/ save' = [save EXCEPT ![s] =
              [@ EXCEPT !.pc = IF name = None THEN "list" ELSE "access",
                        !.found = name # None,
                        !.many = linked /\ name = Orig]]
       \/ GoesTo(s, "failed")
    /\ UNCHANGED fileVars

\* Refused where it is read-only, or gone since.
Access(s) ==
    /\ At(s, "access")
    /\ GoesTo(s, IF ~writable \/ name = None THEN "failed"
                 ELSE IF save[s].many THEN "open" ELSE "list")
    /\ UNCHANGED fileVars

\* removeStaleTemps: any error ends it.
ListTemps(s) ==
    /\ At(s, "list")
    /\ \/ folder /\ save' = [save EXCEPT ![s] = [@ EXCEPT !.pc = "sweep", !.seen = temps]]
       \/ GoesTo(s, "temp")
    /\ UNCHANGED fileVars

Sweep(s) ==
    /\ At(s, "sweep")
    /\ \/ /\ GoesTo(s, "temp")
          /\ UNCHANGED temps
       \/ \E t \in save[s].seen \intersect temps :
              /\ save' = [save EXCEPT ![s].seen = @ \ {t}]
              /\ temps' = IF t \in aged THEN temps \ {t} ELSE temps
    /\ aged' = aged \intersect temps'
    /\ UNCHANGED <<writable, linked, folder, name, names, data, durable, kept>>

OpenTemp(s) ==
    /\ At(s, "temp")
    /\ \/ /\ folder
          /\ temps' = temps \union {s}
          /\ Creates(Temp(s))
          /\ save' = [save EXCEPT ![s] = [@ EXCEPT !.pc = "write", !.at = 0]]
       \/ /\ ~folder
          /\ GoesTo(s, IF HasProvider THEN "provide" ELSE "failed")
          /\ UNCHANGED <<temps, data, durable>>
       \/ /\ folder
          /\ save[s].found
          /\ GoesTo(s, "open")
          /\ UNCHANGED <<temps, data, durable>>
       \/ /\ GoesTo(s, "failed")
          /\ UNCHANGED <<temps, data, durable>>
    /\ UNCHANGED <<writable, linked, folder, name, names, kept, aged>>

-----------------------------------------------------------------------------
(***************************************************************************)
(* The temporary file, and the rename.                                     *)
(***************************************************************************)
WriteTemp(s) ==
    /\ At(s, "write")
    /\ \/ /\ save[s].at < Chunks[s]
          /\ Puts(Temp(s), Append(data[Temp(s)], s))
          /\ save' = [save EXCEPT ![s].at = @ + 1]
       \/ /\ save[s].at = Chunks[s]
          /\ GoesTo(s, IF save[s].found THEN "keep" ELSE "sync")
          /\ UNCHANGED <<data, durable>>
       \/ /\ DropsTo(s, "failed")
          /\ UNCHANGED <<data, durable>>
    /\ UNCHANGED <<writable, linked, folder, name, names, kept, temps, aged>>

\* Mutant: whatever of the original's access could not be kept is let go.
keepsAccessOrNot(s) ==
    /\ At(s, "keep")
    /\ \/ GoesTo(s, "sync") /\ kept' \in {kept, kept \union {Temp(s)}}
       \/ DropsTo(s, "failed") /\ UNCHANGED kept
    /\ UNCHANGED <<writable, linked, folder, name, names, data, durable, temps, aged>>

keepsAccess(s) ==
    /\ At(s, "keep")
    /\ \/ GoesTo(s, "sync") /\ kept' = kept \union {Temp(s)}
       \/ DropsTo(s, "open") /\ UNCHANGED kept
       \/ DropsTo(s, "failed") /\ UNCHANGED kept
    /\ UNCHANGED <<writable, linked, folder, name, names, data, durable, temps, aged>>

\* Mutant: renamed before it is on disk.
SyncNothing(s) ==
    /\ At(s, "sync")
    /\ GoesTo(s, "rename") \/ DropsTo(s, "failed")
    /\ UNCHANGED fileVars

Sync(s) ==
    /\ At(s, "sync")
    /\ \/ GoesTo(s, "rename") /\ Flushed(Temp(s))
       \/ DropsTo(s, "failed") /\ UNCHANGED durable
    /\ UNCHANGED <<writable, linked, folder, name, names, data, kept, temps, aged>>

Rename(s) ==
    /\ At(s, "rename")
    /\ \/ /\ s \in temps
          /\ name' = Temp(s)
          /\ names' = names \union {name'}
          /\ temps' = temps \ {s}
          /\ GoesTo(s, "syncDir")
       \/ /\ DropsTo(s, "failed")
          /\ UNCHANGED <<name, names, temps>>
       \/ /\ s \in temps
          /\ save[s].found
          /\ DropsTo(s, "open")
          /\ UNCHANGED <<name, names, temps>>
    /\ aged' = aged \intersect temps'
    /\ UNCHANGED <<writable, linked, folder, data, durable, kept>>

\* The unlink is best effort: one that fails leaves the file to a later save.
Drop(s) ==
    /\ At(s, "drop")
    /\ GoesTo(s, save[s].next)
    /\ temps' \in {temps, temps \ {s}}
    /\ aged' = aged \intersect temps'
    /\ UNCHANGED <<writable, linked, folder, name, names, data, durable, kept>>

SyncDir(s) ==
    /\ At(s, "syncDir")
    /\ names' \in {names, {name}}
    /\ GoesTo(s, "replaced")
    /\ UNCHANGED <<writable, linked, folder, name, data, durable, kept, temps, aged>>

-----------------------------------------------------------------------------
(***************************************************************************)
(* writeInPlace, and the host's own write (VS Code's workspace.fs).        *)
(***************************************************************************)

\* Mutant: opened with truncation, as a plain write is.
OpenTruncated(s) ==
    /\ At(s, "open")
    /\ name # None
    /\ save' = [save EXCEPT ![s] = [@ EXCEPT !.pc = "over", !.on = name, !.at = 0]]
    /\ Puts(name, <<>>)
    /\ UNCHANGED <<writable, linked, folder, name, names, kept, temps, aged>>

Open(s) ==
    /\ At(s, "open")
    /\ \/ /\ name # None
          /\ save' = [save EXCEPT ![s] = [@ EXCEPT !.pc = "over", !.on = name, !.at = 0]]
       \/ GoesTo(s, IF name = None THEN "create" ELSE "failed")
    /\ UNCHANGED fileVars

\* Not there a moment ago: made, unless it is there by now.
Create(s) ==
    /\ At(s, "create")
    /\ \/ /\ name = None /\ folder
          /\ name' = Made(s)
          /\ names' = names \union {name'}
          /\ Creates(Made(s))
          /\ save' = [save EXCEPT ![s] = [@ EXCEPT !.pc = "over", !.on = Made(s), !.at = 0]]
       \/ /\ GoesTo(s, "failed")
          /\ UNCHANGED <<name, names, data, durable>>
    /\ UNCHANGED <<writable, linked, folder, kept, temps, aged>>

\* Mutant: one chunk too many.
OverPastEnd(s) ==
    /\ At(s, "over")
    /\ save[s].at <= Chunks[s]
    /\ Puts(save[s].on, Chunk(data[save[s].on], save[s].at + 1, s))
    /\ save' = [save EXCEPT ![s].at = @ + 1]
    /\ UNCHANGED <<writable, linked, folder, name, names, kept, temps, aged>>

Over(s) ==
    /\ At(s, "over")
    /\ \/ /\ save[s].at < Chunks[s]
          /\ Puts(save[s].on, Chunk(data[save[s].on], save[s].at + 1, s))
          /\ save' = [save EXCEPT ![s].at = @ + 1]
       \/ /\ save[s].at = Chunks[s]
          /\ Puts(save[s].on, Resized(data[save[s].on], Chunks[s]))
          /\ GoesTo(s, "flush")
       \/ /\ GoesTo(s, "failed")
          /\ UNCHANGED <<data, durable>>
    /\ UNCHANGED <<writable, linked, folder, name, names, kept, temps, aged>>

Flush(s) ==
    /\ At(s, "flush")
    /\ \/ GoesTo(s, "in-place") /\ Flushed(save[s].on)
       \/ GoesTo(s, "failed") /\ UNCHANGED durable
    /\ UNCHANGED <<writable, linked, folder, name, names, data, kept, temps, aged>>

\* It makes the folder and cuts the file to nothing, and then writes it.
ProviderOpens(s) ==
    LET i == IF name = None THEN Made(s) ELSE name
    IN  /\ At(s, "provide")
        /\ \/ /\ folder' = TRUE
              /\ name' = i
              /\ names' = names \union {i}
              /\ Puts(i, <<>>)
              /\ save' = [save EXCEPT ![s] = [@ EXCEPT !.pc = "provided", !.on = i]]
           \/ /\ GoesTo(s, "failed")
              /\ UNCHANGED <<folder, name, names, data, durable>>
        /\ UNCHANGED <<writable, linked, kept, temps, aged>>

ProviderWrites(s) ==
    /\ At(s, "provided")
    /\ Puts(save[s].on, Whole(s))
    /\ GoesTo(s, "in-place")
    /\ UNCHANGED <<writable, linked, folder, name, names, kept, temps, aged>>

-----------------------------------------------------------------------------
(***************************************************************************)
(* What happens around a save.                                             *)
(***************************************************************************)
Saving(s) == save[s].pc \notin Ended \union {"idle"}

Kill(s) ==
    /\ Saving(s)
    /\ GoesTo(s, "dead")
    /\ UNCHANGED fileVars

\* The name is on any inode it may be found on, with any content that may be left
\* of it; an entry that did not survive is under its temporary name again.
PowerLoss ==
    /\ \E i \in names :
           /\ name' = i
           /\ IF i = None THEN UNCHANGED data
              ELSE \E d \in durable[i] : data' = [data EXCEPT ![i] = d]
           /\ temps' = {s \in Savers : (s \in temps \/ Temp(s) \in names) /\ i # Temp(s)}
    /\ names' = {name'}
    /\ durable' = [i \in Inodes |-> {data'[i]}]
    /\ aged' = temps'
    /\ save' = [s \in Savers |-> IF Saving(s) THEN [save[s] EXCEPT !.pc = "dead"] ELSE save[s]]
    /\ UNCHANGED <<writable, linked, folder, kept>>

\* A minute passes over a temporary file, its saver at work or not.
Age(t) ==
    /\ t \in temps \ aged
    /\ aged' = aged \union {t}
    /\ UNCHANGED <<writable, linked, folder, name, names, data, durable, kept, temps, save>>

RemoveFolder ==
    /\ folder
    /\ folder' = FALSE
    /\ name' = None
    /\ names' = {None}
    /\ temps' = {}
    /\ aged' = {}
    /\ UNCHANGED <<writable, linked, data, durable, kept, save>>

-----------------------------------------------------------------------------
SaverStep(s) ==
    \/ Stat(s) \/ Access(s) \/ ListTemps(s) \/ Sweep(s) \/ OpenTemp(s)
    \/ WriteTemp(s) \/ keepsAccess(s) \/ Sync(s) \/ Rename(s) \/ Drop(s) \/ SyncDir(s)
    \/ Open(s) \/ Create(s) \/ Over(s) \/ Flush(s)
    \/ ProviderOpens(s) \/ ProviderWrites(s)

SaveNext ==
    \/ \E s \in Savers : SaverStep(s) \/ Kill(s) \/ Age(s)
    \/ PowerLoss
    \/ RemoveFolder

SaveSpec == SaveInit /\ [][SaveNext]_saveVars
-----------------------------------------------------------------------------
(***************************************************************************)
(* Properties.                                                             *)
(***************************************************************************)

\* Whose file a content is, and what saver s has promised so far.
FileOf(i, d) ==
    IF i = None THEN Gone
    ELSE IF \E a \in Authors : d = Whole(a) THEN CHOOSE a \in Authors : d = Whole(a)
    ELSE Torn

StateOf(pc) ==
    CASE pc \in {"idle", "failed", "dead"} -> pc
      [] pc \in {"replaced", "in-place"} -> "done"
      [] pc = "syncDir" -> "taken"
      [] pc \in {"open", "create", "over", "flush", "provide", "provided"} -> "overwriting"
      [] OTHER -> "saving"

file  == FileOf(name, IF name = None THEN <<>> ELSE data[name])
past  == UNION {{FileOf(i, d) : d \in IF i = None THEN {<<>>} ELSE durable[i]} : i \in names}
state == [s \in Savers |-> StateOf(save[s].pc)]

Promise == INSTANCE AtomicSave

\* Through errors, kills and loss of power, other windows saving and sweeping, and
\* the folder going, a save puts its file under the name whole and in one step,
\* and succeeds once it has; or fails with the file as it was; or has fallen back
\* to writing in place (replaceFile).
KeepsPromise == Promise!Spec

\* A save changes nobody's access: what replaces a file that was there has its
\* mode, owner and group (keepsAccess, and the fallback where it answers no).
AccessKept ==
    \A s \in Savers : name = Temp(s) /\ save[s].found => Temp(s) \in kept

\* A file with other names, or that is read-only, is never replaced: whatever the
\* order of saves, its name stays on its inode until the folder is deleted.
OriginalStays ==
    [][name = Orig /\ (linked \/ ~writable) => name' \in {Orig, None}]_saveVars

\* A write in place never empties the file: at every instant, and after any
\* crash, the original holds old bytes or new from its first chunk on, never cut
\* below the shortest of them (writeInPlace: never truncated first).
NeverEmptied ==
    \A d \in durable[Orig] :
        /\ d # <<>> /\ d[1] # Zeros
        /\ \E a \in Authors : Len(d) >= Chunks[a]

=============================================================================
