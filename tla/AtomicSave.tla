----------------------------- MODULE AtomicSave -----------------------------
(***************************************************************************)
(* What a save promises of the file it is made over (the header comment of *)
(* folder/safeReplace.ts): the name holds the old file or the new one,     *)
(* whole, and nothing in between, through failures, kills and power loss;  *)
(* only a save that had to fall back to writing in place may leave it      *)
(* otherwise.  SafeReplace is shown to implement this.                     *)
(***************************************************************************)
CONSTANTS
    Savers,     \* the saves made, each by a window of its own
    Original,   \* the author of the file as it was
    Gone,       \* no file under the name
    Torn        \* a file that is nobody's, whole

VARIABLES
    file,       \* whose file the name holds
    past,       \* what a loss of power may leave it holding
    state       \* saver -> how far its save has come

absVars == <<file, past, state>>

Outcomes == Savers \union {Original, Gone, Torn}
Running  == {"saving", "taken", "overwriting"}

Init ==
    /\ file \in {Original, Gone}
    /\ past = {file}
    /\ state = [s \in Savers |-> "idle"]

Moves(s, from, to) == state[s] \in from /\ state' = [state EXCEPT ![s] = to]

Begin(s) == Moves(s, {"idle"}, "saving") /\ UNCHANGED <<file, past>>

\* The new file takes the name, whole; the old one may still come back.
Replace(s) ==
    /\ Moves(s, {"saving"}, "taken")
    /\ file' = s
    /\ past' = past \union {s}

\* Once it has, the save succeeds, whether or not the name could be flushed.
Finish(s) ==
    /\ Moves(s, {"taken"}, "done")
    /\ UNCHANGED file
    /\ past' \subseteq past /\ past' # {}

\* Before it has, the save may fail, and the file is as it was.
Fail(s) == Moves(s, {"idle", "saving"}, "failed") /\ UNCHANGED <<file, past>>

Overwrite(s) == Moves(s, {"saving"}, "overwriting") /\ UNCHANGED <<file, past>>

\* A save in place is held to nothing until it ends, and to little then.
Scribble(s) ==
    /\ Moves(s, {"overwriting"}, "overwriting") \/ Moves(s, {"overwriting"}, "done")
    /\ file' \in Outcomes
    /\ past' \in SUBSET Outcomes

GiveUp(s) == Moves(s, {"overwriting"}, "failed") /\ UNCHANGED <<file, past>>

Kill(s) == Moves(s, Running, "dead") /\ UNCHANGED <<file, past>>

PowerLoss ==
    /\ file' \in past
    /\ past' = {file'}
    /\ state' = [s \in Savers |-> IF state[s] \in Running THEN "dead" ELSE state[s]]

\* The user deletes the file's folder.
Remove == file' = Gone /\ past' = {Gone} /\ UNCHANGED state

Next ==
    \/ \E s \in Savers :
           \/ Begin(s) \/ Replace(s) \/ Finish(s) \/ Fail(s)
           \/ Overwrite(s) \/ Scribble(s) \/ GiveUp(s) \/ Kill(s)
    \/ PowerLoss
    \/ Remove

Spec == Init /\ [][Next]_absVars
=============================================================================
