------------------------------- MODULE MCHost -------------------------------
(***************************************************************************)
(* What the node host does in a folder, one at a time: it saves over a     *)
(* file (SafeReplace) or watches the folder (WatchFolder).  What it does   *)
(* not do stays as it was at the start.                                    *)
(***************************************************************************)
EXTENDS SafeReplace, WatchFolder

CONSTANTS
    Does,           \* which of "save" and "watch" it may do
    s1              \* the saver whose file is shorter than the original

VARIABLE does

\* Two windows save: the file of s1 is shorter than the original, any other as long.
Lengths == [a \in Authors |-> IF a = s1 THEN 1 ELSE 2]

vars == <<does, saveVars, watchVars>>

Init ==
    /\ does \in Does
    /\ SaveInit /\ (does # "save" => writable /\ linked /\ name = None)
    /\ WatchInit /\ (does # "watch" => ~watcher /\ \A n \in Names : kind[n] = "none")

Next ==
    \/ does = "save"  /\ SaveNext /\ UNCHANGED <<does, watchVars>>
    \/ does = "watch" /\ WatchNext /\ UNCHANGED <<does, saveVars>>

Spec == Init /\ [][Next]_vars

FairSpec == Spec /\ WatchFairness

TypeOK == SaveTypeOK /\ WatchTypeOK
=============================================================================
