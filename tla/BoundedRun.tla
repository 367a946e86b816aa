------------------------------ MODULE BoundedRun ------------------------------
(***************************************************************************)
(* What a caller of _run_process may rely on (bridge.py): while the call   *)
(* is under way a tree of owned processes grows and shrinks as it likes;   *)
(* the call settles only once the owned tree is empty, either with the     *)
(* exit code the native executable really had or with an exception, and    *)
(* no owned process appears afterwards.                                    *)
(***************************************************************************)
CONSTANTS
    Procs,      \* processes that may belong to the tree
    ExitCodes,  \* exit codes of the native executable
    NoCode      \* the native executable has not exited

VARIABLES
    owned,   \* live processes of the tree
    exit,    \* how the native executable exited
    outcome  \* "running", "raised", or the exit code that was returned

vars == <<owned, exit, outcome>>

Init == owned = {} /\ exit = NoCode /\ outcome = "running"

Grow ==
    /\ outcome = "running"
    /\ \E p \in Procs : owned' = owned \cup {p}
    /\ UNCHANGED <<exit, outcome>>

\* Processes exit, leave the tree or are killed; an exit code is final.
Shrink ==
    /\ owned' \in SUBSET owned
    /\ exit' \in {exit} \cup ExitCodes
    /\ exit' # exit => exit = NoCode
    /\ UNCHANGED outcome

Settle ==
    /\ outcome = "running" /\ owned = {}
    /\ \/ outcome' = "raised"
       \/ exit # NoCode /\ outcome' = exit
    /\ UNCHANGED <<owned, exit>>

Next == Grow \/ Shrink \/ Settle

Spec == Init /\ [][Next]_vars
=============================================================================
