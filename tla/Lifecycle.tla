------------------------------ MODULE Lifecycle ------------------------------
(***************************************************************************)
(* What the install lifecycle promises an operator who runs one command at *)
(* a time (install.md): every command is a transaction.  It reports ok and *)
(* has its whole effect, or it reports anything else and has none; an      *)
(* upgrade needs a managed state, an install never replaces a different    *)
(* one, a plan changes nothing, and a root the adapter does not own is     *)
(* left alone.                                                             *)
(***************************************************************************)
CONSTANTS
    Runs, Fields, Values, Unset,
    None,      \* no managed state
    Foreign,   \* the root holds something the adapter does not own
    Requests   \* command lines: records [command, execute, want]

VARIABLES
    state,     \* the managed configuration, None or Foreign
    request,   \* the command line of each run
    report     \* what each run has reported: "none" while it has not ended

vars == <<state, request, report>>

Configs == [Fields -> Values]

Wanted(r) ==
    [f \in Fields |-> IF request[r].want[f] # Unset THEN request[r].want[f]
                      ELSE IF state \in Configs THEN state[f] ELSE Unset]

Init ==
    /\ state \in Configs \cup {None, Foreign}
    /\ request \in [Runs -> Requests]
    /\ report = [r \in Runs |-> "none"]

Report(r, what) ==
    /\ report[r] = "none"
    /\ report' = [report EXCEPT ![r] = what]
    /\ UNCHANGED request

Publish(r) ==
    /\ request[r].command \in {"install", "upgrade"} /\ request[r].execute
    /\ state # Foreign /\ Wanted(r) \in Configs
    /\ request[r].command = "install" => state \in {None, Wanted(r)}
    /\ request[r].command = "upgrade" => state # None
    /\ state' = Wanted(r)
    /\ Report(r, "ok")

Remove(r) ==
    /\ request[r].command = "uninstall"
    /\ state = None \/ (state # Foreign /\ request[r].execute)
    /\ state' = None
    /\ Report(r, "ok")

Observe(r) ==
    /\ \/ request[r].command = "status" /\ state \in Configs
       \/ request[r].command = "verify"
    /\ Report(r, "ok")
    /\ UNCHANGED state

Plan(r) ==
    /\ request[r].command \in {"install", "upgrade", "uninstall"}
    /\ ~request[r].execute /\ state # Foreign
    /\ Report(r, "planned")
    /\ UNCHANGED state

Refuse(r) == Report(r, "failed") /\ UNCHANGED state

Next == \E r \in Runs : Publish(r) \/ Remove(r) \/ Observe(r) \/ Plan(r) \/ Refuse(r)

Spec == Init /\ [][Next]_vars
=============================================================================
