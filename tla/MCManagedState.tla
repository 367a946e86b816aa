--------------------------- MODULE MCManagedState ---------------------------
(* Instances of ManagedState for TLC: command lines and initial roots. *)
EXTENDS ManagedState, TLC

CONSTANTS r1, r2, r3, a, b

\* Two options, so that a run may give one and take the other from the state.
MCFields == {"executable", "probe"}
Give(e, p) == [f \in MCFields |-> IF f = "executable" THEN e ELSE p]

Line(command, execute, want) ==
    [command |-> command, execute |-> execute, want |-> want]

MCRequests ==
    { Line(c, TRUE, w) : c \in {"install", "upgrade"},
                         w \in {Give(a, a), Give(b, Unset)} }
    \cup { Line("upgrade", FALSE, Give(b, b)),
           Line("uninstall", TRUE, NoConfig), Line("uninstall", FALSE, NoConfig),
           Line("status", FALSE, NoConfig), Line("verify", FALSE, NoConfig) }

\* The mutating commands only, for runs that overlap.
MutatingRequests ==
    { Line("install", TRUE, Give(a, a)), Line("upgrade", TRUE, Give(b, Unset)),
      Line("upgrade", TRUE, Give(a, b)), Line("uninstall", TRUE, NoConfig) }

Tampered == [Managed(Give(a, a)) EXCEPT !.config = Give(b, b)]
MCRoots == { Absent, Managed(Give(a, a)), Managed(Give(b, b)), Tampered,
             [EmptyDir EXCEPT !.extra = TRUE] }
ManagedRoot == { Managed(Give(a, a)) }

RunSymmetry == Permutations(Runs)
=============================================================================
