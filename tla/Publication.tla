---------------------------- MODULE Publication ----------------------------
(***************************************************************************)
(* What the release workflow promises about one version: its files appear  *)
(* on the package index one at a time and are never replaced; once they    *)
(* are all there, and make one build, the release that holds exactly them  *)
(* is announced, and nothing changes afterwards.                           *)
(***************************************************************************)
CONSTANTS
    Files, Digests,
    Builds,     \* sets of files that belong together
    Absent      \* no file of that name is there

VARIABLES
    packages,   \* the files on the package index
    announced   \* the files of the public release, all Absent before it

Nothing == [f \in Files |-> Absent]

Init == packages = Nothing /\ announced = Nothing

Put(f, d) ==
    /\ packages[f] = Absent
    /\ packages' = [packages EXCEPT ![f] = d]
    /\ UNCHANGED announced

Announce ==
    /\ packages \in Builds /\ announced = Nothing
    /\ announced' = packages
    /\ UNCHANGED packages

Next == (\E f \in Files, d \in Digests : Put(f, d)) \/ Announce

Spec == Init /\ [][Next]_<<packages, announced>>
=============================================================================
