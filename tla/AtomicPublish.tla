---------------------------- MODULE AtomicPublish ----------------------------
(***************************************************************************)
(* What export_material promises of the directory tree (README.md, "Safety *)
(* model"): a destination goes in one step from nothing to a complete      *)
(* export, and a complete export, like anything else that is not an empty  *)
(* directory, is never changed again.                                      *)
(***************************************************************************)
EXTENDS Integers, Sequences, FiniteSets

CONSTANTS
    Paths,     \* destinations
    Outputs,   \* entries a native run may produce, in inventory order
    MaxFiles, MaxBytes

VARIABLE out   \* what each destination holds

\* The entries that may be shown at a destination: regular files within the
\* limits and directories, no links, no empty files, and at least one file.
Complete(tree) ==
    LET regular == {i \in 1..Len(tree) : tree[i].kind = "file"}
    IN  /\ \A i \in 1..Len(tree) :
              /\ tree[i].kind # "link"
              /\ i \in regular => tree[i].size > 0
        /\ Cardinality(regular) \in 1..MaxFiles
        \* The running sum of their bytes stays within the limit.
        /\ \E sum \in [0..Len(tree) -> 0..MaxBytes] :
              /\ sum[0] = 0
              /\ \A i \in 1..Len(tree) :
                    sum[i] = sum[i - 1] + (IF i \in regular THEN tree[i].size ELSE 0)

Absent == [kind |-> "absent"]
EmptyDir == [kind |-> "empty"]
Other == [kind |-> "other"]

Init == out \in [Paths -> {Absent, EmptyDir, Other}]

Publish(p) ==
    /\ out[p] \in {Absent, EmptyDir}
    /\ \E tree \in Outputs :
          /\ Complete(tree)
          /\ out' = [out EXCEPT ![p] = [kind |-> "export", tree |-> tree]]

\* Others create a file or a directory.
Occupy(p) ==
    /\ out[p] = Absent
    /\ \E what \in {EmptyDir, Other} : out' = [out EXCEPT ![p] = what]

Next == \E p \in Paths : Publish(p) \/ Occupy(p)

Spec == Init /\ [][Next]_out
=============================================================================
