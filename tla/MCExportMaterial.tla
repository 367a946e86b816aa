-------------------------- MODULE MCExportMaterial --------------------------
(* Instances of ExportMaterial for TLC: what native runs leave behind. *)
EXTENDS ExportMaterial, TLC

CONSTANTS e1, e2, p1, d1

File(n) == [kind |-> "file", size |-> n]
Dir == [kind |-> "dir", size |-> 0]
Link == [kind |-> "link", size |-> 0]

\* At both limits, two files and three bytes; just beyond each of them; and the
\* entries that are refused.
MCOutputs ==
    { <<Dir, File(1), File(2)>>,
      <<File(1), File(3)>>,
      <<File(1), File(1), File(1)>>,
      <<File(1), Link>>,
      <<File(0)>> }

MCRuns == { [code |-> 0, marker |-> m] : m \in {"none", "captured"} }
          \cup { [code |-> 1, marker |-> "none"] }
=============================================================================
