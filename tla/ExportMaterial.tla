---------------------------- MODULE ExportMaterial ----------------------------
(***************************************************************************)
(* Concurrent calls of export_material and status (bridge.py) that share   *)
(* a project file and the directory tree.  An export writes to a private   *)
(* staging directory beside its destination, takes an inventory of it and  *)
(* renames it to the destination.  A status call is an export into a       *)
(* temporary directory beside the project, which is removed again however  *)
(* the export ends.                                                        *)
(*                                                                         *)
(* What the native executable leaves in the staging directory is a         *)
(* sequence of entries in the order sorted(rglob("*")) lists them.  The    *)
(* native run is used through the contract of BoundedRun: when it settles  *)
(* nothing of its tree writes any more, and it ends with an exit code or   *)
(* with an exception.                                                      *)
(***************************************************************************)
EXTENDS Integers, Sequences, FiniteSets

CONSTANTS
    Exports,     \* calls of export_material
    Probes,      \* calls of status with a probe project
    Paths,       \* destinations the exports may ask for
    Outputs,     \* what one native run may leave in its staging directory
    Runs,        \* how a native run may end: records [code, marker]
    MaxFiles, MaxBytes,
    MaxCalls,    \* bound of the model: calls that are made
    MaxEdits,    \* bound of the model: edits of the project by its author
    Faults       \* what else may happen: "crash", "rmtree_fails"

ASSUME ExportAssumption ==
    /\ Exports \cap Probes = {}
    /\ Paths \cap Probes = {}
    /\ MaxFiles \in Nat \ {0} /\ MaxBytes \in Nat \ {0}
    /\ MaxCalls \in Nat /\ MaxEdits \in Nat
    /\ Outputs \subseteq Seq([kind : {"file", "link", "dir"}, size : Nat])
    /\ Runs \subseteq [code : {0, 1}, marker : {"none", "captured", "beyond"}]
    /\ Faults \subseteq {"crash", "rmtree_fails"}

Jobs == Exports \cup Probes

\* A probe's destination lies in a temporary directory of its own.
Places == Paths \cup Probes

NoTree == <<[kind |-> "none", size |-> 0]>>   \* there is no staging directory

\* What a place holds.  "other" is a file or a non-empty directory that no job
\* made, or what a removal that failed has left of an export; a job's export is
\* a record.
Absent == [kind |-> "absent"]
EmptyDir == [kind |-> "empty"]
Other == [kind |-> "other"]
\* Mutated form of Export: an empty directory is renamed in its place.
ExportEmpty(j, tree) == [kind |-> "export", by |-> j, tree |-> NoTree]

Export(j, tree) == [kind |-> "export", by |-> j, tree |-> tree]

NoRun == [code |-> 1, marker |-> "none"]

VARIABLES
    project,   \* the project file: its condition and how often it was edited
    place,     \* the destinations on disk
    staging,   \* the staging directory of each job, NoTree when there is none
    pc,        \* next statement of each job
    want,      \* the destination each job was asked for
    checked,   \* edition of the project the job validated
    used,      \* edition of the project the native executable loaded
    run,       \* how the native run of the job ended
    next,      \* entry of the staging directory the inventory looks at
    files,     \* entries the inventory has recorded
    total,     \* bytes of those entries: total_bytes
    opened,    \* the probes whose temporary directory exists
    verdict    \* what the call did: "none", "done", "failed" or, when the last
               \* removal of a directory raised, "cleanup_failed"

vars == <<project, place, staging, pc, want, checked, used, run, next, files, total,
          opened, verdict>>

Init ==
    /\ project = [state |-> "valid", edits |-> 0]
    /\ place \in [Places -> {Absent, EmptyDir, Other}]
    /\ \A p \in Probes : place[p] = Absent
    /\ staging = [j \in Jobs |-> NoTree]
    /\ \E made \in SUBSET Jobs :
          /\ Cardinality(made) = MaxCalls
          /\ pc = [j \in Jobs |-> IF j \notin made THEN "idle"
                                 ELSE IF j \in Probes THEN "probe" ELSE "project"]
    /\ want \in {w \in [Jobs -> Places] :
                    \A j \in Jobs : IF j \in Probes THEN w[j] = j ELSE w[j] \in Paths}
    /\ checked = [j \in Jobs |-> 0] /\ used = [j \in Jobs |-> 0]
    /\ run = [j \in Jobs |-> NoRun]
    /\ next = [j \in Jobs |-> 1] /\ files = [j \in Jobs |-> {}]
    /\ total = [j \in Jobs |-> 0]
    /\ opened = {}
    /\ verdict = [j \in Jobs |-> "none"]

Goto(j, to) == pc' = [pc EXCEPT ![j] = to]

\* The call is over and has raised.
Fail(j) == Goto(j, "end") /\ verdict' = [verdict EXCEPT ![j] = "failed"]

\* An exception leaves export_material: that of a probe passes the with statement
\* of status, which removes its temporary directory.
Raise(j) ==
    \/ j \in Exports /\ Fail(j)
    \/ j \in Probes /\ Goto(j, "unwind") /\ UNCHANGED verdict

\* Mutated form of Abort: the exception passes no finally clause.
AbortAtOnce(j) == Goto(j, "end")

\* An exception while the staging directory exists: the finally clause is next.
Abort(j) == Goto(j, "cleanup")

-----------------------------------------------------------------------------
(* The steps of a call, in order.                                          *)

\* status, before its export: _project_path, and the temporary directory.
OpenProbe(j) ==
    /\ pc[j] = "probe"
    /\ IF project.state \in {"missing", "oversize"}
         THEN Fail(j) /\ UNCHANGED opened
         ELSE /\ opened' = opened \cup {j}
              /\ Goto(j, "project") /\ UNCHANGED verdict
    /\ UNCHANGED <<project, place, staging, want, checked, used, run, next, files, total>>

\* _project_path: the suffix, the roots and the size of the project.
CheckProject(j) ==
    /\ pc[j] = "project"
    /\ IF project.state \in {"missing", "oversize"}
         THEN Raise(j)
         ELSE Goto(j, "destination") /\ UNCHANGED verdict
    /\ UNCHANGED <<project, place, staging, want, checked, used, run, next, files, total, opened>>

\* _output_directory: nothing may exist at the destination.
CheckDestination(j) ==
    /\ pc[j] = "destination"
    /\ IF place[want[j]] # Absent
         THEN Raise(j)
         ELSE Goto(j, "validate") /\ UNCHANGED verdict
    /\ UNCHANGED <<project, place, staging, want, checked, used, run, next, files, total, opened>>

\* The target and the file template are checked without the file system (a
\* refusal is a call that never starts); validate_project reads the project.
Validate(j) ==
    /\ pc[j] = "validate"
    /\ IF project.state = "valid"
         THEN /\ Goto(j, "stage")
              /\ checked' = [checked EXCEPT ![j] = project.edits]
              /\ UNCHANGED verdict
         ELSE Raise(j) /\ UNCHANGED checked
    /\ UNCHANGED <<project, place, staging, want, used, run, next, files, total, opened>>

\* tempfile.mkdtemp beside the destination.
MakeStaging(j) ==
    /\ pc[j] = "stage"
    /\ staging' = [staging EXCEPT ![j] = <<>>]
    /\ Goto(j, "run")
    /\ UNCHANGED <<project, place, want, checked, used, run, next, files, total, opened, verdict>>

\* The native executable is started and loads the project as it is now.
StartNative(j) ==
    /\ pc[j] = "run"
    /\ used' = [used EXCEPT ![j] = project.edits]
    /\ Goto(j, "native")
    /\ UNCHANGED <<project, place, staging, want, checked, run, next, files, total, opened, verdict>>

\* The run settles with a result; whatever it wrote is in the staging directory.
NativeReturns(j) ==
    /\ pc[j] = "native"
    /\ \E tree \in Outputs, r \in Runs :
          /\ staging' = [staging EXCEPT ![j] = tree]
          /\ run' = [run EXCEPT ![j] = r]
          /\ IF r.code # 0 \/ r.marker = "captured"
               THEN Abort(j)
               ELSE Goto(j, "inventory")
    /\ UNCHANGED <<project, place, want, checked, used, next, files, total, opened, verdict>>

\* The run settles with an exception: timeout, cancellation, a failed cleanup,
\* or a refused timeout_secs.
NativeRaises(j) ==
    /\ pc[j] \in {"run", "native"}
    /\ \E tree \in Outputs \cup {<<>>} :
          staging' = [staging EXCEPT ![j] = IF pc[j] = "run" THEN <<>> ELSE tree]
    /\ Abort(j)
    /\ UNCHANGED <<project, place, want, checked, used, run, next, files, total, opened, verdict>>

\* Mutated form of Fits: the limits are compared before the file is counted.
FitsBefore(j, entry) ==
    /\ entry.size > 0
    /\ Cardinality(files[j]) <= MaxFiles
    /\ total[j] <= MaxBytes

\* The inventory accepts the regular file it looks at: not empty, and within
\* both limits.
Fits(j, entry) ==
    /\ entry.size > 0
    /\ Cardinality(files[j]) < MaxFiles
    /\ total[j] + entry.size <= MaxBytes

\* One candidate of sorted(staging.rglob("*")).
Inventory(j) ==
    /\ pc[j] = "inventory"
    /\ next[j] <= Len(staging[j])
    /\ LET entry == staging[j][next[j]]
       IN  \/ /\ entry.kind = "dir"
              /\ UNCHANGED <<pc, files, total>>
           \/ /\ entry.kind = "file" /\ Fits(j, entry)
              /\ files' = [files EXCEPT ![j] = @ \cup {next[j]}]
              /\ total' = [total EXCEPT ![j] = @ + entry.size]
              /\ UNCHANGED pc
           \/ /\ entry.kind = "link" \/ (entry.kind = "file" /\ ~Fits(j, entry))
              /\ Abort(j)
              /\ UNCHANGED <<files, total>>
    /\ next' = [next EXCEPT ![j] = @ + 1]
    /\ UNCHANGED <<project, place, staging, want, checked, used, run, opened, verdict>>

\* The loop over the candidates is at its end.
Exhausted(j) == next[j] > Len(staging[j])

\* The inventory is complete; a directory without files is an error.
EndInventory(j) ==
    /\ pc[j] = "inventory"
    /\ Exhausted(j)
    /\ IF files[j] = {} THEN Abort(j) ELSE Goto(j, "publish")
    /\ UNCHANGED <<project, place, staging, want, checked, used, run, next, files, total, opened, verdict>>

\* Mutated form of Replaceable: a move that overwrites.
ReplaceableAlways(p) == TRUE

\* rename(2) replaces an empty directory and refuses a file or a directory with
\* entries.
Replaceable(p) == place[p] \in {Absent, EmptyDir}

\* os.replace(staging, destination).
Publish(j) ==
    /\ pc[j] = "publish"
    /\ IF Replaceable(want[j])
         THEN /\ place' = [place EXCEPT ![want[j]] = Export(j, staging[j])]
              /\ staging' = [staging EXCEPT ![j] = NoTree]
              /\ verdict' = [verdict EXCEPT ![j] = IF j \in Probes THEN @ ELSE "done"]
              /\ Goto(j, IF j \in Probes THEN "leave" ELSE "end")
         ELSE Abort(j) /\ UNCHANGED <<place, staging, verdict>>
    /\ UNCHANGED <<project, want, checked, used, run, next, files, total, opened>>

\* The finally clause: shutil.rmtree(staging), which may fail half way.
Cleanup(j) ==
    /\ pc[j] = "cleanup"
    /\ \/ staging' = [staging EXCEPT ![j] = NoTree] /\ Raise(j)
       \/ /\ "rmtree_fails" \in Faults /\ UNCHANGED staging
          /\ \/ /\ j \in Exports
                /\ verdict' = [verdict EXCEPT ![j] = "cleanup_failed"]
                /\ Goto(j, "end")
             \/ j \in Probes /\ Raise(j)
    /\ UNCHANGED <<project, place, want, checked, used, run, next, files, total, opened>>

\* What a removal that raises may leave of a probe's export.
Remains(there) ==
    IF there.kind = "export" THEN {there, Other, EmptyDir, Absent} ELSE {there}

\* status leaves its temporary directory, after the export ("leave") or with an
\* exception of it ("unwind").  The export, and a staging directory that the
\* finally clause could not remove, are in it; this removal may fail as well.
LeaveProbe(j) ==
    /\ pc[j] \in {"leave", "unwind"}
    /\ \/ /\ opened' = opened \ {j}
          /\ place' = [place EXCEPT ![j] = Absent]
          /\ staging' = [staging EXCEPT ![j] = NoTree]
          /\ \/ pc[j] = "leave" /\ Goto(j, "evidence") /\ UNCHANGED verdict
             \/ pc[j] = "unwind" /\ Fail(j)
       \/ /\ "rmtree_fails" \in Faults
          /\ \E left \in Remains(place[j]) : place' = [place EXCEPT ![j] = left]
          /\ staging' \in {staging, [staging EXCEPT ![j] = NoTree]}
          /\ verdict' = [verdict EXCEPT ![j] = "cleanup_failed"]
          /\ Goto(j, "end")
          /\ UNCHANGED opened
    /\ UNCHANGED <<project, want, checked, used, run, next, files, total>>

\* After the temporary directory is gone status hashes the project as evidence.
ProbeEvidence(j) ==
    /\ pc[j] = "evidence"
    /\ verdict' = [verdict EXCEPT ![j] =
                        IF project.state = "missing" THEN "failed" ELSE "done"]
    /\ Goto(j, "end")
    /\ UNCHANGED <<project, place, staging, want, checked, used, run, next, files, total,
                   opened>>

\* The process that runs the call dies.
Crash(j) ==
    /\ "crash" \in Faults
    /\ pc[j] \notin {"end", "crashed", "idle"}
    /\ Goto(j, "crashed")
    /\ UNCHANGED <<project, place, staging, want, checked, used, run, next, files, total,
                   opened, verdict>>

Step(j) ==
    \/ OpenProbe(j) \/ CheckProject(j) \/ CheckDestination(j) \/ Validate(j)
    \/ MakeStaging(j) \/ StartNative(j) \/ NativeReturns(j) \/ NativeRaises(j)
    \/ Inventory(j) \/ EndInventory(j) \/ Publish(j) \/ Cleanup(j)
    \/ LeaveProbe(j) \/ ProbeEvidence(j)

-----------------------------------------------------------------------------
(* What others do with the files meanwhile.                                *)

EditProject ==
    /\ project.edits < MaxEdits
    /\ \E state \in {"valid", "invalid", "oversize", "missing"} :
          project' = [state |-> state, edits |-> project.edits + 1]
    /\ UNCHANGED <<place, staging, pc, want, checked, used, run, next, files, total,
                   opened, verdict>>

\* Somebody creates a directory or a file at a destination.
Occupy(p) ==
    /\ place[p] = Absent
    /\ \E what \in {EmptyDir, Other} : place' = [place EXCEPT ![p] = what]
    /\ UNCHANGED <<project, staging, pc, want, checked, used, run, next, files, total,
                   opened, verdict>>

Next ==
    \/ \E j \in Jobs : Step(j) \/ Crash(j)
    \/ EditProject
    \/ \E p \in Paths : Occupy(p)

Spec == Init /\ [][Next]_vars

-----------------------------------------------------------------------------
(* Properties.                                                             *)

Indices(tree) == {i \in 1..Len(tree) : tree[i].kind = "file"}

\* The type of every variable.
TypeOK ==
    /\ project \in [state : {"valid", "invalid", "oversize", "missing"},
                    edits : 0..MaxEdits]
    /\ place \in [Places -> {Absent, EmptyDir, Other} \cup
                           [kind : {"export"}, by : Jobs, tree : Outputs]]
    /\ staging \in [Jobs -> Outputs \cup {NoTree, <<>>}]
    /\ pc \in [Jobs -> {"probe", "project", "destination", "validate", "stage", "run",
                        "native", "inventory", "publish", "cleanup",
                        "leave", "unwind", "evidence", "end", "crashed", "idle"}]
    /\ want \in [Jobs -> Places]
    /\ checked \in [Jobs -> 0..MaxEdits] /\ used \in [Jobs -> 0..MaxEdits]
    /\ run \in [Jobs -> Runs \cup {NoRun}]
    /\ next \in [Jobs -> Nat \ {0}]
    /\ files \in [Jobs -> SUBSET Nat] /\ total \in [Jobs -> Nat]
    /\ opened \subseteq Probes
    /\ verdict \in [Jobs -> {"none", "done", "failed", "cleanup_failed"}]

\* A directory that appears at a destination is whole: its inventory names
\* every regular file in it, no more of them and no more bytes than the limits
\* allow, and the native run behind it exited with zero and
\* printed no error the bridge has captured.
PublishedIsInventoried ==
    \A p \in Places : place[p].kind = "export" =>
        LET j == place[p].by
        IN  /\ files[j] = Indices(place[p].tree)
            /\ Cardinality(files[j]) <= MaxFiles /\ total[j] <= MaxBytes
            /\ run[j].code = 0 /\ run[j].marker # "captured"

\* Two exports never both report success for one destination, however the
\* existence check of one and the rename of the other interleave.
OneWinner ==
    \A j, k \in Exports :
        (verdict[j] = "done" /\ verdict[k] = "done" /\ want[j] = want[k]) => j = k

\* A call that ends without success has put nothing at a destination, even when
\* a removal failed.  Unless the last removal it made raised, it has left no
\* staging directory, and a probe no temporary directory and no export in it,
\* whatever it reports.
NoResidue ==
    \A j \in Jobs : pc[j] = "end" =>
        /\ verdict[j] # "done" =>
              \A p \in Paths : place[p].kind = "export" => place[p].by # j
        /\ verdict[j] # "cleanup_failed" =>
              staging[j] = NoTree /\ j \notin opened /\ (j \in Probes => place[j] = Absent)

\* The destinations change only by whole directories.
Abstract == INSTANCE AtomicPublish WITH
    Paths <- Paths,
    Outputs <- Outputs,
    out <- [p \in Paths |->
              IF place[p].kind = "export"
                THEN [kind |-> "export", tree |-> place[p].tree]
                ELSE place[p]]

PublishesAtomically == Abstract!Spec
=============================================================================
