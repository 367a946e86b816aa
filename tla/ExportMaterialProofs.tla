------------------------- MODULE ExportMaterialProofs -------------------------
(***************************************************************************)
(* Theorems about ExportMaterial, for any number of exports and probes,    *)
(* any destinations, limits and outputs of the native executable.          *)
(***************************************************************************)
EXTENDS ExportMaterial, FiniteSetTheorems, TLAPS

Produced == [kind : {"file", "link", "dir"}, size : Nat]

LEMMA ElementOf ==
    ASSUME NEW S, NEW s \in Seq(S), NEW i \in 1 .. Len(s)
    PROVE  s[i] \in S
OBVIOUS

\* What the inventory may look at.
LEMMA Trees ==
    ASSUME NEW tree \in Outputs \cup {NoTree, <<>>}
    PROVE  /\ Len(tree) \in Nat
           /\ \A i \in 1 .. Len(tree) : tree[i].size \in Nat
<1>1. CASE tree \in Outputs
  <2>1. tree \in Seq(Produced)
    BY <1>1, ExportAssumption DEF Produced
  <2>2. Len(tree) \in Nat  BY <2>1
  <2>3. \A i \in 1 .. Len(tree) : tree[i] \in Produced
    BY <2>1, ElementOf
  <2> QED  BY <2>2, <2>3 DEF Produced
<1>2. CASE tree = NoTree
  BY <1>2 DEF NoTree
<1>3. CASE tree = <<>>
  BY <1>3
<1> QED  BY <1>1, <1>2, <1>3

-----------------------------------------------------------------------------
(* Type correctness.                                                       *)

\* The inventory looks at what a native run has produced, and only a probe is at
\* the statements of status.
Located(j) ==
    /\ pc[j] \in {"inventory", "publish"} => staging[j] \in Outputs
    /\ pc[j] \in {"probe", "leave", "unwind", "evidence"} => j \in Probes

Typed == TypeOK /\ \A j \in Jobs : Located(j)

LEMMA StepType == ASSUME Typed, NEW j \in Jobs, Step(j) PROVE Typed'
<1> USE DEF Typed, Located, TypeOK, Goto, Fail, Abort, Raise
<1>1. CASE CheckProject(j)  BY <1>1 DEF CheckProject
<1>2. CASE CheckDestination(j)  BY <1>2 DEF CheckDestination
<1>3. CASE Validate(j)  BY <1>3 DEF Validate
<1>4. CASE MakeStaging(j)  BY <1>4 DEF MakeStaging
<1>5. CASE StartNative(j)  BY <1>5 DEF StartNative
<1>6. CASE NativeReturns(j)
  <2>1. PICK tree \in Outputs, r \in Runs :
          /\ staging' = [staging EXCEPT ![j] = tree]
          /\ run' = [run EXCEPT ![j] = r]
    BY <1>6 DEF NativeReturns
  <2>2. /\ pc' \in {[pc EXCEPT ![j] = to] : to \in {"cleanup", "inventory"}}
        /\ UNCHANGED <<project, place, want, checked, used, next, files, total, opened,
                       verdict>>
    BY <1>6 DEF NativeReturns
  <2> QED  BY <2>1, <2>2
<1>7. CASE NativeRaises(j)  BY <1>7 DEF NativeRaises
<1>8. CASE Inventory(j)
  <2>1. staging[j] \in Outputs \cup {NoTree, <<>>}  OBVIOUS
  <2>2. staging[j][next[j]].size \in Nat
    BY <1>8, <2>1, Trees DEF Inventory
  <2>3. /\ next' = [next EXCEPT ![j] = @ + 1]
        /\ UNCHANGED <<project, place, staging, want, checked, used, run, opened, verdict>>
    BY <1>8 DEF Inventory
  <2>4. pc' = pc \/ pc' = [pc EXCEPT ![j] = "cleanup"]
    BY <1>8 DEF Inventory
  <2>5. files' \in [Jobs -> SUBSET Nat]
    <3>1. files[j] \cup {next[j]} \in SUBSET Nat  OBVIOUS
    <3>2. files' = files \/ files' = [files EXCEPT ![j] = files[j] \cup {next[j]}]
      BY <1>8 DEF Inventory
    <3> QED  BY <3>1, <3>2
  <2>6. total' \in [Jobs -> Nat]
    BY <1>8, <2>2 DEF Inventory
  <2>7. next' \in [Jobs -> Nat \ {0}]  BY <2>3
  <2>8. TypeOK'  BY <2>3, <2>4, <2>5, <2>6, <2>7
  <2>9. \A k \in Jobs : Located(k)'  BY <2>3, <2>4
  <2> QED  BY <2>8, <2>9
<1>9. CASE EndInventory(j)
  <2>1. pc' \in {[pc EXCEPT ![j] = to] : to \in {"cleanup", "publish"}}
    BY <1>9 DEF EndInventory
  <2> QED  BY <1>9, <2>1 DEF EndInventory
<1>10. CASE Publish(j)
  <2>1. staging[j] \in Outputs  BY <1>10 DEF Publish
  <2>2. Export(j, staging[j]) \in [kind : {"export"}, by : Jobs, tree : Outputs]
    BY <2>1 DEF Export
  <2>3. want[j] \in Places  OBVIOUS
  <2>4. CASE Replaceable(want[j])
    <3>1. place' = [place EXCEPT ![want[j]] = Export(j, staging[j])]
      BY <1>10, <2>4 DEF Publish
    <3>2. /\ staging' = [staging EXCEPT ![j] = NoTree]
          /\ \/ pc' = [pc EXCEPT ![j] = "leave"] /\ j \in Probes
             \/ pc' = [pc EXCEPT ![j] = "end"]
          /\ verdict' = verdict \/ verdict' = [verdict EXCEPT ![j] = "done"]
          /\ UNCHANGED <<project, want, checked, used, run, next, files, total, opened>>
      BY <1>10, <2>4 DEF Publish
    <3>3. place' \in [Places -> {Absent, EmptyDir, Other} \cup
                              [kind : {"export"}, by : Jobs, tree : Outputs]]
      BY <2>2, <2>3, <3>1
    <3>4. staging' \in [Jobs -> Outputs \cup {NoTree, <<>>}]  BY <3>2
    <3>5. \A k \in Jobs : Located(k)'  BY <3>2
    <3>6. pc' \in [Jobs -> {"probe", "project", "destination", "validate", "stage",
                           "run", "native", "inventory", "publish", "cleanup",
                           "leave", "unwind", "evidence", "end", "crashed", "idle"}]
      BY <3>2
    <3>7. verdict' \in [Jobs -> {"none", "done", "failed", "cleanup_failed"}]  BY <3>2
    <3> QED  BY <3>2, <3>3, <3>4, <3>5, <3>6, <3>7
  <2>5. CASE ~Replaceable(want[j])
    BY <1>10, <2>5 DEF Publish
  <2> QED  BY <2>4, <2>5
<1>11. CASE Cleanup(j)  BY <1>11 DEF Cleanup
<1>12. CASE ProbeEvidence(j)  BY <1>12 DEF ProbeEvidence
<1>13. CASE OpenProbe(j)
  <2>1. j \in Probes => (opened \cup {j}) \subseteq Probes  OBVIOUS
  <2> QED  BY <1>13, <2>1 DEF OpenProbe
<1>14. CASE LeaveProbe(j)
  <2>1. /\ staging' \in {staging, [staging EXCEPT ![j] = NoTree]}
        /\ opened' \in {opened, opened \ {j}}
        /\ \/ pc' = [pc EXCEPT ![j] = "evidence"] /\ verdict' = verdict
           \/ /\ pc' = [pc EXCEPT ![j] = "end"]
              /\ \/ verdict' = [verdict EXCEPT ![j] = "failed"]
                 \/ verdict' = [verdict EXCEPT ![j] = "cleanup_failed"]
        /\ UNCHANGED <<project, want, checked, used, run, next, files, total>>
    BY <1>14 DEF LeaveProbe
  <2>2. j \in Probes /\ j \in Places  BY <1>14 DEF LeaveProbe, Places
  <2>3. PICK left \in {place[j], Absent, EmptyDir, Other} :
          place' = [place EXCEPT ![j] = left]
    BY <1>14 DEF LeaveProbe, Remains
  <2>4. place' \in [Places -> {Absent, EmptyDir, Other} \cup
                            [kind : {"export"}, by : Jobs, tree : Outputs]]
    BY <2>2, <2>3
  <2>5. staging' \in [Jobs -> Outputs \cup {NoTree, <<>>}]  BY <2>1
  <2>6. pc' \in [Jobs -> {"probe", "project", "destination", "validate", "stage",
                        "run", "native", "inventory", "publish", "cleanup",
                        "leave", "unwind", "evidence", "end", "crashed", "idle"}]
    BY <2>1
  <2>8. verdict' \in [Jobs -> {"none", "done", "failed", "cleanup_failed"}]
    BY <2>1
  <2>7. \A k \in Jobs : Located(k)'
    <3>1. pc'[j] \notin {"inventory", "publish"}  BY <2>1
    <3>2. \A k \in Jobs \ {j} : pc'[k] = pc[k] /\ staging'[k] = staging[k]  BY <2>1
    <3> QED  BY <2>2, <3>1, <3>2
  <2> QED  BY <2>1, <2>4, <2>5, <2>6, <2>7, <2>8
<1> QED
  BY <1>1, <1>2, <1>3, <1>4, <1>5, <1>6, <1>7, <1>8, <1>9, <1>10, <1>11,
     <1>12, <1>13, <1>14 DEF Step

LEMMA InitType == Init => Typed
BY ExportAssumption DEF Init, Typed, Located, TypeOK, NoRun, Jobs, Places

LEMMA NextType == Typed /\ [Next]_vars => Typed'
<1> SUFFICES ASSUME Typed, [Next]_vars PROVE Typed'
  OBVIOUS
<1> USE DEF Typed, Located, TypeOK
<1>1. ASSUME NEW j \in Jobs, Crash(j) PROVE Typed'
  BY <1>1 DEF Crash, Goto
<1>2. CASE EditProject
  BY <1>2, ExportAssumption DEF EditProject
<1>3. ASSUME NEW p \in Paths, Occupy(p) PROVE Typed'
  BY <1>3 DEF Occupy, Places
<1>4. CASE UNCHANGED vars  BY <1>4 DEF vars
<1> QED  BY <1>1, <1>2, <1>3, <1>4, StepType DEF Next

\* Every variable keeps its type.
THEOREM TypeCorrect == Spec => []TypeOK
<1>1. Typed => TypeOK  BY DEF Typed
<1> QED  BY <1>1, InitType, NextType, PTL DEF Spec

-----------------------------------------------------------------------------
(* Who has put what where.                                                 *)

Early == {"probe", "project", "destination", "validate", "stage", "run", "native"}

\* Where a job publishes, and what its inventory has recorded so far.
Recorded(j) ==
    /\ IF j \in Probes THEN want[j] = j ELSE want[j] \in Paths
    /\ pc[j] \in Early => next[j] = 1 /\ files[j] = {} /\ total[j] = 0
    /\ pc[j] = "inventory" =>
          /\ next[j] <= Len(staging[j]) + 1
          /\ files[j] = {i \in 1 .. next[j] - 1 : staging[j][i].kind = "file"}
    /\ pc[j] = "publish" => files[j] = Indices(staging[j])
    /\ pc[j] \in {"inventory", "publish"} =>
          total[j] <= MaxBytes /\ run[j].code = 0 /\ run[j].marker # "captured"

\* What a job has left behind, and what it says about it.
Reported(j) ==
    /\ pc[j] # "end" => verdict[j] = "none"
    /\ verdict[j] = "done" /\ j \in Exports =>
          place[want[j]].kind = "export" /\ place[want[j]].by = j
    /\ /\ j \in Probes /\ pc[j] \notin {"leave", "crashed"}
       /\ verdict[j] # "cleanup_failed"
       => place[j] = Absent
    /\ /\ pc[j] \in {"probe", "project", "destination", "validate", "stage", "leave",
                    "evidence", "end"}
       /\ verdict[j] # "cleanup_failed"
       => staging[j] = NoTree
    /\ j \in opened =>
          /\ pc[j] \notin {"probe", "evidence"}
          /\ pc[j] = "end" => verdict[j] = "cleanup_failed"

\* An export at a destination is that of the job that says so.
Accounted(p) ==
    place[p].kind = "export" =>
        LET j == place[p].by
        IN  /\ want[j] = p
            /\ pc[j] \in {"leave", "end", "crashed"}
            /\ pc[j] = "end" =>
                  verdict[j] = "done" \/ (j \in Probes /\ verdict[j] = "cleanup_failed")
            /\ files[j] = Indices(place[p].tree)
            /\ total[j] <= MaxBytes
            /\ run[j].code = 0 /\ run[j].marker # "captured"

Inv == /\ Typed
       /\ \A j \in Jobs : Recorded(j) /\ Reported(j)
       /\ \A p \in Places : Accounted(p)

\* What a step of one job leaves alone: everything that belongs to the others.
LEMMA Frame ==
    ASSUME TypeOK, NEW j \in Jobs, Step(j) \/ Crash(j), NEW k \in Jobs \ {j}
    PROVE  /\ pc'[k] = pc[k] /\ staging'[k] = staging[k] /\ run'[k] = run[k]
           /\ next'[k] = next[k] /\ files'[k] = files[k] /\ total'[k] = total[k]
           /\ verdict'[k] = verdict[k] /\ (k \in opened' <=> k \in opened)
<1> USE DEF TypeOK, Goto, Fail, Abort, Raise
<1>1. CASE CheckProject(j)  BY <1>1 DEF CheckProject
<1>2. CASE CheckDestination(j)  BY <1>2 DEF CheckDestination
<1>3. CASE Validate(j)  BY <1>3 DEF Validate
<1>4. CASE MakeStaging(j)  BY <1>4 DEF MakeStaging
<1>5. CASE StartNative(j)  BY <1>5 DEF StartNative
<1>6. CASE NativeReturns(j)  BY <1>6 DEF NativeReturns
<1>7. CASE NativeRaises(j)  BY <1>7 DEF NativeRaises
<1>8. CASE Inventory(j)  BY <1>8 DEF Inventory
<1>9. CASE EndInventory(j)  BY <1>9 DEF EndInventory
<1>10. CASE Publish(j)  BY <1>10 DEF Publish
<1>11. CASE Cleanup(j)  BY <1>11 DEF Cleanup
<1>12. CASE ProbeEvidence(j)  BY <1>12 DEF ProbeEvidence
<1>13. CASE Crash(j)  BY <1>13 DEF Crash
<1>14. CASE OpenProbe(j)  BY <1>14 DEF OpenProbe
<1>15. CASE LeaveProbe(j)  BY <1>15 DEF LeaveProbe
<1> QED
  BY <1>1, <1>2, <1>3, <1>4, <1>5, <1>6, <1>7, <1>8, <1>9, <1>10, <1>11,
     <1>12, <1>13, <1>14, <1>15 DEF Step

\* The two steps that change a place.
Placed(j) ==
    /\ pc[j] = "publish" /\ Replaceable(want[j])
    /\ place' = [place EXCEPT ![want[j]] = Export(j, staging[j])]
    /\ UNCHANGED <<files, total, run>>
    /\ IF j \in Probes THEN pc'[j] = "leave" /\ verdict'[j] = verdict[j]
                       ELSE pc'[j] = "end" /\ verdict'[j] = "done"

Withdrawn(j) ==
    /\ pc[j] \in {"leave", "unwind"}
    /\ UNCHANGED <<files, total, run>>
    /\ \/ place' = [place EXCEPT ![j] = Absent]
       \/ /\ pc'[j] = "end" /\ verdict'[j] = "cleanup_failed"
          /\ \E left \in {place[j], Absent, EmptyDir, Other} :
                place' = [place EXCEPT ![j] = left]

LEMMA PlaceStep ==
    ASSUME TypeOK, NEW j \in Jobs, Step(j) \/ Crash(j)
    PROVE  /\ want' = want
           /\ place' = place \/ Placed(j) \/ Withdrawn(j)
<1> USE DEF TypeOK, Goto, Fail, Abort, Raise
<1>1. CASE CheckProject(j)  BY <1>1 DEF CheckProject
<1>2. CASE CheckDestination(j)  BY <1>2 DEF CheckDestination
<1>3. CASE Validate(j)  BY <1>3 DEF Validate
<1>4. CASE MakeStaging(j)  BY <1>4 DEF MakeStaging
<1>5. CASE StartNative(j)  BY <1>5 DEF StartNative
<1>6. CASE NativeReturns(j)  BY <1>6 DEF NativeReturns
<1>7. CASE NativeRaises(j)  BY <1>7 DEF NativeRaises
<1>8. CASE Inventory(j)  BY <1>8 DEF Inventory
<1>9. CASE EndInventory(j)  BY <1>9 DEF EndInventory
<1>10. CASE Publish(j)  BY <1>10 DEF Publish, Placed
<1>11. CASE Cleanup(j)  BY <1>11 DEF Cleanup
<1>12. CASE ProbeEvidence(j)  BY <1>12 DEF ProbeEvidence
<1>13. CASE Crash(j)  BY <1>13 DEF Crash
<1>14. CASE OpenProbe(j)  BY <1>14 DEF OpenProbe
<1>15. CASE LeaveProbe(j)  BY <1>15 DEF LeaveProbe, Withdrawn, Remains
<1> QED
  BY <1>1, <1>2, <1>3, <1>4, <1>5, <1>6, <1>7, <1>8, <1>9, <1>10, <1>11,
     <1>12, <1>13, <1>14, <1>15 DEF Step

LEMMA RecordedStep ==
    ASSUME Inv, NEW j \in Jobs, Step(j) \/ Crash(j)
    PROVE  Recorded(j)'
<1>1. want' = want  BY PlaceStep DEF Inv, Typed
<1> USE <1>1 DEF Inv, Typed, TypeOK, Goto, Fail, Abort, Raise, Recorded, Early
<1>2. CASE CheckProject(j)  BY <1>2 DEF CheckProject
<1>3. CASE CheckDestination(j)  BY <1>3 DEF CheckDestination
<1>4. CASE Validate(j)  BY <1>4 DEF Validate
<1>5. CASE MakeStaging(j)  BY <1>5 DEF MakeStaging
<1>6. CASE StartNative(j)  BY <1>6 DEF StartNative
<1>7. CASE NativeReturns(j)
  <2>1. PICK tree \in Outputs, r \in Runs :
          /\ staging' = [staging EXCEPT ![j] = tree]
          /\ run' = [run EXCEPT ![j] = r]
          /\ \/ pc' = [pc EXCEPT ![j] = "cleanup"]
             \/ /\ pc' = [pc EXCEPT ![j] = "inventory"]
                /\ r.code = 0 /\ r.marker # "captured"
    <3>1. Runs \subseteq [code : {0, 1}, marker : {"none", "captured", "beyond"}]
      BY ExportAssumption
    <3> QED  BY <1>7, <3>1 DEF NativeReturns
  <2>2. Len(tree) \in Nat  BY Trees
  <2>3. next'[j] = 1 /\ files'[j] = {} /\ total'[j] = 0
    BY <1>7 DEF NativeReturns
  <2>4. 0 <= MaxBytes  BY ExportAssumption
  <2> QED  BY <2>1, <2>2, <2>3, <2>4
<1>8. CASE NativeRaises(j)  BY <1>8 DEF NativeRaises
<1>9. CASE Inventory(j)
  <2>1. staging[j] \in Outputs  BY <1>9 DEF Inventory, Located
  <2>2. Len(staging[j]) \in Nat  BY <2>1, Trees
  <2>3. staging[j][next[j]].size \in Nat
    BY <1>9, <2>1, Trees DEF Inventory
  <2>4. /\ next[j] \in 1 .. Len(staging[j]) /\ next'[j] = next[j] + 1
        /\ staging' = staging /\ run' = run
    BY <1>9 DEF Inventory
  <2>5. CASE staging[j][next[j]].kind = "dir"
    <3>1. pc' = pc /\ files' = files /\ total' = total
      BY <1>9, <2>5 DEF Inventory
    <3>2. files'[j] = {i \in 1 .. next'[j] - 1 : staging[j][i].kind = "file"}
      BY <1>9, <2>2, <2>4, <2>5, <3>1 DEF Inventory
    <3> QED  BY <1>9, <2>2, <2>4, <3>1, <3>2 DEF Inventory
  <2>6. CASE staging[j][next[j]].kind = "file" /\ Fits(j, staging[j][next[j]])
    <3>1. /\ pc' = pc
          /\ files'[j] = files[j] \cup {next[j]}
          /\ total'[j] = total[j] + staging[j][next[j]].size
      BY <1>9, <2>6 DEF Inventory
    <3>2. files'[j] = {i \in 1 .. next'[j] - 1 : staging[j][i].kind = "file"}
      BY <1>9, <2>2, <2>4, <2>6, <3>1 DEF Inventory
    <3>3. total'[j] <= MaxBytes
      BY <2>6, <3>1 DEF Fits
    <3> QED  BY <1>9, <2>2, <2>4, <3>1, <3>2, <3>3 DEF Inventory
  <2>7. CASE pc' = [pc EXCEPT ![j] = "cleanup"]
    BY <2>7
  <2> QED  BY <1>9, <2>5, <2>6, <2>7 DEF Inventory
<1>10. CASE EndInventory(j)
  <2>1. staging[j] \in Outputs  BY <1>10 DEF EndInventory, Located
  <2>2. Len(staging[j]) \in Nat  BY <2>1, Trees
  <2>3. next[j] = Len(staging[j]) + 1
    BY <1>10, <2>2 DEF EndInventory, Exhausted
  <2>4. files[j] = Indices(staging[j])
    BY <1>10, <2>2, <2>3 DEF EndInventory, Indices
  <2>5. \/ pc' = [pc EXCEPT ![j] = "cleanup"]
        \/ pc' = [pc EXCEPT ![j] = "publish"]
    BY <1>10 DEF EndInventory
  <2> QED  BY <1>10, <2>4, <2>5 DEF EndInventory, Indices
<1>11. CASE Publish(j)  BY <1>11 DEF Publish
<1>12. CASE Cleanup(j)  BY <1>12 DEF Cleanup
<1>13. CASE ProbeEvidence(j)  BY <1>13 DEF ProbeEvidence
<1>14. CASE Crash(j)  BY <1>14 DEF Crash
<1>15. CASE OpenProbe(j)  BY <1>15 DEF OpenProbe
<1>16. CASE LeaveProbe(j)  BY <1>16 DEF LeaveProbe
<1> QED
  BY <1>2, <1>3, <1>4, <1>5, <1>6, <1>7, <1>8, <1>9, <1>10, <1>11, <1>12,
     <1>13, <1>14, <1>15, <1>16 DEF Step

LEMMA ReportedStep ==
    ASSUME Inv, NEW j \in Jobs, Step(j) \/ Crash(j)
    PROVE  Reported(j)'
<1>1. want' = want  BY PlaceStep DEF Inv, Typed
<1>2. want[j] \in Places /\ j \in Jobs
  BY DEF Inv, Typed, TypeOK
<1>3. j \in Exports => j \notin opened
  BY ExportAssumption DEF Inv, Typed, TypeOK
<1>4. Located(j) /\ Reported(j)  BY DEF Inv, Typed
<1> USE <1>1, <1>2, <1>3, <1>4 DEF Inv, Typed, TypeOK, Goto, Fail, Abort, Raise, Reported
<1>5. CASE CheckProject(j) \/ CheckDestination(j) \/ Validate(j)
  <2>1. /\ pc[j] \in {"project", "destination", "validate"}
        /\ UNCHANGED <<place, staging, opened>>
        /\ \/ pc'[j] \in {"destination", "validate", "stage"} /\ verdict'[j] = verdict[j]
           \/ j \in Probes /\ pc'[j] = "unwind" /\ verdict'[j] = verdict[j]
           \/ j \in Exports /\ pc'[j] = "end" /\ verdict'[j] = "failed"
    BY <1>5 DEF CheckProject, CheckDestination, Validate
  <2> QED  BY <2>1
<1>6. CASE OpenProbe(j)
  <2>1. /\ pc[j] = "probe" /\ UNCHANGED <<place, staging>>
        /\ \/ pc'[j] = "end" /\ verdict'[j] = "failed" /\ opened' = opened
           \/ pc'[j] = "project" /\ verdict'[j] = verdict[j]
    BY <1>6 DEF OpenProbe
  <2> QED  BY <2>1
<1>7. CASE StartNative(j) \/ NativeReturns(j) \/ NativeRaises(j) \/ Inventory(j)
           \/ EndInventory(j) \/ MakeStaging(j) \/ Crash(j)
  <2>1. /\ pc'[j] \in {"run", "native", "inventory", "publish", "cleanup", "crashed"}
        /\ pc[j] \notin {"leave", "end", "crashed"} \/ pc'[j] = "crashed"
        /\ UNCHANGED <<place, opened, verdict>>
    BY <1>7 DEF StartNative, NativeReturns, NativeRaises, Inventory, EndInventory,
       MakeStaging, Crash
  <2>2. pc[j] # "end" /\ verdict[j] = "none"
    BY <1>7 DEF StartNative, NativeReturns, NativeRaises, Inventory, EndInventory,
       MakeStaging, Crash
  <2> QED  BY <2>1, <2>2
<1>8. CASE Publish(j)
  <2>1. pc[j] = "publish" /\ verdict[j] = "none" /\ opened' = opened
    BY <1>8 DEF Publish
  <2>2. CASE Replaceable(want[j])
    <3>1. /\ place' = [place EXCEPT ![want[j]] = Export(j, staging[j])]
          /\ staging' = [staging EXCEPT ![j] = NoTree]
          /\ verdict' = [verdict EXCEPT ![j] = IF j \in Probes THEN "none" ELSE "done"]
          /\ pc' = [pc EXCEPT ![j] = IF j \in Probes THEN "leave" ELSE "end"]
      BY <1>8, <2>1, <2>2 DEF Publish
    <3>2. place'[want[j]].kind = "export" /\ place'[want[j]].by = j
      BY <3>1 DEF Export
    <3> QED  BY <2>1, <3>1, <3>2, ExportAssumption DEF Jobs
  <2>3. CASE ~Replaceable(want[j])  BY <1>8, <2>1, <2>3 DEF Publish
  <2> QED  BY <2>2, <2>3
<1>9. CASE Cleanup(j)
  <2>1. /\ pc[j] = "cleanup" /\ place' = place /\ opened' = opened
        /\ \/ j \in Probes /\ pc'[j] = "unwind" /\ verdict'[j] = verdict[j]
           \/ /\ j \in Exports /\ pc'[j] = "end"
              /\ \/ verdict'[j] = "cleanup_failed"
                 \/ verdict'[j] = "failed" /\ staging'[j] = NoTree
    <3>1. CASE staging' = [staging EXCEPT ![j] = NoTree] /\ Raise(j)
      BY <1>9, <3>1 DEF Cleanup
    <3>2. CASE ~(staging' = [staging EXCEPT ![j] = NoTree] /\ Raise(j))
      BY <1>9, <3>2, ExportAssumption DEF Cleanup
    <3> QED  BY <3>1, <3>2
  <2>2. j \in Exports => j \notin Probes  BY ExportAssumption
  <2> QED  BY <2>1, <2>2
<1>10. CASE LeaveProbe(j)
  <2>1. pc[j] \in {"leave", "unwind"} /\ j \in Probes /\ j \in Places
    BY <1>10 DEF LeaveProbe, Located, Places
  <2>2. \/ /\ j \notin opened' /\ place'[j] = Absent /\ staging'[j] = NoTree
           /\ \/ pc'[j] = "evidence" /\ verdict'[j] = verdict[j]
              \/ pc'[j] = "end" /\ verdict'[j] = "failed"
        \/ pc'[j] = "end" /\ verdict'[j] = "cleanup_failed"
    BY <1>10, <2>1 DEF LeaveProbe
  <2>3. j \notin Exports  BY <2>1, ExportAssumption
  <2> QED  BY <2>1, <2>2, <2>3
<1>11. CASE ProbeEvidence(j)
  <2>1. /\ pc[j] = "evidence" /\ UNCHANGED <<place, staging, opened>>
        /\ pc'[j] = "end" /\ verdict'[j] \in {"failed", "done"}
    BY <1>11 DEF ProbeEvidence
  <2>2. j \in Probes /\ j \notin Exports /\ j \notin opened
    BY <2>1, ExportAssumption DEF Located
  <2> QED  BY <2>1, <2>2
<1> QED
  BY <1>5, <1>6, <1>7, <1>8, <1>9, <1>10, <1>11 DEF Step

\* The facts about the other jobs survive: a place that holds an export is not
\* replaced, and the place of a probe is its own.
LEMMA OthersStep ==
    ASSUME Inv, NEW j \in Jobs, Step(j) \/ Crash(j), NEW k \in Jobs \ {j}
    PROVE  Recorded(k)' /\ Reported(k)'
<1> USE DEF Inv
<1>1. /\ want' = want /\ TypeOK /\ Recorded(j) /\ Recorded(k) /\ Reported(k)
      /\ place' = place \/ Placed(j) \/ Withdrawn(j)
  BY PlaceStep DEF Typed
<1>2. /\ pc'[k] = pc[k] /\ staging'[k] = staging[k] /\ run'[k] = run[k]
      /\ next'[k] = next[k] /\ files'[k] = files[k] /\ total'[k] = total[k]
      /\ verdict'[k] = verdict[k] /\ (k \in opened' <=> k \in opened)
  BY <1>1, Frame
<1>3. Recorded(k)'  BY <1>1, <1>2 DEF Recorded
<1>4. \A p \in Paths : place[p].kind = "export" => place'[p] = place[p]
  <2> SUFFICES ASSUME NEW p \in Paths, place[p].kind = "export"
               PROVE  place'[p] = place[p]
    OBVIOUS
  <2>1. CASE Placed(j)
    <3>1. p # want[j]
      BY <2>1 DEF Placed, Replaceable, Absent, EmptyDir
    <3> QED  BY <1>1, <2>1, <3>1 DEF Placed, TypeOK, Places
  <2>2. CASE Withdrawn(j)
    <3>1. p # j  BY <2>2, ExportAssumption DEF Withdrawn, Typed, Located
    <3> QED  BY <1>1, <2>2, <3>1 DEF Withdrawn, TypeOK, Places
  <2> QED  BY <1>1, <2>1, <2>2
<1>5. k \in Probes => place'[k] = place[k]
  <2> SUFFICES ASSUME k \in Probes PROVE place'[k] = place[k]
    OBVIOUS
  <2>1. want[j] # k  BY <1>1, ExportAssumption DEF Recorded
  <2>2. CASE Placed(j)  BY <1>1, <2>1, <2>2 DEF Placed, TypeOK, Places
  <2>3. CASE Withdrawn(j)  BY <1>1, <2>3 DEF Withdrawn, TypeOK, Places
  <2> QED  BY <1>1, <2>2, <2>3
<1>6. k \in Exports => want[k] \in Paths
  BY <1>1, ExportAssumption DEF Recorded
<1>7. Reported(k)'  BY <1>1, <1>2, <1>4, <1>5, <1>6 DEF Reported
<1> QED  BY <1>3, <1>7

LEMMA AccountedStep ==
    ASSUME Inv, NEW j \in Jobs, Step(j) \/ Crash(j), NEW p \in Places
    PROVE  Accounted(p)'
<1> USE DEF Inv
<1>1. /\ want' = want /\ TypeOK /\ Recorded(j) /\ Accounted(p)
      /\ place' = place \/ Placed(j) \/ Withdrawn(j)
  BY PlaceStep DEF Typed
<1> SUFFICES ASSUME place'[p].kind = "export"
             PROVE  LET i == place'[p].by
                    IN  /\ want'[i] = p
                        /\ pc'[i] \in {"leave", "end", "crashed"}
                        /\ pc'[i] = "end" =>
                              \/ verdict'[i] = "done"
                              \/ i \in Probes /\ verdict'[i] = "cleanup_failed"
                        /\ files'[i] = Indices(place'[p].tree)
                        /\ total'[i] <= MaxBytes
                        /\ run'[i].code = 0 /\ run'[i].marker # "captured"
  BY DEF Accounted
<1>2. CASE Placed(j) /\ p = want[j]
  <2>1. /\ place'[p].by = j /\ place'[p].tree = staging[j]
    BY <1>1, <1>2 DEF Placed, Export, TypeOK
  <2>2. files[j] = Indices(staging[j])  BY <1>1, <1>2 DEF Recorded, Placed
  <2> QED  BY <1>1, <1>2, <2>1, <2>2 DEF Recorded, Placed
<1>3. CASE place'[p] = place[p]
  <2> DEFINE i == place[p].by
  <2>1. i \in Jobs
    <3>1. place[p] \in {Absent, EmptyDir, Other} \cup
                       [kind : {"export"}, by : Jobs, tree : Outputs]
      BY <1>1 DEF TypeOK
    <3>2. place[p] \notin {Absent, EmptyDir, Other}
      BY <1>3 DEF Absent, EmptyDir, Other
    <3> QED  BY <3>1, <3>2
  <2>2. CASE i = j
    <3>1. pc[j] \in {"leave", "end", "crashed"}
      BY <1>1, <1>3, <2>2 DEF Accounted
    <3>2. CASE Crash(j)
      BY <1>1, <1>3, <2>2, <3>1, <3>2 DEF Accounted, Crash, Goto, TypeOK
    <3>3. CASE Step(j)
      <4>1. LeaveProbe(j)
        BY <3>1, <3>3 DEF Step, OpenProbe, CheckProject, CheckDestination, Validate,
           MakeStaging, StartNative, NativeReturns, NativeRaises, Inventory,
           EndInventory, Publish, Cleanup, LeaveProbe, ProbeEvidence
      <4>2. j \in Probes /\ want[j] = j
        BY <1>1, <4>1 DEF LeaveProbe, Recorded, Typed, Located
      <4>3. p = j  BY <1>1, <1>3, <2>2, <4>2 DEF Accounted
      <4>4. place'[p] # Absent  BY DEF Absent
      <4>5. /\ pc'[j] = "end" /\ verdict'[j] = "cleanup_failed"
            /\ UNCHANGED <<files, total, run>>
        BY <1>1, <4>1, <4>3, <4>4 DEF LeaveProbe, Goto, TypeOK
      <4> QED  BY <1>1, <1>3, <2>2, <4>2, <4>5 DEF Accounted
    <3> QED  BY <3>2, <3>3
  <2>3. CASE i # j
    <3>1. /\ pc'[i] = pc[i] /\ run'[i] = run[i] /\ files'[i] = files[i]
          /\ total'[i] = total[i] /\ verdict'[i] = verdict[i]
      BY <1>1, <2>1, <2>3, Frame
    <3> QED  BY <1>1, <1>3, <3>1 DEF Accounted
  <2> QED  BY <2>2, <2>3
<1>4. CASE Withdrawn(j) /\ p = j /\ place'[p] # place[p]
  <2>1. place'[p] \in {Absent, EmptyDir, Other}
    BY <1>1, <1>4 DEF Withdrawn, TypeOK
  <2> QED  BY <2>1 DEF Absent, EmptyDir, Other
<1>5. \/ Placed(j) /\ p = want[j]
      \/ place'[p] = place[p]
      \/ Withdrawn(j) /\ p = j /\ place'[p] # place[p]
  BY <1>1 DEF Placed, Withdrawn, TypeOK
<1> QED  BY <1>2, <1>3, <1>4, <1>5

LEMMA InvInit == Init => Inv
<1> SUFFICES ASSUME Init PROVE Inv
  OBVIOUS
<1>1. Typed  BY InitType
<1>2. ASSUME NEW j \in Jobs PROVE Recorded(j)
  BY <1>2, ExportAssumption DEF Init, Recorded, Early, Jobs
<1>3. ASSUME NEW j \in Jobs PROVE Reported(j)
  BY <1>3 DEF Init, Reported
<1>4. ASSUME NEW p \in Places PROVE Accounted(p)
  BY <1>4 DEF Init, Accounted, Absent, EmptyDir, Other
<1> QED  BY <1>1, <1>2, <1>3, <1>4 DEF Inv

LEMMA InvStep == Inv /\ [Next]_vars => Inv'
<1> SUFFICES ASSUME Inv, [Next]_vars PROVE Inv'
  OBVIOUS
<1>1. Typed'  BY NextType DEF Inv
<1>2. ASSUME NEW j \in Jobs, Step(j) \/ Crash(j) PROVE Inv'
  <2>1. \A k \in Jobs : Recorded(k)' /\ Reported(k)'
    BY <1>2, RecordedStep, ReportedStep, OthersStep
  <2>2. \A p \in Places : Accounted(p)'  BY <1>2, AccountedStep
  <2> QED  BY <1>1, <2>1, <2>2 DEF Inv
<1>3. CASE EditProject
  BY <1>1, <1>3 DEF EditProject, Inv, Recorded, Reported, Accounted
<1>4. ASSUME NEW q \in Paths, Occupy(q) PROVE Inv'
  <2>1. /\ place[q] = Absent /\ place'[q] \in {EmptyDir, Other}
        /\ \A p \in Places \ {q} : place'[p] = place[p]
        /\ UNCHANGED <<staging, pc, want, run, next, files, total, opened, verdict>>
    BY <1>4 DEF Occupy, Inv, Typed, TypeOK, Places
  <2>2. ASSUME NEW k \in Jobs PROVE Recorded(k)' /\ Reported(k)'
    <3>1. Recorded(k) /\ Reported(k)  BY DEF Inv
    <3>2. k \in Probes => k # q /\ place'[k] = place[k]
      BY <2>1, ExportAssumption DEF Places
    <3>3. verdict[k] = "done" /\ k \in Exports => want[k] # q /\ want[k] \in Places
      BY <2>1, <3>1, ExportAssumption DEF Reported, Recorded, Places, Absent
    <3> QED  BY <2>1, <3>1, <3>2, <3>3 DEF Recorded, Reported
  <2>3. ASSUME NEW p \in Places PROVE Accounted(p)'
    <3>1. Accounted(p)  BY DEF Inv
    <3> QED  BY <2>1, <3>1 DEF Accounted, EmptyDir, Other
  <2> QED  BY <1>1, <2>2, <2>3 DEF Inv
<1>5. CASE UNCHANGED vars
  BY <1>1, <1>5 DEF vars, Inv, Recorded, Reported, Accounted
<1> QED  BY <1>2, <1>3, <1>4, <1>5 DEF Next

\* Two calls of export_material never both report success for one destination:
\* the rename of the second finds what the first has put there.
THEOREM RaceHasOneWinner == Spec => []OneWinner
<1>1. Inv => OneWinner
  BY DEF Inv, Reported, OneWinner, Jobs
<1> QED  BY <1>1, InvInit, InvStep, PTL DEF Spec

\* A call that has failed has put nothing at a destination, even if a removal
\* failed.  Unless the last removal it made has raised, it has left no staging
\* directory, and a probe neither its temporary directory nor an export in it.
THEOREM NothingStays == Spec => []NoResidue
<1>1. Inv => NoResidue
  <2> SUFFICES ASSUME Inv, NEW j \in Jobs, pc[j] = "end"
               PROVE  /\ verdict[j] # "done" =>
                            \A p \in Paths : place[p].kind = "export" => place[p].by # j
                      /\ verdict[j] # "cleanup_failed" =>
                            /\ staging[j] = NoTree /\ j \notin opened
                            /\ j \in Probes => place[j] = Absent
    BY DEF NoResidue
  <2>1. ASSUME NEW p \in Paths, place[p].kind = "export", place[p].by = j
        PROVE  verdict[j] = "done"
    <3>1. want[j] = p /\ (verdict[j] = "done" \/ j \in Probes)
      BY <2>1 DEF Inv, Accounted, Places
    <3>2. j \notin Probes  BY <3>1, ExportAssumption DEF Inv, Recorded
    <3> QED  BY <3>1, <3>2
  <2>2. Reported(j)  BY DEF Inv
  <2> QED  BY <2>1, <2>2 DEF Reported
<1> QED  BY <1>1, InvInit, InvStep, PTL DEF Spec

-----------------------------------------------------------------------------
(* An export is published whole, in one step.                              *)

\* The regular files among the first n entries have bytes bytes together, and
\* never more than the limit on the way there.
Sums(tree, n, bytes) ==
    \E sum \in [0 .. n -> 0 .. MaxBytes] :
        /\ sum[0] = 0 /\ sum[n] = bytes
        /\ \A i \in 1 .. n :
              sum[i] = sum[i - 1] + (IF tree[i].kind = "file" THEN tree[i].size ELSE 0)

\* The entries the inventory has been over, and how many there are.
Looked(j) == IF pc[j] = "inventory" THEN next[j] - 1 ELSE Len(staging[j])

\* They may be shown at the destination.
Shown(j) ==
    pc[j] \in {"inventory", "publish"} =>
        /\ \A i \in 1 .. Looked(j) :
              /\ staging[j][i].kind # "link"
              /\ staging[j][i].kind = "file" => staging[j][i].size > 0
        /\ IsFiniteSet(files[j]) /\ Cardinality(files[j]) <= MaxFiles
        /\ pc[j] = "publish" => files[j] # {}
        /\ Sums(staging[j], Looked(j), total[j])

LEMMA SumsNothing == \A tree : Sums(tree, 0, 0)
<1> SUFFICES ASSUME NEW tree PROVE Sums(tree, 0, 0)
  OBVIOUS
<1> DEFINE sum == [i \in 0 .. 0 |-> 0]
<1>1. sum \in [0 .. 0 -> 0 .. MaxBytes]  BY ExportAssumption
<1>2. sum[0] = 0 /\ 1 .. 0 = {}  OBVIOUS
<1> QED  BY <1>1, <1>2 DEF Sums

LEMMA SumsOneMore ==
    ASSUME NEW tree, NEW n \in Nat, NEW bytes \in Nat, Sums(tree, n, bytes),
           NEW more \in Nat, bytes + more <= MaxBytes,
           more = IF tree[n + 1].kind = "file" THEN tree[n + 1].size ELSE 0
    PROVE  Sums(tree, n + 1, bytes + more)
<1>1. PICK sum \in [0 .. n -> 0 .. MaxBytes] :
        /\ sum[0] = 0 /\ sum[n] = bytes
        /\ \A i \in 1 .. n :
              sum[i] = sum[i - 1] + (IF tree[i].kind = "file" THEN tree[i].size ELSE 0)
  BY DEF Sums
<1> DEFINE longer == [i \in 0 .. n + 1 |-> IF i = n + 1 THEN bytes + more ELSE sum[i]]
<1>2. longer \in [0 .. n + 1 -> 0 .. MaxBytes]
  BY ExportAssumption
<1>3. longer[0] = 0 /\ longer[n + 1] = bytes + more /\ longer[n] = bytes
  BY <1>1
<1>4. ASSUME NEW i \in 1 .. n + 1
      PROVE  longer[i] = longer[i - 1]
                         + (IF tree[i].kind = "file" THEN tree[i].size ELSE 0)
  <2>1. CASE i = n + 1
    <3>1. i - 1 = n  BY <2>1
    <3> HIDE DEF longer
    <3> QED  BY <1>3, <2>1, <3>1
  <2>2. CASE i # n + 1
    <3>1. i \in 1 .. n /\ i - 1 \in 0 .. n  BY <2>2
    <3>2. longer[i] = sum[i] /\ longer[i - 1] = sum[i - 1]  BY <3>1
    <3> HIDE DEF longer
    <3> QED  BY <1>1, <3>1, <3>2
  <2> QED  BY <2>1, <2>2
<1> HIDE DEF longer
<1> QED  BY <1>2, <1>3, <1>4 DEF Sums

LEMMA ShownStep ==
    ASSUME Inv, NEW j \in Jobs, Shown(j), Step(j) \/ Crash(j)
    PROVE  Shown(j)'
<1>1. Typed /\ TypeOK /\ Recorded(j) /\ Located(j)  BY DEF Inv, Typed
<1> USE DEF TypeOK, Goto, Fail, Abort, Raise
<1>2. CASE NativeReturns(j)
  <2>1. CASE pc'[j] # "inventory"
    BY <1>1, <1>2, <2>1 DEF NativeReturns, Shown
  <2>2. CASE pc'[j] = "inventory"
    <3>1. next'[j] = 1 /\ files'[j] = {} /\ total'[j] = 0
      BY <1>1, <1>2 DEF NativeReturns, Recorded, Early
    <3>2. IsFiniteSet({}) /\ Cardinality({}) = 0  BY FS_EmptySet
    <3>3. Looked(j)' = 0  BY <2>2, <3>1 DEF Looked
    <3> QED  BY <2>2, <3>1, <3>2, <3>3, SumsNothing, ExportAssumption DEF Shown
  <2> QED  BY <2>1, <2>2
<1>3. CASE Inventory(j)
  <2> DEFINE entry == staging[j][next[j]]
  <2>1. /\ staging[j] \in Outputs /\ pc[j] = "inventory"
        /\ next[j] \in 1 .. Len(staging[j])
        /\ next' = [next EXCEPT ![j] = next[j] + 1] /\ staging' = staging
    BY <1>1, <1>3 DEF Inventory, Located
  <2>2. entry.size \in Nat /\ Len(staging[j]) \in Nat  BY <2>1, Trees
  <2>3. CASE pc'[j] # "inventory"
    BY <1>1, <1>3, <2>1, <2>3 DEF Inventory, Shown
  <2>4. CASE pc'[j] = "inventory"
    <3>1. \/ entry.kind = "dir" /\ UNCHANGED <<files, total>>
          \/ /\ entry.kind = "file" /\ Fits(j, entry)
             /\ files'[j] = files[j] \cup {next[j]}
             /\ total'[j] = total[j] + entry.size
      BY <1>1, <1>3, <2>4 DEF Inventory
    <3>2. Looked(j) = next[j] - 1 /\ Looked(j)' = next[j] /\ staging'[j] = staging[j]
      BY <1>1, <2>1, <2>4 DEF Looked
    <3>3. /\ \A i \in 1 .. next[j] - 1 :
                /\ staging[j][i].kind # "link"
                /\ staging[j][i].kind = "file" => staging[j][i].size > 0
          /\ IsFiniteSet(files[j]) /\ Cardinality(files[j]) <= MaxFiles
          /\ Sums(staging[j], next[j] - 1, total[j])
      BY <2>1, <3>2 DEF Shown
    <3>4. \A i \in 1 .. next[j] :
                /\ staging[j][i].kind # "link"
                /\ staging[j][i].kind = "file" => staging[j][i].size > 0
      <4>1. entry.kind # "link" /\ (entry.kind = "file" => entry.size > 0)
        BY <3>1 DEF Fits
      <4> QED  BY <2>1, <3>3, <4>1
    <3>5. IsFiniteSet(files'[j]) /\ Cardinality(files'[j]) <= MaxFiles
      <4>1. CASE entry.kind = "dir"  BY <3>1, <3>3, <4>1
      <4>2. CASE entry.kind = "file"
        <5>1. /\ Cardinality(files[j]) < MaxFiles
              /\ files'[j] = files[j] \cup {next[j]}
          BY <3>1, <4>2 DEF Fits
        <5>2. Cardinality(files[j]) \in Nat  BY <3>3, FS_CardinalityType
        <5>3. next[j] \notin files[j]  BY <1>1, <2>1 DEF Recorded
        <5>4. /\ IsFiniteSet(files'[j])
              /\ Cardinality(files'[j]) = Cardinality(files[j]) + 1
          BY <3>3, <5>1, <5>3, FS_AddElement
        <5> QED  BY <5>1, <5>2, <5>4, ExportAssumption
      <4> QED  BY <3>1, <4>1, <4>2
    <3>6. Sums(staging[j], next[j], total'[j])
      <4> DEFINE more == IF entry.kind = "file" THEN entry.size ELSE 0
      <4>1. more \in Nat /\ total'[j] = total[j] + more
        BY <1>1, <2>2, <3>1
      <4>2. total[j] + more <= MaxBytes /\ total[j] \in Nat
        BY <1>1, <2>1, <3>1 DEF Recorded, Fits
      <4>3. next[j] - 1 \in Nat /\ (next[j] - 1) + 1 = next[j]  BY <2>1
      <4> HIDE DEF more
      <4>4. more = IF staging[j][(next[j] - 1) + 1].kind = "file"
                     THEN staging[j][(next[j] - 1) + 1].size ELSE 0
        BY <4>3 DEF more
      <4> HIDE DEF entry
      <4>5. Sums(staging[j], (next[j] - 1) + 1, total[j] + more)
        BY <3>3, <4>1, <4>2, <4>3, <4>4, SumsOneMore
      <4> QED  BY <4>1, <4>3, <4>5
    <3> QED  BY <2>4, <3>2, <3>4, <3>5, <3>6 DEF Shown
  <2> QED  BY <2>3, <2>4
<1>4. CASE EndInventory(j)
  <2>1. CASE pc'[j] # "publish"
    BY <1>1, <1>4, <2>1 DEF EndInventory, Shown
  <2>2. CASE pc'[j] = "publish"
    <3>1. staging[j] \in Outputs /\ pc[j] = "inventory"
      BY <1>1, <1>4 DEF EndInventory, Located
    <3>2. Len(staging[j]) \in Nat  BY <3>1, Trees
    <3>3. next[j] = Len(staging[j]) + 1
      BY <1>1, <1>4, <3>1, <3>2 DEF EndInventory, Exhausted, Recorded
    <3>4. files[j] # {} /\ UNCHANGED <<staging, files, total>>
      BY <1>1, <1>4, <2>2 DEF EndInventory
    <3>5. Looked(j) = Len(staging[j]) /\ Looked(j)' = Len(staging[j])
      BY <2>2, <3>1, <3>2, <3>3, <3>4 DEF Looked
    <3> QED  BY <2>2, <3>1, <3>4, <3>5 DEF Shown
  <2> QED  BY <2>1, <2>2
<1>5. CASE \/ CheckProject(j) \/ CheckDestination(j) \/ Validate(j) \/ MakeStaging(j)
           \/ StartNative(j) \/ NativeRaises(j) \/ Publish(j) \/ Cleanup(j)
           \/ OpenProbe(j) \/ LeaveProbe(j) \/ ProbeEvidence(j) \/ Crash(j)
  <2>1. pc'[j] \notin {"inventory", "publish"}
    BY <1>1, <1>5 DEF CheckProject, CheckDestination, Validate, MakeStaging, StartNative,
       NativeRaises, Publish, Cleanup, OpenProbe, LeaveProbe, ProbeEvidence, Crash
  <2> QED  BY <2>1 DEF Shown
<1> QED  BY <1>2, <1>3, <1>4, <1>5 DEF Step

Whole == Inv /\ \A j \in Jobs : Shown(j)

LEMMA WholeInit == Init => Whole
<1>1. Init => \A j \in Jobs : Shown(j)  BY DEF Init, Shown
<1> QED  BY <1>1, InvInit DEF Whole

LEMMA WholeStep == Whole /\ [Next]_vars => Whole'
<1> SUFFICES ASSUME Whole, [Next]_vars PROVE \A j \in Jobs : Shown(j)'
  BY InvStep DEF Whole
<1> USE DEF Whole
<1>1. ASSUME NEW j \in Jobs, Step(j) \/ Crash(j) PROVE \A k \in Jobs : Shown(k)'
  <2> SUFFICES ASSUME NEW k \in Jobs \ {j} PROVE Shown(k)'
    BY <1>1, ShownStep
  <2>1. /\ pc'[k] = pc[k] /\ staging'[k] = staging[k] /\ next'[k] = next[k]
        /\ files'[k] = files[k] /\ total'[k] = total[k]
    BY <1>1, Frame DEF Inv, Typed
  <2> QED  BY <2>1 DEF Shown, Looked
<1>2. CASE UNCHANGED <<pc, staging, next, files, total>>
  BY <1>2 DEF Shown, Looked
<1>3. EditProject \/ (\E p \in Paths : Occupy(p)) \/ UNCHANGED vars =>
        UNCHANGED <<pc, staging, next, files, total>>
  BY DEF EditProject, Occupy, vars
<1> QED  BY <1>1, <1>2, <1>3 DEF Next

\* What each destination holds, whoever put it there.
Held(p) == IF place[p].kind = "export"
             THEN [kind |-> "export", tree |-> place[p].tree]
             ELSE place[p]

\* What a call publishes is complete.
LEMMA CompleteWhenPublished ==
    ASSUME Inv, NEW j \in Jobs, Shown(j), pc[j] = "publish"
    PROVE  staging[j] \in Outputs /\ Abstract!Complete(staging[j])
<1>0. PICK tree : tree = staging[j]  OBVIOUS
<1> DEFINE regular == {i \in 1 .. Len(tree) : tree[i].kind = "file"}
<1>1. /\ tree \in Outputs /\ files[j] = regular
      /\ Looked(j) = Len(tree)
  BY <1>0 DEF Inv, Typed, Located, Recorded, Indices, Looked
<1>2. /\ \A i \in 1 .. Len(tree) : tree[i].kind # "link" /\ (i \in regular => tree[i].size > 0)
      /\ IsFiniteSet(regular) /\ Cardinality(regular) <= MaxFiles /\ regular # {}
      /\ Sums(tree, Len(tree), total[j])
  BY <1>0, <1>1 DEF Shown
<1>3. Cardinality(regular) \in 1 .. MaxFiles
  <2>1. Cardinality(regular) \in Nat /\ Cardinality(regular) # 0
    BY <1>2, FS_CardinalityType, FS_EmptySet
  <2> QED  BY <1>2, <2>1, ExportAssumption
<1>4. PICK sum \in [0 .. Len(tree) -> 0 .. MaxBytes] :
        /\ sum[0] = 0
        /\ \A i \in 1 .. Len(tree) :
              sum[i] = sum[i - 1] + (IF tree[i].kind = "file" THEN tree[i].size ELSE 0)
  BY <1>2 DEF Sums
<1>5. \A i \in 1 .. Len(tree) :
        sum[i] = sum[i - 1] + (IF i \in regular THEN tree[i].size ELSE 0)
  BY <1>4
<1>6. Abstract!Complete(tree)
  <2>1. \E s \in [0 .. Len(tree) -> 0 .. MaxBytes] :
          /\ s[0] = 0
          /\ \A i \in 1 .. Len(tree) :
                s[i] = s[i - 1] + (IF i \in regular THEN tree[i].size ELSE 0)
    <3> HIDE DEF regular
    <3> QED  BY <1>4, <1>5
  <2>2. \A i \in 1 .. Len(tree) : tree[i].kind # "link" /\ (i \in regular => tree[i].size > 0)
    BY <1>2
  <2>0. \A S : Abstract!Cardinality(S) = Cardinality(S)
    BY Zenon DEF Abstract!Cardinality, Cardinality
  <2>3. Abstract!Complete(tree) <=>
          /\ \A i \in 1 .. Len(tree) : tree[i].kind # "link" /\ (i \in regular => tree[i].size > 0)
          /\ Cardinality(regular) \in 1 .. MaxFiles
          /\ \E s \in [0 .. Len(tree) -> 0 .. MaxBytes] :
                /\ s[0] = 0
                /\ \A i \in 1 .. Len(tree) :
                      s[i] = s[i - 1] + (IF i \in regular THEN tree[i].size ELSE 0)
    BY <2>0 DEF Abstract!Complete
  <2> QED  BY <1>3, <2>1, <2>2, <2>3
<1> QED  BY <1>0, <1>1, <1>6

LEMMA AbstractStep ==
    ASSUME Inv, \A j \in Jobs : Shown(j), [Next]_vars
    PROVE  [Abstract!Next]_([p \in Paths |-> Held(p)])
<1> DEFINE out == [p \in Paths |-> Held(p)]
<1>1. TypeOK  BY DEF Inv, Typed
<1>2. ASSUME \A p \in Paths : place'[p] = place[p] PROVE out' = out
  BY <1>2 DEF Held
<1>3. ASSUME NEW j \in Jobs, Step(j) \/ Crash(j) PROVE [Abstract!Next]_out
  <2>1. place' = place \/ Placed(j) \/ Withdrawn(j)  BY <1>1, <1>3, PlaceStep
  <2>2. Recorded(j) /\ want[j] \in Places  BY <1>1 DEF Inv, TypeOK
  <2>3. CASE place' = place  BY <1>2, <2>3
  <2>4. CASE Withdrawn(j)
    <3>1. j \notin Paths
      BY <2>4, ExportAssumption DEF Withdrawn, Inv, Typed, Located
    <3> QED  BY <1>1, <1>2, <2>4, <3>1 DEF Withdrawn, TypeOK, Places
  <2>5. CASE Placed(j) /\ want[j] \notin Paths
    BY <1>1, <1>2, <2>5 DEF Placed, TypeOK, Places
  <2>6. CASE Placed(j) /\ want[j] \in Paths
    <3>0. PICK p \in Paths : p = want[j]  BY <2>6
    <3> DEFINE d == [kind |-> "export", tree |-> staging[j]]
    <3>1. staging[j] \in Outputs /\ Abstract!Complete(staging[j])
      BY <2>6, CompleteWhenPublished DEF Placed
    <3>2. /\ place[p] \in {Absent, EmptyDir}
          /\ place' = [place EXCEPT ![p] = Export(j, staging[j])]
      BY <2>6, <3>0 DEF Placed, Replaceable
    <3>3. out[p] \in {Abstract!Absent, Abstract!EmptyDir}
      BY <2>6, <3>2 DEF Held, Absent, EmptyDir, Abstract!Absent, Abstract!EmptyDir
    <3>4. Held(p)' = d
      <4>1. place'[p] = Export(j, staging[j])
        BY <1>1, <3>2 DEF TypeOK, Places
      <4>2. place'[p].kind = "export" /\ place'[p].tree = staging[j]
        BY <4>1 DEF Export
      <4> QED  BY <4>2 DEF Held
    <3>5. \A q \in Paths \ {p} : Held(q)' = Held(q)
      BY <1>1, <3>2 DEF Held, TypeOK, Places
    <3>6. out' = [out EXCEPT ![p] = d]
      <4> HIDE DEF d
      <4> QED  BY <3>4, <3>5
    <3>7. Abstract!Publish(p)
      BY <3>1, <3>3, <3>6 DEF Abstract!Publish, Held
    <3> QED  BY <3>7 DEF Abstract!Next
  <2> QED  BY <2>1, <2>3, <2>4, <2>5, <2>6
<1>4. CASE EditProject  BY <1>2, <1>4 DEF EditProject
<1>5. ASSUME NEW p \in Paths, Occupy(p) PROVE [Abstract!Next]_out
  <2>1. PICK what \in {EmptyDir, Other} :
          place[p] = Absent /\ place' = [place EXCEPT ![p] = what]
    BY <1>5 DEF Occupy
  <2>2. out[p] = Abstract!Absent
    BY <2>1 DEF Held, Absent, Abstract!Absent
  <2>3. Held(p)' = what /\ what \in {Abstract!EmptyDir, Abstract!Other}
    BY <1>1, <2>1 DEF Held, TypeOK, Places, EmptyDir, Other, Abstract!EmptyDir, Abstract!Other
  <2>4. \A q \in Paths \ {p} : Held(q)' = Held(q)
    BY <1>1, <2>1 DEF Held, TypeOK, Places
  <2>5. out' = [out EXCEPT ![p] = what]
    BY <2>3, <2>4
  <2>6. Abstract!Occupy(p)
    BY <2>2, <2>3, <2>5 DEF Abstract!Occupy, Held
  <2> QED  BY <2>6 DEF Abstract!Next
<1>6. CASE UNCHANGED vars  BY <1>2, <1>6 DEF vars
<1> QED  BY <1>3, <1>4, <1>5, <1>6 DEF Next

\* bridge.py, export_material: whatever calls run side by side, however their
\* native runs end and wherever one dies, a destination goes in one step from
\* nothing to a complete export within the limits, and is never changed again.
THEOREM ExportIsAtomic == Spec => PublishesAtomically
<1>1. Init => Abstract!Init
  <2> SUFFICES ASSUME Init PROVE Abstract!Init
    OBVIOUS
  <2>1. \A p \in Paths : place[p] \in {Absent, EmptyDir, Other}
    BY DEF Init, Places
  <2> QED
    BY <2>1 DEF Abstract!Init, Absent, EmptyDir, Other, Abstract!Absent, Abstract!EmptyDir,
       Abstract!Other
<1>2. Whole /\ [Next]_vars => [Abstract!Next]_([p \in Paths |-> Held(p)])
  BY AbstractStep DEF Whole
<1> QED
  BY <1>1, <1>2, WholeInit, WholeStep, PTL DEF Spec, PublishesAtomically, Abstract!Spec, Held

\* The inventory of what is at a destination has not grown since.
FewEnough(p) ==
    place[p].kind = "export" => Cardinality(files[place[p].by]) <= MaxFiles

LEMMA FewEnoughStep ==
    ASSUME Inv, \A j \in Jobs : Shown(j), \A p \in Places : FewEnough(p), [Next]_vars,
           NEW p \in Places
    PROVE  FewEnough(p)'
<1> SUFFICES ASSUME place'[p].kind = "export"
             PROVE  Cardinality(files'[place'[p].by]) <= MaxFiles
  BY DEF FewEnough
<1>0. TypeOK /\ FewEnough(p) /\ Accounted(p)  BY DEF Inv, Typed
<1>1. ASSUME NEW j \in Jobs, Step(j) \/ Crash(j)
      PROVE  Cardinality(files'[place'[p].by]) <= MaxFiles
  <2>1. place' = place \/ Placed(j) \/ Withdrawn(j)  BY <1>0, <1>1, PlaceStep
  <2>2. CASE Placed(j) /\ p = want[j]
    <3>1. place'[p].by = j /\ files' = files /\ pc[j] = "publish"
      BY <1>0, <2>2 DEF Placed, Export, TypeOK
    <3> QED  BY <3>1 DEF Shown
  <2>3. CASE place'[p] = place[p]
    <3> DEFINE i == place[p].by
    <3>1. i \in Jobs
      <4>1. place[p] \in {Absent, EmptyDir, Other} \cup
                         [kind : {"export"}, by : Jobs, tree : Outputs]
        BY <1>0 DEF TypeOK
      <4>2. place[p] \notin {Absent, EmptyDir, Other}
        BY <2>3 DEF Absent, EmptyDir, Other
      <4> QED  BY <4>1, <4>2
    <3>2. files'[i] = files[i]
      <4>1. CASE i # j  BY <1>0, <1>1, <3>1, <4>1, Frame
      <4>2. CASE i = j
        <5>1. pc[j] \in {"leave", "end", "crashed"}  BY <1>0, <2>3, <4>2 DEF Accounted
        <5>2. LeaveProbe(j) \/ Crash(j)
          BY <1>1, <5>1 DEF Step, OpenProbe, CheckProject, CheckDestination, Validate,
             MakeStaging, StartNative, NativeReturns, NativeRaises, Inventory,
             EndInventory, Publish, Cleanup, ProbeEvidence
        <5> QED  BY <4>2, <5>2 DEF LeaveProbe, Crash
      <4> QED  BY <4>1, <4>2
    <3> QED  BY <1>0, <2>3, <3>2 DEF FewEnough
  <2>4. CASE Withdrawn(j) /\ p = j /\ place'[p] # place[p]
    <3>1. place'[p] \in {Absent, EmptyDir, Other}
      BY <1>0, <2>4 DEF Withdrawn, TypeOK
    <3> QED  BY <3>1 DEF Absent, EmptyDir, Other
  <2>5. \/ Placed(j) /\ p = want[j]
        \/ place'[p] = place[p]
        \/ Withdrawn(j) /\ p = j /\ place'[p] # place[p]
    BY <1>0, <2>1 DEF Placed, Withdrawn, TypeOK
  <2> QED  BY <2>2, <2>3, <2>4, <2>5
<1>2. CASE EditProject \/ UNCHANGED vars
  BY <1>0, <1>2 DEF EditProject, vars, FewEnough
<1>3. ASSUME NEW q \in Paths, Occupy(q)
      PROVE  Cardinality(files'[place'[p].by]) <= MaxFiles
  <2>1. place'[p] = place[p] /\ files' = files
    BY <1>0, <1>3 DEF Occupy, EmptyDir, Other, TypeOK
  <2> QED  BY <1>0, <2>1 DEF FewEnough
<1> QED  BY <1>1, <1>2, <1>3 DEF Next

\* Whatever appears at a destination is within both limits and named in full by
\* the inventory of the call that put it there, whose native run succeeded.
THEOREM OnlyInventoried == Spec => []PublishedIsInventoried
<1> DEFINE Counted == Whole /\ \A p \in Places : FewEnough(p)
<1>1. Init => Counted
  <2>1. Init => \A p \in Places : FewEnough(p)
    BY DEF Init, FewEnough, Absent, EmptyDir, Other, Places
  <2> QED  BY <2>1, WholeInit
<1>2. Counted /\ [Next]_vars => Counted'
  <2> SUFFICES ASSUME Counted, [Next]_vars PROVE \A p \in Places : FewEnough(p)'
    BY WholeStep
  <2> QED  BY FewEnoughStep DEF Whole
<1>3. Counted => PublishedIsInventoried
  BY DEF Whole, Inv, Accounted, FewEnough, PublishedIsInventoried
<1> HIDE DEF Counted
<1> QED  BY <1>1, <1>2, <1>3, PTL DEF Spec
=============================================================================
