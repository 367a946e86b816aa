-------------------------- MODULE ReleaseGuardProofs --------------------------
(***************************************************************************)
(* Theorems about ReleaseGuard, for any number of runs, files, releases    *)
(* and faults of any kind.                                                 *)
(***************************************************************************)
EXTENDS ReleaseGuard, WellFoundedInduction, TLAPS

\* The listing is ordered by its numbers, so it has an oldest release.
LEMMA Least ==
    ASSUME NEW S \in SUBSET Nat, S # {}
    PROVE  \E i \in S : \A j \in S : i <= j
<1> DEFINE Less == OpToRel(<, Nat)
<1>1. IsWellFoundedOn(Less, Nat)
  BY NatLessThanWellFounded
<1>2. \A i \in S, j \in S : <<j, i>> \in Less <=> j < i
  BY DEF OpToRel
<1> HIDE DEF Less
<1>3. PICK i \in S : \A j \in S : ~ (<<j, i>> \in Less)
  BY <1>1, WFMin
<1>4. \A j \in S : ~ (j < i)
  BY <1>2, <1>3
<1> QED  BY <1>4

LEMMA OldestIsListed ==
    ASSUME NEW S \in SUBSET Ids, S # {}
    PROVE  Oldest(S) \in S
<1>1. S \in SUBSET Nat  BY DEF Ids
<1> QED  BY <1>1, Least DEF Oldest

LEMMA FoundIsListed ==
    ASSUME TypeOK, NEW listed \in SUBSET Existing
    PROVE  /\ Found(listed) \in [id : {0} \cup Ids, state : States, assets : Contents]
           /\ Found(listed).id # 0 => Found(listed).id \in Existing
<1> DEFINE drafts == {i \in listed : IsStaged(release[i])}
           i == Oldest(IF drafts # {} THEN drafts ELSE listed)
<1>1. CASE listed = {}
  <2>1. Found(listed) = NotFound  BY <1>1 DEF Found
  <2>2. NoFiles \in Contents  BY DEF NoFiles, Contents
  <2> QED  BY <2>1, <2>2 DEF NotFound, States
<1>2. CASE listed # {}
  <2>1. i \in listed /\ i \in Existing /\ i \in Ids
    BY <1>2, OldestIsListed DEF Existing
  <2>2. Found(listed) = [id |-> i, state |-> release[i].state,
                         assets |-> release[i].assets]
    BY <1>2 DEF Found
  <2> HIDE DEF i
  <2>3. release[i] \in [state : States, assets : Contents]
    BY <2>1 DEF TypeOK
  <2> QED  BY <2>1, <2>2, <2>3
<1> QED  BY <1>1, <1>2

-----------------------------------------------------------------------------
(* Where a run is.                                                         *)

StageSteps == {"begin", "list", "create_tag", "create_draft", "observe", "settle",
               "stopped"}

\* A run that has left its first job has seen a release, and one that has left
\* the second has seen all its files on PyPI, where nothing is replaced.
Located(r) ==
    /\ job[r] = "stage" => pc[r] \in StageSteps
    /\ job[r] = "stage" /\ pc[r] \in {"observe", "settle"} => payload[r].id \in Existing
    /\ job[r] # "stage" => snapshot[r].id \in Existing
    /\ job[r] \in {"assets", "finalize"} => pypi = build[r]
    /\ job[r] = "finalize" /\ pc[r] = "publish" => Staged(r).assets = build[r]
    /\ pc[r] = "done" =>
          job[r] = "finalize" /\ Staged(r).state = "public" /\ Staged(r).assets = build[r]

\* What never goes back on the two services.
Monotonic ==
    /\ \A f \in Files : pypi[f] # Absent => pypi'[f] = pypi[f]
    /\ \A i \in Ids : release[i].state # "none" => release'[i].state # "none"
    /\ \A i \in Ids : release[i].state = "public" => release'[i].state = "public"
    /\ \A i \in Ids, f \in Files :
          release[i].assets[f] # Absent => release'[i].assets[f] = release[i].assets[f]

Moves(r) == Step(r) \/ Die(r) \/ Expire(r) \/ RerunJob(r) \/ NewRun(r)

-----------------------------------------------------------------------------
(* Type correctness.                                                       *)

LEMMA Built == ASSUME TypeOK, NEW r \in Runs, NEW f \in Files
               PROVE  build[r][f] \in Digests
BY ReleaseAssumption DEF TypeOK

RemoteType ==
    /\ tag \in Tags
    /\ release \in [Ids -> [state : States, assets : Contents]]
    /\ pypi \in [Files -> Digests \cup {Absent}]

RunType ==
    /\ job \in [Runs -> Jobs] /\ pc \in [Runs -> Steps]
    /\ build \in [Runs -> Builds] /\ artifact \in [Runs -> BOOLEAN]
    /\ ref \in [Runs -> Tags]
    /\ payload \in [Runs -> [id : {0} \cup Ids, state : States, assets : Contents]]
    /\ snapshot \in [Runs -> [id : {0} \cup Ids, schema : {0, 2, 3}]]
    /\ todo \in [Runs -> SUBSET Files]
    /\ faults \in 0 .. MaxFaults

LEMMA TypeParts == TypeOK <=> RemoteType /\ RunType
BY DEF TypeOK, RemoteType, RunType

LEMMA FaultType == ASSUME NEW kind, faults \in 0 .. MaxFaults, Fault(kind)
                   PROVE  faults' \in 0 .. MaxFaults
BY ReleaseAssumption DEF Fault

LEMMA StageType ==
    ASSUME TypeOK, NEW r \in Runs, Located(r), Stage(r)
    PROVE  RunType'
<1>1. RunType /\ RemoteType  BY TypeParts
<1> USE <1>1 DEF RunType, Goto, Stop, Start, remote, Steps, Jobs, Tags
<1>2. CASE ReadRef(r)  BY <1>2 DEF ReadRef, RemoteType
<1>3. CASE ListReleases(r)
  <2>1. PICK listed \in SUBSET Existing :
          /\ UNCHANGED faults \/ Fault("stale_list")
          /\ payload' = [payload EXCEPT ![r] = Found(listed)]
          /\ \E s \in {"stopped", "create_tag", "create_draft", "settle"} :
                pc' = [pc EXCEPT ![r] = s]
    <3>1. PICK listed \in SUBSET Existing :
            /\ \/ listed = Existing /\ UNCHANGED faults
               \/ /\ listed # Existing /\ Fault("stale_list")
                  /\ \A i \in Existing \ listed : release[i].state = "draft"
            /\ LET found == Found(listed)
               IN  /\ payload' = [payload EXCEPT ![r] = found]
                   /\ Goto(r,
                        CASE ref[r] = "none" /\ found.id # 0 -> "stopped"
                          [] ref[r] = "none" /\ found.id = 0 -> "create_tag"
                          [] ref[r] = "elsewhere" -> "stopped"
                          [] ref[r] = "source" /\ found.id = 0 -> "create_draft"
                          [] OTHER -> "settle")
      BY <1>3 DEF ListReleases
    <3> DEFINE found == Found(listed)
    <3> HIDE DEF found
    <3>2. \E s \in {"stopped", "create_tag", "create_draft", "settle"} :
             pc' = [pc EXCEPT ![r] = s]
      BY <3>1 DEF found
    <3> QED  BY <3>1, <3>2
  <2>2. Found(listed) \in [id : {0} \cup Ids, state : States, assets : Contents]
    BY FoundIsListed
  <2>3. faults' \in 0 .. MaxFaults  BY <2>1, FaultType
  <2>4. pc' \in [Runs -> Steps]  BY <2>1
  <2> QED  BY <1>3, <2>1, <2>2, <2>3, <2>4 DEF ListReleases
<1>4. CASE CreateTag(r)
  <2>1. faults' \in 0 .. MaxFaults  BY <1>4, FaultType DEF CreateTag
  <2>2. pc' \in [Runs -> Steps] /\ job' = job  BY <1>4 DEF CreateTag
  <2> QED  BY <1>4, <2>1, <2>2 DEF CreateTag, local
<1>5. CASE CreateDraft(r)
  <2>1. faults' \in 0 .. MaxFaults  BY <1>5, FaultType DEF CreateDraft
  <2>2. pc' \in [Runs -> Steps] /\ job' = job  BY <1>5 DEF CreateDraft
  <2>3. PICK i \in Ids :
          \/ payload' = [payload EXCEPT ![r] = [id |-> i, state |-> "draft",
                                                assets |-> NoFiles]]
          \/ payload' = payload
    BY <1>5 DEF CreateDraft
  <2>4. NoFiles \in Contents  BY DEF NoFiles, Contents
  <2>5. payload' \in [Runs -> [id : {0} \cup Ids, state : States, assets : Contents]]
    BY <2>3, <2>4 DEF States
  <2> QED  BY <1>5, <2>1, <2>2, <2>5 DEF CreateDraft
<1>6. CASE Observe(r)
  <2> DEFINE i == payload[r].id
  <2>1. \/ payload' = [payload EXCEPT ![r].state = release[i].state,
                                      ![r].assets = release[i].assets]
        \/ payload' = payload
    BY <1>6 DEF Observe
  <2>2. i \in Ids  BY <1>6 DEF Observe, At, Located, Existing
  <2>3. release[i] \in [state : States, assets : Contents]
    BY <2>2 DEF RemoteType
  <2>4. [payload[r] EXCEPT !.state = release[i].state, !.assets = release[i].assets]
          \in [id : {0} \cup Ids, state : States, assets : Contents]
    <3>1. payload[r] \in [id : {0} \cup Ids, state : States, assets : Contents]
      OBVIOUS
    <3>2. release[i].state \in States /\ release[i].assets \in Contents
      BY <2>3
    <3> HIDE DEF i
    <3> QED  BY <3>1, <3>2
  <2>5. \/ payload' = [payload EXCEPT ![r] =
               [payload[r] EXCEPT !.state = release[i].state, !.assets = release[i].assets]]
        \/ payload' = payload
    BY <2>1
  <2>6. payload' \in [Runs -> [id : {0} \cup Ids, state : States, assets : Contents]]
    BY <2>4, <2>5
  <2> QED  BY <1>6, <2>6 DEF Observe
<1>7. CASE Settle(r)
  <2>1. Schema(payload[r]) \in {2, 3} /\ payload[r].id \in {0} \cup Ids
    BY DEF Schema
  <2>2. NotFound \in [id : {0} \cup Ids, state : States, assets : Contents]
    BY DEF NotFound, States, Contents, NoFiles
  <2>3. snapshot' \in [Runs -> [id : {0} \cup Ids, schema : {0, 2, 3}]]
    <3>1. \/ snapshot' = snapshot
          \/ snapshot' = [snapshot EXCEPT ![r] = [id |-> payload[r].id,
                                                 schema |-> Schema(payload[r])]]
      BY <1>7 DEF Settle
    <3>2. [id |-> payload[r].id, schema |-> Schema(payload[r])]
            \in [id : {0} \cup Ids, schema : {0, 2, 3}]
      BY <2>1
    <3> QED  BY <3>1, <3>2
  <2>4. artifact' \in [Runs -> BOOLEAN]  BY <1>7 DEF Settle
  <2>5. job' \in [Runs -> Jobs] /\ pc' \in [Runs -> Steps]  BY <1>7 DEF Settle
  <2> QED  BY <1>7, <2>2, <2>3, <2>4, <2>5 DEF Settle
<1> QED  BY <1>2, <1>3, <1>4, <1>5, <1>6, <1>7 DEF Stage

LEMMA LaterType ==
    ASSUME TypeOK, NEW r \in Runs,
           VerifyArtifact(r) \/ PublishPyPI(r) \/ PublishAssets(r) \/ Finalize(r)
    PROVE  RunType'
<1>1. RunType  BY TypeParts
<1> USE <1>1 DEF RunType, Goto, GotoOrStop, Stop, Start, remote, local, Steps, Jobs
<1>2. CASE VerifyArtifact(r)  BY <1>2 DEF VerifyArtifact
<1>3. CASE Preflight(r)  BY <1>3 DEF Preflight
<1>4. CASE PutPackage(r)  BY <1>4 DEF PutPackage
<1>5. CASE VerifyPyPI(r)  BY <1>5 DEF VerifyPyPI
<1>6. CASE LiveAssets(r)
  <2>1. \/ job' = job /\ \E s \in {"check", "stopped"} : pc' = [pc EXCEPT ![r] = s]
        \/ job' = [job EXCEPT ![r] = "finalize"] /\ pc' = [pc EXCEPT ![r] = "begin"]
    BY <1>6 DEF LiveAssets
  <2>2. todo' \in [Runs -> SUBSET Files]  BY <1>6 DEF LiveAssets
  <2>3. job' \in [Runs -> Jobs] /\ pc' \in [Runs -> Steps]  BY <2>1
  <2> QED  BY <1>6, <2>2, <2>3 DEF LiveAssets
<1>7. CASE CheckAsset(r)
  <2>1. job' = job /\ \E s \in {"stopped", "check", "upload"} : pc' = [pc EXCEPT ![r] = s]
    BY <1>7 DEF CheckAsset
  <2>2. todo' \in [Runs -> SUBSET Files]  BY <1>7 DEF CheckAsset
  <2>3. pc' \in [Runs -> Steps]  BY <2>1
  <2> QED  BY <1>7, <2>1, <2>2, <2>3 DEF CheckAsset
<1>8. CASE UploadAsset(r)
  <2>1. job' = job /\ \E s \in {"recover", "check"} : pc' = [pc EXCEPT ![r] = s]
    BY <1>8 DEF UploadAsset
  <2>2. todo' \in [Runs -> SUBSET Files]  BY <1>8 DEF UploadAsset
  <2>3. pc' \in [Runs -> Steps]  BY <2>1
  <2>4. faults' \in 0 .. MaxFaults  BY <1>8, FaultType DEF UploadAsset
  <2> QED  BY <1>8, <2>1, <2>2, <2>3, <2>4 DEF UploadAsset
<1>9. CASE Recover(r)
  <2>1. job' = job /\ \E s \in {"stopped", "check"} : pc' = [pc EXCEPT ![r] = s]
    BY <1>9 DEF Recover
  <2>2. todo' \in [Runs -> SUBSET Files]  BY <1>9 DEF Recover
  <2>3. pc' \in [Runs -> Steps]  BY <2>1
  <2> QED  BY <1>9, <2>1, <2>2, <2>3 DEF Recover
<1>10. CASE FinishAssets(r)  BY <1>10 DEF FinishAssets
<1>11. CASE LiveFinalize(r)  BY <1>11 DEF LiveFinalize
<1>12. CASE RequirePyPI(r)  BY <1>12 DEF RequirePyPI
<1>13. CASE LookAtDraft(r)
  <2>1. job' = job /\ \E s \in {"done", "publish", "stopped"} : pc' = [pc EXCEPT ![r] = s]
    <3>1. CASE Finalized(r)
      BY <1>13, <3>1 DEF LookAtDraft, Finalized, IsPublic, IsStaged
    <3>2. CASE ~ Finalized(r)
      BY <1>13, <3>2 DEF LookAtDraft
    <3> QED  BY <3>1, <3>2
  <2>2. pc' \in [Runs -> Steps]  BY <2>1
  <2> QED  BY <1>13, <2>1, <2>2 DEF LookAtDraft
<1>14. CASE Publish(r)
  <2>1. job' = job /\ \E s \in {"confirm", "stopped"} : pc' = [pc EXCEPT ![r] = s]
    BY <1>14 DEF Publish
  <2>2. pc' \in [Runs -> Steps]  BY <2>1
  <2>3. faults' \in 0 .. MaxFaults  BY <1>14, FaultType DEF Publish
  <2> QED  BY <1>14, <2>1, <2>2, <2>3 DEF Publish
<1>15. CASE Confirm(r)  BY <1>15 DEF Confirm
<1> QED
  BY <1>2, <1>3, <1>4, <1>5, <1>6, <1>7, <1>8, <1>9, <1>10, <1>11, <1>12,
     <1>13, <1>14, <1>15 DEF PublishPyPI, PublishAssets, Finalize

LEMMA OperatorType ==
    ASSUME TypeOK, NEW r \in Runs, Die(r) \/ Expire(r) \/ RerunJob(r) \/ NewRun(r)
    PROVE  RunType'
<1>1. RunType  BY TypeParts
<1> USE <1>1 DEF RunType, Goto, Stop, Start, remote, local, Steps, Jobs, Tags
<1>2. CASE Die(r)  BY <1>2, FaultType DEF Die
<1>3. CASE Expire(r)  BY <1>3, FaultType DEF Expire
<1>4. CASE RerunJob(r)  BY <1>4 DEF RerunJob
<1>5. CASE NewRun(r)
  <2>1. NotFound \in [id : {0} \cup Ids, state : States, assets : Contents]
    BY DEF NotFound, States, Contents, NoFiles
  <2>2. NoSnapshot \in [id : {0} \cup Ids, schema : {0, 2, 3}]
    BY DEF NoSnapshot
  <2>3. build' \in [Runs -> Builds]  BY <1>5 DEF NewRun
  <2> QED  BY <1>5, <2>1, <2>2, <2>3 DEF NewRun
<1> QED  BY <1>2, <1>3, <1>4, <1>5

-----------------------------------------------------------------------------
(* The two services.                                                       *)

\* What one step may do to them.
RemoteStep(r) ==
    \/ UNCHANGED <<release, pypi>>
    \/ /\ job[r] = "stage"
       /\ \E i \in Ids \ Existing : release' = [release EXCEPT ![i].state = "draft"]
       /\ UNCHANGED pypi
    \/ /\ job[r] = "pypi"
       /\ \E f \in Files : /\ pypi[f] = Absent
                           /\ pypi' = [pypi EXCEPT ![f] = build[r][f]]
       /\ UNCHANGED release
    \/ /\ job[r] = "assets"
       /\ \E f, d : /\ release[snapshot[r].id].assets[f] = Absent
                    /\ d = Starter \/ d = build[r][f]
                    /\ release' = [release EXCEPT ![snapshot[r].id].assets[f] = d]
       /\ UNCHANGED pypi
    \/ /\ job[r] = "finalize" /\ pc[r] = "publish"
       /\ \A j \in Ids \ {snapshot[r].id} : release[j].state # "public"
       /\ release' = [release EXCEPT ![snapshot[r].id].state = "public"]
       /\ UNCHANGED pypi

LEMMA RemoteEffect ==
    ASSUME TypeOK, NEW r \in Runs, Moves(r)
    PROVE  RemoteStep(r) /\ tag' \in Tags
<1> USE DEF TypeOK, RemoteStep, At, remote, Tags
<1>1. CASE Stage(r)
  <2>1. CASE ReadRef(r)  BY <2>1 DEF ReadRef
  <2>2. CASE ListReleases(r)  BY <2>2 DEF ListReleases
  <2>3. CASE CreateTag(r)  BY <2>3 DEF CreateTag
  <2>4. CASE CreateDraft(r)  BY <2>4 DEF CreateDraft
  <2>5. CASE Observe(r)  BY <2>5 DEF Observe
  <2>6. CASE Settle(r)  BY <2>6 DEF Settle
  <2> QED  BY <1>1, <2>1, <2>2, <2>3, <2>4, <2>5, <2>6 DEF Stage
<1>2. CASE VerifyArtifact(r)  BY <1>2 DEF VerifyArtifact
<1>3. CASE PublishPyPI(r)
  <2>1. CASE Preflight(r)  BY <2>1 DEF Preflight
  <2>2. CASE PutPackage(r)  BY <2>2 DEF PutPackage
  <2>3. CASE VerifyPyPI(r)  BY <2>3 DEF VerifyPyPI
  <2> QED  BY <1>3, <2>1, <2>2, <2>3 DEF PublishPyPI
<1>4. CASE PublishAssets(r)
  <2>1. CASE LiveAssets(r)  BY <2>1 DEF LiveAssets
  <2>2. CASE CheckAsset(r)  BY <2>2 DEF CheckAsset
  <2>3. CASE UploadAsset(r)  BY <2>3 DEF UploadAsset
  <2>4. CASE Recover(r)  BY <2>4 DEF Recover
  <2>5. CASE FinishAssets(r)  BY <2>5 DEF FinishAssets
  <2> QED  BY <1>4, <2>1, <2>2, <2>3, <2>4, <2>5 DEF PublishAssets
<1>5. CASE Finalize(r)
  <2>1. CASE LiveFinalize(r)  BY <2>1 DEF LiveFinalize
  <2>2. CASE RequirePyPI(r)  BY <2>2 DEF RequirePyPI
  <2>3. CASE LookAtDraft(r)  BY <2>3 DEF LookAtDraft
  <2>4. CASE Publish(r)  BY <2>4 DEF Publish
  <2>5. CASE Confirm(r)  BY <2>5 DEF Confirm
  <2> QED  BY <1>5, <2>1, <2>2, <2>3, <2>4, <2>5 DEF Finalize
<1>6. CASE Die(r) \/ Expire(r) \/ RerunJob(r) \/ NewRun(r)
  BY <1>6 DEF Die, Expire, RerunJob, NewRun
<1> QED  BY <1>1, <1>2, <1>3, <1>4, <1>5, <1>6 DEF Moves, Step

\* A step keeps the types of the two services and takes nothing back.
LEMMA RemoteKept ==
    ASSUME TypeOK, NEW r \in Runs, Located(r), RemoteStep(r), tag' \in Tags
    PROVE  RemoteType' /\ Monotonic
<1> USE DEF TypeOK, RemoteType, Monotonic
<1>1. CASE UNCHANGED <<release, pypi>>  BY <1>1
<1>2. ASSUME UNCHANGED pypi, NEW i \in Ids \ Existing,
             release' = [release EXCEPT ![i].state = "draft"]
      PROVE  RemoteType' /\ Monotonic
  <2>1. release' \in [Ids -> [state : States, assets : Contents]]
    BY <1>2 DEF States
  <2>2. release[i].state = "none"  BY <1>2 DEF Existing
  <2>3. \A j \in Ids : /\ release'[j].assets = release[j].assets
                       /\ j # i => release'[j] = release[j]
    BY <1>2
  <2> QED  BY <1>2, <2>1, <2>2, <2>3
<1>3. ASSUME UNCHANGED release, NEW f \in Files, pypi[f] = Absent,
             pypi' = [pypi EXCEPT ![f] = build[r][f]]
      PROVE  RemoteType' /\ Monotonic
  <2>1. build[r][f] \in Digests  BY Built
  <2>2. pypi' \in [Files -> Digests \cup {Absent}]  BY <1>3, <2>1
  <2> QED  BY <1>3, <2>2
<1>4. ASSUME UNCHANGED pypi, NEW f, NEW d, snapshot[r].id \in Ids,
             release[snapshot[r].id].assets[f] = Absent,
             d = Starter \/ d = build[r][f],
             release' = [release EXCEPT ![snapshot[r].id].assets[f] = d]
      PROVE  RemoteType' /\ Monotonic
  <2> DEFINE s == snapshot[r].id
  <2>1. s \in Ids /\ release[s] \in [state : States, assets : Contents]
    BY <1>4
  <2>2. release[s].assets \in [Files -> Digests \cup {Absent, Starter}]
    BY <2>1 DEF Contents
  <2> HIDE DEF s
  <2>3. [release[s].assets EXCEPT ![f] = d] \in Contents
    <3>1. f \in Files => d \in Digests \cup {Starter}
      BY <1>4, Built
    <3> QED  BY <2>2, <3>1 DEF Contents
  <2>4. release' = [release EXCEPT ![s] =
                      [release[s] EXCEPT !.assets = [release[s].assets EXCEPT ![f] = d]]]
    BY <1>4 DEF s
  <2>5. [release[s] EXCEPT !.assets = [release[s].assets EXCEPT ![f] = d]]
          \in [state : States, assets : Contents]
    BY <2>1, <2>3
  <2>6. release' \in [Ids -> [state : States, assets : Contents]]
    BY <2>4, <2>5
  <2>7. \A i \in Ids : release'[i].state = release[i].state
    BY <2>1, <2>4
  <2>8. \A i \in Ids, g \in Files :
           release[i].assets[g] # Absent => release'[i].assets[g] = release[i].assets[g]
    <3>1. \A g \in Files : release[s].assets[g] # Absent =>
             [release[s].assets EXCEPT ![f] = d][g] = release[s].assets[g]
      BY <1>4, <2>2 DEF s
    <3> QED  BY <2>1, <2>4, <3>1
  <2> QED  BY <1>4, <2>6, <2>7, <2>8
<1>5. ASSUME UNCHANGED pypi,
             release' = [release EXCEPT ![snapshot[r].id].state = "public"]
      PROVE  RemoteType' /\ Monotonic
  <2>1. release' \in [Ids -> [state : States, assets : Contents]]
    BY <1>5 DEF States
  <2>2. \A j \in Ids : /\ release'[j].assets = release[j].assets
                       /\ release'[j].state \in {release[j].state, "public"}
    BY <1>5
  <2> QED  BY <1>5, <2>1, <2>2
<1>6. job[r] = "assets" => snapshot[r].id \in Ids  BY DEF Located, Existing
<1> QED  BY <1>1, <1>2, <1>3, <1>4, <1>5, <1>6 DEF RemoteStep

\* A build that is complete on a service stays as it is.
LEMMA CompleteStays ==
    ASSUME RemoteType, RemoteType', Monotonic
    PROVE  /\ Existing \subseteq Existing'
           /\ \A b \in Builds : pypi = b => pypi' = b
           /\ \A b \in Builds, i \in Ids :
                 release[i].assets = b => release'[i].assets = b
<1> USE DEF RemoteType, Monotonic
<1>1. Existing \subseteq Existing'  BY DEF Existing
<1>2. ASSUME NEW b \in Builds PROVE b \in [Files -> Digests] /\ \A f \in Files : b[f] # Absent
  BY <1>2, ReleaseAssumption
<1>3. ASSUME NEW b \in Builds, pypi = b PROVE pypi' = b
  BY <1>2, <1>3
<1>4. ASSUME NEW b \in Builds, NEW i \in Ids, release[i].assets = b
      PROVE  release'[i].assets = b
  <2>1. release'[i].assets \in [Files -> Digests \cup {Absent, Starter}]
    BY DEF Contents
  <2>2. \A f \in Files : release'[i].assets[f] = b[f]  BY <1>2, <1>4
  <2> QED  BY <1>2, <2>1, <2>2
<1> QED  BY <1>1, <1>3, <1>4

\* What a step of one run leaves alone: everything that belongs to the others.
LEMMA Frame ==
    ASSUME TypeOK, NEW r \in Runs, Moves(r), NEW t \in Runs \ {r}
    PROVE  /\ job'[t] = job[t] /\ pc'[t] = pc[t] /\ build'[t] = build[t]
           /\ payload'[t] = payload[t] /\ snapshot'[t] = snapshot[t]
<1> USE DEF TypeOK, Goto, GotoOrStop, Stop, Start, remote, local
<1>1. CASE Stage(r)
  <2>1. CASE ReadRef(r)  BY <2>1 DEF ReadRef
  <2>2. CASE ListReleases(r)  BY <2>2 DEF ListReleases
  <2>3. CASE CreateTag(r)  BY <2>3 DEF CreateTag
  <2>4. CASE CreateDraft(r)  BY <2>4 DEF CreateDraft
  <2>5. CASE Observe(r)  BY <2>5 DEF Observe
  <2>6. CASE Settle(r)  BY <2>6 DEF Settle
  <2> QED  BY <1>1, <2>1, <2>2, <2>3, <2>4, <2>5, <2>6 DEF Stage
<1>2. CASE VerifyArtifact(r)  BY <1>2 DEF VerifyArtifact
<1>3. CASE PublishPyPI(r)
  <2>1. CASE Preflight(r)  BY <2>1 DEF Preflight
  <2>2. CASE PutPackage(r)  BY <2>2 DEF PutPackage
  <2>3. CASE VerifyPyPI(r)  BY <2>3 DEF VerifyPyPI
  <2> QED  BY <1>3, <2>1, <2>2, <2>3 DEF PublishPyPI
<1>4. CASE PublishAssets(r)
  <2>1. CASE LiveAssets(r)  BY <2>1 DEF LiveAssets
  <2>2. CASE CheckAsset(r)  BY <2>2 DEF CheckAsset
  <2>3. CASE UploadAsset(r)  BY <2>3 DEF UploadAsset
  <2>4. CASE Recover(r)  BY <2>4 DEF Recover
  <2>5. CASE FinishAssets(r)  BY <2>5 DEF FinishAssets
  <2> QED  BY <1>4, <2>1, <2>2, <2>3, <2>4, <2>5 DEF PublishAssets
<1>5. CASE Finalize(r)
  <2>1. CASE LiveFinalize(r)  BY <2>1 DEF LiveFinalize
  <2>2. CASE RequirePyPI(r)  BY <2>2 DEF RequirePyPI
  <2>3. CASE LookAtDraft(r)  BY <2>3 DEF LookAtDraft
  <2>4. CASE Publish(r)  BY <2>4 DEF Publish
  <2>5. CASE Confirm(r)  BY <2>5 DEF Confirm
  <2> QED  BY <1>5, <2>1, <2>2, <2>3, <2>4, <2>5 DEF Finalize
<1>6. CASE Die(r) \/ Expire(r) \/ RerunJob(r) \/ NewRun(r)
  BY <1>6 DEF Die, Expire, RerunJob, NewRun
<1> QED  BY <1>1, <1>2, <1>3, <1>4, <1>5, <1>6 DEF Moves, Step

\* The facts about the other runs survive, because nothing is taken back.
LEMMA OthersLocated ==
    ASSUME TypeOK, RemoteType', Monotonic,
           NEW r \in Runs, Moves(r), NEW t \in Runs \ {r}, Located(t)
    PROVE  Located(t)'
<1>1. /\ job'[t] = job[t] /\ pc'[t] = pc[t] /\ build'[t] = build[t]
      /\ payload'[t] = payload[t] /\ snapshot'[t] = snapshot[t]
  BY Frame
<1>2. build[t] \in Builds  BY DEF TypeOK
<1>3. /\ Existing \subseteq Existing'
      /\ \A b \in Builds : pypi = b => pypi' = b
      /\ \A b \in Builds, i \in Ids : release[i].assets = b => release'[i].assets = b
  BY CompleteStays, TypeParts
<1>4. Existing \subseteq Ids  BY DEF Existing
<1> QED  BY <1>1, <1>2, <1>3, <1>4 DEF Located, Monotonic, Staged

\* And those about the run that moves.
LEMMA StageLocated ==
    ASSUME TypeOK, RemoteType', Monotonic, NEW r \in Runs, Located(r), Stage(r)
    PROVE  Located(r)'
<1>1. Existing \subseteq Existing'
  BY CompleteStays, TypeParts
<1> USE <1>1 DEF TypeOK, Goto, Stop, Start, At, Located, StageSteps
<1>2. CASE ReadRef(r)  BY <1>2 DEF ReadRef
<1>3. CASE ListReleases(r)
  <2>1. job' = job /\ job[r] = "stage"  BY <1>3 DEF ListReleases
  <2>2. PICK listed \in SUBSET Existing :
          /\ payload' = [payload EXCEPT ![r] = Found(listed)]
          /\ Goto(r,
               CASE ref[r] = "none" /\ Found(listed).id # 0 -> "stopped"
                 [] ref[r] = "none" /\ Found(listed).id = 0 -> "create_tag"
                 [] ref[r] = "elsewhere" -> "stopped"
                 [] ref[r] = "source" /\ Found(listed).id = 0 -> "create_draft"
                 [] OTHER -> "settle")
    BY <1>3 DEF ListReleases
  <2> DEFINE found == Found(listed)
  <2>3. found.id # 0 => found.id \in Existing  BY FoundIsListed
  <2> HIDE DEF found
  <2>4. /\ pc'[r] \in {"stopped", "create_tag", "create_draft", "settle"}
        /\ pc'[r] = "settle" => found.id # 0
    <3>1. ref[r] \in {"none", "source", "elsewhere"}  BY DEF Tags
    <3> QED  BY <2>2, <3>1 DEF found
  <2>5. payload'[r] = found  BY <2>2 DEF found
  <2> QED  BY <2>1, <2>3, <2>4, <2>5
<1>4. CASE CreateTag(r)  BY <1>4 DEF CreateTag
<1>5. CASE CreateDraft(r)
  <2>1. PICK i \in Ids \ Existing :
          /\ release' = [release EXCEPT ![i].state = "draft"]
          /\ \/ payload' = [payload EXCEPT ![r] = [id |-> i, state |-> "draft",
                                                   assets |-> NoFiles]]
             \/ Stop(r)
    BY <1>5 DEF CreateDraft
  <2>2. i \in Existing'  BY <2>1 DEF Existing
  <2>3. job' = job /\ pc'[r] \in {"observe", "stopped"}  BY <1>5 DEF CreateDraft
  <2> QED  BY <1>5, <2>1, <2>2, <2>3 DEF CreateDraft
<1>6. CASE Observe(r)
  <2>1. payload'[r].id = payload[r].id  BY <1>6 DEF Observe
  <2> QED  BY <1>6, <2>1 DEF Observe
<1>7. CASE Settle(r)
  <2>1. \/ job' = job /\ pc'[r] = "stopped"
        \/ /\ job'[r] = "pypi" /\ pc'[r] = "begin"
           /\ snapshot'[r].id = payload[r].id
    BY <1>7 DEF Settle
  <2>2. job[r] = "stage" /\ payload[r].id \in Existing  BY <1>7 DEF Settle
  <2> QED  BY <2>1, <2>2
<1> QED  BY <1>2, <1>3, <1>4, <1>5, <1>6, <1>7 DEF Stage

LEMMA Packaged == ASSUME NEW r \in Runs, OnPyPI(r)
                  PROVE  pypi = build[r]
BY DEF OnPyPI, PyPIState

LEMMA LaterLocated ==
    ASSUME TypeOK, RemoteType', Monotonic, NEW r \in Runs, Located(r),
           VerifyArtifact(r) \/ PublishPyPI(r) \/ PublishAssets(r) \/ Finalize(r)
    PROVE  Located(r)'
<1> DEFINE Later(step) == /\ job[r] # "stage" /\ UNCHANGED <<job, build, snapshot>>
                          /\ pc'[r] = step
<1>1. /\ build[r] \in Builds
      /\ \A b \in Builds : pypi = b => pypi' = b
      /\ \A b \in Builds, i \in Ids : release[i].assets = b => release'[i].assets = b
      /\ Existing \subseteq Existing' /\ Existing \subseteq Ids
  BY CompleteStays, TypeParts DEF TypeOK, Existing
<1>2. ASSUME NEW step, Later(step), step \notin {"publish", "done"}
      PROVE  Located(r)'
  BY <1>1, <1>2 DEF Located
<1>3. ASSUME Later("publish"), Staged(r).assets = build[r], UNCHANGED release
      PROVE  Located(r)'
  BY <1>1, <1>3 DEF Located, Staged
<1>4. ASSUME Later("done"), job[r] = "finalize", Finalized(r), UNCHANGED release
      PROVE  Located(r)'
  BY <1>1, <1>4 DEF Located, Staged, Finalized, IsPublic, Exact
<1>5. ASSUME NEW j \in {"assets", "finalize"}, job[r] # "stage", pypi = build[r],
             UNCHANGED <<build, snapshot>>, Start(r, j)
      PROVE  Located(r)'
  <2>1. job'[r] = j /\ pc'[r] = "begin"  BY <1>5 DEF Start, TypeOK
  <2> QED  BY <1>1, <1>5, <2>1 DEF Located
<1> USE DEF TypeOK, Goto, GotoOrStop, Stop, At, remote, local
<1>6. CASE VerifyArtifact(r)
  <2>1. \E s \in {"stopped", "preflight", "live"} : Later(s)
    BY <1>6 DEF VerifyArtifact
  <2> QED  BY <1>2, <2>1
<1>7. CASE Preflight(r)
  <2>1. \E s \in {"stopped", "put"} : Later(s)
    BY <1>7 DEF Preflight
  <2> QED  BY <1>2, <2>1
<1>8. CASE PutPackage(r)
  <2>1. Later("put")  BY <1>8 DEF PutPackage
  <2> QED  BY <1>2, <2>1
<1>9. CASE VerifyPyPI(r)
  <2>1. CASE OnPyPI(r) /\ Start(r, "assets")
    BY <1>5, <1>9, <2>1, Packaged DEF VerifyPyPI
  <2>2. CASE Stop(r)
    <3>1. Later("stopped")  BY <1>9, <2>2 DEF VerifyPyPI
    <3> QED  BY <1>2, <3>1
  <2> QED  BY <1>9, <2>1, <2>2 DEF VerifyPyPI
<1>10. CASE LiveAssets(r)
  <2>1. CASE Start(r, "finalize")
    BY <1>5, <1>10, <2>1 DEF LiveAssets, Located
  <2>2. CASE ~ Start(r, "finalize")
    <3>1. \E s \in {"stopped", "check"} : Later(s)
      BY <1>10, <2>2 DEF LiveAssets
    <3> QED  BY <1>2, <3>1
  <2> QED  BY <2>1, <2>2
<1>11. CASE CheckAsset(r)
  <2>1. \E s \in {"stopped", "check", "upload"} : Later(s)
    BY <1>11 DEF CheckAsset
  <2> QED  BY <1>2, <2>1
<1>12. CASE UploadAsset(r)
  <2>1. \E s \in {"recover", "check"} : Later(s)
    BY <1>12 DEF UploadAsset
  <2> QED  BY <1>2, <2>1
<1>13. CASE Recover(r)
  <2>1. \E s \in {"stopped", "check"} : Later(s)
    BY <1>13 DEF Recover
  <2> QED  BY <1>2, <2>1
<1>14. CASE FinishAssets(r)
  <2>1. CASE Start(r, "finalize")
    BY <1>5, <1>14, <2>1 DEF FinishAssets, Located
  <2>2. CASE Stop(r)
    <3>1. Later("stopped")  BY <1>14, <2>2 DEF FinishAssets
    <3> QED  BY <1>2, <3>1
  <2> QED  BY <1>14, <2>1, <2>2 DEF FinishAssets
<1>15. CASE LiveFinalize(r)
  <2>1. \/ \E s \in {"stopped", "require_pypi"} : Later(s)
        \/ Later("done") /\ Finalized(r)
    BY <1>15 DEF LiveFinalize
  <2> QED  BY <1>2, <1>4, <1>15, <2>1 DEF LiveFinalize
<1>16. CASE RequirePyPI(r)
  <2>1. \E s \in {"stopped", "look"} : Later(s)
    BY <1>16 DEF RequirePyPI
  <2> QED  BY <1>2, <2>1
<1>17. CASE LookAtDraft(r)
  <2>1. \/ Later("stopped")
        \/ Later("publish") /\ Staged(r).assets = build[r]
        \/ Later("done") /\ Finalized(r)
    <3>1. CASE Finalized(r)
      <4>1. ~ IsStaged(Staged(r))
        BY <3>1 DEF Finalized, IsPublic, IsStaged
      <4> QED  BY <1>17, <3>1, <4>1 DEF LookAtDraft
    <3>2. CASE ~ Finalized(r)
      BY <1>17, <3>2 DEF LookAtDraft, Exact
    <3> QED  BY <3>1, <3>2
  <2> QED  BY <1>2, <1>3, <1>4, <1>17, <2>1 DEF LookAtDraft
<1>18. CASE Publish(r)
  <2>1. \E s \in {"stopped", "confirm"} : Later(s)
    BY <1>18 DEF Publish
  <2> QED  BY <1>2, <2>1
<1>19. CASE Confirm(r)
  <2>1. \/ Later("stopped")
        \/ Later("done") /\ Finalized(r)
    BY <1>19 DEF Confirm
  <2> QED  BY <1>2, <1>4, <1>19, <2>1 DEF Confirm
<1> QED
  BY <1>6, <1>7, <1>8, <1>9, <1>10, <1>11, <1>12, <1>13, <1>14, <1>15, <1>16,
     <1>17, <1>18, <1>19 DEF PublishPyPI, PublishAssets, Finalize

LEMMA OperatorLocated ==
    ASSUME TypeOK, RemoteType', Monotonic, NEW r \in Runs, Located(r),
           Die(r) \/ Expire(r) \/ RerunJob(r) \/ NewRun(r)
    PROVE  Located(r)'
<1> USE DEF TypeOK, Goto, Stop, Start, remote, local
<1>1. CASE Die(r)
  <2>1. pc'[r] = "stopped" /\ UNCHANGED <<release, pypi, job, build, payload, snapshot>>
    BY <1>1 DEF Die
  <2> QED  BY <2>1 DEF Located, StageSteps, Existing
<1>2. CASE Expire(r)
  <2>1. UNCHANGED <<release, pypi, job, pc, build, payload, snapshot>>
    BY <1>2 DEF Expire
  <2> QED  BY <2>1 DEF Located, Existing, Staged
<1>3. CASE RerunJob(r)
  <2>1. /\ pc'[r] = "begin" /\ job'[r] = job[r] /\ job[r] # "stage"
        /\ UNCHANGED <<release, pypi, build, payload, snapshot>>
    BY <1>3 DEF RerunJob
  <2> QED  BY <2>1 DEF Located, Existing
<1>4. CASE NewRun(r)
  <2>1. job'[r] = "stage" /\ pc'[r] = "begin"  BY <1>4 DEF NewRun
  <2> QED  BY <2>1 DEF Located, StageSteps
<1> QED  BY <1>1, <1>2, <1>3, <1>4

-----------------------------------------------------------------------------
(* What the releases hold.                                                 *)

LEMMA ServicesKept ==
    ASSUME TypeOK, RemoteType', Monotonic, NEW r \in Runs, Located(r), RemoteStep(r),
           AssetsFollowPackages, PublicIsPackaged
    PROVE  AssetsFollowPackages' /\ PublicIsPackaged'
<1>1. /\ build[r] \in Builds
      /\ \A b \in Builds : pypi = b => pypi' = b
      /\ \A b \in Builds, i \in Ids : release[i].assets = b => release'[i].assets = b
      /\ Existing \subseteq Existing' /\ Existing \subseteq Ids
  BY CompleteStays, TypeParts DEF TypeOK, Existing
\* A release that was public stays the complete build it was.
<1>2. ASSUME NEW i \in Ids, release[i].state = "public"
      PROVE  release'[i].assets = pypi' /\ pypi' \in Builds
  BY <1>1, <1>2 DEF PublicIsPackaged
<1> DEFINE Private(i) == release'[i].state # "public" \/ release[i].state = "public"
<1>3. (\A i \in Ids : Private(i)) => PublicIsPackaged'
  BY <1>2 DEF PublicIsPackaged
<1> USE DEF TypeOK, AssetsFollowPackages
<1>4. CASE UNCHANGED <<release, pypi>>
  BY <1>3, <1>4
<1>5. ASSUME UNCHANGED pypi, NEW i \in Ids \ Existing,
             release' = [release EXCEPT ![i].state = "draft"]
      PROVE  AssetsFollowPackages' /\ PublicIsPackaged'
  <2>1. \A j \in Ids : /\ release'[j].assets = release[j].assets
                       /\ release'[j].state \in {release[j].state, "draft"}
    BY <1>5
  <2> QED  BY <1>3, <1>5, <2>1
<1>6. ASSUME UNCHANGED release, NEW f \in Files, pypi[f] = Absent,
             pypi' = [pypi EXCEPT ![f] = build[r][f]]
      PROVE  AssetsFollowPackages' /\ PublicIsPackaged'
  <2>1. \A g \in Files : pypi'[g] = pypi[g] \/ pypi[g] = Absent
    BY <1>6
  <2> QED  BY <1>3, <1>6, <2>1
<1>7. ASSUME UNCHANGED pypi, NEW f, NEW d, snapshot[r].id \in Ids, pypi = build[r],
             d = Starter \/ d = build[r][f],
             release' = [release EXCEPT ![snapshot[r].id].assets[f] = d]
      PROVE  AssetsFollowPackages' /\ PublicIsPackaged'
  <2> DEFINE s == snapshot[r].id
  <2>1. s \in Ids /\ release[s] \in [state : States, assets : Contents]
    BY <1>7
  <2>2. release[s].assets \in [Files -> Digests \cup {Absent, Starter}]
    BY <2>1 DEF Contents
  <2> HIDE DEF s
  <2>3. release' = [release EXCEPT ![s] =
                      [release[s] EXCEPT !.assets = [release[s].assets EXCEPT ![f] = d]]]
    BY <1>7 DEF s
  <2>4. \A i \in Ids : release'[i].state = release[i].state
    BY <2>1, <2>3
  <2>5. \A g \in Files : [release[s].assets EXCEPT ![f] = d][g]
                           \in {Absent, Starter, pypi[g]}
    BY <1>7, <2>1, <2>2
  <2>6. AssetsFollowPackages'  BY <1>7, <2>1, <2>3, <2>5
  <2> QED  BY <1>3, <2>4, <2>6
<1>8. ASSUME UNCHANGED pypi, job[r] = "finalize", pc[r] = "publish",
             release' = [release EXCEPT ![snapshot[r].id].state = "public"]
      PROVE  AssetsFollowPackages' /\ PublicIsPackaged'
  <2> DEFINE s == snapshot[r].id
  <2>1. s \in Ids /\ release[s].assets = build[r] /\ pypi = build[r]
    BY <1>1, <1>8 DEF Located, Staged
  <2>2. \A j \in Ids : /\ release'[j].assets = release[j].assets
                       /\ j # s => release'[j].state = release[j].state
    BY <1>8
  <2>3. AssetsFollowPackages'  BY <1>8, <2>2
  <2>4. PublicIsPackaged'  BY <1>1, <1>2, <1>8, <2>1, <2>2 DEF PublicIsPackaged
  <2> QED  BY <2>3, <2>4
<1>9. job[r] = "assets" => snapshot[r].id \in Ids /\ pypi = build[r]
  BY <1>1 DEF Located
<1> QED  BY <1>4, <1>5, <1>6, <1>7, <1>8, <1>9 DEF RemoteStep

-----------------------------------------------------------------------------
(* The inductive invariant, and what follows from it.                      *)

Inv ==
    /\ TypeOK
    /\ \A r \in Runs : Located(r)
    /\ AssetsFollowPackages /\ PublicIsPackaged

LEMMA InvInit == Init => Inv
<1> SUFFICES ASSUME Init PROVE Inv
  OBVIOUS
<1> USE DEF Init
<1>1. NoFiles \in Contents /\ NoFiles \in [Files -> Digests \cup {Absent}]
  BY DEF NoFiles, Contents
<1>2. RemoteType
  BY <1>1, ReleaseAssumption DEF RemoteType, States
<1>3. RunType
  <2>1. NotFound \in [id : {0} \cup Ids, state : States, assets : Contents]
    BY <1>1 DEF NotFound, States
  <2>2. NoSnapshot \in [id : {0} \cup Ids, schema : {0, 2, 3}]
    BY DEF NoSnapshot
  <2> QED  BY <2>1, <2>2, ReleaseAssumption DEF RunType, Jobs, Steps, Tags
<1>4. \A r \in Runs : Located(r)  BY DEF Located, StageSteps
<1>5. \A i \in Ids : release[i].state = "none" /\ release[i].assets = NoFiles
  OBVIOUS
<1>6. AssetsFollowPackages  BY <1>5 DEF AssetsFollowPackages, NoFiles
<1>7. PublicIsPackaged  BY <1>5 DEF PublicIsPackaged
<1> QED  BY <1>2, <1>3, <1>4, <1>6, <1>7, TypeParts DEF Inv

LEMMA TypeStep ==
    ASSUME TypeOK, NEW r \in Runs, Located(r), Moves(r)
    PROVE  TypeOK' /\ Monotonic
<1>1. RunType'
  BY StageType, LaterType, OperatorType DEF Moves, Step
<1>2. RemoteType' /\ Monotonic
  BY RemoteEffect, RemoteKept
<1> QED  BY <1>1, <1>2 DEF TypeOK, RemoteType, RunType

LEMMA InvStep == Inv /\ [Next]_vars => Inv'
<1> SUFFICES ASSUME Inv, [Next]_vars PROVE Inv'
  OBVIOUS
<1>1. CASE UNCHANGED vars
  BY <1>1 DEF vars, remote, local, Inv, TypeOK, Located, Existing, Staged,
              AssetsFollowPackages, PublicIsPackaged
<1>2. ASSUME NEW r \in Runs, Moves(r) PROVE Inv'
  <2>1. TypeOK' /\ Monotonic  BY <1>2, TypeStep DEF Inv
  <2>2. RemoteType'  BY <2>1 DEF TypeOK, RemoteType
  <2>3. Located(r)'
    BY <1>2, <2>1, <2>2, StageLocated, LaterLocated, OperatorLocated DEF Inv, Moves, Step
  <2>4. \A t \in Runs \ {r} : Located(t)'
    BY <1>2, <2>1, <2>2, OthersLocated DEF Inv
  <2>5. AssetsFollowPackages' /\ PublicIsPackaged'
    BY <1>2, <2>1, <2>2, RemoteEffect, ServicesKept DEF Inv
  <2> QED  BY <2>1, <2>3, <2>4, <2>5 DEF Inv
<1> QED  BY <1>1, <1>2 DEF Next, Moves

LEMMA Invariant == Spec => []Inv
<1>1. Init => Inv  BY InvInit
<1>2. Inv /\ [Next]_vars => Inv'  BY InvStep
<1> QED  BY <1>1, <1>2, PTL DEF Spec

\* Every variable keeps its type.
THEOREM TypeCorrect == Spec => []TypeOK
<1>1. Inv => TypeOK  BY DEF Inv
<1> QED  BY <1>1, Invariant, PTL

\* No draft gets a file other than the one PyPI has under that name.
THEOREM AssetsFollow == Spec => []AssetsFollowPackages
<1>1. Inv => AssetsFollowPackages  BY DEF Inv
<1> QED  BY <1>1, Invariant, PTL

\* A public release holds exactly the files PyPI has, all from one build,
\* whatever runs overlapped and wherever they died.
THEOREM PublicIsComplete == Spec => []PublicIsPackaged
<1>1. Inv => PublicIsPackaged  BY DEF Inv
<1> QED  BY <1>1, Invariant, PTL

\* A run that ends green left its release public, with its build on both
\* services, and no other run undoes that.
THEOREM GreenIsPublished == Spec => []GreenMeansPublished
<1>1. Inv => GreenMeansPublished  BY DEF Inv, Located, GreenMeansPublished
<1> QED  BY <1>1, Invariant, PTL

-----------------------------------------------------------------------------
(* One version is published once.                                          *)

\* All public releases of the version being alike, any of them is announced.
LEMMA AnyPublic ==
    ASSUME NEW rel, NEW p,
           \A i \in Ids : rel[i].state = "public" => rel[i].assets = p
    PROVE  (IF \E i \in Ids : rel[i].state = "public"
            THEN rel[CHOOSE i \in Ids : rel[i].state = "public"].assets ELSE NoFiles)
           = IF \E i \in Ids : rel[i].state = "public" THEN p ELSE NoFiles
OBVIOUS

LEMMA Announced ==
    ASSUME PublicIsPackaged, PublicIsPackaged'
    PROVE  /\ Announcement(NoFiles) =
                 IF \E i \in Ids : release[i].state = "public" THEN pypi ELSE NoFiles
           /\ Announcement(NoFiles)' =
                 IF \E i \in Ids : release'[i].state = "public" THEN pypi' ELSE NoFiles
<1>1. \A i \in Ids : release[i].state = "public" => release[i].assets = pypi
  BY DEF PublicIsPackaged
<1>2. \A i \in Ids : release'[i].state = "public" => release'[i].assets = pypi'
  BY DEF PublicIsPackaged
<1>3. NoFiles' = NoFiles  BY DEF NoFiles
<1>4. Announcement(NoFiles) =
        IF \E i \in Ids : release[i].state = "public" THEN pypi ELSE NoFiles
  BY <1>1, AnyPublic DEF Announcement
<1>5. Announcement(NoFiles)' =
        IF \E i \in Ids : release'[i].state = "public" THEN pypi' ELSE NoFiles
  BY <1>2, <1>3, AnyPublic DEF Announcement
<1> QED  BY <1>4, <1>5

LEMMA PublicationInit == Init => Promise!Init
<1> SUFFICES ASSUME Init PROVE Promise!Init
  OBVIOUS
<1>1. \A i \in Ids : release[i].state # "public"  BY DEF Init
<1>2. Announcement(NoFiles) = NoFiles  BY <1>1 DEF Announcement
<1> QED  BY <1>2 DEF Init, NoFiles, Promise!Init, Promise!Nothing

LEMMA PublicationStep ==
    Inv /\ Inv' /\ [Next]_vars => [Promise!Next]_<<pypi, Announcement(NoFiles)>>
<1> SUFFICES ASSUME Inv, Inv', [Next]_vars
             PROVE  [Promise!Next]_<<pypi, Announcement(NoFiles)>>
  OBVIOUS
<1> DEFINE announced == Announcement(NoFiles)
           public == \E i \in Ids : release[i].state = "public"
<1>1. /\ announced = IF public THEN pypi ELSE NoFiles
      /\ announced' = IF public' THEN pypi' ELSE NoFiles
  BY Announced DEF Inv
<1> HIDE DEF announced
<1>2. ASSUME UNCHANGED vars
      PROVE  [Promise!Next]_<<pypi, announced>>
  BY <1>1, <1>2 DEF vars, remote
<1>3. ASSUME NEW r \in Runs, Moves(r)
      PROVE  [Promise!Next]_<<pypi, announced>>
  <2>1. RemoteStep(r) /\ Monotonic /\ RemoteType /\ RemoteType'
    BY <1>3, RemoteEffect, TypeStep, TypeParts DEF Inv, TypeOK, RemoteType
  <2>2. CASE public
    <3>1. public'  BY <2>1, <2>2 DEF Monotonic
    <3>2. pypi \in Builds  BY <2>2 DEF Inv, PublicIsPackaged
    <3>3. pypi' = pypi  BY <2>1, <3>2, CompleteStays
    <3> QED  BY <1>1, <2>2, <3>1, <3>3
  <2>3. CASE ~ public /\ ~ public'
    <3>1. announced = NoFiles /\ announced' = NoFiles  BY <1>1, <2>3
    <3>2. CASE UNCHANGED pypi  BY <3>1, <3>2
    <3>3. ASSUME NEW f \in Files, pypi[f] = Absent,
                 pypi' = [pypi EXCEPT ![f] = build[r][f]]
          PROVE  Promise!Next
      <4>1. build[r][f] \in Digests  BY Built DEF Inv
      <4>2. Promise!Put(f, build[r][f])  BY <3>1, <3>3 DEF Promise!Put, announced
      <4> QED  BY <4>1, <4>2 DEF Promise!Next
    <3> QED  BY <2>1, <3>2, <3>3 DEF RemoteStep
  <2>4. CASE ~ public /\ public'
    <3>1. announced = NoFiles /\ announced' = pypi'  BY <1>1, <2>4
    <3>2. pypi' \in Builds  BY <2>4 DEF Inv, PublicIsPackaged
    <3>3. UNCHANGED pypi  BY <2>1, <2>4 DEF RemoteStep
    <3>4. Promise!Announce
      BY <3>1, <3>2, <3>3 DEF Promise!Announce, Promise!Nothing, NoFiles, announced
    <3> QED  BY <3>4 DEF Promise!Next
  <2> QED  BY <2>2, <2>3, <2>4
<1>4. \A r \in Runs : Moves(r) => [Promise!Next]_<<pypi, announced>>
  BY <1>3
<1>5. UNCHANGED vars \/ \E r \in Runs : Moves(r)
  BY DEF Next, Moves
<1> QED  BY <1>2, <1>4, <1>5 DEF announced

\* The packages come first, a release becomes public with exactly those, and
\* nothing changes either afterwards: the workflow implements Publication.
THEOREM PublishedOnce == Spec => PublishesOnce
<1>1. Init => Promise!Init  BY PublicationInit
<1>2. Inv /\ Inv' /\ [Next]_vars => [Promise!Next]_<<pypi, Announcement(NoFiles)>>
  BY PublicationStep
<1> QED  BY <1>1, <1>2, Invariant, PTL DEF Spec, PublishesOnce, Promise!Spec
=============================================================================
