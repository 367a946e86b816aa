---------------------------- MODULE ReleaseGuard ----------------------------
(***************************************************************************)
(* The publication of one version (release.yml and tools/release_guard.py):*)
(* workflow runs that stage a draft release, publish the distributions to  *)
(* PyPI, attach them to the draft and make the draft public.               *)
(*                                                                         *)
(* A run is a chain of jobs; each call to GitHub or PyPI is a step of its  *)
(* own.  Nothing serialises runs: a push and a dispatch for one tag may    *)
(* overlap, any job may die between two calls, a call may take effect and  *)
(* its response be lost, and a stopped run may be re-run from the job that *)
(* stopped, with the distributions it built, or replaced by a new one,     *)
(* which builds again.                                                     *)
(***************************************************************************)
EXTENDS Integers, FiniteSets

CONSTANTS
    Runs,         \* workflow runs that may be under way at once
    Files,        \* distribution files, numbered in manifest order
    Digests,      \* digests of file contents
    Builds,       \* what building the tagged source may yield
    Absent,       \* no file of that name is there
    Starter,      \* an asset whose upload was cut short
    FirstTags,    \* the commits the tag may name at first
    MaxReleases,  \* releases that can be created (bound)
    MaxFaults,    \* faults in a behaviour (bound)
    Faults        \* the kinds of fault: subset of FaultKinds

FaultKinds == {"die", "lose_response", "cut_upload", "stale_list", "expire"}
Ids == 1 .. MaxReleases
Tags == {"none", "source", "elsewhere"}

ASSUME ReleaseAssumption ==
    /\ Files \subseteq Nat /\ IsFiniteSet(Files) /\ Files # {}
    /\ Absent \notin Digests /\ Starter \notin Digests /\ Absent # Starter
    /\ Builds \subseteq [Files -> Digests] /\ Builds # {}
    /\ FirstTags \subseteq Tags
    /\ MaxReleases \in Nat /\ MaxFaults \in Nat
    /\ Faults \subseteq FaultKinds

VARIABLES
    tag,       \* the commit the tag names: none, the source commit, another one
    release,   \* the releases of that tag, with their assets
    pypi,      \* the files PyPI has of this version
    job, pc,   \* per run: the job under way and its next step
    build,     \* per run: manifest.json, the digests of dist/
    artifact,  \* per run: its workflow artifact can be downloaded
    ref,       \* per run, in stage: the tag as it was read
    payload,   \* per run, in stage: the release as it was read, its id in .id
    snapshot,  \* per run: snapshot.json, the release id and the schema
    todo,      \* per run: files its loop still has to publish
    faults     \* faults so far

remote == <<tag, release, pypi>>
local == <<build, artifact, ref, payload, snapshot, todo>>
vars == <<remote, job, pc, local, faults>>

NoFiles == [f \in Files |-> Absent]
Contents == [Files -> Digests \cup {Absent, Starter}]
States == {"none", "draft", "public"}
NotFound == [id |-> 0, state |-> "none", assets |-> NoFiles]
NoSnapshot == [id |-> 0, schema |-> 0]
Jobs == {"stage", "pypi", "assets", "finalize"}
Steps == {"begin", "list", "create_tag", "create_draft", "observe", "settle",
          "preflight", "put", "live", "check", "upload", "recover",
          "require_pypi", "look", "publish", "confirm", "stopped", "done"}

Init ==
    /\ tag \in FirstTags
    /\ release = [i \in Ids |-> [state |-> "none", assets |-> NoFiles]]
    /\ pypi = NoFiles
    /\ job = [r \in Runs |-> "stage"] /\ pc = [r \in Runs |-> "begin"]
    /\ build \in [Runs -> Builds]
    /\ artifact = [r \in Runs |-> FALSE]
    /\ ref = [r \in Runs |-> "none"]
    /\ payload = [r \in Runs |-> NotFound]
    /\ snapshot = [r \in Runs |-> NoSnapshot]
    /\ todo = [r \in Runs |-> {}]
    /\ faults = 0

-----------------------------------------------------------------------------
(* What the guard decides from what it read.                               *)

\* _staged_snapshot_from_release and _snapshot_from_release accept the release.
IsStaged(p) == p.state = "draft"
IsPublic(p) == p.state = "public"

\* _staged_asset_map: every asset is one this manifest owns.
Owned(assets, b) == \A f \in Files : assets[f] \in {Absent, b[f]}

\* The set comparison that follows it, and verify_published_assets.
Exact(assets, b) == assets = b

\* verify_pypi_publication.
PyPIStateByName(b) ==
    IF pypi = NoFiles THEN "absent"
    ELSE IF \A f \in Files : pypi[f] # Absent THEN "complete" ELSE "partial"

PyPIState(b) ==
    IF pypi = NoFiles THEN "absent"
    ELSE IF ~ Owned(pypi, b) THEN "mismatch"
    ELSE IF pypi = b THEN "complete" ELSE "partial"

\* find_release_by_tag: the oldest draft, else the oldest release.
Oldest(S) == CHOOSE i \in S : \A j \in S : i <= j
Found(listed) ==
    LET drafts == {i \in listed : IsStaged(release[i])}
    IN  IF listed = {} THEN NotFound
        ELSE LET i == Oldest(IF drafts # {} THEN drafts ELSE listed)
             IN  [id |-> i, state |-> release[i].state, assets |-> release[i].assets]

\* schema_version of a snapshot: 3 staged, 2 public.
SchemaOfManifest(p) == 1
Schema(p) == IF IsStaged(p) THEN 3 ELSE 2

Existing == {i \in Ids : release[i].state # "none"}
Staged(r) == release[snapshot[r].id]
NextFile(r) == CHOOSE f \in todo[r] : \A g \in todo[r] : f <= g

-----------------------------------------------------------------------------
At(r, j, step) == job[r] = j /\ pc[r] = step

Goto(r, step) == pc' = [pc EXCEPT ![r] = step] /\ UNCHANGED job
Stop(r) == Goto(r, "stopped")
GotoOrStop(r, good, step) == Goto(r, IF good THEN step ELSE "stopped")

Start(r, j) == job' = [job EXCEPT ![r] = j] /\ pc' = [pc EXCEPT ![r] = "begin"]

\* One more fault of a kind, while the bound allows it.
Fault(kind) == kind \in Faults /\ faults < MaxFaults /\ faults' = faults + 1

-----------------------------------------------------------------------------
(* Job stage-release: _stage_release_command.                              *)

ReadRef(r) ==
    /\ At(r, "stage", "begin")
    /\ ref' = [ref EXCEPT ![r] = tag]
    /\ Goto(r, "list")
    /\ UNCHANGED <<remote, build, artifact, payload, snapshot, todo, faults>>

\* The listing may not show a draft that was created a moment ago.
ListReleases(r) ==
    /\ At(r, "stage", "list")
    /\ \E listed \in SUBSET Existing :
        /\ \/ listed = Existing /\ UNCHANGED faults
           \/ /\ listed # Existing /\ Fault("stale_list")
              /\ \A i \in Existing \ listed : release[i].state = "draft"
        /\ LET found == Found(listed)
           IN  /\ payload' = [payload EXCEPT ![r] = found]
               /\ Goto(r,
                    CASE ref[r] = "none" /\ found.id # 0 -> "stopped"
                      [] ref[r] = "none" /\ found.id = 0 -> "create_tag"
                      [] ref[r] = "elsewhere" -> "stopped"
                      [] ref[r] = "source" /\ found.id = 0 -> "create_draft"
                      [] OTHER -> "settle")
    /\ UNCHANGED <<remote, build, artifact, ref, snapshot, todo>>

\* GitHub refuses a tag that another run has created meanwhile.
CreateTag(r) ==
    /\ At(r, "stage", "create_tag")
    /\ \/ tag # "none" /\ Stop(r) /\ UNCHANGED <<tag, faults>>
       \/ /\ tag = "none"
          /\ tag' = "source"
          /\ \/ Goto(r, "create_draft") /\ UNCHANGED faults
             \/ Fault("lose_response") /\ Stop(r)
    /\ UNCHANGED <<release, pypi, local>>

CreateDraft(r) ==
    /\ At(r, "stage", "create_draft")
    /\ \E i \in Ids \ Existing :
        /\ \A j \in Ids \ Existing : i <= j
        /\ release' = [release EXCEPT ![i].state = "draft"]
        /\ \/ /\ payload' = [payload EXCEPT ![r] = [id |-> i, state |-> "draft",
                                                    assets |-> NoFiles]]
              /\ Goto(r, "observe") /\ UNCHANGED faults
           \/ Fault("lose_response") /\ Stop(r) /\ UNCHANGED payload
    /\ UNCHANGED <<tag, pypi, build, artifact, ref, snapshot, todo>>

\* observe_release_by_id, or the response to the creation when it sees nothing.
Observe(r) ==
    /\ At(r, "stage", "observe")
    /\ \/ LET i == payload[r].id
          IN  payload' = [payload EXCEPT ![r].state = release[i].state,
                                         ![r].assets = release[i].assets]
       \/ UNCHANGED payload
    /\ Goto(r, "settle")
    /\ UNCHANGED <<remote, build, artifact, ref, snapshot, todo, faults>>

\* Mutated form of Resumable: the staged release must be a new one.
ResumableWhenEmpty(p, b) ==
    IF IsStaged(p) THEN Exact(p.assets, NoFiles) ELSE Exact(p.assets, b)

\* A draft all of whose assets are owned, or a release that is public and exact.
Resumable(p, b) == IF IsStaged(p) THEN Owned(p.assets, b) ELSE Exact(p.assets, b)

\* Resume the draft or accept the public release, then write the manifest and
\* the snapshot and keep them as a workflow artifact.
Settle(r) ==
    /\ At(r, "stage", "settle")
    /\ LET p == payload[r]
           good == Resumable(p, build[r])
       IN  \/ /\ good
              /\ snapshot' = [snapshot EXCEPT ![r] = [id |-> p.id, schema |-> Schema(p)]]
              /\ artifact' = [artifact EXCEPT ![r] = TRUE]
              /\ Start(r, "pypi")
           \/ ~ good /\ Stop(r) /\ UNCHANGED <<snapshot, artifact>>
    /\ ref' = [ref EXCEPT ![r] = "none"]
    /\ payload' = [payload EXCEPT ![r] = NotFound]
    /\ UNCHANGED <<remote, build, todo, faults>>

-----------------------------------------------------------------------------
\* verify_artifact_metadata: the artifact of this very run is there, unexpired.
Bound(r) == artifact[r]

\* _common_live, before a command looks at the release: the downloaded files
\* match the manifest and the snapshot matches the workflow's outputs.
CommonLive(r) == Bound(r) /\ snapshot[r].id # 0

\* Every later job first verifies and downloads the run's artifact.
VerifyArtifact(r) ==
    /\ job[r] # "stage" /\ pc[r] = "begin"
    /\ GotoOrStop(r, Bound(r), IF job[r] = "pypi" THEN "preflight" ELSE "live")
    /\ UNCHANGED <<remote, local, faults>>

(* Job publish-pypi.                                                       *)

Preflight(r) ==
    /\ At(r, "pypi", "preflight")
    /\ GotoOrStop(r, PyPIState(build[r]) # "mismatch", "put")
    /\ todo' = [todo EXCEPT ![r] = Files]
    /\ UNCHANGED <<remote, build, artifact, ref, payload, snapshot, faults>>

\* The PyPI action with skip-existing: a file PyPI has is left as it is.
PutPackageWithoutSkip(r) ==
    /\ At(r, "pypi", "put")
    /\ \E f \in todo[r] :
        \/ /\ pypi[f] = Absent
           /\ pypi' = [pypi EXCEPT ![f] = build[r][f]]
           /\ todo' = [todo EXCEPT ![r] = @ \ {f}]
           /\ UNCHANGED <<job, pc>>
        \/ pypi[f] # Absent /\ Stop(r) /\ UNCHANGED <<pypi, todo>>
    /\ UNCHANGED <<tag, release, build, artifact, ref, payload, snapshot, faults>>

PutPackage(r) ==
    /\ At(r, "pypi", "put")
    /\ \E f \in todo[r] :
        /\ pypi' = IF pypi[f] = Absent THEN [pypi EXCEPT ![f] = build[r][f]] ELSE pypi
        /\ todo' = [todo EXCEPT ![r] = @ \ {f}]
    /\ UNCHANGED <<tag, release, job, pc, build, artifact, ref, payload, snapshot, faults>>

\* pypi-verify and finalize want the version complete.
OnPyPI(r) == PyPIState(build[r]) = "complete"

VerifyPyPI(r) ==
    /\ At(r, "pypi", "put") /\ todo[r] = {}
    /\ \/ OnPyPI(r) /\ Start(r, "assets")
       \/ ~ OnPyPI(r) /\ Stop(r)
    /\ UNCHANGED <<remote, local, faults>>

-----------------------------------------------------------------------------
(* Job publish-github-assets: _publish_assets_command.                     *)

\* A schema 2 snapshot is a release that stage found public: nothing to do.
LiveAssets(r) ==
    /\ At(r, "assets", "live")
    /\ LET s == Staged(r)
           public == CommonLive(r) /\ IsPublic(s) /\ Exact(s.assets, build[r])
           draft == CommonLive(r) /\ IsStaged(s)
       IN  IF snapshot[r].schema = 2
           THEN /\ IF public THEN Start(r, "finalize") ELSE Stop(r)
                /\ UNCHANGED todo
           ELSE /\ GotoOrStop(r, draft, "check")
                /\ todo' = [todo EXCEPT ![r] = IF draft THEN Files ELSE {}]
    /\ UNCHANGED <<remote, build, artifact, ref, payload, snapshot, faults>>

\* Before every file: the artifact, the draft and all its assets again.
OwnedDraft(r) == IsStaged(Staged(r)) /\ Owned(Staged(r).assets, build[r])

CheckAsset(r) ==
    /\ At(r, "assets", "check") /\ todo[r] # {}
    /\ LET f == NextFile(r)
           good == Bound(r) /\ OwnedDraft(r)
           there == good /\ Staged(r).assets[f] # Absent
       IN  /\ Goto(r, IF ~ good THEN "stopped" ELSE IF there THEN "check" ELSE "upload")
           /\ todo' = IF there THEN [todo EXCEPT ![r] = @ \ {f}] ELSE todo
    /\ UNCHANGED <<remote, build, artifact, ref, payload, snapshot, faults>>

\* GitHub refuses a second asset of a name; an upload may be cut short, or
\* succeed with its response lost.
UploadAsset(r) ==
    /\ At(r, "assets", "upload")
    /\ LET f == NextFile(r)
           i == snapshot[r].id
       IN  \/ /\ release[i].assets[f] # Absent
              /\ Goto(r, "recover") /\ UNCHANGED <<release, todo, faults>>
           \/ /\ release[i].assets[f] = Absent
              /\ release' = [release EXCEPT ![i].assets[f] = build[r][f]]
              /\ \/ /\ todo' = [todo EXCEPT ![r] = @ \ {f}]
                    /\ Goto(r, "check") /\ UNCHANGED faults
                 \/ Fault("lose_response") /\ Goto(r, "recover") /\ UNCHANGED todo
           \/ /\ release[i].assets[f] = Absent /\ Fault("cut_upload")
              /\ release' = [release EXCEPT ![i].assets[f] = Starter]
              /\ Goto(r, "recover") /\ UNCHANGED todo
           \/ /\ Fault("die") /\ Goto(r, "recover") /\ UNCHANGED <<release, todo>>
    /\ UNCHANGED <<tag, pypi, build, artifact, ref, payload, snapshot>>

\* After an exception: accept the file only if it is there, and exact.
Recover(r) ==
    /\ At(r, "assets", "recover")
    /\ LET f == NextFile(r)
           good == OwnedDraft(r) /\ Staged(r).assets[f] # Absent
       IN  /\ GotoOrStop(r, good, "check")
           /\ todo' = [todo EXCEPT ![r] = IF good THEN @ \ {f} ELSE @]
    /\ UNCHANGED <<remote, build, artifact, ref, payload, snapshot, faults>>

FinishAssets(r) ==
    /\ At(r, "assets", "check") /\ todo[r] = {}
    /\ \/ OwnedDraft(r) /\ Exact(Staged(r).assets, build[r]) /\ Start(r, "finalize")
       \/ ~ (OwnedDraft(r) /\ Exact(Staged(r).assets, build[r])) /\ Stop(r)
    /\ UNCHANGED <<remote, local, faults>>

-----------------------------------------------------------------------------
(* Job finalize-release: _finalize_command and finalize_staged_release.    *)

FinalizedByAssetsOnly(r) == Exact(Staged(r).assets, build[r])
Finalized(r) == IsPublic(Staged(r)) /\ Exact(Staged(r).assets, build[r])

LiveFinalize(r) ==
    /\ At(r, "finalize", "live")
    /\ IF snapshot[r].schema = 2
       THEN GotoOrStop(r, CommonLive(r) /\ Finalized(r), "done")
       ELSE GotoOrStop(r, CommonLive(r), "require_pypi")
    /\ UNCHANGED <<remote, local, faults>>

RequirePyPI(r) ==
    /\ At(r, "finalize", "require_pypi")
    /\ GotoOrStop(r, OnPyPI(r), "look")
    /\ UNCHANGED <<remote, local, faults>>

\* A release that is public already only has to be verified.
LookAtDraft(r) ==
    /\ At(r, "finalize", "look")
    /\ Goto(r, CASE Finalized(r) -> "done"
                 [] IsStaged(Staged(r)) /\ Exact(Staged(r).assets, build[r]) -> "publish"
                 [] OTHER -> "stopped")
    /\ UNCHANGED <<remote, local, faults>>

\* GitHub keeps one public release per tag.
Publish(r) ==
    /\ At(r, "finalize", "publish")
    /\ LET i == snapshot[r].id
           taken == \E j \in Ids \ {i} : release[j].state = "public"
       IN  \/ taken /\ Stop(r) /\ UNCHANGED <<release, faults>>
           \/ /\ ~ taken
              /\ release' = [release EXCEPT ![i].state = "public"]
              /\ \/ Goto(r, "confirm") /\ UNCHANGED faults
                 \/ Fault("lose_response") /\ Stop(r)
    /\ UNCHANGED <<tag, pypi, local>>

Confirm(r) ==
    /\ At(r, "finalize", "confirm")
    /\ GotoOrStop(r, Finalized(r), "done")
    /\ UNCHANGED <<remote, local, faults>>

-----------------------------------------------------------------------------
(* The runner and the operator.                                            *)

\* A job is killed, or a call fails before it takes effect.
Die(r) ==
    /\ pc[r] \notin {"stopped", "done"} /\ Fault("die")
    /\ Stop(r)
    /\ UNCHANGED <<remote, local>>

\* The artifact's retention ends.
Expire(r) ==
    /\ artifact[r] /\ Fault("expire")
    /\ artifact' = [artifact EXCEPT ![r] = FALSE]
    /\ UNCHANGED <<remote, job, pc, build, ref, payload, snapshot, todo>>

\* Re-run the job that stopped; stage would build again, and is a new run.
RerunJob(r) ==
    /\ pc[r] = "stopped" /\ job[r] # "stage" /\ artifact[r]
    /\ Start(r, job[r])
    /\ todo' = [todo EXCEPT ![r] = {}]
    /\ UNCHANGED <<remote, build, artifact, ref, payload, snapshot, faults>>

NewRun(r) ==
    /\ pc[r] = "stopped"
    /\ Start(r, "stage")
    /\ \E b \in Builds : build' = [build EXCEPT ![r] = b]
    /\ artifact' = [artifact EXCEPT ![r] = FALSE]
    /\ ref' = [ref EXCEPT ![r] = "none"]
    /\ payload' = [payload EXCEPT ![r] = NotFound]
    /\ snapshot' = [snapshot EXCEPT ![r] = NoSnapshot]
    /\ todo' = [todo EXCEPT ![r] = {}]
    /\ UNCHANGED <<remote, faults>>

Stage(r) ==
    \/ ReadRef(r) \/ ListReleases(r) \/ CreateTag(r)
    \/ CreateDraft(r) \/ Observe(r) \/ Settle(r)
PublishPyPI(r) == Preflight(r) \/ PutPackage(r) \/ VerifyPyPI(r)
PublishAssets(r) ==
    \/ LiveAssets(r) \/ CheckAsset(r) \/ UploadAsset(r)
    \/ Recover(r) \/ FinishAssets(r)
Finalize(r) ==
    \/ LiveFinalize(r) \/ RequirePyPI(r) \/ LookAtDraft(r)
    \/ Publish(r) \/ Confirm(r)

Step(r) ==
    \/ Stage(r) \/ VerifyArtifact(r) \/ PublishPyPI(r)
    \/ PublishAssets(r) \/ Finalize(r)
Next ==
    \E r \in Runs : Step(r) \/ Die(r) \/ Expire(r) \/ RerunJob(r) \/ NewRun(r)

Spec == Init /\ [][Next]_vars

\* Jobs make progress, and an operator who sees a run stop re-runs it.
FairSpec ==
    Spec /\ \A r \in Runs : WF_vars(Step(r)) /\ WF_vars(RerunJob(r) \/ NewRun(r))

-----------------------------------------------------------------------------
TypeOK ==
    /\ tag \in Tags
    /\ release \in [Ids -> [state : States, assets : Contents]]
    /\ pypi \in [Files -> Digests \cup {Absent}]
    /\ job \in [Runs -> Jobs]
    /\ pc \in [Runs -> Steps]
    /\ build \in [Runs -> Builds]
    /\ artifact \in [Runs -> BOOLEAN]
    /\ ref \in [Runs -> Tags]
    /\ payload \in [Runs -> [id : {0} \cup Ids, state : States, assets : Contents]]
    /\ snapshot \in [Runs -> [id : {0} \cup Ids, schema : {0, 2, 3}]]
    /\ todo \in [Runs -> SUBSET Files]
    /\ faults \in 0 .. MaxFaults

\* A public release holds exactly the files PyPI has, all of them, and all
\* from one build, whatever runs overlapped and wherever they died
\* (_require_complete_pypi_publication and _staged_asset_map look at two
\* services at two moments).
PublicIsPackaged ==
    \A i \in Ids : release[i].state = "public" =>
        release[i].assets = pypi /\ pypi \in Builds

\* No draft ever gets a file other than the one PyPI has under that name:
\* assets are attached only after pypi-verify saw the version complete.
AssetsFollowPackages ==
    \A i \in Ids, f \in Files : release[i].assets[f] \in {Absent, Starter, pypi[f]}

\* A run that ends green left its own release public, with the files it built
\* on both services, even though it read neither in the same instant.
GreenMeansPublished ==
    \A r \in Runs : pc[r] = "done" =>
        /\ Staged(r).state = "public"
        /\ Staged(r).assets = build[r] /\ pypi = build[r]

\* One version is published once: the packages come first, a release becomes
\* public with exactly those, and nothing changes either afterwards.
Announcement(d) ==
    IF \E i \in Ids : release[i].state = "public"
    THEN release[CHOOSE i \in Ids : release[i].state = "public"].assets ELSE d
Promise == INSTANCE Publication WITH packages <- pypi, announced <- Announcement(NoFiles)
PublishesOnce == Promise!Spec

\* No run has missed another one's draft.
NoDuplicates == Cardinality(Existing) <= 1

\* Unless overlapping runs leave duplicate drafts behind, some run ends green,
\* whichever calls are lost and however often jobs are killed and re-run: each
\* resumes what was left on the two services (builds being reproducible).
TurnsGreen == []NoDuplicates => <>(\E r \in Runs : pc[r] = "done")

\* Even when runs overlap and leave duplicate drafts, the version becomes
\* public once faults end (builds being reproducible).
EventuallyPublic == <>(\E i \in Ids : release[i].state = "public")

=============================================================================
