----------------------------- MODULE Distribution -----------------------------
(***************************************************************************)
(* The manifest of a release (release_guard.py): create_manifest lists the *)
(* dist directory, validates the wheel and the sdist in it and records     *)
(* their digests, once; verify_manifest, run by every later job, compares  *)
(* the directory with the manifest and then does all of that again.        *)
(* Between two commands the directory is handed from job to job, and the   *)
(* upload to PyPI puts an attestation beside each distribution.            *)
(***************************************************************************)
EXTENDS WheelScan, SdistScan

CONSTANTS
    Bases,       \* names a file of the directory may have, without sidecar suffix
    Builds       \* what a build may leave: a wheel, an sdist and, as a bound of the
                 \* model, how often the directory changes between commands

\* The names create_manifest expects; "" is a name that is nothing but suffix.
ASSUME DistributionAssumption ==
    /\ {"wheel", "sdist", ""} \subseteq Bases
    /\ \A build \in Builds :
          IsWheel(build.wheel) /\ IsSdist(build.sdist) /\ build.changes \in Nat

\* A name: what is left without the attestation suffixes, and how many there are.
FileNames == [base : Bases, suffixes : 0 .. 2]
Plain(base) == [base |-> base, suffixes |-> 0]
Sidecar(name) == [name EXCEPT !.suffixes = @ + 1]
Expected == {Plain("wheel"), Plain("sdist")}

\* A file of the directory: whether it is a regular file, and which edition of
\* its content it has.
Files == [kind : {"file", "link"}, edition : {1, 2}]
Built == [kind |-> "file", edition |-> 1]

NoManifest == [state |-> "none"]

VARIABLES
    dist,      \* the directory: a function from the names in it
    manifest,  \* manifest.json
    command,   \* the command that is running or has run: "stage" or "verify"
    pc,        \* its next step
    result,    \* what it said: "none", "ok", "mismatch"
    changes,   \* changes still to be made
    touched    \* some change was not an upload

dvars == <<dist, manifest, command, pc, result, changes, touched>>
vars == <<dvars, wheelVars, sdistVars, members>>

Init ==
    /\ dist = [name \in Expected |-> Built]
    /\ manifest = NoManifest /\ command = "stage" /\ pc = "list" /\ result = "none"
    /\ \E build \in Builds :
          wheel = build.wheel /\ sdist = build.sdist /\ changes = build.changes
    /\ touched = FALSE
    /\ WheelInit /\ SdistInit
    /\ place = 1 /\ keys = {} /\ files = {} /\ total = 0 /\ found = {}

Say(what) == result' = what /\ pc' = "idle"

-----------------------------------------------------------------------------
(* _without_publish_attestations                                           *)

IsSidecar(name) == name.suffixes > 0 /\ name # [base |-> "", suffixes |-> 1]

\* Mutated form of Distributions: the sidecars are not told apart.
DistributionsAndSidecars == DOMAIN dist

Distributions == {name \in DOMAIN dist : ~IsSidecar(name)}

\* Every sidecar belongs to a distribution that is there.
SidecarsMatch ==
    \A name \in DOMAIN dist \ Distributions :
        [name EXCEPT !.suffixes = @ - 1] \in Distributions

-----------------------------------------------------------------------------
(* create_manifest                                                         *)

\* One wheel and one sdist, regular files with the expected names, and no other
\* file but their sidecars.
Listed ==
    /\ \A name \in DOMAIN dist : dist[name].kind = "file"
    /\ SidecarsMatch
    /\ Distributions = Expected

List ==
    /\ pc = "list"
    /\ IF Listed
         THEN /\ pc' = "wheel" /\ wpc' = "search" /\ candidate' = Len(wheel.ends)
              /\ UNCHANGED result
         ELSE Say("mismatch") /\ UNCHANGED <<wpc, candidate>>
    /\ UNCHANGED <<dist, manifest, command, changes, touched, wheel, entry, sdistVars, members>>

ScanWheel ==
    /\ pc = "wheel" /\ wpc \notin {"accepted", "rejected"}
    /\ WheelStep
    /\ UNCHANGED <<dvars, sdistVars>>

WheelDone ==
    /\ pc = "wheel" /\ wpc \in {"accepted", "rejected"}
    /\ IF wpc = "accepted"
         THEN pc' = "sdist" /\ spc' = "open" /\ UNCHANGED result
         ELSE Say("mismatch") /\ UNCHANGED spc
    /\ UNCHANGED <<dist, manifest, command, changes, touched, wheelVars, sdist, scan, members>>

ScanSdist ==
    /\ pc = "sdist" /\ spc \notin {"accepted", "rejected"}
    /\ SdistStep
    /\ UNCHANGED <<dvars, wheelVars>>

SdistDone ==
    /\ pc = "sdist" /\ spc \in {"accepted", "rejected"}
    /\ IF spc = "accepted"
         THEN pc' = "digest" /\ UNCHANGED result
         ELSE Say("mismatch")
    /\ UNCHANGED <<dist, manifest, command, changes, touched, wheelVars, sdistVars, members>>

\* The digests of the two files.
Digests == [wheel |-> dist[Plain("wheel")].edition, sdist |-> dist[Plain("sdist")].edition]

\* Mutated form of Write: an older manifest is replaced.
WriteAlways ==
    /\ manifest' = [state |-> "intact", digests |-> Digests]
    /\ Say("ok")

\* _write_json_exclusive: the file must not exist.
Write ==
    IF manifest = NoManifest
      THEN manifest' = [state |-> "intact", digests |-> Digests] /\ Say("ok")
      ELSE Say("mismatch") /\ UNCHANGED manifest

\* stage writes what it found; verify compares it with what stage wrote.
Settle ==
    /\ pc = "digest"
    /\ \/ command = "stage" /\ Write
       \/ /\ command = "verify"
          /\ Say(IF manifest.digests = Digests THEN "ok" ELSE "mismatch")
          /\ UNCHANGED manifest
    /\ UNCHANGED <<dist, command, changes, touched, wheelVars, sdistVars, members>>

-----------------------------------------------------------------------------
(* verify_manifest                                                         *)

\* _load_canonical_json and the listing that is compared with the manifest.
Verify ==
    /\ pc = "verify"
    /\ IF /\ manifest.state = "intact"
          /\ SidecarsMatch
          /\ Distributions = Expected
          /\ \A name \in Expected : dist[name].kind = "file"
          /\ Digests = manifest.digests
         THEN pc' = "list" /\ UNCHANGED result
         ELSE Say("mismatch")
    /\ UNCHANGED <<dist, manifest, command, changes, touched, wheelVars, sdistVars, members>>

\* A later job verifies; the build job is repeated in the same workspace.
Begin ==
    /\ pc = "idle"
    /\ \/ manifest # NoManifest /\ command' = "verify" /\ pc' = "verify"
       \/ manifest # NoManifest /\ command' = "stage" /\ pc' = "list"
    /\ result' = "none"
    /\ UNCHANGED <<dist, manifest, changes, touched, wheelVars, sdistVars, members>>

-----------------------------------------------------------------------------
(* What happens to the files between two commands.                         *)

Put(name, file) == [n \in DOMAIN dist \cup {name} |-> IF n = name THEN file ELSE dist[n]]

\* pypa/gh-action-pypi-publish leaves a sidecar beside a distribution.
Upload ==
    /\ \E name \in Expected \cap DOMAIN dist : dist' = Put(Sidecar(name), Built)
    /\ UNCHANGED <<manifest, touched>>

\* A file is added or replaced, or is gone.
Disturb ==
    /\ \/ \E name \in FileNames, file \in Files : dist' = Put(name, file)
       \/ \E gone \in DOMAIN dist : dist' = [n \in DOMAIN dist \ {gone} |-> dist[n]]
    /\ touched' = TRUE
    /\ UNCHANGED manifest

\* The manifest is not the one the build job has announced the digest of.
Damage ==
    /\ manifest # NoManifest
    /\ manifest' = [manifest EXCEPT !.state = "altered"]
    /\ touched' = TRUE
    /\ UNCHANGED dist

Change ==
    /\ pc = "idle" /\ changes > 0
    /\ Upload \/ Disturb \/ Damage
    /\ changes' = changes - 1
    /\ result' = "none"
    /\ UNCHANGED <<command, pc, wheelVars, sdistVars, members>>

Command ==
    \/ List \/ ScanWheel \/ WheelDone \/ ScanSdist \/ SdistDone \/ Settle \/ Verify

Next == Command \/ Begin \/ Change

\* A command that runs goes on.
Fairness == WF_vars(Command)

Spec == Init /\ [][Next]_vars /\ Fairness
-----------------------------------------------------------------------------
(* Properties.                                                             *)

DirectoryTypeOK ==
    /\ DOMAIN dist \subseteq FileNames
    /\ \A name \in DOMAIN dist : dist[name] \in Files
    /\ manifest \in {NoManifest} \cup
          [state : {"intact", "altered"}, digests : [wheel : {1, 2}, sdist : {1, 2}]]
    /\ command \in {"stage", "verify"}
    /\ pc \in {"list", "wheel", "sdist", "digest", "verify", "idle"}
    /\ result \in {"none", "ok", "mismatch"}
    /\ changes \in Nat /\ touched \in BOOLEAN

ReadersTypeOK ==
    /\ wpc \in {"idle", "search", "central", "locals", "members", "contents",
                "accepted", "rejected"}
    /\ spc \in {"idle", "open", "scan", "bind", "members", "accepted", "rejected"}
    /\ candidate \in Nat /\ entry \in Nat \ {0} /\ offset \in Nat \ {0}
    /\ rawTotal \in 0 .. MaxTotal
    /\ rawFiles \subseteq rawKeys /\ pathFiles \subseteq pathKeys
    /\ place \in Nat \ {0} /\ total \in 0 .. MaxTotal
    /\ files \subseteq keys /\ found \subseteq 1 .. place - 1

\* The type of the directory and of what the readers have found, the sizes they
\* have added up within the limits.
TypeOK == DirectoryTypeOK /\ ReadersTypeOK

\* verify succeeds only on the two files that were built, whatever happened to
\* the directory or to the manifest, with nothing beside them but sidecars.
VerifiedIsBuilt ==
    (command = "verify" /\ result = "ok") =>
        /\ \A name \in Expected : name \in DOMAIN dist /\ dist[name] = Built
        /\ \A name \in DOMAIN dist : name.base \in {"wheel", "sdist"} /\ name.suffixes <= 1

\* The docstring of _without_publish_attestations: a directory that was only
\* uploaded from verifies as often as a job asks.
UploadsAreHarmless == (command = "verify" /\ result = "mismatch") => touched

\* No two members of an archive are the same file on some file system, and none
\* lies below a regular file, whatever the order they come in.
Portable(list) ==
    \A i, j \in DOMAIN list : i # j =>
        /\ Key(list[i].name) # Key(list[j].name)
        /\ list[i].file => Key(list[i].name) \notin Ancestors(Key(list[j].name))

\* An archive that was accepted unpacks to the same tree everywhere.
AcceptedIsPortable ==
    /\ wpc = "accepted" => Portable(WheelList)
    /\ spc = "accepted" => Portable(SdistList)

\* The words of the file a member takes, its descriptor included.
Extent(i) ==
    LET l == Local(Dir[i].offset)
    IN  Dir[i].offset ..
          PayloadAt(Dir[i]) + Infos[i].csize - 1
            + (IF l.deferred THEN DescriptorLength(l.extra = "zip64", l.descriptor.signed) ELSE 0)

\* In an accepted wheel no two members share a byte, and none reaches into the
\* central directory.
ExtentsDisjoint ==
    wpc = "accepted" =>
        \A i \in DOMAIN Dir :
            /\ \A o \in Extent(i) : o < DirAt
            /\ \A j \in DOMAIN Dir \ {i} : Extent(i) \cap Extent(j) = {}

\* What a reader that goes by the local headers alone learns of a member.
Streamed(l) ==
    IF l.deferred THEN Values(l.descriptor)
    ELSE [crc |-> l.crc, csize |-> Sizes(l).csize, size |-> Sizes(l).size]

\* In an accepted wheel, a reader that goes by the local headers and one that
\* goes by zipfile's directory see the same members with the same sizes and
\* checksums, and the bytes are those the checksums were made of.
ReadersAgree ==
    wpc = "accepted" =>
        /\ Len(Infos) = Len(Dir)
        /\ \A i \in DOMAIN Dir :
              LET l == Local(Infos[i].offset + Shift)
              IN  /\ l.name = Infos[i].name
                  /\ Streamed(l) = Values(Infos[i])
                  /\ WheelList[i].file => l.data.crc = Infos[i].crc

\* The first block that begins at or after the end of the payload of the header
\* at block o.
FirstBeyond(o) ==
    CHOOSE q \in (o + 1) .. (o + 1 + Blocks[o].size) :
        LET bytes == (q - o - 1) * BlockSize
        IN  bytes >= Blocks[o].size /\ bytes - BlockSize < Blocks[o].size

\* Where a reader that follows the sizes finds one header after the other.
HeaderBlock[k \in 0 .. Len(Blocks)] ==
    IF k = 0 THEN 1 ELSE FirstBeyond(HeaderBlock[k - 1])

HeaderOf(k) == Blocks[HeaderBlock[k]]
IsPax(k) == HeaderOf(k).type = "pax"

\* The bytes of the members among the first k headers.
Bytes[k \in 0 .. Len(Blocks)] ==
    IF k = 0 THEN 0
    ELSE Bytes[k - 1] + (IF IsPax(k - 1) THEN 0 ELSE HeaderOf(k - 1).size)

\* The name of a member: the one announced by the header before it, or its own.
Announced(k) == k > 0 /\ IsPax(k - 1)
NameOf(k) == IF Announced(k) THEN HeaderOf(k - 1).path ELSE HeaderOf(k).name

\* The stream is n headers with their payloads, and two or more blocks of zeros.
EndsAfter(n) ==
    /\ \A k \in 0 .. n - 1 : HeaderBlock[k] <= Len(Blocks) /\ HeaderOf(k).kind = "header"
    /\ HeaderBlock[n] < Len(Blocks)
    /\ \A o \in HeaderBlock[n] .. Len(Blocks) : Blocks[o] = Zero

Own(n) == {k \in 0 .. n - 1 : ~IsPax(k)}

\* A header as such, a path announced for the next one, and a member.
ProperHeader(k) == HeaderOf(k).proper /\ HeaderOf(k).size <= MaxMember
ProperPax(k, n) == Safe(HeaderOf(k).path) /\ k + 1 \in Own(n)
ProperMember(k) ==
    /\ HeaderOf(k).type \in {"old", "file", "dir"}
    /\ HeaderOf(k).type = "dir" => HeaderOf(k).size = 0
    /\ Safe(NameOf(k)) /\ Safe(HeaderOf(k).name)
    /\ NameOf(k) # HeaderOf(k).name => HeaderOf(k).cut

\* Two members whose names exclude each other, where the first may be a file.
Clash(a, b, file) == Key(a) = Key(b) \/ (file /\ Key(a) \in Ancestors(Key(b)))

IsMetadata(k) == LET parts == NameOf(k).parts IN parts[Len(parts)] = SdistRules.metadata

\* The file, and n headers in it as they should be.
FileSound ==
    /\ sdist.intact /\ sdist.size > 0
    /\ Len(Blocks) * BlockSize <= sdist.size * MaxRatio
    /\ Len(Blocks) <= MaxTotal \div BlockSize + MaxMembers + 2

StreamSound(n) ==
    /\ EndsAfter(n)
    /\ Own(n) # {} /\ Cardinality(Own(n)) <= MaxMembers
    /\ Bytes[n] <= MaxTotal /\ Bytes[n] <= sdist.size * MaxRatio
    /\ \A k \in 0 .. n - 1 : ProperHeader(k) /\ (IsPax(k) => ProperPax(k, n))
    /\ \A k \in Own(n) :
          /\ ProperMember(k)
          /\ ~(HeaderOf(k).type = "old" /\ HeaderOf(k).name.slash)
          /\ Head(NameOf(k).parts) = SdistRules.root
          /\ \A q \in Own(n) \ {k} :
                LET file == IsFile(HeaderOf(k).type)
                IN  /\ ~Clash(NameOf(k), NameOf(q), file)
                    /\ ~Clash(HeaderOf(k).name, HeaderOf(q).name, file)
    /\ \E k \in Own(n) :
          /\ {q \in Own(n) : IsMetadata(q)} = {k}
          /\ NameOf(k).parts = <<SdistRules.root, SdistRules.metadata>>
          /\ Announced(k) \/ ~NameOf(k).slash
          /\ IsFile(HeaderOf(k).type) /\ HeaderOf(k).size <= MaxMetadata

\* An sdist that is as it should be, without regard to how it is read.
WellFormed ==
    /\ FileSound /\ sdist.approved
    /\ \E n \in 1 .. Len(Blocks) : StreamSound(n)

\* The scan block by block, with its pending path and its running totals, comes
\* to the verdict of that definition.
SdistVerdictIsExact ==
    /\ spc = "accepted" => WellFormed
    /\ spc = "rejected" => ~WellFormed

\* Every command comes to its end, whatever the files hold.
CommandsEnd == (pc # "idle") ~> (pc = "idle")
=============================================================================
