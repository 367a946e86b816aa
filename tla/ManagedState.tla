----------------------------- MODULE ManagedState -----------------------------
(***************************************************************************)
(* The plan-first install lifecycle (install.py): runs of install,         *)
(* upgrade, uninstall and of the read-only commands over one managed root. *)
(* Every file system call that changes the disk is a step of its own, so   *)
(* that runs can overlap, a call can raise OSError, and a run can die.     *)
(*                                                                         *)
(* A directory holds the file adapter.json (config), the receipt, which    *)
(* names the configuration whose digest it records, and perhaps paths      *)
(* nobody owns (extra).  A run is one CLI process; it is started once.     *)
(***************************************************************************)
EXTENDS Integers, FiniteSets

CONSTANTS
    Runs,       \* the CLI processes
    Fields,     \* options a configuration is made of
    Values,     \* values of an option
    Unset,      \* an option that was not given
    NoFile,     \* a file that is not there
    Absent,     \* a directory that is not there
    Requests,   \* command lines: records [command, execute, want]
    Roots,      \* what the managed root may hold at first
    Overlap,    \* runs may overlap in time; otherwise one ends before the next
    Faults      \* calls that may raise OSError, and "crash"

Commands == {"install", "upgrade", "uninstall", "status", "verify"}
FaultPoints == {"stage", "move", "swap", "restore", "drop_backup", "discard",
                "copy", "quarantine", "delete", "drop_copy", "crash"}

Configs == [Fields -> Values]
Contents == [config : Configs \cup {NoFile}, receipt : Configs \cup {NoFile},
             extra : BOOLEAN]
Directories == Contents \cup {Absent}

ASSUME ManagedStateAssumption ==
    /\ Unset \notin Values
    /\ NoFile \notin Configs
    /\ Absent \notin Contents
    /\ Absent \notin Configs \cup {NoFile}
    /\ Requests \subseteq [command : Commands, execute : BOOLEAN,
                           want : [Fields -> Values \cup {Unset}]]
    /\ Roots \subseteq Directories
    /\ Overlap \in BOOLEAN
    /\ Faults \subseteq FaultPoints

VARIABLES
    root,       \* the managed root
    staging,    \* .root.staging-*, one per run
    backup,     \* .root.backup-*
    discarded,  \* .root.failed-*
    quarantine, \* .root.uninstall-*
    copy,       \* .root.uninstall-backup-*
    pc,         \* next step of a run
    request,    \* its command line
    existing,   \* configuration it found and verified, NoFile when there was none
    config,     \* configuration it is to publish
    published,  \* the local variables of _run_install: published,
    moved,      \*   and the backup returned by _publish_state is not None
    error,      \* an exception is on its way out
    result      \* the JSON results the run has printed: "none" of them, one,
                \* which is "ok", "planned" or "failed", or "several"

disk == <<root, staging, backup, discarded, quarantine, copy>>
local == <<request, existing, config, published, moved>>
vars == <<disk, pc, local, error, result>>

NoConfig == [f \in Fields |-> Unset]
EmptyDir == [config |-> NoFile, receipt |-> NoFile, extra |-> FALSE]
Managed(c) == [config |-> c, receipt |-> c, extra |-> FALSE]

Init ==
    /\ root \in Roots
    /\ staging = [r \in Runs |-> Absent] /\ backup = [r \in Runs |-> Absent]
    /\ discarded = [r \in Runs |-> Absent] /\ quarantine = [r \in Runs |-> Absent]
    /\ copy = [r \in Runs |-> Absent]
    /\ pc = [r \in Runs |-> "start"]
    /\ request \in [Runs -> Requests]
    /\ existing = [r \in Runs |-> NoFile] /\ config = [r \in Runs |-> NoConfig]
    /\ published = [r \in Runs |-> FALSE] /\ moved = [r \in Runs |-> FALSE]
    /\ error = [r \in Runs |-> FALSE] /\ result = [r \in Runs |-> "none"]

-----------------------------------------------------------------------------
(* Helpers.                                                                *)

\* _read_receipt accepts the directory.
Intact(d) ==
    /\ d # Absent
    /\ d.receipt # NoFile /\ d.config = d.receipt /\ ~d.extra

HasReceipt(d) == d # Absent /\ d.receipt # NoFile

\* What a recursive delete that fails half way may leave of a directory.
Remains(d) ==
    {e \in Contents : /\ e.config \in {d.config, NoFile}
                      /\ e.receipt \in {d.receipt, NoFile}
                      /\ e.extra => d.extra}

\* rename(2) of a directory succeeds onto nothing or onto an empty directory.
Replaceable(d) == d = Absent \/ d = EmptyDir

\* _configured: options given now win over stored ones.
Configured(want, stored) ==
    [f \in Fields |-> IF want[f] # Unset THEN want[f]
                      ELSE IF stored # NoFile THEN stored[f] ELSE Unset]

Active(r) == pc[r] \notin {"start", "end", "crashed"}
MayStart == Overlap \/ \A r \in Runs : ~Active(r)

Goto(r, to) == pc' = [pc EXCEPT ![r] = to]
\* Mutated form of Emit: the status of the report is not one of its words.
EmitUnknown(r, res) == result' = [result EXCEPT ![r] = "error"]

Emit(r, res) ==
    result' = [result EXCEPT ![r] = IF @ = "none" THEN res ELSE "several"]
Stop(r, res) == Goto(r, "end") /\ Emit(r, res)
Raises(r) == error' = [error EXCEPT ![r] = TRUE]

-----------------------------------------------------------------------------
(* install and upgrade: _run_install.                                      *)

\* The root is read and every refusal that comes before the first write is
\* made: a root that is not intact, an upgrade of nothing, a configuration that
\* fails the preflight, and an install over a different configuration.
InstallBegins(r) ==
    /\ pc[r] = "start" /\ MayStart
    /\ request[r].command \in {"install", "upgrade"}
    /\ LET found == IF root = Absent THEN NoFile ELSE root.config
           wanted == Configured(request[r].want, found)
       IN  \/ /\ Stop(r, "failed")   \* at the latest _preflight_config refuses
              /\ UNCHANGED <<existing, config, published>>
           \/ /\ root = Absent => request[r].command = "install"
              /\ root # Absent => Intact(root)
              /\ wanted \in Configs
              /\ existing' = [existing EXCEPT ![r] = found]
              /\ config' = [config EXCEPT ![r] = wanted]
              /\ published' = [published EXCEPT ![r] = wanted # found]
              /\ \/ /\ request[r].command = "install" /\ found \notin {NoFile, wanted}
                    /\ Stop(r, "failed")
                 \/ /\ request[r].command = "upgrade" \/ found \in {NoFile, wanted}
                    /\ ~request[r].execute
                    /\ Stop(r, "planned")
                 \/ /\ request[r].command = "upgrade" \/ found \in {NoFile, wanted}
                    /\ request[r].execute
                    /\ Goto(r, IF wanted # found THEN "stageConfig" ELSE "verify")
                    /\ UNCHANGED result
    /\ UNCHANGED <<disk, request, moved, error>>

\* _publish_state: mkdtemp and adapter.json.
StageConfig(r) ==
    /\ pc[r] = "stageConfig"
    /\ \/ /\ staging' = [staging EXCEPT ![r] = [EmptyDir EXCEPT !.config = config[r]]]
          /\ Goto(r, "stageReceipt")
          /\ UNCHANGED error
       \/ /\ "stage" \in Faults
          /\ staging' \in {[staging EXCEPT ![r] = d] : d \in {Absent, EmptyDir}}
          /\ Raises(r) /\ Goto(r, "unstage")
    /\ UNCHANGED <<root, backup, discarded, quarantine, copy, local, result>>

\* The receipt, which records the digest of the configuration.
StageReceipt(r) ==
    /\ pc[r] = "stageReceipt"
    /\ \/ /\ staging' = [staging EXCEPT ![r].receipt = config[r]]
          /\ Goto(r, "moveAside")
          /\ UNCHANGED error
       \/ /\ "stage" \in Faults
          /\ UNCHANGED staging
          /\ Raises(r) /\ Goto(r, "unstage")
    /\ UNCHANGED <<root, backup, discarded, quarantine, copy, local, result>>

\* Mutated form of MoveAside: the old root is deleted instead of kept.
MoveAsideDeletes(r) ==
    /\ pc[r] = "moveAside"
    /\ root' = Absent
    /\ Goto(r, "swap")
    /\ UNCHANGED <<staging, backup, discarded, quarantine, copy, local, error, result>>

\* if root.exists(): os.replace(root, backup).
MoveAside(r) ==
    /\ pc[r] = "moveAside"
    /\ \/ /\ root = Absent
          /\ Goto(r, "swap")
          /\ UNCHANGED <<root, backup, moved, error>>
       \/ /\ root # Absent
          /\ backup' = [backup EXCEPT ![r] = root] /\ root' = Absent
          /\ moved' = [moved EXCEPT ![r] = TRUE]
          /\ Goto(r, "swap")
          /\ UNCHANGED error
       \/ /\ root # Absent /\ "move" \in Faults
          /\ Raises(r) /\ Goto(r, "unstage")
          /\ UNCHANGED <<root, backup, moved>>
    /\ UNCHANGED <<staging, discarded, quarantine, copy, request, existing,
                   config, published, result>>

\* os.replace(staging, root); a root another run has put there refuses it.
Swap(r) ==
    /\ pc[r] = "swap"
    /\ \/ /\ Replaceable(root)
          /\ root' = staging[r] /\ staging' = [staging EXCEPT ![r] = Absent]
          /\ Goto(r, "verify")
          /\ UNCHANGED error
       \/ /\ ~Replaceable(root) \/ "swap" \in Faults
          /\ Raises(r) /\ Goto(r, "unswap")
          /\ UNCHANGED <<root, staging>>
    /\ UNCHANGED <<backup, discarded, quarantine, copy, local, result>>

\* Mutated form of Unswap: the backup is not put back.
UnswapForgets(r) ==
    /\ pc[r] = "unswap"
    /\ Goto(r, "unstage")
    /\ UNCHANGED <<disk, local, error, result>>

\* The inner except clause: the backup goes back unless a root is there again.
\* Whether or not that call succeeds, an OSError is raised.
Unswap(r) ==
    /\ pc[r] = "unswap"
    /\ \/ /\ moved[r] /\ backup[r] # Absent /\ root = Absent
          /\ root' = backup[r] /\ backup' = [backup EXCEPT ![r] = Absent]
       \/ /\ ~(moved[r] /\ backup[r] # Absent /\ root = Absent) \/ "restore" \in Faults
          /\ UNCHANGED <<root, backup>>
    /\ Goto(r, "unstage")
    /\ UNCHANGED <<staging, discarded, quarantine, copy, local, error, result>>

\* The finally clause of _publish_state, and the failure it ends in.
Unstage(r) ==
    /\ pc[r] = "unstage"
    /\ \/ staging' = [staging EXCEPT ![r] = Absent]
       \/ /\ staging[r] # Absent /\ "discard" \in Faults
          /\ \E d \in Remains(staging[r]) : staging' = [staging EXCEPT ![r] = d]
    /\ Stop(r, "failed")
    /\ error' = [error EXCEPT ![r] = FALSE]
    /\ UNCHANGED <<root, backup, discarded, quarantine, copy, local>>

\* _state_or_failure: the published root is read back.  Any intact root will
\* do, whoever published it.
VerifyReceipt(r) ==
    /\ pc[r] = "verify"
    /\ IF Intact(root)
         THEN Goto(r, "probe") /\ UNCHANGED <<error, result>>
         ELSE Emit(r, "failed") /\ Raises(r) /\ Goto(r, "rollback")
    /\ UNCHANGED <<disk, local>>

\* _verify_host: the native readiness export succeeds or fails.
VerifyHost(r) ==
    /\ pc[r] = "probe"
    /\ \/ Goto(r, "dropBackup") /\ UNCHANGED <<error, result>>
       \/ Emit(r, "failed") /\ Raises(r) /\ Goto(r, "rollback")
    /\ UNCHANGED <<disk, local>>

\* Mutated form of DropBackup: the backup is left where it is.
DropBackupNever(r) ==
    /\ pc[r] = "dropBackup"
    /\ Stop(r, "ok")
    /\ UNCHANGED <<disk, local, error>>

\* shutil.rmtree(backup), still inside the try: its failure rolls back too.
DropBackup(r) ==
    /\ pc[r] = "dropBackup"
    /\ \/ /\ backup' = [backup EXCEPT ![r] = Absent]
          /\ Stop(r, "ok")
          /\ UNCHANGED error
       \/ /\ backup[r] # Absent /\ "drop_backup" \in Faults
          /\ \E d \in Remains(backup[r]) : backup' = [backup EXCEPT ![r] = d]
          /\ Raises(r) /\ Goto(r, "rollback")
          /\ UNCHANGED result
    /\ UNCHANGED <<root, staging, discarded, quarantine, copy, local>>

\* Mutated form of Rollback: the except clause reports the failure it has caught.
RollbackReports(r) ==
    /\ pc[r] = "rollback"
    /\ IF published[r]
         THEN /\ root' = Absent /\ discarded' = [discarded EXCEPT ![r] = root]
              /\ Goto(r, "restore")
         ELSE Goto(r, "end") /\ UNCHANGED <<root, discarded>>
    /\ Emit(r, "failed")
    /\ UNCHANGED <<staging, backup, quarantine, copy, local, error>>

\* _rollback_published_state, only if this run published: the root is set
\* aside, ...
Rollback(r) ==
    /\ pc[r] = "rollback"
    /\ \/ /\ ~published[r]
          /\ Goto(r, "end")
          /\ UNCHANGED <<root, discarded>>
       \/ /\ published[r]
          /\ root' = Absent
          /\ discarded' = [discarded EXCEPT ![r] = root]
          /\ Goto(r, "restore")
       \/ /\ published[r] /\ root # Absent /\ "restore" \in Faults
          /\ Goto(r, "end")
          /\ UNCHANGED <<root, discarded>>
    /\ UNCHANGED <<staging, backup, quarantine, copy, local, error, result>>

\* ... the backup comes back, ...
Restore(r) ==
    /\ pc[r] = "restore"
    /\ LET due == moved[r] /\ backup[r] # Absent
       IN  \/ /\ due /\ Replaceable(root)
              /\ root' = backup[r] /\ backup' = [backup EXCEPT ![r] = Absent]
              /\ Goto(r, "discard")
           \/ /\ ~due
              /\ Goto(r, "discard")
              /\ UNCHANGED <<root, backup>>
           \/ /\ due /\ (~Replaceable(root) \/ "restore" \in Faults)
              /\ Goto(r, "end")
              /\ UNCHANGED <<root, backup>>
    /\ UNCHANGED <<staging, discarded, quarantine, copy, local, error, result>>

\* ... and what was set aside is deleted, as far as that goes.
Discard(r) ==
    /\ pc[r] = "discard"
    /\ \/ discarded' = [discarded EXCEPT ![r] = Absent]
       \/ /\ discarded[r] # Absent /\ "discard" \in Faults
          /\ \E d \in Remains(discarded[r]) : discarded' = [discarded EXCEPT ![r] = d]
    /\ Goto(r, "end")
    /\ UNCHANGED <<root, staging, backup, quarantine, copy, local, error, result>>

Install(r) ==
    \/ InstallBegins(r) \/ StageConfig(r) \/ StageReceipt(r) \/ MoveAside(r)
    \/ Swap(r) \/ Unswap(r) \/ Unstage(r) \/ VerifyReceipt(r) \/ VerifyHost(r)
    \/ DropBackup(r) \/ Rollback(r) \/ Restore(r) \/ Discard(r)

-----------------------------------------------------------------------------
(* uninstall: _run_uninstall and _remove_state.                            *)

UninstallBegins(r) ==
    /\ pc[r] = "start" /\ MayStart
    /\ request[r].command = "uninstall"
    /\ \/ root = Absent /\ Stop(r, "ok") /\ UNCHANGED existing
       \/ /\ root # Absent /\ ~Intact(root)
          /\ Stop(r, "failed") /\ UNCHANGED existing
       \/ /\ Intact(root)
          /\ existing' = [existing EXCEPT ![r] = root.config]
          /\ IF request[r].execute THEN Goto(r, "copyConfig") /\ UNCHANGED result
                                   ELSE Stop(r, "planned")
    /\ UNCHANGED <<disk, request, config, published, moved, error>>

\* Mutated form of CopyConfig: only the top level of the root is copied.
CopyConfigOnly(r) ==
    /\ pc[r] = "copyConfig" /\ root # Absent
    /\ copy' = [copy EXCEPT ![r] = [root EXCEPT !.receipt = NoFile]]
    /\ Goto(r, "quarantine")
    /\ UNCHANGED <<root, staging, backup, discarded, quarantine, local, error, result>>

\* shutil.copytree(root, copy): before the try, so its failure cleans up
\* nothing.
CopyConfig(r) ==
    /\ pc[r] = "copyConfig"
    /\ \/ /\ root # Absent
          /\ copy' = [copy EXCEPT ![r] = [root EXCEPT !.receipt = NoFile]]
          /\ Goto(r, "copyReceipt")
          /\ UNCHANGED result
       \/ /\ root = Absent \/ "copy" \in Faults
          /\ copy' \in {[copy EXCEPT ![r] = d] :
                          d \in IF root = Absent THEN {Absent} ELSE {Absent, EmptyDir}}
          /\ Stop(r, "failed")
    /\ UNCHANGED <<root, staging, backup, discarded, quarantine, local, error>>

CopyReceipt(r) ==
    /\ pc[r] = "copyReceipt"
    /\ \/ /\ root # Absent
          /\ copy' = [copy EXCEPT ![r].receipt = root.receipt]
          /\ Goto(r, "quarantine")
          /\ UNCHANGED result
       \/ /\ root = Absent \/ "copy" \in Faults
          /\ Stop(r, "failed")
          /\ UNCHANGED copy
    /\ UNCHANGED <<root, staging, backup, discarded, quarantine, local, error>>

\* os.replace(root, quarantine): whatever the root is by now.
Quarantine(r) ==
    /\ pc[r] = "quarantine"
    /\ \/ /\ root # Absent
          /\ quarantine' = [quarantine EXCEPT ![r] = root] /\ root' = Absent
          /\ Goto(r, "delete")
          /\ UNCHANGED error
       \/ /\ root = Absent \/ "quarantine" \in Faults
          /\ Raises(r) /\ Goto(r, "dropCopy")
          /\ UNCHANGED <<root, quarantine>>
    /\ UNCHANGED <<staging, backup, discarded, copy, local, result>>

\* shutil.rmtree(quarantine).
Delete(r) ==
    /\ pc[r] = "delete"
    /\ \/ /\ quarantine' = [quarantine EXCEPT ![r] = Absent]
          /\ Goto(r, "dropCopy")
          /\ UNCHANGED error
       \/ /\ "delete" \in Faults
          /\ \E d \in Remains(quarantine[r]) : quarantine' = [quarantine EXCEPT ![r] = d]
          /\ Raises(r) /\ Goto(r, "undelete")
    /\ UNCHANGED <<root, staging, backup, discarded, copy, local, result>>

\* Its except clause: the safety copy becomes the root.
Undelete(r) ==
    /\ pc[r] = "undelete"
    /\ \/ /\ copy[r] # Absent /\ root = Absent
          /\ root' = copy[r] /\ copy' = [copy EXCEPT ![r] = Absent]
       \/ /\ ~(copy[r] # Absent /\ root = Absent) \/ "restore" \in Faults
          /\ UNCHANGED <<root, copy>>
    /\ Goto(r, "dropCopy")
    /\ UNCHANGED <<staging, backup, discarded, quarantine, local, error, result>>

\* The finally clause: the copy is deleted unless it is the last one left; and
\* the report.
DropCopy(r) ==
    /\ pc[r] = "dropCopy"
    /\ LET due == copy[r] # Absent /\ (root # Absent \/ quarantine[r] = Absent)
       IN  \/ /\ due /\ copy' = [copy EXCEPT ![r] = Absent]
              /\ Stop(r, IF error[r] THEN "failed" ELSE "ok")
           \/ /\ ~due /\ UNCHANGED copy
              /\ Stop(r, IF error[r] THEN "failed" ELSE "ok")
           \/ /\ due /\ "drop_copy" \in Faults
              /\ \E d \in Remains(copy[r]) : copy' = [copy EXCEPT ![r] = d]
              /\ Stop(r, "failed")
    /\ error' = [error EXCEPT ![r] = FALSE]
    /\ UNCHANGED <<root, staging, backup, discarded, quarantine, local>>

Uninstall(r) ==
    \/ UninstallBegins(r) \/ CopyConfig(r) \/ CopyReceipt(r) \/ Quarantine(r)
    \/ Delete(r) \/ Undelete(r) \/ DropCopy(r)

-----------------------------------------------------------------------------
(* The read-only commands: _run_read_only.                                 *)

\* status needs an intact receipt; verify, doctor and configure go on without
\* one, and with a complete configuration probe the host.
ReadOnly(r) ==
    /\ pc[r] = "start" /\ MayStart
    /\ request[r].command \in {"status", "verify"}
    /\ LET stored == IF HasReceipt(root) THEN root.config ELSE NoFile
       IN  \/ /\ \/ request[r].command = "status" /\ Intact(root)
                 \/ /\ request[r].command = "verify"
                    /\ HasReceipt(root) => Intact(root)
                    /\ Configured(request[r].want, stored) \in Configs
              /\ Stop(r, "ok")
           \/ /\ request[r].command = "verify" \/ ~Intact(root)
              /\ Stop(r, "failed")
    /\ UNCHANGED <<disk, local, error>>

\* The process dies.
Crash(r) ==
    /\ "crash" \in Faults
    /\ Active(r)
    /\ Goto(r, "crashed")
    /\ UNCHANGED <<disk, local, error, result>>

Step(r) == Install(r) \/ Uninstall(r) \/ ReadOnly(r)

Next == \E r \in Runs : Step(r) \/ Crash(r)

Spec == Init /\ [][Next]_vars

-----------------------------------------------------------------------------
(* Properties.                                                             *)

\* The type of every variable.
TypeOK ==
    /\ root \in Directories
    /\ staging \in [Runs -> Directories] /\ backup \in [Runs -> Directories]
    /\ discarded \in [Runs -> Directories] /\ quarantine \in [Runs -> Directories]
    /\ copy \in [Runs -> Directories]
    /\ pc \in [Runs -> {"start", "stageConfig", "stageReceipt", "moveAside",
                        "swap", "unswap", "unstage", "verify", "probe",
                        "dropBackup", "rollback", "restore", "discard",
                        "copyConfig", "copyReceipt", "quarantine", "delete",
                        "undelete", "dropCopy", "end", "crashed"}]
    /\ request \in [Runs -> Requests]
    /\ existing \in [Runs -> Configs \cup {NoFile}]
    /\ config \in [Runs -> Configs \cup {NoConfig}]
    /\ published \in [Runs -> BOOLEAN] /\ moved \in [Runs -> BOOLEAN]
    /\ error \in [Runs -> BOOLEAN]
    /\ result \in [Runs -> {"none", "ok", "planned", "failed", "several"}]

OnDisk == {root} \cup UNION {{backup[r], discarded[r], quarantine[r], copy[r]} : r \in Runs}

\* From an intact root on, an intact state stays on the disk, in the root or
\* beside it, through every publication and every rollback of overlapping runs,
\* until somebody asks for an uninstall.
NeverLosesState ==
    /\ \A d \in Roots : Intact(d)
    /\ \A r \in Runs : request[r].command = "uninstall" => pc[r] = "start"
    => \E d \in OnDisk : Intact(d)

\* An uninstall keeps an intact copy of what it removes until the removal is
\* done: in the root, in the quarantine or in the safety copy.
UninstallKeepsACopy ==
    \A r \in Runs :
        \/ pc[r] \in {"copyConfig", "copyReceipt", "quarantine", "delete", "undelete"}
        \/ pc[r] = "dropCopy" /\ error[r]
        => \E d \in {root, quarantine[r], copy[r]} : d = Managed(existing[r])

\* A run that reports success leaves nothing beside the root.
OkLeavesNothing ==
    \A r \in Runs : result[r] = "ok" =>
        \A d \in {staging, backup, discarded, quarantine, copy} : d[r] = Absent

\* install.py, main: "emit exactly one JSON result".  No run prints two, however
\* a report, the exception it raises and the rollback behind it follow each
\* other.  A run that ends prints one, but for one end: an install whose backup
\* could not be deleted rolls back and is left by that OSError without any.
ReportsOnce ==
    \A r \in Runs :
        /\ result[r] # "several"
        /\ pc[r] = "end" /\ result[r] = "none" =>
              "drop_backup" \in Faults /\ moved[r] /\ error[r]

\* What an operator who runs one command at a time sees: the root, or what the
\* running command found there while it is still under way.
Seen ==
    IF \E r \in Runs : Active(r)
      THEN existing[CHOOSE r \in Runs : Active(r)]
      ELSE IF root = Absent THEN NoFile
      ELSE IF Intact(root) THEN root.config ELSE Absent

Transactions == INSTANCE Lifecycle WITH
    None <- NoFile,
    Foreign <- Absent,
    state <- Seen,
    report <- [r \in Runs |-> IF pc[r] = "end" THEN result[r] ELSE "none"]

\* Commands that do not overlap are transactions.
RunsAreTransactions == Transactions!Spec
=============================================================================
