--------------------------- MODULE LifecycleProofs ---------------------------
(***************************************************************************)
(* Theorems about commands that do not overlap, for every set of runs,     *)
(* every command line and every initial root: what an uninstall keeps, and *)
(* that commands are the transactions of Lifecycle.                        *)
(***************************************************************************)
EXTENDS ManagedStateProofs

-----------------------------------------------------------------------------
(* One result.                                                             *)

\* A run has printed nothing before its last step or the failure it rolls back,
\* and rolls back without a report only after it could not delete its backup.
Reported(r) ==
    /\ result[r] # "several"
    /\ backup[r] # Absent => moved[r]
    /\ pc[r] \notin {"rollback", "restore", "discard", "end", "crashed"} =>
          result[r] = "none"
    /\ pc[r] \in {"rollback", "restore", "discard"} => error[r]
    /\ pc[r] \in {"rollback", "restore", "discard", "end"} /\ result[r] = "none" =>
          "drop_backup" \in Faults /\ moved[r] /\ error[r]

-----------------------------------------------------------------------------
(* Commands that do not overlap.                                           *)

\* At most one command is under way.
Alone == \A r, t \in Runs : Active(r) /\ Active(t) => r = t

\* What an uninstall has on the disk at each step, whatever may fail.
Removing(r) ==
    /\ pc[r] \in UninstallSteps => existing[r] \in Configs
    /\ pc[r] \in {"copyConfig", "copyReceipt", "quarantine"} => root = Managed(existing[r])
    /\ pc[r] = "copyReceipt" => copy[r] = [Managed(existing[r]) EXCEPT !.receipt = NoFile]
    /\ pc[r] \in {"quarantine", "delete", "undelete"} => copy[r] = Managed(existing[r])
    /\ pc[r] = "delete" => quarantine[r] = Managed(existing[r])
    /\ pc[r] \in {"delete", "undelete"} => root = Absent
    /\ pc[r] = "undelete" => quarantine[r] # Absent
    /\ pc[r] = "dropCopy" =>
          IF error[r] THEN Managed(existing[r]) \in {root, copy[r]} ELSE root = Absent

\* The root that stands for a configuration, or for none.
RootOf(c) == IF c = NoFile THEN Absent ELSE Managed(c)

\* Calls that can fail without taking the transaction with them.
Rollbacks == {"restore", "drop_backup", "drop_copy", "crash"}

\* What an install or an upgrade has on the disk at each step, as long as no
\* rollback fails.
Publishing(r) ==
    LET kept == /\ moved[r] <=> existing[r] # NoFile
                /\ backup[r] = RootOf(existing[r])
    IN  /\ pc[r] = "start" => ~moved[r]
        /\ pc[r] \in InstallSteps =>
              /\ request[r].command \in {"install", "upgrade"} /\ request[r].execute
              /\ config[r] \in Configs
              /\ config[r] = Configured(request[r].want, existing[r])
              /\ published[r] <=> config[r] # existing[r]
              /\ request[r].command = "install" => existing[r] \in {NoFile, config[r]}
              /\ request[r].command = "upgrade" => existing[r] # NoFile
        /\ pc[r] \in {"stageConfig", "stageReceipt", "moveAside"} =>
              root = RootOf(existing[r]) /\ ~moved[r]
        /\ pc[r] = "stageReceipt" => staging[r] = [EmptyDir EXCEPT !.config = config[r]]
        /\ pc[r] \in {"moveAside", "swap"} => staging[r] = Managed(config[r])
        /\ pc[r] \in {"swap", "unswap"} => root = Absent /\ kept
        /\ pc[r] = "unstage" => root = RootOf(existing[r])
        /\ pc[r] \in {"verify", "probe", "dropBackup", "rollback"} =>
              root = Managed(config[r]) /\ (published[r] => kept)
        /\ pc[r] = "restore" => root = Absent /\ kept
        /\ pc[r] = "discard" => root = RootOf(existing[r])

\* And how a run ends.
Ending(r) ==
    /\ pc[r] \in UninstallSteps => request[r].execute
    /\ pc[r] \in {"start", "copyConfig", "copyReceipt", "quarantine", "delete"} => ~error[r]
    /\ pc[r] = "dropCopy" /\ error[r] => root = Managed(existing[r])
    /\ pc[r] \in {"rollback", "restore", "discard"} => result[r] = "failed"
    /\ pc[r] \notin {"rollback", "restore", "discard", "end"} => result[r] = "none"
    /\ pc[r] # "crashed"

-----------------------------------------------------------------------------
(* Proof of the single result.                                             *)

LEMMA ReportedStep ==
    ASSUME TypeOK, NEW r \in Runs, Reported(r), Step(r) \/ Crash(r)
    PROVE  Reported(r)'
<1> USE DEF TypeOK, Reported, Goto, Emit, Stop, Raises, disk, local
<1>1. CASE InstallBegins(r)  BY <1>1 DEF InstallBegins
<1>2. CASE StageConfig(r)  BY <1>2 DEF StageConfig
<1>3. CASE StageReceipt(r)  BY <1>3 DEF StageReceipt
<1>4. CASE MoveAside(r)  BY <1>4 DEF MoveAside
<1>5. CASE Swap(r)  BY <1>5 DEF Swap
<1>6. CASE Unswap(r)  BY <1>6 DEF Unswap
<1>7. CASE Unstage(r)  BY <1>7 DEF Unstage
<1>8. CASE VerifyReceipt(r)  BY <1>8 DEF VerifyReceipt
<1>9. CASE VerifyHost(r)  BY <1>9 DEF VerifyHost
<1>10. CASE DropBackup(r)  BY <1>10 DEF DropBackup
<1>11. CASE Rollback(r)  BY <1>11 DEF Rollback
<1>12. CASE Restore(r)  BY <1>12 DEF Restore
<1>13. CASE Discard(r)  BY <1>13 DEF Discard
<1>14. CASE UninstallBegins(r)  BY <1>14 DEF UninstallBegins
<1>15. CASE CopyConfig(r)  BY <1>15 DEF CopyConfig
<1>16. CASE CopyReceipt(r)  BY <1>16 DEF CopyReceipt
<1>17. CASE Quarantine(r)  BY <1>17 DEF Quarantine
<1>18. CASE Delete(r)  BY <1>18 DEF Delete
<1>19. CASE Undelete(r)  BY <1>19 DEF Undelete
<1>20. CASE DropCopy(r)  BY <1>20 DEF DropCopy
<1>21. CASE ReadOnly(r)  BY <1>21 DEF ReadOnly
<1>22. CASE Crash(r)  BY <1>22 DEF Crash
<1> QED
  BY <1>1, <1>2, <1>3, <1>4, <1>5, <1>6, <1>7, <1>8, <1>9, <1>10, <1>11,
     <1>12, <1>13, <1>14, <1>15, <1>16, <1>17, <1>18, <1>19, <1>20, <1>21, <1>22
  DEF Step, Install, Uninstall

\* install.py, main: however runs overlap and whatever fails, no run prints two
\* results, and a run that ends has printed one, except when the deletion of its
\* backup has failed.
THEOREM EveryEndIsReported == Spec => []ReportsOnce
<1> DEFINE AllReported == \A r \in Runs : Reported(r)
<1>1. Init => AllReported  BY DEF Init, Reported
<1>2. TypeOK /\ AllReported /\ [Next]_vars => AllReported'
  <2> SUFFICES ASSUME TypeOK, AllReported, [Next]_vars PROVE AllReported'
    OBVIOUS
  <2>1. CASE UNCHANGED vars  BY <2>1 DEF Reported, vars, disk, local
  <2>2. ASSUME NEW r \in Runs, Step(r) \/ Crash(r) PROVE AllReported'
    <3>1. Reported(r)'  BY <2>2, ReportedStep
    <3>2. ASSUME NEW t \in Runs \ {r} PROVE Reported(t)'
      BY <2>2, Frame DEF Reported
    <3> QED  BY <3>1, <3>2
  <2> QED  BY <2>1, <2>2 DEF Next
<1>3. AllReported => ReportsOnce  BY DEF Reported, ReportsOnce
<1> HIDE DEF AllReported
<1> QED  BY <1>1, <1>2, <1>3, TypeCorrect, PTL DEF Spec

-----------------------------------------------------------------------------
(* Proof of the safety copy.                                               *)

LEMMA AloneStep ==
    ASSUME ~Overlap, TypeOK, Alone, NEW r \in Runs, Step(r) \/ Crash(r)
    PROVE  /\ Alone'
           /\ \A t \in Runs \ {r} : ~Active(t) /\ ~Active(t)'
<1>1. Active(r) \/ MayStart
  BY DEF Step, Crash, Install, Uninstall, Active,
         InstallBegins, StageConfig, StageReceipt, MoveAside, Swap, Unswap, Unstage,
         VerifyReceipt, VerifyHost, DropBackup, Rollback, Restore, Discard,
         UninstallBegins, CopyConfig, CopyReceipt, Quarantine, Delete, Undelete,
         DropCopy, ReadOnly
<1>2. \A t \in Runs \ {r} : ~Active(t)
  BY <1>1 DEF Alone, MayStart
<1>3. \A t \in Runs \ {r} : ~Active(t)'
  BY <1>2, Frame DEF Active
<1> QED  BY <1>2, <1>3 DEF Alone

\* A managed root is what its configuration says.
LEMMA IntactIsManaged ==
    ASSUME NEW d \in Directories, Intact(d)
    PROVE  d.config \in Configs /\ d = Managed(d.config)
<1>1. d \in Contents  BY DEF Intact, Directories
<1>2. d = [config |-> d.config, receipt |-> d.receipt, extra |-> d.extra]
  BY <1>1 DEF Contents
<1>3. d.receipt \in Configs /\ d.config = d.receipt /\ d.extra = FALSE
  BY <1>1 DEF Intact, Contents
<1> QED  BY <1>2, <1>3 DEF Managed

LEMMA Patched ==
    ASSUME NEW c, NEW d, NEW e, NEW x
    PROVE  [[config |-> c, receipt |-> d, extra |-> x] EXCEPT !.receipt = e]
                = [config |-> c, receipt |-> e, extra |-> x]
OBVIOUS

LEMMA Started ==
    ASSUME NEW c, NEW d, NEW e, NEW x
    PROVE  [[config |-> d, receipt |-> e, extra |-> x] EXCEPT !.config = c]
                = [config |-> c, receipt |-> e, extra |-> x]
OBVIOUS

LEMMA Completed ==
    ASSUME NEW c, NEW d, NEW x
    PROVE  [[[config |-> d, receipt |-> d, extra |-> x] EXCEPT !.config = c] EXCEPT !.receipt = c]
                = [config |-> c, receipt |-> c, extra |-> x]
<1>1. [[config |-> d, receipt |-> d, extra |-> x] EXCEPT !.config = c]
        = [config |-> c, receipt |-> d, extra |-> x]
  BY Started
<1>2. [[config |-> c, receipt |-> d, extra |-> x] EXCEPT !.receipt = c]
        = [config |-> c, receipt |-> c, extra |-> x]
  BY Patched
<1> QED  BY <1>1, <1>2, Zenon

LEMMA Recopied ==
    ASSUME NEW c, NEW d, NEW x
    PROVE  [[[config |-> c, receipt |-> c, extra |-> x] EXCEPT !.receipt = d] EXCEPT !.receipt = c]
                = [config |-> c, receipt |-> c, extra |-> x]
<1>1. [[config |-> c, receipt |-> c, extra |-> x] EXCEPT !.receipt = d]
        = [config |-> c, receipt |-> d, extra |-> x]
  BY Patched
<1>2. [[config |-> c, receipt |-> d, extra |-> x] EXCEPT !.receipt = c]
        = [config |-> c, receipt |-> c, extra |-> x]
  BY Patched
<1> QED  BY <1>1, <1>2, Zenon

LEMMA ManagedIsIntact ==
    ASSUME NEW c \in Configs
    PROVE  /\ Managed(c) \in Directories \ {Absent} /\ Intact(Managed(c))
           /\ Managed(c).config = c
           /\ [Managed(c) EXCEPT !.receipt = NoFile] # Absent
           /\ [[Managed(c) EXCEPT !.receipt = NoFile] EXCEPT !.receipt = c] = Managed(c)
           /\ [[EmptyDir EXCEPT !.config = c] EXCEPT !.receipt = c] = Managed(c)
           /\ EmptyDir # Managed(c)
<1>1. /\ Managed(c) \in Contents
      /\ Managed(c).config = c /\ Managed(c).receipt = c /\ ~Managed(c).extra
  BY FALSE \in BOOLEAN DEF Managed, Contents
<1>2. c # NoFile /\ Absent \notin Contents  BY ManagedStateAssumption
<1>3. [Managed(c) EXCEPT !.receipt = NoFile] \in Contents
  BY FALSE \in BOOLEAN DEF Managed, Contents
<1>4. EmptyDir.config = NoFile  BY DEF EmptyDir
<1>5. [[Managed(c) EXCEPT !.receipt = NoFile] EXCEPT !.receipt = c] = Managed(c)
  BY Recopied, Zenon DEF Managed
<1>6. [[EmptyDir EXCEPT !.config = c] EXCEPT !.receipt = c] = Managed(c)
  BY Completed, Zenon DEF Managed, EmptyDir
<1>7. Managed(c) \in Directories \ {Absent} /\ Intact(Managed(c))
  BY <1>1, <1>2 DEF Directories, Intact
<1>8. [Managed(c) EXCEPT !.receipt = NoFile] # Absent
  BY <1>2, <1>3
<1> QED
  BY <1>1, <1>2, <1>4, <1>5, <1>6, <1>7, <1>8

LEMMA RemovingStep ==
    ASSUME TypeOK, NEW r \in Runs, Local(r), Removing(r), Step(r) \/ Crash(r)
    PROVE  Removing(r)'
<1> USE DEF TypeOK, Removing, UninstallSteps, InstallSteps, Goto, Emit, Stop, Raises,
            disk, local
<1> HIDE DEF Managed
<1>1. CASE Install(r)
  <2>1. pc'[r] \notin UninstallSteps
    BY <1>1 DEF Install, InstallBegins, StageConfig, StageReceipt, MoveAside, Swap, Unswap,
           Unstage, VerifyReceipt, VerifyHost, DropBackup, Rollback, Restore, Discard
  <2> QED  BY <2>1
<1>2. CASE UninstallBegins(r)
  BY <1>2, IntactIsManaged DEF UninstallBegins
<1>3. CASE CopyConfig(r)
  BY <1>3 DEF CopyConfig
<1>4. CASE CopyReceipt(r)
  <2>1. existing[r] \in Configs /\ root = Managed(existing[r])
    BY <1>4 DEF CopyReceipt
  <2>2. root.receipt = existing[r]  BY <2>1 DEF Managed
  <2> DEFINE c == [copy[r] EXCEPT !.receipt = existing[r]]
  <2>5. c = Managed(existing[r])
    <3>1. copy[r] = [Managed(existing[r]) EXCEPT !.receipt = NoFile]
      BY <1>4 DEF CopyReceipt
    <3> QED  BY <2>1, <3>1, ManagedIsIntact
  <2>6. copy' = [copy EXCEPT ![r] = c] \/ pc'[r] = "end"
    BY <1>4, <2>2 DEF CopyReceipt
  <2>3. copy'[r] = Managed(existing[r]) \/ pc'[r] = "end"
    <3> HIDE DEF c
    <3> QED  BY <2>5, <2>6
  <2>4. pc'[r] \in {"quarantine", "end"} /\ root' = root /\ existing' = existing
    BY <1>4 DEF CopyReceipt
  <2> QED  BY <2>1, <2>3, <2>4
<1>5. CASE Quarantine(r)
  BY <1>5, ManagedIsIntact DEF Quarantine
<1>6. CASE Delete(r)
  <2>1. \A d : Absent \notin Remains(d)
    BY ManagedStateAssumption DEF Remains
  <2>2. /\ existing[r] \in Configs /\ copy[r] = Managed(existing[r]) /\ root = Absent
        /\ UNCHANGED <<root, copy, existing>>
    BY <1>6 DEF Delete
  <2>3. \/ pc'[r] = "dropCopy"
        \/ pc'[r] = "undelete" /\ quarantine'[r] # Absent
    BY <1>6, <2>1 DEF Delete
  <2> QED  BY <2>2, <2>3
<1>7. CASE Undelete(r)
  BY <1>7, ManagedIsIntact DEF Undelete, Local
<1>8. CASE DropCopy(r)
  BY <1>8 DEF DropCopy
<1>9. CASE ReadOnly(r)
  BY <1>9 DEF ReadOnly
<1>10. CASE Crash(r)
  BY <1>10 DEF Crash
<1> QED
  BY <1>1, <1>2, <1>3, <1>4, <1>5, <1>6, <1>7, <1>8, <1>9, <1>10
  DEF Step, Uninstall

Serial == Inv /\ Alone /\ \A r \in Runs : Removing(r)

LEMMA SerialInit == Init => Serial
<1>1. Init => Alone /\ \A r \in Runs : Removing(r)
  BY DEF Init, Alone, Active, Removing, UninstallSteps
<1> QED  BY <1>1, InvInit DEF Serial

LEMMA SerialStep ==
    ASSUME ~Overlap PROVE Serial /\ [Next]_vars => Serial'
<1> SUFFICES ASSUME Serial, [Next]_vars PROVE Serial'
  OBVIOUS
<1>1. Inv /\ TypeOK /\ Inv'  BY InvStep DEF Serial, Inv
<1>2. CASE UNCHANGED vars
  BY <1>1, <1>2 DEF Serial, Alone, Active, Removing, vars, disk, local
<1>3. ASSUME NEW r \in Runs, Step(r) \/ Crash(r) PROVE Serial'
  <2>1. Alone' /\ \A t \in Runs \ {r} : ~Active(t) /\ ~Active(t)'
    BY <1>1, <1>3, AloneStep DEF Serial
  <2>2. Removing(r)'
    <3>1. Local(r) /\ Removing(r)  BY <1>1 DEF Serial, Inv
    <3> QED  BY <1>1, <1>3, <3>1, RemovingStep
  <2>3. ASSUME NEW t \in Runs \ {r} PROVE Removing(t)'
    BY <2>1 DEF Removing, Active, UninstallSteps
  <2> QED  BY <1>1, <2>1, <2>2, <2>3 DEF Serial
<1> QED  BY <1>2, <1>3 DEF Next

\* install.py, _remove_state: commands run one after another, an uninstall has
\* an intact copy of what it removes until the removal is done, wherever it
\* fails or dies.
THEOREM RemovalKeepsACopy ==
    ASSUME ~Overlap PROVE Spec => []UninstallKeepsACopy
<1>1. Serial => UninstallKeepsACopy
  BY DEF Serial, Removing, UninstallKeepsACopy
<1> QED  BY <1>1, SerialInit, SerialStep, PTL DEF Spec

-----------------------------------------------------------------------------
(* Proof that commands are transactions.                                   *)

LEMMA RootOfNothing ==
    \A c \in Configs \cup {NoFile} : c # NoFile <=> RootOf(c) # Absent
<1>1. \A c \in Configs : Managed(c) # Absent  BY ManagedIsIntact
<1>2. NoFile \notin Configs  BY ManagedStateAssumption
<1> QED  BY <1>1, <1>2 DEF RootOf

LEMMA PublishingStep ==
    ASSUME Faults \cap Rollbacks = {}, TypeOK, NEW r \in Runs, Local(r), Publishing(r),
           Step(r) \/ Crash(r)
    PROVE  Publishing(r)'
<1> USE DEF TypeOK, Publishing, RootOf, UninstallSteps, InstallSteps, Goto, Emit, Stop,
            Raises, disk, local
<1> HIDE DEF Managed, Configured, EmptyDir, Configs
<1>1. "restore" \notin Faults /\ "drop_backup" \notin Faults /\ "crash" \notin Faults
  BY DEF Rollbacks
<1>2. CASE InstallBegins(r)
  <2>1. Intact(root) => root.config \in Configs /\ root = Managed(root.config)
    BY IntactIsManaged
  <2>2. CASE pc'[r] = "end"  BY <2>2
  <2>3. CASE pc'[r] # "end"
    <3> DEFINE found == IF root = Absent THEN NoFile ELSE root.config
               wanted == Configured(request[r].want, found)
    <3>0. /\ pc[r] = "start" /\ UNCHANGED <<root, moved, request>>
          /\ request[r].command \in {"install", "upgrade"} /\ request[r].execute
          /\ root = Absent => request[r].command = "install"
          /\ root # Absent => Intact(root)
          /\ wanted \in Configs
          /\ existing' = [existing EXCEPT ![r] = found]
          /\ config' = [config EXCEPT ![r] = wanted]
          /\ published' = [published EXCEPT ![r] = wanted # found]
          /\ request[r].command = "upgrade" \/ found \in {NoFile, wanted}
          /\ pc' = [pc EXCEPT ![r] = IF wanted # found THEN "stageConfig" ELSE "verify"]
      BY <1>2, <2>3, Zenon DEF InstallBegins
    <3>1. /\ pc[r] = "start" /\ ~moved[r] /\ UNCHANGED <<root, moved, request>>
          /\ request[r].command \in {"install", "upgrade"} /\ request[r].execute
          /\ root = Absent => request[r].command = "install"
          /\ root # Absent => Intact(root)
          /\ wanted \in Configs
          /\ existing'[r] = found /\ config'[r] = wanted
          /\ published'[r] <=> wanted # found
          /\ request[r].command = "upgrade" \/ found \in {NoFile, wanted}
          /\ pc'[r] = IF wanted # found THEN "stageConfig" ELSE "verify"
      <4> HIDE DEF found, wanted
      <4> QED  BY <3>0
    <3>2. root = RootOf(found)
      BY <2>1, <3>1, ManagedStateAssumption
    <3>3. found # NoFile <=> root # Absent
      BY <2>1, <3>1, ManagedStateAssumption
    <3>4. wanted = found => root = Managed(wanted)
      BY <3>1, <3>2, ManagedStateAssumption
    <3> HIDE DEF wanted
    <3>5. config'[r] = Configured(request'[r].want, existing'[r])
      BY <3>1 DEF wanted
    <3> HIDE DEF found
    <3> QED  BY <3>1, <3>2, <3>3, <3>4, <3>5
  <2> QED  BY <2>2, <2>3
<1>3. CASE StageConfig(r)
  BY <1>3 DEF StageConfig
<1>4. CASE StageReceipt(r)
  <2>1. config[r] \in Configs /\ staging[r] = [EmptyDir EXCEPT !.config = config[r]]
    BY <1>4 DEF StageReceipt
  <2> DEFINE d == [staging[r] EXCEPT !.receipt = config[r]]
  <2>2. d = Managed(config[r])
    BY <2>1, ManagedIsIntact
  <2>3. staging' = [staging EXCEPT ![r] = d] \/ pc'[r] = "unstage"
    BY <1>4 DEF StageReceipt
  <2>4. staging'[r] = Managed(config[r]) \/ pc'[r] = "unstage"
    <3> HIDE DEF d
    <3> QED  BY <2>2, <2>3
  <2>5. pc'[r] \in {"moveAside", "unstage"} /\ UNCHANGED <<root, moved, request, existing,
                                                           config, published>>
    BY <1>4 DEF StageReceipt
  <2> QED  BY <1>4, <2>4, <2>5 DEF StageReceipt
<1>5. CASE MoveAside(r)
  <2>1. backup[r] = Absent /\ root = RootOf(existing[r]) /\ ~moved[r]
    BY <1>5 DEF MoveAside, Local
  <2>2. existing[r] # NoFile <=> root # Absent
    <3> HIDE DEF RootOf
    <3> QED  BY <2>1, RootOfNothing
  <2>3. CASE pc'[r] = "unstage"
    BY <1>5, <2>1, <2>3 DEF MoveAside
  <2>4. CASE pc'[r] # "unstage"
    <3>1. /\ pc'[r] = "swap" /\ root' = Absent /\ backup'[r] = root
          /\ moved'[r] <=> root # Absent
      BY <1>5, <2>1, <2>4 DEF MoveAside
    <3>2. /\ pc[r] = "moveAside"
          /\ UNCHANGED <<staging, request, existing, config, published>>
      BY <1>5 DEF MoveAside
    <3> HIDE DEF RootOf
    <3> QED  BY <2>1, <2>2, <3>1, <3>2
  <2> QED  BY <2>3, <2>4
<1>6. CASE Swap(r)
  BY <1>6 DEF Swap
<1>7. CASE Unswap(r)
  <2>1. /\ root = Absent /\ backup[r] = RootOf(existing[r])
        /\ moved[r] <=> existing[r] # NoFile
    BY <1>7 DEF Unswap
  <2>2. existing[r] # NoFile <=> backup[r] # Absent
    <3> HIDE DEF RootOf
    <3> QED  BY <2>1, RootOfNothing
  <2>3. pc'[r] = "unstage" /\ root' = RootOf(existing[r])
    <3>1. pc'[r] = "unstage" /\ (root' = backup[r] \/ (root' = root /\ ~moved[r]))
      <4>1. moved[r] <=> backup[r] # Absent
        BY <2>1, <2>2, Zenon
      <4>2. pc'[r] = "unstage"  BY <1>7 DEF Unswap
      <4>3. root' = backup[r] \/ (root' = root /\ ~moved[r])
        BY <1>1, <1>7, <2>1, <4>1, Zenon DEF Unswap
      <4> QED  BY <4>2, <4>3, Zenon
    <3> QED  BY <2>1, <2>2, <3>1
  <2> QED  BY <1>7, <2>3 DEF Unswap
<1>8. CASE Unstage(r)
  BY <1>8 DEF Unstage
<1>9. CASE VerifyReceipt(r)
  BY <1>9 DEF VerifyReceipt
<1>10. CASE VerifyHost(r)
  BY <1>10 DEF VerifyHost
<1>11. CASE DropBackup(r)
  BY <1>1, <1>11 DEF DropBackup
<1>12. CASE Rollback(r)
  BY <1>12 DEF Rollback
<1>13. CASE Restore(r)
  <2>1. /\ root = Absent /\ backup[r] = RootOf(existing[r])
        /\ moved[r] <=> existing[r] # NoFile
    BY <1>13 DEF Restore
  <2>2. existing[r] # NoFile <=> backup[r] # Absent
    <3> HIDE DEF RootOf
    <3> QED  BY <2>1, RootOfNothing
  <2>3. pc'[r] = "discard" /\ root' = RootOf(existing[r])
    <3>1. pc'[r] = "discard" /\ (root' = backup[r] \/ (root' = root /\ ~moved[r]))
      <4>1. moved[r] <=> backup[r] # Absent
        BY <2>1, <2>2, Zenon
      <4>2. \/ Goto(r, "discard") /\ root' = backup[r]
            \/ Goto(r, "discard") /\ root' = root /\ ~moved[r]
        <5> HIDE DEF Goto
        <5> QED  BY <1>1, <1>13, <2>1, <4>1, Zenon DEF Restore, Replaceable
      <4>3. Goto(r, "discard") => pc'[r] = "discard"  OBVIOUS
      <4> QED  BY <4>2, <4>3, Zenon
    <3> QED  BY <2>1, <2>2, <3>1
  <2> QED  BY <1>13, <2>3 DEF Restore
<1>14. CASE Discard(r)
  BY <1>14 DEF Discard
<1>15. CASE Uninstall(r)
  <2>1. pc'[r] \in UninstallSteps \cup {"end"}
    BY <1>15 DEF Uninstall, UninstallBegins, CopyConfig, CopyReceipt, Quarantine,
       Delete, Undelete, DropCopy
  <2> QED  BY <2>1
<1>16. CASE ReadOnly(r)
  BY <1>16 DEF ReadOnly
<1>17. CASE Crash(r)
  BY <1>1, <1>17 DEF Crash
<1> QED
  BY <1>2, <1>3, <1>4, <1>5, <1>6, <1>7, <1>8, <1>9, <1>10, <1>11, <1>12, <1>13,
     <1>14, <1>15, <1>16, <1>17
  DEF Step, Install

\* A run that cannot die ends with a report, and is not under way once it has
\* made it, but for its rollback.
LEMMA EndingStep ==
    ASSUME Faults \cap Rollbacks = {}, TypeOK, NEW r \in Runs, Local(r), Removing(r),
           Ending(r), Step(r) \/ Crash(r)
    PROVE  Ending(r)'
<1> USE DEF TypeOK, Ending, UninstallSteps, InstallSteps, Goto, Emit, Stop,
            Raises, disk, local
<1> HIDE DEF Managed, Configured, EmptyDir, Configs
<1>1. "restore" \notin Faults /\ "drop_backup" \notin Faults /\ "crash" \notin Faults
  BY DEF Rollbacks
<1>2. CASE InstallBegins(r)  BY <1>2 DEF InstallBegins
<1>3. CASE StageConfig(r)  BY <1>3 DEF StageConfig
<1>4. CASE StageReceipt(r)  BY <1>4 DEF StageReceipt
<1>5. CASE MoveAside(r)  BY <1>5 DEF MoveAside
<1>6. CASE Swap(r)  BY <1>6 DEF Swap
<1>7. CASE Unswap(r)  BY <1>7 DEF Unswap
<1>8. CASE Unstage(r)  BY <1>8 DEF Unstage
<1>9. CASE VerifyReceipt(r)  BY <1>9 DEF VerifyReceipt
<1>10. CASE VerifyHost(r)  BY <1>10 DEF VerifyHost
<1>11. CASE DropBackup(r)  BY <1>1, <1>11 DEF DropBackup
<1>12. CASE Rollback(r)  BY <1>12 DEF Rollback
<1>13. CASE Restore(r)  BY <1>13 DEF Restore
<1>14. CASE Discard(r)  BY <1>14 DEF Discard
<1>15. CASE UninstallBegins(r)  BY <1>15 DEF UninstallBegins
<1>16. CASE CopyConfig(r)  BY <1>16 DEF CopyConfig
<1>17. CASE CopyReceipt(r)  BY <1>17 DEF CopyReceipt
<1>18. CASE Quarantine(r)
  <2>1. root = Managed(existing[r]) /\ existing[r] \in Configs
    BY <1>18 DEF Quarantine, Removing
  <2>2. root # Absent  BY <2>1, ManagedIsIntact
  <2> QED  BY <1>18, <2>1, <2>2 DEF Quarantine
<1>19. CASE Delete(r)  BY <1>19 DEF Delete
<1>20. CASE Undelete(r)
  <2>1. root = Absent /\ copy[r] = Managed(existing[r]) /\ existing[r] \in Configs
    BY <1>20 DEF Undelete, Removing
  <2>2. copy[r] # Absent  BY <2>1, ManagedIsIntact
  <2> QED  BY <1>1, <1>20, <2>1, <2>2 DEF Undelete
<1>21. CASE DropCopy(r)  BY <1>21 DEF DropCopy
<1>22. CASE ReadOnly(r)  BY <1>22 DEF ReadOnly
<1>23. CASE Crash(r)  BY <1>1, <1>23 DEF Crash
<1> QED
  BY <1>2, <1>3, <1>4, <1>5, <1>6, <1>7, <1>8, <1>9, <1>10, <1>11, <1>12, <1>13,
     <1>14, <1>15, <1>16, <1>17, <1>18, <1>19, <1>20, <1>21, <1>22, <1>23
  DEF Step, Install, Uninstall

Commanded == Serial /\ \A r \in Runs : Publishing(r) /\ Ending(r)

LEMMA CommandedInit == Init => Commanded
<1>1. Init => \A r \in Runs : Publishing(r) /\ Ending(r)
  BY DEF Init, Publishing, Ending, InstallSteps, UninstallSteps
<1> QED  BY <1>1, SerialInit DEF Commanded

LEMMA CommandedStep ==
    ASSUME ~Overlap, Faults \cap Rollbacks = {}
    PROVE  Commanded /\ [Next]_vars => Commanded'
<1> SUFFICES ASSUME Commanded, [Next]_vars PROVE Commanded'
  OBVIOUS
<1>1. Serial /\ Serial' /\ Inv /\ TypeOK  BY SerialStep DEF Commanded, Serial, Inv
<1>2. CASE UNCHANGED vars
  BY <1>1, <1>2 DEF Commanded, Publishing, Ending, vars, disk, local
<1>3. ASSUME NEW r \in Runs, Step(r) \/ Crash(r) PROVE Commanded'
  <2>1. Local(r) /\ Removing(r) /\ Publishing(r) /\ Ending(r)
    BY <1>1 DEF Serial, Inv, Commanded
  <2>2. Publishing(r)' /\ Ending(r)'
    BY <1>1, <1>3, <2>1, PublishingStep, EndingStep
  <2>3. ASSUME NEW t \in Runs \ {r} PROVE Publishing(t)' /\ Ending(t)'
    <3>1. ~Active(t)' /\ pc'[t] = pc[t] /\ error'[t] = error[t] /\ result'[t] = result[t]
          /\ moved'[t] = moved[t]
      BY <1>1, <1>3, AloneStep, Frame DEF Serial
    <3>2. Publishing(t) /\ Ending(t)  BY DEF Commanded
    <3> QED
      BY <3>1, <3>2 DEF Active, Publishing, Ending, InstallSteps, UninstallSteps
  <2> QED  BY <1>1, <2>2, <2>3 DEF Commanded
<1> QED  BY <1>2, <1>3 DEF Next

\* What a root says to somebody who looks at it while nothing runs.
Found(d) == IF d = Absent THEN NoFile ELSE IF Intact(d) THEN d.config ELSE Absent

LEMMA FoundInRoot ==
    /\ \A c \in Configs \cup {NoFile} : Found(RootOf(c)) = c
    /\ \A d \in Directories : Found(d) \in Configs \cup {NoFile, Absent}
<1>1. \A c \in Configs : Found(RootOf(c)) = c
  BY ManagedIsIntact, ManagedStateAssumption DEF Found, RootOf
<1>2. Found(RootOf(NoFile)) = NoFile  BY DEF Found, RootOf
<1>3. \A d \in Directories : Found(d) \in Configs \cup {NoFile, Absent}
  BY IntactIsManaged DEF Found
<1> QED  BY <1>1, <1>2, <1>3

\* While one run takes a step, what is seen is its own affair.
LEMMA SeenStep ==
    ASSUME ~Overlap, TypeOK, Alone, NEW r \in Runs, Step(r) \/ Crash(r)
    PROVE  /\ Seen = IF Active(r) THEN existing[r] ELSE Found(root)
           /\ Seen' = IF Active(r)' THEN existing'[r] ELSE Found(root')
<1>1. \A t \in Runs \ {r} : ~Active(t) /\ ~Active(t)'  BY AloneStep
<1>2. Active(r) => (CHOOSE t \in Runs : Active(t)) = r  BY <1>1
<1>3. Active(r)' => (CHOOSE t \in Runs : Active(t)') = r  BY <1>1
<1>4. Seen = IF Active(r) THEN existing[r] ELSE Found(root)
  BY <1>1, <1>2 DEF Seen, Found
<1>5. Seen' = IF Active(r)' THEN existing'[r] ELSE Found(root')
  BY <1>1, <1>3 DEF Seen, Found, Intact
<1> QED  BY <1>4, <1>5

\* What the runs that have ended have reported.
Told == [r \in Runs |-> IF pc[r] = "end" THEN result[r] ELSE "none"]

LEMMA ToldStep ==
    ASSUME TypeOK, NEW r \in Runs, Step(r) \/ Crash(r)
    PROVE  /\ Told[r] = "none"
           /\ pc'[r] # "end" => Told' = Told
           /\ pc'[r] = "end" => Told' = [Told EXCEPT ![r] = result'[r]]
<1>1. pc[r] # "end"
  BY DEF Step, Crash, Install, Uninstall, Active,
         InstallBegins, StageConfig, StageReceipt, MoveAside, Swap, Unswap, Unstage,
         VerifyReceipt, VerifyHost, DropBackup, Rollback, Restore, Discard,
         UninstallBegins, CopyConfig, CopyReceipt, Quarantine, Delete, Undelete,
         DropCopy, ReadOnly
<1>2. \A t \in Runs \ {r} : pc'[t] = pc[t] /\ result'[t] = result[t]
  BY Frame
<1>3. pc'[r] # "end" => \A t \in Runs : Told'[t] = Told[t]
  BY <1>1, <1>2 DEF Told
<1>4. pc'[r] = "end" => \A t \in Runs : Told'[t] = [Told EXCEPT ![r] = result'[r]][t]
  BY <1>1, <1>2 DEF Told
<1>5. Told = [t \in Runs |-> Told[t]] /\ Told' = [t \in Runs |-> Told'[t]]
  BY DEF Told
<1> QED  BY <1>1, <1>3, <1>4, <1>5 DEF Told

\* Before its end a run changes nothing an operator can see.
LEMMA Unseen ==
    ASSUME ~Overlap, Faults \cap Rollbacks = {}, Commanded, NEW r \in Runs,
           Step(r) \/ Crash(r), pc'[r] # "end"
    PROVE  Seen' = Seen
<1> USE DEF Goto, Emit, Stop, Raises, disk, local
<1>1. TypeOK /\ Alone /\ "crash" \notin Faults
  BY DEF Commanded, Serial, Inv, Rollbacks
<1>2. /\ Seen = IF Active(r) THEN existing[r] ELSE Found(root)
      /\ Seen' = IF Active(r)' THEN existing'[r] ELSE Found(root')
  BY <1>1, SeenStep
<1>3. CASE InstallBegins(r)
  <2>1. /\ ~Active(r) /\ pc'[r] \in {"stageConfig", "verify"}
        /\ existing'[r] = IF root = Absent THEN NoFile ELSE root.config
        /\ root # Absent => Intact(root)
    BY <1>1, <1>3 DEF InstallBegins, Active, TypeOK
  <2> QED  BY <1>2, <2>1 DEF Active, Found
<1>4. CASE UninstallBegins(r)
  <2>1. /\ ~Active(r) /\ pc'[r] = "copyConfig" /\ Intact(root)
        /\ existing'[r] = root.config
    BY <1>1, <1>4 DEF UninstallBegins, Active, TypeOK
  <2> QED  BY <1>2, <2>1 DEF Active, Found, Intact
<1>5. CASE ReadOnly(r)
  BY <1>1, <1>5 DEF ReadOnly, TypeOK
<1>6. CASE ~InstallBegins(r) /\ ~UninstallBegins(r) /\ ~ReadOnly(r)
  <2>1. Active(r) /\ existing' = existing /\ pc'[r] \notin {"start", "crashed"}
    BY <1>1, <1>6 DEF TypeOK, Step, Crash, Install, Uninstall, Active,
         StageConfig, StageReceipt, MoveAside, Swap, Unswap, Unstage,
         VerifyReceipt, VerifyHost, DropBackup, Rollback, Restore, Discard,
         CopyConfig, CopyReceipt, Quarantine, Delete, Undelete, DropCopy
  <2> QED  BY <1>2, <2>1 DEF Active
<1> QED  BY <1>3, <1>4, <1>5, <1>6

\* A command that did nothing leaves what it found; one that did its work has
\* left its own configuration, or none.
LEMMA Outcome ==
    ASSUME ~Overlap, Faults \cap Rollbacks = {}, Commanded, NEW r \in Runs,
           Step(r) \/ Crash(r), pc'[r] = "end"
    PROVE  \/ result'[r] = "failed" /\ Seen' = Seen
           \/ /\ result'[r] = "planned" /\ Seen' = Seen /\ Seen # Absent
              /\ request[r].command \in {"install", "upgrade", "uninstall"}
              /\ ~request[r].execute
           \/ /\ result'[r] = "ok" /\ Seen' = Seen
              /\ \/ request[r].command = "status" /\ Seen \in Configs
                 \/ request[r].command = "verify"
           \/ /\ result'[r] = "ok" /\ Seen' = NoFile
              /\ request[r].command = "uninstall"
              /\ Seen = NoFile \/ (Seen \in Configs /\ request[r].execute)
           \/ /\ result'[r] = "ok" /\ Seen \in Configs \cup {NoFile}
              /\ request[r].command \in {"install", "upgrade"} /\ request[r].execute
              /\ Seen' = Configured(request[r].want, Seen) /\ Seen' \in Configs
              /\ request[r].command = "install" => Seen \in {NoFile, Seen'}
              /\ request[r].command = "upgrade" => Seen # NoFile
<1> USE DEF Goto, Emit, Stop, Raises, disk, local
<1> HIDE DEF Managed, Configured, Configs
<1>1. /\ TypeOK /\ Alone /\ Local(r) /\ Removing(r) /\ Publishing(r) /\ Ending(r)
      /\ Faults \cap {"restore", "drop_backup", "drop_copy", "crash"} = {}
  BY DEF Commanded, Serial, Inv, Rollbacks
<1>2. /\ Seen = IF Active(r) THEN existing[r] ELSE Found(root)
      /\ Seen' = Found(root')
  <2>1. ~Active(r)'  BY DEF Active
  <2> QED  BY <1>1, <2>1, SeenStep
<1>3. existing[r] \in Configs \cup {NoFile}  BY <1>1 DEF TypeOK
<1>4. /\ Found(RootOf(existing[r])) = existing[r]
      /\ Found(root) \in Configs \cup {NoFile, Absent}
      /\ Intact(root) => Found(root) = root.config /\ root.config \in Configs
      /\ root = Absent => Found(root) = NoFile
  BY <1>1, <1>3, FoundInRoot, IntactIsManaged DEF TypeOK, Found, Intact
<1>5. CASE InstallBegins(r)
  <2>1. /\ ~Active(r) /\ UNCHANGED root
        /\ request[r].command \in {"install", "upgrade"}
        /\ \/ result'[r] = "failed"
           \/ /\ result'[r] = "planned" /\ ~request[r].execute
              /\ root # Absent => Intact(root)
    BY <1>1, <1>5 DEF InstallBegins, Active, TypeOK, Ending
  <2> QED  BY <1>2, <1>4, <2>1, ManagedStateAssumption
<1>6. CASE UninstallBegins(r)
  <2>1. /\ ~Active(r) /\ UNCHANGED root /\ request[r].command = "uninstall"
        /\ \/ result'[r] = "failed"
           \/ result'[r] = "ok" /\ root = Absent
           \/ result'[r] = "planned" /\ ~request[r].execute /\ Intact(root)
    BY <1>1, <1>6 DEF UninstallBegins, Active, TypeOK, Ending
  <2> QED  BY <1>2, <1>4, <2>1, ManagedStateAssumption
<1>7. CASE ReadOnly(r)
  <2>1. /\ ~Active(r) /\ UNCHANGED root
        /\ \/ result'[r] = "failed"
           \/ result'[r] = "ok" /\ request[r].command = "verify"
           \/ result'[r] = "ok" /\ request[r].command = "status" /\ Intact(root)
    BY <1>1, <1>7 DEF ReadOnly, Active, TypeOK, Ending
  <2> QED  BY <1>2, <1>4, <2>1
<1>8. CASE Unstage(r)
  <2>1. /\ Active(r) /\ UNCHANGED root /\ result'[r] = "failed" /\ pc[r] = "unstage"
    BY <1>1, <1>8 DEF Unstage, Active, TypeOK, Ending
  <2> QED  BY <1>1, <1>2, <1>4, <2>1 DEF Publishing
<1>9. CASE DropBackup(r)
  <2>1. /\ Active(r) /\ UNCHANGED root /\ result'[r] = "ok" /\ pc[r] = "dropBackup"
    BY <1>1, <1>9 DEF DropBackup, Active, TypeOK, Ending
  <2>2. /\ root = Managed(config[r]) /\ config[r] \in Configs
        /\ request[r].command \in {"install", "upgrade"} /\ request[r].execute
        /\ config[r] = Configured(request[r].want, existing[r])
        /\ request[r].command = "install" => existing[r] \in {NoFile, config[r]}
        /\ request[r].command = "upgrade" => existing[r] # NoFile
    BY <1>1, <2>1 DEF Publishing, InstallSteps
  <2>3. Found(root) = config[r]
    BY <2>2, FoundInRoot, ManagedStateAssumption DEF RootOf
  <2>4. Seen = existing[r] /\ Seen' = config[r]
    BY <1>2, <2>1, <2>3
  <2> QED  BY <1>3, <2>1, <2>2, <2>4
<1>10. CASE Rollback(r)
  <2>1. /\ Active(r) /\ UNCHANGED <<root, result>> /\ pc[r] = "rollback" /\ ~published[r]
    BY <1>1, <1>10 DEF Rollback, Active, TypeOK
  <2>2. root = Managed(config[r]) /\ config[r] \in Configs /\ config[r] = existing[r]
        /\ result[r] = "failed"
    BY <1>1, <2>1 DEF Publishing, Ending, InstallSteps
  <2>3. Found(root) = existing[r]
    BY <1>4, <2>2, ManagedStateAssumption DEF RootOf
  <2> QED  BY <1>2, <2>1, <2>2, <2>3
<1>11. CASE Restore(r)
  <2>1. pc[r] = "restore" /\ root = Absent
    BY <1>1, <1>11 DEF Restore, Publishing
  <2> QED  BY <1>1, <1>11, <2>1 DEF Restore, Replaceable, TypeOK
<1>12. CASE Discard(r)
  <2>1. /\ Active(r) /\ UNCHANGED <<root, result>> /\ pc[r] = "discard"
    BY <1>1, <1>12 DEF Discard, Active, TypeOK
  <2> QED  BY <1>1, <1>2, <1>4, <2>1 DEF Publishing, Ending
<1>13. CASE CopyConfig(r) \/ CopyReceipt(r)
  <2>1. /\ Active(r) /\ UNCHANGED root /\ result'[r] = "failed"
        /\ pc[r] \in {"copyConfig", "copyReceipt"}
    BY <1>1, <1>13 DEF CopyConfig, CopyReceipt, Active, TypeOK, Ending
  <2>2. root = RootOf(existing[r])
    BY <1>1, <2>1, ManagedStateAssumption DEF Removing, RootOf, UninstallSteps
  <2> QED  BY <1>2, <1>4, <2>1, <2>2
<1>14. CASE DropCopy(r)
  <2>1. /\ Active(r) /\ UNCHANGED root /\ pc[r] = "dropCopy"
        /\ result'[r] = IF error[r] THEN "failed" ELSE "ok"
    BY <1>1, <1>14 DEF DropCopy, Active, TypeOK, Ending
  <2>2. /\ existing[r] \in Configs /\ request[r].execute
        /\ request[r].command = "uninstall"
        /\ IF error[r] THEN root = Managed(existing[r]) ELSE root = Absent
    BY <1>1, <2>1 DEF Removing, Ending, Local, UninstallSteps
  <2>3. root = Managed(existing[r]) => Found(root) = existing[r]
    BY <1>4, <2>2, ManagedStateAssumption DEF RootOf
  <2> QED  BY <1>2, <1>4, <2>1, <2>2, <2>3
<1>15. ASSUME \/ StageConfig(r) \/ StageReceipt(r) \/ MoveAside(r) \/ Swap(r)
              \/ Unswap(r) \/ VerifyReceipt(r) \/ VerifyHost(r) \/ Quarantine(r)
              \/ Delete(r) \/ Undelete(r) \/ Crash(r)
       PROVE  FALSE
  BY <1>1, <1>15 DEF TypeOK, StageConfig, StageReceipt, MoveAside, Swap, Unswap,
     VerifyReceipt, VerifyHost, Quarantine, Delete, Undelete, Crash
<1> QED
  BY <1>5, <1>6, <1>7, <1>8, <1>9, <1>10, <1>11, <1>12, <1>13, <1>14, <1>15
  DEF Step, Install, Uninstall

LEMMA RefinementStep ==
    ASSUME ~Overlap, Faults \cap Rollbacks = {}, Commanded, [Next]_vars
    PROVE  [Transactions!Next]_Transactions!vars
<1> USE DEF Told
<1>1. TypeOK  BY DEF Commanded, Serial, Inv
<1>2. CASE UNCHANGED vars
  <2>1. Seen' = Seen
    BY <1>2 DEF Seen, Active, Intact, vars, disk, local
  <2>2. Told' = Told /\ request' = request
    BY <1>2 DEF vars, local
  <2> QED  BY <2>1, <2>2 DEF Transactions!vars
<1>3. ASSUME NEW r \in Runs, Step(r) \/ Crash(r)
      PROVE  [Transactions!Next]_Transactions!vars
  <2>1. request' = request
    BY <1>1, <1>3 DEF Step, Crash, Install, Uninstall, local,
         InstallBegins, StageConfig, StageReceipt, MoveAside, Swap, Unswap, Unstage,
         VerifyReceipt, VerifyHost, DropBackup, Rollback, Restore, Discard,
         UninstallBegins, CopyConfig, CopyReceipt, Quarantine, Delete, Undelete,
         DropCopy, ReadOnly
  <2>2. CASE pc'[r] # "end"
    <3>1. Seen' = Seen /\ Told' = Told
      BY <1>1, <1>3, <2>2, Unseen, ToldStep
    <3> QED  BY <2>1, <3>1 DEF Transactions!vars
  <2>3. CASE pc'[r] = "end"
    <3>1. Told[r] = "none" /\ Told' = [Told EXCEPT ![r] = result'[r]]
      BY <1>1, <1>3, <2>3, ToldStep
    <3>3. Transactions!Configs = Configs
      BY DEF Transactions!Configs, Configs
    <3>4. Seen \in Configs \cup {NoFile} =>
            Transactions!Wanted(r) = Configured(request[r].want, Seen)
      BY <3>3, ManagedStateAssumption DEF Transactions!Wanted, Configured
    <3>5. \/ Transactions!Publish(r) \/ Transactions!Remove(r)
          \/ Transactions!Observe(r) \/ Transactions!Plan(r) \/ Transactions!Refuse(r)
      <4> HIDE DEF Told, Configs, Configured
      <4>1. CASE result'[r] = "failed" /\ Seen' = Seen
        BY <2>1, <3>1, <4>1 DEF Transactions!Refuse,
          Transactions!Report, Told
      <4>2. CASE /\ result'[r] = "planned" /\ Seen' = Seen /\ Seen # Absent
                 /\ request[r].command \in {"install", "upgrade", "uninstall"}
                 /\ ~request[r].execute
        BY <2>1, <3>1, <4>2 DEF Transactions!Plan,
          Transactions!Report, Told
      <4>3. CASE /\ result'[r] = "ok" /\ Seen' = Seen
                 /\ \/ request[r].command = "status" /\ Seen \in Configs
                    \/ request[r].command = "verify"
        BY <2>1, <3>1, <3>3, <4>3 DEF Transactions!Observe,
          Transactions!Report, Told
      <4>4. CASE /\ result'[r] = "ok" /\ Seen' = NoFile
                 /\ request[r].command = "uninstall"
                 /\ Seen = NoFile \/ (Seen \in Configs /\ request[r].execute)
        BY <2>1, <3>1, <4>4, ManagedStateAssumption DEF Transactions!Remove,
          Transactions!Report, Told
      <4>5. CASE /\ result'[r] = "ok" /\ Seen \in Configs \cup {NoFile}
                 /\ request[r].command \in {"install", "upgrade"} /\ request[r].execute
                 /\ Seen' = Configured(request[r].want, Seen) /\ Seen' \in Configs
                 /\ request[r].command = "install" => Seen \in {NoFile, Seen'}
                 /\ request[r].command = "upgrade" => Seen # NoFile
        BY <2>1, <3>1, <3>3, <3>4, <4>5, ManagedStateAssumption DEF Transactions!Publish,
          Transactions!Report, Told
      <4> QED  BY <1>3, <2>3, <4>1, <4>2, <4>3, <4>4, <4>5, Outcome
    <3> QED  BY <3>5 DEF Transactions!Next
  <2> QED  BY <2>2, <2>3
<1> QED  BY <1>2, <1>3 DEF Next

\* install.py: one at a time, and as long as no rollback fails itself, every
\* command has its whole effect and reports ok, or none and reports why.
THEOREM CommandsAreTransactions ==
    ASSUME ~Overlap, Faults \cap Rollbacks = {}
    PROVE  Spec => RunsAreTransactions
<1>1. Init => Transactions!Init
  <2> SUFFICES ASSUME Init PROVE Transactions!Init
    OBVIOUS
  <2>1. Seen = Found(root)  BY DEF Init, Seen, Found, Active
  <2>2. Seen \in Configs \cup {NoFile, Absent}
    BY <2>1, FoundInRoot, ManagedStateAssumption DEF Init
  <2>3. request \in [Runs -> Requests] /\ Told = [r \in Runs |-> "none"]
    BY DEF Init, Told
  <2> QED  BY <2>2, <2>3 DEF Transactions!Init, Transactions!Configs, Configs, Told
<1>2. Commanded /\ [Next]_vars => [Transactions!Next]_Transactions!vars
  BY RefinementStep
<1> QED
  BY <1>1, <1>2, CommandedInit, CommandedStep, PTL
  DEF Spec, RunsAreTransactions, Transactions!Spec
=============================================================================
