-------------------------- MODULE ManagedStateProofs --------------------------
(***************************************************************************)
(* Theorems about ManagedState, for every set of runs, every command line  *)
(* and every initial root the constants allow.                             *)
(***************************************************************************)
EXTENDS ManagedState, FiniteSetTheorems, TLAPS

InstallSteps == {"stageConfig", "stageReceipt", "moveAside", "swap", "unswap",
                 "unstage", "verify", "probe", "dropBackup", "rollback",
                 "restore", "discard"}
UninstallSteps == {"copyConfig", "copyReceipt", "quarantine", "delete",
                   "undelete", "dropCopy"}

-----------------------------------------------------------------------------
(* What one run owns.                                                      *)

\* The directories a run has made beside the root, at each of its steps, and
\* what it has told the caller.
Local(r) ==
    /\ pc[r] \in UninstallSteps => request[r].command = "uninstall"
    /\ pc[r] \in {"stageConfig", "stageReceipt", "moveAside", "swap"} =>
          config[r] \in Configs
    /\ pc[r] \in InstallSteps /\ ~published[r] =>
          pc[r] \in {"verify", "probe", "dropBackup", "rollback"} /\ backup[r] = Absent
    /\ pc[r] \in {"start", "stageConfig"} \cup UninstallSteps => staging[r] = Absent
    /\ pc[r] = "stageReceipt" =>
          staging[r] # Absent /\ staging[r].config = config[r] /\ ~staging[r].extra
    /\ pc[r] \in {"moveAside", "swap"} => Intact(staging[r])
    /\ pc[r] \in {"verify", "probe", "dropBackup"} => staging[r] = Absent
    /\ pc[r] \in {"start", "stageConfig", "stageReceipt", "moveAside"} \cup UninstallSteps
          => backup[r] = Absent
    /\ pc[r] \in {"start"} \cup UninstallSteps \cup InstallSteps
       /\ pc[r] \notin {"restore", "discard"} => discarded[r] = Absent
    /\ pc[r] \in {"start"} \cup InstallSteps =>
          quarantine[r] = Absent /\ copy[r] = Absent
    /\ pc[r] \in {"copyConfig", "copyReceipt", "quarantine"} => quarantine[r] = Absent
    /\ pc[r] = "copyReceipt" => copy[r] # Absent
    /\ pc[r] = "dropCopy" /\ ~error[r] => quarantine[r] = Absent
    /\ pc[r] = "undelete" => error[r]
    /\ pc[r] # "end" => result[r] # "ok"
    /\ result[r] = "ok" => /\ staging[r] = Absent /\ backup[r] = Absent
                           /\ discarded[r] = Absent /\ quarantine[r] = Absent
                           /\ copy[r] = Absent

\* What a step of a run leaves alone: everything of the others.
LEMMA Frame ==
    ASSUME TypeOK, NEW r \in Runs, Step(r) \/ Crash(r), NEW t \in Runs \ {r}
    PROVE  /\ staging'[t] = staging[t] /\ backup'[t] = backup[t]
           /\ discarded'[t] = discarded[t] /\ quarantine'[t] = quarantine[t]
           /\ copy'[t] = copy[t] /\ pc'[t] = pc[t] /\ request' = request
           /\ existing'[t] = existing[t] /\ config'[t] = config[t]
           /\ published'[t] = published[t] /\ moved'[t] = moved[t]
           /\ error'[t] = error[t] /\ result'[t] = result[t]
<1> USE DEF TypeOK, Goto, Emit, Stop, Raises, disk, local
<1>1. CASE InstallBegins(r)  BY <1>1 DEF InstallBegins
<1>2. CASE StageConfig(r)  BY <1>2 DEF StageConfig
<1>3. CASE StageReceipt(r)  BY <1>3 DEF StageReceipt
<1>4. CASE MoveAside(r)  BY <1>4 DEF MoveAside
<1>5. CASE Swap(r)  BY <1>5 DEF Swap
<1>6. CASE Unswap(r)  BY <1>6 DEF Unswap
<1>7. CASE Unstage(r)  BY <1>7 DEF Unstage
<1>8. CASE VerifyReceipt(r)  BY <1>8 DEF VerifyReceipt
<1>9. CASE VerifyHost(r)  BY <1>9 DEF VerifyHost
<1>10. CASE DropBackup(r)  BY <1>10 DEF DropBackup
<1>11. CASE Rollback(r)  BY <1>11 DEF Rollback
<1>12. CASE Restore(r)  BY <1>12 DEF Restore
<1>13. CASE Discard(r)  BY <1>13 DEF Discard
<1>14. CASE UninstallBegins(r)  BY <1>14 DEF UninstallBegins
<1>15. CASE CopyConfig(r)  BY <1>15 DEF CopyConfig
<1>16. CASE CopyReceipt(r)  BY <1>16 DEF CopyReceipt
<1>17. CASE Quarantine(r)  BY <1>17 DEF Quarantine
<1>18. CASE Delete(r)  BY <1>18 DEF Delete
<1>19. CASE Undelete(r)  BY <1>19 DEF Undelete
<1>20. CASE DropCopy(r)  BY <1>20 DEF DropCopy
<1>21. CASE ReadOnly(r)  BY <1>21 DEF ReadOnly
<1>22. CASE Crash(r)  BY <1>22 DEF Crash, Active
<1> QED
  BY <1>1, <1>2, <1>3, <1>4, <1>5, <1>6, <1>7, <1>8, <1>9, <1>10, <1>11,
     <1>12, <1>13, <1>14, <1>15, <1>16, <1>17, <1>18, <1>19, <1>20, <1>21, <1>22
  DEF Step, Install, Uninstall

\* What the directories of the model are made of.
LEMMA Members ==
    /\ Absent \in Directories /\ EmptyDir \in Directories
    /\ \A d : Remains(d) \subseteq Directories
<1>1. EmptyDir \in Contents  BY FALSE \in BOOLEAN DEF EmptyDir, Contents
<1>2. \A d : Remains(d) \subseteq Contents  BY DEF Remains
<1> QED  BY <1>1, <1>2 DEF Directories

LEMMA Shapes ==
    /\ EmptyDir # Absent
    /\ \A c \in Configs : [EmptyDir EXCEPT !.config = c] \in Directories \ {Absent}
    /\ \A d \in Directories \ {Absent}, c \in Configs \cup {NoFile} :
          [d EXCEPT !.receipt = c] \in Directories \ {Absent}
    /\ \A d \in Directories \ {Absent} : d.receipt \in Configs \cup {NoFile}
<1> USE DEF Contents, Directories
<1>1. EmptyDir \in Contents  BY FALSE \in BOOLEAN DEF EmptyDir
<1>2. \A d \in Contents : \A c \in Configs \cup {NoFile} :
        [d EXCEPT !.config = c] \in Contents /\ [d EXCEPT !.receipt = c] \in Contents
  OBVIOUS
<1>3. \A e \in Contents : e.receipt \in Configs \cup {NoFile}  OBVIOUS
<1>4. Absent \notin Contents  BY ManagedStateAssumption
<1> HIDE DEF Contents
<1> QED  BY <1>1, <1>2, <1>3, <1>4

\* The receipt completes a staged directory.
LEMMA StagedIsIntact ==
    ASSUME NEW d \in Directories, d # Absent, NEW c \in Configs,
           d.config = c, ~d.extra
    PROVE  Intact([d EXCEPT !.receipt = c])
<1>1. c # NoFile  BY ManagedStateAssumption
<1>2. [d EXCEPT !.receipt = c] # Absent  BY Shapes
<1>3. d \in Contents  BY DEF Directories
<1>4. DOMAIN d = {"config", "receipt", "extra"}  BY <1>3 DEF Contents
<1> QED  BY <1>1, <1>2, <1>4 DEF Intact

\* The directories on the disk.
DiskType ==
    /\ root \in Directories
    /\ staging \in [Runs -> Directories] /\ backup \in [Runs -> Directories]
    /\ discarded \in [Runs -> Directories] /\ quarantine \in [Runs -> Directories]
    /\ copy \in [Runs -> Directories]

LEMMA DiskTypeStep ==
    ASSUME DiskType, NEW r \in Runs, Local(r), Step(r) \/ Crash(r)
    PROVE  DiskType'
<1> USE Members DEF DiskType, disk
<1>1. CASE InstallBegins(r)  BY <1>1 DEF InstallBegins
<1>2. CASE StageConfig(r)
  <2>1. config[r] \in Configs  BY <1>2 DEF StageConfig, Local
  <2>2. [EmptyDir EXCEPT !.config = config[r]] \in Directories  BY <2>1, Shapes
  <2> HIDE DEF EmptyDir
  <2> QED  BY <1>2, <2>2 DEF StageConfig
<1>3. CASE StageReceipt(r)
  <2>1. config[r] \in Configs /\ staging[r] # Absent
    BY <1>3 DEF StageReceipt, Local
  <2>2. [staging[r] EXCEPT !.receipt = config[r]] \in Directories
    BY <2>1, Shapes
  <2> QED  BY <1>3, <2>2 DEF StageReceipt
<1>4. CASE MoveAside(r)  BY <1>4 DEF MoveAside
<1>5. CASE Swap(r)  BY <1>5 DEF Swap
<1>6. CASE Unswap(r)  BY <1>6 DEF Unswap
<1>7. CASE Unstage(r)  BY <1>7 DEF Unstage
<1>8. CASE VerifyReceipt(r)  BY <1>8 DEF VerifyReceipt
<1>9. CASE VerifyHost(r)  BY <1>9 DEF VerifyHost
<1>10. CASE DropBackup(r)  BY <1>10 DEF DropBackup
<1>11. CASE Rollback(r)  BY <1>11 DEF Rollback
<1>12. CASE Restore(r)  BY <1>12 DEF Restore
<1>13. CASE Discard(r)  BY <1>13 DEF Discard
<1>14. CASE UninstallBegins(r)  BY <1>14 DEF UninstallBegins
<1>15. CASE CopyConfig(r)
  <2>1. root # Absent => [root EXCEPT !.receipt = NoFile] \in Directories
    BY Shapes
  <2> QED  BY <1>15, <2>1 DEF CopyConfig
<1>16. CASE CopyReceipt(r)
  <2>1. copy[r] # Absent  BY <1>16 DEF CopyReceipt, Local
  <2>2. copy[r] \in Directories  OBVIOUS
  <2>3. root # Absent => [copy[r] EXCEPT !.receipt = root.receipt] \in Directories
    BY <2>1, <2>2, Shapes
  <2> QED  BY <1>16, <2>3 DEF CopyReceipt
<1>17. CASE Quarantine(r)  BY <1>17 DEF Quarantine
<1>18. CASE Delete(r)  BY <1>18 DEF Delete
<1>19. CASE Undelete(r)  BY <1>19 DEF Undelete
<1>20. CASE DropCopy(r)  BY <1>20 DEF DropCopy
<1>21. CASE ReadOnly(r)  BY <1>21 DEF ReadOnly
<1>22. CASE Crash(r)  BY <1>22 DEF Crash, Active
<1> QED
  BY <1>1, <1>2, <1>3, <1>4, <1>5, <1>6, <1>7, <1>8, <1>9, <1>10, <1>11,
     <1>12, <1>13, <1>14, <1>15, <1>16, <1>17, <1>18, <1>19, <1>20, <1>21, <1>22
  DEF Step, Install, Uninstall

RunType ==
    /\ pc \in [Runs -> {"start", "end", "crashed"} \cup InstallSteps \cup UninstallSteps]
    /\ request \in [Runs -> Requests]
    /\ existing \in [Runs -> Configs \cup {NoFile}]
    /\ config \in [Runs -> Configs \cup {NoConfig}]
    /\ published \in [Runs -> BOOLEAN] /\ moved \in [Runs -> BOOLEAN]
    /\ error \in [Runs -> BOOLEAN]
    /\ result \in [Runs -> {"none", "ok", "planned", "failed", "several"}]

LEMMA RunTypeStep ==
    ASSUME RunType, TypeOK, NEW r \in Runs, Step(r) \/ Crash(r)
    PROVE  RunType'
<1> USE DEF RunType, Goto, Emit, Stop, Raises, local, InstallSteps, UninstallSteps
<1>1. CASE InstallBegins(r)
  <2>1. published' \in [Runs -> BOOLEAN]
    BY <1>1, Zenon DEF InstallBegins
  <2>2. root # Absent => root.config \in Configs \cup {NoFile}
    BY DEF TypeOK, Directories, Contents
  <2> HIDE DEF Configs
  <2> QED  BY <1>1, <2>1, <2>2 DEF InstallBegins
<1>2. CASE StageConfig(r)  BY <1>2 DEF StageConfig
<1>3. CASE StageReceipt(r)  BY <1>3 DEF StageReceipt
<1>4. CASE MoveAside(r)  BY <1>4 DEF MoveAside
<1>5. CASE Swap(r)  BY <1>5 DEF Swap
<1>6. CASE Unswap(r)  BY <1>6 DEF Unswap
<1>7. CASE Unstage(r)  BY <1>7 DEF Unstage
<1>8. CASE VerifyReceipt(r)  BY <1>8 DEF VerifyReceipt
<1>9. CASE VerifyHost(r)  BY <1>9 DEF VerifyHost
<1>10. CASE DropBackup(r)  BY <1>10 DEF DropBackup
<1>11. CASE Rollback(r)  BY <1>11 DEF Rollback
<1>12. CASE Restore(r)  BY <1>12 DEF Restore
<1>13. CASE Discard(r)  BY <1>13 DEF Discard
<1>14. CASE UninstallBegins(r)
  <2>1. root # Absent => root.config \in Configs \cup {NoFile}
    BY DEF TypeOK, Directories, Contents
  <2> QED  BY <1>14, <2>1 DEF UninstallBegins, Intact
<1>15. CASE CopyConfig(r)  BY <1>15 DEF CopyConfig
<1>16. CASE CopyReceipt(r)  BY <1>16 DEF CopyReceipt
<1>17. CASE Quarantine(r)  BY <1>17 DEF Quarantine
<1>18. CASE Delete(r)  BY <1>18 DEF Delete
<1>19. CASE Undelete(r)  BY <1>19 DEF Undelete
<1>20. CASE DropCopy(r)  BY <1>20 DEF DropCopy
<1>21. CASE ReadOnly(r)  BY <1>21 DEF ReadOnly
<1>22. CASE Crash(r)  BY <1>22 DEF Crash, Active
<1> QED
  BY <1>1, <1>2, <1>3, <1>4, <1>5, <1>6, <1>7, <1>8, <1>9, <1>10, <1>11,
     <1>12, <1>13, <1>14, <1>15, <1>16, <1>17, <1>18, <1>19, <1>20, <1>21, <1>22
  DEF Step, Install, Uninstall

\* A step keeps the promises of the run that takes it.
LEMMA LocalStep ==
    ASSUME TypeOK, NEW r \in Runs, Local(r), Step(r) \/ Crash(r)
    PROVE  Local(r)'
<1> USE DEF TypeOK, Local, InstallSteps, UninstallSteps, Goto, Emit, Stop, Raises,
            disk, local
<1>1. CASE InstallBegins(r)  BY <1>1 DEF InstallBegins, Configured, Intact
<1>2. CASE StageConfig(r)
  <2>1. config[r] \in Configs  BY <1>2 DEF StageConfig
  <2> DEFINE d == [EmptyDir EXCEPT !.config = config[r]]
  <2>2. d # Absent /\ d.config = config[r] /\ ~d.extra
    BY <2>1, Shapes DEF EmptyDir
  <2>3. \/ staging'[r] = d /\ pc'[r] = "stageReceipt"
        \/ pc'[r] = "unstage"
    BY <1>2 DEF StageConfig
  <2>4. /\ pc[r] = "stageConfig" /\ config' = config /\ result' = result
        /\ backup' = backup /\ discarded' = discarded /\ quarantine' = quarantine
        /\ copy' = copy /\ published' = published
    BY <1>2 DEF StageConfig
  <2> HIDE DEF d
  <2> QED  BY <2>1, <2>2, <2>3, <2>4
<1>3. CASE StageReceipt(r)
  <2>1. /\ staging[r] # Absent /\ staging[r].config = config[r] /\ ~staging[r].extra
        /\ config[r] \in Configs /\ staging[r] \in Directories
    BY <1>3 DEF StageReceipt
  <2>2. Intact([staging[r] EXCEPT !.receipt = config[r]])
    BY <2>1, StagedIsIntact
  <2> HIDE DEF Intact
  <2> QED  BY <1>3, <2>2 DEF StageReceipt
<1>4. CASE MoveAside(r)  BY <1>4 DEF MoveAside
<1>5. CASE Swap(r)  BY <1>5 DEF Swap
<1>6. CASE Unswap(r)  BY <1>6 DEF Unswap
<1>7. CASE Unstage(r)  BY <1>7 DEF Unstage, Remains
<1>8. CASE VerifyReceipt(r)  BY <1>8 DEF VerifyReceipt
<1>9. CASE VerifyHost(r)  BY <1>9 DEF VerifyHost
<1>10. CASE DropBackup(r)  BY <1>10 DEF DropBackup, Remains
<1>11. CASE Rollback(r)  BY <1>11 DEF Rollback
<1>12. CASE Restore(r)  BY <1>12 DEF Restore
<1>13. CASE Discard(r)  BY <1>13 DEF Discard, Remains
<1>14. CASE UninstallBegins(r)  BY <1>14 DEF UninstallBegins, Intact
<1>15. CASE CopyConfig(r)
  <2>1. root # Absent => [root EXCEPT !.receipt = NoFile] # Absent
    BY Shapes
  <2> QED  BY <1>15, <2>1 DEF CopyConfig
<1>16. CASE CopyReceipt(r)  BY <1>16 DEF CopyReceipt
<1>17. CASE Quarantine(r)  BY <1>17 DEF Quarantine
<1>18. CASE Delete(r)  BY <1>18 DEF Delete, Remains
<1>19. CASE Undelete(r)  BY <1>19 DEF Undelete
<1>20. CASE DropCopy(r)  BY <1>20 DEF DropCopy, Remains
<1>21. CASE ReadOnly(r)  BY <1>21 DEF ReadOnly
<1>22. CASE Crash(r)  BY <1>22 DEF Crash, Active
<1> QED
  BY <1>1, <1>2, <1>3, <1>4, <1>5, <1>6, <1>7, <1>8, <1>9, <1>10, <1>11,
     <1>12, <1>13, <1>14, <1>15, <1>16, <1>17, <1>18, <1>19, <1>20, <1>21, <1>22
  DEF Step, Install, Uninstall

Inv == TypeOK /\ \A r \in Runs : Local(r)

LEMMA TypeParts == TypeOK <=> DiskType /\ RunType
<1>1. {"start", "end", "crashed"} \cup InstallSteps \cup UninstallSteps =
        {"start", "stageConfig", "stageReceipt", "moveAside", "swap", "unswap",
         "unstage", "verify", "probe", "dropBackup", "rollback", "restore",
         "discard", "copyConfig", "copyReceipt", "quarantine", "delete",
         "undelete", "dropCopy", "end", "crashed"}
  BY DEF InstallSteps, UninstallSteps
<1> QED  BY <1>1, Zenon DEF TypeOK, DiskType, RunType

LEMMA InvInit == Init => Inv
<1> SUFFICES ASSUME Init PROVE Inv
  OBVIOUS
<1>1. DiskType
  BY Members, ManagedStateAssumption DEF Init, DiskType
<1>2. RunType
  <2>1. /\ published \in [Runs -> BOOLEAN] /\ moved \in [Runs -> BOOLEAN]
        /\ error \in [Runs -> BOOLEAN]
    BY Zenon DEF Init
  <2> QED  BY <2>1 DEF Init, RunType
<1>3. \A r \in Runs : Local(r)
  BY DEF Init, Local, InstallSteps, UninstallSteps
<1> QED  BY <1>1, <1>2, <1>3, TypeParts DEF Inv

LEMMA InvStep == Inv /\ [Next]_vars => Inv'
<1> SUFFICES ASSUME Inv, [Next]_vars PROVE Inv'
  OBVIOUS
<1>1. CASE UNCHANGED vars
  BY <1>1 DEF Inv, TypeOK, Local, vars, disk, local
<1>2. ASSUME NEW r \in Runs, Step(r) \/ Crash(r) PROVE Inv'
  <2>1. DiskType'  BY <1>2, DiskTypeStep, TypeParts DEF Inv
  <2>2. RunType'  BY <1>2, RunTypeStep, TypeParts DEF Inv
  <2>3. TypeOK'
    BY <2>1, <2>2, TypeParts, PTL
  <2>4. Local(r)'  BY <1>2, LocalStep DEF Inv
  <2>5. ASSUME NEW t \in Runs \ {r} PROVE Local(t)'
    <3>1. /\ staging'[t] = staging[t] /\ backup'[t] = backup[t]
          /\ discarded'[t] = discarded[t] /\ quarantine'[t] = quarantine[t]
          /\ copy'[t] = copy[t] /\ pc'[t] = pc[t] /\ request' = request
          /\ config'[t] = config[t] /\ error'[t] = error[t] /\ result'[t] = result[t]
          /\ published'[t] = published[t]
      BY <1>2, Frame DEF Inv
    <3>2. Local(t)  BY DEF Inv
    <3> QED  BY <3>1, <3>2 DEF Local
  <2> QED  BY <2>3, <2>4, <2>5 DEF Inv
<1> QED  BY <1>1, <1>2 DEF Next

\* Every variable keeps its type, whatever fails and wherever a run dies.
THEOREM TypeCorrect == Spec => []TypeOK
<1>1. Inv => TypeOK  BY DEF Inv
<1> QED  BY <1>1, InvInit, InvStep, PTL DEF Spec

\* However runs overlap: one that reports success has left nothing of its own
\* beside the managed root.
THEOREM SuccessIsClean == Spec => []OkLeavesNothing
<1>1. Inv => OkLeavesNothing  BY DEF Inv, Local, OkLeavesNothing
<1> QED  BY <1>1, InvInit, InvStep, PTL DEF Spec

-----------------------------------------------------------------------------
(* No state is lost while nobody asks for an uninstall.                    *)

\* The runs that have published a root and may still take it away again.
Publishers == {r \in Runs : published[r] /\ pc[r] \in {"verify", "probe", "dropBackup",
                                                     "rollback"}}

\* The runs that keep the root they found.
Keepers == {r \in Runs : backup[r] # Absent}

RootCount == IF root = Absent THEN 0 ELSE 1

\* Why a state is always left: there is one intact directory more, the root or
\* a backup, than runs that may still throw one away.  A publication adds one
\* to both sides, a rollback or the end of a run takes at most one from each,
\* and moves to the side and back change neither.
TokenInv ==
    /\ root # Absent => Intact(root)
    /\ \A r \in Runs : backup[r] # Absent => Intact(backup[r])
    /\ Cardinality(Keepers) + RootCount >= 1 + Cardinality(Publishers)

\* Nobody has asked for an uninstall yet, and the root was intact at first.
Undisturbed ==
    /\ \A d \in Roots : Intact(d)
    /\ \A r \in Runs : request[r].command = "uninstall" => pc[r] = "start"

LEMMA Counts ==
    ASSUME IsFiniteSet(Runs)
    PROVE  /\ IsFiniteSet(Keepers) /\ IsFiniteSet(Publishers)
           /\ Cardinality(Keepers) \in Nat /\ Cardinality(Publishers) \in Nat
<1>1. Keepers \subseteq Runs /\ Publishers \subseteq Runs
  BY DEF Keepers, Publishers
<1> QED  BY <1>1, FS_Subset, FS_CardinalityType

\* How the two counts follow a step of run r.
LEMMA CountsStep ==
    ASSUME IsFiniteSet(Runs), TypeOK, NEW r \in Runs, Step(r) \/ Crash(r)
    PROVE  /\ Cardinality(Keepers') = Cardinality(Keepers)
                 + (IF r \in Keepers' /\ r \notin Keepers THEN 1
                    ELSE IF r \in Keepers /\ r \notin Keepers' THEN -1 ELSE 0)
           /\ Cardinality(Publishers') = Cardinality(Publishers)
                 + (IF r \in Publishers' /\ r \notin Publishers THEN 1
                    ELSE IF r \in Publishers /\ r \notin Publishers' THEN -1 ELSE 0)
<1>1. \A t \in Runs \ {r} : (t \in Keepers' <=> t \in Keepers)
                            /\ (t \in Publishers' <=> t \in Publishers)
  BY Frame DEF Keepers, Publishers
<1>2. Keepers' \subseteq Runs /\ Publishers' \subseteq Runs
  BY DEF Keepers, Publishers
<1>3. ASSUME NEW S \in SUBSET Runs, NEW T \in SUBSET Runs,
             \A t \in Runs \ {r} : t \in T <=> t \in S
      PROVE  Cardinality(T) = Cardinality(S) + (IF r \in T /\ r \notin S THEN 1
                                ELSE IF r \in S /\ r \notin T THEN -1 ELSE 0)
  <2>1. IsFiniteSet(S) /\ IsFiniteSet(T)  BY FS_Subset
  <2>2. Cardinality(S) \in Nat /\ Cardinality(T) \in Nat  BY <2>1, FS_CardinalityType
  <2>3. CASE r \in T /\ r \notin S
    <3>1. T = S \cup {r}  BY <1>3, <2>3
    <3>2. Cardinality(S \cup {r}) = Cardinality(S) + 1  BY <2>1, <2>3, FS_AddElement
    <3> QED  BY <2>3, <3>1, <3>2
  <2>4. CASE r \in S /\ r \notin T
    <3>1. S = T \cup {r}  BY <1>3, <2>4
    <3>2. Cardinality(T \cup {r}) = Cardinality(T) + 1  BY <2>1, <2>4, FS_AddElement
    <3> QED  BY <2>2, <2>4, <3>1, <3>2
  <2>5. CASE r \in S <=> r \in T
    <3>1. S = T  BY <1>3, <2>5
    <3> QED  BY <2>2, <2>5, <3>1
  <2> QED  BY <2>3, <2>4, <2>5
<1> QED  BY <1>1, <1>2, <1>3 DEF Keepers, Publishers

\* One directory of its own, one right to throw the root away: what run r
\* contributes to the two sides.
Keeps(r) == IF backup[r] # Absent THEN 1 ELSE 0
Throws(r) == IF published[r] /\ pc[r] \in {"verify", "probe", "dropBackup", "rollback"}
               THEN 1 ELSE 0

\* A step that is not of an uninstall leaves intact directories only, and does
\* not take more from the left side than from the right one.
LEMMA Balance ==
    ASSUME "drop_backup" \notin Faults, Inv, TokenInv, NEW r \in Runs,
           Install(r) \/ ReadOnly(r) \/ Crash(r)
    PROVE  /\ root' # Absent => Intact(root')
           /\ backup'[r] # Absent => Intact(backup'[r])
           /\ Keeps(r)' + RootCount' - Throws(r)' >= Keeps(r) + RootCount - Throws(r)
<1> USE DEF TypeOK, Goto, Emit, Stop, Raises, disk, local, Keeps, Throws, RootCount
<1>1. Local(r) /\ TypeOK  BY DEF Inv
<1>2. /\ root # Absent => Intact(root)
      /\ backup[r] # Absent => Intact(backup[r])
  BY DEF TokenInv
<1>3. root # EmptyDir
  <2>1. EmptyDir.receipt = NoFile  BY DEF EmptyDir
  <2> QED  BY <1>2, <2>1, Shapes DEF Intact
<1> HIDE DEF EmptyDir
<1>4. CASE InstallBegins(r)
  <2>1. UNCHANGED <<root, backup>> /\ pc[r] = "start"
    BY <1>4 DEF InstallBegins
  <2>2. backup[r] = Absent  BY <1>1, <2>1 DEF Local
  <2>3. pc'[r] = "verify" => ~published'[r]
    BY <1>1, <1>4 DEF InstallBegins
  <2>4. pc'[r] \in {"end", "stageConfig", "verify"}
    BY <1>1, <1>4 DEF InstallBegins
  <2> QED  BY <1>2, <2>1, <2>3, <2>4
<1>5. CASE StageConfig(r) \/ StageReceipt(r) \/ Unstage(r) \/ Discard(r)
  BY <1>1, <1>2, <1>5 DEF StageConfig, StageReceipt, Unstage, Discard
<1>6. CASE MoveAside(r)
  <2>1. backup[r] = Absent  BY <1>1, <1>6 DEF MoveAside, Local
  <2> QED  BY <1>1, <1>2, <1>6, <2>1 DEF MoveAside
<1>7. CASE Swap(r)
  <2>1. Intact(staging[r]) /\ staging[r] # Absent
    BY <1>1, <1>7 DEF Swap, Local, Intact
  <2> HIDE DEF Intact
  <2> QED  BY <1>1, <1>2, <1>3, <1>7, <2>1 DEF Swap, Replaceable
<1>8. CASE Unswap(r)
  BY <1>1, <1>2, <1>8 DEF Unswap
<1>9. CASE VerifyReceipt(r) \/ VerifyHost(r)
  BY <1>1, <1>2, <1>9 DEF VerifyReceipt, VerifyHost
<1>10. CASE DropBackup(r)
  <2>1. backup[r] # Absent => published[r]
    BY <1>1, <1>10 DEF DropBackup, Local, InstallSteps
  <2> QED  BY <1>1, <1>2, <1>10, <2>1 DEF DropBackup
<1>11. CASE Rollback(r)
  BY <1>1, <1>2, <1>11 DEF Rollback
<1>12. CASE Restore(r)
  BY <1>1, <1>2, <1>3, <1>12 DEF Restore, Replaceable
<1>13. CASE ReadOnly(r)
  BY <1>1, <1>2, <1>13 DEF ReadOnly
<1>14. CASE Crash(r)
  BY <1>1, <1>2, <1>14 DEF Crash
<1> QED
  BY <1>4, <1>5, <1>6, <1>7, <1>8, <1>9, <1>10, <1>11, <1>12, <1>13, <1>14
  DEF Install

\* A step of an uninstall is a step after which somebody has asked for one.
LEMMA NoUninstallStep ==
    ASSUME Inv, NEW r \in Runs, Step(r) \/ Crash(r), Undisturbed'
    PROVE  Install(r) \/ ReadOnly(r) \/ Crash(r)
<1> SUFFICES ASSUME Uninstall(r) PROVE FALSE
  BY DEF Step
<1>1. request'[r].command = "uninstall" /\ pc'[r] # "start"
  <2>1. Local(r) /\ TypeOK  BY DEF Inv
  <2>2. pc[r] \in UninstallSteps \/ request[r].command = "uninstall"
    BY DEF Uninstall, UninstallBegins, CopyConfig, CopyReceipt, Quarantine,
           Delete, Undelete, DropCopy, UninstallSteps
  <2>3. request[r].command = "uninstall" /\ request' = request
    BY <2>1, <2>2 DEF Local, Uninstall, UninstallBegins, CopyConfig, CopyReceipt,
           Quarantine, Delete, Undelete, DropCopy, local
  <2>4. pc'[r] # "start"
    BY <2>1 DEF TypeOK, Uninstall, UninstallBegins, CopyConfig, CopyReceipt,
           Quarantine, Delete, Undelete, DropCopy, Goto, Stop
  <2> QED  BY <2>3, <2>4
<1> QED  BY <1>1 DEF Undisturbed

LEMMA TokenStep ==
    ASSUME IsFiniteSet(Runs), "drop_backup" \notin Faults, Inv, TokenInv,
           Undisturbed', [Next]_vars
    PROVE  TokenInv'
<1>1. CASE UNCHANGED vars
  BY <1>1 DEF TokenInv, Keepers, Publishers, RootCount, Intact, vars, disk, local
<1>2. ASSUME NEW r \in Runs, Step(r) \/ Crash(r) PROVE TokenInv'
  <2>1. /\ root' # Absent => Intact(root')
        /\ backup'[r] # Absent => Intact(backup'[r])
        /\ Keeps(r)' + RootCount' - Throws(r)' >= Keeps(r) + RootCount - Throws(r)
    BY <1>2, NoUninstallStep, Balance
  <2>2. \A t \in Runs : backup'[t] # Absent => Intact(backup'[t])
    <3> SUFFICES ASSUME NEW t \in Runs \ {r} PROVE backup'[t] # Absent => Intact(backup'[t])
      BY <2>1
    <3>1. backup'[t] = backup[t]  BY <1>2, Frame DEF Inv
    <3> QED  BY <3>1 DEF TokenInv
  <2>3. /\ Cardinality(Keepers') = Cardinality(Keepers) + Keeps(r)' - Keeps(r)
        /\ Cardinality(Publishers') = Cardinality(Publishers) + Throws(r)' - Throws(r)
    <3>1. TypeOK  BY DEF Inv
    <3>2. Cardinality(Keepers) \in Nat /\ Cardinality(Publishers) \in Nat
      BY Counts
    <3>3. /\ (r \in Keepers <=> Keeps(r) = 1) /\ Keeps(r) \in {0, 1}
          /\ (r \in Publishers <=> Throws(r) = 1) /\ Throws(r) \in {0, 1}
      BY DEF Keepers, Keeps, Publishers, Throws
    <3>4. /\ (r \in Keepers' <=> Keeps(r)' = 1) /\ Keeps(r)' \in {0, 1}
          /\ (r \in Publishers' <=> Throws(r)' = 1) /\ Throws(r)' \in {0, 1}
      BY DEF Keepers, Keeps, Publishers, Throws
    <3> QED  BY <1>2, <3>1, <3>2, <3>3, <3>4, CountsStep
  <2>4. /\ Cardinality(Keepers) \in Nat /\ Cardinality(Publishers) \in Nat
        /\ Keeps(r) \in {0, 1} /\ Keeps(r)' \in {0, 1} /\ Throws(r) \in {0, 1}
        /\ Throws(r)' \in {0, 1} /\ RootCount \in {0, 1} /\ RootCount' \in {0, 1}
    BY Counts DEF Keeps, Throws, RootCount
  <2>5. Cardinality(Keepers) + RootCount >= 1 + Cardinality(Publishers)
    BY DEF TokenInv
  <2>6. Cardinality(Keepers') + RootCount' >= 1 + Cardinality(Publishers')
    BY <2>1, <2>3, <2>4, <2>5
  <2> QED  BY <2>1, <2>2, <2>6 DEF TokenInv, Intact
<1> QED  BY <1>1, <1>2 DEF Next

\* As long as nobody asks for an uninstall, any number of installs, upgrades,
\* failed probes, refused renames and crashes, in any order, leaves an intact
\* state on the disk, provided a backup is deleted whole when it is deleted.
THEOREM StateIsNeverLost ==
    ASSUME IsFiniteSet(Runs), "drop_backup" \notin Faults
    PROVE  Spec => []NeverLosesState
<1>1. Init /\ Undisturbed => TokenInv
  <2> SUFFICES ASSUME Init, Undisturbed PROVE TokenInv
    OBVIOUS
  <2>1. root # Absent /\ Intact(root)  BY DEF Init, Undisturbed, Intact
  <2>2. Keepers = {} /\ Publishers = {}  BY DEF Init, Keepers, Publishers
  <2>3. \A r \in Runs : backup[r] = Absent  BY DEF Init
  <2> QED
    BY <2>1, <2>2, <2>3, FS_EmptySet DEF TokenInv, RootCount
<1>2. Inv /\ Undisturbed' /\ [Next]_vars => Undisturbed
  <2> SUFFICES ASSUME Inv, Undisturbed', [Next]_vars, NEW t \in Runs,
                      request[t].command = "uninstall"
               PROVE  pc[t] = "start"
    BY DEF Undisturbed
  <2>1. CASE UNCHANGED vars  BY <2>1 DEF Undisturbed, vars, local
  <2>2. ASSUME NEW r \in Runs, Step(r) \/ Crash(r) PROVE pc[t] = "start"
    <3>1. CASE t = r
      <4>1. Install(r) \/ ReadOnly(r) \/ Crash(r)
        BY <2>2, NoUninstallStep
      <4>2. Local(r) /\ TypeOK /\ request' = request
        BY <2>2, Frame, <4>1 DEF Inv, Install, InstallBegins, StageConfig, StageReceipt,
           MoveAside, Swap, Unswap, Unstage, VerifyReceipt, VerifyHost,
           DropBackup, Rollback, Restore, Discard, ReadOnly, Crash, local
      <4>3. pc'[r] # "start"
        BY <4>1, <4>2 DEF TypeOK, Install, InstallBegins, StageConfig, StageReceipt,
           MoveAside, Swap, Unswap, Unstage, VerifyReceipt, VerifyHost,
           DropBackup, Rollback, Restore, Discard, ReadOnly, Crash, Goto, Stop
      <4> QED  BY <3>1, <4>2, <4>3 DEF Undisturbed
    <3>2. CASE t # r
      <4>1. pc'[t] = pc[t] /\ request' = request
        BY <2>2, <3>2, Frame DEF Inv
      <4> QED  BY <4>1 DEF Undisturbed
    <3> QED  BY <3>1, <3>2
  <2> QED  BY <2>1, <2>2 DEF Next
<1>3. Inv /\ (Undisturbed => TokenInv) /\ [Next]_vars => (Undisturbed => TokenInv)'
  BY <1>2, TokenStep
<1>4. (Undisturbed => TokenInv) => NeverLosesState
  <2> SUFFICES ASSUME TokenInv PROVE \E d \in OnDisk : Intact(d)
    BY DEF NeverLosesState, Undisturbed
  <2>1. CASE root # Absent  BY <2>1 DEF TokenInv, OnDisk
  <2>2. CASE root = Absent
    <3>1. Cardinality(Keepers) # 0
      BY <2>2, Counts DEF TokenInv, RootCount
    <3>2. PICK r \in Keepers : TRUE
      BY <3>1, FS_EmptySet
    <3>3. backup[r] \in OnDisk /\ Intact(backup[r])
      BY <3>2 DEF Keepers, TokenInv, OnDisk
    <3> QED  BY <3>3
  <2> QED  BY <2>1, <2>2
<1> QED  BY <1>1, <1>3, <1>4, InvInit, InvStep, PTL DEF Spec
=============================================================================
