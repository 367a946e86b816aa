--------------------------- MODULE NativeRunProofs ---------------------------
(***************************************************************************)
(* Theorems about NativeRun, for every set of processes, every chunk size  *)
(* and every capture bound.                                                *)
(***************************************************************************)
EXTENDS NativeRun, TLAPS

-----------------------------------------------------------------------------
(* Type correctness.                                                       *)

\* A step of the bridge thread keeps the types.
LEMMA BridgeType == TypeOK /\ Bridge => TypeOK'
<1> SUFFICES ASSUME TypeOK, Bridge PROVE TypeOK'
  OBVIOUS
<1> USE DEF TypeOK, Streams, tree, pipes, clock
<1>1. CASE Spawn  BY <1>1 DEF Spawn
<1>2. CASE SpawnFails  BY <1>2 DEF SpawnFails
<1>3. CASE PollStatus  BY <1>3 DEF PollStatus
<1>4. CASE PollSupervisor
  <2>1. reaped' \in BOOLEAN  BY <1>4, Zenon DEF PollSupervisor
  <2> QED  BY <1>4, <2>1 DEF PollSupervisor
<1>5. CASE CheckLimits  BY <1>5 DEF CheckLimits
<1>6. CASE Terminate
  <2>1. reaped' \in BOOLEAN  BY <1>6, Zenon DEF Terminate
  <2> QED  BY <1>6, <2>1 DEF Terminate, TermGroup, LeaderGone
<1>7. CASE WaitSucceeds  BY <1>7 DEF WaitSucceeds
<1>8. CASE WaitExpires  BY <1>8 DEF WaitExpires, KillGroup
<1>9. CASE WaitForced
  <2>1. reaped' \in BOOLEAN /\ cleanupError' \in BOOLEAN
    BY <1>9, Zenon DEF WaitForced
  <2> QED  BY <1>9, <2>1 DEF WaitForced
<1>10. CASE FinalKill
  <2>1. reaped' \in BOOLEAN  BY <1>10, Zenon DEF FinalKill
  <2> QED  BY <1>10, <2>1 DEF FinalKill, KillGroup, LeaderGone
<1>11. CASE Join  BY <1>11 DEF Join, Collected
<1>12. CASE JoinExpires  BY <1>12 DEF JoinExpires
<1>13. CASE Close  BY <1>13 DEF Close
<1>14. CASE JoinAgain
  <2>1. cleanupError' \in BOOLEAN  BY <1>14, Zenon DEF JoinAgain
  <2>2. CASE ThreadDead(cur) /\ Collected /\ UNCHANGED cleanupError
    BY <1>14, <2>1, <2>2 DEF JoinAgain, Collected
  <2>3. CASE ~ThreadDead(cur)
    BY <1>14, <2>1, <2>3 DEF JoinAgain
  <2> QED  BY <1>14, <2>2, <2>3 DEF JoinAgain
<1>15. CASE Release  BY <1>15 DEF Release, Ending
<1> QED
  BY <1>1, <1>2, <1>3, <1>4, <1>5, <1>6, <1>7, <1>8, <1>9, <1>10, <1>11,
     <1>12, <1>13, <1>14, <1>15 DEF Bridge

\* So does a step of the supervisor, the native tree, a drain thread or the
\* clock.
LEMMA EnvironmentType ==
    ASSUME TypeOK, Supervisor \/ SupervisorDies \/ Native
                   \/ (\E s \in Streams : Drain(s)) \/ Cancel \/ TimePasses
    PROVE  TypeOK'
<1> USE NativeRunAssumption DEF TypeOK, Streams, bridge, tree, pipes, clock, Procs
<1>1. CASE Supervisor
  BY <1>1 DEF Supervisor, SupervisorStarts, SupervisorReports, SupervisorExits
<1>2. CASE SupervisorDies  BY <1>2 DEF SupervisorDies
<1>3. CASE Native
  <2>1. ASSUME NEW p \in Procs, NEW w \in Workers, Fork(p, w) PROVE TypeOK'
    BY <2>1 DEF Fork
  <2>2. ASSUME NEW p \in Procs, Escape(p) PROVE TypeOK'
    BY <2>2 DEF Escape
  <2>3. ASSUME NEW p \in Procs, ProcExit(p) PROVE TypeOK'
    BY <2>3 DEF ProcExit
  <2>4. ASSUME NEW s \in Streams, Write(s) PROVE TypeOK'
    BY <2>4 DEF Write
  <2>5. CASE NumberReused  BY <2>5 DEF NumberReused
  <2> QED  BY <1>3, <2>1, <2>2, <2>3, <2>4, <2>5 DEF Native
<1>4. ASSUME NEW s \in Streams, Drain(s) PROVE TypeOK'
  <2>1. CASE DrainAgain(s)  BY <2>1 DEF DrainAgain
  <2>2. CASE DrainRead(s)
    <3>1. CASE ReadChunk(s)
      <4> DEFINE n == IF Available(s) >= ChunkSize THEN ChunkSize ELSE Available(s)
                 kept == IF n < Remaining(s) THEN n ELSE Remaining(s)
      <4>1. n \in Nat /\ kept \in 0..(MaxCapture + 1 - buffer[s])
        BY <3>1 DEF ReadChunk, Available, Remaining
      <4>2. /\ taken' = [taken EXCEPT ![s] = @ + n]
            /\ buffer' = [buffer EXCEPT ![s] = @ + kept]
            /\ truncated' = [truncated EXCEPT ![s] = @ \/ Overflows(s, n, kept)]
            /\ drain' = [drain EXCEPT ![s] = "between"]
        BY <3>1, Zenon DEF ReadChunk
      <4>3. Overflows(s, n, kept) \in BOOLEAN  BY DEF Overflows
      <4> HIDE DEF n, kept
      <4>4. buffer[s] + kept \in 0..(MaxCapture + 1)  BY <4>1
      <4>5. taken[s] + n \in Nat  BY <4>1
      <4> QED  BY <2>2, <4>2, <4>3, <4>4, <4>5 DEF DrainRead
    <3>2. CASE ~ReadChunk(s)  BY <2>2, <3>2 DEF DrainRead
    <3> QED  BY <3>1, <3>2
  <2> QED  BY <1>4, <2>1, <2>2 DEF Drain
<1>5. CASE Cancel  BY <1>5 DEF Cancel
<1>6. CASE TimePasses
  <2>1. timeUp' \in BOOLEAN /\ expired' \in BOOLEAN
    BY <1>6, Zenon DEF TimePasses
  <2> QED  BY <1>6, <2>1 DEF TimePasses
<1> QED  BY <1>1, <1>2, <1>3, <1>4, <1>5, <1>6

\* Every variable keeps its type; in particular the drain threads never keep
\* more than MaxCapture + 1 units of a stream.
THEOREM TypeCorrect == Spec => []TypeOK
<1>1. Init => TypeOK
  <2> SUFFICES ASSUME Init PROVE TypeOK
    OBVIOUS
  <2>1. /\ truncated \in [Streams -> BOOLEAN] /\ closed \in [Streams -> BOOLEAN]
        /\ cleanupError \in BOOLEAN /\ reaped \in BOOLEAN
        /\ cancel \in BOOLEAN /\ timeUp \in BOOLEAN /\ expired \in BOOLEAN
    BY Zenon DEF Init
  <2> QED  BY <2>1, NativeRunAssumption DEF Init, TypeOK, Streams
<1>2. TypeOK /\ [Next]_vars => TypeOK'
  <2> SUFFICES ASSUME TypeOK, [Next]_vars PROVE TypeOK'
    OBVIOUS
  <2>1. CASE UNCHANGED vars
    BY <2>1 DEF TypeOK, vars, bridge, tree, pipes, clock
  <2>2. CASE Next
    BY <2>2, BridgeType, EnvironmentType DEF Next
  <2> QED  BY <2>1, <2>2
<1> QED  BY <1>1, <1>2, PTL DEF Spec

-----------------------------------------------------------------------------
(* The group: what the cleanup achieves.                                   *)

\* Why the group is empty in the end: the steps past the forced kill are only
\* reached with a supervisor that was killed, it was killed together with its
\* group, and a group with nobody in it cannot grow again.
GroupInv ==
    /\ pc = "spawn" => sup = "none"
    /\ sup \in {"none", "booting"} => \A p \in Procs : proc[p] = "none"
    /\ sup \in {"killed", "dead"} => \A p \in Procs : proc[p] # "group"
    /\ pc = "waitForced" => sup \in {"killed", "dead"}
    /\ pc \in {"finalKill", "join", "close", "joinAgain"} => sup = "dead"
    /\ pc \in {"release", "done"} => sup \in {"none", "killed", "dead"}

LEMMA GroupStep ==
    ASSUME "supervisor_dies" \notin Faults, TypeOK, GroupInv, [Next]_vars
    PROVE  GroupInv'
<1> USE DEF TypeOK, GroupInv
<1>1. CASE UNCHANGED vars
  BY <1>1 DEF vars, bridge, tree
<1>2. CASE Bridge
  <2>1. CASE Spawn  BY <2>1 DEF Spawn
  <2>2. CASE SpawnFails  BY <2>2 DEF SpawnFails, tree
  <2>3. CASE PollStatus  BY <2>3 DEF PollStatus, tree
  <2>4. CASE PollSupervisor  BY <2>4 DEF PollSupervisor
  <2>5. CASE CheckLimits  BY <2>5 DEF CheckLimits, tree
  <2>6. CASE Terminate  BY <2>6 DEF Terminate, TermGroup, LeaderGone
  <2>7. CASE WaitSucceeds  BY <2>7 DEF WaitSucceeds
  <2>8. CASE WaitExpires  BY <2>8 DEF WaitExpires, KillGroup
  <2>9. CASE WaitForced  BY <2>9 DEF WaitForced
  <2>10. CASE FinalKill  BY <2>10 DEF FinalKill, KillGroup, LeaderGone
  <2>11. CASE Join  BY <2>11 DEF Join, Collected, tree
  <2>12. CASE JoinExpires  BY <2>12 DEF JoinExpires, tree
  <2>13. CASE Close  BY <2>13 DEF Close, tree
  <2>14. CASE JoinAgain  BY <2>14 DEF JoinAgain, Collected, tree
  <2>15. CASE Release  BY <2>15 DEF Release, tree
  <2> QED
    BY <1>2, <2>1, <2>2, <2>3, <2>4, <2>5, <2>6, <2>7, <2>8, <2>9, <2>10,
       <2>11, <2>12, <2>13, <2>14, <2>15 DEF Bridge
<1>3. CASE Supervisor
  BY <1>3 DEF Supervisor, SupervisorStarts, SupervisorReports, SupervisorExits,
              bridge
<1>4. CASE SupervisorDies  BY <1>4 DEF SupervisorDies
<1>5. CASE Native
  <2> USE DEF bridge, Procs
  <2>1. ASSUME NEW p \in Procs, NEW w \in Workers, Fork(p, w) PROVE GroupInv'
    BY <2>1 DEF Fork
  <2>2. ASSUME NEW p \in Procs, Escape(p) PROVE GroupInv'
    BY <2>2 DEF Escape
  <2>3. ASSUME NEW p \in Procs, ProcExit(p) PROVE GroupInv'
    BY <2>3 DEF ProcExit
  <2>4. ASSUME NEW s \in Streams, Write(s) PROVE GroupInv'
    BY <2>4 DEF Write, tree
  <2>5. CASE NumberReused  BY <2>5 DEF NumberReused
  <2> QED  BY <1>5, <2>1, <2>2, <2>3, <2>4, <2>5 DEF Native
<1>6. ASSUME NEW s \in Streams, Drain(s) PROVE GroupInv'
  BY <1>6 DEF Drain, DrainRead, DrainAgain, bridge, tree
<1>7. CASE Cancel \/ TimePasses
  BY <1>7 DEF Cancel, TimePasses, bridge, tree
<1> QED
  BY <1>1, <1>2, <1>3, <1>4, <1>5, <1>6, <1>7 DEF Next

\* However a run ends, the process group it started is empty then, unless
\* somebody outside killed its leader.
THEOREM GroupIsGone == Spec => []GroupGone
<1>1. Init /\ "supervisor_dies" \notin Faults => GroupInv
  BY DEF Init, GroupInv
<1>2. "supervisor_dies" \notin Faults /\ TypeOK /\ GroupInv /\ [Next]_vars
        => GroupInv'
  BY GroupStep
<1>3. TypeOK /\ ("supervisor_dies" \notin Faults => GroupInv) => GroupGone
  <2> SUFFICES ASSUME GroupInv, "supervisor_dies" \notin Faults, pc = "done",
                      NEW p \in InGroup
               PROVE  FALSE
    BY DEF GroupGone
  <2>1. sup \in {"none", "killed", "dead"}  BY DEF GroupInv
  <2> QED  BY <2>1 DEF GroupInv, InGroup
<1>4. CASE "supervisor_dies" \notin Faults
  BY <1>1, <1>2, <1>3, <1>4, TypeCorrect, PTL DEF Spec
<1>5. CASE "supervisor_dies" \in Faults
  <2>1. GroupGone  BY <1>5 DEF GroupGone
  <2> QED  BY <2>1, PTL
<1> QED  BY <1>4, <1>5
-----------------------------------------------------------------------------
(* The number of a process group that is gone.                             *)

\* A number can only be reused after the bridge has waited for the supervisor,
\* and then the supervisor is dead, which is what terminate asks first.
ReuseInv ==
    /\ pc = "spawn" => ~reaped
    /\ reaped => sup = "dead"
    /\ stranger # "none" => reaped
    /\ stranger # "signalled"

LEMMA ReuseStep == TypeOK /\ ReuseInv /\ [Next]_vars => ReuseInv'
<1> SUFFICES ASSUME TypeOK, ReuseInv, [Next]_vars PROVE ReuseInv'
  OBVIOUS
<1> USE DEF TypeOK, ReuseInv
<1>1. CASE UNCHANGED vars
  BY <1>1 DEF vars, bridge, tree
<1>2. CASE Bridge
  <2>1. CASE Spawn  BY <2>1 DEF Spawn
  <2>2. CASE \/ SpawnFails \/ PollStatus \/ CheckLimits \/ Join \/ JoinExpires
             \/ Close \/ JoinAgain \/ Release
    BY <2>2 DEF SpawnFails, PollStatus, CheckLimits, Join, JoinExpires, Close,
                JoinAgain, Release, Collected, tree
  <2>3. CASE PollSupervisor  BY <2>3 DEF PollSupervisor
  <2>4. CASE Terminate  BY <2>4 DEF Terminate, TermGroup, LeaderGone
  <2>5. CASE WaitSucceeds  BY <2>5 DEF WaitSucceeds
  <2>6. CASE WaitExpires  BY <2>6 DEF WaitExpires, KillGroup
  <2>7. CASE WaitForced  BY <2>7 DEF WaitForced
  <2>8. CASE FinalKill  BY <2>8 DEF FinalKill, KillGroup, LeaderGone
  <2> QED
    BY <1>2, <2>1, <2>2, <2>3, <2>4, <2>5, <2>6, <2>7, <2>8 DEF Bridge
<1>3. CASE Supervisor \/ SupervisorDies
  BY <1>3 DEF Supervisor, SupervisorStarts, SupervisorReports, SupervisorExits,
              SupervisorDies, bridge
<1>4. CASE Native
  BY <1>4 DEF Native, Fork, Escape, ProcExit, Write, NumberReused, bridge, tree
<1>5. ASSUME NEW s \in Streams, Drain(s) PROVE ReuseInv'
  BY <1>5 DEF Drain, DrainRead, DrainAgain, bridge, tree
<1>6. CASE Cancel \/ TimePasses
  BY <1>6 DEF Cancel, TimePasses, bridge, tree
<1> QED
  BY <1>1, <1>2, <1>3, <1>4, <1>5, <1>6 DEF Next

\* Whoever kills the supervisor, and however its number is reused: no signal
\* ever reaches a process group the bridge does not own.
THEOREM StrangersAreSafe == Spec => []StrangerNotSignalled
<1>1. Init => ReuseInv
  BY Zenon DEF Init, ReuseInv
<1>2. ReuseInv => StrangerNotSignalled
  BY DEF ReuseInv, StrangerNotSignalled
<1> QED  BY <1>1, <1>2, ReuseStep, TypeCorrect, PTL DEF Spec

-----------------------------------------------------------------------------
(* The result.                                                             *)

\* The steps of the bridge that follow the polling loop.
Ended == {"terminate", "wait", "waitForced", "finalKill", "join", "close",
          "joinAgain", "release", "done"}

\* How the exit code travels: a target that died under a waiting supervisor
\* has an exit code, the status line is written after it, the bridge reads it
\* from the line, and only a run that nothing interrupted has read it.
ResultInv ==
    /\ pc = "spawn" => sup = "none"
    /\ sup \in {"none", "booting"} => proc[Target] = "none"
    /\ sup \in {"none", "booting", "waiting"} => status = "none"
    /\ sup = "waiting" /\ proc[Target] = "dead" => exitCode \in ExitCodes
    /\ exitCode # NoCode => proc[Target] = "dead"
    /\ status = "returncode" => proc[Target] = "dead" /\ exitCode \in ExitCodes
    /\ code # NoCode => status = "returncode" /\ code = exitCode
    /\ pc \in Ended /\ pending = "none" => code # NoCode
    /\ outcome = "none" <=> pc # "done"
    /\ outcome = "returned" => pending = "none" /\ ~cleanupError

LEMMA ResultStep == TypeOK /\ ResultInv /\ [Next]_vars => ResultInv'
<1> SUFFICES ASSUME TypeOK, ResultInv, [Next]_vars PROVE ResultInv'
  OBVIOUS
<1> USE NativeRunAssumption DEF TypeOK, ResultInv, Ended
<1>1. CASE UNCHANGED vars
  BY <1>1 DEF vars, bridge, tree
<1>2. CASE Bridge
  <2>1. CASE Spawn  BY <2>1 DEF Spawn
  <2>2. CASE SpawnFails  BY <2>2 DEF SpawnFails, tree
  <2>3. CASE PollStatus  BY <2>3 DEF PollStatus, tree
  <2>4. CASE PollSupervisor  BY <2>4 DEF PollSupervisor
  <2>5. CASE CheckLimits  BY <2>5 DEF CheckLimits, tree
  <2>6. CASE Terminate  BY <2>6 DEF Terminate, TermGroup, LeaderGone
  <2>7. CASE WaitSucceeds  BY <2>7 DEF WaitSucceeds
  <2>8. CASE WaitExpires  BY <2>8 DEF WaitExpires, KillGroup, Procs
  <2>9. CASE WaitForced  BY <2>9 DEF WaitForced
  <2>10. CASE FinalKill  BY <2>10 DEF FinalKill, KillGroup, LeaderGone, Procs
  <2>11. CASE Join  BY <2>11 DEF Join, Collected, tree
  <2>12. CASE JoinExpires  BY <2>12 DEF JoinExpires, tree
  <2>13. CASE Close  BY <2>13 DEF Close, tree
  <2>14. CASE JoinAgain  BY <2>14 DEF JoinAgain, Collected, tree
  <2>15. CASE Release  BY <2>15 DEF Release, Ending, tree
  <2> QED
    BY <1>2, <2>1, <2>2, <2>3, <2>4, <2>5, <2>6, <2>7, <2>8, <2>9, <2>10,
       <2>11, <2>12, <2>13, <2>14, <2>15 DEF Bridge
<1>3. CASE Supervisor \/ SupervisorDies
  BY <1>3 DEF Supervisor, SupervisorStarts, SupervisorReports, SupervisorExits,
              SupervisorDies, bridge, Procs
<1>4. CASE Native
  <2> USE DEF bridge, Procs
  <2>1. ASSUME NEW p \in Procs, NEW w \in Workers, Fork(p, w) PROVE ResultInv'
    BY <2>1 DEF Fork
  <2>2. ASSUME NEW p \in Procs, Escape(p) PROVE ResultInv'
    BY <2>2 DEF Escape
  <2>3. ASSUME NEW p \in Procs, ProcExit(p) PROVE ResultInv'
    BY <2>3 DEF ProcExit
  <2>4. ASSUME NEW s \in Streams, Write(s) PROVE ResultInv'
    BY <2>4 DEF Write, tree
  <2>5. CASE NumberReused  BY <2>5 DEF NumberReused
  <2> QED  BY <1>4, <2>1, <2>2, <2>3, <2>4, <2>5 DEF Native
<1>5. ASSUME NEW s \in Streams, Drain(s) PROVE ResultInv'
  BY <1>5 DEF Drain, DrainRead, DrainAgain, bridge, tree
<1>6. CASE Cancel \/ TimePasses
  BY <1>6 DEF Cancel, TimePasses, bridge, tree
<1> QED
  BY <1>1, <1>2, <1>3, <1>4, <1>5, <1>6 DEF Next

LEMMA ResultInit == Init => ResultInv
BY NativeRunAssumption DEF Init, ResultInv, Ended, Procs

\* A call that returns has read the exit code of an executable that is gone.
THEOREM ResultIsReal == Spec => []ResultIsTheExitCode
<1>1. TypeOK /\ ResultInv => ResultIsTheExitCode
  BY DEF TypeOK, ResultInv, Ended, ResultIsTheExitCode
<1> QED  BY <1>1, ResultInit, ResultStep, TypeCorrect, PTL DEF Spec

-----------------------------------------------------------------------------
(* What may take the place of a result.                                    *)

\* Why a call raises: each reason to leave the loop early is in the state, and
\* the cleanup has no error before its deadline.  As long as the loop runs
\* nobody has signalled the supervisor.
RaiseInv ==
    /\ pc \in {"poll", "pollSup", "check"} => sup \notin {"killed", "dead"}
    /\ cleanupError \/ pc \in {"close", "joinAgain"} => expired
    /\ pending # "supervisor_lost"
    /\ pending = "cancelled" => cancel
    /\ pending = "timeout" => timeUp
    /\ pending = "not_started" => sup = "none" /\ pc \in {"release", "done"}
    /\ pending = "spawn_error" => status = "spawn_error"
    /\ status = "spawn_error" => proc[Target] = "none"
    /\ outcome = "raised" => cleanupError \/ pending # "none"

LEMMA RaiseStep ==
    ASSUME "supervisor_dies" \notin Faults, TypeOK, ResultInv, RaiseInv, [Next]_vars
    PROVE  RaiseInv'
<1> USE NativeRunAssumption DEF TypeOK, ResultInv, RaiseInv
<1>1. CASE UNCHANGED vars
  BY <1>1 DEF vars, bridge, tree, clock
<1>2. CASE Bridge
  <2>1. CASE Spawn  BY <2>1 DEF Spawn, clock
  <2>2. CASE SpawnFails  BY <2>2 DEF SpawnFails, tree, clock
  <2>3. CASE PollStatus  BY <2>3 DEF PollStatus, tree, clock
  <2>4. CASE PollSupervisor  BY <2>4 DEF PollSupervisor, clock
  <2>5. CASE CheckLimits  BY <2>5 DEF CheckLimits, tree, clock
  <2>6. CASE Terminate  BY <2>6 DEF Terminate, TermGroup, LeaderGone, clock
  <2>7. CASE WaitSucceeds  BY <2>7 DEF WaitSucceeds, clock
  <2>8. CASE WaitExpires  BY <2>8 DEF WaitExpires, KillGroup, Procs, clock
  <2>9. CASE WaitForced  BY <2>9 DEF WaitForced, clock
  <2>10. CASE FinalKill  BY <2>10 DEF FinalKill, KillGroup, LeaderGone, Procs, clock
  <2>11. CASE Join  BY <2>11 DEF Join, Collected, tree, clock
  <2>12. CASE JoinExpires  BY <2>12 DEF JoinExpires, tree, clock
  <2>13. CASE Close  BY <2>13 DEF Close, tree, clock
  <2>14. CASE JoinAgain  BY <2>14 DEF JoinAgain, Collected, tree, clock
  <2>15. CASE Release  BY <2>15 DEF Release, Ending, tree, clock
  <2> QED
    BY <1>2, <2>1, <2>2, <2>3, <2>4, <2>5, <2>6, <2>7, <2>8, <2>9, <2>10,
       <2>11, <2>12, <2>13, <2>14, <2>15 DEF Bridge
<1>3. CASE Supervisor \/ SupervisorDies
  BY <1>3 DEF Supervisor, SupervisorStarts, SupervisorReports, SupervisorExits,
              SupervisorDies, bridge, clock, Procs
<1>4. CASE Native
  <2> USE DEF bridge, clock, Procs
  <2>1. ASSUME NEW p \in Procs, NEW w \in Workers, Fork(p, w) PROVE RaiseInv'
    BY <2>1 DEF Fork
  <2>2. ASSUME NEW p \in Procs, Escape(p) PROVE RaiseInv'
    BY <2>2 DEF Escape
  <2>3. ASSUME NEW p \in Procs, ProcExit(p) PROVE RaiseInv'
    BY <2>3 DEF ProcExit
  <2>4. ASSUME NEW s \in Streams, Write(s) PROVE RaiseInv'
    BY <2>4 DEF Write, tree
  <2>5. CASE NumberReused  BY <2>5 DEF NumberReused
  <2> QED  BY <1>4, <2>1, <2>2, <2>3, <2>4, <2>5 DEF Native
<1>5. ASSUME NEW s \in Streams, Drain(s) PROVE RaiseInv'
  BY <1>5 DEF Drain, DrainRead, DrainAgain, bridge, tree, clock
<1>6. CASE Cancel \/ TimePasses
  BY <1>6 DEF Cancel, TimePasses, bridge, tree
<1> QED
  BY <1>1, <1>2, <1>3, <1>4, <1>5, <1>6 DEF Next

\* A call that is not cancelled and stays within its deadlines raises only if the
\* native executable never started.
THEOREM ResultIsNotLost == Spec => []OnlyFailuresRaise
<1>1. CASE "supervisor_dies" \in Faults
  <2>1. OnlyFailuresRaise  BY <1>1 DEF OnlyFailuresRaise
  <2> QED  BY <2>1, PTL
<1>2. CASE "supervisor_dies" \notin Faults
  <2>1. Init => RaiseInv
    BY NativeRunAssumption DEF Init, RaiseInv, Procs
  <2>2. TypeOK /\ ResultInv /\ RaiseInv /\ [Next]_vars => RaiseInv'
    BY <1>2, RaiseStep
  <2>3. TypeOK /\ ResultInv /\ RaiseInv => OnlyFailuresRaise
    BY DEF TypeOK, ResultInv, RaiseInv, OnlyFailuresRaise
  <2> QED
    BY <2>1, <2>2, <2>3, ResultInit, ResultStep, TypeCorrect, PTL DEF Spec
<1> QED  BY <1>1, <1>2

-----------------------------------------------------------------------------
(* NativeRun implements BoundedRun.                                        *)

\* The outcome the contract speaks of.
Settled == IF outcome = "returned" THEN code
           ELSE IF outcome = "raised" THEN "raised" ELSE "running"

\* What a step of the bridge does to the contract: a forced kill shrinks the
\* tree, the last step settles the call, and the others change nothing.
LEMMA BridgeKeepsContract ==
    ASSUME TypeOK, GroupInv, ResultInv, Bridge
    PROVE  Contract!Next \/ UNCHANGED Contract!vars
<1> USE DEF TypeOK, ResultInv, Ended
<1>1. CASE WaitExpires \/ FinalKill
  <2>1. InGroup' \in SUBSET InGroup
    BY <1>1 DEF WaitExpires, FinalKill, KillGroup, LeaderGone, InGroup
  <2>2. Settled' = Settled /\ exitCode' = exitCode
    BY <1>1 DEF WaitExpires, FinalKill, Settled
  <2>3. Contract!Shrink
    BY <2>1, <2>2 DEF Contract!Shrink, Settled
  <2> QED  BY <2>3 DEF Contract!Next
<1>2. CASE Release
  <2>1. InGroup = {} /\ InGroup' = {} /\ exitCode' = exitCode
    BY <1>2 DEF Release, GroupInv, InGroup, tree
  <2>2. Settled = "running"
    BY <1>2 DEF Release, Settled
  <2>3. \/ Settled' = "raised"
        \/ exitCode # NoCode /\ Settled' = exitCode
    BY <1>2 DEF Release, Ending, Settled
  <2>4. Contract!Settle
    BY <2>1, <2>2, <2>3 DEF Contract!Settle, Settled
  <2> QED  BY <2>4 DEF Contract!Next
<1>3. CASE \/ Spawn \/ SpawnFails \/ PollStatus \/ PollSupervisor \/ CheckLimits
           \/ Terminate \/ WaitSucceeds \/ WaitForced \/ Join \/ JoinExpires
           \/ Close \/ JoinAgain
  <2>1. proc' = proc /\ exitCode' = exitCode /\ outcome' = outcome
    BY <1>3 DEF Spawn, SpawnFails, PollStatus, PollSupervisor, CheckLimits,
                Terminate, TermGroup, WaitSucceeds, WaitForced, Join,
                JoinExpires, Close, JoinAgain, tree
  <2>2. code' = code \/ outcome = "none"
    BY <1>3 DEF Spawn, SpawnFails, PollStatus, PollSupervisor, CheckLimits,
                Terminate, WaitSucceeds, WaitForced, Join, JoinExpires, Close,
                JoinAgain
  <2>3. InGroup' = InGroup /\ Settled' = Settled
    BY <2>1, <2>2 DEF InGroup, Settled
  <2> QED  BY <2>1, <2>3 DEF Contract!vars, Settled
<1> QED  BY <1>1, <1>2, <1>3 DEF Bridge

\* What a step of the tree does to it: the tree grows and shrinks only while
\* the call is under way.
LEMMA TreeKeepsContract ==
    ASSUME TypeOK, GroupInv, ResultInv, Supervisor \/ Native
    PROVE  Contract!Next \/ UNCHANGED Contract!vars
<1> USE DEF TypeOK, ResultInv, Ended, bridge, Procs
<1>1. ASSUME NEW q \in Procs, InGroup' = InGroup \cup {q}, sup # "none",
             sup \notin {"killed", "dead"}, exitCode' = exitCode, UNCHANGED bridge
      PROVE  Contract!Next
  <2>1. Settled = "running" /\ Settled' = Settled
    BY <1>1 DEF GroupInv, Settled
  <2> QED  BY <1>1, <2>1 DEF Contract!Next, Contract!Grow, Settled
<1>2. ASSUME InGroup' \in SUBSET InGroup, exitCode' \in {exitCode} \cup ExitCodes,
             exitCode' # exitCode => exitCode = NoCode, UNCHANGED bridge
      PROVE  Contract!Next
  BY <1>2 DEF Contract!Next, Contract!Shrink
<1>3. CASE SupervisorStarts
  <2>1. CASE proc' = [proc EXCEPT ![Target] = "group"]
    <3>1. InGroup' = InGroup \cup {Target}
      BY <2>1 DEF InGroup
    <3> QED  BY <1>1, <1>3, <3>1 DEF SupervisorStarts
  <2>2. CASE UNCHANGED proc
    BY <1>2, <1>3, <2>2 DEF SupervisorStarts, InGroup
  <2> QED  BY <1>3, <2>1, <2>2 DEF SupervisorStarts
<1>4. CASE SupervisorReports \/ SupervisorExits
  BY <1>2, <1>4 DEF SupervisorReports, SupervisorExits, InGroup
<1>5. ASSUME NEW p \in Procs, NEW w \in Workers, Fork(p, w)
      PROVE  Contract!Next
  <2>1. CASE proc[p] = "group"
    <3>1. InGroup' = InGroup \cup {w}
      BY <1>5, <2>1 DEF Fork, InGroup
    <3>2. sup # "none" /\ sup \notin {"killed", "dead"}
      BY <2>1 DEF GroupInv
    <3> QED  BY <1>1, <1>5, <3>1, <3>2 DEF Fork
  <2>2. CASE proc[p] # "group"
    <3>1. InGroup' = InGroup
      BY <1>5, <2>2 DEF Fork, InGroup
    <3> QED  BY <1>2, <1>5, <3>1 DEF Fork
  <2> QED  BY <2>1, <2>2
<1>6. ASSUME NEW p \in Procs, Escape(p) PROVE Contract!Next
  BY <1>2, <1>6 DEF Escape, InGroup
<1>7. ASSUME NEW p \in Procs, ProcExit(p) PROVE Contract!Next
  <2>1. InGroup' \in SUBSET InGroup
    BY <1>7 DEF ProcExit, InGroup
  <2>2. exitCode' \in {exitCode} \cup ExitCodes /\ (exitCode' # exitCode => exitCode = NoCode)
    BY <1>7 DEF ProcExit
  <2> QED  BY <1>2, <1>7, <2>1, <2>2 DEF ProcExit
<1>8. ASSUME NEW s \in Streams, Write(s) PROVE Contract!Next
  BY <1>2, <1>8 DEF Write, tree, InGroup
<1>9. CASE NumberReused
  BY <1>2, <1>9 DEF NumberReused, InGroup
<1> QED
  BY <1>3, <1>4, <1>5, <1>6, <1>7, <1>8, <1>9 DEF Supervisor, Native

\* Unless somebody outside kills the supervisor, a run keeps the contract of
\* BoundedRun: it settles only with an empty group, once, and truthfully.
THEOREM ContractKept ==
    ASSUME "supervisor_dies" \notin Faults PROVE Spec => KeepsContract
<1>1. Init => Contract!Init
  BY Zenon DEF Init, Contract!Init, InGroup
<1>2. TypeOK /\ GroupInv /\ ResultInv /\ [Next]_vars => [Contract!Next]_(Contract!vars)
  <2> SUFFICES ASSUME TypeOK, GroupInv, ResultInv, [Next]_vars
               PROVE  Contract!Next \/ UNCHANGED Contract!vars
    OBVIOUS
  <2>1. CASE Bridge  BY <2>1, BridgeKeepsContract
  <2>2. CASE Supervisor \/ Native  BY <2>2, TreeKeepsContract
  <2>3. CASE SupervisorDies  BY <2>3 DEF SupervisorDies
  <2>4. CASE (\E s \in Streams : Drain(s)) \/ Cancel \/ TimePasses \/ UNCHANGED vars
    <3>1. UNCHANGED <<proc, exitCode, outcome, code>>
      BY <2>4 DEF Drain, DrainRead, DrainAgain, Cancel, TimePasses, vars, bridge, tree
    <3> QED  BY <3>1 DEF Contract!vars, InGroup
  <2> QED  BY <2>1, <2>2, <2>3, <2>4 DEF Next
<1>3. Init => GroupInv
  BY DEF Init, GroupInv
<1>4. TypeOK /\ GroupInv /\ [Next]_vars => GroupInv'
  BY GroupStep
<1> QED
  BY <1>1, <1>2, <1>3, <1>4, ResultInit, ResultStep, TypeCorrect, PTL
  DEF Spec, KeepsContract, Contract!Spec
-----------------------------------------------------------------------------
(* The captured output.                                                    *)

\* What the drain thread of stream s has kept of what it has read, and when it
\* may end: at the end of a file nobody can write to any more.
Kept(s) == IF taken[s] > MaxCapture THEN MaxCapture + 1 ELSE taken[s]

CaptureInv ==
    \A s \in Streams :
        /\ taken[s] <= written[s]
        /\ buffer[s] = Kept(s)
        /\ truncated[s] <=> taken[s] > MaxCapture
        /\ drain[s] = "ended" => taken[s] = written[s] /\ EndOfFile

\* While the cleanup is within its time, a stream is closed only after its
\* thread has ended by itself, and both are closed before a result is returned.
JoinInv ==
    /\ pc = "spawn" => sup = "none" /\ \A s \in Streams : ~closed[s]
    /\ ~expired =>
         /\ pc \notin {"close", "joinAgain"}
         /\ ~cleanupError
         /\ \A s \in Streams : /\ drain[s] # "failed"
                               /\ closed[s] => drain[s] = "ended"
         /\ cur = 2 => closed[1]
         /\ pc \in {"release", "done"} /\ pending # "not_started" =>
                \A s \in Streams : closed[s]

\* One read keeps the books of its stream.
LEMMA ReadKeepsBooks ==
    ASSUME NEW s \in Streams, TypeOK, CaptureInv, ReadChunk(s)
    PROVE  /\ taken'[s] <= written[s]
           /\ buffer'[s] = IF taken'[s] > MaxCapture THEN MaxCapture + 1 ELSE taken'[s]
           /\ truncated'[s] <=> taken'[s] > MaxCapture
<1> USE NativeRunAssumption
<1> DEFINE n == IF Available(s) >= ChunkSize THEN ChunkSize ELSE Available(s)
           kept == IF n < Remaining(s) THEN n ELSE Remaining(s)
<1>1. n > 0 /\ taken'[s] = taken[s] + n /\ buffer'[s] = buffer[s] + kept
  BY Zenon DEF ReadChunk, TypeOK
<1>2. truncated'[s] <=> truncated[s] \/ Overflows(s, n, kept)
  BY Zenon DEF ReadChunk, TypeOK
<1>3. /\ taken[s] \in Nat /\ written[s] \in Nat /\ taken[s] <= written[s]
      /\ buffer[s] = IF taken[s] > MaxCapture THEN MaxCapture + 1 ELSE taken[s]
  BY DEF TypeOK, CaptureInv, Kept
<1>4. truncated[s] <=> taken[s] > MaxCapture
  BY Zenon DEF CaptureInv
<1>5. n \in Nat /\ n <= written[s] - taken[s]
  BY <1>1, <1>3 DEF Available
<1> HIDE DEF n
<1>6. kept \in Nat /\ kept = IF n < MaxCapture + 1 - buffer[s] THEN n
                             ELSE MaxCapture + 1 - buffer[s]
  BY <1>3, <1>5 DEF Remaining
<1> HIDE DEF kept
<1>7. taken[s] <= MaxCapture =>
        (Overflows(s, n, kept) <=> taken[s] + n > MaxCapture)
  BY <1>3, <1>5, <1>6 DEF Overflows, Remaining
<1>8. taken[s] > MaxCapture => taken[s] + n > MaxCapture
  BY <1>3, <1>5
<1>9. taken[s] <= MaxCapture \/ taken[s] > MaxCapture
  BY <1>3
<1>10. truncated'[s] <=> taken[s] + n > MaxCapture
  BY <1>2, <1>4, <1>7, <1>8, <1>9, Zenon
<1>11. truncated'[s] <=> taken'[s] > MaxCapture
  BY <1>1, <1>10, Zenon
<1>12. /\ taken'[s] <= written[s]
       /\ buffer'[s] = IF taken'[s] > MaxCapture THEN MaxCapture + 1 ELSE taken'[s]
  BY <1>1, <1>3, <1>5, <1>6
<1> QED  BY <1>11, <1>12

LEMMA CaptureStep ==
    TypeOK /\ JoinInv /\ CaptureInv /\ [Next]_vars => CaptureInv'
<1> SUFFICES ASSUME TypeOK, JoinInv, CaptureInv, [Next]_vars PROVE CaptureInv'
  OBVIOUS
<1> USE DEF EndOfFile, HoldsPipes
<1>1. ASSUME UNCHANGED <<written, taken, buffer, truncated>>, EndOfFile => EndOfFile',
             \A s \in Streams : drain'[s] = "ended" => drain[s] = "ended"
      PROVE  CaptureInv'
  BY <1>1 DEF CaptureInv, Kept
<1>2. CASE UNCHANGED vars
  BY <1>1, <1>2 DEF vars, pipes, tree
<1>3. CASE Bridge
  <2>1. CASE Spawn
    <3>1. \A s \in Streams : drain'[s] = "reading"  BY <2>1 DEF Spawn
    <3>2. ~EndOfFile  BY <2>1 DEF Spawn, JoinInv
    <3> QED  BY <1>1, <2>1, <3>1, <3>2 DEF Spawn
  <2>2. CASE \/ SpawnFails \/ PollStatus \/ PollSupervisor \/ CheckLimits
             \/ WaitSucceeds \/ WaitForced \/ Join \/ JoinExpires \/ Close
             \/ JoinAgain \/ Release
    <3>1. UNCHANGED <<sup, proc, written, taken, buffer, truncated, drain>>
      BY <2>2 DEF SpawnFails, PollStatus, PollSupervisor, CheckLimits, WaitSucceeds,
                  WaitForced, Join, JoinExpires, Close, JoinAgain, Release,
                  tree, pipes
    <3> QED  BY <1>1, <3>1
  <2>3. CASE Terminate \/ WaitExpires \/ FinalKill
    <3>1. UNCHANGED pipes
      BY <2>3 DEF Terminate, WaitExpires, FinalKill
    <3>2. EndOfFile => EndOfFile'
      BY <2>3 DEF Terminate, WaitExpires, FinalKill, TermGroup, KillGroup, LeaderGone
    <3> QED  BY <1>1, <3>1, <3>2 DEF pipes
  <2> QED  BY <1>3, <2>1, <2>2, <2>3 DEF Bridge
<1>4. CASE Supervisor \/ SupervisorDies
  <2>1. UNCHANGED pipes /\ (EndOfFile => EndOfFile')
    BY <1>4 DEF Supervisor, SupervisorStarts, SupervisorReports, SupervisorExits,
                SupervisorDies
  <2> QED  BY <1>1, <2>1 DEF pipes
<1>5. CASE Native
  <2>1. ASSUME NEW p \in Procs, NEW w \in Workers, Fork(p, w) PROVE CaptureInv'
    <3>1. UNCHANGED pipes /\ sup' = sup  BY <2>1 DEF Fork
    <3>2. EndOfFile => EndOfFile'
      BY <2>1, <3>1 DEF Fork, TypeOK, Procs
    <3> QED  BY <1>1, <3>1, <3>2 DEF pipes
  <2>2. ASSUME NEW p \in Procs, Escape(p) \/ ProcExit(p) PROVE CaptureInv'
    <3>1. UNCHANGED pipes /\ sup' = sup  BY <2>2 DEF Escape, ProcExit
    <3>2. EndOfFile => EndOfFile'
      BY <2>2, <3>1 DEF Escape, ProcExit, TypeOK
    <3> QED  BY <1>1, <3>1, <3>2 DEF pipes
  <2>3. ASSUME NEW s \in Streams, Write(s) PROVE CaptureInv'
    <3>1. /\ ~EndOfFile /\ UNCHANGED <<taken, buffer, truncated, drain>>
          /\ written' = [written EXCEPT ![s] = @ + 1]
      BY <2>3 DEF Write
    <3> HIDE DEF EndOfFile
    <3> QED  BY <3>1 DEF CaptureInv, Kept, TypeOK
  <2>4. CASE NumberReused
    BY <1>1, <2>4 DEF NumberReused, pipes
  <2> QED  BY <1>5, <2>1, <2>2, <2>3, <2>4 DEF Native
<1>6. ASSUME NEW s \in Streams, Drain(s) PROVE CaptureInv'
  <2>1. UNCHANGED <<sup, proc, written>>
    BY <1>6 DEF Drain, DrainRead, DrainAgain, tree
  <2>2. CASE DrainAgain(s)
    <3>1. \A t \in Streams : drain'[t] = "ended" => drain[t] = "ended"
      BY <2>2 DEF DrainAgain, TypeOK
    <3> QED  BY <1>1, <2>1, <2>2, <3>1 DEF DrainAgain
  <2>3. CASE DrainRead(s) /\ ReadChunk(s)
    <3>1. \A t \in Streams \ {s} :
            /\ taken'[t] = taken[t] /\ buffer'[t] = buffer[t]
            /\ truncated'[t] = truncated[t] /\ drain'[t] = drain[t]
      BY <2>3 DEF ReadChunk, TypeOK
    <3>2. drain'[s] = "between"
      BY <2>3 DEF ReadChunk, TypeOK
    <3>3. \A t \in Streams : EndOfFile' = EndOfFile
      BY <2>1
    <3> HIDE DEF EndOfFile
    <3> QED  BY <2>1, <2>3, <3>1, <3>2, <3>3, ReadKeepsBooks DEF CaptureInv, Kept
  <2>4. CASE DrainRead(s) /\ ~ReadChunk(s)
    <3>1. /\ Available(s) = 0 /\ UNCHANGED <<taken, buffer, truncated>>
          /\ drain' = [drain EXCEPT ![s] = "ended"] /\ EndOfFile
      BY <2>4, NativeRunAssumption DEF DrainRead, Available, TypeOK
    <3>2. EndOfFile'  BY <2>1, <3>1
    <3>3. taken[s] = written[s]  BY <3>1 DEF Available, TypeOK
    <3> HIDE DEF EndOfFile
    <3> QED  BY <2>1, <3>1, <3>2, <3>3 DEF CaptureInv, Kept, TypeOK
  <2> QED  BY <1>6, <2>2, <2>3, <2>4 DEF Drain, DrainRead
<1>7. CASE Cancel \/ TimePasses
  BY <1>1, <1>7 DEF Cancel, TimePasses, pipes, tree
<1> QED  BY <1>2, <1>3, <1>4, <1>5, <1>6, <1>7 DEF Next

LEMMA JoinStep == TypeOK /\ ResultInv /\ JoinInv /\ [Next]_vars => JoinInv'
<1> SUFFICES ASSUME TypeOK, ResultInv, JoinInv, [Next]_vars PROVE JoinInv'
  OBVIOUS
<1> USE DEF TypeOK, JoinInv, Streams
<1>1. CASE UNCHANGED vars
  BY <1>1 DEF vars, bridge, tree, pipes, clock
<1>2. CASE Bridge
  <2>1. CASE Spawn  BY <2>1 DEF Spawn, clock
  <2>2. CASE SpawnFails  BY <2>2 DEF SpawnFails, tree, pipes, clock
  <2>3. CASE PollStatus \/ PollSupervisor \/ CheckLimits
    BY <2>3 DEF PollStatus, PollSupervisor, CheckLimits, tree, pipes, clock
  <2>4. CASE Terminate  BY <2>4 DEF Terminate, TermGroup, pipes, clock
  <2>5. CASE WaitSucceeds  BY <2>5 DEF WaitSucceeds, pipes, clock
  <2>6. CASE WaitExpires  BY <2>6 DEF WaitExpires, KillGroup, pipes, clock
  <2>7. CASE WaitForced
    <3>1. CASE expired  BY <2>7, <3>1 DEF WaitForced, clock
    <3>2. CASE ~expired  BY <2>7, <3>2 DEF WaitForced, pipes, clock
    <3> QED  BY <3>1, <3>2
  <2>8. CASE FinalKill  BY <2>8 DEF FinalKill, KillGroup, pipes, clock
  <2>9. CASE Join
    <3>1. UNCHANGED <<pending, cleanupError, drain, expired, sup>> /\ pc = "join" /\ pc' \in {"join", "release"}
      BY <2>9 DEF Join, Collected, clock, tree
    <3>2. CASE expired  BY <3>1, <3>2
    <3>3. CASE ~expired
      <4>1. drain[cur] = "ended"
        BY <2>9, <3>3 DEF Join, ThreadDead
      <4>2. closed' = [closed EXCEPT ![cur] = TRUE]
        BY <2>9 DEF Join, Collected
      <4>3. \A s \in Streams : closed'[s] => closed[s] \/ s = cur
        BY <4>2, Zenon
      <4>4. \A s \in Streams : closed'[s] => drain'[s] = "ended"
        BY <3>1, <3>3, <4>1, <4>3
      <4>5. closed'[cur] /\ \A s \in Streams : closed[s] => closed'[s]
        BY <4>2, Zenon
      <4>6. CASE cur = 1
        BY <2>9, <3>1, <3>3, <4>4, <4>5, <4>6 DEF Join, Collected
      <4>7. CASE cur = 2
        BY <2>9, <3>1, <3>3, <4>4, <4>5, <4>7 DEF Join, Collected
      <4> QED  BY <4>6, <4>7
    <3> QED  BY <3>2, <3>3
  <2>10. CASE JoinExpires \/ Close \/ JoinAgain
    <3>1. expired /\ expired' = expired /\ pc' # "spawn"
      BY <2>10 DEF JoinExpires, Close, JoinAgain, Collected, clock
    <3> QED  BY <3>1
  <2>11. CASE Release
    BY <2>11 DEF Release, tree, pipes, clock
  <2> QED
    BY <1>2, <2>1, <2>2, <2>3, <2>4, <2>5, <2>6, <2>7, <2>8, <2>9, <2>10,
       <2>11 DEF Bridge
<1>3. CASE Supervisor \/ SupervisorDies
  BY <1>3 DEF Supervisor, SupervisorStarts, SupervisorReports, SupervisorExits,
              SupervisorDies, bridge, pipes, clock
<1>4. CASE Native
  <2>1. UNCHANGED <<bridge, sup, drain, closed, clock>>
    BY <1>4 DEF Native, Fork, Escape, ProcExit, Write, NumberReused, pipes, tree
  <2> QED  BY <2>1 DEF bridge, clock
<1>5. ASSUME NEW s \in Streams, Drain(s) PROVE JoinInv'
  <2>1. UNCHANGED <<bridge, sup, closed, clock>>
    BY <1>5 DEF Drain, DrainRead, DrainAgain, tree
  <2>2. drain[s] # "ended" /\ \A t \in Streams \ {s} : drain'[t] = drain[t]
    BY <1>5 DEF Drain, DrainRead, DrainAgain, ReadChunk
  <2>3. drain'[s] = "failed" => closed[s]
    BY <1>5 DEF Drain, DrainRead, DrainAgain, ReadChunk
  <2>4. CASE expired  BY <2>1, <2>4 DEF bridge, clock
  <2>5. CASE ~expired
    <3>1. ~closed[s]  BY <2>2, <2>5
    <3>2. \A t \in Streams : /\ drain'[t] # "failed"
                             /\ closed'[t] => drain'[t] = "ended"
      BY <2>1, <2>2, <2>3, <2>5, <3>1
    <3> QED  BY <2>1, <2>5, <3>2 DEF bridge, clock
  <2> QED  BY <2>4, <2>5
<1>6. CASE Cancel  BY <1>6 DEF Cancel, bridge, tree, pipes
<1>7. CASE TimePasses
  <2>1. UNCHANGED <<bridge, sup, drain, closed>>
    BY <1>7 DEF TimePasses, tree, pipes
  <2>2. expired' = expired \/ expired' = TRUE
    BY <1>7, Zenon DEF TimePasses
  <2> QED  BY <2>1, <2>2 DEF bridge
<1> QED
  BY <1>1, <1>2, <1>3, <1>4, <1>5, <1>6, <1>7 DEF Next

\* Whatever the two sides of the pipes do and however the reads fall: a result
\* collected in time holds the whole output up to the bound, and says truthfully
\* whether there was more.
THEOREM CapturedExactly == Spec => []CaptureIsExact
<1>1. Init => CaptureInv /\ JoinInv
  <2> SUFFICES ASSUME Init PROVE CaptureInv /\ JoinInv
    OBVIOUS
  <2>1. \A s \in Streams : ~truncated[s] /\ ~closed[s] /\ drain[s] = "unstarted"
    BY Zenon DEF Init
  <2>2. CaptureInv
    BY <2>1, NativeRunAssumption DEF Init, CaptureInv, Kept
  <2>3. pc = "spawn" /\ sup = "none" /\ ~cleanupError /\ cur = 1
    BY Zenon DEF Init
  <2> QED  BY <2>1, <2>2, <2>3 DEF JoinInv
<1>2. TypeOK /\ ResultInv /\ CaptureInv /\ JoinInv => CaptureIsExact
  <2> SUFFICES ASSUME TypeOK, ResultInv, CaptureInv, JoinInv,
                      outcome = "returned", ~expired, NEW s \in Streams
               PROVE  /\ (IF buffer[s] > MaxCapture THEN MaxCapture ELSE buffer[s])
                            = IF written[s] > MaxCapture THEN MaxCapture ELSE written[s]
                      /\ truncated[s] <=> written[s] > MaxCapture
    BY DEF CaptureIsExact
  <2>1. pc = "done" /\ pending = "none"  BY DEF ResultInv
  <2>2. taken[s] = written[s]  BY <2>1 DEF JoinInv, CaptureInv
  <2>3. truncated[s] <=> written[s] > MaxCapture
    BY <2>2, Zenon DEF CaptureInv
  <2>4. written[s] \in Nat /\ buffer[s] = Kept(s)
    BY DEF CaptureInv, TypeOK
  <2> QED  BY <2>2, <2>3, <2>4, NativeRunAssumption DEF Kept
<1> QED
  BY <1>1, <1>2, ResultInit, ResultStep, CaptureStep, JoinStep, TypeCorrect, PTL
  DEF Spec
=============================================================================
