--------------------------- MODULE WindowsRunProofs ---------------------------
(***************************************************************************)
(* Theorems about WindowsRun, for every set of processes and whichever     *)
(* calls of the system may fail.                                           *)
(***************************************************************************)
EXTENDS WindowsRun, TLAPS

\* The steps outside of the bridge thread.
Around ==
    \/ \E p \in Procs, w \in Workers : Fork(p, w)
    \/ \E p \in Procs : ProcExit(p) \/ TornDown(p)
    \/ \E s \in Streams : Drain(s) \/ DrainOutput(s)
    \/ Cancel \/ TimePasses

-----------------------------------------------------------------------------
(* Type correctness.                                                       *)

\* Killing a process or a job, and closing the job, keep the types.
LEMMA KillJobType ==
    ASSUME TypeOK, KillJob
    PROVE  proc' \in [Procs -> {"none", "suspended", "assigned", "running", "killed", "dead"}]
BY DEF TypeOK, KillJob

LEMMA KillProcessType ==
    ASSUME TypeOK, KillProcess
    PROVE  proc' \in [Procs -> {"none", "suspended", "assigned", "running", "killed", "dead"}]
BY DEF TypeOK, KillProcess

LEMMA CloseJobType ==
    ASSUME TypeOK, CloseJob
    PROVE  /\ proc' \in [Procs -> {"none", "suspended", "assigned", "running", "killed", "dead"}]
           /\ job' \in {"none", "closed"}
<1>1. CASE job = "limited"  BY <1>1, KillJobType DEF CloseJob
<1>2. CASE job # "limited"  BY <1>2 DEF CloseJob, TypeOK
<1> QED  BY <1>1, <1>2

LEMMA BridgeType ==
    ASSUME TypeOK, Bridge \/ BridgeDies
    PROVE  TypeOK'
<1> USE DEF TypeOK, tree, pipes, clock
<1>1. CASE CreateJob  BY <1>1 DEF CreateJob
<1>2. CASE LimitJob  BY <1>2 DEF LimitJob, Limit
<1>3. CASE Popen  BY <1>3 DEF Popen, Procs
<1>4. CASE Assign  BY <1>4 DEF Assign, Procs
<1>5. CASE Resume  BY <1>5 DEF Resume, Procs, Streams
<1>6. CASE Abort  BY <1>6, KillProcessType DEF Abort
<1>7. CASE AbortWait  BY <1>7 DEF AbortWait
<1>8. CASE Poll  BY <1>8 DEF Poll
<1>9. CASE CheckLimits  BY <1>9 DEF CheckLimits
<1>10. ASSUME NEW next \in {"wait", "kill", "release", "join"}, TerminateJob(next),
              UNCHANGED <<cur, pending, code, outcome, job, exitCode, pipes, clock>>
       PROVE  TypeOK'
  <2>1. CASE KillJob /\ pc' = next /\ UNCHANGED cleanupError
    BY <1>10, <2>1, KillJobType
  <2>2. CASE pc' = "release" /\ cleanupError' = TRUE /\ UNCHANGED proc
    BY <1>10, <2>2
  <2> QED  BY <1>10, <2>1, <2>2 DEF TerminateJob
<1>11. CASE Terminate  BY <1>10, <1>11 DEF Terminate
<1>12. CASE WaitSucceeds  BY <1>12 DEF WaitSucceeds
<1>13. CASE WaitExpires  BY <1>10, <1>13 DEF WaitExpires
<1>14. CASE Kill  BY <1>14, KillProcessType DEF Kill
<1>15. CASE WaitForced
  <2>1. cleanupError' \in BOOLEAN /\ pc' \in {"finalKill", "release"}
    BY <1>15, Zenon DEF WaitForced
  <2> QED  BY <1>15, <2>1 DEF WaitForced
<1>16. CASE FinalKill
  <2> DEFINE next == IF drain[cur] = "unstarted" THEN "release" ELSE "join"
  <2>1. next \in {"wait", "kill", "release", "join"}  OBVIOUS
  <2>2. TerminateJob(next)  BY <1>16 DEF FinalKill
  <2> HIDE DEF next
  <2> QED  BY <1>10, <1>16, <2>1, <2>2 DEF FinalKill
<1>17. CASE Join
  <2>1. CASE Collected  BY <1>17, <2>1 DEF Join, Collected, Streams
  <2>2. CASE pc' = "close" /\ UNCHANGED <<cur, closed>>
    BY <1>17, <2>2 DEF Join
  <2> QED  BY <1>17, <2>1, <2>2 DEF Join
<1>18. CASE Close  BY <1>18 DEF Close
<1>19. CASE JoinAgain
  <2>1. cleanupError' \in BOOLEAN  BY <1>19, Zenon DEF JoinAgain
  <2>2. CASE ThreadDead(cur) /\ Collected
    BY <1>19, <2>1, <2>2 DEF JoinAgain, Collected, Streams
  <2>3. CASE pc' = "release" /\ UNCHANGED <<cur, closed>>
    BY <1>19, <2>1, <2>3 DEF JoinAgain
  <2> QED  BY <1>19, <2>2, <2>3 DEF JoinAgain
<1>20. CASE Release  BY <1>20, CloseJobType DEF Release
<1>21. CASE Settle  BY <1>21 DEF Settle, Ending
<1>22. CASE BridgeDies  BY <1>22, CloseJobType DEF BridgeDies
<1> QED
  BY <1>1, <1>2, <1>3, <1>4, <1>5, <1>6, <1>7, <1>8, <1>9, <1>11, <1>12, <1>13,
     <1>14, <1>15, <1>16, <1>17, <1>18, <1>19, <1>20, <1>21, <1>22 DEF Bridge

LEMMA AroundType ==
    ASSUME TypeOK, Around
    PROVE  TypeOK'
<1> USE DEF TypeOK, bridge, tree, pipes, clock
<1>1. ASSUME NEW p \in Procs, NEW w \in Workers, Fork(p, w) PROVE TypeOK'
  BY <1>1 DEF Fork, Procs
<1>2. ASSUME NEW p \in Procs, ProcExit(p) PROVE TypeOK'
  BY <1>2 DEF ProcExit
<1>3. ASSUME NEW p \in Procs, TornDown(p) PROVE TypeOK'
  BY <1>3 DEF TornDown
<1>4. ASSUME NEW s \in Streams, Drain(s) \/ DrainOutput(s) PROVE TypeOK'
  BY <1>4 DEF Drain, DrainOutput
<1>5. CASE Cancel  BY <1>5 DEF Cancel
<1>6. CASE TimePasses
  <2>1. timeUp' \in BOOLEAN /\ expired' \in BOOLEAN
    BY <1>6, Zenon DEF TimePasses
  <2> QED  BY <1>6, <2>1 DEF TimePasses
<1> QED  BY <1>1, <1>2, <1>3, <1>4, <1>5, <1>6 DEF Around

LEMMA NextParts == Next <=> Bridge \/ BridgeDies \/ Around
BY DEF Next, Around

\* Every variable keeps its type; in particular the loop over the collectors ends
\* with the last stream.
THEOREM TypeCorrect == Spec => []TypeOK
<1>1. Init => TypeOK
  <2> SUFFICES ASSUME Init PROVE TypeOK
    OBVIOUS
  <2>1. /\ closed \in [Streams -> BOOLEAN] /\ cleanupError \in BOOLEAN
        /\ cancel \in BOOLEAN /\ timeUp \in BOOLEAN /\ expired \in BOOLEAN
    BY Zenon DEF Init
  <2> QED  BY <2>1 DEF Init, TypeOK, Streams
<1>2. TypeOK /\ [Next]_vars => TypeOK'
  <2>1. TypeOK /\ UNCHANGED vars => TypeOK'
    BY DEF TypeOK, vars, bridge, tree, pipes, clock
  <2> QED  BY <2>1, BridgeType, AroundType, NextParts
<1> QED  BY <1>1, <1>2, PTL DEF Spec

-----------------------------------------------------------------------------
(* The job: who owns a process at which point of the call.                 *)

\* The steps at which the bridge has a limited job.
Held == {"popen", "assign", "resume", "abort", "abortWait", "poll", "check",
         "terminate", "wait", "kill", "waitForced", "finalKill", "join", "close",
         "joinAgain", "release"}

\* Nothing exists before Popen; the limited job is held from before Popen until
\* it is closed, and that kills whatever is in it; outside of the job there is at
\* most the target, suspended, and it is assigned or killed before the cleanup.
JobInv ==
    /\ pc \in {"create", "limit", "popen"} => \A p \in Procs : proc[p] = "none"
    /\ pc \in Held => job = "limited"
    /\ pc \notin Held => \A p \in Procs : proc[p] \notin {"assigned", "running"}
    /\ \A w \in Workers : proc[w] # "suspended"
    /\ proc[Target] = "suspended" => pc \in {"assign", "abort", "crashed"}
    /\ pc = "assign" => proc[Target] = "suspended"

\* What every step but the first ones and the last ones does to the job and to
\* the processes keeps the invariant.
LEMMA JobKept ==
    ASSUME TypeOK, JobInv,
           pc \in Held \ {"popen"}, pc' \in Held \ {"popen", "assign"}, job' = job,
           \A w \in Workers : proc'[w] = "suspended" => proc[w] = "suspended",
           proc'[Target] = "suspended" => pc' \in {"assign", "abort"}
    PROVE  JobInv'
BY DEF JobInv, Held, TypeOK

LEMMA ClosingKills ==
    ASSUME TypeOK, JobInv, CloseJob
    PROVE  \A p \in Procs : /\ proc'[p] \notin {"assigned", "running"}
                            /\ proc'[p] = "suspended" => proc[p] = "suspended"
<1>1. CASE job = "limited"  BY <1>1 DEF CloseJob, KillJob, TypeOK
<1>2. CASE job # "limited"  BY <1>2 DEF CloseJob, JobInv, TypeOK
<1> QED  BY <1>1, <1>2

LEMMA JobStep == TypeOK /\ JobInv /\ [Next]_vars => JobInv'
<1> SUFFICES ASSUME TypeOK, JobInv, [Next]_vars PROVE JobInv'
  OBVIOUS
<1> USE WindowsRunAssumption DEF Procs
<1>1. CASE UNCHANGED vars
  BY <1>1 DEF vars, bridge, tree, JobInv
<1>2. CASE CreateJob  BY <1>2 DEF CreateJob, JobInv, Held
<1>3. CASE LimitJob  BY <1>3 DEF LimitJob, Limit, JobInv, Held
<1>4. CASE Popen  BY <1>4 DEF Popen, JobInv, Held, TypeOK
<1>5. CASE Assign  BY <1>5, JobKept DEF Assign, JobInv, Held, TypeOK
<1>6. CASE Resume  BY <1>6, JobKept DEF Resume, JobInv, Held, TypeOK
<1>7. CASE Abort  BY <1>7, JobKept DEF Abort, KillProcess, JobInv, Held, TypeOK
<1>8. CASE \/ AbortWait \/ Poll \/ CheckLimits \/ WaitSucceeds \/ WaitForced
           \/ Join \/ Close \/ JoinAgain
  BY <1>8, JobKept DEF AbortWait, Poll, CheckLimits, WaitSucceeds, WaitForced, Join,
     Close, JoinAgain, Collected, tree, JobInv, Held
<1>9. CASE Terminate \/ WaitExpires \/ FinalKill
  <2>1. /\ pc \in {"terminate", "wait", "finalKill"}
        /\ pc' \in {"wait", "kill", "release", "join"}
        /\ job' = job
        /\ KillJob \/ UNCHANGED proc
    BY <1>9 DEF Terminate, WaitExpires, FinalKill, TerminateJob
  <2> QED  BY <2>1, JobKept DEF KillJob, JobInv, Held, TypeOK
<1>10. CASE Kill  BY <1>10, JobKept DEF Kill, KillProcess, JobInv, Held, TypeOK
<1>11. CASE Release \/ BridgeDies
  <2>1. CloseJob /\ pc' \in {"settle", "crashed"} /\ (pc' = "settle" => pc = "release")
    BY <1>11 DEF Release, BridgeDies
  <2> HIDE DEF Procs
  <2>2. \A p \in Procs : /\ proc'[p] \notin {"assigned", "running"}
                         /\ proc'[p] = "suspended" => proc[p] = "suspended"
    BY <2>1, ClosingKills
  <2>3. proc'[Target] = "suspended" => pc' = "crashed"
    BY <2>1, <2>2 DEF JobInv, Procs
  <2>4. \A w \in Workers : proc'[w] # "suspended"
    BY <2>2 DEF JobInv, Procs
  <2> QED  BY <2>1, <2>2, <2>3, <2>4 DEF JobInv, Held
<1>12. CASE Settle  BY <1>12 DEF Settle, tree, JobInv, Held
<1>13. CASE Around
  <2> USE DEF bridge
  <2>1. ASSUME NEW p \in Procs, NEW w \in Workers, Fork(p, w) PROVE JobInv'
    BY <2>1 DEF Fork, JobInv, Held, TypeOK
  <2>2. ASSUME NEW p \in Procs, ProcExit(p) \/ TornDown(p) PROVE JobInv'
    BY <2>2 DEF ProcExit, TornDown, JobInv, Held, TypeOK
  <2>3. CASE (\E s \in Streams : Drain(s) \/ DrainOutput(s)) \/ Cancel \/ TimePasses
    BY <2>3 DEF Drain, DrainOutput, Cancel, TimePasses, tree, JobInv
  <2> QED  BY <1>13, <2>1, <2>2, <2>3 DEF Around
<1> QED
  BY <1>1, <1>2, <1>3, <1>4, <1>5, <1>6, <1>7, <1>8, <1>9, <1>10, <1>11, <1>12,
     <1>13, NextParts DEF Bridge

LEMMA JobInit == Init => JobInv
BY WindowsRunAssumption DEF Init, JobInv, Held, Procs

\* Whichever calls fail and whenever the bridge dies: whatever runs is in a job
\* that the bridge holds and that kills its processes when it is closed.
THEOREM TreeIsOwned == Spec => []NeverUnowned
<1>1. TypeOK /\ JobInv => NeverUnowned
  BY DEF JobInv, NeverUnowned, Held, TypeOK
<1> QED  BY <1>1, JobInit, JobStep, TypeCorrect, PTL DEF Spec

-----------------------------------------------------------------------------
(* The result.                                                             *)

\* The steps of the bridge that follow the polling loop.
Ended == {"terminate", "wait", "kill", "waitForced", "finalKill", "join", "close",
          "joinAgain", "release", "settle", "done"}

\* How the exit code travels: only a running target exits with a code, nobody is
\* killed before the polling loop is over, the poll takes the code of the dead
\* target, and without a code something is pending.
ResultInv ==
    /\ exitCode # NoCode => proc[Target] = "dead"
    /\ pc = "resume" => proc[Target] \in {"assigned", "running", "dead"}
    /\ pc \in {"poll", "check"} => proc[Target] \in {"running", "dead"}
    /\ pc \in {"resume", "poll", "check"} /\ proc[Target] = "dead"
         => exitCode \in ExitCodes
    /\ code # NoCode => code = exitCode
    /\ pc \in Ended /\ pending = "none" => code # NoCode
    /\ outcome = "none" <=> pc # "done"
    /\ outcome = "returned" => pending = "none" /\ ~cleanupError

\* Past the polling loop, what ended it and the code are left alone; processes are
\* killed, never started.
LEMMA CleanupKeeps ==
    ASSUME TypeOK, ResultInv, pc \in Ended \ {"settle", "done"},
           pc' \in Ended \ {"done"}, UNCHANGED <<pending, code, outcome, exitCode>>,
           proc[Target] = "dead" => proc'[Target] = "dead"
    PROVE  ResultInv'
BY DEF ResultInv, Ended

LEMMA ResultStep == TypeOK /\ JobInv /\ ResultInv /\ [Next]_vars => ResultInv'
<1> SUFFICES ASSUME TypeOK, JobInv, ResultInv, [Next]_vars PROVE ResultInv'
  OBVIOUS
<1> USE WindowsRunAssumption DEF Procs
<1>1. CASE UNCHANGED vars
  BY <1>1 DEF vars, bridge, tree, ResultInv
<1>2. CASE CreateJob \/ LimitJob
  BY <1>2 DEF CreateJob, LimitJob, JobInv, ResultInv, Ended
<1>3. CASE Popen  BY <1>3 DEF Popen, JobInv, ResultInv, Ended, TypeOK
<1>4. CASE Assign  BY <1>4 DEF Assign, JobInv, ResultInv, Ended, TypeOK
<1>5. CASE Resume  BY <1>5 DEF Resume, ResultInv, Ended, TypeOK
<1>6. CASE Abort \/ AbortWait
  BY <1>6 DEF Abort, AbortWait, KillProcess, tree, ResultInv, Ended, TypeOK
<1>7. CASE Poll  BY <1>7 DEF Poll, tree, ResultInv, Ended, TypeOK
<1>8. CASE CheckLimits  BY <1>8 DEF CheckLimits, tree, ResultInv, Ended
<1>9. CASE Terminate \/ WaitExpires \/ FinalKill
  <2>1. /\ pc \in {"terminate", "wait", "finalKill"}
        /\ pc' \in {"wait", "kill", "release", "join"}
        /\ UNCHANGED <<pending, code, outcome, exitCode>>
        /\ KillJob \/ UNCHANGED proc
    BY <1>9 DEF Terminate, WaitExpires, FinalKill, TerminateJob
  <2> QED  BY <2>1, CleanupKeeps DEF KillJob, Ended, TypeOK
<1>10. CASE Kill  BY <1>10, CleanupKeeps DEF Kill, KillProcess, Ended, TypeOK
<1>11. CASE WaitSucceeds \/ WaitForced \/ Join \/ Close \/ JoinAgain
  BY <1>11, CleanupKeeps DEF WaitSucceeds, WaitForced, Join, Close, JoinAgain,
     Collected, tree, Ended
<1>12. CASE Release \/ BridgeDies
  <2>1. CloseJob /\ UNCHANGED <<pending, code, outcome, exitCode>>
    BY <1>12 DEF Release, BridgeDies
  <2>2. proc[Target] = "dead" => proc'[Target] = "dead"
    BY <2>1 DEF CloseJob, KillJob, TypeOK
  <2>3. CASE Release  BY <2>1, <2>2, <2>3, CleanupKeeps DEF Release, Ended
  <2>4. CASE BridgeDies
    BY <2>1, <2>2, <2>4 DEF BridgeDies, ResultInv, Ended
  <2> QED  BY <1>12, <2>3, <2>4
<1>13. CASE Settle  BY <1>13 DEF Settle, Ending, tree, ResultInv, Ended
<1>14. CASE Around
  <2> USE DEF bridge
  <2>1. ASSUME NEW p \in Procs, NEW w \in Workers, Fork(p, w) PROVE ResultInv'
    BY <2>1 DEF Fork, ResultInv, TypeOK
  <2>2. ASSUME NEW p \in Procs, ProcExit(p) PROVE ResultInv'
    <3>1. pc \notin {"settle", "done", "crashed"}  BY <2>2 DEF ProcExit, JobInv, Held
    <3>2. CASE p = Target
      BY <2>2, <3>1, <3>2 DEF ProcExit, ResultInv, TypeOK
    <3>3. CASE p # Target  BY <2>2, <3>3 DEF ProcExit, ResultInv, TypeOK
    <3> QED  BY <3>2, <3>3
  <2>3. ASSUME NEW p \in Procs, TornDown(p) PROVE ResultInv'
    BY <2>3 DEF TornDown, ResultInv, TypeOK
  <2>4. CASE (\E s \in Streams : Drain(s) \/ DrainOutput(s)) \/ Cancel \/ TimePasses
    BY <2>4 DEF Drain, DrainOutput, Cancel, TimePasses, tree, ResultInv
  <2> QED  BY <1>14, <2>1, <2>2, <2>3, <2>4 DEF Around
<1> QED
  BY <1>1, <1>2, <1>3, <1>4, <1>5, <1>6, <1>7, <1>8, <1>9, <1>10, <1>11, <1>12,
     <1>13, <1>14, NextParts DEF Bridge

LEMMA ResultInit == Init => ResultInv
BY WindowsRunAssumption DEF Init, ResultInv, Ended, Procs

\* A returned result carries the exit code of the native executable, which is gone,
\* and nothing went wrong in the cleanup.
THEOREM ResultIsReal == Spec => []ResultIsTheExitCode
<1>1. TypeOK /\ ResultInv => ResultIsTheExitCode
  BY DEF TypeOK, ResultInv, ResultIsTheExitCode, Ended
<1> QED
  BY <1>1, JobInit, JobStep, ResultInit, ResultStep, TypeCorrect, PTL DEF Spec

-----------------------------------------------------------------------------
(* The contract.                                                           *)

LEMMA ContractInit == Init => Contract!Init
BY DEF Init, Contract!Init, Live

LEMMA ContractStep ==
    ASSUME TypeOK, JobInv, ResultInv, [Next]_vars
    PROVE  [Contract!Next]_(Contract!vars)
<1> USE WindowsRunAssumption DEF Procs, Contract!Next, Contract!vars
<1>1. ASSUME Live' \subseteq Live, outcome' = outcome, code' = code \/ outcome = "none",
             exitCode' \in {exitCode} \cup ExitCodes,
             exitCode' # exitCode => exitCode = NoCode
      PROVE  Contract!Shrink
  BY <1>1 DEF Contract!Shrink
<1>2. ASSUME NEW p \in Procs, Live' = Live \cup {p}, pc # "done",
             UNCHANGED <<exitCode, outcome>>
      PROVE  Contract!Grow
  BY <1>2 DEF Contract!Grow, ResultInv
<1>3. CASE UNCHANGED vars
  BY <1>1, <1>3 DEF vars, bridge, tree, Live
<1>4. CASE Popen
  <2>1. CASE proc' = [proc EXCEPT ![Target] = "suspended"]
    <3>1. Live' = Live \cup {Target}  BY <2>1 DEF Live, TypeOK
    <3> QED  BY <1>2, <1>4, <3>1 DEF Popen
  <2>2. CASE UNCHANGED proc
    BY <1>1, <1>4, <2>2 DEF Popen, Live
  <2> QED  BY <1>4, <2>1, <2>2 DEF Popen
<1>5. CASE Assign
  <2>1. Live' \subseteq Live  BY <1>5 DEF Assign, Live, JobInv, Held, TypeOK
  <2> QED  BY <1>1, <1>5, <2>1 DEF Assign
<1>6. CASE Resume
  <2>1. Live' \subseteq Live  BY <1>6 DEF Resume, Live, TypeOK
  <2> QED  BY <1>1, <1>6, <2>1 DEF Resume
<1>7. CASE CreateJob \/ LimitJob \/ AbortWait \/ CheckLimits \/ WaitSucceeds
           \/ WaitForced \/ Join \/ Close \/ JoinAgain
  <2>1. UNCHANGED <<proc, exitCode, code, outcome>>
    BY <1>7 DEF CreateJob, LimitJob, AbortWait, CheckLimits, WaitSucceeds, WaitForced,
                Join, Close, JoinAgain, Collected, tree
  <2> QED  BY <1>1, <2>1 DEF Live
<1>8. CASE Poll
  BY <1>1, <1>8 DEF Poll, tree, Live, ResultInv
<1>9. CASE Abort \/ Kill
  <2>1. Live' \subseteq Live
    BY <1>9 DEF Abort, Kill, KillProcess, Live, TypeOK
  <2> QED  BY <1>1, <1>9, <2>1 DEF Abort, Kill
<1>10. CASE Terminate \/ WaitExpires \/ FinalKill \/ Release \/ BridgeDies
  <2>1. KillJob \/ UNCHANGED proc
    BY <1>10 DEF Terminate, WaitExpires, FinalKill, Release, BridgeDies, TerminateJob,
                 CloseJob
  <2>2. Live' \subseteq Live  BY <2>1 DEF KillJob, Live, TypeOK
  <2> QED
    BY <1>1, <1>10, <2>2 DEF Terminate, WaitExpires, FinalKill, Release, BridgeDies
<1>11. CASE Settle
  <2>1. Live = {}  BY <1>11 DEF Settle, Live, JobInv, Held, TypeOK
  <2>2. outcome = "none" /\ Live' = Live /\ UNCHANGED <<code, exitCode>>
    BY <1>11 DEF Settle, tree, Live, ResultInv
  <2>3. CASE cleanupError \/ pending # "none"
    <3>1. outcome' = "raised"  BY <1>11, <2>3 DEF Settle, Ending
    <3> QED  BY <2>1, <2>2, <3>1 DEF Contract!Settle
  <2>4. CASE ~(cleanupError \/ pending # "none")
    <3>1. outcome' = "returned"  BY <1>11, <2>4 DEF Settle, Ending
    <3>2. code = exitCode /\ exitCode # NoCode
      BY <1>11, <2>4 DEF Settle, ResultInv, Ended
    <3> QED  BY <2>1, <2>2, <3>1, <3>2 DEF Contract!Settle
  <2> QED  BY <2>3, <2>4
<1>12. CASE Around
  <2> USE DEF bridge
  <2>1. ASSUME NEW p \in Procs, NEW w \in Workers, Fork(p, w) PROVE Contract!Grow
    <3>1. Live' = Live \cup {w}  BY <2>1 DEF Fork, Live, TypeOK
    <3>2. pc # "done"  BY <2>1 DEF Fork, JobInv, Held
    <3> QED  BY <1>2, <2>1, <3>1, <3>2 DEF Fork
  <2>2. ASSUME NEW p \in Procs, ProcExit(p) PROVE Contract!Shrink
    <3>1. Live' \subseteq Live  BY <2>2 DEF ProcExit, Live, TypeOK
    <3>2. exitCode' # exitCode => exitCode = NoCode
      BY <2>2 DEF ProcExit, ResultInv
    <3> QED  BY <1>1, <2>2, <3>1, <3>2 DEF ProcExit
  <2>3. ASSUME NEW p \in Procs, TornDown(p) PROVE Contract!Shrink
    <3>1. Live' \subseteq Live  BY <2>3 DEF TornDown, Live, TypeOK
    <3> QED  BY <1>1, <2>3, <3>1 DEF TornDown
  <2>4. CASE (\E s \in Streams : Drain(s) \/ DrainOutput(s)) \/ Cancel \/ TimePasses
    <3>1. UNCHANGED <<proc, exitCode, code, outcome>>
      BY <2>4 DEF Drain, DrainOutput, Cancel, TimePasses, tree
    <3> QED  BY <1>1, <3>1 DEF Live
  <2> QED  BY <1>12, <2>1, <2>2, <2>3, <2>4 DEF Around
<1> QED
  BY <1>3, <1>4, <1>5, <1>6, <1>7, <1>8, <1>9, <1>10, <1>11, <1>12, NextParts
  DEF Bridge

\* The Windows run implements BoundedRun: it settles only with nothing left of the
\* tree, and nothing is started afterwards, for every set of failing calls.
THEOREM ContractKept == Spec => KeepsContract
<1>1. Spec => [](TypeOK /\ JobInv /\ ResultInv)
  BY JobInit, JobStep, ResultInit, ResultStep, TypeCorrect, PTL DEF Spec
<1>2. TypeOK /\ JobInv /\ ResultInv /\ [Next]_vars => [Contract!Next]_(Contract!vars)
  BY ContractStep
<1> QED
  BY <1>1, <1>2, ContractInit, PTL DEF Spec, KeepsContract, Contract!Spec

=============================================================================
