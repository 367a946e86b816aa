------------------------------ MODULE WindowsRun ------------------------------
(***************************************************************************)
(* One call of MaterialMakerCli._run_process on Windows (bridge.py): the   *)
(* native executable is created suspended, assigned to a job object and    *)
(* only then resumed (_WindowsJob), so that the job owns whatever it       *)
(* starts; TerminateJobObject, or the close of the last handle of the job, *)
(* kills the tree.  Any call of the Win32 API may fail, and the bridge may *)
(* die at any moment, which closes its handles.                            *)
(*                                                                         *)
(* A process is "none", "suspended" outside of the job, "assigned" to it   *)
(* and still suspended, "running" in it, "killed" while the system tears   *)
(* it down, or "dead".  NativeRun has the same call on POSIX; how much is  *)
(* captured is the same code and is left to that module.                   *)
(***************************************************************************)
CONSTANTS
    Workers,    \* processes the native executable may start
    Target,     \* the native executable itself
    ExitCodes,  \* exit codes the native executable may report
    NoCode,     \* no exit code yet
    Failing     \* the calls that may fail

Calls == {"CreateJobObject", "SetInformationJobObject", "Popen",
          "AssignProcessToJobObject", "ResumeThread", "TerminateJobObject"}

ASSUME WindowsRunAssumption ==
    /\ Target \notin Workers
    /\ NoCode \notin ExitCodes
    /\ Failing \subseteq Calls

Procs == Workers \cup {Target}
Streams == {"stdout", "stderr"}

VARIABLES
    pc,          \* next statement of the bridge thread
    cur,         \* stream whose collector is being finished
    pending,     \* what ended the call early: the variable pending
    cleanupError,\* the cleanup itself raised
    code,        \* target_returncode, as the bridge knows it
    outcome,     \* what _run_process did: "none", "returned" or "raised"
    job,         \* the job object: "none", "bare", "limited" or "closed"
    proc,        \* the process tree
    exitCode,    \* exit code of the native executable
    drain,       \* state of the drain threads
    closed,      \* the bridge has closed the stream
    cancel,      \* Core has cancelled the job
    timeUp,      \* the deadline of the call has passed
    expired      \* the deadline of the cleanup has passed

bridge == <<pc, cur, pending, cleanupError, code, outcome>>
tree == <<job, proc, exitCode>>
pipes == <<drain, closed>>
clock == <<cancel, timeUp, expired>>
vars == <<bridge, tree, pipes, clock>>

Init ==
    /\ pc = "create" /\ cur = "stdout" /\ pending = "none" /\ cleanupError = FALSE
    /\ code = NoCode /\ outcome = "none"
    /\ job = "none" /\ proc = [p \in Procs |-> "none"] /\ exitCode = NoCode
    /\ drain = [s \in Streams |-> "unstarted"] /\ closed = [s \in Streams |-> FALSE]
    /\ cancel = FALSE /\ timeUp = FALSE /\ expired = FALSE

Fails(call) == call \in Failing

-----------------------------------------------------------------------------
(* The job object.                                                         *)

\* Mutated form of KillJob: only the process itself is terminated.
KillTargetOnly ==
    proc' = [proc EXCEPT ![Target] = IF @ \in {"assigned", "running"} THEN "killed" ELSE @]

\* TerminateJobObject: every process of the job is terminated.
KillJob ==
    proc' = [p \in Procs |->
               IF proc[p] \in {"assigned", "running"} THEN "killed" ELSE proc[p]]

\* Mutated form of Limit: the job is left without JOB_OBJECT_LIMIT_KILL_ON_JOB_CLOSE.
LimitForgotten == "bare"

Limit == "limited"

\* The last handle of the job is closed: a limited job kills its processes.
CloseJob ==
    /\ job' = IF job = "none" THEN "none" ELSE "closed"
    /\ IF job = "limited" THEN KillJob ELSE UNCHANGED proc

\* process.kill(): TerminateProcess on the handle that Popen keeps.
KillProcess ==
    proc' = [proc EXCEPT ![Target] =
               IF @ \in {"suspended", "assigned", "running"} THEN "killed" ELSE @]

-----------------------------------------------------------------------------
(* The bridge thread: _WindowsJob() and assign_and_resume.                 *)

CreateJob ==
    /\ pc = "create"
    /\ \/ job' = "bare" /\ pc' = "limit" /\ UNCHANGED pending
       \/ Fails("CreateJobObject") /\ pc' = "settle" /\ pending' = "not_started"
          /\ UNCHANGED job
    /\ UNCHANGED <<cur, cleanupError, code, outcome, proc, exitCode, pipes, clock>>

\* SetInformationJobObject; the constructor closes the job when that fails.
LimitJob ==
    /\ pc = "limit"
    /\ \/ job' = Limit /\ pc' = "popen" /\ UNCHANGED pending
       \/ Fails("SetInformationJobObject")
          /\ job' = "closed" /\ pc' = "settle" /\ pending' = "not_started"
    /\ UNCHANGED <<cur, cleanupError, code, outcome, proc, exitCode, pipes, clock>>

\* Popen with CREATE_SUSPENDED.
Popen ==
    /\ pc = "popen"
    /\ \/ proc' = [proc EXCEPT ![Target] = "suspended"] /\ pc' = "assign"
          /\ UNCHANGED pending
       \/ Fails("Popen") /\ pc' = "terminate" /\ pending' = "not_started"
          /\ UNCHANGED proc
    /\ UNCHANGED <<cur, cleanupError, code, outcome, job, exitCode, pipes, clock>>

Assign ==
    /\ pc = "assign"
    /\ \/ proc' = [proc EXCEPT ![Target] = "assigned"] /\ pc' = "resume"
       \/ Fails("AssignProcessToJobObject") /\ pc' = "abort" /\ UNCHANGED proc
    /\ UNCHANGED <<cur, pending, cleanupError, code, outcome, job, exitCode, pipes, clock>>

\* One round of the loop over the threads of the snapshot: the thread of the
\* target is resumed, a call fails before or after that, or the threads are at an
\* end and it was among them or not.
Resume ==
    /\ pc = "resume"
    /\ \/ /\ proc[Target] = "assigned"
          /\ proc' = [proc EXCEPT ![Target] = "running"]
          /\ UNCHANGED <<pc, drain>>
       \/ /\ Fails("ResumeThread")
          /\ pc' = "abort"
          /\ UNCHANGED <<proc, drain>>
       \/ /\ proc[Target] # "assigned"
          /\ pc' = "poll" /\ drain' = [s \in Streams |-> "reading"]
          /\ UNCHANGED proc
    /\ UNCHANGED <<cur, pending, cleanupError, code, outcome, job, exitCode, closed, clock>>

\* The process that could not be assigned or resumed is killed.
Abort ==
    /\ pc = "abort"
    /\ KillProcess
    /\ pc' = "abortWait"
    /\ UNCHANGED <<cur, pending, cleanupError, code, outcome, job, exitCode, pipes, clock>>

\* process.wait: whether it sees the end or gives up, an exception is pending.
AbortWait ==
    /\ pc = "abortWait"
    /\ pending' = "not_started"
    /\ pc' = "terminate"
    /\ UNCHANGED <<cur, cleanupError, code, outcome, tree, pipes, clock>>

-----------------------------------------------------------------------------
(* The bridge thread: the polling loop and the cleanup of _run_process.    *)

\* process.poll(), then check_dcc_cancelled() and the deadline.
Poll ==
    /\ pc = "poll"
    /\ \/ /\ proc[Target] = "dead"
          /\ code' = exitCode /\ pc' = "terminate"
          /\ UNCHANGED pending
       \/ /\ proc[Target] # "dead"
          /\ pc' = "check"
          /\ UNCHANGED <<code, pending>>
    /\ UNCHANGED <<cur, cleanupError, outcome, tree, pipes, clock>>

CheckLimits ==
    /\ pc = "check"
    /\ \/ cancel /\ pending' = "cancelled" /\ pc' = "terminate"
       \/ ~cancel /\ timeUp /\ pending' = "timeout" /\ pc' = "terminate"
       \/ ~cancel /\ ~timeUp /\ pc' = "poll" /\ UNCHANGED pending
    /\ UNCHANGED <<cur, cleanupError, code, outcome, tree, pipes, clock>>

\* owner.terminate(), of which force makes no difference here; a failure ends the
\* cleanup.
TerminateJob(next) ==
    \/ KillJob /\ pc' = next /\ UNCHANGED cleanupError
    \/ Fails("TerminateJobObject") /\ pc' = "release" /\ cleanupError' = TRUE
       /\ UNCHANGED proc

Terminate ==
    /\ pc = "terminate"
    /\ TerminateJob("wait")
    /\ UNCHANGED <<cur, pending, code, outcome, job, exitCode, pipes, clock>>

\* There is no process to wait for, or it is gone.
Gone == proc[Target] \in {"none", "dead"}

WaitSucceeds ==
    /\ pc = "wait" /\ Gone
    /\ pc' = "finalKill"
    /\ UNCHANGED <<cur, pending, cleanupError, code, outcome, tree, pipes, clock>>

\* The wait times out: the job is terminated again, then the process.
WaitExpires ==
    /\ pc = "wait" /\ ~Gone
    /\ TerminateJob("kill")
    /\ UNCHANGED <<cur, pending, code, outcome, job, exitCode, pipes, clock>>

Kill ==
    /\ pc = "kill"
    /\ KillProcess
    /\ pc' = "waitForced"
    /\ UNCHANGED <<cur, pending, cleanupError, code, outcome, job, exitCode, pipes, clock>>

\* process.wait for what is left of the cleanup time.
WaitForced ==
    /\ pc = "waitForced"
    /\ \/ Gone /\ pc' = "finalKill" /\ UNCHANGED cleanupError
       \/ ~Gone /\ expired /\ pc' = "release" /\ cleanupError' = TRUE
    /\ UNCHANGED <<cur, pending, code, outcome, tree, pipes, clock>>

\* owner.terminate(force=True) once more, before the collectors, if there are any.
FinalKill ==
    /\ pc = "finalKill"
    /\ TerminateJob(IF drain[cur] = "unstarted" THEN "release" ELSE "join")
    /\ UNCHANGED <<cur, pending, code, outcome, job, exitCode, pipes, clock>>

ThreadDead(s) == drain[s] \in {"ended", "failed"}

\* stdout first, then stderr.
Collected ==
    /\ closed' = [closed EXCEPT ![cur] = TRUE]
    /\ IF cur = "stdout" THEN cur' = "stderr" /\ pc' = "join"
                         ELSE pc' = "release" /\ UNCHANGED cur

\* _PipeCollector.finish: the thread is joined within the cleanup deadline.
Join ==
    /\ pc = "join"
    /\ \/ ThreadDead(cur) /\ Collected
       \/ ~ThreadDead(cur) /\ expired /\ pc' = "close" /\ UNCHANGED <<cur, closed>>
    /\ UNCHANGED <<pending, cleanupError, code, outcome, tree, drain, clock>>

\* stream.close() waits for the read of the drain thread.
Close ==
    /\ pc = "close" /\ drain[cur] # "reading"
    /\ closed' = [closed EXCEPT ![cur] = TRUE]
    /\ pc' = "joinAgain"
    /\ UNCHANGED <<cur, pending, cleanupError, code, outcome, tree, drain, clock>>

JoinAgain ==
    /\ pc = "joinAgain"
    /\ \/ ThreadDead(cur) /\ Collected /\ UNCHANGED cleanupError
       \/ ~ThreadDead(cur) /\ cleanupError' = TRUE /\ pc' = "release"
          /\ UNCHANGED <<cur, closed>>
    /\ UNCHANGED <<pending, code, outcome, tree, drain, clock>>

\* owner.close() in the finally clause.
Release ==
    /\ pc = "release"
    /\ CloseJob
    /\ pc' = "settle"
    /\ UNCHANGED <<cur, pending, cleanupError, code, outcome, exitCode, pipes, clock>>

\* Mutated form of Ending: the pending exception is forgotten.
EndingForgetsPending == IF cleanupError THEN "raised" ELSE "returned"

Ending == IF cleanupError \/ pending # "none" THEN "raised" ELSE "returned"

Settle ==
    /\ pc = "settle"
    /\ outcome' = Ending
    /\ pc' = "done"
    /\ UNCHANGED <<cur, pending, cleanupError, code, tree, pipes, clock>>

Bridge ==
    \/ CreateJob \/ LimitJob \/ Popen \/ Assign \/ Resume \/ Abort \/ AbortWait
    \/ Poll \/ CheckLimits \/ Terminate \/ WaitSucceeds \/ WaitExpires \/ Kill
    \/ WaitForced \/ FinalKill \/ Join \/ Close \/ JoinAgain \/ Release \/ Settle

\* The bridge process is killed: the system closes its handles.
BridgeDies ==
    /\ pc \notin {"done", "crashed"}
    /\ CloseJob
    /\ pc' = "crashed"
    /\ UNCHANGED <<cur, pending, cleanupError, code, outcome, exitCode, pipes, clock>>

-----------------------------------------------------------------------------
(* The native executable, what it starts, and the system: outside of the   *)
(* repository.  Without JOB_OBJECT_LIMIT_BREAKAWAY_OK nothing leaves a job.*)

Fork(p, w) ==
    /\ proc[p] = "running" /\ proc[w] = "none"
    /\ proc' = [proc EXCEPT ![w] = "running"]
    /\ UNCHANGED <<bridge, job, exitCode, pipes, clock>>

ProcExit(p) ==
    /\ proc[p] = "running"
    /\ proc' = [proc EXCEPT ![p] = "dead"]
    /\ IF p = Target THEN exitCode' \in ExitCodes ELSE UNCHANGED exitCode
    /\ UNCHANGED <<bridge, job, pipes, clock>>

\* What is killed goes away in the end, and its handles with it.
TornDown(p) ==
    /\ proc[p] = "killed"
    /\ proc' = [proc EXCEPT ![p] = "dead"]
    /\ UNCHANGED <<bridge, job, exitCode, pipes, clock>>

-----------------------------------------------------------------------------
(* The drain threads, time and cancellation.                               *)

EndOfFile == \A p \in Procs : proc[p] \in {"none", "dead"}

\* A read ends with output, as long as somebody may have written, or at the end
\* of file; a read from a closed stream raises.
Drain(s) ==
    /\ \/ drain[s] = "reading" /\ EndOfFile /\ drain' = [drain EXCEPT ![s] = "ended"]
       \/ drain[s] = "between"
          /\ drain' = [drain EXCEPT ![s] = IF closed[s] THEN "failed" ELSE "reading"]
    /\ UNCHANGED <<bridge, tree, closed, clock>>

DrainOutput(s) ==
    /\ drain[s] = "reading" /\ ~EndOfFile
    /\ drain' = [drain EXCEPT ![s] = "between"]
    /\ UNCHANGED <<bridge, tree, closed, clock>>

Cancel ==
    /\ ~cancel /\ pc = "poll"
    /\ cancel' = TRUE
    /\ UNCHANGED <<bridge, tree, pipes, timeUp, expired>>

TimePasses ==
    /\ \/ pc \in {"poll", "check"} /\ timeUp' = TRUE /\ UNCHANGED expired
       \/ pc \in {"wait", "kill", "waitForced", "finalKill", "join"} /\ expired' = TRUE
          /\ UNCHANGED timeUp
    /\ UNCHANGED <<bridge, tree, pipes, cancel>>

Next ==
    \/ Bridge \/ BridgeDies
    \/ \E p \in Procs, w \in Workers : Fork(p, w)
    \/ \E p \in Procs : ProcExit(p) \/ TornDown(p)
    \/ \E s \in Streams : Drain(s) \/ DrainOutput(s)
    \/ Cancel \/ TimePasses

\* The bridge, its threads, the clock and the system go on; the native executable
\* and its workers owe nothing.
Fairness ==
    /\ WF_vars(Bridge) /\ WF_vars(TimePasses)
    /\ \A p \in Procs : WF_vars(TornDown(p))
    /\ \A s \in Streams : WF_vars(Drain(s))

Spec == Init /\ [][Next]_vars /\ Fairness

-----------------------------------------------------------------------------
(* Properties.                                                             *)

Live == {p \in Procs : proc[p] \in {"suspended", "assigned", "running"}}

\* The type of every variable of the run.
TypeOK ==
    /\ pc \in {"create", "limit", "popen", "assign", "resume", "abort", "abortWait",
               "poll", "check", "terminate", "wait", "kill", "waitForced", "finalKill",
               "join", "close", "joinAgain", "release", "settle", "done", "crashed"}
    /\ cur \in Streams
    /\ pending \in {"none", "not_started", "cancelled", "timeout"}
    /\ cleanupError \in BOOLEAN
    /\ code \in ExitCodes \cup {NoCode}
    /\ outcome \in {"none", "returned", "raised"}
    /\ job \in {"none", "bare", "limited", "closed"}
    /\ proc \in [Procs -> {"none", "suspended", "assigned", "running", "killed", "dead"}]
    /\ exitCode \in ExitCodes \cup {NoCode}
    /\ drain \in [Streams -> {"unstarted", "reading", "between", "ended", "failed"}]
    /\ closed \in [Streams -> BOOLEAN]
    /\ cancel \in BOOLEAN /\ timeUp \in BOOLEAN /\ expired \in BOOLEAN

\* The tree is owned from its first instruction through cleanup (the docstring of
\* _WindowsJob): whatever runs is in a job that dies with its handle, which the
\* bridge holds; neither a failed call nor the death of the bridge leaves a
\* process running.
NeverUnowned ==
    \A p \in Procs : proc[p] = "running" => job = "limited" /\ pc \notin {"done", "crashed"}

\* A result carries the code the native executable exited with, and it is
\* returned only after the executable is gone and with no cleanup error.
ResultIsTheExitCode ==
    outcome = "returned" =>
        /\ code \in ExitCodes /\ code = exitCode
        /\ proc[Target] = "dead"
        /\ ~cleanupError

\* The call comes to an end, whatever the native executable does and whichever
\* calls fail.
Terminates == <>(pc \in {"done", "crashed"})

Contract == INSTANCE BoundedRun WITH
    owned <- Live,
    exit <- exitCode,
    outcome <- IF outcome = "returned" THEN code
               ELSE IF outcome = "raised" THEN "raised" ELSE "running"

\* The Windows run keeps the contract of the POSIX run: it settles only once
\* nothing of the tree is left, suspended processes included.
KeepsContract == Contract!Spec
=============================================================================
