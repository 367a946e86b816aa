------------------------------ MODULE NativeRun ------------------------------
(***************************************************************************)
(* One call of MaterialMakerCli._run_process on POSIX (bridge.py): the     *)
(* bridge thread, the supervisor that leads the process group              *)
(* (_process_supervisor.py), the native executable and the processes it    *)
(* spawns, the two threads that drain the output pipes, and the clock.     *)
(*                                                                         *)
(* A process is "none" before it exists, "group" while it lives in the     *)
(* supervisor's process group, "daemon" once it has left the group (a      *)
(* setsid) and still holds the output pipes, "detached" once it has left   *)
(* the group and redirected its output, and "dead".                        *)
(*                                                                         *)
(* Output is counted in units; what it says does not matter here.          *)
(***************************************************************************)
EXTENDS Integers, FiniteSets

CONSTANTS
    Workers,     \* processes the native executable may start
    Target,      \* the native executable itself
    ExitCodes,   \* exit codes the native executable may report
    NoCode,      \* no exit code yet
    ChunkSize,   \* units one read of a drain thread asks for
    MaxCapture,  \* units kept of one stream (_MAX_CAPTURE_BYTES)
    MaxOutput,   \* bound of the model: units a tree writes to one stream
    Faults       \* what the environment may do: "escape", "supervisor_dies"

ASSUME NativeRunAssumption ==
    /\ Target \notin Workers
    /\ NoCode \notin ExitCodes
    /\ ChunkSize \in Nat \ {0}
    /\ MaxCapture \in Nat
    /\ MaxOutput \in Nat
    /\ Faults \subseteq {"escape", "supervisor_dies"}

Procs == Workers \cup {Target}
Streams == {1, 2}      \* stdout is finished first, then stderr

VARIABLES
    pc,          \* next statement of the bridge thread
    cur,         \* stream whose collector is being finished
    pending,     \* what ended the polling loop early: the variable pending
    cleanupError,\* the cleanup itself raised
    code,        \* target_returncode, as the bridge knows it
    outcome,     \* what _run_process did: "none", "returned" or "raised"
    sup,         \* the supervisor
    reaped,      \* the bridge has waited for the supervisor
    status,      \* line in the status pipe
    proc,        \* the process tree under the supervisor
    exitCode,    \* exit code of the native executable
    stranger,    \* a foreign process group that got the supervisor's number
    written,     \* units the tree wrote to a stream
    taken,       \* units the drain thread has read
    buffer,      \* units the drain thread has kept
    truncated,   \* the collector's truncated flag
    drain,       \* state of the drain thread
    closed,      \* the bridge has closed the stream
    cancel,      \* Core has cancelled the job
    timeUp,      \* the deadline of the call has passed
    expired      \* the deadline of the cleanup has passed

bridge == <<pc, cur, pending, cleanupError, code, outcome>>
tree == <<sup, reaped, status, proc, exitCode, stranger>>
pipes == <<written, taken, buffer, truncated, drain, closed>>
clock == <<cancel, timeUp, expired>>
vars == <<bridge, tree, pipes, clock>>

Init ==
    /\ pc = "spawn" /\ cur = 1 /\ pending = "none" /\ cleanupError = FALSE
    /\ code = NoCode /\ outcome = "none"
    /\ sup = "none" /\ reaped = FALSE /\ status = "none"
    /\ proc = [p \in Procs |-> "none"] /\ exitCode = NoCode
    /\ stranger = "none"
    /\ written = [s \in Streams |-> 0] /\ taken = [s \in Streams |-> 0]
    /\ buffer = [s \in Streams |-> 0] /\ truncated = [s \in Streams |-> FALSE]
    /\ drain = [s \in Streams |-> "unstarted"]
    /\ closed = [s \in Streams |-> FALSE]
    /\ cancel = FALSE /\ timeUp = FALSE /\ expired = FALSE

-----------------------------------------------------------------------------
(* The process group.                                                      *)

InGroup == {p \in Procs : proc[p] = "group"}
HoldsPipes == {p \in Procs : proc[p] \in {"group", "daemon"}}

\* Every write end of the output pipes is closed.
EndOfFile == sup = "dead" /\ HoldsPipes = {}

\* Mutated form of KillGroup: process.kill() without the killpg.
KillLeaderOnly ==
    /\ sup' = IF sup = "dead" THEN "dead" ELSE "killed"
    /\ UNCHANGED <<proc, stranger>>

\* killpg(SIGKILL): the group dies; the supervisor can be waited for later.
\* When the number was reused, the signal reaches the stranger.
KillGroup ==
    /\ proc' = [p \in Procs |-> IF proc[p] = "group" THEN "dead" ELSE proc[p]]
    /\ sup' = IF sup = "dead" THEN "dead" ELSE "killed"
    /\ stranger' = IF stranger = "alive" THEN "signalled" ELSE stranger

\* Mutated form of LeaderGone: terminate without its process.poll().
LeaderNeverPolled == FALSE

\* process.poll() is not None, as terminate asks before it signals the group.
LeaderGone == sup = "dead"

\* killpg(SIGTERM): a supervisor that is still starting dies of it, a later
\* one ignores it. What it does to the others, ProcExit allows at any time.
TermGroup ==
    /\ sup' = IF sup = "booting" THEN "dead" ELSE sup
    /\ stranger' = IF stranger = "alive" THEN "signalled" ELSE stranger
    /\ UNCHANGED proc

-----------------------------------------------------------------------------
(* The bridge thread.                                                      *)

\* _start_posix_supervisor succeeds and both collectors are started.
Spawn ==
    /\ pc = "spawn"
    /\ sup' = "booting"
    /\ drain' = [s \in Streams |-> "reading"]
    /\ pc' = "poll"
    /\ UNCHANGED <<cur, pending, cleanupError, code, outcome, reaped, status,
                   proc, exitCode, stranger, written, taken, buffer, truncated,
                   closed, clock>>

\* Popen raises: there is nothing to clean up.
SpawnFails ==
    /\ pc = "spawn"
    /\ pending' = "not_started"
    /\ pc' = "release"
    /\ UNCHANGED <<cur, cleanupError, code, outcome, tree, pipes, clock>>

\* poll_target, the non-blocking read of the status pipe.
PollStatus ==
    /\ pc = "poll"
    /\ \/ /\ status = "none"
          /\ pc' = "pollSup"
          /\ UNCHANGED <<pending, code>>
       \/ /\ status = "spawn_error"
          /\ pc' = "terminate" /\ pending' = "spawn_error"
          /\ UNCHANGED code
       \/ /\ status = "returncode"
          /\ pc' = "terminate" /\ code' = exitCode
          /\ UNCHANGED pending
    /\ UNCHANGED <<cur, cleanupError, outcome, tree, pipes, clock>>

\* poll_target, process.poll(): a supervisor found dead is reaped here.
PollSupervisor ==
    /\ pc = "pollSup"
    /\ IF sup = "dead"
         THEN pc' = "terminate" /\ pending' = "supervisor_lost" /\ reaped' = TRUE
         ELSE pc' = "check" /\ UNCHANGED <<pending, reaped>>
    /\ UNCHANGED <<cur, cleanupError, code, outcome, sup, status, proc,
                   exitCode, stranger, pipes, clock>>

\* check_dcc_cancelled() and then the deadline; otherwise sleep and poll again.
CheckLimits ==
    /\ pc = "check"
    /\ \/ cancel /\ pending' = "cancelled" /\ pc' = "terminate"
       \/ ~cancel /\ timeUp /\ pending' = "timeout" /\ pc' = "terminate"
       \/ ~cancel /\ ~timeUp /\ pc' = "poll" /\ UNCHANGED pending
    /\ UNCHANGED <<cur, cleanupError, code, outcome, tree, pipes, clock>>

\* owner.terminate(): a reaped leader's number is never signalled.
Terminate ==
    /\ pc = "terminate"
    /\ pc' = "wait"
    /\ IF LeaderGone
         THEN reaped' = TRUE /\ UNCHANGED <<sup, proc, stranger>>
         ELSE TermGroup /\ UNCHANGED reaped
    /\ UNCHANGED <<cur, pending, cleanupError, code, outcome, status, exitCode,
                   pipes, clock>>

\* process.poll() or process.wait(timeout <= 1 s) sees the supervisor exit.
WaitSucceeds ==
    /\ pc = "wait" /\ sup = "dead"
    /\ reaped' = TRUE
    /\ pc' = "finalKill"
    /\ UNCHANGED <<cur, pending, cleanupError, code, outcome, sup, status, proc,
                   exitCode, stranger, pipes, clock>>

\* The wait times out: owner.terminate(force=True) and process.kill().
WaitExpires ==
    /\ pc = "wait" /\ sup # "dead"
    /\ KillGroup
    /\ pc' = "waitForced"
    /\ UNCHANGED <<cur, pending, cleanupError, code, outcome, reaped, status,
                   exitCode, pipes, clock>>

\* process.wait for what is left of the cleanup time, after the kill.
WaitForced ==
    /\ pc = "waitForced"
    /\ \/ sup = "dead" /\ reaped' = TRUE /\ pc' = "finalKill"
          /\ UNCHANGED cleanupError
       \/ sup # "dead" /\ expired /\ cleanupError' = TRUE /\ pc' = "release"
          /\ UNCHANGED reaped
    /\ UNCHANGED <<cur, pending, code, outcome, sup, status, proc, exitCode,
                   stranger, pipes, clock>>

\* owner.terminate(force=True) once more, before the pipes are collected.
FinalKill ==
    /\ pc = "finalKill"
    /\ pc' = "join"
    /\ IF LeaderGone
         THEN reaped' = TRUE /\ UNCHANGED <<sup, proc, stranger>>
         ELSE KillGroup /\ UNCHANGED reaped
    /\ UNCHANGED <<cur, pending, cleanupError, code, outcome, status, exitCode,
                   pipes, clock>>

ThreadDead(s) == drain[s] \in {"ended", "failed"}

\* Mutated form of Collected: the loop over the streams has no end.
CollectedNoEnd ==
    /\ closed' = [closed EXCEPT ![cur] = TRUE]
    /\ cur' = cur + 1 /\ pc' = "join"

\* The collector of stream cur is finished: the stream is closed and the other
\* stream is next.
Collected ==
    /\ closed' = [closed EXCEPT ![cur] = TRUE]
    /\ IF cur = 1 THEN cur' = 2 /\ pc' = "join"
                  ELSE pc' = "release" /\ UNCHANGED cur

\* thread.join within the cleanup deadline.
Join ==
    /\ pc = "join" /\ ThreadDead(cur)
    /\ Collected
    /\ UNCHANGED <<pending, cleanupError, code, outcome, tree, written, taken,
                   buffer, truncated, drain, clock>>

\* The join times out.
JoinExpires ==
    /\ pc = "join" /\ ~ThreadDead(cur) /\ expired
    /\ pc' = "close"
    /\ UNCHANGED <<cur, pending, cleanupError, code, outcome, tree, pipes, clock>>

\* stream.close() needs the lock the drain thread holds while it reads: it
\* waits for the read to end.
Close ==
    /\ pc = "close" /\ drain[cur] # "reading"
    /\ closed' = [closed EXCEPT ![cur] = TRUE]
    /\ pc' = "joinAgain"
    /\ UNCHANGED <<cur, pending, cleanupError, code, outcome, tree, written,
                   taken, buffer, truncated, drain, clock>>

\* thread.join(0) after the close; a thread that still lives is an error.
JoinAgain ==
    /\ pc = "joinAgain"
    /\ \/ ThreadDead(cur) /\ Collected /\ UNCHANGED cleanupError
       \/ ~ThreadDead(cur) /\ cleanupError' = TRUE /\ pc' = "release"
          /\ UNCHANGED <<cur, closed>>
    /\ UNCHANGED <<pending, code, outcome, tree, written, taken, buffer,
                   truncated, drain, clock>>

\* Mutated form of Ending: the pending exception is forgotten.
EndingForgetsPending == IF cleanupError THEN "raised" ELSE "returned"

\* The three ways out: the cleanup error hides the pending one, the pending one
\* hides the result.
Ending == IF cleanupError \/ pending # "none" THEN "raised" ELSE "returned"

\* owner.close(), and the call ends.
Release ==
    /\ pc = "release"
    /\ pc' = "done"
    /\ outcome' = Ending
    /\ UNCHANGED <<cur, pending, cleanupError, code, tree, pipes, clock>>

Bridge ==
    \/ Spawn \/ SpawnFails \/ PollStatus \/ PollSupervisor \/ CheckLimits
    \/ Terminate \/ WaitSucceeds \/ WaitExpires \/ WaitForced \/ FinalKill
    \/ Join \/ JoinExpires \/ Close \/ JoinAgain \/ Release

-----------------------------------------------------------------------------
(* The supervisor: _process_supervisor.main.                               *)

\* SIGTERM is ignored from here on; Popen starts the native executable or the
\* status line says that it could not.
SupervisorStarts ==
    /\ sup = "booting"
    /\ \/ /\ sup' = "waiting"
          /\ proc' = [proc EXCEPT ![Target] = "group"]
          /\ UNCHANGED status
       \/ /\ sup' = "leader" /\ status' = "spawn_error"
          /\ UNCHANGED proc
    /\ UNCHANGED <<bridge, reaped, exitCode, stranger, pipes, clock>>

\* Mutated form of SupervisorReports: the supervisor exits after its report.
SupervisorReportsAndExits ==
    /\ sup = "waiting" /\ proc[Target] = "dead"
    /\ sup' = "dead" /\ status' = "returncode"
    /\ UNCHANGED <<bridge, reaped, proc, exitCode, stranger, pipes, clock>>

\* target.wait() returns: the code is reported and the supervisor remains the
\* leader of the group.
SupervisorReports ==
    /\ sup = "waiting" /\ proc[Target] = "dead"
    /\ sup' = "leader" /\ status' = "returncode"
    /\ UNCHANGED <<bridge, reaped, proc, exitCode, stranger, pipes, clock>>

\* A killed supervisor becomes a zombie.
SupervisorExits ==
    /\ sup = "killed"
    /\ sup' = "dead"
    /\ UNCHANGED <<bridge, reaped, status, proc, exitCode, stranger, pipes, clock>>

\* Somebody else kills the supervisor, and only it.
SupervisorDies ==
    /\ "supervisor_dies" \in Faults
    /\ sup \in {"booting", "waiting", "leader"}
    /\ sup' = "dead"
    /\ UNCHANGED <<bridge, reaped, status, proc, exitCode, stranger, pipes, clock>>

Supervisor == SupervisorStarts \/ SupervisorReports \/ SupervisorExits

-----------------------------------------------------------------------------
(* The native executable and what it starts: code outside the repository.  *)

\* A live process starts a worker, on its own side of the group's border.
Fork(p, w) ==
    /\ proc[p] \in {"group", "daemon", "detached"}
    /\ proc[w] = "none"
    /\ proc' = [proc EXCEPT ![w] = proc[p]]
    /\ UNCHANGED <<bridge, sup, reaped, status, exitCode, stranger, pipes, clock>>

\* setsid, with or without a redirection of the output.
Escape(p) ==
    /\ "escape" \in Faults
    /\ proc[p] = "group"
    /\ \E side \in {"daemon", "detached"} : proc' = [proc EXCEPT ![p] = side]
    /\ UNCHANGED <<bridge, sup, reaped, status, exitCode, stranger, pipes, clock>>

ProcExit(p) ==
    /\ proc[p] \in {"group", "daemon", "detached"}
    /\ proc' = [proc EXCEPT ![p] = "dead"]
    /\ IF p = Target THEN exitCode' \in ExitCodes ELSE UNCHANGED exitCode
    /\ UNCHANGED <<bridge, sup, reaped, status, stranger, pipes, clock>>

Write(s) ==
    /\ HoldsPipes # {}
    /\ written[s] < MaxOutput
    /\ written' = [written EXCEPT ![s] = @ + 1]
    /\ UNCHANGED <<bridge, tree, taken, buffer, truncated, drain, closed, clock>>

\* A group number is free once its leader is reaped and its members are gone.
NumberReused ==
    /\ reaped /\ InGroup = {} /\ stranger = "none"
    /\ stranger' = "alive"
    /\ UNCHANGED <<bridge, sup, reaped, status, proc, exitCode, pipes, clock>>

Native ==
    \/ \E p \in Procs, w \in Workers : Fork(p, w)
    \/ \E p \in Procs : Escape(p) \/ ProcExit(p)
    \/ \E s \in Streams : Write(s)
    \/ NumberReused

-----------------------------------------------------------------------------
(* The drain threads: _PipeCollector._drain.                               *)

Available(s) == written[s] - taken[s]

Remaining(s) == MaxCapture + 1 - buffer[s]

\* Mutated form of Overflows: only a chunk that does not fit sets the flag.
OverflowsOnlyByChunk(s, n, kept) == n > Remaining(s)

\* More was written than will be kept, now that kept of n units are.
Overflows(s, n, kept) == n > Remaining(s) \/ buffer[s] + kept > MaxCapture

\* stream.read(ChunkSize) returns a full chunk or, at the end of file, the rest.
ReadChunk(s) ==
    LET n == IF Available(s) >= ChunkSize THEN ChunkSize ELSE Available(s)
        kept == IF n < Remaining(s) THEN n ELSE Remaining(s)
    IN  /\ n > 0
        /\ taken' = [taken EXCEPT ![s] = @ + n]
        /\ buffer' = [buffer EXCEPT ![s] = @ + kept]
        /\ truncated' = [truncated EXCEPT ![s] = @ \/ Overflows(s, n, kept)]
        /\ drain' = [drain EXCEPT ![s] = "between"]

DrainRead(s) ==
    /\ drain[s] = "reading"
    /\ Available(s) >= ChunkSize \/ EndOfFile
    /\ \/ ReadChunk(s)
       \/ /\ Available(s) = 0
          /\ drain' = [drain EXCEPT ![s] = "ended"]
          /\ UNCHANGED <<taken, buffer, truncated>>
    /\ UNCHANGED <<bridge, tree, written, closed, clock>>

\* The next read, or the exception a closed stream raises in the thread.
DrainAgain(s) ==
    /\ drain[s] = "between"
    /\ drain' = [drain EXCEPT ![s] = IF closed[s] THEN "failed" ELSE "reading"]
    /\ UNCHANGED <<bridge, tree, written, taken, buffer, truncated, closed, clock>>

Drain(s) == DrainRead(s) \/ DrainAgain(s)

-----------------------------------------------------------------------------
(* Time and cancellation.                                                  *)

Cancel ==
    /\ ~cancel /\ pc \notin {"release", "done"}
    /\ cancel' = TRUE
    /\ UNCHANGED <<bridge, tree, pipes, timeUp, expired>>

TimePasses ==
    /\ \/ pc \in {"poll", "pollSup", "check"} /\ timeUp' = TRUE /\ UNCHANGED expired
       \/ pc \in {"wait", "waitForced", "finalKill", "join"} /\ expired' = TRUE
          /\ UNCHANGED timeUp
    /\ UNCHANGED <<bridge, tree, pipes, cancel>>

Next ==
    \/ Bridge \/ Supervisor \/ SupervisorDies \/ Native
    \/ \E s \in Streams : Drain(s)
    \/ Cancel \/ TimePasses

\* The threads, the supervisor and the clock go on; the native executable and
\* its workers owe nothing.
Fairness ==
    /\ WF_vars(Bridge) /\ WF_vars(Supervisor) /\ WF_vars(TimePasses)
    /\ \A s \in Streams : WF_vars(Drain(s))

Spec == Init /\ [][Next]_vars /\ Fairness

-----------------------------------------------------------------------------
(* Properties.                                                             *)

\* The type of every variable of the run.
TypeOK ==
    /\ pc \in {"spawn", "poll", "pollSup", "check", "terminate", "wait",
               "waitForced", "finalKill", "join", "close", "joinAgain",
               "release", "done"}
    /\ cur \in Streams
    /\ pending \in {"none", "not_started", "spawn_error", "supervisor_lost",
                    "cancelled", "timeout"}
    /\ cleanupError \in BOOLEAN
    /\ code \in ExitCodes \cup {NoCode}
    /\ outcome \in {"none", "returned", "raised"}
    /\ sup \in {"none", "booting", "waiting", "leader", "killed", "dead"}
    /\ reaped \in BOOLEAN
    /\ status \in {"none", "spawn_error", "returncode"}
    /\ proc \in [Procs -> {"none", "group", "daemon", "detached", "dead"}]
    /\ exitCode \in ExitCodes \cup {NoCode}
    /\ stranger \in {"none", "alive", "signalled"}
    /\ written \in [Streams -> 0..MaxOutput]
    /\ taken \in [Streams -> Nat]
    /\ buffer \in [Streams -> 0..(MaxCapture + 1)]
    /\ truncated \in [Streams -> BOOLEAN]
    /\ drain \in [Streams -> {"unstarted", "reading", "between", "ended", "failed"}]
    /\ closed \in [Streams -> BOOLEAN]
    /\ cancel \in BOOLEAN /\ timeUp \in BOOLEAN /\ expired \in BOOLEAN

\* When the call is over, no process is left in the group the bridge owns,
\* whatever ended it: completion, timeout, cancellation or a failed cleanup.
\* (A supervisor somebody else killed takes the identity of the group with it.)
GroupGone ==
    "supervisor_dies" \notin Faults => (pc = "done" => InGroup = {})

\* No signal ever reaches a process group that got the supervisor's number
\* after the bridge had reaped the supervisor.
StrangerNotSignalled == stranger # "signalled"

\* A result carries the code the native executable exited with, and it is
\* returned only after the executable is gone and with no cleanup error.
ResultIsTheExitCode ==
    outcome = "returned" =>
        /\ code \in ExitCodes /\ code = exitCode
        /\ proc[Target] = "dead"
        /\ ~cleanupError

\* The code of an executable that has run is not lost: without a cancellation
\* and before both deadlines the call raises only if it never started the
\* executable.  Nothing between the exit, the status line and the reads of
\* poll_target, and no error of the cleanup, takes its place.
OnlyFailuresRaise ==
    (/\ "supervisor_dies" \notin Faults
     /\ outcome = "raised" /\ ~cancel /\ ~timeUp /\ ~expired)
    => proc[Target] = "none"

\* A result that was collected within the cleanup time holds all the output up
\* to the capture bound, and its truncated flag is exact.
CaptureIsExact ==
    (outcome = "returned" /\ ~expired) =>
        \A s \in Streams :
            LET kept == IF buffer[s] > MaxCapture THEN MaxCapture ELSE buffer[s]
            IN  /\ kept = IF written[s] > MaxCapture THEN MaxCapture ELSE written[s]
                /\ truncated[s] <=> written[s] > MaxCapture

\* The call comes to an end however the native executable behaves.
Terminates == <>(pc = "done")

Contract == INSTANCE BoundedRun WITH
    owned <- InGroup,
    exit <- exitCode,
    outcome <- IF outcome = "returned" THEN code
               ELSE IF outcome = "raised" THEN "raised" ELSE "running"

\* The run keeps the contract its callers rely on.
KeepsContract == Contract!Spec
=============================================================================
