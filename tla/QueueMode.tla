------------------------------ MODULE QueueMode ------------------------------
(***************************************************************************)
(* Executions in queue mode: a main enqueues them, workers run them, and   *)
(* the leader marks as crashed what it finds neither ended nor queued.     *)
(*                                                                         *)
(* packages/cli/src/workflow-runner.ts (enqueueExecution, processError),   *)
(* scaling/scaling.service.ts, scaling/job-processor.ts, the stop of       *)
(* executions/execution.service.ts and the statements of the execution     *)
(* repository they use.  Every await of these is a step boundary.  Bull    *)
(* and Redis are external: a queue that hands a job to one worker, fails   *)
(* jobs whose lock was not renewed, and tells the main of a job's end.     *)
(* An execution here has one run; waits are in WaitTracker.                *)
(***************************************************************************)
EXTENDS Naturals, Leadership

CONSTANTS
    Workers, Executions,
    Receiving,      \* bound: the mains that start executions
    Loops,          \* the recovery loops a main may come to have
    MaxFaults,      \* bound: crashes, changes of leadership, failures
    None

ASSUME QueueAssumption ==
    /\ Receiving \subseteq Mains
    /\ MaxFaults \in Nat
    /\ None \notin Mains \cup Executions \cup Loops

VARIABLES
    row,            \* status of an execution in the database
    run,            \* what enqueueExecution() or runMainProcess() is at
    job,            \* the job of an execution
    worker,         \* what processJob() is at
    stopping,       \* the main that is to write a stop
    stopJob,        \* what stopJob() is at
    aborts,         \* 'abort-job' messages under way
    loop, timeout,  \* recovery loops of a main, and the one that it may stop
    faults,
    starts,         \* ghost: how often an engine was started
    late            \* ghost: who had an execution in hand when it ended

queue == <<job, aborts>>
cancelling == <<stopping, stopJob>>
recovery == <<serving, loop, timeout>>
vars == <<row, run, queue, worker, cancelling, recovery, faults, starts, late>>

InProgress == {"new", "running"}
Ended == {"success", "error", "canceled", "crashed"}

Runs == [main : Mains \cup {None}, entry : BOOLEAN,
         at : {"none", "adding", "added", "waiting", "failed", "refused", "checked",
               "local", "cancelled"}]
NoRun == [main |-> None, entry |-> FALSE, at |-> "none"]

Idle == [exec |-> None, at |-> "idle"]
Off == [at |-> "off", ids |-> {}]
Scheduled == [at |-> "timer", ids |-> {}]

TypeOK ==
    /\ serving \subseteq Mains
    /\ row \in [Executions -> {"none"} \cup InProgress \cup Ended]
    /\ run \in [Executions -> Runs]
    /\ job \in [Executions -> {"none", "waiting", "active", "completed", "failed",
                               "cancelled", "removed"}]
    /\ worker \in [Workers -> [exec : Executions \cup {None},
                               at : {"idle", "picked", "read", "set", "running",
                                     "cancelled", "saved"}]]
    /\ stopping \in [Executions -> Mains \cup {None}]
    /\ stopJob \in [Executions -> {"none", "asked", "inactive", "active", "aborted"}]
    /\ aborts \subseteq Executions
    /\ loop \in [Mains -> [Loops -> [at : {"off", "timer", "ids", "dangling"},
                                     ids : SUBSET Executions]]]
    /\ \A m \in Mains, k \in Loops : loop[m][k].at \in {"off", "timer"} => loop[m][k].ids = {}
    /\ timeout \in [Mains -> Loops \cup {None}]
    /\ faults \in 0..MaxFaults
    /\ starts \in [Executions -> Nat]

NobodyLate == [workers |-> {}, loops |-> {}, stop |-> FALSE, checked |-> FALSE, queued |-> FALSE]

Init ==
    /\ LeadershipInit
    /\ row = [e \in Executions |-> "none"]
    /\ run = [e \in Executions |-> NoRun]
    /\ job = [e \in Executions |-> "none"]
    /\ worker = [w \in Workers |-> Idle]
    /\ stopping = [e \in Executions |-> None]
    /\ stopJob = [e \in Executions |-> "none"]
    /\ aborts = {}
    /\ loop = [m \in Mains |-> [k \in Loops |-> Off]]
    /\ timeout = [m \in Mains |-> None]
    /\ faults = 0
    /\ starts = [e \in Executions |-> 0]
    /\ late = [e \in Executions |-> NobodyLate]

Fault == faults < MaxFaults /\ faults' = faults + 1

\* Who has e in hand now.
InHand(e) ==
    [workers |-> {w \in Workers : worker[w].exec = e},
     loops   |-> {l \in Mains \X Loops : e \in loop[l[1]][l[2]].ids},
     stop    |-> stopping[e] # None,
     checked |-> run[e].at = "checked",
     queued  |-> job[e] = "waiting" \/ run[e].at = "adding"]

\* A write of the statuses of some executions.
SetStatus(es, status) ==
    /\ row' = [e \in Executions |-> IF e \in es THEN status ELSE row[e]]
    /\ late' = [e \in Executions |->
        IF e \notin es \/ row[e] = status THEN late[e]
        ELSE IF status \in Ended THEN InHand(e) ELSE NobodyLate]

-----------------------------------------------------------------------------
(* The main: WorkflowRunner *)

\* ActiveExecutions.add() of a new execution; queue mode does not throttle.
add(m, e) ==
    /\ m \in Receiving /\ row[e] = "none"
    /\ SetStatus({e}, "new")
    /\ run' = [run EXCEPT ![e] = [main |-> m, entry |-> TRUE, at |-> "adding"]]
    /\ UNCHANGED <<queue, worker, cancelling, recovery, faults, starts>>

\* run() enqueues it, unless it is a manual one: enqueueExecution() up to the
\* job.
addJob(e) ==
    /\ run[e].at = "adding"
    /\ job' = [job EXCEPT ![e] = "waiting"]
    /\ run' = [run EXCEPT ![e].at = "added"]
    /\ UNCHANGED <<row, aborts, worker, cancelling, recovery, faults, starts, late>>

\* addJob() or the workflowExecuteBefore hook rejects.
enqueueFails(e) ==
    /\ run[e].at \in {"adding", "added"}
    /\ Fault
    /\ run' = [run EXCEPT ![e].at = "refused"]
    /\ UNCHANGED <<row, queue, worker, cancelling, recovery, starts, late>>

\* The hook has run: the promise that a stop cancels, which awaits the job.
attachWorkflowExecution(e) ==
    /\ run[e].at = "added"
    /\ run' = [run EXCEPT ![e].at = "waiting"]
    /\ UNCHANGED <<row, queue, worker, cancelling, recovery, faults, starts, late>>

\* job.finished() settles.  A job that was removed settles nothing.
jobFinished(e) ==
    /\ run[e].at = "waiting"
    /\ \/ job[e] \in {"completed", "cancelled"} /\ run' = [run EXCEPT ![e] = NoRun]
       \/ job[e] = "failed" /\ run' = [run EXCEPT ![e].at = "failed"]
    /\ UNCHANGED <<row, queue, worker, cancelling, recovery, faults, starts, late>>

\* "first do a sanity run for the edge case that the execution was not marked
\* as stalled by Bull even though it executed successfully"
SanityRun(e) == row[e] = "success"

processError(e) ==
    /\ run[e].at \in {"failed", "refused"}
    /\ IF SanityRun(e)
       THEN run' = [run EXCEPT ![e] =
                IF @.at = "refused" /\ @.entry THEN [@ EXCEPT !.at = "none"] ELSE NoRun]
       ELSE run' = [run EXCEPT ![e].entry = FALSE, ![e].at = "checked"]
    /\ UNCHANGED <<row, queue, worker, cancelling, recovery, faults, starts, late>>

\* The workflowExecuteAfter hook of processError().
saveError(e) ==
    /\ run[e].at = "checked"
    /\ SetStatus({e}, "error")
    /\ run' = [run EXCEPT ![e] = NoRun]
    /\ UNCHANGED <<queue, worker, cancelling, recovery, faults, starts>>

\* A manual one runs here: runMainProcess(), setRunning() and the engine,
\* whatever happened meanwhile.
runMainProcess(e) ==
    /\ run[e].at = "adding"
    /\ SetStatus({e}, "running")
    /\ starts' = [starts EXCEPT ![e] = @ + 1]
    /\ run' = [run EXCEPT ![e].at = "local"]
    /\ UNCHANGED <<queue, worker, cancelling, recovery, faults>>

\* Its engine ends; a cancelled one saves that.
endsOnMain(e) ==
    /\ \/ run[e].at = "local" /\ \E status \in {"success", "error"} : SetStatus({e}, status)
       \/ run[e].at = "cancelled" /\ SetStatus({e}, "canceled")
    /\ run' = [run EXCEPT ![e] = NoRun]
    /\ UNCHANGED <<queue, worker, cancelling, recovery, faults, starts>>

-----------------------------------------------------------------------------
(* Stopping an execution: ExecutionService.stop() on any main *)

\* It has read a row in progress.  What it cancels is on the main that runs it
\* only, and not before the promise is attached.
stop(m, e) ==
    /\ row[e] \in InProgress
    /\ stopping[e] = None
    /\ stopping' = [stopping EXCEPT ![e] = m]
    /\ IF run[e].main = m /\ run[e].entry
       THEN /\ run' = [run EXCEPT ![e].entry = FALSE,
                                  ![e].at = IF @ = "local" THEN "cancelled" ELSE @]
            /\ stopJob' = [stopJob EXCEPT ![e] = IF run[e].at = "waiting" THEN "asked" ELSE @]
       ELSE UNCHANGED <<run, stopJob>>
    /\ UNCHANGED <<row, queue, worker, recovery, faults, starts, late>>

\* It writes, whatever the row is by now.
stopDuringRun(e) ==
    /\ stopping[e] # None
    /\ SetStatus({e}, "canceled")
    /\ stopping' = [stopping EXCEPT ![e] = None]
    /\ UNCHANGED <<run, queue, worker, stopJob, recovery, faults, starts>>

\* ScalingService.stopJob(): a job that is not active is removed if it still is
\* not; an active one is aborted on its worker and then failed.
isActive(e) ==
    /\ stopJob[e] = "asked"
    /\ stopJob' = [stopJob EXCEPT ![e] = IF job[e] = "active" THEN "active" ELSE "inactive"]
    /\ UNCHANGED <<row, run, queue, worker, stopping, recovery, faults, starts, late>>

remove(e) ==
    /\ stopJob[e] = "inactive"
    /\ job' = [job EXCEPT ![e] = IF @ = "waiting" THEN "removed" ELSE @]
    /\ stopJob' = [stopJob EXCEPT ![e] = "none"]
    /\ UNCHANGED <<row, run, aborts, worker, stopping, recovery, faults, starts, late>>

sendAbort(e) ==
    /\ stopJob[e] = "active"
    /\ aborts' = aborts \cup {e}
    /\ stopJob' = [stopJob EXCEPT ![e] = "aborted"]
    /\ UNCHANGED <<row, run, job, worker, stopping, recovery, faults, starts, late>>

moveToFailed(e) ==
    /\ stopJob[e] = "aborted"
    /\ job' = [job EXCEPT ![e] = IF @ = "active" THEN "cancelled" ELSE @]
    /\ stopJob' = [stopJob EXCEPT ![e] = "none"]
    /\ UNCHANGED <<row, run, aborts, worker, stopping, recovery, faults, starts, late>>

-----------------------------------------------------------------------------
(* A worker: JobProcessor.processJob() *)

take(w, e) ==
    /\ worker[w] = Idle
    /\ job[e] = "waiting"
    /\ job' = [job EXCEPT ![e] = "active"]
    /\ worker' = [worker EXCEPT ![w] = [exec |-> e, at |-> "picked"]]
    /\ UNCHANGED <<row, run, aborts, cancelling, recovery, faults, starts, late>>

\* Mutant: whatever is in the queue is run.
RefusesNothing(w) == FALSE

\* "We refrain from processing it, until we have reworked both mechanisms"
Refuses(w) == row[worker[w].exec] = "crashed"

findExecution(w) ==
    /\ worker[w].at = "picked"
    /\ worker' = [worker EXCEPT ![w].at = IF Refuses(w) THEN "saved" ELSE "read"]
    /\ UNCHANGED <<row, run, queue, cancelling, recovery, faults, starts, late>>

setRunning(w) ==
    /\ worker[w].at = "read"
    /\ SetStatus({worker[w].exec}, "running")
    /\ worker' = [worker EXCEPT ![w].at = "set"]
    /\ UNCHANGED <<run, queue, cancelling, recovery, faults, starts>>

\* The engine starts and the job is among runningJobs: from now on it can be
\* aborted.
startEngine(w) ==
    /\ worker[w].at = "set"
    /\ starts' = [starts EXCEPT ![worker[w].exec] = @ + 1]
    /\ worker' = [worker EXCEPT ![w].at = "running"]
    /\ UNCHANGED <<row, run, queue, cancelling, recovery, faults, late>>

\* An 'abort-job' message arrives at the workers.
abortArrives(e) ==
    /\ e \in aborts
    /\ aborts' = aborts \ {e}
    /\ worker' = [w \in Workers |->
        IF worker[w] = [exec |-> e, at |-> "running"]
        THEN [exec |-> e, at |-> "cancelled"] ELSE worker[w]]
    /\ UNCHANGED <<row, run, job, cancelling, recovery, faults, starts, late>>

\* The engine ends and saves, whatever the row is by now.
workflowExecuteAfter(w) ==
    /\ \/ /\ worker[w].at = "running"
          /\ \E status \in {"success", "error"} : SetStatus({worker[w].exec}, status)
       \/ worker[w].at = "cancelled" /\ SetStatus({worker[w].exec}, "canceled")
    /\ worker' = [worker EXCEPT ![w].at = "saved"]
    /\ UNCHANGED <<run, queue, cancelling, recovery, faults, starts>>

\* processJob() returns or throws; a job that failed meanwhile stays so.
Ends(w, outcome) ==
    LET e == worker[w].exec
    IN  /\ job' = [job EXCEPT ![e] = IF @ = "active" THEN outcome ELSE @]
        /\ worker' = [worker EXCEPT ![w] = Idle]
        /\ UNCHANGED <<row, run, aborts, cancelling, recovery, starts, late>>

jobReturns(w) == worker[w].at = "saved" /\ Ends(w, "completed") /\ UNCHANGED faults

reportJobProcessingError(w) ==
    /\ worker[w].at \in {"picked", "read", "set"}
    /\ Fault
    /\ Ends(w, "failed")

\* Mutant: a stalled job is run again, as with maxStalledCount: 1.
StalledIsRetried == "waiting"
StalledBecomes == "failed"

\* Bull finds a lock that was not renewed: its worker died, or is too busy.
stalled(e) ==
    /\ job[e] = "active"
    /\ job' = [job EXCEPT ![e] = StalledBecomes]
    /\ UNCHANGED <<row, run, aborts, worker, cancelling, recovery, faults, starts, late>>

-----------------------------------------------------------------------------
(* Queue recovery, meant for the leader *)

\* Mutant: what the last check found is still there.
scheduleAsIs(m, k) ==
    /\ loop' = [loop EXCEPT ![m][k].at = "timer"]
    /\ timeout' = [timeout EXCEPT ![m] = k]

schedule(m, k) ==
    /\ loop' = [loop EXCEPT ![m][k] = Scheduled]
    /\ timeout' = [timeout EXCEPT ![m] = k]

\* scheduleQueueRecovery() on takeover: the loop of an earlier term may still
\* be there.
scheduleQueueRecovery(m) ==
    /\ TakeOver(m)
    /\ \E k \in Loops : loop[m][k] = Off /\ schedule(m, k)
    /\ UNCHANGED <<row, run, queue, worker, cancelling, faults, starts, late>>

\* stopQueueRecovery() clears the timer set last, if it has not fired.
stopQueueRecovery(m) ==
    /\ Fault
    /\ StepDown(m)
    /\ loop' = [loop EXCEPT ![m] =
        [k \in Loops |-> IF k = timeout[m] /\ @[k] = Scheduled THEN Off ELSE @[k]]]
    /\ UNCHANGED <<row, run, queue, worker, cancelling, timeout, starts, late>>

\* recoverFromQueue(): getInProgressExecutionIds(), all of them (the code takes
\* the newest 100 and checks again sooner if it got as many).
getInProgressExecutionIds(m, k) ==
    LET storedIds == {e \in Executions : row[e] \in InProgress}
    IN  /\ loop[m][k] = Scheduled
        /\ IF storedIds = {}
           THEN schedule(m, k)
           ELSE /\ loop' = [loop EXCEPT ![m][k] = [at |-> "ids", ids |-> storedIds]]
                /\ UNCHANGED timeout
        /\ UNCHANGED <<row, run, queue, worker, cancelling, serving, faults, starts, late>>

Queued == {e \in Executions : job[e] \in {"waiting", "active"}}

findJobsByStatus(m, k) ==
    LET danglingIds == loop[m][k].ids \ Queued
    IN  /\ loop[m][k].at = "ids"
        /\ IF danglingIds = {}
           THEN schedule(m, k)
           ELSE /\ loop' = [loop EXCEPT ![m][k] = [at |-> "dangling", ids |-> danglingIds]]
                /\ UNCHANGED timeout
        /\ UNCHANGED <<row, run, queue, worker, cancelling, serving, faults, starts, late>>

\* It marks them, whatever their rows are by now, and schedules the next check.
markAsCrashed(m, k) ==
    /\ loop[m][k].at = "dangling"
    /\ SetStatus(loop[m][k].ids, "crashed")
    /\ schedule(m, k)
    /\ UNCHANGED <<run, queue, worker, cancelling, serving, faults, starts>>

\* Mutant: after an error nothing is scheduled.
NotRetried(m, k) == loop' = [loop EXCEPT ![m][k] = Off] /\ UNCHANGED timeout
Retried(m, k) == schedule(m, k)

recoveryFails(m, k) ==
    /\ loop[m][k].at \in {"ids", "dangling"}
    /\ Fault
    /\ Retried(m, k)
    /\ UNCHANGED <<row, run, queue, worker, cancelling, serving, starts, late>>

-----------------------------------------------------------------------------
(* Crashes *)

CrashMain(m) ==
    /\ Fault
    /\ StepDown(m) \/ (m \notin serving /\ UNCHANGED serving)
    /\ run' = [e \in Executions |-> IF run[e].main = m THEN NoRun ELSE run[e]]
    /\ stopJob' = [e \in Executions |-> IF run[e].main = m THEN "none" ELSE stopJob[e]]
    /\ stopping' = [e \in Executions |-> IF stopping[e] = m THEN None ELSE stopping[e]]
    /\ loop' = [loop EXCEPT ![m] = [k \in Loops |-> Off]]
    /\ timeout' = [timeout EXCEPT ![m] = None]
    /\ UNCHANGED <<row, queue, worker, starts, late>>

CrashWorker(w) ==
    /\ Fault
    /\ worker[w] # Idle
    /\ worker' = [worker EXCEPT ![w] = Idle]
    /\ UNCHANGED <<row, run, queue, cancelling, recovery, starts, late>>

-----------------------------------------------------------------------------
OfMain(e) ==
    \/ addJob(e) \/ attachWorkflowExecution(e) \/ jobFinished(e)
    \/ processError(e) \/ saveError(e) \/ runMainProcess(e) \/ endsOnMain(e)

OfStop(e) ==
    \/ stopDuringRun(e) \/ isActive(e) \/ remove(e)
    \/ sendAbort(e) \/ moveToFailed(e) \/ abortArrives(e)

OfWorker(w) ==
    \/ \E e \in Executions : take(w, e)
    \/ findExecution(w) \/ setRunning(w) \/ startEngine(w)
    \/ workflowExecuteAfter(w) \/ jobReturns(w)

OfLoop(m, k) ==
    getInProgressExecutionIds(m, k) \/ findJobsByStatus(m, k) \/ markAsCrashed(m, k)

Next ==
    \/ \E e \in Executions :
        \/ OfMain(e) \/ OfStop(e) \/ enqueueFails(e) \/ stalled(e)
        \/ \E m \in Mains : add(m, e) \/ stop(m, e)
    \/ \E w \in Workers : OfWorker(w) \/ reportJobProcessingError(w) \/ CrashWorker(w)
    \/ \E m \in Mains :
        \/ scheduleQueueRecovery(m) \/ stopQueueRecovery(m) \/ CrashMain(m)
        \/ \E k \in Loops : OfLoop(m, k) \/ recoveryFails(m, k)

Spec == Init /\ [][Next]_vars

\* Bull finds the locks of workers that are gone.
orphaned(e) == (\A w \in Workers : worker[w].exec # e) /\ stalled(e)

Going ==
    \/ \E e \in Executions : OfMain(e) \/ OfStop(e) \/ orphaned(e)
    \/ \E w \in Workers : OfWorker(w)
    \/ \E m \in Mains : scheduleQueueRecovery(m)

\* Processes go on with what they have begun, engines end, a worker takes what
\* waits when it is idle, and some main becomes leader.  All of this ends, but
\* for the loops: it is enough that some of it goes on, and some loop.
Fairness == WF_vars(Going) /\ WF_vars(\E m \in Mains, k \in Loops : OfLoop(m, k))

FairSpec == Spec /\ Fairness

-----------------------------------------------------------------------------
(* Properties *)

\* maxStalledCount: 0, one job for each execution: no execution is run twice,
\* though jobs stall under workers that go on and recoveries overlap.
RunsOnce == \A e \in Executions : starts[e] <= 1

\* An execution that has ended keeps its status, unless somebody who had it in
\* hand when it ended (a worker, a recovery, a stop) is late with another one,
\* or its job had not been taken from the queue.  Nobody who comes later
\* changes it: a worker refuses a crashed execution, and the main lets a
\* success stand when it hears of a stalled job.
EndsAreKept ==
    [][\A e \in Executions : row[e] \in Ended /\ row'[e] # row[e] =>
        \/ \E w \in Workers :
            /\ worker'[w] # worker[w]
            /\ w \in late[e].workers \/ (late[e].queued /\ row[e] # "crashed")
        \/ \E l \in late[e].loops : loop'[l[1]][l[2]] # loop[l[1]][l[2]]
        \/ late[e].stop /\ stopping'[e] # stopping[e]
        \/ run'[e] # run[e] /\ (row[e] = "success" => late[e].checked)]_vars

\* "recovered dangling executions": whatever crashes, no execution stays new or
\* running for ever.
Settles == \A e \in Executions : <>[](row[e] \notin InProgress)
=============================================================================
