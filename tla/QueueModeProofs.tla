--------------------------- MODULE QueueModeProofs ---------------------------
(***************************************************************************)
(* Proofs about QueueMode, for any number of mains, workers, executions,   *)
(* recovery loops and faults.                                              *)
(***************************************************************************)
EXTENDS QueueMode, TLAPS

LEMMA Constants ==
    /\ NoRun \in Runs /\ None \in Mains \cup {None} /\ None \in Executions \cup {None}
    /\ None \in Loops \cup {None}
BY DEF NoRun, Runs

LEMMA InitType == Init => TypeOK
BY QueueAssumption, Constants
   DEF Init, LeadershipInit, TypeOK, Idle, Off, InProgress

\* A status write keeps the rows' type.
LEMMA StatusType ==
    ASSUME TypeOK, NEW es, NEW status \in InProgress \cup Ended, SetStatus(es, status)
    PROVE  row' \in [Executions -> {"none"} \cup InProgress \cup Ended]
BY DEF TypeOK, SetStatus

LEMMA FaultType == TypeOK /\ Fault => faults' \in 0..MaxFaults
BY QueueAssumption DEF TypeOK, Fault

LEMMA RunType ==
    ASSUME TypeOK, NEW e \in Executions,
           NEW at \in {"none", "added", "waiting", "failed", "refused", "checked", "local"},
           run' = [run EXCEPT ![e].at = at]
    PROVE  run' \in [Executions -> Runs]
<1>1. run[e] \in Runs
    BY DEF TypeOK
<1>2. [run[e] EXCEPT !.at = at] \in Runs
    BY <1>1 DEF Runs
<1> QED BY <1>2 DEF TypeOK

LEMMA MainType ==
    ASSUME TypeOK, NEW e \in Executions,
           \/ \E m \in Mains : add(m, e) \/ stop(m, e)
           \/ OfMain(e) \/ enqueueFails(e)
    PROVE  TypeOK'
<1>1. ASSUME NEW m \in Mains, add(m, e) PROVE TypeOK'
    <2>1. row' \in [Executions -> {"none"} \cup InProgress \cup Ended]
        BY <1>1, StatusType DEF add, InProgress
    <2>2. run' \in [Executions -> Runs]
        BY <1>1 DEF add, TypeOK, Runs
    <2> QED BY <1>1, <2>1, <2>2 DEF add, TypeOK, queue, cancelling, recovery
<1>2. CASE addJob(e) \/ attachWorkflowExecution(e) \/ jobFinished(e) \/ processError(e)
    <2>1. run' \in [Executions -> Runs]
        <3>1. CASE addJob(e) \/ attachWorkflowExecution(e)
            BY <3>1, RunType DEF addJob, attachWorkflowExecution
        <3>2. CASE jobFinished(e)
            <4>1. CASE run' = [run EXCEPT ![e] = NoRun]
                BY <4>1, Constants DEF TypeOK
            <4>2. CASE run' = [run EXCEPT ![e].at = "failed"]
                BY <4>2, RunType
            <4> QED BY <3>2, <4>1, <4>2 DEF jobFinished
        <3>3. CASE processError(e)
            <4>1. run[e] \in Runs
                BY DEF TypeOK
            <4>2. /\ [run[e] EXCEPT !.at = "none"] \in Runs
                  /\ [run[e] EXCEPT !.entry = FALSE, !.at = "checked"] \in Runs
                BY <4>1 DEF Runs
            <4>3. CASE run' = [run EXCEPT ![e].entry = FALSE, ![e].at = "checked"]
                <5>1. run' = [run EXCEPT ![e] = [@ EXCEPT !.entry = FALSE, !.at = "checked"]]
                    BY <4>1, <4>3 DEF TypeOK, Runs
                <5> QED BY <4>2, <5>1 DEF TypeOK
            <4>4. CASE \/ run' = [run EXCEPT ![e] = [@ EXCEPT !.at = "none"]]
                       \/ run' = [run EXCEPT ![e] = NoRun]
                BY <4>2, <4>4, Constants DEF TypeOK
            <4> QED BY <3>3, <4>3, <4>4 DEF processError
        <3> QED BY <1>2, <3>1, <3>2, <3>3
    <2>2. job' \in [Executions -> {"none", "waiting", "active", "completed", "failed",
                                   "cancelled", "removed"}]
        BY <1>2 DEF addJob, attachWorkflowExecution, jobFinished, processError, TypeOK, queue
    <2> QED BY <1>2, <2>1, <2>2
            DEF addJob, attachWorkflowExecution, jobFinished, processError, TypeOK, queue,
                cancelling, recovery
<1>3. CASE enqueueFails(e)
    <2>1. run' \in [Executions -> Runs]
        BY <1>3, RunType DEF enqueueFails
    <2> QED BY <1>3, <2>1, FaultType DEF enqueueFails, TypeOK, queue, cancelling, recovery
<1>4. CASE saveError(e) \/ endsOnMain(e)
    <2>1. row' \in [Executions -> {"none"} \cup InProgress \cup Ended]
        <3>1. PICK status \in Ended : SetStatus({e}, status)
            BY <1>4 DEF saveError, endsOnMain, Ended
        <3> QED BY <3>1, StatusType
    <2>2. run' \in [Executions -> Runs]
        BY <1>4, Constants DEF saveError, endsOnMain, TypeOK
    <2> QED BY <1>4, <2>1, <2>2 DEF saveError, endsOnMain, TypeOK, queue, cancelling, recovery
<1>5. CASE runMainProcess(e)
    <2>1. row' \in [Executions -> {"none"} \cup InProgress \cup Ended]
        BY <1>5, StatusType DEF runMainProcess, InProgress
    <2>2. run' \in [Executions -> Runs]
        BY <1>5, RunType DEF runMainProcess
    <2>3. starts' \in [Executions -> Nat]
        BY <1>5 DEF runMainProcess, TypeOK
    <2> QED BY <1>5, <2>1, <2>2, <2>3 DEF runMainProcess, TypeOK, queue, cancelling, recovery
<1>6. ASSUME NEW m \in Mains, stop(m, e) PROVE TypeOK'
    <2>1. run' \in [Executions -> Runs]
        <3>1. run[e] \in Runs
            BY DEF TypeOK
        <3>2. [run[e] EXCEPT !.entry = FALSE,
                             !.at = IF @ = "local" THEN "cancelled" ELSE @] \in Runs
            BY <3>1 DEF Runs
        <3>3. \/ run' = run
              \/ run' = [run EXCEPT ![e].entry = FALSE,
                                    ![e].at = IF @ = "local" THEN "cancelled" ELSE @]
            BY <1>6 DEF stop
        <3> QED BY <3>1, <3>2, <3>3 DEF TypeOK
    <2>2. stopJob' \in [Executions -> {"none", "asked", "inactive", "active", "aborted"}]
        BY <1>6 DEF stop, TypeOK
    <2>3. stopping' \in [Executions -> Mains \cup {None}]
        BY <1>6 DEF stop, TypeOK
    <2> QED BY <1>6, <2>1, <2>2, <2>3 DEF stop, TypeOK, queue, recovery
<1> QED BY <1>1, <1>2, <1>3, <1>4, <1>5, <1>6 DEF OfMain

LEMMA StopType ==
    ASSUME TypeOK, NEW e \in Executions, OfStop(e) \/ stalled(e)
    PROVE  TypeOK'
<1>1. CASE stopDuringRun(e)
    <2>1. row' \in [Executions -> {"none"} \cup InProgress \cup Ended]
        BY <1>1, StatusType DEF stopDuringRun, Ended
    <2>2. stopping' \in [Executions -> Mains \cup {None}]
        BY <1>1 DEF stopDuringRun, TypeOK
    <2> QED BY <1>1, <2>1, <2>2 DEF stopDuringRun, TypeOK, queue, recovery
<1>2. CASE isActive(e) \/ remove(e) \/ sendAbort(e) \/ moveToFailed(e)
    <2>1. stopJob' \in [Executions -> {"none", "asked", "inactive", "active", "aborted"}]
        BY <1>2 DEF isActive, remove, sendAbort, moveToFailed, TypeOK
    <2>2. job' \in [Executions -> {"none", "waiting", "active", "completed", "failed",
                                   "cancelled", "removed"}]
        BY <1>2 DEF isActive, remove, sendAbort, moveToFailed, TypeOK, queue
    <2>3. aborts' \subseteq Executions
        BY <1>2 DEF isActive, remove, sendAbort, moveToFailed, TypeOK, queue
    <2> QED BY <1>2, <2>1, <2>2, <2>3
            DEF isActive, remove, sendAbort, moveToFailed, TypeOK, queue, recovery
<1>3. CASE abortArrives(e)
    <2>1. worker' \in [Workers -> [exec : Executions \cup {None},
                                   at : {"idle", "picked", "read", "set", "running",
                                         "cancelled", "saved"}]]
        BY <1>3 DEF abortArrives, TypeOK
    <2> QED BY <1>3, <2>1 DEF abortArrives, TypeOK, cancelling, recovery
<1>4. CASE stalled(e)
    BY <1>4 DEF stalled, StalledBecomes, TypeOK, cancelling, recovery
<1> QED BY <1>1, <1>2, <1>3, <1>4 DEF OfStop

Workings == [exec : Executions \cup {None},
             at : {"idle", "picked", "read", "set", "running", "cancelled", "saved"}]
Jobs == {"none", "waiting", "active", "completed", "failed", "cancelled", "removed"}

LEMMA WorkType ==
    ASSUME TypeOK, NEW w \in Workers,
           NEW at \in {"read", "set", "running", "saved"},
           worker' = [worker EXCEPT ![w].at = at]
    PROVE  worker' \in [Workers -> Workings]
<1>1. worker[w] \in Workings
    BY DEF TypeOK, Workings
<1>2. [worker[w] EXCEPT !.at = at] \in Workings
    BY <1>1 DEF Workings
<1> QED BY <1>2 DEF TypeOK, Workings

LEMMA WorkerType ==
    ASSUME TypeOK, NEW w \in Workers,
           OfWorker(w) \/ reportJobProcessingError(w) \/ CrashWorker(w)
    PROVE  TypeOK'
<1>1. ASSUME NEW e \in Executions, take(w, e) PROVE TypeOK'
    <2>1. worker' \in [Workers -> Workings]
        BY <1>1 DEF take, TypeOK, Workings
    <2>2. job' \in [Executions -> Jobs]
        BY <1>1 DEF take, TypeOK, Jobs
    <2> QED BY <1>1, <2>1, <2>2 DEF take, TypeOK, Workings, Jobs, cancelling, recovery
<1>2. CASE findExecution(w)
    <2>1. worker' \in [Workers -> Workings]
        <3>1. PICK at \in {"saved", "read"} : worker' = [worker EXCEPT ![w].at = at]
            <4>1. CASE Refuses(w)
                BY <1>2, <4>1 DEF findExecution
            <4>2. CASE ~Refuses(w)
                BY <1>2, <4>2 DEF findExecution
            <4> QED BY <4>1, <4>2
        <3> QED BY <3>1, WorkType
    <2> QED BY <1>2, <2>1 DEF findExecution, TypeOK, Workings, queue, cancelling, recovery
<1>3. CASE setRunning(w)
    <2>1. row' \in [Executions -> {"none"} \cup InProgress \cup Ended]
        BY <1>3, StatusType DEF setRunning, InProgress
    <2>2. worker' \in [Workers -> Workings]
        BY <1>3, WorkType DEF setRunning
    <2> QED BY <1>3, <2>1, <2>2 DEF setRunning, TypeOK, Workings, queue, cancelling, recovery
<1>4. CASE startEngine(w)
    <2>1. worker' \in [Workers -> Workings]
        BY <1>4, WorkType DEF startEngine
    <2>2. starts' \in [Executions -> Nat]
        <3>1. CASE worker[w].exec \in Executions
            <4>1. starts[worker[w].exec] + 1 \in Nat
                BY <3>1 DEF TypeOK
            <4> QED BY <1>4, <4>1 DEF startEngine, TypeOK
        <3>2. CASE worker[w].exec \notin Executions
            BY <1>4, <3>2 DEF startEngine, TypeOK
        <3> QED BY <3>1, <3>2
    <2> QED BY <1>4, <2>1, <2>2 DEF startEngine, TypeOK, Workings, queue, cancelling, recovery
<1>5. CASE workflowExecuteAfter(w)
    <2>1. row' \in [Executions -> {"none"} \cup InProgress \cup Ended]
        <3>1. PICK status \in Ended : SetStatus({worker[w].exec}, status)
            BY <1>5 DEF workflowExecuteAfter, Ended
        <3> QED BY <3>1, StatusType
    <2>2. worker' \in [Workers -> Workings]
        BY <1>5, WorkType DEF workflowExecuteAfter
    <2> QED BY <1>5, <2>1, <2>2
            DEF workflowExecuteAfter, TypeOK, Workings, queue, cancelling, recovery
<1>6. ASSUME NEW outcome \in Jobs, Ends(w, outcome), faults' \in 0..MaxFaults PROVE TypeOK'
    <2>1. worker' \in [Workers -> Workings]
        BY <1>6 DEF Ends, Idle, TypeOK, Workings
    <2>2. job' \in [Executions -> Jobs]
        BY <1>6 DEF Ends, TypeOK, Jobs
    <2> QED BY <1>6, <2>1, <2>2 DEF Ends, TypeOK, Workings, Jobs, cancelling, recovery
<1>7. CASE jobReturns(w) \/ reportJobProcessingError(w)
    <2>1. faults' \in 0..MaxFaults
        BY <1>7, FaultType DEF jobReturns, reportJobProcessingError, TypeOK
    <2>2. PICK outcome \in Jobs : Ends(w, outcome)
        BY <1>7 DEF jobReturns, reportJobProcessingError, Jobs
    <2> QED BY <1>6, <2>1, <2>2
<1>8. CASE CrashWorker(w)
    <2>1. worker' \in [Workers -> Workings]
        BY <1>8 DEF CrashWorker, Idle, TypeOK, Workings
    <2> QED BY <1>8, <2>1, FaultType
            DEF CrashWorker, TypeOK, Workings, queue, cancelling, recovery
<1> QED BY <1>1, <1>2, <1>3, <1>4, <1>5, <1>7, <1>8 DEF OfWorker

\* What a loop may be.
LoopStates ==
    {l \in [at : {"off", "timer", "ids", "dangling"}, ids : SUBSET Executions] :
        l.at \in {"off", "timer"} => l.ids = {}}

LEMMA LoopType ==
    ASSUME TypeOK, loop' \in [Mains -> [Loops -> LoopStates]],
           timeout' \in [Mains -> Loops \cup {None}], serving' \subseteq Mains,
           faults' \in 0..MaxFaults, UNCHANGED <<row, run, queue, worker, cancelling, starts>>
    PROVE  TypeOK'
<1>1. /\ loop' \in [Mains -> [Loops -> [at : {"off", "timer", "ids", "dangling"},
                                        ids : SUBSET Executions]]]
      /\ \A m \in Mains, k \in Loops :
            loop'[m][k].at \in {"off", "timer"} => loop'[m][k].ids = {}
    BY DEF LoopStates
<1> QED BY <1>1 DEF TypeOK, queue, cancelling

LEMMA LoopStatesNow == TypeOK => loop \in [Mains -> [Loops -> LoopStates]]
BY DEF TypeOK, LoopStates

LEMMA ScheduleType ==
    ASSUME TypeOK, NEW m \in Mains, NEW k \in Loops, schedule(m, k)
    PROVE  /\ loop' \in [Mains -> [Loops -> LoopStates]]
           /\ timeout' \in [Mains -> Loops \cup {None}]
<1>1. Scheduled \in LoopStates
    BY DEF Scheduled, LoopStates
<1> QED BY <1>1, LoopStatesNow DEF schedule, TypeOK

LEMMA RecoveryType ==
    ASSUME TypeOK, NEW m \in Mains,
           \/ scheduleQueueRecovery(m) \/ stopQueueRecovery(m)
           \/ \E k \in Loops : OfLoop(m, k) \/ recoveryFails(m, k)
    PROVE  TypeOK'
<1>1. CASE scheduleQueueRecovery(m)
    <2>1. PICK k \in Loops : schedule(m, k)
        BY <1>1 DEF scheduleQueueRecovery
    <2>2. serving' \subseteq Mains
        BY <1>1 DEF scheduleQueueRecovery, TakeOver
    <2> QED BY <1>1, <2>1, <2>2, ScheduleType, LoopType DEF scheduleQueueRecovery, TypeOK
<1>2. CASE stopQueueRecovery(m)
    <2>1. serving' \subseteq Mains
        BY <1>2 DEF stopQueueRecovery, StepDown, TypeOK
    <2>2. Off \in LoopStates
        BY DEF Off, LoopStates
    <2>3. loop' \in [Mains -> [Loops -> LoopStates]]
        BY <1>2, <2>2, LoopStatesNow DEF stopQueueRecovery
    <2> QED BY <1>2, <2>1, <2>3, FaultType, LoopType DEF stopQueueRecovery, TypeOK
<1>3. ASSUME NEW k \in Loops, getInProgressExecutionIds(m, k) \/ findJobsByStatus(m, k)
      PROVE  TypeOK'
    <2>1. CASE schedule(m, k)
        BY <1>3, <2>1, ScheduleType, LoopType
           DEF getInProgressExecutionIds, findJobsByStatus, TypeOK
    <2>2. CASE ~schedule(m, k)
        <3>1. PICK at \in {"ids", "dangling"}, ids \in SUBSET Executions :
                loop' = [loop EXCEPT ![m][k] = [at |-> at, ids |-> ids]]
            <4>1. loop[m][k].ids \ Queued \in SUBSET Executions
                BY DEF TypeOK
            <4> QED BY <1>3, <2>2, <4>1 DEF getInProgressExecutionIds, findJobsByStatus
        <3>2. [at |-> at, ids |-> ids] \in LoopStates
            BY DEF LoopStates
        <3>3. loop' \in [Mains -> [Loops -> LoopStates]]
            BY <3>1, <3>2, LoopStatesNow
        <3> QED BY <1>3, <2>2, <3>3, LoopType
                DEF getInProgressExecutionIds, findJobsByStatus, TypeOK
    <2> QED BY <2>1, <2>2
<1>4. ASSUME NEW k \in Loops, markAsCrashed(m, k) PROVE TypeOK'
    <2>1. row' \in [Executions -> {"none"} \cup InProgress \cup Ended]
        BY <1>4, StatusType DEF markAsCrashed, Ended
    <2>2. /\ loop' \in [Mains -> [Loops -> LoopStates]]
          /\ timeout' \in [Mains -> Loops \cup {None}]
        BY <1>4, ScheduleType DEF markAsCrashed
    <2> QED BY <1>4, <2>1, <2>2 DEF markAsCrashed, TypeOK, LoopStates, queue, cancelling
<1>5. ASSUME NEW k \in Loops, recoveryFails(m, k) PROVE TypeOK'
    BY <1>5, ScheduleType, FaultType, LoopType DEF recoveryFails, Retried, TypeOK
<1> QED BY <1>1, <1>2, <1>3, <1>4, <1>5 DEF OfLoop

LEMMA CrashType ==
    ASSUME TypeOK, NEW m \in Mains, CrashMain(m)
    PROVE  TypeOK'
<1>1. serving' \subseteq Mains
    BY DEF CrashMain, StepDown, TypeOK
<1>2. run' \in [Executions -> Runs]
    BY Constants DEF CrashMain, TypeOK
<1>3. /\ stopJob' \in [Executions -> {"none", "asked", "inactive", "active", "aborted"}]
      /\ stopping' \in [Executions -> Mains \cup {None}]
    BY DEF CrashMain, TypeOK
<1>4. loop' \in [Mains -> [Loops -> LoopStates]]
    BY LoopStatesNow DEF CrashMain, Off, LoopStates
<1>5. timeout' \in [Mains -> Loops \cup {None}]
    BY DEF CrashMain, TypeOK
<1> QED BY <1>1, <1>2, <1>3, <1>4, <1>5, FaultType
        DEF CrashMain, TypeOK, LoopStates, queue

LEMMA TypeStep == TypeOK /\ [Next]_vars => TypeOK'
<1> SUFFICES ASSUME TypeOK, [Next]_vars PROVE TypeOK'
    OBVIOUS
<1>1. CASE UNCHANGED vars
    BY <1>1 DEF vars, queue, cancelling, recovery, TypeOK
<1>2. CASE Next
    BY <1>2, MainType, StopType, WorkerType, RecoveryType, CrashType DEF Next
<1> QED BY <1>1, <1>2

\* Every variable keeps its type, and a loop that waits holds no IDs.
THEOREM QueueTypeHolds == Spec => []TypeOK
<1> QED BY InitType, TypeStep, PTL DEF Spec

-----------------------------------------------------------------------------
(* No execution is run twice *)

\* Who is about to start an engine for an execution: a main before it has
\* decided, a job that waits, a worker before the engine.
BeforeEngine == {"picked", "read", "set"}

MainFirst(e) ==
    /\ run[e].at = "adding" => job[e] = "none" /\ starts[e] = 0
    /\ row[e] = "none" => run[e].at = "none" /\ job[e] = "none" /\ starts[e] = 0

JobFirst(e) ==
    /\ job[e] = "waiting" => starts[e] = 0
    /\ \A w \in Workers : worker[w].exec = e => job[e] \notin {"none", "waiting"}

WorkerFirst(e) ==
    /\ \A w \in Workers : worker[w].exec = e /\ worker[w].at \in BeforeEngine => starts[e] = 0
    /\ \A v, w \in Workers : worker[v].exec = e /\ worker[w].exec = e => v = w

Once(e) == MainFirst(e) /\ JobFirst(e) /\ WorkerFirst(e) /\ starts[e] <= 1

\* A worker has a job only while it works.
Working == \A w \in Workers : worker[w].at # "idle" => worker[w].exec \in Executions

IInv == TypeOK /\ Working /\ \A e \in Executions : Once(e)

LEMMA InvInit == Init => IInv
BY InitType, QueueAssumption
   DEF Init, IInv, Working, Once, MainFirst, JobFirst, WorkerFirst, NoRun, Idle

\* What most steps leave as it is.
LEMMA Untouched ==
    ASSUME IInv, TypeOK', NEW e \in Executions,
           starts' = starts, worker' = worker,
           job'[e] = job[e] \/ (job'[e] \notin {"none", "waiting"} /\ job[e] # "none"),
           run'[e].at = run[e].at \/ (run'[e].at # "adding" /\ row[e] # "none"),
           row'[e] = "none" => row[e] = "none"
    PROVE  Once(e)'
BY DEF IInv, Once, MainFirst, JobFirst, WorkerFirst

LEMMA RowStays ==
    ASSUME TypeOK, NEW es, NEW status \in InProgress \cup Ended, SetStatus(es, status),
           NEW e \in Executions, row'[e] = "none"
    PROVE  row[e] = "none"
BY DEF TypeOK, SetStatus, InProgress, Ended

LEMMA MainOnce ==
    ASSUME IInv, TypeOK', NEW e \in Executions,
           \/ \E m \in Mains : add(m, e) \/ stop(m, e)
           \/ OfMain(e) \/ enqueueFails(e)
    PROVE  IInv'
<1>0. TypeOK /\ Working /\ (\A f \in Executions : Once(f))
    BY DEF IInv
<1>1. Working' /\ worker' = worker
    BY <1>0 DEF add, stop, OfMain, enqueueFails, addJob, attachWorkflowExecution, jobFinished,
                processError, saveError, runMainProcess, endsOnMain, Working, cancelling, recovery
<1>2. ASSUME NEW f \in Executions PROVE Once(f)'
    <2>1. CASE f # e
        <3>1. job'[f] = job[f] /\ starts'[f] = starts[f] /\ run'[f] = run[f] /\ row'[f] = row[f]
            BY <1>0, <2>1
               DEF add, stop, OfMain, enqueueFails, addJob, attachWorkflowExecution, jobFinished,
                   processError, saveError, runMainProcess, endsOnMain, SetStatus, TypeOK, queue
        <3> QED BY <1>0, <1>1, <3>1 DEF Once, MainFirst, JobFirst, WorkerFirst
    <2>2. ASSUME f = e, NEW m \in Mains, add(m, e) PROVE Once(f)'
        <3>1. /\ row'[e] = "new" /\ run'[e].at = "adding" /\ job' = job /\ starts' = starts
              /\ row[e] = "none"
            BY <1>0, <2>2 DEF add, SetStatus, TypeOK, queue
        <3> QED BY <1>0, <1>1, <2>2, <3>1 DEF Once, MainFirst, JobFirst, WorkerFirst
    <2>3. CASE f = e /\ addJob(e)
        <3>1. /\ run[e].at = "adding" /\ run'[e].at = "added" /\ job'[e] = "waiting"
              /\ row' = row /\ starts' = starts
            BY <1>0, <2>3 DEF addJob, TypeOK, Runs
        <3> QED BY <1>0, <1>1, <2>3, <3>1 DEF Once, MainFirst, JobFirst, WorkerFirst
    <2>4. CASE f = e /\ runMainProcess(e)
        <3>1. /\ run[e].at = "adding" /\ run'[e].at = "local" /\ job' = job
              /\ row'[e] = "running" /\ starts'[e] = starts[e] + 1
            BY <1>0, <2>4 DEF runMainProcess, SetStatus, TypeOK, Runs, queue
        <3> QED BY <1>0, <1>1, <2>4, <3>1 DEF Once, MainFirst, JobFirst, WorkerFirst
    <2>5. CASE f = e /\ (\/ attachWorkflowExecution(e) \/ jobFinished(e) \/ processError(e)
                         \/ saveError(e) \/ endsOnMain(e) \/ enqueueFails(e))
        <3>1. starts' = starts /\ job' = job
            BY <2>5 DEF attachWorkflowExecution, jobFinished, processError, saveError,
                        endsOnMain, enqueueFails, queue
        <3>2. run[e] \in Runs /\ run[e].at # "none"
            BY <1>0, <2>5 DEF TypeOK, attachWorkflowExecution, jobFinished, processError,
                              saveError, endsOnMain, enqueueFails
        <3>3. row[e] # "none"
            BY <1>0, <3>2 DEF Once, MainFirst
        <3>4. run'[e].at # "adding"
            BY <1>0, <2>5, <3>2 DEF TypeOK, Runs, NoRun, attachWorkflowExecution, jobFinished,
                                    processError, saveError, endsOnMain, enqueueFails
        <3>5. row'[e] = "none" => row[e] = "none"
            BY <3>3, <1>0, <2>5 DEF attachWorkflowExecution, jobFinished, processError, saveError,
                                    endsOnMain, enqueueFails, SetStatus, TypeOK
        <3>6. job'[f] = job[f] /\ row'[f] = "none" => row[f] = "none"
            BY <2>5, <3>1, <3>5
        <3> QED BY <1>1, <2>5, <3>1, <3>3, <3>4, <3>5, <3>6, Untouched
    <2>6. ASSUME f = e, NEW m \in Mains, stop(m, e) PROVE Once(f)'
        <3>1. starts' = starts /\ job' = job /\ row' = row
            BY <2>6 DEF stop, queue
        <3>2. run'[e].at = run[e].at \/ (run[e].at = "local" /\ run'[e].at = "cancelled")
            BY <1>0, <2>6 DEF stop, TypeOK, Runs
        <3>3. row[e] # "none"
            BY <2>6 DEF stop, InProgress
        <3> QED BY <1>1, <2>6, <3>1, <3>2, <3>3, Untouched
    <2> QED BY <2>1, <2>2, <2>3, <2>4, <2>5, <2>6 DEF OfMain
<1> QED BY <1>1, <1>2 DEF IInv

LEMMA StopOnce ==
    ASSUME IInv, TypeOK', NEW e \in Executions, OfStop(e) \/ stalled(e)
    PROVE  IInv'
<1>0. TypeOK /\ Working /\ (\A f \in Executions : Once(f))
    BY DEF IInv
<1>1. starts' = starts /\ run' = run
    BY DEF OfStop, stopDuringRun, isActive, remove, sendAbort, moveToFailed, abortArrives, stalled
<1>2. CASE abortArrives(e)
    <2>1. row' = row /\ job' = job
        BY <1>2 DEF abortArrives
    <2>2. ASSUME NEW w \in Workers
          PROVE  /\ worker'[w].exec = worker[w].exec
                 /\ worker'[w].at = worker[w].at \/
                    (worker'[w].at = "cancelled" /\ worker[w].at = "running")
        <3>1. worker'[w] = IF worker[w] = [exec |-> e, at |-> "running"]
                           THEN [exec |-> e, at |-> "cancelled"] ELSE worker[w]
            BY <1>2 DEF abortArrives
        <3>2. CASE worker[w] = [exec |-> e, at |-> "running"]
            BY <3>1, <3>2
        <3>3. CASE worker[w] # [exec |-> e, at |-> "running"]
            BY <3>1, <3>3
        <3> QED BY <3>2, <3>3
    <2>3. ASSUME NEW f \in Executions PROVE Once(f)'
        BY <1>0, <1>1, <2>1, <2>2
           DEF Once, MainFirst, JobFirst, WorkerFirst, BeforeEngine
    <2>4. Working'
        BY <1>0, <2>2 DEF Working
    <2> QED BY <2>3, <2>4 DEF IInv
<1>3. CASE ~abortArrives(e)
    <2>1. worker' = worker
        BY <1>3 DEF OfStop, stopDuringRun, isActive, remove, sendAbort, moveToFailed, stalled
    <2>2. ASSUME NEW f \in Executions
          PROVE  job'[f] = job[f] \/ (job'[f] \notin {"none", "waiting"} /\ job[f] # "none")
        BY <1>0, <1>3 DEF OfStop, stopDuringRun, isActive, remove, sendAbort, moveToFailed,
                          stalled, StalledBecomes, TypeOK, queue
    <2>3. ASSUME NEW f \in Executions PROVE row'[f] = "none" => row[f] = "none"
        <3>1. CASE stopDuringRun(e)
            BY <1>0, <3>1, RowStays DEF stopDuringRun, Ended
        <3>2. CASE ~stopDuringRun(e)
            BY <1>3, <3>2 DEF OfStop, isActive, remove, sendAbort, moveToFailed, stalled
        <3> QED BY <3>1, <3>2
    <2>4. ASSUME NEW f \in Executions PROVE Once(f)'
        <3>1. run'[f].at = run[f].at
            BY <1>1
        <3> QED BY <1>1, <2>1, <2>2, <2>3, <3>1, Untouched
    <2> QED BY <1>0, <2>1, <2>4 DEF IInv, Working
<1> QED BY <1>2, <1>3

LEMMA OthersOnce ==
    ASSUME IInv, TypeOK', NEW m \in Mains,
           \/ scheduleQueueRecovery(m) \/ stopQueueRecovery(m) \/ CrashMain(m)
           \/ \E k \in Loops : OfLoop(m, k) \/ recoveryFails(m, k)
    PROVE  IInv'
<1>0. TypeOK /\ Working /\ (\A f \in Executions : Once(f))
    BY DEF IInv
<1>1. UNCHANGED <<starts, worker, job>>
    BY DEF scheduleQueueRecovery, stopQueueRecovery, CrashMain, OfLoop, recoveryFails,
           getInProgressExecutionIds, findJobsByStatus, markAsCrashed, queue
<1>2. ASSUME NEW f \in Executions
      PROVE  run'[f].at = run[f].at \/ (run'[f].at # "adding" /\ row[f] # "none")
    <2>1. CASE CrashMain(m)
        <3>1. run'[f] = run[f] \/ run'[f] = NoRun
            BY <2>1 DEF CrashMain
        <3>2. row[f] = "none" => run[f].at = "none"
            BY <1>0 DEF Once, MainFirst
        <3> QED BY <3>1, <3>2 DEF NoRun
    <2>2. CASE ~CrashMain(m)
        BY <2>2 DEF scheduleQueueRecovery, stopQueueRecovery, OfLoop, recoveryFails,
                    getInProgressExecutionIds, findJobsByStatus, markAsCrashed
    <2> QED BY <2>1, <2>2
<1>3. ASSUME NEW f \in Executions PROVE row'[f] = "none" => row[f] = "none"
    <2>1. ASSUME NEW k \in Loops, markAsCrashed(m, k) PROVE row'[f] = "none" => row[f] = "none"
        BY <1>0, <2>1, RowStays DEF markAsCrashed, Ended
    <2>2. CASE row' = row
        BY <2>2
    <2> QED BY <2>1, <2>2
            DEF scheduleQueueRecovery, stopQueueRecovery, CrashMain, OfLoop, recoveryFails,
                getInProgressExecutionIds, findJobsByStatus
<1>4. ASSUME NEW f \in Executions PROVE Once(f)'
    <2>1. job'[f] = job[f] /\ starts' = starts /\ worker' = worker
        BY <1>1
    <2> QED BY <1>2, <1>3, <2>1, Untouched
<1> QED BY <1>0, <1>1, <1>4 DEF IInv, Working

LEMMA WorkerOnce ==
    ASSUME IInv, TypeOK', NEW w \in Workers,
           OfWorker(w) \/ reportJobProcessingError(w) \/ CrashWorker(w)
    PROVE  IInv'
<1>0. TypeOK /\ Working /\ (\A f \in Executions : Once(f))
    BY DEF IInv
<1>1. ASSUME NEW e \in Executions, take(w, e) PROVE IInv'
    <2>1. /\ worker[w] = Idle /\ job[e] = "waiting"
          /\ worker' = [worker EXCEPT ![w] = [exec |-> e, at |-> "picked"]]
          /\ job' = [job EXCEPT ![e] = "active"]
          /\ row' = row /\ run' = run /\ starts' = starts
        BY <1>1 DEF take
    <2>2. /\ worker'[w].exec = e /\ worker'[w].at = "picked" /\ job'[e] = "active"
          /\ \A v \in Workers : v # w => worker'[v] = worker[v]
          /\ \A f \in Executions : f # e => job'[f] = job[f]
        BY <1>0, <2>1 DEF TypeOK
    <2>3. Once(e)'
        BY <1>0, <2>1, <2>2 DEF Once, MainFirst, JobFirst, WorkerFirst
    <2>4. ASSUME NEW f \in Executions, f # e PROVE Once(f)'
        BY <1>0, <2>1, <2>2, <2>4 DEF Once, MainFirst, JobFirst, WorkerFirst
    <2>5. Working'
        BY <1>0, <2>2 DEF Working
    <2> QED BY <2>3, <2>4, <2>5 DEF IInv
<1>2. CASE findExecution(w) \/ setRunning(w) \/ workflowExecuteAfter(w)
    <2>1. run' = run /\ job' = job /\ starts' = starts
        BY <1>2 DEF findExecution, setRunning, workflowExecuteAfter, queue
    <2>2. PICK at \in {"saved", "read", "set"} : worker' = [worker EXCEPT ![w].at = at]
        <3>1. CASE findExecution(w)
            <4>1. CASE Refuses(w)
                BY <3>1, <4>1 DEF findExecution
            <4>2. CASE ~Refuses(w)
                BY <3>1, <4>2 DEF findExecution
            <4> QED BY <4>1, <4>2
        <3>2. CASE setRunning(w) \/ workflowExecuteAfter(w)
            BY <3>2 DEF setRunning, workflowExecuteAfter
        <3> QED BY <1>2, <3>1, <3>2
    <2>3. \A v \in Workers : worker'[v].exec = worker[v].exec /\ (v # w => worker'[v] = worker[v])
        BY <1>0, <2>2 DEF TypeOK
    <2>4. worker'[w].at \in BeforeEngine => worker[w].at \in BeforeEngine
        <3>1. worker'[w].at = at
            BY <1>0, <2>2 DEF TypeOK
        <3>2. CASE workflowExecuteAfter(w)
            BY <1>0, <3>2 DEF workflowExecuteAfter, TypeOK, BeforeEngine
        <3>3. CASE findExecution(w) \/ setRunning(w)
            BY <3>3 DEF findExecution, setRunning, BeforeEngine
        <3> QED BY <1>2, <3>2, <3>3
    <2>5. worker[w].at # "idle"
        BY <1>2 DEF findExecution, setRunning, workflowExecuteAfter
    <2>6. ASSUME NEW f \in Executions PROVE row'[f] = "none" => row[f] = "none"
        <3>1. CASE findExecution(w)
            BY <3>1 DEF findExecution
        <3>2. CASE setRunning(w)
            BY <1>0, <3>2, RowStays DEF setRunning, InProgress
        <3>3. CASE workflowExecuteAfter(w)
            <4>1. PICK status \in Ended : SetStatus({worker[w].exec}, status)
                BY <3>3 DEF workflowExecuteAfter, Ended
            <4> QED BY <1>0, <4>1, RowStays
        <3> QED BY <1>2, <3>1, <3>2, <3>3
    <2>7. ASSUME NEW f \in Executions PROVE Once(f)'
        <3>1. MainFirst(f)' /\ JobFirst(f)' /\ starts'[f] <= 1
            BY <1>0, <2>1, <2>3, <2>6 DEF Once, MainFirst, JobFirst
        <3>2. WorkerFirst(f)'
            BY <1>0, <2>1, <2>3, <2>4 DEF Once, WorkerFirst
        <3> QED BY <3>1, <3>2 DEF Once
    <2>8. Working'
        BY <1>0, <2>3, <2>5 DEF Working
    <2> QED BY <2>7, <2>8 DEF IInv
<1>3. CASE startEngine(w)
    <2>1. /\ worker[w].at = "set" /\ worker' = [worker EXCEPT ![w].at = "running"]
          /\ starts' = [starts EXCEPT ![worker[w].exec] = @ + 1]
          /\ run' = run /\ job' = job /\ row' = row
        BY <1>3 DEF startEngine, queue
    <2>2. worker[w].exec \in Executions
        BY <1>0, <2>1 DEF Working
    <2>3. /\ \A v \in Workers : worker'[v].exec = worker[v].exec
          /\ \A v \in Workers : v # w => worker'[v] = worker[v]
          /\ worker'[w].at = "running"
        BY <1>0, <2>1 DEF TypeOK
    <2>4. starts[worker[w].exec] = 0
        BY <1>0, <2>1, <2>2 DEF Once, WorkerFirst, BeforeEngine
    <2>5. /\ starts'[worker[w].exec] = 1
          /\ \A f \in Executions : f # worker[w].exec => starts'[f] = starts[f]
        BY <1>0, <2>1, <2>2, <2>4 DEF TypeOK
    <2>6. job[worker[w].exec] \notin {"none", "waiting"}
        BY <1>0, <2>2 DEF Once, JobFirst
    <2>7. ASSUME NEW f \in Executions PROVE Once(f)'
        <3>1. CASE f = worker[w].exec
            <4>1. MainFirst(f)'
                BY <1>0, <2>1, <2>6, <3>1 DEF Once, MainFirst
            <4>2. JobFirst(f)' /\ starts'[f] <= 1
                BY <1>0, <2>1, <2>3, <2>5, <2>6, <3>1 DEF Once, JobFirst
            <4>3. WorkerFirst(f)'
                BY <1>0, <2>1, <2>3, <3>1 DEF Once, WorkerFirst, BeforeEngine
            <4> QED BY <4>1, <4>2, <4>3 DEF Once
        <3>2. CASE f # worker[w].exec
            BY <1>0, <2>1, <2>3, <2>5, <3>2 DEF Once, MainFirst, JobFirst, WorkerFirst
        <3> QED BY <3>1, <3>2
    <2>8. Working'
        BY <1>0, <2>2, <2>3 DEF Working
    <2> QED BY <2>7, <2>8 DEF IInv
<1>4. CASE jobReturns(w) \/ reportJobProcessingError(w) \/ CrashWorker(w)
    <2>1. run' = run /\ row' = row /\ starts' = starts /\ worker' = [worker EXCEPT ![w] = Idle]
        BY <1>4 DEF jobReturns, reportJobProcessingError, CrashWorker, Ends
    <2>2. ASSUME NEW f \in Executions
          PROVE  job'[f] = job[f] \/ (job'[f] \notin {"none", "waiting"} /\ job[f] = "active")
        BY <1>0, <1>4 DEF jobReturns, reportJobProcessingError, CrashWorker, Ends, TypeOK, queue
    <2>3. /\ worker'[w].exec = None /\ worker'[w].at = "idle"
          /\ \A v \in Workers : v # w => worker'[v] = worker[v]
        BY <1>0, <2>1 DEF TypeOK, Idle
    <2>4. ASSUME NEW f \in Executions PROVE Once(f)'
        <3>1. worker'[w].exec # f
            BY <2>3, QueueAssumption
        <3> QED BY <1>0, <2>1, <2>2, <2>3, <3>1 DEF Once, MainFirst, JobFirst, WorkerFirst
    <2>5. Working'
        BY <1>0, <2>3 DEF Working
    <2> QED BY <2>4, <2>5 DEF IInv
<1> QED BY <1>1, <1>2, <1>3, <1>4 DEF OfWorker

LEMMA InvStep == IInv /\ [Next]_vars => IInv'
<1> SUFFICES ASSUME IInv, [Next]_vars PROVE IInv'
    OBVIOUS
<1>0. TypeOK'
    BY TypeStep DEF IInv
<1>1. CASE UNCHANGED vars
    BY <1>0, <1>1 DEF vars, queue, IInv, Working, Once, MainFirst, JobFirst, WorkerFirst
<1>2. CASE Next
    BY <1>0, <1>2, MainOnce, StopOnce, OthersOnce, WorkerOnce DEF Next
<1> QED BY <1>1, <1>2

\* No execution is run twice, with any number of mains, workers, recovery loops
\* and faults: a job that stalls is failed, and each execution gets one job.
THEOREM RunsOnceHolds == Spec => []RunsOnce
<1>1. IInv => RunsOnce
    BY DEF IInv, Once, RunsOnce
<1> QED BY InvInit, InvStep, <1>1, PTL DEF Spec

-----------------------------------------------------------------------------
(* What has ended stays, but for those who had it in hand *)

\* Only the main has to do with e, and e did not succeed.
OnMain == {"adding", "local", "cancelled"}
MainAlone(e) == run[e].at \in OnMain => job[e] = "none" /\ row[e] # "success"

\* Whoever has e in hand after its end had so when it ended; a worker may have
\* taken a job that waited then, but gives back what crashed.
InHandBefore(e) ==
    /\ stopping[e] # None => late[e].stop
    /\ \A m \in Mains, k \in Loops : e \in loop[m][k].ids => <<m, k>> \in late[e].loops
    /\ job[e] = "waiting" \/ run[e].at = "adding" => late[e].queued
    /\ \A w \in Workers : worker[w].exec = e =>
         \/ w \in late[e].workers
         \/ late[e].queued /\ (row[e] = "crashed" => worker[w].at \in {"picked", "saved"})
    /\ row[e] = "success" /\ run[e].at = "checked" => late[e].checked

EndInv ==
    /\ IInv
    /\ \A e \in Executions : MainAlone(e)
    /\ \A e \in Executions : row[e] \in Ended => InHandBefore(e)

-----------------------------------------------------------------------------
(* Steps and the hands *)

\* Nobody gets e in hand.
NoNewHand(e) ==
    /\ stopping'[e] # None => stopping[e] # None
    /\ \A m \in Mains, k \in Loops : e \in loop'[m][k].ids => e \in loop[m][k].ids
    /\ job'[e] = "waiting" \/ run'[e].at = "adding" => job[e] = "waiting" \/ run[e].at = "adding"
    /\ \A w \in Workers : worker'[w].exec = e => worker[w].exec = e
    /\ run'[e].at = "checked" => run[e].at = "checked"

\* A worker that may only give e back goes no further.
GivesBack(e) ==
    row[e] = "crashed" =>
        \A w \in Workers : worker'[w].exec = e /\ worker[w].at \in {"picked", "saved"}
                             => worker'[w].at \in {"picked", "saved"}

RowKept(e) == row'[e] = row[e] /\ late'[e] = late[e]

Hands(e) == row[e] \in Ended => InHandBefore(e)

\* The status of e stays, and nobody gets e in hand.
LEMMA HandsStay ==
    ASSUME NEW e \in Executions, Hands(e), RowKept(e), NoNewHand(e), GivesBack(e)
    PROVE  Hands(e)'
BY DEF Hands, InHandBefore, RowKept, NoNewHand, GivesBack

\* A write of the statuses of some executions: late is who has them in hand.
LEMMA HandsWritten ==
    ASSUME NEW e \in Executions, Hands(e), NEW es, NEW status, SetStatus(es, status),
           NoNewHand(e), GivesBack(e)
    PROVE  Hands(e)'
<1>1. CASE e \notin es \/ row[e] = status
    <2>1. RowKept(e)
        BY <1>1 DEF SetStatus, RowKept
    <2> QED BY <2>1, HandsStay
<1>2. CASE e \in es /\ row[e] # status /\ status \in Ended
    <2>1. late'[e] = InHand(e)
        BY <1>2 DEF SetStatus
    <2>2. /\ late'[e].workers = {w \in Workers : worker[w].exec = e}
          /\ late'[e].loops = {l \in Mains \X Loops : e \in loop[l[1]][l[2]].ids}
          /\ late'[e].stop = (stopping[e] # None)
          /\ late'[e].checked = (run[e].at = "checked")
          /\ late'[e].queued = (job[e] = "waiting" \/ run[e].at = "adding")
        BY <2>1 DEF InHand
    <2>3. \A m \in Mains, k \in Loops : e \in loop'[m][k].ids => <<m, k>> \in late'[e].loops
        BY <2>2 DEF NoNewHand
    <2> QED BY <2>2, <2>3 DEF Hands, InHandBefore, NoNewHand
<1>3. CASE e \in es /\ row[e] # status /\ status \notin Ended
    BY <1>3 DEF SetStatus, Hands
<1> QED BY <1>1, <1>2, <1>3

\* What the main is at stays harmless.
LEMMA AloneStays ==
    ASSUME NEW e \in Executions, MainAlone(e),
           run'[e].at \in OnMain => /\ run[e].at \in OnMain
                                    /\ job'[e] = job[e]
                                    /\ row'[e] # "success" \/ row'[e] = row[e]
    PROVE  MainAlone(e)'
BY DEF MainAlone

LEMMA EndInit == Init => EndInv
BY InvInit, QueueAssumption
   DEF Init, EndInv, MainAlone, Ended, OnMain, NoRun

\* The step's own invariant, for the execution it is about and for the others.
EndOf(e) == MainAlone(e) /\ Hands(e)

LEMMA EndOfs == EndInv <=> IInv /\ \A e \in Executions : EndOf(e)
BY DEF EndInv, EndOf, Hands

LEMMA OthersUntouched ==
    ASSUME NEW f \in Executions, EndOf(f), RowKept(f),
           run'[f] = run[f], job'[f] = job[f], stopping'[f] = stopping[f],
           UNCHANGED <<worker, loop>>
    PROVE  EndOf(f)'
<1>1. NoNewHand(f) /\ GivesBack(f)
    BY DEF NoNewHand, GivesBack
<1>2. Hands(f)'
    BY <1>1, HandsStay DEF EndOf
<1>3. MainAlone(f)'
    BY DEF EndOf, MainAlone, RowKept
<1> QED BY <1>2, <1>3 DEF EndOf

LEMMA MainEnd ==
    ASSUME EndInv, IInv', NEW e \in Executions,
           \/ \E m \in Mains : add(m, e) \/ stop(m, e)
           \/ OfMain(e) \/ enqueueFails(e)
    PROVE  EndInv'
<1>0. /\ TypeOK /\ \A f \in Executions : Once(f) /\ EndOf(f)
      /\ run[e] \in Runs
    BY EndOfs DEF EndInv, IInv, TypeOK
<1>1. UNCHANGED <<worker, loop>>
    BY DEF add, stop, OfMain, enqueueFails, addJob, attachWorkflowExecution, jobFinished,
           processError, saveError, runMainProcess, endsOnMain, cancelling, recovery
<1>2. ASSUME NEW f \in Executions, f # e PROVE EndOf(f)'
    <2>1. /\ RowKept(f) /\ run'[f] = run[f] /\ job'[f] = job[f]
          /\ stopping'[f] = stopping[f]
        BY <1>0, <1>2
           DEF add, stop, OfMain, enqueueFails, addJob, attachWorkflowExecution, jobFinished,
               processError, saveError, runMainProcess, endsOnMain, SetStatus, TypeOK, queue,
               cancelling, RowKept
    <2> QED BY <1>0, <1>1, <2>1, OthersUntouched
<1>3. GivesBack(e)
    BY <1>1 DEF GivesBack
<1>4. ASSUME NEW m \in Mains, add(m, e) PROVE EndOf(e)'
    <2>1. row'[e] = "new" /\ job'[e] = job[e] /\ row[e] = "none"
        BY <1>0, <1>4 DEF add, SetStatus, TypeOK, queue
    <2>2. job[e] = "none"
        BY <1>0, <2>1 DEF Once, MainFirst
    <2> QED BY <2>1, <2>2 DEF EndOf, MainAlone, Hands, Ended
<1>5. ASSUME NEW m \in Mains, stop(m, e) PROVE EndOf(e)'
    <2>1. row' = row /\ job' = job /\ row[e] \in InProgress
        BY <1>5 DEF stop, queue
    <2>2. run'[e].at = run[e].at \/ (run[e].at = "local" /\ run'[e].at = "cancelled")
        BY <1>0, <1>5 DEF stop, TypeOK, Runs
    <2>3. MainAlone(e)'
        BY <1>0, <2>1, <2>2, AloneStays DEF EndOf, OnMain
    <2> QED BY <2>1, <2>3 DEF EndOf, Hands, Ended, InProgress
<1>6. ASSUME addJob(e) PROVE EndOf(e)'
    <2>1. /\ run[e].at = "adding" /\ run'[e].at = "added"
          /\ UNCHANGED <<row, late, stopping>>
        BY <1>0, <1>6 DEF addJob, TypeOK, Runs, cancelling
    <2>2. NoNewHand(e) /\ RowKept(e)
        BY <1>1, <2>1 DEF NoNewHand, RowKept
    <2> QED BY <1>0, <1>3, <2>1, <2>2, HandsStay DEF EndOf, MainAlone, OnMain
<1>7. ASSUME attachWorkflowExecution(e) \/ jobFinished(e) \/ enqueueFails(e) PROVE EndOf(e)'
    <2>1. /\ run'[e].at \in {"none", "waiting", "failed", "refused"}
          /\ UNCHANGED <<row, late, stopping, job>>
        BY <1>0, <1>7 DEF attachWorkflowExecution, jobFinished, enqueueFails, TypeOK, Runs,
                          NoRun, cancelling, queue
    <2>2. NoNewHand(e) /\ RowKept(e)
        BY <1>1, <2>1 DEF NoNewHand, RowKept
    <2> QED BY <1>0, <1>3, <2>1, <2>2, HandsStay DEF EndOf, MainAlone, OnMain
<1>8. ASSUME processError(e) PROVE EndOf(e)'
    <2>1. /\ run'[e].at = "none" \/ (run'[e].at = "checked" /\ row[e] # "success")
          /\ UNCHANGED <<row, late, stopping, job>>
        BY <1>0, <1>8 DEF processError, SanityRun, TypeOK, Runs, NoRun, cancelling, queue
    <2> QED BY <1>0, <1>1, <2>1 DEF EndOf, MainAlone, OnMain, Hands, InHandBefore
<1>9. ASSUME saveError(e) \/ endsOnMain(e) PROVE EndOf(e)'
    <2>1. /\ \E status \in Ended : SetStatus({e}, status)
          /\ run'[e].at = "none" /\ UNCHANGED <<stopping, job>>
        BY <1>0, <1>9 DEF saveError, endsOnMain, Ended, TypeOK, NoRun, cancelling, queue
    <2>2. NoNewHand(e)
        BY <1>1, <2>1 DEF NoNewHand
    <2> QED BY <1>0, <1>3, <2>1, <2>2, HandsWritten DEF EndOf, MainAlone, OnMain
<1>10. ASSUME runMainProcess(e) PROVE EndOf(e)'
    <2>1. /\ run[e].at = "adding" /\ run'[e].at = "local" /\ job' = job
          /\ row'[e] = "running"
        BY <1>0, <1>10 DEF runMainProcess, SetStatus, TypeOK, Runs, queue
    <2> QED BY <1>0, <2>1 DEF EndOf, MainAlone, OnMain, Hands, Ended
<1>11. EndOf(e)'
    BY <1>4, <1>5, <1>6, <1>7, <1>8, <1>9, <1>10 DEF OfMain
<1> QED BY <1>2, <1>11 DEF EndInv, EndOf, Hands

LEMMA StopEnd ==
    ASSUME EndInv, IInv', NEW e \in Executions, OfStop(e) \/ stalled(e)
    PROVE  EndInv'
<1>0. TypeOK /\ \A f \in Executions : Once(f) /\ EndOf(f)
    BY EndOfs DEF EndInv, IInv
<1>1. UNCHANGED <<run, loop>>
    BY DEF OfStop, stopDuringRun, isActive, remove, sendAbort, moveToFailed, abortArrives,
           stalled, recovery
<1>2. ASSUME NEW f \in Executions PROVE EndOf(f)'
    <2>1. job'[f] = job[f] \/ (job[f] # "none" /\ job'[f] # "waiting")
        BY <1>0 DEF OfStop, stopDuringRun, isActive, remove, sendAbort, moveToFailed,
                    abortArrives, stalled, StalledBecomes, TypeOK, queue
    <2>2. stopping'[f] # None => stopping[f] # None
        BY <1>0 DEF OfStop, stopDuringRun, isActive, remove, sendAbort, moveToFailed,
                    abortArrives, stalled, TypeOK, cancelling
    <2>3. \A w \in Workers : worker'[w].exec = worker[w].exec
        BY <1>0 DEF OfStop, stopDuringRun, isActive, remove, sendAbort, moveToFailed,
                    abortArrives, stalled, TypeOK
    <2>4. \A w \in Workers : worker[w].at # "running" => worker'[w].at = worker[w].at
        BY <1>0 DEF OfStop, stopDuringRun, isActive, remove, sendAbort, moveToFailed,
                    abortArrives, stalled, TypeOK
    <2>5. NoNewHand(f) /\ GivesBack(f)
        BY <1>1, <2>1, <2>2, <2>3, <2>4 DEF NoNewHand, GivesBack
    <2>6. CASE stopDuringRun(e)
        <3>1. SetStatus({e}, "canceled") /\ job' = job
            BY <2>6 DEF stopDuringRun, queue
        <3>2. row'[f] = "canceled" \/ row'[f] = row[f]
            BY <3>1 DEF SetStatus
        <3>3. MainAlone(f)'
            BY <1>0, <1>1, <3>1, <3>2, AloneStays DEF EndOf
        <3> QED BY <1>0, <2>5, <3>1, <3>3, HandsWritten DEF EndOf
    <2>7. CASE ~stopDuringRun(e)
        <3>1. RowKept(f)
            BY <2>7 DEF RowKept, OfStop, isActive, remove, sendAbort, moveToFailed,
                        abortArrives, stalled
        <3>2. MainAlone(f)'
            BY <1>0, <1>1, <2>1, <3>1 DEF EndOf, MainAlone, RowKept
        <3> QED BY <1>0, <2>5, <3>1, <3>2, HandsStay DEF EndOf
    <2> QED BY <2>6, <2>7
<1> QED BY <1>2 DEF EndInv, EndOf, Hands

LEMMA WorkerEnd ==
    ASSUME EndInv, IInv', NEW w \in Workers,
           OfWorker(w) \/ reportJobProcessingError(w) \/ CrashWorker(w)
    PROVE  EndInv'
<1>0. /\ TypeOK /\ Working /\ \A f \in Executions : Once(f) /\ EndOf(f)
    BY EndOfs DEF EndInv, IInv
<1>1. UNCHANGED <<run, loop, stopping>>
    BY DEF OfWorker, take, findExecution, setRunning, startEngine, workflowExecuteAfter,
           jobReturns, reportJobProcessingError, CrashWorker, Ends, cancelling, recovery
<1>2. \A v \in Workers : v # w => worker'[v] = worker[v]
    BY <1>0 DEF OfWorker, take, findExecution, setRunning, startEngine, workflowExecuteAfter,
                jobReturns, reportJobProcessingError, CrashWorker, Ends, TypeOK
<1>3. ASSUME NEW e \in Executions, take(w, e), NEW f \in Executions PROVE EndOf(f)'
    <2>1. /\ RowKept(f) /\ job[e] = "waiting" /\ job'[e] = "active"
          /\ worker'[w].exec = e /\ worker'[w].at = "picked"
          /\ f # e => job'[f] = job[f]
        BY <1>0, <1>3 DEF take, RowKept, TypeOK
    <2>2. MainAlone(f)'
        BY <1>0, <1>1, <2>1 DEF EndOf, MainAlone, RowKept
    <2>3. CASE f = e
        <3>1. row[e] \in Ended => late[e].queued
            BY <1>0, <2>1 DEF EndOf, Hands, InHandBefore
        <3>2. Hands(e)'
            BY <1>0, <1>1, <1>2, <2>1, <2>3, <3>1
               DEF EndOf, Hands, InHandBefore, RowKept
        <3> QED BY <2>2, <2>3, <3>2 DEF EndOf
    <2>4. CASE f # e
        <3>1. NoNewHand(f) /\ GivesBack(f)
            BY <1>1, <1>2, <2>1, <2>4 DEF NoNewHand, GivesBack
        <3> QED BY <1>0, <2>1, <2>2, <3>1, HandsStay DEF EndOf
    <2> QED BY <2>3, <2>4
<1>4. ASSUME ~\E e \in Executions : take(w, e), NEW f \in Executions PROVE EndOf(f)'
    <2>1. worker'[w].exec = worker[w].exec \/ worker'[w] = Idle
        BY <1>0, <1>4 DEF OfWorker, findExecution, setRunning, startEngine, workflowExecuteAfter,
                     jobReturns, reportJobProcessingError, CrashWorker, Ends, TypeOK
    <2>2. worker'[w].exec = f => worker[w].exec = f
        BY <2>1, QueueAssumption DEF Idle
    <2>3. job'[f] = job[f] \/ (job[f] = "active" /\ job'[f] \in {"completed", "failed"})
        BY <1>0, <1>4 DEF OfWorker, findExecution, setRunning, startEngine, workflowExecuteAfter,
                     jobReturns, reportJobProcessingError, CrashWorker, Ends, TypeOK, queue
    <2>4. NoNewHand(f)
        BY <1>1, <1>2, <2>2, <2>3 DEF NoNewHand
    <2>5. GivesBack(f)
        <3> SUFFICES ASSUME row[f] = "crashed", worker'[w].exec = f,
                            worker[w].at \in {"picked", "saved"}
                     PROVE  worker'[w].at \in {"picked", "saved"}
            BY <1>2 DEF GivesBack
        <3>1. worker'[w] # Idle /\ worker[w].exec = f
            BY <2>2, QueueAssumption DEF Idle
        <3>2. findExecution(w)
            BY <1>0, <1>4, <3>1 DEF OfWorker, setRunning, startEngine, workflowExecuteAfter,
                    jobReturns, reportJobProcessingError, CrashWorker, Ends, TypeOK
        <3> QED BY <1>0, <3>1, <3>2 DEF findExecution, Refuses, TypeOK
    <2>6. CASE setRunning(w) \/ workflowExecuteAfter(w)
        <3>1. PICK status \in Ended \cup {"running"} : SetStatus({worker[w].exec}, status)
            BY <2>6 DEF setRunning, workflowExecuteAfter, Ended
        <3>2. worker[w].exec \in Executions /\ job' = job
            BY <1>0, <2>6 DEF setRunning, workflowExecuteAfter, Working, TypeOK, queue
        <3>3. f = worker[w].exec => job[f] # "none"
            BY <1>0 DEF Once, JobFirst
        <3>4. f # worker[w].exec => row'[f] = row[f]
            BY <3>1 DEF SetStatus
        <3>5. MainAlone(f)'
            BY <1>0, <1>1, <3>2, <3>3, <3>4 DEF EndOf, MainAlone
        <3> QED BY <1>0, <2>4, <2>5, <3>1, <3>5, HandsWritten DEF EndOf
    <2>7. CASE ~(setRunning(w) \/ workflowExecuteAfter(w))
        <3>1. RowKept(f)
            BY <1>4, <2>7 DEF RowKept, OfWorker, findExecution, startEngine, jobReturns,
                         reportJobProcessingError, CrashWorker, Ends
        <3>2. MainAlone(f)'
            BY <1>0, <1>1, <2>3, <3>1 DEF EndOf, MainAlone, RowKept
        <3> QED BY <1>0, <2>4, <2>5, <3>1, <3>2, HandsStay DEF EndOf
    <2> QED BY <2>6, <2>7
<1> QED BY <1>3, <1>4 DEF EndInv, EndOf, Hands

\* A loop that waits for its timer has nobody in hand.
LEMMA ScheduleIds ==
    ASSUME TypeOK, NEW m \in Mains, NEW k \in Loops, schedule(m, k),
           NEW n \in Mains, NEW j \in Loops
    PROVE  loop'[n][j].ids \subseteq loop[n][j].ids
<1>1. loop'[n][j] = IF n = m /\ j = k THEN Scheduled ELSE loop[n][j]
    BY DEF schedule, TypeOK
<1> QED BY <1>1 DEF Scheduled

LEMMA LoopsEnd ==
    ASSUME EndInv, IInv', NEW m \in Mains,
           \/ scheduleQueueRecovery(m) \/ stopQueueRecovery(m) \/ CrashMain(m)
           \/ \E k \in Loops : OfLoop(m, k) \/ recoveryFails(m, k)
    PROVE  EndInv'
<1>0. TypeOK /\ \A f \in Executions : EndOf(f)
    BY EndOfs DEF EndInv, IInv
<1>1. UNCHANGED <<job, worker>>
    BY DEF scheduleQueueRecovery, stopQueueRecovery, CrashMain, OfLoop, recoveryFails,
           getInProgressExecutionIds, findJobsByStatus, markAsCrashed, queue
<1>2. ASSUME NEW f \in Executions
      PROVE  /\ run'[f].at \in OnMain \cup {"checked"} => run'[f] = run[f]
             /\ stopping'[f] # None => stopping[f] # None
    <2>1. CASE CrashMain(m)
        BY <1>0, <2>1 DEF CrashMain, NoRun, OnMain, TypeOK
    <2>2. CASE ~CrashMain(m)
        BY <2>2 DEF scheduleQueueRecovery, stopQueueRecovery, OfLoop, recoveryFails,
                    getInProgressExecutionIds, findJobsByStatus, markAsCrashed, cancelling
    <2> QED BY <2>1, <2>2
<1>3. ASSUME NEW f \in Executions PROVE GivesBack(f)
    BY <1>1 DEF GivesBack
<1>4. ASSUME NEW f \in Executions, ~\E k \in Loops : getInProgressExecutionIds(m, k)
      PROVE  NoNewHand(f)
    <2>1. ASSUME NEW n \in Mains, NEW j \in Loops
          PROVE  loop'[n][j].ids \subseteq loop[n][j].ids
        <3>1. ASSUME NEW k \in Loops, schedule(m, k) PROVE loop'[n][j].ids \subseteq loop[n][j].ids
            BY <1>0, <3>1, ScheduleIds
        <3>2. CASE stopQueueRecovery(m) \/ CrashMain(m)
            <4>1. PICK ofMain \in [Loops -> {Off} \cup {loop[m][k] : k \in Loops}] :
                    /\ loop' = [loop EXCEPT ![m] = ofMain]
                    /\ \A k \in Loops : ofMain[k] \in {Off, loop[m][k]}
                <5>1. CASE stopQueueRecovery(m)
                    <6> DEFINE cleared == [k \in Loops |->
                            IF k = timeout[m] /\ loop[m][k] = Scheduled THEN Off ELSE loop[m][k]]
                    <6>1. loop' = [loop EXCEPT ![m] = cleared]
                        BY <1>0, <5>1 DEF stopQueueRecovery, TypeOK
                    <6>2. /\ cleared \in [Loops -> {Off} \cup {loop[m][k] : k \in Loops}]
                          /\ \A k \in Loops : cleared[k] \in {Off, loop[m][k]}
                        OBVIOUS
                    <6> HIDE DEF cleared
                    <6> QED BY <6>1, <6>2
                <5>2. CASE CrashMain(m)
                    <6> DEFINE cleared == [k \in Loops |-> Off]
                    <6>1. loop' = [loop EXCEPT ![m] = cleared]
                        BY <5>2 DEF CrashMain
                    <6>2. /\ cleared \in [Loops -> {Off} \cup {loop[m][k] : k \in Loops}]
                          /\ \A k \in Loops : cleared[k] \in {Off, loop[m][k]}
                        OBVIOUS
                    <6> HIDE DEF cleared
                    <6> QED BY <6>1, <6>2
                <5> QED BY <3>2, <5>1, <5>2
            <4>2. loop'[n][j] = loop[n][j] \/ loop'[n][j] = Off
                BY <1>0, <4>1 DEF TypeOK
            <4> QED BY <4>2 DEF Off
        <3>3. ASSUME NEW k \in Loops, findJobsByStatus(m, k), ~schedule(m, k)
              PROVE  loop'[n][j].ids \subseteq loop[n][j].ids
            <4>1. loop' = [loop EXCEPT ![m][k] = [at |-> "dangling", ids |-> loop[m][k].ids \ Queued]]
                BY <3>3 DEF findJobsByStatus
            <4>2. loop'[n][j] = IF n = m /\ j = k
                                THEN [at |-> "dangling", ids |-> loop[m][k].ids \ Queued]
                                ELSE loop[n][j]
                BY <1>0, <4>1 DEF TypeOK
            <4> QED BY <4>2
        <3> QED BY <1>4, <3>1, <3>2, <3>3
                DEF scheduleQueueRecovery, OfLoop, recoveryFails, findJobsByStatus,
                    markAsCrashed, Retried
    <2> QED BY <1>1, <1>2, <2>1 DEF NoNewHand, OnMain
<1>5. ASSUME NEW f \in Executions, row'[f] = row[f] \/ row'[f] = "crashed"
      PROVE  MainAlone(f)'
    BY <1>0, <1>1, <1>2, <1>5, AloneStays DEF EndOf
<1>6. ASSUME NEW k \in Loops, markAsCrashed(m, k), NEW f \in Executions PROVE EndOf(f)'
    <2>1. SetStatus(loop[m][k].ids, "crashed")
        BY <1>6 DEF markAsCrashed
    <2>2. row'[f] = row[f] \/ row'[f] = "crashed"
        BY <2>1 DEF SetStatus
    <2>3. NoNewHand(f)
        <3>1. \A n \in Mains, j \in Loops : loop'[n][j].ids \subseteq loop[n][j].ids
            BY <1>0, <1>6, ScheduleIds DEF markAsCrashed
        <3> QED BY <1>1, <1>2, <3>1 DEF NoNewHand, OnMain
    <2> QED BY <1>0, <1>3, <1>5, <2>1, <2>2, <2>3, HandsWritten DEF EndOf
<1>7. ASSUME NEW k \in Loops, getInProgressExecutionIds(m, k), NEW f \in Executions
      PROVE  EndOf(f)'
    <2>1. UNCHANGED <<row, late, run, stopping>>
        BY <1>7 DEF getInProgressExecutionIds, cancelling
    <2>2. ASSUME row[f] \in Ended
          PROVE  \A n \in Mains, j \in Loops : f \in loop'[n][j].ids => f \in loop[n][j].ids
        <3> DEFINE stored == {e \in Executions : row[e] \in InProgress}
        <3>1. f \notin stored
            BY <2>2 DEF Ended, InProgress
        <3>2. CASE schedule(m, k)
            BY <1>0, <3>2, ScheduleIds
        <3>3. CASE loop' = [loop EXCEPT ![m][k] = [at |-> "ids", ids |-> stored]]
            <4> HIDE DEF stored
            <4>1. \A n \in Mains, j \in Loops :
                    loop'[n][j] = IF n = m /\ j = k THEN [at |-> "ids", ids |-> stored]
                                  ELSE loop[n][j]
                BY <1>0, <3>3 DEF TypeOK
            <4> QED BY <3>1, <4>1
        <3> QED BY <1>7, <3>2, <3>3 DEF getInProgressExecutionIds
    <2>3. Hands(f)'
        BY <1>0, <1>1, <2>1, <2>2 DEF EndOf, Hands, InHandBefore
    <2> QED BY <1>5, <2>1, <2>3 DEF EndOf
<1>8. ASSUME ~\E k \in Loops : getInProgressExecutionIds(m, k) \/ markAsCrashed(m, k),
             NEW f \in Executions
      PROVE  EndOf(f)'
    <2>1. UNCHANGED <<row, late>>
        BY <1>8 DEF scheduleQueueRecovery, stopQueueRecovery, CrashMain, OfLoop, recoveryFails,
                    findJobsByStatus
    <2>2. RowKept(f)
        BY <2>1 DEF RowKept
    <2>3. NoNewHand(f)
        BY <1>4, <1>8
    <2> QED BY <1>0, <1>3, <1>5, <2>1, <2>2, <2>3, HandsStay DEF EndOf
<1> QED BY <1>6, <1>7, <1>8 DEF EndInv, EndOf, Hands

LEMMA EndStep == EndInv /\ [Next]_vars => EndInv'
<1> SUFFICES ASSUME EndInv, [Next]_vars PROVE EndInv'
    OBVIOUS
<1>0. IInv'
    BY InvStep DEF EndInv
<1>1. CASE UNCHANGED vars
    BY <1>0, <1>1 DEF vars, queue, cancelling, recovery, EndInv, MainAlone, InHandBefore
<1>2. CASE Next
    BY <1>0, <1>2, MainEnd, StopEnd, WorkerEnd, LoopsEnd DEF Next
<1> QED BY <1>1, <1>2

\* A status that is written over an end is written by somebody in hand of the
\* execution when it ended.
Allowed(e) ==
    \/ \E w \in Workers :
        /\ worker'[w] # worker[w]
        /\ w \in late[e].workers \/ (late[e].queued /\ row[e] # "crashed")
    \/ \E l \in late[e].loops : loop'[l[1]][l[2]] # loop[l[1]][l[2]]
    \/ late[e].stop /\ stopping'[e] # stopping[e]
    \/ run'[e] # run[e] /\ (row[e] = "success" => late[e].checked)

LEMMA WritersAreLate ==
    ASSUME EndInv, [Next]_vars, NEW e \in Executions, row[e] \in Ended, row'[e] # row[e]
    PROVE  Allowed(e)
<1>0. /\ TypeOK /\ Working /\ Once(e) /\ MainAlone(e) /\ InHandBefore(e)
    BY DEF EndInv, IInv
<1>1. CASE \E f \in Executions : saveError(f) \/ endsOnMain(f) \/ runMainProcess(f)
    <2>1. PICK f \in Executions : saveError(f) \/ endsOnMain(f) \/ runMainProcess(f)
        BY <1>1
    <2>2. f = e
        BY <2>1 DEF saveError, endsOnMain, runMainProcess, SetStatus
    <2>3. /\ run[e].at \in OnMain \cup {"checked"} /\ run[e] \in Runs
          /\ run'[e].at \in {"none", "local"} /\ run'[e].at # run[e].at
        BY <1>0, <2>1, <2>2 DEF saveError, endsOnMain, runMainProcess, TypeOK, NoRun, OnMain, Runs
    <2>4. row[e] = "success" => late[e].checked
        BY <1>0, <2>3 DEF MainAlone, InHandBefore
    <2> QED BY <2>3, <2>4 DEF Allowed
<1>2. CASE \E f \in Executions : stopDuringRun(f)
    <2>1. PICK f \in Executions : stopDuringRun(f)
        BY <1>2
    <2>2. f = e
        BY <2>1 DEF stopDuringRun, SetStatus
    <2> QED BY <1>0, <2>1, <2>2 DEF stopDuringRun, TypeOK, InHandBefore, Allowed
<1>3. CASE \E w \in Workers : setRunning(w) \/ workflowExecuteAfter(w)
    <2>1. PICK w \in Workers : setRunning(w) \/ workflowExecuteAfter(w)
        BY <1>3
    <2>2. worker[w].exec = e
        BY <2>1 DEF setRunning, workflowExecuteAfter, SetStatus
    <2>3. /\ worker[w].at \in {"read", "running", "cancelled"}
          /\ worker'[w].at \in {"set", "saved"}
        BY <1>0, <2>1 DEF setRunning, workflowExecuteAfter, TypeOK
    <2>4. worker'[w] # worker[w]
        BY <2>3
    <2> QED BY <1>0, <2>2, <2>3, <2>4 DEF InHandBefore, Allowed
<1>4. CASE \E m \in Mains, k \in Loops : markAsCrashed(m, k)
    <2>1. PICK m \in Mains, k \in Loops : markAsCrashed(m, k)
        BY <1>4
    <2>2. e \in loop[m][k].ids
        BY <2>1 DEF markAsCrashed, SetStatus
    <2>3. loop'[m][k] = Scheduled /\ loop[m][k].at = "dangling"
        BY <1>0, <2>1 DEF markAsCrashed, schedule, TypeOK
    <2>4. loop'[m][k] # loop[m][k]
        BY <2>3 DEF Scheduled
    <2>5. <<m, k>> \in late[e].loops
        BY <1>0, <2>2 DEF InHandBefore
    <2> QED BY <2>4, <2>5 DEF Allowed
<1>5. CASE \E m \in Mains, f \in Executions : add(m, f)
    BY <1>5 DEF add, SetStatus, Ended
<1> QED BY <1>1, <1>2, <1>3, <1>4, <1>5
        DEF Next, vars, OfMain, OfStop, OfWorker, OfLoop, stop, enqueueFails, stalled, addJob,
            attachWorkflowExecution, jobFinished, processError, isActive, remove, sendAbort,
            moveToFailed, abortArrives, take, findExecution, startEngine, jobReturns,
            reportJobProcessingError, CrashWorker, Ends, scheduleQueueRecovery,
            stopQueueRecovery, CrashMain, recoveryFails, getInProgressExecutionIds,
            findJobsByStatus

\* However late workers, recoveries and stops are, an end is only written over
\* by one of those that had the execution in hand when it ended, or by the
\* worker that got its job afterwards.
THEOREM EndsAreKeptHolds == Spec => EndsAreKept
<1>1. EndInv /\ [Next]_vars =>
        [\A e \in Executions : row[e] \in Ended /\ row'[e] # row[e] => Allowed(e)]_vars
    BY WritersAreLate
<1>2. EndInv /\ [Next]_vars =>
        [\A e \in Executions : row[e] \in Ended /\ row'[e] # row[e] =>
            \/ \E w \in Workers :
                /\ worker'[w] # worker[w]
                /\ w \in late[e].workers \/ (late[e].queued /\ row[e] # "crashed")
            \/ \E l \in late[e].loops : loop'[l[1]][l[2]] # loop[l[1]][l[2]]
            \/ late[e].stop /\ stopping'[e] # stopping[e]
            \/ run'[e] # run[e] /\ (row[e] = "success" => late[e].checked)]_vars
    BY <1>1 DEF Allowed
<1> QED BY <1>2, EndInit, EndStep, PTL DEF Spec, EndsAreKept
=============================================================================
