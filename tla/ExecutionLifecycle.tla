------------------------- MODULE ExecutionLifecycle -------------------------
(***************************************************************************)
(* The life of executions in one main instance in regular mode: how an     *)
(* execution is created or resumed, throttled, run, put to wait, stopped   *)
(* and saved, across shutdowns and crashes of the process.                 *)
(*                                                                         *)
(*   packages/cli/src/active-executions.ts                                  *)
(*   packages/cli/src/workflow-runner.ts        (run, runMainProcess)       *)
(*   packages/cli/src/executions/execution.service.ts (stop)                *)
(*   packages/cli/src/wait-tracker.ts           (startExecution)            *)
(*   packages/cli/src/commands/start.ts         (runEnqueuedExecutions)     *)
(*   packages/@n8n/db/src/repositories/execution.repository.ts              *)
(*   packages/core/src/execution-engine/workflow-execute.ts (its promise)   *)
(*                                                                         *)
(* A run is one call of WorkflowRunner.run(); an execution that waits and   *)
(* is resumed has several. Code between two awaits is one action, and so   *)
(* is each statement committed by the database.                            *)
(***************************************************************************)
EXTENDS ConcurrencyControl

CONSTANTS
    None,                   \* no run, no execution
    WithResponsePromise,    \* executions whose caller awaits a response node
    WithTimeout,            \* executions with a workflow timeout
    WithWait,               \* executions of workflows with a waiting node
    MaxRestarts             \* bound: how often the process may go down

ASSUME NoneAssumption == None \notin Runs \cup Executions
ASSUME SubsetAssumption == /\ WithResponsePromise \subseteq Executions
                           /\ WithTimeout \subseteq Executions
                           /\ WithWait \subseteq Executions
ASSUME RestartAssumption == MaxRestarts \in Nat

VARIABLES
    db,         \* [Executions -> Status], the status column
    waitTill,   \* executions whose waitTill column is set
    call,       \* [Runs -> Call], the execution a run is for, and why
    pc,         \* [Runs -> RunState], where a run, then its engine, is
    active,     \* [Executions -> Runs], activeExecutions: the run of the entry
    entry,      \* [Runs -> Entry], the entry a run put into activeExecutions
    detached,   \* runs whose engine could not be attached to an entry
    cancelled,  \* runs whose engine was cancelled
    cancelSave, \* runs whose cancellation hook has yet to save
    timers,     \* runs whose workflow timeout is set
    stopping,   \* [Executions -> StopState], ExecutionService.stop()
    bootQueue,  \* executions runEnqueuedExecutions() has still to run
    phase,      \* "up", "draining" (shutdown) or "down"
    restarts    \* how often the process went down

lifeVars == <<db, waitTill, call, pc, active, entry, detached, cancelled,
              cancelSave, timers, stopping, bootQueue, phase, restarts>>
vars == <<ccVars, lifeVars>>

Status == {"none", "new", "running", "waiting", "success", "error",
           "canceled", "crashed"}

\* "fresh": no execution ID yet; "resume": a waiting one; "boot": an enqueued one
Kinds == {"fresh", "resume", "boot"}
Call  == [execution : Executions, kind : Kinds]
NoCall == [execution |-> None, kind |-> "none"]

RunState ==
    {"idle",
     "called",          \* about to throttle
     "throttled",       \* awaiting throttle()
     "admitted",        \* throttle() let it through without counting it
     "marked",          \* the database says running, not in activeExecutions
     "checking",        \* in activeExecutions, awaiting the credentials check
     "checkFailed",     \* the failed execution was saved
     "preparing",       \* about to call setRunning() in runMainProcess()
     "launching",       \* about to construct the engine
     "executing", "waitRequested",              \* the engine's loop
     "saving-success", "saving-error", "saving-waiting", "saving-canceled",
     "saved",           \* the engine's promise is about to resolve
     "done", "refused", "dead"}

SavingState == [success |-> "saving-success", error |-> "saving-error",
                waiting |-> "saving-waiting", canceled |-> "saving-canceled"]

\* States in which the engine's promise is pending.
EnginePending == {"executing", "waitRequested", "saved", "saving-success",
                  "saving-error", "saving-waiting", "saving-canceled"}

Entry == [status : {"running", "waiting"}, workflow : Runs \cup {None},
          settled : BOOLEAN, response : BOOLEAN]
NoEntry == [status |-> "running", workflow |-> None, settled |-> FALSE,
            response |-> FALSE]

StopState == {"idle", "read", "before", "during", "stopped"}
StoppableStatus == {"new", "waiting", "running"}

TypeOK ==
    /\ CCTypeOK
    /\ db \in [Executions -> Status]
    /\ waitTill \subseteq Executions
    /\ call \in [Runs -> Call \cup {NoCall}]
    /\ pc \in [Runs -> RunState]
    /\ active \in [Executions -> Runs \cup {None}]
    /\ entry \in [Runs -> Entry]
    /\ detached \subseteq Runs
    /\ cancelled \subseteq Runs
    /\ cancelSave \subseteq Runs
    /\ timers \subseteq Runs
    /\ stopping \in [Executions -> StopState]
    /\ bootQueue \subseteq Executions
    /\ phase \in {"up", "draining", "down"}
    /\ restarts \in 0..MaxRestarts

Init ==
    /\ CCInit
    /\ db = [e \in Executions |-> "none"]
    /\ waitTill = {}
    /\ call = [r \in Runs |-> NoCall]
    /\ pc = [r \in Runs |-> "idle"]
    /\ active = [e \in Executions |-> None]
    /\ entry = [r \in Runs |-> NoEntry]
    /\ detached = {} /\ cancelled = {} /\ cancelSave = {} /\ timers = {}
    /\ stopping = [e \in Executions |-> "idle"]
    /\ bootQueue = {}
    /\ phase = "up"
    /\ restarts = 0

ExecutionOf(r) == call[r].execution

Goto(r, s) == pc' = [pc EXCEPT ![r] = s]

Running == phase # "down"

-----------------------------------------------------------------------------
(* Starting a run.                                                          *)

\* ActiveExecutions.add() without an ID: createNewExecution() inserted the row.
CreateExecution(r, e) ==
    /\ phase = "up" /\ pc[r] = "idle" /\ db[e] = "none"
    /\ db' = [db EXCEPT ![e] = "new"]
    /\ call' = [call EXCEPT ![r] = [execution |-> e, kind |-> "fresh"]]
    /\ Goto(r, "called")
    /\ UNCHANGED <<ccVars, waitTill, active, entry, detached, cancelled,
                   cancelSave, timers, stopping, bootQueue, phase, restarts>>

\* A wait timer or a call of a waiting webhook read the execution to resume.
BeginResume(r, e) ==
    /\ phase = "up" /\ pc[r] = "idle"
    /\ e \in waitTill /\ db[e] \notin {"crashed", "success"}
    /\ call' = [call EXCEPT ![r] = [execution |-> e, kind |-> "resume"]]
    /\ Goto(r, "called")
    /\ UNCHANGED <<ccVars, db, waitTill, active, entry, detached, cancelled,
                   cancelSave, timers, stopping, bootQueue, phase, restarts>>

\* runEnqueuedExecutions(): one iteration of its loop.
RunEnqueued(r, e) ==
    /\ phase = "up" /\ pc[r] = "idle" /\ e \in bootQueue
    /\ bootQueue' = bootQueue \ {e}
    /\ call' = [call EXCEPT ![r] = [execution |-> e, kind |-> "boot"]]
    /\ Goto(r, "called")
    /\ UNCHANGED <<ccVars, db, waitTill, active, entry, detached, cancelled,
                   cancelSave, timers, stopping, phase, restarts>>

\* add() calls throttle() and awaits it.
CallThrottle(r) ==
    /\ Running /\ pc[r] = "called"
    /\ Throttle(ExecutionOf(r), r)
    /\ Goto(r, IF ~isEnabled \/ IsUnlimited(ExecutionOf(r))
               THEN "admitted" ELSE "throttled")
    /\ UNCHANGED <<db, waitTill, call, active, entry, detached, cancelled,
                   cancelSave, timers, stopping, bootQueue, phase, restarts>>

\* throttle()'s promise has resolved.
Admitted(r) ==
    \/ pc[r] = "admitted"
    \/ /\ pc[r] = "throttled"
       /\ \E t \in QueuesOf(ExecutionOf(r)) : r \in granted[t]

\* add(), new execution: setRunning(), whatever the status is by now.
MarkNewRunning(r) ==
    /\ Running /\ Admitted(r) /\ call[r].kind = "fresh"
    /\ db' = [db EXCEPT ![ExecutionOf(r)] = "running"]
    /\ Goto(r, "marked")
    /\ UNCHANGED <<ccVars, waitTill, call, active, entry, detached, cancelled,
                   cancelSave, timers, stopping, bootQueue, phase, restarts>>

\* Mutant: the update without the required status.
MarkAnyRunning(r) ==
    LET e == ExecutionOf(r) IN
    /\ Running /\ Admitted(r) /\ call[r].kind # "fresh"
    /\ db' = [db EXCEPT ![e] = "running"]
    /\ waitTill' = waitTill \ {e}
    /\ Goto(r, "marked")
    /\ UNCHANGED <<ccVars, call, active, entry, detached, cancelled,
                   cancelSave, timers, stopping, bootQueue, phase, restarts>>

\* add(), existing execution: updateExistingExecution(.., 'waiting').
MarkExistingRunning(r) ==
    LET e == ExecutionOf(r) IN
    /\ Running /\ Admitted(r) /\ call[r].kind # "fresh"
    /\ IF db[e] = "waiting"
       THEN /\ db' = [db EXCEPT ![e] = "running"]
            /\ waitTill' = waitTill \ {e}
            /\ Goto(r, "marked")
       ELSE /\ Goto(r, "refused")       \* ExecutionAlreadyResumingError
            /\ UNCHANGED <<db, waitTill>>
    /\ UNCHANGED <<ccVars, call, active, entry, detached, cancelled,
                   cancelSave, timers, stopping, bootQueue, phase, restarts>>

\* add() continues: the entry replaces the one of a previous run, if any.
Activate(r) ==
    LET e == ExecutionOf(r)
        previous == active[e]
    IN
    /\ Running /\ pc[r] = "marked"
    /\ active' = [active EXCEPT ![e] = r]
    /\ entry' = [entry EXCEPT ![r] =
                    [NoEntry EXCEPT !.response =
                        previous # None /\ entry[previous].response]]
    /\ Goto(r, "checking")
    /\ UNCHANGED <<ccVars, db, waitTill, call, detached, cancelled, cancelSave,
                   timers, stopping, bootQueue, phase, restarts>>

-----------------------------------------------------------------------------
(* The post-execution promise, and stopping what is active.                  *)

\* finalizeExecution(): the entry's promise resolves unless it has; once it
\* settles, capacity is released and the entry goes, unless it waits.
Finalize(e) ==
    LET x == active[e] IN
    IF x = None \/ entry[x].settled
    THEN UNCHANGED <<ccVars, active, entry>>
    ELSE /\ Release(e, x)
         /\ IF entry[x].status = "waiting"
            THEN /\ entry' = [entry EXCEPT ![x].settled = TRUE,
                                           ![x].workflow = None]
                 /\ UNCHANGED active
            ELSE /\ entry' = [entry EXCEPT ![x].settled = TRUE]
                 /\ active' = [active EXCEPT ![e] = None]

\* Mutant: a waiting entry is rejected like any other.
ToRejectAll(S) == {active[e] : e \in {f \in S : active[f] # None}}

\* The runs of the entries that stopExecution() cancels rather than deletes.
ToReject(S) == {active[e] : e \in {f \in S : /\ active[f] # None
                                             /\ entry[active[f]].status # "waiting"}}

\* stopExecution() of all executions in S, except for the release of capacity.
StopEntries(S) ==
    LET engines == {entry[x].workflow : x \in ToReject(S)} \ {None}
        stopped == {r \in engines : pc[r] \in EnginePending} \ cancelled
    IN
    /\ entry' = [x \in Runs |-> IF x \in ToReject(S)
                                THEN [entry[x] EXCEPT !.settled = TRUE]
                                ELSE entry[x]]
    /\ cancelled' = cancelled \cup stopped
    /\ cancelSave' = cancelSave \cup stopped

\* stopExecution(); the rejected promise releases capacity in finally().
StopExecution(e) ==
    /\ StopEntries({e})
    /\ active' = [active EXCEPT ![e] = None]
    /\ IF ToReject({e}) = {}
       THEN UNCHANGED ccVars
       ELSE Release(e, active[e])

\* The workflow timeout of run r fires.
TimeoutFires(r) ==
    /\ Running /\ r \in timers
    /\ timers' = timers \ {r}
    /\ StopExecution(ExecutionOf(r))
    /\ UNCHANGED <<db, waitTill, call, pc, detached, stopping, bootQueue,
                   phase, restarts>>

-----------------------------------------------------------------------------
(* WorkflowRunner.run() after add().                                        *)

\* The credentials check fails: the hooks save a failed execution.
CheckFails(r) ==
    /\ Running /\ pc[r] = "checking"
    /\ db' = [db EXCEPT ![ExecutionOf(r)] = "error"]
    /\ Goto(r, "checkFailed")
    /\ UNCHANGED <<ccVars, waitTill, call, active, entry, detached, cancelled,
                   cancelSave, timers, stopping, bootQueue, phase, restarts>>

\* Mutant: the failed run returns without finalizing.
ReturnFailedCheck(r) ==
    /\ Running /\ pc[r] = "checkFailed"
    /\ Goto(r, "done")
    /\ UNCHANGED <<ccVars, db, waitTill, call, active, entry, detached,
                   cancelled, cancelSave, timers, stopping, bootQueue, phase,
                   restarts>>

FinalizeFailedCheck(r) ==
    /\ Running /\ pc[r] = "checkFailed"
    /\ Finalize(ExecutionOf(r))
    /\ Goto(r, "done")
    /\ UNCHANGED <<db, waitTill, call, detached, cancelled, cancelSave, timers,
                   stopping, bootQueue, phase, restarts>>

\* The check passes.  A run started for a caller attaches its response promise
\* (a resumption by timer has none), which throws when the entry is gone.
CheckPasses(r) ==
    LET e == ExecutionOf(r)
        hasPromise == IF e \notin WithResponsePromise THEN {FALSE}
                      ELSE IF call[r].kind = "fresh" THEN {TRUE} ELSE BOOLEAN
    IN
    /\ Running /\ pc[r] = "checking"
    /\ \E attaches \in hasPromise :
         /\ IF attaches /\ active[e] # None
            THEN entry' = [entry EXCEPT ![active[e]].response = TRUE]
            ELSE UNCHANGED entry
         /\ Goto(r, IF attaches /\ active[e] = None THEN "done" ELSE "preparing")
    /\ UNCHANGED <<ccVars, db, waitTill, call, active, detached, cancelled,
                   cancelSave, timers, stopping, bootQueue, phase, restarts>>

\* runMainProcess(): setRunning(), whatever the status is by now.
SetRunning(r) ==
    /\ Running /\ pc[r] = "preparing"
    /\ db' = [db EXCEPT ![ExecutionOf(r)] = "running"]
    /\ Goto(r, "launching")
    /\ UNCHANGED <<ccVars, waitTill, call, active, entry, detached, cancelled,
                   cancelSave, timers, stopping, bootQueue, phase, restarts>>

\* The engine starts; attachWorkflowExecution() throws when the entry is gone.
Launch(r) ==
    LET e == ExecutionOf(r) IN
    /\ Running /\ pc[r] = "launching"
    /\ Goto(r, "executing")
    /\ IF active[e] = None
       THEN /\ detached' = detached \cup {r}
            /\ UNCHANGED <<entry, timers>>
       ELSE /\ entry' = [entry EXCEPT ![active[e]].workflow = r]
            /\ timers' = IF e \in WithTimeout THEN timers \cup {r} ELSE timers
            /\ UNCHANGED detached
    /\ UNCHANGED <<ccVars, db, waitTill, call, active, cancelled, cancelSave,
                   stopping, bootQueue, phase, restarts>>

-----------------------------------------------------------------------------
(* The engine, as seen through its PCancelable.                             *)

\* putExecutionToWait() marks the entry; it throws when the entry is gone.
PutExecutionToWait(r) ==
    LET e == ExecutionOf(r) IN
    /\ Running /\ pc[r] = "executing" /\ active[e] # None /\ e \in WithWait
    /\ entry' = [entry EXCEPT ![active[e]].status = "waiting"]
    /\ Goto(r, "waitRequested")
    /\ UNCHANGED <<ccVars, db, waitTill, call, active, detached, cancelled,
                   cancelSave, timers, stopping, bootQueue, phase, restarts>>

\* The loop ends, also because it finds its time is up; a cancelled engine
\* leaves saving to its cancellation hook.
EngineEnds(r, outcome) ==
    /\ Running
    /\ \/ pc[r] = "executing" /\ outcome \in {"success", "error"}
       \/ pc[r] = "waitRequested" /\ outcome \in {"waiting", "error"}
       \/ /\ pc[r] = "executing" /\ outcome = "canceled"
          /\ ExecutionOf(r) \in WithTimeout
    /\ Goto(r, IF r \in cancelled THEN "saved" ELSE SavingState[outcome])
    /\ UNCHANGED <<ccVars, db, waitTill, call, active, entry, detached,
                   cancelled, cancelSave, timers, stopping, bootQueue, phase,
                   restarts>>

\* hookFunctionsSave(): the final status is written unconditionally.
SaveResult(r, outcome) ==
    LET e == ExecutionOf(r) IN
    /\ Running /\ pc[r] = SavingState[outcome]
    /\ db' = [db EXCEPT ![e] = outcome]
    /\ waitTill' = IF outcome = "waiting" THEN waitTill \cup {e} ELSE waitTill
    /\ Goto(r, "saved")
    /\ UNCHANGED <<ccVars, call, active, entry, detached, cancelled,
                   cancelSave, timers, stopping, bootQueue, phase, restarts>>

\* The hook that onCancel() started, without awaiting it, saves.
SaveCanceled(r) ==
    /\ Running /\ r \in cancelSave
    /\ cancelSave' = cancelSave \ {r}
    /\ db' = [db EXCEPT ![ExecutionOf(r)] = "canceled"]
    /\ UNCHANGED <<ccVars, waitTill, call, pc, active, entry, detached,
                   cancelled, timers, stopping, bootQueue, phase, restarts>>

\* The engine's promise resolves: runMainProcess()'s then().
EngineResolves(r) ==
    LET e == ExecutionOf(r) IN
    /\ Running /\ pc[r] = "saved"
    /\ Goto(r, "done")
    /\ timers' = timers \ {r}
    /\ IF r \in detached \/ active[e] = None
       THEN UNCHANGED <<ccVars, active, entry>>
       ELSE Finalize(e)
    /\ UNCHANGED <<db, waitTill, call, detached, cancelled, cancelSave,
                   stopping, bootQueue, phase, restarts>>

-----------------------------------------------------------------------------
(* ExecutionService.stop() in regular mode.                                 *)

\* stop() reads the execution and finds it stoppable.
StopRead(e) ==
    /\ Running /\ stopping[e] = "idle" /\ db[e] \in StoppableStatus
    /\ stopping' = [stopping EXCEPT ![e] = "read"]
    /\ UNCHANGED <<ccVars, db, waitTill, call, pc, active, entry, detached,
                   cancelled, cancelSave, timers, bootQueue, phase, restarts>>

\* stopInRegularMode() up to its await.
StopApply(e) ==
    /\ Running /\ stopping[e] = "read"
    /\ IF Has(e)
       THEN /\ Remove(e)
            /\ stopping' = [stopping EXCEPT ![e] = "before"]
            /\ UNCHANGED <<active, entry, cancelled, cancelSave>>
       ELSE /\ StopExecution(e)
            /\ stopping' = [stopping EXCEPT ![e] = "during"]
    /\ UNCHANGED <<db, waitTill, call, pc, detached, timers, bootQueue, phase,
                   restarts>>

\* Mutant: the status is misspelt.
StopSaveMisspelt(e) ==
    /\ Running /\ stopping[e] \in {"before", "during"}
    /\ db' = [db EXCEPT ![e] = "cancelled"]
    /\ waitTill' = IF stopping[e] = "during" THEN waitTill \ {e} ELSE waitTill
    /\ stopping' = [stopping EXCEPT ![e] = "stopped"]
    /\ UNCHANGED <<ccVars, call, pc, active, entry, detached, cancelled,
                   cancelSave, timers, bootQueue, phase, restarts>>

\* stopBeforeRun() or stopDuringRun(); only the latter clears waitTill.
StopSave(e) ==
    /\ Running /\ stopping[e] \in {"before", "during"}
    /\ db' = [db EXCEPT ![e] = "canceled"]
    /\ waitTill' = IF stopping[e] = "during" THEN waitTill \ {e} ELSE waitTill
    /\ stopping' = [stopping EXCEPT ![e] = "stopped"]
    /\ UNCHANGED <<ccVars, call, pc, active, entry, detached, cancelled,
                   cancelSave, timers, bootQueue, phase, restarts>>

-----------------------------------------------------------------------------
(* The process goes down and comes back.                                    *)

ActiveOnes == {e \in Executions : active[e] # None}

\* ActiveExecutions.shutdown() up to its first await.  removeAll() comes after
\* disable(), so that it returns without touching queues or database.
Shutdown ==
    LET responding == {e \in ActiveOnes : entry[active[e]].response}
        waiting == {e \in ActiveOnes \ responding :
                        entry[active[e]].status = "waiting"}
    IN
    /\ phase = "up"
    /\ phase' = "draining"
    /\ Disable
    /\ StopEntries(responding)
    /\ active' = [e \in Executions |-> IF e \in responding \cup waiting
                                       THEN None ELSE active[e]]
    /\ UNCHANGED <<db, waitTill, call, pc, detached, timers, stopping,
                   bootQueue, restarts>>

\* The process ends: all that is not in the database is lost.
GoDown ==
    /\ phase' = "down"
    /\ restarts' = restarts + 1
    /\ Reset
    /\ pc' = [r \in Runs |-> IF pc[r] = "idle" THEN "idle" ELSE "dead"]
    /\ call' = [r \in Runs |-> NoCall]
    /\ active' = [e \in Executions |-> None]
    /\ entry' = [r \in Runs |-> NoEntry]
    /\ detached' = {} /\ cancelled' = {} /\ cancelSave' = {} /\ timers' = {}
    /\ stopping' = [e \in Executions |-> IF stopping[e] = "idle"
                                         THEN "idle" ELSE "stopped"]
    /\ bootQueue' = {}
    /\ UNCHANGED <<db, waitTill>>

\* shutdown() has seen activeExecutions empty.
Exit ==
    /\ phase = "draining" /\ ActiveOnes = {} /\ restarts < MaxRestarts
    /\ GoDown

\* The process is killed, or shutting down takes longer than it may.
Crash ==
    /\ Running /\ restarts < MaxRestarts
    /\ GoDown

\* Mutant: failed executions are recovered again.
BootRecoversFailed ==
    /\ phase = "down"
    /\ phase' = "up"
    /\ db' = [e \in Executions |->
                IF db[e] \in {"running", "error"} THEN "crashed" ELSE db[e]]
    /\ bootQueue' = {e \in Executions : db[e] = "new"}
    /\ UNCHANGED <<ccVars, waitTill, call, pc, active, entry, detached,
                   cancelled, cancelSave, timers, stopping, restarts>>

\* The event bus recovers unfinished executions, except for those (`missed`)
\* whose log has no node event yet; findAllEnqueuedExecutions() follows.
Boot ==
    /\ phase = "down"
    /\ phase' = "up"
    /\ \E missed \in SUBSET {e \in Executions : db[e] = "running"} :
         db' = [e \in Executions |->
                  IF db[e] = "running" /\ e \notin missed THEN "crashed" ELSE db[e]]
    /\ bootQueue' = {e \in Executions : db[e] = "new"}
    /\ UNCHANGED <<ccVars, waitTill, call, pc, active, entry, detached,
                   cancelled, cancelSave, timers, stopping, restarts>>

-----------------------------------------------------------------------------
StartRun(r) ==
    \E e \in Executions : CreateExecution(r, e) \/ BeginResume(r, e) \/ RunEnqueued(r, e)

EndEngine(r) == \E o \in DOMAIN SavingState : EngineEnds(r, o)

Save(r) == \E o \in DOMAIN SavingState : SaveResult(r, o)

\* What a run does by itself once it was started.
RunStep(r) ==
    \/ CallThrottle(r) \/ MarkNewRunning(r) \/ MarkExistingRunning(r)
    \/ Activate(r) \/ CheckFails(r) \/ FinalizeFailedCheck(r) \/ CheckPasses(r)
    \/ SetRunning(r) \/ Launch(r) \/ PutExecutionToWait(r)
    \/ EndEngine(r) \/ Save(r) \/ EngineResolves(r)

StopStep(e) == StopRead(e) \/ StopApply(e) \/ StopSave(e)

Next ==
    \/ \E r \in Runs : StartRun(r) \/ RunStep(r) \/ SaveCanceled(r) \/ TimeoutFires(r)
    \/ \E e \in Executions : StopStep(e)
    \/ Shutdown \/ Exit \/ Crash \/ Boot

Spec == Init /\ [][Next]_vars

(* The event loop runs every continuation that is ready, and a workflow's
   nodes end: what a run has begun, it goes on with.  Stopping, timeouts,
   crashes and new requests may happen or not.                               *)
FairSpec ==
    /\ Spec
    /\ \A r \in Runs : WF_vars(RunStep(r)) /\ WF_vars(SaveCanceled(r))
    /\ \A e \in Executions : WF_vars(StopApply(e)) /\ WF_vars(StopSave(e))

-----------------------------------------------------------------------------
(* Properties that hold.                                                    *)

InLoop(r) == pc[r] \in {"executing", "waitRequested"}

\* A run whose throttle() has put it into the queue.
Throttled(r) == /\ pc[r] = "throttled"
                /\ \E t \in QueuesOf(ExecutionOf(r)) : r \in Queued(t)

(* No execution is run by two engines at once, however often it is resumed:
   updateExistingExecution(.., 'waiting') in ActiveExecutions.add() lets one
   resumption through, and only after the previous engine has saved
   (active-executions.ts:98-107).                                             *)
SingleEngine ==
    \A r, s \in Runs :
        r # s /\ InLoop(r) /\ InLoop(s) => ExecutionOf(r) # ExecutionOf(s)

(* A run that is over holds no slot, whatever stop, timeout, failed check or
   crash it met, unless it asked to wait or was refused as a duplicate
   resumption: the finally() of add() is reached exactly once on every other
   path (active-executions.ts:124-138).                                       *)
SlotsComeBack ==
    isEnabled =>
        \A t \in Limited : \A r \in granted[t] :
            pc[r] = "done" => entry[r].status = "waiting"

(* A created execution does not stay behind: it comes to run and its outcome
   is saved, or a stop cancels it, unless a shutdown stops the releases first.
   In particular a throttled run is let through in the end
   (concurrency-queue.ts:39-43 with active-executions.ts:124-138).            *)
CreatedIsSettled ==
    \A e \in Executions :
        db[e] = "new" ~> \/ db[e] \in {"success", "error", "canceled", "waiting"}
                         \/ ~isEnabled

(* The final status a caller sees is never taken back by the engine of the
   same execution, except by a stop or a resumption: once saved as succeeded
   or failed, an execution is only ever overwritten by a cancellation
   (execution.service.ts:554-575, execution-lifecycle-hooks.ts:430-434).      *)
FinalStatusStays ==
    [][\A e \in Executions :
         db[e] \in {"success", "error", "crashed"} /\ db'[e] # db[e]
            => db'[e] = "canceled"]_vars

-----------------------------------------------------------------------------
(* What the sources say and the code does not keep; each is checked by a run
   that is expected to violate it.                                           *)

(* start.ts:355-360 says that executions found enqueued at startup are
   started; an enqueued run is never refused as a duplicate resumption.       *)
EnqueuedAreStarted ==
    \A r \in Runs : pc[r] = "refused" => call[r].kind # "boot"
=============================================================================
