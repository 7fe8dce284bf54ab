-------------------------- MODULE ExecutionRecovery --------------------------
(***************************************************************************)
(* What a start of n8n in regular mode does with the executions that the   *)
(* process before it left unfinished.                                      *)
(*                                                                         *)
(* packages/cli/src/eventbus/message-event-bus/message-event-bus.ts        *)
(* (initialize), message-event-bus-writer/* (the event log, the worker     *)
(* thread that writes it, and the flag file), and                          *)
(* packages/cli/src/executions/execution-recovery.service.ts.              *)
(*                                                                         *)
(* The wait tracker and the webhooks are there before the event bus is, so *)
(* executions start, resume and end while the recovery goes on.  A crash   *)
(* and a shutdown are the same here: close() terminates the worker thread. *)
(***************************************************************************)
EXTENDS Naturals, Sequences

CONSTANTS
    Executions,
    Poison,         \* executions whose data may be too much for the memory
    Simple,         \* whether crashRecoveryMode is 'simple'
    MaxPosted,      \* bound: the messages posted to the worker thread
    MaxFaults,      \* bound: crashes and shutdowns that no recovery causes
    None

ASSUME RecoveryAssumption ==
    /\ Poison \subseteq Executions
    /\ Simple \in BOOLEAN
    /\ MaxPosted \in Nat /\ MaxFaults \in Nat
    /\ None \notin Executions

VARIABLES
    row,        \* status of an execution, and whether waitTill is set
    engines,    \* the engines that run, and the status one is about to save
    boot,       \* where the start of the process is
    found,      \* what initialize() read in the log about an execution
    left,       \* the unfinished executions that it has still to recover
    amending,   \* the one that recoverFromLogs() is at, and its step
    posted,     \* messages to the worker thread
    paused,     \* loggingPaused of the worker thread
    current, previous,  \* the last event on an execution in the two newest logs
    flag,       \* whether the .recoveryInProgress file is there
    faults,
    late        \* ghost: executions that ended since the process started

writer == <<posted, paused, current, previous, flag>>
recovery == <<boot, found, left, amending>>
vars == <<row, engines, recovery, writer, faults, late>>

Outcomes == {"ended", "waiting"}

\* "ended" is "success" or "error"; an engine that is stopped ends alike.
Ended == {"ended", "canceled"}
Statuses == {"none", "running", "waiting", "crashed"} \cup Ended
Events == {"started", "nodes", "finished"}
EngineStates == {"marked", "started", "nodes"} \cup Outcomes
HasEngine(e) == \E s \in EngineStates : <<e, s>> \in engines

NoEvents == [e \in Executions |-> "none"]
NotAmending == [exec |-> None, at |-> "none", waitTill |-> FALSE]

Commands == [command : {"startLogging", "startRecoveryProcess", "endRecoveryProcess"}]
    \cup [command : {"appendMessageToLog"}, event : Events, exec : Executions]

TypeOK ==
    /\ row \in [Executions -> [status : Statuses, waitTill : BOOLEAN]]
    /\ \A e \in Executions : row[e].status = "waiting" => row[e].waitTill
    /\ engines \subseteq Executions \X EngineStates
    /\ boot \in {"down", "starting", "read", "queried", "marking", "recovering", "up"}
    /\ found \in [Executions -> {"none", "started", "nodes"}]
    /\ left \subseteq Executions
    /\ amending \in [exec : Executions \cup {None}, waitTill : BOOLEAN,
                     at : {"none", "unlogged", "reread", "logged", "amended", "hooks"}]
    /\ posted \in Seq(Commands)
    /\ paused \in BOOLEAN
    /\ current \in [Executions -> Events \cup {"none"}]
    /\ previous \in [Executions -> Events \cup {"none"}]
    /\ flag \in BOOLEAN
    /\ faults \in 0..MaxFaults
    /\ late \subseteq Executions

Init ==
    /\ row = [e \in Executions |-> [status |-> "none", waitTill |-> FALSE]]
    /\ engines = {}
    /\ boot = "down" /\ found = NoEvents /\ left = {} /\ amending = NotAmending
    /\ posted = <<>> /\ paused = TRUE /\ current = NoEvents /\ previous = NoEvents
    /\ flag = FALSE
    /\ faults = 0
    /\ late = {}

Post(command) == posted' = Append(posted, [command |-> command])
LogUnchanged == UNCHANGED <<paused, current, previous, flag>>

\* The relay that logs what the hooks tell is there once initialize() is done.
Log(event, e) ==
    /\ Len(posted) < MaxPosted
    /\ posted' = IF boot = "up"
                 THEN Append(posted, [command |-> "appendMessageToLog", event |-> event,
                                      exec |-> e])
                 ELSE posted
    /\ LogUnchanged

-----------------------------------------------------------------------------
(* Executions, in short: ExecutionLifecycle and WorkflowEngine have them in *)
(* detail.                                                                  *)

Replace(e, was, is) == engines' = (engines \ {<<e, was>>}) \cup {<<e, is>>}

\* A webhook, say, starts a new execution.
Begin(e) ==
    /\ boot # "down" /\ row[e].status = "none"
    /\ row' = [row EXCEPT ![e].status = "running"]
    /\ engines' = engines \cup {<<e, "marked">>}
    /\ UNCHANGED <<recovery, writer, faults, late>>

\* The wait tracker or a webhook resumes one: add() requires that it waits.
Resume(e) ==
    /\ boot # "down" /\ row[e].status = "waiting"
    /\ row' = [row EXCEPT ![e] = [status |-> "running", waitTill |-> FALSE]]
    /\ engines' = engines \cup {<<e, "marked">>}
    /\ UNCHANGED <<recovery, writer, faults, late>>

\* stopBeforeRun() writes nothing but the status, and logs no end.
Stop(e) ==
    /\ boot # "down" /\ row[e].status = "waiting"
    /\ row' = [row EXCEPT ![e].status = "canceled"]
    /\ late' = late \cup {e}
    /\ UNCHANGED <<engines, recovery, writer, faults>>

workflowExecuteBefore(e) ==
    /\ <<e, "marked">> \in engines
    /\ Replace(e, "marked", "started")
    /\ Log("started", e)
    /\ UNCHANGED <<row, recovery, faults, late>>

nodeExecuteBefore(e) ==
    /\ <<e, "started">> \in engines
    /\ Replace(e, "started", "nodes")
    /\ Log("nodes", e)
    /\ UNCHANGED <<row, recovery, faults, late>>

\* The first of the hooks after the execution logs its end, unless it waits ...
workflowExecuteAfter(e, outcome) ==
    /\ <<e, "nodes">> \in engines
    /\ Replace(e, "nodes", outcome)
    /\ IF outcome = "waiting" THEN UNCHANGED writer ELSE Log("finished", e)
    /\ UNCHANGED <<row, recovery, faults, late>>

\* ... and a later one saves it.  A waitTill that is undefined is not written.
saveExecution(e, outcome) ==
    /\ <<e, outcome>> \in engines
    /\ engines' = engines \ {<<e, outcome>>}
    /\ row' = [row EXCEPT ![e] = [status |-> outcome,
                                  waitTill |-> @.waitTill \/ outcome = "waiting"]]
    /\ late' = IF outcome = "waiting" THEN late ELSE late \cup {e}
    /\ UNCHANGED <<recovery, writer, faults>>

-----------------------------------------------------------------------------
(* The worker thread of the log writer                                      *)

\* renameAndCreateLogs(); getMessages() reads the newest two.
Cycle == previous' = current /\ current' = NoEvents

Handle(message) ==
    /\ posted # <<>> /\ Head(posted) = message
    /\ posted' = Tail(posted)
    /\ UNCHANGED <<row, engines, recovery, faults, late>>

startLogging ==
    /\ Handle([command |-> "startLogging"])
    /\ Cycle
    /\ paused' = FALSE
    /\ UNCHANGED flag

appendMessageToLog(event, e) ==
    /\ Handle([command |-> "appendMessageToLog", event |-> event, exec |-> e])
    /\ current' = IF paused THEN current ELSE [current EXCEPT ![e] = event]
    /\ UNCHANGED <<paused, previous, flag>>

createFlag ==
    /\ Handle([command |-> "startRecoveryProcess"])
    /\ flag' = TRUE
    /\ UNCHANGED <<paused, current, previous>>

removeFlag ==
    /\ Handle([command |-> "endRecoveryProcess"])
    /\ flag' = FALSE
    /\ UNCHANGED <<paused, current, previous>>

-----------------------------------------------------------------------------
(* MessageEventBus.initialize()                                             *)

\* Server.start() comes after WaitTracker.init().
start ==
    /\ boot = "down"
    /\ boot' = "starting"
    /\ late' = {}
    /\ UNCHANGED <<row, engines, found, left, amending, writer, faults>>

\* The last event decides: the messages of an execution that has ended are
\* deleted, and 'workflow.started' starts them anew.
LastEvent(e) == IF current[e] # "none" THEN current[e] ELSE previous[e]
Unfinished(e) == IF LastEvent(e) = "finished" THEN "none" ELSE LastEvent(e)

getUnsentAndUnfinishedExecutions ==
    /\ boot = "starting"
    /\ boot' = "read"
    /\ found' = [e \in Executions |-> Unfinished(e)]
    /\ Post("startLogging")
    /\ LogUnchanged
    /\ UNCHANGED <<row, engines, left, amending, faults, late>>

\* Mutant: the database is not asked, as in queue mode
OnlyLogged == {e \in Executions : found[e] # "none"}
UnfinishedIds == {e \in Executions : found[e] # "none" \/ row[e].status = "running"}

findUnfinished ==
    /\ boot = "read"
    /\ left' = UnfinishedIds
    /\ boot' = IF left' = {} THEN "up" ELSE "queried"
    /\ UNCHANGED <<row, engines, found, amending, writer, faults, late>>

\* Mutant: the flag is not looked at
NeverAttempted == FALSE
isRecoveryProcessRunning == flag

skipRecovery ==
    /\ boot = "queried" /\ (isRecoveryProcessRunning \/ Simple)
    /\ boot' = "marking"
    /\ UNCHANGED <<row, engines, found, left, amending, writer, faults, late>>

markAsCrashed ==
    /\ boot = "marking"
    /\ row' = [e \in Executions |->
                IF e \in left THEN [row[e] EXCEPT !.status = "crashed"] ELSE row[e]]
    /\ left' = {} /\ boot' = "up"
    /\ Post("endRecoveryProcess")
    /\ LogUnchanged
    /\ UNCHANGED <<engines, found, amending, faults, late>>

startRecoveryProcess ==
    /\ boot = "queried" /\ ~isRecoveryProcessRunning /\ ~Simple
    /\ boot' = "recovering"
    /\ Post("startRecoveryProcess")
    /\ LogUnchanged
    /\ UNCHANGED <<row, engines, found, left, amending, faults, late>>

endRecoveryProcess ==
    /\ boot = "recovering" /\ left = {} /\ amending = NotAmending
    /\ boot' = "up"
    /\ Post("endRecoveryProcess")
    /\ LogUnchanged
    /\ UNCHANGED <<row, engines, found, left, amending, faults, late>>

-----------------------------------------------------------------------------
(* ExecutionRecoveryService.recoverFromLogs()                               *)

AmendAt(step) == amending' = [amending EXCEPT !.at = step]
Dropped(e) == amending' = NotAmending /\ left' = left \ {e}

\* Nothing is done for one that has started and reached no node.
amend(e) ==
    /\ boot = "recovering" /\ amending = NotAmending /\ e \in left
    /\ IF found[e] = "started" THEN Dropped(e)
       ELSE /\ amending' = [exec |-> e, waitTill |-> FALSE,
                            at |-> IF found[e] = "none" THEN "unlogged" ELSE "logged"]
            /\ UNCHANGED left
    /\ UNCHANGED <<row, engines, boot, found, writer, faults, late>>

amendWithoutLogs(e) ==
    /\ amending.exec = e /\ amending.at = "unlogged"
    /\ row' = [row EXCEPT ![e].status = "crashed"]
    /\ AmendAt("reread")
    /\ UNCHANGED <<engines, boot, found, left, writer, faults, late>>

\* What amend() leaves alone.
\* Mutant: it forgets the ends that the log does not show
Logged(e) == row[e].status = "ended"
Finished(e) == row[e].status \in Ended

findSingleExecution(e) ==
    /\ amending.exec = e /\ amending.at \in {"logged", "reread"}
    /\ IF amending.at = "logged" /\ Finished(e) THEN Dropped(e)
       ELSE /\ amending' = [amending EXCEPT !.at = "amended", !.waitTill = row[e].waitTill]
            /\ UNCHANGED left
    /\ UNCHANGED <<row, engines, boot, found, writer, faults, late>>

updateExistingExecution(e) ==
    /\ amending.exec = e /\ amending.at = "amended"
    /\ row' = [row EXCEPT ![e] = [status |-> "crashed", waitTill |-> amending.waitTill]]
    /\ AmendAt("hooks")
    /\ UNCHANGED <<engines, boot, found, left, writer, faults, late>>

\* An execution that waited waits again.
\* Mutant: whether it waited is not looked at
WaitsAgain(waitTill) == "waiting"
determineFinalExecutionStatus(waitTill) == IF waitTill THEN "waiting" ELSE "crashed"

runHooks(e) ==
    /\ amending.exec = e /\ amending.at = "hooks"
    /\ row' = [row EXCEPT ![e] =
                [status |-> determineFinalExecutionStatus(amending.waitTill),
                 waitTill |-> @.waitTill \/ amending.waitTill]]
    /\ Dropped(e)
    /\ UNCHANGED <<engines, boot, found, writer, faults, late>>

-----------------------------------------------------------------------------
(* Crashes: what was posted and not handled is lost.                        *)

Down ==
    /\ boot' = "down" /\ left' = {} /\ amending' = NotAmending
    /\ engines' = {}
    /\ posted' = <<>> /\ paused' = TRUE
    /\ UNCHANGED <<row, found, current, previous, flag, late>>

Crash ==
    /\ boot # "down" /\ faults < MaxFaults
    /\ faults' = faults + 1
    /\ Down

\* findSingleExecution() reads and parses the data of the execution.
OutOfMemory(e) ==
    /\ amending.exec = e /\ amending.at \in {"logged", "reread"} /\ e \in Poison
    /\ Down
    /\ UNCHANGED faults

-----------------------------------------------------------------------------
Engine(e) ==
    \/ Begin(e) \/ Resume(e) \/ Stop(e) \/ workflowExecuteBefore(e) \/ nodeExecuteBefore(e)
    \/ \E outcome \in Outcomes : workflowExecuteAfter(e, outcome) \/ saveExecution(e, outcome)

Recover(e) ==
    \/ amend(e) \/ amendWithoutLogs(e) \/ findSingleExecution(e)
    \/ updateExistingExecution(e) \/ runHooks(e) \/ OutOfMemory(e)

Startup ==
    \/ start \/ getUnsentAndUnfinishedExecutions \/ findUnfinished
    \/ skipRecovery \/ markAsCrashed \/ startRecoveryProcess \/ endRecoveryProcess
    \/ \E e \in Executions : Recover(e)

Thread ==
    \/ startLogging \/ createFlag \/ removeFlag
    \/ \E e \in Executions, event \in Events : appendMessageToLog(event, e)

Next ==
    \/ \E e \in Executions : Engine(e)
    \/ Startup \/ Thread \/ Crash

Spec == Init /\ [][Next]_vars

\* n8n is started again whenever it goes down, and its start goes on.  The
\* thread races with the memory running out; it does not lose every time.
Fairness == WF_vars(Startup) /\ SF_vars(startLogging) /\ SF_vars(createFlag)

FairSpec == Spec /\ Fairness

-----------------------------------------------------------------------------
\* After the start no execution says that it runs while nothing runs it
\* (initialize), but for those that had not reached a node (amend()).
NoOrphanRuns ==
    boot = "up" => \A e \in Executions :
        row[e].status = "running" => HasEngine(e) \/ found[e] = "started"

\* An end that was there when the process started stays ("we need to filter
\* out finished executions here", amend()), unless a recovery before this one
\* had not finished or the mode is 'simple'.
EndsBeforeStartStay ==
    [][\A e \in Executions :
        row[e].status \in Ended /\ row'[e].status # row[e].status
            => boot = "marking" \/ e \in late]_vars

\* An execution that brings down every process that tries to recover it does
\* so for some time only ("we do not want to retry the recovery process").
StartsInTheEnd == []<>(boot = "up")
=============================================================================
