----------------------- MODULE ExecutionRecoveryProofs -----------------------
(***************************************************************************)
(* Proofs about ExecutionRecovery, for any number of executions, any bound *)
(* on crashes and both modes.                                              *)
(***************************************************************************)
EXTENDS ExecutionRecovery, TLAPS

Rows == [status : Statuses, waitTill : BOOLEAN]
Amendings == [exec : Executions \cup {None}, waitTill : BOOLEAN,
              at : {"none", "unlogged", "reread", "logged", "amended", "hooks"}]

\* What the types of the log writer's and of the other variables are.
WriterType ==
    /\ posted \in Seq(Commands)
    /\ paused \in BOOLEAN
    /\ current \in [Executions -> Events \cup {"none"}]
    /\ previous \in [Executions -> Events \cup {"none"}]
    /\ flag \in BOOLEAN

RowType ==
    /\ row \in [Executions -> Rows]
    /\ \A e \in Executions : row[e].status = "waiting" => row[e].waitTill

RestType ==
    /\ engines \subseteq Executions \X EngineStates
    /\ boot \in {"down", "starting", "read", "queried", "marking", "recovering", "up"}
    /\ found \in [Executions -> {"none", "started", "nodes"}]
    /\ left \subseteq Executions
    /\ amending \in Amendings
    /\ faults \in 0..MaxFaults
    /\ late \subseteq Executions

LEMMA TypeParts == TypeOK <=> RowType /\ RestType /\ WriterType
BY DEF TypeOK, RowType, RestType, WriterType, Rows, Amendings

LEMMA TypePartsNext == RowType' /\ RestType' /\ WriterType' => TypeOK'
BY DEF TypeOK, RowType, RestType, WriterType, Rows, Amendings

LEMMA InitType == Init => TypeOK
<1> SUFFICES ASSUME Init PROVE TypeOK
    OBVIOUS
<1>1. RowType
    BY DEF Init, RowType, Rows, Statuses
<1>2. RestType
    BY RecoveryAssumption DEF Init, RestType, NoEvents, NotAmending, Amendings
<1>3. WriterType
    <2>1. posted \in Seq(Commands)
        BY DEF Init
    <2> QED BY <2>1 DEF Init, WriterType, NoEvents
<1> QED BY <1>1, <1>2, <1>3, TypeParts

-----------------------------------------------------------------------------
(* Types                                                                    *)

\* A write of one row.
LEMMA WriteType ==
    ASSUME TypeOK, NEW e \in Executions, NEW r \in Rows, r.status = "waiting" => r.waitTill,
           row' = [row EXCEPT ![e] = r]
    PROVE  RowType'
BY DEF TypeOK, RowType, Rows

LEMMA PostType ==
    ASSUME TypeOK,
           NEW c \in {"startLogging", "startRecoveryProcess", "endRecoveryProcess"},
           Post(c), LogUnchanged
    PROVE  WriterType'
<1>1. [command |-> c] \in Commands
    BY DEF Commands
<1> QED BY <1>1 DEF Post, LogUnchanged, TypeOK, WriterType

LEMMA LogType ==
    ASSUME TypeOK, NEW event \in Events, NEW e \in Executions, Log(event, e)
    PROVE  WriterType'
<1>1. [command |-> "appendMessageToLog", event |-> event, exec |-> e] \in Commands
    BY DEF Commands
<1> QED BY <1>1 DEF Log, LogUnchanged, TypeOK, WriterType

LEMMA ThreadType == TypeOK /\ Thread => TypeOK'
<1> SUFFICES ASSUME TypeOK, Thread PROVE TypeOK'
    OBVIOUS
<1>1. posted # <<>> /\ posted' = Tail(posted)
      /\ UNCHANGED <<row, engines, recovery, faults, late>>
    BY DEF Thread, startLogging, createFlag, removeFlag, appendMessageToLog, Handle
<1>2. RowType' /\ RestType'
    BY <1>1, TypeParts DEF RowType, RestType, recovery
<1>3. posted' \in Seq(Commands)
    BY <1>1 DEF TypeOK
<1>4. /\ paused' \in BOOLEAN /\ flag' \in BOOLEAN
      /\ current' \in [Executions -> Events \cup {"none"}]
      /\ previous' \in [Executions -> Events \cup {"none"}]
    <2>1. CASE startLogging
        BY <2>1 DEF TypeOK, startLogging, Cycle, NoEvents
    <2>2. CASE createFlag \/ removeFlag
        BY <2>2 DEF TypeOK, createFlag, removeFlag
    <2>3. ASSUME NEW e \in Executions, NEW event \in Events, appendMessageToLog(event, e)
          PROVE  /\ paused' = paused /\ flag' = flag /\ previous' = previous
                 /\ current' \in [Executions -> Events \cup {"none"}]
        BY <2>3 DEF TypeOK, appendMessageToLog
    <2> QED BY <2>1, <2>2, <2>3 DEF TypeOK, Thread
<1> QED BY <1>2, <1>3, <1>4, TypePartsNext DEF WriterType

LEMMA EngineType ==
    ASSUME TypeOK, NEW e \in Executions, Engine(e)
    PROVE  TypeOK'
<1> USE DEF EngineStates, Outcomes, Statuses, Ended
<1>0. row \in [Executions -> Rows] /\ row[e] \in Rows
    BY DEF TypeOK, Rows
<1>1. CASE Begin(e) \/ Resume(e) \/ Stop(e)
    <2>1. RowType'
        <3>1. CASE Begin(e)
            <4>1. row' = [row EXCEPT ![e] = [row[e] EXCEPT !.status = "running"]]
                BY <3>1 DEF Begin
            <4> QED BY <1>0, <4>1, WriteType DEF Rows
        <3>2. CASE Resume(e)
            BY <3>2, WriteType DEF Resume, Rows
        <3>3. CASE Stop(e)
            <4>1. row' = [row EXCEPT ![e] = [row[e] EXCEPT !.status = "canceled"]]
                BY <3>3 DEF Stop
            <4> QED BY <1>0, <4>1, WriteType DEF Rows
        <3> QED BY <1>1, <3>1, <3>2, <3>3
    <2>2. RestType' /\ WriterType'
        BY <1>1 DEF Begin, Resume, Stop, TypeOK, RestType, WriterType, Amendings, recovery, writer
    <2> QED BY <2>1, <2>2, TypePartsNext
<1>2. CASE workflowExecuteBefore(e) \/ nodeExecuteBefore(e)
    <2>1. WriterType'
        BY <1>2, LogType DEF workflowExecuteBefore, nodeExecuteBefore, Events
    <2>2. RowType' /\ RestType'
        BY <1>2, TypeParts
           DEF workflowExecuteBefore, nodeExecuteBefore, Replace, RowType, RestType, recovery
    <2> QED BY <2>1, <2>2, TypePartsNext
<1>3. ASSUME NEW outcome \in Outcomes, workflowExecuteAfter(e, outcome) PROVE TypeOK'
    <2>1. WriterType'
        <3>1. CASE outcome = "waiting"
            BY <1>3, <3>1 DEF workflowExecuteAfter, TypeOK, WriterType, writer
        <3>2. CASE outcome # "waiting"
            BY <1>3, <3>2, LogType DEF workflowExecuteAfter, Events
        <3> QED BY <3>1, <3>2
    <2>2. RowType' /\ RestType'
        BY <1>3, TypeParts DEF workflowExecuteAfter, Replace, RowType, RestType, recovery
    <2> QED BY <2>1, <2>2, TypePartsNext
<1>4. ASSUME NEW outcome \in Outcomes, saveExecution(e, outcome) PROVE TypeOK'
    <2>1. RowType'
        <3>1. row' = [row EXCEPT ![e] = [status |-> outcome,
                                 waitTill |-> row[e].waitTill \/ outcome = "waiting"]]
            BY <1>0, <1>4 DEF saveExecution
        <3>2. (row[e].waitTill \/ outcome = "waiting") \in BOOLEAN
            BY <1>0 DEF Rows
        <3> QED BY <1>0, <1>4, <3>1, <3>2 DEF TypeOK, RowType, Rows
    <2>2. RestType' /\ WriterType'
        BY <1>4 DEF saveExecution, TypeOK, RestType, WriterType, Amendings, recovery, writer
    <2> QED BY <2>1, <2>2, TypePartsNext
<1> QED BY <1>1, <1>2, <1>3, <1>4 DEF Engine

LEMMA DownType == TypeOK /\ Down /\ faults' \in 0..MaxFaults => TypeOK'
BY RecoveryAssumption DEF Down, TypeOK, NotAmending

LEMMA RecoverType ==
    ASSUME TypeOK, NEW e \in Executions, Recover(e)
    PROVE  TypeOK'
<1> USE DEF Statuses, Ended
<1>0. /\ row \in [Executions -> Rows] /\ row[e] \in Rows /\ amending \in Amendings
      /\ NotAmending \in Amendings
    BY DEF TypeOK, Rows, Amendings, NotAmending
<1>1. CASE OutOfMemory(e)
    BY <1>1, DownType DEF OutOfMemory, TypeOK
<1>2. CASE ~OutOfMemory(e)
    <2>0. UNCHANGED <<engines, boot, found, writer, faults, late>>
        BY <1>2 DEF Recover, amend, amendWithoutLogs, findSingleExecution,
                    updateExistingExecution, runHooks
    <2>1. WriterType'
        BY <2>0, TypeParts DEF WriterType, writer
    <2>2. left' \subseteq Executions
        BY <1>2 DEF TypeOK, Recover, amend, amendWithoutLogs, findSingleExecution,
                    updateExistingExecution, runHooks, Dropped
    <2>3. amending' \in Amendings
        <3>1. CASE amend(e)
            <4>1. amending' = NotAmending \/ \E at \in {"unlogged", "logged"} :
                    amending' = [exec |-> e, waitTill |-> FALSE, at |-> at]
                BY <3>1 DEF amend, Dropped
            <4>2. \A at \in {"unlogged", "logged"} :
                    [exec |-> e, waitTill |-> FALSE, at |-> at] \in Amendings
                BY DEF Amendings
            <4> QED BY <1>0, <4>1, <4>2
        <3>2. CASE amendWithoutLogs(e) \/ updateExistingExecution(e)
            BY <1>0, <3>2 DEF amendWithoutLogs, updateExistingExecution, AmendAt, Amendings
        <3>3. CASE findSingleExecution(e)
            BY <1>0, <3>3 DEF findSingleExecution, Dropped, Amendings, Rows
        <3>4. CASE runHooks(e)
            BY <1>0, <3>4 DEF runHooks, Dropped
        <3> QED BY <1>2, <3>1, <3>2, <3>3, <3>4 DEF Recover
    <2>4. RowType'
        <3>1. CASE amend(e) \/ findSingleExecution(e)
            BY <3>1, TypeParts DEF amend, findSingleExecution, RowType
        <3>2. CASE amendWithoutLogs(e)
            <4>1. row' = [row EXCEPT ![e] = [row[e] EXCEPT !.status = "crashed"]]
                BY <3>2 DEF amendWithoutLogs
            <4> QED BY <1>0, <4>1, WriteType DEF Rows
        <3>3. CASE updateExistingExecution(e)
            BY <1>0, <3>3, WriteType DEF updateExistingExecution, Rows, Amendings
        <3>4. CASE runHooks(e)
            <4> DEFINE status == determineFinalExecutionStatus(amending.waitTill)
                       waitTill == row[e].waitTill \/ amending.waitTill
            <4>1. row' = [row EXCEPT ![e] = [status |-> status, waitTill |-> waitTill]]
                BY <1>0, <3>4 DEF runHooks
            <4>2. status \in Statuses /\ waitTill \in BOOLEAN /\ (status = "waiting" => waitTill)
                BY <1>0 DEF determineFinalExecutionStatus, Amendings, Rows
            <4> HIDE DEF status, waitTill
            <4> QED BY <1>0, <4>1, <4>2, WriteType DEF Rows
        <3> QED BY <1>2, <3>1, <3>2, <3>3, <3>4 DEF Recover
    <2> QED BY <2>0, <2>1, <2>2, <2>3, <2>4, TypeParts, TypePartsNext DEF RestType
<1> QED BY <1>1, <1>2

LEMMA StartupType == TypeOK /\ Startup => TypeOK'
<1> SUFFICES ASSUME TypeOK, Startup PROVE TypeOK'
    OBVIOUS
<1> USE DEF Statuses, Ended
<1>1. CASE start \/ findUnfinished \/ skipRecovery
    BY <1>1 DEF start, findUnfinished, skipRecovery, UnfinishedIds, TypeOK, writer
<1>2. CASE getUnsentAndUnfinishedExecutions \/ startRecoveryProcess \/ endRecoveryProcess
    <2>1. WriterType'
        BY <1>2, PostType
           DEF getUnsentAndUnfinishedExecutions, startRecoveryProcess, endRecoveryProcess
    <2>2. RowType'
        BY <1>2, TypeParts DEF getUnsentAndUnfinishedExecutions, startRecoveryProcess,
                               endRecoveryProcess, RowType
    <2>3. \A e \in Executions : Unfinished(e) \in {"none", "started", "nodes"}
        BY DEF TypeOK, Unfinished, LastEvent, Events
    <2>4. RestType'
        BY <1>2, <2>3 DEF getUnsentAndUnfinishedExecutions, startRecoveryProcess,
                          endRecoveryProcess, TypeOK, RestType, Amendings
    <2> QED BY <2>1, <2>2, <2>4, TypePartsNext
<1>3. CASE markAsCrashed
    <2>1. WriterType'
        BY <1>3, PostType DEF markAsCrashed
    <2>2. RowType'
        BY <1>3 DEF markAsCrashed, TypeOK, RowType, Rows
    <2>3. RestType'
        BY <1>3 DEF markAsCrashed, TypeOK, RestType, Amendings
    <2> QED BY <2>1, <2>2, <2>3, TypePartsNext
<1> QED BY <1>1, <1>2, <1>3, RecoverType DEF Startup

LEMMA TypeStep == TypeOK /\ [Next]_vars => TypeOK'
<1> SUFFICES ASSUME TypeOK, [Next]_vars PROVE TypeOK'
    OBVIOUS
<1>1. CASE UNCHANGED vars
    BY <1>1 DEF vars, recovery, writer, TypeOK
<1>2. CASE Crash
    <2>1. faults' \in 0..MaxFaults
        BY <1>2, RecoveryAssumption DEF Crash, TypeOK
    <2> QED BY <1>2, <2>1, DownType DEF Crash
<1> QED BY <1>1, <1>2, EngineType, StartupType, ThreadType DEF Next

\* The variables keep their types, and what waits has its waitTill set.
THEOREM RecoveryTypeHolds == Spec => []TypeOK
BY InitType, TypeStep, PTL DEF Spec

-----------------------------------------------------------------------------
(* What is still to be recovered, and who may overwrite an end              *)

BeforeQuery == {"down", "starting", "read"}

\* Nothing runs in a process that is down; before the query and after the start
\* nothing is being recovered.
Phases ==
    /\ boot = "down" => engines = {}
    /\ boot \in BeforeQuery => left = {} /\ amending = NotAmending
    /\ boot = "up" => left = {}

\* What says that it runs has an engine or is still to be recovered.
Handled(e) ==
    row[e].status = "running" =>
        boot \in BeforeQuery \/ e \in left \/ HasEngine(e) \/ found[e] = "started"

\* Who is about to overwrite the row of e without looking at it.
Writing == {"unlogged", "reread", "amended", "hooks"}
Overwrites(e) ==
    \/ HasEngine(e)
    \/ e \in left /\ found[e] = "none"
    \/ amending.exec = e /\ amending.at \in Writing

EndIsNew(e) == row[e].status \in Ended /\ Overwrites(e) => e \in late

IInv == TypeOK /\ Phases /\ \A e \in Executions : Handled(e) /\ EndIsNew(e)

LEMMA InvInit == Init => IInv
BY InitType, RecoveryAssumption
   DEF Init, IInv, Phases, Handled, EndIsNew, BeforeQuery, Ended, NotAmending

LEMMA EngineInv ==
    ASSUME IInv, NEW e \in Executions, Engine(e)
    PROVE  Phases' /\ \A f \in Executions : Handled(f)' /\ EndIsNew(f)'
<1>0. /\ TypeOK /\ UNCHANGED <<boot, found, left, amending>>
      /\ boot = "down" => engines = {}
    BY DEF IInv, Phases, Engine, Begin, Resume, Stop, workflowExecuteBefore, nodeExecuteBefore,
           workflowExecuteAfter, saveExecution, recovery
<1>1. boot # "down"
    BY <1>0 DEF Engine, Begin, Resume, Stop, workflowExecuteBefore, nodeExecuteBefore,
                workflowExecuteAfter, saveExecution
<1>2. Phases'
    BY <1>0, <1>1 DEF IInv, Phases
<1>3. ASSUME NEW f \in Executions, f # e
      PROVE  row'[f] = row[f] /\ (HasEngine(f)' <=> HasEngine(f)) /\ (f \in late' <=> f \in late)
    BY <1>0, <1>3
       DEF TypeOK, Engine, Begin, Resume, Stop, workflowExecuteBefore, nodeExecuteBefore,
           workflowExecuteAfter, saveExecution, Replace, HasEngine
<1>4. ASSUME NEW f \in Executions, f # e PROVE Handled(f)' /\ EndIsNew(f)'
    BY <1>0, <1>3, <1>4 DEF IInv, Handled, EndIsNew, Overwrites
<1>5. Handled(e)' /\ EndIsNew(e)'
    <2> USE DEF EngineStates, Outcomes, Ended
    <2>1. CASE Begin(e) \/ Resume(e)
        <3>1. row'[e].status = "running" /\ HasEngine(e)'
            BY <1>0, <2>1 DEF TypeOK, Begin, Resume, HasEngine
        <3> QED BY <3>1 DEF Handled, EndIsNew
    <2>2. CASE Stop(e)
        <3>1. row'[e].status = "canceled" /\ e \in late'
            BY <1>0, <2>2 DEF TypeOK, Stop
        <3> QED BY <3>1 DEF Handled, EndIsNew
    <2>3. CASE \/ workflowExecuteBefore(e) \/ nodeExecuteBefore(e)
               \/ \E outcome \in Outcomes : workflowExecuteAfter(e, outcome)
        <3>1. row' = row /\ late' = late /\ HasEngine(e) /\ HasEngine(e)'
            BY <2>3 DEF workflowExecuteBefore, nodeExecuteBefore, workflowExecuteAfter, Replace,
                        HasEngine
        <3> QED BY <1>0, <3>1 DEF IInv, Handled, EndIsNew, Overwrites
    <2>4. ASSUME NEW outcome \in Outcomes, saveExecution(e, outcome)
          PROVE  Handled(e)' /\ EndIsNew(e)'
        <3>1. row'[e].status = outcome /\ (outcome \in Ended => e \in late')
            BY <1>0, <2>4 DEF TypeOK, saveExecution
        <3> QED BY <3>1 DEF Handled, EndIsNew
    <2> QED BY <2>1, <2>2, <2>3, <2>4 DEF Engine
<1> QED BY <1>2, <1>4, <1>5

LEMMA DownInv ==
    ASSUME IInv, Down
    PROVE  Phases' /\ \A f \in Executions : Handled(f)' /\ EndIsNew(f)'
BY RecoveryAssumption
   DEF Down, Phases, Handled, EndIsNew, Overwrites, HasEngine, BeforeQuery, NotAmending

LEMMA RecoverInv ==
    ASSUME IInv, NEW e \in Executions, Recover(e), ~OutOfMemory(e)
    PROVE  Phases' /\ \A f \in Executions : Handled(f)' /\ EndIsNew(f)'
<1>0. TypeOK /\ UNCHANGED <<engines, boot, found, late>>
    BY DEF IInv, Recover, amend, amendWithoutLogs, findSingleExecution,
           updateExistingExecution, runHooks
<1>1. left' \subseteq left /\ \A f \in Executions : f # e => (f \in left' <=> f \in left)
    BY DEF Recover, amend, amendWithoutLogs, findSingleExecution, updateExistingExecution,
           runHooks, Dropped
<1>2. boot \notin BeforeQuery
    BY RecoveryAssumption
       DEF IInv, Phases, Recover, amend, amendWithoutLogs, findSingleExecution,
           updateExistingExecution, runHooks, BeforeQuery, NotAmending
<1>3. Phases'
    BY <1>0, <1>1, <1>2 DEF IInv, Phases, BeforeQuery
<1>4. ASSUME NEW f \in Executions, f # e PROVE Handled(f)' /\ EndIsNew(f)'
    <2>1. row'[f] = row[f]
        BY <1>0, <1>4 DEF TypeOK, Recover, amend, amendWithoutLogs, findSingleExecution,
                          updateExistingExecution, runHooks
    <2>2. amending' = NotAmending \/ amending'.exec = e
        <3>1. CASE amend(e)
            BY <3>1 DEF amend, Dropped
        <3>2. CASE amendWithoutLogs(e) \/ updateExistingExecution(e)
            <4>1. amending \in Amendings /\ amending.exec = e
                BY <1>0, <3>2 DEF TypeOK, Amendings, amendWithoutLogs, updateExistingExecution
            <4>2. \E step \in {"reread", "hooks"} : amending' = [amending EXCEPT !.at = step]
                BY <3>2 DEF amendWithoutLogs, updateExistingExecution, AmendAt
            <4>3. \A a \in Amendings, step \in {"reread", "hooks"} :
                    [a EXCEPT !.at = step].exec = a.exec
                BY DEF Amendings
            <4> QED BY <4>1, <4>2, <4>3
        <3>3. CASE findSingleExecution(e)
            <4>1. amending \in Amendings /\ amending.exec = e
                BY <1>0, <3>3 DEF TypeOK, Amendings, findSingleExecution
            <4>2. \/ amending' = NotAmending
                  \/ amending' = [amending EXCEPT !.at = "amended", !.waitTill = row[e].waitTill]
                BY <3>3 DEF findSingleExecution, Dropped
            <4>3. \A a \in Amendings, w \in BOOLEAN :
                    [a EXCEPT !.at = "amended", !.waitTill = w].exec = a.exec
                BY DEF Amendings
            <4>4. row[e].waitTill \in BOOLEAN
                BY <1>0 DEF TypeOK
            <4> QED BY <4>1, <4>2, <4>3, <4>4
        <3>4. CASE runHooks(e)
            BY <3>4 DEF runHooks, Dropped
        <3> QED BY <3>1, <3>2, <3>3, <3>4 DEF Recover
    <2>3. amending'.exec # f
        BY <1>4, <2>2, RecoveryAssumption DEF NotAmending
    <2> QED BY <1>0, <1>1, <1>4, <2>1, <2>3 DEF IInv, Handled, EndIsNew, Overwrites, HasEngine
<1>5. Handled(e)' /\ EndIsNew(e)'
    <2>1. CASE amend(e)
        <3>1. row' = row /\ (left' = left \/ found[e] = "started")
            BY <2>1 DEF amend, Dropped
        <3>2. amending'.exec = e /\ amending'.at \in Writing => found[e] = "none" /\ e \in left
            BY <1>0, <2>1, RecoveryAssumption DEF TypeOK, amend, Dropped, NotAmending, Writing
        <3> QED BY <1>0, <1>1, <3>1, <3>2 DEF IInv, Handled, EndIsNew, Overwrites, HasEngine
    <2>2. CASE amendWithoutLogs(e) \/ updateExistingExecution(e)
        <3>1. row'[e].status = "crashed"
            BY <1>0, <2>2 DEF TypeOK, amendWithoutLogs, updateExistingExecution
        <3> QED BY <3>1 DEF Handled, EndIsNew, Ended
    <2>3. CASE runHooks(e)
        <3>1. row'[e].status \in {"crashed", "waiting"}
            BY <1>0, <2>3 DEF TypeOK, runHooks, determineFinalExecutionStatus
        <3> QED BY <3>1 DEF Handled, EndIsNew, Ended
    <2>4. CASE findSingleExecution(e)
        <3>1. CASE amending.at = "logged" /\ Finished(e)
            <4>1. row' = row /\ row[e].status \in Ended /\ amending' = NotAmending
                BY <2>4, <3>1 DEF findSingleExecution, Dropped, Finished
            <4> QED BY <1>0, <1>1, <4>1, RecoveryAssumption
                    DEF IInv, Handled, EndIsNew, Overwrites, HasEngine, Ended, NotAmending
        <3>2. CASE ~(amending.at = "logged" /\ Finished(e))
            <4>1. row' = row /\ left' = left /\ amending.exec = e
                BY <2>4, <3>2 DEF findSingleExecution
            <4>2. row[e].status \in Ended => amending.at \in Writing
                BY <2>4, <3>2 DEF findSingleExecution, Finished, Writing
            <4> QED BY <1>0, <4>1, <4>2 DEF IInv, Handled, EndIsNew, Overwrites, HasEngine
        <3> QED BY <3>1, <3>2
    <2> QED BY <2>1, <2>2, <2>3, <2>4 DEF Recover
<1> QED BY <1>3, <1>4, <1>5

LEMMA StartupInv ==
    ASSUME IInv, Startup
    PROVE  Phases' /\ \A f \in Executions : Handled(f)' /\ EndIsNew(f)'
<1>0. TypeOK
    BY DEF IInv
<1>1. CASE start
    <2>1. engines' = {} /\ left' = {} /\ amending' = NotAmending /\ boot' = "starting"
        BY <1>1 DEF IInv, start, Phases, BeforeQuery
    <2> QED BY <2>1, RecoveryAssumption
            DEF Phases, Handled, EndIsNew, Overwrites, HasEngine, BeforeQuery, NotAmending
<1>2. CASE getUnsentAndUnfinishedExecutions
    BY <1>2, RecoveryAssumption
       DEF IInv, getUnsentAndUnfinishedExecutions, Phases, Handled, EndIsNew, Overwrites,
           HasEngine, BeforeQuery, NotAmending
<1>3. CASE findUnfinished
    <2>1. Phases'
        BY <1>3 DEF IInv, findUnfinished, Phases, BeforeQuery
    <2>2. ASSUME NEW f \in Executions PROVE Handled(f)' /\ EndIsNew(f)'
        <3>1. /\ UNCHANGED <<row, engines, found, amending, late>>
              /\ row[f].status = "running" => f \in left'
              /\ f \in left' /\ found[f] = "none" => row[f].status = "running"
            BY <1>3 DEF findUnfinished, UnfinishedIds
        <3> QED BY <3>1 DEF IInv, Handled, EndIsNew, Overwrites, HasEngine, Ended
    <2> QED BY <2>1, <2>2
<1>4. CASE skipRecovery \/ startRecoveryProcess \/ endRecoveryProcess
    <2>1. /\ UNCHANGED <<row, engines, found, left, amending, late>>
          /\ boot \notin BeforeQuery /\ boot' \notin BeforeQuery
          /\ boot' = "up" => left = {}
        BY <1>4 DEF skipRecovery, startRecoveryProcess, endRecoveryProcess, BeforeQuery
    <2> QED BY <2>1 DEF IInv, Phases, Handled, EndIsNew, Overwrites, HasEngine, BeforeQuery
<1>5. CASE markAsCrashed
    <2>1. Phases'
        BY <1>5 DEF markAsCrashed, Phases, BeforeQuery
    <2>2. ASSUME NEW f \in Executions PROVE Handled(f)' /\ EndIsNew(f)'
        <3>1. /\ UNCHANGED <<engines, found, amending, late>>
              /\ left' = {} /\ boot \notin BeforeQuery
              /\ IF f \in left THEN row'[f].status = "crashed" ELSE row'[f] = row[f]
            BY <1>0, <1>5 DEF TypeOK, markAsCrashed, BeforeQuery
        <3> QED BY <3>1 DEF IInv, Handled, EndIsNew, Overwrites, HasEngine, Ended
    <2> QED BY <2>1, <2>2
<1>6. ASSUME NEW e \in Executions, Recover(e)
      PROVE  Phases' /\ \A f \in Executions : Handled(f)' /\ EndIsNew(f)'
    BY <1>6, RecoverInv, DownInv DEF OutOfMemory
<1> QED BY <1>1, <1>2, <1>3, <1>4, <1>5, <1>6 DEF Startup

LEMMA InvStep == IInv /\ [Next]_vars => IInv'
<1> SUFFICES ASSUME IInv, [Next]_vars PROVE IInv'
    OBVIOUS
<1>0. TypeOK'
    BY TypeStep DEF IInv
<1>1. CASE UNCHANGED vars \/ Thread
    <2>1. UNCHANGED <<row, engines, boot, found, left, amending, late>>
        BY <1>1 DEF vars, recovery, Thread, startLogging, createFlag, removeFlag,
                    appendMessageToLog, Handle
    <2> QED BY <1>0, <2>1 DEF IInv, Phases, Handled, EndIsNew, Overwrites, HasEngine
<1>2. CASE Crash
    BY <1>0, <1>2, DownInv DEF Crash, IInv
<1>3. ASSUME NEW e \in Executions, Engine(e) PROVE IInv'
    BY <1>0, <1>3, EngineInv DEF IInv
<1>4. CASE Startup
    BY <1>0, <1>4, StartupInv DEF IInv
<1> QED BY <1>1, <1>2, <1>3, <1>4 DEF Next

\* After a start every execution that says that it runs has an engine, but for
\* those that amend() leaves alone as they reached no node.
THEOREM NoOrphanRunsHolds == Spec => []NoOrphanRuns
<1>1. IInv => NoOrphanRuns
    BY DEF IInv, Phases, Handled, NoOrphanRuns, BeforeQuery
<1> QED BY InvInit, InvStep, <1>1, PTL DEF Spec

\* One step keeps the ends that were there when the process started.
LEMMA EndsStep ==
    ASSUME IInv, [Next]_vars, NEW e \in Executions,
           row[e].status \in Ended, row'[e].status # row[e].status, e \notin late
    PROVE  boot = "marking"
<1>0. TypeOK /\ ~Overwrites(e)
    BY DEF IInv, EndIsNew
<1>1. CASE UNCHANGED vars \/ Thread \/ Crash
    BY <1>1 DEF vars, Thread, startLogging, createFlag, removeFlag, appendMessageToLog, Handle,
                Crash, Down
<1>2. ASSUME NEW f \in Executions, Engine(f) PROVE FALSE
    <2>1. f = e
        BY <1>0, <1>2 DEF TypeOK, Engine, Begin, Resume, Stop, workflowExecuteBefore,
                          nodeExecuteBefore, workflowExecuteAfter, saveExecution
    <2>2. ~Begin(e) /\ ~Resume(e) /\ ~Stop(e)
        BY DEF Begin, Resume, Stop, Ended
    <2>3. ASSUME NEW outcome \in Outcomes, saveExecution(e, outcome) PROVE FALSE
        BY <1>0, <2>3 DEF saveExecution, Overwrites, HasEngine, EngineStates
    <2> QED BY <1>2, <2>1, <2>2, <2>3
            DEF Engine, workflowExecuteBefore, nodeExecuteBefore, workflowExecuteAfter
<1>3. ASSUME NEW f \in Executions, Recover(f) PROVE FALSE
    <2>1. f = e
        BY <1>0, <1>3 DEF TypeOK, Recover, amend, amendWithoutLogs, findSingleExecution,
                          updateExistingExecution, runHooks, OutOfMemory, Down
    <2>2. CASE amendWithoutLogs(e) \/ updateExistingExecution(e) \/ runHooks(e)
        BY <1>0, <2>2 DEF amendWithoutLogs, updateExistingExecution, runHooks, Overwrites, Writing
    <2> QED BY <1>3, <2>1, <2>2 DEF Recover, amend, findSingleExecution, OutOfMemory, Down
<1>4. CASE start \/ getUnsentAndUnfinishedExecutions \/ findUnfinished \/ skipRecovery
           \/ startRecoveryProcess \/ endRecoveryProcess
    BY <1>4 DEF start, getUnsentAndUnfinishedExecutions, findUnfinished, skipRecovery,
                startRecoveryProcess, endRecoveryProcess
<1>5. CASE markAsCrashed
    BY <1>5 DEF markAsCrashed
<1> QED BY <1>1, <1>2, <1>3, <1>4, <1>5 DEF Next, Startup

\* No recovery overwrites an end that was there when the process started, but
\* the one after a recovery that was cut short, or in the mode 'simple'.
THEOREM EndsBeforeStartStayHolds == Spec => EndsBeforeStartStay
<1>1. IInv /\ [Next]_vars =>
        [\A e \in Executions : row[e].status \in Ended /\ row'[e].status # row[e].status
            => boot = "marking" \/ e \in late]_vars
    BY EndsStep
<1> QED BY InvInit, InvStep, <1>1, PTL DEF Spec, EndsBeforeStartStay
=============================================================================
