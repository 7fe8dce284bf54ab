----------------------------- MODULE TaskRunner -----------------------------
(***************************************************************************)
(* Task runners: the processes that execute the code of Code nodes, as     *)
(* clients of the task broker.                                             *)
(*                                                                         *)
(*   packages/@n8n/task-runner/src/task-runner.ts                           *)
(*   packages/@n8n/task-runner/src/task-state.ts                            *)
(*   packages/@n8n/task-runner/src/js-task-runner/js-task-runner.ts         *)
(*                                                                         *)
(* A runner offers its free slots to the broker, accepts a task for an      *)
(* offer the broker took up, receives the settings of the task, executes    *)
(* it and sends the result. Runner and broker talk over one WebSocket, a    *)
(* FIFO channel in each direction. The broker names each task by a fresh    *)
(* ID when it takes up an offer, and no offer is taken up twice: the model  *)
(* names the task by the offer. An offer ID is used again only when nothing *)
(* refers to it any more (the IDs of the code are random and never repeat). *)
(***************************************************************************)
EXTENDS Integers, FiniteSets, Sequences, SequencesExt

CONSTANTS
    Runners,        \* runner IDs: a process has one, and connects once
    Launchers,      \* those that are a launcher, which defers its tasks
    OfferIds,       \* bound: offers of a runner anything may still refer to
    MaxConcurrency, \* slots of a runner
    ContinueOnFail  \* Code nodes run once for each item and continue on fail

ASSUME RunnersAssumption == Launchers \subseteq Runners
ASSUME OfferIdsAssumption == OfferIds \subseteq Nat \ {0} /\ IsFiniteSet(OfferIds)
ASSUME MaxConcurrencyAssumption == MaxConcurrency \in Nat \ {0}
ASSUME ContinueOnFailAssumption == ContinueOnFail \in BOOLEAN

VARIABLES
    up,             \* runner processes that run
    connection,     \* [Runners -> ConnectionState], as the broker sees it
    canSendOffers,  \* runners that send offers
    openOffers,     \* [Runners -> SUBSET OfferIds]
    runningTasks,   \* [Runners -> [OfferIds -> TaskStatus]]
    taskTimer,      \* [Runners -> SUBSET OfferIds], tasks with a timer
    code,           \* [Runners -> [OfferIds -> CodeState]], executeTask
    toRunner,       \* [Runners -> Seq(ToRunner)]
    toBroker        \* [Runners -> Seq(ToBroker)]

runnerVars == <<up, connection, canSendOffers, openOffers, runningTasks,
                taskTimer, code, toRunner, toBroker>>

ConnectionState == {"none", "open", "closing", "closed"}

\* "none": no such task
TaskStatus == {"none", "waitingForSettings", "running",
               "aborting:cancelled", "aborting:timeout"}

\* executeTask: awaits requested data, runs user code that listens to the
\* abort signal, runs user code that does not, has been rejected by an abort
CodeState == {"none", "data", "user", "deaf", "rejected"}

\* A message is its type and the offer, or task, it is about (0: none)
ToRunner == ({"runnerregistered", "close"} \X {0})
                \cup ({"taskofferaccept", "taskcancel", "tasksettings",
                       "taskdataresponse"} \X OfferIds)
ToBroker == {"taskoffer", "taskaccepted", "taskrejected", "taskdeferred",
             "taskdone", "taskerror", "taskdatarequest"} \X OfferIds

RunnerTypeOK ==
    /\ up \subseteq Runners
    /\ connection \in [Runners -> ConnectionState]
    /\ canSendOffers \subseteq Runners
    /\ openOffers \in [Runners -> SUBSET OfferIds]
    /\ runningTasks \in [Runners -> [OfferIds -> TaskStatus]]
    /\ taskTimer \in [Runners -> SUBSET OfferIds]
    /\ code \in [Runners -> [OfferIds -> CodeState]]
    /\ toRunner \in [Runners -> Seq(ToRunner)]
    /\ toBroker \in [Runners -> Seq(ToBroker)]

RunnerInit ==
    /\ up = Runners
    /\ connection = [r \in Runners |-> "none"]
    /\ canSendOffers = {}
    /\ openOffers = [r \in Runners |-> {}]
    /\ runningTasks = [r \in Runners |-> [o \in OfferIds |-> "none"]]
    /\ taskTimer = [r \in Runners |-> {}]
    /\ code = [r \in Runners |-> [o \in OfferIds |-> "none"]]
    /\ toRunner = [r \in Runners |-> <<>>]
    /\ toBroker = [r \in Runners |-> <<>>]

Running(r) == {o \in OfferIds : runningTasks[r][o] # "none"}

\* The elements of a finite set of numbers, smallest first, and those that a
\* sequence has at the positions in K. The proofs need both without recursion,
\* which is why they are not SetToSortSeq and SelectSeq.
InOrder(K) ==
    [n \in 1..Cardinality(K) |-> CHOOSE k \in K : Cardinality({j \in K : j <= k}) = n]
At(s, K) == [n \in 1..Cardinality(K) |-> s[InOrder(K)[n]]]

-----------------------------------------------------------------------------
(* Sending. What is sent on a connection that is gone is lost.             *)

Send(r, messages) ==
    toBroker' = IF connection[r] \in {"open", "closing"}
                THEN [toBroker EXCEPT ![r] = @ \o messages]
                ELSE toBroker

Receives(r, type, o) ==
    /\ r \in up
    /\ toRunner[r] # <<>>
    /\ Head(toRunner[r]) = <<type, o>>
    /\ toRunner' = [toRunner EXCEPT ![r] = Tail(@)]

\* How many offers a runner with these open offers and running tasks makes
\* Mutant: the tasks that run are forgotten
offersToSendIgnoringRunning(open, running) == MaxConcurrency - Cardinality(open)

offersToSend(open, running) ==
    MaxConcurrency - (Cardinality(open) + Cardinality(running))

\* sendOffers: stale offers are deleted, then the free slots offered. Which
\* offers are past their validity is a matter of time. "first" are messages
\* sent before, "free" the IDs that may name an offer.
sendOffers(r, running, first, free) ==
    \E stale \in SUBSET openOffers[r] :
        LET open  == openOffers[r] \ stale
            fresh == IF r \notin canSendOffers THEN {}
                     ELSE {o \in free : Cardinality({p \in free : p < o})
                                            < offersToSend(open, running)}
            ids   == InOrder(fresh)
        IN  /\ openOffers' = [openOffers EXCEPT ![r] = open \cup fresh]
            /\ Send(r, first \o [i \in DOMAIN ids |-> <<"taskoffer", ids[i]>>])

\* The interval of startTaskOffers
OfferInterval(r, free) ==
    /\ r \in up \cap canSendOffers
    /\ r \notin Launchers
    /\ sendOffers(r, Running(r), <<>>, free)
    /\ UNCHANGED <<up, connection, canSendOffers, runningTasks, taskTimer, code, toRunner>>

\* finishTask: the task leaves runningTasks, its timer is cleared and new
\* offers are sent, after the result in "first"
finishTask(r, o, first, free) ==
    /\ runningTasks' = [runningTasks EXCEPT ![r][o] = "none"]
    /\ taskTimer' = [taskTimer EXCEPT ![r] = @ \ {o}]
    /\ code' = [code EXCEPT ![r][o] = "none"]
    /\ sendOffers(r, Running(r) \ {o}, first, free)
    /\ UNCHANGED <<up, connection, canSendOffers>>

-----------------------------------------------------------------------------
(* Handlers of the broker's messages                                       *)

startTaskOffers(r) ==
    /\ r \notin Launchers
    /\ Receives(r, "runnerregistered", 0)
    /\ canSendOffers' = canSendOffers \cup {r}
    /\ UNCHANGED <<up, connection, openOffers, runningTasks, taskTimer, code, toBroker>>

\* On the close event of the socket
stopTaskOffers(r) ==
    /\ Receives(r, "close", 0)
    /\ canSendOffers' = canSendOffers \ {r}
    /\ UNCHANGED <<up, connection, openOffers, runningTasks, taskTimer, code, toBroker>>

\* offerAccepted turns down an offer it no longer has, or has no slot for
TurnsDown(r, o) ==
    \/ Cardinality(Running(r)) >= MaxConcurrency
    \/ o \notin openOffers[r]

offerAccepted(r, o) ==
    /\ r \notin Launchers
    /\ Receives(r, "taskofferaccept", o)
    /\ openOffers' = [openOffers EXCEPT ![r] = @ \ {o}]
    /\ IF TurnsDown(r, o)
       THEN /\ Send(r, <<<<"taskrejected", o>>>>)
            /\ UNCHANGED <<runningTasks, taskTimer>>
       ELSE /\ runningTasks' = [runningTasks EXCEPT ![r][o] = "waitingForSettings"]
            /\ taskTimer' = [taskTimer EXCEPT ![r] = @ \cup {o}]
            /\ Send(r, <<<<"taskaccepted", o>>>>)
    /\ UNCHANGED <<up, connection, canSendOffers, code>>

\* A settings message finds its task waiting, or gone; in any other status
\* caseOf throws. Then executeTask asks the requester for the task's data.
receivedSettings(r, o) ==
    /\ Receives(r, "tasksettings", o)
    /\ IF runningTasks[r][o] = "waitingForSettings"
       THEN /\ runningTasks' = [runningTasks EXCEPT ![r][o] = "running"]
            /\ code' = [code EXCEPT ![r][o] = "data"]
            /\ Send(r, <<<<"taskdatarequest", o>>>>)
       ELSE UNCHANGED <<runningTasks, code, toBroker>>
    /\ UNCHANGED <<up, connection, canSendOffers, openOffers, taskTimer>>

processDataResponse(r, o) ==
    /\ Receives(r, "taskdataresponse", o)
    /\ code' = [code EXCEPT ![r][o] = IF @ = "data" THEN "user" ELSE @]
    /\ UNCHANGED <<up, connection, canSendOffers, openOffers, runningTasks,
                   taskTimer, toBroker>>

\* abort() rejects the data request, or the user code that listens. Run once
\* for each item with continueOnFail, the rejection is the result of one item,
\* and the code of the next one listens to a signal that has already fired.
\* Mutant: the pending data requests of the task are not rejected
AbortsUserCodeOnly(r, o) ==
    IF code[r][o] = "data" THEN {"data"} ELSE {"rejected"}
Aborted(r, o) ==
    IF code[r][o] = "user" /\ ContinueOnFail THEN {"rejected", "deaf"} ELSE {"rejected"}

abort(r, o, status) ==
    /\ runningTasks' = [runningTasks EXCEPT ![r][o] = status]
    /\ \E c \in Aborted(r, o) : code' = [code EXCEPT ![r][o] = c]
    /\ UNCHANGED <<up, connection, canSendOffers, openOffers, toBroker>>

\* A task that waits for its settings is finished at once, on a cancellation
\* and on its timeout
\* Mutant: it is aborted, as if its code ran
AbortsAll(status) == FALSE
EndsAtOnce(status) == status = "waitingForSettings"

\* What the end of a task's code sends: a cancelled task sends nothing
\* Mutant: neither does a task that timed out
NothingAfterAbort(r, o, result) ==
    IF runningTasks[r][o] \in {"aborting:cancelled", "aborting:timeout"} THEN <<>>
    ELSE <<<<result, o>>>>
ResultMessage(r, o, result) ==
    IF runningTasks[r][o] = "aborting:cancelled" THEN <<>> ELSE <<<<result, o>>>>

taskCancelled(r, o, free) ==
    /\ Receives(r, "taskcancel", o)
    /\ IF EndsAtOnce(runningTasks[r][o]) THEN finishTask(r, o, <<>>, free)
       ELSE IF runningTasks[r][o] \in {"waitingForSettings", "running"}
       THEN abort(r, o, "aborting:cancelled") /\ UNCHANGED taskTimer
       ELSE UNCHANGED <<up, connection, canSendOffers, openOffers,
                        runningTasks, taskTimer, code, toBroker>>

-----------------------------------------------------------------------------
(* Timers, the end of the task's code, the end of the process              *)

taskTimedOut(r, o, free) ==
    /\ r \in up
    /\ o \in taskTimer[r]
    /\ UNCHANGED toRunner
    /\ IF EndsAtOnce(runningTasks[r][o])
       THEN finishTask(r, o, <<<<"taskerror", o>>>>, free)
       ELSE /\ taskTimer' = [taskTimer EXCEPT ![r] = @ \ {o}]
            /\ IF runningTasks[r][o] \in {"waitingForSettings", "running"}
               THEN abort(r, o, "aborting:timeout")
               ELSE UNCHANGED <<up, connection, canSendOffers, openOffers,
                                runningTasks, code, toBroker>>

\* taskExecutionSucceeded, taskExecutionFailed. Code that waits for data
\* cannot end, rejected code has failed; a cancelled task sends nothing.
TaskExecutionEnds(r, o, result, free) ==
    /\ r \in up
    /\ code[r][o] \in (IF result = "taskerror" THEN {"user", "deaf", "rejected"}
                                               ELSE {"user", "deaf"})
    /\ finishTask(r, o, ResultMessage(r, o, result), free)
    /\ UNCHANGED toRunner

\* User code asks for node types, or calls an RPC method, of the requester
RequestsMore(r, o) ==
    /\ r \in up
    /\ runningTasks[r][o] = "running" /\ code[r][o] = "user"
    /\ code' = [code EXCEPT ![r][o] = "data"]
    /\ Send(r, <<<<"taskdatarequest", o>>>>)
    /\ UNCHANGED <<up, connection, canSendOffers, openOffers, runningTasks,
                   taskTimer, toRunner>>

\* stop() on a signal or on the idle timeout
StopSignal(r) ==
    /\ r \in up \cap canSendOffers
    /\ canSendOffers' = canSendOffers \ {r}
    /\ UNCHANGED <<up, connection, openOffers, runningTasks, taskTimer, code,
                   toRunner, toBroker>>

\* The process is gone: stopped, crashed, out of memory, or killed by n8n
ProcessExit(r) ==
    /\ r \in up
    /\ up' = up \ {r}
    /\ canSendOffers' = canSendOffers \ {r}
    /\ openOffers' = [openOffers EXCEPT ![r] = {}]
    /\ runningTasks' = [runningTasks EXCEPT ![r] = [o \in OfferIds |-> "none"]]
    /\ taskTimer' = [taskTimer EXCEPT ![r] = {}]
    /\ code' = [code EXCEPT ![r] = [o \in OfferIds |-> "none"]]
    /\ toRunner' = [toRunner EXCEPT ![r] = <<>>]
    /\ UNCHANGED <<connection, toBroker>>

\* The launcher, which is not part of this repository: once registered it
\* offers one task, and defers the task when the offer is taken up.
LauncherStep(r, free) ==
    /\ r \in Launchers
    /\ \/ /\ Receives(r, "runnerregistered", 0)
          /\ \E o \in free : Send(r, <<<<"taskoffer", o>>>>)
       \/ \E o \in OfferIds : /\ Receives(r, "taskofferaccept", o)
                              /\ Send(r, <<<<"taskdeferred", o>>>>)
    /\ UNCHANGED <<up, connection, canSendOffers, openOffers, runningTasks, taskTimer, code>>

RunnerReceive(r, free) ==
    \/ startTaskOffers(r)
    \/ stopTaskOffers(r)
    \/ LauncherStep(r, free)
    \/ \E o \in OfferIds :
            \/ offerAccepted(r, o)
            \/ receivedSettings(r, o)
            \/ processDataResponse(r, o)
            \/ taskCancelled(r, o, free)

RunnerNext(r, free) ==
    \/ RunnerReceive(r, free)
    \/ OfferInterval(r, free)
    \/ StopSignal(r)
    \/ ProcessExit(r)
    \/ \E o \in OfferIds :
            \/ taskTimedOut(r, o, free)
            \/ RequestsMore(r, o)
            \/ \E result \in {"taskdone", "taskerror"} :
                    TaskExecutionEnds(r, o, result, free)
=============================================================================
