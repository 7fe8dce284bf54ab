----------------------------- MODULE TaskBroker -----------------------------
(***************************************************************************)
(* The task broker and the task requester of an n8n process, with the task *)
(* runners connected to it.                                                *)
(*                                                                         *)
(*   packages/cli/src/task-runners/task-broker/task-broker.service.ts       *)
(*   packages/cli/src/task-runners/task-broker/task-broker-ws-server.ts     *)
(*   packages/cli/src/task-runners/task-managers/task-requester.ts          *)
(*   packages/cli/src/task-runners/task-managers/local-task-requester.ts    *)
(*                                                                         *)
(* A Code node calls startTask() of the requester and awaits the result.    *)
(* The requester asks the broker for a runner; the broker matches requests  *)
(* with the offers of the runners (settleTasks), asks the runner to accept, *)
(* tells the requester, and passes the settings on. Requester and broker    *)
(* call each other in one process: a message between them is handled, with  *)
(* the promises it settles, before the next event. One event, a message of  *)
(* a runner, a timer or a call of the requester, is one action.             *)
(*                                                                         *)
(* Tasks are of one type, as are offers and requests. A request stands for  *)
(* the one startTask() call that makes it. A task is named by the runner    *)
(* and the offer it was created for.                                        *)
(***************************************************************************)
EXTENDS TaskRunner

CONSTANTS
    Requests,       \* calls of startTask
    None,           \* no request, no task
    InternalMode    \* the runners are child processes of n8n

Tasks == Runners \X OfferIds

ASSUME NoneAssumption == None \notin Requests \cup Tasks
ASSUME ModeAssumption == InternalMode \in BOOLEAN

VARIABLES
    pendingTaskOffers,      \* Seq(Tasks)
    pendingTaskRequests,    \* Seq(Requests)
    acceptInProgress,       \* requests with that flag set
    requestTimer,           \* requests with a timer
    accepting,  \* [Tasks -> Requests], acceptOffer awaits the runner's answer
    tasks,      \* [Tasks -> Requests], the broker's tasks
    settingsSent,   \* tasks in "tasks" that have a timer
    startTask   \* [Requests -> CallState], the caller's view

brokerVars == <<pendingTaskOffers, pendingTaskRequests, acceptInProgress,
                requestTimer, accepting, tasks, settingsSent, startTask>>
vars == <<runnerVars, brokerVars>>

\* The caller of startTask: not yet, awaits a runner, awaits the task's
\* result, and how it was answered
Answers   == {"done", "failed", "expired", "cancelled"}
CallState == [state : {"idle", "requested"} \cup Answers, task : {None}]
                \cup [state : {"waiting"}, task : Tasks]
Call(s)    == [state |-> s, task |-> None]
\* Mutant: the caller does not keep the task's ID
WaitingForAny(t) == [state |-> "waiting", task |-> None]
Waiting(t) == [state |-> "waiting", task |-> t]

TypeOK ==
    /\ RunnerTypeOK
    /\ pendingTaskOffers \in Seq(Tasks)
    /\ pendingTaskRequests \in Seq(Requests)
    /\ acceptInProgress \subseteq Requests
    /\ requestTimer \subseteq Requests
    /\ accepting \in [Tasks -> Requests \cup {None}]
    /\ tasks \in [Tasks -> Requests \cup {None}]
    /\ settingsSent \subseteq {t \in Tasks : tasks[t] # None}
    /\ startTask \in [Requests -> CallState]

Init ==
    /\ RunnerInit
    /\ pendingTaskOffers = <<>>
    /\ pendingTaskRequests = <<>>
    /\ acceptInProgress = {}
    /\ requestTimer = {}
    /\ accepting = [t \in Tasks |-> None]
    /\ tasks = [t \in Tasks |-> None]
    /\ settingsSent = {}
    /\ startTask = [q \in Requests |-> Call("idle")]

Known(r) == connection[r] \in {"open", "closing"}

\* What a runner's process that is gone is sent is lost
Deliver(r, messages) ==
    toRunner' = IF r \in up THEN [toRunner EXCEPT ![r] = @ \o messages] ELSE toRunner

\* The IDs nothing refers to: a new offer of the runner may have one of them
FreeOffers(r) ==
    {o \in OfferIds :
        /\ o \notin openOffers[r]
        /\ runningTasks[r][o] = "none"
        /\ accepting[<<r, o>>] = None /\ tasks[<<r, o>>] = None
        /\ ~Contains(pendingTaskOffers, <<r, o>>)
        /\ \A m \in ToSet(toRunner[r]) \cup ToSet(toBroker[r]) : m[2] # o}

RunnerStep(r) == RunnerNext(r, FreeOffers(r)) /\ UNCHANGED brokerVars

-----------------------------------------------------------------------------
(* settleTasks: in one go, every request no accept is in progress for takes *)
(* up the first offer that is left                                          *)

\* expireTasks first drops offers past their validity, but not a launcher's,
\* nor the one just received. A request that has been pushed again is the same
\* object: it takes up one offer. acceptOffer then messages the runners.
settleTasks(requests, offers, received) ==
    \E expired \in SUBSET {t \in ToSet(offers) \ received : t[1] \notin Launchers} :
        LET valid   == At(offers, {i \in DOMAIN offers : offers[i] \notin expired})
            waiting == At(requests, {i \in DOMAIN requests :
                                        /\ requests[i] \notin acceptInProgress
                                        /\ \A j \in 1..(i - 1) : requests[j] # requests[i]})
            taken   == DOMAIN valid \cap DOMAIN waiting
            accepts(r) == At(valid, {i \in taken : valid[i][1] = r})
        IN  /\ pendingTaskRequests' = requests
            /\ pendingTaskOffers' = At(valid, DOMAIN valid \ taken)
            /\ acceptInProgress' = acceptInProgress \cup {waiting[i] : i \in taken}
            /\ accepting' = [t \in Tasks |->
                    IF \E i \in taken : valid[i] = t
                    THEN waiting[CHOOSE i \in taken : valid[i] = t] ELSE accepting[t]]
            /\ toRunner' = [r \in Runners |->
                    IF r \notin up THEN toRunner[r]
                    ELSE toRunner[r] \o [i \in DOMAIN accepts(r) |->
                                            <<"taskofferaccept", accepts(r)[i][2]>>]]

-----------------------------------------------------------------------------
(* The requester                                                           *)

\* startTask, up to its first await: the broker's taskRequested, with a timer
StartTask(q) ==
    /\ startTask[q] = Call("idle")
    /\ startTask' = [startTask EXCEPT ![q] = Call("requested")]
    /\ requestTimer' = requestTimer \cup {q}
    /\ settleTasks(Append(pendingTaskRequests, q), pendingTaskOffers, {})
    /\ UNCHANGED <<up, connection, canSendOffers, openOffers, runningTasks,
                   taskTimer, code, toBroker, tasks, settingsSent>>

\* The broker's task is gone: cancelTask, failTask, taskDoneHandler,
\* taskErrorHandler. A timer that is left running finds nothing when it fires.
DeleteTasks(gone) ==
    /\ tasks' = [t \in Tasks |-> IF t \in gone THEN None ELSE tasks[t]]
    /\ settingsSent' = settingsSent \ gone

\* taskDone and taskError settle the callers that wait for these tasks
\* Mutant: callers of a task that is gone hear nothing
SettleNobody(gone, answer) == startTask
SettleCalls(gone, answer) ==
    [q \in Requests |-> IF startTask[q].task \in gone THEN Call(answer) ELSE startTask[q]]

\* cancelTasks, when the execution is cancelled: only tasks that have an ID
\* are known to belong to it, a request without a runner is left alone
CancelTasks(q) ==
    /\ startTask[q].state = "waiting"
    /\ LET t == startTask[q].task
       IN  /\ startTask' = [startTask EXCEPT ![q] = Call("cancelled")]
           /\ DeleteTasks({t})
           /\ IF tasks[t] # None THEN Deliver(t[1], <<<<"taskcancel", t[2]>>>>)
                                 ELSE UNCHANGED toRunner
    /\ UNCHANGED <<up, connection, canSendOffers, openOffers, runningTasks,
                   taskTimer, code, toBroker, pendingTaskOffers,
                   pendingTaskRequests, acceptInProgress, requestTimer, accepting>>

-----------------------------------------------------------------------------
(* The broker's handlers of the messages of a runner                       *)

BrokerReceives(r, type, o) ==
    /\ Known(r)
    /\ toBroker[r] # <<>>
    /\ Head(toBroker[r]) = <<type, o>>
    /\ toBroker' = [toBroker EXCEPT ![r] = Tail(@)]
    /\ UNCHANGED <<up, connection, canSendOffers, openOffers, runningTasks, taskTimer, code>>

taskOffered(r, o) ==
    /\ BrokerReceives(r, "taskoffer", o)
    /\ settleTasks(pendingTaskRequests, Append(pendingTaskOffers, <<r, o>>), {<<r, o>>})
    /\ UNCHANGED <<requestTimer, tasks, settingsSent, startTask>>

\* The part of acceptOffer after the runner's acceptance, with the requester's
\* taskReady. When the request has expired meanwhile, the task is left as it is.
\* When its caller has been answered, the requester cancels the task at once.
\* Otherwise the caller goes on, sends the settings and the runner gets them.
WithoutRequest(q) == RemoveFirst(pendingTaskRequests, q)

\* Mutant: taskReady does not look whether the caller still waits for a runner
TaskReadyAlways(q) == TRUE
TaskReady(q) == startTask[q].state = "requested"

handleRunnerAccept(r, o) ==
    /\ BrokerReceives(r, "taskaccepted", o)
    /\ LET t == <<r, o>>
           q == accepting[t]
       IN  \/ /\ q = None
              /\ UNCHANGED <<toRunner, brokerVars>>
           \/ /\ q # None
              /\ accepting' = [accepting EXCEPT ![t] = None]
              /\ requestTimer' = requestTimer \ {q}
              /\ UNCHANGED <<pendingTaskOffers, acceptInProgress>>
              /\ \/ /\ ~Contains(pendingTaskRequests, q)
                    /\ tasks' = [tasks EXCEPT ![t] = q]
                    /\ UNCHANGED <<pendingTaskRequests, settingsSent, startTask, toRunner>>
                 \/ /\ Contains(pendingTaskRequests, q)
                    /\ pendingTaskRequests' = WithoutRequest(q)
                    /\ IF TaskReady(q)
                       THEN /\ tasks' = [tasks EXCEPT ![t] = q]
                            /\ settingsSent' = settingsSent \cup {t}
                            /\ startTask' = [startTask EXCEPT ![q] = Waiting(t)]
                            /\ Deliver(r, <<<<"tasksettings", o>>>>)
                       ELSE /\ Deliver(r, <<<<"taskcancel", o>>>>)
                            /\ UNCHANGED <<tasks, settingsSent, startTask>>

\* acceptOffer gives up: the request waits for the next offer or request
AcceptFails(t) ==
    /\ accepting[t] # None
    /\ accepting' = [accepting EXCEPT ![t] = None]
    /\ acceptInProgress' = acceptInProgress \ {accepting[t]}
    /\ UNCHANGED <<toRunner, pendingTaskOffers, pendingTaskRequests,
                   requestTimer, tasks, settingsSent, startTask>>

handleRunnerReject(r, o) ==
    /\ BrokerReceives(r, "taskrejected", o)
    /\ AcceptFails(<<r, o>>) \/ (accepting[<<r, o>>] = None /\ UNCHANGED <<toRunner, brokerVars>>)

\* clearTimeout and createRequestTimeout
\* Mutant: the timer is cleared only
TimerCleared(q) == requestTimer \ {q}
TimerRestarted(q) == requestTimer \cup {q}

\* The request's timer starts anew, and the request is pushed once more
handleRunnerDeferred(r, o) ==
    /\ BrokerReceives(r, "taskdeferred", o)
    /\ LET q == accepting[<<r, o>>]
       IN  \/ q = None /\ UNCHANGED brokerVars
           \/ /\ q # None
              /\ accepting' = [accepting EXCEPT ![<<r, o>>] = None]
              /\ acceptInProgress' = acceptInProgress \ {q}
              /\ requestTimer' = TimerRestarted(q)
              /\ pendingTaskRequests' = Append(pendingTaskRequests, q)
              /\ UNCHANGED <<pendingTaskOffers, tasks, settingsSent, startTask>>
    /\ UNCHANGED toRunner

\* taskDoneHandler, taskErrorHandler
TaskEndHandler(r, o, type, answer) ==
    /\ BrokerReceives(r, type, o)
    /\ DeleteTasks({<<r, o>>})
    /\ startTask' = IF tasks[<<r, o>>] = None THEN startTask
                    ELSE SettleCalls({<<r, o>>}, answer)
    /\ UNCHANGED <<toRunner, pendingTaskOffers, pendingTaskRequests,
                   acceptInProgress, requestTimer, accepting>>

\* handleDataRequest, the requester's sendTaskData and its answer's way back;
\* node types and RPC calls take the same way. A task that the broker or the
\* requester no longer has gets no answer.
handleDataRequest(r, o) ==
    /\ BrokerReceives(r, "taskdatarequest", o)
    /\ IF \E q \in Requests : tasks[<<r, o>>] = q /\ startTask[q] = Waiting(<<r, o>>)
       THEN Deliver(r, <<<<"taskdataresponse", o>>>>)
       ELSE UNCHANGED toRunner
    /\ UNCHANGED brokerVars

onRunnerMessage(r) ==
    \E o \in OfferIds :
        \/ taskOffered(r, o)
        \/ handleRunnerAccept(r, o)
        \/ handleRunnerReject(r, o)
        \/ handleRunnerDeferred(r, o)
        \/ TaskEndHandler(r, o, "taskdone", "done")
        \/ TaskEndHandler(r, o, "taskerror", "failed")
        \/ handleDataRequest(r, o)

-----------------------------------------------------------------------------
(* The broker's timers                                                     *)

UnchangedRunners == UNCHANGED <<up, connection, canSendOffers, openOffers,
                                runningTasks, taskTimer, code, toBroker>>

\* The requester's requestExpired
requestExpired(q) ==
    IF startTask[q].state = "requested" THEN [startTask EXCEPT ![q] = Call("expired")]
    ELSE startTask

handleRequestTimeout(q) ==
    /\ q \in requestTimer
    /\ requestTimer' = requestTimer \ {q}
    /\ IF Contains(pendingTaskRequests, q)
       THEN /\ pendingTaskRequests' = WithoutRequest(q)
            /\ startTask' = requestExpired(q)
       ELSE UNCHANGED <<pendingTaskRequests, startTask>>
    /\ UNCHANGED <<toRunner, pendingTaskOffers, acceptInProgress, accepting,
                   tasks, settingsSent>>
    /\ UnchangedRunners

\* The two seconds a runner has to accept are over
AcceptTimeout(t) == AcceptFails(t) /\ UnchangedRunners

\* In internal mode the runner's process is killed instead (ProcessExit)
handleTaskTimeout(t) ==
    /\ t \in settingsSent
    /\ DeleteTasks({t})
    /\ startTask' = SettleCalls({t}, "failed")
    /\ IF InternalMode THEN UNCHANGED toRunner ELSE Deliver(t[1], <<<<"taskcancel", t[2]>>>>)
    /\ UNCHANGED <<pendingTaskOffers, pendingTaskRequests, acceptInProgress,
                   requestTimer, accepting>>
    /\ UnchangedRunners

-----------------------------------------------------------------------------
(* Connections                                                             *)

\* runner:info, registerRunner
registerRunner(r) ==
    /\ r \in up /\ connection[r] = "none"
    /\ connection' = [connection EXCEPT ![r] = "open"]
    /\ Deliver(r, <<<<"runnerregistered", 0>>>>)
    /\ UNCHANGED <<up, canSendOffers, openOffers, runningTasks, taskTimer,
                   code, toBroker, brokerVars>>

\* The close event of the socket: nothing is received any more. The analyzer
\* is awaited before the runner is deregistered.
ConnectionCloses(r) ==
    /\ r \notin up /\ connection[r] = "open"
    /\ connection' = [connection EXCEPT ![r] = "closing"]
    /\ toBroker' = [toBroker EXCEPT ![r] = <<>>]
    /\ UNCHANGED <<up, canSendOffers, openOffers, runningTasks, taskTimer,
                   code, toRunner, brokerVars>>

\* A runner that did not answer a ping, though it may still run: its messages
\* are handled while the analyzer is awaited
FailedHeartbeatCheck(r) ==
    /\ connection[r] = "open"
    /\ connection' = [connection EXCEPT ![r] = "closing"]
    /\ UNCHANGED <<up, canSendOffers, openOffers, runningTasks, taskTimer,
                   code, toRunner, toBroker, brokerVars>>

TasksOf(r) == {t \in Tasks : t[1] = r /\ tasks[t] # None}

\* Its handleRunnerReject finds nothing to reject: a task is in "tasks" only
\* when the runner has accepted it, an offer it was asked to accept times out
deregisterRunner(r) ==
    /\ connection[r] = "closing"
    /\ connection' = [connection EXCEPT ![r] = "closed"]
    /\ toBroker' = [toBroker EXCEPT ![r] = <<>>]
    /\ pendingTaskOffers' =
            At(pendingTaskOffers, {i \in DOMAIN pendingTaskOffers : pendingTaskOffers[i][1] # r})
    /\ DeleteTasks(TasksOf(r))
    /\ startTask' = SettleCalls(TasksOf(r), "failed")
    /\ Deliver(r, <<<<"close", 0>>>>)
    /\ UNCHANGED <<up, canSendOffers, openOffers, runningTasks, taskTimer, code,
                   pendingTaskRequests, acceptInProgress, requestTimer, accepting>>

Next ==
    \/ \E q \in Requests : StartTask(q) \/ CancelTasks(q) \/ handleRequestTimeout(q)
    \/ \E t \in Tasks : AcceptTimeout(t) \/ handleTaskTimeout(t)
    \/ \E r \in Runners : \/ onRunnerMessage(r)
                          \/ registerRunner(r)
                          \/ ConnectionCloses(r)
                          \/ FailedHeartbeatCheck(r)
                          \/ deregisterRunner(r)
                          \/ RunnerStep(r)

Spec == Init /\ [][Next]_vars

\* Events are handled, timers fire, the analyzer of a disconnect answers.
\* Nothing is assumed of the runners.
BrokerFairness ==
    /\ \A r \in Runners : /\ WF_vars(onRunnerMessage(r))
                          /\ WF_vars(ConnectionCloses(r))
                          /\ WF_vars(deregisterRunner(r))
    /\ \A q \in Requests : WF_vars(handleRequestTimeout(q))
    /\ \A t \in Tasks : WF_vars(AcceptTimeout(t)) /\ WF_vars(handleTaskTimeout(t))

\* A runner that runs handles its events and timers, and what has been
\* rejected ends. That user code ends by itself is not assumed.
RejectedCodeEnds(r, o) ==
    /\ code[r][o] = "rejected"
    /\ TaskExecutionEnds(r, o, "taskerror", FreeOffers(r))
    /\ UNCHANGED brokerVars

RunnerFairness ==
    \A r \in Runners :
        /\ WF_vars(RunnerReceive(r, FreeOffers(r)) /\ UNCHANGED brokerVars)
        /\ \A o \in OfferIds :
                /\ WF_vars(taskTimedOut(r, o, FreeOffers(r)) /\ UNCHANGED brokerVars)
                /\ WF_vars(RejectedCodeEnds(r, o))

BrokerSpec == Spec /\ BrokerFairness

-----------------------------------------------------------------------------
(* Safety                                                                  *)

\* A call that waits for a runner has its request pending, with the timer
\* that expires it; a call that waits for a result waits for a task that the
\* broker knows as this request's, with the timer that fails it. So whatever
\* the runners do, something is left that answers the call
\* (task-broker.service.ts, task-requester.ts startTask).
WaitingCallsHaveAnAnswerer ==
    \A q \in Requests :
        /\ startTask[q].state = "requested" =>
                Contains(pendingTaskRequests, q) /\ q \in requestTimer
        /\ startTask[q].state = "waiting" =>
                startTask[q].task \in settingsSent /\ tasks[startTask[q].task] = q

\* A runner never promises more than it has slots: its open offers and its
\* tasks together are at most maxConcurrency (task-runner.ts sendOffers,
\* offerAccepted, finishTask), whatever expires or is taken up late.
SlotsNotOverbooked ==
    \A r \in Runners \ Launchers :
        Cardinality(openOffers[r]) + Cardinality(Running(r)) <= MaxConcurrency

\* "These states should never happen" (task-runner.ts receivedSettings): a
\* task whose settings are on their way waits for them or is gone, and a task
\* that is on offer to a runner is not yet one of its tasks.
NoUnexpectedStatus ==
    \A r \in Runners : \A o \in OfferIds :
        /\ Contains(toRunner[r], <<"tasksettings", o>>) =>
                runningTasks[r][o] \in {"none", "waitingForSettings"}
        /\ Contains(toRunner[r], <<"taskofferaccept", o>>) =>
                runningTasks[r][o] = "none"

\* The broker never waits for a task that its runner has forgotten: while the
\* runner is there, the settings of the task are on their way to it, it
\* executes the task, or the result is on its way back.
NoForgottenTask ==
    \A t \in settingsSent :
        LET r == t[1]
            o == t[2]
        IN  r \in up /\ Known(r) =>
                \/ Contains(toRunner[r], <<"tasksettings", o>>)
                \/ runningTasks[r][o] \in {"running", "aborting:timeout"}
                \/ Contains(toBroker[r], <<"taskdone", o>>)
                \/ Contains(toBroker[r], <<"taskerror", o>>)

\* The code of a Code node is handed to a runner at most once for each call,
\* and only while the call waits for a runner, whatever requests are deferred,
\* accepted late, matched again or expired (acceptOffer, taskReady).
CodeRunsOncePerCall ==
    [][\A t \in settingsSent' \ settingsSent :
            LET q == tasks'[t]
            IN  /\ startTask[q].state = "requested"
                /\ \A u \in settingsSent : tasks[u] # q]_vars

(* Liveness                                                                *)

\* Every call of startTask is answered: with a result, an error, an expired
\* request or a cancellation (BrokerSpec: even if no runner does anything).
EveryCallAnswered ==
    \A q \in Requests : startTask[q].state = "requested" ~> startTask[q].state \in Answers

\* A slot of a runner that handles its events and timers does not stay taken:
\* "How long a task is allowed to take for completion, else the task will be
\* aborted" (task-runner.ts, taskTimeout), even if its code would never end.
\* With ContinueOnFail it does not hold: user code may be deaf.
SlotsFreed ==
    RunnerFairness =>
        \A r \in Runners : \A o \in OfferIds :
            runningTasks[r][o] # "none" ~> runningTasks[r][o] = "none"
=============================================================================
