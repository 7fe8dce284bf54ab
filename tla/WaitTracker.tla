----------------------------- MODULE WaitTracker -----------------------------
(***************************************************************************)
(* packages/cli/src/wait-tracker.ts, with what it meets: executions that   *)
(* wait in the database, the leadership that starts and stops it on one of *)
(* several mains, webhooks that resume the same executions, and stops.     *)
(*                                                                         *)
(* The leader polls the database for executions that are due soon, sets a  *)
(* timer for each and resumes it when the timer fires.  Time passes in     *)
(* ticks; an event loop fires timers in time, but the database may take    *)
(* any time to answer.  Which main is the leader follows Leadership.       *)
(* What happens to a run that is stopped is in ExecutionLifecycle: here an *)
(* execution is stopped while it waits.                                    *)
(***************************************************************************)
EXTENDS Naturals, Leadership

CONSTANTS
    Executions,
    MaxWaits,       \* how often an execution waits
    Delays,         \* for how many ticks it may
    PollInterval,   \* of mainTimer
    Horizon,        \* how far ahead the query looks
    Never,          \* instead of ticks: a wait without end, nothing found
    LeadsAgain      \* whether a main takes over a second time in its life

\* The Wait node keeps shorter waits in memory (65 s, polled every 60 s), and
\* the query looks past the next poll (70 s).
ASSUME TrackerAssumption ==
    /\ MaxWaits \in Nat /\ Never \in Nat
    /\ PollInterval \in Nat /\ PollInterval > 0
    /\ Delays \subseteq Nat /\ \A d \in Delays : PollInterval < d /\ d < Never
    /\ Horizon \in Nat /\ PollInterval <= Horizon /\ Horizon < Never
    /\ LeadsAgain \in BOOLEAN

VARIABLES
    row,            \* the executions' rows: status, waitTill, number of the wait
    led,            \* whether a main has been leader since it started
    poll,           \* a main's interval: ticks until it elapses
    sent,           \* a main has sent the query
    answered,       \* what the query has found and the main not yet seen
    timers,         \* waitingExecutions of a main
    resuming,       \* a main's calls of startExecution or executeWebhook
    overtaken       \* ghost: executions resumed while something else was about to

tracking == <<led, poll, sent, answered>>
vars == <<serving, row, tracking, timers, resuming, overtaken>>

\* waitTill is the ticks left.
Rows == [status : {"running", "waiting", "success", "canceled"},
         wait : 0..MaxWaits, waitTill : 0..Never]

\* An entry without a timer is left behind by stopTracking().
Entries == [state : {"none", "armed", "dead"}, left : 0..Never]
NoEntry == [state |-> "none", left |-> 0]

\* A call that resumes an execution; of wait 0 until it has read the row.
\* Calls alike in all of this count as one.
Calls == [exec : Executions, by : {"timer", "webhook"}, wait : 0..MaxWaits]

NothingFound == [e \in Executions |-> Never]
NotTracking == Never

TypeOK ==
    /\ serving \subseteq Mains
    /\ row \in [Executions -> Rows]
    /\ led \in [Mains -> BOOLEAN]
    /\ poll \in [Mains -> 0..PollInterval \cup {NotTracking}]
    /\ sent \in [Mains -> BOOLEAN]
    /\ answered \in [Mains -> [Executions -> 0..Never]]
    /\ timers \in [Mains -> [Executions -> Entries]]
    /\ resuming \in [Mains -> SUBSET Calls]
    /\ overtaken \subseteq Executions

Init ==
    /\ LeadershipInit
    /\ row = [e \in Executions |-> [status |-> "running", wait |-> 0, waitTill |-> Never]]
    /\ led = [m \in Mains |-> FALSE]
    /\ poll = [m \in Mains |-> NotTracking]
    /\ sent = [m \in Mains |-> FALSE]
    /\ answered = [m \in Mains |-> NothingFound]
    /\ timers = [m \in Mains |-> [e \in Executions |-> NoEntry]]
    /\ resuming = [m \in Mains |-> {}]
    /\ overtaken = {}

-----------------------------------------------------------------------------
(* Leadership *)

\* Called by init() and on 'leader-takeover'.
startTracking(m) ==
    /\ TakeOver(m)
    /\ LeadsAgain \/ ~led[m]
    /\ led' = [led EXCEPT ![m] = TRUE]
    /\ poll' = [poll EXCEPT ![m] = PollInterval]
    /\ sent' = [sent EXCEPT ![m] = TRUE]
    /\ UNCHANGED <<row, answered, timers, resuming, overtaken>>

\* On 'leader-stepdown' and shutdown.  Timers are cleared, entries stay.
stopTracking(m) ==
    /\ StepDown(m)
    /\ poll' = [poll EXCEPT ![m] = NotTracking]
    /\ timers' = [timers EXCEPT ![m] =
        [e \in Executions |->
            IF @[e].state = "none" THEN NoEntry ELSE [state |-> "dead", left |-> 0]]]
    /\ UNCHANGED <<row, led, sent, answered, resuming, overtaken>>

\* The process dies and is started again.
Crash(m) ==
    /\ StepDown(m) \/ (m \notin serving /\ UNCHANGED serving)
    /\ led' = [led EXCEPT ![m] = FALSE]
    /\ poll' = [poll EXCEPT ![m] = NotTracking]
    /\ sent' = [sent EXCEPT ![m] = FALSE]
    /\ answered' = [answered EXCEPT ![m] = NothingFound]
    /\ timers' = [timers EXCEPT ![m] = [e \in Executions |-> NoEntry]]
    /\ resuming' = [resuming EXCEPT ![m] = {}]
    /\ UNCHANGED <<row, overtaken>>

-----------------------------------------------------------------------------
(* Time *)

\* Mutant: counts on below zero.
LaterAndBelow(ticks) == IF ticks = Never THEN ticks ELSE ticks - 1
Later(ticks) == IF ticks \in {0, Never} THEN ticks ELSE ticks - 1

\* A tick ends when everything that is due has been fired.
Tick ==
    /\ \A m \in Mains : poll[m] # 0
    /\ \A m \in Mains, e \in Executions : timers[m][e] # [state |-> "armed", left |-> 0]
    /\ row' = [e \in Executions |-> [row[e] EXCEPT !.waitTill = Later(@)]]
    /\ poll' = [m \in Mains |-> Later(poll[m])]
    /\ answered' = [m \in Mains |-> [e \in Executions |-> Later(answered[m][e])]]
    /\ timers' = [m \in Mains |-> [e \in Executions |-> [timers[m][e] EXCEPT !.left = Later(@)]]]
    /\ UNCHANGED <<serving, led, sent, resuming, overtaken>>

-----------------------------------------------------------------------------
(* Polling *)

\* The interval elapses: getWaitingExecutions() up to its await.
getWaitingExecutions(m) ==
    /\ poll[m] = 0
    /\ poll' = [poll EXCEPT ![m] = PollInterval]
    /\ sent' = [sent EXCEPT ![m] = TRUE]
    /\ UNCHANGED <<serving, row, led, answered, timers, resuming, overtaken>>

\* Mutant: finds only what is due already.
DueNow == [e \in Executions |-> IF row[e].waitTill = 0 THEN 0 ELSE Never]

\* ExecutionRepository.getWaitingExecutions(): what is due soon, whatever its
\* status; only a waiting execution has a waitTill.
DueSoon == [e \in Executions |-> IF row[e].waitTill <= Horizon THEN row[e].waitTill ELSE Never]

DatabaseAnswers(m) ==
    /\ sent[m]
    /\ answered[m] = NothingFound
    /\ sent' = [sent EXCEPT ![m] = FALSE]
    /\ answered' = [answered EXCEPT ![m] = DueSoon]
    /\ UNCHANGED <<serving, row, led, poll, timers, resuming, overtaken>>

\* The rest of it: a timer for each execution that has no entry, on a main
\* that need not be the leader any more.
\* Mutant: resumes what it finds at once.
AtOnce(m, e) == 0

TriggerTime(m, e) == answered[m][e]
SetTimers(m) ==
    /\ answered[m] # NothingFound
    /\ timers' = [timers EXCEPT ![m] =
        [e \in Executions |->
            IF answered[m][e] # Never /\ @[e].state = "none"
            THEN [state |-> "armed", left |-> TriggerTime(m, e)]
            ELSE @[e]]]
    /\ answered' = [answered EXCEPT ![m] = NothingFound]
    /\ UNCHANGED <<serving, row, led, poll, sent, resuming, overtaken>>

-----------------------------------------------------------------------------
(* Resuming *)

Fired(m, e) == [timers[m] EXCEPT ![e] = NoEntry]

\* A timer fires: startExecution() up to its first await.
startExecution(m, e) ==
    /\ timers[m][e] = [state |-> "armed", left |-> 0]
    /\ timers' = [timers EXCEPT ![m] = Fired(m, e)]
    /\ resuming' = [resuming EXCEPT ![m] = @ \cup {[exec |-> e, by |-> "timer", wait |-> 0]}]
    /\ UNCHANGED <<serving, row, tracking, overtaken>>

\* A request to a waiting webhook, on any main; one at a time.
executeWebhook(m, e) ==
    /\ \A n \in Mains : \A call \in resuming[n] : call.exec = e => call.by = "timer"
    /\ resuming' = [resuming EXCEPT ![m] = @ \cup {[exec |-> e, by |-> "webhook", wait |-> 0]}]
    /\ UNCHANGED <<serving, row, tracking, timers, overtaken>>

\* Which executions the two go on with.  The data read are those of the
\* current wait.
GoesOn(e, by) ==
    IF by = "timer" THEN row[e].status # "success" ELSE row[e].status = "waiting"

AfterRead(call) ==
    IF GoesOn(call.exec, call.by) THEN {[call EXCEPT !.wait = row[call.exec].wait]} ELSE {}

ReadExecution(m, call) ==
    /\ call \in resuming[m]
    /\ call.wait = 0
    /\ resuming' = [resuming EXCEPT ![m] = (@ \ {call}) \cup AfterRead(call)]
    /\ UNCHANGED <<serving, row, tracking, timers, overtaken>>

\* Something that may resume e later, other than this call.
Pending(e, m, call) ==
    \E n \in Mains :
        \/ timers[n][e].state = "armed"
        \/ answered[n][e] # Never
        \/ \E c \in resuming[n] : c.exec = e /\ <<n, c>> # <<m, call>>

\* Mutant: add() accepts any status but 'running'.
MayResumeUnlessRunning(e) == row[e].status # "running"

\* ActiveExecutions.add() of the run that continues the execution: its row
\* must still be waiting.  Otherwise the call ends.
MayResume(e) == row[e].status = "waiting"

add(m, call) ==
    LET e == call.exec
    IN  /\ call \in resuming[m]
        /\ call.wait # 0
        /\ resuming' = [resuming EXCEPT ![m] = @ \ {call}]
        /\ IF MayResume(e)
           THEN /\ row' = [row EXCEPT ![e].status = "running", ![e].waitTill = Never]
                /\ overtaken' = IF Pending(e, m, call) THEN overtaken \cup {e} ELSE overtaken
           ELSE UNCHANGED <<row, overtaken>>
        /\ UNCHANGED <<serving, tracking, timers>>

-----------------------------------------------------------------------------
(* Executions *)

\* A run ends by waiting, for a time or for a webhook only.
putToWait(e) ==
    /\ row[e].status = "running"
    /\ row[e].wait < MaxWaits
    /\ \E d \in Delays \cup {Never} :
        row' = [row EXCEPT ![e] = [status |-> "waiting", wait |-> @.wait + 1, waitTill |-> d]]
    /\ UNCHANGED <<serving, tracking, timers, resuming, overtaken>>

Finish(e) ==
    /\ row[e].status = "running"
    /\ row' = [row EXCEPT ![e].status = "success"]
    /\ UNCHANGED <<serving, tracking, timers, resuming, overtaken>>

\* ExecutionService.stop() on main m: its entry goes, another main's stays.
stop(m, e) ==
    /\ row[e].status = "waiting"
    /\ row' = [row EXCEPT ![e].status = "canceled", ![e].waitTill = Never]
    /\ timers' = [timers EXCEPT ![m][e] = NoEntry]
    /\ UNCHANGED <<serving, tracking, resuming, overtaken>>
-----------------------------------------------------------------------------
Next ==
    \/ Tick
    \/ \E m \in Mains :
        \/ startTracking(m) \/ stopTracking(m) \/ Crash(m)
        \/ getWaitingExecutions(m) \/ DatabaseAnswers(m) \/ SetTimers(m)
        \/ \E e \in Executions : startExecution(m, e) \/ executeWebhook(m, e) \/ stop(m, e)
        \/ \E call \in resuming[m] : ReadExecution(m, call) \/ add(m, call)
    \/ \E e \in Executions : putToWait(e) \/ Finish(e)

Spec == Init /\ [][Next]_vars

-----------------------------------------------------------------------------
(* Properties *)

\* Polls, horizon and shortest wait fit together: when a wait is over, the
\* leader has a query, a timer or a resumption of the execution under way.
DueIsInHand ==
    \A e \in Executions, m \in serving :
        row[e].status = "waiting" /\ row[e].waitTill = 0 =>
            \/ sent[m]
            \/ answered[m][e] # Never
            \/ timers[m][e].state = "armed"
            \/ \E call \in resuming[m] : call.exec = e

\* add(), requireStatus: an execution stopped while it waits never runs again,
\* though timers, queries and resumptions of it may be under way on any main.
StoppedStays ==
    [][\A e \in Executions : row[e].status = "canceled" => row'[e].status = "canceled"]_vars

\* "Add timers for each waiting execution that they get started at the correct
\* time": a timer resumes nothing early unless the execution was resumed by
\* something else meanwhile, of which the tracker is not told.
EarlyOnlyIfOvertaken ==
    [][\A e \in Executions :
        row[e].status = "waiting" /\ row[e].waitTill > 0 /\ row'[e].status = "running" =>
            \/ e \in overtaken'
            \/ \E m \in Mains, call \in Calls :
                call \in resuming[m] \ resuming'[m] /\ call.exec = e /\ call.by = "webhook"]_vars
=============================================================================
