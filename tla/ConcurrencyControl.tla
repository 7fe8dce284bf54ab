------------------------- MODULE ConcurrencyControl -------------------------
(***************************************************************************)
(* The concurrency control of a main instance in regular mode:             *)
(*   packages/cli/src/concurrency/concurrency-queue.ts                      *)
(*   packages/cli/src/concurrency/concurrency-control.service.ts            *)
(*                                                                         *)
(* Every production execution calls throttle() before it runs and          *)
(* release() when its post-execution promise settles. throttle() returns a *)
(* promise; the caller continues only when that promise resolves. A "run"  *)
(* is one such call, i.e. one call of WorkflowRunner.run().                 *)
(*                                                                         *)
(* The methods are synchronous between two awaits, hence one action each.  *)
(***************************************************************************)
EXTENDS Integers, Sequences, FiniteSets

CONSTANTS
    Executions,     \* execution IDs
    Runs,           \* calls of throttle()
    Mode,           \* [Executions -> Modes], the mode of an execution
    Limit           \* [QueueTypes -> Int], the configured limits; < 0: none

QueueTypes == {"production", "evaluation"}

\* The modes getQueue() knows, and the queue each counts towards.
ProductionModes == {"webhook", "trigger", "chat"}
UnlimitedModes  == {"error", "integrated", "cli", "internal", "manual", "retry"}
Modes == ProductionModes \cup UnlimitedModes \cup {"evaluation"}

ASSUME ModeAssumption  == Mode \in [Executions -> Modes]
ASSUME LimitAssumption == Limit \in [QueueTypes -> Int \ {0}]
ASSUME RunsAssumption  == IsFiniteSet(Runs)

\* The types that have a queue: the constructor makes one per positive limit.
Limited == {t \in QueueTypes : Limit[t] > 0}

\* getQueue(): the queue types an execution counts towards, at most one.
QueuesOf(e) ==
    {t \in Limited : \/ t = "production" /\ Mode[e] \in ProductionModes
                     \/ t = "evaluation" /\ Mode[e] = "evaluation"}

IsUnlimited(e) == QueuesOf(e) = {}

\* A queue item: the execution's ID and the run whose promise it resolves.
Item == [executionId : Executions, run : Runs]

VARIABLES
    isEnabled,  \* ConcurrencyControlService.isEnabled
    capacity,   \* [Limited -> Int], ConcurrencyQueue.capacity
    queue,      \* [Limited -> Seq(Item)], ConcurrencyQueue.queue
    granted,    \* [Limited -> SUBSET Runs], enqueue() resolved, not yet released
    dropped     \* [Limited -> SUBSET Runs], enqueue() promises that never settle

ccVars == <<isEnabled, capacity, queue, granted, dropped>>

CCTypeOK ==
    /\ isEnabled \in BOOLEAN
    /\ capacity \in [Limited -> Int]
    /\ queue \in [Limited -> Seq(Item)]
    /\ granted \in [Limited -> SUBSET Runs]
    /\ dropped \in [Limited -> SUBSET Runs]

CCInit ==
    /\ isEnabled = (Limited # {})
    /\ capacity = [t \in Limited |-> Limit[t]]
    /\ queue = [t \in Limited |-> << >>]
    /\ granted = [t \in Limited |-> {}]
    /\ dropped = [t \in Limited |-> {}]

Queued(t) == {queue[t][i].run : i \in 1..Len(queue[t])}

\* ConcurrencyControlService.has().
Has(e) == /\ isEnabled
          /\ \E t \in Limited : \E i \in 1..Len(queue[t]) :
                queue[t][i].executionId = e

-----------------------------------------------------------------------------
(* resolveNext(): the first item of q, if any, is taken off and its promise
   resolves.  The result is the pair <<rest of q, runs resolved>>.           *)
ResolveNext(q) ==
    IF q = << >> THEN <<q, {}>> ELSE <<Tail(q), {Head(q).run}>>

\* Mutant: the queue starts one call too late.
EnqueueLate(t, e, r) ==
    /\ capacity' = [capacity EXCEPT ![t] = @ - 1]
    /\ IF capacity[t] < 0
       THEN /\ queue' = [queue EXCEPT
                            ![t] = Append(@, [executionId |-> e, run |-> r])]
            /\ UNCHANGED granted
       ELSE /\ granted' = [granted EXCEPT ![t] = @ \cup {r}]
            /\ UNCHANGED queue
    /\ UNCHANGED <<isEnabled, dropped>>

\* ConcurrencyQueue.enqueue(), reached through throttle() of a limited mode.
Enqueue(t, e, r) ==
    /\ capacity' = [capacity EXCEPT ![t] = @ - 1]
    /\ IF capacity[t] - 1 < 0
       THEN /\ queue' = [queue EXCEPT
                            ![t] = Append(@, [executionId |-> e, run |-> r])]
            /\ UNCHANGED granted
       ELSE /\ granted' = [granted EXCEPT ![t] = @ \cup {r}]
            /\ UNCHANGED queue
    /\ UNCHANGED <<isEnabled, dropped>>

\* throttle() of run r for execution e.
Throttle(e, r) ==
    IF ~isEnabled \/ IsUnlimited(e)
    THEN UNCHANGED ccVars
    ELSE \E t \in QueuesOf(e) : Enqueue(t, e, r)

\* Mutant: no one is let through in return.
DequeueAlone(t, r) ==
    /\ capacity' = [capacity EXCEPT ![t] = @ + 1]
    /\ granted' = [granted EXCEPT ![t] = @ \ {r}]
    /\ UNCHANGED <<isEnabled, queue, dropped>>

\* ConcurrencyQueue.dequeue(): run r gives its slot back.
Dequeue(t, r) ==
    LET next == ResolveNext(queue[t]) IN
    /\ capacity' = [capacity EXCEPT ![t] = @ + 1]
    /\ queue' = [queue EXCEPT ![t] = next[1]]
    /\ granted' = [granted EXCEPT ![t] = (@ \ {r}) \cup next[2]]
    /\ UNCHANGED <<isEnabled, dropped>>

\* release() by run r of execution e.
Release(e, r) ==
    IF ~isEnabled \/ IsUnlimited(e)
    THEN UNCHANGED ccVars
    ELSE \E t \in QueuesOf(e) : Dequeue(t, r)

\* The queue without its i-th item, Array.splice(i, 1).
Without(q, i) == SubSeq(q, 1, i - 1) \o SubSeq(q, i + 1, Len(q))

\* findIndex(): the position of the first item of execution e in queue t.
IsFirstOf(t, e, i) ==
    /\ i \in 1..Len(queue[t])
    /\ queue[t][i].executionId = e
    /\ \A j \in 1..(i - 1) : queue[t][j].executionId # e

\* ConcurrencyQueue.remove(): besides the item itself, the next one leaves too.
RemoveAt(t, i) ==
    LET next == ResolveNext(Without(queue[t], i)) IN
    /\ capacity' = [capacity EXCEPT ![t] = @ + 1]
    /\ queue' = [queue EXCEPT ![t] = next[1]]
    /\ granted' = [granted EXCEPT ![t] = @ \cup next[2]]
    /\ dropped' = [dropped EXCEPT ![t] = @ \cup {queue[t][i].run}]
    /\ UNCHANGED isEnabled

\* remove() of execution e; without effect when e is not queued.
Remove(e) ==
    IF isEnabled /\ \E t \in QueuesOf(e) : \E i \in 1..Len(queue[t]) :
                        queue[t][i].executionId = e
    THEN \E t \in QueuesOf(e) : \E i \in 1..Len(queue[t]) :
            IsFirstOf(t, e, i) /\ RemoveAt(t, i)
    ELSE UNCHANGED ccVars

\* disable(), called by ActiveExecutions.shutdown().
Disable == isEnabled' = FALSE /\ UNCHANGED <<capacity, queue, granted, dropped>>

\* A new process constructs the service again; nothing in memory survives.
Reset ==
    /\ isEnabled' = (Limited # {})
    /\ capacity' = [t \in Limited |-> Limit[t]]
    /\ queue' = [t \in Limited |-> << >>]
    /\ granted' = [t \in Limited |-> {}]
    /\ dropped' = [t \in Limited |-> {}]

-----------------------------------------------------------------------------
(***************************************************************************)
(* The service with callers that keep its contract: a run throttles at     *)
(* most once at a time, and only a run that was let through releases.      *)
(* ExecutionLifecycle is checked to be such a caller.                       *)
(***************************************************************************)
Unknown(r) == \A t \in Limited : r \notin Queued(t) \cup granted[t] \cup dropped[t]

MayRelease(e, r) == \A t \in QueuesOf(e) : r \in granted[t]

CCNext ==
    \/ \E e \in Executions, r \in Runs : Unknown(r) /\ Throttle(e, r)
    \/ \E e \in Executions, r \in Runs : (isEnabled => MayRelease(e, r)) /\ Release(e, r)
    \/ \E e \in Executions : Remove(e)
    \/ Disable
    \/ Reset

CCSpec == CCInit /\ [][CCNext]_ccVars

-----------------------------------------------------------------------------
(* Each queue's capacity is its limit less the runs let through and those
   queued: no caller's slot is counted twice or lost by the service itself
   (concurrency-queue.ts:22-55).                                             *)
CapacityAccounting ==
    \A t \in Limited :
        capacity[t] = Limit[t] - Cardinality(granted[t]) - Len(queue[t])

(* A run is only kept in the queue while as many runs as the limit allows
   hold a slot: a release or a removal never leaves capacity idle behind a
   waiting run (resolveNext(), concurrency-queue.ts:65-75).                   *)
WorkConserving ==
    \A t \in Limited :
        queue[t] # << >> => Cardinality(granted[t]) >= Limit[t]

(* More runs than the limit are let through only as far as queued runs were
   removed: each removal admits at most one run too many
   (concurrency-queue.ts:45-55).                                             *)
OverAdmissionBounded ==
    \A t \in Limited :
        Cardinality(granted[t]) <= Limit[t] + Cardinality(dropped[t])
=============================================================================
