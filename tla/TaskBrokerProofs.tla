-------------------------- MODULE TaskBrokerProofs --------------------------
(***************************************************************************)
(* Proofs about the task runners under the broker, for any number of       *)
(* runners, launchers, offers, requests and slots.                         *)
(***************************************************************************)
EXTENDS TaskBroker, FiniteSetTheorems, SequenceTheorems, TLAPS

\* A runner's offers and tasks, and that together they fit its slots.
Taken(r) == Cardinality(openOffers[r]) + Cardinality(Running(r))

SlotTypes ==
    /\ openOffers \in [Runners -> SUBSET OfferIds]
    /\ runningTasks \in [Runners -> [OfferIds -> TaskStatus]]

SlotInv == SlotTypes /\ \A r \in Runners : Taken(r) <= MaxConcurrency

-----------------------------------------------------------------------------
(* Counting *)

LEMMA OfferSets ==
    ASSUME NEW S \in SUBSET OfferIds
    PROVE  IsFiniteSet(S) /\ Cardinality(S) \in Nat
BY OfferIdsAssumption, FS_Subset, FS_CardinalityType

\* The IDs with fewer than n smaller ones are at most n: each is told from the
\* others by how many are smaller.
LEMMA SmallestAreFew ==
    ASSUME NEW free \in SUBSET OfferIds, NEW n \in Nat
    PROVE  Cardinality({o \in free : Cardinality({p \in free : p < o}) < n}) <= n
<1> DEFINE below(o) == {p \in free : p < o}
           fresh    == {o \in free : Cardinality(below(o)) < n}
           rank     == [o \in fresh |-> Cardinality(below(o))]
<1>1. \A o \in free : below(o) \in SUBSET OfferIds /\ o \in Nat
    BY OfferIdsAssumption
<1>2. \A o \in free : IsFiniteSet(below(o)) /\ Cardinality(below(o)) \in Nat
    BY <1>1, OfferSets
<1>3. ASSUME NEW o \in free, NEW p \in free, o < p
      PROVE  Cardinality(below(o)) # Cardinality(below(p))
    <2>1. below(o) \in SUBSET below(p) /\ o \in below(p) /\ o \notin below(o)
        BY <1>1, <1>3
    <2> QED BY <1>2, <2>1, FS_Subset
<1>4. \A o, p \in fresh : rank[o] = rank[p] => o = p
    <2> SUFFICES ASSUME NEW o \in fresh, NEW p \in fresh, o # p
                 PROVE  Cardinality(below(o)) # Cardinality(below(p))
        OBVIOUS
    <2>1. o < p \/ p < o
        BY <1>1
    <2> QED BY <1>3, <2>1
<1>5. rank \in [fresh -> 0..(n - 1)]
    BY <1>2
<1>6. rank \in Injection(fresh, 0..(n - 1))
    BY <1>4, <1>5 DEF Injection, IsInjective
<1>7. IsFiniteSet(0..(n - 1)) /\ Cardinality(0..(n - 1)) = n
    BY FS_Interval
<1>8. Cardinality(fresh) <= n
    <2> HIDE DEF fresh, rank
    <2> QED BY <1>6, <1>7, FS_Injection
<1> QED BY <1>8

\* sendOffers offers no more than the slots that are left.
LEMMA OffersFit ==
    ASSUME SlotTypes, NEW r \in Runners, NEW running \in SUBSET OfferIds, NEW first,
           NEW free \in SUBSET OfferIds, sendOffers(r, running, first, free),
           Cardinality(openOffers[r]) + Cardinality(running) <= MaxConcurrency
    PROVE  /\ openOffers' \in [Runners -> SUBSET OfferIds]
           /\ \A s \in Runners : s # r => openOffers'[s] = openOffers[s]
           /\ Cardinality(openOffers'[r]) + Cardinality(running) <= MaxConcurrency
<1>1. PICK stale \in SUBSET openOffers[r] :
        LET open  == openOffers[r] \ stale
            fresh == IF r \notin canSendOffers THEN {}
                     ELSE {o \in free : Cardinality({p \in free : p < o})
                                            < offersToSend(open, running)}
        IN  openOffers' = [openOffers EXCEPT ![r] = open \cup fresh]
    BY DEF sendOffers
<1> DEFINE open  == openOffers[r] \ stale
           n     == offersToSend(open, running)
           small == {o \in free : Cardinality({p \in free : p < o}) < n}
           fresh == IF r \notin canSendOffers THEN {} ELSE small
<1>2. openOffers' = [openOffers EXCEPT ![r] = open \cup fresh]
    BY <1>1
<1>3. openOffers[r] \in SUBSET OfferIds /\ open \in SUBSET openOffers[r] /\ open \in SUBSET OfferIds
    BY DEF SlotTypes
<1>4. Cardinality(open) <= Cardinality(openOffers[r])
    BY <1>3, OfferSets, FS_Subset
<1>5. n \in Nat /\ n = MaxConcurrency - (Cardinality(open) + Cardinality(running))
    BY <1>3, <1>4, OfferSets, MaxConcurrencyAssumption DEF offersToSend
<1>6. fresh \in SUBSET OfferIds /\ Cardinality(fresh) <= n
    <2>1. Cardinality(small) <= n
        <3> HIDE DEF n
        <3> QED BY <1>5, SmallestAreFew
    <2> HIDE DEF n
    <2> QED BY <1>5, <2>1, FS_EmptySet
<1> HIDE DEF fresh, open, n
<1>7. Cardinality(open \cup fresh) <= Cardinality(open) + Cardinality(fresh)
    <2>1. open \cap fresh \in SUBSET OfferIds
        BY <1>3
    <2>2. IsFiniteSet(open) /\ IsFiniteSet(fresh)
        BY <1>3, <1>6, OfferSets
    <2>3. Cardinality(open \cup fresh)
            = Cardinality(open) + Cardinality(fresh) - Cardinality(open \cap fresh)
        BY <2>2, FS_Union
    <2>4. /\ Cardinality(open) \in Nat /\ Cardinality(fresh) \in Nat
          /\ Cardinality(open \cap fresh) \in Nat
        BY <1>3, <1>6, <2>1, OfferSets
    <2> QED BY <2>3, <2>4
<1>8. Cardinality(open \cup fresh) + Cardinality(running) <= MaxConcurrency
    <2>1. open \cup fresh \in SUBSET OfferIds
        BY <1>3, <1>6
    <2> QED BY <1>3, <1>5, <1>6, <1>7, <2>1, OfferSets, MaxConcurrencyAssumption
<1>9. open \cup fresh \in SUBSET OfferIds
    BY <1>3, <1>6
<1> QED BY <1>2, <1>8, <1>9 DEF SlotTypes

-----------------------------------------------------------------------------
(* Steps *)

LEMMA SlotInit == Init => SlotInv
<1> SUFFICES ASSUME Init PROVE SlotInv
    OBVIOUS
<1>1. SlotTypes
    BY DEF Init, RunnerInit, SlotTypes, TaskStatus
<1>2. \A r \in Runners : openOffers[r] = {} /\ Running(r) = {}
    BY DEF Init, RunnerInit, Running
<1> QED BY <1>1, <1>2, FS_EmptySet, MaxConcurrencyAssumption DEF SlotInv, Taken

\* Another runner, or no runner, has to do with the step.
LEMMA SameSlots ==
    ASSUME SlotInv, openOffers' = openOffers, runningTasks' = runningTasks
    PROVE  SlotInv'
BY DEF SlotInv, SlotTypes, Taken, Running

LEMMA OneRunner ==
    ASSUME SlotInv, NEW r \in Runners,
           openOffers' \in [Runners -> SUBSET OfferIds],
           runningTasks' \in [Runners -> [OfferIds -> TaskStatus]],
           \A s \in Runners : s # r => openOffers'[s] = openOffers[s]
                                         /\ runningTasks'[s] = runningTasks[s],
           Taken(r)' <= MaxConcurrency
    PROVE  SlotInv'
<1>1. SlotTypes'
    BY DEF SlotTypes
<1>2. ASSUME NEW s \in Runners, s # r PROVE Taken(s)' = Taken(s)
    BY <1>2 DEF Taken, Running
<1>3. ASSUME NEW s \in Runners PROVE Taken(s)' <= MaxConcurrency
    BY <1>2 DEF SlotInv
<1> QED BY <1>1, <1>3 DEF SlotInv

\* A task's status changes, but it stays a task.
LEMMA SameTasks ==
    ASSUME SlotInv, NEW r \in Runners, NEW o \in OfferIds, NEW status \in TaskStatus \ {"none"},
           runningTasks[r][o] # "none", openOffers' = openOffers,
           runningTasks' = [runningTasks EXCEPT ![r][o] = status]
    PROVE  SlotInv'
<1>1. runningTasks' \in [Runners -> [OfferIds -> TaskStatus]]
    BY DEF SlotInv, SlotTypes
<1>2. Running(r)' = Running(r)
    BY DEF SlotInv, SlotTypes, Running
<1>3. Taken(r)' = Taken(r)
    BY <1>2 DEF Taken
<1> QED BY <1>1, <1>3, OneRunner DEF SlotInv, SlotTypes

LEMMA TaskFinishes ==
    ASSUME SlotInv, NEW r \in Runners, NEW o \in OfferIds, NEW first,
           NEW free \in SUBSET OfferIds, finishTask(r, o, first, free)
    PROVE  SlotInv'
<1> DEFINE left == Running(r) \ {o}
<1>1. /\ runningTasks' = [runningTasks EXCEPT ![r][o] = "none"]
      /\ sendOffers(r, left, first, free)
    BY DEF finishTask
<1>2. runningTasks' \in [Runners -> [OfferIds -> TaskStatus]] /\ Running(r)' = left
    BY <1>1 DEF SlotInv, SlotTypes, TaskStatus, Running
<1>3. left \in SUBSET OfferIds /\ left \in SUBSET Running(r) /\ Running(r) \in SUBSET OfferIds
    BY DEF Running
<1>4. Cardinality(left) <= Cardinality(Running(r))
    BY <1>3, OfferSets, FS_Subset
<1>5. openOffers[r] \in SUBSET OfferIds
    BY DEF SlotInv, SlotTypes
<1>6. Cardinality(openOffers[r]) + Cardinality(left) <= MaxConcurrency
    BY <1>3, <1>4, <1>5, OfferSets, MaxConcurrencyAssumption DEF SlotInv, Taken
<1> HIDE DEF left
<1>7. /\ openOffers' \in [Runners -> SUBSET OfferIds]
      /\ \A s \in Runners : s # r => openOffers'[s] = openOffers[s]
      /\ Cardinality(openOffers'[r]) + Cardinality(left) <= MaxConcurrency
    BY <1>1, <1>3, <1>6, OffersFit DEF SlotInv
<1>8. Taken(r)' <= MaxConcurrency
    BY <1>2, <1>7 DEF Taken
<1>9. \A s \in Runners : s # r => runningTasks'[s] = runningTasks[s]
    BY <1>1 DEF SlotInv, SlotTypes
<1> QED BY <1>2, <1>7, <1>8, <1>9, OneRunner

LEMMA TaskAccepted ==
    ASSUME SlotInv, NEW r \in Runners, NEW o \in OfferIds, offerAccepted(r, o)
    PROVE  SlotInv'
<1>1. openOffers' = [openOffers EXCEPT ![r] = @ \ {o}]
    BY DEF offerAccepted
<1>2. /\ openOffers' \in [Runners -> SUBSET OfferIds]
      /\ openOffers[r] \in SUBSET OfferIds /\ Running(r) \in SUBSET OfferIds
      /\ openOffers'[r] = openOffers[r] \ {o}
      /\ \A s \in Runners : s # r => openOffers'[s] = openOffers[s]
    BY <1>1 DEF SlotInv, SlotTypes, Running
<1>3. /\ Cardinality(openOffers[r]) \in Nat /\ Cardinality(Running(r)) \in Nat
      /\ IsFiniteSet(openOffers[r]) /\ IsFiniteSet(Running(r))
    BY <1>2, OfferSets
<1>4. Cardinality(openOffers'[r]) = IF o \in openOffers[r] THEN Cardinality(openOffers[r]) - 1
                                    ELSE Cardinality(openOffers[r])
    <2>1. Cardinality(openOffers[r] \ {o}) = IF o \in openOffers[r]
                                              THEN Cardinality(openOffers[r]) - 1
                                              ELSE Cardinality(openOffers[r])
        BY <1>3, FS_RemoveElement
    <2> QED BY <1>2, <2>1
<1>5. CASE TurnsDown(r, o)
    <2>1. runningTasks' = runningTasks
        BY <1>5 DEF offerAccepted
    <2>2. Running(r)' = Running(r)
        BY <2>1 DEF Running
    <2>3. Taken(r)' <= MaxConcurrency
        BY <1>3, <1>4, <2>2, MaxConcurrencyAssumption DEF SlotInv, Taken
    <2> QED BY <1>2, <2>1, <2>3, OneRunner DEF SlotInv, SlotTypes
<1>6. CASE ~TurnsDown(r, o)
    <2>1. runningTasks' = [runningTasks EXCEPT ![r][o] = "waitingForSettings"]
        BY <1>6 DEF offerAccepted
    <2>2. /\ runningTasks' \in [Runners -> [OfferIds -> TaskStatus]]
          /\ \A s \in Runners : s # r => runningTasks'[s] = runningTasks[s]
          /\ Running(r)' = Running(r) \cup {o}
        BY <2>1 DEF SlotInv, SlotTypes, TaskStatus, Running
    <2>3. Cardinality(Running(r)') <= Cardinality(Running(r)) + 1 /\ Cardinality(Running(r)') \in Nat
        <3>1. Cardinality(Running(r) \cup {o}) = IF o \in Running(r) THEN Cardinality(Running(r))
                                                 ELSE Cardinality(Running(r)) + 1
            BY <1>3, FS_AddElement
        <3>2. Cardinality(Running(r)') = Cardinality(Running(r) \cup {o})
            BY <2>2
        <3> QED BY <1>3, <3>1, <3>2
    <2>4. Cardinality(openOffers'[r]) = Cardinality(openOffers[r]) - 1
        BY <1>4, <1>6 DEF TurnsDown
    <2>5. Taken(r)' <= MaxConcurrency
        BY <1>3, <2>3, <2>4, MaxConcurrencyAssumption DEF SlotInv, Taken
    <2> QED BY <1>2, <2>2, <2>5, OneRunner
<1> QED BY <1>5, <1>6

LEMMA ProcessGone ==
    ASSUME SlotInv, NEW r \in Runners, ProcessExit(r)
    PROVE  SlotInv'
<1>1. /\ openOffers' \in [Runners -> SUBSET OfferIds]
      /\ runningTasks' \in [Runners -> [OfferIds -> TaskStatus]]
      /\ \A s \in Runners : s # r => openOffers'[s] = openOffers[s]
                                       /\ runningTasks'[s] = runningTasks[s]
      /\ openOffers'[r] = {} /\ Running(r)' = {}
    BY DEF SlotInv, SlotTypes, ProcessExit, TaskStatus, Running
<1>2. Taken(r)' <= MaxConcurrency
    BY <1>1, FS_EmptySet, MaxConcurrencyAssumption DEF Taken
<1> QED BY <1>1, <1>2, OneRunner

\* A running task is aborted.
LEMMA TaskAborted ==
    ASSUME SlotInv, NEW r \in Runners, NEW o \in OfferIds,
           NEW status \in TaskStatus \ {"none"}, abort(r, o, status),
           runningTasks[r][o] # "none"
    PROVE  SlotInv'
BY SameTasks DEF abort

LEMMA RunnerSteps ==
    ASSUME SlotInv, NEW r \in Runners, NEW free \in SUBSET OfferIds, RunnerNext(r, free)
    PROVE  SlotInv'
<1>1. CASE \/ startTaskOffers(r) \/ stopTaskOffers(r) \/ LauncherStep(r, free) \/ StopSignal(r)
           \/ \E o \in OfferIds : processDataResponse(r, o) \/ RequestsMore(r, o)
    BY <1>1, SameSlots DEF startTaskOffers, stopTaskOffers, LauncherStep, StopSignal,
                           processDataResponse, RequestsMore
<1>2. CASE OfferInterval(r, free)
    <2>1. sendOffers(r, Running(r), <<>>, free) /\ runningTasks' = runningTasks
        BY <1>2 DEF OfferInterval
    <2>2. Running(r)' = Running(r) /\ Running(r) \in SUBSET OfferIds
        BY <2>1 DEF Running
    <2>3. /\ openOffers' \in [Runners -> SUBSET OfferIds]
          /\ \A s \in Runners : s # r => openOffers'[s] = openOffers[s]
          /\ Cardinality(openOffers'[r]) + Cardinality(Running(r)) <= MaxConcurrency
        BY <2>1, <2>2, OffersFit DEF SlotInv, Taken
    <2>4. Taken(r)' <= MaxConcurrency
        BY <2>2, <2>3 DEF Taken
    <2> QED BY <2>1, <2>3, <2>4, OneRunner DEF SlotInv, SlotTypes
<1>3. ASSUME NEW o \in OfferIds, receivedSettings(r, o) PROVE SlotInv'
    <2>1. CASE runningTasks[r][o] = "waitingForSettings"
        BY <1>3, <2>1, SameTasks DEF receivedSettings, TaskStatus
    <2>2. CASE runningTasks[r][o] # "waitingForSettings"
        BY <1>3, <2>2, SameSlots DEF receivedSettings
    <2> QED BY <2>1, <2>2
<1>4. ASSUME NEW o \in OfferIds, taskCancelled(r, o, free) \/ taskTimedOut(r, o, free)
      PROVE  SlotInv'
    <2>1. CASE \E first : finishTask(r, o, first, free)
        BY <2>1, TaskFinishes
    <2>2. CASE /\ runningTasks[r][o] # "none"
               /\ abort(r, o, "aborting:cancelled") \/ abort(r, o, "aborting:timeout")
        BY <2>2, TaskAborted DEF TaskStatus
    <2>3. CASE openOffers' = openOffers /\ runningTasks' = runningTasks
        BY <2>3, SameSlots
    <2> QED BY <1>4, <2>1, <2>2, <2>3 DEF taskCancelled, taskTimedOut
<1>5. ASSUME NEW o \in OfferIds, NEW result, TaskExecutionEnds(r, o, result, free)
      PROVE  SlotInv'
    BY <1>5, TaskFinishes DEF TaskExecutionEnds
<1> QED BY <1>1, <1>2, <1>3, <1>4, <1>5, TaskAccepted, ProcessGone DEF RunnerNext, RunnerReceive

\* The broker's and the requester's steps touch no runner.
LEMMA BrokerSteps ==
    ASSUME SlotInv,
           \/ \E q \in Requests : StartTask(q) \/ CancelTasks(q) \/ handleRequestTimeout(q)
           \/ \E t \in Tasks : AcceptTimeout(t) \/ handleTaskTimeout(t)
           \/ \E r \in Runners : \/ onRunnerMessage(r) \/ registerRunner(r)
                                 \/ ConnectionCloses(r) \/ FailedHeartbeatCheck(r)
                                 \/ deregisterRunner(r)
    PROVE  SlotInv'
<1>1. openOffers' = openOffers /\ runningTasks' = runningTasks
    <2>1. CASE \E q \in Requests : StartTask(q) \/ CancelTasks(q) \/ handleRequestTimeout(q)
        BY <2>1 DEF StartTask, CancelTasks, handleRequestTimeout, UnchangedRunners
    <2>2. CASE \E t \in Tasks : AcceptTimeout(t) \/ handleTaskTimeout(t)
        BY <2>2 DEF AcceptTimeout, handleTaskTimeout, UnchangedRunners
    <2>3. CASE \E r \in Runners : onRunnerMessage(r)
        <3>1. PICK r \in Runners, o \in OfferIds :
                \E type : BrokerReceives(r, type, o)
            BY <2>3 DEF onRunnerMessage, taskOffered, handleRunnerAccept, handleRunnerReject,
                        handleRunnerDeferred, TaskEndHandler, handleDataRequest
        <3> QED BY <3>1 DEF BrokerReceives
    <2>4. CASE \E r \in Runners : \/ registerRunner(r) \/ ConnectionCloses(r)
                                  \/ FailedHeartbeatCheck(r) \/ deregisterRunner(r)
        BY <2>4 DEF registerRunner, ConnectionCloses, FailedHeartbeatCheck, deregisterRunner
    <2> QED BY <2>1, <2>2, <2>3, <2>4
<1> QED BY <1>1, SameSlots

LEMMA SlotStep == SlotInv /\ [Next]_vars => SlotInv'
<1> SUFFICES ASSUME SlotInv, [Next]_vars PROVE SlotInv'
    OBVIOUS
<1>1. CASE UNCHANGED vars
    BY <1>1, SameSlots DEF vars, runnerVars
<1>2. ASSUME NEW r \in Runners, RunnerStep(r) PROVE SlotInv'
    <2>1. FreeOffers(r) \in SUBSET OfferIds
        BY DEF FreeOffers
    <2> QED BY <1>2, <2>1, RunnerSteps DEF RunnerStep
<1> QED BY <1>1, <1>2, BrokerSteps DEF Next

\* Whatever offers expire, are taken up late or turned down, whatever tasks are
\* cancelled, time out or lose their process: a runner's offers and tasks never
\* exceed its slots.
THEOREM SlotsNotOverbookedHolds == Spec => []SlotsNotOverbooked
<1>1. SlotInv => SlotsNotOverbooked
    BY DEF SlotInv, Taken, SlotsNotOverbooked
<1> QED BY SlotInit, SlotStep, <1>1, PTL DEF Spec

-----------------------------------------------------------------------------
(* Order: the elements of a set of numbers, and of a sequence at positions  *)

\* InOrder lists the elements of a finite set of numbers, each once, the
\* smaller before the greater.
LEMMA InOrderLists ==
    ASSUME NEW K \in SUBSET Nat, IsFiniteSet(K)
    PROVE  /\ Cardinality(K) \in Nat
           /\ InOrder(K) \in [1..Cardinality(K) -> K]
           /\ \A k \in K : \E n \in 1..Cardinality(K) : InOrder(K)[n] = k
           /\ \A m, n \in 1..Cardinality(K) : m < n => InOrder(K)[m] < InOrder(K)[n]
<1> DEFINE upTo(k) == {j \in K : j <= k}
           rank    == [k \in K |-> Cardinality(upTo(k))]
           c       == Cardinality(K)
<1>1. c \in Nat /\ \A k \in K : k \in Nat
    BY FS_CardinalityType
<1>2. \A k \in K : /\ upTo(k) \in SUBSET K /\ k \in upTo(k)
                   /\ IsFiniteSet(upTo(k)) /\ Cardinality(upTo(k)) \in Nat
    <2> SUFFICES ASSUME NEW k \in K
                 PROVE  /\ upTo(k) \in SUBSET K /\ k \in upTo(k)
                        /\ IsFiniteSet(upTo(k)) /\ Cardinality(upTo(k)) \in Nat
        OBVIOUS
    <2>1. upTo(k) \in SUBSET K /\ k \in upTo(k)
        OBVIOUS
    <2>2. IsFiniteSet(upTo(k))
        BY <2>1, FS_Subset
    <2> QED BY <2>1, <2>2, FS_CardinalityType
<1>3. \A k \in K : rank[k] \in 1..c
    <2> SUFFICES ASSUME NEW k \in K PROVE Cardinality(upTo(k)) \in 1..c
        OBVIOUS
    <2>1. Cardinality(upTo(k)) <= c
        BY <1>2, FS_Subset
    <2>2. Cardinality(upTo(k)) # 0
        BY <1>2, FS_EmptySet
    <2> HIDE DEF upTo, c
    <2> QED BY <1>1, <1>2, <2>1, <2>2
<1>4. \A j, k \in K : j < k => rank[j] < rank[k]
    <2> SUFFICES ASSUME NEW j \in K, NEW k \in K, j < k
                 PROVE  Cardinality(upTo(j)) < Cardinality(upTo(k))
        OBVIOUS
    <2>1. upTo(j) \in SUBSET upTo(k) /\ k \notin upTo(j)
        <3>1. j \in Int /\ k \in Int /\ ~(k <= j)
            BY <1>1
        <3>2. ASSUME NEW i \in K, i <= j PROVE i <= k
            <4>1. i \in Int
                BY <1>1
            <4> QED BY <3>1, <3>2, <4>1
        <3> QED BY <3>1, <3>2
    <2>2. /\ Cardinality(upTo(j)) <= Cardinality(upTo(k))
          /\ Cardinality(upTo(k)) = Cardinality(upTo(j)) => upTo(k) = upTo(j)
        BY <1>2, <2>1, FS_Subset
    <2>3. Cardinality(upTo(k)) # Cardinality(upTo(j))
        BY <1>2, <2>1, <2>2
    <2> HIDE DEF upTo
    <2> QED BY <1>2, <2>2, <2>3
<1>5. \A n \in 1..c : \E k \in K : rank[k] = n
    <2>1. rank \in [K -> 1..c]
        <3> HIDE DEF c
        <3> QED BY <1>3
    <2>2. rank \in Injection(K, 1..c)
        <3>1. \A j, k \in K : rank[j] = rank[k] => j = k
            <4> SUFFICES ASSUME NEW j \in K, NEW k \in K, j # k PROVE rank[j] # rank[k]
                OBVIOUS
            <4>1. rank[j] \in Int /\ rank[k] \in Int
                BY <1>2
            <4>2. j < k \/ k < j
                OBVIOUS
            <4> HIDE DEF rank
            <4> QED BY <1>4, <4>1, <4>2
        <3> HIDE DEF c, rank
        <3> QED BY <2>1, <3>1 DEF Injection, IsInjective
    <2>3. IsFiniteSet(1..c) /\ Cardinality(1..c) = c
        BY <1>1, FS_Interval
    <2>4. rank \in Surjection(K, 1..c)
        <3> HIDE DEF rank
        <3> QED BY <2>2, <2>3, FS_Injection
    <2> HIDE DEF rank, c
    <2> QED BY <2>4 DEF Surjection
<1>6. \A n \in 1..c : InOrder(K)[n] \in K /\ rank[InOrder(K)[n]] = n
    BY <1>5 DEF InOrder
<1>7. InOrder(K) \in [1..c -> K]
    <2> DEFINE pick(n) == CHOOSE k \in K : Cardinality({j \in K : j <= k}) = n
    <2>1. InOrder(K) = [n \in 1..c |-> pick(n)]
        BY DEF InOrder
    <2> HIDE DEF c, pick
    <2>2. \A n \in 1..c : pick(n) \in K
        BY <1>6, <2>1
    <2> QED BY <2>1, <2>2
<1>8. \A k \in K : \E n \in 1..c : InOrder(K)[n] = k
    <2> SUFFICES ASSUME NEW k \in K PROVE \E n \in 1..c : InOrder(K)[n] = k
        OBVIOUS
    <2>1. rank[k] \in 1..c /\ InOrder(K)[rank[k]] \in K /\ rank[InOrder(K)[rank[k]]] = rank[k]
        BY <1>3, <1>6
    <2>2. ~(InOrder(K)[rank[k]] < k) /\ ~(k < InOrder(K)[rank[k]])
        <3> HIDE DEF c
        <3>1. rank[k] \in Int
            BY <1>1, <1>3
        <3>2. ~(rank[k] < rank[k])
            BY <3>1
        <3> HIDE DEF rank
        <3> QED BY <1>4, <2>1, <3>2
    <2>3. InOrder(K)[rank[k]] = k
        <3> HIDE DEF rank, c
        <3> DEFINE other == InOrder(K)[rank[k]]
        <3>1. other \in K
            BY <2>1
        <3> HIDE DEF other
        <3>2. other \in Int /\ k \in Int
            BY <1>1, <3>1
        <3> QED BY <2>2, <3>2 DEF other
    <2> HIDE DEF rank, c
    <2> QED BY <2>1, <2>3
<1>9. \A m, n \in 1..c : m < n => InOrder(K)[m] < InOrder(K)[n]
    <2> SUFFICES ASSUME NEW m \in 1..c, NEW n \in 1..c, m < n
                 PROVE  InOrder(K)[m] < InOrder(K)[n]
        OBVIOUS
    <2> HIDE DEF rank, c
    <2>1. InOrder(K)[m] \in Nat /\ InOrder(K)[n] \in Nat
        BY <1>6
    <2>2. InOrder(K)[m] # InOrder(K)[n]
        BY <1>6
    <2>3. ~(InOrder(K)[n] < InOrder(K)[m])
        <3>1. rank[InOrder(K)[m]] = m /\ rank[InOrder(K)[n]] = n /\ m \in Int /\ n \in Int
            BY <1>6
        <3>2. ~(rank[InOrder(K)[n]] < rank[InOrder(K)[m]])
            BY <3>1
        <3> QED BY <1>4, <1>6, <3>2
    <2> QED BY <2>1, <2>2, <2>3
<1> QED BY <1>1, <1>7, <1>8, <1>9

Distinct(s) == \A i, j \in DOMAIN s : s[i] = s[j] => i = j

\* At(s, K) has the elements of s at the positions K, each position once.
LEMMA AtLists ==
    ASSUME NEW S, NEW s \in Seq(S), NEW K \in SUBSET DOMAIN s
    PROVE  /\ At(s, K) \in Seq(S)
           /\ \A n \in DOMAIN At(s, K) : \E k \in K : At(s, K)[n] = s[k]
           /\ \A k \in K : \E n \in DOMAIN At(s, K) : At(s, K)[n] = s[k]
           /\ Distinct(s) => Distinct(At(s, K))
<1> DEFINE c == Cardinality(K)
<1>1. DOMAIN s = 1..Len(s) /\ Len(s) \in Nat
    OBVIOUS
<1>2. IsFiniteSet(K) /\ K \in SUBSET Nat
    <2>1. K \in SUBSET (1..Len(s)) /\ IsFiniteSet(1..Len(s))
        BY <1>1, FS_Interval
    <2> QED BY <1>1, <2>1, FS_Subset
<1>3. /\ c \in Nat
      /\ InOrder(K) \in [1..c -> K]
      /\ \A k \in K : \E n \in 1..c : InOrder(K)[n] = k
      /\ \A m, n \in 1..c : m < n => InOrder(K)[m] < InOrder(K)[n]
    BY <1>2, InOrderLists
<1>4. At(s, K) = [n \in 1..c |-> s[InOrder(K)[n]]]
    BY DEF At
<1> HIDE DEF c
<1>5. At(s, K) \in Seq(S) /\ DOMAIN At(s, K) = 1..c
    <2>1. \A n \in 1..c : s[InOrder(K)[n]] \in S
        BY <1>1, <1>3
    <2> QED BY <1>3, <1>4, <2>1
<1>6. \A m, n \in 1..c : InOrder(K)[m] = InOrder(K)[n] => m = n
    <2> SUFFICES ASSUME NEW m \in 1..c, NEW n \in 1..c, m # n
                 PROVE  InOrder(K)[m] # InOrder(K)[n]
        OBVIOUS
    <2>1. m < n \/ n < m
        BY <1>3
    <2>2. InOrder(K)[m] \in Nat /\ InOrder(K)[n] \in Nat
        BY <1>2, <1>3
    <2> QED BY <1>3, <2>1, <2>2
<1>7. ASSUME Distinct(s) PROVE Distinct(At(s, K))
    BY <1>3, <1>4, <1>5, <1>6, <1>7 DEF Distinct
<1>8. /\ \A n \in DOMAIN At(s, K) : \E k \in K : At(s, K)[n] = s[k]
      /\ \A k \in K : \E n \in DOMAIN At(s, K) : At(s, K)[n] = s[k]
    <2>1. \A n \in 1..c : At(s, K)[n] = s[InOrder(K)[n]] /\ InOrder(K)[n] \in K
        BY <1>3, <1>4
    <2>2. ASSUME NEW k \in K PROVE \E n \in DOMAIN At(s, K) : At(s, K)[n] = s[k]
        <3>1. PICK n \in 1..c : InOrder(K)[n] = k
            BY <1>3
        <3> QED BY <1>5, <2>1, <3>1
    <2> QED BY <1>5, <2>1, <2>2
<1> QED BY <1>5, <1>7, <1>8

-----------------------------------------------------------------------------
(* Channels: the types of the messages about an offer, and their order      *)

About(s, o) == {s[i][1] : i \in {j \in DOMAIN s : s[j][2] = o}}

\* At most one message about o is of these types.
Once(s, types, o) ==
    \A i, j \in DOMAIN s :
        s[i][2] = o /\ s[j][2] = o /\ s[i][1] \in types /\ s[j][1] \in types => i = j

\* Messages of the one type come before those of the others.
Before(s, type, types, o) ==
    \A i, j \in DOMAIN s :
        s[i][2] = o /\ s[j][2] = o /\ s[i][1] = type /\ s[j][1] \in types => i < j

Single(s, o) == \A i, j \in DOMAIN s : s[i][2] = o /\ s[j][2] = o => i = j

\* What is left when the first message has been received.
LEMMA TailOfChannel ==
    ASSUME NEW S, NEW s \in Seq(S), s # <<>>, NEW o
    PROVE  /\ Tail(s) \in Seq(S)
           /\ Head(s)[2] # o => About(Tail(s), o) = About(s, o)
           /\ Head(s)[2] = o => About(s, o) = About(Tail(s), o) \cup {Head(s)[1]}
           /\ \A types : Once(s, types, o) =>
                /\ Once(Tail(s), types, o)
                /\ Head(s)[2] = o /\ Head(s)[1] \in types => About(Tail(s), o) \cap types = {}
           /\ \A type, types : Before(s, type, types, o) =>
                /\ Before(Tail(s), type, types, o)
                /\ Head(s)[2] = o /\ Head(s)[1] \in types => type \notin About(Tail(s), o)
<1>1. /\ Tail(s) \in Seq(S) /\ Len(s) \in Nat /\ DOMAIN s = 1..Len(s)
      /\ DOMAIN Tail(s) = 1..(Len(s) - 1) /\ Len(s) >= 1 /\ Head(s) = s[1]
      /\ \A i \in DOMAIN Tail(s) : Tail(s)[i] = s[i + 1] /\ i + 1 \in DOMAIN s
    OBVIOUS
<1>2. \A i \in DOMAIN s : i = 1 \/ (i - 1 \in DOMAIN Tail(s) /\ Tail(s)[i - 1] = s[i])
    BY <1>1
<1> DEFINE t == Tail(s)
<1> HIDE DEF t
<1>3. /\ \A i \in DOMAIN t : t[i] = s[i + 1] /\ i + 1 \in DOMAIN s
      /\ \A i \in DOMAIN s : i = 1 \/ (i - 1 \in DOMAIN t /\ t[i - 1] = s[i])
      /\ 1 \in DOMAIN s /\ Head(s) = s[1]
    BY <1>1, <1>2 DEF t
<1>4. \A y : y \in About(t, o) => y \in About(s, o)
    BY <1>3 DEF About
<1>5. \A y : y \in About(s, o) => y \in About(t, o) \/ (s[1][2] = o /\ y = s[1][1])
    BY <1>3 DEF About
<1>6. s[1][2] = o => s[1][1] \in About(s, o)
    BY <1>3 DEF About
<1>7. Head(s)[2] # o => About(Tail(s), o) = About(s, o)
    BY <1>3, <1>4, <1>5 DEF t
<1>8. Head(s)[2] = o => About(s, o) = About(Tail(s), o) \cup {Head(s)[1]}
    BY <1>3, <1>4, <1>5, <1>6 DEF t
<1>9. ASSUME NEW types, Once(s, types, o)
      PROVE  /\ Once(Tail(s), types, o)
             /\ Head(s)[2] = o /\ Head(s)[1] \in types => About(Tail(s), o) \cap types = {}
    <2>1. Once(Tail(s), types, o)
        <3> SUFFICES ASSUME NEW i \in DOMAIN Tail(s), NEW j \in DOMAIN Tail(s),
                            Tail(s)[i][2] = o, Tail(s)[j][2] = o,
                            Tail(s)[i][1] \in types, Tail(s)[j][1] \in types
                     PROVE  i = j
            BY DEF Once
        <3>1. i + 1 = j + 1
            BY <1>1, <1>9 DEF Once
        <3> QED BY <1>1, <3>1
    <2>2. ASSUME Head(s)[2] = o, Head(s)[1] \in types, NEW i \in DOMAIN Tail(s),
                 Tail(s)[i][2] = o, Tail(s)[i][1] \in types
          PROVE  FALSE
        <3>1. 1 \in DOMAIN s /\ i + 1 = 1
            BY <1>1, <1>9, <2>2 DEF Once
        <3> QED BY <1>1, <3>1
    <2> QED BY <2>1, <2>2 DEF About
<1>10. ASSUME NEW type, NEW types, Before(s, type, types, o)
      PROVE  /\ Before(Tail(s), type, types, o)
             /\ Head(s)[2] = o /\ Head(s)[1] \in types => type \notin About(Tail(s), o)
    <2>1. Before(Tail(s), type, types, o)
        <3> SUFFICES ASSUME NEW i \in DOMAIN Tail(s), NEW j \in DOMAIN Tail(s),
                            Tail(s)[i][2] = o, Tail(s)[j][2] = o,
                            Tail(s)[i][1] = type, Tail(s)[j][1] \in types
                     PROVE  i < j
            BY DEF Before
        <3>1. i + 1 < j + 1
            BY <1>1, <1>10 DEF Before
        <3> QED BY <1>1, <3>1
    <2>2. ASSUME Head(s)[2] = o, Head(s)[1] \in types, NEW i \in DOMAIN Tail(s),
                 Tail(s)[i][2] = o, Tail(s)[i][1] = type
          PROVE  FALSE
        <3>1. 1 \in DOMAIN s /\ i + 1 < 1
            BY <1>1, <1>10, <2>2 DEF Before
        <3> QED BY <1>1, <3>1
    <2> QED BY <2>1, <2>2 DEF About
<1> QED BY <1>1, <1>7, <1>8, <1>9, <1>10

\* What a channel has when messages have been sent, at most one about o.
LEMMA MoreOnChannel ==
    ASSUME NEW S, NEW s \in Seq(S), NEW u \in Seq(S), NEW o, Single(u, o)
    PROVE  /\ s \o u \in Seq(S)
           /\ About(s \o u, o) = About(s, o) \cup About(u, o)
           /\ \A types : /\ Once(s, types, o)
                         /\ About(s, o) \cap types = {} \/ About(u, o) \cap types = {}
                         => Once(s \o u, types, o)
           /\ \A type, types : /\ Before(s, type, types, o) /\ type \notin types
                               /\ About(s, o) \cap types = {} \/ type \notin About(u, o)
                               => Before(s \o u, type, types, o)
<1> DEFINE w == s \o u
<1>1. /\ w \in Seq(S) /\ Len(s) \in Nat /\ Len(u) \in Nat
      /\ DOMAIN s = 1..Len(s) /\ DOMAIN u = 1..Len(u) /\ DOMAIN w = 1..(Len(s) + Len(u))
      /\ \A i \in DOMAIN s : w[i] = s[i] /\ i \in DOMAIN w
      /\ \A i \in DOMAIN u : w[i + Len(s)] = u[i] /\ i + Len(s) \in DOMAIN w
    OBVIOUS
<1>2. \A i \in DOMAIN w : \/ i \in DOMAIN s /\ w[i] = s[i]
                          \/ i > Len(s) /\ i - Len(s) \in DOMAIN u /\ w[i] = u[i - Len(s)]
    BY <1>1
<1> HIDE DEF w
<1>3. About(w, o) = About(s, o) \cup About(u, o)
    BY <1>1, <1>2 DEF About
<1>4. ASSUME NEW types, Once(s, types, o),
             About(s, o) \cap types = {} \/ About(u, o) \cap types = {}
      PROVE  Once(w, types, o)
    <2> SUFFICES ASSUME NEW i \in DOMAIN w, NEW j \in DOMAIN w, w[i][2] = o, w[j][2] = o,
                        w[i][1] \in types, w[j][1] \in types
                 PROVE  i = j
        BY DEF Once
    <2>1. CASE i \in DOMAIN s /\ w[i] = s[i] /\ j \in DOMAIN s /\ w[j] = s[j]
        BY <1>4, <2>1 DEF Once
    <2>2. CASE /\ i - Len(s) \in DOMAIN u /\ w[i] = u[i - Len(s)]
               /\ j - Len(s) \in DOMAIN u /\ w[j] = u[j - Len(s)]
        <3>1. i - Len(s) = j - Len(s)
            BY <2>2 DEF Single
        <3> QED BY <1>1, <3>1
    <2>3. ~(\/ /\ i \in DOMAIN s /\ w[i] = s[i]
               /\ j - Len(s) \in DOMAIN u /\ w[j] = u[j - Len(s)]
            \/ /\ i - Len(s) \in DOMAIN u /\ w[i] = u[i - Len(s)]
               /\ j \in DOMAIN s /\ w[j] = s[j])
        BY <1>4 DEF About
    <2> QED BY <1>2, <2>1, <2>2, <2>3
<1>5. ASSUME NEW type, NEW types, Before(s, type, types, o), type \notin types,
             About(s, o) \cap types = {} \/ type \notin About(u, o)
      PROVE  Before(w, type, types, o)
    <2> SUFFICES ASSUME NEW i \in DOMAIN w, NEW j \in DOMAIN w, w[i][2] = o, w[j][2] = o,
                        w[i][1] = type, w[j][1] \in types
                 PROVE  i < j
        BY DEF Before
    <2>1. CASE i \in DOMAIN s /\ w[i] = s[i] /\ j \in DOMAIN s /\ w[j] = s[j]
        BY <1>5, <2>1 DEF Before
    <2>2. CASE i \in DOMAIN s /\ j > Len(s)
        BY <1>1, <2>2
    <2>3. ~(/\ i - Len(s) \in DOMAIN u /\ w[i] = u[i - Len(s)]
            /\ j - Len(s) \in DOMAIN u /\ w[j] = u[j - Len(s)])
        <3> SUFFICES ASSUME i - Len(s) \in DOMAIN u, w[i] = u[i - Len(s)],
                            j - Len(s) \in DOMAIN u, w[j] = u[j - Len(s)]
                     PROVE  FALSE
            OBVIOUS
        <3>1. i - Len(s) = j - Len(s)
            BY DEF Single
        <3> QED BY <1>5, <3>1
    <2>4. ~(/\ i - Len(s) \in DOMAIN u /\ w[i] = u[i - Len(s)]
            /\ j \in DOMAIN s /\ w[j] = s[j])
        BY <1>5 DEF About
    <2> QED BY <1>2, <2>1, <2>2, <2>3, <2>4
<1> QED BY <1>1, <1>3, <1>4, <1>5 DEF w

\* A channel with one message, and an empty one.
LEMMA OneMessage ==
    ASSUME NEW type, NEW p, NEW o
    PROVE  /\ About(<<<<type, p>>>>, o) = IF p = o THEN {type} ELSE {}
           /\ Single(<<<<type, p>>>>, o)
           /\ About(<<>>, o) = {}
           /\ Single(<<>>, o)
           /\ \A types : Once(<<>>, types, o)
           /\ \A types : Before(<<>>, type, types, o)
BY DEF About, Single, Once, Before

\* The code's view of a channel, Contains, and its types about an offer agree.
LEMMA ContainsMessage ==
    ASSUME NEW S, NEW T, NEW s \in Seq(S \X T), NEW type, NEW o
    PROVE  Contains(s, <<type, o>>) <=> type \in About(s, o)
<1>1. \A i \in 1..Len(s) : s[i] = <<s[i][1], s[i][2]>> /\ i \in DOMAIN s
    OBVIOUS
<1>2. DOMAIN s = 1..Len(s)
    OBVIOUS
<1>3. \A i \in 1..Len(s) : s[i] = <<type, o>> <=> s[i][1] = type /\ s[i][2] = o
    BY <1>1
<1> QED BY <1>2, <1>3 DEF Contains, About

\* u has a message of this type about each of the offers ids, and no other.
Lists(u, type, ids) ==
    /\ ids \in Seq(OfferIds) /\ \A i, j \in DOMAIN ids : ids[i] = ids[j] => i = j
    /\ DOMAIN u = DOMAIN ids /\ \A i \in DOMAIN ids : u[i] = <<type, ids[i]>>

\* At most one of the listed messages is about an offer.
LEMMA ListsOfMessages ==
    ASSUME NEW ids, NEW type, NEW u, Lists(u, type, ids), NEW o
    PROVE  /\ Single(u, o)
           /\ \A y : y \in About(u, o) <=> y = type /\ \E i \in DOMAIN ids : ids[i] = o
<1>1. /\ DOMAIN u = DOMAIN ids
      /\ \A i \in DOMAIN ids : u[i][1] = type /\ u[i][2] = ids[i]
    BY DEF Lists
<1>2. Single(u, o)
    BY <1>1 DEF Single, Lists
<1>3. \A y : y \in About(u, o) <=> y = type /\ \E i \in DOMAIN ids : ids[i] = o
    BY <1>1 DEF About
<1> QED BY <1>2, <1>3

\* A result, then messages about other offers.
Is(f, type, o) == f = <<<<type, o>>>>

LEMMA ResultThenOffers ==
    ASSUME NEW S, NEW type, NEW o, NEW f \in Seq(S), Is(f, type, o),
           NEW u \in Seq(S), About(u, o) = {}, NEW p, Single(u, p)
    PROVE  /\ f \o u \in Seq(S)
           /\ Single(f \o u, p)
           /\ \A y : y \in About(f \o u, p) <=> (p = o /\ y = type) \/ y \in About(u, p)
<1> DEFINE w == f \o u
<1> USE DEF Is
<1>1. /\ w \in Seq(S) /\ Len(u) \in Nat /\ DOMAIN u = 1..Len(u)
      /\ DOMAIN w = 1..(Len(u) + 1) /\ w[1] = <<type, o>>
      /\ \A i \in DOMAIN u : w[i + 1] = u[i]
    <2>1. /\ w \in Seq(S) /\ Len(w) = Len(f) + Len(u)
          /\ \A i \in 1..(Len(f) + Len(u)) : w[i] = IF i <= Len(f) THEN f[i] ELSE u[i - Len(f)]
        BY ConcatProperties
    <2>2. ASSUME NEW i \in DOMAIN u
          PROVE  i + 1 \in 1..(Len(f) + Len(u)) /\ ~(i + 1 <= Len(f)) /\ i + 1 - Len(f) = i
        OBVIOUS
    <2>3. Len(u) \in Nat /\ DOMAIN u = 1..Len(u) /\ 1 \in 1..(Len(f) + Len(u))
        OBVIOUS
    <2>4. \A i \in DOMAIN u : w[i + 1] = u[i]
        BY <2>1, <2>2
    <2> QED BY <2>1, <2>3, <2>4
<1>2. \A i \in DOMAIN w : i = 1 \/ (i - 1 \in DOMAIN u /\ w[i] = u[i - 1])
    BY <1>1
<1> HIDE DEF w
<1>3. Single(w, p)
    <2> SUFFICES ASSUME NEW i \in DOMAIN w, NEW j \in DOMAIN w, w[i][2] = p, w[j][2] = p
                 PROVE  i = j
        BY DEF Single
    <2>1. \A k \in DOMAIN u : u[k][2] # o
        BY DEF About
    <2>2. CASE i = 1 \/ j = 1
        BY <1>1, <1>2, <2>1, <2>2
    <2>3. CASE i # 1 /\ j # 1
        <3>1. /\ i - 1 \in DOMAIN u /\ u[i - 1][2] = p
              /\ j - 1 \in DOMAIN u /\ u[j - 1][2] = p
            BY <1>2, <2>3
        <3>2. i - 1 = j - 1
            BY <3>1 DEF Single
        <3> QED BY <1>1, <3>2
    <2> QED BY <2>2, <2>3
<1>4. \A y : y \in About(w, p) <=> (p = o /\ y = type) \/ y \in About(u, p)
    <2>1. \A y : y \in About(w, p) <=> \E i \in DOMAIN w : w[i][2] = p /\ w[i][1] = y
        BY DEF About
    <2>2. \A y : y \in About(u, p) <=> \E i \in DOMAIN u : u[i][2] = p /\ u[i][1] = y
        BY DEF About
    <2>3. \A y : y \in About(w, p) <=> (p = o /\ y = type) \/ y \in About(u, p)
        <3> SUFFICES ASSUME NEW y
                     PROVE  (\E i \in DOMAIN w : w[i][2] = p /\ w[i][1] = y)
                                <=> (p = o /\ y = type) \/ y \in About(u, p)
            BY <2>1
        <3>1. ASSUME NEW i \in DOMAIN w, w[i][2] = p, w[i][1] = y
              PROVE  (p = o /\ y = type) \/ y \in About(u, p)
            BY <1>1, <1>2, <2>2, <3>1
        <3>2. ASSUME p = o, y = type PROVE \E i \in DOMAIN w : w[i][2] = p /\ w[i][1] = y
            <4>1. 1 \in DOMAIN w /\ w[1][1] = type /\ w[1][2] = o
                BY <1>1
            <4> QED BY <3>2, <4>1
        <3>3. ASSUME y \in About(u, p) PROVE \E i \in DOMAIN w : w[i][2] = p /\ w[i][1] = y
            <4>1. PICK i \in DOMAIN u : u[i][2] = p /\ u[i][1] = y
                BY <2>2, <3>3
            <4>2. i + 1 \in DOMAIN w /\ w[i + 1] = u[i]
                BY <1>1
            <4> QED BY <4>1, <4>2
        <3> QED BY <3>1, <3>2, <3>3
    <2> QED BY <2>3
<1> QED BY <1>1, <1>3, <1>4 DEF w

-----------------------------------------------------------------------------
(* The pending requests *)

\* Removing a request leaves the other requests where they are.
LEMMA WithoutRequestLemma ==
    ASSUME NEW S, NEW s \in Seq(S), NEW e
    PROVE  /\ RemoveFirst(s, e) \in Seq(S)
           /\ \A x : x # e => (Contains(RemoveFirst(s, e), x) <=> Contains(s, x))
<1>1. CASE ~\E i \in 1..Len(s) : s[i] = e
    BY <1>1 DEF RemoveFirst
<1>2. CASE \E i \in 1..Len(s) : s[i] = e
    <2> DEFINE I == {i \in 1..Len(s) : s[i] = e}
               k == SelectInSeq(s, LAMBDA v : v = e)
    <2>1. Len(s) \in Nat /\ DOMAIN s = 1..Len(s) /\ I # {} /\ I \in SUBSET Nat
        BY <1>2
    <2>2. \E x \in I : \A y \in I : x <= y
        <3>1. IsFiniteSet(I)
            <4>1. IsFiniteSet(1..Len(s)) /\ I \in SUBSET (1..Len(s))
                BY <2>1, FS_Interval
            <4> QED BY <4>1, FS_Subset
        <3>2. /\ Cardinality(I) \in Nat
              /\ InOrder(I) \in [1..Cardinality(I) -> I]
              /\ \A i \in I : \E n \in 1..Cardinality(I) : InOrder(I)[n] = i
              /\ \A m, n \in 1..Cardinality(I) : m < n => InOrder(I)[m] < InOrder(I)[n]
            BY <2>1, <3>1, InOrderLists
        <3> DEFINE x == InOrder(I)[1]
        <3>3. Cardinality(I) >= 1
            BY <2>1, <3>2
        <3>4. x \in I
            BY <3>2, <3>3
        <3>5. ASSUME NEW y \in I PROVE x <= y
            <4>1. PICK n \in 1..Cardinality(I) : InOrder(I)[n] = y
                BY <3>2
            <4>2. n = 1 \/ 1 < n
                BY <3>2
            <4>3. x \in Nat /\ y \in Nat /\ 1 \in 1..Cardinality(I)
                BY <2>1, <3>2, <3>3, <3>4
            <4>4. n = 1 \/ x < y
                BY <3>2, <4>1, <4>2, <4>3
            <4> QED BY <4>1, <4>3, <4>4
        <3> QED BY <3>4, <3>5
    <2>3. k \in I
        BY <2>1, <2>2 DEF SelectInSeq, Min
    <2>4. RemoveFirst(s, e) = SubSeq(s, 1, k - 1) \o SubSeq(s, k + 1, Len(s))
        BY <1>2 DEF RemoveFirst, RemoveAt
    <2> DEFINE a == SubSeq(s, 1, k - 1)
               b == SubSeq(s, k + 1, Len(s))
               w == a \o b
    <2> HIDE DEF k
    <2>5. k \in 1..Len(s) /\ s[k] = e
        BY <2>3
    <2>6. /\ a \in Seq(S) /\ Len(a) = k - 1 /\ \A i \in 1..(k - 1) : a[i] = s[i]
          /\ b \in Seq(S) /\ Len(b) = Len(s) - k /\ \A i \in 1..(Len(s) - k) : b[i] = s[i + k]
        <3>1. /\ k - 1 \in Int /\ k + 1 \in Int /\ 1 \in Int /\ Len(s) \in Int
              /\ \A i \in 1..(k - 1) : s[i] \in S
              /\ \A i \in (k + 1)..Len(s) : s[i] \in S
            BY <2>1, <2>5
        <3>2. /\ a \in Seq(S) /\ Len(a) = (IF 1 <= k - 1 THEN k - 1 - 1 + 1 ELSE 0)
              /\ \A i \in 1..(k - 1 - 1 + 1) : a[i] = s[1 + i - 1]
            <4> HIDE DEF a
            <4> QED BY <3>1, SubSeqProperties DEF a
        <3>3. /\ b \in Seq(S)
              /\ Len(b) = IF k + 1 <= Len(s) THEN Len(s) - (k + 1) + 1 ELSE 0
              /\ \A i \in 1..(Len(s) - (k + 1) + 1) : b[i] = s[k + 1 + i - 1]
            <4> HIDE DEF b
            <4> QED BY <3>1, SubSeqProperties DEF b
        <3> HIDE DEF a, b
        <3>4. \A i \in 1..(k - 1) : a[i] = s[i]
            BY <2>1, <2>5, <3>2
        <3>5. \A i \in 1..(Len(s) - k) : b[i] = s[i + k]
            <4>1. ASSUME NEW i \in 1..(Len(s) - k)
                  PROVE  i \in 1..(Len(s) - (k + 1) + 1) /\ k + 1 + i - 1 = i + k
                BY <2>1, <2>5
            <4> QED BY <3>3, <4>1
        <3>6. Len(a) = k - 1 /\ Len(b) = Len(s) - k
            <4>1. Len(a) = IF 1 <= k - 1 THEN k - 1 - 1 + 1 ELSE 0
                BY <3>2
            <4>2. Len(b) = IF k + 1 <= Len(s) THEN Len(s) - (k + 1) + 1 ELSE 0
                BY <3>3
            <4>3. k \in Int /\ Len(s) \in Int /\ 1 <= k /\ k <= Len(s)
                BY <2>1, <2>5
            <4> QED BY <4>1, <4>2, <4>3
        <3> QED BY <3>2, <3>3, <3>4, <3>5, <3>6
    <2>7. /\ w \in Seq(S) /\ Len(w) = Len(s) - 1
          /\ \A i \in 1..(k - 1) : w[i] = s[i]
          /\ \A i \in k..(Len(s) - 1) : w[i] = s[i + 1]
        <3> HIDE DEF a, b
        <3>1. /\ w \in Seq(S) /\ Len(w) = Len(a) + Len(b)
              /\ \A i \in 1..Len(a) : w[i] = a[i]
              /\ \A i \in (Len(a) + 1)..(Len(a) + Len(b)) : w[i] = b[i - Len(a)]
            <4>1. /\ w \in Seq(S) /\ Len(w) = Len(a) + Len(b)
                  /\ \A i \in 1..(Len(a) + Len(b)) :
                        w[i] = IF i <= Len(a) THEN a[i] ELSE b[i - Len(a)]
                BY <2>6, ConcatProperties
            <4> HIDE DEF w
            <4>2. Len(a) \in Nat /\ Len(b) \in Nat
                BY <2>6
            <4> QED BY <4>1, <4>2
        <3>2. ASSUME NEW i \in k..(Len(s) - 1) PROVE w[i] = s[i + 1]
            <4>1. i - (k - 1) \in 1..(Len(s) - k) /\ i - (k - 1) + k = i + 1
                BY <2>1, <2>5
            <4>2. w[i] = b[i - (k - 1)]
                BY <2>1, <2>5, <2>6, <3>1
            <4> QED BY <2>6, <4>1, <4>2
        <3> HIDE DEF w
        <3> QED BY <2>1, <2>5, <2>6, <3>1, <3>2
    <2> HIDE DEF w
    <2>8. ASSUME NEW x, x # e PROVE Contains(w, x) <=> Contains(s, x)
        <3>1. ASSUME NEW i \in 1..Len(w), w[i] = x PROVE \E j \in 1..Len(s) : s[j] = x
            <4>1. i \in 1..(k - 1) \/ i \in k..(Len(s) - 1)
                BY <2>1, <2>5, <2>7
            <4>2. i \in 1..Len(s) /\ i + 1 \in 1..Len(s)
                BY <2>1, <2>7
            <4> QED BY <2>7, <3>1, <4>1, <4>2
        <3>2. ASSUME NEW j \in 1..Len(s), s[j] = x PROVE \E i \in 1..Len(w) : w[i] = x
            <4>1. j # k
                BY <2>5, <2>8, <3>2
            <4>2. CASE j < k
                <5>1. j \in 1..(k - 1) /\ j \in 1..Len(w)
                    BY <2>1, <2>5, <2>7, <4>2
                <5> QED BY <2>7, <3>2, <5>1
            <4>3. CASE j > k
                <5>1. j - 1 \in k..(Len(s) - 1) /\ j - 1 \in 1..Len(w) /\ j - 1 + 1 = j
                    BY <2>1, <2>5, <2>7, <4>3
                <5> QED BY <2>7, <3>2, <5>1
            <4> QED BY <2>5, <4>1, <4>2, <4>3
        <3> QED BY <3>1, <3>2 DEF Contains
    <2> QED BY <2>4, <2>7, <2>8 DEF w
<1> QED BY <1>1, <1>2

-----------------------------------------------------------------------------
(* The steps of the channels *)

\* The messages about an offer by which its task comes into being: on their
\* way to the broker, and to the runner. The results of a task.
OfferStage  == {"taskoffer", "taskaccepted", "taskrejected", "taskdeferred"}
AcceptStage == {"taskofferaccept", "tasksettings"}
Results     == {"taskdone", "taskerror"}

\* At most one message of each stage, and no result before the acceptance
OfferChannel(s, o) == Once(s, OfferStage, o) /\ Before(s, "taskaccepted", Results, o)
AcceptChannel(s, o) == Once(s, AcceptStage, o)

\* The channel s became w: messages about o, of these types, have been sent
Adds(s, w, o, types) ==
    /\ About(w, o) = About(s, o) \cup types
    /\ OfferChannel(s, o) /\ (About(s, o) \cap OfferStage = {} \/ types \cap OfferStage = {})
            /\ (About(s, o) \cap Results = {} \/ "taskaccepted" \notin types)
            => OfferChannel(w, o)
    /\ AcceptChannel(s, o) /\ (About(s, o) \cap AcceptStage = {} \/ types \cap AcceptStage = {})
            => AcceptChannel(w, o)

\* The channel s became w: a message about o, of this type, has been received
Drops(s, w, o, type) ==
    /\ About(s, o) = About(w, o) \cup {type}
    /\ OfferChannel(s, o) => OfferChannel(w, o)
    /\ AcceptChannel(s, o) => AcceptChannel(w, o)
    /\ OfferChannel(s, o) /\ type \in OfferStage => About(w, o) \cap OfferStage = {}
    /\ OfferChannel(s, o) /\ type \in Results => "taskaccepted" \notin About(w, o)
    /\ AcceptChannel(s, o) /\ type \in AcceptStage => About(w, o) \cap AcceptStage = {}

\* What a step that leaves a channel alone, sends to it or takes from it does.
LEMMA NothingAdded ==
    ASSUME NEW s, NEW o
    PROVE  Adds(s, s, o, {})
BY DEF Adds

LEMMA MessagesAdded ==
    ASSUME NEW S, NEW s \in Seq(S), NEW u \in Seq(S), NEW o, Single(u, o)
    PROVE  s \o u \in Seq(S) /\ Adds(s, s \o u, o, About(u, o))
<1>1. "taskaccepted" \notin Results
    BY DEF Results
<1> QED BY <1>1, MoreOnChannel DEF Adds, OfferChannel, AcceptChannel

LEMMA MessageReceived ==
    ASSUME NEW S, NEW s \in Seq(S), s # <<>>, NEW type, NEW p, Head(s) = <<type, p>>, NEW o
    PROVE  /\ Tail(s) \in Seq(S)
           /\ o = p => Drops(s, Tail(s), o, type)
           /\ o # p => Adds(s, Tail(s), o, {})
<1>1. Head(s)[1] = type /\ Head(s)[2] = p
    OBVIOUS
<1>2. Tail(s) \in Seq(S)
    BY TailOfChannel
<1>3. ASSUME o = p PROVE Drops(s, Tail(s), o, type)
    BY <1>1, <1>3, TailOfChannel DEF Drops, OfferChannel, AcceptChannel
<1>4. ASSUME o # p PROVE Adds(s, Tail(s), o, {})
    BY <1>1, <1>4, TailOfChannel DEF Adds, OfferChannel, AcceptChannel
<1> QED BY <1>2, <1>3, <1>4

\* What a runner sends reaches the channel while the broker knows the runner.
LEMMA Sends ==
    ASSUME RunnerTypeOK, NEW r \in Runners, NEW u \in Seq(ToBroker), Send(r, u),
           \A o : Single(u, o)
    PROVE  /\ toBroker' \in [Runners -> Seq(ToBroker)]
           /\ \A p \in Runners : p # r => toBroker'[p] = toBroker[p]
           /\ ~Known(r) => toBroker'[r] = toBroker[r]
           /\ \A o : Adds(toBroker[r], toBroker'[r], o, IF Known(r) THEN About(u, o) ELSE {})
<1>1. toBroker \in [Runners -> Seq(ToBroker)] /\ toBroker[r] \in Seq(ToBroker)
    BY DEF RunnerTypeOK
<1>2. CASE Known(r)
    <2>1. toBroker' = [toBroker EXCEPT ![r] = @ \o u]
        BY <1>2 DEF Send, Known
    <2>2. toBroker[r] \o u \in Seq(ToBroker)
        BY <1>1, ConcatProperties
    <2> QED BY <1>1, <1>2, <2>1, <2>2, MessagesAdded
<1>3. CASE ~Known(r)
    <2>1. toBroker' = toBroker
        BY <1>3 DEF Send, Known
    <2> QED BY <1>1, <1>3, <2>1, NothingAdded
<1> QED BY <1>2, <1>3

\* What the broker sends reaches the channel while the runner runs.
LEMMA Delivers ==
    ASSUME RunnerTypeOK, NEW r \in Runners, NEW u \in Seq(ToRunner), Deliver(r, u),
           \A o : Single(u, o)
    PROVE  /\ toRunner' \in [Runners -> Seq(ToRunner)]
           /\ \A p \in Runners : p # r => toRunner'[p] = toRunner[p]
           /\ \A o : Adds(toRunner[r], toRunner'[r], o, IF r \in up THEN About(u, o) ELSE {})
<1>1. toRunner \in [Runners -> Seq(ToRunner)] /\ toRunner[r] \in Seq(ToRunner)
    BY DEF RunnerTypeOK
<1>2. CASE r \in up
    <2>1. toRunner' = [toRunner EXCEPT ![r] = @ \o u]
        BY <1>2 DEF Deliver
    <2>2. toRunner[r] \o u \in Seq(ToRunner)
        BY <1>1, ConcatProperties
    <2> QED BY <1>1, <1>2, <2>1, <2>2, MessagesAdded
<1>3. CASE r \notin up
    <2>1. toRunner' = toRunner
        BY <1>3 DEF Deliver
    <2> QED BY <1>1, <1>3, <2>1, NothingAdded
<1> QED BY <1>2, <1>3

\* A runner takes the first message of its channel.
LEMMA RunnerReceives ==
    ASSUME RunnerTypeOK, NEW r \in Runners, NEW type, NEW o, Receives(r, type, o)
    PROVE  /\ r \in up /\ type \in About(toRunner[r], o)
           /\ toRunner' \in [Runners -> Seq(ToRunner)]
           /\ \A p \in Runners : p # r => toRunner'[p] = toRunner[p]
           /\ Drops(toRunner[r], toRunner'[r], o, type)
           /\ \A x : x # o => Adds(toRunner[r], toRunner'[r], x, {})
<1>1. toRunner \in [Runners -> Seq(ToRunner)] /\ toRunner[r] \in Seq(ToRunner)
    BY DEF RunnerTypeOK
<1>2. /\ r \in up /\ toRunner[r] # <<>> /\ Head(toRunner[r]) = <<type, o>>
      /\ toRunner' = [toRunner EXCEPT ![r] = Tail(@)]
    BY DEF Receives
<1>3. /\ Tail(toRunner[r]) \in Seq(ToRunner)
      /\ \A x : /\ x = o => Drops(toRunner[r], Tail(toRunner[r]), x, type)
                /\ x # o => Adds(toRunner[r], Tail(toRunner[r]), x, {})
    BY <1>1, <1>2, MessageReceived
<1>4. /\ toRunner' \in [Runners -> Seq(ToRunner)] /\ toRunner'[r] = Tail(toRunner[r])
      /\ \A p \in Runners : p # r => toRunner'[p] = toRunner[p]
    BY <1>1, <1>2, <1>3
<1>5. type \in About(toRunner[r], o)
    BY <1>3 DEF Drops
<1> QED BY <1>2, <1>3, <1>4, <1>5

\* The broker takes the first message of a runner.
LEMMA MessageOfRunner ==
    ASSUME RunnerTypeOK, NEW r \in Runners, NEW type, NEW o, BrokerReceives(r, type, o)
    PROVE  /\ Known(r) /\ type \in About(toBroker[r], o)
           /\ toBroker' \in [Runners -> Seq(ToBroker)]
           /\ \A p \in Runners : p # r => toBroker'[p] = toBroker[p]
           /\ Drops(toBroker[r], toBroker'[r], o, type)
           /\ \A x : x # o => Adds(toBroker[r], toBroker'[r], x, {})
<1>1. toBroker \in [Runners -> Seq(ToBroker)] /\ toBroker[r] \in Seq(ToBroker)
    BY DEF RunnerTypeOK
<1>2. /\ Known(r) /\ toBroker[r] # <<>> /\ Head(toBroker[r]) = <<type, o>>
      /\ toBroker' = [toBroker EXCEPT ![r] = Tail(@)]
    BY DEF BrokerReceives
<1>3. /\ Tail(toBroker[r]) \in Seq(ToBroker)
      /\ \A x : /\ x = o => Drops(toBroker[r], Tail(toBroker[r]), x, type)
                /\ x # o => Adds(toBroker[r], Tail(toBroker[r]), x, {})
    BY <1>1, <1>2, MessageReceived
<1>4. /\ toBroker' \in [Runners -> Seq(ToBroker)] /\ toBroker'[r] = Tail(toBroker[r])
      /\ \A p \in Runners : p # r => toBroker'[p] = toBroker[p]
    BY <1>1, <1>2, <1>3
<1>5. type \in About(toBroker[r], o)
    BY <1>3 DEF Drops
<1> QED BY <1>2, <1>3, <1>4, <1>5

\* sendOffers sends what is to be sent first, and one offer for each ID that it
\* takes from those that are free.
LEMMA SendsOffers ==
    ASSUME RunnerTypeOK, NEW r \in Runners, NEW running, NEW free \in SUBSET OfferIds,
           NEW first, sendOffers(r, running, first, free),
           \/ first = <<>>
           \/ \E y \in Results, o \in OfferIds \ free : first = <<<<y, o>>>>
    PROVE  /\ openOffers' \in [Runners -> SUBSET OfferIds]
           /\ toBroker' \in [Runners -> Seq(ToBroker)]
           /\ \A p \in Runners : p # r => toBroker'[p] = toBroker[p]
           /\ ~Known(r) => toBroker'[r] = toBroker[r]
           /\ \E fresh \in SUBSET free : \A o :
                Adds(toBroker[r], toBroker'[r], o,
                     IF ~Known(r) THEN {} ELSE IF o \in fresh THEN {"taskoffer"}
                                               ELSE About(first, o))
<1>1. PICK stale \in SUBSET openOffers[r] :
        LET open  == openOffers[r] \ stale
            fresh == IF r \notin canSendOffers THEN {}
                     ELSE {o \in free : Cardinality({p \in free : p < o})
                                            < offersToSend(open, running)}
            ids   == InOrder(fresh)
        IN  /\ openOffers' = [openOffers EXCEPT ![r] = open \cup fresh]
            /\ Send(r, first \o [i \in DOMAIN ids |-> <<"taskoffer", ids[i]>>])
    BY DEF sendOffers
<1> DEFINE open  == openOffers[r] \ stale
           small == {o \in free : Cardinality({p \in free : p < o})
                                    < offersToSend(open, running)}
           fresh == IF r \notin canSendOffers THEN {} ELSE small
           ids   == InOrder(fresh)
           u     == [i \in DOMAIN ids |-> <<"taskoffer", ids[i]>>]
<1>2. openOffers' = [openOffers EXCEPT ![r] = open \cup fresh] /\ Send(r, first \o u)
    BY <1>1
<1>3. open \in SUBSET OfferIds /\ fresh \in SUBSET free
      /\ openOffers \in [Runners -> SUBSET OfferIds]
    BY DEF RunnerTypeOK
<1> HIDE DEF open, fresh
<1>4. openOffers' \in [Runners -> SUBSET OfferIds]
    BY <1>2, <1>3
<1>5. /\ ids \in Seq(OfferIds) /\ \A i, j \in DOMAIN ids : ids[i] = ids[j] => i = j
      /\ \A o : o \in fresh <=> \E i \in DOMAIN ids : ids[i] = o
    <2>1. fresh \in SUBSET Nat /\ IsFiniteSet(fresh)
        <3>1. fresh \in SUBSET OfferIds /\ IsFiniteSet(OfferIds) /\ OfferIds \in SUBSET Nat
            BY <1>3, OfferIdsAssumption
        <3> QED BY <3>1, FS_Subset
    <2>2. /\ Cardinality(fresh) \in Nat
          /\ ids \in [1..Cardinality(fresh) -> fresh]
          /\ \A k \in fresh : \E n \in 1..Cardinality(fresh) : ids[n] = k
          /\ \A m, n \in 1..Cardinality(fresh) : m < n => ids[m] < ids[n]
        BY <2>1, InOrderLists
    <2> HIDE DEF ids
    <2>3. \A i, j \in DOMAIN ids : ids[i] = ids[j] => i = j
        <3> SUFFICES ASSUME NEW i \in DOMAIN ids, NEW j \in DOMAIN ids, i # j
                     PROVE  ids[i] # ids[j]
            OBVIOUS
        <3>1. i < j \/ j < i
            BY <2>2
        <3>2. ids[i] \in Nat /\ ids[j] \in Nat
            BY <2>1, <2>2
        <3> QED BY <2>2, <3>1, <3>2
    <2>4. ids \in Seq(OfferIds)
        BY <1>3, <2>2
    <2> QED BY <2>2, <2>3, <2>4
<1> HIDE DEF ids
<1>6. /\ u \in Seq({"taskoffer"} \X OfferIds)
      /\ \A o : Single(u, o) /\ About(u, o) = IF o \in fresh THEN {"taskoffer"} ELSE {}
    <2>1. /\ u \in Seq({"taskoffer"} \X OfferIds) /\ DOMAIN u = DOMAIN ids
          /\ \A i \in DOMAIN ids : u[i] = <<"taskoffer", ids[i]>>
        BY <1>5
    <2> HIDE DEF u
    <2>2. Lists(u, "taskoffer", ids)
        BY <1>5, <2>1 DEF Lists
    <2>3. \A o : /\ Single(u, o)
                 /\ \A y : y \in About(u, o)
                            <=> y = "taskoffer" /\ \E i \in DOMAIN ids : ids[i] = o
        BY <2>2, ListsOfMessages
    <2> QED BY <1>5, <2>1, <2>3
<1> HIDE DEF u
<1>7. u \in Seq(ToBroker)
    BY <1>6 DEF ToBroker
<1>8. /\ first \o u \in Seq(ToBroker)
      /\ \A o : /\ Single(first \o u, o)
                /\ About(first \o u, o) = IF o \in fresh THEN {"taskoffer"} ELSE About(first, o)
    <2>1. CASE first = <<>>
        <3>1. first \o u = u
            BY <1>7, <2>1, ConcatEmptySeq
        <3>2. \A o : About(first, o) = {}
            BY <2>1, OneMessage
        <3> QED BY <1>6, <1>7, <3>1, <3>2
    <2>2. ASSUME NEW y \in Results, NEW o \in OfferIds \ free, first = <<<<y, o>>>>
          PROVE  /\ first \o u \in Seq(ToBroker)
                 /\ \A p : /\ Single(first \o u, p)
                           /\ About(first \o u, p) = IF p \in fresh THEN {"taskoffer"}
                                                                    ELSE About(first, p)
        <3>1. <<y, o>> \in ToBroker
            BY DEF ToBroker, Results
        <3>2. About(u, o) = {} /\ o \notin fresh
            BY <1>3, <1>6
        <3>3. /\ first \o u \in Seq(ToBroker)
              /\ \A p : /\ Single(first \o u, p)
                        /\ \A z : z \in About(first \o u, p)
                                    <=> (p = o /\ z = y) \/ z \in About(u, p)
            <4>1. first \in Seq(ToBroker) /\ Is(first, y, o)
                BY <2>2, <3>1 DEF Is
            <4>2. \A p : Single(u, p)
                BY <1>6
            <4> QED BY <1>7, <3>2, <4>1, <4>2, ResultThenOffers
        <3>4. \A p : About(first, p) = IF o = p THEN {y} ELSE {}
            BY <2>2, OneMessage
        <3> QED BY <1>6, <3>2, <3>3, <3>4
    <2> QED BY <2>1, <2>2
<1>9. /\ toBroker' \in [Runners -> Seq(ToBroker)]
      /\ \A p \in Runners : p # r => toBroker'[p] = toBroker[p]
      /\ ~Known(r) => toBroker'[r] = toBroker[r]
      /\ \A o : Adds(toBroker[r], toBroker'[r], o,
                     IF Known(r) THEN About(first \o u, o) ELSE {})
    BY <1>2, <1>8, Sends
<1>10. \A o : Adds(toBroker[r], toBroker'[r], o,
                   IF ~Known(r) THEN {} ELSE IF o \in fresh THEN {"taskoffer"}
                                             ELSE About(first, o))
    BY <1>8, <1>9
<1> QED BY <1>3, <1>4, <1>9, <1>10

\* Contains, in terms of positions.
LEMMA ContainsElement ==
    ASSUME NEW S, NEW s \in Seq(S), NEW x
    PROVE  /\ Contains(s, x) <=> \E i \in DOMAIN s : s[i] = x
           /\ \A i \in DOMAIN s : s[i] \in S
<1>1. DOMAIN s = 1..Len(s)
    OBVIOUS
<1> QED BY <1>1 DEF Contains

\* settleTasks takes up offers: each leaves the pending offers, awaits its
\* runner's answer for a request, and its runner is sent one message.
LEMMA SettlesTasks ==
    ASSUME TypeOK, NEW requests \in Seq(Requests), NEW received,
           NEW offers \in Seq(Tasks), Distinct(offers),
           settleTasks(requests, offers, received)
    PROVE  /\ pendingTaskRequests' = requests
           /\ pendingTaskOffers' \in Seq(Tasks)
           /\ Distinct(pendingTaskOffers')
           /\ acceptInProgress' \subseteq Requests
           /\ accepting' \in [Tasks -> Requests \cup {None}]
           /\ toRunner' \in [Runners -> Seq(ToRunner)]
           /\ \A t : Contains(pendingTaskOffers', t) => Contains(offers, t)
           /\ \E taken \in SUBSET Tasks : \A r \in Runners, o \in OfferIds :
                /\ <<r, o>> \in taken =>
                        /\ Contains(offers, <<r, o>>)
                        /\ accepting'[<<r, o>>] \in Requests
                        /\ ~Contains(pendingTaskOffers', <<r, o>>)
                /\ <<r, o>> \notin taken => accepting'[<<r, o>>] = accepting[<<r, o>>]
                /\ Adds(toRunner[r], toRunner'[r], o,
                        IF r \in up /\ <<r, o>> \in taken THEN {"taskofferaccept"} ELSE {})
<1>1. PICK expired \in SUBSET {t \in ToSet(offers) \ received : t[1] \notin Launchers} :
        LET valid   == At(offers, {i \in DOMAIN offers : offers[i] \notin expired})
            waiting == At(requests, {i \in DOMAIN requests :
                                        /\ requests[i] \notin acceptInProgress
                                        /\ \A j \in 1..(i - 1) : requests[j] # requests[i]})
            taken   == DOMAIN valid \cap DOMAIN waiting
            accepts(r) == At(valid, {i \in taken : valid[i][1] = r})
        IN  /\ pendingTaskRequests' = requests
            /\ pendingTaskOffers' = At(valid, DOMAIN valid \ taken)
            /\ acceptInProgress' = acceptInProgress \cup {waiting[i] : i \in taken}
            /\ accepting' = [t \in Tasks |->
                    IF \E i \in taken : valid[i] = t
                    THEN waiting[CHOOSE i \in taken : valid[i] = t] ELSE accepting[t]]
            /\ toRunner' = [r \in Runners |->
                    IF r \notin up THEN toRunner[r]
                    ELSE toRunner[r] \o [i \in DOMAIN accepts(r) |->
                                            <<"taskofferaccept", accepts(r)[i][2]>>]]
    BY DEF settleTasks
<1> DEFINE left    == {i \in DOMAIN offers : offers[i] \notin expired}
           valid   == At(offers, left)
           first   == {i \in DOMAIN requests : /\ requests[i] \notin acceptInProgress
                                               /\ \A j \in 1..(i - 1) : requests[j] # requests[i]}
           waiting == At(requests, first)
           taken   == DOMAIN valid \cap DOMAIN waiting
           of(r)   == {i \in taken : valid[i][1] = r}
           accepts(r) == At(valid, of(r))
           sent(r) == [i \in DOMAIN accepts(r) |-> <<"taskofferaccept", accepts(r)[i][2]>>]
<1>2. /\ pendingTaskRequests' = requests
      /\ pendingTaskOffers' = At(valid, DOMAIN valid \ taken)
      /\ acceptInProgress' = acceptInProgress \cup {waiting[i] : i \in taken}
      /\ accepting' = [t \in Tasks |->
                    IF \E i \in taken : valid[i] = t
                    THEN waiting[CHOOSE i \in taken : valid[i] = t] ELSE accepting[t]]
      /\ toRunner' = [r \in Runners |->
                    IF r \notin up THEN toRunner[r] ELSE toRunner[r] \o sent(r)]
    BY <1>1
<1>3. left \in SUBSET DOMAIN offers /\ first \in SUBSET DOMAIN requests
    OBVIOUS
<1> HIDE DEF left, first
<1>4. /\ valid \in Seq(Tasks) /\ waiting \in Seq(Requests)
      /\ \A n \in DOMAIN valid : \E k \in left : valid[n] = offers[k]
      /\ Distinct(valid)
    BY <1>3, AtLists
<1> HIDE DEF valid, waiting
<1>5. /\ taken \in SUBSET DOMAIN valid /\ DOMAIN valid \ taken \in SUBSET DOMAIN valid
      /\ \A r : of(r) \in SUBSET DOMAIN valid
      /\ \A i \in taken : valid[i] \in Tasks /\ waiting[i] \in Requests
    BY <1>4
<1>6. /\ pendingTaskOffers' \in Seq(Tasks)
      /\ Distinct(pendingTaskOffers')
      /\ \A n \in DOMAIN pendingTaskOffers' :
            \E k \in DOMAIN valid \ taken : pendingTaskOffers'[n] = valid[k]
    <2> DEFINE K == DOMAIN valid \ taken
    <2>1. K \in SUBSET DOMAIN valid /\ pendingTaskOffers' = At(valid, K)
        BY <1>2
    <2> HIDE DEF K
    <2>2. /\ At(valid, K) \in Seq(Tasks) /\ Distinct(At(valid, K))
          /\ \A n \in DOMAIN At(valid, K) : \E k \in K : At(valid, K)[n] = valid[k]
        BY <1>4, <2>1, AtLists
    <2> QED BY <2>1, <2>2 DEF K
<1>7. acceptInProgress' \subseteq Requests
    BY <1>2, <1>5 DEF TypeOK
<1>8. accepting' \in [Tasks -> Requests \cup {None}]
    <2>1. ASSUME NEW t \in Tasks, \E i \in taken : valid[i] = t
          PROVE  waiting[CHOOSE i \in taken : valid[i] = t] \in Requests
        <3>1. (CHOOSE i \in taken : valid[i] = t) \in taken
            BY <2>1
        <3> QED BY <1>5, <3>1
    <2>2. accepting \in [Tasks -> Requests \cup {None}]
        BY DEF TypeOK
    <2> HIDE DEF taken
    <2> QED BY <1>2, <2>1, <2>2
<1>9. ASSUME NEW t PROVE Contains(pendingTaskOffers', t) => Contains(offers, t)
    <2>1. Contains(pendingTaskOffers', t)
          => \E n \in DOMAIN pendingTaskOffers' : pendingTaskOffers'[n] = t
        BY <1>6, ContainsElement
    <2>2. (\E n \in DOMAIN pendingTaskOffers' : pendingTaskOffers'[n] = t)
            => \E k \in DOMAIN offers : offers[k] = t
        BY <1>3, <1>4, <1>6
    <2> QED BY <2>1, <2>2, ContainsElement
<1> DEFINE T == {t \in Tasks : \E i \in taken : valid[i] = t}
<1>10. ASSUME NEW t \in T
       PROVE  /\ Contains(offers, t) /\ accepting'[t] \in Requests
              /\ ~Contains(pendingTaskOffers', t)
    <2>1. PICK i \in taken : valid[i] = t
        OBVIOUS
    <2>2. Contains(offers, t)
        <3>1. \E k \in DOMAIN offers : offers[k] = t
            BY <1>3, <1>4, <2>1
        <3> QED BY <3>1, ContainsElement
    <2>3. accepting'[t] \in Requests
        <3>1. (CHOOSE j \in taken : valid[j] = t) \in taken
            BY <2>1
        <3>2. accepting'[t] = waiting[CHOOSE j \in taken : valid[j] = t]
            BY <1>2, <2>1
        <3> QED BY <1>5, <3>1, <3>2
    <2>4. ASSUME Contains(pendingTaskOffers', t) PROVE FALSE
        <3>1. PICK n \in DOMAIN pendingTaskOffers' : pendingTaskOffers'[n] = t
            BY <1>6, <2>4, ContainsElement
        <3>2. PICK k \in DOMAIN valid \ taken : valid[k] = t
            BY <1>6, <3>1
        <3>3. k = i
            BY <1>4, <1>5, <2>1, <2>4, <3>2 DEF Distinct
        <3> QED BY <2>1, <3>2, <3>3
    <2> QED BY <2>2, <2>3, <2>4
<1>11. ASSUME NEW t \in Tasks, t \notin T PROVE accepting'[t] = accepting[t]
    BY <1>2, <1>11
<1>12. ASSUME NEW r \in Runners
       PROVE  /\ sent(r) \in Seq(ToRunner)
              /\ \A o \in OfferIds : /\ Single(sent(r), o)
                                     /\ About(sent(r), o) = IF <<r, o>> \in T
                                                            THEN {"taskofferaccept"} ELSE {}
    <2> DEFINE a == accepts(r)
               ids == [i \in DOMAIN a |-> a[i][2]]
               u == sent(r)
    <2>1. /\ a \in Seq(Tasks) /\ Distinct(a)
          /\ \A n \in DOMAIN a : \E k \in of(r) : a[n] = valid[k]
          /\ \A k \in of(r) : \E n \in DOMAIN a : a[n] = valid[k]
        <3> DEFINE K == of(r)
        <3>1. K \in SUBSET DOMAIN valid
            BY <1>5
        <3> HIDE DEF K
        <3>2. /\ At(valid, K) \in Seq(Tasks) /\ Distinct(At(valid, K))
              /\ \A n \in DOMAIN At(valid, K) : \E k \in K : At(valid, K)[n] = valid[k]
              /\ \A k \in K : \E n \in DOMAIN At(valid, K) : At(valid, K)[n] = valid[k]
            <4>1. ASSUME NEW k \in K
                  PROVE  \E n \in DOMAIN At(valid, K) : At(valid, K)[n] = valid[k]
                BY <1>4, <3>1, AtLists
            <4> QED BY <1>4, <3>1, <4>1, AtLists
        <3> QED BY <3>2 DEF K
    <2> HIDE DEF a
    <2>2. \A i \in DOMAIN a : a[i] \in Tasks /\ a[i][1] = r /\ a[i] = <<r, a[i][2]>>
          /\ a[i][2] \in OfferIds
        BY <2>1 DEF Tasks
    <2>3. /\ ids \in Seq(OfferIds) /\ DOMAIN ids = DOMAIN a
          /\ \A i \in DOMAIN ids : ids[i] = a[i][2]
        <3>1. DOMAIN a = 1..Len(a) /\ Len(a) \in Nat
            BY <2>1
        <3> QED BY <2>2, <3>1
    <2>4. /\ u \in Seq({"taskofferaccept"} \X OfferIds) /\ DOMAIN u = DOMAIN a
          /\ \A i \in DOMAIN a : u[i] = <<"taskofferaccept", a[i][2]>>
        <3>1. u = [i \in DOMAIN a |-> <<"taskofferaccept", a[i][2]>>]
            BY DEF a
        <3> HIDE DEF u
        <3> QED BY <2>1, <2>2, <3>1
    <2> HIDE DEF u, ids
    <2>5. \A i, j \in DOMAIN ids : ids[i] = ids[j] => i = j
        <3> SUFFICES ASSUME NEW i \in DOMAIN a, NEW j \in DOMAIN a, a[i][2] = a[j][2]
                     PROVE  i = j
            BY <2>3
        <3>1. a[i] = a[j]
            BY <2>2
        <3> QED BY <2>1, <3>1 DEF Distinct
    <2>6. Lists(u, "taskofferaccept", ids)
        BY <2>3, <2>4, <2>5 DEF Lists
    <2>7. ASSUME NEW o \in OfferIds
          PROVE  (\E i \in DOMAIN ids : ids[i] = o) <=> <<r, o>> \in T
        <3>1. ASSUME NEW i \in DOMAIN ids, ids[i] = o PROVE <<r, o>> \in T
            <4>1. a[i] = <<r, o>> /\ <<r, o>> \in Tasks
                BY <2>2, <2>3, <3>1
            <4>2. PICK k \in of(r) : a[i] = valid[k]
                BY <2>1, <2>3
            <4> QED BY <4>1, <4>2
        <3>2. ASSUME <<r, o>> \in T PROVE \E i \in DOMAIN ids : ids[i] = o
            <4>1. PICK k \in taken : valid[k] = <<r, o>>
                BY <3>2
            <4>2. k \in of(r)
                BY <4>1
            <4>3. PICK i \in DOMAIN a : a[i] = valid[k]
                BY <2>1, <4>2
            <4> QED BY <2>3, <4>1, <4>3
        <3> QED BY <3>1, <3>2
    <2>8. u \in Seq(ToRunner)
        BY <2>4 DEF ToRunner
    <2>9. ASSUME NEW o \in OfferIds
          PROVE  /\ Single(u, o)
                 /\ About(u, o) = IF <<r, o>> \in T THEN {"taskofferaccept"} ELSE {}
        <3>1. /\ Single(u, o)
              /\ \A y : y \in About(u, o)
                        <=> y = "taskofferaccept" /\ \E i \in DOMAIN ids : ids[i] = o
            BY <2>6, ListsOfMessages
        <3> HIDE DEF T
        <3> QED BY <2>7, <3>1
    <2> QED BY <2>8, <2>9 DEF u
<1> HIDE DEF sent, T
<1>13. ASSUME NEW r \in Runners
       PROVE  /\ toRunner'[r] \in Seq(ToRunner)
              /\ \A o \in OfferIds :
                    Adds(toRunner[r], toRunner'[r], o,
                         IF r \in up /\ <<r, o>> \in T THEN {"taskofferaccept"} ELSE {})
    <2>1. toRunner[r] \in Seq(ToRunner)
        BY DEF TypeOK, RunnerTypeOK
    <2>2. CASE r \in up
        <3>1. toRunner'[r] = toRunner[r] \o sent(r)
            BY <1>2, <2>2
        <3>2. toRunner[r] \o sent(r) \in Seq(ToRunner)
            BY <1>12, <2>1, ConcatProperties
        <3>3. ASSUME NEW o \in OfferIds
              PROVE  Adds(toRunner[r], toRunner'[r], o, About(sent(r), o))
            <4>1. sent(r) \in Seq(ToRunner) /\ Single(sent(r), o)
                BY <1>12
            <4> QED BY <2>1, <3>1, <4>1, MessagesAdded
        <3> QED BY <1>12, <2>2, <3>1, <3>2, <3>3
    <2>3. CASE r \notin up
        <3>1. toRunner'[r] = toRunner[r]
            BY <1>2, <2>3
        <3> QED BY <2>1, <2>3, <3>1, NothingAdded
    <2> QED BY <2>2, <2>3
<1>14. toRunner' \in [Runners -> Seq(ToRunner)]
    <2>1. DOMAIN toRunner' = Runners /\ toRunner' = [r \in Runners |-> toRunner'[r]]
        BY <1>2
    <2> QED BY <1>13, <2>1
<1>15. T \in SUBSET Tasks /\ \A r \in Runners, o \in OfferIds : <<r, o>> \in Tasks
    BY DEF T, Tasks
<1>16. \A r \in Runners, o \in OfferIds :
        /\ <<r, o>> \in T =>
                /\ Contains(offers, <<r, o>>)
                /\ accepting'[<<r, o>>] \in Requests
                /\ ~Contains(pendingTaskOffers', <<r, o>>)
        /\ <<r, o>> \notin T => accepting'[<<r, o>>] = accepting[<<r, o>>]
        /\ Adds(toRunner[r], toRunner'[r], o,
                IF r \in up /\ <<r, o>> \in T THEN {"taskofferaccept"} ELSE {})
    BY <1>10, <1>11, <1>13, <1>15
<1> QED BY <1>2, <1>6, <1>7, <1>8, <1>9, <1>14, <1>15, <1>16

-----------------------------------------------------------------------------
(* The broker's invariant *)

ToB(r, o)     == About(toBroker[r], o)
ToR(r, o)     == About(toRunner[r], o)
Pending(r, o) == Contains(pendingTaskOffers, <<r, o>>)

\* An offer is in one place: on its way to the broker, pending there, on its way
\* back to be accepted, or, as the task's settings, after that.
OnePlace(r, o) ==
    /\ OfferChannel(toBroker[r], o)
    /\ AcceptChannel(toRunner[r], o)
    /\ ToB(r, o) \cap OfferStage = {} \/ ToR(r, o) \cap AcceptStage = {}
    /\ Pending(r, o) => ToB(r, o) \cap OfferStage = {} /\ ToR(r, o) \cap AcceptStage = {}

\* What the broker has of it agrees with where it is.
Records(r, o) ==
    /\ Pending(r, o) \/ "taskoffer" \in ToB(r, o) =>
            /\ accepting[<<r, o>>] = None /\ tasks[<<r, o>>] = None
            /\ runningTasks[r][o] = "none" /\ ToB(r, o) \cap Results = {}
    /\ accepting[<<r, o>>] # None => tasks[<<r, o>>] = None
    /\ tasks[<<r, o>>] # None =>
            ToB(r, o) \cap OfferStage = {} /\ "taskofferaccept" \notin ToR(r, o)
    /\ "taskcancel" \in ToR(r, o) \/ runningTasks[r][o] = "aborting:cancelled" =>
            /\ accepting[<<r, o>>] = None /\ tasks[<<r, o>>] = None /\ ~Pending(r, o)
            /\ ToB(r, o) \cap OfferStage = {} /\ "taskofferaccept" \notin ToR(r, o)
    /\ ~Known(r) => toBroker[r] = <<>> /\ tasks[<<r, o>>] = None

\* And so does the status of the task in the runner.
Status(r, o) ==
    /\ "taskofferaccept" \in ToR(r, o) =>
            runningTasks[r][o] = "none" /\ ToB(r, o) \cap Results = {}
    /\ "taskaccepted" \in ToB(r, o) \/ "tasksettings" \in ToR(r, o) =>
            runningTasks[r][o] \in {"none", "waitingForSettings"}
    /\ runningTasks[r][o] \in {"none", "waitingForSettings"} => code[r][o] = "none"
    /\ r \in up /\ "taskaccepted" \in ToB(r, o) =>
            runningTasks[r][o] = "waitingForSettings" \/ ToB(r, o) \cap Results # {}
    /\ r \in up /\ <<r, o>> \in settingsSent =>
            \/ runningTasks[r][o] = "waitingForSettings" /\ "tasksettings" \in ToR(r, o)
            \/ runningTasks[r][o] \in {"running", "aborting:timeout"}
            \/ ToB(r, o) \cap Results # {}

TaskInv(r, o) == OnePlace(r, o) /\ Records(r, o) /\ Status(r, o)

\* The task a call waits for has its settings, and no other call waits for it.
OneTaskPerCall == \A t \in settingsSent : startTask[tasks[t]] = Waiting(t)

BrokerInv ==
    /\ TypeOK
    /\ Distinct(pendingTaskOffers)
    /\ \A r \in Runners, o \in OfferIds : TaskInv(r, o)
    /\ WaitingCallsHaveAnAnswerer
    /\ OneTaskPerCall

\* Nothing happens to a task, except that the broker may give up waiting.
LEMMA SameTask ==
    ASSUME NEW r, NEW o, TaskInv(r, o),
           runningTasks'[r][o] = runningTasks[r][o], code'[r][o] = code[r][o],
           accepting'[<<r, o>>] \in {accepting[<<r, o>>], None},
           tasks'[<<r, o>>] = tasks[<<r, o>>],
           <<r, o>> \in settingsSent' => <<r, o>> \in settingsSent,
           Pending(r, o)' => Pending(r, o), r \in up' => r \in up, Known(r)' <=> Known(r),
           ~Known(r) => toBroker'[r] = toBroker[r],
           Adds(toBroker[r], toBroker'[r], o, {}), Adds(toRunner[r], toRunner'[r], o, {})
    PROVE  TaskInv(r, o)'
<1>1. ToB(r, o)' = ToB(r, o) /\ ToR(r, o)' = ToR(r, o)
    BY DEF Adds, ToB, ToR
<1>2. OnePlace(r, o)'
    BY <1>1 DEF TaskInv, OnePlace, Adds
<1>3. Records(r, o)'
    BY <1>1 DEF TaskInv, Records
<1>4. Status(r, o)'
    BY <1>1 DEF TaskInv, Status
<1> QED BY <1>2, <1>3, <1>4 DEF TaskInv

\* A step of a runner concerns its own tasks.
LEMMA RunnerLocal ==
    ASSUME BrokerInv, NEW r \in Runners, UNCHANGED brokerVars, RunnerTypeOK',
           connection' = connection, up' \subseteq up,
           \A p \in Runners : p # r =>
                /\ runningTasks'[p] = runningTasks[p] /\ code'[p] = code[p]
                /\ toRunner'[p] = toRunner[p] /\ toBroker'[p] = toBroker[p],
           \A o \in OfferIds : TaskInv(r, o)'
    PROVE  BrokerInv'
<1>1. ASSUME NEW p \in Runners, NEW o \in OfferIds, p # r PROVE TaskInv(p, o)'
    <2>1. TaskInv(p, o) /\ (Pending(p, o)' <=> Pending(p, o)) /\ (Known(p)' <=> Known(p))
        BY DEF BrokerInv, brokerVars, Pending, Known
    <2> QED BY <1>1, <2>1, SameTask, NothingAdded DEF brokerVars
<1>2. TypeOK' /\ Distinct(pendingTaskOffers)' /\ WaitingCallsHaveAnAnswerer' /\ OneTaskPerCall'
    BY DEF BrokerInv, TypeOK, brokerVars, Distinct, WaitingCallsHaveAnAnswerer, OneTaskPerCall
<1> QED BY <1>1, <1>2 DEF BrokerInv

-----------------------------------------------------------------------------
(* The steps of a runner *)

\* The ID of a new offer is one that nobody holds.
LEMMA NothingRefersToIt ==
    ASSUME BrokerInv, NEW r \in Runners, NEW o \in FreeOffers(r)
    PROVE  /\ o \in OfferIds /\ runningTasks[r][o] = "none"
           /\ accepting[<<r, o>>] = None /\ tasks[<<r, o>>] = None /\ ~Pending(r, o)
           /\ ToB(r, o) = {} /\ ToR(r, o) = {}
<1>1. \A m \in ToSet(toRunner[r]) \cup ToSet(toBroker[r]) : m[2] # o
    BY DEF FreeOffers
<1>2. ToB(r, o) = {}
    BY <1>1 DEF ToB, About, ToSet
<1>3. ToR(r, o) = {}
    BY <1>1 DEF ToR, About, ToSet
<1> QED BY <1>2, <1>3 DEF FreeOffers, Pending

\* The step sends new offers and leaves the tasks of the runner as they are.
LEMMA Offers ==
    ASSUME BrokerInv, NEW r \in Runners, UNCHANGED brokerVars, connection' = connection,
           up' \subseteq up, NEW o \in OfferIds,
           runningTasks'[r][o] = runningTasks[r][o], code'[r][o] = code[r][o],
           Adds(toRunner[r], toRunner'[r], o, {}), ~Known(r) => toBroker'[r] = toBroker[r],
           NEW fresh \in SUBSET FreeOffers(r),
           Adds(toBroker[r], toBroker'[r], o,
                IF Known(r) /\ o \in fresh THEN {"taskoffer"} ELSE {})
    PROVE  TaskInv(r, o)'
<1>1. TaskInv(r, o) /\ (Pending(r, o)' <=> Pending(r, o)) /\ (Known(r)' <=> Known(r))
    BY DEF BrokerInv, brokerVars, Pending, Known
<1>2. CASE ~(Known(r) /\ o \in fresh)
    BY <1>1, <1>2, SameTask DEF brokerVars
<1>3. CASE Known(r) /\ o \in fresh
    <2>1. /\ runningTasks[r][o] = "none" /\ accepting[<<r, o>>] = None
          /\ tasks[<<r, o>>] = None /\ ~Pending(r, o) /\ ToB(r, o) = {} /\ ToR(r, o) = {}
        BY <1>3, NothingRefersToIt
    <2>2. ToB(r, o)' = {"taskoffer"} /\ ToR(r, o)' = {}
        BY <1>3, <2>1 DEF Adds, ToB, ToR
    <2>3. OfferChannel(toBroker'[r], o) /\ AcceptChannel(toRunner'[r], o)
        BY <1>1, <1>3, <2>1 DEF TaskInv, OnePlace, Adds, ToB, ToR
    <2>4. "taskoffer" \notin Results
        BY DEF Results
    <2>5. OnePlace(r, o)'
        BY <1>1, <2>1, <2>2, <2>3 DEF OnePlace
    <2>6. Records(r, o)'
        BY <1>1, <1>3, <2>1, <2>2, <2>4 DEF Records, brokerVars
    <2>7. Status(r, o)'
        <3>1. <<r, o>> \notin settingsSent
            BY <2>1 DEF BrokerInv, TypeOK
        <3> QED BY <1>1, <2>1, <2>2, <3>1 DEF TaskInv, Status, brokerVars
    <2> QED BY <2>5, <2>6, <2>7 DEF TaskInv
<1> QED BY <1>2, <1>3

\* Messages that are not about the making of a task or its end.
LEMMA StartOffers ==
    ASSUME BrokerInv, NEW r \in Runners, UNCHANGED brokerVars,
           startTaskOffers(r) \/ stopTaskOffers(r)
    PROVE  BrokerInv'
<1>1. PICK type : Receives(r, type, 0)
    BY DEF startTaskOffers, stopTaskOffers
<1>2. RunnerTypeOK
    BY DEF BrokerInv, TypeOK
<1>3. /\ UNCHANGED <<up, connection, openOffers, runningTasks, taskTimer, code, toBroker>>
      /\ canSendOffers' \subseteq Runners
    BY <1>2 DEF startTaskOffers, stopTaskOffers, RunnerTypeOK
<1>4. /\ toRunner' \in [Runners -> Seq(ToRunner)]
      /\ \A p \in Runners : p # r => toRunner'[p] = toRunner[p]
      /\ \A x : x # 0 => Adds(toRunner[r], toRunner'[r], x, {})
    BY <1>1, <1>2, RunnerReceives
<1>5. RunnerTypeOK'
    BY <1>2, <1>3, <1>4 DEF RunnerTypeOK
<1>6. ASSUME NEW o \in OfferIds PROVE TaskInv(r, o)'
    <2>1. o # 0
        BY OfferIdsAssumption
    <2>2. TaskInv(r, o) /\ (Pending(r, o)' <=> Pending(r, o)) /\ (Known(r)' <=> Known(r))
        BY <1>3 DEF BrokerInv, brokerVars, Pending, Known
    <2> QED BY <1>3, <1>4, <2>1, <2>2, SameTask, NothingAdded DEF brokerVars
<1> QED BY <1>3, <1>4, <1>5, <1>6, RunnerLocal

\* The runner stops offering: its tasks go on.
LEMMA StopSignalStep ==
    ASSUME BrokerInv, NEW r \in Runners, UNCHANGED brokerVars, StopSignal(r)
    PROVE  BrokerInv'
<1>1. RunnerTypeOK
    BY DEF BrokerInv, TypeOK
<1>2. RunnerTypeOK'
    BY <1>1 DEF StopSignal, RunnerTypeOK
<1>3. ASSUME NEW o \in OfferIds PROVE TaskInv(r, o)'
    <2>1. TaskInv(r, o) /\ (Pending(r, o)' <=> Pending(r, o)) /\ (Known(r)' <=> Known(r))
        BY DEF BrokerInv, brokerVars, Pending, Known, StopSignal
    <2> QED BY <2>1, SameTask, NothingAdded DEF StopSignal, brokerVars
<1> QED BY <1>2, <1>3, RunnerLocal DEF StopSignal

\* A channel that has been emptied.
LEMMA EmptyChannel ==
    ASSUME NEW o
    PROVE  About(<<>>, o) = {} /\ OfferChannel(<<>>, o) /\ AcceptChannel(<<>>, o)
BY DEF About, OfferChannel, AcceptChannel, Once, Before

\* The process is gone, and what was on its way to it.
LEMMA ProcessExitStep ==
    ASSUME BrokerInv, NEW r \in Runners, UNCHANGED brokerVars, ProcessExit(r)
    PROVE  BrokerInv'
<1>1. RunnerTypeOK
    BY DEF BrokerInv, TypeOK
<1>2. RunnerTypeOK'
    BY <1>1 DEF ProcessExit, RunnerTypeOK, TaskStatus, CodeState
<1>3. /\ \A p \in Runners : p # r =>
            /\ runningTasks'[p] = runningTasks[p] /\ code'[p] = code[p]
            /\ toRunner'[p] = toRunner[p] /\ toBroker'[p] = toBroker[p]
      /\ toRunner'[r] = <<>> /\ toBroker' = toBroker /\ connection' = connection
      /\ r \notin up' /\ up' \subseteq up
      /\ \A o \in OfferIds : runningTasks'[r][o] = "none" /\ code'[r][o] = "none"
    BY <1>1 DEF ProcessExit, RunnerTypeOK
<1>4. ASSUME NEW o \in OfferIds PROVE TaskInv(r, o)'
    <2>1. TaskInv(r, o) /\ (Pending(r, o)' <=> Pending(r, o)) /\ (Known(r)' <=> Known(r))
        BY <1>3 DEF BrokerInv, brokerVars, Pending, Known
    <2>2. ToB(r, o)' = ToB(r, o) /\ ToR(r, o)' = {} /\ AcceptChannel(toRunner'[r], o)
        BY <1>3, EmptyChannel DEF ToB, ToR
    <2>3. OnePlace(r, o)'
        BY <1>3, <2>1, <2>2 DEF TaskInv, OnePlace
    <2>4. Records(r, o)'
        BY <1>3, <2>1, <2>2 DEF TaskInv, Records, brokerVars
    <2>5. Status(r, o)'
        BY <1>3, <2>1, <2>2 DEF TaskInv, Status, brokerVars
    <2> QED BY <2>3, <2>4, <2>5 DEF TaskInv
<1> QED BY <1>2, <1>3, <1>4, RunnerLocal

\* New offers, with IDs that nothing refers to.
LEMMA OfferIntervalStep ==
    ASSUME BrokerInv, NEW r \in Runners, UNCHANGED brokerVars, OfferInterval(r, FreeOffers(r))
    PROVE  BrokerInv'
<1>1. RunnerTypeOK /\ FreeOffers(r) \in SUBSET OfferIds
    BY DEF BrokerInv, TypeOK, FreeOffers
<1>2. /\ sendOffers(r, Running(r), <<>>, FreeOffers(r))
      /\ UNCHANGED <<up, connection, canSendOffers, runningTasks, taskTimer, code, toRunner>>
    BY DEF OfferInterval
<1>3. /\ openOffers' \in [Runners -> SUBSET OfferIds]
      /\ toBroker' \in [Runners -> Seq(ToBroker)]
      /\ \A p \in Runners : p # r => toBroker'[p] = toBroker[p]
      /\ ~Known(r) => toBroker'[r] = toBroker[r]
      /\ \E fresh \in SUBSET FreeOffers(r) : \A o :
            Adds(toBroker[r], toBroker'[r], o,
                 IF ~Known(r) THEN {} ELSE IF o \in fresh THEN {"taskoffer"}
                                           ELSE About(<<>>, o))
    BY <1>1, <1>2, SendsOffers
<1>4. RunnerTypeOK'
    BY <1>1, <1>2, <1>3 DEF RunnerTypeOK
<1>5. ASSUME NEW o \in OfferIds PROVE TaskInv(r, o)'
    <2>1. PICK fresh \in SUBSET FreeOffers(r) :
            Adds(toBroker[r], toBroker'[r], o,
                 IF ~Known(r) THEN {} ELSE IF o \in fresh THEN {"taskoffer"}
                                           ELSE About(<<>>, o))
        BY <1>3
    <2>2. Adds(toBroker[r], toBroker'[r], o,
               IF Known(r) /\ o \in fresh THEN {"taskoffer"} ELSE {})
        BY <2>1, OneMessage
    <2>3. Adds(toRunner[r], toRunner'[r], o, {})
        BY <1>2, NothingAdded
    <2> QED BY <1>2, <1>3, <2>2, <2>3, Offers
<1> QED BY <1>2, <1>3, <1>4, <1>5, RunnerLocal

\* The other tasks of the runner.
LEMMA Untouched ==
    ASSUME BrokerInv, NEW r \in Runners, UNCHANGED brokerVars, connection' = connection,
           up' = up, NEW o \in OfferIds,
           runningTasks'[r][o] = runningTasks[r][o], code'[r][o] = code[r][o],
           ~Known(r) => toBroker'[r] = toBroker[r],
           Adds(toRunner[r], toRunner'[r], o, {}), Adds(toBroker[r], toBroker'[r], o, {})
    PROVE  TaskInv(r, o)'
<1>1. TaskInv(r, o) /\ (Pending(r, o)' <=> Pending(r, o)) /\ (Known(r)' <=> Known(r))
    BY DEF BrokerInv, brokerVars, Pending, Known
<1> QED BY <1>1, SameTask DEF brokerVars

\* An offer that was taken up is answered.
LEMMA OfferAnswered ==
    ASSUME BrokerInv, NEW r \in Runners, NEW o \in OfferIds,
           UNCHANGED brokerVars, connection' = connection, up' = up,
           "taskofferaccept" \in ToR(r, o),
           Drops(toRunner[r], toRunner'[r], o, "taskofferaccept"),
           NEW answer \in OfferStage \ {"taskoffer"},
           ~Known(r) => toBroker'[r] = toBroker[r],
           Adds(toBroker[r], toBroker'[r], o, IF Known(r) THEN {answer} ELSE {}),
           code'[r][o] = code[r][o],
           runningTasks'[r][o] = IF answer = "taskaccepted" THEN "waitingForSettings"
                                                           ELSE runningTasks[r][o]
    PROVE  TaskInv(r, o)'
<1>1. TaskInv(r, o) /\ (Pending(r, o)' <=> Pending(r, o)) /\ (Known(r)' <=> Known(r))
    BY DEF BrokerInv, brokerVars, Pending, Known
<1>2. "taskofferaccept" \in AcceptStage /\ answer \notin Results /\ answer # "taskoffer"
    BY DEF AcceptStage, OfferStage, Results
<1>3. /\ ToB(r, o) \cap OfferStage = {} /\ ToB(r, o) \cap Results = {} /\ ~Pending(r, o)
      /\ runningTasks[r][o] = "none" /\ tasks[<<r, o>>] = None /\ code[r][o] = "none"
      /\ "taskcancel" \notin ToR(r, o)
    BY <1>1, <1>2 DEF TaskInv, OnePlace, Records, Status
<1>4. /\ \A y : y \in ToR(r, o)' => y \in ToR(r, o)
      /\ ToR(r, o)' \cap AcceptStage = {} /\ AcceptChannel(toRunner'[r], o)
    BY <1>1, <1>2 DEF TaskInv, OnePlace, Drops, ToR
<1>5. /\ ToB(r, o)' = ToB(r, o) \cup (IF Known(r) THEN {answer} ELSE {})
      /\ OfferChannel(toBroker'[r], o)
    BY <1>1, <1>3 DEF TaskInv, OnePlace, Adds, ToB
<1>6. OnePlace(r, o)'
    BY <1>1, <1>3, <1>4, <1>5 DEF OnePlace
<1>7. "taskoffer" \in OfferStage /\ "taskaccepted" \in OfferStage
      /\ "tasksettings" \in AcceptStage
    BY DEF OfferStage, AcceptStage
<1>8. Records(r, o)'
    BY <1>1, <1>2, <1>3, <1>4, <1>5, <1>7 DEF TaskInv, Records, brokerVars
<1>9. <<r, o>> \notin settingsSent
    BY <1>3 DEF BrokerInv, TypeOK
<1>10. Status(r, o)'
    BY <1>1, <1>2, <1>3, <1>4, <1>5, <1>7, <1>9 DEF TaskInv, Status, brokerVars
<1> QED BY <1>6, <1>8, <1>10 DEF TaskInv

\* A task ends: its result is sent, or the broker has cancelled it.
LEMMA TaskFinished ==
    ASSUME BrokerInv, NEW r \in Runners, NEW o \in OfferIds,
           UNCHANGED brokerVars, connection' = connection, up' = up,
           runningTasks[r][o] # "none", runningTasks'[r][o] = "none", code'[r][o] = "none",
           NEW types \in SUBSET Results,
           types # {} \/ runningTasks[r][o] = "aborting:cancelled" \/ "taskcancel" \in ToR(r, o),
           ~Known(r) => toBroker'[r] = toBroker[r],
           Adds(toBroker[r], toBroker'[r], o, IF Known(r) THEN types ELSE {}),
           ToR(r, o)' \in SUBSET ToR(r, o), AcceptChannel(toRunner'[r], o)
    PROVE  TaskInv(r, o)'
<1>1. TaskInv(r, o) /\ (Pending(r, o)' <=> Pending(r, o)) /\ (Known(r)' <=> Known(r))
    BY DEF BrokerInv, brokerVars, Pending, Known
<1>2. /\ types \cap OfferStage = {} /\ "taskaccepted" \notin types /\ "taskoffer" \notin types
      /\ "taskoffer" \in OfferStage /\ "taskaccepted" \in OfferStage
    BY DEF OfferStage, Results
<1>3. ~Pending(r, o) /\ "taskoffer" \notin ToB(r, o) /\ "taskofferaccept" \notin ToR(r, o)
    BY <1>1 DEF TaskInv, Records, Status
<1>4. /\ ToB(r, o)' = ToB(r, o) \cup (IF Known(r) THEN types ELSE {})
      /\ OfferChannel(toBroker'[r], o)
    BY <1>1, <1>2 DEF TaskInv, OnePlace, Adds, ToB
<1>5. ToB(r, o)' \cap OfferStage = ToB(r, o) \cap OfferStage
    BY <1>2, <1>4
<1>6. OnePlace(r, o)'
    BY <1>1, <1>3, <1>4, <1>5 DEF TaskInv, OnePlace
<1>7. Records(r, o)'
    BY <1>1, <1>2, <1>3, <1>4, <1>5 DEF TaskInv, Records, brokerVars
<1>8. CASE types = {}
    <2>1. tasks[<<r, o>>] = None /\ ToB(r, o) \cap OfferStage = {}
        BY <1>1, <1>8 DEF TaskInv, Records
    <2>2. <<r, o>> \notin settingsSent
        BY <2>1 DEF BrokerInv, TypeOK
    <2>3. Status(r, o)'
        BY <1>1, <1>2, <1>3, <1>5, <2>1, <2>2 DEF Status, brokerVars
    <2> QED BY <1>6, <1>7, <2>3 DEF TaskInv
<1>9. CASE types # {}
    <2>1. Known(r) => ToB(r, o)' \cap Results # {}
        BY <1>4, <1>9
    <2>2. ~Known(r) => ToB(r, o) = {} /\ tasks[<<r, o>>] = None
        BY <1>1, EmptyChannel DEF TaskInv, Records, ToB
    <2>3. ~Known(r) => <<r, o>> \notin settingsSent
        BY <2>2 DEF BrokerInv, TypeOK
    <2>4. Status(r, o)'
        BY <1>1, <1>2, <1>3, <1>4, <2>1, <2>2, <2>3 DEF Status, brokerVars
    <2> QED BY <1>6, <1>7, <2>4 DEF TaskInv
<1> QED BY <1>8, <1>9

\* The status of a task changes, or what is on its way to the runner but for
\* the making of the task.
LEMMA TaskGoesOn ==
    ASSUME BrokerInv, NEW r \in Runners, NEW o \in OfferIds,
           UNCHANGED brokerVars, connection' = connection, up' = up,
           runningTasks[r][o] # "none" \/ runningTasks'[r][o] = runningTasks[r][o],
           \/ runningTasks'[r][o] = runningTasks[r][o]
           \/ runningTasks'[r][o] = "aborting:cancelled" /\ "taskcancel" \in ToR(r, o)
           \/ runningTasks'[r][o] \in {"running", "aborting:timeout"},
           \/ runningTasks'[r][o] \notin {"none", "waitingForSettings"}
           \/ code[r][o] = "none" => code'[r][o] = "none",
           "taskaccepted" \in ToB(r, o) => runningTasks'[r][o] = runningTasks[r][o],
           "tasksettings" \in ToR(r, o)' => runningTasks'[r][o] = runningTasks[r][o],
           \/ "tasksettings" \in ToR(r, o) => "tasksettings" \in ToR(r, o)'
           \/ runningTasks'[r][o] # "waitingForSettings",
           ~Known(r) => toBroker'[r] = toBroker[r],
           NEW types \in SUBSET {"taskdatarequest"},
           Adds(toBroker[r], toBroker'[r], o, IF Known(r) THEN types ELSE {}),
           ToR(r, o)' \in SUBSET ToR(r, o), AcceptChannel(toRunner'[r], o)
    PROVE  TaskInv(r, o)'
<1>1. TaskInv(r, o) /\ (Pending(r, o)' <=> Pending(r, o)) /\ (Known(r)' <=> Known(r))
    BY DEF BrokerInv, brokerVars, Pending, Known
<1>2. /\ types \cap OfferStage = {} /\ "taskaccepted" \notin types /\ "taskoffer" \notin types
      /\ types \cap Results = {}
    BY DEF OfferStage, Results
<1>3. /\ ToB(r, o)' = ToB(r, o) \cup (IF Known(r) THEN types ELSE {})
      /\ OfferChannel(toBroker'[r], o)
    BY <1>1, <1>2 DEF TaskInv, OnePlace, Adds, ToB
<1>4. /\ ToB(r, o)' \cap OfferStage = ToB(r, o) \cap OfferStage
      /\ ToB(r, o)' \cap Results = ToB(r, o) \cap Results
    BY <1>2, <1>3
<1>5. "taskaccepted" \in ToB(r, o)' <=> "taskaccepted" \in ToB(r, o)
    BY <1>2, <1>3
<1>6. "taskoffer" \in ToB(r, o)' <=> "taskoffer" \in ToB(r, o)
    BY <1>2, <1>3
<1>7. OnePlace(r, o)'
    BY <1>1, <1>3, <1>4 DEF TaskInv, OnePlace
<1>8. Records(r, o)'
    BY <1>1, <1>3, <1>4, <1>6 DEF TaskInv, Records, brokerVars
<1>9. tasks[<<r, o>>] = None => <<r, o>> \notin settingsSent
    BY DEF BrokerInv, TypeOK
<1>10. runningTasks'[r][o] = "aborting:cancelled" => tasks[<<r, o>>] = None
    BY <1>1 DEF TaskInv, Records
<1>11. Status(r, o)'
    <2>1. "taskofferaccept" \in ToR(r, o)' =>
            runningTasks'[r][o] = "none" /\ ToB(r, o)' \cap Results = {}
        BY <1>1, <1>4 DEF TaskInv, Status
    <2>2. "taskaccepted" \in ToB(r, o)' \/ "tasksettings" \in ToR(r, o)' =>
            runningTasks'[r][o] \in {"none", "waitingForSettings"}
        BY <1>1, <1>5 DEF TaskInv, Status
    <2>3. runningTasks'[r][o] \in {"none", "waitingForSettings"} => code'[r][o] = "none"
        BY <1>1 DEF TaskInv, Status
    <2>4. r \in up' /\ "taskaccepted" \in ToB(r, o)' =>
            runningTasks'[r][o] = "waitingForSettings" \/ ToB(r, o)' \cap Results # {}
        BY <1>1, <1>4, <1>5 DEF TaskInv, Status
    <2>5. r \in up' /\ <<r, o>> \in settingsSent' =>
            \/ runningTasks'[r][o] = "waitingForSettings" /\ "tasksettings" \in ToR(r, o)'
            \/ runningTasks'[r][o] \in {"running", "aborting:timeout"}
            \/ ToB(r, o)' \cap Results # {}
        BY <1>1, <1>4, <1>9, <1>10 DEF TaskInv, Status, brokerVars
    <2> QED BY <2>1, <2>2, <2>3, <2>4, <2>5 DEF Status
<1> QED BY <1>7, <1>8, <1>11 DEF TaskInv

\* What a runner that sends one message, or none, does to its channel.
LEMMA SendsOne ==
    ASSUME RunnerTypeOK, NEW r \in Runners, NEW type, NEW o \in OfferIds,
           <<type, o>> \in ToBroker, Send(r, <<<<type, o>>>>)
    PROVE  /\ toBroker' \in [Runners -> Seq(ToBroker)]
           /\ \A p \in Runners : p # r => toBroker'[p] = toBroker[p]
           /\ ~Known(r) => toBroker'[r] = toBroker[r]
           /\ Adds(toBroker[r], toBroker'[r], o, IF Known(r) THEN {type} ELSE {})
           /\ \A x : x # o => Adds(toBroker[r], toBroker'[r], x, {})
<1> DEFINE u == <<<<type, o>>>>
<1>1. u \in Seq(ToBroker)
    OBVIOUS
<1>2. \A x : Single(u, x) /\ About(u, x) = IF x = o THEN {type} ELSE {}
    BY OneMessage
<1> HIDE DEF u
<1>3. /\ toBroker' \in [Runners -> Seq(ToBroker)]
      /\ \A p \in Runners : p # r => toBroker'[p] = toBroker[p]
      /\ ~Known(r) => toBroker'[r] = toBroker[r]
      /\ \A x : Adds(toBroker[r], toBroker'[r], x, IF Known(r) THEN About(u, x) ELSE {})
    <2>1. Send(r, u)
        BY DEF u
    <2> QED BY <1>1, <1>2, <2>1, Sends
<1>4. Adds(toBroker[r], toBroker'[r], o, IF Known(r) THEN {type} ELSE {})
    <2>1. Adds(toBroker[r], toBroker'[r], o, IF Known(r) THEN About(u, o) ELSE {})
        BY <1>3
    <2>2. About(u, o) = {type}
        BY <1>2
    <2> QED BY <2>1, <2>2
<1>5. ASSUME NEW x, x # o PROVE Adds(toBroker[r], toBroker'[r], x, {})
    <2>1. Adds(toBroker[r], toBroker'[r], x, IF Known(r) THEN About(u, x) ELSE {})
        BY <1>3
    <2>2. About(u, x) = {}
        BY <1>2, <1>5
    <2> QED BY <2>1, <2>2
<1> QED BY <1>3, <1>4, <1>5

\* The runner answers an offer that was taken up.
LEMMA OfferAcceptedStep ==
    ASSUME BrokerInv, NEW r \in Runners, NEW o \in OfferIds, UNCHANGED brokerVars,
           NEW answer \in OfferStage \ {"taskoffer"}, Receives(r, "taskofferaccept", o),
           Send(r, <<<<answer, o>>>>), UNCHANGED <<up, connection, canSendOffers, code>>,
           openOffers' = openOffers \/ openOffers' = [openOffers EXCEPT ![r] = @ \ {o}],
           taskTimer' = taskTimer \/ taskTimer' = [taskTimer EXCEPT ![r] = @ \cup {o}],
           runningTasks' = IF answer = "taskaccepted"
                           THEN [runningTasks EXCEPT ![r][o] = "waitingForSettings"]
                           ELSE runningTasks
    PROVE  BrokerInv'
<1>1. RunnerTypeOK
    BY DEF BrokerInv, TypeOK
<1>2. <<answer, o>> \in ToBroker
    BY DEF ToBroker, OfferStage
<1>3. /\ toBroker' \in [Runners -> Seq(ToBroker)]
      /\ \A p \in Runners : p # r => toBroker'[p] = toBroker[p]
      /\ ~Known(r) => toBroker'[r] = toBroker[r]
      /\ Adds(toBroker[r], toBroker'[r], o, IF Known(r) THEN {answer} ELSE {})
      /\ \A x : x # o => Adds(toBroker[r], toBroker'[r], x, {})
    BY <1>1, <1>2, SendsOne
<1>4. /\ "taskofferaccept" \in ToR(r, o)
      /\ toRunner' \in [Runners -> Seq(ToRunner)]
      /\ \A p \in Runners : p # r => toRunner'[p] = toRunner[p]
      /\ Drops(toRunner[r], toRunner'[r], o, "taskofferaccept")
      /\ \A x : x # o => Adds(toRunner[r], toRunner'[r], x, {})
    BY <1>1, RunnerReceives DEF ToR
<1>5. /\ runningTasks' \in [Runners -> [OfferIds -> TaskStatus]]
      /\ \A p \in Runners : p # r => runningTasks'[p] = runningTasks[p]
      /\ \A x \in OfferIds : x # o => runningTasks'[r][x] = runningTasks[r][x]
      /\ runningTasks'[r][o] = IF answer = "taskaccepted" THEN "waitingForSettings"
                                                          ELSE runningTasks[r][o]
    BY <1>1 DEF RunnerTypeOK, TaskStatus
<1>6. RunnerTypeOK'
    <2>1. openOffers' \in [Runners -> SUBSET OfferIds]
        <3>1. openOffers \in [Runners -> SUBSET OfferIds]
            BY <1>1 DEF RunnerTypeOK
        <3>2. CASE openOffers' = openOffers
            BY <3>1, <3>2
        <3>3. CASE openOffers' = [openOffers EXCEPT ![r] = @ \ {o}]
            BY <3>1, <3>3
        <3> QED BY <3>2, <3>3
    <2>2. taskTimer' \in [Runners -> SUBSET OfferIds]
        <3>1. taskTimer \in [Runners -> SUBSET OfferIds]
            BY <1>1 DEF RunnerTypeOK
        <3>2. CASE taskTimer' = taskTimer
            BY <3>1, <3>2
        <3>3. CASE taskTimer' = [taskTimer EXCEPT ![r] = @ \cup {o}]
            BY <3>1, <3>3
        <3> QED BY <3>2, <3>3
    <2> QED BY <1>1, <1>3, <1>4, <1>5, <2>1, <2>2 DEF RunnerTypeOK
<1>7. TaskInv(r, o)'
    BY <1>3, <1>4, <1>5, OfferAnswered
<1>8. ASSUME NEW x \in OfferIds, x # o PROVE TaskInv(r, x)'
    BY <1>3, <1>4, <1>5, <1>8, Untouched
<1> QED BY <1>3, <1>4, <1>5, <1>6, <1>7, <1>8, RunnerLocal

LEMMA OfferAcceptedSteps ==
    ASSUME BrokerInv, NEW r \in Runners, NEW o \in OfferIds, UNCHANGED brokerVars,
           offerAccepted(r, o)
    PROVE  BrokerInv'
<1>1. "taskaccepted" \in OfferStage /\ "taskrejected" \in OfferStage
    BY DEF OfferStage
<1>2. CASE TurnsDown(r, o)
    BY <1>1, <1>2, OfferAcceptedStep DEF offerAccepted
<1>3. CASE ~TurnsDown(r, o)
    BY <1>1, <1>3, OfferAcceptedStep DEF offerAccepted
<1> QED BY <1>2, <1>3

\* The launcher offers a task, or defers it.
LEMMA LauncherSteps ==
    ASSUME BrokerInv, NEW r \in Runners, UNCHANGED brokerVars, LauncherStep(r, FreeOffers(r))
    PROVE  BrokerInv'
<1>1. RunnerTypeOK
    BY DEF BrokerInv, TypeOK
<1>2. UNCHANGED <<up, connection, canSendOffers, openOffers, runningTasks, taskTimer, code>>
    BY DEF LauncherStep
<1>3. ASSUME NEW o \in OfferIds, Receives(r, "taskofferaccept", o),
             Send(r, <<<<"taskdeferred", o>>>>)
      PROVE  BrokerInv'
    <2>1. "taskdeferred" \in OfferStage
        BY DEF OfferStage
    <2> QED BY <1>2, <1>3, <2>1, OfferAcceptedStep
<1>4. ASSUME NEW o \in FreeOffers(r), Receives(r, "runnerregistered", 0),
             Send(r, <<<<"taskoffer", o>>>>)
      PROVE  BrokerInv'
    <2>1. o \in OfferIds /\ <<"taskoffer", o>> \in ToBroker
        BY DEF FreeOffers, ToBroker
    <2>2. /\ toBroker' \in [Runners -> Seq(ToBroker)]
          /\ \A p \in Runners : p # r => toBroker'[p] = toBroker[p]
          /\ ~Known(r) => toBroker'[r] = toBroker[r]
          /\ Adds(toBroker[r], toBroker'[r], o, IF Known(r) THEN {"taskoffer"} ELSE {})
          /\ \A x : x # o => Adds(toBroker[r], toBroker'[r], x, {})
        BY <1>1, <1>4, <2>1, SendsOne
    <2>3. /\ toRunner' \in [Runners -> Seq(ToRunner)]
          /\ \A p \in Runners : p # r => toRunner'[p] = toRunner[p]
          /\ \A x : x # 0 => Adds(toRunner[r], toRunner'[r], x, {})
        BY <1>1, <1>4, RunnerReceives
    <2>4. RunnerTypeOK'
        BY <1>1, <1>2, <2>2, <2>3 DEF RunnerTypeOK
    <2>5. ASSUME NEW x \in OfferIds PROVE TaskInv(r, x)'
        <3>1. x # 0 /\ {o} \in SUBSET FreeOffers(r)
            BY OfferIdsAssumption
        <3>2. Adds(toBroker[r], toBroker'[r], x,
                   IF Known(r) /\ x \in {o} THEN {"taskoffer"} ELSE {})
            BY <2>2
        <3>3. Adds(toRunner[r], toRunner'[r], x, {})
            BY <2>3, <3>1
        <3> QED BY <1>2, <2>2, <3>1, <3>2, <3>3, Offers
    <2> QED BY <1>2, <2>2, <2>3, <2>4, <2>5, RunnerLocal
<1> QED BY <1>3, <1>4 DEF LauncherStep

\* finishTask, with the result of the task sent before the new offers.
LEMMA FinishTaskStep ==
    ASSUME BrokerInv, NEW r \in Runners, NEW o \in OfferIds, UNCHANGED brokerVars,
           runningTasks[r][o] # "none", NEW first,
           finishTask(r, o, first, FreeOffers(r)),
           \/ /\ first = <<>>
              /\ runningTasks[r][o] = "aborting:cancelled" \/ "taskcancel" \in ToR(r, o)
           \/ \E y \in Results : first = <<<<y, o>>>>,
           toRunner' = toRunner \/ Receives(r, "taskcancel", o)
    PROVE  BrokerInv'
<1>1. RunnerTypeOK /\ FreeOffers(r) \in SUBSET OfferIds /\ o \notin FreeOffers(r)
    BY DEF BrokerInv, TypeOK, FreeOffers
<1>2. /\ runningTasks' = [runningTasks EXCEPT ![r][o] = "none"]
      /\ taskTimer' = [taskTimer EXCEPT ![r] = @ \ {o}]
      /\ code' = [code EXCEPT ![r][o] = "none"]
      /\ sendOffers(r, Running(r) \ {o}, first, FreeOffers(r))
      /\ UNCHANGED <<up, connection, canSendOffers>>
    BY DEF finishTask
<1>3. /\ runningTasks' \in [Runners -> [OfferIds -> TaskStatus]]
      /\ code' \in [Runners -> [OfferIds -> CodeState]]
      /\ taskTimer' \in [Runners -> SUBSET OfferIds]
      /\ \A p \in Runners : p # r => runningTasks'[p] = runningTasks[p] /\ code'[p] = code[p]
      /\ \A x \in OfferIds : x # o => /\ runningTasks'[r][x] = runningTasks[r][x]
                                      /\ code'[r][x] = code[r][x]
      /\ runningTasks'[r][o] = "none" /\ code'[r][o] = "none"
    BY <1>1, <1>2 DEF RunnerTypeOK, TaskStatus, CodeState
<1>4. \/ first = <<>>
      \/ \E y \in Results, x \in OfferIds \ FreeOffers(r) : first = <<<<y, x>>>>
    BY <1>1
<1>5. /\ openOffers' \in [Runners -> SUBSET OfferIds]
      /\ toBroker' \in [Runners -> Seq(ToBroker)]
      /\ \A p \in Runners : p # r => toBroker'[p] = toBroker[p]
      /\ ~Known(r) => toBroker'[r] = toBroker[r]
      /\ \E fresh \in SUBSET FreeOffers(r) : \A x :
            Adds(toBroker[r], toBroker'[r], x,
                 IF ~Known(r) THEN {} ELSE IF x \in fresh THEN {"taskoffer"}
                                           ELSE About(first, x))
    BY <1>1, <1>2, <1>4, SendsOffers
<1>6. /\ toRunner' \in [Runners -> Seq(ToRunner)]
      /\ \A p \in Runners : p # r => toRunner'[p] = toRunner[p]
      /\ \A x \in OfferIds : x # o => Adds(toRunner[r], toRunner'[r], x, {})
      /\ ToR(r, o)' \in SUBSET ToR(r, o) /\ AcceptChannel(toRunner'[r], o)
    <2>1. AcceptChannel(toRunner[r], o)
        BY DEF BrokerInv, TaskInv, OnePlace
    <2>2. CASE toRunner' = toRunner
        BY <1>1, <2>1, <2>2, NothingAdded DEF RunnerTypeOK, ToR
    <2>3. CASE Receives(r, "taskcancel", o)
        <3>1. /\ toRunner' \in [Runners -> Seq(ToRunner)]
              /\ \A p \in Runners : p # r => toRunner'[p] = toRunner[p]
              /\ Drops(toRunner[r], toRunner'[r], o, "taskcancel")
              /\ \A x : x # o => Adds(toRunner[r], toRunner'[r], x, {})
            BY <1>1, <2>3, RunnerReceives
        <3>2. ToR(r, o)' \in SUBSET ToR(r, o) /\ AcceptChannel(toRunner'[r], o)
            BY <2>1, <3>1 DEF ToR, Drops
        <3> QED BY <3>1, <3>2
    <2> QED BY <2>2, <2>3
<1>7. RunnerTypeOK'
    BY <1>1, <1>2, <1>3, <1>5, <1>6 DEF RunnerTypeOK
<1>8. PICK fresh \in SUBSET FreeOffers(r) : \A x :
            Adds(toBroker[r], toBroker'[r], x,
                 IF ~Known(r) THEN {} ELSE IF x \in fresh THEN {"taskoffer"}
                                           ELSE About(first, x))
    BY <1>5
<1>9. \A x : x # o => About(first, x) = {}
    BY OneMessage
<1>10. ASSUME NEW x \in OfferIds, x # o PROVE TaskInv(r, x)'
    <2>1. Adds(toBroker[r], toBroker'[r], x,
               IF Known(r) /\ x \in fresh THEN {"taskoffer"} ELSE {})
        <3>1. Adds(toBroker[r], toBroker'[r], x,
                   IF ~Known(r) THEN {} ELSE IF x \in fresh THEN {"taskoffer"}
                                             ELSE About(first, x))
            BY <1>8
        <3> QED BY <1>9, <1>10, <3>1
    <2>2. Adds(toRunner[r], toRunner'[r], x, {})
        BY <1>6, <1>10
    <2> QED BY <1>2, <1>3, <1>5, <1>10, <2>1, <2>2, Offers
<1>11. TaskInv(r, o)'
    <2> DEFINE types == About(first, o)
    <2>1. /\ types \in SUBSET Results
          /\ types # {} \/ runningTasks[r][o] = "aborting:cancelled" \/ "taskcancel" \in ToR(r, o)
        <3>1. CASE \E y \in Results : first = <<<<y, o>>>>
            <4>1. PICK y \in Results : first = <<<<y, o>>>>
                BY <3>1
            <4>2. types = {y}
                BY <4>1, OneMessage
            <4> QED BY <4>2
        <3>2. CASE first = <<>>
            BY <3>2, OneMessage
        <3> QED BY <3>1, <3>2
    <2>2. Adds(toBroker[r], toBroker'[r], o, IF Known(r) THEN types ELSE {})
        <3>1. Adds(toBroker[r], toBroker'[r], o,
                   IF ~Known(r) THEN {} ELSE IF o \in fresh THEN {"taskoffer"}
                                             ELSE About(first, o))
            BY <1>8
        <3> QED BY <1>1, <1>8, <3>1
    <2> HIDE DEF types
    <2> QED BY <1>2, <1>3, <1>5, <1>6, <2>1, <2>2, TaskFinished
<1>12. \A p \in Runners : p # r =>
            /\ runningTasks'[p] = runningTasks[p] /\ code'[p] = code[p]
            /\ toRunner'[p] = toRunner[p] /\ toBroker'[p] = toBroker[p]
    BY <1>3, <1>5, <1>6
<1>13. \A x \in OfferIds : TaskInv(r, x)'
    BY <1>10, <1>11
<1> QED BY <1>2, <1>7, <1>12, <1>13, RunnerLocal

\* A step that changes the status of one task, or the state of its code, and
\* may ask for data.
LEMMA TaskGoesOnStep ==
    ASSUME BrokerInv, NEW r \in Runners, NEW o \in OfferIds, UNCHANGED brokerVars,
           UNCHANGED <<up, connection, canSendOffers, openOffers>>,
           taskTimer' = taskTimer \/ taskTimer' = [taskTimer EXCEPT ![r] = @ \ {o}],
           NEW status \in TaskStatus, NEW c \in CodeState,
           runningTasks' = [runningTasks EXCEPT ![r][o] = status],
           code' = [code EXCEPT ![r][o] = c],
           status = runningTasks[r][o] \/ runningTasks[r][o] \in {"waitingForSettings",
               "running"},
           \/ status = runningTasks[r][o]
           \/ status = "aborting:cancelled" /\ "taskcancel" \in ToR(r, o)
           \/ status \in {"running", "aborting:timeout"},
           \/ status \notin {"none", "waitingForSettings"}
           \/ code[r][o] = "none" => c = "none",
           "taskaccepted" \in ToB(r, o) => status = runningTasks[r][o],
           NEW type,
           toRunner' = toRunner \/ Receives(r, type, o),
           toRunner' # toRunner => type # "tasksettings" \/ status # "waitingForSettings",
           "tasksettings" \in ToR(r, o) =>
                (toRunner' # toRunner /\ type = "tasksettings") \/ status = runningTasks[r][o],
           toBroker' = toBroker \/ Send(r, <<<<"taskdatarequest", o>>>>)
    PROVE  BrokerInv'
<1>1. RunnerTypeOK /\ OnePlace(r, o) /\ o \in OfferIds
    BY DEF BrokerInv, TypeOK, TaskInv
<1>2. /\ runningTasks' \in [Runners -> [OfferIds -> TaskStatus]]
      /\ code' \in [Runners -> [OfferIds -> CodeState]]
      /\ \A p \in Runners : p # r => runningTasks'[p] = runningTasks[p] /\ code'[p] = code[p]
      /\ \A x \in OfferIds : x # o => /\ runningTasks'[r][x] = runningTasks[r][x]
                                      /\ code'[r][x] = code[r][x]
      /\ runningTasks'[r][o] = status /\ code'[r][o] = c
    BY <1>1 DEF RunnerTypeOK
<1>3. taskTimer' \in [Runners -> SUBSET OfferIds]
    <2>1. taskTimer \in [Runners -> SUBSET OfferIds]
        BY <1>1 DEF RunnerTypeOK
    <2>2. CASE taskTimer' = taskTimer
        BY <2>1, <2>2
    <2>3. CASE taskTimer' = [taskTimer EXCEPT ![r] = @ \ {o}]
        BY <2>1, <2>3
    <2> QED BY <2>2, <2>3
<1>4. /\ toRunner' \in [Runners -> Seq(ToRunner)]
      /\ \A p \in Runners : p # r => toRunner'[p] = toRunner[p]
      /\ \A x \in OfferIds : x # o => Adds(toRunner[r], toRunner'[r], x, {})
      /\ ToR(r, o)' \in SUBSET ToR(r, o) /\ AcceptChannel(toRunner'[r], o)
      /\ \/ ToR(r, o)' = ToR(r, o)
         \/ toRunner' # toRunner /\ ToR(r, o) = ToR(r, o)' \cup {type}
      /\ toRunner' # toRunner /\ type = "tasksettings" => "tasksettings" \notin ToR(r, o)'
    <2>1. CASE toRunner' = toRunner
        BY <1>1, <2>1, NothingAdded DEF RunnerTypeOK, ToR, OnePlace
    <2>2. CASE toRunner' # toRunner
        <3>1. /\ toRunner' \in [Runners -> Seq(ToRunner)]
              /\ \A p \in Runners : p # r => toRunner'[p] = toRunner[p]
              /\ Drops(toRunner[r], toRunner'[r], o, type)
              /\ \A x : x # o => Adds(toRunner[r], toRunner'[r], x, {})
            BY <1>1, <2>2, RunnerReceives
        <3>2. ToR(r, o) = ToR(r, o)' \cup {type} /\ AcceptChannel(toRunner'[r], o)
            BY <1>1, <3>1 DEF ToR, Drops, OnePlace
        <3>3. type = "tasksettings" => "tasksettings" \notin ToR(r, o)'
            BY <1>1, <3>1 DEF ToR, Drops, OnePlace, AcceptStage
        <3> QED BY <2>2, <3>1, <3>2, <3>3
    <2> QED BY <2>1, <2>2
<1>5. PICK types \in SUBSET {"taskdatarequest"} :
      /\ toBroker' \in [Runners -> Seq(ToBroker)]
      /\ \A p \in Runners : p # r => toBroker'[p] = toBroker[p]
      /\ ~Known(r) => toBroker'[r] = toBroker[r]
      /\ Adds(toBroker[r], toBroker'[r], o, IF Known(r) THEN types ELSE {})
      /\ \A x : x # o => Adds(toBroker[r], toBroker'[r], x, {})
    <2>1. CASE toBroker' = toBroker
        <3>1. /\ toBroker' \in [Runners -> Seq(ToBroker)]
              /\ \A x : Adds(toBroker[r], toBroker'[r], x, {})
            BY <1>1, <2>1, NothingAdded DEF RunnerTypeOK
        <3>2. {} \in SUBSET {"taskdatarequest"} /\ (IF Known(r) THEN {} ELSE {}) = {}
            OBVIOUS
        <3> QED BY <2>1, <3>1, <3>2
    <2>2. CASE Send(r, <<<<"taskdatarequest", o>>>>)
        <3>1. <<"taskdatarequest", o>> \in ToBroker
            BY DEF ToBroker
        <3>2. /\ toBroker' \in [Runners -> Seq(ToBroker)]
              /\ \A p \in Runners : p # r => toBroker'[p] = toBroker[p]
              /\ ~Known(r) => toBroker'[r] = toBroker[r]
              /\ Adds(toBroker[r], toBroker'[r], o,
                     IF Known(r) THEN {"taskdatarequest"} ELSE {})
              /\ \A x : x # o => Adds(toBroker[r], toBroker'[r], x, {})
            BY <1>1, <2>2, <3>1, SendsOne
        <3>3. {"taskdatarequest"} \in SUBSET {"taskdatarequest"}
            OBVIOUS
        <3> QED BY <3>2, <3>3
    <2> QED BY <2>1, <2>2
<1>6. RunnerTypeOK'
    BY <1>1, <1>2, <1>3, <1>4, <1>5 DEF RunnerTypeOK
<1>7. TaskInv(r, o)'
    <2>1. "tasksettings" \in ToR(r, o)' => status = runningTasks[r][o]
        BY <1>4
    <2>2. \/ "tasksettings" \in ToR(r, o) => "tasksettings" \in ToR(r, o)'
          \/ status # "waitingForSettings"
        BY <1>4
    <2> QED BY <1>2, <1>4, <1>5, <2>1, <2>2, TaskGoesOn
<1>8. ASSUME NEW x \in OfferIds, x # o PROVE TaskInv(r, x)'
    BY <1>2, <1>4, <1>5, <1>8, Untouched
<1>9. /\ \A p \in Runners : p # r =>
            /\ runningTasks'[p] = runningTasks[p] /\ code'[p] = code[p]
            /\ toRunner'[p] = toRunner[p] /\ toBroker'[p] = toBroker[p]
      /\ \A x \in OfferIds : TaskInv(r, x)'
    BY <1>2, <1>4, <1>5, <1>7, <1>8
<1> QED BY <1>6, <1>9, RunnerLocal

\* Settings arrive: the task waits for them, or is gone.
LEMMA SettingsStep ==
    ASSUME BrokerInv, NEW r \in Runners, NEW o \in OfferIds, UNCHANGED brokerVars,
           receivedSettings(r, o)
    PROVE  BrokerInv'
<1>1. RunnerTypeOK /\ TaskInv(r, o)
    BY DEF BrokerInv, TypeOK
<1>2. "tasksettings" \in ToR(r, o) /\ Receives(r, "tasksettings", o)
    BY <1>1, RunnerReceives DEF receivedSettings, ToR
<1>3. "taskaccepted" \notin ToB(r, o)
    BY <1>1, <1>2 DEF TaskInv, OnePlace, AcceptStage, OfferStage
<1>4. runningTasks[r][o] \in {"none", "waitingForSettings"} /\ code[r][o] = "none"
    BY <1>1, <1>2 DEF TaskInv, Status
<1>5. toRunner' # toRunner
    <2>1. toRunner[r] \in Seq(ToRunner) /\ toRunner[r] # <<>>
          /\ toRunner'[r] = Tail(toRunner[r])
        BY <1>1, <1>2 DEF Receives, RunnerTypeOK
    <2>2. Len(Tail(toRunner[r])) # Len(toRunner[r])
        BY <2>1
    <2> QED BY <2>1, <2>2
<1>6. CASE runningTasks[r][o] = "waitingForSettings"
    <2>1. /\ runningTasks' = [runningTasks EXCEPT ![r][o] = "running"]
          /\ code' = [code EXCEPT ![r][o] = "data"]
          /\ Send(r, <<<<"taskdatarequest", o>>>>)
          /\ UNCHANGED <<up, connection, canSendOffers, openOffers, taskTimer>>
        BY <1>6 DEF receivedSettings
    <2>2. "running" \in TaskStatus /\ "data" \in CodeState
        BY DEF TaskStatus, CodeState
    <2> QED BY <1>2, <1>3, <1>5, <1>6, <2>1, <2>2, TaskGoesOnStep
<1>7. CASE runningTasks[r][o] = "none"
    <2>1. UNCHANGED <<runningTasks, code, toBroker, up, connection, canSendOffers,
                      openOffers, taskTimer>>
        BY <1>7 DEF receivedSettings
    <2>2. /\ runningTasks' = [runningTasks EXCEPT ![r][o] = runningTasks[r][o]]
          /\ code' = [code EXCEPT ![r][o] = code[r][o]]
          /\ runningTasks[r][o] \in TaskStatus /\ code[r][o] \in CodeState
        BY <1>1, <2>1 DEF RunnerTypeOK
    <2> QED BY <1>2, <1>3, <1>5, <1>7, <2>1, <2>2, TaskGoesOnStep
<1> QED BY <1>4, <1>6, <1>7

\* Data arrives for the code of a task, or more is asked for.
LEMMA DataStep ==
    ASSUME BrokerInv, NEW r \in Runners, NEW o \in OfferIds, UNCHANGED brokerVars,
           processDataResponse(r, o) \/ RequestsMore(r, o)
    PROVE  BrokerInv'
<1>1. RunnerTypeOK /\ TaskInv(r, o)
    BY DEF BrokerInv, TypeOK
<1>2. UNCHANGED <<up, connection, canSendOffers, openOffers, runningTasks, taskTimer>>
    BY DEF processDataResponse, RequestsMore
<1>3. /\ runningTasks' = [runningTasks EXCEPT ![r][o] = runningTasks[r][o]]
      /\ runningTasks[r][o] \in TaskStatus /\ code[r][o] \in CodeState
    BY <1>1, <1>2 DEF RunnerTypeOK
<1>4. "user" \in CodeState /\ "data" \in CodeState /\ "taskdataresponse" # "tasksettings"
    BY DEF CodeState
<1>5. CASE processDataResponse(r, o)
    <2> DEFINE c == IF code[r][o] = "data" THEN "user" ELSE code[r][o]
    <2>1. /\ Receives(r, "taskdataresponse", o) /\ toBroker' = toBroker
          /\ code' = [code EXCEPT ![r][o] = c]
        BY <1>1, <1>5 DEF processDataResponse, RunnerTypeOK
    <2>2. c \in CodeState /\ (code[r][o] = "none" => c = "none")
        BY <1>3, <1>4
    <2> HIDE DEF c
    <2> QED BY <1>2, <1>3, <1>4, <2>1, <2>2, TaskGoesOnStep
<1>6. CASE RequestsMore(r, o)
    <2>1. /\ code' = [code EXCEPT ![r][o] = "data"] /\ toRunner' = toRunner
          /\ Send(r, <<<<"taskdatarequest", o>>>>) /\ code[r][o] = "user"
        BY <1>6 DEF RequestsMore
    <2>2. code[r][o] = "none" => "data" = "none"
        BY <2>1
    <2> QED BY <1>2, <1>3, <1>4, <2>1, <2>2, TaskGoesOnStep
<1> QED BY <1>5, <1>6

\* abort() of a task whose settings have arrived.
LEMMA AbortStep ==
    ASSUME BrokerInv, NEW r \in Runners, NEW o \in OfferIds, UNCHANGED brokerVars,
           runningTasks[r][o] = "running",
           NEW status \in {"aborting:cancelled", "aborting:timeout"}, abort(r, o, status),
           \/ /\ status = "aborting:cancelled" /\ taskTimer' = taskTimer
              /\ Receives(r, "taskcancel", o)
           \/ /\ status = "aborting:timeout" /\ toRunner' = toRunner
              /\ taskTimer' = [taskTimer EXCEPT ![r] = @ \ {o}]
    PROVE  BrokerInv'
<1>1. RunnerTypeOK /\ TaskInv(r, o)
    BY DEF BrokerInv, TypeOK
<1>2. PICK c \in Aborted(r, o) : code' = [code EXCEPT ![r][o] = c]
    BY DEF abort
<1>3. c \in CodeState /\ status \in TaskStatus
    BY DEF Aborted, CodeState, TaskStatus
<1>4. /\ runningTasks' = [runningTasks EXCEPT ![r][o] = status]
      /\ UNCHANGED <<up, connection, canSendOffers, openOffers, toBroker>>
    BY DEF abort
<1>5. "taskaccepted" \notin ToB(r, o) /\ "tasksettings" \notin ToR(r, o)
    BY <1>1 DEF TaskInv, Status
<1>6. CASE status = "aborting:cancelled"
    <2>1. taskTimer' = taskTimer /\ Receives(r, "taskcancel", o)
        BY <1>6
    <2>2. "taskcancel" \in ToR(r, o) /\ "taskcancel" # "tasksettings"
        BY <1>1, <2>1, RunnerReceives DEF ToR
    <2> QED BY <1>2, <1>3, <1>4, <1>5, <1>6, <2>1, <2>2, TaskGoesOnStep
<1>7. CASE status = "aborting:timeout"
    <2>1. toRunner' = toRunner /\ taskTimer' = [taskTimer EXCEPT ![r] = @ \ {o}]
        BY <1>7
    <2> QED BY <1>2, <1>3, <1>4, <1>5, <1>7, <2>1, TaskGoesOnStep
<1> QED BY <1>6, <1>7

\* A cancelled task ends at once, is aborted, or is past that already.
LEMMA CancelledStep ==
    ASSUME BrokerInv, NEW r \in Runners, NEW o \in OfferIds, UNCHANGED brokerVars,
           taskCancelled(r, o, FreeOffers(r))
    PROVE  BrokerInv'
<1>1. RunnerTypeOK /\ TaskInv(r, o)
    BY DEF BrokerInv, TypeOK
<1>2. "taskcancel" \in ToR(r, o) /\ Receives(r, "taskcancel", o)
    BY <1>1, RunnerReceives DEF taskCancelled, ToR
<1>3. CASE runningTasks[r][o] = "waitingForSettings"
    <2>1. finishTask(r, o, <<>>, FreeOffers(r))
        BY <1>3 DEF taskCancelled, EndsAtOnce
    <2> QED BY <1>2, <1>3, <2>1, FinishTaskStep
<1>4. CASE runningTasks[r][o] = "running"
    <2>1. abort(r, o, "aborting:cancelled") /\ taskTimer' = taskTimer
        BY <1>4 DEF taskCancelled, EndsAtOnce
    <2> QED BY <1>2, <1>4, <2>1, AbortStep
<1>5. CASE runningTasks[r][o] \notin {"waitingForSettings", "running"}
    <2>1. UNCHANGED <<up, connection, canSendOffers, openOffers, runningTasks, taskTimer,
                      code, toBroker>>
        BY <1>5 DEF taskCancelled, EndsAtOnce
    <2>2. /\ runningTasks' = [runningTasks EXCEPT ![r][o] = runningTasks[r][o]]
          /\ code' = [code EXCEPT ![r][o] = code[r][o]]
          /\ runningTasks[r][o] \in TaskStatus /\ code[r][o] \in CodeState
          /\ "taskcancel" # "tasksettings"
        BY <1>1, <2>1 DEF RunnerTypeOK
    <2> QED BY <1>2, <2>1, <2>2, TaskGoesOnStep
<1> QED BY <1>3, <1>4, <1>5

\* So does one that times out, and its error is sent.
LEMMA TimedOutStep ==
    ASSUME BrokerInv, NEW r \in Runners, NEW o \in OfferIds, UNCHANGED brokerVars,
           taskTimedOut(r, o, FreeOffers(r))
    PROVE  BrokerInv'
<1>1. RunnerTypeOK /\ TaskInv(r, o) /\ toRunner' = toRunner
    BY DEF BrokerInv, TypeOK, taskTimedOut
<1>2. CASE runningTasks[r][o] = "waitingForSettings"
    <2>1. finishTask(r, o, <<<<"taskerror", o>>>>, FreeOffers(r))
        BY <1>2 DEF taskTimedOut, EndsAtOnce
    <2>2. \E y \in Results : <<<<"taskerror", o>>>> = <<<<y, o>>>>
        BY DEF Results
    <2>3. runningTasks[r][o] # "none"
        BY <1>2
    <2> QED BY <1>1, <2>1, <2>2, <2>3, FinishTaskStep
<1>3. CASE runningTasks[r][o] # "waitingForSettings"
    <2>1. /\ taskTimer' = [taskTimer EXCEPT ![r] = @ \ {o}]
          /\ IF runningTasks[r][o] \in {"waitingForSettings", "running"}
             THEN abort(r, o, "aborting:timeout")
             ELSE UNCHANGED <<up, connection, canSendOffers, openOffers, runningTasks,
                              code, toBroker>>
        BY <1>3 DEF taskTimedOut, EndsAtOnce
    <2>2. CASE runningTasks[r][o] = "running"
        BY <1>1, <2>1, <2>2, AbortStep
    <2>3. CASE runningTasks[r][o] # "running"
        <3>1. UNCHANGED <<up, connection, canSendOffers, openOffers, runningTasks, code,
                          toBroker>>
            BY <1>3, <2>1, <2>3
        <3>2. RunnerTypeOK'
            BY <1>1, <2>1, <3>1 DEF RunnerTypeOK
        <3>3. \A x \in OfferIds : TaskInv(r, x)'
            BY <1>1, <3>1, Untouched, NothingAdded
        <3> QED BY <1>1, <3>1, <3>2, <3>3, RunnerLocal
    <2> QED BY <2>2, <2>3
<1> QED BY <1>2, <1>3

\* Code that ends had a task that was running or being aborted.
LEMMA CodeEndsStep ==
    ASSUME BrokerInv, NEW r \in Runners, NEW o \in OfferIds, UNCHANGED brokerVars,
           NEW result \in {"taskdone", "taskerror"},
           TaskExecutionEnds(r, o, result, FreeOffers(r))
    PROVE  BrokerInv'
<1>1. RunnerTypeOK /\ TaskInv(r, o) /\ toRunner' = toRunner
    BY DEF BrokerInv, TypeOK, TaskExecutionEnds
<1>2. code[r][o] # "none"
    BY DEF TaskExecutionEnds
<1>3. runningTasks[r][o] # "none"
    BY <1>1, <1>2 DEF TaskInv, Status
<1> DEFINE first == ResultMessage(r, o, result)
<1>4. \/ first = <<>> /\ runningTasks[r][o] = "aborting:cancelled"
      \/ \E y \in Results : first = <<<<y, o>>>>
    BY DEF ResultMessage, Results
<1>5. finishTask(r, o, first, FreeOffers(r))
    BY DEF TaskExecutionEnds
<1> HIDE DEF first
<1> QED BY <1>1, <1>3, <1>4, <1>5, FinishTaskStep

\* Every step of a runner.
LEMMA RunnerKeepsInv ==
    ASSUME BrokerInv, NEW r \in Runners, RunnerStep(r)
    PROVE  BrokerInv'
<1>1. UNCHANGED brokerVars /\ RunnerNext(r, FreeOffers(r))
    BY DEF RunnerStep
<1>2. CASE RunnerReceive(r, FreeOffers(r))
    BY <1>1, <1>2, StartOffers, LauncherSteps, OfferAcceptedSteps, SettingsStep, DataStep,
       CancelledStep DEF RunnerReceive
<1>3. CASE ~RunnerReceive(r, FreeOffers(r))
    BY <1>1, <1>3, OfferIntervalStep, StopSignalStep, ProcessExitStep, TimedOutStep, DataStep,
       CodeEndsStep DEF RunnerNext
<1> QED BY <1>2, <1>3

-----------------------------------------------------------------------------
(* What the steps of the broker do to a task *)

\* An offer that was pending, or has just been received, when offers are taken up.
LEMMA OfferSettled ==
    ASSUME NEW r \in Runners, NEW o \in OfferIds, UNCHANGED <<up, connection, runningTasks,
        code>>,
           TypeOK, runningTasks[r][o] = "none", code[r][o] = "none", accepting[<<r, o>>] = None,
           tasks[<<r, o>>] = None, tasks' = tasks, settingsSent' = settingsSent,
           ToB(r, o)' \cap OfferStage = {}, ToB(r, o)' \cap Results = {},
           OfferChannel(toBroker'[r], o), ~Known(r) => toBroker'[r] = <<>>,
           ToR(r, o) \cap AcceptStage = {}, "taskcancel" \notin ToR(r, o),
           AcceptChannel(toRunner[r], o),
           NEW taken \in BOOLEAN,
           taken => ~Pending(r, o)', ~taken => accepting'[<<r, o>>] = None,
           Adds(toRunner[r], toRunner'[r], o,
                IF r \in up /\ taken THEN {"taskofferaccept"} ELSE {})
    PROVE  TaskInv(r, o)'
<1>1. /\ ToR(r, o)' = ToR(r, o) \cup (IF r \in up /\ taken THEN {"taskofferaccept"} ELSE {})
      /\ AcceptChannel(toRunner'[r], o)
    BY DEF Adds, ToR
<1>2. /\ "taskofferaccept" \in AcceptStage /\ "tasksettings" \in AcceptStage
      /\ "taskoffer" \in OfferStage /\ "taskaccepted" \in OfferStage
      /\ "taskoffer" \notin Results
    BY DEF AcceptStage, OfferStage, Results
<1>3. OnePlace(r, o)'
    BY <1>1 DEF OnePlace
<1>4. Known(r)' <=> Known(r)
    BY DEF Known
<1>5. Records(r, o)'
    BY <1>1, <1>2, <1>4 DEF Records
<1>6. <<r, o>> \notin settingsSent
    BY DEF TypeOK
<1>7. Status(r, o)'
    BY <1>1, <1>2, <1>6 DEF Status
<1> QED BY <1>3, <1>5, <1>7 DEF TaskInv

\* The broker's task is gone, and its runner may be told.
LEMMA TaskDeleted ==
    ASSUME NEW r \in Runners, NEW o \in OfferIds, UNCHANGED <<up, connection, runningTasks,
        code>>,
           TaskInv(r, o), tasks[<<r, o>>] # None, tasks'[<<r, o>>] = None,
           <<r, o>> \notin settingsSent', accepting' = accepting,
           pendingTaskOffers' = pendingTaskOffers, toBroker' = toBroker,
           NEW types \in SUBSET {"taskcancel"}, Adds(toRunner[r], toRunner'[r], o, types)
    PROVE  TaskInv(r, o)'
<1>1. types \cap AcceptStage = {}
    BY DEF AcceptStage
<1>2. /\ ToR(r, o)' = ToR(r, o) \cup types /\ AcceptChannel(toRunner'[r], o)
      /\ ToB(r, o)' = ToB(r, o) /\ (Pending(r, o)' <=> Pending(r, o))
      /\ (Known(r)' <=> Known(r))
    BY <1>1 DEF Adds, ToR, ToB, TaskInv, OnePlace, Pending, Known
<1>3. "tasksettings" \notin types /\ "taskofferaccept" \notin types
    OBVIOUS
<1>4. /\ ~Pending(r, o) /\ accepting[<<r, o>>] = None /\ ToB(r, o) \cap OfferStage = {}
      /\ "taskofferaccept" \notin ToR(r, o)
    BY DEF TaskInv, Records
<1>5. OnePlace(r, o)'
    BY <1>1, <1>2 DEF TaskInv, OnePlace
<1>6. Records(r, o)'
    BY <1>2, <1>3, <1>4 DEF TaskInv, Records
<1>7. Status(r, o)'
    BY <1>2, <1>3, <1>4 DEF TaskInv, Status
<1> QED BY <1>5, <1>6, <1>7 DEF TaskInv

\* The broker receives the result of a task.
LEMMA ResultReceived ==
    ASSUME NEW r \in Runners, NEW o \in OfferIds, UNCHANGED <<up, connection, runningTasks,
        code>>,
           TaskInv(r, o), NEW type \in Results, type \in ToB(r, o),
           Drops(toBroker[r], toBroker'[r], o, type), Known(r),
           tasks'[<<r, o>>] = None, <<r, o>> \notin settingsSent', accepting' = accepting,
           pendingTaskOffers' = pendingTaskOffers, toRunner' = toRunner
    PROVE  TaskInv(r, o)'
<1>1. /\ ToB(r, o) = ToB(r, o)' \cup {type} /\ OfferChannel(toBroker'[r], o)
      /\ "taskaccepted" \notin ToB(r, o)' /\ ToB(r, o)' \in SUBSET ToB(r, o)
    BY DEF Drops, ToB, TaskInv, OnePlace
<1>2. ToR(r, o)' = ToR(r, o) /\ (Pending(r, o)' <=> Pending(r, o)) /\ Known(r)'
    BY DEF ToR, Pending, Known
<1>3. ToB(r, o) \cap Results # {}
    OBVIOUS
<1>4. OnePlace(r, o)'
    BY <1>1, <1>2 DEF TaskInv, OnePlace
<1>5. Records(r, o)'
    BY <1>1, <1>2, <1>3 DEF TaskInv, Records
<1>6. Status(r, o)'
    BY <1>1, <1>2, <1>3 DEF TaskInv, Status
<1> QED BY <1>4, <1>5, <1>6 DEF TaskInv

\* The broker receives a message other than an offer, an acceptance or a result.
LEMMA OtherReceived ==
    ASSUME NEW r \in Runners, NEW o \in OfferIds, UNCHANGED <<up, connection, runningTasks,
        code>>,
           TaskInv(r, o), NEW type \in {"taskrejected", "taskdeferred", "taskdatarequest"},
           Drops(toBroker[r], toBroker'[r], o, type), Known(r),
           tasks' = tasks, settingsSent' = settingsSent,
           accepting'[<<r, o>>] \in {accepting[<<r, o>>], None},
           pendingTaskOffers' = pendingTaskOffers,
           NEW types \in SUBSET {"taskdataresponse"}, Adds(toRunner[r], toRunner'[r], o, types)
    PROVE  TaskInv(r, o)'
<1>1. types \cap AcceptStage = {}
    BY DEF AcceptStage
<1>2. type \notin Results /\ type \notin {"taskaccepted", "taskoffer"}
    BY DEF Results
<1>3. /\ ToB(r, o) = ToB(r, o)' \cup {type} /\ OfferChannel(toBroker'[r], o)
      /\ ToB(r, o)' \in SUBSET ToB(r, o)
    BY DEF Drops, ToB, TaskInv, OnePlace
<1>4. /\ ToB(r, o)' \cap Results = ToB(r, o) \cap Results
      /\ "taskaccepted" \in ToB(r, o)' <=> "taskaccepted" \in ToB(r, o)
    BY <1>2, <1>3
<1>5. /\ ToR(r, o)' = ToR(r, o) \cup types /\ AcceptChannel(toRunner'[r], o)
      /\ (Pending(r, o)' <=> Pending(r, o)) /\ Known(r)'
    BY <1>1 DEF Adds, ToR, TaskInv, OnePlace, Pending, Known
<1>6. types \cap {"tasksettings", "taskofferaccept", "taskcancel"} = {}
    OBVIOUS
<1>7. OnePlace(r, o)'
    BY <1>1, <1>3, <1>5 DEF TaskInv, OnePlace
<1>8. Records(r, o)'
    BY <1>3, <1>4, <1>5, <1>6 DEF TaskInv, Records
<1>9. Status(r, o)'
    BY <1>3, <1>4, <1>5, <1>6 DEF TaskInv, Status
<1> QED BY <1>7, <1>8, <1>9 DEF TaskInv

\* The broker receives an acceptance: the task is dropped, recorded, has its
\* settings sent, or is cancelled.
LEMMA AcceptanceReceived ==
    ASSUME NEW r \in Runners, NEW o \in OfferIds, UNCHANGED <<up, connection, runningTasks,
        code>>,
           TaskInv(r, o), TypeOK, "taskaccepted" \in ToB(r, o), Known(r),
           Drops(toBroker[r], toBroker'[r], o, "taskaccepted"),
           accepting'[<<r, o>>] = None, pendingTaskOffers' = pendingTaskOffers,
           NEW types \in SUBSET {"tasksettings", "taskcancel"},
           "taskcancel" \in types => tasks'[<<r, o>>] = None,
           Adds(toRunner[r], toRunner'[r], o, IF r \in up THEN types ELSE {}),
           <<r, o>> \in settingsSent' => "tasksettings" \in types
    PROVE  TaskInv(r, o)'
<1>1. /\ "taskaccepted" \in OfferStage /\ "taskaccepted" \notin Results
            /\ "taskoffer" \in OfferStage
      /\ "taskofferaccept" \in AcceptStage /\ "tasksettings" \in AcceptStage
      /\ "taskcancel" \notin AcceptStage
    BY DEF OfferStage, Results, AcceptStage
<1>2. /\ ToR(r, o) \cap AcceptStage = {} /\ ~Pending(r, o)
      /\ tasks[<<r, o>>] = None /\ "taskcancel" \notin ToR(r, o)
      /\ runningTasks[r][o] \in {"none", "waitingForSettings"}
    BY <1>1 DEF TaskInv, OnePlace, Records, Status
<1>3. /\ ToB(r, o) = ToB(r, o)' \cup {"taskaccepted"} /\ OfferChannel(toBroker'[r], o)
      /\ ToB(r, o)' \cap OfferStage = {}
    BY <1>1 DEF Drops, ToB, TaskInv, OnePlace
<1>4. ToB(r, o)' \cap Results = ToB(r, o) \cap Results
    BY <1>1, <1>3
<1>5. /\ ToR(r, o)' = ToR(r, o) \cup (IF r \in up THEN types ELSE {})
      /\ AcceptChannel(toRunner'[r], o)
      /\ ~Pending(r, o)' /\ Known(r)'
    BY <1>2 DEF Adds, ToR, TaskInv, OnePlace, Pending, Known
<1>6. "taskofferaccept" \notin ToR(r, o)'
    BY <1>1, <1>2, <1>5
<1>7. OnePlace(r, o)'
    BY <1>3, <1>5 DEF OnePlace
<1>8. Records(r, o)'
    <2>1. "taskcancel" \in ToR(r, o)' => tasks'[<<r, o>>] = None
        BY <1>2, <1>5
    <2>2. "taskoffer" \notin ToB(r, o)' /\ runningTasks'[r][o] # "aborting:cancelled"
        BY <1>1, <1>2, <1>3
    <2> QED BY <1>3, <1>5, <1>6, <2>1, <2>2 DEF Records
<1>9. Status(r, o)'
    <2>1. "taskaccepted" \notin ToB(r, o)'
        BY <1>1, <1>3
    <2>2. runningTasks'[r][o] \in {"none", "waitingForSettings"} => code'[r][o] = "none"
        BY DEF TaskInv, Status
    <2>3. r \in up'
          => runningTasks'[r][o] = "waitingForSettings" \/ ToB(r, o)' \cap Results # {}
        BY <1>4 DEF TaskInv, Status
    <2>4. r \in up' /\ <<r, o>> \in settingsSent' => "tasksettings" \in ToR(r, o)'
        BY <1>5
    <2> QED BY <1>2, <1>6, <2>1, <2>2, <2>3, <2>4 DEF Status
<1> QED BY <1>7, <1>8, <1>9 DEF TaskInv

-----------------------------------------------------------------------------
(* The calls: the last two parts of the invariant *)

Calls == WaitingCallsHaveAnAnswerer /\ OneTaskPerCall

\* A task that the broker or the requester no longer has: its caller, if it
\* waits, is answered.
LEMMA CallsSettled ==
    ASSUME BrokerInv, NEW gone \in SUBSET Tasks, NEW answer \in Answers, DeleteTasks(gone),
           startTask' = SettleCalls(gone, answer),
           pendingTaskRequests' = pendingTaskRequests, requestTimer' = requestTimer
    PROVE  /\ tasks' \in [Tasks -> Requests \cup {None}]
           /\ settingsSent' \subseteq {t \in Tasks : tasks'[t] # None}
           /\ startTask' \in [Requests -> CallState]
           /\ Calls'
<1>1. TypeOK /\ WaitingCallsHaveAnAnswerer /\ OneTaskPerCall
    BY DEF BrokerInv
<1>2. /\ \A t \in Tasks : tasks'[t] = IF t \in gone THEN None ELSE tasks[t]
      /\ tasks' \in [Tasks -> Requests \cup {None}]
      /\ settingsSent' = settingsSent \ gone
    BY <1>1 DEF DeleteTasks, TypeOK
<1>3. settingsSent' \subseteq {t \in Tasks : tasks'[t] # None}
    BY <1>1, <1>2 DEF TypeOK
<1>4. \A q \in Requests :
        startTask'[q] = IF startTask[q].task \in gone THEN Call(answer) ELSE startTask[q]
    BY DEF SettleCalls
<1>5. Call(answer) \in CallState /\ Call(answer).state = answer /\ Call(answer).task = None
    BY DEF Call, CallState
<1>6. startTask' \in [Requests -> CallState]
    BY <1>1, <1>5 DEF SettleCalls, TypeOK
<1>7. None \notin gone
    BY NoneAssumption
<1>8. WaitingCallsHaveAnAnswerer'
    <2>1. ASSUME NEW q \in Requests
          PROVE  /\ startTask'[q].state = "requested" =>
                        Contains(pendingTaskRequests', q) /\ q \in requestTimer'
                 /\ startTask'[q].state = "waiting" =>
                        startTask'[q].task \in settingsSent' /\ tasks'[startTask'[q].task] = q
        <3>1. CASE startTask[q].task \in gone
            BY <1>4, <1>5, <3>1 DEF Answers
        <3>2. CASE startTask[q].task \notin gone
            <4>1. startTask'[q] = startTask[q]
                BY <1>4, <3>2
            <4>2. startTask[q].state = "waiting" => startTask[q].task \in Tasks
                BY <1>1 DEF WaitingCallsHaveAnAnswerer, TypeOK
            <4> QED BY <1>1, <1>2, <3>2, <4>1, <4>2 DEF WaitingCallsHaveAnAnswerer
        <3> QED BY <3>1, <3>2
    <2> QED BY <2>1 DEF WaitingCallsHaveAnAnswerer
<1>9. OneTaskPerCall'
    <2>1. ASSUME NEW t \in settingsSent' PROVE startTask'[tasks'[t]] = Waiting(t)
        <3>1. t \in settingsSent /\ t \notin gone /\ t \in Tasks /\ tasks[t] \in Requests
            BY <1>1, <1>2 DEF TypeOK
        <3>2. tasks'[t] = tasks[t] /\ startTask[tasks[t]] = Waiting(t)
            BY <1>1, <1>2, <3>1 DEF OneTaskPerCall
        <3>3. startTask[tasks[t]].task = t
            BY <3>2 DEF Waiting
        <3> QED BY <1>4, <3>1, <3>2, <3>3
    <2> QED BY <2>1 DEF OneTaskPerCall
<1> QED BY <1>2, <1>3, <1>6, <1>8, <1>9 DEF Calls

\* Nothing changes that the calls depend on.
LEMMA SameCalls ==
    ASSUME BrokerInv, tasks' = tasks, settingsSent' = settingsSent, startTask' = startTask,
           \A q \in Requests : startTask[q].state = "requested" =>
                Contains(pendingTaskRequests', q) /\ q \in requestTimer'
    PROVE  Calls'
BY DEF BrokerInv, Calls, WaitingCallsHaveAnAnswerer, OneTaskPerCall

\* Requests and offers that are appended.
LEMMA AppendedIsContained ==
    ASSUME NEW S, NEW s \in Seq(S), NEW x \in S
    PROVE  /\ Append(s, x) \in Seq(S)
           /\ \A y : Contains(Append(s, x), y) <=> Contains(s, y) \/ y = x
<1>1. Append(s, x) \in Seq(S) /\ Len(s) \in Nat
    OBVIOUS
<1>2. /\ DOMAIN s = 1..Len(s) /\ DOMAIN Append(s, x) = 1..(Len(s) + 1)
      /\ \A i \in 1..Len(s) : Append(s, x)[i] = s[i] /\ i \in 1..(Len(s) + 1)
      /\ Append(s, x)[Len(s) + 1] = x /\ Len(s) + 1 \in 1..(Len(s) + 1)
      /\ \A i \in 1..(Len(s) + 1) : i \in 1..Len(s) \/ i = Len(s) + 1
    OBVIOUS
<1>3. ASSUME NEW y PROVE Contains(Append(s, x), y) <=> Contains(s, y) \/ y = x
    <2> DEFINE w == Append(s, x)
    <2>1. Contains(w, y) <=> \E i \in 1..(Len(s) + 1) : w[i] = y
        <3>1. Len(w) = Len(s) + 1
            OBVIOUS
        <3> HIDE DEF w
        <3> QED BY <3>1 DEF Contains
    <2>2. Contains(s, y) <=> \E i \in 1..Len(s) : s[i] = y
        BY <1>2, ContainsElement
    <2> HIDE DEF w
    <2>3. ASSUME NEW i \in 1..Len(s), s[i] = y PROVE Contains(w, y)
        BY <1>2, <2>1, <2>3 DEF w
    <2>4. ASSUME y = x PROVE Contains(w, y)
        BY <1>2, <2>1, <2>4 DEF w
    <2>5. ASSUME NEW i \in 1..(Len(s) + 1), w[i] = y PROVE Contains(s, y) \/ y = x
        BY <1>2, <2>2, <2>5 DEF w
    <2>6. Contains(w, y) <=> Contains(s, y) \/ y = x
        BY <2>1, <2>2, <2>3, <2>4, <2>5
    <2> QED BY <2>6 DEF w
<1> QED BY <1>1, <1>3

\* An offer that is not yet pending is appended.
LEMMA AppendedIsDistinct ==
    ASSUME NEW S, NEW s \in Seq(S), NEW x \in S, Distinct(s), ~Contains(s, x)
    PROVE  Distinct(Append(s, x))
<1>1. /\ Len(s) \in Nat /\ DOMAIN s = 1..Len(s) /\ DOMAIN Append(s, x) = 1..(Len(s) + 1)
      /\ \A i \in 1..Len(s) : Append(s, x)[i] = s[i]
      /\ Append(s, x)[Len(s) + 1] = x
      /\ \A i \in 1..(Len(s) + 1) : i \in 1..Len(s) \/ i = Len(s) + 1
    OBVIOUS
<1>2. \A i \in 1..Len(s) : s[i] # x
    BY <1>1, ContainsElement
<1> DEFINE w == Append(s, x)
<1> HIDE DEF w
<1>3. \A i, j \in 1..(Len(s) + 1) : w[i] = w[j] => i = j
    <2> SUFFICES ASSUME NEW i \in 1..(Len(s) + 1), NEW j \in 1..(Len(s) + 1), w[i] = w[j]
                 PROVE  i = j
        OBVIOUS
    <2>1. CASE i \in 1..Len(s) /\ j \in 1..Len(s)
        BY <1>1, <2>1 DEF w, Distinct
    <2>2. CASE i \in 1..Len(s) /\ j = Len(s) + 1
        BY <1>1, <1>2, <2>2 DEF w
    <2>3. CASE j \in 1..Len(s) /\ i = Len(s) + 1
        BY <1>1, <1>2, <2>3 DEF w
    <2> QED BY <1>1, <2>1, <2>2, <2>3
<1> QED BY <1>1, <1>3 DEF w, Distinct

\* Nothing happens to a task.
LEMMA SameForBroker ==
    ASSUME BrokerInv, NEW r \in Runners, NEW o \in OfferIds,
           UNCHANGED <<up, runningTasks, code>>, Known(r)' <=> Known(r),
           accepting'[<<r, o>>] \in {accepting[<<r, o>>], None},
           tasks'[<<r, o>>] = tasks[<<r, o>>],
           <<r, o>> \in settingsSent' => <<r, o>> \in settingsSent,
           Pending(r, o)' => Pending(r, o),
           ~Known(r) => toBroker'[r] = toBroker[r],
           Adds(toBroker[r], toBroker'[r], o, {}), Adds(toRunner[r], toRunner'[r], o, {})
    PROVE  TaskInv(r, o)'
<1>1. TaskInv(r, o)
    BY DEF BrokerInv
<1> QED BY <1>1, SameTask

LEMMA BrokerInvParts ==
    ASSUME TypeOK', Distinct(pendingTaskOffers'), Calls',
           \A r \in Runners, o \in OfferIds : TaskInv(r, o)'
    PROVE  BrokerInv'
BY DEF BrokerInv, Calls, Distinct

-----------------------------------------------------------------------------
(* The steps of the requester and the broker *)

\* A request takes up offers; its call waits with a timer.
LEMMA StartTaskStep ==
    ASSUME BrokerInv, NEW q \in Requests, StartTask(q)
    PROVE  BrokerInv'
<1>1. TypeOK /\ Distinct(pendingTaskOffers)
    BY DEF BrokerInv
<1> DEFINE requests == Append(pendingTaskRequests, q)
<1>2. /\ startTask[q] = Call("idle")
      /\ startTask' = [startTask EXCEPT ![q] = Call("requested")]
      /\ requestTimer' = requestTimer \cup {q}
      /\ settleTasks(requests, pendingTaskOffers, {})
      /\ UNCHANGED <<up, connection, canSendOffers, openOffers, runningTasks,
                     taskTimer, code, toBroker, tasks, settingsSent>>
    BY DEF StartTask
<1>3. /\ requests \in Seq(Requests)
      /\ \A x : Contains(requests, x) <=> Contains(pendingTaskRequests, x) \/ x = q
      /\ pendingTaskOffers \in Seq(Tasks)
    BY <1>1, AppendedIsContained DEF TypeOK
<1> HIDE DEF requests
<1>4. /\ pendingTaskRequests' = requests
      /\ pendingTaskOffers' \in Seq(Tasks)
      /\ Distinct(pendingTaskOffers')
      /\ acceptInProgress' \subseteq Requests
      /\ accepting' \in [Tasks -> Requests \cup {None}]
      /\ toRunner' \in [Runners -> Seq(ToRunner)]
      /\ \A t : Contains(pendingTaskOffers', t) => Contains(pendingTaskOffers, t)
      /\ \E taken \in SUBSET Tasks : \A r \in Runners, o \in OfferIds :
            /\ <<r, o>> \in taken =>
                    /\ Contains(pendingTaskOffers, <<r, o>>)
                    /\ accepting'[<<r, o>>] \in Requests
                    /\ ~Contains(pendingTaskOffers', <<r, o>>)
            /\ <<r, o>> \notin taken => accepting'[<<r, o>>] = accepting[<<r, o>>]
            /\ Adds(toRunner[r], toRunner'[r], o,
                    IF r \in up /\ <<r, o>> \in taken THEN {"taskofferaccept"} ELSE {})
    BY <1>1, <1>2, <1>3, SettlesTasks
<1>5. PICK taken \in SUBSET Tasks : \A r \in Runners, o \in OfferIds :
            /\ <<r, o>> \in taken =>
                    /\ Contains(pendingTaskOffers, <<r, o>>)
                    /\ accepting'[<<r, o>>] \in Requests
                    /\ ~Contains(pendingTaskOffers', <<r, o>>)
            /\ <<r, o>> \notin taken => accepting'[<<r, o>>] = accepting[<<r, o>>]
            /\ Adds(toRunner[r], toRunner'[r], o,
                    IF r \in up /\ <<r, o>> \in taken THEN {"taskofferaccept"} ELSE {})
    BY <1>4
<1>6. ASSUME NEW r \in Runners, NEW o \in OfferIds PROVE TaskInv(r, o)'
    <2>1. TaskInv(r, o)
        BY DEF BrokerInv
    <2>2. /\ <<r, o>> \in taken => Pending(r, o) /\ ~Pending(r, o)'
          /\ <<r, o>> \notin taken => accepting'[<<r, o>>] = accepting[<<r, o>>]
          /\ Adds(toRunner[r], toRunner'[r], o,
                  IF r \in up /\ <<r, o>> \in taken THEN {"taskofferaccept"} ELSE {})
          /\ Pending(r, o)' => Pending(r, o)
        BY <1>4, <1>5 DEF Pending
    <2>3. ToB(r, o)' = ToB(r, o) /\ toBroker'[r] = toBroker[r] /\ (Known(r)' <=> Known(r))
        BY <1>2 DEF ToB, Known
    <2>4. CASE <<r, o>> \in taken
        <3>1. /\ ToB(r, o) \cap OfferStage = {} /\ ToR(r, o) \cap AcceptStage = {}
              /\ accepting[<<r, o>>] = None /\ tasks[<<r, o>>] = None
              /\ runningTasks[r][o] = "none" /\ ToB(r, o) \cap Results = {}
              /\ "taskcancel" \notin ToR(r, o) /\ code[r][o] = "none"
              /\ OfferChannel(toBroker[r], o) /\ AcceptChannel(toRunner[r], o)
              /\ ~Known(r) => toBroker[r] = <<>>
            BY <2>1, <2>2, <2>4 DEF TaskInv, OnePlace, Records, Status
        <3> DEFINE yes == <<r, o>> \in taken
        <3>2. yes \in BOOLEAN /\ yes
            BY <2>4
        <3>3. Adds(toRunner[r], toRunner'[r], o,
                   IF r \in up /\ yes THEN {"taskofferaccept"} ELSE {}) /\ ~Pending(r, o)'
            BY <2>2, <2>4
        <3> HIDE DEF yes
        <3> QED BY <1>1, <1>2, <2>3, <3>1, <3>2, <3>3, OfferSettled
    <2>5. CASE <<r, o>> \notin taken
        <3>1. Adds(toRunner[r], toRunner'[r], o, {}) /\ Adds(toBroker[r], toBroker'[r], o, {})
            BY <2>2, <2>3, <2>5, NothingAdded
        <3> QED BY <1>2, <2>2, <2>3, <2>5, <3>1, SameForBroker
    <2> QED BY <2>4, <2>5
<1>7. TypeOK'
    <2>1. RunnerTypeOK'
        BY <1>1, <1>2, <1>4 DEF TypeOK, RunnerTypeOK
    <2>2. startTask' \in [Requests -> CallState]
        BY <1>1, <1>2 DEF TypeOK, Call, CallState
    <2>3. requestTimer' \subseteq Requests
        BY <1>1, <1>2 DEF TypeOK
    <2> QED BY <1>1, <1>2, <1>3, <1>4, <2>1, <2>2, <2>3 DEF TypeOK
<1>8. Calls'
    <2>1. /\ startTask \in [Requests -> CallState] /\ Call("idle").state = "idle"
          /\ Call("requested").state = "requested"
        BY <1>1 DEF TypeOK, Call
    <2>2. WaitingCallsHaveAnAnswerer'
        BY <1>2, <1>3, <1>4, <2>1 DEF BrokerInv, WaitingCallsHaveAnAnswerer
    <2>3. OneTaskPerCall'
        <3>1. ASSUME NEW t \in settingsSent PROVE startTask'[tasks[t]] = Waiting(t)
            <4>1. tasks[t] \in Requests /\ startTask[tasks[t]] = Waiting(t)
                BY <1>1 DEF TypeOK, BrokerInv, OneTaskPerCall
            <4>2. tasks[t] # q
                BY <1>2, <2>1, <4>1 DEF Waiting
            <4> QED BY <1>2, <2>1, <4>1, <4>2
        <3> QED BY <1>2, <3>1 DEF OneTaskPerCall
    <2> QED BY <2>2, <2>3 DEF Calls
<1> QED BY <1>4, <1>6, <1>7, <1>8, BrokerInvParts

\* A new offer becomes pending or is taken up at once.
LEMMA TaskOfferedStep ==
    ASSUME BrokerInv, NEW s \in Runners, NEW p \in OfferIds, taskOffered(s, p)
    PROVE  BrokerInv'
<1>1. TypeOK /\ RunnerTypeOK /\ Distinct(pendingTaskOffers) /\ TaskInv(s, p)
    BY DEF BrokerInv, TypeOK
<1> DEFINE offers == Append(pendingTaskOffers, <<s, p>>)
<1>2. /\ BrokerReceives(s, "taskoffer", p)
      /\ settleTasks(pendingTaskRequests, offers, {<<s, p>>})
      /\ UNCHANGED <<requestTimer, tasks, settingsSent, startTask>>
      /\ UNCHANGED <<up, connection, canSendOffers, openOffers, runningTasks, taskTimer, code>>
    BY DEF taskOffered, BrokerReceives
<1>3. /\ Known(s) /\ "taskoffer" \in ToB(s, p)
      /\ toBroker' \in [Runners -> Seq(ToBroker)]
      /\ \A r \in Runners : r # s => toBroker'[r] = toBroker[r]
      /\ Drops(toBroker[s], toBroker'[s], p, "taskoffer")
      /\ \A x : x # p => Adds(toBroker[s], toBroker'[s], x, {})
    BY <1>1, <1>2, MessageOfRunner DEF ToB
<1>4. "taskoffer" \in OfferStage
    BY DEF OfferStage
<1>5. ~Pending(s, p)
    BY <1>1, <1>3, <1>4 DEF TaskInv, OnePlace
<1>6. /\ offers \in Seq(Tasks) /\ Distinct(offers)
      /\ \A t : Contains(offers, t) <=> Contains(pendingTaskOffers, t) \/ t = <<s, p>>
      /\ pendingTaskRequests \in Seq(Requests)
    <2>1. <<s, p>> \in Tasks /\ pendingTaskOffers \in Seq(Tasks)
          /\ pendingTaskRequests \in Seq(Requests)
        BY <1>1 DEF Tasks, TypeOK
    <2>2. ~Contains(pendingTaskOffers, <<s, p>>)
        BY <1>5 DEF Pending
    <2> QED BY <1>1, <2>1, <2>2, AppendedIsContained, AppendedIsDistinct
<1> HIDE DEF offers
<1>7. /\ pendingTaskRequests' = pendingTaskRequests
      /\ pendingTaskOffers' \in Seq(Tasks)
      /\ Distinct(pendingTaskOffers')
      /\ acceptInProgress' \subseteq Requests
      /\ accepting' \in [Tasks -> Requests \cup {None}]
      /\ toRunner' \in [Runners -> Seq(ToRunner)]
      /\ \A t : Contains(pendingTaskOffers', t) => Contains(offers, t)
      /\ \E taken \in SUBSET Tasks : \A r \in Runners, o \in OfferIds :
            /\ <<r, o>> \in taken =>
                    /\ Contains(offers, <<r, o>>)
                    /\ accepting'[<<r, o>>] \in Requests
                    /\ ~Contains(pendingTaskOffers', <<r, o>>)
            /\ <<r, o>> \notin taken => accepting'[<<r, o>>] = accepting[<<r, o>>]
            /\ Adds(toRunner[r], toRunner'[r], o,
                    IF r \in up /\ <<r, o>> \in taken THEN {"taskofferaccept"} ELSE {})
    BY <1>1, <1>2, <1>6, SettlesTasks
<1>8. PICK taken \in SUBSET Tasks : \A r \in Runners, o \in OfferIds :
            /\ <<r, o>> \in taken =>
                    /\ Contains(offers, <<r, o>>)
                    /\ accepting'[<<r, o>>] \in Requests
                    /\ ~Contains(pendingTaskOffers', <<r, o>>)
            /\ <<r, o>> \notin taken => accepting'[<<r, o>>] = accepting[<<r, o>>]
            /\ Adds(toRunner[r], toRunner'[r], o,
                    IF r \in up /\ <<r, o>> \in taken THEN {"taskofferaccept"} ELSE {})
    BY <1>7
<1>9. ASSUME NEW r \in Runners, NEW o \in OfferIds PROVE TaskInv(r, o)'
    <2>1. TaskInv(r, o)
        BY DEF BrokerInv
    <2> DEFINE new == r = s /\ o = p
    <2>2. /\ <<r, o>> \in taken => (Pending(r, o) \/ new) /\ ~Pending(r, o)'
          /\ <<r, o>> \notin taken => accepting'[<<r, o>>] = accepting[<<r, o>>]
          /\ Adds(toRunner[r], toRunner'[r], o,
                  IF r \in up /\ <<r, o>> \in taken THEN {"taskofferaccept"} ELSE {})
          /\ Pending(r, o)' => Pending(r, o) \/ new
        BY <1>6, <1>7, <1>8 DEF Pending
    <2>3. Known(r)' <=> Known(r)
        BY <1>2 DEF Known
    <2>4. new => /\ ToB(r, o) = ToB(r, o)' \cup {"taskoffer"} /\ OfferChannel(toBroker'[r], o)
                 /\ ToB(r, o)' \cap OfferStage = {} /\ Known(r)
        BY <1>3, <1>4, <2>1 DEF Drops, ToB, TaskInv, OnePlace
    <2>5. ~new => Adds(toBroker[r], toBroker'[r], o, {})
        BY <1>3, NothingAdded
    <2>6. ~Known(r) => toBroker'[r] = toBroker[r]
        BY <1>3
    <2>7. CASE <<r, o>> \in taken \/ new
        <3>1. ToB(r, o)' \in SUBSET ToB(r, o) /\ ToB(r, o)' \cap OfferStage = {}
            BY <2>1, <2>2, <2>4, <2>5, <2>7 DEF TaskInv, OnePlace, Adds, ToB
        <3>2. Pending(r, o) \/ "taskoffer" \in ToB(r, o)
            BY <1>3, <2>2, <2>7
        <3>3. /\ ToR(r, o) \cap AcceptStage = {}
              /\ accepting[<<r, o>>] = None /\ tasks[<<r, o>>] = None
              /\ runningTasks[r][o] = "none" /\ ToB(r, o) \cap Results = {}
              /\ "taskcancel" \notin ToR(r, o) /\ code[r][o] = "none"
              /\ AcceptChannel(toRunner[r], o)
              /\ ~Known(r) => toBroker[r] = <<>>
            BY <1>4, <2>1, <3>2 DEF TaskInv, OnePlace, Records, Status
        <3>4. OfferChannel(toBroker'[r], o)
            BY <2>1, <2>4, <2>5 DEF TaskInv, OnePlace, Adds
        <3> DEFINE yes == <<r, o>> \in taken
        <3>5. yes \in BOOLEAN /\ (yes => ~Pending(r, o)') /\ (~yes
              => accepting'[<<r, o>>] = None)
            BY <2>2, <3>3
        <3>6. Adds(toRunner[r], toRunner'[r], o,
                   IF r \in up /\ yes THEN {"taskofferaccept"} ELSE {})
            BY <2>2
        <3> HIDE DEF yes, new
        <3> QED BY <1>1, <1>2, <2>6, <3>1, <3>3, <3>4, <3>5, <3>6, OfferSettled
    <2>8. CASE <<r, o>> \notin taken /\ ~new
        <3>1. Adds(toRunner[r], toRunner'[r], o, {})
            BY <2>2, <2>8
        <3> QED BY <1>2, <2>2, <2>3, <2>5, <2>6, <2>8, <3>1, SameForBroker
    <2> QED BY <2>7, <2>8
<1>10. TypeOK'
    <2>1. RunnerTypeOK'
        BY <1>1, <1>2, <1>3, <1>7 DEF RunnerTypeOK
    <2> QED BY <1>1, <1>2, <1>7, <2>1 DEF TypeOK
<1>11. Calls'
    BY <1>2, <1>7, SameCalls DEF BrokerInv, WaitingCallsHaveAnAnswerer
<1> QED BY <1>7, <1>9, <1>10, <1>11, BrokerInvParts

\* One message to a runner.
LEMMA DeliversOne ==
    ASSUME RunnerTypeOK, NEW r \in Runners, NEW type, NEW o,
           <<type, o>> \in ToRunner, Deliver(r, <<<<type, o>>>>)
    PROVE  /\ toRunner' \in [Runners -> Seq(ToRunner)]
           /\ \A p \in Runners : p # r => toRunner'[p] = toRunner[p]
           /\ Adds(toRunner[r], toRunner'[r], o, IF r \in up THEN {type} ELSE {})
           /\ \A x : x # o => Adds(toRunner[r], toRunner'[r], x, {})
<1> DEFINE u == <<<<type, o>>>>
<1>1. u \in Seq(ToRunner)
    OBVIOUS
<1>2. \A x : Single(u, x) /\ About(u, x) = IF x = o THEN {type} ELSE {}
    BY OneMessage
<1> HIDE DEF u
<1>3. /\ toRunner' \in [Runners -> Seq(ToRunner)]
      /\ \A p \in Runners : p # r => toRunner'[p] = toRunner[p]
      /\ \A x : Adds(toRunner[r], toRunner'[r], x, IF r \in up THEN About(u, x) ELSE {})
    <2>1. Deliver(r, u)
        BY DEF u
    <2> QED BY <1>1, <1>2, <2>1, Delivers
<1>4. Adds(toRunner[r], toRunner'[r], o, IF r \in up THEN {type} ELSE {})
    <2>1. Adds(toRunner[r], toRunner'[r], o, IF r \in up THEN About(u, o) ELSE {})
        BY <1>3
    <2>2. About(u, o) = {type}
        BY <1>2
    <2> QED BY <2>1, <2>2
<1>5. ASSUME NEW x, x # o PROVE Adds(toRunner[r], toRunner'[r], x, {})
    <2>1. Adds(toRunner[r], toRunner'[r], x, IF r \in up THEN About(u, x) ELSE {})
        BY <1>3
    <2>2. About(u, x) = {}
        BY <1>2, <1>5
    <2> QED BY <2>1, <2>2
<1> QED BY <1>3, <1>4, <1>5

\* The broker forgets a task that it recorded, and tells its runner or not.
LEMMA DeletedStep ==
    ASSUME BrokerInv, NEW s \in Runners, NEW p \in OfferIds, NEW answer \in Answers,
           tasks[<<s, p>>] # None, DeleteTasks({<<s, p>>}),
           startTask' = SettleCalls({<<s, p>>}, answer),
           toRunner' = toRunner \/ Deliver(s, <<<<"taskcancel", p>>>>),
           UNCHANGED <<pendingTaskOffers, pendingTaskRequests, acceptInProgress,
                       requestTimer, accepting>>,
           UnchangedRunners
    PROVE  BrokerInv'
<1>1. TypeOK /\ RunnerTypeOK /\ Distinct(pendingTaskOffers)
    BY DEF BrokerInv, TypeOK
<1>2. UNCHANGED <<up, connection, canSendOffers, openOffers, runningTasks, taskTimer, code,
                  toBroker>>
    BY DEF UnchangedRunners
<1>3. /\ tasks' \in [Tasks -> Requests \cup {None}]
      /\ settingsSent' \subseteq {t \in Tasks : tasks'[t] # None}
      /\ startTask' \in [Requests -> CallState]
      /\ Calls'
    <2>1. {<<s, p>>} \in SUBSET Tasks
        BY DEF Tasks
    <2> QED BY <2>1, CallsSettled
<1>4. /\ \A t \in Tasks : tasks'[t] = IF t = <<s, p>> THEN None ELSE tasks[t]
      /\ settingsSent' = settingsSent \ {<<s, p>>}
    BY DEF DeleteTasks
<1>5. PICK types \in SUBSET {"taskcancel"} :
      /\ toRunner' \in [Runners -> Seq(ToRunner)]
      /\ \A r \in Runners : r # s => toRunner'[r] = toRunner[r]
      /\ Adds(toRunner[s], toRunner'[s], p, types)
      /\ \A x : x # p => Adds(toRunner[s], toRunner'[s], x, {})
    <2>1. CASE toRunner' = toRunner
        <3>1. toRunner' \in [Runners -> Seq(ToRunner)]
              /\ \A x : Adds(toRunner[s], toRunner'[s], x, {})
            BY <1>1, <2>1, NothingAdded DEF RunnerTypeOK
        <3>2. {} \in SUBSET {"taskcancel"}
            OBVIOUS
        <3> QED BY <2>1, <3>1, <3>2
    <2>2. CASE Deliver(s, <<<<"taskcancel", p>>>>)
        <3>1. <<"taskcancel", p>> \in ToRunner
            BY DEF ToRunner
        <3> DEFINE types == IF s \in up THEN {"taskcancel"} ELSE {}
        <3>2. types \in SUBSET {"taskcancel"}
            OBVIOUS
        <3>3. /\ toRunner' \in [Runners -> Seq(ToRunner)]
              /\ \A r \in Runners : r # s => toRunner'[r] = toRunner[r]
              /\ Adds(toRunner[s], toRunner'[s], p, types)
              /\ \A x : x # p => Adds(toRunner[s], toRunner'[s], x, {})
            BY <1>1, <2>2, <3>1, DeliversOne
        <3> HIDE DEF types
        <3> QED BY <3>2, <3>3
    <2> QED BY <2>1, <2>2
<1>6. ASSUME NEW r \in Runners, NEW o \in OfferIds PROVE TaskInv(r, o)'
    <2>1. TaskInv(r, o) /\ <<r, o>> \in Tasks
        BY DEF BrokerInv, Tasks
    <2>2. CASE r = s /\ o = p
        <3>1. tasks'[<<r, o>>] = None /\ <<r, o>> \notin settingsSent'
            BY <1>4, <2>1, <2>2
        <3> QED BY <1>2, <1>5, <2>1, <2>2, <3>1, TaskDeleted
    <2>3. CASE ~(r = s /\ o = p)
        <3>1. tasks'[<<r, o>>] = tasks[<<r, o>>] /\ (<<r, o>> \in settingsSent'
              => <<r, o>> \in settingsSent)
            BY <1>4, <2>1, <2>3
        <3>2. Adds(toRunner[r], toRunner'[r], o, {}) /\ Adds(toBroker[r], toBroker'[r], o, {})
            BY <1>2, <1>5, <2>3, NothingAdded
        <3>3. (Known(r)' <=> Known(r)) /\ (Pending(r, o)' <=> Pending(r, o))
            BY <1>2 DEF Known, Pending
        <3> QED BY <1>2, <3>1, <3>2, <3>3, SameForBroker
    <2> QED BY <2>2, <2>3
<1>7. TypeOK'
    <2>1. RunnerTypeOK'
        BY <1>1, <1>2, <1>5 DEF RunnerTypeOK
    <2> QED BY <1>1, <1>3, <2>1 DEF TypeOK
<1>8. Distinct(pendingTaskOffers')
    BY <1>1
<1> QED BY <1>3, <1>6, <1>7, <1>8, BrokerInvParts

\* The caller whose execution is cancelled is the only one that waits for the task.
LEMMA CancelTasksStep ==
    ASSUME BrokerInv, NEW q \in Requests, CancelTasks(q)
    PROVE  BrokerInv'
<1>1. TypeOK /\ WaitingCallsHaveAnAnswerer /\ OneTaskPerCall
      /\ startTask \in [Requests -> CallState]
    BY DEF BrokerInv, TypeOK
<1> DEFINE t == startTask[q].task
<1>2. startTask[q].state = "waiting" /\ t \in settingsSent /\ tasks[t] = q
    BY <1>1 DEF CancelTasks, WaitingCallsHaveAnAnswerer
<1>3. t \in Tasks /\ tasks[t] # None
    BY <1>1, <1>2 DEF TypeOK
<1>4. /\ startTask' = [startTask EXCEPT ![q] = Call("cancelled")]
      /\ DeleteTasks({t})
      /\ Deliver(t[1], <<<<"taskcancel", t[2]>>>>)
      /\ UNCHANGED <<pendingTaskOffers, pendingTaskRequests, acceptInProgress,
                     requestTimer, accepting>>
      /\ UnchangedRunners
    BY <1>3 DEF CancelTasks, UnchangedRunners
<1>5. ASSUME NEW x \in Requests, x # q PROVE startTask[x].task # t
    <2>1. startTask[x] \in CallState
        BY <1>1
    <2>2. CASE startTask[x].state = "waiting"
        BY <1>1, <1>2, <1>5, <2>2 DEF WaitingCallsHaveAnAnswerer
    <2>3. CASE startTask[x].state # "waiting"
        <3>1. startTask[x].task = None
            BY <2>1, <2>3 DEF CallState
        <3> QED BY <1>3, <3>1, NoneAssumption
    <2> QED BY <2>2, <2>3
<1>6. startTask' = SettleCalls({t}, "cancelled")
    <2>1. \A x \in Requests :
            [startTask EXCEPT ![q] = Call("cancelled")][x]
                = IF startTask[x].task \in {t} THEN Call("cancelled") ELSE startTask[x]
        BY <1>1, <1>5
    <2>2. [startTask EXCEPT ![q] = Call("cancelled")]
            = [x \in Requests |-> [startTask EXCEPT ![q] = Call("cancelled")][x]]
        BY <1>1
    <2> QED BY <1>4, <2>1, <2>2 DEF SettleCalls
<1> HIDE DEF t
<1>7. PICK s \in Runners, p \in OfferIds : t = <<s, p>>
    BY <1>3 DEF Tasks
<1>8. "cancelled" \in Answers
    BY DEF Answers
<1> QED BY <1>3, <1>4, <1>6, <1>7, <1>8, DeletedStep

LEMMA TaskTimeoutStep ==
    ASSUME BrokerInv, NEW t \in Tasks, handleTaskTimeout(t)
    PROVE  BrokerInv'
<1>1. tasks[t] # None /\ "failed" \in Answers
    BY DEF BrokerInv, TypeOK, handleTaskTimeout, Answers
<1>2. PICK s \in Runners, p \in OfferIds : t = <<s, p>>
    BY DEF Tasks
<1>3. /\ DeleteTasks({t}) /\ startTask' = SettleCalls({t}, "failed")
      /\ toRunner' = toRunner \/ Deliver(s, <<<<"taskcancel", p>>>>)
      /\ UNCHANGED <<pendingTaskOffers, pendingTaskRequests, acceptInProgress,
                     requestTimer, accepting>>
      /\ UnchangedRunners
    BY <1>2 DEF handleTaskTimeout
<1> QED BY <1>1, <1>2, <1>3, DeletedStep

\* A request whose time is over leaves the queue with its call answered.
LEMMA RequestTimeoutStep ==
    ASSUME BrokerInv, NEW q \in Requests, handleRequestTimeout(q)
    PROVE  BrokerInv'
<1>1. TypeOK /\ RunnerTypeOK /\ Distinct(pendingTaskOffers)
      /\ startTask \in [Requests -> CallState]
      /\ WaitingCallsHaveAnAnswerer /\ OneTaskPerCall /\ pendingTaskRequests \in Seq(Requests)
    BY DEF BrokerInv, TypeOK
<1>2. /\ requestTimer' = requestTimer \ {q}
      /\ UNCHANGED <<toRunner, pendingTaskOffers, acceptInProgress, accepting, tasks,
                     settingsSent>>
      /\ UNCHANGED <<up, connection, canSendOffers, openOffers, runningTasks, taskTimer,
                     code, toBroker>>
    BY DEF handleRequestTimeout, UnchangedRunners
<1>3. /\ pendingTaskRequests' \in Seq(Requests)
      /\ \A x \in Requests : x # q
            => (Contains(pendingTaskRequests', x) <=> Contains(pendingTaskRequests, x))
    BY <1>1, WithoutRequestLemma DEF handleRequestTimeout, WithoutRequest
<1>4. /\ startTask' \in [Requests -> CallState]
      /\ \A x \in Requests : x # q => startTask'[x] = startTask[x]
      /\ startTask[q].state # "requested" => startTask'[q] = startTask[q]
      /\ startTask'[q].state # "requested"
    <2>1. Call("expired") \in CallState /\ Call("expired").state = "expired"
        BY DEF Call, CallState, Answers
    <2>2. startTask[q].state = "requested" => Contains(pendingTaskRequests, q)
        BY <1>1 DEF WaitingCallsHaveAnAnswerer
    <2>3. CASE startTask[q].state = "requested"
        <3>1. startTask' = [startTask EXCEPT ![q] = Call("expired")]
            BY <2>2, <2>3 DEF handleRequestTimeout, requestExpired
        <3> QED BY <1>1, <2>1, <2>3, <3>1
    <2>4. CASE startTask[q].state # "requested"
        BY <1>1, <2>4 DEF handleRequestTimeout, requestExpired
    <2> QED BY <2>3, <2>4
<1>5. ASSUME NEW r \in Runners, NEW o \in OfferIds PROVE TaskInv(r, o)'
    <2>1. (Known(r)' <=> Known(r)) /\ (Pending(r, o)' <=> Pending(r, o))
        BY <1>2 DEF Known, Pending
    <2> QED BY <1>2, <2>1, SameForBroker, NothingAdded
<1>6. TypeOK'
    <2>1. RunnerTypeOK'
        BY <1>1, <1>2 DEF RunnerTypeOK
    <2> QED BY <1>1, <1>2, <1>3, <1>4, <2>1 DEF TypeOK
<1>7. WaitingCallsHaveAnAnswerer'
    <2>1. ASSUME NEW x \in Requests
          PROVE  /\ startTask'[x].state = "requested" =>
                        Contains(pendingTaskRequests', x) /\ x \in requestTimer'
                 /\ startTask'[x].state = "waiting" =>
                        startTask'[x].task \in settingsSent' /\ tasks'[startTask'[x].task] = x
        <3>1. CASE x # q
            BY <1>1, <1>2, <1>3, <1>4, <3>1 DEF WaitingCallsHaveAnAnswerer
        <3>2. CASE x = q /\ startTask[q].state # "requested"
            BY <1>1, <1>2, <1>4, <3>2 DEF WaitingCallsHaveAnAnswerer
        <3>3. CASE x = q /\ startTask[q].state = "requested"
            <4>1. startTask'[q].state = "expired"
                <5>1. Contains(pendingTaskRequests, q)
                    BY <1>1, <3>3 DEF WaitingCallsHaveAnAnswerer
                <5> QED BY <1>1, <3>3, <5>1 DEF handleRequestTimeout, requestExpired, Call
            <4> QED BY <3>3, <4>1
        <3> QED BY <3>1, <3>2, <3>3
    <2> QED BY <2>1 DEF WaitingCallsHaveAnAnswerer
<1>8. OneTaskPerCall'
    <2>1. ASSUME NEW t \in settingsSent PROVE startTask'[tasks[t]] = Waiting(t)
        <3>1. tasks[t] \in Requests /\ startTask[tasks[t]] = Waiting(t)
            BY <1>1 DEF TypeOK, OneTaskPerCall
        <3>2. startTask[tasks[t]].state # "requested"
            BY <3>1 DEF Waiting
        <3> QED BY <1>4, <3>1, <3>2
    <2> QED BY <1>2, <2>1 DEF OneTaskPerCall
<1>9. Distinct(pendingTaskOffers')
    BY <1>1, <1>2
<1> QED BY <1>5, <1>6, <1>7, <1>8, <1>9, BrokerInvParts DEF Calls

\* The broker stops waiting for an answer to an acceptance.
LEMMA AcceptTimeoutStep ==
    ASSUME BrokerInv, NEW t \in Tasks, AcceptTimeout(t)
    PROVE  BrokerInv'
<1>1. TypeOK /\ RunnerTypeOK /\ Distinct(pendingTaskOffers)
    BY DEF BrokerInv, TypeOK
<1>2. /\ accepting' = [accepting EXCEPT ![t] = None]
      /\ acceptInProgress' = acceptInProgress \ {accepting[t]}
      /\ UNCHANGED <<toRunner, pendingTaskOffers, pendingTaskRequests,
                     requestTimer, tasks, settingsSent, startTask>>
      /\ UNCHANGED <<up, connection, canSendOffers, openOffers, runningTasks, taskTimer,
                     code, toBroker>>
    BY DEF AcceptTimeout, AcceptFails, UnchangedRunners
<1>3. ASSUME NEW r \in Runners, NEW o \in OfferIds PROVE TaskInv(r, o)'
    <2>1. (Known(r)' <=> Known(r)) /\ (Pending(r, o)' <=> Pending(r, o))
        BY <1>2 DEF Known, Pending
    <2>2. accepting'[<<r, o>>] \in {accepting[<<r, o>>], None}
        BY <1>1, <1>2 DEF TypeOK, Tasks
    <2> QED BY <1>2, <2>1, <2>2, SameForBroker, NothingAdded
<1>4. TypeOK'
    <2>1. RunnerTypeOK'
        BY <1>1, <1>2 DEF RunnerTypeOK
    <2> QED BY <1>1, <1>2, <2>1 DEF TypeOK
<1>5. Calls'
    BY <1>2, SameCalls DEF BrokerInv, WaitingCallsHaveAnAnswerer
<1>6. Distinct(pendingTaskOffers')
    BY <1>1, <1>2
<1> QED BY <1>3, <1>4, <1>5, <1>6, BrokerInvParts

\* Messages of a runner that leave its tasks as they are.
LEMMA OtherMessageStep ==
    ASSUME BrokerInv, NEW s \in Runners, NEW p \in OfferIds,
           NEW type \in {"taskrejected", "taskdeferred", "taskdatarequest"},
           BrokerReceives(s, type, p),
           accepting' = accepting \/ accepting' = [accepting EXCEPT ![<<s, p>>] = None],
           toRunner' = toRunner \/ Deliver(s, <<<<"taskdataresponse", p>>>>),
           acceptInProgress' \subseteq acceptInProgress, requestTimer \subseteq requestTimer',
           requestTimer' \subseteq Requests, pendingTaskRequests' \in Seq(Requests),
           \A x : Contains(pendingTaskRequests, x) => Contains(pendingTaskRequests', x),
           UNCHANGED <<pendingTaskOffers, tasks, settingsSent, startTask>>
    PROVE  BrokerInv'
<1>1. TypeOK /\ RunnerTypeOK /\ Distinct(pendingTaskOffers)
    BY DEF BrokerInv, TypeOK
<1>2. UNCHANGED <<up, connection, canSendOffers, openOffers, runningTasks, taskTimer, code>>
    BY DEF BrokerReceives
<1>3. /\ Known(s)
      /\ toBroker' \in [Runners -> Seq(ToBroker)]
      /\ \A r \in Runners : r # s => toBroker'[r] = toBroker[r]
      /\ Drops(toBroker[s], toBroker'[s], p, type)
      /\ \A x : x # p => Adds(toBroker[s], toBroker'[s], x, {})
    BY <1>1, MessageOfRunner
<1>4. /\ accepting' \in [Tasks -> Requests \cup {None}]
      /\ \A t \in Tasks : /\ accepting'[t] \in {accepting[t], None}
                          /\ t # <<s, p>> => accepting'[t] = accepting[t]
    <2>1. accepting \in [Tasks -> Requests \cup {None}] /\ <<s, p>> \in Tasks
        BY <1>1 DEF TypeOK, Tasks
    <2>2. CASE accepting' = accepting
        BY <2>1, <2>2
    <2>3. CASE accepting' = [accepting EXCEPT ![<<s, p>>] = None]
        BY <2>1, <2>3
    <2> QED BY <2>2, <2>3
<1>5. PICK types \in SUBSET {"taskdataresponse"} :
      /\ toRunner' \in [Runners -> Seq(ToRunner)]
      /\ \A r \in Runners : r # s => toRunner'[r] = toRunner[r]
      /\ Adds(toRunner[s], toRunner'[s], p, types)
      /\ \A x : x # p => Adds(toRunner[s], toRunner'[s], x, {})
    <2>1. CASE toRunner' = toRunner
        <3>1. toRunner' \in [Runners -> Seq(ToRunner)]
              /\ \A x : Adds(toRunner[s], toRunner'[s], x, {})
            BY <1>1, <2>1, NothingAdded DEF RunnerTypeOK
        <3>2. {} \in SUBSET {"taskdataresponse"}
            OBVIOUS
        <3> QED BY <2>1, <3>1, <3>2
    <2>2. CASE Deliver(s, <<<<"taskdataresponse", p>>>>)
        <3>1. <<"taskdataresponse", p>> \in ToRunner
            BY DEF ToRunner
        <3> DEFINE types == IF s \in up THEN {"taskdataresponse"} ELSE {}
        <3>2. types \in SUBSET {"taskdataresponse"}
            OBVIOUS
        <3>3. /\ toRunner' \in [Runners -> Seq(ToRunner)]
              /\ \A r \in Runners : r # s => toRunner'[r] = toRunner[r]
              /\ Adds(toRunner[s], toRunner'[s], p, types)
              /\ \A x : x # p => Adds(toRunner[s], toRunner'[s], x, {})
            BY <1>1, <2>2, <3>1, DeliversOne
        <3> HIDE DEF types
        <3> QED BY <3>2, <3>3
    <2> QED BY <2>1, <2>2
<1>6. ASSUME NEW r \in Runners, NEW o \in OfferIds PROVE TaskInv(r, o)'
    <2>1. TaskInv(r, o) /\ <<r, o>> \in Tasks
        BY DEF BrokerInv, Tasks
    <2>2. (Known(r)' <=> Known(r)) /\ (Pending(r, o)' <=> Pending(r, o))
        BY <1>2 DEF Known, Pending
    <2>3. CASE r = s /\ o = p
        <3>1. accepting'[<<r, o>>] \in {accepting[<<r, o>>], None}
            BY <1>4, <2>1
        <3> QED BY <1>2, <1>3, <1>5, <2>1, <2>3, <3>1, OtherReceived
    <2>4. CASE ~(r = s /\ o = p)
        <3>1. Adds(toRunner[r], toRunner'[r], o, {}) /\ Adds(toBroker[r], toBroker'[r], o, {})
            BY <1>3, <1>5, <2>4, NothingAdded
        <3>2. ~Known(r) => toBroker'[r] = toBroker[r]
            BY <1>3
        <3> QED BY <1>2, <1>4, <2>1, <2>2, <3>1, <3>2, SameForBroker
    <2> QED BY <2>3, <2>4
<1>7. TypeOK'
    <2>1. RunnerTypeOK'
        BY <1>1, <1>2, <1>3, <1>5 DEF RunnerTypeOK
    <2> QED BY <1>1, <1>4, <2>1 DEF TypeOK
<1>8. Calls'
    BY SameCalls DEF BrokerInv, WaitingCallsHaveAnAnswerer
<1>9. Distinct(pendingTaskOffers')
    BY <1>1
<1> QED BY <1>6, <1>7, <1>8, <1>9, BrokerInvParts

LEMMA RejectStep ==
    ASSUME BrokerInv, NEW s \in Runners, NEW p \in OfferIds, handleRunnerReject(s, p)
    PROVE  BrokerInv'
<1>1. requestTimer \subseteq Requests /\ pendingTaskRequests \in Seq(Requests)
    BY DEF BrokerInv, TypeOK
<1>2. BrokerReceives(s, "taskrejected", p)
    BY DEF handleRunnerReject
<1>3. CASE AcceptFails(<<s, p>>)
    BY <1>1, <1>2, <1>3, OtherMessageStep DEF AcceptFails
<1>4. CASE UNCHANGED <<toRunner, brokerVars>>
    BY <1>1, <1>2, <1>4, OtherMessageStep DEF brokerVars
<1> QED BY <1>3, <1>4 DEF handleRunnerReject

\* A deferred request is pushed again and keeps a timer.
LEMMA DeferredStep ==
    ASSUME BrokerInv, NEW s \in Runners, NEW p \in OfferIds, handleRunnerDeferred(s, p)
    PROVE  BrokerInv'
<1>1. /\ requestTimer \subseteq Requests /\ pendingTaskRequests \in Seq(Requests)
      /\ accepting \in [Tasks -> Requests \cup {None}] /\ <<s, p>> \in Tasks
    BY DEF BrokerInv, TypeOK, Tasks
<1>2. BrokerReceives(s, "taskdeferred", p) /\ toRunner' = toRunner
    BY DEF handleRunnerDeferred
<1> DEFINE q == accepting[<<s, p>>]
<1>3. CASE q = None /\ UNCHANGED brokerVars
    BY <1>1, <1>2, <1>3, OtherMessageStep DEF brokerVars
<1>4. CASE /\ q # None
           /\ accepting' = [accepting EXCEPT ![<<s, p>>] = None]
           /\ acceptInProgress' = acceptInProgress \ {q}
           /\ requestTimer' = TimerRestarted(q)
           /\ pendingTaskRequests' = Append(pendingTaskRequests, q)
           /\ UNCHANGED <<pendingTaskOffers, tasks, settingsSent, startTask>>
    <2>1. q \in Requests
        BY <1>1, <1>4
    <2>2. /\ pendingTaskRequests' \in Seq(Requests)
          /\ \A x : Contains(pendingTaskRequests, x) => Contains(pendingTaskRequests', x)
        BY <1>1, <1>4, <2>1, AppendedIsContained
    <2>3. requestTimer \subseteq requestTimer' /\ requestTimer' \subseteq Requests
        BY <1>1, <1>4, <2>1 DEF TimerRestarted
    <2> QED BY <1>2, <1>4, <2>2, <2>3, OtherMessageStep
<1> QED BY <1>3, <1>4 DEF handleRunnerDeferred

LEMMA DataRequestStep ==
    ASSUME BrokerInv, NEW s \in Runners, NEW p \in OfferIds, handleDataRequest(s, p)
    PROVE  BrokerInv'
<1>1. requestTimer \subseteq Requests /\ pendingTaskRequests \in Seq(Requests)
    BY DEF BrokerInv, TypeOK
<1>2. /\ BrokerReceives(s, "taskdatarequest", p) /\ UNCHANGED brokerVars
      /\ toRunner' = toRunner \/ Deliver(s, <<<<"taskdataresponse", p>>>>)
    BY DEF handleDataRequest
<1> QED BY <1>1, <1>2, OtherMessageStep DEF brokerVars

\* The result of a task: who does not wait for it hears nothing.
LEMMA TaskEndStep ==
    ASSUME BrokerInv, NEW s \in Runners, NEW p \in OfferIds, NEW type \in Results,
           NEW answer \in Answers, TaskEndHandler(s, p, type, answer)
    PROVE  BrokerInv'
<1>1. TypeOK /\ RunnerTypeOK /\ Distinct(pendingTaskOffers) /\ <<s, p>> \in Tasks
      /\ WaitingCallsHaveAnAnswerer /\ startTask \in [Requests -> CallState]
    BY DEF BrokerInv, TypeOK, Tasks
<1>2. /\ BrokerReceives(s, type, p)
      /\ DeleteTasks({<<s, p>>})
      /\ UNCHANGED <<toRunner, pendingTaskOffers, pendingTaskRequests,
                     acceptInProgress, requestTimer, accepting>>
      /\ UNCHANGED <<up, connection, canSendOffers, openOffers, runningTasks, taskTimer, code>>
    BY DEF TaskEndHandler, BrokerReceives
<1>3. startTask' = SettleCalls({<<s, p>>}, answer)
    <2>1. CASE tasks[<<s, p>>] # None
        BY <2>1 DEF TaskEndHandler
    <2>2. CASE tasks[<<s, p>>] = None
        <3>1. \A q \in Requests : startTask[q].task # <<s, p>>
            <4> SUFFICES ASSUME NEW q \in Requests, startTask[q].task = <<s, p>> PROVE FALSE
                OBVIOUS
            <4>1. startTask[q] \in CallState
                BY <1>1
            <4>2. startTask[q].state = "waiting"
                BY <1>1, <4>1, NoneAssumption DEF CallState
            <4> QED BY <1>1, <2>2, <4>2 DEF WaitingCallsHaveAnAnswerer, TypeOK
        <3>2. SettleCalls({<<s, p>>}, answer) = [q \in Requests |-> startTask[q]]
            BY <3>1 DEF SettleCalls
        <3> QED BY <1>1, <2>2, <3>2 DEF TaskEndHandler
    <2> QED BY <2>1, <2>2
<1>4. /\ tasks' \in [Tasks -> Requests \cup {None}]
      /\ settingsSent' \subseteq {t \in Tasks : tasks'[t] # None}
      /\ startTask' \in [Requests -> CallState]
      /\ Calls'
    <2>1. {<<s, p>>} \in SUBSET Tasks
        BY <1>1
    <2> QED BY <1>2, <1>3, <2>1, CallsSettled
<1>5. /\ \A t \in Tasks : tasks'[t] = IF t = <<s, p>> THEN None ELSE tasks[t]
      /\ settingsSent' = settingsSent \ {<<s, p>>}
    BY <1>2 DEF DeleteTasks
<1>6. /\ Known(s) /\ type \in ToB(s, p)
      /\ toBroker' \in [Runners -> Seq(ToBroker)]
      /\ \A r \in Runners : r # s => toBroker'[r] = toBroker[r]
      /\ Drops(toBroker[s], toBroker'[s], p, type)
      /\ \A x : x # p => Adds(toBroker[s], toBroker'[s], x, {})
    BY <1>1, <1>2, MessageOfRunner DEF ToB
<1>7. ASSUME NEW r \in Runners, NEW o \in OfferIds PROVE TaskInv(r, o)'
    <2>1. TaskInv(r, o) /\ <<r, o>> \in Tasks
        BY DEF BrokerInv, Tasks
    <2>2. CASE r = s /\ o = p
        <3>1. tasks'[<<r, o>>] = None /\ <<r, o>> \notin settingsSent'
            BY <1>5, <2>1, <2>2
        <3> QED BY <1>2, <1>6, <2>1, <2>2, <3>1, ResultReceived
    <2>3. CASE ~(r = s /\ o = p)
        <3>1. tasks'[<<r, o>>] = tasks[<<r, o>>] /\ (<<r, o>> \in settingsSent'
              => <<r, o>> \in settingsSent)
            BY <1>5, <2>1, <2>3
        <3>2. Adds(toRunner[r], toRunner'[r], o, {}) /\ Adds(toBroker[r], toBroker'[r], o, {})
            BY <1>2, <1>6, <2>3, NothingAdded
        <3>3. (Known(r)' <=> Known(r)) /\ (Pending(r, o)' <=> Pending(r, o))
              /\ (~Known(r) => toBroker'[r] = toBroker[r])
            BY <1>2, <1>6 DEF Known, Pending
        <3> QED BY <1>2, <3>1, <3>2, <3>3, SameForBroker
    <2> QED BY <2>2, <2>3
<1>8. TypeOK'
    <2>1. RunnerTypeOK'
        BY <1>1, <1>2, <1>6 DEF RunnerTypeOK
    <2> QED BY <1>1, <1>2, <1>4, <2>1 DEF TypeOK
<1>9. Distinct(pendingTaskOffers')
    BY <1>1, <1>2
<1> QED BY <1>4, <1>7, <1>8, <1>9, BrokerInvParts

\* The acceptance of an offer: what the broker does with the task.
LEMMA AcceptanceStep ==
    ASSUME BrokerInv, NEW s \in Runners, NEW p \in OfferIds,
           BrokerReceives(s, "taskaccepted", p),
           accepting'[<<s, p>>] = None,
           accepting' \in [Tasks -> Requests \cup {None}],
           \A t \in Tasks : t # <<s, p>> => accepting'[t] = accepting[t],
           NEW types \in SUBSET {"tasksettings", "taskcancel"},
           \/ types = {} /\ toRunner' = toRunner
           \/ types = {"tasksettings"} /\ Deliver(s, <<<<"tasksettings", p>>>>)
           \/ types = {"taskcancel"} /\ Deliver(s, <<<<"taskcancel", p>>>>),
           NEW q \in Requests \cup {None}, tasks' = [tasks EXCEPT ![<<s, p>>] = q],
           "taskcancel" \in types => q = None,
           settingsSent' = settingsSent \/ settingsSent' = settingsSent \cup {<<s, p>>},
           settingsSent' # settingsSent => q # None /\ "tasksettings" \in types,
           acceptInProgress' = acceptInProgress, requestTimer' \subseteq Requests,
           pendingTaskRequests' \in Seq(Requests), pendingTaskOffers' = pendingTaskOffers,
           startTask' \in [Requests -> CallState], Calls'
    PROVE  BrokerInv'
<1>1. TypeOK /\ RunnerTypeOK /\ Distinct(pendingTaskOffers) /\ <<s, p>> \in Tasks
      /\ TaskInv(s, p)
    BY DEF BrokerInv, TypeOK, Tasks
<1>2. UNCHANGED <<up, connection, canSendOffers, openOffers, runningTasks, taskTimer, code>>
    BY DEF BrokerReceives
<1>3. /\ Known(s) /\ "taskaccepted" \in ToB(s, p)
      /\ toBroker' \in [Runners -> Seq(ToBroker)]
      /\ \A r \in Runners : r # s => toBroker'[r] = toBroker[r]
      /\ Drops(toBroker[s], toBroker'[s], p, "taskaccepted")
      /\ \A x : x # p => Adds(toBroker[s], toBroker'[s], x, {})
    BY <1>1, MessageOfRunner DEF ToB
<1>4. tasks[<<s, p>>] = None /\ <<s, p>> \notin settingsSent
    BY <1>1, <1>3 DEF TaskInv, Records, OfferStage, TypeOK
<1>5. /\ tasks' \in [Tasks -> Requests \cup {None}] /\ tasks'[<<s, p>>] = q
      /\ \A t \in Tasks : t # <<s, p>> => tasks'[t] = tasks[t]
    BY <1>1 DEF TypeOK
<1>6. /\ toRunner' \in [Runners -> Seq(ToRunner)]
      /\ \A r \in Runners : r # s => toRunner'[r] = toRunner[r]
      /\ Adds(toRunner[s], toRunner'[s], p, IF s \in up THEN types ELSE {})
      /\ \A x : x # p => Adds(toRunner[s], toRunner'[s], x, {})
    <2>1. <<"tasksettings", p>> \in ToRunner /\ <<"taskcancel", p>> \in ToRunner
        BY DEF ToRunner
    <2>2. CASE types = {} /\ toRunner' = toRunner
        <3>1. toRunner' \in [Runners -> Seq(ToRunner)]
              /\ \A x : Adds(toRunner[s], toRunner'[s], x, {})
            BY <1>1, <2>2, NothingAdded DEF RunnerTypeOK
        <3>2. (IF s \in up THEN types ELSE {}) = {}
            BY <2>2
        <3> QED BY <2>2, <3>1, <3>2
    <2>3. CASE types = {"tasksettings"} /\ Deliver(s, <<<<"tasksettings", p>>>>)
        BY <1>1, <2>1, <2>3, DeliversOne
    <2>4. CASE types = {"taskcancel"} /\ Deliver(s, <<<<"taskcancel", p>>>>)
        BY <1>1, <2>1, <2>4, DeliversOne
    <2> QED BY <2>2, <2>3, <2>4
<1>7. ASSUME NEW r \in Runners, NEW o \in OfferIds PROVE TaskInv(r, o)'
    <2>1. TaskInv(r, o) /\ <<r, o>> \in Tasks
        BY DEF BrokerInv, Tasks
    <2>2. CASE r = s /\ o = p
        <3>1. "taskcancel" \in types => tasks'[<<r, o>>] = None
            BY <1>5, <2>2
        <3>2. <<r, o>> \in settingsSent' => "tasksettings" \in types
            BY <1>4, <2>2
        <3> QED BY <1>1, <1>2, <1>3, <1>6, <2>1, <2>2, <3>1, <3>2, AcceptanceReceived
    <2>3. CASE ~(r = s /\ o = p)
        <3>1. /\ tasks'[<<r, o>>] = tasks[<<r, o>>]
                    /\ accepting'[<<r, o>>] = accepting[<<r, o>>]
              /\ <<r, o>> \in settingsSent' => <<r, o>> \in settingsSent
            BY <1>5, <2>1, <2>3
        <3>2. Adds(toRunner[r], toRunner'[r], o, {}) /\ Adds(toBroker[r], toBroker'[r], o, {})
            BY <1>3, <1>6, <2>3, NothingAdded
        <3>3. (Known(r)' <=> Known(r)) /\ (Pending(r, o)' <=> Pending(r, o))
              /\ (~Known(r) => toBroker'[r] = toBroker[r])
            BY <1>2, <1>3 DEF Known, Pending
        <3> QED BY <1>2, <3>1, <3>2, <3>3, SameForBroker
    <2> QED BY <2>2, <2>3
<1>8. TypeOK'
    <2>1. RunnerTypeOK'
        BY <1>1, <1>2, <1>3, <1>6 DEF RunnerTypeOK
    <2>2. settingsSent' \subseteq {t \in Tasks : tasks'[t] # None}
        BY <1>1, <1>4, <1>5 DEF TypeOK
    <2> QED BY <1>1, <1>5, <2>1, <2>2 DEF TypeOK
<1>9. Distinct(pendingTaskOffers')
    BY <1>1
<1> QED BY <1>7, <1>8, <1>9, BrokerInvParts

\* acceptOffer goes on, in each of its four ways.
LEMMA RunnerAcceptStep ==
    ASSUME BrokerInv, NEW s \in Runners, NEW p \in OfferIds, handleRunnerAccept(s, p)
    PROVE  BrokerInv'
<1> DEFINE t == <<s, p>>
           q == accepting[t]
<1>1. /\ TypeOK /\ RunnerTypeOK /\ t \in Tasks /\ TaskInv(s, p)
      /\ WaitingCallsHaveAnAnswerer /\ OneTaskPerCall
      /\ accepting \in [Tasks -> Requests \cup {None}]
            /\ tasks \in [Tasks -> Requests \cup {None}]
      /\ startTask \in [Requests -> CallState] /\ pendingTaskRequests \in Seq(Requests)
      /\ requestTimer \subseteq Requests
    BY DEF BrokerInv, TypeOK, Tasks
<1>2. BrokerReceives(s, "taskaccepted", p)
    BY DEF handleRunnerAccept
<1>3. "taskaccepted" \in ToB(s, p)
    BY <1>1, <1>2, MessageOfRunner DEF ToB
<1>4. tasks[t] = None /\ t \notin settingsSent
    BY <1>1, <1>3 DEF TaskInv, Records, OfferStage, TypeOK
<1>5. [tasks EXCEPT ![t] = None] = tasks
    BY <1>1, <1>4
<1>6. CASE q = None /\ UNCHANGED <<toRunner, brokerVars>>
    <2>1. Calls'
        BY <1>6, SameCalls DEF brokerVars, BrokerInv, WaitingCallsHaveAnAnswerer
    <2>2. {} \in SUBSET {"tasksettings", "taskcancel"} /\ None \in Requests \cup {None}
        OBVIOUS
    <2> QED BY <1>1, <1>2, <1>5, <1>6, <2>1, <2>2, AcceptanceStep DEF brokerVars
<1>7. CASE /\ q # None
           /\ accepting' = [accepting EXCEPT ![t] = None]
           /\ requestTimer' = requestTimer \ {q}
           /\ UNCHANGED <<pendingTaskOffers, acceptInProgress>>
           /\ \/ /\ ~Contains(pendingTaskRequests, q)
                 /\ tasks' = [tasks EXCEPT ![t] = q]
                 /\ UNCHANGED <<pendingTaskRequests, settingsSent, startTask, toRunner>>
              \/ /\ Contains(pendingTaskRequests, q)
                 /\ pendingTaskRequests' = WithoutRequest(q)
                 /\ IF TaskReady(q)
                    THEN /\ tasks' = [tasks EXCEPT ![t] = q]
                         /\ settingsSent' = settingsSent \cup {t}
                         /\ startTask' = [startTask EXCEPT ![q] = Waiting(t)]
                         /\ Deliver(s, <<<<"tasksettings", p>>>>)
                    ELSE /\ Deliver(s, <<<<"taskcancel", p>>>>)
                         /\ UNCHANGED <<tasks, settingsSent, startTask>>
    <2>1. q \in Requests
        BY <1>1, <1>7
    <2>2. /\ accepting'[t] = None /\ accepting' \in [Tasks -> Requests \cup {None}]
          /\ \A u \in Tasks : u # t => accepting'[u] = accepting[u]
          /\ requestTimer' \subseteq Requests
        BY <1>1, <1>7
    <2>3. \A x \in Requests : startTask[x].state = "requested" /\ x # q =>
                Contains(pendingTaskRequests, x) /\ x \in requestTimer'
        BY <1>1, <1>7 DEF WaitingCallsHaveAnAnswerer
    <2>4. CASE /\ ~Contains(pendingTaskRequests, q)
               /\ tasks' = [tasks EXCEPT ![t] = q]
               /\ UNCHANGED <<pendingTaskRequests, settingsSent, startTask, toRunner>>
        <3>1. startTask[q].state # "requested"
            BY <1>1, <2>1, <2>4 DEF WaitingCallsHaveAnAnswerer
        <3>2. \A u \in settingsSent : u \in Tasks /\ tasks'[u] = tasks[u]
            BY <1>1, <1>4, <2>4 DEF TypeOK
        <3>3. Calls'
            BY <1>1, <2>3, <2>4, <3>1, <3>2 DEF Calls, WaitingCallsHaveAnAnswerer,
                OneTaskPerCall
        <3>4. {} \in SUBSET {"tasksettings", "taskcancel"}
            OBVIOUS
        <3> QED BY <1>1, <1>2, <1>7, <2>1, <2>2, <2>4, <3>3, <3>4, AcceptanceStep
    <2>5. CASE Contains(pendingTaskRequests, q) /\ pendingTaskRequests' = WithoutRequest(q)
        <3>1. /\ pendingTaskRequests' \in Seq(Requests)
              /\ \A x \in Requests : x # q =>
                    (Contains(pendingTaskRequests', x) <=> Contains(pendingTaskRequests, x))
            BY <1>1, <2>5, WithoutRequestLemma DEF WithoutRequest
        <3>2. CASE TaskReady(q)
            <4>1. /\ tasks' = [tasks EXCEPT ![t] = q]
                  /\ settingsSent' = settingsSent \cup {t}
                  /\ startTask' = [startTask EXCEPT ![q] = Waiting(t)]
                  /\ Deliver(s, <<<<"tasksettings", p>>>>)
                BY <1>7, <2>5, <3>2
            <4>2. startTask[q].state = "requested"
                BY <3>2 DEF TaskReady
            <4>3. /\ Waiting(t) \in CallState /\ Waiting(t).state = "waiting"
                        /\ Waiting(t).task = t
                  /\ \A u : Waiting(u).state = "waiting"
                BY <1>1 DEF Waiting, CallState
            <4>4. /\ startTask' \in [Requests -> CallState] /\ startTask'[q] = Waiting(t)
                  /\ \A x \in Requests : x # q => startTask'[x] = startTask[x]
                BY <1>1, <2>1, <4>1, <4>3
            <4>5. tasks'[t] = q /\ \A u \in settingsSent : u \in Tasks /\ tasks'[u] = tasks[u]
                BY <1>1, <1>4, <4>1 DEF TypeOK
            <4>6. WaitingCallsHaveAnAnswerer'
                <5>1. ASSUME NEW x \in Requests
                      PROVE  /\ startTask'[x].state = "requested" =>
                                    Contains(pendingTaskRequests', x) /\ x \in requestTimer'
                             /\ startTask'[x].state = "waiting" =>
                                    startTask'[x].task \in settingsSent'
                                    /\ tasks'[startTask'[x].task] = x
                    <6>1. CASE x = q
                        BY <4>1, <4>3, <4>4, <4>5, <6>1
                    <6>2. CASE x # q
                        BY <1>1, <2>3, <3>1, <4>1, <4>4, <4>5,
                            <6>2 DEF WaitingCallsHaveAnAnswerer
                    <6> QED BY <6>1, <6>2
                <5> QED BY <5>1 DEF WaitingCallsHaveAnAnswerer
            <4>7. OneTaskPerCall'
                <5>1. ASSUME NEW u \in settingsSent' PROVE startTask'[tasks'[u]] = Waiting(u)
                    <6>1. CASE u = t
                        BY <4>4, <4>5, <6>1
                    <6>2. CASE u # t
                        <7>1. u \in settingsSent /\ tasks[u] \in Requests
                              /\ startTask[tasks[u]] = Waiting(u)
                            BY <1>1, <4>1, <6>2 DEF TypeOK, OneTaskPerCall
                        <7>2. tasks[u] # q
                            BY <4>2, <4>3, <7>1
                        <7> QED BY <4>4, <4>5, <7>1, <7>2
                    <6> QED BY <6>1, <6>2
                <5> QED BY <5>1 DEF OneTaskPerCall
            <4>8. {"tasksettings"} \in SUBSET {"tasksettings", "taskcancel"}
                OBVIOUS
            <4>9. Calls' /\ "taskcancel" \notin {"tasksettings"}
                  /\ "tasksettings" \in {"tasksettings"}
                BY <4>6, <4>7 DEF Calls
            <4> QED BY <1>1, <1>2, <1>7, <2>1, <2>2, <3>1, <4>1, <4>4, <4>8, <4>9,
                AcceptanceStep
        <3>3. CASE ~TaskReady(q)
            <4>1. Deliver(s, <<<<"taskcancel", p>>>>) /\ UNCHANGED <<tasks, settingsSent,
                                                                     startTask>>
                BY <1>7, <2>5, <3>3
            <4>2. startTask[q].state # "requested"
                BY <3>3 DEF TaskReady
            <4>3. Calls'
                BY <2>3, <3>1, <4>1, <4>2, SameCalls
            <4>4. {"taskcancel"} \in SUBSET {"tasksettings", "taskcancel"}
                  /\ None \in Requests \cup {None}
                OBVIOUS
            <4> QED BY <1>1, <1>2, <1>5, <1>7, <2>2, <3>1, <4>1, <4>3, <4>4, AcceptanceStep
        <3> QED BY <3>2, <3>3
    <2> QED BY <1>7, <2>4, <2>5
<1> QED BY <1>6, <1>7 DEF handleRunnerAccept

\* A step of the connection of one runner.
LEMMA RegisterStep ==
    ASSUME BrokerInv, NEW s \in Runners, registerRunner(s)
    PROVE  BrokerInv'
<1>1. TypeOK /\ RunnerTypeOK /\ Distinct(pendingTaskOffers)
    BY DEF BrokerInv, TypeOK
<1>2. /\ connection' = [connection EXCEPT ![s] = "open"] /\ connection[s] = "none"
      /\ Deliver(s, <<<<"runnerregistered", 0>>>>)
      /\ UNCHANGED <<up, canSendOffers, openOffers, runningTasks, taskTimer, code, toBroker>>
      /\ UNCHANGED brokerVars
    BY DEF registerRunner
<1>3. <<"runnerregistered", 0>> \in ToRunner
    BY DEF ToRunner
<1>4. /\ toRunner' \in [Runners -> Seq(ToRunner)]
      /\ \A r \in Runners : r # s => toRunner'[r] = toRunner[r]
      /\ \A x : x # 0 => Adds(toRunner[s], toRunner'[s], x, {})
    BY <1>1, <1>2, <1>3, DeliversOne
<1>5. /\ connection' \in [Runners -> ConnectionState] /\ connection'[s] = "open"
      /\ \A r \in Runners : r # s => connection'[r] = connection[r]
    BY <1>1, <1>2 DEF RunnerTypeOK, ConnectionState
<1>6. ASSUME NEW r \in Runners, NEW o \in OfferIds PROVE TaskInv(r, o)'
    <2>1. TaskInv(r, o) /\ o # 0
        BY OfferIdsAssumption DEF BrokerInv
    <2>2. Adds(toRunner[r], toRunner'[r], o, {}) /\ Adds(toBroker[r], toBroker'[r], o, {})
        BY <1>2, <1>4, <2>1, NothingAdded
    <2>3. Pending(r, o)' <=> Pending(r, o)
        BY <1>2 DEF Pending, brokerVars
    <2>4. CASE r # s
        <3>1. Known(r)' <=> Known(r)
            BY <1>5, <2>4 DEF Known
        <3> QED BY <1>2, <2>2, <2>3, <3>1, SameForBroker DEF brokerVars
    <2>5. CASE r = s
        <3>1. /\ ToB(r, o)' = ToB(r, o) /\ ToR(r, o)' = ToR(r, o) /\ Known(r)'
              /\ OfferChannel(toBroker'[r], o) /\ AcceptChannel(toRunner'[r], o)
            BY <1>5, <2>1, <2>2, <2>5 DEF Adds, ToB, ToR, Known, TaskInv, OnePlace
        <3>2. OnePlace(r, o)'
            BY <2>1, <2>3, <3>1 DEF TaskInv, OnePlace
        <3>3. Records(r, o)'
            BY <1>2, <2>1, <2>3, <3>1 DEF TaskInv, Records, brokerVars
        <3>4. Status(r, o)'
            BY <1>2, <2>1, <3>1 DEF TaskInv, Status, brokerVars
        <3> QED BY <3>2, <3>3, <3>4 DEF TaskInv
    <2> QED BY <2>4, <2>5
<1>7. TypeOK'
    <2>1. RunnerTypeOK'
        BY <1>1, <1>2, <1>4, <1>5 DEF RunnerTypeOK
    <2> QED BY <1>1, <1>2, <2>1 DEF TypeOK, brokerVars
<1>8. Calls' /\ Distinct(pendingTaskOffers')
    BY <1>1, <1>2, SameCalls DEF brokerVars, BrokerInv, WaitingCallsHaveAnAnswerer
<1> QED BY <1>6, <1>7, <1>8, BrokerInvParts

\* A runner that is gone, or does not answer a ping.
LEMMA ConnectionClosesStep ==
    ASSUME BrokerInv, NEW s \in Runners, ConnectionCloses(s) \/ FailedHeartbeatCheck(s)
    PROVE  BrokerInv'
<1>1. TypeOK /\ RunnerTypeOK /\ Distinct(pendingTaskOffers)
    BY DEF BrokerInv, TypeOK
<1>2. /\ connection' = [connection EXCEPT ![s] = "closing"] /\ connection[s] = "open"
      /\ UNCHANGED <<up, canSendOffers, openOffers, runningTasks, taskTimer, code, toRunner>>
      /\ UNCHANGED brokerVars
      /\ \/ s \notin up /\ toBroker' = [toBroker EXCEPT ![s] = <<>>]
         \/ toBroker' = toBroker
    BY DEF ConnectionCloses, FailedHeartbeatCheck
<1>3. /\ toBroker' \in [Runners -> Seq(ToBroker)]
      /\ \A r \in Runners : r # s => toBroker'[r] = toBroker[r]
      /\ toBroker'[s] = toBroker[s] \/ (s \notin up /\ toBroker'[s] = <<>>)
    <2>1. toBroker \in [Runners -> Seq(ToBroker)] /\ <<>> \in Seq(ToBroker)
        BY <1>1 DEF RunnerTypeOK
    <2>2. CASE toBroker' = toBroker
        BY <2>1, <2>2
    <2>3. CASE s \notin up /\ toBroker' = [toBroker EXCEPT ![s] = <<>>]
        BY <2>1, <2>3
    <2> QED BY <1>2, <2>2, <2>3
<1>4. /\ connection' \in [Runners -> ConnectionState]
      /\ \A r \in Runners : Known(r)' <=> Known(r)
    BY <1>1, <1>2 DEF RunnerTypeOK, ConnectionState, Known
<1>5. ASSUME NEW r \in Runners, NEW o \in OfferIds PROVE TaskInv(r, o)'
    <2>1. TaskInv(r, o) /\ (Pending(r, o)' <=> Pending(r, o)) /\ (Known(r)' <=> Known(r))
        BY <1>2, <1>4 DEF BrokerInv, brokerVars, Pending
    <2>2. CASE toBroker'[r] = toBroker[r]
        BY <1>2, <2>1, <2>2, SameForBroker, NothingAdded DEF brokerVars
    <2>3. CASE r \notin up /\ toBroker'[r] = <<>>
        <3>1. ToB(r, o)' = {} /\ OfferChannel(toBroker'[r], o) /\ ToR(r, o)' = ToR(r, o)
            BY <1>2, <2>3, EmptyChannel DEF ToB, ToR
        <3>2. OnePlace(r, o)'
            BY <1>2, <2>1, <3>1 DEF TaskInv, OnePlace
        <3>3. Records(r, o)'
            BY <1>2, <2>1, <2>3, <3>1 DEF TaskInv, Records, brokerVars
        <3>4. Status(r, o)'
            BY <1>2, <2>1, <2>3, <3>1 DEF TaskInv, Status, brokerVars
        <3> QED BY <3>2, <3>3, <3>4 DEF TaskInv
    <2> QED BY <1>3, <2>2, <2>3
<1>6. TypeOK'
    <2>1. RunnerTypeOK'
        BY <1>1, <1>2, <1>3, <1>4 DEF RunnerTypeOK
    <2> QED BY <1>1, <1>2, <2>1 DEF TypeOK, brokerVars
<1>7. Calls' /\ Distinct(pendingTaskOffers')
    BY <1>1, <1>2, SameCalls DEF brokerVars, BrokerInv, WaitingCallsHaveAnAnswerer
<1> QED BY <1>5, <1>6, <1>7, BrokerInvParts

\* The runner's offers and tasks are dropped, and their calls answered.
LEMMA DeregisterStep ==
    ASSUME BrokerInv, NEW s \in Runners, deregisterRunner(s)
    PROVE  BrokerInv'
<1>1. TypeOK /\ RunnerTypeOK /\ Distinct(pendingTaskOffers) /\ pendingTaskOffers \in Seq(Tasks)
    BY DEF BrokerInv, TypeOK
<1> DEFINE K == {i \in DOMAIN pendingTaskOffers : pendingTaskOffers[i][1] # s}
<1>2. /\ connection' = [connection EXCEPT ![s] = "closed"]
      /\ toBroker' = [toBroker EXCEPT ![s] = <<>>]
      /\ pendingTaskOffers' = At(pendingTaskOffers, K)
      /\ DeleteTasks(TasksOf(s))
      /\ startTask' = SettleCalls(TasksOf(s), "failed")
      /\ Deliver(s, <<<<"close", 0>>>>)
      /\ UNCHANGED <<up, canSendOffers, openOffers, runningTasks, taskTimer, code,
                     pendingTaskRequests, acceptInProgress, requestTimer, accepting>>
    BY DEF deregisterRunner
<1>3. /\ pendingTaskOffers' \in Seq(Tasks)
      /\ Distinct(pendingTaskOffers')
      /\ \A r \in Runners, o \in OfferIds : Pending(r, o)' => Pending(r, o) /\ r # s
    <2>1. K \in SUBSET DOMAIN pendingTaskOffers
        OBVIOUS
    <2>2. \A k \in K : k \in DOMAIN pendingTaskOffers /\ pendingTaskOffers[k][1] # s
        OBVIOUS
    <2> HIDE DEF K
    <2>3. /\ At(pendingTaskOffers, K) \in Seq(Tasks)
          /\ \A n \in DOMAIN At(pendingTaskOffers, K) :
                \E k \in K : At(pendingTaskOffers, K)[n] = pendingTaskOffers[k]
          /\ Distinct(At(pendingTaskOffers, K))
        BY <1>1, <2>1, AtLists
    <2>4. ASSUME NEW r \in Runners, NEW o \in OfferIds, Contains(pendingTaskOffers', <<r, o>>)
          PROVE  Contains(pendingTaskOffers, <<r, o>>) /\ r # s
        <3>1. PICK n \in DOMAIN pendingTaskOffers' : pendingTaskOffers'[n] = <<r, o>>
            BY <1>2, <2>3, <2>4, ContainsElement
        <3>2. PICK k \in K : pendingTaskOffers[k] = <<r, o>>
            BY <1>2, <2>3, <3>1
        <3>3. k \in DOMAIN pendingTaskOffers /\ pendingTaskOffers[k][1] # s
            BY <2>2
        <3>4. r # s
            BY <3>2, <3>3
        <3> QED BY <1>1, <3>2, <3>3, <3>4, ContainsElement
    <2> QED BY <1>2, <2>3, <2>4 DEF Pending
<1>4. <<"close", 0>> \in ToRunner
    BY DEF ToRunner
<1>5. /\ toRunner' \in [Runners -> Seq(ToRunner)]
      /\ \A r \in Runners : r # s => toRunner'[r] = toRunner[r]
      /\ \A x : x # 0 => Adds(toRunner[s], toRunner'[s], x, {})
    BY <1>1, <1>2, <1>4, DeliversOne
<1>6. /\ connection' \in [Runners -> ConnectionState]
      /\ \A r \in Runners : r # s => (Known(r)' <=> Known(r)) /\ toBroker'[r] = toBroker[r]
      /\ toBroker'[s] = <<>>
      /\ toBroker' \in [Runners -> Seq(ToBroker)]
    BY <1>1, <1>2 DEF RunnerTypeOK, ConnectionState, Known
<1>7. /\ \A t \in Tasks : tasks'[t] = IF t \in TasksOf(s) THEN None ELSE tasks[t]
      /\ settingsSent' = settingsSent \ TasksOf(s)
    BY <1>2 DEF DeleteTasks
<1>8. /\ tasks' \in [Tasks -> Requests \cup {None}]
      /\ settingsSent' \subseteq {t \in Tasks : tasks'[t] # None}
      /\ startTask' \in [Requests -> CallState]
      /\ Calls'
    <2>1. TasksOf(s) \in SUBSET Tasks /\ "failed" \in Answers
        BY DEF TasksOf, Answers
    <2> QED BY <1>2, <2>1, CallsSettled
<1>9. ASSUME NEW r \in Runners, NEW o \in OfferIds PROVE TaskInv(r, o)'
    <2>1. TaskInv(r, o) /\ o # 0 /\ <<r, o>> \in Tasks
        BY OfferIdsAssumption DEF BrokerInv, Tasks
    <2>2. Adds(toRunner[r], toRunner'[r], o, {})
        BY <1>5, <2>1, NothingAdded
    <2>3. CASE r # s
        <3>1. <<r, o>> \notin TasksOf(s)
            BY <2>3 DEF TasksOf
        <3>2. /\ tasks'[<<r, o>>] = tasks[<<r, o>>] /\ accepting' = accepting
              /\ <<r, o>> \in settingsSent' => <<r, o>> \in settingsSent
            BY <1>2, <1>7, <2>1, <3>1
        <3>3. Adds(toBroker[r], toBroker'[r], o, {}) /\ (Known(r)' <=> Known(r))
              /\ (Pending(r, o)' => Pending(r, o)) /\ toBroker'[r] = toBroker[r]
            BY <1>3, <1>6, <2>3, NothingAdded
        <3> QED BY <1>2, <2>2, <3>2, <3>3, SameForBroker
    <2>4. CASE r = s
        <3>1. <<r, o>> \in TasksOf(s) <=> tasks[<<r, o>>] # None
            BY <2>1, <2>4 DEF TasksOf
        <3>2. tasks'[<<r, o>>] = None
            BY <1>7, <2>1, <3>1
        <3>3. <<r, o>> \notin settingsSent'
            BY <1>8, <3>2
        <3>4. /\ ToB(r, o)' = {} /\ OfferChannel(toBroker'[r], o) /\ toBroker'[r] = <<>>
              /\ ToR(r, o)' = ToR(r, o) /\ AcceptChannel(toRunner'[r], o) /\ ~Pending(r, o)'
            BY <1>3, <1>6, <2>1, <2>2, <2>4, EmptyChannel DEF ToB, ToR, Adds, TaskInv, OnePlace
        <3>5. OnePlace(r, o)'
            BY <3>4 DEF OnePlace
        <3>6. Records(r, o)'
            BY <1>2, <2>1, <3>2, <3>4 DEF TaskInv, Records
        <3>7. Status(r, o)'
            BY <1>2, <2>1, <3>3, <3>4 DEF TaskInv, Status
        <3> QED BY <3>5, <3>6, <3>7 DEF TaskInv
    <2> QED BY <2>3, <2>4
<1>10. TypeOK'
    <2>1. RunnerTypeOK'
        BY <1>1, <1>2, <1>5, <1>6 DEF RunnerTypeOK
    <2> QED BY <1>1, <1>2, <1>3, <1>8, <2>1 DEF TypeOK
<1> QED BY <1>3, <1>8, <1>9, <1>10, BrokerInvParts

-----------------------------------------------------------------------------
(* The specification *)

\* The invariant of the broker holds at first, and every step keeps it.
LEMMA BrokerInit == Init => BrokerInv
<1> SUFFICES ASSUME Init PROVE BrokerInv
    OBVIOUS
<1>1. TypeOK
    <2>1. RunnerTypeOK
        BY DEF Init, RunnerInit, RunnerTypeOK, ConnectionState, TaskStatus, CodeState
    <2>2. startTask \in [Requests -> CallState]
        BY DEF Init, Call, CallState
    <2> QED BY <2>1, <2>2 DEF Init, TypeOK
<1>2. Distinct(pendingTaskOffers)
    BY DEF Init, Distinct
<1>3. ASSUME NEW r \in Runners, NEW o \in OfferIds PROVE TaskInv(r, o)
    <2>1. /\ toBroker[r] = <<>> /\ toRunner[r] = <<>> /\ runningTasks[r][o] = "none"
          /\ code[r][o] = "none" /\ settingsSent = {} /\ pendingTaskOffers = <<>>
          /\ <<r, o>> \in Tasks
        BY DEF Init, RunnerInit, Tasks
    <2>2. accepting[<<r, o>>] = None /\ tasks[<<r, o>>] = None
        BY <2>1 DEF Init
    <2>3. /\ ToB(r, o) = {} /\ ToR(r, o) = {}
          /\ OfferChannel(toBroker[r], o) /\ AcceptChannel(toRunner[r], o)
        BY <2>1, EmptyChannel DEF ToB, ToR
    <2>4. ~Pending(r, o)
        BY <2>1 DEF Pending, Contains
    <2>5. OnePlace(r, o)
        BY <2>3, <2>4 DEF OnePlace
    <2>6. Records(r, o)
        BY <2>1, <2>2, <2>3, <2>4 DEF Records
    <2>7. Status(r, o)
        BY <2>1, <2>3 DEF Status
    <2> QED BY <2>5, <2>6, <2>7 DEF TaskInv
<1>4. WaitingCallsHaveAnAnswerer /\ OneTaskPerCall
    BY DEF Init, WaitingCallsHaveAnAnswerer, OneTaskPerCall, Call
<1> QED BY <1>1, <1>2, <1>3, <1>4 DEF BrokerInv

LEMMA BrokerStep == BrokerInv /\ [Next]_vars => BrokerInv'
<1> SUFFICES ASSUME BrokerInv, [Next]_vars PROVE BrokerInv'
    OBVIOUS
<1>1. CASE UNCHANGED vars
    <2>1. /\ UNCHANGED brokerVars
          /\ UNCHANGED <<up, connection, canSendOffers, openOffers, runningTasks,
                         taskTimer, code, toRunner, toBroker>>
        BY <1>1 DEF vars, runnerVars
    <2>2. \A r \in Runners, o \in OfferIds : TaskInv(r, o)'
        <3>1. \A r \in Runners, o \in OfferIds :
                (Known(r)' <=> Known(r)) /\ (Pending(r, o)' <=> Pending(r, o))
            BY <2>1 DEF Known, Pending, brokerVars
        <3> QED BY <2>1, <3>1, SameForBroker, NothingAdded DEF brokerVars
    <2>3. RunnerTypeOK'
        BY <2>1 DEF BrokerInv, TypeOK, RunnerTypeOK
    <2>4. TypeOK' /\ Calls' /\ Distinct(pendingTaskOffers')
        BY <2>1, <2>3, SameCalls DEF BrokerInv, TypeOK, brokerVars, WaitingCallsHaveAnAnswerer
    <2> QED BY <2>2, <2>4, BrokerInvParts
<1>2. ASSUME NEW q \in Requests, StartTask(q) \/ CancelTasks(q) \/ handleRequestTimeout(q)
      PROVE  BrokerInv'
    BY <1>2, StartTaskStep, CancelTasksStep, RequestTimeoutStep
<1>3. ASSUME NEW t \in Tasks, AcceptTimeout(t) \/ handleTaskTimeout(t) PROVE BrokerInv'
    BY <1>3, AcceptTimeoutStep, TaskTimeoutStep
<1>4. ASSUME NEW r \in Runners, onRunnerMessage(r) PROVE BrokerInv'
    <2>1. "taskdone" \in Results /\ "taskerror" \in Results /\ "done" \in Answers
          /\ "failed" \in Answers
        BY DEF Results, Answers
    <2> QED BY <1>4, <2>1, TaskOfferedStep, RunnerAcceptStep, RejectStep, DeferredStep,
               TaskEndStep, DataRequestStep DEF onRunnerMessage
<1>5. ASSUME NEW r \in Runners, \/ registerRunner(r) \/ ConnectionCloses(r)
                                \/ FailedHeartbeatCheck(r) \/ deregisterRunner(r) \/ RunnerStep(r)
      PROVE  BrokerInv'
    BY <1>5, RegisterStep, ConnectionClosesStep, DeregisterStep, RunnerKeepsInv
<1> QED BY <1>1, <1>2, <1>3, <1>4, <1>5 DEF Next

\* The channels, the offers, the tasks and the calls have the types of the code.
THEOREM BrokerTypeOK == Spec => []TypeOK
<1>1. BrokerInv => TypeOK
    BY DEF BrokerInv
<1> QED BY BrokerInit, BrokerStep, <1>1, PTL DEF Spec

\* However offers, acceptances, expiries, cancellations, timeouts and
\* disconnects interleave, a call that waits has a timer, or a task of its own
\* with a timer, that will answer it.
THEOREM WaitingCallsHaveAnAnswererHolds == Spec => []WaitingCallsHaveAnAnswerer
<1>1. BrokerInv => WaitingCallsHaveAnAnswerer
    BY DEF BrokerInv
<1> QED BY BrokerInit, BrokerStep, <1>1, PTL DEF Spec

\* The channels as the properties of TaskBroker see them.
LEMMA MessagesOfTasks ==
    ASSUME TypeOK, NEW r \in Runners, NEW o \in OfferIds, NEW type
    PROVE  /\ Contains(toRunner[r], <<type, o>>) <=> type \in ToR(r, o)
           /\ Contains(toBroker[r], <<type, o>>) <=> type \in ToB(r, o)
<1> DEFINE S == {"runnerregistered", "close", "taskofferaccept", "taskcancel", "tasksettings",
                 "taskdataresponse", "taskoffer", "taskaccepted", "taskrejected",
                 "taskdeferred", "taskdone", "taskerror", "taskdatarequest"}
           T == OfferIds \cup {0}
<1>1. toRunner[r] \in Seq(ToRunner) /\ toBroker[r] \in Seq(ToBroker)
    BY DEF TypeOK, RunnerTypeOK
<1>2. ToRunner \subseteq S \X T
    <2> SUFFICES ASSUME NEW m \in ToRunner PROVE m \in S \X T
        OBVIOUS
    <2>1. CASE m \in {"runnerregistered", "close"} \X {0}
        BY <2>1
    <2>2. CASE m \in {"taskofferaccept", "taskcancel", "tasksettings",
                   "taskdataresponse"} \X OfferIds
        BY <2>2
    <2> QED BY <2>1, <2>2 DEF ToRunner
<1>4. ToBroker \subseteq S \X T
    BY DEF ToBroker
<1> HIDE DEF S, T
<1>3. toRunner[r] \in Seq(S \X T) /\ toBroker[r] \in Seq(S \X T)
    BY <1>1, <1>2, <1>4
<1> QED BY <1>3, ContainsMessage DEF ToR, ToB

\* No order of the messages between a runner and the broker reaches the states
\* that the runner's code says should never happen.
THEOREM NoUnexpectedStatusHolds == Spec => []NoUnexpectedStatus
<1>1. BrokerInv => NoUnexpectedStatus
    <2> SUFFICES ASSUME BrokerInv, NEW r \in Runners, NEW o \in OfferIds
                 PROVE  /\ Contains(toRunner[r], <<"tasksettings", o>>) =>
                                runningTasks[r][o] \in {"none", "waitingForSettings"}
                        /\ Contains(toRunner[r], <<"taskofferaccept", o>>) =>
                                runningTasks[r][o] = "none"
        BY DEF NoUnexpectedStatus
    <2>1. TypeOK /\ Status(r, o)
        BY DEF BrokerInv, TaskInv
    <2> QED BY <2>1, MessagesOfTasks DEF Status
<1> QED BY BrokerInit, BrokerStep, <1>1, PTL DEF Spec

\* The broker never waits for a task that its runner has forgotten.
THEOREM NoForgottenTaskHolds == Spec => []NoForgottenTask
<1>1. BrokerInv => NoForgottenTask
    <2> SUFFICES ASSUME BrokerInv, NEW t \in settingsSent, t[1] \in up, Known(t[1])
                 PROVE  \/ Contains(toRunner[t[1]], <<"tasksettings", t[2]>>)
                        \/ runningTasks[t[1]][t[2]] \in {"running", "aborting:timeout"}
                        \/ Contains(toBroker[t[1]], <<"taskdone", t[2]>>)
                        \/ Contains(toBroker[t[1]], <<"taskerror", t[2]>>)
        BY DEF NoForgottenTask
    <2>1. TypeOK /\ t \in Tasks
        BY DEF BrokerInv, TypeOK
    <2>2. PICK r \in Runners, o \in OfferIds : t = <<r, o>>
        BY <2>1 DEF Tasks
    <2>3. Status(r, o)
        BY DEF BrokerInv, TaskInv
    <2>4. \/ "tasksettings" \in ToR(r, o)
          \/ runningTasks[r][o] \in {"running", "aborting:timeout"}
          \/ "taskdone" \in ToB(r, o) \/ "taskerror" \in ToB(r, o)
        BY <2>2, <2>3 DEF Status, Results
    <2> QED BY <2>1, <2>2, <2>4, MessagesOfTasks
<1> QED BY BrokerInit, BrokerStep, <1>1, PTL DEF Spec

\* The code of a Code node is handed to a runner at most once for each call,
\* while the call waits for a runner.
THEOREM CodeRunsOncePerCallHolds == Spec => CodeRunsOncePerCall
<1>1. ASSUME BrokerInv, [Next]_vars, NEW t \in settingsSent' \ settingsSent
      PROVE  /\ startTask[tasks'[t]].state = "requested"
             /\ \A u \in settingsSent : tasks[u] # tasks'[t]
    <2>1. PICK r \in Runners, o \in OfferIds : handleRunnerAccept(r, o)
        <3>1. settingsSent' # settingsSent /\ ~(settingsSent' \subseteq settingsSent)
            BY <1>1
        <3>2. ~UNCHANGED brokerVars
            BY <3>1 DEF brokerVars
        <3>3. \A gone : ~DeleteTasks(gone)
            BY <3>1 DEF DeleteTasks
        <3>4. \A q \in Requests : ~StartTask(q) /\ ~CancelTasks(q) /\ ~handleRequestTimeout(q)
            BY <3>1, <3>3 DEF StartTask, CancelTasks, handleRequestTimeout
        <3>5. \A u \in Tasks : ~AcceptFails(u) /\ ~AcceptTimeout(u) /\ ~handleTaskTimeout(u)
            BY <3>1, <3>3 DEF AcceptTimeout, AcceptFails, handleTaskTimeout
        <3>6. \A r \in Runners : /\ ~registerRunner(r) /\ ~ConnectionCloses(r)
                                 /\ ~FailedHeartbeatCheck(r) /\ ~RunnerStep(r)
            BY <3>2 DEF registerRunner, ConnectionCloses, FailedHeartbeatCheck, RunnerStep
        <3>7. \A r \in Runners : ~deregisterRunner(r)
            BY <3>3 DEF deregisterRunner
        <3>8. PICK r \in Runners : onRunnerMessage(r)
            BY <1>1, <3>2, <3>4, <3>5, <3>6, <3>7 DEF Next, vars
        <3>9. \A o \in OfferIds : /\ ~taskOffered(r, o) /\ ~handleDataRequest(r, o)
                                  /\ ~handleRunnerDeferred(r, o)
            BY <3>1, <3>2 DEF taskOffered, handleDataRequest, handleRunnerDeferred
        <3>10. \A o, type, answer : ~TaskEndHandler(r, o, type, answer)
            BY <3>3 DEF TaskEndHandler
        <3>11. \A o \in OfferIds : ~handleRunnerReject(r, o)
            BY <3>2, <3>5 DEF handleRunnerReject, Tasks
        <3> QED BY <3>8, <3>9, <3>10, <3>11 DEF onRunnerMessage
    <2> DEFINE q == accepting[<<r, o>>]
    <2>2. /\ q # None /\ TaskReady(q) /\ t = <<r, o>>
          /\ tasks' = [tasks EXCEPT ![<<r, o>>] = q]
        BY <1>1, <2>1 DEF handleRunnerAccept, brokerVars
    <2>3. <<r, o>> \in Tasks /\ TypeOK /\ OneTaskPerCall
        BY <1>1 DEF Tasks, BrokerInv
    <2>4. tasks'[t] = q /\ startTask[q].state = "requested"
        BY <2>2, <2>3 DEF TaskReady, TypeOK
    <2>5. \A u \in settingsSent : startTask[tasks[u]].state = "waiting"
        <3>1. \A u : Waiting(u).state = "waiting"
            BY DEF Waiting
        <3> QED BY <2>3, <3>1 DEF OneTaskPerCall
    <2> QED BY <2>4, <2>5
<1>2. BrokerInv /\ [Next]_vars =>
        [\A t \in settingsSent' \ settingsSent :
            LET q == tasks'[t]
            IN  /\ startTask[q].state = "requested"
                /\ \A u \in settingsSent : tasks[u] # q]_vars
    BY <1>1
<1> QED BY BrokerInit, BrokerStep, <1>2, PTL DEF Spec, CodeRunsOncePerCall
=============================================================================
