-------------------------- MODULE WaitTrackerProofs --------------------------
(***************************************************************************)
(* Proofs about WaitTracker, for any mains and executions and any lengths  *)
(* of the poll interval, the horizon and the waits that fit together as    *)
(* TrackerAssumption says.                                                 *)
(***************************************************************************)
EXTENDS WaitTracker, TLAPS

LEMMA LaterType ==
    ASSUME NEW n \in Nat, NEW t \in 0..n
    PROVE  Later(t) \in 0..n
BY TrackerAssumption DEF Later

LEMMA NothingFoundType == NothingFound \in [Executions -> 0..Never]
BY TrackerAssumption DEF NothingFound

LEMMA NoEntryType == NoEntry \in Entries
BY TrackerAssumption DEF NoEntry, Entries

LEMMA InitType == Init => TypeOK
<1> SUFFICES ASSUME Init PROVE TypeOK
    OBVIOUS
<1>1. row \in [Executions -> Rows]
    BY TrackerAssumption DEF Init, Rows
<1>2. timers \in [Mains -> [Executions -> Entries]]
    BY NoEntryType DEF Init
<1>3. answered \in [Mains -> [Executions -> 0..Never]]
    BY NothingFoundType DEF Init
<1> QED BY <1>1, <1>2, <1>3 DEF Init, LeadershipInit, TypeOK, NotTracking

\* Whoever steps up or down is a main.
LEMMA ServingType ==
    ASSUME TypeOK, NEW m \in Mains,
           TakeOver(m) \/ StepDown(m) \/ UNCHANGED serving
    PROVE  serving' \subseteq Mains
BY DEF TypeOK, TakeOver, StepDown

LEMMA LeaderType ==
    ASSUME TypeOK, NEW m \in Mains,
           startTracking(m) \/ stopTracking(m) \/ Crash(m)
    PROVE  TypeOK'
<1>1. serving' \subseteq Mains
    BY ServingType DEF startTracking, stopTracking, Crash
<1>2. poll' \in [Mains -> 0..PollInterval \cup {NotTracking}]
    <2>1. PollInterval \in 0..PollInterval \cup {NotTracking}
        BY TrackerAssumption
    <2>2. CASE startTracking(m)
        BY <2>1, <2>2 DEF startTracking, TypeOK
    <2>3. CASE stopTracking(m) \/ Crash(m)
        BY <2>3 DEF stopTracking, Crash, TypeOK
    <2> QED BY <2>2, <2>3
<1>3. timers' \in [Mains -> [Executions -> Entries]]
    <2>1. [state |-> "dead", left |-> 0] \in Entries
        BY TrackerAssumption DEF Entries
    <2>2. CASE startTracking(m)
        BY <2>2 DEF startTracking, TypeOK
    <2>3. CASE stopTracking(m)
        BY <2>1, <2>3, NoEntryType DEF stopTracking, TypeOK
    <2>4. CASE Crash(m)
        BY <2>4, NoEntryType DEF Crash, TypeOK
    <2> QED BY <2>2, <2>3, <2>4
<1>4. /\ led' \in [Mains -> BOOLEAN] /\ sent' \in [Mains -> BOOLEAN]
      /\ row' \in [Executions -> Rows] /\ overtaken' \subseteq Executions
    BY DEF startTracking, stopTracking, Crash, TypeOK
<1>5. answered' \in [Mains -> [Executions -> 0..Never]]
    BY NothingFoundType DEF startTracking, stopTracking, Crash, TypeOK
<1>6. resuming' \in [Mains -> SUBSET Calls]
    BY DEF startTracking, stopTracking, Crash, TypeOK
<1> QED BY <1>1, <1>2, <1>3, <1>4, <1>5, <1>6 DEF TypeOK

LEMMA TickType ==
    ASSUME TypeOK, Tick
    PROVE  TypeOK'
<1>1. row' \in [Executions -> Rows]
    <2>1. ASSUME NEW e \in Executions PROVE [row[e] EXCEPT !.waitTill = Later(@)] \in Rows
        <3>1. row[e] \in Rows /\ row[e].waitTill \in 0..Never
            BY DEF TypeOK, Rows
        <3>2. Later(row[e].waitTill) \in 0..Never
            BY <3>1, LaterType, TrackerAssumption
        <3> QED BY <3>1, <3>2 DEF Rows
    <2> QED BY <2>1 DEF Tick
<1>2. poll' \in [Mains -> 0..PollInterval \cup {NotTracking}]
    <2>1. ASSUME NEW m \in Mains PROVE Later(poll[m]) \in 0..PollInterval \cup {NotTracking}
        <3>1. CASE poll[m] \in 0..PollInterval
            BY <3>1, TrackerAssumption DEF Later
        <3>2. CASE poll[m] = NotTracking
            BY <3>2 DEF Later, NotTracking
        <3> QED BY <3>1, <3>2 DEF TypeOK
    <2> QED BY <2>1 DEF Tick
<1>3. answered' \in [Mains -> [Executions -> 0..Never]]
    BY LaterType, TrackerAssumption DEF Tick, TypeOK
<1>4. timers' \in [Mains -> [Executions -> Entries]]
    <2>1. ASSUME NEW m \in Mains, NEW e \in Executions
          PROVE  [timers[m][e] EXCEPT !.left = Later(@)] \in Entries
        <3>1. timers[m][e] \in Entries /\ timers[m][e].left \in 0..Never
            BY DEF TypeOK, Entries
        <3>2. Later(timers[m][e].left) \in 0..Never
            BY <3>1, LaterType, TrackerAssumption
        <3> QED BY <3>1, <3>2 DEF Entries
    <2> QED BY <2>1 DEF Tick
<1> QED BY <1>1, <1>2, <1>3, <1>4 DEF Tick, TypeOK

LEMMA PollType ==
    ASSUME TypeOK, NEW m \in Mains,
           getWaitingExecutions(m) \/ DatabaseAnswers(m) \/ SetTimers(m)
    PROVE  TypeOK'
<1>1. CASE getWaitingExecutions(m)
    BY <1>1, TrackerAssumption DEF getWaitingExecutions, TypeOK
<1>2. CASE DatabaseAnswers(m)
    <2>1. DueSoon \in [Executions -> 0..Never]
        BY TrackerAssumption DEF DueSoon, TypeOK, Rows
    <2> QED BY <1>2, <2>1 DEF DatabaseAnswers, TypeOK
<1>3. CASE SetTimers(m)
    <2>1. \A e \in Executions : [state |-> "armed", left |-> TriggerTime(m, e)] \in Entries
        BY DEF TypeOK, TriggerTime, Entries
    <2>2. timers' \in [Mains -> [Executions -> Entries]]
        BY <1>3, <2>1 DEF SetTimers, TypeOK
    <2> QED BY <1>3, <2>2, NothingFoundType DEF SetTimers, TypeOK
<1> QED BY <1>1, <1>2, <1>3

LEMMA ResumeType ==
    ASSUME TypeOK, NEW m \in Mains,
           \/ \E e \in Executions : startExecution(m, e) \/ executeWebhook(m, e)
           \/ \E call \in resuming[m] : ReadExecution(m, call) \/ add(m, call)
    PROVE  TypeOK'
<1>1. ASSUME NEW e \in Executions, startExecution(m, e) \/ executeWebhook(m, e)
      PROVE  TypeOK'
    <2>1. \A by \in {"timer", "webhook"} : [exec |-> e, by |-> by, wait |-> 0] \in Calls
        BY TrackerAssumption DEF Calls
    <2>2. resuming' \in [Mains -> SUBSET Calls]
        BY <1>1, <2>1 DEF startExecution, executeWebhook, TypeOK
    <2>3. timers' \in [Mains -> [Executions -> Entries]]
        <3>1. Fired(m, e) \in [Executions -> Entries]
            BY NoEntryType DEF Fired, TypeOK
        <3>2. timers' = timers \/ timers' = [timers EXCEPT ![m] = Fired(m, e)]
            BY <1>1 DEF startExecution, executeWebhook
        <3> QED BY <3>1, <3>2 DEF TypeOK
    <2> QED BY <1>1, <2>2, <2>3 DEF startExecution, executeWebhook, TypeOK, tracking
<1>2. ASSUME NEW call \in resuming[m], ReadExecution(m, call)
      PROVE  TypeOK'
    <2>1. call \in Calls /\ row[call.exec].wait \in 0..MaxWaits
        BY DEF TypeOK, Calls, Rows
    <2>2. [call EXCEPT !.wait = row[call.exec].wait] \in Calls
        BY <2>1 DEF Calls
    <2>3. resuming' \in [Mains -> SUBSET Calls]
        <3>1. AfterRead(call) \subseteq Calls
            BY <2>2 DEF AfterRead
        <3> QED BY <1>2, <3>1 DEF ReadExecution, TypeOK
    <2> QED BY <1>2, <2>3 DEF ReadExecution, TypeOK, tracking
<1>3. ASSUME NEW call \in resuming[m], add(m, call)
      PROVE  TypeOK'
    <2>1. call.exec \in Executions
        BY DEF TypeOK, Calls
    <2>2. row' \in [Executions -> Rows]
        <3>1. [row[call.exec] EXCEPT !.status = "running", !.waitTill = Never] \in Rows
            <4>1. row[call.exec] \in Rows /\ Never \in 0..Never
                BY <2>1, TrackerAssumption DEF TypeOK
            <4> QED BY <4>1 DEF Rows
        <3>2. \/ row' = row
              \/ row' = [row EXCEPT ![call.exec].status = "running", ![call.exec].waitTill = Never]
            BY <1>3 DEF add
        <3> QED BY <2>1, <3>1, <3>2 DEF TypeOK
    <2>3. overtaken' \subseteq Executions
        BY <1>3, <2>1 DEF add, TypeOK
    <2>4. resuming' \in [Mains -> SUBSET Calls]
        BY <1>3 DEF add, TypeOK
    <2> QED BY <1>3, <2>2, <2>3, <2>4 DEF add, TypeOK, tracking
<1> QED BY <1>1, <1>2, <1>3

LEMMA RowType ==
    ASSUME TypeOK, NEW e \in Executions,
           putToWait(e) \/ Finish(e) \/ \E m \in Mains : stop(m, e)
    PROVE  TypeOK'
<1>1. row' \in [Executions -> Rows]
    <2>1. CASE putToWait(e)
        <3>1. PICK d \in Delays \cup {Never} :
                row' = [row EXCEPT ![e] =
                    [status |-> "waiting", wait |-> row[e].wait + 1, waitTill |-> d]]
            BY <2>1 DEF putToWait
        <3>2. row[e].wait + 1 \in 0..MaxWaits /\ d \in 0..Never
            BY <2>1, TrackerAssumption DEF putToWait, TypeOK, Rows
        <3> QED BY <3>1, <3>2 DEF TypeOK, Rows
    <2>2. CASE Finish(e)
        BY <2>2, TrackerAssumption DEF Finish, TypeOK, Rows
    <2>3. ASSUME NEW m \in Mains, stop(m, e) PROVE row' \in [Executions -> Rows]
        <3>1. [row[e] EXCEPT !.status = "canceled", !.waitTill = Never] \in Rows
            <4>1. row[e] \in Rows /\ Never \in 0..Never
                BY TrackerAssumption DEF TypeOK
            <4> QED BY <4>1 DEF Rows
        <3> QED BY <2>3, <3>1 DEF stop, TypeOK
    <2> QED BY <2>1, <2>2, <2>3
<1>2. timers' \in [Mains -> [Executions -> Entries]]
    <2>1. CASE putToWait(e) \/ Finish(e)
        BY <2>1 DEF putToWait, Finish, TypeOK
    <2>2. ASSUME NEW m \in Mains, stop(m, e) PROVE timers' \in [Mains -> [Executions -> Entries]]
        BY <2>2, NoEntryType DEF stop, TypeOK
    <2> QED BY <2>1, <2>2
<1> QED BY <1>1, <1>2 DEF putToWait, Finish, stop, TypeOK, tracking

LEMMA TypeStep == TypeOK /\ [Next]_vars => TypeOK'
<1> SUFFICES ASSUME TypeOK, [Next]_vars PROVE TypeOK'
    OBVIOUS
<1>1. CASE UNCHANGED vars
    BY <1>1 DEF vars, tracking, TypeOK
<1>2. CASE Next
    BY <1>2, TickType, LeaderType, PollType, ResumeType, RowType DEF Next
<1> QED BY <1>1, <1>2

\* Every variable keeps its type.
THEOREM TrackerTypeHolds == Spec => []TypeOK
<1> QED BY InitType, TypeStep, PTL DEF Spec

-----------------------------------------------------------------------------
(* Nothing due is forgotten *)

\* While a main leads, a waiting execution has something of it under way there
\* or is due later than the next poll.
InHand(m, e) ==
    \/ sent[m]
    \/ answered[m][e] # Never
    \/ timers[m][e].state = "armed"
    \/ \E call \in resuming[m] : call.exec = e

Timely(m, e) ==
    row[e].status = "waiting" /\ row[e].waitTill # Never =>
        InHand(m, e) \/ row[e].waitTill > poll[m]

\* Dead entries belong to mains that have led and lead no more, and leaders
\* poll.
Leading(m) ==
    /\ led[m]
    /\ poll[m] \in 0..PollInterval
    /\ \A e \in Executions : timers[m][e].state # "dead" /\ Timely(m, e)

Followed(m) ==
    m \notin serving /\ ~led[m] => \A e \in Executions : timers[m][e].state # "dead"

IInv ==
    /\ TypeOK
    /\ \A m \in Mains : Followed(m) /\ (m \in serving => Leading(m))

LEMMA InvInit == Init => IInv
BY InitType DEF Init, LeadershipInit, IInv, Followed, NoEntry

\* What is left of an interval is no longer than the interval.
LEMMA LaterPoll ==
    ASSUME NEW t \in 0..PollInterval, t # 0
    PROVE  Later(t) = t - 1 /\ Later(t) \in 0..PollInterval
BY TrackerAssumption DEF Later

LEMMA LeaderKeeps ==
    ASSUME IInv, ~LeadsAgain, NEW m \in Mains,
           startTracking(m) \/ stopTracking(m) \/ Crash(m)
    PROVE  IInv'
<1>1. TypeOK'
    BY LeaderType DEF IInv
<1>2. ASSUME NEW n \in Mains PROVE Followed(n)' /\ (n \in serving' => Leading(n)')
    <2>0. Followed(n) /\ (n \in serving => Leading(n))
        BY DEF IInv
    <2>1. CASE n # m
        <3>1. /\ n \in serving' <=> n \in serving
              /\ led'[n] = led[n] /\ poll'[n] = poll[n] /\ sent'[n] = sent[n]
              /\ answered'[n] = answered[n] /\ timers'[n] = timers[n]
              /\ resuming'[n] = resuming[n] /\ row' = row
            <4>1. CASE startTracking(m)
                BY <2>1, <4>1 DEF startTracking, TakeOver, IInv, TypeOK, Followed
            <4>2. CASE stopTracking(m) \/ Crash(m)
                BY <2>1, <4>2 DEF stopTracking, Crash, StepDown, IInv, TypeOK
            <4> QED BY <4>1, <4>2
        <3> QED BY <2>0, <3>1 DEF Followed, Leading, Timely, InHand
    <2>2. CASE n = m /\ startTracking(m)
        <3>1. n \notin serving /\ ~led[n]
            BY <2>2 DEF startTracking, TakeOver
        <3>2. \A e \in Executions : timers'[n][e].state # "dead"
            BY <2>0, <2>2, <3>1 DEF Followed, startTracking
        <3>3. led'[n] /\ sent'[n] /\ poll'[n] \in 0..PollInterval
            BY <2>2, TrackerAssumption DEF startTracking, IInv, TypeOK
        <3> QED BY <3>2, <3>3 DEF Followed, Leading, Timely, InHand
    <2>3. CASE n = m /\ stopTracking(m)
        <3>1. n \in serving /\ n \notin serving' /\ led'[n] = led[n]
            BY <2>3 DEF stopTracking, StepDown
        <3> QED BY <2>0, <3>1 DEF Followed, Leading
    <2>4. CASE n = m /\ Crash(m)
        <3>1. n \notin serving'
            BY <2>4 DEF Crash, StepDown
        <3>2. \A e \in Executions : timers'[n][e] = NoEntry
            BY <2>4 DEF Crash, IInv, TypeOK
        <3> QED BY <3>1, <3>2 DEF Followed, Leading, NoEntry
    <2> QED BY <2>1, <2>2, <2>3, <2>4
<1> QED BY <1>1, <1>2 DEF IInv

\* A tick brings the end of the wait no nearer than the next poll.
LEMMA TickKeeps ==
    ASSUME IInv, Tick
    PROVE  IInv'
<1>1. TypeOK'
    BY TickType DEF IInv
<1>2. ASSUME NEW n \in Mains, NEW e \in Executions
      PROVE  timers'[n][e].state = timers[n][e].state
    <2>1. timers[n][e] \in Entries
        BY DEF IInv, TypeOK
    <2> QED BY <2>1 DEF Tick, Entries
<1>3. ASSUME NEW n \in Mains PROVE Followed(n)' /\ (n \in serving' => Leading(n)')
    <2>0. Followed(n) /\ (n \in serving => Leading(n))
        BY DEF IInv
    <2>1. Followed(n)'
        BY <2>0, <1>2 DEF Followed, Tick
    <2>2. ASSUME n \in serving PROVE Leading(n)'
        <3>1. poll[n] \in 0..PollInterval /\ poll[n] # 0
            BY <2>0, <2>2 DEF Leading, Tick
        <3>2. poll'[n] = poll[n] - 1 /\ poll'[n] \in 0..PollInterval
            BY <3>1, LaterPoll DEF Tick
        <3>3. ASSUME NEW e \in Executions PROVE Timely(n, e)'
            <4>1. row[e] \in Rows
                BY DEF IInv, TypeOK
            <4>2. row'[e].status = row[e].status /\ row'[e].waitTill = Later(row[e].waitTill)
                BY <4>1 DEF Tick, Rows
            <4>3. Timely(n, e)
                BY <2>0, <2>2 DEF Leading
            <4>4. InHand(n, e) => InHand(n, e)'
                <5>1. answered[n][e] # Never => answered'[n][e] # Never
                    <6>1. answered[n][e] \in 0..Never /\ answered'[n][e] = Later(answered[n][e])
                        BY DEF IInv, TypeOK, Tick
                    <6> QED BY <6>1, TrackerAssumption DEF Later
                <5> QED BY <5>1, <1>2 DEF InHand, Tick
            <4>5. ASSUME row[e].waitTill # Never, row[e].waitTill > poll[n]
                  PROVE  row'[e].waitTill > poll'[n]
                <5>1. row[e].waitTill \in 0..Never
                    BY <4>1 DEF Rows
                <5>2. row[e].waitTill # 0
                    BY <4>5, <5>1, <3>1
                <5>3. row'[e].waitTill = row[e].waitTill - 1
                    BY <4>2, <4>5, <5>2 DEF Later
                <5> QED BY <5>1, <5>3, <4>5, <3>1, <3>2, TrackerAssumption
            <4>6. row'[e].waitTill # Never => row[e].waitTill # Never
                BY <4>2 DEF Later
            <4> QED BY <4>2, <4>3, <4>4, <4>5, <4>6 DEF Timely
        <3>4. led'[n] /\ \A e \in Executions : timers'[n][e].state # "dead"
            BY <2>0, <2>2, <1>2 DEF Leading, Tick
        <3> QED BY <3>2, <3>3, <3>4 DEF Leading
    <2> QED BY <2>1, <2>2 DEF Tick
<1> QED BY <1>1, <1>3 DEF IInv

\* The query finds what is due before the next poll.
LEMMA PollKeeps ==
    ASSUME IInv, NEW m \in Mains,
           getWaitingExecutions(m) \/ DatabaseAnswers(m) \/ SetTimers(m)
    PROVE  IInv'
<1>1. TypeOK'
    BY PollType DEF IInv
<1>2. ASSUME NEW n \in Mains PROVE Followed(n)' /\ (n \in serving' => Leading(n)')
    <2>0. Followed(n) /\ (n \in serving => Leading(n))
        BY DEF IInv
    <2>1. serving' = serving /\ led' = led /\ row' = row /\ resuming' = resuming
        BY DEF getWaitingExecutions, DatabaseAnswers, SetTimers
    <2>2. CASE n # m
        <3>1. /\ poll'[n] = poll[n] /\ sent'[n] = sent[n]
              /\ answered'[n] = answered[n] /\ timers'[n] = timers[n]
            BY <2>2 DEF getWaitingExecutions, DatabaseAnswers, SetTimers, IInv, TypeOK
        <3> QED BY <2>0, <2>1, <3>1 DEF Followed, Leading, Timely, InHand
    <2>3. CASE n = m /\ getWaitingExecutions(m)
        <3>1. /\ sent'[n] /\ poll'[n] \in 0..PollInterval
              /\ timers' = timers
            BY <2>3, TrackerAssumption DEF getWaitingExecutions, IInv, TypeOK
        <3> QED BY <2>0, <2>1, <3>1 DEF Followed, Leading, Timely, InHand
    <2>4. CASE n = m /\ DatabaseAnswers(m)
        <3>1. poll' = poll /\ timers' = timers /\ answered'[n] = DueSoon
            BY <2>4 DEF DatabaseAnswers, IInv, TypeOK
        <3>2. ASSUME NEW e \in Executions, poll[n] \in 0..PollInterval PROVE Timely(n, e)'
            <4>1. row[e].waitTill \in 0..Never
                BY DEF IInv, TypeOK, Rows
            <4>2. CASE row[e].waitTill <= Horizon
                BY <2>1, <3>1, <4>1, <4>2, TrackerAssumption DEF DueSoon, Timely, InHand
            <4>3. CASE row[e].waitTill > Horizon
                BY <2>1, <3>1, <3>2, <4>1, <4>3, TrackerAssumption DEF Timely
            <4> QED BY <4>1, <4>2, <4>3, TrackerAssumption
        <3> QED BY <2>0, <2>1, <3>1, <3>2 DEF Followed, Leading
    <2>5. CASE n = m /\ SetTimers(m)
        <3>1. poll' = poll /\ sent' = sent
            BY <2>5 DEF SetTimers
        <3>2. \A e \in Executions :
                timers'[n][e] = IF answered[n][e] # Never /\ timers[n][e].state = "none"
                                THEN [state |-> "armed", left |-> TriggerTime(n, e)]
                                ELSE timers[n][e]
            BY <2>5 DEF SetTimers, IInv, TypeOK
        <3>3. ASSUME NEW e \in Executions
              PROVE  /\ timers[n][e].state # "dead" => timers'[n][e].state # "dead"
                     /\ timers[n][e].state = "armed" => timers'[n][e].state = "armed"
                     /\ answered[n][e] # Never /\ timers[n][e].state # "dead"
                          => timers'[n][e].state = "armed"
            <4>1. timers[n][e].state \in {"none", "armed", "dead"}
                BY DEF IInv, TypeOK, Entries
            <4>2. CASE answered[n][e] # Never /\ timers[n][e].state = "none"
                <5>1. timers'[n][e] = [state |-> "armed", left |-> TriggerTime(n, e)]
                    BY <3>2, <4>2
                <5> QED BY <4>2, <5>1
            <4>3. CASE ~(answered[n][e] # Never /\ timers[n][e].state = "none")
                BY <3>2, <4>1, <4>3
            <4> QED BY <4>2, <4>3
        <3>4. ASSUME NEW e \in Executions, n \in serving PROVE Timely(n, e)'
            BY <2>0, <2>1, <3>1, <3>3, <3>4 DEF Leading, Timely, InHand
        <3> QED BY <2>0, <2>1, <3>1, <3>3, <3>4 DEF Followed, Leading
    <2> QED BY <2>2, <2>3, <2>4, <2>5
<1> QED BY <1>1, <1>2 DEF IInv

\* A timer that fires becomes a call; a call ends with the wait it was for.
LEMMA ResumeKeeps ==
    ASSUME IInv, NEW m \in Mains,
           \/ \E e \in Executions : startExecution(m, e) \/ executeWebhook(m, e)
           \/ \E call \in resuming[m] : ReadExecution(m, call) \/ add(m, call)
    PROVE  IInv'
<1>1. TypeOK'
    BY ResumeType DEF IInv
<1>2. UNCHANGED <<serving, led, poll, sent, answered>>
    BY DEF startExecution, executeWebhook, ReadExecution, add, tracking
<1>3. ASSUME NEW n \in Mains, NEW f \in Executions
      PROVE  /\ timers[n][f].state # "dead" => timers'[n][f].state # "dead"
             /\ Timely(n, f) => Timely(n, f)'
    <2> DEFINE Kept == /\ timers[n][f].state # "dead" => timers'[n][f].state # "dead"
                       /\ Timely(n, f) => Timely(n, f)'
    <2>1. ASSUME NEW e \in Executions, startExecution(m, e)
          PROVE  Kept
        <3>1. row' = row /\ resuming[n] \subseteq resuming'[n]
            BY <2>1 DEF startExecution, IInv, TypeOK
        <3>2. CASE n = m /\ f = e
            <4>1. timers'[n][f] = NoEntry
                BY <2>1, <3>2 DEF startExecution, Fired, IInv, TypeOK
            <4>2. [exec |-> e, by |-> "timer", wait |-> 0] \in resuming'[n]
                BY <2>1, <3>2 DEF startExecution, IInv, TypeOK
            <4>3. \E call \in resuming'[n] : call.exec = f
                BY <3>2, <4>2
            <4> QED BY <3>1, <4>1, <4>3 DEF Timely, InHand, NoEntry
        <3>3. CASE n # m \/ f # e
            <4>1. timers'[n][f] = timers[n][f]
                BY <2>1, <3>3 DEF startExecution, Fired, IInv, TypeOK
            <4> QED BY <1>2, <3>1, <4>1 DEF Timely, InHand
        <3> QED BY <3>2, <3>3
    <2>2. ASSUME NEW e \in Executions, executeWebhook(m, e)
          PROVE  Kept
        <3>1. row' = row /\ timers' = timers /\ resuming[n] \subseteq resuming'[n]
            BY <2>2 DEF executeWebhook, IInv, TypeOK
        <3> QED BY <1>2, <3>1 DEF Timely, InHand
    <2>3. ASSUME NEW call \in resuming[m], ReadExecution(m, call)
          PROVE  Kept
        <3>1. row' = row /\ timers' = timers
            BY <2>3 DEF ReadExecution
        <3>2. CASE row[f].status = "waiting" /\ n = m /\ call.exec = f
            <4>1. call \in Calls
                BY DEF IInv, TypeOK
            <4>2. [call EXCEPT !.wait = row[call.exec].wait] \in resuming'[n]
                BY <2>3, <3>2, <4>1 DEF ReadExecution, AfterRead, GoesOn, Calls, IInv, TypeOK
            <4>3. [call EXCEPT !.wait = row[call.exec].wait].exec = f
                BY <3>2, <4>1 DEF Calls
            <4> QED BY <3>1, <4>2, <4>3 DEF Timely, InHand
        <3>3. CASE row[f].status = "waiting" /\ ~(n = m /\ call.exec = f)
            <4>1. \A c \in resuming[n] : c.exec = f => c \in resuming'[n]
                BY <2>3, <3>3 DEF ReadExecution, IInv, TypeOK
            <4> QED BY <1>2, <3>1, <4>1 DEF Timely, InHand
        <3>4. CASE row[f].status # "waiting"
            BY <3>1, <3>4 DEF Timely
        <3> QED BY <3>1, <3>2, <3>3, <3>4
    <2>4. ASSUME NEW call \in resuming[m], add(m, call)
          PROVE  Kept
        <3>1. timers' = timers
            BY <2>4 DEF add
        <3>2. CASE call.exec = f
            <4>1. row'[f].status # "waiting"
                <5>1. CASE MayResume(f)
                    <6>1. row' = [row EXCEPT ![f].status = "running", ![f].waitTill = Never]
                        BY <2>4, <3>2, <5>1 DEF add
                    <6>2. row[f] \in Rows
                        BY DEF IInv, TypeOK
                    <6> QED BY <6>1, <6>2 DEF Rows, IInv, TypeOK
                <5>2. CASE ~MayResume(f)
                    BY <2>4, <3>2, <5>2 DEF add, MayResume
                <5> QED BY <5>1, <5>2
            <4> QED BY <3>1, <4>1 DEF Timely
        <3>3. CASE call.exec # f
            <4>1. row'[f] = row[f]
                BY <2>4, <3>3 DEF add, IInv, TypeOK
            <4>2. \A c \in resuming[n] : c.exec = f => c \in resuming'[n]
                BY <2>4, <3>3 DEF add, IInv, TypeOK
            <4> QED BY <1>2, <3>1, <4>1, <4>2 DEF Timely, InHand
        <3> QED BY <3>2, <3>3
    <2> QED BY <2>1, <2>2, <2>3, <2>4
<1>4. ASSUME NEW n \in Mains PROVE Followed(n)' /\ (n \in serving' => Leading(n)')
    <2>1. Followed(n) /\ (n \in serving => Leading(n))
        BY DEF IInv
    <2> QED BY <1>2, <1>3, <2>1 DEF Followed, Leading
<1> QED BY <1>1, <1>4 DEF IInv

\* A wait is longer than the interval when it starts.
LEMMA RowKeeps ==
    ASSUME IInv, NEW e \in Executions,
           putToWait(e) \/ Finish(e) \/ \E m \in Mains : stop(m, e)
    PROVE  IInv'
<1>1. TypeOK'
    BY RowType DEF IInv
<1>2. UNCHANGED <<serving, led, poll, sent, answered, resuming>>
    BY DEF putToWait, Finish, stop, tracking
<1>3. ASSUME NEW n \in Mains, NEW f \in Executions, poll[n] \in 0..PollInterval
      PROVE  Timely(n, f) => Timely(n, f)'
    <2>1. CASE f # e
        <3>1. row'[f] = row[f] /\ timers'[n][f] = timers[n][f]
            <4>1. CASE putToWait(e) \/ Finish(e)
                BY <2>1, <4>1 DEF putToWait, Finish, IInv, TypeOK
            <4>2. ASSUME NEW m \in Mains, stop(m, e)
                  PROVE  row'[f] = row[f] /\ timers'[n][f] = timers[n][f]
                BY <2>1, <4>2 DEF stop, IInv, TypeOK
            <4> QED BY <4>1, <4>2
        <3> QED BY <1>2, <3>1 DEF Timely, InHand
    <2>2. CASE f = e /\ putToWait(e)
        <3>1. PICK d \in Delays \cup {Never} :
                row'[e] = [status |-> "waiting", wait |-> row[e].wait + 1, waitTill |-> d]
            BY <2>2 DEF putToWait, IInv, TypeOK
        <3>2. d # Never => d \in Nat /\ d > PollInterval
            BY TrackerAssumption
        <3>3. row'[f].waitTill = d /\ poll'[n] \in 0..PollInterval
            BY <1>2, <1>3, <2>2, <3>1
        <3>4. d # Never => d > poll'[n]
            BY <3>2, <3>3, TrackerAssumption
        <3> QED BY <3>3, <3>4 DEF Timely
    <2>3. CASE f = e /\ (Finish(e) \/ \E m \in Mains : stop(m, e))
        <3>1. row[e] \in Rows
            BY DEF IInv, TypeOK
        <3>2. row'[e].status \in {"success", "canceled"}
            BY <2>3, <3>1 DEF Finish, stop, IInv, TypeOK, Rows
        <3> QED BY <2>3, <3>2 DEF Timely
    <2> QED BY <2>1, <2>2, <2>3
<1>4. ASSUME NEW n \in Mains, NEW f \in Executions
      PROVE  timers[n][f].state # "dead" => timers'[n][f].state # "dead"
    <2>1. CASE timers' = timers
        BY <2>1
    <2>2. ASSUME NEW m \in Mains, timers' = [timers EXCEPT ![m][e] = NoEntry]
          PROVE  timers'[n][f] = timers[n][f] \/ timers'[n][f] = NoEntry
        BY <2>2 DEF IInv, TypeOK
    <2> QED BY <2>1, <2>2 DEF putToWait, Finish, stop, NoEntry
<1>5. ASSUME NEW n \in Mains PROVE Followed(n)' /\ (n \in serving' => Leading(n)')
    <2>1. Followed(n) /\ (n \in serving => Leading(n))
        BY DEF IInv
    <2> QED BY <1>2, <1>3, <1>4, <2>1 DEF Followed, Leading
<1> QED BY <1>1, <1>5 DEF IInv

LEMMA InvStep == ~LeadsAgain /\ IInv /\ [Next]_vars => IInv'
<1> SUFFICES ASSUME ~LeadsAgain, IInv, [Next]_vars PROVE IInv'
    OBVIOUS
<1>1. CASE UNCHANGED vars
    BY <1>1, TypeStep DEF vars, tracking, IInv, Followed, Leading, Timely, InHand
<1>2. CASE Next
    BY <1>2, TickKeeps, LeaderKeeps, PollKeeps, ResumeKeeps, RowKeeps DEF Next
<1> QED BY <1>1, <1>2

LEMMA InvDue == IInv => DueIsInHand
<1> SUFFICES ASSUME IInv, NEW e \in Executions, NEW m \in serving,
                    row[e].status = "waiting", row[e].waitTill = 0
             PROVE  InHand(m, e)
    BY DEF DueIsInHand, InHand
<1>1. m \in Mains
    BY DEF IInv, TypeOK
<1>2. Leading(m)
    BY <1>1 DEF IInv
<1> QED BY <1>2, TrackerAssumption DEF Leading, Timely

\* While a main leads, it has every wait that is over in hand: for any poll
\* interval, horizon and waits that fit together, on any number of mains.  A
\* main that leads a second time in its life is excepted.
THEOREM DueIsInHandHolds == ~LeadsAgain /\ Spec => []DueIsInHand
<1>1. ~LeadsAgain => (Spec => []DueIsInHand)
    <2> SUFFICES ASSUME ~LeadsAgain PROVE Spec => []DueIsInHand
        OBVIOUS
    <2>1. IInv /\ [Next]_vars => IInv'
        BY InvStep
    <2> QED BY InvInit, <2>1, InvDue, PTL DEF Spec
<1> QED BY <1>1

-----------------------------------------------------------------------------
(* Stopped is stopped *)

LEMMA StoppedStep ==
    TypeOK /\ [Next]_vars
        => \A e \in Executions : row[e].status = "canceled" => row'[e].status = "canceled"
<1> SUFFICES ASSUME TypeOK, [Next]_vars, NEW e \in Executions, row[e].status = "canceled"
             PROVE  row'[e].status = "canceled"
    OBVIOUS
<1>0. row[e] \in Rows
    BY DEF TypeOK
<1>1. CASE Tick
    BY <1>0, <1>1 DEF Tick, Rows
<1>2. ASSUME NEW m \in Mains, NEW call \in resuming[m], add(m, call)
      PROVE  row'[e].status = "canceled"
    <2>1. CASE MayResume(call.exec)
        <3>1. call.exec # e
            BY <2>1 DEF MayResume
        <3> QED BY <1>2, <3>1 DEF add, TypeOK
    <2>2. CASE ~MayResume(call.exec)
        BY <1>2, <2>2 DEF add
    <2> QED BY <2>1, <2>2
<1>3. ASSUME NEW f \in Executions, putToWait(f) \/ Finish(f) \/ \E m \in Mains : stop(m, f)
      PROVE  row'[e].status = "canceled"
    <2>1. f # e
        BY <1>3 DEF putToWait, Finish, stop
    <2> QED BY <1>3, <2>1 DEF putToWait, Finish, stop, TypeOK
<1>4. CASE UNCHANGED row
    BY <1>4
<1> QED BY <1>1, <1>2, <1>3, <1>4
        DEF Next, vars, startTracking, stopTracking, Crash, getWaitingExecutions,
            DatabaseAnswers, SetTimers, startExecution, executeWebhook, ReadExecution

\* An execution that was stopped while it waited is never resumed.
THEOREM StoppedStaysHolds == Spec => StoppedStays
<1>1. TypeOK /\ [Next]_vars
        => [\A e \in Executions :
                row[e].status = "canceled" => row'[e].status = "canceled"]_vars
    BY StoppedStep
<1> QED BY <1>1, InitType, TypeStep, PTL DEF Spec, StoppedStays

-----------------------------------------------------------------------------
(* Nothing is resumed early *)

\* A timer or an answer with this many ticks left does not end before the
\* wait that the execution is in.
ForThisWait(e, ticks) == row[e].status = "waiting" /\ row[e].waitTill <= ticks

\* The same of the state a step leads to.
AfterStep(e, ticks) == row'[e].status = "waiting" /\ row'[e].waitTill <= ticks

CalledByTimer(e, m) == \E call \in resuming[m] : call.exec = e /\ call.by = "timer"

\* All that main m may resume e with is about the wait it is in.
OnlyThisWait(e, m) ==
    /\ timers[m][e].state = "armed" => ForThisWait(e, timers[m][e].left)
    /\ answered[m][e] # Never => ForThisWait(e, answered[m][e])
    /\ CalledByTimer(e, m) => ForThisWait(e, 0)

\* Of an execution that runs no main has anything; what it has of one that
\* waits is not early.  A resumption with something else pending ends this for
\* good.
NotEarly(e) ==
    /\ row[e].status = "running" => row[e].waitTill = Never
    /\ row[e].status \in {"running", "waiting"} /\ e \notin overtaken =>
        \A m \in Mains : OnlyThisWait(e, m)

EarlyInv == TypeOK /\ \A e \in Executions : NotEarly(e)

LEMMA EarlyInit == Init => EarlyInv
<1> SUFFICES ASSUME Init, NEW e \in Executions PROVE NotEarly(e)
    BY InitType DEF EarlyInv
<1>1. ASSUME NEW m \in Mains PROVE OnlyThisWait(e, m)
    BY <1>1 DEF Init, OnlyThisWait, CalledByTimer, NoEntry, NothingFound
<1> QED BY <1>1 DEF Init, NotEarly

\* Steps that leave the execution alone and take from what is pending.
LEMMA FewerKeeps ==
    ASSUME NEW e \in Executions, NEW m \in Mains, OnlyThisWait(e, m),
           row'[e] = row[e],
           timers'[m][e] = timers[m][e] \/ timers'[m][e].state # "armed",
           answered'[m][e] = answered[m][e] \/ answered'[m][e] = Never,
           CalledByTimer(e, m)' => CalledByTimer(e, m)
    PROVE  OnlyThisWait(e, m)'
<1>1. timers'[m][e].state = "armed" => AfterStep(e, timers'[m][e].left)
    BY DEF OnlyThisWait, ForThisWait, AfterStep
<1>2. answered'[m][e] # Never => AfterStep(e, answered'[m][e])
    BY DEF OnlyThisWait, ForThisWait, AfterStep
<1>3. CalledByTimer(e, m)' => AfterStep(e, 0)
    BY DEF OnlyThisWait, ForThisWait, AfterStep
<1> QED BY <1>1, <1>2, <1>3 DEF OnlyThisWait, ForThisWait, AfterStep

\* An execution of which nothing changes but the leaders.
LEMMA LeaderKeepsEarly ==
    ASSUME EarlyInv, NEW m \in Mains, NEW e \in Executions,
           startTracking(m) \/ stopTracking(m) \/ Crash(m) \/ getWaitingExecutions(m)
    PROVE  NotEarly(e)'
<1>1. row' = row /\ overtaken' = overtaken
    BY DEF startTracking, stopTracking, Crash, getWaitingExecutions
<1>2. ASSUME NEW n \in Mains, OnlyThisWait(e, n) PROVE OnlyThisWait(e, n)'
    <2>1. timers'[n][e] = timers[n][e] \/ timers'[n][e].state # "armed"
        <3>1. CASE startTracking(m) \/ getWaitingExecutions(m)
            BY <3>1 DEF startTracking, getWaitingExecutions
        <3>2. CASE stopTracking(m)
            BY <3>2 DEF stopTracking, EarlyInv, TypeOK, NoEntry
        <3>3. CASE Crash(m)
            BY <3>3 DEF Crash, EarlyInv, TypeOK, NoEntry
        <3> QED BY <3>1, <3>2, <3>3
    <2>2. answered'[n][e] = answered[n][e] \/ answered'[n][e] = Never
        <3>1. CASE Crash(m)
            BY <3>1 DEF Crash, EarlyInv, TypeOK, NothingFound
        <3> QED BY <3>1 DEF startTracking, stopTracking, getWaitingExecutions
    <2>3. resuming'[n] \subseteq resuming[n]
        <3>1. CASE Crash(m)
            BY <3>1 DEF Crash, EarlyInv, TypeOK
        <3> QED BY <3>1 DEF startTracking, stopTracking, getWaitingExecutions
    <2>4. CalledByTimer(e, n)' => CalledByTimer(e, n)
        BY <2>3 DEF CalledByTimer
    <2> QED BY <1>1, <1>2, <2>1, <2>2, <2>4, FewerKeeps
<1>3. NotEarly(e)
    BY DEF EarlyInv
<1> QED BY <1>1, <1>2, <1>3 DEF NotEarly

\* Everything comes nearer together.
LEMMA LaterKeepsOrder ==
    ASSUME NEW s \in 0..Never, NEW t \in 0..Never, s <= t, t # Never
    PROVE  Later(s) <= Later(t)
BY TrackerAssumption DEF Later

LEMMA TickKeepsEarly ==
    ASSUME EarlyInv, Tick, NEW e \in Executions
    PROVE  NotEarly(e)'
<1>0. NotEarly(e) /\ overtaken' = overtaken /\ resuming' = resuming
    BY DEF EarlyInv, Tick
<1>1. row[e] \in Rows
    BY DEF EarlyInv, TypeOK
<1>2. /\ row'[e].status = row[e].status
      /\ row'[e].waitTill = Later(row[e].waitTill)
      /\ row[e].waitTill \in 0..Never /\ row'[e].waitTill \in 0..Never
    <2>1. row'[e] = [row[e] EXCEPT !.waitTill = Later(@)]
        BY DEF Tick
    <2>2. row'[e] \in Rows
        BY TickType DEF EarlyInv, TypeOK
    <2> QED BY <1>1, <2>1, <2>2 DEF Rows
<1>3. ASSUME NEW t \in 0..Never, ForThisWait(e, t)
      PROVE  AfterStep(e, Later(t))
    <2>1. row'[e].waitTill <= Later(t)
        <3>1. CASE t = Never
            BY <1>2, <3>1 DEF Later
        <3>2. CASE t # Never
            BY <1>2, <1>3, <3>2, LaterKeepsOrder DEF ForThisWait, AfterStep
        <3> QED BY <3>1, <3>2
    <2> QED BY <1>2, <1>3, <2>1 DEF ForThisWait, AfterStep
<1>4. ASSUME NEW n \in Mains, OnlyThisWait(e, n) PROVE OnlyThisWait(e, n)'
    <2>1. timers[n][e] \in Entries /\ answered[n][e] \in 0..Never
        BY DEF EarlyInv, TypeOK
    <2>2. timers'[n][e] = [timers[n][e] EXCEPT !.left = Later(@)]
        BY DEF Tick
    <2>3. answered'[n][e] = Later(answered[n][e])
        BY DEF Tick
    <2>4. timers'[n][e].state = "armed" => AfterStep(e, timers'[n][e].left)
        <3>1. /\ timers'[n][e].state = timers[n][e].state
              /\ timers'[n][e].left = Later(timers[n][e].left)
              /\ timers[n][e].left \in 0..Never
            BY <2>1, <2>2 DEF Entries
        <3>2. timers[n][e].state = "armed" => ForThisWait(e, timers[n][e].left)
            BY <1>4 DEF OnlyThisWait
        <3>3. timers[n][e].state = "armed" => AfterStep(e, Later(timers[n][e].left))
            BY <1>3, <3>1, <3>2
        <3> QED BY <3>1, <3>3 DEF ForThisWait, AfterStep
    <2>5. answered'[n][e] # Never => AfterStep(e, answered'[n][e])
        <3>1. answered'[n][e] # Never => answered[n][e] # Never
            BY <2>3 DEF Later
        <3>2. answered[n][e] # Never => ForThisWait(e, answered[n][e])
            BY <1>4 DEF OnlyThisWait
        <3>3. answered[n][e] # Never => AfterStep(e, Later(answered[n][e]))
            BY <1>3, <2>1, <3>2
        <3> QED BY <2>3, <3>1, <3>3 DEF ForThisWait, AfterStep
    <2>6. CalledByTimer(e, n)' => AfterStep(e, 0)
        <3>1. CalledByTimer(e, n)' => CalledByTimer(e, n)
            BY <1>0 DEF CalledByTimer
        <3>2. CalledByTimer(e, n) => ForThisWait(e, 0)
            BY <1>4 DEF OnlyThisWait
        <3>3. ForThisWait(e, 0) => AfterStep(e, Later(0))
            BY <1>3, TrackerAssumption
        <3>4. Later(0) = 0
            BY DEF Later
        <3> QED BY <3>1, <3>2, <3>3, <3>4 DEF ForThisWait, AfterStep
    <2> QED BY <2>4, <2>5, <2>6 DEF OnlyThisWait, ForThisWait, AfterStep
<1>5. row'[e].status = "running" => row'[e].waitTill = Never
    BY <1>0, <1>2 DEF NotEarly, Later
<1> QED BY <1>0, <1>2, <1>4, <1>5 DEF NotEarly

\* The answer and the timer that is set from it end with the wait.
LEMMA PollKeepsEarly ==
    ASSUME EarlyInv, NEW m \in Mains, NEW e \in Executions,
           DatabaseAnswers(m) \/ SetTimers(m)
    PROVE  NotEarly(e)'
<1>0. NotEarly(e) /\ overtaken' = overtaken /\ resuming' = resuming /\ row' = row
    BY DEF EarlyInv, DatabaseAnswers, SetTimers
<1>1. ASSUME NEW n \in Mains, OnlyThisWait(e, n), row[e].status \in {"running", "waiting"}
      PROVE  OnlyThisWait(e, n)'
    <2>0. CalledByTimer(e, n)' <=> CalledByTimer(e, n)
        BY <1>0 DEF CalledByTimer
    <2>1. CASE DatabaseAnswers(m) /\ n = m
        <3>1. timers' = timers /\ answered'[n][e] = DueSoon[e]
            BY <2>1 DEF DatabaseAnswers, EarlyInv, TypeOK
        <3>2. row[e].waitTill \in 0..Never
            BY DEF EarlyInv, TypeOK, Rows
        <3>3. DueSoon[e] # Never => row[e].status = "waiting" /\ DueSoon[e] = row[e].waitTill
            BY <1>0, <1>1 DEF DueSoon, NotEarly
        <3>4. answered'[n][e] # Never => AfterStep(e, answered'[n][e])
            BY <1>0, <3>1, <3>2, <3>3 DEF ForThisWait, AfterStep
        <3> QED BY <1>0, <1>1, <2>0, <3>1, <3>4 DEF OnlyThisWait, ForThisWait, AfterStep
    <2>2. CASE SetTimers(m) /\ n = m
        <3>1. answered'[n][e] = Never
            BY <2>2 DEF SetTimers, NothingFound, EarlyInv, TypeOK
        <3>2. timers'[n][e] = IF answered[n][e] # Never /\ timers[n][e].state = "none"
                              THEN [state |-> "armed", left |-> TriggerTime(n, e)]
                              ELSE timers[n][e]
            BY <2>2 DEF SetTimers, EarlyInv, TypeOK
        <3>3. timers'[n][e].state = "armed" => AfterStep(e, timers'[n][e].left)
            <4>1. CASE answered[n][e] # Never /\ timers[n][e].state = "none"
                <5>1. timers'[n][e].left = answered[n][e]
                    BY <3>2, <4>1 DEF TriggerTime
                <5> QED BY <1>0, <1>1, <4>1, <5>1 DEF OnlyThisWait, ForThisWait, AfterStep
            <4>2. CASE ~(answered[n][e] # Never /\ timers[n][e].state = "none")
                BY <1>0, <1>1, <3>2, <4>2 DEF OnlyThisWait, ForThisWait, AfterStep
            <4> QED BY <4>1, <4>2
        <3> QED BY <1>0, <1>1, <2>0, <3>1, <3>3 DEF OnlyThisWait, ForThisWait, AfterStep
    <2>3. CASE n # m
        <3>1. timers'[n][e] = timers[n][e] /\ answered'[n][e] = answered[n][e]
            BY <2>3 DEF DatabaseAnswers, SetTimers, EarlyInv, TypeOK
        <3> QED BY <1>0, <1>1, <2>0, <3>1, FewerKeeps
    <2> QED BY <2>1, <2>2, <2>3
<1> QED BY <1>0, <1>1 DEF NotEarly

\* A timer that fires has no ticks left, nor has the wait.
LEMMA FireKeepsEarly ==
    ASSUME EarlyInv, NEW m \in Mains, NEW f \in Executions, NEW e \in Executions,
           startExecution(m, f) \/ executeWebhook(m, f)
    PROVE  NotEarly(e)'
<1>0. /\ NotEarly(e) /\ overtaken' = overtaken /\ row' = row /\ answered' = answered
    BY DEF EarlyInv, startExecution, executeWebhook, tracking
<1>1. ASSUME NEW n \in Mains, OnlyThisWait(e, n) PROVE OnlyThisWait(e, n)'
    <2>1. CASE executeWebhook(m, f)
        <3>1. timers' = timers
            BY <2>1 DEF executeWebhook
        <3>2. \A c \in resuming'[n] :
                c \in resuming[n] \/ c = [exec |-> f, by |-> "webhook", wait |-> 0]
            BY <2>1 DEF executeWebhook, EarlyInv, TypeOK
        <3>3. CalledByTimer(e, n)' => CalledByTimer(e, n)
            BY <3>2 DEF CalledByTimer
        <3> QED BY <1>0, <1>1, <3>1, <3>3, FewerKeeps
    <2>2. CASE startExecution(m, f) /\ n = m /\ e = f
        <3>1. ForThisWait(e, 0)
            BY <1>1, <2>2 DEF startExecution, OnlyThisWait
        <3>2. timers'[n][e] = NoEntry
            BY <2>2 DEF startExecution, Fired, EarlyInv, TypeOK
        <3>3. timers'[n][e].state # "armed"
            BY <3>2 DEF NoEntry
        <3> QED BY <1>0, <1>1, <3>1, <3>3 DEF OnlyThisWait, ForThisWait, AfterStep
    <2>3. CASE startExecution(m, f) /\ ~(n = m /\ e = f)
        <3>1. timers'[n][e] = timers[n][e]
            BY <2>3 DEF startExecution, Fired, EarlyInv, TypeOK
        <3>2. \A c \in resuming'[n] :
                c \in resuming[n] \/ (n = m /\ c = [exec |-> f, by |-> "timer", wait |-> 0])
            BY <2>3 DEF startExecution, EarlyInv, TypeOK
        <3>3. CalledByTimer(e, n)' => CalledByTimer(e, n)
            BY <2>3, <3>2 DEF CalledByTimer
        <3> QED BY <1>0, <1>1, <3>1, <3>3, FewerKeeps
    <2> QED BY <2>1, <2>2, <2>3
<1> QED BY <1>0, <1>1 DEF NotEarly

\* A call that has read the row is the same call.
LEMMA ReadKeepsEarly ==
    ASSUME EarlyInv, NEW m \in Mains, NEW call \in resuming[m], NEW e \in Executions,
           ReadExecution(m, call)
    PROVE  NotEarly(e)'
<1>0. /\ NotEarly(e) /\ overtaken' = overtaken /\ row' = row
      /\ answered' = answered /\ timers' = timers
    BY DEF EarlyInv, ReadExecution, tracking
<1>1. ASSUME NEW n \in Mains, OnlyThisWait(e, n) PROVE OnlyThisWait(e, n)'
    <2>1. call \in Calls
        BY DEF EarlyInv, TypeOK
    <2>2. \A c \in AfterRead(call) : c.exec = call.exec /\ c.by = call.by
        BY <2>1 DEF AfterRead, Calls
    <2>3. \A c \in resuming'[n] : c \in resuming[n] \/ (n = m /\ c \in AfterRead(call))
        BY DEF ReadExecution, EarlyInv, TypeOK
    <2>4. CalledByTimer(e, n)' => CalledByTimer(e, n)
        BY <2>2, <2>3 DEF CalledByTimer
    <2> QED BY <1>0, <1>1, <2>4, FewerKeeps
<1> QED BY <1>0, <1>1 DEF NotEarly

\* An execution that is resumed has nothing else pending, or is overtaken.
LEMMA AddKeepsEarly ==
    ASSUME EarlyInv, NEW m \in Mains, NEW call \in resuming[m], NEW e \in Executions,
           add(m, call)
    PROVE  NotEarly(e)'
<1>0. NotEarly(e) /\ answered' = answered /\ timers' = timers
    BY DEF EarlyInv, add, tracking
<1>1. call \in Calls /\ row[e] \in Rows
    BY DEF EarlyInv, TypeOK
<1>2. \A n \in Mains : resuming'[n] \subseteq resuming[n]
    BY DEF add, EarlyInv, TypeOK
<1>3. CASE MayResume(call.exec) /\ e = call.exec
    <2>1. row'[e].status = "running" /\ row'[e].waitTill = Never
        <3>1. row' = [row EXCEPT ![e].status = "running", ![e].waitTill = Never]
            BY <1>3 DEF add
        <3> QED BY <1>1, <3>1 DEF Rows, EarlyInv, TypeOK
    <2>2. CASE Pending(e, m, call)
        <3>1. e \in overtaken'
            BY <1>3, <2>2 DEF add
        <3> QED BY <2>1, <3>1 DEF NotEarly
    <2>3. CASE ~Pending(e, m, call)
        <3>1. ASSUME NEW n \in Mains PROVE OnlyThisWait(e, n)'
            <4>1. timers'[n][e].state # "armed" /\ answered'[n][e] = Never
                BY <1>0, <2>3 DEF Pending
            <4>2. \A c \in resuming[n] : c.exec = e => n = m /\ c = call
                BY <2>3 DEF Pending
            <4>3. call \notin resuming'[m]
                BY DEF add, EarlyInv, TypeOK
            <4>4. ~CalledByTimer(e, n)'
                BY <1>2, <4>2, <4>3 DEF CalledByTimer
            <4> QED BY <4>1, <4>4 DEF OnlyThisWait
        <3> QED BY <2>1, <3>1 DEF NotEarly
    <2> QED BY <2>2, <2>3
<1>4. CASE ~(MayResume(call.exec) /\ e = call.exec)
    <2>1. row'[e] = row[e] /\ (e \in overtaken' <=> e \in overtaken)
        <3>1. CASE MayResume(call.exec)
            BY <1>4, <3>1 DEF add, EarlyInv, TypeOK
        <3>2. CASE ~MayResume(call.exec)
            BY <3>2 DEF add
        <3> QED BY <3>1, <3>2
    <2>2. ASSUME NEW n \in Mains, OnlyThisWait(e, n) PROVE OnlyThisWait(e, n)'
        <3>1. CalledByTimer(e, n)' => CalledByTimer(e, n)
            BY <1>2 DEF CalledByTimer
        <3> QED BY <1>0, <2>1, <2>2, <3>1, FewerKeeps
    <2> QED BY <1>0, <2>1, <2>2 DEF NotEarly
<1> QED BY <1>3, <1>4

\* An execution begins to wait with nothing pending.
LEMMA RowKeepsEarly ==
    ASSUME EarlyInv, NEW f \in Executions, NEW e \in Executions,
           putToWait(f) \/ Finish(f) \/ \E m \in Mains : stop(m, f)
    PROVE  NotEarly(e)'
<1>0. /\ NotEarly(e) /\ answered' = answered /\ resuming' = resuming
      /\ overtaken' = overtaken
    BY DEF EarlyInv, putToWait, Finish, stop, tracking
<1>1. row[e] \in Rows
    BY DEF EarlyInv, TypeOK
<1>2. CASE f # e
    <2>1. row'[e] = row[e]
        BY <1>2 DEF putToWait, Finish, stop, EarlyInv, TypeOK
    <2>2. ASSUME NEW n \in Mains PROVE timers'[n][e] = timers[n][e]
        <3>1. CASE timers' = timers
            BY <3>1
        <3>2. ASSUME NEW m \in Mains, stop(m, f) PROVE timers'[n][e] = timers[n][e]
            BY <1>2, <3>2 DEF stop, EarlyInv, TypeOK
        <3> QED BY <3>1, <3>2 DEF putToWait, Finish
    <2>3. ASSUME NEW n \in Mains, OnlyThisWait(e, n) PROVE OnlyThisWait(e, n)'
        <3>1. CalledByTimer(e, n)' => CalledByTimer(e, n)
            BY <1>0 DEF CalledByTimer
        <3> QED BY <1>0, <2>1, <2>2, <2>3, <3>1, FewerKeeps
    <2> QED BY <1>0, <2>1, <2>3 DEF NotEarly
<1>3. CASE f = e /\ putToWait(f)
    <2>1. row[e].status = "running" /\ timers' = timers
        BY <1>3 DEF putToWait
    <2>2. row'[e].status = "waiting"
        BY <1>3 DEF putToWait, EarlyInv, TypeOK
    <2>3. ASSUME NEW n \in Mains, OnlyThisWait(e, n) PROVE OnlyThisWait(e, n)'
        <3>1. timers'[n][e].state # "armed" /\ answered'[n][e] = Never
            BY <1>0, <2>1, <2>3 DEF OnlyThisWait, ForThisWait, AfterStep
        <3>2. ~CalledByTimer(e, n)
            BY <2>1, <2>3 DEF OnlyThisWait, ForThisWait, AfterStep
        <3>3. ~CalledByTimer(e, n)'
            BY <1>0, <3>2 DEF CalledByTimer
        <3> QED BY <3>1, <3>3 DEF OnlyThisWait
    <2> QED BY <1>0, <2>1, <2>2, <2>3 DEF NotEarly
<1>4. CASE f = e /\ (Finish(f) \/ \E m \in Mains : stop(m, f))
    <2>1. row'[e].status \in {"success", "canceled"}
        BY <1>1, <1>4 DEF Finish, stop, EarlyInv, TypeOK, Rows
    <2> QED BY <2>1 DEF NotEarly
<1> QED BY <1>2, <1>3, <1>4

LEMMA EarlyStep == EarlyInv /\ [Next]_vars => EarlyInv'
<1> SUFFICES ASSUME EarlyInv, [Next]_vars PROVE EarlyInv'
    OBVIOUS
<1>1. TypeOK'
    BY TypeStep DEF EarlyInv
<1>2. ASSUME NEW e \in Executions PROVE NotEarly(e)'
    <2>1. CASE UNCHANGED vars
        BY <2>1 DEF vars, tracking, EarlyInv, NotEarly, OnlyThisWait, ForThisWait, AfterStep, CalledByTimer
    <2>2. CASE Next
        BY <2>2, LeaderKeepsEarly, TickKeepsEarly, PollKeepsEarly, FireKeepsEarly,
           ReadKeepsEarly, AddKeepsEarly, RowKeepsEarly DEF Next
    <2> QED BY <2>1, <2>2
<1> QED BY <1>1, <1>2 DEF EarlyInv

\* Only add() takes an execution out of its wait to run, and a timer's call
\* that was not overtaken does so when the wait is over.
LEMMA EarlyOnlyStep ==
    ASSUME EarlyInv, [Next]_vars, NEW e \in Executions,
           row[e].status = "waiting", row[e].waitTill > 0, row'[e].status = "running"
    PROVE  \/ e \in overtaken'
           \/ \E m \in Mains, call \in Calls :
                call \in resuming[m] \ resuming'[m] /\ call.exec = e /\ call.by = "webhook"
<1>0. NotEarly(e) /\ row[e] \in Rows
    BY DEF EarlyInv, TypeOK
<1>1. ASSUME NEW m \in Mains, NEW call \in resuming[m], add(m, call)
      PROVE  \/ e \in overtaken'
             \/ \E n \in Mains, c \in Calls :
                  c \in resuming[n] \ resuming'[n] /\ c.exec = e /\ c.by = "webhook"
    <2>1. call \in Calls /\ call \notin resuming'[m]
        BY <1>1 DEF add, EarlyInv, TypeOK
    <2>2. call.exec = e
        BY <1>1 DEF add, EarlyInv, TypeOK
    <2>3. overtaken \subseteq overtaken'
        BY <1>1 DEF add
    <2>4. CASE e \in overtaken
        BY <2>3, <2>4
    <2>5. CASE e \notin overtaken
        <3>1. OnlyThisWait(e, m)
            BY <1>0, <2>5 DEF NotEarly
        <3>2. ~ForThisWait(e, 0)
            BY <1>0 DEF ForThisWait, AfterStep, Rows
        <3>3. call.by # "timer"
            BY <2>2, <3>1, <3>2 DEF OnlyThisWait, CalledByTimer
        <3>4. call.by = "webhook"
            BY <2>1, <3>3 DEF Calls
        <3> QED BY <2>1, <2>2, <3>4
    <2> QED BY <2>4, <2>5
<1>2. CASE Tick
    BY <1>0, <1>2 DEF Tick, Rows
<1>3. ASSUME NEW f \in Executions, putToWait(f) \/ Finish(f) \/ \E m \in Mains : stop(m, f)
      PROVE  FALSE
    <2>1. CASE f = e
        BY <1>0, <1>3, <2>1 DEF putToWait, Finish, stop, EarlyInv, TypeOK, Rows
    <2>2. CASE f # e
        BY <1>3, <2>2 DEF putToWait, Finish, stop, EarlyInv, TypeOK
    <2> QED BY <2>1, <2>2
<1>4. CASE UNCHANGED row
    BY <1>4
<1> QED BY <1>1, <1>2, <1>3, <1>4
        DEF Next, vars, startTracking, stopTracking, Crash, getWaitingExecutions,
            DatabaseAnswers, SetTimers, startExecution, executeWebhook, ReadExecution

\* "Add timers for each waiting execution that they get started at the correct
\* time": a timer resumes no execution early unless it was resumed by something
\* else meanwhile, for any mains, changes of leader, waits and crashes.
THEOREM EarlyOnlyIfOvertakenHolds == Spec => EarlyOnlyIfOvertaken
<1>1. EarlyInv /\ [Next]_vars
        => [\A e \in Executions :
                row[e].status = "waiting" /\ row[e].waitTill > 0 /\ row'[e].status = "running" =>
                    \/ e \in overtaken'
                    \/ \E m \in Mains, call \in Calls :
                        call \in resuming[m] \ resuming'[m] /\ call.exec = e /\ call.by = "webhook"]_vars
    BY EarlyOnlyStep
<1> QED BY <1>1, EarlyInit, EarlyStep, PTL DEF Spec, EarlyOnlyIfOvertaken
=============================================================================
