------------------------ MODULE LeaderElectionProofs ------------------------
(***************************************************************************)
(* Proofs about LeaderElection, for any mains, any lease of two check      *)
(* intervals or more and any number of starts and calls: its types, and    *)
(* that it implements Leadership while checks finish in time.              *)
(***************************************************************************)
EXTENDS LeaderElection, SequenceTheorems, TLAPS

(***************************************************************************)
(* The inductive invariant.  While no check was late, a main has at most   *)
(* one call under way, except for the DEL of a main that shuts down.       *)
(***************************************************************************)
OneCheck(m) ==
    \/ calls[m] = <<>> /\ replies[m] = <<>>
    \/ /\ ~due[m]
       /\ replies[m] = <<>>
       /\ \E c \in {"get", "set", "expire"} : calls[m] = <<c>>
    \/ /\ ~due[m]
       /\ calls[m] = <<>>
       /\ \E r \in Replies : r.call # "del" /\ replies[m] = <<r>>

\* A leader whose checks run owns the key, and renews it before it expires.
Renewing(m) ==
    /\ leaderKey = HostId(m)
    /\ \/ /\ keyTtl = Ttl
          /\ ~due[m]
          /\ calls[m] = <<>>
          /\ replies[m] = <<>> \/ \E r \in Replies : r.call = "expire" /\ replies[m] = <<r>>
       \/ /\ keyTtl >= Ttl - 1
          /\ \/ due[m] /\ calls[m] = <<>> /\ replies[m] = <<>>
             \/ ~due[m] /\ calls[m] \in {<<"get">>, <<"expire">>} /\ replies[m] = <<>>
             \/ /\ ~due[m]
                /\ calls[m] = <<>>
                /\ \E r \in Replies :
                    r.call = "get" /\ r.value = HostId(m) /\ replies[m] = <<r>>

NoDel(m) == \A i \in 1..Len(calls[m]) : calls[m][i] # "del"

\* A leader that shuts down owns the key until its DEL is executed.
DelPending(m) ==
    /\ leaderKey = HostId(m)
    /\ \/ /\ replies[m] = <<>>
          /\ calls[m] \in {<<"del">>, <<"get", "del">>, <<"expire", "del">>, <<"del", "expire">>}
       \/ /\ calls[m] = <<"del">>
          /\ \E r \in Replies :
                /\ replies[m] = <<r>>
                /\ r.call = "expire" \/ (r.call = "get" /\ r.value = HostId(m))

\* The answer to a SET that took the key has not been read.
HasWon(m) == replies[m] # <<>> /\ Head(replies[m]).call = "set" /\ Head(replies[m]).ok

LeaseInv(m) ==
    /\ phase[m] = "down" => calls[m] = <<>> /\ replies[m] = <<>> /\ ~due[m]
    /\ due[m] => Checking(m)
    /\ phase[m] \in {"booting", "up"} /\ services[m] => role[m] = "leader"
    /\ phase[m] # "closing" => OneCheck(m)
    /\ phase[m] = "closing" => NoDel(m) \/ DelPending(m)
    /\ Checking(m) /\ role[m] = "leader" => Renewing(m)
    /\ phase[m] # "closing" /\ HasWon(m) => leaderKey = HostId(m) /\ keyTtl = Ttl

IInv == TypeOK /\ (late \/ \A m \in Mains : LeaseInv(m))

-----------------------------------------------------------------------------
(* Types *)

\* The provers know the tail of a pair, not that appending makes one.
LEMMA AppendToOne ==
    ASSUME NEW S, NEW x \in S, NEW y \in S
    PROVE  Append(<<x>>, y) = <<x, y>>
<1>1. <<x>> \in Seq(S) /\ <<x, y>> \in Seq(S)
    OBVIOUS
<1>2. /\ Append(<<x>>, y) \in Seq(S) /\ Len(Append(<<x>>, y)) = 2
      /\ Append(<<x>>, y)[1] = x /\ Append(<<x>>, y)[2] = y
    BY <1>1
<1>3. Len(<<x, y>>) = 2 /\ <<x, y>>[1] = x /\ <<x, y>>[2] = y
    OBVIOUS
<1>4. \A i \in 1..2 : Append(<<x>>, y)[i] = <<x, y>>[i]
    BY <1>2, <1>3
<1> QED BY <1>1, <1>2, <1>3, <1>4, SeqEqual

LEMMA AppendCommands ==
    /\ Append(<<"get">>, "del") = <<"get", "del">>
    /\ Append(<<"expire">>, "del") = <<"expire", "del">>
    /\ Append(<<"del">>, "expire") = <<"del", "expire">>
<1>1. "get" \in Commands /\ "del" \in Commands /\ "expire" \in Commands
    BY DEF Commands
<1> QED BY <1>1, AppendToOne

LEMMA TailCommands ==
    /\ Tail(<<"get", "del">>) = <<"del">> /\ Head(<<"get", "del">>) = "get"
    /\ Tail(<<"expire", "del">>) = <<"del">> /\ Head(<<"expire", "del">>) = "expire"
    /\ Tail(<<"del", "expire">>) = <<"expire">> /\ Tail(<<"del">>) = <<>>
OBVIOUS

\* A main's host ID is one of those there can be, and never None.
LEMMA HostIdType ==
    ASSUME TypeOK, NEW m \in Mains
    PROVE  HostId(m) \in HostIds /\ HostId(m) # None
<1>1. starts[m] \in 0..MaxStarts[m] /\ 0 \in 0..MaxStarts[m]
    BY ElectionAssumption DEF TypeOK
<1>2. HostId(m) \in {m} \X (0..MaxStarts[m])
    BY <1>1 DEF HostId
<1>3. HostId(m) \in HostIds
    BY <1>2 DEF HostIds
<1> QED BY <1>3, ElectionAssumption

\* The ID tells whose it is.
LEMMA HostIdOwner ==
    ASSUME NEW m \in Mains, NEW n \in Mains, HostId(m) = HostId(n)
    PROVE  m = n
BY DEF HostId

LEMMA InitType == Init => TypeOK
<1> SUFFICES ASSUME Init PROVE TypeOK
    OBVIOUS
<1>1. \A m \in Mains : 0 <= MaxStarts[m]
    BY ElectionAssumption
<1>2. <<>> \in Seq(Commands) /\ <<>> \in Seq(Replies)
    OBVIOUS
<1>3. 0 \in 0..Ttl
    BY ElectionAssumption
<1> QED BY <1>1, <1>2, <1>3 DEF Init, TypeOK, Phases, Roles

\* What a main reads or Redis executes leaves well-typed queues.
LEMMA QueueTypes ==
    ASSUME TypeOK, NEW m \in Mains
    PROVE  /\ calls[m] \in Seq(Commands)
           /\ replies[m] \in Seq(Replies)
           /\ \A c \in Commands : Append(calls[m], c) \in Seq(Commands)
           /\ calls[m] # <<>> => Head(calls[m]) \in Commands /\ Tail(calls[m]) \in Seq(Commands)
           /\ replies[m] # <<>> => Head(replies[m]) \in Replies /\ Tail(replies[m]) \in Seq(Replies)
           /\ \A r \in Replies : Append(replies[m], r) \in Seq(Replies)
<1>1. calls[m] \in Seq(Commands) /\ replies[m] \in Seq(Replies)
    BY DEF TypeOK
<1> QED BY <1>1

LEMMA RedisType ==
    ASSUME TypeOK, NEW m \in Mains, RedisExecutes(m)
    PROVE  TypeOK'
<1>1. /\ Head(calls[m]) \in Commands
      /\ Tail(calls[m]) \in Seq(Commands)
      /\ \A r \in Replies : Append(replies[m], r) \in Seq(Replies)
    BY QueueTypes DEF RedisExecutes
<1>2. calls' \in [Mains -> Seq(Commands)]
    BY <1>1 DEF RedisExecutes, TypeOK
<1>3. \A value \in HostIds \cup {None}, ok \in BOOLEAN :
        Reply(m, value, ok) => replies' \in [Mains -> Seq(Replies)]
    <2> SUFFICES ASSUME NEW value \in HostIds \cup {None}, NEW ok \in BOOLEAN,
                        Reply(m, value, ok)
                 PROVE  replies' \in [Mains -> Seq(Replies)]
        OBVIOUS
    <2>1. [call |-> Head(calls[m]), value |-> value, ok |-> ok] \in Replies
        BY <1>1 DEF Replies
    <2> QED BY <1>1, <2>1 DEF Reply, TypeOK
<1>4. leaderKey' \in HostIds \cup {None} /\ keyTtl' \in 0..Ttl
    <2>1. HostId(m) \in HostIds /\ leaderKey \in HostIds \cup {None} /\ keyTtl \in 0..Ttl
        BY HostIdType DEF TypeOK
    <2>2. Ttl \in 0..Ttl /\ 0 \in 0..Ttl
        BY ElectionAssumption
    <2> QED BY <2>1, <2>2 DEF RedisExecutes, Get, SetIfNotExists, SetExpiration, Clear, redis
<1>5. replies' \in [Mains -> Seq(Replies)]
    BY <1>3 DEF TypeOK, RedisExecutes, Get, SetIfNotExists, SetExpiration, Clear
<1> QED BY <1>2, <1>4, <1>5 DEF TypeOK, RedisExecutes

LEMMA ContinueType ==
    ASSUME TypeOK, NEW m \in Mains, Continue(m)
    PROVE  TypeOK'
<1>1. replies[m] # <<>> /\ replies' = [replies EXCEPT ![m] = Tail(@)]
    BY DEF Continue, LeaderIsSelf, LeaderIsOther, LeadershipVacant, tryBecomeLeader, Done, Answered
<1>2. replies' \in [Mains -> Seq(Replies)]
    BY <1>1, QueueTypes DEF TypeOK
<1>3. calls' \in [Mains -> Seq(Commands)]
    <2>1. Append(calls[m], "expire") \in Seq(Commands) /\ Append(calls[m], "set") \in Seq(Commands)
        BY QueueTypes DEF Commands
    <2> QED
        BY <2>1 DEF Continue, LeaderIsSelf, LeaderIsOther, LeadershipVacant, tryBecomeLeader, Done,
                    TypeOK
<1>4. services' \in [Mains -> BOOLEAN] /\ role' \in [Mains -> Roles] /\ phase' \in [Mains -> Phases]
    BY DEF Continue, LeaderIsSelf, LeaderIsOther, LeadershipVacant, tryBecomeLeader, Done, Emit,
           TypeOK, Roles, Phases
<1>5. UNCHANGED <<redis, starts, due, late>>
    BY DEF Continue, LeaderIsSelf, LeaderIsOther, LeadershipVacant, tryBecomeLeader, Done
<1> QED BY <1>2, <1>3, <1>4, <1>5 DEF TypeOK, redis

\* Starting and stopping, and the beginning of a check.
LEMMA ProcessType ==
    ASSUME TypeOK, NEW m \in Mains,
           \/ StartMain(m) \/ InitServices(m) \/ registerEventHandlers(m)
           \/ checkLeader(m) \/ stopProcess(m) \/ shutdown(m) \/ Exit(m) \/ Crash(m)
    PROVE  TypeOK'
<1>1. /\ <<>> \in Seq(Commands) /\ <<>> \in Seq(Replies) /\ <<"set">> \in Seq(Commands)
      /\ Append(calls[m], "get") \in Seq(Commands) /\ Append(calls[m], "del") \in Seq(Commands)
    BY QueueTypes DEF Commands
<1>2. CASE StartMain(m)
    <2>1. starts[m] + 1 \in Nat /\ starts[m] + 1 <= MaxStarts[m]
        <3>1. starts[m] \in Nat /\ MaxStarts[m] \in Nat /\ starts[m] < MaxStarts[m]
            BY <1>2, ElectionAssumption DEF StartMain, TypeOK
        <3> QED BY <3>1
    <2> QED BY <1>1, <1>2, <2>1 DEF StartMain, TypeOK, Phases, redis
<1>3. CASE InitServices(m) \/ registerEventHandlers(m)
    BY <1>3 DEF InitServices, registerEventHandlers, TypeOK, Phases, redis
<1>4. CASE checkLeader(m)
    BY <1>1, <1>4 DEF checkLeader, TypeOK, redis
<1>5. CASE stopProcess(m)
    BY <1>5 DEF stopProcess, TypeOK, Phases, redis
<1>6. CASE shutdown(m)
    BY <1>1, <1>6 DEF shutdown, TypeOK, Phases, redis
<1>7. CASE Exit(m) \/ Crash(m)
    <2>1. Gone(m)
        BY <1>7 DEF Exit, Crash
    <2>2. phase' \in [Mains -> Phases] /\ role' \in [Mains -> Roles]
        BY <2>1 DEF Gone, TypeOK, Phases, Roles
    <2>3. calls' \in [Mains -> Seq(Commands)] /\ replies' \in [Mains -> Seq(Replies)]
        BY <1>1, <2>1 DEF Gone, TypeOK
    <2> QED BY <2>1, <2>2, <2>3 DEF Gone, TypeOK, redis
<1> QED BY <1>2, <1>3, <1>4, <1>5, <1>6, <1>7

LEMMA TickType == TypeOK /\ Tick => TypeOK'
<1> SUFFICES ASSUME TypeOK, Tick PROVE TypeOK'
    OBVIOUS
<1>1. keyTtl' \in 0..Ttl
    BY ElectionAssumption DEF Tick, TypeOK
<1> QED BY <1>1 DEF Tick, TypeOK, Checking

LEMMA TypeStep == TypeOK /\ [Next]_vars => TypeOK'
<1> SUFFICES ASSUME TypeOK, [Next]_vars PROVE TypeOK'
    OBVIOUS
<1>1. CASE Tick
    BY <1>1, TickType
<1>2. ASSUME NEW m \in Mains, StartMain(m) \/ Step(m) \/ stopProcess(m) \/ Crash(m)
      PROVE  TypeOK'
    BY <1>2, RedisType, ContinueType, ProcessType DEF Step
<1>3. CASE UNCHANGED vars
    BY <1>3 DEF vars, redis, TypeOK
<1> QED BY <1>1, <1>2, <1>3 DEF Next

\* Every variable keeps its type.
THEOREM TypeHolds == Spec => []TypeOK
<1> QED BY InitType, TypeStep, PTL DEF Spec

-----------------------------------------------------------------------------
(* The lease *)

\* Nothing of main m and nothing in Redis changes.
Same(m) ==
    /\ phase'[m] = phase[m] /\ role'[m] = role[m] /\ starts'[m] = starts[m]
    /\ due'[m] = due[m] /\ calls'[m] = calls[m] /\ replies'[m] = replies[m]
    /\ services'[m] = services[m]

LEMMA Unaffected ==
    ASSUME NEW m \in Mains, LeaseInv(m), Same(m), UNCHANGED redis
    PROVE  LeaseInv(m)'
<1>1. HostId(m)' = HostId(m) /\ leaderKey' = leaderKey /\ keyTtl' = keyTtl /\ Checking(m)' = Checking(m)
    BY DEF HostId, Same, redis, Checking
<1>2. /\ OneCheck(m)' = OneCheck(m) /\ Renewing(m)' = Renewing(m) /\ NoDel(m)' = NoDel(m)
      /\ DelPending(m)' = DelPending(m) /\ HasWon(m)' = HasWon(m)
    BY <1>1 DEF Same, OneCheck, Renewing, NoDel, DelPending, HasWon
<1> QED BY <1>1, <1>2 DEF LeaseInv, Same

\* A step of one main leaves the others alone unless it is Redis'.
LEMMA LocalStep ==
    ASSUME TypeOK, NEW m \in Mains, NEW n \in Mains, n # m, LeaseInv(n),
           \/ StartMain(m) \/ InitServices(m) \/ registerEventHandlers(m)
           \/ checkLeader(m) \/ Continue(m) \/ stopProcess(m) \/ shutdown(m)
           \/ Exit(m) \/ Crash(m)
    PROVE  LeaseInv(n)'
<1>1. UNCHANGED redis
    BY DEF StartMain, InitServices, registerEventHandlers, checkLeader, Continue, stopProcess,
           shutdown, Exit, Crash, Gone, LeaderIsSelf, LeaderIsOther, LeadershipVacant,
           tryBecomeLeader, Done, redis
<1>2. Same(n)
    BY DEF Same, TypeOK, StartMain, InitServices, registerEventHandlers, checkLeader, Continue,
           stopProcess, shutdown, Exit, Crash, Gone, LeaderIsSelf, LeaderIsOther,
           LeadershipVacant, tryBecomeLeader, Done, Answered, Emit
<1> QED BY <1>1, <1>2, Unaffected

\* Redis executing a call of one main keeps the invariant of another: a SET
\* takes only a vacant key, a DEL only removes the caller's own.
LEMMA RedisOther ==
    ASSUME TypeOK, NEW m \in Mains, NEW n \in Mains, n # m, LeaseInv(m), LeaseInv(n),
           RedisExecutes(m)
    PROVE  LeaseInv(n)'
<1>1. Same(n)
    BY DEF Same, TypeOK, RedisExecutes, Get, SetIfNotExists, SetExpiration, Clear, Reply
<1>2. HostId(n)' = HostId(n) /\ Checking(n)' = Checking(n)
    BY <1>1 DEF HostId, Same, Checking
<1>3. OneCheck(n)' = OneCheck(n) /\ NoDel(n)' = NoDel(n) /\ HasWon(n)' = HasWon(n)
    BY <1>1 DEF Same, OneCheck, NoDel, HasWon
<1>4. HostId(n) # None /\ HostId(m) # None /\ HostId(n) # HostId(m)
    BY HostIdType, HostIdOwner
<1>5. CASE leaderKey # HostId(n) /\ leaderKey' # HostId(n)
    BY <1>1, <1>2, <1>3, <1>5 DEF LeaseInv, Renewing, DelPending, Same
<1>6. CASE leaderKey = HostId(n)
    <2>1. ~Clear(m)
        <3> SUFFICES ASSUME Clear(m) PROVE FALSE
            OBVIOUS
        <3>1. calls[m] # <<>> /\ calls[m][1] = "del" /\ 1 \in 1..Len(calls[m])
            BY QueueTypes DEF RedisExecutes, Clear
        <3>2. ~NoDel(m)
            BY <3>1 DEF NoDel
        <3>3. ~OneCheck(m)
            BY <3>1 DEF OneCheck
        <3>4. DelPending(m)
            BY <3>2, <3>3 DEF LeaseInv
        <3> QED BY <3>4, <1>4, <1>6 DEF DelPending
    <2>2. leaderKey' = leaderKey /\ (keyTtl' = keyTtl \/ keyTtl' = Ttl)
        BY <1>4, <1>6, <2>1 DEF RedisExecutes, Get, SetIfNotExists, SetExpiration, redis
    <2>3. Renewing(n) => Renewing(n)'
        BY <1>1, <1>2, <2>2, ElectionAssumption DEF Renewing, Same
    <2>4. DelPending(n)' = DelPending(n)
        BY <1>1, <1>2, <2>2 DEF DelPending, Same
    <2> QED BY <1>1, <1>2, <1>3, <2>2, <2>3, <2>4 DEF LeaseInv, Same
<1>7. CASE leaderKey # HostId(n) /\ leaderKey' = HostId(n)
    BY <1>4, <1>7 DEF RedisExecutes, Get, SetIfNotExists, SetExpiration, Clear, redis
<1> QED BY <1>5, <1>6, <1>7

\* A process that has ended holds nothing.
LEMMA EndKeepsLease ==
    ASSUME TypeOK, NEW m \in Mains, Exit(m) \/ Crash(m)
    PROVE  LeaseInv(m)'
<1>1. Gone(m)
    BY DEF Exit, Crash
<1>2. /\ phase'[m] = "down" /\ due'[m] = FALSE /\ services'[m] = FALSE
      /\ calls'[m] = <<>> /\ replies'[m] = <<>>
    BY <1>1 DEF Gone, TypeOK
<1> QED BY <1>2 DEF LeaseInv, OneCheck, Checking, HasWon

LEMMA StartKeepsLease ==
    ASSUME TypeOK, NEW m \in Mains, LeaseInv(m), StartMain(m)
    PROVE  LeaseInv(m)'
<1>1. phase'[m] = "electing" /\ calls'[m] = <<"set">> /\ replies'[m] = <<>> /\ ~due'[m]
    BY DEF StartMain, LeaseInv, TypeOK
<1> QED BY <1>1 DEF LeaseInv, OneCheck, Checking, HasWon

\* Reaching "booting" and "up", and beginning to stop.
LEMMA PhaseKeepsLease ==
    ASSUME TypeOK, NEW m \in Mains, LeaseInv(m),
           InitServices(m) \/ registerEventHandlers(m) \/ stopProcess(m)
    PROVE  LeaseInv(m)'
<1>1. /\ UNCHANGED <<leaderKey, keyTtl>>
      /\ role'[m] = role[m] /\ starts'[m] = starts[m] /\ due'[m] = due[m]
      /\ calls'[m] = calls[m] /\ replies'[m] = replies[m]
    BY DEF InitServices, registerEventHandlers, stopProcess, redis
<1>2. /\ phase[m] \in {"elected", "booting", "up"}
      /\ phase'[m] \in {"booting", "up", "stopping"}
      /\ phase'[m] \in {"booting", "up"} /\ services'[m] => role[m] = "leader"
    BY DEF InitServices, registerEventHandlers, stopProcess, TypeOK, LeaseInv
<1>3. Checking(m) /\ Checking(m)'
    BY <1>2 DEF Checking
<1>4. /\ HostId(m)' = HostId(m) /\ OneCheck(m)' = OneCheck(m)
      /\ HasWon(m)' = HasWon(m)
    BY <1>1 DEF HostId, OneCheck, HasWon
<1>5. Renewing(m)' = Renewing(m)
    BY <1>1, <1>4 DEF Renewing
<1> QED BY <1>1, <1>2, <1>3, <1>4, <1>5 DEF LeaseInv

LEMMA CheckKeepsLease ==
    ASSUME TypeOK, NEW m \in Mains, LeaseInv(m), checkLeader(m)
    PROVE  LeaseInv(m)'
<1>1. due[m] /\ Checking(m) /\ phase[m] # "closing"
    BY DEF checkLeader, LeaseInv, Checking
<1>2. calls[m] = <<>> /\ replies[m] = <<>>
    BY <1>1 DEF LeaseInv, OneCheck
<1>3. calls'[m] = <<"get">>
    BY <1>2 DEF checkLeader, TypeOK
<1>4. /\ UNCHANGED <<leaderKey, keyTtl>> /\ ~due'[m] /\ replies'[m] = <<>>
      /\ phase'[m] = phase[m] /\ role'[m] = role[m] /\ starts'[m] = starts[m]
      /\ services'[m] = services[m]
    BY <1>2 DEF checkLeader, redis, TypeOK
<1>5. OneCheck(m)' /\ ~HasWon(m)'
    BY <1>3, <1>4 DEF OneCheck, HasWon
<1>6. HostId(m)' = HostId(m) /\ Checking(m)' = Checking(m)
    BY <1>4 DEF HostId, Checking
<1>7. Renewing(m) => Renewing(m)'
    BY <1>1, <1>3, <1>4, <1>6 DEF Renewing
<1> QED BY <1>1, <1>4, <1>5, <1>6, <1>7 DEF LeaseInv, Checking

LEMMA ShutdownKeepsLease ==
    ASSUME TypeOK, NEW m \in Mains, LeaseInv(m), shutdown(m)
    PROVE  LeaseInv(m)'
<1>1. /\ phase[m] = "stopping" /\ phase'[m] = "closing" /\ ~due'[m]
      /\ UNCHANGED <<leaderKey, keyTtl>> /\ starts'[m] = starts[m] /\ replies'[m] = replies[m]
    BY DEF shutdown, redis, TypeOK
<1>2. HostId(m)' = HostId(m) /\ ~Checking(m)'
    BY <1>1 DEF HostId, Checking
<1>3. CASE role[m] = "leader"
    <2>1. calls'[m] = Append(calls[m], "del")
        BY <1>3 DEF shutdown, TypeOK
    <2>2. Renewing(m)
        BY <1>1, <1>3 DEF LeaseInv, Checking
    <2>3. DelPending(m)'
        <3>1. CASE calls[m] = <<>>
            <4>1. calls'[m] = <<"del">>
                BY <2>1, <3>1
            <4> QED BY <1>1, <1>2, <2>2, <4>1 DEF Renewing, DelPending
        <3>2. CASE calls[m] \in {<<"get">>, <<"expire">>} /\ replies[m] = <<>>
            <4>1. calls'[m] \in {<<"get", "del">>, <<"expire", "del">>}
                BY <2>1, <3>2, AppendCommands
            <4> QED BY <1>1, <1>2, <2>2, <3>2, <4>1 DEF Renewing, DelPending
        <3> QED BY <2>2, <3>1, <3>2 DEF Renewing
    <2> QED BY <1>1, <1>2, <2>3 DEF LeaseInv
<1>4. CASE role[m] # "leader"
    <2>1. calls'[m] = calls[m] /\ OneCheck(m)
        BY <1>1, <1>4 DEF shutdown, LeaseInv
    <2>2. NoDel(m)'
        BY <2>1 DEF OneCheck, NoDel
    <2> QED BY <1>1, <1>2, <2>2 DEF LeaseInv
<1> QED BY <1>3, <1>4

\* Redis executes a call of main m itself.
LEMMA RedisKeepsLease ==
    ASSUME TypeOK, NEW m \in Mains, LeaseInv(m), RedisExecutes(m)
    PROVE  LeaseInv(m)'
<1>1. /\ calls[m] # <<>> /\ calls'[m] = Tail(calls[m])
      /\ phase'[m] = phase[m] /\ role'[m] = role[m] /\ starts'[m] = starts[m]
      /\ due'[m] = due[m] /\ services'[m] = services[m]
    BY DEF RedisExecutes, TypeOK
<1>2. HostId(m)' = HostId(m) /\ Checking(m)' = Checking(m) /\ HostId(m) # None
    BY <1>1, HostIdType DEF HostId, Checking
<1>3. \A v, ok : Reply(m, v, ok) =>
        replies'[m] = Append(replies[m], [call |-> Head(calls[m]), value |-> v, ok |-> ok])
    BY DEF Reply, TypeOK
<1>4. CASE phase[m] # "closing"
    <2>1. PICK c \in {"get", "set", "expire"} : calls[m] = <<c>>
        BY <1>1, <1>4 DEF LeaseInv, OneCheck
    <2>2. replies[m] = <<>> /\ ~due[m] /\ phase[m] # "down"
        BY <1>1, <1>4 DEF LeaseInv, OneCheck
    <2>3. calls'[m] = <<>> /\ Head(calls[m]) = c
        BY <1>1, <2>1
    <2>4. \A v \in HostIds \cup {None}, ok \in BOOLEAN : Reply(m, v, ok) =>
            LET r == [call |-> c, value |-> v, ok |-> ok]
            IN  r \in Replies /\ r.call # "del" /\ replies'[m] = <<r>>
        BY <1>3, <2>2, <2>3, <2>1 DEF Replies, Commands
    <2>5. leaderKey \in HostIds \cup {None}
        BY DEF TypeOK
    <2>6. CASE c = "get"
        <3>1. Reply(m, leaderKey, TRUE) /\ UNCHANGED <<leaderKey, keyTtl>>
            BY <2>3, <2>6 DEF RedisExecutes, Get, SetIfNotExists, SetExpiration, Clear, redis
        <3>2. PICK r \in Replies : r.call = "get" /\ r.value = leaderKey /\ replies'[m] = <<r>>
            BY <2>4, <2>5, <2>6, <3>1
        <3>3. OneCheck(m)'
            BY <1>1, <2>2, <2>3, <3>2 DEF OneCheck
        <3>5. ~HasWon(m)'
            BY <3>2 DEF HasWon
        <3>4. Renewing(m) => Renewing(m)'
            BY <1>1, <1>2, <2>1, <2>2, <2>3, <3>1, <3>2 DEF Renewing
        <3> QED BY <1>1, <1>2, <1>4, <2>2, <3>3, <3>4, <3>5 DEF LeaseInv
    <2>7. CASE c = "set"
        <3>1. SetIfNotExists(m) /\ Reply(m, None, leaderKey = None)
            BY <2>3, <2>7 DEF RedisExecutes, Get, SetIfNotExists, SetExpiration, Clear
        <3>2. PICK r \in Replies :
                r.call = "set" /\ (r.ok => leaderKey = None) /\ replies'[m] = <<r>>
            BY <2>4, <2>7, <3>1
        <3>3. OneCheck(m)'
            BY <1>1, <2>2, <2>3, <3>2 DEF OneCheck
        <3>4. ~Renewing(m)
            BY <2>1, <2>2, <2>7 DEF Renewing
        <3>5. HasWon(m)' => leaderKey' = HostId(m)' /\ keyTtl' = Ttl
            BY <1>2, <3>1, <3>2 DEF HasWon, SetIfNotExists
        <3> QED BY <1>1, <1>2, <1>4, <2>2, <3>3, <3>4, <3>5 DEF LeaseInv
    <2>8. CASE c = "expire"
        <3>1. SetExpiration(m) /\ Reply(m, None, TRUE) /\ leaderKey' = leaderKey
            BY <2>3, <2>8 DEF RedisExecutes, Get, SetIfNotExists, SetExpiration, Clear, redis
        <3>2. PICK r \in Replies : r.call = "expire" /\ replies'[m] = <<r>>
            BY <2>4, <2>8, <3>1
        <3>3. OneCheck(m)'
            BY <1>1, <2>2, <2>3, <3>2 DEF OneCheck
        <3>5. ~HasWon(m)'
            BY <3>2 DEF HasWon
        <3>4. Renewing(m) => Renewing(m)'
            BY <1>1, <1>2, <2>2, <2>3, <3>1, <3>2 DEF Renewing, SetExpiration
        <3> QED BY <1>1, <1>2, <1>4, <2>2, <3>3, <3>4, <3>5 DEF LeaseInv
    <2> QED BY <2>6, <2>7, <2>8
<1>5. CASE phase[m] = "closing"
    <2>1. NoDel(m) => NoDel(m)'
        BY <1>1, QueueTypes DEF NoDel
    <2>2. ASSUME DelPending(m), ~NoDel(m)' PROVE DelPending(m)'
        <3>1. CASE replies[m] = <<>> /\ calls[m] \in {<<"get", "del">>, <<"expire", "del">>}
            <4>1. calls'[m] = <<"del">> /\ Head(calls[m]) \in {"get", "expire"}
                BY <1>1, <3>1, TailCommands
            <4>2. leaderKey' = leaderKey
                BY <2>2, <1>2, <4>1 DEF DelPending, RedisExecutes, Get, SetIfNotExists,
                        SetExpiration, Clear, redis
            <4>3. PICK r \in Replies :
                    /\ r.call = "expire" \/ (r.call = "get" /\ r.value = leaderKey)
                    /\ replies'[m] = <<r>>
                <5>1. /\ [call |-> "get", value |-> leaderKey, ok |-> TRUE] \in Replies
                      /\ [call |-> "expire", value |-> None, ok |-> TRUE] \in Replies
                    BY DEF TypeOK, Replies, Commands
                <5>2. CASE Head(calls[m]) = "get"
                    <6>1. Reply(m, leaderKey, TRUE)
                        BY <5>2 DEF RedisExecutes, Get, SetIfNotExists, SetExpiration, Clear
                    <6>2. replies'[m] = Append(<<>>, [call |-> "get", value |-> leaderKey, ok |-> TRUE])
                        BY <3>1, <5>2, <6>1 DEF Reply, TypeOK
                    <6> QED BY <5>1, <6>2
                <5>3. CASE Head(calls[m]) = "expire"
                    <6>1. Reply(m, None, TRUE)
                        BY <5>3 DEF RedisExecutes, Get, SetIfNotExists, SetExpiration, Clear
                    <6>2. replies'[m] = Append(<<>>, [call |-> "expire", value |-> None, ok |-> TRUE])
                        BY <3>1, <5>3, <6>1 DEF Reply, TypeOK
                    <6> QED BY <5>1, <6>2
                <5> QED BY <4>1, <5>2, <5>3
            <4> QED BY <1>2, <2>2, <4>1, <4>2, <4>3 DEF DelPending
        <3>2. CASE calls[m] \in {<<"del">>, <<"del", "expire">>}
            <4>1. calls'[m] \in {<<>>, <<"expire">>}
                BY <1>1, <3>2, TailCommands
            <4>2. NoDel(m)'
                BY <4>1 DEF NoDel
            <4> QED BY <2>2, <4>2
        <3> QED BY <2>2, <3>1, <3>2 DEF DelPending
    <2>3. phase'[m] = "closing" /\ ~due'[m] /\ ~Checking(m)'
        BY <1>1, <1>5 DEF LeaseInv, Checking
    <2> QED BY <1>5, <2>1, <2>2, <2>3 DEF LeaseInv
<1> QED BY <1>4, <1>5

\* Main m reads an answer of Redis while it is not shutting down: it was the
\* only one, and unless it is to a SET a leader finds that it still leads.
LEMMA AnswerRead ==
    ASSUME TypeOK, NEW m \in Mains, LeaseInv(m), phase[m] # "closing",
           replies[m] # <<>>
    PROVE  /\ calls[m] = <<>> /\ Tail(replies[m]) = <<>> /\ ~due[m] /\ phase[m] # "down"
           /\ Checking(m) /\ role[m] = "leader" =>
                /\ leaderKey = HostId(m) /\ keyTtl >= Ttl - 1
                /\ \/ Head(replies[m]).call = "expire" /\ keyTtl = Ttl
                   \/ Head(replies[m]).call = "get" /\ Head(replies[m]).value = HostId(m)
<1>1. PICK r \in Replies : replies[m] = <<r>>
    BY DEF LeaseInv, OneCheck
<1>2. Head(replies[m]) = r /\ Tail(replies[m]) = <<>>
    BY <1>1
<1>3. calls[m] = <<>> /\ ~due[m] /\ phase[m] # "down"
    BY DEF LeaseInv, OneCheck
<1>4. ASSUME Checking(m), role[m] = "leader"
      PROVE  /\ leaderKey = HostId(m) /\ keyTtl >= Ttl - 1
             /\ \/ Head(replies[m]).call = "expire" /\ keyTtl = Ttl
                \/ Head(replies[m]).call = "get" /\ Head(replies[m]).value = HostId(m)
    <2>1. Renewing(m)
        BY <1>4 DEF LeaseInv
    <2>2. \A q \in Replies : replies[m] = <<q>> => q = r
        BY <1>1
    <2> QED BY <1>2, <2>1, <2>2, ElectionAssumption DEF Renewing
<1> QED BY <1>2, <1>3, <1>4

\* The same while it shuts down: the DEL is the only call that counts.
LEMMA AnswerReadClosing ==
    ASSUME TypeOK, NEW m \in Mains, LeaseInv(m), phase[m] = "closing",
           replies[m] # <<>>, ~NoDel(m)
    PROVE  /\ leaderKey = HostId(m) /\ calls[m] = <<"del">> /\ Tail(replies[m]) = <<>>
           /\ \/ Head(replies[m]).call = "expire"
              \/ Head(replies[m]).call = "get" /\ Head(replies[m]).value = HostId(m)
<1>1. DelPending(m)
    BY DEF LeaseInv
<1>2. PICK r \in Replies :
        replies[m] = <<r>> /\ (r.call = "expire" \/ (r.call = "get" /\ r.value = HostId(m)))
    BY <1>1 DEF DelPending
<1>3. Head(replies[m]) = r /\ Tail(replies[m]) = <<>>
    BY <1>2
<1> QED BY <1>1, <1>2, <1>3 DEF DelPending

LEMMA ContinueKeepsLease ==
    ASSUME TypeOK, NEW m \in Mains, LeaseInv(m), Continue(m)
    PROVE  LeaseInv(m)'
<1>1. /\ replies[m] # <<>> /\ replies'[m] = Tail(replies[m])
      /\ UNCHANGED <<leaderKey, keyTtl>> /\ starts'[m] = starts[m] /\ due'[m] = due[m]
      /\ HostId(m)' = HostId(m) /\ HostId(m) # None
    BY HostIdType DEF Continue, LeaderIsSelf, LeaderIsOther, LeadershipVacant, tryBecomeLeader,
        Done, Answered, TypeOK, redis, HostId
<1>2. phase[m] # "electing" => phase'[m] = phase[m]
    BY DEF Continue, LeaderIsSelf, LeaderIsOther, LeadershipVacant, tryBecomeLeader, Done, TypeOK
<1>3. CASE phase[m] = "closing"
    <2>1. phase'[m] = "closing" /\ ~due'[m] /\ ~Checking(m)'
        BY <1>1, <1>2, <1>3 DEF LeaseInv, Checking
    <2>2. calls'[m] \in {calls[m], Append(calls[m], "expire"), Append(calls[m], "set")}
        BY DEF Continue, LeaderIsSelf, LeaderIsOther, LeadershipVacant, tryBecomeLeader, Done, TypeOK
    <2>3. ASSUME NoDel(m) PROVE NoDel(m)'
        <3>1. calls[m] \in Seq(Commands)
            BY QueueTypes
        <3>2. ASSUME NEW c \in {"expire", "set"}
              PROVE  \A i \in 1..Len(Append(calls[m], c)) : Append(calls[m], c)[i] # "del"
            BY <2>3, <3>1 DEF NoDel
        <3> QED BY <2>2, <2>3, <3>2 DEF NoDel
    <2>4. ASSUME ~NoDel(m) PROVE DelPending(m)'
        <3>1. calls[m] = <<"del">> /\ replies'[m] = <<>> /\ leaderKey' = HostId(m)'
            BY <1>1, <1>3, <2>4, AnswerReadClosing
        <3>2. LeaderIsSelf(m) \/ Done(m)
            BY <1>1, <1>3, <2>4, AnswerReadClosing
            DEF Continue, LeaderIsOther, LeadershipVacant, tryBecomeLeader, Answered, LeaderId
        <3>3. calls'[m] \in {<<"del">>, <<"del", "expire">>}
            BY <3>1, <3>2, AppendCommands DEF LeaderIsSelf, Done, TypeOK
        <3> QED BY <3>1, <3>3 DEF DelPending
    <2> QED BY <2>1, <2>3, <2>4 DEF LeaseInv
<1>4. CASE phase[m] # "closing"
    <2>1. /\ calls[m] = <<>> /\ replies'[m] = <<>> /\ ~due'[m]
          /\ phase'[m] # "down" /\ phase'[m] # "closing" /\ ~HasWon(m)'
        BY <1>1, <1>2, <1>4, AnswerRead DEF HasWon, Continue, LeaderIsSelf, LeaderIsOther,
            LeadershipVacant, tryBecomeLeader, Done, TypeOK
    <2>2. CASE LeaderIsSelf(m)
        <3>1. /\ calls'[m] = <<"expire">> /\ role'[m] = role[m] /\ services'[m] = services[m]
              /\ phase'[m] = phase[m] /\ Checking(m)' = Checking(m)
            BY <2>1, <2>2 DEF LeaderIsSelf, TypeOK, Checking
        <3>2. Head(replies[m]).call = "get"
            BY <2>2 DEF LeaderIsSelf, Answered
        <3>3. OneCheck(m)'
            BY <2>1, <3>1 DEF OneCheck
        <3>4. Checking(m)' /\ role'[m] = "leader" => Renewing(m)'
            BY <1>1, <1>4, <2>1, <3>1, <3>2, AnswerRead DEF Renewing
        <3> QED BY <1>4, <2>1, <3>1, <3>3, <3>4 DEF LeaseInv
    <2>3. CASE LeaderIsOther(m)
        <3>1. Head(replies[m]).call = "get" /\ Head(replies[m]).value # HostId(m)
            BY <2>3 DEF LeaderIsOther, Answered, LeaderId
        <3>2. Checking(m) => role[m] # "leader"
            BY <1>1, <1>4, <3>1, AnswerRead
        <3>3. calls'[m] = <<>> /\ phase'[m] = phase[m] /\ role'[m] # "leader"
            BY <2>1, <2>3 DEF LeaderIsOther, TypeOK
        <3>4. Checking(m) => services'[m] = services[m]
            BY <2>3, <3>2 DEF LeaderIsOther
        <3>5. OneCheck(m)'
            BY <2>1, <3>3 DEF OneCheck
        <3> QED BY <1>4, <2>1, <3>2, <3>3, <3>4, <3>5 DEF LeaseInv, Checking
    <2>4. CASE LeadershipVacant(m)
        <3>1. Head(replies[m]).call = "get" /\ Head(replies[m]).value # HostId(m)
            BY <1>1, <2>4 DEF LeadershipVacant, Answered, LeaderId
        <3>2. Checking(m) => role[m] # "leader"
            BY <1>1, <1>4, <3>1, AnswerRead
        <3>3. calls'[m] = <<"set">> /\ phase'[m] = phase[m] /\ role'[m] = "follower"
            BY <2>1, <2>4 DEF LeadershipVacant, TypeOK
        <3>4. services'[m] => services[m]
            BY <2>4 DEF LeadershipVacant, Emit, TypeOK
        <3>5. OneCheck(m)'
            BY <2>1, <3>3 DEF OneCheck
        <3> QED BY <1>4, <2>1, <3>2, <3>3, <3>4, <3>5 DEF LeaseInv, Checking
    <2>5. CASE tryBecomeLeader(m)
        <3>1. Head(replies[m]).call = "set"
            BY <2>5 DEF tryBecomeLeader, Answered
        <3>2. Checking(m) => role[m] # "leader"
            BY <1>1, <1>4, <3>1, AnswerRead
        <3>3. calls'[m] = <<>> /\ OneCheck(m)'
            BY <2>1, <2>5 DEF tryBecomeLeader, OneCheck
        <3>4. phase'[m] \in {"booting", "up"} => phase'[m] = phase[m]
            BY <1>2, <2>5 DEF tryBecomeLeader, TypeOK
        <3>5. CASE Head(replies[m]).ok
            <4>1. role'[m] = "leader"
                BY <2>5, <3>5 DEF tryBecomeLeader, TypeOK
            <4>2. leaderKey = HostId(m) /\ keyTtl = Ttl
                BY <1>1, <1>4, <3>1, <3>5 DEF HasWon, LeaseInv
            <4>3. Renewing(m)'
                BY <1>1, <2>1, <3>3, <4>2 DEF Renewing
            <4> QED BY <1>4, <2>1, <3>3, <4>1, <4>3 DEF LeaseInv
        <3>6. CASE ~Head(replies[m]).ok
            <4>1. role'[m] = "follower" /\ services'[m] = services[m]
                BY <2>5, <3>6 DEF tryBecomeLeader, TypeOK
            <4> QED BY <1>4, <2>1, <3>2, <3>3, <3>4, <4>1 DEF LeaseInv, Checking
        <3> QED BY <3>5, <3>6
    <2>6. CASE Done(m)
        <3>1. Head(replies[m]).call \in {"expire", "del"}
            BY <2>6 DEF Done, Answered
        <3>2. /\ calls'[m] = <<>> /\ role'[m] = role[m] /\ services'[m] = services[m]
              /\ phase'[m] = phase[m] /\ Checking(m)' = Checking(m)
            BY <2>1, <2>6 DEF Done, Checking
        <3>3. OneCheck(m)'
            BY <2>1, <3>2 DEF OneCheck
        <3>4. Checking(m)' /\ role'[m] = "leader" => Renewing(m)'
            BY <1>1, <1>4, <2>1, <3>1, <3>2, AnswerRead DEF Renewing
        <3> QED BY <1>4, <2>1, <3>2, <3>3, <3>4 DEF LeaseInv
    <2> QED BY <2>2, <2>3, <2>4, <2>5, <2>6 DEF Continue
<1> QED BY <1>3, <1>4

\* An interval passes in time: every leader has renewed the key, which was
\* just younger than its lease.
LEMMA TickKeepsLease ==
    ASSUME TypeOK, NEW m \in Mains, LeaseInv(m), Tick, ~late'
    PROVE  LeaseInv(m)'
<1>1. calls[m] = <<>> /\ replies[m] = <<>> /\ ~due[m]
    BY DEF Tick, Idle
<1>2. /\ phase'[m] = phase[m] /\ role'[m] = role[m] /\ services'[m] = services[m]
      /\ starts'[m] = starts[m] /\ calls'[m] = <<>> /\ replies'[m] = <<>>
      /\ due'[m] = Checking(m)
    BY <1>1 DEF Tick
<1>3. HostId(m)' = HostId(m) /\ Checking(m)' = Checking(m)
    BY <1>2 DEF HostId, Checking
<1>4. OneCheck(m)' /\ ~HasWon(m)' /\ NoDel(m)'
    BY <1>2 DEF OneCheck, HasWon, NoDel
<1>5. ASSUME Checking(m), role[m] = "leader" PROVE Renewing(m)'
    <2>1. leaderKey = HostId(m) /\ keyTtl = Ttl
        BY <1>1, <1>5 DEF LeaseInv, Renewing
    <2>2. keyTtl' = Ttl - 1 /\ keyTtl' # 0 /\ keyTtl' >= Ttl - 1
        BY <2>1, ElectionAssumption DEF Tick
    <2>3. leaderKey' = leaderKey
        BY <2>2 DEF Tick
    <2> QED BY <1>2, <1>3, <1>5, <2>1, <2>2, <2>3 DEF Renewing
<1>6. due'[m] => Checking(m)'
    BY <1>2, <1>3
<1>7. phase[m] = "down" => ~due'[m]
    BY <1>2 DEF Checking
<1> QED BY <1>2, <1>3, <1>4, <1>5, <1>6, <1>7 DEF LeaseInv

-----------------------------------------------------------------------------
(* The invariant *)

LEMMA InvInit == Init => IInv
<1> SUFFICES ASSUME Init PROVE IInv
    OBVIOUS
<1>1. ASSUME NEW m \in Mains PROVE LeaseInv(m)
    BY DEF Init, LeaseInv, OneCheck, Checking, HasWon
<1> QED BY <1>1, InitType DEF IInv

LEMMA InvStep == IInv /\ [Next]_vars => IInv'
<1> SUFFICES ASSUME IInv, [Next]_vars PROVE IInv'
    OBVIOUS
<1>1. TypeOK /\ TypeOK'
    BY TypeStep DEF IInv
<1>2. SUFFICES ASSUME ~late', NEW n \in Mains PROVE LeaseInv(n)'
    BY <1>1 DEF IInv
<1>3. ~late
    BY <1>2 DEF Next, vars, Tick, Step, StartMain, InitServices, registerEventHandlers, checkLeader,
        RedisExecutes, Continue, LeaderIsSelf, LeaderIsOther, LeadershipVacant, tryBecomeLeader,
        Done, stopProcess, shutdown, Exit, Crash, Gone
<1>4. \A m \in Mains : LeaseInv(m)
    BY <1>3 DEF IInv
<1>5. CASE Tick
    BY <1>1, <1>2, <1>4, <1>5, TickKeepsLease
<1>6. CASE UNCHANGED vars
    BY <1>4, <1>6, Unaffected DEF vars, Same
<1>7. ASSUME NEW m \in Mains, StartMain(m) \/ Step(m) \/ stopProcess(m) \/ Crash(m), m = n
      PROVE  LeaseInv(n)'
    BY <1>1, <1>4, <1>7, StartKeepsLease, PhaseKeepsLease, CheckKeepsLease, RedisKeepsLease,
        ContinueKeepsLease, ShutdownKeepsLease, EndKeepsLease DEF Step
<1>8. ASSUME NEW m \in Mains, StartMain(m) \/ Step(m) \/ stopProcess(m) \/ Crash(m), m # n
      PROVE  LeaseInv(n)'
    BY <1>1, <1>4, <1>8, LocalStep, RedisOther DEF Step
<1> QED BY <1>5, <1>6, <1>7, <1>8 DEF Next

LEMMA InvHolds == Spec => []IInv
<1> QED BY InvInit, InvStep, PTL DEF Spec

-----------------------------------------------------------------------------
(* Refinement *)

\* A main that serves leads and its checks run, so the key is its own.
LEMMA ServingOwns ==
    ASSUME IInv, ~late, NEW m \in Mains, Serving(m)
    PROVE  leaderKey = HostId(m)
BY DEF IInv, LeaseInv, Serving, Checking, Renewing

AtMostOne == \A m, n \in Mains : Serving(m) /\ Serving(n) => m = n

LEMMA OneServes == IInv /\ ~late => AtMostOne
BY ServingOwns, HostIdOwner DEF AtMostOne

\* A step changes at most one main's services, and a tick none's.
LEMMA ServesAlone ==
    ASSUME TypeOK, [Next]_vars
    PROVE  \/ \A n \in Mains : Serving(n)' = Serving(n)
           \/ \E m \in Mains : \A n \in Mains \ {m} : Serving(n)' = Serving(n)
<1>1. CASE Tick \/ UNCHANGED vars
    BY <1>1 DEF Tick, vars, Serving
<1>2. ASSUME NEW m \in Mains, StartMain(m) \/ Step(m) \/ stopProcess(m) \/ Crash(m)
      PROVE  \A n \in Mains \ {m} : phase'[n] = phase[n] /\ services'[n] = services[n]
    BY <1>2 DEF Step, TypeOK, StartMain, InitServices, registerEventHandlers, checkLeader,
        RedisExecutes, Continue, stopProcess, shutdown, Exit, Crash, Gone, LeaderIsSelf,
        LeaderIsOther, LeadershipVacant, tryBecomeLeader, Done, Emit
<1>3. ASSUME NEW m \in Mains, StartMain(m) \/ Step(m) \/ stopProcess(m) \/ Crash(m)
      PROVE  \A n \in Mains \ {m} : Serving(n)' = Serving(n)
    BY <1>2, <1>3 DEF Serving
<1> QED BY <1>1, <1>3 DEF Next

LeaderServing == IF late THEN {} ELSE {m \in Mains : Serving(m)}

LEMMA LeadershipStep ==
    IInv /\ [Next]_vars /\ (~late => AtMostOne) /\ (~late' => AtMostOne')
        => [L!LeadershipNext]_LeaderServing
<1> SUFFICES ASSUME IInv, [Next]_vars, ~late => AtMostOne, ~late' => AtMostOne',
                    LeaderServing' # LeaderServing
             PROVE  \E m \in Mains : L!TakeOver(m) \/ L!StepDown(m)
    BY DEF L!LeadershipNext
<1>1. ~late
    <2>1. late => late'
        BY DEF Next, vars, Tick, Step, StartMain, InitServices, registerEventHandlers, checkLeader,
            RedisExecutes, Continue, LeaderIsSelf, LeaderIsOther, LeadershipVacant,
            tryBecomeLeader, Done, stopProcess, shutdown, Exit, Crash, Gone
    <2> QED BY <2>1 DEF LeaderServing
<1>2. LeaderServing = {m \in Mains : Serving(m)} /\ AtMostOne
    BY <1>1 DEF LeaderServing
<1>3. CASE late'
    <2>1. LeaderServing' = {}
        BY <1>3 DEF LeaderServing
    <2>2. PICK m \in Mains : Serving(m)
        BY <1>2, <2>1
    <2>3. LeaderServing = {m}
        BY <1>2, <2>2 DEF AtMostOne
    <2>4. L!StepDown(m)
        BY <2>1, <2>3 DEF L!StepDown, LeaderServing
    <2> QED BY <2>4
<1>4. CASE ~late'
    <2>1. LeaderServing' = {m \in Mains : Serving(m)'} /\ AtMostOne'
        BY <1>4 DEF LeaderServing
    <2>2. PICK m \in Mains : \A n \in Mains \ {m} : Serving(n)' = Serving(n)
        BY <1>2, <2>1, ServesAlone DEF IInv
    <2>3. CASE Serving(m) /\ ~Serving(m)'
        <3>1. LeaderServing = {m} /\ LeaderServing' = {}
            BY <1>2, <2>1, <2>2, <2>3 DEF AtMostOne
        <3>2. L!StepDown(m)
            BY <3>1 DEF L!StepDown, LeaderServing
        <3> QED BY <3>2
    <2>4. CASE ~Serving(m) /\ Serving(m)'
        <3>1. LeaderServing = {} /\ LeaderServing' = {m}
            BY <1>2, <2>1, <2>2, <2>4 DEF AtMostOne
        <3>2. L!TakeOver(m)
            BY <3>1 DEF L!TakeOver, LeaderServing
        <3> QED BY <3>2
    <2>5. CASE Serving(m)' = Serving(m)
        BY <1>2, <2>1, <2>2, <2>5
    <2> QED BY <2>3, <2>4, <2>5 DEF Serving
<1> QED BY <1>3, <1>4

\* As long as checks finish within their interval, no two mains serve as
\* leader at once, for any number of mains, restarts and calls under way.
THEOREM LeadershipImplemented == Spec => ImplementsLeadership
<1>1. Init => L!LeadershipInit
    BY DEF Init, L!LeadershipInit, Serving
<1>2. IInv /\ [Next]_vars /\ (~late => AtMostOne) /\ (~late' => AtMostOne')
        => [L!LeadershipNext]_(IF late THEN {} ELSE {m \in Mains : Serving(m)})
    BY LeadershipStep DEF LeaderServing
<1>3. ~late /\ IInv => AtMostOne
    BY OneServes
<1> QED BY <1>1, <1>2, <1>3, InvHolds, PTL DEF Spec, ImplementsLeadership, L!LeadershipSpec
=============================================================================
