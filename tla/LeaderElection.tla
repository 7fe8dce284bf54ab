--------------------------- MODULE LeaderElection ---------------------------
(***************************************************************************)
(* packages/cli/src/scaling/multi-main-setup.ee.ts and the parts of        *)
(* commands/start.ts that start and stop it: several main processes elect  *)
(* a leader through one Redis key that expires unless it is renewed.       *)
(*                                                                         *)
(* A main talks to Redis over one connection: its calls are executed in    *)
(* the order sent and answered in that order, with other mains' calls, the *)
(* clock and the interval of its own next check in between.  Time passes   *)
(* in ticks of one check interval.  services[m] stands for what listens to *)
(* 'leader-takeover' and 'leader-stepdown', of which the wait tracker is   *)
(* initialised before the listeners are registered.                        *)
(***************************************************************************)
EXTENDS Naturals, Sequences

CONSTANTS
    Mains,          \* main processes
    Ttl,            \* leaderKeyTtl in check intervals
    MaxCalls,       \* bound on a main's unanswered calls
    MaxStarts,      \* bound on the starts of each main
    KeepsHostId,    \* whether a restarted main has its old host ID (Docker)
    None

\* The host IDs there can be.
HostIds == UNION {{m} \X (0..MaxStarts[m]) : m \in Mains}

ASSUME ElectionAssumption ==
    /\ Ttl \in Nat /\ Ttl >= 2
    /\ MaxCalls \in Nat /\ MaxStarts \in [Mains -> Nat]
    /\ KeepsHostId \in BOOLEAN
    /\ None \notin HostIds

VARIABLES
    leaderKey,      \* in Redis: host ID of the leader, or None
    keyTtl,         \* in Redis: intervals until the key expires
    phase,          \* how far a main has started or stopped
    role,           \* instanceSettings.instanceRole
    starts,         \* how often a main has been started
    due,            \* a main's check interval has elapsed
    calls,          \* what a main has sent to Redis
    replies,        \* what Redis has answered and the main not yet read
    services,       \* whether a main's leader-only services run
    late            \* ghost: an interval has passed with a check unfinished

redis == <<leaderKey, keyTtl>>
vars == <<redis, phase, role, starts, due, calls, replies, services, late>>

Phases == {"down", "electing", "elected", "booting", "up", "stopping", "closing"}
Roles == {"unset", "leader", "follower"}
Commands == {"get", "set", "expire", "del"}

\* The ID a main writes into the key.  In Docker it is the host name and
\* outlives the process, elsewhere it is drawn anew.
HostId(m) == <<m, IF KeepsHostId THEN 0 ELSE starts[m]>>

\* An answer: the value of the key if GET, whether it was set if SET NX.
Replies == [call : Commands, value : HostIds \cup {None}, ok : BOOLEAN]

\* Handlers of the two events are registered by then.
Registered(m) == phase[m] \in {"up", "stopping", "closing"}
\* The interval is set by init() and cleared by shutdown().
Checking(m) == phase[m] \in {"elected", "booting", "up", "stopping"}

TypeOK ==
    /\ leaderKey \in HostIds \cup {None}
    /\ keyTtl \in 0..Ttl
    /\ phase \in [Mains -> Phases]
    /\ role \in [Mains -> Roles]
    /\ starts \in [Mains -> Nat] /\ \A m \in Mains : starts[m] <= MaxStarts[m]
    /\ due \in [Mains -> BOOLEAN]
    /\ calls \in [Mains -> Seq(Commands)]
    /\ replies \in [Mains -> Seq(Replies)]
    /\ services \in [Mains -> BOOLEAN]
    /\ late \in BOOLEAN

Init ==
    /\ leaderKey = None
    /\ keyTtl = 0
    /\ phase = [m \in Mains |-> "down"]
    /\ role = [m \in Mains |-> "unset"]
    /\ starts = [m \in Mains |-> 0]
    /\ due = [m \in Mains |-> FALSE]
    /\ calls = [m \in Mains |-> <<>>]
    /\ replies = [m \in Mains |-> <<>>]
    /\ services = [m \in Mains |-> FALSE]
    /\ late = FALSE

-----------------------------------------------------------------------------
(* Starting *)

\* initOrchestration() calls init(), which begins with tryBecomeLeader().
StartMain(m) ==
    /\ phase[m] = "down"
    /\ starts[m] < MaxStarts[m]
    /\ phase' = [phase EXCEPT ![m] = "electing"]
    /\ starts' = [starts EXCEPT ![m] = @ + 1]
    /\ calls' = [calls EXCEPT ![m] = <<"set">>]
    /\ UNCHANGED <<redis, role, due, replies, services, late>>

\* WaitTracker.init(): only a leader starts tracking.
InitServices(m) ==
    /\ phase[m] = "elected"
    /\ phase' = [phase EXCEPT ![m] = "booting"]
    /\ services' = [services EXCEPT ![m] = role[m] = "leader"]
    /\ UNCHANGED <<redis, role, starts, due, calls, replies, late>>

registerEventHandlers(m) ==
    /\ phase[m] = "booting"
    /\ phase' = [phase EXCEPT ![m] = "up"]
    /\ UNCHANGED <<redis, role, starts, due, calls, replies, services, late>>

-----------------------------------------------------------------------------
(* Redis and time *)

Reply(m, value, ok) ==
    replies' = [replies EXCEPT ![m] =
        Append(@, [call |-> Head(calls[m]), value |-> value, ok |-> ok])]

\* SET NX EX, EXPIRE, GET and DEL of the leader key.  EXPIRE and DEL do not
\* ask whose key it is.
Get(m) ==
    /\ Head(calls[m]) = "get"
    /\ Reply(m, leaderKey, TRUE)
    /\ UNCHANGED redis

\* Mutant: without NX.
SetAlways(m) ==
    /\ Head(calls[m]) = "set"
    /\ Reply(m, None, TRUE)
    /\ leaderKey' = HostId(m)
    /\ keyTtl' = Ttl

\* Mutant: the key outlives its lease.
SetTooLong(m) ==
    /\ Head(calls[m]) = "set"
    /\ Reply(m, None, leaderKey = None)
    /\ leaderKey' = IF leaderKey = None THEN HostId(m) ELSE leaderKey
    /\ keyTtl' = IF leaderKey = None THEN Ttl + 1 ELSE keyTtl

SetIfNotExists(m) ==
    /\ Head(calls[m]) = "set"
    /\ Reply(m, None, leaderKey = None)
    /\ leaderKey' = IF leaderKey = None THEN HostId(m) ELSE leaderKey
    /\ keyTtl' = IF leaderKey = None THEN Ttl ELSE keyTtl

SetExpiration(m) ==
    /\ Head(calls[m]) = "expire"
    /\ Reply(m, None, TRUE)
    /\ keyTtl' = IF leaderKey = None THEN 0 ELSE Ttl
    /\ UNCHANGED leaderKey

Clear(m) ==
    /\ Head(calls[m]) = "del"
    /\ Reply(m, None, TRUE)
    /\ leaderKey' = None
    /\ keyTtl' = 0

RedisExecutes(m) ==
    /\ calls[m] # <<>>
    /\ calls' = [calls EXCEPT ![m] = Tail(@)]
    /\ Get(m) \/ SetIfNotExists(m) \/ SetExpiration(m) \/ Clear(m)
    /\ UNCHANGED <<phase, role, starts, due, services, late>>

\* Nothing is left of the interval before: its checks are done.
Idle(m) == ~due[m] /\ calls[m] = <<>> /\ replies[m] = <<>>

\* One check interval passes: the key grows older and every interval timer
\* elapses.
Tick ==
    /\ late' = (late \/ \E m \in Mains : ~Idle(m))
    /\ keyTtl' = IF keyTtl = 0 THEN 0 ELSE keyTtl - 1
    /\ leaderKey' = IF keyTtl' = 0 THEN None ELSE leaderKey
    /\ due' = [m \in Mains |-> Checking(m)]
    /\ UNCHANGED <<phase, role, starts, calls, replies, services>>

-----------------------------------------------------------------------------
(* Checking the leadership *)

\* The interval timer: checkLeader() up to its first await.  It does not wait
\* for the check before.
checkLeader(m) ==
    /\ due[m]
    /\ Len(calls[m]) + Len(replies[m]) < MaxCalls
    /\ due' = [due EXCEPT ![m] = FALSE]
    /\ calls' = [calls EXCEPT ![m] = Append(@, "get")]
    /\ UNCHANGED <<redis, phase, role, starts, replies, services, late>>

\* The next answer for main m is one to this call.
Answered(m, call) ==
    /\ replies[m] # <<>>
    /\ Head(replies[m]).call = call
    /\ replies' = [replies EXCEPT ![m] = Tail(@)]
LeaderId(m) == Head(replies[m]).value

Emit(m, takeover) ==
    services' = IF Registered(m) THEN [services EXCEPT ![m] = takeover] ELSE services

\* checkLeader() after GET: the key is this main's own and gets renewed.
LeaderIsSelf(m) ==
    /\ Answered(m, "get")
    /\ LeaderId(m) = HostId(m)
    /\ calls' = [calls EXCEPT ![m] = Append(@, "expire")]
    /\ UNCHANGED <<redis, phase, role, starts, due, services, late>>

\* Mutant: the services stop, the role stays.
LeaderIsOtherKeepsRole(m) ==
    /\ Answered(m, "get")
    /\ LeaderId(m) \notin {HostId(m), None}
    /\ IF role[m] = "leader" THEN Emit(m, FALSE) ELSE UNCHANGED services
    /\ UNCHANGED <<redis, phase, role, starts, due, calls, late>>

LeaderIsOther(m) ==
    /\ Answered(m, "get")
    /\ LeaderId(m) \notin {HostId(m), None}
    /\ IF role[m] = "leader"
       THEN /\ role' = [role EXCEPT ![m] = "follower"]
            /\ Emit(m, FALSE)
       ELSE UNCHANGED <<role, services>>
    /\ UNCHANGED <<redis, phase, starts, due, calls, late>>

\* Mutant: nobody takes the vacant key.
LeadershipVacantLeft(m) ==
    /\ Answered(m, "get")
    /\ LeaderId(m) = None
    /\ role' = [role EXCEPT ![m] = "follower"]
    /\ Emit(m, FALSE)
    /\ UNCHANGED <<redis, phase, starts, due, calls, late>>

LeadershipVacant(m) ==
    /\ Answered(m, "get")
    /\ LeaderId(m) = None
    /\ role' = [role EXCEPT ![m] = "follower"]
    /\ Emit(m, FALSE)
    /\ calls' = [calls EXCEPT ![m] = Append(@, "set")]
    /\ UNCHANGED <<redis, phase, starts, due, late>>

\* tryBecomeLeader() after SET, called by init() or by a check.  Losing is
\* silent: no 'leader-stepdown'.
tryBecomeLeader(m) ==
    /\ Answered(m, "set")
    /\ IF Head(replies[m]).ok
       THEN /\ role' = [role EXCEPT ![m] = "leader"]
            /\ Emit(m, TRUE)
       ELSE /\ role' = [role EXCEPT ![m] = "follower"]
            /\ UNCHANGED services
    /\ phase' = [phase EXCEPT ![m] = IF @ = "electing" THEN "elected" ELSE @]
    /\ UNCHANGED <<redis, starts, due, calls, late>>

\* Nothing follows EXPIRE and DEL.
Done(m) ==
    /\ Answered(m, "expire") \/ Answered(m, "del")
    /\ UNCHANGED <<redis, phase, role, starts, due, calls, services, late>>

Continue(m) ==
    LeaderIsSelf(m) \/ LeaderIsOther(m) \/ LeadershipVacant(m) \/ tryBecomeLeader(m) \/ Done(m)

-----------------------------------------------------------------------------
(* Stopping *)

\* stopProcess() stops the wait tracker first, while checks still run.
stopProcess(m) ==
    /\ phase[m] = "up"
    /\ phase' = [phase EXCEPT ![m] = "stopping"]
    /\ services' = [services EXCEPT ![m] = FALSE]
    /\ UNCHANGED <<redis, role, starts, due, calls, replies, late>>

\* MultiMainSetup.shutdown()
shutdown(m) ==
    /\ phase[m] = "stopping"
    /\ phase' = [phase EXCEPT ![m] = "closing"]
    /\ due' = [due EXCEPT ![m] = FALSE]
    /\ calls' = IF role[m] = "leader" THEN [calls EXCEPT ![m] = Append(@, "del")] ELSE calls
    /\ UNCHANGED <<redis, role, starts, replies, services, late>>

\* The process ends; what it had sent or not read is gone with it.
Gone(m) ==
    /\ phase' = [phase EXCEPT ![m] = "down"]
    /\ role' = [role EXCEPT ![m] = "unset"]
    /\ due' = [due EXCEPT ![m] = FALSE]
    /\ calls' = [calls EXCEPT ![m] = <<>>]
    /\ replies' = [replies EXCEPT ![m] = <<>>]
    /\ services' = [services EXCEPT ![m] = FALSE]
    /\ UNCHANGED <<redis, starts, late>>

\* The rest of stopProcess(), after shutdown() was awaited.
Exit(m) ==
    /\ phase[m] = "closing"
    /\ \A i \in 1..Len(calls[m]) : calls[m][i] # "del"
    /\ Gone(m)

Crash(m) ==
    /\ phase[m] # "down"
    /\ Gone(m)
-----------------------------------------------------------------------------
Step(m) ==
    \/ InitServices(m) \/ registerEventHandlers(m)
    \/ checkLeader(m) \/ RedisExecutes(m) \/ Continue(m)
    \/ shutdown(m) \/ Exit(m)

Next ==
    \/ Tick
    \/ \E m \in Mains : StartMain(m) \/ Step(m) \/ stopProcess(m) \/ Crash(m)

Spec == Init /\ [][Next]_vars

\* Time passes, Redis answers, callbacks run, and a start or stop once begun
\* goes on.
FairSpec ==
    /\ Spec
    /\ WF_vars(Tick)
    /\ \A m \in Mains :
        /\ WF_vars(InitServices(m)) /\ WF_vars(registerEventHandlers(m))
        /\ WF_vars(checkLeader(m)) /\ WF_vars(RedisExecutes(m)) /\ WF_vars(Continue(m))
        /\ WF_vars(shutdown(m)) /\ WF_vars(Exit(m))

-----------------------------------------------------------------------------
(* Properties *)

\* A main that serves as leader and is not on its way out.
Serving(m) == services[m] /\ phase[m] \in {"booting", "up"}

\* As long as checks finish within their interval, the leader-only services
\* of two mains never run at once: the key is renewed before it expires, and
\* nobody else takes it before the leader is gone.
L == INSTANCE Leadership WITH
        serving <- IF late THEN {} ELSE {m \in Mains : Serving(m)}
ImplementsLeadership == L!LeadershipSpec

\* checkLeader(), LeaderIsOther: however late Redis answers, a main that still
\* thinks it leads while the key is another's finds out.
StaleLeaderNotices ==
    \A m \in Mains :
        (role[m] = "leader" /\ leaderKey \notin {HostId(m), None})
            ~> (role[m] # "leader" \/ leaderKey \in {HostId(m), None})

\* If a main stays up there is a leader again and again, though Redis may be
\* late: after a crash the key expires and a check takes it over.  Needs host
\* IDs that are not used again, and checks that do not overlap.
LeaderAgain ==
    (\E m \in Mains : <>[](phase[m] = "up"))
        => []<>(\E m \in Mains : phase[m] = "up" /\ role[m] = "leader")
=============================================================================
