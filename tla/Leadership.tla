----------------------------- MODULE Leadership -----------------------------
(***************************************************************************)
(* What running several main processes promises: the services that must    *)
(* run only once (wait tracking, pruning, queue recovery, triggers) run on *)
(* one main at most.  LeaderElection implements this; WaitTracker is       *)
(* checked above it.                                                       *)
(***************************************************************************)
CONSTANT Mains

VARIABLE serving    \* the mains whose leader-only services run

LeadershipInit == serving = {}

\* A main starts its leader-only services, after nobody else's run any more.
TakeOver(m) ==
    /\ serving = {}
    /\ serving' = {m}

\* A main stops them: it lost the leadership, shuts down or crashes.
StepDown(m) ==
    /\ m \in serving
    /\ serving' = serving \ {m}

LeadershipNext == \E m \in Mains : TakeOver(m) \/ StepDown(m)

LeadershipSpec == LeadershipInit /\ [][LeadershipNext]_serving
=============================================================================
