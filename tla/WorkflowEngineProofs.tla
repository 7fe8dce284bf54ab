------------------------ MODULE WorkflowEngineProofs ------------------------
(***************************************************************************)
(* Proofs about WorkflowEngine, for any workflows: what is saved when an   *)
(* execution ends, what an execution consists of, what is left when it      *)
(* has ended, what agents and their tools do, and how often a node runs.    *)
(***************************************************************************)
EXTENDS WorkflowEngine, TLAPS, FiniteSetTheorems, SequenceTheorems, WellFoundedInduction

\* The hook has been run once the engine is about to resolve, and as soon as
\* somebody has cancelled; what was cancelled never ends as one that waits,
\* so that no engine goes on with it.
SaveInv ==
    /\ saves \in Nat
    /\ pc \in {"saving", "ended"} => saves > 0
    /\ aborted => /\ saves > 0
                  /\ status \in {"canceled", "error"}
                  /\ pc \notin {"closing", "saving", "ended"} => status = "canceled"

StatusSteps == Close \/ TimeIsUp \/ Cancel \/ Resume

\* Nothing has been cancelled or saved yet.
LEMMA SaveInit == Init => SaveInv
BY DEF Init, SaveInv

\* Steps of the engine that leave its status alone.
LEMMA SaveKept ==
    ASSUME SaveInv, Next, ~StatusSteps
    PROVE  SaveInv'
<1>1. CASE SetupFails \/ Save
    BY <1>1 DEF SaveInv, SetupFails, Save, SavedByCancel
<1>2. CASE Resolve
    BY <1>2 DEF SaveInv, Resolve
<1>3. CASE Begin \/ StartNode \/ SkipNode \/ LoopEnds \/ AfterNode \/ AfterDestination \/ AfterStop
    BY <1>3 DEF SaveInv, Begin, StartNode, SkipNode, LoopEnds, AfterNode, AfterDestination,
                AfterStop
<1>4. CASE NodeEnds
    <2>1. /\ pc = "node" /\ UNCHANGED <<status, aborted, saves>>
          /\ pc' \in {"loop", "stop", "after", "after:destination", "after:failed",
                      "after:waiting"}
        BY <1>4 DEF NodeEnds, NodeSucceeds, NodeReturnsNull, NodeFails, NodeWaits, NodeRequests,
                    GoOn
    <2> QED BY <2>1 DEF SaveInv
<1> QED BY <1>1, <1>2, <1>3, <1>4 DEF Next, EngineStep, StatusSteps

\* Steps that set the status.
LEMMA SaveStatus ==
    ASSUME SaveInv, StatusSteps
    PROVE  SaveInv'
<1>1. CASE Close
    <2>1. pc = "stop" /\ pc' = "closing" /\ UNCHANGED <<aborted, saves>>
        BY <1>1 DEF Close
    <2>2. CASE executionError
        <3>1. status' \in {"error", "canceled"}
            BY <1>1, <2>2 DEF Close
        <3> QED BY <2>1, <3>1 DEF SaveInv
    <2>3. CASE ~executionError /\ status = "canceled"
        <3>1. status' = "canceled"
            BY <1>1, <2>3 DEF Close
        <3> QED BY <2>1, <3>1 DEF SaveInv
    <2>4. CASE status # "canceled"
        BY <2>1, <2>4 DEF SaveInv
    <2> QED BY <2>2, <2>3, <2>4
<1>2. CASE TimeIsUp
    BY <1>2 DEF SaveInv, TimeIsUp
<1>3. CASE Cancel
    BY <1>3 DEF SaveInv, Cancel
<1>4. CASE Resume
    BY <1>4 DEF SaveInv, Resume
<1> QED BY <1>1, <1>2, <1>3, <1>4 DEF StatusSteps

\* Every step keeps it.
LEMMA SaveStep == SaveInv /\ [Next]_vars => SaveInv'
<1>1. SaveInv /\ UNCHANGED vars => SaveInv'
    BY DEF SaveInv, vars
<1> QED BY <1>1, SaveKept, SaveStatus

\* However an execution ends, by itself, by its timeout, by a stop in any
\* state or before its first node, and however often it waited and was
\* resumed, the hook that saves it has been run.
THEOREM EveryEndIsSavedHolds == Spec => []EveryEndIsSaved
<1>1. SaveInv => EveryEndIsSaved
    BY DEF SaveInv, EveryEndIsSaved
<1> QED BY SaveInit, SaveStep, <1>1, PTL DEF Spec
-----------------------------------------------------------------------------
(* Induction, stated of a set so that the provers can use it                *)

\* A set of numbers that has none without a smaller one outside has them all.
LEMMA SmallestOf ==
    ASSUME NEW T \in SUBSET Nat, T # {}
    PROVE  \E m \in T : \A k \in T : m <= k
<1>1. PICK m \in T : \A k \in T : ~(<<k, m>> \in OpToRel(<, Nat))
    BY NatLessThanWellFounded, WFMin
<1>2. ASSUME NEW k \in T PROVE m <= k
    <2>1. ~(k < m)
        BY <1>1 DEF OpToRel
    <2> QED BY <2>1
<1> QED BY <1>2

\* Induction over the numbers.
LEMMA Induction ==
    ASSUME NEW S, 0 \in S, \A n \in Nat : n \in S => n + 1 \in S
    PROVE  \A n \in Nat : n \in S
<1> SUFFICES ASSUME Nat \ S # {} PROVE FALSE
    OBVIOUS
<1>1. PICK m \in Nat \ S : \A k \in Nat \ S : m <= k
    BY SmallestOf
<1>2. m # 0 /\ m - 1 \in Nat
    BY <1>1
<1>3. m - 1 \in S
    BY <1>1, <1>2
<1>4. (m - 1) + 1 \in S
    BY <1>2, <1>3
<1> QED BY <1>1, <1>4
-----------------------------------------------------------------------------
(* Several entries, one after the other                                     *)

AddStep(plan, a) == addNodeToBeExecuted(plan, a.input, a.entry)

\* The plans one after the other.
IsAdded(added, additions, n) ==
    added = [k \in 0..n |-> IF k = 0 THEN Plan ELSE AddStep(added[k - 1], additions[k])]

\* The sequence of plans that AddAll goes through exists.
LEMMA AddedExists ==
    ASSUME NEW additions, NEW n \in Nat
    PROVE  \E added : IsAdded(added, additions, n)
<1> DEFINE S == {m \in Nat : \E added : IsAdded(added, additions, m)}
<1>1. 0 \in S
    <2>1. IsAdded([k \in 0..0 |-> Plan], additions, 0)
        BY DEF IsAdded
    <2> QED BY <2>1
<1>2. ASSUME NEW m \in Nat, m \in S PROVE m + 1 \in S
    <2>1. PICK f : IsAdded(f, additions, m)
        BY <1>2
    <2> DEFINE g == [k \in 0..(m + 1) |->
                        IF k \in 0..m THEN f[k] ELSE AddStep(f[m], additions[m + 1])]
    <2>2. \A k \in 0..m : f[k] = IF k = 0 THEN Plan ELSE AddStep(f[k - 1], additions[k])
        BY <2>1 DEF IsAdded
    <2>3. ASSUME NEW k \in 0..(m + 1)
          PROVE  g[k] = IF k = 0 THEN Plan ELSE AddStep(g[k - 1], additions[k])
        <3>1. CASE k \in 0..m
            <4>1. k = 0 \/ k - 1 \in 0..m
                BY <3>1
            <4>2. g[k] = f[k] /\ (k # 0 => g[k - 1] = f[k - 1])
                BY <3>1, <4>1
            <4> QED BY <2>2, <3>1, <4>2
        <3>2. CASE k = m + 1
            <4>1. g[k] = AddStep(f[m], additions[m + 1]) /\ k # 0 /\ k - 1 = m
                BY <3>2
            <4>2. g[m] = f[m]
                OBVIOUS
            <4> QED BY <3>2, <4>1, <4>2
        <3> QED BY <3>1, <3>2
    <2>4. g = [k \in 0..(m + 1) |-> IF k = 0 THEN Plan ELSE AddStep(g[k - 1], additions[k])]
        <3>1. g = [k \in 0..(m + 1) |-> g[k]]
            OBVIOUS
        <3> HIDE DEF g
        <3> QED BY <2>3, <3>1
    <2> HIDE DEF g
    <2>5. IsAdded(g, additions, m + 1)
        BY <2>4 DEF IsAdded
    <2> QED BY <2>5
<1> HIDE DEF S
<1>3. \A m \in Nat : m \in S
    BY <1>1, <1>2, Induction
<1> QED BY <1>3 DEF S

\* These are they.
LEMMA AddedIs ==
    ASSUME NEW additions, Len(additions) \in Nat
    PROVE  IsAdded(Added(additions), additions, Len(additions))
<1> DEFINE added == CHOOSE f : f = [k \in 0..Len(additions) |->
                        IF k = 0 THEN Plan
                        ELSE addNodeToBeExecuted(f[k - 1], additions[k].input, additions[k].entry)]
<1>1. Added(additions) = added
    BY DEF Added
<1>2. \E f : f = [k \in 0..Len(additions) |->
                        IF k = 0 THEN Plan
                        ELSE addNodeToBeExecuted(f[k - 1], additions[k].input, additions[k].entry)]
    BY AddedExists DEF IsAdded, AddStep
<1>3. IsAdded(added, additions, Len(additions))
    BY <1>2 DEF IsAdded, AddStep
<1> HIDE DEF added
<1> QED BY <1>1, <1>3

\* AddAll is the last of them.
LEMMA AddAllIsLast ==
    ASSUME NEW additions, Len(additions) \in Nat
    PROVE  \E added : /\ IsAdded(added, additions, Len(additions))
                      /\ AddAll(additions) = added[Len(additions)]
<1> DEFINE added == Added(additions)
<1>1. AddAll(additions) = added[Len(additions)]
    BY DEF AddAll
<1>2. IsAdded(added, additions, Len(additions))
    BY AddedIs
<1> HIDE DEF added
<1> QED BY <1>1, <1>2
-----------------------------------------------------------------------------
(* The connections in their order                                           *)

\* What is known of the connections of a node.
LEMMA ConnectionsType ==
    ASSUME workflow \in Workflows, NEW n, NEW output
    PROVE  /\ ConnectionsOf(n, output) \subseteq Connection
           /\ ConnectionsOf(n, output) \subseteq workflow.connections
           /\ IsFiniteSet(ConnectionsOf(n, output))
           /\ Cardinality(ConnectionsOf(n, output)) \in Nat
<1>1. IsWorkflow(workflow)
    BY WorkflowsAssumption
<1>2. ConnectionsOf(n, output) \in SUBSET workflow.connections
    BY DEF ConnectionsOf
<1>3. IsFiniteSet(ConnectionsOf(n, output))
    BY <1>1, <1>2, FS_Subset DEF IsWorkflow
<1> QED BY <1>1, <1>2, <1>3, FS_CardinalityType DEF IsWorkflow

\* Sorting is a strict order in which any two connections of a node differ.
LEMMA SortsStrictly ==
    ASSUME workflow \in Workflows, NEW n, NEW output
    PROVE  LET C == ConnectionsOf(n, output)
           IN  /\ \A c \in C : ~SortsBefore(c, c)
               /\ \A c, d, e \in C : SortsBefore(c, d) /\ SortsBefore(d, e) => SortsBefore(c, e)
               /\ \A c, d \in C : c = d \/ SortsBefore(c, d) \/ SortsBefore(d, c)
<1> DEFINE C == ConnectionsOf(n, output)
<1>1. IsWorkflow(workflow)
    BY WorkflowsAssumption
<1>2. \A c \in C : /\ c.from \in Nodes /\ c.to \in Nodes /\ c.output \in 0..1 /\ c.input \in 0..1
                   /\ c = [from |-> c.from, output |-> c.output, to |-> c.to, input |-> c.input]
    BY ConnectionsType DEF Connection, Indexes
<1>3. \A m \in Nodes : workflow.position[m] \in Nat
    BY <1>1 DEF IsWorkflow
<1>4. \A l, m \in Nodes : l # m => workflow.position[l] # workflow.position[m]
    BY <1>1 DEF IsWorkflow
<1>5. \A c \in C : c.from = n
    BY DEF ConnectionsOf
<1> HIDE DEF C
<1>6. \A c \in C : ~SortsBefore(c, c)
    BY <1>2, <1>3 DEF SortsBefore
<1>7. ASSUME NEW c \in C, NEW d \in C, NEW e \in C, SortsBefore(c, d), SortsBefore(d, e)
      PROVE  SortsBefore(c, e)
    BY <1>2, <1>3, <1>7 DEF SortsBefore
<1>8. ASSUME NEW c \in C, NEW d \in C
      PROVE  c = d \/ SortsBefore(c, d) \/ SortsBefore(d, c)
    <2>1. CASE c.to # d.to
        BY <1>2, <1>3, <1>4, <2>1 DEF SortsBefore
    <2>2. CASE c.to = d.to /\ (c.output # d.output \/ c.input # d.input)
        BY <1>2, <2>2 DEF SortsBefore
    <2>3. CASE c.to = d.to /\ c.output = d.output /\ c.input = d.input
        BY <1>2, <1>5, <2>3
    <2> QED BY <2>1, <2>2, <2>3
<1> QED BY <1>6, <1>7, <1>8 DEF C

\* Outgoing lists the connections, each once.
LEMMA OutgoingLists ==
    ASSUME workflow \in Workflows, NEW n, NEW output
    PROVE  LET C == ConnectionsOf(n, output)
           IN  /\ Cardinality(C) \in Nat
               /\ Outgoing(n, output) \in [1..Cardinality(C) -> C]
               /\ \A c \in C : \E i \in 1..Cardinality(C) : Outgoing(n, output)[i] = c
               /\ \A i, j \in 1..Cardinality(C) :
                    Outgoing(n, output)[i] = Outgoing(n, output)[j] => i = j
<1> DEFINE C         == ConnectionsOf(n, output)
           before(c) == {d \in C : SortsBefore(d, c)}
           rank      == [c \in C |-> Cardinality(before(c)) + 1]
           k         == Cardinality(C)
           out       == Outgoing(n, output)
<1>1. k \in Nat /\ IsFiniteSet(C)
    BY ConnectionsType
<1>2. /\ \A c \in C : ~SortsBefore(c, c)
      /\ \A c, d, e \in C : SortsBefore(c, d) /\ SortsBefore(d, e) => SortsBefore(c, e)
      /\ \A c, d \in C : c = d \/ SortsBefore(c, d) \/ SortsBefore(d, c)
    BY SortsStrictly
<1> HIDE DEF C
<1>3. \A c \in C : before(c) \in SUBSET C /\ c \notin before(c)
    BY <1>2
<1>4. \A c \in C : IsFiniteSet(before(c)) /\ Cardinality(before(c)) \in Nat
                     /\ Cardinality(before(c)) < k
    <2> SUFFICES ASSUME NEW c \in C
                 PROVE  IsFiniteSet(before(c)) /\ Cardinality(before(c)) \in Nat
                          /\ Cardinality(before(c)) < k
        OBVIOUS
    <2>1. before(c) \in SUBSET C /\ before(c) # C
        BY <1>3
    <2>2. IsFiniteSet(before(c)) /\ Cardinality(before(c)) <= k
            /\ (k = Cardinality(before(c)) => C = before(c))
        BY <1>1, <2>1, FS_Subset
    <2>3. Cardinality(before(c)) \in Nat
        BY <2>2, FS_CardinalityType
    <2> HIDE DEF before, k
    <2> QED BY <1>1, <2>1, <2>2, <2>3
<1>5. \A c, d \in C : SortsBefore(c, d) => Cardinality(before(c)) < Cardinality(before(d))
    <2> SUFFICES ASSUME NEW c \in C, NEW d \in C, SortsBefore(c, d)
                 PROVE  Cardinality(before(c)) < Cardinality(before(d))
        OBVIOUS
    <2>1. before(c) \in SUBSET before(d) /\ c \in before(d) /\ c \notin before(c)
        BY <1>2
    <2>2. /\ Cardinality(before(c)) <= Cardinality(before(d))
          /\ Cardinality(before(d)) = Cardinality(before(c)) => before(d) = before(c)
        BY <1>4, <2>1, FS_Subset
    <2> HIDE DEF before
    <2> QED BY <1>4, <2>1, <2>2
<1>6. rank \in [C -> 1..k]
    <2>1. \A c \in C : Cardinality(before(c)) + 1 \in 1..k
        <3> HIDE DEF before, k
        <3> QED BY <1>1, <1>4
    <2> HIDE DEF before, k
    <2> QED BY <2>1
<1>7. \A c, d \in C : rank[c] = rank[d] => c = d
    <2> SUFFICES ASSUME NEW c \in C, NEW d \in C, c # d PROVE rank[c] # rank[d]
        OBVIOUS
    <2>1. Cardinality(before(c)) # Cardinality(before(d))
        <3>1. SortsBefore(c, d) \/ SortsBefore(d, c)
            BY <1>2
        <3> HIDE DEF before
        <3> QED BY <1>4, <1>5, <3>1
    <2> HIDE DEF before
    <2> QED BY <1>4, <2>1
<1>8. \A i \in 1..k : \E c \in C : rank[c] = i
    <2>1. rank \in Injection(C, 1..k)
        <3> HIDE DEF rank, k
        <3> QED BY <1>6, <1>7 DEF Injection, IsInjective
    <2>2. IsFiniteSet(1..k) /\ Cardinality(1..k) = k
        BY <1>1, FS_Interval
    <2>3. rank \in Surjection(C, 1..k)
        <3> HIDE DEF rank
        <3> QED BY <2>1, <2>2, FS_Injection
    <2> HIDE DEF rank, k
    <2> QED BY <2>3 DEF Surjection
<1> DEFINE pick(i) == CHOOSE c \in C : Cardinality({d \in C : SortsBefore(d, c)}) = i - 1
<1>9. out = [i \in 1..k |-> pick(i)]
    BY DEF Outgoing, C
<1>10. ASSUME NEW i \in 1..k PROVE pick(i) \in C /\ rank[pick(i)] = i
    <2>1. PICK c \in C : rank[c] = i
        BY <1>8
    <2>2. Cardinality(before(c)) = i - 1
        <3> HIDE DEF before, k
        <3>1. Cardinality(before(c)) \in Nat /\ i \in Int /\ Cardinality(before(c)) + 1 = i
            BY <1>1, <1>4, <2>1
        <3> QED BY <3>1
    <2>3. pick(i) \in C /\ Cardinality(before(pick(i))) = i - 1
        BY <2>2
    <2> HIDE DEF pick, before, k
    <2> QED BY <1>1, <2>3
<1> HIDE DEF pick, rank, before, k
<1>11. out \in [1..k -> C]
    BY <1>9, <1>10
<1>12. \A c \in C : out[rank[c]] = c /\ rank[c] \in 1..k
    <2> SUFFICES ASSUME NEW c \in C PROVE out[rank[c]] = c /\ rank[c] \in 1..k
        OBVIOUS
    <2>1. rank[c] \in 1..k
        BY <1>6
    <2>2. pick(rank[c]) \in C /\ rank[pick(rank[c])] = rank[c]
        BY <1>10, <2>1
    <2> QED BY <1>7, <1>9, <2>1, <2>2
<1>13. \A i \in 1..k : rank[out[i]] = i
    BY <1>9, <1>10
<1> HIDE DEF out
<1>14. \A i, j \in 1..k : out[i] = out[j] => i = j
    BY <1>13
<1>15. \A c \in C : \E i \in 1..k : out[i] = c
    BY <1>12
<1> QED BY <1>1, <1>11, <1>14, <1>15 DEF k, C, out
-----------------------------------------------------------------------------
(* Types                                                                    *)

\* What an input holds once a run has put something there.
Data == {Empty} \cup (Nodes \X Nat \X Indexes)
Slots == {Missing} \cup Data

\* The entries of a node that waits for its inputs.
Rooms == UNION {[D -> Seq(Slots)] : D \in SUBSET Nat}

Entries == [node : Nodes, data : Seq(Data \cup {Initial}), run : Nat \cup {-1},
            tools : Seq(Nodes \X Nat), requests : 0..MaxRequests, disabled : BOOLEAN]

\* An entry with data that comes from runs, and the one that an execution begins with.
Fed   == {e \in Entries : e.data # <<>> /\ e.data \in Seq(Data)}
First == {e \in Entries : e.data = <<Initial>>}

TaskDatas == [status : {"requested", "success", "error", "waiting"}, output : SUBSET Indexes]

\* A plan is well formed: the keys of waitingExecution are the nodes that have
\* entries, each once, and the entries are as long as the node has inputs.
PlanShape(plan) ==
    /\ plan \in [stack : Seq(Fed), waiting : [Nodes -> Rooms], waitingNodes : Seq(Nodes)]
    /\ \A n \in Nodes : IsFiniteSet(DOMAIN plan.waiting[n])
    /\ \A n \in Nodes : DOMAIN plan.waiting[n] # {} => numberOfInputs(n) > 1
    /\ \A n \in Nodes : \A i \in DOMAIN plan.waiting[n] :
            Len(plan.waiting[n][i]) = numberOfInputs(n)
    /\ \A n \in Nodes : n \in Range(plan.waitingNodes) <=> DOMAIN plan.waiting[n] # {}
    /\ IsInjective(plan.waitingNodes)

\* Whatever waits lacks something.
PlanLacks(plan) ==
    \A n \in Nodes : \A i \in DOMAIN plan.waiting[n] : Contains(plan.waiting[n][i], Missing)

PlanInv(plan) == PlanShape(plan) /\ PlanLacks(plan)

\* What waits at one place.
LEMMA RoomType ==
    ASSUME NEW room
    PROVE  room \in Rooms <=>
                /\ room = [i \in DOMAIN room |-> room[i]]
                /\ DOMAIN room \in SUBSET Nat
                /\ \A i \in DOMAIN room : room[i] \in Seq(Slots)
<1>1. ASSUME room \in Rooms
      PROVE  /\ room = [i \in DOMAIN room |-> room[i]]
             /\ DOMAIN room \in SUBSET Nat
             /\ \A i \in DOMAIN room : room[i] \in Seq(Slots)
    <2>1. PICK D \in SUBSET Nat : room \in [D -> Seq(Slots)]
        BY <1>1 DEF Rooms
    <2> QED BY <2>1
<1>2. ASSUME room = [i \in DOMAIN room |-> room[i]], DOMAIN room \in SUBSET Nat,
             \A i \in DOMAIN room : room[i] \in Seq(Slots)
      PROVE  room \in Rooms
    <2>1. room \in [DOMAIN room -> Seq(Slots)]
        BY <1>2
    <2> QED BY <1>2, <2>1 DEF Rooms
<1> QED BY <1>1, <1>2

\* The smallest of some numbers.
LEMMA MinType ==
    ASSUME NEW S \in SUBSET Nat, S # {}
    PROVE  Min(S) \in S /\ \A k \in S : Min(S) <= k
BY SmallestOf DEF Min

\* The number of inputs of a node.
LEMMA InputsType ==
    ASSUME workflow \in Workflows, NEW n
    PROVE  numberOfInputs(n) \in 0..2
<1>1. workflow.connections \subseteq Connection
    BY WorkflowsAssumption DEF IsWorkflow
<1>2. InputsOf(n) \subseteq 0..1
    BY <1>1 DEF InputsOf, Connection, Indexes
<1>3. ASSUME InputsOf(n) # {} PROVE Max(InputsOf(n)) \in 0..1
    <2>1. \E x \in InputsOf(n) : \A y \in InputsOf(n) : x >= y
        <3>1. CASE 1 \in InputsOf(n)
            <4>1. \A y \in InputsOf(n) : 1 >= y
                BY <1>2
            <4> QED BY <3>1, <4>1
        <3>2. CASE 1 \notin InputsOf(n)
            <4>1. InputsOf(n) \subseteq {0}
                BY <1>2, <3>2
            <4>2. 0 \in InputsOf(n) /\ \A y \in InputsOf(n) : 0 >= y
                BY <1>3, <4>1
            <4> QED BY <4>2
        <3> QED BY <3>1, <3>2
    <2>2. Max(InputsOf(n)) \in InputsOf(n)
        BY <2>1 DEF Max
    <2> QED BY <1>2, <2>2
<1> QED BY <1>3 DEF numberOfInputs

\* RemoveFirst takes a key out of keys that differ.
LEMMA RemoveFirstOne ==
    ASSUME NEW S, NEW s \in Seq(S), IsInjective(s), NEW x \in Range(s)
    PROVE  /\ RemoveFirst(s, x) \in Seq(S)
           /\ IsInjective(RemoveFirst(s, x))
           /\ \A y : y \in Range(RemoveFirst(s, x)) <=> y \in Range(s) /\ y # x
<1> DEFINE I == {i \in 1..Len(s) : s[i] = x}
           k == Min(I)
<1>1. I \in SUBSET Nat /\ I # {}
    BY DEF Range
<1>2. k \in 1..Len(s) /\ s[k] = x
    BY <1>1, MinType
<1>3. RemoveFirst(s, x) = SubSeq(s, 1, k - 1) \o SubSeq(s, k + 1, Len(s))
    BY <1>1 DEF RemoveFirst, RemoveAt, SelectInSeq
<1> HIDE DEF I, k
<1> DEFINE t == RemoveFirst(s, x)
<1>4. /\ t \in Seq(S) /\ Len(t) = Len(s) - 1
      /\ \A i \in 1..(Len(s) - 1) : t[i] = IF i < k THEN s[i] ELSE s[i + 1]
    <2> DEFINE a == SubSeq(s, 1, k - 1)
               b == SubSeq(s, k + 1, Len(s))
    <2>1. /\ a \in Seq(S) /\ Len(a) = k - 1
          /\ \A i \in 1..(k - 1) : a[i] = s[i]
        BY <1>2
    <2>2. /\ b \in Seq(S) /\ Len(b) = Len(s) - k
          /\ \A i \in 1..(Len(s) - k) : b[i] = s[i + k]
        BY <1>2
    <2> HIDE DEF a, b
    <2>3. /\ a \o b \in Seq(S) /\ Len(a \o b) = Len(s) - 1
          /\ \A i \in 1..(Len(s) - 1) :
                (a \o b)[i] = IF i <= k - 1 THEN a[i] ELSE b[i - (k - 1)]
        <3>1. /\ a \o b \in Seq(S) /\ Len(a \o b) = Len(a) + Len(b)
              /\ \A i \in 1..(Len(a) + Len(b)) :
                    (a \o b)[i] = IF i <= Len(a) THEN a[i] ELSE b[i - Len(a)]
            BY <2>1, <2>2, ConcatProperties
        <3>2. Len(a) + Len(b) = Len(s) - 1
            BY <1>2, <2>1, <2>2
        <3> QED BY <2>1, <3>1, <3>2
    <2>4. ASSUME NEW i \in 1..(Len(s) - 1)
          PROVE  (a \o b)[i] = IF i < k THEN s[i] ELSE s[i + 1]
        <3>1. CASE i < k
            BY <1>2, <2>1, <2>3, <3>1
        <3>2. CASE ~(i < k)
            <4>1. i - (k - 1) \in 1..(Len(s) - k) /\ (i - (k - 1)) + k = i + 1
                BY <1>2, <3>2
            <4> QED BY <1>2, <2>2, <2>3, <3>2, <4>1
        <3> QED BY <3>1, <3>2
    <2> QED BY <1>3, <2>3, <2>4 DEF a, b
<1> HIDE DEF t
<1>5. IsInjective(t)
    <2> SUFFICES ASSUME NEW i \in 1..(Len(s) - 1), NEW j \in 1..(Len(s) - 1), t[i] = t[j]
                 PROVE  i = j
        BY <1>4 DEF IsInjective
    <2>1. \A l, m \in 1..Len(s) : s[l] = s[m] => l = m
        BY DEF IsInjective
    <2>2. CASE i < k /\ j < k
        <3>1. s[i] = s[j] /\ i \in 1..Len(s) /\ j \in 1..Len(s)
            BY <1>2, <1>4, <2>2
        <3> QED BY <2>1, <3>1
    <2>3. CASE i < k /\ ~(j < k)
        <3>1. s[i] = s[j + 1] /\ i \in 1..Len(s) /\ j + 1 \in 1..Len(s)
            BY <1>2, <1>4, <2>3
        <3> QED BY <1>2, <2>1, <2>3, <3>1
    <2>4. CASE ~(i < k) /\ j < k
        <3>1. s[i + 1] = s[j] /\ i + 1 \in 1..Len(s) /\ j \in 1..Len(s)
            BY <1>2, <1>4, <2>4
        <3> QED BY <1>2, <2>1, <2>4, <3>1
    <2>5. CASE ~(i < k) /\ ~(j < k)
        <3>1. s[i + 1] = s[j + 1] /\ i + 1 \in 1..Len(s) /\ j + 1 \in 1..Len(s)
            BY <1>2, <1>4, <2>5
        <3> QED BY <2>1, <3>1
    <2> QED BY <2>2, <2>3, <2>4, <2>5
<1>6. ASSUME NEW y, y \in Range(t) PROVE y \in Range(s) /\ y # x
    <2>1. PICK i \in 1..(Len(s) - 1) : y = t[i]
        BY <1>4, <1>6 DEF Range
    <2>2. PICK j \in 1..Len(s) : y = s[j] /\ j # k
        BY <1>2, <1>4, <2>1
    <2> QED BY <1>2, <2>2 DEF Range, IsInjective
<1>7. ASSUME NEW y, y \in Range(s), y # x PROVE y \in Range(t)
    <2>1. PICK j \in 1..Len(s) : y = s[j] /\ j # k
        BY <1>2, <1>7 DEF Range
    <2>2. CASE j < k
        BY <1>2, <1>4, <2>1, <2>2 DEF Range
    <2>3. CASE j > k
        <3>1. j - 1 \in 1..(Len(s) - 1) /\ t[j - 1] = s[j]
            BY <1>2, <1>4, <2>1, <2>3
        <3> QED BY <1>4, <2>1, <3>1 DEF Range
    <2> QED BY <1>2, <2>1, <2>2, <2>3
<1> QED BY <1>4, <1>5, <1>6, <1>7 DEF t
-----------------------------------------------------------------------------
(* Plans stay well formed                                                   *)

\* Data is neither missing nor without items.
LEMMA DataFacts ==
    /\ Empty \in Data /\ Missing \notin Data /\ Initial \notin Data
    /\ \A n \in Nodes, run \in Nat, output \in Indexes : Datum(n, run, output) \in Data
    /\ Data \subseteq Slots /\ Missing \in Slots
<1>1. Len(Missing) = 0 /\ Len(Empty) = 1 /\ Len(Initial) = 2
    BY DEF Missing, Empty, Initial
<1>2. \A d \in Nodes \X Nat \X Indexes : Len(d) = 3
    OBVIOUS
<1>3. Missing \notin Data
    <2>1. Missing # Empty
        BY <1>1
    <2>2. Missing \notin Nodes \X Nat \X Indexes
        BY <1>1, <1>2
    <2> QED BY <2>1, <2>2 DEF Data
<1>4. Initial \notin Data
    <2>1. Initial # Empty
        BY <1>1
    <2>2. Initial \notin Nodes \X Nat \X Indexes
        BY <1>1, <1>2
    <2> QED BY <2>1, <2>2 DEF Data
<1> QED BY <1>3, <1>4 DEF Data, Slots, Datum

\* Removing an entry of waitingExecution.
LEMMA RemoveWaitingKeeps ==
    ASSUME NEW plan, PlanShape(plan), NEW n \in Nodes, NEW index \in DOMAIN plan.waiting[n]
    PROVE  LET p == RemoveWaiting(plan, n, index)
           IN  /\ PlanShape(p)
               /\ p.stack = plan.stack
               /\ \A m \in Nodes : \A i \in DOMAIN p.waiting[m] :
                    /\ i \in DOMAIN plan.waiting[m] /\ p.waiting[m][i] = plan.waiting[m][i]
                    /\ ~(m = n /\ i = index)
               /\ \A m \in Nodes \ {n} : p.waiting[m] = plan.waiting[m]
               /\ \A m \in Nodes : m # n =>
                    (m \in Range(p.waitingNodes) <=> m \in Range(plan.waitingNodes))
<1> DEFINE left == DOMAIN plan.waiting[n] \ {index}
           room == [i \in left |-> plan.waiting[n][i]]
           w    == [plan.waiting EXCEPT ![n] = room]
           keys == IF left = {} THEN RemoveFirst(plan.waitingNodes, n) ELSE plan.waitingNodes
           p    == RemoveWaiting(plan, n, index)
<1>1. /\ plan \in [stack : Seq(Fed), waiting : [Nodes -> Rooms], waitingNodes : Seq(Nodes)]
      /\ \A m \in Nodes : IsFiniteSet(DOMAIN plan.waiting[m])
      /\ \A m \in Nodes : DOMAIN plan.waiting[m] # {} => numberOfInputs(m) > 1
      /\ \A m \in Nodes : \A i \in DOMAIN plan.waiting[m] :
            Len(plan.waiting[m][i]) = numberOfInputs(m)
      /\ \A m \in Nodes : m \in Range(plan.waitingNodes) <=> DOMAIN plan.waiting[m] # {}
      /\ IsInjective(plan.waitingNodes)
    BY DEF PlanShape
<1>2. p = [stack |-> plan.stack, waiting |-> w, waitingNodes |-> keys]
    <2>1. p = [plan EXCEPT !.waiting[n] = room, !.waitingNodes = keys]
        BY DEF RemoveWaiting
    <2> HIDE DEF p, room, keys
    <2> QED BY <1>1, <2>1
<1>3. room \in Rooms /\ DOMAIN room = left /\ \A i \in left : room[i] = plan.waiting[n][i]
    <2>1. plan.waiting[n] \in Rooms
        BY <1>1
    <2> HIDE DEF Rooms
    <2>2. DOMAIN plan.waiting[n] \in SUBSET Nat
            /\ \A i \in DOMAIN plan.waiting[n] : plan.waiting[n][i] \in Seq(Slots)
        BY <2>1, RoomType
    <2>3. room = [i \in DOMAIN room |-> room[i]] /\ DOMAIN room \in SUBSET Nat
            /\ \A i \in DOMAIN room : room[i] \in Seq(Slots)
        BY <2>2
    <2> HIDE DEF room
    <2>4. room \in Rooms
        BY <2>3, RoomType
    <2> QED BY <2>4 DEF room
<1> HIDE DEF room
<1>4. w \in [Nodes -> Rooms] /\ w[n] = room /\ \A m \in Nodes \ {n} : w[m] = plan.waiting[m]
    BY <1>1, <1>3
<1>5. /\ keys \in Seq(Nodes) /\ IsInjective(keys)
      /\ \A m \in Nodes : m \in Range(keys) <=>
            m \in Range(plan.waitingNodes) /\ ~(m = n /\ left = {})
    <2>1. n \in Range(plan.waitingNodes)
        BY <1>1
    <2>2. CASE left = {}
        <3>1. keys = RemoveFirst(plan.waitingNodes, n)
            BY <2>2
        <3>2. plan.waitingNodes \in Seq(Nodes)
            BY <1>1
        <3> HIDE DEF keys, left
        <3>3. /\ RemoveFirst(plan.waitingNodes, n) \in Seq(Nodes)
              /\ IsInjective(RemoveFirst(plan.waitingNodes, n))
              /\ \A m : m \in Range(RemoveFirst(plan.waitingNodes, n)) <=>
                        m \in Range(plan.waitingNodes) /\ m # n
            BY <1>1, <2>1, <3>2, RemoveFirstOne
        <3> QED BY <2>2, <3>1, <3>3
    <2>3. CASE left # {}
        <3>1. keys = plan.waitingNodes
            BY <2>3
        <3> QED BY <1>1, <2>3, <3>1
    <2> QED BY <2>2, <2>3
<1> HIDE DEF w, keys
<1>6. IsFiniteSet(left)
    <2>1. IsFiniteSet(DOMAIN plan.waiting[n]) /\ left \in SUBSET DOMAIN plan.waiting[n]
        BY <1>1
    <2> HIDE DEF left
    <2> QED BY <2>1, FS_Subset
<1>7. PlanShape(p)
    <2>1. p \in [stack : Seq(Fed), waiting : [Nodes -> Rooms], waitingNodes : Seq(Nodes)]
        BY <1>1, <1>2, <1>4, <1>5
    <2>2. p.waiting = w /\ p.waitingNodes = keys
        BY <1>2
    <2>3. \A m \in Nodes : IsFiniteSet(DOMAIN w[m])
        BY <1>1, <1>3, <1>4, <1>6
    <2>4. \A m \in Nodes : DOMAIN w[m] # {} => numberOfInputs(m) > 1
        BY <1>1, <1>3, <1>4
    <2>5. \A m \in Nodes : \A i \in DOMAIN w[m] : Len(w[m][i]) = numberOfInputs(m)
        BY <1>1, <1>3, <1>4
    <2>6. \A m \in Nodes : m \in Range(keys) <=> DOMAIN w[m] # {}
        BY <1>1, <1>3, <1>4, <1>5
    <2> QED BY <1>5, <2>1, <2>2, <2>3, <2>4, <2>5, <2>6 DEF PlanShape
<1>8. p.stack = plan.stack /\ p.waiting = w /\ p.waitingNodes = keys
    BY <1>2
<1> HIDE DEF p
<1>9. \A m \in Nodes : \A i \in DOMAIN p.waiting[m] :
            /\ i \in DOMAIN plan.waiting[m] /\ p.waiting[m][i] = plan.waiting[m][i]
            /\ ~(m = n /\ i = index)
    BY <1>3, <1>4, <1>8
<1> QED BY <1>4, <1>5, <1>7, <1>8, <1>9 DEF p

\* The place that data goes to is a number.
LEMMA WaitingIndexType ==
    ASSUME NEW room \in Rooms, IsFiniteSet(DOMAIN room), NEW input
    PROVE  WaitingIndex(room, input) \in Nat
<1> DEFINE lacking == {i \in DOMAIN room : room[i][input + 1] = Missing}
<1>1. DOMAIN room \in SUBSET Nat
    BY RoomType
<1>2. lacking \in SUBSET Nat
    BY <1>1
<1>3. WaitingIndex(room, input) = IF lacking # {} THEN Min(lacking) ELSE Cardinality(DOMAIN room)
    BY DEF WaitingIndex
<1> HIDE DEF lacking
<1> QED BY <1>2, <1>3, MinType, FS_CardinalityType

\* What holds for the stack after an addition: it is as it was, or has one entry more.
Pushed(stackAfter, stackBefore) ==
    \/ stackAfter = stackBefore
    \/ \E n \in Nodes, data \in Seq(Data) :
            /\ numberOfInputs(n) > 1 /\ data # <<>>
            /\ stackAfter = <<Entry(n, data)>> \o stackBefore

\* A new entry has no run index, no tools and has not asked for any.
LEMMA EntryType ==
    ASSUME NEW n \in Nodes, NEW data \in Seq(Data), data # <<>>
    PROVE  Entry(n, data) \in Fed
<1>1. data \in Seq(Data \cup {Initial})
    OBVIOUS
<1>2. 0 \in 0..MaxRequests /\ -1 \in Nat \cup {-1}
    BY BoundsAssumption
<1> QED BY <1>1, <1>2 DEF Entry, Fed, Entries

\* A plan is still one when data for one of several inputs is added.
LEMMA AddWaitingKeeps ==
    ASSUME workflow \in Workflows, NEW plan, PlanInv(plan),
           NEW n \in Nodes, numberOfInputs(n) > 1, NEW input \in Nat, NEW slot \in Data
    PROVE  /\ PlanInv(AddWaiting(plan, n, input, slot))
           /\ Pushed(AddWaiting(plan, n, input, slot).stack, plan.stack)
<1> DEFINE entries == plan.waiting[n]
           index   == WaitingIndex(entries, input)
           old     == IF index \in DOMAIN entries /\ entries[index][input + 1] = Missing
                      THEN entries[index]
                      ELSE [i \in 1..numberOfInputs(n) |-> Missing]
           new     == [old EXCEPT ![input + 1] = slot]
           updated == [i \in DOMAIN entries \cup {index} |-> IF i = index THEN new ELSE entries[i]]
           keys    == IF Contains(plan.waitingNodes, n) THEN plan.waitingNodes
                      ELSE Append(plan.waitingNodes, n)
           stored  == [plan EXCEPT !.waiting[n] = updated, !.waitingNodes = keys]
           p       == AddWaiting(plan, n, input, slot)
<1>1. PlanShape(plan) /\ PlanLacks(plan)
    BY DEF PlanInv
<1>2. /\ plan \in [stack : Seq(Fed), waiting : [Nodes -> Rooms], waitingNodes : Seq(Nodes)]
      /\ \A m \in Nodes : IsFiniteSet(DOMAIN plan.waiting[m])
      /\ \A m \in Nodes : DOMAIN plan.waiting[m] # {} => numberOfInputs(m) > 1
      /\ \A m \in Nodes : \A i \in DOMAIN plan.waiting[m] :
            Len(plan.waiting[m][i]) = numberOfInputs(m)
      /\ \A m \in Nodes : m \in Range(plan.waitingNodes) <=> DOMAIN plan.waiting[m] # {}
      /\ IsInjective(plan.waitingNodes)
    BY <1>1 DEF PlanShape
<1>3. p = IF Contains(new, Missing) THEN stored
          ELSE [RemoveWaiting(stored, n, index) EXCEPT !.stack = <<Entry(n, new)>> \o @]
    BY DEF AddWaiting
<1> HIDE DEF p
<1>4. /\ entries \in Rooms /\ DOMAIN entries \in SUBSET Nat
      /\ \A i \in DOMAIN entries : entries[i] \in Seq(Slots) /\ Len(entries[i]) = numberOfInputs(n)
    <2>1. entries \in Rooms
        BY <1>2
    <2> HIDE DEF entries
    <2>2. DOMAIN entries \in SUBSET Nat /\ \A i \in DOMAIN entries : entries[i] \in Seq(Slots)
        BY <2>1, RoomType
    <2> QED BY <1>2, <2>1, <2>2 DEF entries
<1>5. index \in Nat
    BY <1>2, <1>4, WaitingIndexType
<1>6. numberOfInputs(n) \in Nat /\ 1 < numberOfInputs(n)
    BY InputsType
<1> HIDE DEF index
<1>7. old \in Seq(Slots) /\ Len(old) = numberOfInputs(n)
    <2>1. CASE index \in DOMAIN entries /\ entries[index][input + 1] = Missing
        BY <1>4, <2>1
    <2>2. CASE ~(index \in DOMAIN entries /\ entries[index][input + 1] = Missing)
        <3>1. old = [i \in 1..numberOfInputs(n) |-> Missing]
            BY <2>2
        <3>2. Missing \in Slots
            BY DataFacts
        <3> HIDE DEF old
        <3> QED BY <1>6, <3>1, <3>2
    <2> QED BY <2>1, <2>2
<1> HIDE DEF old
<1>8. new \in Seq(Slots) /\ Len(new) = numberOfInputs(n)
    <2>1. slot \in Slots
        BY DataFacts
    <2>2. new = [old EXCEPT ![input + 1] = slot]
        OBVIOUS
    <2> HIDE DEF new
    <2>3. CASE input + 1 \in 1..Len(old)
        BY <1>7, <2>1, <2>2, <2>3, ExceptSeq
    <2>4. CASE input + 1 \notin 1..Len(old)
        <3>1. new = old
            BY <1>7, <2>2, <2>4
        <3> QED BY <1>7, <3>1
    <2> QED BY <2>3, <2>4
<1> HIDE DEF new
<1>9. /\ updated \in Rooms /\ DOMAIN updated = DOMAIN entries \cup {index}
      /\ updated[index] = new /\ \A i \in DOMAIN entries : i # index => updated[i] = entries[i]
      /\ IsFiniteSet(DOMAIN updated)
    <2>1. DOMAIN updated \in SUBSET Nat
        BY <1>4, <1>5
    <2>2. \A i \in DOMAIN updated : updated[i] \in Seq(Slots)
        BY <1>4, <1>8
    <2>3. updated = [i \in DOMAIN updated |-> updated[i]]
        OBVIOUS
    <2>4. IsFiniteSet(DOMAIN entries \cup {index})
        BY <1>2, FS_AddElement
    <2>5. updated \in Rooms
        <3> HIDE DEF updated
        <3> QED BY <2>1, <2>2, <2>3, RoomType
    <2> QED BY <2>4, <2>5
<1> HIDE DEF updated
<1>10. /\ keys \in Seq(Nodes) /\ IsInjective(keys)
       /\ \A m \in Nodes : m \in Range(keys) <=> m \in Range(plan.waitingNodes) \/ m = n
    <2> DEFINE ks == plan.waitingNodes
    <2>1. ks \in Seq(Nodes) /\ IsInjective(ks)
        BY <1>2
    <2>2. keys = IF Contains(ks, n) THEN ks ELSE Append(ks, n)
        OBVIOUS
    <2> HIDE DEF ks, keys
    <2>3. CASE Contains(ks, n)
        <3>1. n \in Range(ks)
            BY <2>1, <2>3 DEF Contains, Range
        <3> QED BY <2>1, <2>2, <2>3, <3>1 DEF ks
    <2>4. CASE ~Contains(ks, n)
        <3>1. /\ keys \in Seq(Nodes) /\ Len(keys) = Len(ks) + 1 /\ keys[Len(ks) + 1] = n
              /\ \A i \in 1..Len(ks) : keys[i] = ks[i]
            BY <2>1, <2>2, <2>4
        <3>2. \A i \in 1..Len(ks) : ks[i] # n
            BY <2>4 DEF Contains
        <3>3. IsInjective(keys)
            <4> SUFFICES ASSUME NEW i \in 1..(Len(ks) + 1), NEW j \in 1..(Len(ks) + 1),
                                keys[i] = keys[j]
                         PROVE  i = j
                BY <3>1 DEF IsInjective
            <4>1. \A l, m \in 1..Len(ks) : ks[l] = ks[m] => l = m
                BY <2>1 DEF IsInjective
            <4>2. Len(ks) \in Nat
                BY <2>1
            <4> QED BY <3>1, <3>2, <4>1, <4>2
        <3>4. ASSUME NEW m PROVE m \in Range(keys) <=> m \in Range(ks) \/ m = n
            <4>1. Len(ks) \in Nat /\ DOMAIN ks = 1..Len(ks) /\ DOMAIN keys = 1..(Len(ks) + 1)
                BY <2>1, <3>1
            <4> QED BY <3>1, <4>1 DEF Range
        <3> QED BY <3>1, <3>3, <3>4 DEF ks
    <2> QED BY <2>3, <2>4
<1> HIDE DEF keys
<1> DEFINE w == [plan.waiting EXCEPT ![n] = updated]
<1>11. stored = [stack |-> plan.stack, waiting |-> w, waitingNodes |-> keys]
    <2>1. stored = [plan EXCEPT !.waiting[n] = updated, !.waitingNodes = keys]
        OBVIOUS
    <2> HIDE DEF stored, entries
    <2> QED BY <1>2, <2>1
<1>12. w \in [Nodes -> Rooms] /\ w[n] = updated /\ \A m \in Nodes \ {n} : w[m] = plan.waiting[m]
    BY <1>2, <1>9
<1> HIDE DEF w
<1>13. stored.stack = plan.stack /\ stored.waiting = w /\ stored.waitingNodes = keys
    BY <1>11
<1>14. PlanShape(stored)
    <2>1. stored \in [stack : Seq(Fed), waiting : [Nodes -> Rooms], waitingNodes : Seq(Nodes)]
        BY <1>2, <1>10, <1>11, <1>12
    <2>2. \A m \in Nodes : IsFiniteSet(DOMAIN w[m])
        BY <1>2, <1>9, <1>12
    <2>3. \A m \in Nodes : DOMAIN w[m] # {} => numberOfInputs(m) > 1
        BY <1>2, <1>6, <1>12
    <2>4. \A m \in Nodes : \A i \in DOMAIN w[m] : Len(w[m][i]) = numberOfInputs(m)
        <3>1. \A i \in DOMAIN updated : Len(updated[i]) = numberOfInputs(n)
            BY <1>4, <1>8, <1>9
        <3> QED BY <1>2, <1>12, <3>1
    <2>5. \A m \in Nodes : m \in Range(keys) <=> DOMAIN w[m] # {}
        BY <1>2, <1>9, <1>10, <1>12
    <2> HIDE DEF stored
    <2> QED BY <1>10, <1>13, <2>1, <2>2, <2>3, <2>4, <2>5 DEF PlanShape
<1>15. \A m \in Nodes : \A i \in DOMAIN w[m] :
            ~(m = n /\ i = index) => Contains(w[m][i], Missing)
    <2>1. \A m \in Nodes : \A i \in DOMAIN w[m] :
            ~(m = n /\ i = index) => i \in DOMAIN plan.waiting[m] /\ w[m][i] = plan.waiting[m][i]
        BY <1>9, <1>12
    <2> QED BY <1>1, <2>1 DEF PlanLacks
<1> HIDE DEF stored
<1>16. CASE Contains(new, Missing)
    <2>1. p = stored
        BY <1>3, <1>16
    <2>2. PlanLacks(stored)
        BY <1>9, <1>12, <1>13, <1>15, <1>16 DEF PlanLacks
    <2> QED BY <1>13, <1>14, <2>1, <2>2 DEF PlanInv, Pushed, p
<1>17. CASE ~Contains(new, Missing)
    <2> DEFINE r == RemoveWaiting(stored, n, index)
    <2>1. p = [r EXCEPT !.stack = <<Entry(n, new)>> \o @]
        BY <1>3, <1>17
    <2>2. index \in DOMAIN stored.waiting[n]
        BY <1>9, <1>12, <1>13
    <2>3. /\ PlanShape(r)
          /\ r.stack = stored.stack
          /\ \A m \in Nodes : \A i \in DOMAIN r.waiting[m] :
                /\ i \in DOMAIN stored.waiting[m] /\ r.waiting[m][i] = stored.waiting[m][i]
                /\ ~(m = n /\ i = index)
        BY <1>14, <2>2, RemoveWaitingKeeps
    <2> HIDE DEF r
    <2>4. r \in [stack : Seq(Fed), waiting : [Nodes -> Rooms], waitingNodes : Seq(Nodes)]
        BY <2>3 DEF PlanShape
    <2>5. new \in Seq(Data) /\ new # <<>>
        <3>1. \A i \in 1..Len(new) : new[i] # Missing
            BY <1>17 DEF Contains
        <3>2. \A i \in 1..Len(new) : new[i] \in Data
            BY <1>8, <3>1 DEF Slots
        <3> QED BY <1>6, <1>8, <3>2
    <2>6. Entry(n, new) \in Fed
        BY <2>5, EntryType
    <2>7. /\ p.stack = <<Entry(n, new)>> \o plan.stack /\ p.waiting = r.waiting
          /\ p.waitingNodes = r.waitingNodes
          /\ p \in [stack : Seq(Fed), waiting : [Nodes -> Rooms], waitingNodes : Seq(Nodes)]
        <3>1. r.stack = plan.stack /\ plan.stack \in Seq(Fed)
            BY <1>2, <1>13, <2>3
        <3>2. <<Entry(n, new)>> \o plan.stack \in Seq(Fed)
            BY <2>6, <3>1
        <3> QED BY <2>1, <2>4, <3>1, <3>2
    <2>8. PlanShape(p)
        BY <2>3, <2>7 DEF PlanShape
    <2>9. PlanLacks(p)
        BY <1>13, <1>15, <2>3, <2>7 DEF PlanLacks
    <2> QED BY <2>5, <2>7, <2>8, <2>9 DEF PlanInv, Pushed, p
<1> QED BY <1>16, <1>17

\* One addition: data for an input of a node, or the entry itself.
IsAddition(a) == a.input \in Nat /\ a.entry \in Fed

\* A plan is still one after an addition.
LEMMA AddStepKeeps ==
    ASSUME workflow \in Workflows, NEW plan, PlanInv(plan), NEW a, IsAddition(a)
    PROVE  /\ PlanInv(AddStep(plan, a))
           /\ numberOfInputs(a.entry.node) > 1 => Pushed(AddStep(plan, a).stack, plan.stack)
           /\ ~(numberOfInputs(a.entry.node) > 1) =>
                /\ AddStep(plan, a).stack = <<a.entry>> \o plan.stack
                /\ AddStep(plan, a).waiting = plan.waiting
                /\ AddStep(plan, a).waitingNodes = plan.waitingNodes
<1>1. a.input \in Nat /\ a.entry \in Fed /\ a.entry.node \in Nodes /\ a.entry.data[1] \in Data
    <2>1. a.entry.data # <<>> /\ a.entry.data \in Seq(Data)
        BY DEF IsAddition, Fed
    <2>2. a.entry.data[1] \in Data
        BY <2>1
    <2> QED BY <2>2 DEF IsAddition, Fed, Entries
<1>2. CASE numberOfInputs(a.entry.node) > 1
    <2>1. AddStep(plan, a) = AddWaiting(plan, a.entry.node, a.input, a.entry.data[1])
        BY <1>2 DEF AddStep, addNodeToBeExecuted
    <2> QED BY <1>1, <1>2, <2>1, AddWaitingKeeps
<1>3. CASE ~(numberOfInputs(a.entry.node) > 1)
    <2> DEFINE p == AddStep(plan, a)
    <2>1. p = [plan EXCEPT !.stack = <<a.entry>> \o @]
        BY <1>3 DEF AddStep, addNodeToBeExecuted
    <2> HIDE DEF p
    <2>2. plan \in [stack : Seq(Fed), waiting : [Nodes -> Rooms], waitingNodes : Seq(Nodes)]
        BY DEF PlanInv, PlanShape
    <2>3. /\ p.stack = <<a.entry>> \o plan.stack /\ p.waiting = plan.waiting
          /\ p.waitingNodes = plan.waitingNodes
          /\ p \in [stack : Seq(Fed), waiting : [Nodes -> Rooms], waitingNodes : Seq(Nodes)]
        <3>1. <<a.entry>> \o plan.stack \in Seq(Fed)
            BY <1>1, <2>2
        <3> QED BY <2>1, <2>2, <3>1
    <2>4. PlanShape(p)
        BY <2>3 DEF PlanInv, PlanShape
    <2>5. PlanLacks(p)
        BY <2>3 DEF PlanInv, PlanLacks
    <2> QED BY <1>3, <2>3, <2>4, <2>5 DEF PlanInv, p
<1> QED BY <1>2, <1>3

IsAdditions(additions) ==
    Len(additions) \in Nat /\ \A k \in 1..Len(additions) : IsAddition(additions[k])

\* And after several.
LEMMA AddAllKeeps ==
    ASSUME workflow \in Workflows, PlanInv(Plan), NEW additions, IsAdditions(additions)
    PROVE  PlanInv(AddAll(additions))
<1>1. PICK added : /\ IsAdded(added, additions, Len(additions))
                   /\ AddAll(additions) = added[Len(additions)]
    BY AddAllIsLast DEF IsAdditions
<1>2. /\ Len(additions) \in Nat
      /\ \A k \in 0..Len(additions) :
            added[k] = IF k = 0 THEN Plan ELSE AddStep(added[k - 1], additions[k])
    BY <1>1 DEF IsAdded, IsAdditions
<1> DEFINE S == {k \in Nat : k <= Len(additions) => PlanInv(added[k])}
<1>3. 0 \in S
    BY <1>2
<1>4. ASSUME NEW k \in Nat, k \in S PROVE k + 1 \in S
    <2>1. SUFFICES ASSUME k + 1 <= Len(additions) PROVE PlanInv(added[k + 1])
        OBVIOUS
    <2>2. PlanInv(added[k])
        BY <1>2, <1>4, <2>1
    <2>3. added[k + 1] = AddStep(added[k], additions[k + 1])
        <3>1. k + 1 \in 0..Len(additions) /\ k + 1 # 0 /\ (k + 1) - 1 = k
            BY <1>2, <2>1
        <3> QED BY <1>2, <3>1
    <2>4. IsAddition(additions[k + 1])
        BY <1>2, <2>1 DEF IsAdditions
    <2> QED BY <2>2, <2>3, <2>4, AddStepKeeps
<1> HIDE DEF S
<1>5. Len(additions) \in S
    BY <1>2, <1>3, <1>4, Induction
<1> QED BY <1>1, <1>2, <1>5 DEF S

\* What a node has output is a sequence of additions.
LEMMA ChildrenType ==
    ASSUME workflow \in Workflows, NEW n \in Nodes, NEW run \in Nat, NEW output
    PROVE  /\ IsAdditions(Children(n, run, output))
           /\ Len(Children(n, run, output)) = Cardinality(ConnectionsOf(n, output))
<1> DEFINE to == Outgoing(n, output)
           C  == ConnectionsOf(n, output)
           k  == Cardinality(C)
           children == Children(n, run, output)
<1>1. k \in Nat /\ to \in [1..k -> C] /\ C \subseteq Connection
    BY OutgoingLists, ConnectionsType
<1>2. children = [i \in DOMAIN to |-> [input |-> to[i].input,
                    entry |-> Entry(to[i].to, <<Datum(n, run, to[i].output)>>)]]
    BY DEF Children
<1> HIDE DEF to, C, k, children
<1>3. DOMAIN children = 1..k /\ Len(children) = k
    BY <1>1, <1>2
<1>4. ASSUME NEW i \in 1..k PROVE IsAddition(children[i])
    <2>1. to[i].input \in 0..1 /\ to[i].output \in Indexes /\ to[i].to \in Nodes
        BY <1>1 DEF Connection, Indexes
    <2>2. Datum(n, run, to[i].output) \in Data
        BY <2>1, DataFacts
    <2> DEFINE data == <<Datum(n, run, to[i].output)>>
    <2>3. data \in Seq(Data) /\ data # <<>>
        BY <2>2
    <2>4. /\ children[i].input = to[i].input
          /\ children[i].entry = Entry(to[i].to, data)
        BY <1>1, <1>2
    <2> HIDE DEF data
    <2>5. Entry(to[i].to, data) \in Fed
        BY <2>1, <2>3, EntryType
    <2> QED BY <2>1, <2>4, <2>5 DEF IsAddition
<1> QED BY <1>1, <1>3, <1>4 DEF IsAdditions, k, C, children

\* A plan is still one when the data of a node goes on.
LEMMA AddChildrenKeeps ==
    ASSUME workflow \in Workflows, PlanInv(Plan),
           NEW n \in Nodes, NEW run \in Nat, NEW output
    PROVE  PlanInv(AddChildren(n, run, output))
<1>1. AddChildren(n, run, output) = AddAll(Children(n, run, output))
    BY DEF AddChildren, Children
<1> QED BY <1>1, ChildrenType, AddAllKeeps

\* A plan is still one when a waiting node is run.
LEMMA RunWaitingKeeps ==
    ASSUME workflow \in Workflows, PlanInv(Plan), NEW n \in Nodes, n \in Range(waitingNodes)
    PROVE  /\ PlanInv(RunWaiting(n)) /\ numberOfInputs(n) > 1
           /\ \E data \in Seq(Data) : /\ data # <<>>
                                      /\ RunWaiting(n).stack = Append(stack, Entry(n, data))
<1> DEFINE first == Min(DOMAIN waiting[n])
           data  == [i \in DOMAIN waiting[n][first] |->
                        IF waiting[n][first][i] = Missing THEN Empty ELSE waiting[n][first][i]]
           r     == RemoveWaiting(Plan, n, first)
           p     == RunWaiting(n)
<1>1. /\ Plan.stack = stack /\ Plan.waiting = waiting /\ Plan.waitingNodes = waitingNodes
      /\ Plan \in [stack : Seq(Fed), waiting : [Nodes -> Rooms], waitingNodes : Seq(Nodes)]
      /\ DOMAIN waiting[n] # {} /\ numberOfInputs(n) > 1
      /\ \A i \in DOMAIN waiting[n] : Len(waiting[n][i]) = numberOfInputs(n)
    BY DEF PlanInv, PlanShape, Plan
<1>2. waiting[n] \in Rooms
    BY <1>1
<1>3. /\ DOMAIN waiting[n] \in SUBSET Nat
      /\ \A i \in DOMAIN waiting[n] : waiting[n][i] \in Seq(Slots)
    BY <1>2, RoomType
<1>4. first \in DOMAIN waiting[n]
    BY <1>1, <1>3, MinType
<1> HIDE DEF first
<1>5. data \in Seq(Data) /\ data # <<>>
    <2>1. waiting[n][first] \in Seq(Slots) /\ Len(waiting[n][first]) > 0
        BY <1>1, <1>3, <1>4, InputsType
    <2> DEFINE s == waiting[n][first]
    <2>2. \A i \in 1..Len(s) : s[i] \in Slots
        BY <2>1
    <2>3. \A i \in 1..Len(s) : (IF s[i] = Missing THEN Empty ELSE s[i]) \in Data
        BY <2>2, DataFacts DEF Slots
    <2>4. data = [i \in 1..Len(s) |-> IF s[i] = Missing THEN Empty ELSE s[i]]
        BY <2>1
    <2>5. Len(s) \in Nat /\ Len(s) > 0
        BY <2>1
    <2> HIDE DEF s, data
    <2> QED BY <2>3, <2>4, <2>5
<1> HIDE DEF data
<1>6. Entry(n, data) \in Fed
    BY <1>5, EntryType
<1>7. p = [r EXCEPT !.stack = Append(@, Entry(n, data))]
    BY DEF RunWaiting, data, first
<1>8. /\ PlanShape(r) /\ r.stack = stack
      /\ \A m \in Nodes : \A i \in DOMAIN r.waiting[m] :
            i \in DOMAIN waiting[m] /\ r.waiting[m][i] = waiting[m][i]
    BY <1>1, <1>4, RemoveWaitingKeeps DEF PlanInv
<1> HIDE DEF r, p
<1>9. r \in [stack : Seq(Fed), waiting : [Nodes -> Rooms], waitingNodes : Seq(Nodes)]
    BY <1>8 DEF PlanShape
<1>10. /\ p.stack = Append(stack, Entry(n, data)) /\ p.waiting = r.waiting
       /\ p.waitingNodes = r.waitingNodes
       /\ p \in [stack : Seq(Fed), waiting : [Nodes -> Rooms], waitingNodes : Seq(Nodes)]
    <2> DEFINE e == Entry(n, data)
    <2>1. e \in Fed /\ stack \in Seq(Fed)
        BY <1>6, <1>8, <1>9
    <2>2. p = [r EXCEPT !.stack = Append(@, e)]
        BY <1>7
    <2> HIDE DEF e
    <2>3. Append(stack, e) \in Seq(Fed)
        BY <2>1, AppendProperties
    <2>4. /\ p.stack = Append(stack, e) /\ p.waiting = r.waiting
          /\ p.waitingNodes = r.waitingNodes
          /\ p \in [stack : Seq(Fed), waiting : [Nodes -> Rooms], waitingNodes : Seq(Nodes)]
        BY <1>8, <1>9, <2>2, <2>3
    <2> QED BY <2>4 DEF e
<1>11. PlanShape(p)
    BY <1>8, <1>10 DEF PlanShape
<1>12. PlanLacks(p)
    BY <1>1, <1>8, <1>10 DEF PlanInv, PlanLacks
<1> QED BY <1>1, <1>5, <1>10, <1>11, <1>12 DEF PlanInv, p
-----------------------------------------------------------------------------
(* The type invariant                                                      *)

RoomsInv == PlanInv([stack |-> <<>>, waiting |-> waiting, waitingNodes |-> waitingNodes])

\* The first entry is alone: nothing has run before it.
StackInv ==
    \/ stack \in Seq(Fed)
    \/ stack \in Seq(First) /\ Len(stack) = 1 /\ waitingNodes = <<>>

CurrentInv ==
    /\ current \in Entries
    /\ pc \in {"node", "after:waiting"} =>
        /\ current.run \in Nat
        /\ stack \in Seq(Fed)
        /\ current \in Fed \/ (current \in First /\ stack = <<>> /\ waitingNodes = <<>>)

RunsInv ==
    /\ runData \in [Nodes -> Seq(TaskDatas)]
    /\ lastNodeExecuted \subseteq Nodes

PCs == {"setup", "loop", "node", "after", "after:destination", "after:failed",
        "after:waiting", "stop", "closing", "saving", "ended"}
Done == {"closing", "saving", "ended"}

StatusInv ==
    /\ status \in {"running", "waiting", "success", "error", "canceled"}
    /\ aborted \in BOOLEAN /\ executionError \in BOOLEAN /\ waitTill \in BOOLEAN
    /\ pc \in PCs
    /\ saves \in 0..((IF aborted THEN 1 ELSE 0) + (IF pc \in {"saving", "ended"} THEN 1 ELSE 0))
    /\ pc \notin Done => status \in {"running", "canceled"}

\* An execution that waits has the node that put it to wait on its stack.
WaitInv ==
    /\ pc = "setup" => stack # <<>>
    /\ waitTill => pc \in {"after:waiting", "stop"} \cup Done
    /\ waitTill /\ pc # "after:waiting" => stack # <<>>
    /\ pc \in Done /\ status = "waiting" => waitTill

TypeInv ==
    /\ workflow \in Workflows
    /\ RoomsInv
    /\ StackInv
    /\ CurrentInv
    /\ RunsInv
    /\ StatusInv
    /\ WaitInv

\* The plan, from what the invariant says of its parts.
LEMMA PlanParts ==
    ASSUME NEW plan
    PROVE  (plan = [stack |-> plan.stack, waiting |-> plan.waiting,
                    waitingNodes |-> plan.waitingNodes]) =>
              (PlanInv(plan) <=>
                 /\ plan.stack \in Seq(Fed)
                 /\ PlanInv([stack |-> <<>>, waiting |-> plan.waiting,
                             waitingNodes |-> plan.waitingNodes]))
<1> DEFINE q == [stack |-> <<>>, waiting |-> plan.waiting, waitingNodes |-> plan.waitingNodes]
<1>1. q.stack = <<>> /\ q.waiting = plan.waiting /\ q.waitingNodes = plan.waitingNodes
    OBVIOUS
<1>2. q.stack \in Seq(Fed)
    BY <1>1
<1> SUFFICES ASSUME plan = [stack |-> plan.stack, waiting |-> plan.waiting,
                            waitingNodes |-> plan.waitingNodes]
             PROVE  PlanInv(plan) <=> plan.stack \in Seq(Fed) /\ PlanInv(q)
    OBVIOUS
<1>3. plan \in [stack : Seq(Fed), waiting : [Nodes -> Rooms], waitingNodes : Seq(Nodes)] <=>
        /\ plan.stack \in Seq(Fed)
        /\ q \in [stack : Seq(Fed), waiting : [Nodes -> Rooms], waitingNodes : Seq(Nodes)]
    BY <1>1, <1>2
<1> HIDE DEF q
<1>4. PlanShape(plan) <=> plan.stack \in Seq(Fed) /\ PlanShape(q)
    BY <1>1, <1>3 DEF PlanShape
<1>5. PlanLacks(plan) <=> PlanLacks(q)
    BY <1>1 DEF PlanLacks
<1> QED BY <1>4, <1>5 DEF PlanInv

\* Where no first entry is on the stack, the plan is well formed.
LEMMA PlanIsWellFormed ==
    ASSUME RoomsInv, stack \in Seq(Fed)
    PROVE  PlanInv(Plan)
BY PlanParts DEF Plan, RoomsInv

\* What a well-formed plan leaves behind.
LEMMA SetPlanKeeps ==
    ASSUME NEW plan, PlanInv(plan), SetPlan(plan), UNCHANGED workflow
    PROVE  RoomsInv' /\ stack' \in Seq(Fed)
<1>1. plan = [stack |-> plan.stack, waiting |-> plan.waiting, waitingNodes |-> plan.waitingNodes]
    BY DEF PlanInv, PlanShape
<1>2. /\ plan.stack \in Seq(Fed)
      /\ PlanInv([stack |-> <<>>, waiting |-> plan.waiting, waitingNodes |-> plan.waitingNodes])
    BY <1>1, PlanParts
<1>3. /\ PlanInv([stack |-> <<>>, waiting |-> waiting', waitingNodes |-> waitingNodes'])
      /\ stack' \in Seq(Fed)
    BY <1>2 DEF SetPlan
<1>4. \A n : numberOfInputs(n)' = numberOfInputs(n)
    BY DEF numberOfInputs, InputsOf
<1> QED BY <1>3, <1>4 DEF RoomsInv, PlanInv, PlanShape, PlanLacks

\* What waits does not depend on the stack.
LEMMA RoomsKept ==
    ASSUME RoomsInv, UNCHANGED <<workflow, waiting, waitingNodes>>
    PROVE  RoomsInv'
<1>1. \A n : numberOfInputs(n)' = numberOfInputs(n)
    BY DEF numberOfInputs, InputsOf
<1> QED BY <1>1 DEF RoomsInv, PlanInv, PlanShape, PlanLacks

\* It holds at first.
LEMMA TypeInit == Init => TypeInv
<1> SUFFICES ASSUME Init PROVE TypeInv
    OBVIOUS
<1>1. workflow.start \in Nodes
    BY WorkflowsAssumption DEF Init, IsWorkflow
<1>2. RoomsInv
    <2> DEFINE plan == [stack |-> <<>>, waiting |-> waiting, waitingNodes |-> waitingNodes]
    <2>1. waiting = [n \in Nodes |-> <<>>] /\ waitingNodes = <<>>
        BY DEF Init
    <2>2. <<>> \in Rooms /\ DOMAIN <<>> = {} /\ IsFiniteSet({})
        <3>1. \A room : (room = <<>>) => room = [i \in DOMAIN room |-> room[i]] /\ DOMAIN room = {}
            OBVIOUS
        <3> HIDE DEF Rooms
        <3>2. <<>> \in Rooms
            BY <3>1, RoomType
        <3> QED BY <3>1, <3>2, FS_EmptySet
    <2>3. plan.stack = <<>> /\ plan.waiting = waiting /\ plan.waitingNodes = <<>>
        BY <2>1
    <2>4. plan \in [stack : Seq(Fed), waiting : [Nodes -> Rooms], waitingNodes : Seq(Nodes)]
        BY <2>1, <2>2
    <2>5. \A n \in Nodes : plan.waiting[n] = <<>> /\ DOMAIN plan.waiting[n] = {}
        BY <2>1, <2>2
    <2>6. Range(plan.waitingNodes) = {} /\ IsInjective(plan.waitingNodes)
        BY <2>3 DEF Range, IsInjective
    <2> HIDE DEF plan
    <2>7. PlanShape(plan)
        BY <2>2, <2>4, <2>5, <2>6 DEF PlanShape
    <2>8. PlanLacks(plan)
        BY <2>5 DEF PlanLacks
    <2> QED BY <2>7, <2>8 DEF RoomsInv, PlanInv, plan
<1>3. Entry(workflow.start, <<Initial>>) \in First /\ Entry(workflow.start, <<>>) \in Entries
    <2>1. 0 \in 0..MaxRequests /\ -1 \in Nat \cup {-1}
        BY BoundsAssumption
    <2>2. <<Initial>> \in Seq(Data \cup {Initial}) /\ <<>> \in Seq(Data \cup {Initial})
        OBVIOUS
    <2> QED BY <1>1, <2>1, <2>2 DEF Entry, First, Entries
<1>4. StackInv
    <2>1. /\ stack = <<Entry(workflow.start, <<Initial>>)>> /\ waitingNodes = <<>>
        BY DEF Init
    <2> QED BY <1>3, <2>1 DEF StackInv
<1>5. CurrentInv
    BY <1>3 DEF Init, CurrentInv
<1>6. RunsInv /\ StatusInv
    <2>1. RunsInv
        BY DEF Init, RunsInv
    <2>2. status = "running" /\ aborted = FALSE /\ executionError = FALSE /\ waitTill = FALSE
            /\ pc = "setup" /\ saves = 0
        BY DEF Init
    <2>3. saves \in 0..((IF aborted THEN 1 ELSE 0) + (IF pc \in {"saving", "ended"} THEN 1 ELSE 0))
        BY <2>2
    <2>4. pc \in PCs
        BY <2>2 DEF PCs
    <2> QED BY <2>1, <2>2, <2>3, <2>4 DEF StatusInv
<1>7. WaitInv
    BY DEF Init, WaitInv, Done
<1> QED BY <1>2, <1>4, <1>5, <1>6, <1>7 DEF Init, TypeInv

\* Steps that leave the plan and the run data alone.
LEMMA TypeKept ==
    ASSUME TypeInv, [Begin \/ TimeIsUp \/ LoopEnds \/ AfterDestination \/ Close \/ Save
                        \/ Resolve \/ Cancel]_vars
    PROVE  TypeInv'
<1>1. UNCHANGED <<workflow, stack, waiting, waitingNodes, runData, lastNodeExecuted, current>>
    BY DEF Begin, TimeIsUp, LoopEnds, AfterDestination, Close, Save, Resolve, Cancel, vars,
           dataVars
<1>2. workflow' \in Workflows /\ RoomsInv' /\ StackInv' /\ RunsInv'
    BY <1>1, RoomsKept DEF TypeInv, StackInv, RunsInv
<1>3. pc' \in {"node", "after:waiting"} => pc' = pc
    BY DEF Begin, TimeIsUp, LoopEnds, AfterDestination, Close, Save, Resolve, Cancel, vars
<1>4. CurrentInv'
    BY <1>1, <1>3 DEF TypeInv, CurrentInv
<1>5. StatusInv'
    <2>1. CASE Begin \/ TimeIsUp \/ LoopEnds \/ AfterDestination
        BY <2>1 DEF TypeInv, StatusInv, PCs, Done, Begin, TimeIsUp, LoopEnds, AfterDestination
    <2>2. CASE Close
        BY <2>2 DEF TypeInv, StatusInv, PCs, Done, Close
    <2>3. CASE Save
        BY <2>3 DEF TypeInv, StatusInv, PCs, Done, Save, SavedByCancel
    <2>4. CASE Resolve
        BY <2>4 DEF TypeInv, StatusInv, PCs, Done, Resolve
    <2>5. CASE Cancel
        BY <2>5 DEF TypeInv, StatusInv, PCs, Done, Cancel
    <2>6. CASE UNCHANGED vars
        BY <2>6 DEF TypeInv, StatusInv, vars
    <2> QED BY <2>1, <2>2, <2>3, <2>4, <2>5, <2>6
<1>6. WaitInv'
    <2>1. CASE Begin \/ TimeIsUp \/ LoopEnds \/ AfterDestination
        BY <1>1, <2>1 DEF TypeInv, StatusInv, WaitInv, PCs, Done, Begin, TimeIsUp, LoopEnds,
                          AfterDestination
    <2>2. CASE Close
        BY <1>1, <2>2 DEF TypeInv, StatusInv, WaitInv, PCs, Done, Close
    <2>3. CASE Save
        BY <1>1, <2>3 DEF TypeInv, StatusInv, WaitInv, PCs, Done, Save
    <2>4. CASE Resolve
        BY <1>1, <2>4 DEF TypeInv, StatusInv, WaitInv, PCs, Done, Resolve
    <2>5. CASE Cancel
        BY <1>1, <2>5 DEF TypeInv, StatusInv, WaitInv, PCs, Done, Cancel
    <2>6. CASE UNCHANGED vars
        BY <1>1, <2>6 DEF TypeInv, WaitInv, vars
    <2> QED BY <2>1, <2>2, <2>3, <2>4, <2>5, <2>6
<1> QED BY <1>2, <1>4, <1>5, <1>6 DEF TypeInv

\* The head of the stack.
LEMMA HeadOfStack ==
    ASSUME StackInv, stack # <<>>
    PROVE  /\ Head(stack) \in Entries /\ Tail(stack) \in Seq(Fed)
           /\ \/ Head(stack) \in Fed
              \/ Head(stack) \in First /\ Tail(stack) = <<>> /\ waitingNodes = <<>>
<1>1. Fed \subseteq Entries /\ First \subseteq Entries
    BY DEF Fed, First
<1>2. CASE stack \in Seq(Fed)
    <2>1. Head(stack) \in Fed /\ Tail(stack) \in Seq(Fed)
        BY <1>2
    <2> QED BY <1>1, <2>1
<1>3. CASE stack \in Seq(First) /\ Len(stack) = 1 /\ waitingNodes = <<>>
    <2>1. Head(stack) \in First /\ Tail(stack) \in Seq(First) /\ Len(Tail(stack)) = 0
        BY <1>3
    <2>2. Tail(stack) = <<>> /\ <<>> \in Seq(Fed)
        BY <2>1, EmptySeq
    <2> QED BY <1>1, <1>3, <2>1, <2>2
<1> QED BY <1>2, <1>3 DEF StackInv

\* The number of the runs of a node.
LEMMA RunsLength ==
    ASSUME RunsInv, NEW n \in Nodes
    PROVE  runData[n] \in Seq(TaskDatas) /\ Len(runData[n]) \in Nat
<1>1. runData[n] \in Seq(TaskDatas)
    BY DEF RunsInv
<1> QED BY <1>1

\* Setting the run index of an entry.
LEMMA RunIndexType ==
    ASSUME NEW e \in Entries, NEW run \in Nat
    PROVE  /\ [e EXCEPT !.run = run] \in Entries
           /\ [e EXCEPT !.run = run].run = run
           /\ e \in Fed => [e EXCEPT !.run = run] \in Fed
           /\ e \in First => [e EXCEPT !.run = run] \in First
BY DEF Entries, Fed, First

\* A node is begun or skipped.
LEMMA TypeStart ==
    ASSUME TypeInv, StartNode \/ SkipNode
    PROVE  TypeInv'
<1>1. /\ stack # <<>> /\ stack' = Tail(stack) /\ pc = "loop"
      /\ UNCHANGED <<workflow, waiting, waitingNodes, runData, lastNodeExecuted, status, aborted,
                     waitTill, saves>>
      /\ executionError' = FALSE
    BY DEF StartNode, SkipNode
<1>2. /\ Head(stack) \in Entries /\ Tail(stack) \in Seq(Fed)
      /\ \/ Head(stack) \in Fed
         \/ Head(stack) \in First /\ Tail(stack) = <<>> /\ waitingNodes = <<>>
    BY <1>1, HeadOfStack DEF TypeInv
<1>3. workflow' \in Workflows /\ RoomsInv' /\ RunsInv'
    BY <1>1, RoomsKept DEF TypeInv, RunsInv
<1>4. StackInv'
    BY <1>1, <1>2 DEF StackInv
<1>5. CurrentInv' /\ pc' \in {"node", "loop"}
    <2>1. CASE SkipNode
        BY <1>1, <2>1 DEF SkipNode, TypeInv, CurrentInv
    <2>2. CASE StartNode
        <3> DEFINE e   == Head(stack)
                   run == IF e.run # -1 THEN e.run ELSE Len(runData[e.node])
        <3>1. current' = [e EXCEPT !.run = run] /\ pc' = "node"
            BY <2>2 DEF StartNode
        <3>2. e.node \in Nodes /\ e.run \in Nat \cup {-1}
            BY <1>2 DEF Entries
        <3>3. run \in Nat
            BY <3>2, RunsLength DEF TypeInv
        <3> HIDE DEF e, run
        <3>4. /\ current' \in Entries /\ current'.run \in Nat
              /\ e \in Fed => current' \in Fed
              /\ e \in First => current' \in First
            BY <1>2, <3>1, <3>3, RunIndexType DEF e
        <3> QED BY <1>1, <1>2, <3>1, <3>4 DEF CurrentInv, e
    <2> QED BY <2>1, <2>2
<1>6. StatusInv'
    BY <1>1, <1>5 DEF TypeInv, StatusInv, PCs, Done
<1>7. WaitInv'
    BY <1>1, <1>5 DEF TypeInv, WaitInv, Done
<1> QED BY <1>3, <1>4, <1>5, <1>6, <1>7 DEF TypeInv

\* The first node fails before it is run.
LEMMA TypeSetupFails ==
    ASSUME TypeInv, SetupFails
    PROVE  TypeInv'
<1>1. /\ pc = "setup" /\ pc' = "saving" /\ executionError' = TRUE /\ saves' = saves + 1
      /\ UNCHANGED <<workflow, stack, waiting, waitingNodes, current, status, aborted, waitTill>>
    BY DEF SetupFails
<1>2. Head(stack).node \in Nodes
    BY <1>1, HeadOfStack DEF TypeInv, WaitInv, Entries
<1>3. RunsInv'
    <2>1. TaskData("error", {}) \in TaskDatas
        BY DEF TaskData, TaskDatas
    <2>2. /\ runData' = [m \in Nodes |-> IF m = Head(stack).node THEN <<TaskData("error", {})>>
                                         ELSE <<>>]
          /\ lastNodeExecuted' = {Head(stack).node}
        BY DEF SetupFails
    <2> QED BY <1>2, <2>1, <2>2 DEF RunsInv
<1>4. workflow' \in Workflows /\ RoomsInv' /\ StackInv' /\ CurrentInv'
    BY <1>1, RoomsKept DEF TypeInv, StackInv, CurrentInv
<1>5. StatusInv' /\ WaitInv'
    BY <1>1 DEF TypeInv, StatusInv, WaitInv, PCs, Done
<1> QED BY <1>3, <1>4, <1>5 DEF TypeInv

\* The run data with the current run.
LEMMA RecordedType ==
    ASSUME TypeInv, pc = "node", NEW taskData \in TaskDatas
    PROVE  Recorded(taskData) \in [Nodes -> Seq(TaskDatas)]
<1> DEFINE n   == current.node
           run == current.run
           s   == runData[n]
           t   == IF run + 1 \in DOMAIN s THEN [s EXCEPT ![run + 1] = taskData]
                  ELSE Append(s, taskData)
<1>1. n \in Nodes
    BY DEF TypeInv, CurrentInv, Entries
<1>2. s \in Seq(TaskDatas) /\ runData \in [Nodes -> Seq(TaskDatas)]
    BY <1>1 DEF TypeInv, RunsInv
<1>3. Recorded(taskData) = [runData EXCEPT ![n] = t]
    BY <1>1, <1>2 DEF Recorded
<1> HIDE DEF s
<1>4. t \in Seq(TaskDatas)
    BY <1>2
<1> HIDE DEF t, n
<1> QED BY <1>1, <1>2, <1>3, <1>4

\* The outputs of a node with connections.
LEMMA OutputsType ==
    ASSUME workflow \in Workflows
    PROVE  Outputs \subseteq Indexes /\ PassedOn \subseteq Indexes
<1>1. workflow.connections \subseteq Connection
    BY WorkflowsAssumption DEF IsWorkflow
<1>2. Outputs \subseteq Indexes
    BY <1>1 DEF Outputs, Connection
<1> QED BY <1>2 DEF PassedOn

\* A node has ended with some output.
LEMMA GoOnKeepsType ==
    ASSUME TypeInv, pc = "node", NEW taskStatus \in {"success", "error"}, NEW output,
           output \subseteq Indexes, GoOn(taskStatus, output), executionError' \in BOOLEAN
    PROVE  TypeInv'
<1>1. /\ UNCHANGED <<workflow, current, status, aborted, waitTill, saves>>
      /\ runData' = Recorded(TaskData(taskStatus, output)) /\ lastNodeExecuted' = {current.node}
      /\ pc' \in {"after", "after:destination"}
    BY DEF GoOn
<1>2. /\ current.node \in Nodes /\ current.run \in Nat /\ stack \in Seq(Fed)
    BY DEF TypeInv, CurrentInv, Entries
<1>3. RunsInv'
    <2>1. TaskData(taskStatus, output) \in TaskDatas
        BY DEF TaskData, TaskDatas
    <2> QED BY <1>1, <1>2, <2>1, RecordedType DEF RunsInv
<1>4. RoomsInv' /\ stack' \in Seq(Fed)
    <2>1. CASE current.node \in workflow.destination
        <3>1. UNCHANGED <<workflow, stack, waiting, waitingNodes>>
            BY <1>1, <2>1 DEF GoOn
        <3> QED BY <1>2, <3>1, RoomsKept DEF TypeInv
    <2>2. CASE current.node \notin workflow.destination
        <3>1. SetPlan(AddChildren(current.node, current.run, output))
            BY <2>2 DEF GoOn
        <3>2. PlanInv(Plan)
            BY <1>2, PlanIsWellFormed DEF TypeInv
        <3>3. PlanInv(AddChildren(current.node, current.run, output))
            BY <1>2, <3>2, AddChildrenKeeps DEF TypeInv
        <3> QED BY <1>1, <3>1, <3>3, SetPlanKeeps
    <2> QED BY <2>1, <2>2
<1>5. workflow' \in Workflows /\ StackInv' /\ CurrentInv'
    BY <1>1, <1>4 DEF TypeInv, StackInv, CurrentInv
<1>6. StatusInv'
    BY <1>1 DEF TypeInv, StatusInv, PCs, Done
<1>7. WaitInv'
    BY <1>1 DEF TypeInv, WaitInv, Done
<1> QED BY <1>3, <1>4, <1>5, <1>6, <1>7 DEF TypeInv

\* The current entry on the stack again.
LEMMA CurrentOnStack ==
    ASSUME TypeInv, pc \in {"node", "after:waiting"},
           stack' = <<current>> \o stack, UNCHANGED waitingNodes
    PROVE  StackInv' /\ stack' # <<>>
<1>1. /\ stack \in Seq(Fed)
      /\ current \in Fed \/ (current \in First /\ stack = <<>> /\ waitingNodes = <<>>)
    BY DEF TypeInv, CurrentInv
<1>2. CASE current \in Fed
    <2>1. stack' \in Seq(Fed) /\ Len(stack') = Len(stack) + 1 /\ Len(stack) \in Nat
        BY <1>1, <1>2
    <2> QED BY <2>1, EmptySeq DEF StackInv
<1>3. CASE current \in First /\ stack = <<>> /\ waitingNodes = <<>>
    <2>1. stack' = <<current>>
        BY <1>3
    <2> QED BY <1>3, <2>1 DEF StackInv
<1> QED BY <1>1, <1>2, <1>3

\* A node fails.
LEMMA TypeNodeFails ==
    ASSUME TypeInv, NodeFails
    PROVE  TypeInv'
<1>1. pc = "node" /\ executionError' = TRUE
    BY DEF NodeFails
<1>2. CASE current.node \in workflow.continueOnFail
    <2>1. GoOn("error", PassedOn)
        BY <1>2 DEF NodeFails
    <2> QED BY <1>1, <2>1, GoOnKeepsType, OutputsType DEF TypeInv
<1>3. CASE current.node \notin workflow.continueOnFail
    <2>1. /\ runData' = Recorded(TaskData("error", {})) /\ lastNodeExecuted' = {current.node}
          /\ stack' = <<current>> \o stack
          /\ pc' \in {"stop", "after:failed"}
          /\ UNCHANGED <<workflow, waiting, waitingNodes, current, status, aborted, waitTill, saves>>
        BY <1>3 DEF NodeFails
    <2>2. RunsInv'
        <3>1. TaskData("error", {}) \in TaskDatas
            BY DEF TaskData, TaskDatas
        <3> QED BY <1>1, <2>1, <3>1, RecordedType DEF RunsInv, TypeInv, CurrentInv, Entries
    <2>3. StackInv' /\ stack' # <<>>
        BY <1>1, <2>1, CurrentOnStack
    <2>4. workflow' \in Workflows /\ RoomsInv' /\ CurrentInv'
        BY <2>1, RoomsKept DEF TypeInv, CurrentInv
    <2>5. StatusInv'
        BY <1>1, <2>1 DEF TypeInv, StatusInv, PCs, Done
    <2>6. WaitInv'
        BY <1>1, <2>1 DEF TypeInv, WaitInv, Done
    <2> QED BY <2>2, <2>3, <2>4, <2>5, <2>6 DEF TypeInv
<1> QED BY <1>2, <1>3

\* A node ends in any way but by asking for tools.
LEMMA TypeNodeEnds ==
    ASSUME TypeInv, \/ \E output \in SUBSET Outputs : NodeSucceeds(output)
                    \/ NodeReturnsNull \/ NodeWaits
    PROVE  TypeInv'
<1>1. CASE \E output \in SUBSET Outputs : NodeSucceeds(output)
    <2>1. PICK output \in SUBSET Outputs : NodeSucceeds(output)
        BY <1>1
    <2>2. output \subseteq Indexes
        BY <2>1, OutputsType DEF TypeInv
    <2>3. pc = "node" /\ GoOn("success", output) /\ executionError' \in BOOLEAN
        BY <2>1 DEF NodeSucceeds, TypeInv, StatusInv
    <2> QED BY <2>2, <2>3, GoOnKeepsType
<1>2. CASE NodeReturnsNull
    <2>1. /\ pc = "node" /\ pc' = "loop"
          /\ UNCHANGED <<workflow, stack, waiting, waitingNodes, runData, lastNodeExecuted,
                         current, status, aborted, executionError, waitTill, saves>>
        BY <1>2 DEF NodeReturnsNull
    <2>2. workflow' \in Workflows /\ RoomsInv' /\ StackInv' /\ CurrentInv' /\ RunsInv'
        BY <2>1, RoomsKept DEF TypeInv, StackInv, CurrentInv, RunsInv
    <2>3. StatusInv' /\ WaitInv'
        BY <2>1 DEF TypeInv, StatusInv, WaitInv, PCs, Done
    <2> QED BY <2>2, <2>3 DEF TypeInv
<1>3. CASE NodeWaits
    <2>1. /\ pc = "node" /\ pc' = "after:waiting" /\ waitTill' = TRUE
          /\ runData' = Recorded(TaskData("waiting", {})) /\ lastNodeExecuted' = {current.node}
          /\ UNCHANGED <<workflow, stack, waiting, waitingNodes,
                         current, status, aborted, executionError, saves>>
        BY <1>3 DEF NodeWaits
    <2>2. RunsInv'
        <3>1. TaskData("waiting", {}) \in TaskDatas
            BY DEF TaskData, TaskDatas
        <3> QED BY <2>1, <3>1, RecordedType DEF RunsInv, TypeInv, CurrentInv, Entries
    <2>3. workflow' \in Workflows /\ RoomsInv' /\ StackInv' /\ CurrentInv'
        BY <2>1, RoomsKept DEF TypeInv, StackInv, CurrentInv
    <2>4. StatusInv' /\ WaitInv'
        BY <2>1 DEF TypeInv, StatusInv, WaitInv, PCs, Done
    <2> QED BY <2>2, <2>3, <2>4 DEF TypeInv
<1> QED BY <1>1, <1>2, <1>3

\* The node that is to run next is one of those that wait.
LEMMA NextWaitingType ==
    ASSUME TypeInv, NEW n \in NextWaiting
    PROVE  n \in Range(waitingNodes) /\ n \in Nodes /\ MayRunWithout(n)
<1> DEFINE able == {i \in DOMAIN waitingNodes : MayRunWithout(waitingNodes[i])}
<1>1. able # {} /\ n = waitingNodes[Min(able)]
    BY DEF NextWaiting
<1>2. waitingNodes \in Seq(Nodes)
    BY DEF TypeInv, RoomsInv, PlanInv, PlanShape
<1>3. able \in SUBSET Nat /\ able \subseteq DOMAIN waitingNodes
    BY <1>2
<1>4. \A i \in able : MayRunWithout(waitingNodes[i])
    OBVIOUS
<1> HIDE DEF able
<1>5. Min(able) \in DOMAIN waitingNodes /\ Min(able) \in able
    BY <1>1, <1>3, MinType
<1> QED BY <1>1, <1>2, <1>4, <1>5 DEF Range

\* The engine goes on, with a waiting node or not.
LEMMA TypeAfter ==
    ASSUME TypeInv, AfterNode \/ AfterStop
    PROVE  TypeInv'
<1>1. CASE AfterNode
    <2>1. /\ pc = "after" /\ pc' = "loop"
          /\ UNCHANGED <<workflow, runData, lastNodeExecuted, current, status, aborted,
                         executionError, waitTill, saves>>
        BY <1>1 DEF AfterNode
    <2>2. RoomsInv' /\ StackInv'
        <3>1. CASE stack = <<>> /\ NextWaiting # {}
            <4>1. PICK n \in NextWaiting : SetPlan(RunWaiting(n))
                BY <1>1, <3>1 DEF AfterNode
            <4>2. n \in Range(waitingNodes) /\ n \in Nodes
                BY <4>1, NextWaitingType
            <4>3. PlanInv(Plan)
                <5>1. stack \in Seq(Fed)
                    BY <3>1
                <5> QED BY <5>1, PlanIsWellFormed DEF TypeInv
            <4>4. PlanInv(RunWaiting(n))
                BY <4>2, <4>3, RunWaitingKeeps DEF TypeInv
            <4>5. RoomsInv' /\ stack' \in Seq(Fed)
                BY <2>1, <4>1, <4>4, SetPlanKeeps
            <4> QED BY <4>5 DEF StackInv
        <3>2. CASE ~(stack = <<>> /\ NextWaiting # {})
            <4>1. UNCHANGED <<stack, waiting, waitingNodes>>
                BY <1>1, <3>2 DEF AfterNode
            <4> QED BY <2>1, <4>1, RoomsKept DEF TypeInv, StackInv
        <3> QED BY <3>1, <3>2
    <2>3. workflow' \in Workflows /\ CurrentInv' /\ RunsInv'
        BY <2>1 DEF TypeInv, CurrentInv, RunsInv
    <2>4. StatusInv' /\ WaitInv'
        BY <2>1 DEF TypeInv, StatusInv, WaitInv, PCs, Done
    <2> QED BY <2>2, <2>3, <2>4 DEF TypeInv
<1>2. CASE AfterStop
    <2>1. /\ pc \in {"after:failed", "after:waiting"} /\ pc' = "stop"
          /\ stack' = IF pc = "after:waiting" THEN <<current>> \o stack ELSE stack
          /\ UNCHANGED <<workflow, waiting, waitingNodes, runData, lastNodeExecuted, current,
                         status, aborted, executionError, waitTill, saves>>
        BY <1>2 DEF AfterStop
    <2>2. StackInv' /\ (pc = "after:waiting" => stack' # <<>>)
        <3>1. CASE pc = "after:waiting"
            BY <2>1, <3>1, CurrentOnStack
        <3>2. CASE pc = "after:failed"
            BY <2>1, <3>2 DEF TypeInv, StackInv
        <3> QED BY <2>1, <3>1, <3>2
    <2>3. workflow' \in Workflows /\ RoomsInv' /\ CurrentInv' /\ RunsInv'
        BY <2>1, RoomsKept DEF TypeInv, CurrentInv, RunsInv
    <2>4. StatusInv'
        BY <2>1 DEF TypeInv, StatusInv, PCs, Done
    <2>5. WaitInv'
        BY <2>1, <2>2 DEF TypeInv, WaitInv, Done
    <2> QED BY <2>2, <2>3, <2>4, <2>5 DEF TypeInv
<1> QED BY <1>1, <1>2

\* Another engine goes on with an execution that waits.
LEMMA TypeResume ==
    ASSUME TypeInv, Resume
    PROVE  TypeInv'
<1>1. /\ pc = "ended" /\ status = "waiting" /\ pc' = "setup" /\ status' = "running"
      /\ waitTill' = FALSE /\ executionError' = FALSE /\ saves' = 0
      /\ stack' = [stack EXCEPT ![1].disabled = TRUE]
      /\ runData' = RunDataWithoutLast
      /\ UNCHANGED <<workflow, waiting, waitingNodes, lastNodeExecuted, current, aborted>>
    BY DEF Resume
<1>2. stack # <<>>
    BY <1>1 DEF TypeInv, WaitInv, Done
<1>3. /\ \A e \in Fed : [e EXCEPT !.disabled = TRUE] \in Fed
      /\ \A e \in First : [e EXCEPT !.disabled = TRUE] \in First
    BY DEF Fed, First, Entries
<1>4. StackInv' /\ stack' # <<>>
    <2>1. CASE stack \in Seq(Fed)
        <3>1. 1 \in 1..Len(stack) /\ stack[1] \in Fed
            BY <1>2, <2>1
        <3>2. stack' = [stack EXCEPT ![1] = [stack[1] EXCEPT !.disabled = TRUE]]
            BY <1>1, <2>1, <3>1
        <3>3. stack' \in Seq(Fed) /\ Len(stack') = Len(stack)
            BY <1>3, <2>1, <3>1, <3>2
        <3> QED BY <2>1, <3>1, <3>3 DEF StackInv
    <2>2. CASE stack \in Seq(First) /\ Len(stack) = 1 /\ waitingNodes = <<>>
        <3>1. 1 \in 1..Len(stack) /\ stack[1] \in First
            BY <2>2
        <3>2. stack' = [stack EXCEPT ![1] = [stack[1] EXCEPT !.disabled = TRUE]]
            BY <1>1, <2>2, <3>1
        <3>3. stack' \in Seq(First) /\ Len(stack') = Len(stack)
            BY <1>3, <2>2, <3>1, <3>2
        <3> QED BY <1>1, <2>2, <3>3 DEF StackInv
    <2> QED BY <2>1, <2>2 DEF TypeInv, StackInv
<1>5. RunsInv'
    <2>1. ASSUME NEW n \in Nodes PROVE Front(runData[n]) \in Seq(TaskDatas)
        <3>1. runData[n] \in Seq(TaskDatas) /\ Len(runData[n]) \in Nat
            BY RunsLength DEF TypeInv
        <3> QED BY <3>1 DEF Front
    <2> QED BY <1>1, <2>1 DEF TypeInv, RunsInv, RunDataWithoutLast
<1>6. workflow' \in Workflows /\ RoomsInv' /\ CurrentInv'
    BY <1>1, RoomsKept DEF TypeInv, CurrentInv
<1>7. StatusInv'
    <2>1. aborted' \in BOOLEAN /\ executionError' \in BOOLEAN /\ waitTill' \in BOOLEAN
        BY <1>1 DEF TypeInv, StatusInv
    <2>2. saves' \in 0..((IF aborted' THEN 1 ELSE 0)
                            + (IF pc' \in {"saving", "ended"} THEN 1 ELSE 0))
        BY <1>1, <2>1
    <2> QED BY <1>1, <2>1, <2>2 DEF StatusInv, PCs
<1>8. WaitInv'
    BY <1>1, <1>4 DEF WaitInv, Done
<1> QED BY <1>4, <1>5, <1>6, <1>7, <1>8 DEF TypeInv
-----------------------------------------------------------------------------
(* An agent asks for tools                                                  *)

\* The tools of the current node, their run indexes, their entries and what is put
\* on the stack: the agent at the bottom.
Tools == workflow.tools[current.node]
Runs == [i \in DOMAIN Tools |->
            <<Tools[i], Len(runData[Tools[i]]) + Cardinality({j \in 1..(i - 1) : Tools[j] = Tools[i]})>>]
ToolEntry(i) == [Entry(Runs[i][1], <<Datum(current.node, current.run, 0)>>) EXCEPT !.run = Runs[i][2]]
AgentEntry == [current EXCEPT !.tools = Runs, !.requests = @ + 1]
Requests == [i \in 1..(Len(Tools) + 1) |->
                [input |-> 0, entry |-> IF i = 1 THEN AgentEntry ELSE ToolEntry(i - 1)]]

\* The tools of an agent.
LEMMA ToolsType ==
    ASSUME TypeInv
    PROVE  Tools \in Seq(Nodes) /\ Len(Tools) \in Nat /\ DOMAIN Tools = 1..Len(Tools)
<1>1. current.node \in Nodes
    BY DEF TypeInv, CurrentInv, Entries
<1>2. Tools \in Seq(Nodes)
    BY <1>1, WorkflowsAssumption DEF TypeInv, IsWorkflow, Tools
<1> QED BY <1>2

\* How often something is among some.
LEMMA CountType ==
    ASSUME NEW s, NEW m \in Nat, NEW x
    PROVE  Cardinality({j \in 1..m : s[j] = x}) \in Nat
<1>1. IsFiniteSet(1..m) /\ {j \in 1..m : s[j] = x} \in SUBSET (1..m)
    BY FS_Interval
<1> QED BY <1>1, FS_Subset, FS_CardinalityType

\* The runs an agent asks for.
LEMMA RunsType ==
    ASSUME TypeInv
    PROVE  /\ Runs \in Seq(Nodes \X Nat) /\ Len(Runs) = Len(Tools)
           /\ \A i \in 1..Len(Tools) : Runs[i] \in Nodes \X Nat /\ Runs[i][1] = Tools[i]
<1>1. Tools \in Seq(Nodes) /\ Len(Tools) \in Nat /\ DOMAIN Tools = 1..Len(Tools)
    BY ToolsType
<1>2. ASSUME NEW i \in 1..Len(Tools)
      PROVE  /\ Tools[i] \in Nodes
             /\ Len(runData[Tools[i]]) + Cardinality({j \in 1..(i - 1) : Tools[j] = Tools[i]}) \in Nat
    <2>1. Tools[i] \in Nodes
        BY <1>1
    <2>2. Len(runData[Tools[i]]) \in Nat
        BY <2>1, RunsLength DEF TypeInv
    <2>3. i - 1 \in Nat
        BY <1>1
    <2>4. Cardinality({j \in 1..(i - 1) : Tools[j] = Tools[i]}) \in Nat
        BY <2>3, CountType
    <2> QED BY <2>1, <2>2, <2>4
<1> DEFINE r(i) == <<Tools[i], Len(runData[Tools[i]])
                                + Cardinality({j \in 1..(i - 1) : Tools[j] = Tools[i]})>>
<1>3. \A i \in 1..Len(Tools) : r(i) \in Nodes \X Nat /\ r(i)[1] = Tools[i]
    BY <1>2
<1>4. Runs = [i \in 1..Len(Tools) |-> r(i)]
    BY <1>1 DEF Runs
<1> HIDE DEF r
<1> QED BY <1>1, <1>3, <1>4

\* What is put on the stack are entries with data.
LEMMA RequestsType ==
    ASSUME TypeInv, pc = "node", current.data[1] # Initial, current.requests < MaxRequests
    PROVE  /\ IsAdditions(Requests) /\ Len(Requests) = Len(Tools) + 1
           /\ Requests[1].entry = AgentEntry
           /\ \A i \in 1..Len(Tools) : Requests[i + 1].entry = ToolEntry(i)
           /\ AgentEntry \in Fed
<1>1. Tools \in Seq(Nodes) /\ Len(Tools) \in Nat
    BY ToolsType
<1>2. Runs \in Seq(Nodes \X Nat) /\ \A i \in 1..Len(Tools) : Runs[i] \in Nodes \X Nat
    BY RunsType
<1>3. current \in Fed /\ current.run \in Nat /\ current.node \in Nodes
    <2>1. current \notin First
        <3>1. Len(<<Initial>>) = 1 /\ <<Initial>>[1] = Initial
            OBVIOUS
        <3> QED BY <3>1 DEF First
    <2> QED BY <2>1 DEF TypeInv, CurrentInv, Entries
<1>4. AgentEntry \in Fed
    <2>1. current.requests + 1 \in 0..MaxRequests
        BY <1>3, BoundsAssumption DEF Fed, Entries
    <2> QED BY <1>2, <1>3, <2>1 DEF AgentEntry, Fed, Entries
<1>5. ASSUME NEW i \in 1..Len(Tools) PROVE ToolEntry(i) \in Fed
    <2>1. Datum(current.node, current.run, 0) \in Data
        BY <1>3, DataFacts DEF Indexes
    <2> DEFINE data == <<Datum(current.node, current.run, 0)>>
    <2>2. data \in Seq(Data) /\ data # <<>>
        BY <2>1
    <2>3. Runs[i][1] \in Nodes /\ Runs[i][2] \in Nat
        BY <1>2
    <2>4. ToolEntry(i) = [Entry(Runs[i][1], data) EXCEPT !.run = Runs[i][2]]
        BY DEF ToolEntry
    <2> HIDE DEF data
    <2>5. Entry(Runs[i][1], data) \in Fed
        BY <2>2, <2>3, EntryType
    <2>6. Entry(Runs[i][1], data) \in Entries
        BY <2>5 DEF Fed
    <2> QED BY <2>3, <2>4, <2>5, <2>6, RunIndexType
<1>6. Len(Requests) = Len(Tools) + 1
    BY <1>1 DEF Requests
<1>7. ASSUME NEW i \in 1..(Len(Tools) + 1)
      PROVE  /\ Requests[i].input = 0
             /\ Requests[i].entry = IF i = 1 THEN AgentEntry ELSE ToolEntry(i - 1)
    BY <1>7 DEF Requests
<1>8. \A i \in 1..Len(Tools) : Requests[i + 1].entry = ToolEntry(i)
    <2> SUFFICES ASSUME NEW i \in 1..Len(Tools) PROVE Requests[i + 1].entry = ToolEntry(i)
        OBVIOUS
    <2>1. i + 1 \in 1..(Len(Tools) + 1) /\ i + 1 # 1 /\ (i + 1) - 1 = i
        BY <1>1
    <2> QED BY <1>7, <2>1
<1>9. Requests[1].entry = AgentEntry
    BY <1>1, <1>7
<1>10. IsAdditions(Requests)
    <2>1. ASSUME NEW i \in 1..(Len(Tools) + 1) PROVE IsAddition(Requests[i])
        <3>1. i = 1 \/ i - 1 \in 1..Len(Tools)
            BY <1>1
        <3> QED BY <1>4, <1>5, <1>7, <3>1 DEF IsAddition
    <2> QED BY <1>1, <1>6, <2>1 DEF IsAdditions
<1> QED BY <1>4, <1>6, <1>8, <1>9, <1>10

\* NodeRequests in these terms.
LEMMA RequestsStep ==
    ASSUME TypeInv, NodeRequests
    PROVE  /\ runData' = [n \in Nodes |-> runData[n] \o
                            [i \in 1..Cardinality({j \in 1..Len(Tools) : Tools[j] = n}) |->
                                TaskData("requested", {})]]
           /\ SetPlan(IF current.data[1] = Initial THEN Plan ELSE AddAll(Requests))
<1>1. Tools \in Seq(Nodes) /\ Len(Tools) \in Nat /\ DOMAIN Tools = 1..Len(Tools)
    BY ToolsType
<1>2. Len(Runs) = Len(Tools) /\ DOMAIN Runs = 1..Len(Tools)
    BY <1>1, RunsType DEF Runs
<1> DEFINE tool == [i \in DOMAIN Runs |->
                        [Entry(Runs[i][1], <<Datum(current.node, current.run, 0)>>)
                            EXCEPT !.run = Runs[i][2]]]
           all  == AgentFirst(AgentEntry, tool)
<1>3. /\ runData' = [n \in Nodes |-> runData[n] \o
                            [i \in 1..Cardinality({j \in DOMAIN Tools : Tools[j] = n}) |->
                                TaskData("requested", {})]]
      /\ SetPlan(IF current.data[1] = Initial THEN Plan
                 ELSE AddAll([i \in DOMAIN all |-> [input |-> 0, entry |-> all[i]]]))
    BY DEF NodeRequests, Tools, Runs, AgentEntry
<1>4. tool = [i \in 1..Len(Tools) |-> ToolEntry(i)]
    BY <1>2 DEF ToolEntry
<1> HIDE DEF tool
<1>5. /\ DOMAIN all = 1..(Len(Tools) + 1)
      /\ \A i \in 1..(Len(Tools) + 1) : all[i] = IF i = 1 THEN AgentEntry ELSE ToolEntry(i - 1)
    <2>1. all = <<AgentEntry>> \o tool
        BY DEF AgentFirst
    <2> HIDE DEF all
    <2>2. tool \in Seq({ToolEntry(i) : i \in 1..Len(Tools)}) /\ Len(tool) = Len(Tools)
        BY <1>1, <1>4
    <2> DEFINE T == {ToolEntry(i) : i \in 1..Len(Tools)} \cup {AgentEntry}
    <2>3. tool \in Seq(T) /\ <<AgentEntry>> \in Seq(T) /\ Len(<<AgentEntry>>) = 1
        BY <2>2
    <2>4. \A i \in 1..Len(Tools) : tool[i] = ToolEntry(i)
        BY <1>4
    <2> HIDE DEF T
    <2>5. /\ all \in Seq(T) /\ Len(all) = Len(Tools) + 1
          /\ \A i \in 1..(1 + Len(tool)) :
                all[i] = IF i <= 1 THEN <<AgentEntry>>[i] ELSE tool[i - 1]
        BY <2>1, <2>2, <2>3, ConcatProperties
    <2>6. ASSUME NEW i \in 1..(Len(Tools) + 1)
          PROVE  all[i] = IF i = 1 THEN AgentEntry ELSE ToolEntry(i - 1)
        <3>1. CASE i = 1
            BY <1>1, <2>2, <2>5, <3>1
        <3>2. CASE i # 1
            <4>1. i - 1 \in 1..Len(Tools) /\ ~(i <= 1)
                BY <1>1, <3>2
            <4> QED BY <1>1, <2>2, <2>4, <2>5, <3>2, <4>1
        <3> QED BY <3>1, <3>2
    <2> QED BY <1>1, <2>5, <2>6
<1> HIDE DEF all
<1>6. [i \in DOMAIN all |-> [input |-> 0, entry |-> all[i]]] = Requests
    BY <1>5 DEF Requests
<1> QED BY <1>1, <1>3, <1>6

\* An agent asks for tools.
LEMMA TypeNodeRequests ==
    ASSUME TypeInv, NodeRequests
    PROVE  TypeInv'
<1>1. /\ pc = "node" /\ pc' = "loop" /\ current.requests < MaxRequests
      /\ UNCHANGED <<workflow, lastNodeExecuted, current, status, aborted, executionError,
                     waitTill, saves>>
    BY DEF NodeRequests
<1>2. RunsInv'
    <2> DEFINE count(n) == Cardinality({j \in 1..Len(Tools) : Tools[j] = n})
               asked(n) == [i \in 1..count(n) |-> TaskData("requested", {})]
    <2>1. Len(Tools) \in Nat
        BY ToolsType
    <2>2. \A n : count(n) \in Nat
        BY <2>1, CountType
    <2>3. TaskData("requested", {}) \in TaskDatas
        BY DEF TaskData, TaskDatas
    <2>4. runData' = [n \in Nodes |-> runData[n] \o asked(n)]
        BY RequestsStep
    <2> HIDE DEF count
    <2>5. \A n : asked(n) \in Seq(TaskDatas)
        BY <2>2, <2>3
    <2> HIDE DEF asked
    <2>6. \A n \in Nodes : runData[n] \o asked(n) \in Seq(TaskDatas)
        BY <2>5, RunsLength DEF TypeInv
    <2> QED BY <1>1, <2>4, <2>6 DEF TypeInv, RunsInv
<1>3. RoomsInv' /\ stack' \in Seq(Fed)
    <2>1. PlanInv(Plan)
        BY <1>1, PlanIsWellFormed DEF TypeInv, CurrentInv
    <2>2. PlanInv(IF current.data[1] = Initial THEN Plan ELSE AddAll(Requests))
        <3>1. CASE current.data[1] = Initial
            BY <2>1, <3>1
        <3>2. CASE current.data[1] # Initial
            BY <1>1, <2>1, <3>2, RequestsType, AddAllKeeps DEF TypeInv
        <3> QED BY <3>1, <3>2
    <2> QED BY <1>1, <2>2, RequestsStep, SetPlanKeeps
<1>4. workflow' \in Workflows /\ StackInv' /\ CurrentInv'
    BY <1>1, <1>3 DEF TypeInv, StackInv, CurrentInv
<1>5. StatusInv' /\ WaitInv'
    BY <1>1 DEF TypeInv, StatusInv, WaitInv, PCs, Done
<1> QED BY <1>2, <1>3, <1>4, <1>5 DEF TypeInv

\* Every step keeps the type invariant.
LEMMA TypeStep == TypeInv /\ [Next]_vars => TypeInv'
<1> SUFFICES ASSUME TypeInv, [Next]_vars PROVE TypeInv'
    OBVIOUS
<1> QED BY TypeKept, TypeStart, TypeSetupFails, TypeNodeFails, TypeNodeEnds, TypeNodeRequests,
           TypeAfter, TypeResume DEF Next, EngineStep, NodeEnds

\* Every entry that is executed has data, or [], for all its inputs, every waiting
\* one lacks some, and the keys of waitingExecution are the nodes that have entries,
\* however the nodes end (addNodeToBeExecuted, prepareWaitingToExecution).
THEOREM EngineTypeOK == Spec => []TypeOK
<1>1. TypeInv => TypeOK
    <2> SUFFICES ASSUME TypeInv PROVE TypeOK
        OBVIOUS
    <2>1. ASSUME NEW e \in Range(stack) \cup {current}
          PROVE  /\ e.node \in Nodes /\ e.run \in Nat \cup {-1}
                 /\ e.requests \in 0..MaxRequests /\ e.disabled \in BOOLEAN
                 /\ \A slot \in Range(e.data) : IsSlot(slot) /\ slot # Missing
        <3>1. e \in Entries
            <4>1. Fed \subseteq Entries /\ First \subseteq Entries
                BY DEF Fed, First
            <4>2. stack \in Seq(Entries)
                BY <4>1 DEF TypeInv, StackInv
            <4> QED BY <4>2 DEF TypeInv, CurrentInv, Range
        <3>2. \A slot \in Range(e.data) : slot \in Data \cup {Initial}
            BY <3>1 DEF Entries, Range
        <3>3. \A slot \in Data \cup {Initial} : IsSlot(slot) /\ slot # Missing
            <4>1. Missing \notin Data /\ Missing # Initial
                <5>1. Len(Missing) = 0 /\ Len(Initial) = 2
                    BY DEF Missing, Initial
                <5> QED BY <5>1, DataFacts
            <4> QED BY <4>1 DEF Data, IsSlot
        <3> QED BY <3>1, <3>2, <3>3 DEF Entries
    <2> DEFINE plan == [stack |-> <<>>, waiting |-> waiting, waitingNodes |-> waitingNodes]
    <2>2. /\ PlanShape(plan) /\ PlanLacks(plan)
          /\ plan.waiting = waiting /\ plan.waitingNodes = waitingNodes
        BY DEF TypeInv, RoomsInv, PlanInv
    <2> HIDE DEF plan
    <2>3. /\ waiting \in [Nodes -> Rooms] /\ waitingNodes \in Seq(Nodes)
          /\ \A n \in Nodes : n \in Range(waitingNodes) <=> DOMAIN waiting[n] # {}
          /\ \A n \in Nodes : \A i \in DOMAIN waiting[n] : Contains(waiting[n][i], Missing)
        BY <2>2 DEF PlanShape, PlanLacks
    <2>4. ASSUME NEW n \in Nodes, NEW i \in DOMAIN waiting[n]
          PROVE  /\ \A slot \in Range(waiting[n][i]) : IsSlot(slot)
                 /\ Missing \in Range(waiting[n][i])
        <3>1. waiting[n] \in Rooms
            BY <2>3
        <3>2. waiting[n][i] \in Seq(Slots)
            BY <3>1, RoomType
        <3>3. Contains(waiting[n][i], Missing)
            BY <2>3
        <3>4. \A slot \in Slots : IsSlot(slot)
            BY DEF Slots, Data, IsSlot
        <3> QED BY <3>2, <3>3, <3>4 DEF Contains, Range
    <2>5. Range(waitingNodes) = {n \in Nodes : DOMAIN waiting[n] # {}}
        BY <2>3 DEF Range
    <2>6. ASSUME NEW n \in Nodes, NEW t \in Range(runData[n])
          PROVE  /\ t.status \in {"requested", "success", "error", "waiting"}
                 /\ t.output \subseteq Indexes
        <3>1. t \in TaskDatas
            BY RunsLength DEF TypeInv, Range
        <3> QED BY <3>1 DEF TaskDatas
    <2>7. saves \in 0..2 /\ pc \in PCs
        BY DEF TypeInv, StatusInv
    <2> QED BY <2>1, <2>4, <2>5, <2>6, <2>7 DEF TypeInv, RunsInv, StatusInv, TypeOK, PCs
<1> QED BY TypeInit, TypeStep, <1>1, PTL DEF Spec
-----------------------------------------------------------------------------
(* Nothing is left                                                          *)

\* An agent, or one of the tools it asks for, has one input at most.
AgentsKeepGoing(w) ==
    \A n \in Nodes : w.tools[n] # <<>> =>
        \E m \in {n} \cup Range(w.tools[n]) : \A c \in w.connections : c.to = m => c.input = 0

AllRuns == workflow.mayReturnNull = {} /\ workflow.destination = {}
Nothing == stack = <<>> /\ \A n \in Range(waitingNodes) : ~MayRunWithout(n)

LeftInv ==
    /\ pc = "after:failed" => executionError
    /\ pc = "after:waiting" => waitTill
    /\ AllRuns => pc # "after:destination"
    /\ AllRuns /\ pc = "loop" /\ stack = <<>> => Nothing
    /\ AllRuns /\ pc = "stop" /\ ~executionError /\ status # "canceled" /\ ~waitTill => Nothing
    /\ AllRuns /\ pc \in Done /\ status = "success" => Nothing

\* An entry of a node with one input stays on the stack, whatever else is added.
LEMMA AddAllPushes ==
    ASSUME workflow \in Workflows, PlanInv(Plan), NEW additions, IsAdditions(additions),
           NEW at \in 1..Len(additions), ~(numberOfInputs(additions[at].entry.node) > 1)
    PROVE  AddAll(additions).stack # <<>>
<1>1. PICK added : /\ IsAdded(added, additions, Len(additions))
                   /\ AddAll(additions) = added[Len(additions)]
    BY AddAllIsLast DEF IsAdditions
<1>2. /\ Len(additions) \in Nat
      /\ \A k \in 0..Len(additions) :
            added[k] = IF k = 0 THEN Plan ELSE AddStep(added[k - 1], additions[k])
    BY <1>1 DEF IsAdded, IsAdditions
<1> DEFINE S == {k \in Nat : k <= Len(additions) =>
                    PlanInv(added[k]) /\ (at <= k => added[k].stack # <<>>)}
<1>3. 0 \in S
    BY <1>2
<1>4. ASSUME NEW k \in Nat, k \in S PROVE k + 1 \in S
    <2>1. SUFFICES ASSUME k + 1 <= Len(additions)
                   PROVE  /\ PlanInv(added[k + 1])
                          /\ at <= k + 1 => added[k + 1].stack # <<>>
        OBVIOUS
    <2>2. PlanInv(added[k]) /\ (at <= k => added[k].stack # <<>>)
        BY <1>2, <1>4, <2>1
    <2>3. added[k + 1] = AddStep(added[k], additions[k + 1])
        <3>1. k + 1 \in 0..Len(additions) /\ k + 1 # 0 /\ (k + 1) - 1 = k
            BY <1>2, <2>1
        <3> QED BY <1>2, <3>1
    <2>4. IsAddition(additions[k + 1])
        BY <1>2, <2>1 DEF IsAdditions
    <2> DEFINE a == additions[k + 1]
    <2>5. /\ PlanInv(added[k + 1])
          /\ numberOfInputs(a.entry.node) > 1 => Pushed(added[k + 1].stack, added[k].stack)
          /\ ~(numberOfInputs(a.entry.node) > 1) =>
                added[k + 1].stack = <<a.entry>> \o added[k].stack
        <3> DEFINE plan == added[k]
        <3>1. PlanInv(plan) /\ IsAddition(a) /\ added[k + 1] = AddStep(plan, a)
            BY <2>2, <2>3, <2>4
        <3> HIDE DEF plan, a, S
        <3>2. /\ PlanInv(AddStep(plan, a))
              /\ numberOfInputs(a.entry.node) > 1 => Pushed(AddStep(plan, a).stack, plan.stack)
              /\ ~(numberOfInputs(a.entry.node) > 1) =>
                    AddStep(plan, a).stack = <<a.entry>> \o plan.stack
            BY <3>1, AddStepKeeps
        <3> QED BY <3>1, <3>2 DEF plan
    <2> HIDE DEF a
    <2>6. added[k].stack \in Seq(Fed)
        BY <2>2 DEF PlanInv, PlanShape
    <2>7. \A e, s : s \in Seq(Fed) => <<e>> \o s # <<>>
        OBVIOUS
    <2>8. ASSUME at <= k + 1 PROVE added[k + 1].stack # <<>>
        <3>1. CASE numberOfInputs(a.entry.node) > 1
            <4>1. at <= k
                <5>1. at # k + 1
                    BY <3>1 DEF a
                <5> QED BY <2>8, <5>1
            <4> QED BY <2>2, <2>5, <2>6, <2>7, <3>1, <4>1 DEF Pushed
        <3>2. CASE ~(numberOfInputs(a.entry.node) > 1)
            BY <2>5, <2>6, <2>7, <3>2
        <3> QED BY <3>1, <3>2
    <2> QED BY <2>5, <2>8
<1> HIDE DEF S
<1>5. Len(additions) \in S
    BY <1>2, <1>3, <1>4, Induction
<1> QED BY <1>1, <1>2, <1>5 DEF S

\* A node whose connections lead to its first input has no other.
LEMMA SingleInput ==
    ASSUME workflow \in Workflows, NEW n, \A c \in workflow.connections : c.to = n => c.input = 0
    PROVE  ~(numberOfInputs(n) > 1)
<1>1. InputsOf(n) \subseteq {0}
    BY DEF InputsOf
<1>2. ASSUME InputsOf(n) # {} PROVE Max(InputsOf(n)) = 0
    <2>1. InputsOf(n) = {0}
        BY <1>1, <1>2
    <2> QED BY <2>1 DEF Max
<1> QED BY <1>2 DEF numberOfInputs

\* An agent that asks for tools leaves something on the stack.
LEMMA RequestsPush ==
    ASSUME TypeInv, NodeRequests, AgentsKeepGoing(workflow), current.data[1] # Initial
    PROVE  stack' # <<>>
<1>1. /\ pc = "node" /\ current.requests < MaxRequests /\ Tools # <<>>
      /\ current.node \in Nodes /\ workflow \in Workflows
    BY DEF NodeRequests, TypeInv, CurrentInv, Entries, Tools
<1>2. /\ IsAdditions(Requests) /\ Len(Requests) = Len(Tools) + 1
      /\ Requests[1].entry = AgentEntry
      /\ \A i \in 1..Len(Tools) : Requests[i + 1].entry = ToolEntry(i)
    BY <1>1, RequestsType
<1>3. PlanInv(Plan)
    BY <1>1, PlanIsWellFormed DEF TypeInv, CurrentInv
<1>4. stack' = AddAll(Requests).stack
    BY RequestsStep DEF SetPlan
<1>5. PICK m \in {current.node} \cup Range(Tools) :
            \A c \in workflow.connections : c.to = m => c.input = 0
    BY <1>1 DEF AgentsKeepGoing, Tools
<1>6. ~(numberOfInputs(m) > 1)
    BY <1>1, <1>5, SingleInput
<1>7. PICK at \in 1..Len(Requests) : Requests[at].entry.node = m
    <2>1. Len(Tools) \in Nat /\ DOMAIN Tools = 1..Len(Tools)
        BY ToolsType
    <2>2. CASE m = current.node
        <3>1. AgentEntry.node = current.node
            BY DEF AgentEntry, TypeInv, CurrentInv, Entries
        <3>2. 1 \in 1..Len(Requests)
            BY <1>2, <2>1
        <3> QED BY <1>2, <2>2, <3>1, <3>2
    <2>3. CASE m \in Range(Tools)
        <3>1. PICK i \in 1..Len(Tools) : m = Tools[i]
            BY <2>1, <2>3 DEF Range
        <3>2. ToolEntry(i).node = Tools[i]
            BY RunsType DEF ToolEntry, Entry
        <3>3. i + 1 \in 1..Len(Requests)
            BY <1>2, <2>1
        <3> QED BY <1>2, <3>1, <3>2, <3>3
    <2> QED BY <1>5, <2>2, <2>3
<1> QED BY <1>1, <1>2, <1>3, <1>4, <1>6, <1>7, AddAllPushes

\* Nothing stays as it is while the nodes that wait do.
LEMMA NothingKept ==
    ASSUME Nothing, UNCHANGED <<workflow, stack, waitingNodes>>
    PROVE  Nothing'
<1>1. \A n : getParentNodes(n)' = getParentNodes(n)
    BY DEF getParentNodes, Parents
<1>2. \A n : MayRunWithout(n)' = MayRunWithout(n)
    BY <1>1 DEF MayRunWithout, parentIsWaiting
<1> QED BY <1>2 DEF Nothing

\* It holds at first.
LEMMA LeftInit == Init => LeftInv
BY DEF Init, LeftInv, Done

\* Steps that leave the stack and the nodes that wait alone.
LEMMA LeftKept ==
    ASSUME TypeInv, LeftInv,
           [Begin \/ SetupFails \/ TimeIsUp \/ LoopEnds \/ AfterDestination \/ Close \/ Save
                \/ Resolve \/ Cancel \/ NodeReturnsNull \/ NodeWaits]_vars
    PROVE  LeftInv'
<1>1. UNCHANGED <<workflow, stack, waitingNodes>>
    BY DEF Begin, SetupFails, TimeIsUp, LoopEnds, AfterDestination, Close, Save, Resolve, Cancel,
           NodeReturnsNull, NodeWaits, vars, dataVars
<1>2. Nothing => Nothing'
    BY <1>1, NothingKept
<1>3. AllRuns' = AllRuns
    BY <1>1 DEF AllRuns
<1>4. CASE Begin \/ SetupFails
    BY <1>1, <1>4 DEF LeftInv, Done, Begin, SetupFails, TypeInv, StatusInv, WaitInv
<1>5. CASE TimeIsUp \/ LoopEnds
    BY <1>1, <1>2, <1>3, <1>5 DEF LeftInv, Done, TimeIsUp, LoopEnds
<1>6. CASE AfterDestination
    BY <1>1, <1>2, <1>3, <1>6 DEF LeftInv, Done, AfterDestination
<1>7. CASE Close
    <2>1. pc = "stop" /\ pc' = "closing" /\ UNCHANGED <<aborted, executionError, waitTill>>
        BY <1>7 DEF Close
    <2>2. status' = "success" => ~executionError /\ status # "canceled" /\ ~waitTill
        BY <1>7 DEF Close
    <2> QED BY <1>1, <1>2, <1>3, <2>1, <2>2 DEF LeftInv, Done
<1>8. CASE Save
    BY <1>1, <1>2, <1>3, <1>8 DEF LeftInv, Done, Save
<1>9. CASE Resolve
    BY <1>1, <1>2, <1>3, <1>9 DEF LeftInv, Done, Resolve
<1>10. CASE Cancel
    BY <1>1, <1>2, <1>3, <1>10 DEF LeftInv, Done, Cancel
<1>11. CASE NodeReturnsNull
    <2>1. ~AllRuns
        BY <1>11 DEF NodeReturnsNull, AllRuns
    <2> QED BY <1>1, <1>3, <1>11, <2>1 DEF LeftInv, Done, NodeReturnsNull
<1>12. CASE NodeWaits
    BY <1>1, <1>3, <1>12 DEF LeftInv, Done, NodeWaits
<1>13. CASE UNCHANGED vars
    BY <1>1, <1>2, <1>3, <1>13 DEF LeftInv, vars
<1> QED BY <1>4, <1>5, <1>6, <1>7, <1>8, <1>9, <1>10, <1>11, <1>12, <1>13

\* With no destination node no node is skipped.
LEMMA NoSkip ==
    ASSUME TypeInv, SkipNode
    PROVE  ~AllRuns
<1>1. stack # <<>> /\ Head(stack).node \notin runNodeFilter
    BY DEF SkipNode
<1>2. Head(stack).node \in Nodes
    BY <1>1, HeadOfStack DEF TypeInv, Entries
<1> QED BY <1>1, <1>2 DEF runNodeFilter, AllRuns

\* Steps that add to the stack or take from it.
LEMMA LeftMoved ==
    ASSUME TypeInv, LeftInv, AllRuns => AgentsKeepGoing(workflow),
           \/ StartNode \/ SkipNode \/ AfterNode \/ AfterStop \/ Resume \/ NodeFails
           \/ NodeRequests
           \/ \E output \in SUBSET Outputs : NodeSucceeds(output)
    PROVE  LeftInv'
<1>1. CASE StartNode
    BY <1>1 DEF LeftInv, Done, StartNode
<1>2. CASE SkipNode
    <2>1. ~AllRuns /\ UNCHANGED workflow /\ pc = "loop" /\ pc' = "loop"
        BY <1>2, NoSkip DEF SkipNode
    <2> QED BY <2>1 DEF LeftInv, AllRuns, Done
<1>3. CASE AfterNode
    <2>1. UNCHANGED <<workflow, status, executionError, waitTill>> /\ pc' = "loop"
        BY <1>3 DEF AfterNode
    <2>2. CASE stack = <<>> /\ NextWaiting # {}
        <3>1. PICK n \in NextWaiting : SetPlan(RunWaiting(n))
            BY <1>3, <2>2 DEF AfterNode
        <3>2. n \in Range(waitingNodes) /\ n \in Nodes
            BY <3>1, NextWaitingType
        <3>3. stack \in Seq(Fed)
            BY <2>2
        <3>4. PlanInv(Plan)
            BY <3>3, PlanIsWellFormed DEF TypeInv
        <3>5. PICK data : RunWaiting(n).stack = Append(stack, Entry(n, data))
            BY <3>2, <3>4, RunWaitingKeeps DEF TypeInv
        <3>6. stack' # <<>>
            BY <2>2, <3>1, <3>5 DEF SetPlan
        <3> QED BY <2>1, <3>6 DEF LeftInv, Done
    <2>3. CASE stack # <<>>
        <3>1. stack' = stack
            BY <1>3, <2>3 DEF AfterNode
        <3> QED BY <2>1, <2>3, <3>1 DEF LeftInv, Done
    <2>4. CASE stack = <<>> /\ NextWaiting = {}
        <3>1. UNCHANGED <<stack, waitingNodes>>
            BY <1>3, <2>4 DEF AfterNode
        <3>2. Nothing
            <4>1. \A i \in DOMAIN waitingNodes : ~MayRunWithout(waitingNodes[i])
                BY <2>4 DEF NextWaiting
            <4> QED BY <2>4, <4>1 DEF Nothing, Range
        <3>3. Nothing'
            BY <2>1, <3>1, <3>2, NothingKept
        <3> QED BY <2>1, <3>3 DEF LeftInv, Done
    <2> QED BY <2>2, <2>3, <2>4
<1>4. CASE AfterStop
    BY <1>4 DEF LeftInv, Done, AfterStop
<1>5. CASE Resume
    BY <1>5 DEF LeftInv, Done, Resume
<1>6. CASE NodeRequests
    <2>1. /\ pc' = "loop" /\ pc = "node"
          /\ UNCHANGED <<workflow, status, aborted, executionError, waitTill>>
        BY <1>6 DEF NodeRequests
    <2>2. CASE current.data[1] = Initial
        <3>1. stack = <<>> /\ waitingNodes = <<>>
            <4>1. current \notin Fed
                <5>1. \A e \in Fed : e.data[1] \in Data
                    BY DEF Fed
                <5> QED BY <2>2, <5>1, DataFacts
            <4> QED BY <2>1, <4>1 DEF TypeInv, CurrentInv
        <3>2. UNCHANGED <<stack, waitingNodes>>
            BY <1>6, <2>2, RequestsStep DEF SetPlan, Plan
        <3>3. Nothing
            BY <3>1 DEF Nothing, Range
        <3>4. Nothing'
            BY <2>1, <3>2, <3>3, NothingKept
        <3> QED BY <2>1, <3>4 DEF LeftInv, Done
    <2>3. CASE current.data[1] # Initial
        <3>1. AllRuns => stack' # <<>>
            BY <1>6, <2>3, RequestsPush
        <3>2. AllRuns' = AllRuns
            BY <2>1 DEF AllRuns
        <3> QED BY <2>1, <3>1, <3>2 DEF LeftInv, Done
    <2> QED BY <2>2, <2>3
<1>7. CASE NodeFails \/ \E output \in SUBSET Outputs : NodeSucceeds(output)
    <2>1. /\ UNCHANGED workflow
          /\ \/ pc' \in {"stop", "after:failed"} /\ executionError'
             \/ pc' = "after"
             \/ pc' = "after:destination" /\ current.node \in workflow.destination
        BY <1>7 DEF NodeFails, NodeSucceeds, GoOn
    <2> QED BY <2>1 DEF LeftInv, Done, AllRuns
<1> QED BY <1>1, <1>2, <1>3, <1>4, <1>5, <1>6, <1>7

\* An execution that ends as a success has nothing left to run, neither on the stack
\* nor among the nodes that wait, when every agent or one of its tools has one input
\* at most (the search for waiting nodes in processRunExecutionData).
THEOREM NothingLeftHolds ==
    ASSUME \A w \in Workflows : AgentsKeepGoing(w)
    PROVE  Spec => []NothingLeft
<1>1. TypeInv /\ LeftInv /\ [Next]_vars => LeftInv'
    <2> SUFFICES ASSUME TypeInv, LeftInv, [Next]_vars PROVE LeftInv'
        OBVIOUS
    <2>1. AgentsKeepGoing(workflow)
        BY DEF TypeInv
    <2> QED BY <2>1, LeftKept, LeftMoved DEF Next, EngineStep, NodeEnds
<1>2. LeftInv => NothingLeft
    BY DEF LeftInv, NothingLeft, AllRuns, Nothing, Done
<1> QED BY TypeInit, TypeStep, LeftInit, <1>1, <1>2, PTL DEF Spec
-----------------------------------------------------------------------------
(* Agents and their tools                                                   *)

ToolNodes(w) == UNION {Range(w.tools[n]) : n \in Nodes}

\* An agent has one input. The tools it asks for are no agents, do not begin the
\* workflow, always end with some output and have no connection of type main; the one
\* it asks for twice at once does not wait. All nodes are run.
PlainAgents(w) ==
    \A n \in Nodes : w.tools[n] # <<>> =>
        /\ w.destination = {}
        /\ \A c \in w.connections : c.to = n => c.input = 0
        /\ \A t \in Range(w.tools[n]) :
            /\ w.tools[t] = <<>> /\ t # w.start /\ t \notin w.mayReturnNull
            /\ \A c \in w.connections : c.from # t /\ c.to # t
        /\ \A i, j \in DOMAIN w.tools[n] :
            i # j /\ w.tools[n][i] = w.tools[n][j] => w.tools[n][i] \notin w.mayWait

IsTool(w, e) == e.node \in ToolNodes(w)

\* An entry that nothing has been done with.
Fresh(w, e) == ~IsTool(w, e) /\ e.requests = 0 /\ e.run = -1 /\ ~e.disabled
AllFresh(w, s) == \A i \in 1..Len(s) : Fresh(w, s[i])

\* One that has asked for tools: an agent, disabled only if it may wait.
Asked(w, e) ==
    e.run # -1 /\ w.tools[e.node] # <<>> /\ (e.disabled => e.node \in w.mayWait)

\* What is worked on, the current entry and the stack below it: k tools, the agent
\* that has asked for them, and entries that nothing has been done with. Without
\* tools, the first may have been begun.
ShapeWith(w, s, k) ==
    /\ k <= Len(s)
    /\ \A i \in 1..k : IsTool(w, s[i]) /\ s[i].requests = 0 /\ s[i].run # -1
    /\ k > 0 => k < Len(s) /\ s[k + 1].requests > 0
    /\ k < Len(s) => ~IsTool(w, s[k + 1])
    /\ k < Len(s) /\ s[k + 1].requests > 0 => Asked(w, s[k + 1])
    /\ \A i \in (k + 2)..Len(s) : Fresh(w, s[i])

\* A tool that may wait is there once.
Apart(w, s) ==
    \A i, j \in 1..Len(s) :
        IsTool(w, s[i]) /\ s[i].node \in w.mayWait /\ s[j].node = s[i].node => i = j

Shaped(w, s) == (\E k \in Nat : ShapeWith(w, s, k)) /\ Apart(w, s)

\* A tool has its run data already, unless it has waited.
Bounds(w, s, runs) ==
    \A i \in 1..Len(s) : IsTool(w, s[i]) =>
        IF s[i].node \in w.mayWait
        THEN s[i].run \in {Len(runs[s[i].node]) - 1, Len(runs[s[i].node])}
        ELSE s[i].run < Len(runs[s[i].node])

\* Other entries that were begun have the next run of their node.
Own(w, s, runs, waited) ==
    \A i \in 1..Len(s) :
        ~IsTool(w, s[i]) /\ s[i].run # -1 /\ ~(waited /\ i = 1)
            => s[i].run = Len(runs[s[i].node])

\* The node that has put the execution to wait is the first one, and its run the last.
WaitsOnTop(w, s, runs, waited, last) ==
    waited => /\ s # <<>> /\ last = {s[1].node} /\ s[1].node \in w.mayWait
              /\ s[1].run # -1 /\ s[1].run + 1 = Len(runs[s[1].node])

ToolDone(runs, t) ==
    t[2] + 1 \in 1..Len(runs[t[1]]) /\ runs[t[1]][t[2] + 1].status \in {"success", "error"}

\* What an agent has asked for has run or is above it.
Answers(w, s, runs) ==
    \A i \in 1..Len(s) : s[i].requests > 0 => \A t \in Range(s[i].tools) :
        /\ t[1] \in ToolNodes(w)
        /\ ToolDone(runs, t) \/ \E j \in 1..(i - 1) : s[j].node = t[1] /\ s[j].run = t[2]

Fine(w, s, runs, waited, last) ==
    /\ Bounds(w, s, runs)
    /\ Own(w, s, runs, waited)
    /\ WaitsOnTop(w, s, runs, waited, last)
    /\ Answers(w, s, runs)

RunDatas == [Nodes -> Seq(TaskDatas)]

\* What has not begun is in order.
LEMMA FreshIsFine ==
    ASSUME NEW w, NEW s \in Seq(Entries), AllFresh(w, s), NEW runs, NEW last
    PROVE  Shaped(w, s) /\ Fine(w, s, runs, FALSE, last)
<1>1. /\ Len(s) \in Nat
      /\ \A i \in 1..Len(s) : /\ ~IsTool(w, s[i]) /\ s[i].requests = 0 /\ s[i].run = -1
    BY DEF AllFresh, Fresh
<1>2. ShapeWith(w, s, 0)
    BY <1>1 DEF ShapeWith, AllFresh
<1>3. Apart(w, s)
    BY <1>1 DEF Apart
<1>4. Bounds(w, s, runs) /\ Own(w, s, runs, FALSE) /\ WaitsOnTop(w, s, runs, FALSE, last)
    BY <1>1 DEF Bounds, Own, WaitsOnTop
<1>5. Answers(w, s, runs)
    BY <1>1 DEF Answers
<1> QED BY <1>2, <1>3, <1>4, <1>5 DEF Shaped, Fine

\* The first entry: when it is no tool, what is below was never begun.
LEMMA FirstOf ==
    ASSUME NEW w, NEW s \in Seq(Entries), s # <<>>, Shaped(w, s)
    PROVE  /\ ~IsTool(w, s[1]) => AllFresh(w, Tail(s))
           /\ ~IsTool(w, s[1]) => \A i \in 2..Len(s) : Fresh(w, s[i])
           /\ IsTool(w, s[1]) => s[1].requests = 0 /\ s[1].run # -1 /\ Len(s) > 1
<1>1. PICK k \in Nat : ShapeWith(w, s, k)
    BY DEF Shaped
<1>2. Len(s) \in Nat /\ Len(s) > 0 /\ Tail(s) \in Seq(Entries) /\ Len(Tail(s)) = Len(s) - 1
        /\ \A i \in 1..(Len(s) - 1) : Tail(s)[i] = s[i + 1]
    BY HeadTailProperties, EmptySeq
<1>3. CASE k = 0
    <2>1. ~IsTool(w, s[1]) /\ \A i \in 2..Len(s) : Fresh(w, s[i])
        BY <1>1, <1>2, <1>3 DEF ShapeWith
    <2>2. \A i \in 1..(Len(s) - 1) : i + 1 \in 2..Len(s)
        BY <1>2
    <2> QED BY <1>2, <2>1, <2>2 DEF AllFresh
<1>4. CASE k > 0
    <2>1. IsTool(w, s[1]) /\ s[1].requests = 0 /\ s[1].run # -1 /\ k < Len(s)
        BY <1>1, <1>4 DEF ShapeWith
    <2> QED BY <1>2, <1>4, <2>1
<1> QED BY <1>3, <1>4

\* Without its first entry, a tool.
LEMMA TailShaped ==
    ASSUME NEW w, NEW s \in Seq(Entries), s # <<>>, Shaped(w, s), IsTool(w, s[1])
    PROVE  Shaped(w, Tail(s))
<1>1. PICK k \in Nat : ShapeWith(w, s, k)
    BY DEF Shaped
<1> DEFINE t == Tail(s)
<1>2. Len(s) \in Nat /\ Len(s) > 0 /\ t \in Seq(Entries) /\ Len(t) = Len(s) - 1
        /\ \A i \in 1..(Len(s) - 1) : t[i] = s[i + 1]
    BY HeadTailProperties, EmptySeq
<1> HIDE DEF t
<1>3. k > 0
    BY <1>1, <1>2 DEF ShapeWith
<1>4. k - 1 \in Nat /\ k < Len(s)
    BY <1>1, <1>3 DEF ShapeWith
<1>5. ShapeWith(w, t, k - 1)
    <2>1. k - 1 <= Len(t)
        BY <1>2, <1>4
    <2>2. ASSUME NEW i \in 1..(k - 1) PROVE IsTool(w, t[i]) /\ t[i].requests = 0 /\ t[i].run # -1
        <3>1. i + 1 \in 1..k /\ i \in 1..(Len(s) - 1)
            BY <1>2, <1>4
        <3> QED BY <1>1, <1>2, <3>1 DEF ShapeWith
    <2>3. t[(k - 1) + 1] = s[k + 1]
        BY <1>2, <1>3, <1>4
    <2>4. (k - 1) < Len(t)
        BY <1>2, <1>4
    <2>5. ASSUME NEW i \in ((k - 1) + 2)..Len(t) PROVE Fresh(w, t[i])
        <3>1. i + 1 \in (k + 2)..Len(s) /\ i \in 1..(Len(s) - 1)
            BY <1>2, <1>4
        <3> QED BY <1>1, <1>2, <3>1 DEF ShapeWith
    <2>6. s[k + 1].requests > 0 /\ ~IsTool(w, s[k + 1]) /\ Asked(w, s[k + 1])
        BY <1>1, <1>3, <1>4 DEF ShapeWith
    <2> QED BY <2>1, <2>2, <2>3, <2>4, <2>5, <2>6 DEF ShapeWith
<1>6. Apart(w, t)
    <2> SUFFICES ASSUME NEW i \in 1..Len(t), NEW j \in 1..Len(t), IsTool(w, t[i]),
                        t[i].node \in w.mayWait, t[j].node = t[i].node
                 PROVE  i = j
        BY DEF Apart
    <2>1. t[i] = s[i + 1] /\ t[j] = s[j + 1] /\ i + 1 \in 1..Len(s) /\ j + 1 \in 1..Len(s)
        BY <1>2
    <2>2. i + 1 = j + 1
        BY <2>1 DEF Shaped, Apart
    <2> QED BY <1>2, <2>2
<1> QED BY <1>4, <1>5, <1>6 DEF Shaped, t

\* The run data with one run recorded, in its place or as the next one.
RecordedAt(runs, n, run, taskData) ==
    [runs EXCEPT ![n] = IF run + 1 \in DOMAIN @ THEN [@ EXCEPT ![run + 1] = taskData]
                        ELSE Append(@, taskData)]

\* The run data then: that of the run is new, the rest as it was.
LEMMA RecordedAtType ==
    ASSUME NEW runs \in RunDatas, NEW n \in Nodes, NEW run \in Nat, run <= Len(runs[n]),
           NEW taskData \in TaskDatas
    PROVE  LET after == RecordedAt(runs, n, run, taskData)
           IN  /\ after \in RunDatas
               /\ \A m \in Nodes \ {n} : after[m] = runs[m]
               /\ Len(after[n]) = IF run < Len(runs[n]) THEN Len(runs[n]) ELSE run + 1
               /\ run + 1 \in 1..Len(after[n]) /\ after[n][run + 1] = taskData
               /\ \A i \in 1..Len(runs[n]) : i # run + 1 =>
                    i \in 1..Len(after[n]) /\ after[n][i] = runs[n][i]
<1> DEFINE s     == runs[n]
           t     == IF run + 1 \in DOMAIN s THEN [s EXCEPT ![run + 1] = taskData]
                    ELSE Append(s, taskData)
           after == RecordedAt(runs, n, run, taskData)
<1>1. s \in Seq(TaskDatas) /\ Len(s) \in Nat /\ DOMAIN s = 1..Len(s)
    BY DEF RunDatas
<1>2. after = [runs EXCEPT ![n] = t]
    BY DEF RecordedAt
<1> HIDE DEF s
<1>3. /\ t \in Seq(TaskDatas)
      /\ Len(t) = IF run < Len(s) THEN Len(s) ELSE run + 1
      /\ run + 1 \in 1..Len(t) /\ t[run + 1] = taskData
      /\ \A i \in 1..Len(s) : i # run + 1 => i \in 1..Len(t) /\ t[i] = s[i]
    <2>1. CASE run < Len(s)
        <3>1. run + 1 \in 1..Len(s)
            BY <1>1, <2>1
        <3>2. t = [s EXCEPT ![run + 1] = taskData]
            BY <1>1, <3>1
        <3> HIDE DEF t
        <3>3. /\ t \in Seq(TaskDatas) /\ Len(t) = Len(s)
              /\ \A j \in 1..Len(s) : t[j] = IF j = run + 1 THEN taskData ELSE s[j]
            BY <1>1, <3>1, <3>2, ExceptSeq
        <3> QED BY <2>1, <3>1, <3>3
    <2>2. CASE ~(run < Len(s))
        <3>1. run = Len(s) /\ run + 1 \notin 1..Len(s)
            BY <1>1, <2>2 DEF s
        <3>2. t = Append(s, taskData)
            BY <1>1, <3>1
        <3> HIDE DEF t
        <3>3. /\ t \in Seq(TaskDatas) /\ Len(t) = Len(s) + 1
              /\ \A j \in 1..Len(s) : t[j] = s[j]
              /\ t[Len(s) + 1] = taskData
            BY <1>1, <3>2, AppendProperties
        <3> QED BY <1>1, <2>2, <3>1, <3>3
    <2> QED BY <2>1, <2>2
<1> HIDE DEF t
<1>4. after \in RunDatas /\ after[n] = t /\ \A m \in Nodes \ {n} : after[m] = runs[m]
    BY <1>2, <1>3 DEF RunDatas
<1> HIDE DEF after
<1> QED BY <1>3, <1>4 DEF after, s

\* The runs of a node are a sequence.
LEMMA RunDatasLength ==
    ASSUME NEW runs \in RunDatas, NEW n \in Nodes
    PROVE  runs[n] \in Seq(TaskDatas) /\ Len(runs[n]) \in Nat
<1>1. runs[n] \in Seq(TaskDatas)
    BY DEF RunDatas
<1> QED BY <1>1

\* The parts of an entry.
LEMMA EntryFields ==
    ASSUME NEW s \in Seq(Entries), NEW i \in 1..Len(s)
    PROVE  /\ s[i] \in Entries /\ s[i].node \in Nodes /\ s[i].run \in Nat \cup {-1}
           /\ s[i].tools \in Seq(Nodes \X Nat) /\ s[i].requests \in Nat
           /\ \A t \in Range(s[i].tools) : t[1] \in Nodes /\ t[2] \in Nat
<1>1. s[i] \in Entries
    OBVIOUS
<1>2. s[i].tools \in Seq(Nodes \X Nat)
    BY <1>1 DEF Entries
<1>3. \A t \in Range(s[i].tools) : t \in Nodes \X Nat
    BY <1>2 DEF Range
<1>4. s[i].requests \in Nat
    BY <1>1, BoundsAssumption DEF Entries
<1> QED BY <1>1, <1>2, <1>3, <1>4 DEF Entries

\* A tool that has run is answered.
LEMMA ToolEnds ==
    ASSUME NEW w, NEW s \in Seq(Entries), s # <<>>, NEW runs \in RunDatas,
           NEW last, NEW last2, Shaped(w, s), Fine(w, s, runs, FALSE, last), IsTool(w, s[1]),
           NEW taskData \in TaskDatas, taskData.status \in {"success", "error"}
    PROVE  Fine(w, Tail(s), RecordedAt(runs, s[1].node, s[1].run, taskData), FALSE, last2)
<1> DEFINE t     == Tail(s)
           n     == s[1].node
           run   == s[1].run
           after == RecordedAt(runs, n, run, taskData)
<1>1. Len(s) \in Nat /\ Len(s) > 0 /\ t \in Seq(Entries) /\ Len(t) = Len(s) - 1
        /\ \A i \in 1..(Len(s) - 1) : t[i] = s[i + 1]
    BY HeadTailProperties, EmptySeq
<1> HIDE DEF t
<1>2. 1 \in 1..Len(s) /\ n \in Nodes /\ run \in Nat
    <2>1. 1 \in 1..Len(s)
        BY <1>1
    <2>2. run # -1
        BY FirstOf
    <2> QED BY <2>1, <2>2, EntryFields
<1>3. Len(runs[n]) \in Nat /\ run <= Len(runs[n])
    <2>1. Len(runs[n]) \in Nat
        BY <1>2, RunDatasLength
    <2>2. IF n \in w.mayWait THEN run \in {Len(runs[n]) - 1, Len(runs[n])} ELSE run < Len(runs[n])
        BY <1>2 DEF Fine, Bounds
    <2> QED BY <1>2, <2>1, <2>2
<1>4. /\ after \in RunDatas
      /\ \A m \in Nodes \ {n} : after[m] = runs[m]
      /\ Len(after[n]) = IF run < Len(runs[n]) THEN Len(runs[n]) ELSE run + 1
      /\ run + 1 \in 1..Len(after[n]) /\ after[n][run + 1] = taskData
      /\ \A i \in 1..Len(runs[n]) : i # run + 1 =>
            i \in 1..Len(after[n]) /\ after[n][i] = runs[n][i]
    <2> HIDE DEF n, run
    <2> QED BY <1>2, <1>3, RecordedAtType
<1> HIDE DEF after
<1>5. \A i \in 1..Len(t) : i + 1 \in 1..Len(s) /\ t[i] = s[i + 1] /\ s[i + 1].node \in Nodes
    <2> SUFFICES ASSUME NEW i \in 1..Len(t)
                 PROVE  i + 1 \in 1..Len(s) /\ t[i] = s[i + 1] /\ s[i + 1].node \in Nodes
        OBVIOUS
    <2>1. i + 1 \in 1..Len(s) /\ i \in 1..(Len(s) - 1)
        BY <1>1
    <2> QED BY <1>1, <2>1, EntryFields
<1>6. Bounds(w, t, after)
    <2> SUFFICES ASSUME NEW i \in 1..Len(t), IsTool(w, t[i])
                 PROVE  IF t[i].node \in w.mayWait
                        THEN t[i].run \in {Len(after[t[i].node]) - 1, Len(after[t[i].node])}
                        ELSE t[i].run < Len(after[t[i].node])
        BY DEF Bounds
    <2> DEFINE e == s[i + 1]
    <2>1. t[i] = e /\ i + 1 \in 1..Len(s) /\ e.node \in Nodes /\ i + 1 # 1
        BY <1>1, <1>5
    <2>2. e.run \in Nat \cup {-1}
        BY <2>1, EntryFields
    <2>3. IF e.node \in w.mayWait
          THEN e.run \in {Len(runs[e.node]) - 1, Len(runs[e.node])}
          ELSE e.run < Len(runs[e.node])
        BY <2>1 DEF Fine, Bounds
    <2>4. CASE e.node # n
        BY <1>4, <2>1, <2>3, <2>4
    <2>5. CASE e.node = n
        <3>1. n \notin w.mayWait
            BY <1>2, <2>1, <2>5 DEF Shaped, Apart
        <3>2. e.run < Len(runs[n])
            BY <2>3, <2>5, <3>1
        <3>3. Len(after[n]) = Len(runs[n])
            <4>1. run < Len(runs[n])
                BY <1>2, <3>1 DEF Fine, Bounds
            <4> QED BY <1>4, <4>1
        <3> QED BY <2>1, <2>5, <3>1, <3>2, <3>3
    <2> QED BY <2>4, <2>5
<1>7. Own(w, t, after, FALSE)
    <2> SUFFICES ASSUME NEW i \in 1..Len(t), ~IsTool(w, t[i]), t[i].run # -1
                 PROVE  t[i].run = Len(after[t[i].node])
        BY DEF Own
    <2>1. t[i] = s[i + 1] /\ i + 1 \in 1..Len(s) /\ s[i + 1].node \in Nodes
        BY <1>5
    <2>2. t[i].run = Len(runs[t[i].node])
        BY <2>1 DEF Fine, Own
    <2>3. t[i].node # n
        BY DEF IsTool
    <2> QED BY <1>4, <2>1, <2>2, <2>3
<1>8. WaitsOnTop(w, t, after, FALSE, last2)
    BY DEF WaitsOnTop
<1>9. Answers(w, t, after)
    <2> SUFFICES ASSUME NEW i \in 1..Len(t), t[i].requests > 0, NEW x \in Range(t[i].tools)
                 PROVE  /\ x[1] \in ToolNodes(w)
                        /\ \/ ToolDone(after, x)
                           \/ \E j \in 1..(i - 1) : t[j].node = x[1] /\ t[j].run = x[2]
        BY DEF Answers
    <2>1. t[i] = s[i + 1] /\ i + 1 \in 1..Len(s)
        BY <1>5
    <2>2. x[1] \in Nodes /\ x[2] \in Nat
        BY <2>1, EntryFields
    <2>3. /\ x[1] \in ToolNodes(w)
          /\ ToolDone(runs, x) \/ \E j \in 1..((i + 1) - 1) : s[j].node = x[1] /\ s[j].run = x[2]
        BY <2>1 DEF Fine, Answers
    <2>4. CASE x[1] = n /\ x[2] = run
        BY <1>4, <2>3, <2>4 DEF ToolDone
    <2>5. CASE ToolDone(runs, x) /\ ~(x[1] = n /\ x[2] = run)
        <3>1. CASE x[1] # n
            BY <1>4, <2>2, <2>3, <2>5, <3>1 DEF ToolDone
        <3>2. CASE x[1] = n /\ x[2] # run
            <4>1. x[2] + 1 \in 1..Len(runs[n]) /\ x[2] + 1 # run + 1
                BY <1>2, <2>2, <2>5, <3>2 DEF ToolDone
            <4> QED BY <1>4, <2>3, <2>5, <3>2, <4>1 DEF ToolDone
        <3> QED BY <2>5, <3>1, <3>2
    <2>6. CASE ~ToolDone(runs, x) /\ ~(x[1] = n /\ x[2] = run)
        <3>1. PICK j \in 1..i : s[j].node = x[1] /\ s[j].run = x[2]
            BY <2>1, <2>3, <2>6
        <3>2. j # 1
            BY <2>6, <3>1
        <3>3. j - 1 \in 1..(i - 1) /\ j - 1 \in 1..Len(t) /\ (j - 1) + 1 = j
            BY <1>1, <3>2
        <3>4. t[j - 1] = s[j]
            BY <1>5, <3>3
        <3> QED BY <2>3, <3>1, <3>3, <3>4
    <2> QED BY <2>4, <2>5, <2>6
<1> QED BY <1>6, <1>7, <1>8, <1>9 DEF Fine, t, after

\* Entries that differ in nothing but that one of them passes its input on.
Alike(e, f) == e.node = f.node /\ e.run = f.run /\ e.requests = f.requests /\ e.tools = f.tools

\* The first entry has been given its run.
LEMMA FirstShaped ==
    ASSUME NEW w, NEW s \in Seq(Entries), NEW t \in Seq(Entries), s # <<>>, Shaped(w, s),
           Len(t) = Len(s), \A i \in 2..Len(s) : t[i] = s[i],
           t[1].node = s[1].node, t[1].requests = s[1].requests,
           s[1].run # -1 => t[1].run = s[1].run,
           t[1].disabled => s[1].disabled \/ t[1].node \in w.mayWait
    PROVE  Shaped(w, t)
<1>1. PICK k \in Nat : ShapeWith(w, s, k)
    BY DEF Shaped
<1>2. Len(s) \in Nat /\ Len(s) > 0
    BY EmptySeq
<1>3. \A i \in 1..Len(s) : i = 1 \/ i \in 2..Len(s)
    BY <1>2
<1>4. \A i \in 1..Len(s) : /\ t[i].node = s[i].node /\ t[i].requests = s[i].requests
                           /\ s[i].run # -1 => t[i].run = s[i].run
                           /\ t[i].disabled => s[i].disabled \/ t[i].node \in w.mayWait
    BY <1>3
<1>5. ShapeWith(w, t, k)
    <2>1. k <= Len(t)
        BY <1>1 DEF ShapeWith
    <2>2. ASSUME NEW i \in 1..k PROVE IsTool(w, t[i]) /\ t[i].requests = 0 /\ t[i].run # -1
        <3>1. IsTool(w, s[i]) /\ s[i].requests = 0 /\ s[i].run # -1 /\ i \in 1..Len(s)
            BY <1>1, <1>2 DEF ShapeWith
        <3> QED BY <1>4, <3>1 DEF IsTool
    <2>3. ASSUME k < Len(t)
          PROVE  /\ ~IsTool(w, t[k + 1])
                 /\ t[k + 1].requests > 0 => Asked(w, t[k + 1])
                 /\ k > 0 => t[k + 1].requests > 0
        <3>1. k + 1 \in 1..Len(s)
            BY <1>2, <2>3
        <3>2. /\ ~IsTool(w, s[k + 1])
              /\ s[k + 1].requests > 0 => Asked(w, s[k + 1])
              /\ k > 0 => s[k + 1].requests > 0
            BY <1>1, <2>3 DEF ShapeWith
        <3> QED BY <1>4, <3>1, <3>2 DEF IsTool, Asked
    <2>4. k > 0 => k < Len(t)
        BY <1>1 DEF ShapeWith
    <2>5. ASSUME NEW i \in (k + 2)..Len(t) PROVE Fresh(w, t[i])
        <3>1. i \in 2..Len(s)
            BY <1>2
        <3> QED BY <1>1, <3>1 DEF ShapeWith
    <2> QED BY <2>1, <2>2, <2>3, <2>4, <2>5 DEF ShapeWith
<1>6. Apart(w, t)
    <2> SUFFICES ASSUME NEW i \in 1..Len(s), NEW j \in 1..Len(s), IsTool(w, t[i]),
                        t[i].node \in w.mayWait, t[j].node = t[i].node
                 PROVE  i = j
        BY DEF Apart
    <2>1. IsTool(w, s[i]) /\ s[i].node \in w.mayWait /\ s[j].node = s[i].node
        BY <1>4 DEF IsTool
    <2> QED BY <2>1 DEF Shaped, Apart
<1> QED BY <1>5, <1>6 DEF Shaped

\* It stays in order when the first entry gets its run.
LEMMA FirstFine ==
    ASSUME NEW w, NEW s \in Seq(Entries), NEW t \in Seq(Entries), s # <<>>, Shaped(w, s),
           Len(t) = Len(s), \A i \in 2..Len(s) : t[i] = s[i],
           t[1].node = s[1].node, t[1].requests = s[1].requests, t[1].tools = s[1].tools,
           NEW runs, NEW last, Fine(w, s, runs, FALSE, last),
           t[1].run = IF s[1].run # -1 THEN s[1].run ELSE Len(runs[s[1].node])
    PROVE  Fine(w, t, runs, FALSE, last)
<1>1. Len(s) \in Nat /\ Len(s) > 0
    BY EmptySeq
<1>2. \A i \in 1..Len(s) : i = 1 \/ i \in 2..Len(s)
    BY <1>1
<1>3. \A i \in 1..Len(s) :
            /\ t[i].node = s[i].node /\ t[i].requests = s[i].requests /\ t[i].tools = s[i].tools
            /\ s[i].run # -1 => t[i].run = s[i].run
            /\ s[i].run = -1 => t[i].run = -1 \/ t[i].run = Len(runs[s[i].node])
    BY <1>2
<1>4. Bounds(w, t, runs)
    <2> SUFFICES ASSUME NEW i \in 1..Len(s), IsTool(w, t[i])
                 PROVE  IF t[i].node \in w.mayWait
                        THEN t[i].run \in {Len(runs[t[i].node]) - 1, Len(runs[t[i].node])}
                        ELSE t[i].run < Len(runs[t[i].node])
        BY DEF Bounds
    <2>1. IsTool(w, s[i])
        BY <1>3 DEF IsTool
    <2>2. s[i].run # -1
        <3>1. CASE i = 1
            BY <2>1, <3>1, FirstOf
        <3>2. CASE i # 1
            <4>1. PICK k \in Nat : ShapeWith(w, s, k)
                BY DEF Shaped
            <4>2. i <= k
                <5>1. i # k + 1
                    BY <1>1, <2>1, <4>1 DEF ShapeWith
                <5>2. ~(i \in (k + 2)..Len(s))
                    BY <2>1, <4>1 DEF ShapeWith, Fresh
                <5> QED BY <1>1, <5>1, <5>2
            <4> QED BY <1>1, <4>1, <4>2 DEF ShapeWith
        <3> QED BY <3>1, <3>2
    <2>3. t[i].run = s[i].run /\ t[i].node = s[i].node
        BY <1>3, <2>2
    <2> QED BY <2>1, <2>3 DEF Fine, Bounds
<1>5. Own(w, t, runs, FALSE)
    <2> SUFFICES ASSUME NEW i \in 1..Len(s), ~IsTool(w, t[i]), t[i].run # -1
                 PROVE  t[i].run = Len(runs[t[i].node])
        BY DEF Own
    <2>1. CASE s[i].run = -1
        BY <1>3, <2>1
    <2>2. CASE s[i].run # -1
        <3>1. ~IsTool(w, s[i])
            BY <1>3 DEF IsTool
        <3>2. s[i].run = Len(runs[s[i].node])
            BY <2>2, <3>1 DEF Fine, Own
        <3> QED BY <1>3, <2>2, <3>2
    <2> QED BY <2>1, <2>2
<1>6. WaitsOnTop(w, t, runs, FALSE, last)
    BY DEF WaitsOnTop
<1>7. Answers(w, t, runs)
    <2> SUFFICES ASSUME NEW i \in 1..Len(s), t[i].requests > 0, NEW x \in Range(t[i].tools)
                 PROVE  /\ x[1] \in ToolNodes(w)
                        /\ \/ ToolDone(runs, x)
                           \/ \E j \in 1..(i - 1) : t[j].node = x[1] /\ t[j].run = x[2]
        BY DEF Answers
    <2>1. s[i].requests > 0 /\ x \in Range(s[i].tools)
        BY <1>3
    <2>2. /\ x[1] \in ToolNodes(w)
          /\ ToolDone(runs, x) \/ \E j \in 1..(i - 1) : s[j].node = x[1] /\ s[j].run = x[2]
        BY <2>1 DEF Fine, Answers
    <2>3. x[2] # -1
        BY <2>1, EntryFields
    <2>4. ASSUME NEW j \in 1..(i - 1), s[j].node = x[1], s[j].run = x[2]
          PROVE  t[j].node = x[1] /\ t[j].run = x[2]
        <3>1. j \in 1..Len(s)
            BY <1>1
        <3> QED BY <1>3, <2>3, <2>4, <3>1
    <2> QED BY <2>2, <2>4
<1> QED BY <1>4, <1>5, <1>6, <1>7 DEF Fine

\* A node waits, having recorded that run, or does not and will have it next.
TopWaits(waited, last, n, run, runs) ==
    /\ waited => last = {n} /\ run + 1 = Len(runs[n])
    /\ ~waited => run = Len(runs[n])

\* What other nodes, and this one in other runs, have done is recorded.
OthersKept(runs, runs2, n, run) ==
    /\ \A m \in Nodes \ {n} : runs2[m] = runs[m]
    /\ \A i \in 1..Len(runs[n]) : i # run + 1 => i \in 1..Len(runs2[n]) /\ runs2[n][i] = runs[n][i]

AllAlike(s, t) == Len(t) = Len(s) /\ \A i \in 1..Len(s) : Alike(s[i], t[i])

\* The last run of the first entry's node comes or goes: it waits, or has waited.
LEMMA TopChanged ==
    ASSUME NEW w, NEW s \in Seq(Entries), NEW t \in Seq(Entries), s # <<>>, Shaped(w, s),
           AllAlike(s, t),
           NEW runs \in RunDatas, NEW runs2 \in RunDatas,
           NEW waited, NEW waited2 \in BOOLEAN, NEW last, NEW last2,
           Fine(w, s, runs, waited, last), s[1].node \in w.mayWait, s[1].run # -1,
           OthersKept(runs, runs2, s[1].node, s[1].run),
           TopWaits(waited2, last2, s[1].node, s[1].run, runs2)
    PROVE  Fine(w, t, runs2, waited2, last2)
<1> DEFINE n   == s[1].node
           run == s[1].run
<1>a. Len(t) = Len(s) /\ \A i \in 1..Len(s) : Alike(s[i], t[i])
    BY DEF AllAlike
<1>b. \A m \in Nodes \ {n} : runs2[m] = runs[m]
    BY DEF OthersKept
<1>c. /\ waited2 => last2 = {n} /\ run + 1 = Len(runs2[n])
      /\ ~waited2 => run = Len(runs2[n])
    BY DEF TopWaits
<1>d. \A i \in 1..Len(runs[n]) : i # run + 1 =>
            i \in 1..Len(runs2[n]) /\ runs2[n][i] = runs[n][i]
    BY DEF OthersKept
<1>1. Len(s) \in Nat /\ Len(s) > 0 /\ 1 \in 1..Len(s)
    <2>1. Len(s) \in Nat /\ Len(s) > 0
        BY EmptySeq
    <2> QED BY <2>1
<1>2. n \in Nodes /\ run \in Nat
    BY <1>1, EntryFields
<1>3. \A i \in 1..Len(s) :
            /\ t[i].node = s[i].node /\ t[i].requests = s[i].requests /\ t[i].tools = s[i].tools
            /\ t[i].run = s[i].run /\ s[i].node \in Nodes /\ s[i].run \in Nat \cup {-1}
    BY <1>a, EntryFields DEF Alike
<1>4. ASSUME NEW i \in 1..Len(s), i # 1, s[i].node = n PROVE ~IsTool(w, s[i]) /\ s[i].run = -1
    <2>1. CASE IsTool(w, s[1])
        BY <1>1, <1>4, <2>1 DEF Shaped, Apart
    <2>2. CASE ~IsTool(w, s[1])
        <3>1. i \in 2..Len(s)
            BY <1>1, <1>4
        <3>2. Fresh(w, s[i])
            BY <2>2, <3>1, FirstOf
        <3> QED BY <3>2 DEF Fresh
    <2> QED BY <2>1, <2>2
<1>5. Len(runs2[n]) = run + 1 \/ Len(runs2[n]) = run
    BY <1>c
<1>6. Bounds(w, t, runs2)
    <2> SUFFICES ASSUME NEW i \in 1..Len(s), IsTool(w, t[i])
                 PROVE  IF t[i].node \in w.mayWait
                        THEN t[i].run \in {Len(runs2[t[i].node]) - 1, Len(runs2[t[i].node])}
                        ELSE t[i].run < Len(runs2[t[i].node])
        BY <1>a DEF Bounds
    <2>1. IsTool(w, s[i])
        BY <1>3 DEF IsTool
    <2>2. CASE i = 1
        <3>1. t[i].node = n /\ t[i].run = run
            BY <1>3, <2>2
        <3>2. n \in w.mayWait
            OBVIOUS
        <3>3. run \in {Len(runs2[n]) - 1, Len(runs2[n])}
            <4> DEFINE length == Len(runs2[n])
            <4>1. run \in Nat /\ (length = run + 1 \/ length = run)
                BY <1>2, <1>5
            <4> HIDE DEF length, run
            <4>2. run \in {length - 1, length}
                BY <4>1
            <4> QED BY <4>2 DEF length
        <3> QED BY <3>1, <3>2, <3>3
    <2>3. CASE i # 1
        <3>1. s[i].node # n
            BY <1>4, <2>1, <2>3
        <3>2. runs2[s[i].node] = runs[s[i].node]
            BY <1>3, <1>b, <3>1
        <3>3. IF s[i].node \in w.mayWait
              THEN s[i].run \in {Len(runs[s[i].node]) - 1, Len(runs[s[i].node])}
              ELSE s[i].run < Len(runs[s[i].node])
            BY <2>1 DEF Fine, Bounds
        <3> QED BY <1>3, <3>2, <3>3
    <2> QED BY <2>2, <2>3
<1>7. Own(w, t, runs2, waited2)
    <2> SUFFICES ASSUME NEW i \in 1..Len(s), ~IsTool(w, t[i]), t[i].run # -1, ~(waited2 /\ i = 1)
                 PROVE  t[i].run = Len(runs2[t[i].node])
        BY <1>a DEF Own
    <2>1. CASE i = 1
        BY <1>3, <1>c, <2>1
    <2>2. CASE i # 1
        <3>1. s[i].node # n
            BY <1>3, <1>4, <2>2
        <3>2. runs2[s[i].node] = runs[s[i].node]
            BY <1>3, <1>b, <3>1
        <3>3. ~IsTool(w, s[i]) /\ s[i].run # -1
            BY <1>3 DEF IsTool
        <3>4. s[i].run = Len(runs[s[i].node])
            BY <2>2, <3>3 DEF Fine, Own
        <3> QED BY <1>3, <3>2, <3>4
    <2> QED BY <2>1, <2>2
<1>8. WaitsOnTop(w, t, runs2, waited2, last2)
    <2>1. t # <<>>
        BY <1>1, <1>a
    <2> QED BY <1>1, <1>3, <1>c, <2>1 DEF WaitsOnTop
<1>9. Answers(w, t, runs2)
    <2> SUFFICES ASSUME NEW i \in 1..Len(s), t[i].requests > 0, NEW x \in Range(t[i].tools)
                 PROVE  /\ x[1] \in ToolNodes(w)
                        /\ \/ ToolDone(runs2, x)
                           \/ \E j \in 1..(i - 1) : t[j].node = x[1] /\ t[j].run = x[2]
        BY <1>a DEF Answers
    <2>1. s[i].requests > 0 /\ x \in Range(s[i].tools)
        BY <1>3
    <2>2. /\ x[1] \in ToolNodes(w)
          /\ ToolDone(runs, x) \/ \E j \in 1..(i - 1) : s[j].node = x[1] /\ s[j].run = x[2]
        BY <2>1 DEF Fine, Answers
    <2>3. x[1] \in Nodes /\ x[2] \in Nat
        BY <2>1, EntryFields
    <2>4. CASE \E j \in 1..(i - 1) : s[j].node = x[1] /\ s[j].run = x[2]
        <3>1. PICK j \in 1..(i - 1) : s[j].node = x[1] /\ s[j].run = x[2]
            BY <2>4
        <3>2. j \in 1..Len(s)
            BY <1>1
        <3> QED BY <1>3, <2>2, <3>1, <3>2
    <2>5. CASE ToolDone(runs, x) /\ x[1] # n
        BY <1>b, <2>2, <2>3, <2>5 DEF ToolDone
    <2>6. CASE ToolDone(runs, x) /\ x[1] = n /\ x[2] # run
        <3>1. x[2] + 1 \in 1..Len(runs[n]) /\ x[2] + 1 # run + 1
            BY <1>2, <2>3, <2>6 DEF ToolDone
        <3> QED BY <1>d, <2>2, <2>6, <3>1 DEF ToolDone
    <2>7. CASE x[1] = n /\ x[2] = run
        <3>1. IsTool(w, s[1])
            BY <2>2, <2>7 DEF IsTool
        <3>2. i # 1
            BY <2>1, <3>1, FirstOf
        <3>3. 1 \in 1..(i - 1)
            BY <1>1, <3>2
        <3> QED BY <1>1, <1>3, <2>2, <2>7, <3>3
    <2> QED BY <2>2, <2>4, <2>5, <2>6, <2>7
<1> QED BY <1>6, <1>7, <1>8, <1>9 DEF Fine

\* Entries of nodes with one input: the last one is on top.
LEMMA AddAllStacks ==
    ASSUME workflow \in Workflows, PlanInv(Plan), NEW additions, IsAdditions(additions),
           \A k \in 1..Len(additions) : ~(numberOfInputs(additions[k].entry.node) > 1)
    PROVE  LET L == Len(additions)
               s == AddAll(additions).stack
           IN  /\ s \in Seq(Fed) /\ Len(s) = L + Len(stack)
               /\ \A i \in 1..L : s[i] = additions[(L + 1) - i].entry
               /\ \A i \in 1..Len(stack) : s[L + i] = stack[i]
               /\ AddAll(additions).waiting = waiting
<1> DEFINE L == Len(additions)
<1>1. PICK added : /\ IsAdded(added, additions, Len(additions))
                   /\ AddAll(additions) = added[Len(additions)]
    BY AddAllIsLast DEF IsAdditions
<1>2. /\ L \in Nat
      /\ \A k \in 0..L : added[k] = IF k = 0 THEN Plan ELSE AddStep(added[k - 1], additions[k])
    BY <1>1 DEF IsAdded, IsAdditions
<1>3. stack \in Seq(Fed) /\ Plan.stack = stack /\ Len(stack) \in Nat
    <2>1. stack \in Seq(Fed) /\ Plan.stack = stack
        BY DEF PlanInv, PlanShape, Plan
    <2> QED BY <2>1
<1> HIDE DEF L
<1> DEFINE Is(k, s) == /\ s \in Seq(Fed) /\ Len(s) = k + Len(stack)
                       /\ \A i \in 1..k : s[i] = additions[(k + 1) - i].entry
                       /\ \A i \in 1..Len(stack) : s[k + i] = stack[i]
           S == {k \in Nat : k <= L => /\ PlanInv(added[k]) /\ Is(k, added[k].stack)
                                      /\ added[k].waiting = waiting}
<1>4. 0 \in S
    <2>1. added[0] = Plan
        BY <1>2
    <2>2. Is(0, stack)
        BY <1>3
    <2> HIDE DEF Is
    <2>3. Plan.waiting = waiting
        BY DEF Plan
    <2> QED BY <1>3, <2>1, <2>2, <2>3
<1>5. ASSUME NEW k \in Nat, k \in S PROVE k + 1 \in S
    <2>1. SUFFICES ASSUME k + 1 <= L
                   PROVE  /\ PlanInv(added[k + 1]) /\ Is(k + 1, added[k + 1].stack)
                          /\ added[k + 1].waiting = waiting
        OBVIOUS
    <2>2. PlanInv(added[k]) /\ Is(k, added[k].stack) /\ added[k].waiting = waiting
        BY <1>2, <1>5, <2>1
    <2>3. added[k + 1] = AddStep(added[k], additions[k + 1])
        <3>1. k + 1 \in 0..L /\ k + 1 # 0 /\ (k + 1) - 1 = k
            BY <1>2, <2>1
        <3> QED BY <1>2, <3>1
    <2>4. k + 1 \in 1..L
        BY <1>2, <2>1
    <2> DEFINE a == additions[k + 1]
    <2>5. IsAddition(a) /\ ~(numberOfInputs(a.entry.node) > 1)
        BY <2>4 DEF IsAdditions, L
    <2> HIDE DEF a
    <2>6. /\ PlanInv(added[k + 1]) /\ added[k + 1].stack = <<a.entry>> \o added[k].stack
          /\ added[k + 1].waiting = waiting
        <3> DEFINE before == added[k]
                   after  == AddStep(before, a)
        <3>1. PlanInv(before) /\ before.waiting = waiting
            BY <2>2
        <3> HIDE DEF before, Is
        <3>2. /\ PlanInv(after) /\ after.stack = <<a.entry>> \o before.stack
              /\ after.waiting = before.waiting
            BY <2>5, <3>1, AddStepKeeps
        <3> QED BY <2>3, <3>1, <3>2 DEF before, a
    <2> DEFINE r == added[k].stack
               e == a.entry
               s == <<e>> \o r
    <2>7. e \in Fed
        BY <2>5 DEF IsAddition
    <2>8. r \in Seq(Fed) /\ Len(r) = k + Len(stack)
        BY <2>2
    <2> HIDE DEF e, r
    <2>9. /\ s \in Seq(Fed) /\ Len(s) = 1 + Len(r) /\ s[1] = e
          /\ \A i \in 1..Len(r) : s[1 + i] = r[i]
        BY <2>7, <2>8
    <2> HIDE DEF s
    <2>10. Len(s) = (k + 1) + Len(stack)
        BY <1>3, <2>8, <2>9
    <2>11. ASSUME NEW i \in 1..(k + 1) PROVE s[i] = additions[((k + 1) + 1) - i].entry
        <3>1. CASE i = 1
            <4>1. ((k + 1) + 1) - i = k + 1
                BY <3>1
            <4> QED BY <2>9, <3>1, <4>1 DEF e, a
        <3>2. CASE i # 1
            <4>1. i - 1 \in 1..k /\ i - 1 \in 1..Len(r) /\ 1 + (i - 1) = i
                    /\ (k + 1) - (i - 1) = ((k + 1) + 1) - i
                BY <1>3, <2>8, <3>2
            <4>2. s[i] = r[i - 1]
                BY <2>9, <4>1
            <4>3. r[i - 1] = additions[(k + 1) - (i - 1)].entry
                BY <2>2, <4>1 DEF r
            <4> QED BY <4>1, <4>2, <4>3
        <3> QED BY <3>1, <3>2
    <2>12. ASSUME NEW i \in 1..Len(stack) PROVE s[(k + 1) + i] = stack[i]
        <3>1. k + i \in 1..Len(r) /\ 1 + (k + i) = (k + 1) + i
            BY <1>3, <2>8
        <3>2. s[(k + 1) + i] = r[k + i]
            BY <2>9, <3>1
        <3> QED BY <2>2, <3>2 DEF r
    <2> QED BY <2>6, <2>9, <2>10, <2>11, <2>12 DEF s, e, r
<1> HIDE DEF S
<1>6. L \in S
    BY <1>2, <1>4, <1>5, Induction
<1>7. Is(L, added[L].stack) /\ added[L].waiting = waiting
    BY <1>2, <1>6 DEF S
<1> QED BY <1>1, <1>7 DEF L

\* How often a node is among the first k tools.
Count(tools, k, n) == Cardinality({j \in 1..k : tools[j] = n})

\* A tool is asked for one time more than it was before.
LEMMA ToolCounts ==
    ASSUME NEW tools, NEW m \in Nat, NEW l \in 1..m
    PROVE  /\ Count(tools, l - 1, tools[l]) \in Nat /\ Count(tools, m, tools[l]) \in Nat
           /\ Count(tools, l - 1, tools[l]) < Count(tools, m, tools[l])
           /\ (\A i \in 1..m : tools[i] = tools[l] => i = l)
                => Count(tools, l - 1, tools[l]) = 0 /\ Count(tools, m, tools[l]) = 1
<1> DEFINE B == {j \in 1..(l - 1) : tools[j] = tools[l]}
           A == {j \in 1..m : tools[j] = tools[l]}
<1>1. l - 1 \in Nat
    OBVIOUS
<1>2. IsFiniteSet(1..m) /\ A \in SUBSET (1..m)
    BY FS_Interval
<1>3. IsFiniteSet(A)
    BY <1>2, FS_Subset
<1>4. B \in SUBSET A /\ l \in A /\ l \notin B
    OBVIOUS
<1>5. /\ IsFiniteSet(B) /\ Cardinality(B) <= Cardinality(A)
      /\ Cardinality(A) = Cardinality(B) => A = B
    <2> HIDE DEF A, B
    <2> QED BY <1>3, <1>4, FS_Subset
<1>6. Cardinality(A) \in Nat /\ Cardinality(B) \in Nat
    BY <1>3, <1>5, FS_CardinalityType
<1>7. ASSUME \A i \in 1..m : tools[i] = tools[l] => i = l
      PROVE  Cardinality(B) = 0 /\ Cardinality(A) = 1
    <2>1. A = {l}
        BY <1>7
    <2>2. B = {}
        BY <1>4, <2>1
    <2> QED BY <2>1, <2>2, FS_EmptySet, FS_Singleton
<1> HIDE DEF A, B
<1>8. Cardinality(B) < Cardinality(A)
    BY <1>4, <1>5, <1>6
<1> QED BY <1>6, <1>7, <1>8 DEF A, B, Count

\* The run data once tools have been asked for.
Requested(runs, tools) ==
    [n \in Nodes |-> runs[n] \o
        [i \in 1..Count(tools, Len(tools), n) |-> TaskData("requested", {})]]

\* It has the runs that were asked for.
LEMMA RequestedType ==
    ASSUME NEW runs \in RunDatas, NEW tools \in Seq(Nodes)
    PROVE  /\ Requested(runs, tools) \in RunDatas
           /\ \A n \in Nodes : Len(Requested(runs, tools)[n])
                    = Len(runs[n]) + Count(tools, Len(tools), n)
<1> DEFINE count(n) == Count(tools, Len(tools), n)
           asked(n) == [i \in 1..count(n) |-> TaskData("requested", {})]
<1>1. Len(tools) \in Nat
    OBVIOUS
<1>2. \A n : count(n) \in Nat
    BY <1>1, CountType DEF Count
<1>3. TaskData("requested", {}) \in TaskDatas
    BY DEF TaskData, TaskDatas
<1>4. Requested(runs, tools) = [n \in Nodes |-> runs[n] \o asked(n)]
    BY DEF Requested
<1> HIDE DEF count
<1>5. \A n : asked(n) \in Seq(TaskDatas) /\ Len(asked(n)) = count(n)
    BY <1>2, <1>3
<1> HIDE DEF asked
<1>6. ASSUME NEW n \in Nodes
      PROVE  runs[n] \o asked(n) \in Seq(TaskDatas)
                /\ Len(runs[n] \o asked(n)) = Len(runs[n]) + count(n)
    <2> DEFINE r == runs[n]
               a == asked(n)
    <2>1. r \in Seq(TaskDatas)
        BY RunDatasLength
    <2>2. a \in Seq(TaskDatas) /\ Len(a) = count(n)
        BY <1>5
    <2> HIDE DEF r, a
    <2>3. r \o a \in Seq(TaskDatas) /\ Len(r \o a) = Len(r) + Len(a)
        BY <2>1, <2>2
    <2> QED BY <2>2, <2>3 DEF r, a
<1> QED BY <1>4, <1>6 DEF RunDatas, count

\* An agent on top of others, and above it the tools it has asked for, the last one
\* first.
Stacked(s, m, agent, below) ==
    /\ Len(s) = (m + 1) + Len(below)
    /\ s[m + 1] = agent
    /\ \A i \in 1..Len(below) : s[(m + 1) + i] = below[i]

AsTools(s, m, tools, runs) ==
    \A i \in 1..m :
        /\ s[i].node = tools[(m + 1) - i] /\ s[i].requests = 0
        /\ s[i].run = Len(runs[s[i].node]) +
                Count(tools, ((m + 1) - i) - 1, s[i].node)

\* An entry there is a tool, the agent, or was there.
LEMMA StackedParts ==
    ASSUME NEW s \in Seq(Entries), NEW m \in Nat, NEW agent, NEW below \in Seq(Entries),
           Stacked(s, m, agent, below)
    PROVE  /\ Len(s) \in Nat /\ m < Len(s) /\ s[m + 1] = agent
           /\ \A i \in 1..Len(s) : i \in 1..m \/ i = m + 1 \/ i > m + 1
           /\ \A i \in 1..Len(s) : i > m + 1 => \E j \in 1..Len(below) : s[i] = below[j]
<1>1. Len(below) \in Nat /\ Len(s) = (m + 1) + Len(below) /\ s[m + 1] = agent
    BY DEF Stacked
<1>2. ASSUME NEW i \in 1..Len(s), i > m + 1 PROVE \E j \in 1..Len(below) : s[i] = below[j]
    <2> DEFINE j == i - (m + 1)
    <2>1. j \in 1..Len(below) /\ (m + 1) + j = i
        BY <1>1, <1>2
    <2> HIDE DEF j
    <2> QED BY <2>1 DEF Stacked
<1> QED BY <1>1, <1>2

\* The state of an agent that has asked for tools.
LEMMA RequestsFine ==
    ASSUME NEW w \in Workflows, PlainAgents(w), NEW agent \in Entries, NEW below \in Seq(Entries),
           NEW runs \in RunDatas, NEW last,
           ~IsTool(w, agent), agent.run \in Nat, agent.run = Len(runs[agent.node]),
           AllFresh(w, below), w.tools[agent.node] # <<>>, agent.requests > 0, ~agent.disabled,
           NEW s \in Seq(Entries), NEW tools \in Seq(Nodes), tools = w.tools[agent.node],
           NEW m \in Nat, Len(tools) = m,
           Stacked(s, m, agent, below), AsTools(s, m, tools, runs),
           \A x \in Range(agent.tools) : \E i \in 1..m : x = <<s[i].node, s[i].run>>
    PROVE  Shaped(w, s) /\ Fine(w, s, Requested(runs, tools), FALSE, last)
<1> DEFINE after == Requested(runs, tools)
<1>1. agent.node \in Nodes
    BY DEF Entries
<1>s. /\ Len(s) \in Nat /\ m < Len(s) /\ s[m + 1] = agent
      /\ \A i \in 1..Len(s) : i \in 1..m \/ i = m + 1 \/ i > m + 1
      /\ \A i \in 1..Len(s) : i > m + 1 => \E j \in 1..Len(below) : s[i] = below[j]
    BY StackedParts
<1>t. \A i \in 1..m :
        /\ s[i].node = tools[(m + 1) - i] /\ s[i].requests = 0
        /\ s[i].run = Len(runs[s[i].node]) +
                Count(tools, ((m + 1) - i) - 1, s[i].node)
    BY DEF AsTools
<1>2. \A i \in 1..m : tools[i] \in ToolNodes(w) /\ tools[i] \in Nodes
    <2>1. \A i \in 1..m : tools[i] \in Range(tools) /\ tools[i] \in Nodes
        BY DEF Range
    <2> QED BY <1>1, <2>1 DEF ToolNodes
<1>3. \A i \in 1..m : (m + 1) - i \in 1..m /\ (m + 1) - i - 1 = m - i
    OBVIOUS
<1>4. \A i \in 1..m : IsTool(w, s[i]) /\ s[i].node \in Nodes
    BY <1>2, <1>3, <1>t DEF IsTool
<1>6. ASSUME NEW i \in 1..Len(s), i > m + 1 PROVE Fresh(w, s[i])
    BY <1>s, <1>6 DEF AllFresh
<1>7. ASSUME NEW i \in 1..Len(s), IsTool(w, s[i]) PROVE i \in 1..m
    <2>1. i # m + 1
        BY <1>s, <1>7
    <2>2. ~(i > m + 1)
        BY <1>6, <1>7 DEF Fresh
    <2> QED BY <1>s, <2>1, <2>2
<1>p. \A a, b \in 1..m : a # b /\ tools[a] = tools[b] => tools[a] \notin w.mayWait
    <2>1. \A a, b \in DOMAIN w.tools[agent.node] :
            a # b /\ w.tools[agent.node][a] = w.tools[agent.node][b]
                => w.tools[agent.node][a] \notin w.mayWait
        BY <1>1 DEF PlainAgents
    <2>2. DOMAIN tools = 1..m /\ w.tools[agent.node] = tools
        OBVIOUS
    <2> QED BY <2>1, <2>2
<1>8. ASSUME NEW i \in 1..m
      PROVE  /\ IsTool(w, s[i]) /\ s[i].requests = 0 /\ s[i].node \in Nodes
             /\ (m + 1) - i \in 1..m /\ tools[(m + 1) - i] = s[i].node
             /\ Len(runs[s[i].node]) \in Nat
             /\ s[i].run = Len(runs[s[i].node]) +
                    Count(tools, ((m + 1) - i) - 1, tools[(m + 1) - i])
    <2>1. /\ IsTool(w, s[i]) /\ s[i].requests = 0 /\ s[i].node \in Nodes
          /\ (m + 1) - i \in 1..m /\ tools[(m + 1) - i] = s[i].node
        BY <1>3, <1>4, <1>t
    <2>2. Len(runs[s[i].node]) \in Nat
        BY <2>1, RunDatasLength
    <2>3. s[i].run = Len(runs[s[i].node]) +
                    Count(tools, ((m + 1) - i) - 1, s[i].node)
        BY <1>t
    <2> QED BY <2>1, <2>2, <2>3
<1>9. Shaped(w, s)
    <2>1. ShapeWith(w, s, m)
        <3>1. ASSUME NEW i \in 1..m PROVE IsTool(w, s[i]) /\ s[i].requests = 0 /\ s[i].run # -1
            <4> DEFINE l == (m + 1) - i
                       before == Count(tools, l - 1, tools[l])
            <4>1. /\ l \in 1..m /\ s[i].run = Len(runs[s[i].node]) + before
                  /\ Len(runs[s[i].node]) \in Nat
                BY <1>8
            <4> HIDE DEF l
            <4>2. before \in Nat
                BY <4>1, ToolCounts
            <4> HIDE DEF before
            <4>3. s[i].run # -1
                <5> DEFINE r == Len(runs[s[i].node])
                <5>1. r \in Nat /\ s[i].run = r + before
                    BY <4>1
                <5> HIDE DEF r
                <5> QED BY <4>2, <5>1
            <4> QED BY <1>8, <4>3
        <3>2. m <= Len(s) /\ m < Len(s)
            BY <1>s
        <3>3. ~IsTool(w, s[m + 1]) /\ Asked(w, s[m + 1]) /\ s[m + 1].requests > 0
            <4>1. agent.run # -1
                OBVIOUS
            <4> QED BY <1>s, <4>1 DEF IsTool, Asked
        <3>4. \A i \in (m + 2)..Len(s) : Fresh(w, s[i])
            <4>1. \A i \in (m + 2)..Len(s) : i \in 1..Len(s) /\ i > m + 1
                BY <1>s
            <4> QED BY <1>6, <4>1
        <3> QED BY <3>1, <3>2, <3>3, <3>4 DEF ShapeWith
    <2>2. Apart(w, s)
        <3> SUFFICES ASSUME NEW i \in 1..Len(s), NEW j \in 1..Len(s), IsTool(w, s[i]),
                            s[i].node \in w.mayWait, s[j].node = s[i].node
                     PROVE  i = j
            BY DEF Apart
        <3>1. i \in 1..m /\ j \in 1..m
            BY <1>7 DEF IsTool
        <3> DEFINE a == (m + 1) - i
                   b == (m + 1) - j
        <3>2. a \in 1..m /\ b \in 1..m /\ tools[a] = s[i].node /\ tools[b] = s[i].node
            BY <1>8, <3>1
        <3>3. a = b
            <4> HIDE DEF a, b
            <4> QED BY <1>p, <3>2
        <3> QED BY <3>1, <3>3
    <2> QED BY <2>1, <2>2 DEF Shaped
<1> HIDE DEF after
<1>10. \A n \in Nodes : Len(after[n])
                    = Len(runs[n]) + Count(tools, m, n)
    BY RequestedType DEF after
<1>11. Bounds(w, s, after)
    <2> SUFFICES ASSUME NEW i \in 1..Len(s), IsTool(w, s[i])
                 PROVE  IF s[i].node \in w.mayWait
                        THEN s[i].run \in {Len(after[s[i].node]) - 1, Len(after[s[i].node])}
                        ELSE s[i].run < Len(after[s[i].node])
        BY DEF Bounds
    <2>1. i \in 1..m
        BY <1>7
    <2> DEFINE l == (m + 1) - i
               n == s[i].node
               before == Count(tools, l - 1, tools[l])
               all == Count(tools, m, tools[l])
               r == Len(runs[n])
    <2>2. l \in 1..m /\ tools[l] = n /\ n \in Nodes /\ r \in Nat /\ s[i].run = r + before
        BY <1>8, <2>1
    <2>3. Len(after[n]) = r + all
        BY <1>10, <2>2
    <2> HIDE DEF l, r
    <2>4. before \in Nat /\ all \in Nat /\ before < all
        BY <2>2, ToolCounts
    <2>5. ASSUME n \in w.mayWait PROVE before = 0 /\ all = 1
        <3>1. tools[l] \in w.mayWait
            BY <2>2, <2>5
        <3>2. \A a \in 1..m : tools[a] = tools[l] => a = l
            BY <1>p, <2>2, <3>1
        <3>3. Count(tools, l - 1, tools[l]) = 0 /\ Count(tools, m, tools[l]) = 1
            <4> HIDE DEF n
            <4>1. l \in 1..m
                BY <2>2
            <4> QED BY <3>2, <4>1, ToolCounts
        <3> QED BY <3>3
    <2> HIDE DEF before, all
    <2>6. ASSUME n \in w.mayWait PROVE s[i].run = Len(after[n]) - 1
        BY <2>2, <2>3, <2>5, <2>6
    <2>7. s[i].run < Len(after[n])
        BY <2>2, <2>3, <2>4
    <2> QED BY <2>6, <2>7
<1>12. Own(w, s, after, FALSE)
    <2> SUFFICES ASSUME NEW i \in 1..Len(s), ~IsTool(w, s[i]), s[i].run # -1
                 PROVE  s[i].run = Len(after[s[i].node])
        BY DEF Own
    <2>1. i = m + 1
        <3>1. ~(i > m + 1)
            BY <1>6 DEF Fresh
        <3>2. i \notin 1..m
            BY <1>4
        <3> QED BY <1>s, <3>1, <3>2
    <2>2. {j \in 1..m : tools[j] = agent.node} = {}
        BY <1>2 DEF IsTool
    <2>3. Count(tools, m, agent.node) = 0
        BY <2>2, FS_EmptySet DEF Count
    <2>4. Len(after[agent.node]) = Len(runs[agent.node]) + 0
        BY <1>1, <1>10, <2>3
    <2>5. Len(after[agent.node]) = agent.run
        BY <2>4
    <2> QED BY <1>s, <2>1, <2>5
<1>13. WaitsOnTop(w, s, after, FALSE, last)
    BY DEF WaitsOnTop
<1>14. Answers(w, s, after)
    <2> SUFFICES ASSUME NEW i \in 1..Len(s), s[i].requests > 0, NEW x \in Range(s[i].tools)
                 PROVE  /\ x[1] \in ToolNodes(w)
                        /\ \E j \in 1..(i - 1) : s[j].node = x[1] /\ s[j].run = x[2]
        BY DEF Answers
    <2>1. i = m + 1
        <3>1. ~(i > m + 1)
            BY <1>6 DEF Fresh
        <3>2. ASSUME i \in 1..m PROVE FALSE
            <4>1. s[i].requests = 0
                BY <1>8, <3>2
            <4> QED BY <4>1
        <3> QED BY <1>s, <3>1, <3>2
    <2>2. PICK j \in 1..m : x = <<s[j].node, s[j].run>>
        BY <1>s, <2>1
    <2>3. j \in 1..(i - 1)
        BY <2>1, <2>2
    <2> QED BY <1>4, <2>2, <2>3 DEF IsTool
<1> QED BY <1>9, <1>11, <1>12, <1>13, <1>14 DEF Fine, after
-----------------------------------------------------------------------------
(* The invariant of agents                                                  *)

\* The entry that is executed, if there is one, and the stack below it.
Work == IF pc \in {"node", "after:waiting"} THEN <<current>> \o stack ELSE stack

\* The stack will be worked on, or may be: by this engine or the next.
Alive == pc \notin Done \/ status = "waiting"
\* And no node has failed and is left on it.
Sound == Alive /\ pc # "after:failed" /\ (pc = "stop" => ~executionError)

AgentInv ==
    /\ pc = "after:failed" => executionError
    /\ Alive => Shaped(workflow, Work)
    /\ Sound => Fine(workflow, Work, runData, waitTill, lastNodeExecuted)

\* What is known of a tool.
LEMMA ToolNode ==
    ASSUME NEW w \in Workflows, PlainAgents(w), NEW t \in ToolNodes(w)
    PROVE  /\ w.destination = {} /\ w.tools[t] = <<>> /\ t # w.start /\ t \notin w.mayReturnNull
           /\ \A c \in w.connections : c.from # t /\ c.to # t
<1>1. PICK n \in Nodes : t \in Range(w.tools[n])
    BY DEF ToolNodes
<1>2. w.tools[n] # <<>>
    BY <1>1 DEF Range
<1> QED BY <1>1, <1>2 DEF PlainAgents

\* What is worked on while a node is executed.
LEMMA WorkOnNode ==
    ASSUME TypeInv, pc \in {"node", "after:waiting"}
    PROVE  /\ Work = <<current>> \o stack /\ Work \in Seq(Entries) /\ Work # <<>>
           /\ Work[1] = current /\ Tail(Work) = stack /\ Len(Work) = Len(stack) + 1
           /\ current.node \in Nodes /\ current.run \in Nat
<1>1. current \in Entries /\ stack \in Seq(Entries) /\ current.run \in Nat
    <2>1. current \in Entries /\ stack \in Seq(Fed) /\ current.run \in Nat
        BY DEF TypeInv, CurrentInv
    <2>2. Fed \subseteq Entries
        BY DEF Fed
    <2> QED BY <2>1, <2>2
<1>2. Work = <<current>> \o stack
    BY DEF Work
<1> DEFINE s == <<current>> \o stack
<1>3. /\ s \in Seq(Entries) /\ Len(s) = Len(stack) + 1 /\ s[1] = current
      /\ Len(stack) \in Nat /\ \A i \in 1..Len(stack) : s[i + 1] = stack[i]
    BY <1>1
<1> HIDE DEF s
<1>4. s # <<>>
    BY <1>3, EmptySeq
<1>5. Tail(s) = stack
    BY <1>1, <1>3, <1>4, HeadTailProperties
<1> QED BY <1>1, <1>2, <1>3, <1>4, <1>5 DEF s, Entries

\* What is worked on is a sequence of entries.
LEMMA WorkType ==
    ASSUME TypeInv
    PROVE  Work \in Seq(Entries) /\ stack \in Seq(Entries)
<1>1. stack \in Seq(Entries)
    <2>1. Fed \subseteq Entries /\ First \subseteq Entries
        BY DEF Fed, First
    <2> QED BY <2>1 DEF TypeInv, StackInv
<1>2. CASE pc \in {"node", "after:waiting"}
    BY <1>1, <1>2, WorkOnNode
<1>3. CASE pc \notin {"node", "after:waiting"}
    BY <1>1, <1>3 DEF Work
<1> QED BY <1>1, <1>2, <1>3

\* Where nothing has been begun, the invariant holds.
LEMMA FreshKeeps ==
    ASSUME stack' \in Seq(Entries), AllFresh(workflow', stack'), waitTill' = FALSE,
           pc' \notin {"node", "after:waiting", "after:failed"}
    PROVE  AgentInv'
<1> DEFINE w == workflow'
           s == stack'
           last == lastNodeExecuted'
           runs == runData'
<1>1. Shaped(w, s) /\ Fine(w, s, runs, FALSE, last)
    <2> HIDE DEF w, s, runs, last
    <2>1. s \in Seq(Entries) /\ AllFresh(w, s)
        BY DEF w, s
    <2> QED BY <2>1, FreshIsFine
<1>2. Work' = stack'
    BY DEF Work
<1> QED BY <1>1, <1>2 DEF AgentInv

\* At first, nothing has been begun.
LEMMA AgentInit ==
    ASSUME Init, PlainAgents(workflow)
    PROVE  AgentInv
<1>1. TypeInv
    BY TypeInit
<1> DEFINE s == stack
<1>2. /\ Work = stack /\ pc = "setup" /\ waitTill = FALSE
      /\ stack = <<Entry(workflow.start, <<Initial>>)>>
    BY DEF Init, Work
<1>3. workflow.start \notin ToolNodes(workflow)
    BY <1>1, ToolNode DEF TypeInv
<1>4. AllFresh(workflow, stack)
    <2>1. Fresh(workflow, Entry(workflow.start, <<Initial>>))
        BY <1>3 DEF Fresh, IsTool, Entry
    <2> QED BY <1>2, <2>1 DEF AllFresh
<1>5. Shaped(workflow, stack) /\ Fine(workflow, stack, runData, FALSE, lastNodeExecuted)
    BY <1>1, <1>4, WorkType, FreshIsFine
<1> QED BY <1>2, <1>5 DEF AgentInv

\* Steps that leave what is worked on alone.
LEMMA WorkKept ==
    ASSUME TypeInv, AgentInv,
           [Begin \/ TimeIsUp \/ LoopEnds \/ AfterDestination \/ AfterStop \/ Close \/ Save
                \/ Resolve \/ Cancel]_vars
    PROVE  /\ UNCHANGED <<workflow, waiting, runData, waitTill, lastNodeExecuted>>
           /\ Work' = Work
           /\ (Alive' => Alive) /\ (Sound' => Sound) /\ (pc' = "after:failed" => executionError')
<1>1. UNCHANGED <<workflow, waiting, runData, waitTill, lastNodeExecuted, current, executionError>>
    BY DEF Begin, TimeIsUp, LoopEnds, AfterDestination, AfterStop, Close, Save, Resolve,
                Cancel, vars, dataVars
<1>2. Work' = Work
    <2>1. CASE AfterStop
        BY <2>1 DEF AfterStop, Work
    <2>2. CASE [Begin \/ TimeIsUp \/ LoopEnds \/ AfterDestination \/ Close \/ Save
            \/ Resolve \/ Cancel]_vars
        <3>1. UNCHANGED <<stack, current>>
            BY <2>2 DEF Begin, TimeIsUp, LoopEnds, AfterDestination, Close, Save, Resolve,
                        Cancel, vars, dataVars
        <3>2. (pc' \in {"node", "after:waiting"}) = (pc \in {"node", "after:waiting"})
            BY <2>2 DEF Begin, TimeIsUp, LoopEnds, AfterDestination, Close, Save, Resolve,
                        Cancel, vars, dataVars
        <3> QED BY <3>1, <3>2 DEF Work
    <2> QED BY <2>1, <2>2
<1>3. (Alive' => Alive) /\ (Sound' => Sound) /\ (pc' = "after:failed" => executionError)
    <2>1. CASE Close
        <3>1. pc = "stop" /\ pc' = "closing"
            BY <2>1 DEF Close
        <3>2. status' = "waiting" => ~executionError
            BY <2>1 DEF Close
        <3> QED BY <3>1, <3>2 DEF Alive, Sound, Done
    <2>2. CASE Cancel
        <3>1. status' = "canceled" /\ UNCHANGED <<pc, executionError>>
            BY <2>2 DEF Cancel
        <3> QED BY <3>1 DEF Alive, Sound, Done, AgentInv
    <2>3. CASE Begin \/ TimeIsUp \/ LoopEnds \/ AfterDestination
        BY <2>3 DEF Begin, TimeIsUp, LoopEnds, AfterDestination, Alive, Sound, Done
    <2>4. CASE Save \/ Resolve
        BY <2>4 DEF Save, Resolve, Alive, Sound, Done
    <2>5. CASE AfterStop
        <3>1. pc = "after:failed" => executionError
            BY DEF AgentInv
        <3> QED BY <1>1, <2>5, <3>1 DEF AfterStop, Alive, Sound, Done
    <2>6. CASE UNCHANGED vars
        BY <2>6 DEF vars, Alive, Sound, AgentInv
    <2> QED BY <2>1, <2>2, <2>3, <2>4, <2>5, <2>6
<1> QED BY <1>1, <1>2, <1>3

\* And so they keep the invariant.
LEMMA AgentKept ==
    ASSUME TypeInv, AgentInv,
           [Begin \/ SetupFails \/ TimeIsUp \/ LoopEnds \/ AfterDestination \/ AfterStop \/ Close
                \/ Save \/ Resolve \/ Cancel]_vars
    PROVE  AgentInv'
<1>1. CASE SetupFails
    <2>1. pc' = "saving" /\ status' = status /\ status # "waiting"
        BY <1>1 DEF SetupFails, TypeInv, StatusInv, Done
    <2> QED BY <2>1 DEF AgentInv, Alive, Sound, Done
<1>2. CASE [Begin \/ TimeIsUp \/ LoopEnds \/ AfterDestination \/ AfterStop \/ Close \/ Save
                \/ Resolve \/ Cancel]_vars
    BY <1>2, WorkKept DEF AgentInv
<1> QED BY <1>1, <1>2

\* A node is begun.
LEMMA AgentStart ==
    ASSUME TypeInv, AgentInv, StartNode
    PROVE  AgentInv'
<1> DEFINE e   == Head(stack)
           run == IF e.run # -1 THEN e.run ELSE Len(runData[e.node])
           t   == <<current'>> \o Tail(stack)
<1>1. /\ pc = "loop" /\ stack # <<>> /\ current' = [e EXCEPT !.run = run]
      /\ stack' = Tail(stack) /\ pc' = "node"
      /\ UNCHANGED <<workflow, runData, lastNodeExecuted, waitTill>>
    BY DEF StartNode
<1>2. waitTill = FALSE
    BY <1>1 DEF TypeInv, WaitInv, StatusInv, Done
<1>3. stack \in Seq(Entries)
    BY WorkType
<1>4. e \in Entries /\ e = stack[1] /\ Len(stack) \in Nat /\ Len(stack) > 0
        /\ Tail(stack) \in Seq(Entries) /\ Len(Tail(stack)) = Len(stack) - 1
        /\ \A i \in 1..(Len(stack) - 1) : Tail(stack)[i] = stack[i + 1]
    BY <1>1, <1>3, HeadTailProperties, EmptySeq
<1>5. /\ current'.node = e.node /\ current'.requests = e.requests /\ current'.tools = e.tools
      /\ current'.run = run /\ current' \in Entries /\ current'.disabled = e.disabled
    <2> HIDE DEF e
    <2>1. run \in Nat
        BY <1>4, RunsLength DEF TypeInv, Entries
    <2> HIDE DEF run
    <2> QED BY <1>1, <1>4, <2>1 DEF Entries
<1>6. Shaped(workflow, stack) /\ Fine(workflow, stack, runData, FALSE, lastNodeExecuted)
    BY <1>1, <1>2 DEF AgentInv, Alive, Sound, Done, Work
<1>7. t \in Seq(Entries) /\ Len(t) = Len(stack) /\ t[1] = current'
        /\ \A i \in 2..Len(stack) : t[i] = stack[i]
    <2> DEFINE r == Tail(stack)
    <2>1. r \in Seq(Entries) /\ Len(r) = Len(stack) - 1
            /\ \A i \in 1..(Len(stack) - 1) : r[i] = stack[i + 1]
        BY <1>4
    <2> HIDE DEF r, e, run
    <2>2. t \in Seq(Entries) /\ Len(t) = 1 + Len(r) /\ t[1] = current'
            /\ \A i \in 2..(Len(r) + 1) : t[i] = r[i - 1]
        BY <1>5, <2>1 DEF r
    <2>3. \A i \in 2..Len(stack) : i - 1 \in 1..(Len(stack) - 1) /\ (i - 1) + 1 = i
        BY <1>4
    <2> HIDE DEF t
    <2> QED BY <1>4, <2>1, <2>2, <2>3
<1>8. Work' = t
    BY <1>1 DEF Work
<1> HIDE DEF t
<1>9. /\ t[1].node = stack[1].node /\ t[1].requests = stack[1].requests
      /\ t[1].tools = stack[1].tools
      /\ t[1].disabled = stack[1].disabled
      /\ t[1].run = IF stack[1].run # -1 THEN stack[1].run ELSE Len(runData[stack[1].node])
    BY <1>4, <1>5, <1>7
<1>10. Shaped(workflow, t) /\ Fine(workflow, t, runData, FALSE, lastNodeExecuted)
    BY <1>1, <1>3, <1>6, <1>7, <1>9, FirstShaped, FirstFine
<1> QED BY <1>1, <1>2, <1>8, <1>10 DEF AgentInv

\* Nothing leads to a tool.
LEMMA ToolInputs ==
    ASSUME workflow \in Workflows, PlainAgents(workflow), NEW n \in ToolNodes(workflow)
    PROVE  numberOfInputs(n) = 0
<1>1. {d \in workflow.connections : d.to = n} = {}
    BY ToolNode
<1> QED BY <1>1 DEF numberOfInputs, InputsOf

\* What is put on a stack was not begun, and neither is what is on it then.
LEMMA FreshOnTop ==
    ASSUME NEW w, NEW s \in Seq(Fed), AllFresh(w, s), NEW e \in Fed, Fresh(w, e)
    PROVE  AllFresh(w, <<e>> \o s) /\ AllFresh(w, Append(s, e))
<1> DEFINE t == <<e>> \o s
           u == Append(s, e)
<1>1. /\ Len(s) \in Nat /\ Len(t) = Len(s) + 1 /\ t[1] = e
      /\ \A i \in 1..Len(s) : t[i + 1] = s[i]
    OBVIOUS
<1>2. Len(u) = Len(s) + 1 /\ u[Len(s) + 1] = e /\ \A i \in 1..Len(s) : u[i] = s[i]
    OBVIOUS
<1>3. \A i \in 1..(Len(s) + 1) : /\ i = 1 \/ (i - 1 \in 1..Len(s) /\ (i - 1) + 1 = i)
                                 /\ i = Len(s) + 1 \/ i \in 1..Len(s)
    BY <1>1
<1> HIDE DEF t, u
<1>4. ASSUME NEW i \in 1..Len(t) PROVE Fresh(w, t[i])
    <2>1. CASE i = 1
        BY <1>1, <2>1
    <2>2. CASE i # 1
        <3>1. i - 1 \in 1..Len(s) /\ (i - 1) + 1 = i
            BY <1>1, <1>3, <2>2
        <3>2. t[i] = s[i - 1]
            BY <1>1, <3>1
        <3> QED BY <3>1, <3>2 DEF AllFresh
    <2> QED BY <2>1, <2>2
<1>5. ASSUME NEW i \in 1..Len(u) PROVE Fresh(w, u[i])
    BY <1>2, <1>3 DEF AllFresh
<1> QED BY <1>4, <1>5 DEF AllFresh, t, u

\* A new entry was not begun.
LEMMA EntryFresh ==
    ASSUME NEW w, NEW n, NEW data, n \notin ToolNodes(w)
    PROVE  Fresh(w, Entry(n, data))
BY DEF Fresh, Entry, IsTool

\* Nor was what a node with several inputs has waited with.
LEMMA PushedFresh ==
    ASSUME workflow \in Workflows, PlainAgents(workflow), NEW before \in Seq(Fed), NEW after,
           AllFresh(workflow, before), Pushed(after, before)
    PROVE  AllFresh(workflow, after)
<1>1. CASE after = before
    BY <1>1
<1>2. CASE after # before
    <2>1. PICK n \in Nodes, data \in Seq(Data) :
            /\ numberOfInputs(n) > 1 /\ data # <<>>
            /\ after = <<Entry(n, data)>> \o before
        BY <1>2 DEF Pushed
    <2>2. n \notin ToolNodes(workflow)
        BY <2>1, ToolInputs
    <2>3. Entry(n, data) \in Fed
        BY <2>1, EntryType
    <2>4. Fresh(workflow, Entry(n, data))
        BY <2>2, EntryFresh
    <2> QED BY <2>1, <2>3, <2>4, FreshOnTop
<1> QED BY <1>1, <1>2

\* A stack of what was not begun is still one, when such entries are added.
LEMMA AddAllFresh ==
    ASSUME workflow \in Workflows, PlainAgents(workflow), PlanInv(Plan),
           NEW additions, IsAdditions(additions), AllFresh(workflow, stack),
           \A k \in 1..Len(additions) : Fresh(workflow, additions[k].entry)
    PROVE  AllFresh(workflow, AddAll(additions).stack)
<1>1. PICK added : /\ IsAdded(added, additions, Len(additions))
                   /\ AddAll(additions) = added[Len(additions)]
    BY AddAllIsLast DEF IsAdditions
<1>2. /\ Len(additions) \in Nat
      /\ \A k \in 0..Len(additions) :
            added[k] = IF k = 0 THEN Plan ELSE AddStep(added[k - 1], additions[k])
    BY <1>1 DEF IsAdded, IsAdditions
<1> DEFINE S == {k \in Nat : k <= Len(additions) =>
                    PlanInv(added[k]) /\ AllFresh(workflow, added[k].stack)}
<1>3. 0 \in S
    BY <1>2 DEF Plan
<1>4. ASSUME NEW k \in Nat, k \in S PROVE k + 1 \in S
    <2>1. SUFFICES ASSUME k + 1 <= Len(additions)
                   PROVE  PlanInv(added[k + 1]) /\ AllFresh(workflow, added[k + 1].stack)
        OBVIOUS
    <2>2. PlanInv(added[k]) /\ AllFresh(workflow, added[k].stack)
        BY <1>2, <1>4, <2>1
    <2>3. added[k + 1] = AddStep(added[k], additions[k + 1])
        <3>1. k + 1 \in 0..Len(additions) /\ k + 1 # 0 /\ (k + 1) - 1 = k
            BY <1>2, <2>1
        <3> QED BY <1>2, <3>1
    <2>4. IsAddition(additions[k + 1]) /\ Fresh(workflow, additions[k + 1].entry)
        BY <1>2, <2>1 DEF IsAdditions
    <2> DEFINE a == additions[k + 1]
               before == added[k].stack
               after == added[k + 1].stack
    <2>5. /\ PlanInv(added[k + 1])
          /\ numberOfInputs(a.entry.node) > 1 => Pushed(after, before)
          /\ ~(numberOfInputs(a.entry.node) > 1) => after = <<a.entry>> \o before
        <3> DEFINE plan == added[k]
        <3>1. PlanInv(plan) /\ IsAddition(a) /\ added[k + 1] = AddStep(plan, a)
            BY <2>2, <2>3, <2>4
        <3> HIDE DEF plan, a, S
        <3>2. /\ PlanInv(AddStep(plan, a))
              /\ numberOfInputs(a.entry.node) > 1 => Pushed(AddStep(plan, a).stack, plan.stack)
              /\ ~(numberOfInputs(a.entry.node) > 1) =>
                    AddStep(plan, a).stack = <<a.entry>> \o plan.stack
            BY <3>1, AddStepKeeps
        <3> QED BY <3>1, <3>2 DEF plan
    <2>6. before \in Seq(Fed) /\ AllFresh(workflow, before)
        BY <2>2 DEF PlanInv, PlanShape
    <2>7. a.entry \in Fed /\ Fresh(workflow, a.entry)
        BY <2>4 DEF IsAddition
    <2> HIDE DEF a, before, after
    <2>8. AllFresh(workflow, after)
        BY <2>5, <2>6, <2>7, PushedFresh, FreshOnTop
    <2> QED BY <2>5, <2>8 DEF after
<1> HIDE DEF S
<1>5. Len(additions) \in S
    BY <1>2, <1>3, <1>4, Induction
<1> QED BY <1>1, <1>2, <1>5 DEF S

\* The data of a node goes to no tool.
LEMMA ChildrenFresh ==
    ASSUME workflow \in Workflows, PlainAgents(workflow), PlanInv(Plan),
           NEW n \in Nodes, NEW run \in Nat, NEW output, AllFresh(workflow, stack)
    PROVE  AllFresh(workflow, AddChildren(n, run, output).stack)
<1> DEFINE to == Outgoing(n, output)
           C  == ConnectionsOf(n, output)
           children == Children(n, run, output)
<1>1. IsAdditions(children) /\ Len(children) = Cardinality(C)
    BY ChildrenType
<1>2. Cardinality(C) \in Nat /\ to \in [1..Cardinality(C) -> C] /\ C \subseteq workflow.connections
    BY OutgoingLists, ConnectionsType
<1>3. ASSUME NEW i \in 1..Len(children) PROVE Fresh(workflow, children[i].entry)
    <2>1. to[i] \in workflow.connections /\ i \in DOMAIN to
        BY <1>1, <1>2
    <2>2. to[i].to \notin ToolNodes(workflow)
        BY <2>1, ToolNode
    <2>3. children[i].entry = Entry(to[i].to, <<Datum(n, run, to[i].output)>>)
        BY <2>1 DEF Children
    <2> QED BY <2>2, <2>3, EntryFresh
<1>4. AddChildren(n, run, output) = AddAll(children)
    BY DEF AddChildren, Children
<1> HIDE DEF children
<1> QED BY <1>1, <1>3, <1>4, AddAllFresh

\* And none comes from a tool.
LEMMA ToolAddsNothing ==
    ASSUME workflow \in Workflows, PlainAgents(workflow), PlanInv(Plan),
           NEW n \in Nodes, NEW run \in Nat, NEW output, n \in ToolNodes(workflow)
    PROVE  AddChildren(n, run, output) = Plan
<1> DEFINE C  == ConnectionsOf(n, output)
           children == Children(n, run, output)
<1>1. IsAdditions(children) /\ Len(children) = Cardinality(C)
    BY ChildrenType
<1>2. C = {}
    BY ToolNode DEF ConnectionsOf
<1>3. Len(children) = 0
    BY <1>1, <1>2, FS_EmptySet
<1>4. PICK added : /\ IsAdded(added, children, Len(children))
                   /\ AddAll(children) = added[Len(children)]
    BY <1>1, AddAllIsLast DEF IsAdditions
<1>5. AddChildren(n, run, output) = AddAll(children)
    BY DEF AddChildren, Children
<1> HIDE DEF children
<1> QED BY <1>3, <1>4, <1>5 DEF IsAdded

\* What is known while a node is executed.
LEMMA OnNode ==
    ASSUME TypeInv, AgentInv, PlainAgents(workflow), pc = "node"
    PROVE  /\ Shaped(workflow, Work)
           /\ Fine(workflow, Work, runData, FALSE, lastNodeExecuted)
           /\ waitTill = FALSE
           /\ ~IsTool(workflow, current) => /\ AllFresh(workflow, stack)
                                            /\ current.run = Len(runData[current.node])
           /\ current.run <= Len(runData[current.node])
           /\ current.node \in workflow.mayWait =>
                current.run \in {Len(runData[current.node]) - 1, Len(runData[current.node])}
<1> DEFINE s == Work
           w == workflow
           last == lastNodeExecuted
<1>1. waitTill = FALSE
    BY DEF TypeInv, WaitInv, StatusInv, Done
<1>2. /\ s \in Seq(Entries) /\ s # <<>> /\ s[1] = current /\ Tail(s) = stack
      /\ current.node \in Nodes /\ current.run \in Nat /\ Len(s) = Len(stack) + 1
    BY WorkOnNode
<1>3. Shaped(w, s) /\ Fine(w, s, runData, FALSE, last)
    BY <1>1 DEF AgentInv, Alive, Sound, Done
<1>4. 1 \in 1..Len(s)
    BY <1>2, EmptySeq
<1>5. Len(runData[current.node]) \in Nat
    BY <1>2, RunsLength DEF TypeInv
<1> HIDE DEF s, w, last
<1>6. ~IsTool(w, current) => AllFresh(w, stack)
    BY <1>2, <1>3, FirstOf
<1>7. ~IsTool(w, current) => current.run = Len(runData[current.node])
    <2>1. Own(w, s, runData, FALSE)
        BY <1>3 DEF Fine
    <2> QED BY <1>2, <1>4, <2>1 DEF Own
<1>8. IsTool(w, current) =>
        IF current.node \in w.mayWait
        THEN current.run \in {Len(runData[current.node]) - 1, Len(runData[current.node])}
        ELSE current.run < Len(runData[current.node])
    <2>1. Bounds(w, s, runData)
        BY <1>3 DEF Fine
    <2> QED BY <1>2, <1>4, <2>1 DEF Bounds
<1>9. current.run <= Len(runData[current.node])
    BY <1>2, <1>5, <1>7, <1>8
<1> QED BY <1>1, <1>3, <1>6, <1>7, <1>8, <1>9 DEF s, w, last

\* The run data after a run, from the state.
LEMMA RecordedIs ==
    ASSUME NEW taskData
    PROVE  Recorded(taskData) = RecordedAt(runData, current.node, current.run, taskData)
BY DEF Recorded, RecordedAt

\* What the stack is then: a tool adds nothing, and others no tool.
LEMMA GoOnStack ==
    ASSUME TypeInv, AgentInv, PlainAgents(workflow), pc = "node",
           NEW taskStatus, NEW output, GoOn(taskStatus, output)
    PROVE  /\ ~IsTool(workflow, current) => AllFresh(workflow, stack')
           /\ IsTool(workflow, current) => stack' = stack /\ pc' = "after"
<1>1. /\ current.node \in Nodes /\ current.run \in Nat /\ workflow \in Workflows /\ PlanInv(Plan)
    BY OnNode, WorkOnNode, PlanIsWellFormed DEF TypeInv, CurrentInv
<1>2. ASSUME ~IsTool(workflow, current) PROVE AllFresh(workflow, stack')
    <2>1. AllFresh(workflow, stack)
        BY <1>2, OnNode
    <2>2. CASE current.node \in workflow.destination
        <3>1. stack' = stack
            BY <2>2 DEF GoOn
        <3> QED BY <2>1, <3>1
    <2>3. CASE current.node \notin workflow.destination
        <3>1. stack' = AddChildren(current.node, current.run, output).stack
            BY <2>3 DEF GoOn, SetPlan
        <3> QED BY <1>1, <2>1, <3>1, ChildrenFresh
    <2> QED BY <2>2, <2>3
<1>3. ASSUME IsTool(workflow, current) PROVE stack' = stack /\ pc' = "after"
    <2>1. workflow.destination = {} /\ current.node \in ToolNodes(workflow)
        BY <1>1, <1>3, ToolNode DEF IsTool
    <2>2. stack' = AddChildren(current.node, current.run, output).stack /\ pc' = "after"
        BY <2>1 DEF GoOn, SetPlan
    <2>3. AddChildren(current.node, current.run, output) = Plan
        BY <1>1, <2>1, ToolAddsNothing
    <2> QED BY <2>2, <2>3 DEF Plan
<1> QED BY <1>2, <1>3

\* A node has run and the data goes on.
LEMMA AgentGoesOn ==
    ASSUME TypeInv, AgentInv, PlainAgents(workflow), pc = "node", TypeInv',
           NEW taskStatus \in {"success", "error"}, NEW output, output \subseteq Indexes,
           GoOn(taskStatus, output)
    PROVE  AgentInv'
<1>1. /\ runData' = Recorded(TaskData(taskStatus, output)) /\ lastNodeExecuted' = {current.node}
      /\ pc' \in {"after", "after:destination"}
      /\ UNCHANGED <<workflow, waitTill>>
    BY DEF GoOn
<1>2. /\ current.node \in Nodes /\ current.run \in Nat /\ workflow \in Workflows
      /\ waitTill = FALSE /\ PlanInv(Plan)
    BY OnNode, WorkOnNode, PlanIsWellFormed DEF TypeInv, CurrentInv
<1>3. stack' \in Seq(Entries)
    BY WorkOnNode, WorkType, <1>1 DEF TypeInv, StackInv, Fed, First
<1>4. CASE ~IsTool(workflow, current)
    BY <1>1, <1>2, <1>3, <1>4, GoOnStack, FreshKeeps
<1>5. CASE IsTool(workflow, current)
    <2>1. stack' = stack /\ pc' = "after"
        BY <1>5, GoOnStack
    <2> DEFINE s == Work
               w == workflow
               last == lastNodeExecuted
               taskData == TaskData(taskStatus, output)
               last2 == lastNodeExecuted'
    <2>5. /\ s \in Seq(Entries) /\ s # <<>> /\ s[1] = current /\ Tail(s) = stack
          /\ Shaped(w, s) /\ Fine(w, s, runData, FALSE, last)
        BY OnNode, WorkOnNode
    <2>6. taskData \in TaskDatas /\ taskData.status \in {"success", "error"}
        BY DEF TaskData, TaskDatas
    <2>7. runData \in RunDatas
        BY DEF RunDatas, TypeInv, RunsInv
    <2>8. runData' = RecordedAt(runData, current.node, current.run, taskData)
        BY <1>1, RecordedIs
    <2> HIDE DEF s, w, last, last2, taskData
    <2>9. IsTool(w, s[1])
        BY <1>5, <2>5 DEF w
    <2>10. Shaped(w, stack)
        BY <2>5, <2>9, TailShaped
    <2>11. Fine(w, stack, runData', FALSE, last2)
        <3>1. Fine(w, Tail(s), RecordedAt(runData, s[1].node, s[1].run, taskData), FALSE, last2)
            BY <2>5, <2>6, <2>7, <2>9, ToolEnds
        <3> QED BY <2>5, <2>8, <3>1
    <2>12. Work' = stack /\ workflow' = w /\ waitTill' = FALSE
        BY <1>1, <1>2, <2>1 DEF Work, w
    <2> QED BY <2>1, <2>10, <2>11, <2>12 DEF AgentInv, last2
<1> QED BY <1>4, <1>5

\* A node has ended with an output or null, or has failed.
LEMMA AgentNodeEnds ==
    ASSUME TypeInv, AgentInv, PlainAgents(workflow), TypeInv',
           \/ \E output \in SUBSET Outputs : NodeSucceeds(output)
           \/ NodeReturnsNull \/ NodeFails
    PROVE  AgentInv'
<1>0. workflow \in Workflows /\ Outputs \subseteq Indexes /\ PassedOn \subseteq Indexes
    BY OutputsType DEF TypeInv
<1>1. CASE \E output \in SUBSET Outputs : NodeSucceeds(output)
    <2>1. PICK output \in SUBSET Outputs : NodeSucceeds(output)
        BY <1>1
    <2>2. pc = "node" /\ GoOn("success", output) /\ output \subseteq Indexes
        BY <1>0, <2>1 DEF NodeSucceeds
    <2> QED BY <2>2, AgentGoesOn
<1>2. CASE NodeReturnsNull
    <2>1. /\ pc = "node" /\ pc' = "loop" /\ current.node \in workflow.mayReturnNull
          /\ UNCHANGED <<workflow, stack, waitTill>>
        BY <1>2 DEF NodeReturnsNull
    <2>2. ~IsTool(workflow, current)
        BY <1>0, <2>1, ToolNode DEF IsTool
    <2>3. AllFresh(workflow, stack) /\ waitTill = FALSE
        BY <2>1, <2>2, OnNode
    <2>4. stack \in Seq(Entries)
        BY WorkType
    <2> QED BY <2>1, <2>3, <2>4, FreshKeeps
<1>3. CASE NodeFails /\ current.node \in workflow.continueOnFail
    <2>1. pc = "node" /\ GoOn("error", PassedOn)
        BY <1>3 DEF NodeFails
    <2> QED BY <1>0, <2>1, AgentGoesOn
<1>4. CASE NodeFails /\ current.node \notin workflow.continueOnFail
    <2>1. /\ pc = "node" /\ stack' = <<current>> \o stack /\ executionError' = TRUE
          /\ pc' \in {"stop", "after:failed"} /\ UNCHANGED workflow
        BY <1>4 DEF NodeFails
    <2>2. Work' = Work /\ ~Sound'
        BY <2>1 DEF Work, Sound
    <2>3. Shaped(workflow, Work)
        BY <2>1, OnNode
    <2> QED BY <2>1, <2>2, <2>3 DEF AgentInv
<1> QED BY <1>1, <1>2, <1>3, <1>4

\* A node puts the execution to wait.
LEMMA AgentWaits ==
    ASSUME TypeInv, AgentInv, PlainAgents(workflow), NodeWaits
    PROVE  AgentInv'
<1> DEFINE s == Work
           w == workflow
           n == current.node
           last == lastNodeExecuted
           last2 == lastNodeExecuted'
           taskData == TaskData("waiting", {})
<1>1. /\ pc = "node" /\ pc' = "after:waiting" /\ n \in w.mayWait
      /\ waitTill' = TRUE /\ last2 = {n}
      /\ runData' = RecordedAt(runData, n, current.run, taskData)
      /\ UNCHANGED <<workflow, stack, current>>
    BY RecordedIs DEF NodeWaits
<1>2. Work' = s /\ workflow' = w
    BY <1>1 DEF Work
<1>3. /\ s \in Seq(Entries) /\ s # <<>> /\ s[1] = current
      /\ n \in Nodes /\ current.run \in Nat
      /\ Shaped(w, s) /\ Fine(w, s, runData, FALSE, last)
      /\ current.run <= Len(runData[n])
      /\ current.run \in {Len(runData[n]) - 1, Len(runData[n])}
    BY <1>1, OnNode, WorkOnNode
<1>4. runData \in RunDatas /\ taskData \in TaskDatas /\ Len(runData[n]) \in Nat
    <2>1. runData \in RunDatas
        BY DEF RunDatas, TypeInv, RunsInv
    <2> QED BY <1>3, <2>1, RunDatasLength DEF TaskData, TaskDatas
<1> DEFINE after == runData'
           old == runData
           run == current.run
<1>a. /\ after = RecordedAt(old, n, run, taskData)
      /\ old \in RunDatas /\ n \in Nodes /\ run \in Nat /\ run <= Len(old[n]) /\ taskData \in TaskDatas
    BY <1>1, <1>3, <1>4
<1> HIDE DEF s, w, n, last, last2, taskData, after, old, run
<1>b. /\ after \in RunDatas
      /\ \A m \in Nodes \ {n} : after[m] = old[m]
      /\ Len(after[n]) = IF run < Len(old[n]) THEN Len(old[n]) ELSE run + 1
      /\ \A i \in 1..Len(old[n]) : i # run + 1 =>
            i \in 1..Len(after[n]) /\ after[n][i] = old[n][i]
    BY <1>a, RecordedAtType
<1>5. /\ after \in RunDatas
      /\ \A m \in Nodes \ {n} : after[m] = runData[m]
      /\ Len(after[n]) = IF current.run < Len(runData[n]) THEN Len(runData[n])
                         ELSE current.run + 1
      /\ \A i \in 1..Len(runData[n]) : i # current.run + 1 =>
            i \in 1..Len(after[n]) /\ after[n][i] = runData[n][i]
    BY <1>b DEF old, run
<1>6. current.run + 1 = Len(after[n]) /\ current.run # -1
    BY <1>3, <1>4, <1>5
<1>7. s[1].node = n
    BY <1>3 DEF n
<1>8. \A i \in 1..Len(s) : Alike(s[i], s[i])
    BY DEF Alike
<1>9. /\ s[1].node \in w.mayWait /\ s[1].run # -1 /\ old \in RunDatas
      /\ OthersKept(old, after, s[1].node, s[1].run)
      /\ TopWaits(TRUE, last2, s[1].node, s[1].run, after)
      /\ AllAlike(s, s) /\ Fine(w, s, old, FALSE, last)
    BY <1>1, <1>3, <1>4, <1>5, <1>6, <1>7, <1>8 DEF OthersKept, TopWaits, AllAlike, old
<1>10. Fine(w, s, after, TRUE, last2)
    BY <1>3, <1>5, <1>9, TopChanged
<1> QED BY <1>1, <1>2, <1>3, <1>10 DEF AgentInv, last2, after

\* Another engine goes on with an execution that waits.
LEMMA AgentResumes ==
    ASSUME TypeInv, AgentInv, PlainAgents(workflow), Resume
    PROVE  AgentInv'
<1> DEFINE s == stack
           t == stack'
           w == workflow
           n == stack[1].node
           last == lastNodeExecuted
           last2 == lastNodeExecuted'
           runs == runData
           after == runData'
<1>1. /\ pc = "ended" /\ status = "waiting" /\ pc' = "setup" /\ waitTill' = FALSE
      /\ t = [s EXCEPT ![1].disabled = TRUE] /\ after = RunDataWithoutLast
      /\ UNCHANGED <<workflow, lastNodeExecuted>>
    BY DEF Resume
<1>2. waitTill = TRUE
    BY <1>1 DEF TypeInv, WaitInv, Done
<1>3. Shaped(w, s) /\ Fine(w, s, runs, TRUE, last)
    BY <1>1, <1>2 DEF AgentInv, Alive, Sound, Work
<1>4. s \in Seq(Entries) /\ runs \in RunDatas
    BY WorkType DEF RunDatas, TypeInv, RunsInv
<1>5. Work' = t /\ workflow' = w
    BY <1>1 DEF Work
<1> HIDE DEF s, w, last, last2, runs
<1>6. /\ s # <<>> /\ last = {n} /\ n \in w.mayWait /\ s[1].run # -1
      /\ s[1].run + 1 = Len(runs[n])
    BY <1>3 DEF Fine, WaitsOnTop, s
<1>7. 1 \in 1..Len(s)
    BY <1>4, <1>6, EmptySeq
<1>8. n \in Nodes /\ s[1].run \in Nat
    BY <1>4, <1>6, <1>7, EntryFields DEF s
<1>9. runs[n] \in Seq(TaskDatas) /\ runs[n] # <<>> /\ Len(runs[n]) \in Nat
    <2>1. runs[n] \in Seq(TaskDatas) /\ Len(runs[n]) \in Nat
        BY <1>4, <1>8, RunDatasLength
    <2> QED BY <1>6, <1>8, <2>1, EmptySeq
<1> DEFINE f == Front(runs[n])
<1>10. /\ f \in Seq(TaskDatas) /\ Len(f) = Len(runs[n]) - 1
       /\ \A i \in 1..(Len(runs[n]) - 1) : f[i] = runs[n][i]
    <2> DEFINE r == runs[n]
    <2>1. r \in Seq(TaskDatas) /\ r # <<>> /\ Len(r) \in Nat /\ Len(r) > 0
        BY <1>9, EmptySeq
    <2> HIDE DEF r
    <2>2. Front(r) = [i \in 1..(Len(r) - 1) |-> r[i]]
        BY <2>1 DEF Front
    <2> QED BY <2>1, <2>2 DEF r
<1>11. after = [m \in Nodes |-> IF m = n THEN f ELSE runs[m]]
    BY <1>1, <1>6 DEF RunDataWithoutLast, last, runs
<1> HIDE DEF n, f, after, t
<1>12. /\ after \in RunDatas /\ \A m \in Nodes \ {n} : after[m] = runs[m]
       /\ after[n] = f /\ s[1].run = Len(after[n])
       /\ \A i \in 1..Len(runs[n]) : i # s[1].run + 1 =>
             i \in 1..Len(after[n]) /\ after[n][i] = runs[n][i]
    <2>1. \A m \in Nodes : runs[m] \in Seq(TaskDatas)
        BY <1>4, RunDatasLength
    <2>2. after \in RunDatas /\ after[n] = f /\ \A m \in Nodes \ {n} : after[m] = runs[m]
        BY <1>8, <1>10, <1>11, <2>1 DEF RunDatas
    <2>3. s[1].run = Len(f)
        BY <1>6, <1>8, <1>9, <1>10
    <2>4. \A i \in 1..Len(runs[n]) : i # s[1].run + 1 => i \in 1..(Len(runs[n]) - 1)
        BY <1>6, <1>8, <1>9
    <2> QED BY <1>10, <2>2, <2>3, <2>4
<1>13. t \in Seq(Entries) /\ Len(t) = Len(s) /\ \A i \in 1..Len(s) : Alike(s[i], t[i])
    <2> DEFINE e == [s[1] EXCEPT !.disabled = TRUE]
    <2>1. s[1] \in Entries
        BY <1>4, <1>7
    <2>2. e \in Entries /\ Alike(s[1], e)
        BY <2>1 DEF Entries, Alike
    <2>3. t = [s EXCEPT ![1] = e]
        BY <1>1 DEF s, t
    <2> HIDE DEF e
    <2>4. t \in Seq(Entries) /\ Len(t) = Len(s) /\ t[1] = e /\ \A i \in 1..Len(s) : i # 1 => t[i] = s[i]
        BY <1>4, <1>7, <2>2, <2>3, ExceptSeq
    <2>5. \A i \in 1..Len(s) : Alike(s[i], s[i])
        BY DEF Alike
    <2> QED BY <2>2, <2>4, <2>5
<1>14. s[1].node = n
    BY DEF n, s
<1>15. Fine(w, t, after, FALSE, last2)
    <2>1. /\ s[1].node \in w.mayWait /\ AllAlike(s, t)
          /\ OthersKept(runs, after, s[1].node, s[1].run)
          /\ TopWaits(FALSE, last2, s[1].node, s[1].run, after)
        BY <1>6, <1>12, <1>13, <1>14 DEF OthersKept, TopWaits, AllAlike
    <2> QED BY <1>3, <1>4, <1>6, <1>12, <1>13, <2>1, TopChanged
<1>16. Shaped(w, t)
    <2>1. t[1].node = s[1].node /\ t[1].requests = s[1].requests /\ t[1].run = s[1].run
        BY <1>7, <1>13 DEF Alike
    <2>2. \A i \in 2..Len(t) : t[i] = s[i]
        BY <1>1, <1>4, <1>7, <1>13 DEF s, t
    <2>3. t[1].node \in w.mayWait
        BY <1>6, <1>14, <2>1
    <2>4. Len(t) = Len(s)
        BY <1>13
    <2> QED BY <1>3, <1>4, <1>6, <1>13, <2>1, <2>2, <2>3, <2>4, FirstShaped
<1> QED BY <1>1, <1>5, <1>15, <1>16 DEF AgentInv, last2, after, t

\* Nor has a node been begun that is run without data that is missing.
LEMMA WaitingFresh ==
    ASSUME TypeInv, PlainAgents(workflow), AfterNode, stack = <<>>, NextWaiting # {}
    PROVE  stack' \in Seq(Entries) /\ AllFresh(workflow, stack')
<1>1. PICK n \in NextWaiting : SetPlan(RunWaiting(n))
    BY DEF AfterNode
<1>2. n \in Range(waitingNodes) /\ n \in Nodes /\ workflow \in Workflows
    BY NextWaitingType DEF TypeInv
<1>3. PlanInv(Plan) /\ stack \in Seq(Fed)
    BY PlanIsWellFormed, EmptySeq DEF TypeInv
<1>4. PICK data \in Seq(Data) : data # <<>> /\ RunWaiting(n).stack = Append(stack, Entry(n, data))
    BY <1>2, <1>3, RunWaitingKeeps
<1>5. numberOfInputs(n) > 1
    BY <1>2, <1>3, RunWaitingKeeps
<1>6. n \notin ToolNodes(workflow)
    BY <1>2, <1>5, ToolInputs
<1>7. Entry(n, data) \in Fed /\ Fresh(workflow, Entry(n, data))
    BY <1>2, <1>4, <1>6, EntryType, EntryFresh
<1>8. AllFresh(workflow, stack)
    BY DEF AllFresh
<1>9. stack' = Append(stack, Entry(n, data))
    BY <1>1, <1>4 DEF SetPlan
<1>10. AllFresh(workflow, stack')
    BY <1>3, <1>7, <1>8, <1>9, FreshOnTop
<1>11. stack' \in Seq(Entries)
    BY <1>3, <1>7, <1>9 DEF Fed
<1> QED BY <1>10, <1>11

\* A node is skipped, or a node that waits is run without data that is missing.
LEMMA AgentMoves ==
    ASSUME TypeInv, AgentInv, PlainAgents(workflow), TypeInv', SkipNode \/ AfterNode
    PROVE  AgentInv'
<1>0. workflow \in Workflows /\ waitTill = FALSE
    <2>1. pc \in {"loop", "after"}
        BY DEF SkipNode, AfterNode
    <2> QED BY <2>1 DEF TypeInv, WaitInv, StatusInv, Done
<1>1. CASE SkipNode
    <2>1. /\ pc = "loop" /\ stack # <<>> /\ Head(stack).node \notin runNodeFilter
          /\ stack' = Tail(stack)
          /\ UNCHANGED <<pc, workflow, waitTill>>
        BY <1>1 DEF SkipNode
    <2>2. stack \in Seq(Entries) /\ Head(stack) = stack[1] /\ Head(stack).node \in Nodes
            /\ Tail(stack) \in Seq(Entries)
        <3>1. stack \in Seq(Entries)
            BY WorkType
        <3>2. Head(stack) \in Entries /\ Head(stack) = stack[1] /\ Tail(stack) \in Seq(Entries)
            BY <2>1, <3>1, HeadTailProperties
        <3> QED BY <3>1, <3>2 DEF Entries
    <2>3. workflow.destination # {}
        BY <2>1, <2>2 DEF runNodeFilter
    <2>4. ~IsTool(workflow, stack[1])
        BY <1>0, <2>3, ToolNode DEF IsTool
    <2>5. Shaped(workflow, stack)
        BY <2>1 DEF AgentInv, Alive, Done, Work
    <2>6. AllFresh(workflow, Tail(stack))
        BY <2>1, <2>2, <2>4, <2>5, FirstOf
    <2> QED BY <1>0, <2>1, <2>2, <2>6, FreshKeeps
<1>2. CASE AfterNode /\ stack = <<>> /\ NextWaiting # {}
    <2>1. /\ pc = "after" /\ pc' = "loop"
          /\ UNCHANGED <<workflow, runData, lastNodeExecuted, waitTill>>
        BY <1>2 DEF AfterNode
    <2> QED BY <1>0, <1>2, <2>1, WaitingFresh, FreshKeeps
<1>3. CASE AfterNode /\ ~(stack = <<>> /\ NextWaiting # {})
    <2>1. /\ pc = "after" /\ pc' = "loop"
          /\ UNCHANGED <<workflow, stack, runData, lastNodeExecuted, waitTill>>
        BY <1>3 DEF AfterNode
    <2>2. Work' = Work
        BY <2>1 DEF Work
    <2> QED BY <2>1, <2>2 DEF AgentInv, Alive, Sound, Done
<1> QED BY <1>1, <1>2, <1>3

\* What is known of the entries that an agent asks for.
LEMMA RequestEntries ==
    ASSUME TypeInv, pc = "node"
    PROVE  /\ AgentEntry.node = current.node /\ AgentEntry.run = current.run
           /\ AgentEntry.tools = Runs /\ AgentEntry.requests > 0
        /\ AgentEntry.disabled = current.disabled
           /\ \A l \in 1..Len(Tools) :
                /\ ToolEntry(l).node = Tools[l] /\ ToolEntry(l).requests = 0
                /\ ToolEntry(l).run = Len(runData[Tools[l]]) + Count(Tools, l - 1, Tools[l])
                /\ Runs[l] = <<ToolEntry(l).node, ToolEntry(l).run>>
<1>1. current \in Entries
    BY DEF TypeInv, CurrentInv
<1>2. AgentEntry.node = current.node /\ AgentEntry.run = current.run
        /\ AgentEntry.tools = Runs /\ AgentEntry.requests > 0
        /\ AgentEntry.disabled = current.disabled
    <2>1. current.requests \in Nat
        BY <1>1, BoundsAssumption DEF Entries
    <2> QED BY <1>1, <2>1 DEF AgentEntry, Entries
<1>3. ASSUME NEW l \in 1..Len(Tools)
      PROVE  /\ ToolEntry(l).node = Tools[l] /\ ToolEntry(l).requests = 0
             /\ ToolEntry(l).run = Len(runData[Tools[l]]) + Count(Tools, l - 1, Tools[l])
             /\ Runs[l] = <<ToolEntry(l).node, ToolEntry(l).run>>
    <2>1. l \in DOMAIN Tools
        BY ToolsType
    <2>2. Runs[l] = <<Tools[l], Len(runData[Tools[l]]) + Count(Tools, l - 1, Tools[l])>>
        BY <2>1 DEF Runs, Count
    <2>3. ToolEntry(l) = [Entry(Runs[l][1], <<Datum(current.node, current.run, 0)>>)
                            EXCEPT !.run = Runs[l][2]]
        BY DEF ToolEntry
    <2>4. ToolEntry(l).node = Runs[l][1] /\ ToolEntry(l).requests = 0 /\ ToolEntry(l).run = Runs[l][2]
        BY <2>3 DEF Entry
    <2> QED BY <2>2, <2>4
<1> QED BY <1>2, <1>3

\* What the stack is then: the tools, the last one first, the agent, and what was there.
LEMMA RequestsOnStack ==
    ASSUME TypeInv, PlainAgents(workflow), NodeRequests, current.data[1] # Initial
    PROVE  /\ AgentEntry \in Fed /\ stack' \in Seq(Fed)
           /\ Stacked(stack', Len(Tools), AgentEntry, stack)
           /\ \A i \in 1..Len(Tools) :
                stack'[i] = ToolEntry((Len(Tools) + 1) - i) /\ (Len(Tools) + 1) - i \in 1..Len(Tools)
           /\ waiting' = waiting
<1>1. /\ pc = "node" /\ Tools # <<>> /\ ~current.disabled /\ current.requests < MaxRequests
    BY DEF NodeRequests, Tools
<1>2. /\ current.node \in Nodes /\ current.run \in Nat /\ workflow \in Workflows
      /\ PlanInv(Plan) /\ stack \in Seq(Entries)
    BY <1>1, WorkOnNode, WorkType, PlanIsWellFormed DEF TypeInv, CurrentInv
<1> DEFINE m     == Len(Tools)
           s     == AddAll(Requests).stack
           agent == AgentEntry
           runs  == runData
<1>3. stack' = s /\ waiting' = AddAll(Requests).waiting
    BY RequestsStep DEF SetPlan
<1>4. /\ IsAdditions(Requests) /\ Len(Requests) = m + 1
      /\ Requests[1].entry = agent
      /\ \A i \in 1..m : Requests[i + 1].entry = ToolEntry(i)
      /\ agent \in Fed
    BY <1>1, RequestsType
<1>5. m \in Nat /\ Tools \in Seq(Nodes)
    BY ToolsType
<1>6. /\ agent.node = current.node /\ agent.run = current.run
      /\ agent.tools = Runs /\ agent.requests > 0 /\ ~agent.disabled
      /\ \A l \in 1..m :
            /\ ToolEntry(l).node = Tools[l] /\ ToolEntry(l).requests = 0
            /\ ToolEntry(l).run = Len(runs[Tools[l]]) + Count(Tools, l - 1, Tools[l])
            /\ Runs[l] = <<ToolEntry(l).node, ToolEntry(l).run>>
    BY <1>1, RequestEntries
<1>7. ~(numberOfInputs(current.node) > 1)
    <2>1. \A c \in workflow.connections : c.to = current.node => c.input = 0
        BY <1>1, <1>2 DEF PlainAgents, Tools
    <2> QED BY <1>2, <2>1, SingleInput
<1>8. ASSUME NEW l \in 1..m PROVE Tools[l] \in ToolNodes(workflow)
    <2>1. Tools[l] \in Range(Tools)
        BY <1>5 DEF Range
    <2> QED BY <1>2, <2>1 DEF ToolNodes, Tools
<1> HIDE DEF m, s, agent, runs
<1>9. ASSUME NEW k \in 1..Len(Requests)
      PROVE  ~(numberOfInputs(Requests[k].entry.node) > 1)
    <2>1. CASE k = 1
        BY <1>4, <1>6, <1>7, <2>1
    <2>2. CASE k # 1
        <3>1. k - 1 \in 1..m /\ (k - 1) + 1 = k
            BY <1>4, <1>5, <2>2
        <3>2. Requests[k].entry.node = Tools[k - 1]
            BY <1>4, <1>6, <3>1
        <3>3. numberOfInputs(Tools[k - 1]) = 0
            BY <1>2, <1>8, <3>1, ToolInputs
        <3> QED BY <3>2, <3>3
    <2> QED BY <2>1, <2>2
<1>10. /\ s \in Seq(Fed) /\ Len(s) = (m + 1) + Len(stack)
       /\ \A i \in 1..(m + 1) : s[i] = Requests[((m + 1) + 1) - i].entry
       /\ \A i \in 1..Len(stack) : s[(m + 1) + i] = stack[i]
       /\ AddAll(Requests).waiting = waiting
    <2> DEFINE additions == Requests
    <2>1. /\ IsAdditions(additions) /\ Len(additions) = m + 1 /\ s = AddAll(additions).stack
          /\ \A k \in 1..Len(additions) : ~(numberOfInputs(additions[k].entry.node) > 1)
        BY <1>4, <1>9 DEF s
    <2> HIDE DEF additions
    <2>2. /\ AddAll(additions).stack \in Seq(Fed)
          /\ Len(AddAll(additions).stack) = Len(additions) + Len(stack)
          /\ \A i \in 1..Len(additions) :
                AddAll(additions).stack[i] = additions[(Len(additions) + 1) - i].entry
          /\ \A i \in 1..Len(stack) : AddAll(additions).stack[Len(additions) + i] = stack[i]
          /\ AddAll(additions).waiting = waiting
        BY <1>2, <2>1, AddAllStacks
    <2> QED BY <2>1, <2>2 DEF additions
<1>11. s[m + 1] = agent
    <2>1. m + 1 \in 1..(m + 1) /\ ((m + 1) + 1) - (m + 1) = 1
        BY <1>5
    <2> QED BY <1>4, <1>10, <2>1
<1>12. ASSUME NEW i \in 1..m PROVE s[i] = ToolEntry((m + 1) - i) /\ (m + 1) - i \in 1..m
    <2>1. i \in 1..(m + 1) /\ (m + 1) - i \in 1..m /\ ((m + 1) + 1) - i = ((m + 1) - i) + 1
        BY <1>5
    <2> QED BY <1>4, <1>10, <2>1
<1>13. Stacked(s, m, agent, stack)
    BY <1>10, <1>11 DEF Stacked
<1> QED BY <1>3, <1>4, <1>10, <1>12, <1>13 DEF agent, m

\* An agent asks for tools.
LEMMA AgentRequests ==
    ASSUME TypeInv, AgentInv, PlainAgents(workflow), NodeRequests
    PROVE  AgentInv'
<1>1. /\ pc = "node" /\ pc' = "loop" /\ Tools # <<>> /\ ~current.disabled /\ current.requests < MaxRequests
      /\ UNCHANGED <<workflow, lastNodeExecuted, waitTill>>
    BY DEF NodeRequests, Tools
<1>2. /\ current.node \in Nodes /\ current.run \in Nat /\ workflow \in Workflows
      /\ waitTill = FALSE /\ PlanInv(Plan) /\ stack \in Seq(Entries)
    BY <1>1, OnNode, WorkOnNode, WorkType, PlanIsWellFormed DEF TypeInv, CurrentInv
<1>3. ~IsTool(workflow, current)
    BY <1>1, <1>2, ToolNode DEF IsTool, Tools
<1>4. AllFresh(workflow, stack) /\ current.run = Len(runData[current.node])
    BY <1>1, <1>3, OnNode
<1>5. /\ runData' = [n \in Nodes |-> runData[n] \o
                        [i \in 1..Cardinality({j \in 1..Len(Tools) : Tools[j] = n}) |->
                            TaskData("requested", {})]]
      /\ SetPlan(IF current.data[1] = Initial THEN Plan ELSE AddAll(Requests))
    BY RequestsStep
<1>6. CASE current.data[1] = Initial
    <2>1. stack' = stack
        BY <1>5, <1>6 DEF SetPlan, Plan
    <2> QED BY <1>1, <1>2, <1>4, <2>1, FreshKeeps
<1>7. CASE current.data[1] # Initial
    <2> DEFINE m     == Len(Tools)
               s     == stack'
               agent == AgentEntry
               runs  == runData
    <2>1. /\ agent \in Fed /\ s \in Seq(Fed) /\ Stacked(s, m, agent, stack)
          /\ \A i \in 1..m : s[i] = ToolEntry((m + 1) - i) /\ (m + 1) - i \in 1..m
        BY <1>7, RequestsOnStack
    <2>3. m \in Nat /\ Tools \in Seq(Nodes)
        BY ToolsType
    <2>4. /\ agent.node = current.node /\ agent.run = current.run
          /\ agent.tools = Runs /\ agent.requests > 0 /\ ~agent.disabled
          /\ \A l \in 1..m :
                /\ ToolEntry(l).node = Tools[l] /\ ToolEntry(l).requests = 0
                /\ ToolEntry(l).run = Len(runs[Tools[l]]) + Count(Tools, l - 1, Tools[l])
                /\ Runs[l] = <<ToolEntry(l).node, ToolEntry(l).run>>
        BY <1>1, RequestEntries
    <2> HIDE DEF m, s, agent, runs
    <2>12. AsTools(s, m, Tools, runs)
        <3> SUFFICES ASSUME NEW i \in 1..m
                     PROVE  /\ s[i].node = Tools[(m + 1) - i] /\ s[i].requests = 0
                            /\ s[i].run = Len(runs[s[i].node])
                                    + Count(Tools, ((m + 1) - i) - 1, s[i].node)
            BY DEF AsTools
        <3> DEFINE l == (m + 1) - i
        <3>1. s[i] = ToolEntry(l) /\ l \in 1..m
            BY <2>1
        <3> HIDE DEF l
        <3>2. /\ s[i].node = Tools[l] /\ s[i].requests = 0
              /\ s[i].run = Len(runs[Tools[l]]) + Count(Tools, l - 1, Tools[l])
            BY <2>4, <3>1
        <3>3. s[i].run = Len(runs[s[i].node]) + Count(Tools, l - 1, s[i].node)
            BY <3>2
        <3> QED BY <3>2, <3>3 DEF l
    <2>13. \A x \in Range(agent.tools) : \E i \in 1..m : x = <<s[i].node, s[i].run>>
        <3> SUFFICES ASSUME NEW x \in Range(Runs)
                     PROVE  \E i \in 1..m : x = <<s[i].node, s[i].run>>
            BY <2>4
        <3>1. DOMAIN Runs = 1..m
            BY ToolsType DEF Runs, m
        <3>2. PICK l \in 1..m : x = Runs[l]
            BY <3>1 DEF Range
        <3> DEFINE i == (m + 1) - l
        <3>3. i \in 1..m /\ (m + 1) - i = l
            BY <2>3
        <3> HIDE DEF i
        <3>4. s[i] = ToolEntry(l)
            BY <2>1, <3>3
        <3>5. x = <<s[i].node, s[i].run>>
            BY <2>4, <3>2, <3>4
        <3> QED BY <3>3, <3>5
    <2> DEFINE last == lastNodeExecuted
               after == Requested(runs, Tools)
               w == workflow
    <2>14. /\ w \in Workflows /\ PlainAgents(w) /\ agent \in Entries /\ stack \in Seq(Entries)
           /\ s \in Seq(Entries) /\ runs \in RunDatas /\ AllFresh(w, stack)
           /\ Tools = w.tools[agent.node] /\ w.tools[agent.node] # <<>>
           /\ ~IsTool(w, agent) /\ agent.run \in Nat /\ agent.run = Len(runs[agent.node])
           /\ Len(Tools) = m
        <3>1. agent \in Entries /\ s \in Seq(Entries)
            BY <2>1 DEF Fed
        <3>2. runs \in RunDatas
            BY DEF runs, RunDatas, TypeInv, RunsInv
        <3>3. Tools = w.tools[agent.node] /\ w.tools[agent.node] # <<>> /\ Len(Tools) = m
            BY <1>1, <2>4 DEF Tools, m
        <3> QED BY <1>2, <1>3, <1>4, <2>4, <3>1, <3>2, <3>3 DEF IsTool, runs
    <2>15. runData' = after
        BY <1>5 DEF Requested, Count, runs
    <2> HIDE DEF last, after, w
    <2>16. Shaped(w, s) /\ Fine(w, s, after, FALSE, last)
        <3> DEFINE tools == Tools
        <3>1. /\ tools \in Seq(Nodes) /\ tools = w.tools[agent.node] /\ Len(tools) = m
              /\ AsTools(s, m, tools, runs) /\ after = Requested(runs, tools)
            BY <2>3, <2>12, <2>14 DEF after
        <3> HIDE DEF tools
        <3> QED BY <2>3, <2>4, <2>1, <2>13, <2>14, <3>1, RequestsFine
    <2>17. Work' = s /\ workflow' = w /\ waitTill' = FALSE /\ lastNodeExecuted' = last
        BY <1>1, <1>2 DEF Work, w, last, s
    <2> QED BY <1>1, <2>15, <2>16, <2>17 DEF AgentInv
<1> QED BY <1>6, <1>7

\* Every step keeps the invariant.
LEMMA AgentStep ==
    ASSUME TypeInv, AgentInv, PlainAgents(workflow), [Next]_vars
    PROVE  AgentInv'
<1>1. TypeInv'
    BY TypeStep
<1> QED BY <1>1, AgentKept, AgentStart, AgentNodeEnds, AgentWaits, AgentRequests, AgentMoves,
           AgentResumes DEF Next, EngineStep, NodeEnds

\* An agent goes on when each tool it has asked for has run, whatever its tools do:
\* fail, wait, be asked for again (handleRequest; handleEngineRequest puts the agent
\* below its tools). For workflows whose agents have one input and ask for nodes that
\* are nothing but tools.
THEOREM ToolsHaveRunHolds ==
    ASSUME \A w \in Workflows : PlainAgents(w)
    PROVE  Spec => []ToolsHaveRun
<1>1. TypeInv => PlainAgents(workflow)
    BY DEF TypeInv
<1>2. Init => TypeInv /\ AgentInv
    BY <1>1, TypeInit, AgentInit
<1>3. TypeInv /\ AgentInv /\ [Next]_vars => (TypeInv /\ AgentInv)'
    BY <1>1, TypeStep, AgentStep
<1>4. TypeInv /\ AgentInv => ToolsHaveRun
    <2> SUFFICES ASSUME TypeInv, AgentInv, pc = "node", current.requests > 0,
                        NEW t \in Range(current.tools)
                 PROVE  runData[t[1]][t[2] + 1].status \in {"success", "error"}
        BY DEF ToolsHaveRun
    <2>1. /\ Work \in Seq(Entries) /\ Work[1] = current /\ Work # <<>>
          /\ Answers(workflow, Work, runData)
        BY <1>1, WorkOnNode, OnNode DEF Fine
    <2>2. 1 \in 1..Len(Work)
        BY <2>1, EmptySeq
    <2>3. ToolDone(runData, t) \/ \E j \in 1..(1 - 1) : Work[j].node = t[1] /\ Work[j].run = t[2]
        BY <2>1, <2>2 DEF Answers
    <2> QED BY <2>3 DEF ToolDone
<1> QED BY <1>2, <1>3, <1>4, PTL DEF Spec
-----------------------------------------------------------------------------
(* The hooks of a node's start and end                                      *)

\* An agent does not put the execution to wait.
NoAgentWaits(w) == \A n \in Nodes : w.tools[n] # <<>> => n \notin w.mayWait

\* What HooksPaired says of the workflow.
AllAnnounced(w) == w.mayReturnNull = {} /\ w.tools[w.start] = <<>>

\* The runs on the stack that have begun and not ended, and those that have asked for
\* tools.
Pending(s, runs) ==
    {<<e.node, e.run>> : e \in {f \in Range(s) : f.requests > 0 /\ ~f.disabled
                                                    /\ f.run + 1 \notin DOMAIN runs[f.node]}}
Asking(s) == {<<s[i].node, s[i].run>> : i \in {j \in 1..Len(s) : s[j].requests > 0}}
Running == IF pc = "node" THEN {<<current.node, current.run>>} ELSE {}

\* Adding one more, or removing one, of a bag that is a set.
LEMMA BagOfSet ==
    ASSUME NEW S, NEW x
    PROVE  /\ x \notin S => SetToBag(S) (+) SetToBag({x}) = SetToBag(S \cup {x})
           /\ x \in S => SetToBag(S) (-) SetToBag({x}) = SetToBag(S \ {x})
<1>1. ASSUME x \notin S PROVE SetToBag(S) (+) SetToBag({x}) = SetToBag(S \cup {x})
    <2> DEFINE b == SetToBag(S) (+) SetToBag({x})
    <2>1. b = [e \in S \cup {x} |-> (IF e \in S THEN 1 ELSE 0) + (IF e \in {x} THEN 1 ELSE 0)]
        BY DEF SetToBag, (+)
    <2> QED BY <1>1, <2>1 DEF SetToBag
<1>2. ASSUME x \in S PROVE SetToBag(S) (-) SetToBag({x}) = SetToBag(S \ {x})
    <2> DEFINE b == SetToBag(S) (-) SetToBag({x})
               left == [e \in S |-> IF e \in {x} THEN 1 - 1 ELSE 1]
    <2>1. b = [e \in {d \in S : left[d] > 0} |-> left[e]]
        BY DEF SetToBag, (-)
    <2>2. {d \in S : left[d] > 0} = S \ {x}
        OBVIOUS
    <2> QED BY <1>2, <2>1, <2>2 DEF SetToBag
<1> QED BY <1>1, <1>2

\* What HooksPaired compares with.
LEMMA UnfinishedIs == {<<e.node, e.run>> : e \in Unfinished} = Pending(stack, runData) \cup Running
BY DEF Unfinished, Pending, Running

\* Who has asked for tools is an agent.
LEMMA AskingOne ==
    ASSUME NEW w, NEW s \in Seq(Entries), Shaped(w, s), NEW i \in 1..Len(s), s[i].requests > 0
    PROVE  Asked(w, s[i]) /\ ~IsTool(w, s[i])
<1>1. PICK k \in Nat : ShapeWith(w, s, k)
    BY DEF Shaped
<1>2. i \notin 1..k
    <2>1. \A j \in 1..k : s[j].requests = 0
        BY <1>1 DEF ShapeWith
    <2>2. ~(0 > 0)
        OBVIOUS
    <2> QED BY <2>1, <2>2
<1>3. i \notin (k + 2)..Len(s)
    <2>1. \A j \in (k + 2)..Len(s) : s[j].requests = 0
        BY <1>1 DEF ShapeWith, Fresh
    <2>2. ~(0 > 0)
        OBVIOUS
    <2> QED BY <2>1, <2>2
<1>4. i = k + 1 /\ k < Len(s)
    BY <1>2, <1>3
<1> QED BY <1>1, <1>4 DEF ShapeWith

\* What has asked for tools goes on later: its run was announced and has not ended.
LEMMA PendingIs ==
    ASSUME NEW w \in Workflows, NoAgentWaits(w), NEW s \in Seq(Entries), Shaped(w, s),
           NEW runs \in RunDatas, NEW waited, NEW last, Fine(w, s, runs, waited, last),
           NEW t \in Seq(Entries), \A i \in 1..Len(t) : \E j \in 1..Len(s) : t[i] = s[j]
    PROVE  Pending(t, runs) = Asking(t)
<1>1. ASSUME NEW i \in 1..Len(t), t[i].requests > 0
      PROVE  ~t[i].disabled /\ t[i].run + 1 \notin DOMAIN runs[t[i].node]
    <2>1. PICK j \in 1..Len(s) : t[i] = s[j]
        OBVIOUS
    <2>2. Asked(w, s[j]) /\ ~IsTool(w, s[j])
        BY <1>1, <2>1, AskingOne
    <2>3. s[j].node \in Nodes /\ Len(runs[s[j].node]) \in Nat
            /\ DOMAIN runs[s[j].node] = 1..Len(runs[s[j].node])
        <3>1. s[j].node \in Nodes
            BY EntryFields
        <3>2. runs[s[j].node] \in Seq(TaskDatas)
            BY <3>1, RunDatasLength
        <3> QED BY <3>1, <3>2
    <2>4. s[j].node \notin w.mayWait
        BY <2>2, <2>3 DEF Asked, NoAgentWaits
    <2>5. ~(waited /\ j = 1)
        BY <2>4 DEF Fine, WaitsOnTop
    <2>6. s[j].run = Len(runs[s[j].node])
        BY <2>2, <2>5 DEF Fine, Own, Asked
    <2>7. s[j].run + 1 \notin 1..Len(runs[s[j].node])
        BY <2>3, <2>6
    <2> QED BY <2>1, <2>2, <2>3, <2>4, <2>7 DEF Asked
<1>2. Range(t) = {t[i] : i \in 1..Len(t)}
    BY DEF Range
<1>3. ASSUME NEW x \in Pending(t, runs) PROVE x \in Asking(t)
    <2>1. PICK e \in Range(t) : e.requests > 0 /\ x = <<e.node, e.run>>
        BY DEF Pending
    <2> QED BY <1>2, <2>1 DEF Asking
<1>4. ASSUME NEW x \in Asking(t) PROVE x \in Pending(t, runs)
    <2>1. PICK i \in 1..Len(t) : t[i].requests > 0 /\ x = <<t[i].node, t[i].run>>
        BY DEF Asking
    <2>2. ~t[i].disabled /\ t[i].run + 1 \notin DOMAIN runs[t[i].node] /\ t[i] \in Range(t)
        BY <1>1, <1>2, <2>1
    <2> QED BY <2>1, <2>2 DEF Pending
<1> QED BY <1>3, <1>4

\* What has asked for tools, by the first entry and the others.
LEMMA AskingTop ==
    ASSUME NEW s \in Seq(Entries), s # <<>>
    PROVE  Asking(s) = Asking(Tail(s)) \cup
                (IF s[1].requests > 0 THEN {<<s[1].node, s[1].run>>} ELSE {})
<1> DEFINE t == Tail(s)
<1>1. Len(s) \in Nat /\ Len(s) > 0 /\ t \in Seq(Entries) /\ Len(t) = Len(s) - 1
        /\ \A i \in 1..(Len(s) - 1) : t[i] = s[i + 1]
    BY HeadTailProperties, EmptySeq
<1> HIDE DEF t
<1>2. ASSUME NEW i \in 1..Len(s), i # 1 PROVE i - 1 \in 1..Len(t) /\ t[i - 1] = s[i]
    <2>1. i - 1 \in 1..Len(t) /\ (i - 1) + 1 = i
        BY <1>1, <1>2
    <2> QED BY <1>1, <2>1
<1>3. ASSUME NEW i \in 1..Len(t) PROVE i + 1 \in 1..Len(s) /\ t[i] = s[i + 1]
    BY <1>1
<1>4. 1 \in 1..Len(s)
    BY <1>1
<1>5. ASSUME NEW x \in Asking(s)
      PROVE  x \in Asking(t) \/ (s[1].requests > 0 /\ x = <<s[1].node, s[1].run>>)
    <2>1. PICK i \in 1..Len(s) : s[i].requests > 0 /\ x = <<s[i].node, s[i].run>>
        BY <1>5 DEF Asking
    <2>2. CASE i = 1
        BY <2>1, <2>2
    <2>3. CASE i # 1
        BY <1>2, <2>1, <2>3 DEF Asking
    <2> QED BY <2>2, <2>3
<1>6. Asking(t) \subseteq Asking(s)
    BY <1>3 DEF Asking
<1>7. s[1].requests > 0 => <<s[1].node, s[1].run>> \in Asking(s)
    BY <1>4 DEF Asking
<1> QED BY <1>5, <1>6, <1>7 DEF t

\* Nothing that was not begun has asked for tools.
LEMMA AskingFresh ==
    ASSUME NEW w, NEW s, AllFresh(w, s)
    PROVE  Asking(s) = {}
<1>1. \A i \in 1..Len(s) : s[i].requests = 0
    BY DEF AllFresh, Fresh
<1>2. ~(0 > 0)
    OBVIOUS
<1> QED BY <1>1, <1>2 DEF Asking

\* The first entry is of another node than those below that have asked for tools.
LEMMA TopApart ==
    ASSUME NEW w, NEW s \in Seq(Entries), s # <<>>, Shaped(w, s), NEW x \in Asking(Tail(s))
    PROVE  IsTool(w, s[1]) /\ s[1].node # x[1] /\ x[1] \notin ToolNodes(w)
<1> DEFINE t == Tail(s)
<1>1. IsTool(w, s[1])
    <2> SUFFICES ASSUME ~IsTool(w, s[1]) PROVE FALSE
        OBVIOUS
    <2>1. AllFresh(w, t)
        BY FirstOf
    <2> QED BY <2>1, AskingFresh
<1>2. Shaped(w, t) /\ t \in Seq(Entries)
    BY <1>1, TailShaped, HeadTailProperties
<1>3. PICK i \in 1..Len(t) : t[i].requests > 0 /\ x = <<t[i].node, t[i].run>>
    BY DEF Asking
<1> HIDE DEF t
<1>4. ~IsTool(w, t[i])
    BY <1>2, <1>3, AskingOne
<1> QED BY <1>1, <1>3, <1>4 DEF IsTool

\* The item a workflow starts with is for its first node.
FirstInv ==
    \A e \in Range(stack) \cup {current} : e.data = <<Initial>> => e.node = workflow.start

\* The members of a sequence without its first, and with one more.
LEMMA RangeOf ==
    ASSUME NEW S, NEW s \in Seq(S), NEW e \in S
    PROVE  /\ s # <<>> => Range(Tail(s)) \subseteq Range(s) /\ Head(s) \in Range(s)
           /\ Range(<<e>> \o s) \subseteq Range(s) \cup {e}
<1>1. ASSUME s # <<>> PROVE Range(Tail(s)) \subseteq Range(s) /\ Head(s) \in Range(s)
    <2> DEFINE t == Tail(s)
    <2>1. /\ Len(s) \in Nat /\ Len(s) > 0 /\ t \in Seq(S) /\ Len(t) = Len(s) - 1
          /\ Head(s) = s[1] /\ \A i \in 1..(Len(s) - 1) : t[i] = s[i + 1]
        BY <1>1, HeadTailProperties, EmptySeq
    <2> HIDE DEF t
    <2>2. \A i \in 1..Len(t) : i + 1 \in 1..Len(s) /\ t[i] = s[i + 1]
        BY <2>1
    <2>3. 1 \in 1..Len(s)
        BY <2>1
    <2> QED BY <2>1, <2>2, <2>3 DEF Range, t
<1>2. Range(<<e>> \o s) \subseteq Range(s) \cup {e}
    <2> DEFINE t == <<e>> \o s
    <2>1. /\ Len(s) \in Nat /\ t \in Seq(S) /\ Len(t) = Len(s) + 1
          /\ t[1] = e /\ \A i \in 1..Len(s) : t[i + 1] = s[i]
        OBVIOUS
    <2> HIDE DEF t
    <2>2. ASSUME NEW i \in 1..Len(t) PROVE t[i] = e \/ \E j \in 1..Len(s) : t[i] = s[j]
        <3>1. CASE i = 1
            BY <2>1, <3>1
        <3>2. CASE i # 1
            <4>1. i - 1 \in 1..Len(s) /\ (i - 1) + 1 = i
                BY <2>1, <3>2
            <4> QED BY <2>1, <4>1
        <3> QED BY <3>1, <3>2
    <2> QED BY <2>1, <2>2 DEF Range, t
<1> QED BY <1>1, <1>2

\* What comes from runs does not begin a workflow.
LEMMA FedIsNotFirst ==
    ASSUME NEW e \in Fed
    PROVE  e.data # <<Initial>>
<1>1. e.data \in Seq(Data) /\ e.data # <<>>
    BY DEF Fed
<1>2. e.data[1] \in Data
    BY <1>1
<1>3. Initial \notin Data
    BY DataFacts
<1> QED BY <1>2, <1>3

\* A stack of what comes from runs.
LEMMA FirstFed ==
    ASSUME FirstInv, stack' \in Seq(Fed), UNCHANGED <<workflow, current>>
    PROVE  FirstInv'
<1> DEFINE s == stack'
<1>1. s \in Seq(Fed)
    OBVIOUS
<1> HIDE DEF s
<1>2. \A e \in Range(s) : e \in Fed
    BY <1>1 DEF Range
<1>3. \A e \in Range(s) : e.data # <<Initial>>
    BY <1>2, FedIsNotFirst
<1> QED BY <1>3 DEF FirstInv, s

\* A stack of entries that were there.
LEMMA FirstKept ==
    ASSUME FirstInv, UNCHANGED workflow,
           \A e \in Range(stack') \cup {current'} : \E f \in Range(stack) \cup {current} :
                e.node = f.node /\ e.data = f.data
    PROVE  FirstInv'
BY DEF FirstInv

\* Every step keeps this.
LEMMA FirstStep ==
    ASSUME TypeInv, FirstInv, [Next]_vars
    PROVE  FirstInv'
<1>0. stack \in Seq(Entries) /\ current \in Entries /\ workflow \in Workflows
    BY WorkType DEF TypeInv, CurrentInv
<1>1. CASE UNCHANGED <<workflow, stack, current>>
    BY <1>1 DEF FirstInv
<1>2. CASE StartNode
    <2>1. stack # <<>> /\ stack' = Tail(stack) /\ workflow' = workflow
            /\ \E run : current' = [Head(stack) EXCEPT !.run = run]
        BY <1>2 DEF StartNode
    <2>2. Head(stack) \in Entries /\ Head(stack) \in Range(stack) /\ Range(stack') \subseteq Range(stack)
        BY <1>0, <2>1, RangeOf, HeadTailProperties
    <2>3. current'.node = Head(stack).node /\ current'.data = Head(stack).data
        BY <2>1, <2>2 DEF Entries
    <2> QED BY <2>1, <2>2, <2>3, FirstKept
<1>3. CASE SkipNode
    <2>1. stack # <<>> /\ stack' = Tail(stack) /\ UNCHANGED <<workflow, current>>
        BY <1>3 DEF SkipNode
    <2>2. Range(stack') \subseteq Range(stack)
        BY <1>0, <2>1, RangeOf
    <2> QED BY <2>1, <2>2, FirstKept
<1>4. CASE stack' = <<current>> \o stack /\ UNCHANGED <<workflow, current>>
    <2>1. Range(stack') \subseteq Range(stack) \cup {current}
        BY <1>0, <1>4, RangeOf
    <2> QED BY <1>4, <2>1, FirstKept
<1>5. CASE Resume
    <2>1. stack # <<>> /\ stack' = [stack EXCEPT ![1].disabled = TRUE]
            /\ UNCHANGED <<workflow, current>>
        BY <1>5 DEF Resume, TypeInv, WaitInv, Done
    <2>2. 1 \in 1..Len(stack) /\ stack[1] \in Entries
        BY <1>0, <2>1, EmptySeq
    <2> DEFINE f == [stack[1] EXCEPT !.disabled = TRUE]
               t == stack'
    <2>3. f.node = stack[1].node /\ f.data = stack[1].data /\ f \in Entries /\ t = [stack EXCEPT ![1] = f]
        BY <2>1, <2>2 DEF Entries
    <2> HIDE DEF f, t
    <2>4. Len(t) = Len(stack) /\ t \in Seq(Entries) /\ t[1] = f
            /\ \A i \in 1..Len(stack) : i # 1 => t[i] = stack[i]
        BY <1>0, <2>2, <2>3, ExceptSeq
    <2>5. \A i \in 1..Len(stack) : t[i].node = stack[i].node /\ t[i].data = stack[i].data
        BY <2>3, <2>4
    <2>6. ASSUME NEW e \in Range(t)
          PROVE  \E g \in Range(stack) : e.node = g.node /\ e.data = g.data
        <3>1. PICK i \in 1..Len(t) : e = t[i]
            BY <2>4 DEF Range
        <3>2. stack[i] \in Range(stack)
            BY <1>0, <2>4 DEF Range
        <3> QED BY <2>4, <2>5, <3>1, <3>2
    <2> QED BY <2>1, <2>6, FirstKept DEF t
<1>6. CASE AfterNode /\ stack = <<>> /\ NextWaiting # {}
    <2>1. PICK n \in NextWaiting : SetPlan(RunWaiting(n))
        BY <1>6 DEF AfterNode
    <2>2. n \in Range(waitingNodes) /\ n \in Nodes /\ PlanInv(Plan)
        BY <1>6, NextWaitingType, PlanIsWellFormed, EmptySeq DEF TypeInv
    <2>3. UNCHANGED <<workflow, current>>
        BY <1>6 DEF AfterNode
    <2>4. PlanInv(RunWaiting(n))
        BY <1>0, <2>2, RunWaitingKeeps
    <2>5. stack' \in Seq(Fed)
        BY <2>1, <2>3, <2>4, SetPlanKeeps
    <2> QED BY <2>3, <2>5, FirstFed
<1>7. ASSUME NEW taskStatus, NEW output, pc = "node", GoOn(taskStatus, output) PROVE FirstInv'
    <2>1. UNCHANGED <<workflow, current>>
        BY <1>7 DEF GoOn
    <2>2. PlanInv(Plan) /\ current.node \in Nodes /\ current.run \in Nat
        BY <1>7, WorkOnNode, PlanIsWellFormed DEF TypeInv, CurrentInv
    <2>3. CASE current.node \in workflow.destination
        <3>1. stack' = stack
            BY <1>7, <2>3 DEF GoOn
        <3> QED BY <2>1, <3>1 DEF FirstInv
    <2>4. CASE current.node \notin workflow.destination
        <3>1. SetPlan(AddChildren(current.node, current.run, output))
            BY <1>7, <2>4 DEF GoOn
        <3>2. PlanInv(AddChildren(current.node, current.run, output))
            BY <1>0, <2>2, AddChildrenKeeps
        <3>3. stack' \in Seq(Fed)
            BY <2>1, <3>1, <3>2, SetPlanKeeps
        <3> QED BY <2>1, <3>3, FirstFed
    <2> QED BY <2>3, <2>4
<1>8. CASE NodeRequests
    <2>1. UNCHANGED <<workflow, current>> /\ pc = "node" /\ current.requests < MaxRequests
            /\ SetPlan(IF current.data[1] = Initial THEN Plan ELSE AddAll(Requests))
        BY <1>8, RequestsStep DEF NodeRequests
    <2>2. CASE current.data[1] = Initial
        <3>1. stack' = stack
            BY <2>1, <2>2 DEF SetPlan, Plan
        <3> QED BY <2>1, <3>1 DEF FirstInv
    <2>3. CASE current.data[1] # Initial
        <3>1. IsAdditions(Requests) /\ PlanInv(Plan)
            BY <2>1, <2>3, RequestsType, PlanIsWellFormed DEF TypeInv, CurrentInv
        <3>2. PlanInv(AddAll(Requests)) /\ SetPlan(AddAll(Requests))
            BY <1>0, <2>1, <2>3, <3>1, AddAllKeeps
        <3>3. stack' \in Seq(Fed)
            BY <2>1, <3>2, SetPlanKeeps
        <3> QED BY <2>1, <3>3, FirstFed
    <2> QED BY <2>2, <2>3
<1>9. CASE NodeEnds
    <2>1. CASE \E output \in SUBSET Outputs : NodeSucceeds(output)
        BY <1>7, <2>1 DEF NodeSucceeds
    <2>2. CASE NodeFails /\ current.node \in workflow.continueOnFail
        BY <1>7, <2>2 DEF NodeFails
    <2>3. CASE NodeFails /\ current.node \notin workflow.continueOnFail
        BY <1>4, <2>3 DEF NodeFails
    <2>4. CASE NodeReturnsNull \/ NodeWaits
        BY <1>1, <2>4 DEF NodeReturnsNull, NodeWaits
    <2> QED BY <1>8, <1>9, <2>1, <2>2, <2>3, <2>4 DEF NodeEnds
<1>10. CASE AfterNode /\ ~(stack = <<>> /\ NextWaiting # {})
    BY <1>1, <1>10 DEF AfterNode
<1>11. CASE AfterStop
    BY <1>1, <1>4, <1>11 DEF AfterStop
<1>12. CASE [Begin \/ SetupFails \/ TimeIsUp \/ LoopEnds \/ AfterDestination \/ Close \/ Save
                \/ Resolve \/ Cancel]_vars
    BY <1>1, <1>12 DEF Begin, SetupFails, TimeIsUp, LoopEnds, AfterDestination, Close, Save,
                       Resolve, Cancel, vars, dataVars
<1> QED BY <1>2, <1>3, <1>5, <1>6, <1>9, <1>10, <1>11, <1>12 DEF Next, EngineStep

\* The runs that were announced and have not ended.
Announcements == Pending(stack, runData) \cup Running

\* The bag of those whose hooks were run is just them. What begins, or puts the
\* execution to wait, has not asked for tools.
HooksInv ==
    /\ FirstInv
    /\ pc = "setup" => stack[1].requests = 0
    /\ pc = "after:waiting" => current.requests = 0
    /\ AllAnnounced(workflow) /\ ~aborted => open = SetToBag(Announcements)

\* What all the proofs about steps start from.
EngineInv == TypeInv /\ AgentInv /\ HooksInv

\* The workflows that this is proved for.
Plain(w) == PlainAgents(w) /\ NoAgentWaits(w)

\* While nothing has failed, what is announced and not ended is what has asked for
\* tools, and the running node.
LEMMA AnnouncementsAre ==
    ASSUME TypeInv, AgentInv, Plain(workflow), Sound
    PROVE  Announcements = Asking(stack) \cup Running
<1> DEFINE s == Work
           t == stack
           runs == runData
           last == lastNodeExecuted
           waited == waitTill
           w == workflow
<1>1. /\ w \in Workflows /\ NoAgentWaits(w) /\ s \in Seq(Entries) /\ t \in Seq(Entries)
      /\ Shaped(w, s) /\ Fine(w, s, runs, waited, last) /\ runs \in RunDatas
    BY WorkType DEF AgentInv, Sound, Plain, TypeInv, RunsInv, RunDatas
<1>2. ASSUME NEW i \in 1..Len(t) PROVE \E j \in 1..Len(s) : t[i] = s[j]
    <2>1. CASE pc \in {"node", "after:waiting"}
        <3>1. /\ s \in Seq(Entries) /\ s # <<>> /\ Tail(s) = t /\ Len(s) = Len(t) + 1
              /\ Len(t) \in Nat
            BY <1>1, <2>1, WorkOnNode
        <3> HIDE DEF s, t
        <3>2. i + 1 \in 1..Len(s) /\ i \in 1..(Len(s) - 1)
            BY <3>1
        <3>3. Tail(s)[i] = s[i + 1]
            BY <3>1, <3>2, HeadTailProperties
        <3> QED BY <3>1, <3>2, <3>3
    <2>2. CASE pc \notin {"node", "after:waiting"}
        BY <2>2 DEF Work
    <2> QED BY <2>1, <2>2
<1> HIDE DEF s, t, runs, last, waited, w
<1>3. Pending(t, runs) = Asking(t)
    BY <1>1, <1>2, PendingIs
<1> QED BY <1>3 DEF Announcements, t, runs

\* While a node is executed.
LEMMA AskingOnNode ==
    ASSUME TypeInv, AgentInv, Plain(workflow), pc = "node"
    PROVE  /\ Announcements = Asking(stack) \cup {<<current.node, current.run>>}
           /\ \A x \in Asking(stack) : x[1] # current.node
           /\ current.requests > 0 => workflow.tools[current.node] # <<>>
           /\ ~IsTool(workflow, current) => Asking(stack) = {}
<1> DEFINE s == Work
           w == workflow
<1>1. Sound
    BY DEF Sound, Alive, Done
<1>2. /\ s \in Seq(Entries) /\ s # <<>> /\ s[1] = current /\ Tail(s) = stack /\ Shaped(w, s)
    BY WorkOnNode, OnNode DEF Plain
<1>3. 1 \in 1..Len(s)
    BY <1>2, EmptySeq
<1> HIDE DEF s, w
<1>4. \A x \in Asking(stack) : x[1] # current.node
    BY <1>2, TopApart
<1>5. current.requests > 0 => Asked(w, current)
    BY <1>2, <1>3, AskingOne
<1>6. ~IsTool(w, current) => Asking(stack) = {}
    BY <1>2, TopApart
<1> QED BY <1>1, <1>4, <1>5, <1>6, AnnouncementsAre DEF Running, Asked, w

\* At first, nothing was announced.
LEMMA HooksInit ==
    ASSUME Init, Plain(workflow)
    PROVE  HooksInv
<1>1. /\ stack = <<Entry(workflow.start, <<Initial>>)>> /\ pc = "setup" /\ open = EmptyBag
      /\ current = Entry(workflow.start, <<>>)
    BY DEF Init
<1>2. stack[1].requests = 0 /\ stack[1].node = workflow.start /\ current.node = workflow.start
    BY <1>1 DEF Entry
<1>3. FirstInv
    <2>1. Range(stack) = {Entry(workflow.start, <<Initial>>)}
        BY <1>1 DEF Range
    <2> QED BY <1>1, <1>2, <2>1 DEF FirstInv
<1>4. Announcements = {}
    <2>1. \A e \in Range(stack) : e.requests = 0
        BY <1>1 DEF Range, Entry
    <2>2. ~(0 > 0)
        OBVIOUS
    <2> QED BY <1>1, <2>1, <2>2 DEF Announcements, Pending, Running
<1> QED BY <1>1, <1>2, <1>3, <1>4 DEF HooksInv, EmptyBag

\* Steps that change nothing that matters here.
LEMMA HooksKept ==
    ASSUME TypeInv, HooksInv, FirstInv',
           [Begin \/ TimeIsUp \/ LoopEnds \/ AfterDestination \/ Close \/ Save \/ Resolve \/ Cancel]_vars
    PROVE  HooksInv'
<1>1. UNCHANGED <<workflow, stack, runData, current, open>>
    BY DEF Begin, TimeIsUp, LoopEnds, AfterDestination, Close, Save, Resolve, Cancel, vars, dataVars
<1>2. (pc' = "node") = (pc = "node") /\ (pc' = "setup" => pc = "setup")
        /\ (pc' = "after:waiting" => pc = "after:waiting") /\ (~aborted' => ~aborted)
    BY DEF Begin, TimeIsUp, LoopEnds, AfterDestination, Close, Save, Resolve, Cancel, vars
<1>3. Running' = Running
    BY <1>1, <1>2 DEF Running
<1>4. Announcements' = Announcements
    BY <1>1, <1>3 DEF Announcements
<1> QED BY <1>1, <1>2, <1>4 DEF HooksInv

\* So it is after a step to where no node runs.
LEMMA AnnouncementsAfter ==
    ASSUME TypeInv', AgentInv', NoAgentWaits(workflow'), Sound', pc' # "node"
    PROVE  Announcements' = Asking(stack')
<1> DEFINE t == stack'
           s == IF pc' = "after:waiting" THEN <<current'>> \o t ELSE t
           runs == runData'
           last == lastNodeExecuted'
           waited == waitTill'
           w == workflow'
<1>1. /\ w \in Workflows /\ NoAgentWaits(w) /\ runs \in RunDatas
      /\ t \in Seq(Entries) /\ current' \in Entries
    <2>1. Fed \subseteq Entries /\ First \subseteq Entries
        BY DEF Fed, First
    <2> QED BY <2>1 DEF TypeInv, StackInv, CurrentInv, RunsInv, RunDatas
<1>2. Shaped(w, s) /\ Fine(w, s, runs, waited, last)
    BY DEF AgentInv, Sound, Work
<1>3. Running' = {}
    BY DEF Running
<1>4. Announcements' = Pending(t, runs)
    BY <1>3 DEF Announcements
<1>5. s \in Seq(Entries) /\ \A i \in 1..Len(t) : \E j \in 1..Len(s) : t[i] = s[j]
    <2>1. CASE pc' = "after:waiting"
        <3> DEFINE e == current'
        <3>1. s = <<e>> \o t /\ e \in Entries
            BY <1>1, <2>1
        <3> HIDE DEF s, t, e
        <3>2. /\ s \in Seq(Entries) /\ Len(s) = Len(t) + 1 /\ Len(t) \in Nat
              /\ \A i \in 1..Len(t) : s[i + 1] = t[i]
            BY <1>1, <3>1
        <3>3. \A i \in 1..Len(t) : i + 1 \in 1..Len(s)
            BY <3>2
        <3> QED BY <3>2, <3>3
    <2>2. CASE pc' # "after:waiting"
        BY <1>1, <2>2
    <2> QED BY <2>1, <2>2
<1> HIDE DEF s, t, runs, last, waited, w
<1>6. Pending(t, runs) = Asking(t)
    BY <1>1, <1>2, <1>5, PendingIs
<1> QED BY <1>4, <1>6 DEF t

\* Steps to where no node runs, by what has asked for tools.
LEMMA HooksAfter ==
    ASSUME TypeInv', AgentInv', FirstInv', Plain(workflow), Sound', pc' # "node",
           workflow' = workflow, pc' = "setup" => stack'[1].requests = 0,
           pc' = "after:waiting" => current'.requests = 0,
           AllAnnounced(workflow) /\ ~aborted' => open' = SetToBag(Asking(stack'))
    PROVE  HooksInv'
<1>1. Announcements' = Asking(stack')
    BY AnnouncementsAfter DEF Plain
<1> QED BY <1>1 DEF HooksInv

\* Steps where the hook of no node is run and what has asked for tools is the same.
LEMMA HooksSame ==
    ASSUME TypeInv, AgentInv, TypeInv', AgentInv', HooksInv, FirstInv', Plain(workflow),
           UNCHANGED <<workflow, open, aborted>>, Sound, Sound', pc # "node", pc' # "node",
           Asking(stack') = Asking(stack), pc' = "setup" => stack'[1].requests = 0,
           pc' # "after:waiting"
    PROVE  HooksInv'
<1>1. Announcements = Asking(stack)
    BY AnnouncementsAre DEF Running
<1>2. AllAnnounced(workflow) /\ ~aborted' => open' = SetToBag(Asking(stack'))
    BY <1>1 DEF HooksInv
<1> QED BY <1>2, HooksAfter

\* What has not begun, or has ended, is not announced on top of a stack.
LEMMA PendingOnTop ==
    ASSUME NEW s \in Seq(Entries), NEW e \in Entries, NEW runs,
           e.requests = 0 \/ e.run + 1 \in DOMAIN runs[e.node]
    PROVE  Pending(<<e>> \o s, runs) = Pending(s, runs)
<1> DEFINE t == <<e>> \o s
<1>1. /\ Len(s) \in Nat /\ t \in Seq(Entries) /\ Len(t) = Len(s) + 1
      /\ t[1] = e /\ \A i \in 1..Len(s) : t[i + 1] = s[i]
    OBVIOUS
<1> HIDE DEF t
<1>2. ASSUME NEW f \in Range(s) PROVE f \in Range(t)
    <2>1. PICK i \in 1..Len(s) : f = s[i]
        BY DEF Range
    <2>2. i + 1 \in 1..Len(t) /\ f = t[i + 1]
        BY <1>1, <2>1
    <2> QED BY <1>1, <2>2 DEF Range
<1>3. ASSUME NEW f \in Range(t) PROVE f = e \/ f \in Range(s)
    <2>1. PICK i \in 1..Len(t) : f = t[i]
        BY <1>1 DEF Range
    <2>2. CASE i = 1
        BY <1>1, <2>1, <2>2
    <2>3. CASE i # 1
        <3>1. i - 1 \in 1..Len(s) /\ (i - 1) + 1 = i
            BY <1>1, <2>3
        <3>2. f = s[i - 1]
            BY <1>1, <2>1, <3>1
        <3> QED BY <3>1, <3>2 DEF Range
    <2> QED BY <2>2, <2>3
<1>4. ~(0 > 0)
    OBVIOUS
<1> QED BY <1>2, <1>3, <1>4 DEF Pending, t

\* A node that waits, or has failed, has its stack back.
LEMMA HooksAfterStop ==
    ASSUME TypeInv, HooksInv, FirstInv', AfterStop
    PROVE  HooksInv'
<1>1. /\ UNCHANGED <<workflow, runData, current, open, aborted>> /\ pc # "node" /\ pc' = "stop"
      /\ stack' = IF pc = "after:waiting" THEN <<current>> \o stack ELSE stack
    BY DEF AfterStop
<1>2. Pending(stack', runData) = Pending(stack, runData)
    <2>1. CASE pc = "after:waiting"
        <3>1. current \in Entries /\ stack \in Seq(Entries) /\ current.requests = 0
            BY <2>1, WorkType DEF TypeInv, CurrentInv, HooksInv
        <3> QED BY <1>1, <2>1, <3>1, PendingOnTop
    <2>2. CASE pc # "after:waiting"
        BY <1>1, <2>2
    <2> QED BY <2>1, <2>2
<1>3. Announcements' = Announcements
    BY <1>1, <1>2 DEF Announcements, Running
<1> QED BY <1>1, <1>3 DEF HooksInv

\* The loop goes on, with a waiting node or without.
LEMMA HooksAfterNode ==
    ASSUME EngineInv, TypeInv', AgentInv', FirstInv', Plain(workflow), AfterNode
    PROVE  HooksInv'
<1>1. /\ pc = "after" /\ pc' = "loop" /\ UNCHANGED <<workflow, open, aborted>> /\ Sound /\ Sound'
    BY DEF AfterNode, Sound, Alive, Done
<1>2. CASE stack = <<>> /\ NextWaiting # {}
    <2>1. AllFresh(workflow, stack) /\ AllFresh(workflow, stack')
        BY <1>2, WaitingFresh DEF AllFresh, EngineInv, Plain
    <2>2. Asking(stack') = Asking(stack)
        BY <2>1, AskingFresh
    <2> QED BY <1>1, <2>2, HooksSame DEF EngineInv
<1>3. CASE ~(stack = <<>> /\ NextWaiting # {})
    <2>1. stack' = stack
        BY <1>3 DEF AfterNode
    <2> QED BY <1>1, <2>1, HooksSame DEF EngineInv
<1> QED BY <1>2, <1>3

\* A node that is skipped has asked for nothing: there are no agents.
LEMMA HooksSkip ==
    ASSUME EngineInv, TypeInv', AgentInv', FirstInv', Plain(workflow), SkipNode
    PROVE  HooksInv'
<1>1. /\ pc = "loop" /\ pc' = "loop" /\ UNCHANGED <<workflow, open, aborted>> /\ Sound /\ Sound'
      /\ stack # <<>> /\ stack' = Tail(stack) /\ Head(stack).node \notin runNodeFilter
    BY DEF SkipNode, Sound, Alive, Done
<1>2. stack \in Seq(Entries) /\ Shaped(workflow, stack) /\ Head(stack) \in Entries
    BY <1>1, WorkType, HeadTailProperties DEF EngineInv, AgentInv, Sound, Work
<1>3. workflow.destination # {}
    BY <1>1, <1>2 DEF runNodeFilter, Entries
<1>4. Asking(stack) = {}
    <2> SUFFICES ASSUME NEW i \in 1..Len(stack), stack[i].requests > 0 PROVE FALSE
        BY DEF Asking
    <2>1. Asked(workflow, stack[i]) /\ stack[i].node \in Nodes
        BY <1>2, AskingOne, EntryFields
    <2> QED BY <1>3, <2>1 DEF Asked, Plain, PlainAgents
<1>5. Asking(stack') = {}
    BY <1>1, <1>2, <1>4, AskingTop
<1> QED BY <1>1, <1>4, <1>5, HooksSame DEF EngineInv

\* Another engine goes on with an execution that waits: no agent.
LEMMA HooksResume ==
    ASSUME EngineInv, TypeInv', AgentInv', FirstInv', Plain(workflow), Resume
    PROVE  HooksInv'
<1>1. /\ pc = "ended" /\ pc' = "setup" /\ UNCHANGED <<workflow, open, aborted>> /\ Sound /\ Sound'
      /\ stack' = [stack EXCEPT ![1].disabled = TRUE] /\ waitTill = TRUE
    BY DEF Resume, Sound, Alive, Done, EngineInv, TypeInv, WaitInv
<1> DEFINE s == stack
           t == stack'
           w == workflow
           e == [stack[1] EXCEPT !.disabled = TRUE]
<1>2. /\ s \in Seq(Entries) /\ Shaped(w, s)
      /\ s # <<>> /\ s[1].node \in w.mayWait /\ t = [s EXCEPT ![1] = e]
    BY <1>1, WorkType DEF EngineInv, AgentInv, Sound, Work, Fine, WaitsOnTop
<1>3. 1 \in 1..Len(s) /\ s[1] \in Entries
    BY <1>2, EmptySeq
<1>4. /\ e \in Entries /\ e.node = s[1].node /\ e.run = s[1].run /\ e.requests = s[1].requests
    BY <1>3 DEF Entries
<1> HIDE DEF s, t, w, e
<1>5. Len(t) = Len(s) /\ t[1] = e /\ \A i \in 1..Len(s) : i # 1 => t[i] = s[i]
    BY <1>2, <1>3, <1>4, ExceptSeq
<1>6. \A i \in 1..Len(s) : /\ t[i].node = s[i].node /\ t[i].run = s[i].run
                           /\ t[i].requests = s[i].requests
    BY <1>4, <1>5
<1>7. Asking(t) = Asking(s)
    BY <1>5, <1>6 DEF Asking
<1>8. t[1].requests = 0
    <2> SUFFICES ASSUME s[1].requests > 0 PROVE FALSE
        BY <1>2, <1>3, <1>5, <1>4, EntryFields
    <2>1. Asked(w, s[1]) /\ s[1].node \in Nodes
        BY <1>2, <1>3, AskingOne, EntryFields
    <2> QED BY <1>2, <2>1 DEF Asked, Plain, NoAgentWaits, w
<1>9. Asking(stack') = Asking(stack) /\ stack'[1].requests = 0
    BY <1>7, <1>8 DEF s, t
<1> QED BY <1>1, <1>9, HooksSame DEF EngineInv

\* The first node's failure replaces the run data: what agents have asked for is there.
LEMMA HooksSetupFails ==
    ASSUME EngineInv, FirstInv', Plain(workflow), SetupFails
    PROVE  HooksInv'
<1> DEFINE n == Head(stack).node
           after == runData'
<1>1. /\ pc = "setup" /\ pc' = "saving" /\ UNCHANGED <<workflow, stack, current, open, aborted>>
      /\ runData' = [m \in Nodes |-> IF m = n THEN <<TaskData("error", {})>> ELSE <<>>]
      /\ Sound /\ stack # <<>>
    BY DEF SetupFails, Sound, Alive, Done, EngineInv, TypeInv, WaitInv
<1>2. /\ stack \in Seq(Entries) /\ Head(stack) = stack[1] /\ stack[1].requests = 0
      /\ Shaped(workflow, stack)
    BY <1>1, WorkType, HeadTailProperties DEF EngineInv, HooksInv, AgentInv, Sound, Work
<1>3. Announcements = Asking(stack) /\ Announcements = Pending(stack, runData)
    BY <1>1, AnnouncementsAre DEF EngineInv, Announcements, Running
<1>4. ASSUME NEW e \in Range(stack), e.requests > 0
      PROVE  e.node \in Nodes /\ after[e.node] = <<>> /\ <<e.node, e.run>> \in Asking(stack)
    <2>1. PICK i \in 1..Len(stack) : e = stack[i]
        BY <1>2 DEF Range
    <2>2. e.node \in Nodes /\ <<e.node, e.run>> \in Asking(stack)
        BY <1>2, <1>4, <2>1, EntryFields DEF Asking
    <2>3. Asking(stack) = Asking(Tail(stack))
        <3>1. ~(stack[1].requests > 0)
            BY <1>2
        <3> QED BY <1>1, <1>2, <3>1, AskingTop
    <2>4. stack[1].node # e.node
        <3> DEFINE x == <<e.node, e.run>>
        <3>1. x \in Asking(Tail(stack)) /\ x[1] = e.node
            BY <2>2, <2>3
        <3> HIDE DEF x
        <3> QED BY <1>1, <1>2, <3>1, TopApart
    <2> QED BY <1>1, <1>2, <2>2, <2>4
<1>5. Pending(stack, after) = Asking(stack)
    <2>1. ASSUME NEW x \in Pending(stack, after) PROVE x \in Asking(stack)
        <3>1. PICK e \in Range(stack) : e.requests > 0 /\ x = <<e.node, e.run>>
            BY DEF Pending
        <3> QED BY <1>4, <3>1
    <2>2. ASSUME NEW x \in Asking(stack) PROVE x \in Pending(stack, after)
        <3>1. x \in Pending(stack, runData)
            BY <1>3
        <3>2. PICK e \in Range(stack) : e.requests > 0 /\ ~e.disabled /\ x = <<e.node, e.run>>
            BY <3>1 DEF Pending
        <3>3. after[e.node] = <<>>
            BY <1>4, <3>2
        <3>4. e.run + 1 \notin DOMAIN after[e.node]
            BY <3>3
        <3> HIDE DEF after
        <3> QED BY <3>2, <3>4 DEF Pending
    <2> HIDE DEF after
    <2> QED BY <2>1, <2>2
<1>6. Announcements' = Announcements
    BY <1>1, <1>3, <1>5 DEF Announcements, Running
<1> QED BY <1>1, <1>6 DEF EngineInv, HooksInv

\* A node is announced, unless it is an agent that goes on.
LEMMA HooksStart ==
    ASSUME EngineInv, FirstInv', Plain(workflow), StartNode
    PROVE  HooksInv'
<1> DEFINE e   == Head(stack)
           run == IF e.run # -1 THEN e.run ELSE Len(runData[e.node])
           x   == <<e.node, run>>
           t   == Tail(stack)
           w   == workflow
           waited == waitTill
           last == lastNodeExecuted
           runs == runData
<1>1. /\ pc = "loop" /\ pc' = "node" /\ stack # <<>> /\ stack' = t
      /\ UNCHANGED <<workflow, runData, aborted>> /\ Sound
      /\ current' = [e EXCEPT !.run = run]
      /\ open' = IF Announced(e) THEN open (+) SetToBag({x}) ELSE open
    BY DEF StartNode, Sound, Alive, Done
<1>2. /\ stack \in Seq(Entries) /\ e = stack[1] /\ e \in Entries /\ t \in Seq(Entries)
      /\ Shaped(w, stack) /\ Fine(w, stack, runs, waited, last)
      /\ w \in Workflows /\ NoAgentWaits(w) /\ runs \in RunDatas
    BY <1>1, WorkType, HeadTailProperties
       DEF EngineInv, AgentInv, Sound, Work, TypeInv, RunsInv, RunDatas, Plain
<1>3. current'.node = e.node /\ current'.run = run
    BY <1>1, <1>2 DEF Entries
<1>4. \A i \in 1..Len(t) : \E j \in 1..Len(stack) : t[i] = stack[j]
    <2> DEFINE s == stack
    <2>1. Len(s) \in Nat /\ Len(t) = Len(s) - 1 /\ \A i \in 1..(Len(s) - 1) : t[i] = s[i + 1]
        BY <1>1, <1>2, HeadTailProperties, EmptySeq
    <2> HIDE DEF t, s
    <2>2. \A i \in 1..Len(t) : i + 1 \in 1..Len(s) /\ t[i] = s[i + 1]
        BY <2>1
    <2> QED BY <2>2 DEF s
<1>5. Announcements = Asking(stack)
    BY <1>1, AnnouncementsAre DEF EngineInv, Running
<1> HIDE DEF t, w, waited, last, runs, run, e
<1>6. Pending(t, runs) = Asking(t)
    BY <1>2, <1>4, PendingIs
<1>7. Announcements' = Asking(t) \cup {x}
    BY <1>1, <1>3, <1>6 DEF Announcements, Running, runs
<1>8. Asking(stack) = Asking(t) \cup (IF e.requests > 0 THEN {<<e.node, e.run>>} ELSE {})
    BY <1>1, <1>2, AskingTop DEF t
<1>9. x \notin Asking(t)
    <2> SUFFICES ASSUME x \in Asking(t) PROVE FALSE
        OBVIOUS
    <2> DEFINE y == x
    <2>1. y \in Asking(Tail(stack)) /\ y[1] = e.node
        BY DEF t
    <2> HIDE DEF x, y
    <2> QED BY <1>1, <1>2, <2>1, TopApart
<1>10. AllAnnounced(w) /\ ~aborted => open = SetToBag(Asking(stack))
    BY <1>5 DEF EngineInv, HooksInv, w
<1>11. ASSUME AllAnnounced(w), ~aborted PROVE open' = SetToBag(Asking(t) \cup {x})
    <2>1. CASE e.requests = 0
        <3>1. ~(e.requests > 0) /\ Announced(e)
            BY <2>1 DEF Announced
        <3>2. open' = SetToBag(Asking(t)) (+) SetToBag({x})
            BY <1>1, <1>8, <1>10, <1>11, <3>1
        <3> HIDE DEF x
        <3> QED BY <1>9, <3>2, BagOfSet
    <2>2. CASE e.requests # 0
        <3>1. e.requests > 0 /\ ~Announced(e) /\ 1 \in 1..Len(stack)
            <4>1. 1 \in 1..Len(stack)
                BY <1>1, <1>2, EmptySeq
            <4>2. e.requests \in Nat
                BY <1>2, <4>1, EntryFields
            <4> QED BY <2>2, <4>1, <4>2 DEF Announced
        <3>2. Asked(w, stack[1])
            BY <1>2, <3>1, AskingOne
        <3>3. x = <<e.node, e.run>>
            BY <1>2, <3>2 DEF Asked, run
        <3> QED BY <1>1, <1>8, <1>10, <1>11, <3>1, <3>3
    <2> QED BY <2>1, <2>2
<1> QED BY <1>1, <1>7, <1>11 DEF HooksInv, w

\* The hook of the end of a node is run.
LEMMA HooksClosed ==
    ASSUME EngineInv, Plain(workflow), pc = "node", Closed, UNCHANGED <<workflow, aborted>>,
           AllAnnounced(workflow), ~aborted
    PROVE  open' = SetToBag(Asking(stack))
<1> DEFINE x == <<current.node, current.run>>
           A == Asking(stack)
<1>1. Announcements = A \cup {x} /\ \A y \in A : y[1] # current.node
    BY AskingOnNode DEF EngineInv
<1>2. open = SetToBag(A \cup {x}) /\ open' = open (-) SetToBag({x})
    BY <1>1 DEF EngineInv, HooksInv, Closed
<1>3. x \notin A
    <2> SUFFICES ASSUME x \in A PROVE FALSE
        OBVIOUS
    <2>1. x[1] = current.node
        OBVIOUS
    <2> QED BY <1>1, <2>1
<1> HIDE DEF x, A
<1>4. (A \cup {x}) \ {x} = A
    BY <1>3
<1>5. SetToBag(A \cup {x}) (-) SetToBag({x}) = SetToBag((A \cup {x}) \ {x})
    BY BagOfSet
<1> QED BY <1>2, <1>4, <1>5 DEF A

\* A node has run and the data goes on.
LEMMA HooksGoOn ==
    ASSUME EngineInv, TypeInv', AgentInv', FirstInv', Plain(workflow), pc = "node",
           NEW taskStatus, NEW output, GoOn(taskStatus, output)
    PROVE  HooksInv'
<1>1. /\ pc' \in {"after", "after:destination"} /\ Sound' /\ UNCHANGED <<workflow, aborted>> /\ Closed
    BY DEF GoOn, Sound, Alive, Done
<1>2. Asking(stack') = Asking(stack)
    <2>1. CASE IsTool(workflow, current)
        <3>1. stack' = stack
            BY <2>1, GoOnStack DEF EngineInv, Plain
        <3> QED BY <3>1
    <2>2. CASE ~IsTool(workflow, current)
        <3>1. AllFresh(workflow, stack')
            BY <2>2, GoOnStack DEF EngineInv, Plain
        <3>2. Asking(stack') = {}
            BY <3>1, AskingFresh
        <3> QED BY <2>2, <3>2, AskingOnNode DEF EngineInv
    <2> QED BY <2>1, <2>2
<1> QED BY <1>1, <1>2, HooksClosed, HooksAfter

\* A node puts the execution to wait: no agent.
LEMMA HooksWaits ==
    ASSUME EngineInv, TypeInv', AgentInv', FirstInv', Plain(workflow), NodeWaits
    PROVE  HooksInv'
<1>1. /\ pc = "node" /\ pc' = "after:waiting" /\ Sound' /\ Closed
      /\ UNCHANGED <<workflow, aborted, stack, current>> /\ current.node \in workflow.mayWait
    BY DEF NodeWaits, Sound, Alive, Done
<1>2. current.requests = 0
    <2> SUFFICES ASSUME current.requests # 0 PROVE FALSE
        OBVIOUS
    <2>1. current \in Entries /\ current.node \in Nodes
        BY DEF EngineInv, TypeInv, CurrentInv, Entries
    <2>2. current.requests \in Nat
        BY <2>1, BoundsAssumption DEF Entries
    <2>3. workflow.tools[current.node] # <<>>
        BY <1>1, <2>2, AskingOnNode DEF EngineInv
    <2> QED BY <1>1, <2>1, <2>3 DEF Plain, NoAgentWaits
<1> QED BY <1>1, <1>2, HooksClosed, HooksAfter

\* A node has failed and is on the stack again, with its run recorded.
LEMMA HooksFails ==
    ASSUME EngineInv, FirstInv', Plain(workflow), NodeFails, current.node \notin workflow.continueOnFail
    PROVE  HooksInv'
<1> DEFINE n == current.node
           after == runData'
           taskData == TaskData("error", {})
           old == runData
           A == Asking(stack)
<1>1. /\ pc = "node" /\ stack' = <<current>> \o stack /\ UNCHANGED <<workflow, aborted, current>>
      /\ runData' = RecordedAt(old, n, current.run, taskData)
      /\ pc' \in {"stop", "after:failed"} /\ (~aborted => Closed)
    BY RecordedIs DEF NodeFails
<1>2. /\ n \in Nodes /\ current.run \in Nat /\ current \in Entries /\ stack \in Seq(Entries)
      /\ current.run <= Len(old[n]) /\ old \in RunDatas /\ taskData \in TaskDatas
    <2>1. n \in Nodes /\ current.run \in Nat /\ current.run <= Len(old[n])
        BY <1>1, WorkOnNode, OnNode DEF EngineInv, Plain
    <2>2. current \in Entries /\ stack \in Seq(Entries) /\ old \in RunDatas
        BY WorkType DEF EngineInv, TypeInv, CurrentInv, RunsInv, RunDatas
    <2> QED BY <2>1, <2>2 DEF TaskData, TaskDatas
<1>3. \A y \in A : y[1] # n
    BY <1>1, AskingOnNode DEF EngineInv
<1>a. after = RecordedAt(old, n, current.run, taskData)
    BY <1>1
<1> HIDE DEF n, after, old, taskData
<1>4. /\ after \in RunDatas /\ \A m \in Nodes \ {n} : after[m] = old[m]
      /\ current.run + 1 \in 1..Len(after[n])
    BY <1>2, <1>a, RecordedAtType
<1>5. current.run + 1 \in DOMAIN after[n]
    <2>1. after[n] \in Seq(TaskDatas)
        BY <1>2, <1>4, RunDatasLength
    <2> QED BY <1>4, <2>1
<1>6. Pending(stack', after) = Pending(stack, after)
    BY <1>1, <1>2, <1>5, PendingOnTop DEF n
<1>7. Pending(stack, old) = A
    <2> DEFINE s == Work
               w == workflow
               last == lastNodeExecuted
               t == stack
    <2>1. /\ s \in Seq(Entries) /\ Len(s) = Len(t) + 1 /\ s = <<current>> \o t
          /\ Shaped(w, s) /\ Fine(w, s, old, FALSE, last) /\ NoAgentWaits(w) /\ w \in Workflows
          /\ t \in Seq(Entries)
        BY <1>1, <1>2, WorkOnNode, OnNode DEF EngineInv, Plain, TypeInv, old
    <2> HIDE DEF s, w, last, t
    <2>2. \A i \in 1..Len(t) : i + 1 \in 1..Len(s) /\ t[i] = s[i + 1]
        BY <1>2, <2>1
    <2>3. \A i \in 1..Len(t) : \E j \in 1..Len(s) : t[i] = s[j]
        BY <2>2
    <2>4. Pending(t, old) = Asking(t)
        BY <1>2, <2>1, <2>3, PendingIs
    <2> QED BY <2>4 DEF t
<1>8. Pending(stack, after) = A
    <2>1. ASSUME NEW e \in Range(stack), e.requests > 0
          PROVE  e.node \in Nodes /\ after[e.node] = old[e.node]
        <3>1. PICK i \in 1..Len(stack) : e = stack[i]
            BY <1>2 DEF Range
        <3> DEFINE x == <<e.node, e.run>>
        <3>2. e.node \in Nodes /\ x \in A /\ x[1] = e.node
            BY <1>2, <2>1, <3>1, EntryFields DEF Asking
        <3> HIDE DEF x, A
        <3> QED BY <1>3, <1>4, <3>2
    <2>2. Pending(stack, after) = Pending(stack, old)
        BY <2>1 DEF Pending
    <2> QED BY <1>7, <2>2
<1>9. Announcements' = Asking(stack)
    BY <1>1, <1>6, <1>8 DEF Announcements, Running, after
<1>10. AllAnnounced(workflow) /\ ~aborted => open' = SetToBag(Asking(stack))
    BY <1>1, HooksClosed
<1> QED BY <1>1, <1>9, <1>10 DEF HooksInv

\* An agent that asks for tools goes on later.
LEMMA HooksRequests ==
    ASSUME EngineInv, TypeInv', AgentInv', FirstInv', Plain(workflow), NodeRequests
    PROVE  HooksInv'
<1>1. /\ pc = "node" /\ pc' = "loop" /\ UNCHANGED <<workflow, aborted, open>> /\ Sound'
      /\ Tools # <<>> /\ current.node \in Nodes /\ workflow \in Workflows
    BY WorkOnNode DEF NodeRequests, Sound, Alive, Done, Tools, EngineInv, TypeInv
<1>2. ~IsTool(workflow, current)
    BY <1>1, ToolNode DEF IsTool, Tools, Plain
<1>3. Announcements = {<<current.node, current.run>>} /\ AllFresh(workflow, stack)
    BY <1>1, <1>2, AskingOnNode, OnNode DEF EngineInv, Plain
<1>4. CASE current.data[1] = Initial
    <2>1. current.data = <<Initial>>
        <3>1. current \in Fed \/ current \in First
            BY <1>1 DEF EngineInv, TypeInv, CurrentInv
        <3>2. ASSUME current \in Fed PROVE FALSE
            <4>1. current.data \in Seq(Data) /\ current.data # <<>>
                BY <3>2 DEF Fed
            <4>2. current.data[1] \in Data
                BY <4>1
            <4> QED BY <1>4, <4>2, DataFacts
        <3> QED BY <3>1, <3>2 DEF First
    <2>2. current.node = workflow.start
        BY <2>1 DEF EngineInv, HooksInv, FirstInv
    <2>3. ~AllAnnounced(workflow)
        BY <1>1, <2>2 DEF AllAnnounced, Tools
    <2> QED BY <1>1, <2>3, HooksAfter
<1>5. CASE current.data[1] # Initial
    <2> DEFINE s == stack'
               m == Len(Tools)
               agent == AgentEntry
               below == stack
               x == <<current.node, current.run>>
    <2>1. /\ agent \in Fed /\ s \in Seq(Fed) /\ Stacked(s, m, agent, below)
          /\ \A i \in 1..m : s[i] = ToolEntry((m + 1) - i) /\ (m + 1) - i \in 1..m
        BY <1>5, RequestsOnStack DEF EngineInv, Plain
    <2>2. /\ m \in Nat /\ below \in Seq(Entries) /\ AllFresh(workflow, below)
        BY <1>3, ToolsType, WorkType DEF EngineInv
    <2>3. /\ <<agent.node, agent.run>> = x /\ agent.requests > 0
          /\ \A l \in 1..m : ToolEntry(l).requests = 0
        BY <1>1, RequestEntries DEF EngineInv
    <2> HIDE DEF s, m, agent, below, x
    <2>4. ASSUME NEW i \in 1..Len(s), s[i].requests > 0 PROVE i = m + 1
        <3>0. ~(0 > 0)
            OBVIOUS
        <3>1. i \notin 1..m
            BY <2>1, <2>3, <2>4, <3>0
        <3>2. ASSUME i > m + 1 PROVE FALSE
            <4>1. Len(s) = (m + 1) + Len(below) /\ Len(below) \in Nat
                BY <2>1, <2>2 DEF Stacked
            <4> DEFINE j == i - (m + 1)
            <4>2. j \in 1..Len(below) /\ (m + 1) + j = i
                BY <2>2, <3>2, <4>1
            <4> HIDE DEF j
            <4>3. s[i] = below[j]
                BY <2>1, <4>2 DEF Stacked
            <4> QED BY <2>2, <2>4, <3>0, <4>2, <4>3 DEF AllFresh, Fresh
        <3> QED BY <2>2, <3>1, <3>2
    <2>5. m + 1 \in 1..Len(s) /\ s[m + 1] = agent
        BY <2>1, <2>2 DEF Stacked
    <2>6. Asking(s) = {x}
        BY <2>3, <2>4, <2>5 DEF Asking
    <2>7. AllAnnounced(workflow) /\ ~aborted => open = SetToBag(Asking(s))
        BY <1>3, <2>6 DEF EngineInv, HooksInv, x
    <2> QED BY <1>1, <2>7, HooksAfter DEF s
<1> QED BY <1>4, <1>5

\* Every step keeps the invariant.
LEMMA HooksStep ==
    ASSUME EngineInv, Plain(workflow), [Next]_vars
    PROVE  HooksInv'
<1>1. TypeInv' /\ AgentInv' /\ FirstInv' /\ workflow' = workflow
    <2>1. workflow' = workflow
        BY DEF Next, EngineStep, NodeEnds, Begin, SetupFails, StartNode, SkipNode, LoopEnds,
               NodeSucceeds, NodeReturnsNull, NodeFails, NodeWaits, NodeRequests, GoOn, AfterNode,
               AfterDestination, AfterStop, Close, Save, Resolve, TimeIsUp, Cancel, Resume, vars
    <2> QED BY <2>1, TypeStep, AgentStep, FirstStep DEF EngineInv, HooksInv, Plain
<1>2. CASE NodeEnds
    <2>1. CASE \E output \in SUBSET Outputs : NodeSucceeds(output)
        BY <1>1, <2>1, HooksGoOn DEF NodeSucceeds
    <2>2. CASE NodeReturnsNull
        <3>1. ~AllAnnounced(workflow') /\ pc' = "loop"
            BY <1>1, <2>2 DEF NodeReturnsNull, AllAnnounced
        <3> QED BY <1>1, <3>1 DEF HooksInv
    <2>3. CASE NodeFails /\ current.node \in workflow.continueOnFail
        BY <1>1, <2>3, HooksGoOn DEF NodeFails
    <2>4. CASE NodeFails /\ current.node \notin workflow.continueOnFail
        BY <1>1, <2>4, HooksFails
    <2> QED BY <1>1, <1>2, <2>1, <2>2, <2>3, <2>4, HooksWaits, HooksRequests DEF NodeEnds
<1>3. CASE [Begin \/ TimeIsUp \/ LoopEnds \/ AfterDestination \/ Close \/ Save \/ Resolve
                \/ Cancel]_vars
    BY <1>1, <1>3, HooksKept DEF EngineInv
<1> QED BY <1>1, <1>2, <1>3, HooksSetupFails, HooksStart, HooksSkip, HooksAfterNode, HooksAfterStop,
           HooksResume DEF Next, EngineStep, EngineInv

\* The runs whose start was announced and whose end was not are the running one and
\* those of agents that go on later, each once (processRunExecutionData: "Skip
\* nodeExecuteBefore for resumed agent nodes to prevent duplicate event emission").
\* For the workflows of ToolsHaveRunHolds whose agents do not put the execution to
\* wait themselves; their tools may.
THEOREM HooksPairedHolds ==
    ASSUME \A w \in Workflows : PlainAgents(w) /\ NoAgentWaits(w)
    PROVE  Spec => []HooksPaired
<1>1. TypeInv => Plain(workflow)
    BY DEF TypeInv, Plain
<1>2. Init => EngineInv
    BY <1>1, TypeInit, AgentInit, HooksInit DEF EngineInv, Plain
<1>3. EngineInv /\ [Next]_vars => EngineInv'
    BY <1>1, TypeStep, AgentStep, HooksStep DEF EngineInv, Plain
<1>4. EngineInv => HooksPaired
    BY UnfinishedIs DEF EngineInv, HooksInv, HooksPaired, AllAnnounced, Announcements
<1> QED BY <1>2, <1>3, <1>4, PTL DEF Spec
-----------------------------------------------------------------------------
(* The nodes above a node                                                   *)

\* The parents of a node, theirs, and so on, up to a depth.
IsWithin(within, n, depth) ==
    within = [k \in 0..depth |->
                IF k = 0 THEN Parents({n}) ELSE within[k - 1] \cup Parents(within[k - 1])]

\* It exists: the recursion has a value.
LEMMA WithinExists ==
    ASSUME NEW n, NEW depth \in Nat
    PROVE  \E within : IsWithin(within, n, depth)
<1> DEFINE S == {m \in Nat : \E f : IsWithin(f, n, m)}
<1>1. 0 \in S
    <2>1. IsWithin([k \in 0..0 |-> Parents({n})], n, 0)
        BY DEF IsWithin
    <2> QED BY <2>1
<1>2. ASSUME NEW m \in Nat, m \in S PROVE m + 1 \in S
    <2>1. PICK f : IsWithin(f, n, m)
        BY <1>2
    <2> DEFINE g == [k \in 0..(m + 1) |-> IF k \in 0..m THEN f[k] ELSE f[m] \cup Parents(f[m])]
    <2>2. \A k \in 0..m : f[k] = IF k = 0 THEN Parents({n}) ELSE f[k - 1] \cup Parents(f[k - 1])
        BY <2>1 DEF IsWithin
    <2>3. ASSUME NEW k \in 0..(m + 1)
          PROVE  g[k] = IF k = 0 THEN Parents({n}) ELSE g[k - 1] \cup Parents(g[k - 1])
        <3>1. CASE k \in 0..m
            <4>1. k = 0 \/ k - 1 \in 0..m
                BY <3>1
            <4>2. g[k] = f[k] /\ (k # 0 => g[k - 1] = f[k - 1])
                BY <3>1, <4>1
            <4> QED BY <2>2, <3>1, <4>2
        <3>2. CASE k = m + 1
            <4>1. g[k] = f[m] \cup Parents(f[m]) /\ k # 0 /\ k - 1 = m
                BY <3>2
            <4>2. g[m] = f[m]
                OBVIOUS
            <4> QED BY <3>2, <4>1, <4>2
        <3> QED BY <3>1, <3>2
    <2>4. g = [k \in 0..(m + 1) |->
                IF k = 0 THEN Parents({n}) ELSE g[k - 1] \cup Parents(g[k - 1])]
        <3>1. g = [k \in 0..(m + 1) |-> g[k]]
            OBVIOUS
        <3> HIDE DEF g
        <3> QED BY <2>3, <3>1
    <2> HIDE DEF g
    <2>5. IsWithin(g, n, m + 1)
        BY <2>4 DEF IsWithin
    <2> QED BY <2>5
<1> HIDE DEF S
<1>3. \A m \in Nat : m \in S
    BY <1>1, <1>2, Induction
<1> QED BY <1>3 DEF S

\* A set of nodes with the parents of its members.
ClosedUp(S) == Parents(S) \subseteq S

\* What getParentNodes collects: all parents of the node and of what it collects, each
\* a parent or above one.
LEMMA Collected ==
    ASSUME workflow \in Workflows, NEW n \in Nodes
    PROVE  \E U \in SUBSET Nodes :
            /\ getParentNodes(n) = U \ {n}
            /\ Parents({n}) \subseteq U /\ ClosedUp(U)
            /\ \A m \in U : \E c \in workflow.connections :
                    c.to = n /\ (c.from = m \/ \A V : c.from \in V /\ ClosedUp(V) => m \in V)
<1> DEFINE size == Cardinality(Nodes)
           f == CHOOSE within : IsWithin(within, n, size)
<1>1. size \in Nat /\ IsFiniteSet(Nodes)
    BY NodesAssumption, FS_CardinalityType
<1>2. getParentNodes(n) = f[size] \ {n}
    BY DEF getParentNodes, IsWithin
<1>3. IsWithin(f, n, size)
    <2> HIDE DEF size
    <2> QED BY <1>1, WithinExists
<1> HIDE DEF f, size
<1>4. \A k \in 0..size : f[k] = IF k = 0 THEN Parents({n}) ELSE f[k - 1] \cup Parents(f[k - 1])
    BY <1>3 DEF IsWithin
<1>5. \A c \in workflow.connections : c.from \in Nodes /\ c.to \in Nodes
    BY WorkflowsAssumption DEF IsWorkflow, Connection
<1>6. \A S : Parents(S) \in SUBSET Nodes
    BY <1>5 DEF Parents
<1>7. ASSUME NEW k \in 1..size PROVE f[k] = f[k - 1] \cup Parents(f[k - 1])
    <2>1. k \in 0..size /\ k # 0
        BY <1>1
    <2> QED BY <1>4, <2>1
<1> DEFINE Above(m) == \E c \in workflow.connections :
                    c.to = n /\ (c.from = m \/ \A V : c.from \in V /\ ClosedUp(V) => m \in V)
           P(k) == /\ f[k] \in SUBSET Nodes /\ Parents({n}) \subseteq f[k]
                   /\ \A m \in f[k] : Above(m)
                   /\ ClosedUp(f[k]) \/ Cardinality(f[k]) > k
           S == {k \in Nat : k <= size => P(k)}
<1>8. 0 \in S
    <2>0. 0 \in 0..size
        BY <1>1
    <2>1. f[0] = Parents({n}) /\ f[0] \in SUBSET Nodes
        BY <1>4, <1>6, <2>0
    <2>2. \A m \in f[0] : Above(m)
        BY <2>1 DEF Parents
    <2>3. ClosedUp(f[0]) \/ Cardinality(f[0]) > 0
        <3>1. CASE f[0] = {}
            BY <3>1 DEF ClosedUp, Parents
        <3>2. CASE f[0] # {}
            <4>1. IsFiniteSet(f[0])
                BY <1>1, <2>1, FS_Subset
            <4>2. Cardinality(f[0]) \in Nat /\ Cardinality(f[0]) # 0
                BY <3>2, <4>1, FS_CardinalityType, FS_EmptySet
            <4> QED BY <4>2
        <3> QED BY <3>1, <3>2
    <2> QED BY <2>1, <2>2, <2>3
<1>9. ASSUME NEW k \in Nat, k \in S PROVE k + 1 \in S
    <2> HIDE DEF P
    <2> SUFFICES ASSUME k + 1 <= size PROVE P(k + 1)
        OBVIOUS
    <2>1. P(k)
        BY <1>1, <1>9
    <2> USE DEF P
    <2> DEFINE A == f[k]
               B == f[k + 1]
    <2>2. B = A \cup Parents(A)
        <3>1. k + 1 \in 1..size /\ (k + 1) - 1 = k
            BY <1>1
        <3> QED BY <1>7, <3>1
    <2> HIDE DEF Above
    <2>3. /\ A \in SUBSET Nodes /\ Parents({n}) \subseteq A /\ \A m \in A : Above(m)
          /\ ClosedUp(A) \/ Cardinality(A) > k
        BY <2>1
    <2> SUFFICES /\ B \in SUBSET Nodes /\ Parents({n}) \subseteq B /\ \A m \in B : Above(m)
                 /\ ClosedUp(B) \/ Cardinality(B) > k + 1
        OBVIOUS
    <2> USE DEF Above
    <2> HIDE DEF A, B
    <2>4. B \in SUBSET Nodes /\ Parents({n}) \subseteq B
        BY <1>6, <2>2, <2>3
    <2>5. ASSUME NEW m \in B PROVE Above(m)
        <3>1. CASE m \in A
            BY <2>3, <3>1
        <3>2. CASE m \in Parents(A)
            <4>1. PICK d \in workflow.connections : d.to \in A /\ d.from = m
                BY <3>2 DEF Parents
            <4>2. PICK c \in workflow.connections :
                    c.to = n /\ (c.from = d.to \/ \A V : c.from \in V /\ ClosedUp(V) => d.to \in V)
                BY <2>3, <4>1
            <4>3. \A V : c.from \in V /\ ClosedUp(V) => m \in V
                BY <4>1, <4>2 DEF ClosedUp, Parents
            <4> QED BY <4>2, <4>3
        <3> QED BY <2>2, <3>1, <3>2
    <2>6. ClosedUp(B) \/ Cardinality(B) > k + 1
        <3>1. CASE ClosedUp(A)
            <4>1. B = A
                BY <2>2, <3>1 DEF ClosedUp
            <4> QED BY <3>1, <4>1
        <3>2. CASE ~ClosedUp(A)
            <4>1. Cardinality(A) > k /\ A # B /\ A \in SUBSET B
                BY <2>2, <2>3, <3>2 DEF ClosedUp
            <4>2. IsFiniteSet(A) /\ IsFiniteSet(B)
                BY <1>1, <2>3, <2>4, FS_Subset
            <4>3. Cardinality(A) <= Cardinality(B) /\ Cardinality(A) # Cardinality(B)
                    /\ Cardinality(A) \in Nat /\ Cardinality(B) \in Nat
                BY <4>1, <4>2, FS_Subset, FS_CardinalityType
            <4> QED BY <4>1, <4>3
        <3> QED BY <3>1, <3>2
    <2> QED BY <2>4, <2>5, <2>6
<1> HIDE DEF S
<1>10. size \in S
    BY <1>1, <1>8, <1>9, Induction
<1>11. P(size)
    <2> HIDE DEF P
    <2> QED BY <1>1, <1>10 DEF S
<1>12. ClosedUp(f[size])
    <2>1. f[size] \in SUBSET Nodes
        BY <1>11
    <2>2. Cardinality(f[size]) <= size
        BY <1>1, <2>1, FS_Subset DEF size
    <2>3. Cardinality(f[size]) \in Nat
        BY <1>1, <2>1, FS_Subset, FS_CardinalityType
    <2> QED BY <1>1, <1>11, <2>2, <2>3
<1> QED BY <1>2, <1>11, <1>12

\* The nodes above each node.
Ups == [n \in Nodes |-> getParentNodes(n)]

\* A strict order on the nodes, which the connections generate.
Order(C, up) ==
    /\ \A c \in C : c.from \in Nodes /\ c.to \in Nodes /\ c.from \in up[c.to]
    /\ \A l, m, n \in Nodes : l \in up[m] /\ m \in up[n] => l \in up[n]
    /\ \A n \in Nodes : n \notin up[n]
    /\ \A n \in Nodes : \A m \in up[n] : \E c \in C : c.to = n /\ (c.from = m \/ m \in up[c.from])

\* Without loops, getParentNodes is such an order.
LEMMA AcyclicOrder ==
    ASSUME workflow \in Workflows, IsAcyclic
    PROVE  Order(workflow.connections, Ups)
<1> DEFINE C == workflow.connections
           up == Ups
<1>1. \A c \in C : c.from \in Nodes /\ c.to \in Nodes
    BY WorkflowsAssumption DEF IsWorkflow, Connection
<1>2. ASSUME NEW n \in Nodes
      PROVE  /\ up[n] \in SUBSET Nodes /\ n \notin up[n] /\ Parents({n}) \subseteq up[n]
             /\ ClosedUp(up[n])
             /\ \A m \in up[n] : \E c \in C :
                    c.to = n /\ (c.from = m \/ \A V : c.from \in V /\ ClosedUp(V) => m \in V)
    <2>1. PICK U \in SUBSET Nodes :
            /\ getParentNodes(n) = U \ {n}
            /\ Parents({n}) \subseteq U /\ ClosedUp(U)
            /\ \A m \in U : \E c \in workflow.connections :
                    c.to = n /\ (c.from = m \/ \A V : c.from \in V /\ ClosedUp(V) => m \in V)
        BY Collected
    <2>2. n \notin Parents({n} \cup (U \ {n}))
        BY <2>1 DEF IsAcyclic
    <2>3. n \notin U
        <3> SUFFICES ASSUME n \in U PROVE FALSE
            OBVIOUS
        <3>1. PICK c \in C : c.to = n /\ (c.from = n \/ \A V : c.from \in V /\ ClosedUp(V) => n \in V)
            BY <2>1
        <3>2. c.from \in {n} \cup U
            BY <2>1, <3>1 DEF Parents
        <3>3. c.from # n
            BY <2>2, <3>1 DEF Parents
        <3> DEFINE V == {m \in U : m # n}
        <3>4. ClosedUp(V)
            <4> SUFFICES ASSUME NEW d \in C, d.to \in V PROVE d.from \in V
                BY DEF ClosedUp, Parents
            <4>1. d.from \in U
                BY <2>1 DEF ClosedUp, Parents
            <4>2. d.from # n
                BY <2>2 DEF Parents
            <4> QED BY <4>1, <4>2
        <3>5. c.from \in V
            BY <3>2, <3>3
        <3> QED BY <3>1, <3>3, <3>4, <3>5
    <2>4. up[n] = U
        BY <2>1, <2>3 DEF Ups
    <2> QED BY <2>1, <2>3, <2>4
<1> HIDE DEF up
<1>3. \A c \in C : c.from \in up[c.to]
    BY <1>1, <1>2 DEF Parents
<1>4. ASSUME NEW m \in Nodes, NEW n \in Nodes, m \in up[n]
      PROVE  \A l \in up[m] : l \in up[n]
    <2>1. Parents({m}) \subseteq up[n] /\ ClosedUp(up[n])
        BY <1>2, <1>4 DEF ClosedUp, Parents
    <2> TAKE l \in up[m]
    <2>2. PICK c \in C : c.to = m /\ (c.from = l \/ \A V : c.from \in V /\ ClosedUp(V) => l \in V)
        BY <1>2
    <2>3. c.from \in up[n]
        BY <2>1, <2>2 DEF Parents
    <2> QED BY <2>1, <2>2, <2>3
<1>5. ASSUME NEW n \in Nodes, NEW m \in up[n]
      PROVE  \E c \in C : c.to = n /\ (c.from = m \/ m \in up[c.from])
    <2>1. PICK c \in C : c.to = n /\ (c.from = m \/ \A V : c.from \in V /\ ClosedUp(V) => m \in V)
        BY <1>2
    <2>2. CASE c.from # m
        <3> DEFINE V == {c.from} \cup up[c.from]
        <3>1. c.from \in Nodes
            BY <1>1
        <3>2. ClosedUp(V)
            BY <1>2, <3>1 DEF ClosedUp, Parents
        <3> HIDE DEF V
        <3>3. m \in V
            BY <2>1, <2>2, <3>2 DEF V
        <3> QED BY <2>1, <2>2, <3>3 DEF V
    <2> QED BY <2>1, <2>2
<1>6. \A n \in Nodes : n \notin up[n]
    BY <1>2
<1> HIDE DEF C
<1>7. \A l, m, n \in Nodes : l \in up[m] /\ m \in up[n] => l \in up[n]
    BY <1>4
<1> QED BY <1>1, <1>3, <1>5, <1>6, <1>7 DEF Order, C, up
-----------------------------------------------------------------------------
(* Each node once, in sets: E are the nodes on the stack, W those that wait, F  *)
(* the connections whose data waits there, R the nodes that have run            *)

Once(up, E, W, F, R) ==
    /\ E \cap W = {} /\ R \cap (E \cup W) = {}
    /\ \A m \in E \cup W : \A n \in Nodes : m \in up[n] => n \notin R \cup E
    /\ \A c \in F : c.from \in R

\* Whatever leads to a node has run.
Sourced(C, n, R) == \A c \in C : c.to = n => c.from \in R

\* While the data of m is passed on: nothing below m has run, and what is on the stack
\* lacks nothing.
During(C, up, m, E, W, F, R) ==
    /\ Once(up, E, W, F, R)
    /\ m \in R
    /\ \A n \in Nodes : m \in up[n] => n \notin R
    /\ \A n \in E : m \in up[n] => Sourced(C, n, R)

\* With fewer entries on the stack.
LEMMA OnceFewer ==
    ASSUME NEW up, NEW E, NEW W, NEW F, NEW R, Once(up, E, W, F, R), NEW D, D \subseteq E
    PROVE  Once(up, D, W, F, R)
BY DEF Once

\* A node of the stack has run.
LEMMA OnceRan ==
    ASSUME NEW C, NEW up, Order(C, up), NEW E \in SUBSET Nodes, NEW W, NEW F, NEW R,
           Once(up, E, W, F, R), NEW m \in E
    PROVE  During(C, up, m, E \ {m}, W, F, R \cup {m})
<1>1. Once(up, E \ {m}, W, F, R \cup {m})
    BY DEF Once
<1>2. ASSUME NEW n \in Nodes, m \in up[n] PROVE n \notin R \cup E
    BY <1>2 DEF Once
<1> QED BY <1>1, <1>2 DEF During

\* Nothing that is sourced is below a node that has not run.
LEMMA NotBelow ==
    ASSUME NEW C, NEW up, Order(C, up), NEW R, NEW n \in Nodes, Sourced(C, n, R),
           NEW a \in Nodes, a \in up[n]
    PROVE  a \in R \/ \E b \in Nodes : b \in R /\ a \in up[b]
<1>1. PICK c \in C : c.to = n /\ (c.from = a \/ a \in up[c.from])
    BY DEF Order
<1>2. c.from \in R /\ c.from \in Nodes
    BY <1>1 DEF Order, Sourced
<1> QED BY <1>1, <1>2

\* A child of m waits, with the data of m.
LEMMA DuringWaits ==
    ASSUME NEW C, NEW up, Order(C, up), NEW m \in Nodes, NEW E \in SUBSET Nodes, NEW W, NEW F, NEW R,
           During(C, up, m, E, W, F, R), NEW c \in C, c.from = m, c.to \notin E
    PROVE  During(C, up, m, E, W \cup {c.to}, F \cup {c}, R)
<1> DEFINE n == c.to
<1>1. n \in Nodes /\ m \in up[n]
    BY DEF Order
<1>2. n \notin R /\ m \in R
    BY <1>1 DEF During
<1>3. ASSUME NEW k \in Nodes, n \in up[k] PROVE k \notin R \cup E
    <2>1. m \in up[k]
        BY <1>1, <1>3 DEF Order
    <2>2. k \notin R
        BY <2>1 DEF During
    <2>3. k \notin E
        <3> SUFFICES ASSUME k \in E PROVE FALSE
            OBVIOUS
        <3>1. Sourced(C, k, R)
            BY <2>1 DEF During
        <3>2. PICK b \in Nodes : b \in R /\ n \in up[b]
            BY <1>1, <1>2, <1>3, <3>1, NotBelow
        <3>3. m \in up[b]
            BY <1>1, <3>2 DEF Order
        <3> QED BY <3>2, <3>3 DEF During
    <2> QED BY <2>2, <2>3
<1>4. Once(up, E, W \cup {n}, F \cup {c}, R)
    <2>1. E \cap (W \cup {n}) = {} /\ R \cap (E \cup (W \cup {n})) = {}
        BY <1>2 DEF During, Once
    <2>2. \A a \in E \cup (W \cup {n}) : \A k \in Nodes : a \in up[k] => k \notin R \cup E
        BY <1>3 DEF During, Once
    <2>3. \A d \in F \cup {c} : d.from \in R
        BY <1>2 DEF During, Once
    <2> QED BY <2>1, <2>2, <2>3 DEF Once
<1> QED BY <1>4 DEF During

\* A child of m, sourced, comes on the stack.
LEMMA DuringPushes ==
    ASSUME NEW C, NEW up, Order(C, up), NEW m \in Nodes, NEW E \in SUBSET Nodes,
           NEW W \in SUBSET Nodes, NEW F, NEW R,
           During(C, up, m, E, W, F, R), NEW n \in Nodes, m \in up[n], n \notin E, Sourced(C, n, R),
           NEW V, V \subseteq W \ {n}, NEW G, G \subseteq F
    PROVE  During(C, up, m, E \cup {n}, V, G, R)
<1>1. n \notin R /\ m \in R
    BY DEF During
<1>2. ASSUME NEW k \in Nodes, n \in up[k] PROVE k \notin R \cup (E \cup {n})
    <2>1. m \in up[k]
        BY <1>2 DEF Order
    <2>2. k \notin R /\ k # n
        BY <1>2, <2>1 DEF During, Order
    <2>3. k \notin E
        <3> SUFFICES ASSUME k \in E PROVE FALSE
            OBVIOUS
        <3>1. Sourced(C, k, R)
            BY <2>1 DEF During
        <3>2. PICK b \in Nodes : b \in R /\ n \in up[b]
            BY <1>1, <1>2, <3>1, NotBelow
        <3>3. m \in up[b]
            BY <3>2 DEF Order
        <3> QED BY <3>2, <3>3 DEF During
    <2> QED BY <2>2, <2>3
<1>3. ASSUME NEW a \in E \cup V, a \in up[n] PROVE FALSE
    <2>1. a \in Nodes /\ a \notin R /\ \A k \in Nodes : a \in up[k] => k \notin R
        BY DEF During, Once
    <2> QED BY <1>3, <2>1, NotBelow
<1>4. Once(up, E \cup {n}, V, G, R)
    <2>1. (E \cup {n}) \cap V = {} /\ R \cap ((E \cup {n}) \cup V) = {}
        BY <1>1 DEF During, Once
    <2>2. ASSUME NEW a \in (E \cup {n}) \cup V, NEW k \in Nodes, a \in up[k]
          PROVE  k \notin R \cup (E \cup {n})
        <3>1. CASE a = n
            BY <1>2, <2>2, <3>1
        <3>2. CASE a # n
            <4>1. a \in E \cup V
                BY <3>2
            <4>2. k # n
                BY <1>3, <2>2, <4>1
            <4>3. k \notin R \cup E
                BY <2>2, <4>1 DEF During, Once
            <4> QED BY <4>2, <4>3
        <3> QED BY <3>1, <3>2
    <2>3. \A d \in G : d.from \in R
        BY DEF During, Once
    <2> QED BY <2>1, <2>2, <2>3 DEF Once
<1>5. \A k \in E \cup {n} : m \in up[k] => Sourced(C, k, R)
    BY DEF During
<1> QED BY <1>4, <1>5 DEF During

\* A node that waits, for none that waits itself, is run when nothing else is.
LEMMA OnceRunsWaiting ==
    ASSUME NEW C, NEW up, Order(C, up), NEW W \in SUBSET Nodes, NEW F, NEW R,
           Once(up, {}, W, F, R), NEW n \in W, up[n] \cap W = {}, NEW G, G \subseteq F
    PROVE  Once(up, {n}, W \ {n}, G, R)
<1>1. \A a \in {n} \cup (W \ {n}) : \A k \in Nodes : a \in up[k] => k \notin R \cup {n}
    <2> SUFFICES ASSUME NEW a \in W, NEW k \in Nodes, a \in up[k] PROVE k \notin R /\ k # n
        OBVIOUS
    <2> QED BY DEF Once
<1> QED BY <1>1 DEF Once
-----------------------------------------------------------------------------
(* What data for one of two inputs does, where at most one entry waits       *)

\* The nodes on a stack, those that wait, and the connections with data there.
NodesOf(w, s) == {s[i].node : i \in 1..Len(s)} \ ToolNodes(w)
WaitsIn(rooms) == {n \in Nodes : DOMAIN rooms[n] # {}}
HasData(room, input) == \E i \in DOMAIN room : room[i][input + 1] # Missing
FilledIn(C, rooms) == {c \in C : HasData(rooms[c.to], c.input)}

\* No node is on a stack twice, and none waits twice.
Differ(w, s) ==
    \A i, j \in 1..Len(s) : s[i].node \notin ToolNodes(w) /\ s[i].node = s[j].node => i = j
Small(rooms) == \A n \in Nodes : \A i, j \in DOMAIN rooms[n] : i = j

\* A node that waits has two inputs, and all of them have data when it no longer does.
LEMMA AddWaitingEffect ==
    ASSUME workflow \in Workflows, NEW plan, PlanInv(plan), Small(plan.waiting),
           NEW n \in Nodes, numberOfInputs(n) > 1, NEW input \in Indexes, NEW slot \in Data,
           ~HasData(plan.waiting[n], input)
    PROVE  LET p == AddWaiting(plan, n, input, slot)
           IN  /\ \A m \in Nodes \ {n} : p.waiting[m] = plan.waiting[m]
               /\ \/ /\ p.stack = plan.stack
                     /\ DOMAIN p.waiting[n] # {} /\ \A i, j \in DOMAIN p.waiting[n] : i = j
                     /\ \A k \in Indexes : HasData(p.waiting[n], k) =>
                            k = input \/ HasData(plan.waiting[n], k)
                  \/ /\ \E data \in Seq(Data) : /\ data # <<>>
                                                /\ p.stack = <<Entry(n, data)>> \o plan.stack
                     /\ DOMAIN p.waiting[n] = {}
                     /\ \A k \in Indexes : k = input \/ HasData(plan.waiting[n], k)
<1> DEFINE entries == plan.waiting[n]
           index   == WaitingIndex(entries, input)
           old     == IF index \in DOMAIN entries /\ entries[index][input + 1] = Missing
                      THEN entries[index]
                      ELSE [i \in 1..numberOfInputs(n) |-> Missing]
           new     == [old EXCEPT ![input + 1] = slot]
           updated == [i \in DOMAIN entries \cup {index} |-> IF i = index THEN new ELSE entries[i]]
           keys    == IF Contains(plan.waitingNodes, n) THEN plan.waitingNodes
                      ELSE Append(plan.waitingNodes, n)
           stored  == [plan EXCEPT !.waiting[n] = updated, !.waitingNodes = keys]
           p       == AddWaiting(plan, n, input, slot)
           left    == DOMAIN updated \ {index}
<1>1. p = IF Contains(new, Missing) THEN stored
          ELSE [RemoveWaiting(stored, n, index) EXCEPT !.stack = <<Entry(n, new)>> \o @]
    BY DEF AddWaiting
<1>2. /\ plan \in [stack : Seq(Fed), waiting : [Nodes -> Rooms], waitingNodes : Seq(Nodes)]
      /\ IsFiniteSet(DOMAIN entries)
      /\ \A i \in DOMAIN entries : Len(entries[i]) = numberOfInputs(n)
    BY DEF PlanInv, PlanShape
<1>3. numberOfInputs(n) = 2 /\ input \in 0..1
    BY InputsType DEF Indexes
<1> HIDE DEF p
<1>4. /\ entries \in Rooms /\ DOMAIN entries \in SUBSET Nat
      /\ \A i \in DOMAIN entries : entries[i] \in Seq(Slots) /\ Len(entries[i]) = 2
                                    /\ entries[i][input + 1] = Missing
      /\ \A i, j \in DOMAIN entries : i = j
    <2>1. entries \in Rooms
        BY <1>2
    <2>2. \A i \in DOMAIN entries : entries[i][input + 1] = Missing
        BY DEF HasData
    <2>3. \A i, j \in DOMAIN entries : i = j
        BY DEF Small
    <2> HIDE DEF entries
    <2>4. DOMAIN entries \in SUBSET Nat /\ \A i \in DOMAIN entries : entries[i] \in Seq(Slots)
        BY <2>1, RoomType
    <2> QED BY <1>2, <1>3, <2>1, <2>2, <2>3, <2>4
<1>5. /\ DOMAIN entries \subseteq {index}
      /\ old \in Seq(Slots) /\ Len(old) = 2
      /\ \A k \in Indexes : old[k + 1] # Missing <=> HasData(entries, k)
    <2> HIDE DEF entries
    <2>1. CASE DOMAIN entries = {}
        <3>1. old = [i \in 1..2 |-> Missing]
            BY <1>3, <2>1
        <3> HIDE DEF old
        <3>2. old \in Seq(Slots) /\ Len(old) = 2
            BY <3>1, DataFacts
        <3>3. \A k \in Indexes : old[k + 1] = Missing
            BY <3>1 DEF Indexes
        <3> QED BY <2>1, <3>2, <3>3 DEF HasData
    <2>2. CASE DOMAIN entries # {}
        <3> DEFINE lacking == {i \in DOMAIN entries : entries[i][input + 1] = Missing}
        <3>1. lacking = DOMAIN entries /\ lacking \in SUBSET Nat
            BY <1>4
        <3>2. index = Min(lacking)
            BY <2>2, <3>1 DEF WaitingIndex
        <3> HIDE DEF lacking
        <3>3. index \in DOMAIN entries
            BY <2>2, <3>1, <3>2, MinType
        <3> HIDE DEF index
        <3>4. old = entries[index]
            BY <1>4, <3>3
        <3>5. DOMAIN entries = {index}
            BY <1>4, <3>3
        <3> HIDE DEF old
        <3> QED BY <1>4, <3>3, <3>4, <3>5 DEF HasData
    <2> QED BY <2>1, <2>2
<1> HIDE DEF index, old
<1>6. /\ Len(new) = 2 /\ new \in Seq(Slots)
      /\ \A k \in Indexes : new[k + 1] # Missing <=> k = input \/ HasData(entries, k)
    <2>1. slot \in Slots /\ slot # Missing
        BY DataFacts
    <2>2. input + 1 \in 1..Len(old)
        BY <1>3, <1>5
    <2>3. /\ new \in Seq(Slots) /\ Len(new) = Len(old) /\ new[input + 1] = slot
          /\ \A i \in 1..Len(old) : i # input + 1 => new[i] = old[i]
        <3> DEFINE place == input + 1
        <3>1. new = [old EXCEPT ![place] = slot]
            OBVIOUS
        <3>2. place \in 1..Len(old)
            BY <2>2
        <3>3. old \in Seq(Slots) /\ slot \in Slots
            BY <1>5, <2>1
        <3> HIDE DEF new, entries, place
        <3>4. /\ [old EXCEPT ![place] = slot] \in Seq(Slots)
              /\ Len([old EXCEPT ![place] = slot]) = Len(old)
              /\ \A i \in 1..Len(old) :
                    [old EXCEPT ![place] = slot][i] = IF i = place THEN slot ELSE old[i]
            BY <3>2, <3>3, ExceptSeq
        <3>5. /\ new \in Seq(Slots) /\ Len(new) = Len(old)
              /\ \A i \in 1..Len(old) : new[i] = IF i = place THEN slot ELSE old[i]
            BY <3>1, <3>4
        <3> QED BY <3>2, <3>5 DEF place
    <2>4. \A k \in Indexes : k + 1 \in 1..Len(old) /\ (k # input => k + 1 # input + 1)
        BY <1>3, <1>5 DEF Indexes
    <2> HIDE DEF new, entries
    <2> QED BY <1>5, <2>1, <2>3, <2>4
<1> HIDE DEF new
<1>7. /\ DOMAIN updated = {index} /\ updated[index] = new
      /\ \A k \in Indexes : HasData(updated, k) => k = input \/ HasData(entries, k)
    <2>1. DOMAIN updated = {index} /\ updated[index] = new
        BY <1>5
    <2> HIDE DEF updated, entries
    <2> QED BY <1>6, <2>1 DEF HasData
<1> DEFINE rooms == [plan.waiting EXCEPT ![n] = updated]
<1>8. stored = [stack |-> plan.stack, waiting |-> rooms, waitingNodes |-> keys]
    <2>1. stored = [plan EXCEPT !.waiting[n] = updated, !.waitingNodes = keys]
        OBVIOUS
    <2> HIDE DEF stored, entries, updated, keys
    <2> QED BY <1>2, <2>1
<1>9. /\ stored.stack = plan.stack /\ stored.waiting = rooms
      /\ rooms[n] = updated /\ \A m \in Nodes \ {n} : rooms[m] = plan.waiting[m]
    <2> HIDE DEF updated, keys, stored
    <2> QED BY <1>2, <1>8
<1> HIDE DEF updated, keys, rooms
<1>10. CASE Contains(new, Missing)
    <2>1. p = stored
        BY <1>1, <1>10
    <2> HIDE DEF stored, entries
    <2> QED BY <1>7, <1>9, <2>1 DEF p, entries
<1>11. CASE ~Contains(new, Missing)
    <2> DEFINE none == [i \in {} |-> rooms[n][i]]
               r == RemoveWaiting(stored, n, index)
               rest == [rooms EXCEPT ![n] = none]
               others == RemoveFirst(keys, n)
    <2>1. p = [r EXCEPT !.stack = <<Entry(n, new)>> \o @]
        BY <1>1, <1>11
    <2>2. r = [stack |-> plan.stack, waiting |-> rest, waitingNodes |-> others]
        <3>1. DOMAIN stored.waiting[n] \ {index} = {}
            BY <1>7, <1>9
        <3>2. r = [stored EXCEPT !.waiting[n] = [i \in {} |-> stored.waiting[n][i]],
                                 !.waitingNodes = RemoveFirst(@, n)]
            BY <3>1 DEF RemoveWaiting
        <3> HIDE DEF r, others, stored
        <3>3. r = [stored EXCEPT !.waiting[n] = none, !.waitingNodes = RemoveFirst(@, n)]
            BY <1>9, <3>2
        <3> HIDE DEF none
        <3> QED BY <1>8, <3>3 DEF others
    <2> HIDE DEF r, others
    <2>3. p.stack = <<Entry(n, new)>> \o plan.stack /\ p.waiting = rest
        <3> HIDE DEF rest
        <3> QED BY <2>1, <2>2
    <2>4. DOMAIN none = {}
        OBVIOUS
    <2> HIDE DEF none
    <2>5. DOMAIN rest[n] = {} /\ \A m \in Nodes \ {n} : rest[m] = plan.waiting[m]
        <3>1. rooms = [plan.waiting EXCEPT ![n] = updated] /\ plan.waiting \in [Nodes -> Rooms]
            BY <1>2 DEF rooms
        <3> QED BY <2>4, <3>1
    <2> HIDE DEF rest
    <2>6. \A i \in 1..2 : new[i] # Missing
        BY <1>6, <1>11 DEF Contains
    <2>7. new \in Seq(Data) /\ new # <<>>
        <3>1. new \in Seq(Slots) /\ Len(new) = 2
            BY <1>6
        <3>2. \A i \in 1..Len(new) : new[i] # Missing
            BY <2>6, <3>1
        <3>3. \A i \in 1..Len(new) : new[i] \in Data
            <4>1. \A i \in 1..Len(new) : new[i] \in Slots
                BY <3>1, ElementOfSeq
            <4> QED BY <3>2, <4>1 DEF Slots
        <3>4. new \in Seq(Data)
            <4>1. Len(new) \in Nat /\ new = [i \in 1..Len(new) |-> new[i]]
                BY <3>1
            <4>2. new \in [1..Len(new) -> Data]
                BY <3>3, <4>1
            <4> QED BY <4>1, <4>2
        <3>5. Len(new) # 0
            BY <3>1
        <3> QED BY <3>4, <3>5
    <2>8. \A k \in Indexes : k = input \/ HasData(entries, k)
        <3>1. \A k \in Indexes : k + 1 \in 1..2
            BY DEF Indexes
        <3> HIDE DEF entries
        <3> QED BY <1>6, <2>6, <3>1
    <2> HIDE DEF entries
    <2> QED BY <2>3, <2>5, <2>7, <2>8 DEF p, entries
<1> QED BY <1>10, <1>11
-----------------------------------------------------------------------------
(* The data of a node goes on to nodes that it is new to                     *)

\* A node has as many inputs as its connections need.
LEMMA InputBelow ==
    ASSUME workflow \in Workflows, NEW c \in workflow.connections
    PROVE  c.input < numberOfInputs(c.to)
<1>1. InputsOf(c.to) \subseteq 0..1
    BY WorkflowsAssumption DEF IsWorkflow, InputsOf, Connection, Indexes
<1>2. c.input \in InputsOf(c.to)
    BY DEF InputsOf
<1> DEFINE S == InputsOf(c.to)
<1> HIDE DEF S
<1>3. \E x \in S : \A y \in S : x >= y
    <2>1. CASE 1 \in S
        <3>1. \A y \in S : 1 >= y
            BY <1>1 DEF S
        <3> QED BY <2>1, <3>1
    <2>2. CASE 1 \notin S
        <3>1. S \subseteq {0}
            BY <1>1, <2>2 DEF S
        <3>2. 0 \in S /\ \A y \in S : 0 >= y
            BY <1>2, <3>1 DEF S
        <3> QED BY <3>2
    <2> QED BY <2>1, <2>2
<1>4. Max(S) \in S /\ \A y \in S : Max(S) >= y
    BY <1>3 DEF Max
<1>5. numberOfInputs(c.to) = Max(S) + 1
    BY <1>2 DEF numberOfInputs, S
<1>6. Max(S) \in 0..1 /\ c.input \in 0..1 /\ Max(S) >= c.input
    BY <1>1, <1>2, <1>4 DEF S
<1> QED BY <1>5, <1>6

\* m has run and its data goes on; the connections in D have been served.
Delivering(C, up, m, R, plan, D) ==
    /\ During(C, up, m, NodesOf(workflow, plan.stack), WaitsIn(plan.waiting),
              FilledIn(C, plan.waiting), R)
    /\ Differ(workflow, plan.stack) /\ Small(plan.waiting)
    /\ \A c \in C \ D : c.from = m => /\ c \notin FilledIn(C, plan.waiting)
                                      /\ c.to \notin NodesOf(workflow, plan.stack)

\* One entry more on a stack.
LEMMA OneMore ==
    ASSUME NEW w, NEW s \in Seq(Entries), NEW e \in Entries
    PROVE  /\ NodesOf(w, <<e>> \o s) = NodesOf(w, s) \cup ({e.node} \ ToolNodes(w))
           /\ Differ(w, <<e>> \o s) <=> Differ(w, s) /\ e.node \notin NodesOf(w, s)
<1> DEFINE t == <<e>> \o s
<1>1. /\ Len(s) \in Nat /\ Len(t) = Len(s) + 1 /\ t[1] = e
      /\ \A i \in 1..Len(s) : t[i + 1] = s[i]
    OBVIOUS
<1> HIDE DEF t
<1>2. \A i \in 1..Len(t) : (t[i] = e /\ i = 1) \/ (i - 1 \in 1..Len(s) /\ t[i] = s[i - 1])
    BY <1>1
<1>3. NodesOf(w, t) = NodesOf(w, s) \cup ({e.node} \ ToolNodes(w))
    <2>1. ASSUME NEW x PROVE x \in NodesOf(w, t) => x \in NodesOf(w, s) \cup ({e.node} \ ToolNodes(w))
        BY <1>2 DEF NodesOf
    <2>2. ASSUME NEW x PROVE x \in NodesOf(w, s) => x \in NodesOf(w, t)
        <3> SUFFICES ASSUME NEW i \in 1..Len(s), x = s[i].node, x \notin ToolNodes(w)
                     PROVE  x \in NodesOf(w, t)
            BY DEF NodesOf
        <3>1. i + 1 \in 1..Len(t) /\ t[i + 1] = s[i]
            BY <1>1
        <3> QED BY <3>1 DEF NodesOf
    <2>3. e.node \notin ToolNodes(w) => e.node \in NodesOf(w, t)
        <3>1. 1 \in 1..Len(t)
            BY <1>1
        <3> QED BY <1>1, <3>1 DEF NodesOf
    <2> QED BY <2>1, <2>2, <2>3
<1>4. ASSUME Differ(w, s), e.node \notin NodesOf(w, s)
      PROVE  Differ(w, t)
    <2> SUFFICES ASSUME NEW i \in 1..Len(t), NEW j \in 1..Len(t),
                        t[i].node \notin ToolNodes(w), t[i].node = t[j].node
                 PROVE  i = j
        BY DEF Differ
    <2>1. ASSUME NEW k \in 1..Len(s), s[k].node = e.node PROVE e.node \in ToolNodes(w)
        BY <1>4, <2>1 DEF NodesOf
    <2>2. CASE i = 1 \/ j = 1
        BY <1>1, <1>2, <2>1, <2>2
    <2>3. CASE i # 1 /\ j # 1
        <3>1. /\ i - 1 \in 1..Len(s) /\ t[i] = s[i - 1]
              /\ j - 1 \in 1..Len(s) /\ t[j] = s[j - 1]
            BY <1>2, <2>3
        <3>2. i - 1 = j - 1
            BY <1>4, <3>1 DEF Differ
        <3> QED BY <3>2
    <2> QED BY <2>2, <2>3
<1>5. ASSUME Differ(w, t)
      PROVE  Differ(w, s) /\ e.node \notin NodesOf(w, s)
    <2>1. \A i \in 1..Len(s) : i + 1 \in 1..Len(t) /\ t[i + 1] = s[i] /\ i + 1 # 1
        BY <1>1
    <2>2. ASSUME NEW i \in 1..Len(s), NEW j \in 1..Len(s),
                 s[i].node \notin ToolNodes(w), s[i].node = s[j].node
          PROVE  i = j
        <3>1. i + 1 = j + 1
            BY <1>5, <2>1, <2>2 DEF Differ
        <3> QED BY <3>1
    <2>3. 1 \in 1..Len(t)
        BY <1>1
    <2>4. ASSUME NEW i \in 1..Len(s), s[i].node = e.node
          PROVE  e.node \in ToolNodes(w)
        BY <1>1, <1>5, <2>1, <2>3, <2>4 DEF Differ
    <2> QED BY <2>2, <2>4 DEF Differ, NodesOf
<1> QED BY <1>3, <1>4, <1>5 DEF t

\* What the nodes on a stack and those that wait are.
LEMMA NodesType ==
    ASSUME NEW w, NEW s \in Seq(Entries), NEW rooms
    PROVE  NodesOf(w, s) \in SUBSET Nodes /\ WaitsIn(rooms) \in SUBSET Nodes
<1>1. \A i \in 1..Len(s) : s[i].node \in Nodes
    BY EntryFields
<1> QED BY <1>1 DEF NodesOf, WaitsIn

\* A child with one input.
LEMMA DeliversToStack ==
    ASSUME workflow \in Workflows, PlainAgents(workflow), OneSourcePerInput,
           Order(workflow.connections, Ups), NEW m \in Nodes, NEW R, NEW plan, PlanInv(plan), NEW D,
           Delivering(workflow.connections, Ups, m, R, plan, D),
           NEW c \in workflow.connections, c.from = m, c \notin D,
           ~(numberOfInputs(c.to) > 1), NEW e \in Fed, e.node = c.to,
           NEW after, after.stack = <<e>> \o plan.stack, after.waiting = plan.waiting
    PROVE  Delivering(workflow.connections, Ups, m, R, after, D \cup {c})
<1> DEFINE C == workflow.connections
           up == Ups
           n == c.to
           E == NodesOf(workflow, plan.stack)
           W == WaitsIn(plan.waiting)
           F == FilledIn(C, plan.waiting)
<1>1. n \in Nodes /\ m \in up[n] /\ n \notin ToolNodes(workflow)
    BY ToolNode DEF Order
<1>2. plan.stack \in Seq(Fed) /\ plan.stack \in Seq(Entries)
    BY DEF PlanInv, PlanShape, Fed
<1>3. n \notin W
    BY <1>1 DEF PlanInv, PlanShape, WaitsIn
<1>4. \A d \in C : d.to = n => d = c
    <2> SUFFICES ASSUME NEW d \in C, d.to = n PROVE d = c
        OBVIOUS
    <2>1. d.input < numberOfInputs(n) /\ c.input < numberOfInputs(n) /\ numberOfInputs(n) \in 0..2
        BY InputBelow, InputsType
    <2>2. d.input \in 0..1 /\ c.input \in 0..1
        BY WorkflowsAssumption DEF IsWorkflow, Connection, Indexes
    <2>3. d.input = c.input
        BY <2>1, <2>2
    <2> QED BY <2>3 DEF OneSourcePerInput
<1>5. /\ During(C, up, m, E, W, F, R) /\ Differ(workflow, plan.stack) /\ Small(plan.waiting)
      /\ n \notin E
      /\ \A d \in C \ D : d.from = m => d \notin F /\ d.to \notin E
    BY DEF Delivering
<1>6. Sourced(C, n, R)
    BY <1>4, <1>5 DEF Sourced, During
<1>7. NodesOf(workflow, after.stack) = E \cup {n} /\ Differ(workflow, after.stack)
    <2>1. {e.node} \ ToolNodes(workflow) = {n} /\ e \in Entries
        BY <1>1 DEF Fed
    <2> QED BY <1>2, <1>5, <2>1, OneMore
<1>8. E \in SUBSET Nodes /\ W \in SUBSET Nodes
    BY <1>2, NodesType
<1> HIDE DEF E, W, F, C, up
<1>9. During(C, up, m, E \cup {n}, W, F, R)
    <2>1. W \subseteq W \ {n} /\ F \subseteq F
        BY <1>3
    <2>2. Order(C, up)
        BY DEF C, up
    <2> HIDE DEF n
    <2> QED BY <1>1, <1>5, <1>6, <1>8, <2>1, <2>2, DuringPushes DEF n
<1>10. \A d \in C \ (D \cup {c}) : d.from = m => d \notin F /\ d.to \notin E \cup {n}
    BY <1>4, <1>5
<1> QED BY <1>5, <1>7, <1>9, <1>10 DEF Delivering, E, W, F, C, up

\* A child with several inputs.
LEMMA DeliversToRoom ==
    ASSUME workflow \in Workflows, PlainAgents(workflow), OneSourcePerInput,
           Order(workflow.connections, Ups), NEW m \in Nodes, NEW R, NEW plan, PlanInv(plan), NEW D,
           Delivering(workflow.connections, Ups, m, R, plan, D),
           NEW c \in workflow.connections, c.from = m, c \notin D,
           numberOfInputs(c.to) > 1, NEW slot \in Data
    PROVE  Delivering(workflow.connections, Ups, m, R, AddWaiting(plan, c.to, c.input, slot), D \cup {c})
<1> DEFINE C == workflow.connections
           up == Ups
           n == c.to
           E == NodesOf(workflow, plan.stack)
           W == WaitsIn(plan.waiting)
           F == FilledIn(C, plan.waiting)
           after == AddWaiting(plan, n, c.input, slot)
           G == FilledIn(C, after.waiting)
<1>1. n \in Nodes /\ m \in up[n] /\ n \notin ToolNodes(workflow)
    BY ToolNode DEF Order
<1>2. plan.stack \in Seq(Fed) /\ plan.stack \in Seq(Entries)
    BY DEF PlanInv, PlanShape, Fed
<1>3. /\ During(C, up, m, E, W, F, R) /\ Differ(workflow, plan.stack) /\ Small(plan.waiting)
      /\ n \notin E /\ c \notin F
      /\ \A d \in C \ D : d.from = m => d \notin F /\ d.to \notin E
    BY DEF Delivering
<1>4. E \in SUBSET Nodes /\ W \in SUBSET Nodes
    BY <1>2, NodesType
<1>5. \A d \in C : d.to \in Nodes /\ d.input \in Indexes /\ (d.to = n /\ d.input = c.input => d = c)
    BY WorkflowsAssumption DEF OneSourcePerInput, IsWorkflow, Connection
<1>6. ~HasData(plan.waiting[n], c.input)
    BY <1>3 DEF FilledIn
<1>7. /\ \A k \in Nodes \ {n} : after.waiting[k] = plan.waiting[k]
      /\ \/ /\ after.stack = plan.stack
            /\ DOMAIN after.waiting[n] # {} /\ \A i, j \in DOMAIN after.waiting[n] : i = j
            /\ \A k \in Indexes : HasData(after.waiting[n], k) =>
                    k = c.input \/ HasData(plan.waiting[n], k)
         \/ /\ \E data \in Seq(Data) : /\ data # <<>>
                                       /\ after.stack = <<Entry(n, data)>> \o plan.stack
            /\ DOMAIN after.waiting[n] = {}
            /\ \A k \in Indexes : k = c.input \/ HasData(plan.waiting[n], k)
    <2> DEFINE input == c.input
    <2>1. input \in Indexes /\ ~HasData(plan.waiting[n], input)
        BY <1>5, <1>6
    <2> HIDE DEF input, n
    <2> QED BY <1>1, <1>3, <2>1, AddWaitingEffect DEF input, n
<1> HIDE DEF after
<1>8. \A d \in C : d.to # n => (d \in G <=> d \in F)
    BY <1>5, <1>7 DEF FilledIn
<1>9. \A d \in C : d.to = n => (d \in F <=> HasData(plan.waiting[n], d.input))
                                /\ (d \in G <=> HasData(after.waiting[n], d.input))
    BY DEF FilledIn
<1>10. G \subseteq C
    BY DEF FilledIn
<1>11. Order(C, up) /\ m \in R
    BY <1>3 DEF During
<1>12. CASE /\ after.stack = plan.stack
            /\ DOMAIN after.waiting[n] # {} /\ \A i, j \in DOMAIN after.waiting[n] : i = j
            /\ \A k \in Indexes : HasData(after.waiting[n], k) =>
                    k = c.input \/ HasData(plan.waiting[n], k)
    <2>1. WaitsIn(after.waiting) = W \cup {n} /\ Small(after.waiting)
        BY <1>1, <1>3, <1>7, <1>12 DEF WaitsIn, Small
    <2>2. G \subseteq F \cup {c}
        BY <1>5, <1>8, <1>9, <1>10, <1>12
    <2> HIDE DEF G, F, E, W, C, up
    <2>3. During(C, up, m, E, W \cup {n}, F \cup {c}, R)
        BY <1>3, <1>4, <1>11, DuringWaits DEF C
    <2>4. During(C, up, m, E, W \cup {n}, G, R)
        BY <2>2, <2>3 DEF During, Once
    <2>5. \A d \in C \ (D \cup {c}) : d.from = m => d \notin G /\ d.to \notin E
        BY <1>3, <2>2
    <2> QED BY <1>3, <1>12, <2>1, <2>4, <2>5 DEF Delivering, G, F, E, W, C, up, after
<1>13. CASE /\ \E data \in Seq(Data) : /\ data # <<>>
                                       /\ after.stack = <<Entry(n, data)>> \o plan.stack
            /\ DOMAIN after.waiting[n] = {}
            /\ \A k \in Indexes : k = c.input \/ HasData(plan.waiting[n], k)
    <2>1. WaitsIn(after.waiting) = W \ {n} /\ Small(after.waiting)
        BY <1>1, <1>3, <1>7, <1>13 DEF WaitsIn, Small
    <2>2. G \subseteq F
        <3>1. \A d \in C : d.to = n => d \notin G
            BY <1>9, <1>13 DEF HasData
        <3> QED BY <1>8, <1>10, <3>1
    <2>3. \A d \in C : d.to = n => d = c \/ d \in F
        BY <1>5, <1>9, <1>13
    <2>4. Sourced(C, n, R)
        BY <1>3, <1>11, <2>3 DEF Sourced, During, Once
    <2>5. NodesOf(workflow, after.stack) = E \cup {n} /\ Differ(workflow, after.stack)
        <3>1. PICK data \in Seq(Data) : /\ data # <<>>
                                        /\ after.stack = <<Entry(n, data)>> \o plan.stack
            BY <1>13
        <3> DEFINE e == Entry(n, data)
        <3>2. e \in Entries /\ e.node = n
            BY <1>1, <3>1, EntryType DEF Entry, Fed
        <3>3. {e.node} \ ToolNodes(workflow) = {n}
            BY <1>1, <3>2
        <3> HIDE DEF e
        <3> QED BY <1>2, <1>3, <3>1, <3>2, <3>3, OneMore DEF e
    <2> HIDE DEF G, F, E, W, C, up
    <2>6. During(C, up, m, E \cup {n}, W \ {n}, G, R)
        <3> HIDE DEF n
        <3> QED BY <1>1, <1>3, <1>4, <1>11, <2>2, <2>4, DuringPushes
    <2>7. \A d \in C \ (D \cup {c}) : d.from = m => d \notin G /\ d.to \notin E \cup {n}
        BY <1>3, <2>2, <2>3
    <2> QED BY <2>1, <2>5, <2>6, <2>7 DEF Delivering, G, F, E, W, C, up, after
<1> QED BY <1>7, <1>12, <1>13

\* The first of the connections of a run.
ServedUpTo(n, output, l) == {Outgoing(n, output)[j] : j \in 1..l}

\* A run's data goes on to all children, one after the other.
LEMMA DeliversEach ==
    ASSUME workflow \in Workflows, PlainAgents(workflow), OneSourcePerInput, PlanInv(Plan),
           Order(workflow.connections, Ups), NEW m \in Nodes, NEW R, NEW run \in Nat, NEW output,
           Delivering(workflow.connections, Ups, m, R, Plan, {}),
           NEW l \in 0..Cardinality(ConnectionsOf(m, output))
    PROVE  Delivering(workflow.connections, Ups, m, R, Added(Children(m, run, output))[l],
                      ServedUpTo(m, output, l))
<1> DEFINE C == workflow.connections
           up == Ups
           K == ConnectionsOf(m, output)
           k == Cardinality(K)
           to == Outgoing(m, output)
           additions == Children(m, run, output)
           added == Added(additions)
           Served(i) == {to[j] : j \in 1..i}
<1>1. /\ k \in Nat /\ to \in [1..k -> K] /\ K \subseteq C
      /\ \A i, j \in 1..k : to[i] = to[j] => i = j
    BY OutgoingLists, ConnectionsType
<1>2. \A c \in K : c.from = m
    BY DEF ConnectionsOf
<1>3. IsAdditions(additions) /\ Len(additions) = k
    BY ChildrenType
<1>4. \A i \in 1..k : additions[i] = [input |-> to[i].input,
                                entry |-> Entry(to[i].to, <<Datum(m, run, to[i].output)>>)]
    BY <1>1 DEF Children
<1>5. l \in 0..k
    OBVIOUS
<1>6. IsAdded(added, additions, k)
    <2> HIDE DEF additions
    <2> QED BY <1>1, <1>3, AddedIs
<1> HIDE DEF added, additions, to, K, k
<1>7. \A i \in 0..k : added[i] = IF i = 0 THEN Plan ELSE AddStep(added[i - 1], additions[i])
    BY <1>6 DEF IsAdded
<1> DEFINE P(i) == PlanInv(added[i]) /\ Delivering(C, up, m, R, added[i], Served(i))
           S == {i \in Nat : i <= k => P(i)}
<1>8. 0 \in S
    <2>1. added[0] = Plan
        BY <1>1, <1>7
    <2>2. Served(0) = {}
        OBVIOUS
    <2> HIDE DEF Served
    <2> QED BY <2>1, <2>2
<1>9. ASSUME NEW i \in Nat, i \in S PROVE i + 1 \in S
    <2> SUFFICES ASSUME i + 1 <= k PROVE P(i + 1)
        OBVIOUS
    <2> DEFINE before == added[i]
               after == added[i + 1]
               a == additions[i + 1]
               c == to[i + 1]
               D == Served(i)
    <2>1. i + 1 \in 1..k /\ i <= k /\ i + 1 \in 0..k /\ (i + 1) - 1 = i /\ i + 1 # 0
        BY <1>1
    <2>2. PlanInv(before) /\ Delivering(C, up, m, R, before, D)
        BY <1>9, <2>1
    <2>3. after = AddStep(before, a)
        BY <1>7, <2>1
    <2>4. /\ IsAddition(a) /\ c \in C /\ c.from = m /\ c.output \in Indexes
          /\ a.input = c.input /\ a.entry = Entry(c.to, <<Datum(m, run, c.output)>>)
        <3>1. c \in K /\ IsAddition(a)
            BY <1>1, <1>3, <2>1 DEF IsAdditions
        <3>2. c.output \in Indexes
            BY <1>1, <3>1, WorkflowsAssumption DEF IsWorkflow, Connection
        <3>3. a = [input |-> c.input, entry |-> Entry(c.to, <<Datum(m, run, c.output)>>)]
            BY <1>4, <2>1
        <3> HIDE DEF a, c
        <3> QED BY <1>1, <1>2, <3>1, <3>2, <3>3
    <2>5. c \notin D
        <3>1. \A j \in 1..i : j \in 1..k /\ j # i + 1
            BY <1>1, <2>1
        <3> QED BY <1>1, <2>1, <3>1
    <2>6. Served(i + 1) = D \cup {c}
        <3>1. 1..(i + 1) = (1..i) \cup {i + 1}
            OBVIOUS
        <3> QED BY <3>1
    <2> HIDE DEF Served, before, after, a, c, D
    <2>7. PlanInv(after)
        BY <2>2, <2>3, <2>4, AddStepKeeps
    <2>8. a.entry \in Fed /\ a.entry.node = c.to /\ a.entry.data[1] = Datum(m, run, c.output)
        BY <2>4 DEF IsAddition, Entry
    <2>9. Delivering(C, up, m, R, after, D \cup {c})
        <3>1. CASE numberOfInputs(c.to) > 1
            <4>1. after = AddWaiting(before, c.to, c.input, Datum(m, run, c.output))
                BY <2>3, <2>4, <2>8, <3>1 DEF AddStep, addNodeToBeExecuted
            <4>2. Datum(m, run, c.output) \in Data
                BY <2>4, DataFacts
            <4> QED BY <2>2, <2>4, <2>5, <3>1, <4>1, <4>2, DeliversToRoom
        <3>2. CASE ~(numberOfInputs(c.to) > 1)
            <4>1. after = [before EXCEPT !.stack = <<a.entry>> \o @]
                BY <2>3, <2>4, <2>8, <3>2 DEF AddStep, addNodeToBeExecuted
            <4>2. before \in [stack : Seq(Fed), waiting : [Nodes -> Rooms],
                              waitingNodes : Seq(Nodes)]
                BY <2>2 DEF PlanInv, PlanShape
            <4>3. after.stack = <<a.entry>> \o before.stack /\ after.waiting = before.waiting
                BY <4>1, <4>2
            <4> DEFINE e == a.entry
            <4>4. e \in Fed /\ e.node = c.to /\ after.stack = <<e>> \o before.stack
                BY <2>8, <4>3
            <4> HIDE DEF e
            <4> QED BY <2>2, <2>4, <2>5, <3>2, <4>3, <4>4, DeliversToStack
        <3> QED BY <3>1, <3>2
    <2> QED BY <2>6, <2>7, <2>9 DEF after
<1> HIDE DEF S, P
<1>10. l \in S
    BY <1>1, <1>5, <1>8, <1>9, Induction
<1>11. P(l)
    BY <1>1, <1>5, <1>10 DEF S
<1> QED BY <1>11 DEF P, added, additions, to, Served, ServedUpTo

\* In the end all have been served.
LEMMA DeliversAll ==
    ASSUME workflow \in Workflows, PlainAgents(workflow), OneSourcePerInput, PlanInv(Plan),
           Order(workflow.connections, Ups), NEW m \in Nodes, NEW R, NEW run \in Nat, NEW output,
           Delivering(workflow.connections, Ups, m, R, Plan, {})
    PROVE  \E D : Delivering(workflow.connections, Ups, m, R, AddChildren(m, run, output), D)
<1> DEFINE K == ConnectionsOf(m, output)
           k == Cardinality(K)
           additions == Children(m, run, output)
<1>1. k \in Nat /\ Len(additions) = k
    BY ConnectionsType, ChildrenType
<1>2. k \in 0..Cardinality(ConnectionsOf(m, output))
    BY <1>1
<1>3. AddChildren(m, run, output) = Added(additions)[k]
    BY <1>1 DEF AddChildren, AddAll
<1> HIDE DEF k
<1>4. Delivering(workflow.connections, Ups, m, R, Added(additions)[k],
                 ServedUpTo(m, output, k))
    BY <1>2, DeliversEach
<1> QED BY <1>3, <1>4
-----------------------------------------------------------------------------
(* Each node once                                                          *)

\* The nodes that have run; the one that has put the execution to wait has not.
RanIn(w, runs, waited, last) ==
    {n \in Nodes \ ToolNodes(w) : Len(runs[n]) > 0 /\ ~(waited /\ n \in last)}

Few(w, runs) == \A n \in Nodes \ ToolNodes(w) : Len(runs[n]) <= 1

\* No node is at two places, and nothing below one that is to run has run.
EachOnce(w, up, s, rooms, R) ==
    /\ Once(up, NodesOf(w, s), WaitsIn(rooms), FilledIn(w.connections, rooms), R)
    /\ Differ(w, s) /\ Small(rooms)

Simple == IsAcyclic /\ OneSourcePerInput
Ran == RanIn(workflow, runData, waitTill, lastNodeExecuted)

OnceInv ==
    Simple => /\ Few(workflow, runData)
              /\ Sound => EachOnce(workflow, Ups, Work, waiting, Ran)

\* What is above a node changes with the workflow only.
LEMMA UpsKept ==
    ASSUME UNCHANGED workflow
    PROVE  Ups' = Ups /\ (Simple' <=> Simple)
<1>1. \A S : Parents(S)' = Parents(S)
    BY DEF Parents
<1>2. \A n : getParentNodes(n)' = getParentNodes(n)
    BY DEF getParentNodes, Parents
<1>3. Ups' = Ups
    BY <1>2 DEF Ups
<1> QED BY <1>1, <1>2, <1>3 DEF Simple, IsAcyclic, OneSourcePerInput, Parents

\* At first, one node is to run.
LEMMA OnceInit ==
    ASSUME Init, PlainAgents(workflow)
    PROVE  OnceInv
<1> SUFFICES ASSUME Simple PROVE Few(workflow, runData) /\ EachOnce(workflow, Ups, Work, waiting, Ran)
    BY DEF OnceInv
<1>1. /\ Work = stack /\ workflow \in Workflows
      /\ stack = <<Entry(workflow.start, <<Initial>>)>>
      /\ \A n \in Nodes : runData[n] = <<>> /\ waiting[n] = <<>>
    BY DEF Init, Work
<1>2. \A n \in Nodes : Len(runData[n]) = 0 /\ DOMAIN waiting[n] = {}
    BY <1>1
<1>3. Few(workflow, runData) /\ Ran = {}
    BY <1>2 DEF Few, Ran, RanIn
<1>4. WaitsIn(waiting) = {} /\ Small(waiting) /\ FilledIn(workflow.connections, waiting) = {}
    <2>1. \A c \in workflow.connections : c.to \in Nodes
        BY <1>1, WorkflowsAssumption DEF IsWorkflow, Connection
    <2> QED BY <1>2, <2>1 DEF WaitsIn, Small, FilledIn, HasData
<1>5. Differ(workflow, stack) /\ NodesOf(workflow, stack) \subseteq {workflow.start}
    <2>1. Len(stack) = 1 /\ stack[1].node = workflow.start
        BY <1>1 DEF Entry
    <2> QED BY <2>1 DEF Differ, NodesOf
<1>6. workflow.start \in Nodes /\ Order(workflow.connections, Ups)
    BY <1>1, WorkflowsAssumption, AcyclicOrder DEF IsWorkflow, Simple
<1>7. Once(Ups, NodesOf(workflow, stack), {}, {}, {})
    BY <1>5, <1>6 DEF Once, Order
<1> QED BY <1>1, <1>3, <1>4, <1>5, <1>7 DEF EachOnce

\* Steps that leave what is worked on alone.
LEMMA OnceKept ==
    ASSUME TypeInv, AgentInv, OnceInv,
           [Begin \/ SetupFails \/ TimeIsUp \/ LoopEnds \/ AfterDestination \/ AfterStop \/ Close
                \/ Save \/ Resolve \/ Cancel]_vars
    PROVE  OnceInv'
<1>1. CASE SetupFails
    <2>1. /\ pc' = "saving" /\ status' = status /\ status # "waiting" /\ UNCHANGED workflow
          /\ \E m : runData' = [n \in Nodes |-> IF n = m THEN <<TaskData("error", {})>> ELSE <<>>]
        BY <1>1 DEF SetupFails, TypeInv, StatusInv, Done
    <2>2. ~Sound'
        BY <2>1 DEF Sound, Alive, Done
    <2>3. \A n \in Nodes : Len(runData'[n]) <= 1
        BY <2>1
    <2> QED BY <2>2, <2>3 DEF OnceInv, Few
<1>2. CASE [Begin \/ TimeIsUp \/ LoopEnds \/ AfterDestination \/ AfterStop \/ Close \/ Save
                \/ Resolve \/ Cancel]_vars
    <2>1. /\ UNCHANGED <<workflow, waiting, runData, waitTill, lastNodeExecuted>>
          /\ Work' = Work /\ (Sound' => Sound)
        BY <1>2, WorkKept
    <2>2. Ups' = Ups /\ (Simple' <=> Simple) /\ Ran' = Ran
        BY <2>1, UpsKept DEF Ran
    <2> QED BY <2>1, <2>2 DEF OnceInv
<1> QED BY <1>1, <1>2

\* The head of a stack and the rest.
LEMMA HeadApart ==
    ASSUME NEW w, NEW s \in Seq(Entries), s # <<>>
    PROVE  /\ Head(s) \in Entries /\ Tail(s) \in Seq(Entries)
           /\ NodesOf(w, s) = NodesOf(w, Tail(s)) \cup ({Head(s).node} \ ToolNodes(w))
           /\ Differ(w, s) <=> Differ(w, Tail(s)) /\ Head(s).node \notin NodesOf(w, Tail(s))
<1> DEFINE h == Head(s)
           t == Tail(s)
<1>1. h \in Entries /\ t \in Seq(Entries) /\ s = <<h>> \o t
    BY HeadTailProperties
<1> HIDE DEF h, t
<1>2. /\ NodesOf(w, <<h>> \o t) = NodesOf(w, t) \cup ({h.node} \ ToolNodes(w))
      /\ Differ(w, <<h>> \o t) <=> Differ(w, t) /\ h.node \notin NodesOf(w, t)
    BY <1>1, OneMore
<1>3. /\ h \in Entries /\ t \in Seq(Entries)
      /\ NodesOf(w, s) = NodesOf(w, t) \cup ({h.node} \ ToolNodes(w))
      /\ Differ(w, s) <=> Differ(w, t) /\ h.node \notin NodesOf(w, t)
    BY <1>1, <1>2
<1> QED BY <1>3 DEF h, t

\* A node is begun or skipped.
LEMMA OnceBegins ==
    ASSUME TypeInv, AgentInv, OnceInv, TypeInv', StartNode \/ SkipNode
    PROVE  OnceInv'
<1> SUFFICES ASSUME Simple'
             PROVE  Few(workflow', runData') /\ EachOnce(workflow', Ups', Work', waiting', Ran')
    BY DEF OnceInv
<1>1. /\ pc = "loop" /\ stack # <<>> /\ stack' = Tail(stack)
      /\ UNCHANGED <<workflow, waiting, runData, lastNodeExecuted, waitTill>>
    BY DEF StartNode, SkipNode
<1>2. Ups' = Ups /\ Simple /\ Ran' = Ran
    BY <1>1, UpsKept DEF Ran
<1>3. Work = stack /\ Sound
    BY <1>1 DEF Work, Sound, Alive, Done
<1>4. Few(workflow, runData) /\ EachOnce(workflow, Ups, stack, waiting, Ran)
    BY <1>2, <1>3 DEF OnceInv
<1> DEFINE w == workflow
           h == Head(stack)
           t == Tail(stack)
<1>5. stack \in Seq(Entries)
    BY WorkType
<1>6. /\ h \in Entries /\ t \in Seq(Entries)
      /\ NodesOf(w, stack) = NodesOf(w, t) \cup ({h.node} \ ToolNodes(w))
      /\ Differ(w, stack) <=> Differ(w, t) /\ h.node \notin NodesOf(w, t)
    BY <1>1, <1>5, HeadApart
<1>7. CASE StartNode
    <2>1. pc' = "node" /\ current'.node = h.node
        BY <1>6, <1>7 DEF StartNode, Entries
    <2>2. current' \in Entries /\ Work' = <<current'>> \o t
        BY <1>1, <2>1 DEF Work, TypeInv, CurrentInv
    <2> DEFINE e == current'
    <2> HIDE DEF h, t, w, e
    <2>3. NodesOf(w, Work') = NodesOf(w, stack) /\ (Differ(w, Work') <=> Differ(w, stack))
        <3>1. e \in Entries /\ Work' = <<e>> \o t /\ e.node = h.node
            BY <2>1, <2>2 DEF e
        <3> QED BY <1>6, <3>1, OneMore
    <2> QED BY <1>1, <1>2, <1>4, <2>3 DEF EachOnce, w
<1>8. CASE SkipNode
    <2>1. Work' = t
        BY <1>1, <1>8 DEF SkipNode, Work
    <2>2. /\ Once(Ups, NodesOf(w, stack), WaitsIn(waiting), FilledIn(w.connections, waiting), Ran)
          /\ Differ(w, stack) /\ Small(waiting)
        BY <1>4 DEF EachOnce
    <2> HIDE DEF w, h, t
    <2>3. Once(Ups, NodesOf(w, t), WaitsIn(waiting), FilledIn(w.connections, waiting), Ran)
        BY <1>6, <2>2, OnceFewer
    <2> QED BY <1>1, <1>2, <1>4, <1>6, <2>1, <2>2, <2>3 DEF EachOnce, w
<1> QED BY <1>7, <1>8

\* A node that waits is run without what is missing.
LEMMA OnceAfter ==
    ASSUME TypeInv, AgentInv, OnceInv, PlainAgents(workflow), AfterNode
    PROVE  OnceInv'
<1> SUFFICES ASSUME Simple'
             PROVE  Few(workflow', runData') /\ EachOnce(workflow', Ups', Work', waiting', Ran')
    BY DEF OnceInv
<1>1. /\ pc = "after" /\ pc' = "loop"
      /\ UNCHANGED <<workflow, runData, lastNodeExecuted, waitTill>>
    BY DEF AfterNode
<1>2. Ups' = Ups /\ Simple /\ Ran' = Ran
    BY <1>1, UpsKept DEF Ran
<1>3. Work = stack /\ Sound /\ Work' = stack'
    BY <1>1 DEF Work, Sound, Alive, Done
<1>4. Few(workflow, runData) /\ EachOnce(workflow, Ups, stack, waiting, Ran)
    BY <1>2, <1>3 DEF OnceInv
<1>5. CASE ~(stack = <<>> /\ NextWaiting # {})
    <2>1. UNCHANGED <<stack, waiting>>
        BY <1>5 DEF AfterNode
    <2> QED BY <1>1, <1>2, <1>3, <1>4, <2>1
<1>6. CASE stack = <<>> /\ NextWaiting # {}
    <2>1. PICK n \in NextWaiting : SetPlan(RunWaiting(n))
        BY <1>6 DEF AfterNode
    <2>2. n \in Range(waitingNodes) /\ n \in Nodes /\ MayRunWithout(n) /\ workflow \in Workflows
        BY NextWaitingType DEF TypeInv
    <2>3. stack \in Seq(Fed) /\ PlanInv(Plan)
        BY <1>6, PlanIsWellFormed, EmptySeq DEF TypeInv
    <2>4. /\ Plan.stack = stack /\ Plan.waiting = waiting /\ Plan.waitingNodes = waitingNodes
          /\ PlanShape(Plan) /\ waiting \in [Nodes -> Rooms]
          /\ \A m \in Nodes : m \in Range(waitingNodes) <=> DOMAIN waiting[m] # {}
        BY <2>3 DEF PlanInv, PlanShape, Plan
    <2> DEFINE W == WaitsIn(waiting)
               C == workflow.connections
               first == Min(DOMAIN waiting[n])
               r == RemoveWaiting(Plan, n, first)
    <2>5. W = Range(waitingNodes) /\ n \in W
        <3>1. Range(waitingNodes) \subseteq Nodes
            <4>1. waitingNodes \in Seq(Nodes)
                BY <2>3 DEF PlanInv, PlanShape, Plan
            <4> QED BY <4>1 DEF Range
        <3> QED BY <2>2, <2>4, <3>1 DEF WaitsIn
    <2>6. Ups[n] \cap W = {}
        BY <2>2, <2>5 DEF MayRunWithout, parentIsWaiting, Ups
    <2>7. first \in DOMAIN waiting[n]
        <3>1. waiting[n] \in Rooms /\ DOMAIN waiting[n] # {}
            BY <2>2, <2>4
        <3>2. DOMAIN waiting[n] \in SUBSET Nat
            BY <3>1, RoomType
        <3> QED BY <3>1, <3>2, MinType
    <2>8. /\ \A m \in Nodes : \A i \in DOMAIN r.waiting[m] :
                /\ i \in DOMAIN waiting[m] /\ r.waiting[m][i] = waiting[m][i]
                /\ ~(m = n /\ i = first)
          /\ \A m \in Nodes \ {n} : r.waiting[m] = waiting[m]
          /\ r.stack = stack /\ PlanShape(r)
        <3> HIDE DEF first
        <3> QED BY <2>2, <2>4, <2>7, RemoveWaitingKeeps
    <2>9. waiting' = r.waiting
        <3>1. RunWaiting(n) = [r EXCEPT !.stack = Append(@, Entry(n,
                [i \in DOMAIN waiting[n][first] |->
                    IF waiting[n][first][i] = Missing THEN Empty ELSE waiting[n][first][i]]))]
            BY DEF RunWaiting
        <3>2. r \in [stack : Seq(Fed), waiting : [Nodes -> Rooms], waitingNodes : Seq(Nodes)]
            BY <2>8 DEF PlanShape
        <3> HIDE DEF r, first
        <3> QED BY <2>1, <3>1, <3>2 DEF SetPlan
    <2> HIDE DEF r
    <2>10. /\ Small(waiting)
           /\ Once(Ups, NodesOf(workflow, stack), W, FilledIn(C, waiting), Ran)
        BY <1>4 DEF EachOnce
    <2>11. DOMAIN waiting'[n] = {} /\ \A m \in Nodes \ {n} : waiting'[m] = waiting[m]
        <3>1. \A i \in DOMAIN waiting[n] : i = first
            BY <2>2, <2>7, <2>10 DEF Small
        <3> HIDE DEF first
        <3> QED BY <2>2, <2>8, <2>9, <3>1
    <2>12. WaitsIn(waiting') = W \ {n} /\ Small(waiting')
        BY <2>2, <2>10, <2>11 DEF WaitsIn, Small
    <2>13. FilledIn(C, waiting') \subseteq FilledIn(C, waiting)
        <3>1. \A c \in C : c.to \in Nodes
            BY <2>2, WorkflowsAssumption DEF IsWorkflow, Connection
        <3>2. \A c \in C : HasData(waiting'[c.to], c.input) => HasData(waiting[c.to], c.input)
            BY <2>11, <3>1 DEF HasData
        <3> QED BY <3>2 DEF FilledIn
    <2>14. NodesOf(workflow, stack) = {}
        BY <1>6 DEF NodesOf
    <2>15. NodesOf(workflow, stack') = {n} /\ Differ(workflow, stack')
        <3>1. PICK data \in Seq(Data) : /\ data # <<>>
                                        /\ RunWaiting(n).stack = Append(stack, Entry(n, data))
            BY <2>2, <2>3, RunWaitingKeeps
        <3>2. numberOfInputs(n) > 1
            BY <2>2, <2>3, RunWaitingKeeps
        <3>3. n \notin ToolNodes(workflow)
            BY <2>2, <3>2, ToolInputs
        <3>4. stack' = <<Entry(n, data)>>
            BY <1>6, <2>1, <3>1 DEF SetPlan
        <3>5. Len(stack') = 1 /\ stack'[1].node = n
            BY <3>4 DEF Entry
        <3> QED BY <3>3, <3>5 DEF NodesOf, Differ
    <2>16. Order(C, Ups) /\ W \in SUBSET Nodes
        BY <1>2, <2>2, AcyclicOrder DEF Simple, WaitsIn
    <2>17. Once(Ups, {n}, W \ {n}, FilledIn(C, waiting'), Ran)
        <3> DEFINE F == FilledIn(C, waiting)
                   G == FilledIn(C, waiting')
                   R == Ran
                   up == Ups
        <3> HIDE DEF F, G, R, up, W, C
        <3>1. Once(up, {}, W, F, R) /\ Order(C, up) /\ W \in SUBSET Nodes /\ n \in W
                /\ up[n] \cap W = {} /\ G \subseteq F
            BY <2>5, <2>6, <2>10, <2>13, <2>14, <2>16 DEF F, G, R, up
        <3>2. Once(up, {n}, W \ {n}, G, R)
            BY <3>1, OnceRunsWaiting
        <3> QED BY <3>2 DEF G, R, up
    <2> QED BY <1>1, <1>2, <1>3, <1>4, <2>12, <2>15, <2>17 DEF EachOnce
<1> QED BY <1>5, <1>6

\* Only the nodes of the entries count.
LEMMA SameNodes ==
    ASSUME NEW w, NEW s, NEW t, Len(t) = Len(s), \A i \in 1..Len(s) : t[i].node = s[i].node
    PROVE  NodesOf(w, t) = NodesOf(w, s) /\ (Differ(w, t) <=> Differ(w, s))
BY DEF NodesOf, Differ

\* What is known while a node is executed.
LEMMA OnceOnNode ==
    ASSUME TypeInv, AgentInv, OnceInv, PlainAgents(workflow), Simple, pc = "node"
    PROVE  /\ workflow \in Workflows /\ current.node \in Nodes /\ current.run \in Nat
           /\ waitTill = FALSE /\ current.run <= Len(runData[current.node])
           /\ runData \in RunDatas /\ stack \in Seq(Entries) /\ PlanInv(Plan)
           /\ Order(workflow.connections, Ups)
           /\ Few(workflow, runData)
           /\ EachOnce(workflow, Ups, Work, waiting, Ran)
           /\ EachOnce(workflow, Ups, stack, waiting, Ran)
           /\ NodesOf(workflow, Work) =
                NodesOf(workflow, stack) \cup ({current.node} \ ToolNodes(workflow))
           /\ current.node \notin ToolNodes(workflow) =>
                /\ current.node \notin Ran /\ current.node \notin NodesOf(workflow, stack)
                /\ current.node \in NodesOf(workflow, Work)
                /\ Len(runData[current.node]) = 0 /\ current.run = 0
<1> DEFINE m == current.node
           w == workflow
           T == ToolNodes(w)
<1>1. /\ waitTill = FALSE /\ current.run <= Len(runData[m])
      /\ m \notin T => current.run = Len(runData[m])
    BY OnNode DEF IsTool
<1>2. /\ w \in Workflows /\ m \in Nodes /\ current.run \in Nat /\ Work = <<current>> \o stack
    BY WorkOnNode DEF TypeInv
<1>3. stack \in Seq(Entries) /\ current \in Entries
    BY WorkType DEF TypeInv, CurrentInv
<1>4. PlanInv(Plan)
    BY PlanIsWellFormed DEF TypeInv, CurrentInv
<1>5. Order(w.connections, Ups)
    BY <1>2, AcyclicOrder DEF Simple
<1>6. Sound
    BY DEF Sound, Alive, Done
<1>7. Few(w, runData) /\ EachOnce(w, Ups, Work, waiting, Ran)
    BY <1>6 DEF OnceInv
<1>8. runData \in RunDatas
    BY DEF RunDatas, TypeInv, RunsInv
<1>9. Len(runData[m]) \in Nat
    BY <1>2, <1>8, RunDatasLength
<1> DEFINE e == current
           E == NodesOf(w, stack)
           A == NodesOf(w, Work)
<1>10. A = E \cup ({m} \ T) /\ (Differ(w, Work) <=> Differ(w, stack) /\ m \notin E)
    <2>1. e \in Entries /\ e.node = m /\ Work = <<e>> \o stack
        BY <1>2, <1>3
    <2> HIDE DEF e, m, w
    <2> QED BY <1>3, <2>1, OneMore
<1>11. EachOnce(w, Ups, stack, waiting, Ran)
    <2>1. E \subseteq A /\ Once(Ups, A, WaitsIn(waiting), FilledIn(w.connections, waiting), Ran)
            /\ Differ(w, stack) /\ Small(waiting)
        BY <1>7, <1>10 DEF EachOnce
    <2> HIDE DEF w, A, E
    <2>2. Once(Ups, E, WaitsIn(waiting), FilledIn(w.connections, waiting), Ran)
        BY <2>1, OnceFewer
    <2> QED BY <2>1, <2>2 DEF EachOnce, E
<1>12. m \notin T => m \in A /\ m \notin Ran /\ m \notin E /\ Len(runData[m]) = 0
    <2> SUFFICES ASSUME m \notin T PROVE m \in A /\ m \notin Ran /\ m \notin E /\ Len(runData[m]) = 0
        OBVIOUS
    <2>1. m \in A /\ m \notin E
        BY <1>7, <1>10 DEF EachOnce
    <2>2. m \notin Ran
        BY <1>7, <2>1 DEF EachOnce, Once
    <2>3. ~(Len(runData[m]) > 0)
        BY <1>1, <1>2, <2>2 DEF Ran, RanIn
    <2> QED BY <1>9, <2>1, <2>2, <2>3
<1> QED BY <1>1, <1>2, <1>3, <1>4, <1>5, <1>7, <1>8, <1>10, <1>11, <1>12

\* A run is recorded.
LEMMA OnceRecorded ==
    ASSUME TypeInv, AgentInv, OnceInv, PlainAgents(workflow), Simple, pc = "node",
           NEW taskData \in TaskDatas, runData' = Recorded(taskData)
    PROVE  /\ Few(workflow, runData')
           /\ \A last : RanIn(workflow, runData', FALSE, last)
                            = Ran \cup ({current.node} \ ToolNodes(workflow))
           /\ RanIn(workflow, runData', TRUE, {current.node}) = Ran
<1> DEFINE m == current.node
           T == ToolNodes(workflow)
           old == runData
           new == runData'
           run == current.run
<1>1. /\ m \in Nodes /\ run \in Nat /\ waitTill = FALSE /\ run <= Len(old[m])
      /\ old \in RunDatas /\ Few(workflow, old)
      /\ m \notin T => m \notin Ran /\ Len(old[m]) = 0 /\ run = 0
    BY OnceOnNode
<1>2. new = RecordedAt(old, m, run, taskData)
    BY RecordedIs
<1> HIDE DEF m, T, old, new, run
<1>3. /\ \A n \in Nodes \ {m} : new[n] = old[n]
      /\ Len(new[m]) = IF run < Len(old[m]) THEN Len(old[m]) ELSE run + 1
    BY <1>1, <1>2, RecordedAtType
<1>4. \A n \in Nodes \ T : Len(new[n]) = IF n = m THEN 1 ELSE Len(old[n])
    BY <1>1, <1>3
<1>5. Ran = {n \in Nodes \ T : Len(old[n]) > 0}
    BY <1>1 DEF Ran, RanIn, T, old
<1>6. Few(workflow, new)
    BY <1>1, <1>4 DEF Few, T
<1>7. \A last : RanIn(workflow, new, FALSE, last) = Ran \cup ({m} \ T)
    <2>1. \A last : RanIn(workflow, new, FALSE, last) = {n \in Nodes \ T : Len(new[n]) > 0}
        BY DEF RanIn, T
    <2>2. \A n \in Nodes \ T : Len(new[n]) > 0 <=> Len(old[n]) > 0 \/ n = m
        BY <1>4
    <2>3. {n \in Nodes \ T : Len(new[n]) > 0} = Ran \cup ({m} \ T)
        BY <1>1, <1>5, <2>2
    <2> QED BY <2>1, <2>3
<1>8. RanIn(workflow, new, TRUE, {m}) = Ran
    <2>1. RanIn(workflow, new, TRUE, {m}) = {n \in Nodes \ T : Len(new[n]) > 0 /\ n # m}
        BY DEF RanIn, T
    <2>2. \A n \in Nodes \ T : (Len(new[n]) > 0 /\ n # m) <=> Len(old[n]) > 0
        BY <1>1, <1>4
    <2> QED BY <1>5, <2>1, <2>2
<1> QED BY <1>6, <1>7, <1>8 DEF m, T, new

\* Once a node has run, its data is to be delivered: none of it is there yet.
LEMMA OnceDelivers ==
    ASSUME TypeInv, AgentInv, OnceInv, PlainAgents(workflow), Simple, pc = "node",
           current.node \notin ToolNodes(workflow)
    PROVE  Delivering(workflow.connections, Ups, current.node, Ran \cup {current.node}, Plan, {})
<1> DEFINE m == current.node
           w == workflow
           C == w.connections
           R == Ran \cup {m}
           E == NodesOf(w, stack)
           A == NodesOf(w, Work)
           W == WaitsIn(waiting)
           F == FilledIn(C, waiting)
<1>1. /\ w \in Workflows /\ m \in Nodes /\ Order(C, Ups)
      /\ m \in A /\ m \notin Ran /\ m \notin E /\ A \ {m} = E
      /\ Differ(w, stack) /\ Small(waiting) /\ Once(Ups, A, W, F, Ran)
    BY OnceOnNode DEF EachOnce
<1>2. A \in SUBSET Nodes
    BY <1>1, WorkType, NodesType
<1>3. During(C, Ups, m, E, W, F, R)
    <2> HIDE DEF A, E, W, F, C, m, R
    <2>1. During(C, Ups, m, A \ {m}, W, F, Ran \cup {m})
        BY <1>1, <1>2, OnceRan
    <2> QED BY <1>1, <2>1 DEF R
<1>4. Plan.stack = stack /\ Plan.waiting = waiting
    BY DEF Plan
<1>5. \A c \in C : c.from = m => c \notin F /\ c.to \notin E
    <2> SUFFICES ASSUME NEW c \in C, c.from = m PROVE c \notin F /\ c.to \notin E
        OBVIOUS
    <2>1. c \notin F
        BY <1>1 DEF Once
    <2>2. c.to \in Nodes /\ m \in Ups[c.to]
        BY <1>1 DEF Order
    <2>3. c.to \notin Ran \cup A
        BY <1>1, <2>2 DEF Once
    <2> QED BY <1>1, <2>1, <2>3
<1> QED BY <1>1, <1>3, <1>4, <1>5 DEF Delivering

\* A node has run and its data goes on.
LEMMA OnceGoesOn ==
    ASSUME TypeInv, AgentInv, OnceInv, PlainAgents(workflow), Simple, pc = "node",
           NEW taskStatus \in {"success", "error"}, NEW output, output \subseteq Indexes,
           GoOn(taskStatus, output)
    PROVE  OnceInv'
<1> DEFINE m == current.node
           w == workflow
           T == ToolNodes(w)
           C == w.connections
           R == Ran \cup {m}
           E == NodesOf(w, stack)
           A == NodesOf(w, Work)
           W == WaitsIn(waiting)
           F == FilledIn(C, waiting)
<1>1. /\ runData' = Recorded(TaskData(taskStatus, output))
      /\ pc' \in {"after", "after:destination"}
      /\ UNCHANGED <<workflow, waitTill>>
    BY DEF GoOn
<1>2. /\ w \in Workflows /\ m \in Nodes /\ current.run \in Nat /\ waitTill = FALSE
      /\ stack \in Seq(Entries) /\ PlanInv(Plan) /\ Order(C, Ups)
      /\ EachOnce(w, Ups, Work, waiting, Ran) /\ EachOnce(w, Ups, stack, waiting, Ran)
      /\ A = E \cup ({m} \ T)
      /\ m \notin T => m \notin Ran /\ m \notin E /\ m \in A
    BY OnceOnNode
<1>3. TaskData(taskStatus, output) \in TaskDatas
    BY DEF TaskData, TaskDatas
<1>4. Few(w, runData') /\ Ran' = Ran \cup ({m} \ T)
    <2> DEFINE taskData == TaskData(taskStatus, output)
    <2>1. taskData \in TaskDatas /\ runData' = Recorded(taskData)
        BY <1>1, <1>3
    <2> HIDE DEF taskData
    <2>2. /\ Few(workflow, runData')
          /\ \A last : RanIn(workflow, runData', FALSE, last)
                            = Ran \cup ({current.node} \ ToolNodes(workflow))
        BY <2>1, OnceRecorded
    <2>3. Ran' = RanIn(workflow, runData', FALSE, lastNodeExecuted')
        BY <1>1, <1>2 DEF Ran
    <2> QED BY <2>2, <2>3
<1>5. Work' = stack' /\ Ups' = Ups /\ workflow' = w
    BY <1>1, UpsKept DEF Work
<1>6. EachOnce(w, Ups, stack', waiting', Ran')
    <2>1. CASE m \in T
        <3>1. w.destination = {}
            BY <1>2, <2>1, ToolNode
        <3>2. SetPlan(AddChildren(m, current.run, output))
            BY <3>1 DEF GoOn
        <3>3. AddChildren(m, current.run, output) = Plan
            BY <1>2, <2>1, ToolAddsNothing
        <3>4. stack' = stack /\ waiting' = waiting /\ Ran' = Ran
            BY <1>4, <2>1, <3>2, <3>3 DEF SetPlan, Plan
        <3> QED BY <1>2, <3>4
    <2>2. CASE m \notin T
        <3>1. /\ Ran' = R /\ Differ(w, stack) /\ Small(waiting)
              /\ Delivering(C, Ups, m, R, Plan, {})
            BY <1>2, <1>4, <2>2, OnceDelivers DEF EachOnce
        <3>2. Plan.stack = stack /\ Plan.waiting = waiting
            BY DEF Plan
        <3>3. During(C, Ups, m, E, W, F, R)
            BY <3>1, <3>2 DEF Delivering
        <3>4. CASE m \in w.destination
            <4>1. stack' = stack /\ waiting' = waiting
                BY <3>4 DEF GoOn
            <4>2. Once(Ups, E, W, F, R)
                BY <3>3 DEF During
            <4> QED BY <3>1, <4>1, <4>2 DEF EachOnce
        <3>5. CASE m \notin w.destination
            <4> DEFINE plan == AddChildren(m, current.run, output)
            <4>1. SetPlan(plan)
                BY <3>5 DEF GoOn
            <4>2. Delivering(C, Ups, m, R, Plan, {})
                BY <3>1
            <4> HIDE DEF m, R, C
            <4>3. PICK D : Delivering(C, Ups, m, R, plan, D)
                BY <1>2, <4>2, DeliversAll DEF Simple, C
            <4>4. stack' = plan.stack /\ waiting' = plan.waiting
                BY <4>1 DEF SetPlan
            <4> QED BY <3>1, <4>3, <4>4 DEF Delivering, During, EachOnce, C
        <3> QED BY <3>4, <3>5
    <2> QED BY <2>1, <2>2
<1> QED BY <1>4, <1>5, <1>6 DEF OnceInv

\* A node has ended otherwise, and not asked for tools.
LEMMA OnceNodeEnds ==
    ASSUME TypeInv, AgentInv, OnceInv, PlainAgents(workflow),
           \/ \E output \in SUBSET Outputs : NodeSucceeds(output)
           \/ NodeReturnsNull \/ NodeFails \/ NodeWaits
    PROVE  OnceInv'
<1> SUFFICES ASSUME Simple' PROVE OnceInv'
    BY DEF OnceInv
<1> DEFINE m == current.node
<1>1. pc = "node" /\ UNCHANGED workflow
    BY DEF NodeSucceeds, NodeReturnsNull, NodeFails, NodeWaits, GoOn
<1>2. Ups' = Ups /\ Simple
    BY <1>1, UpsKept
<1>3. /\ workflow \in Workflows /\ waitTill = FALSE
      /\ Few(workflow, runData) /\ EachOnce(workflow, Ups, Work, waiting, Ran)
      /\ EachOnce(workflow, Ups, stack, waiting, Ran)
    BY <1>1, <1>2, OnceOnNode
<1>4. Outputs \subseteq Indexes /\ PassedOn \subseteq Indexes
    BY <1>3, OutputsType
<1>5. CASE \E output \in SUBSET Outputs : NodeSucceeds(output)
    <2>1. PICK output \in SUBSET Outputs : NodeSucceeds(output)
        BY <1>5
    <2>2. GoOn("success", output) /\ output \subseteq Indexes
        BY <1>4, <2>1 DEF NodeSucceeds
    <2> QED BY <1>1, <1>2, <2>2, OnceGoesOn
<1>6. CASE NodeReturnsNull
    <2>1. /\ pc' = "loop"
          /\ UNCHANGED <<stack, waiting, runData, waitTill, lastNodeExecuted>>
        BY <1>6 DEF NodeReturnsNull
    <2>2. Work' = stack /\ Ran' = Ran
        BY <1>1, <2>1 DEF Work, Ran
    <2> QED BY <1>1, <1>2, <1>3, <2>1, <2>2 DEF OnceInv
<1>7. CASE NodeFails /\ m \in workflow.continueOnFail
    <2>1. GoOn("error", PassedOn)
        BY <1>7 DEF NodeFails
    <2> QED BY <1>1, <1>2, <1>4, <2>1, OnceGoesOn
<1>8. CASE NodeFails /\ m \notin workflow.continueOnFail
    <2>1. /\ executionError' = TRUE /\ pc' \in {"stop", "after:failed"}
          /\ runData' = Recorded(TaskData("error", {}))
        BY <1>8 DEF NodeFails
    <2>2. ~Sound'
        BY <2>1 DEF Sound
    <2>3. Few(workflow, runData')
        <3> DEFINE taskData == TaskData("error", {})
        <3>1. taskData \in TaskDatas /\ runData' = Recorded(taskData)
            BY <2>1 DEF TaskData, TaskDatas
        <3> HIDE DEF taskData
        <3> QED BY <1>1, <1>2, <3>1, OnceRecorded
    <2> QED BY <1>1, <2>2, <2>3 DEF OnceInv
<1>9. CASE NodeWaits
    <2>1. /\ pc' = "after:waiting" /\ waitTill' = TRUE /\ lastNodeExecuted' = {m}
          /\ runData' = Recorded(TaskData("waiting", {}))
          /\ UNCHANGED <<stack, waiting, current>>
        BY <1>9 DEF NodeWaits
    <2>2. Work' = Work
        BY <1>1, <2>1 DEF Work
    <2>3. Few(workflow, runData') /\ RanIn(workflow, runData', TRUE, {m}) = Ran
        <3> DEFINE taskData == TaskData("waiting", {})
        <3>1. taskData \in TaskDatas /\ runData' = Recorded(taskData)
            BY <2>1 DEF TaskData, TaskDatas
        <3> HIDE DEF taskData
        <3> QED BY <1>1, <1>2, <3>1, OnceRecorded
    <2>4. Ran' = Ran
        BY <1>1, <2>1, <2>3 DEF Ran
    <2> QED BY <1>1, <1>2, <1>3, <2>1, <2>2, <2>3, <2>4 DEF OnceInv
<1> QED BY <1>5, <1>6, <1>7, <1>8, <1>9

\* Tools above count for nothing.
LEMMA ToolsAbove ==
    ASSUME NEW w, NEW s, NEW t, NEW m \in Nat, Len(t) \in Nat, Len(s) = m + Len(t),
           \A i \in 1..m : s[i].node \in ToolNodes(w),
           \A i \in 1..Len(t) : s[m + i].node = t[i].node
    PROVE  NodesOf(w, s) = NodesOf(w, t) /\ (Differ(w, t) => Differ(w, s))
<1>1. \A i \in 1..Len(s) : i \in 1..m \/ (i - m \in 1..Len(t) /\ m + (i - m) = i)
    OBVIOUS
<1>2. \A i \in 1..Len(t) : m + i \in 1..Len(s)
    OBVIOUS
<1>3. \A i \in 1..Len(s) : s[i].node \notin ToolNodes(w) =>
            i - m \in 1..Len(t) /\ s[i].node = t[i - m].node
    <2> SUFFICES ASSUME NEW i \in 1..Len(s), s[i].node \notin ToolNodes(w)
                 PROVE  i - m \in 1..Len(t) /\ s[i].node = t[i - m].node
        OBVIOUS
    <2>1. i - m \in 1..Len(t) /\ m + (i - m) = i
        BY <1>1
    <2>2. s[m + (i - m)].node = t[i - m].node
        BY <2>1
    <2> QED BY <2>1, <2>2
<1>4. NodesOf(w, s) = NodesOf(w, t)
    <2>1. ASSUME NEW x \in NodesOf(w, s) PROVE x \in NodesOf(w, t)
        <3>1. PICK i \in 1..Len(s) : x = s[i].node /\ x \notin ToolNodes(w)
            BY DEF NodesOf
        <3>2. i - m \in 1..Len(t) /\ x = t[i - m].node
            BY <1>3, <3>1
        <3> QED BY <3>1, <3>2 DEF NodesOf
    <2>2. ASSUME NEW x \in NodesOf(w, t) PROVE x \in NodesOf(w, s)
        <3>1. PICK i \in 1..Len(t) : x = t[i].node /\ x \notin ToolNodes(w)
            BY DEF NodesOf
        <3>2. m + i \in 1..Len(s) /\ x = s[m + i].node
            BY <1>2, <3>1
        <3> QED BY <3>1, <3>2 DEF NodesOf
    <2> QED BY <2>1, <2>2
<1>5. ASSUME Differ(w, t) PROVE Differ(w, s)
    <2> SUFFICES ASSUME NEW i \in 1..Len(s), NEW j \in 1..Len(s),
                        s[i].node \notin ToolNodes(w), s[i].node = s[j].node
                 PROVE  i = j
        BY DEF Differ
    <2>1. /\ i - m \in 1..Len(t) /\ s[i].node = t[i - m].node
          /\ j - m \in 1..Len(t) /\ s[j].node = t[j - m].node
        BY <1>3
    <2>2. i - m = j - m
        BY <1>5, <2>1 DEF Differ
    <2> QED BY <2>2
<1> QED BY <1>4, <1>5

\* An agent asks for tools.
LEMMA OnceRequests ==
    ASSUME TypeInv, AgentInv, OnceInv, PlainAgents(workflow), NodeRequests
    PROVE  OnceInv'
<1> SUFFICES ASSUME Simple' PROVE OnceInv'
    BY DEF OnceInv
<1> DEFINE w == workflow
           T == ToolNodes(w)
<1>1. /\ pc = "node" /\ pc' = "loop" /\ Tools = w.tools[current.node]
      /\ UNCHANGED <<workflow, lastNodeExecuted, waitTill>>
    BY DEF NodeRequests, Tools
<1>2. Ups' = Ups /\ Simple
    BY <1>1, UpsKept
<1>3. /\ current.node \in Nodes /\ waitTill = FALSE /\ runData \in RunDatas
      /\ stack \in Seq(Entries)
      /\ Few(w, runData) /\ EachOnce(w, Ups, Work, waiting, Ran)
      /\ EachOnce(w, Ups, stack, waiting, Ran)
    BY <1>1, <1>2, OnceOnNode
<1>4. Tools \in Seq(Nodes) /\ Len(Tools) \in Nat
    BY ToolsType
<1>5. \A l \in 1..Len(Tools) : Tools[l] \in T
    <2> SUFFICES ASSUME NEW l \in 1..Len(Tools) PROVE Tools[l] \in T
        OBVIOUS
    <2>1. Tools[l] \in Range(Tools)
        BY <1>4 DEF Range
    <2> QED BY <1>1, <1>3, <2>1 DEF ToolNodes
<1>6. /\ runData' = Requested(runData, Tools)
      /\ SetPlan(IF current.data[1] = Initial THEN Plan ELSE AddAll(Requests))
    BY RequestsStep DEF Requested, Count
<1>7. \A n \in Nodes \ T : Len(runData'[n]) = Len(runData[n])
    <2> SUFFICES ASSUME NEW n \in Nodes \ T PROVE Len(runData'[n]) = Len(runData[n])
        OBVIOUS
    <2>1. {j \in 1..Len(Tools) : Tools[j] = n} = {}
        BY <1>5
    <2>2. Count(Tools, Len(Tools), n) = 0
        BY <2>1, FS_EmptySet DEF Count
    <2> DEFINE tools == Tools
               runs == runData
    <2>3. tools \in Seq(Nodes) /\ runs \in RunDatas /\ runData' = Requested(runs, tools)
            /\ Count(tools, Len(tools), n) = 0
        BY <1>3, <1>4, <1>6, <2>2
    <2>4. Len(runs[n]) \in Nat
        BY <1>3, RunDatasLength
    <2> HIDE DEF tools, runs
    <2>5. Len(Requested(runs, tools)[n]) = Len(runs[n]) + Count(tools, Len(tools), n)
        BY <2>3, RequestedType
    <2> QED BY <2>3, <2>4, <2>5 DEF runs
<1>8. Few(w, runData') /\ Ran' = Ran
    <2>1. Few(w, runData')
        BY <1>3, <1>7 DEF Few
    <2>2. Ran' = {n \in Nodes \ T : Len(runData'[n]) > 0}
        BY <1>1, <1>3 DEF Ran, RanIn
    <2>3. Ran = {n \in Nodes \ T : Len(runData[n]) > 0}
        BY <1>3 DEF Ran, RanIn
    <2> QED BY <1>7, <2>1, <2>2, <2>3
<1>9. EachOnce(w, Ups, stack', waiting', Ran)
    <2>1. CASE current.data[1] = Initial
        <3>1. stack' = stack /\ waiting' = waiting
            BY <1>6, <2>1 DEF SetPlan, Plan
        <3> QED BY <1>3, <3>1
    <2>2. CASE current.data[1] # Initial
        <3> DEFINE m == Len(Tools)
                   s == stack'
                   t == Work
        <3>1. /\ Stacked(s, m, AgentEntry, stack) /\ waiting' = waiting
              /\ \A i \in 1..m : s[i] = ToolEntry((m + 1) - i) /\ (m + 1) - i \in 1..m
            BY <2>2, RequestsOnStack
        <3>2. /\ AgentEntry.node = current.node
              /\ \A l \in 1..m : ToolEntry(l).node = Tools[l]
            BY <1>1, RequestEntries
        <3>3. /\ t = <<current>> \o stack /\ Len(t) = Len(stack) + 1 /\ t[1] = current
              /\ Len(stack) \in Nat
              /\ \A i \in 1..Len(stack) : t[i + 1] = stack[i]
            <4>1. t = <<current>> \o stack
                BY <1>1 DEF Work
            <4> HIDE DEF t
            <4> QED BY <1>3, <4>1
        <3>4. m \in Nat
            BY <1>4
        <3> HIDE DEF m, s, t
        <3>5. Len(s) = m + Len(t) /\ Len(t) \in Nat
            BY <3>1, <3>3, <3>4 DEF Stacked
        <3>6. \A i \in 1..m : s[i].node \in T
            BY <1>5, <3>1, <3>2 DEF m
        <3>7. ASSUME NEW i \in 1..Len(t) PROVE s[m + i].node = t[i].node
            <4>1. CASE i = 1
                BY <3>1, <3>2, <3>3, <4>1 DEF Stacked
            <4>2. CASE i # 1
                <5>1. i - 1 \in 1..Len(stack) /\ (m + 1) + (i - 1) = m + i /\ (i - 1) + 1 = i
                    BY <3>3, <3>4, <4>2
                <5>2. s[(m + 1) + (i - 1)] = stack[i - 1] /\ t[(i - 1) + 1] = stack[i - 1]
                    BY <3>1, <3>3, <5>1 DEF Stacked
                <5> QED BY <5>1, <5>2
            <4> QED BY <4>1, <4>2
        <3> HIDE DEF w
        <3>8. NodesOf(w, s) = NodesOf(w, t) /\ (Differ(w, t) => Differ(w, s))
            BY <3>4, <3>5, <3>6, <3>7, ToolsAbove
        <3> QED BY <1>3, <3>1, <3>8 DEF EachOnce, s, t
    <2> QED BY <2>1, <2>2
<1>10. Work' = stack'
    BY <1>1 DEF Work
<1> QED BY <1>1, <1>2, <1>8, <1>9, <1>10 DEF OnceInv

\* Another engine goes on with an execution that waits.
LEMMA OnceResumes ==
    ASSUME TypeInv, AgentInv, OnceInv, PlainAgents(workflow), Resume
    PROVE  OnceInv'
<1> SUFFICES ASSUME Simple' PROVE OnceInv'
    BY DEF OnceInv
<1> DEFINE w == workflow
           T == ToolNodes(w)
           s == stack
           t == stack'
           n == stack[1].node
           last == lastNodeExecuted
           runs == runData
           after == runData'
<1>1. /\ pc = "ended" /\ status = "waiting" /\ pc' = "setup" /\ waitTill' = FALSE
      /\ t = [s EXCEPT ![1].disabled = TRUE] /\ after = RunDataWithoutLast
      /\ UNCHANGED <<workflow, waiting, lastNodeExecuted>>
    BY DEF Resume
<1>2. Ups' = Ups /\ Simple
    BY <1>1, UpsKept
<1>3. waitTill = TRUE
    BY <1>1 DEF TypeInv, WaitInv, Done
<1>4. Sound /\ Work = s /\ Work' = t
    BY <1>1 DEF Sound, Alive, Work
<1>5. /\ Few(w, runs) /\ EachOnce(w, Ups, s, waiting, Ran)
      /\ WaitsOnTop(w, s, runs, TRUE, last)
    BY <1>2, <1>3, <1>4 DEF OnceInv, AgentInv, Fine
<1>6. s \in Seq(Entries) /\ runs \in RunDatas
    BY WorkType DEF RunDatas, TypeInv, RunsInv
<1> HIDE DEF s, t, last, runs, after, n
<1>7. s # <<>> /\ last = {n} /\ s[1].run + 1 = Len(runs[n])
    BY <1>5 DEF WaitsOnTop, n, s
<1>8. 1 \in 1..Len(s)
    BY <1>6, <1>7, EmptySeq
<1>9. n \in Nodes /\ s[1].run \in Nat \cup {-1}
    BY <1>6, <1>8, EntryFields DEF n, s
<1>10. \A m \in Nodes : Len(runs[m]) \in Nat
    BY <1>6, RunDatasLength
<1>11. \A m \in Nodes : after[m] = IF m = n THEN Front(runs[n]) ELSE runs[m]
    BY <1>1, <1>7 DEF RunDataWithoutLast, last, runs
<1>12. n \notin T => Len(after[n]) = 0
    <2> SUFFICES ASSUME n \notin T PROVE Len(after[n]) = 0
        OBVIOUS
    <2> DEFINE r == runs[n]
    <2>1. r \in Seq(TaskDatas)
        BY <1>6, <1>9, RunDatasLength
    <2>2. Len(r) <= 1
        BY <1>5, <1>9 DEF Few
    <2>3. Len(r) \in Nat /\ Len(r) - 1 <= 0
        BY <1>9, <1>10, <2>2
    <2>4. Front(r) = [i \in 1..(Len(r) - 1) |-> r[i]]
        BY DEF Front
    <2> HIDE DEF r
    <2>5. 1..(Len(r) - 1) = 1..0
        BY <2>3
    <2>6. Len(Front(r)) = 0
        <3>1. Front(r) = [i \in 1..0 |-> r[i]]
            BY <2>4, <2>5
        <3> QED BY <3>1
    <2> QED BY <1>9, <1>11, <2>6 DEF r
<1>13. Few(w, after)
    BY <1>5, <1>11, <1>12 DEF Few
<1>14. Ran' = Ran
    <2>1. Ran' = {m \in Nodes \ T : Len(after[m]) > 0}
        BY <1>1 DEF Ran, RanIn, after
    <2>2. Ran = {m \in Nodes \ T : Len(runs[m]) > 0 /\ m # n}
        BY <1>3, <1>7 DEF Ran, RanIn, runs, last
    <2>3. \A m \in Nodes \ T : Len(after[m]) > 0 <=> Len(runs[m]) > 0 /\ m # n
        BY <1>11, <1>12
    <2> QED BY <2>1, <2>2, <2>3
<1>15. EachOnce(w, Ups, t, waiting, Ran)
    <2> DEFINE place == 1
               e == [s[place] EXCEPT !.disabled = TRUE]
    <2>1. s[place] \in Entries /\ e.node = s[place].node /\ e \in Entries
        <3>1. s[place] \in Entries
            BY <1>6, <1>8, ElementOfSeq
        <3> DEFINE x == s[place]
        <3> HIDE DEF x
        <3>2. x \in Entries => [x EXCEPT !.disabled = TRUE].node = x.node
                                /\ [x EXCEPT !.disabled = TRUE] \in Entries
            BY DEF Entries
        <3> QED BY <3>1, <3>2 DEF x
    <2>2. t = [s EXCEPT ![place] = e] /\ place \in 1..Len(s)
        BY <1>1, <1>8
    <2> HIDE DEF place, e
    <2>3. /\ [s EXCEPT ![place] = e] \in Seq(Entries)
          /\ Len([s EXCEPT ![place] = e]) = Len(s)
          /\ \A j \in 1..Len(s) : [s EXCEPT ![place] = e][j] = IF j = place THEN e ELSE s[j]
        BY <1>6, <2>1, <2>2, ExceptSeq
    <2>4. Len(t) = Len(s) /\ \A i \in 1..Len(s) : t[i].node = s[i].node
        BY <2>1, <2>2, <2>3
    <2> HIDE DEF w
    <2>5. NodesOf(w, t) = NodesOf(w, s) /\ (Differ(w, t) <=> Differ(w, s))
        BY <2>4, SameNodes
    <2> QED BY <1>5, <2>5 DEF EachOnce
<1> QED BY <1>1, <1>2, <1>4, <1>13, <1>14, <1>15 DEF OnceInv, after

\* Every step keeps the invariant.
LEMMA OnceStep ==
    ASSUME TypeInv, AgentInv, OnceInv, PlainAgents(workflow), [Next]_vars
    PROVE  OnceInv'
<1>1. TypeInv'
    BY TypeStep
<1> QED BY <1>1, OnceKept, OnceBegins, OnceAfter, OnceNodeEnds, OnceRequests, OnceResumes
        DEF Next, EngineStep, NodeEnds

\* In a workflow without loops, where every input has one source, a node that is no
\* tool runs once at most: none is run without the data of an input that is still to
\* come (the check of parentIsWaiting), and one that has put the execution to wait does
\* not show up twice (handleWaitingState). For workflows whose agents have one input and
\* ask for nodes that are nothing but tools.
THEOREM NodesRunOnceHolds ==
    ASSUME \A w \in Workflows : PlainAgents(w)
    PROVE  Spec => []NodesRunOnce
<1>1. TypeInv => PlainAgents(workflow)
    BY DEF TypeInv
<1>2. Init => TypeInv /\ AgentInv /\ OnceInv
    BY <1>1, TypeInit, AgentInit, OnceInit
<1>3. TypeInv /\ AgentInv /\ OnceInv /\ [Next]_vars => (TypeInv /\ AgentInv /\ OnceInv)'
    BY <1>1, TypeStep, AgentStep, OnceStep
<1>4. OnceInv => NodesRunOnce
    BY DEF OnceInv, Simple, NodesRunOnce, Few, ToolNodes
<1> QED BY <1>2, <1>3, <1>4, PTL DEF Spec
=============================================================================
