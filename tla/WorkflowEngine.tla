--------------------------- MODULE WorkflowEngine ---------------------------
(***************************************************************************)
(* The engine that runs the nodes of a workflow, one after the other.       *)
(*                                                                         *)
(*   packages/core/src/execution-engine/workflow-execute.ts                 *)
(*   packages/core/src/execution-engine/requests-response.ts                *)
(*                                                                         *)
(* A node runs when its data is at the head of the stack. What it outputs   *)
(* is put on the stack for the nodes it is connected to; a node with several *)
(* connected inputs waits until all of them have data, or until nothing     *)
(* else is left to run. An agent may ask for tools to be run before it goes  *)
(* on. The execution order is "v1", the default. What items hold is         *)
(* abstracted: the data of an input is named by the run and the output it    *)
(* comes from.                                                              *)
(***************************************************************************)
EXTENDS Integers, FiniteSets, Sequences, Bags, SequencesExt

CONSTANTS
    Nodes,
    Workflows,  \* the workflows to be run: see IsWorkflow
    MaxRuns,    \* bound: in its last run, a node has no items on its second output
    MaxRequests \* bound: how often an agent asks for tools before it is done

ASSUME NodesAssumption == IsFiniteSet(Nodes)
ASSUME BoundsAssumption == MaxRuns \in Nat /\ MaxRequests \in Nat

VARIABLES
    workflow,   \* the workflow that is run
    stack,      \* Seq(Entry), nodeExecutionStack
    waiting,    \* [Nodes -> [indexes -> Seq(Slot)]], waitingExecution
    waitingNodes, \* Seq(Nodes), the keys of waitingExecution in their order
    runData,    \* [Nodes -> Seq(TaskData)]
    lastNodeExecuted,
    current,    \* the entry that is executed and its run index
    status,     \* of the execution, as the engine has it
    aborted,    \* the abort controller's signal
    executionError,
    waitTill,   \* a node has put the execution to wait
    pc,         \* where the engine is
    saves,      \* how often the hook workflowExecuteAfter was run
    open,       \* the bag of runs with a nodeExecuteBefore and no nodeExecuteAfter
    taken       \* inputs of nodes whose data has been executed (a ghost)

dataVars == <<stack, waiting, waitingNodes, runData, lastNodeExecuted, current, open, taken>>
vars == <<workflow, dataVars, status, aborted, executionError, waitTill, pc, saves>>

Indexes == 0..1     \* inputs and outputs of a node
Connection == [from : Nodes, output : Indexes, to : Nodes, input : Indexes]

IsWorkflow(w) ==
    /\ w.start \in Nodes
    /\ w.connections \subseteq Connection           \* of type main
    /\ IsFiniteSet(w.connections)
    /\ w.position \in [Nodes -> Nat]                \* from the top left
    /\ \A m, n \in Nodes : m # n => w.position[m] # w.position[n]
    /\ w.requireAll \subseteq Nodes                 \* require data on all inputs
    /\ w.mayFail \subseteq Nodes /\ w.continueOnFail \subseteq Nodes
    /\ w.mayWait \subseteq Nodes                    \* may put the execution to wait
    /\ w.mayReturnNull \subseteq Nodes
    /\ w.tools \in [Nodes -> Seq(Nodes)]            \* what an agent asks for
    /\ w.destination \subseteq Nodes                \* the destination node, if any
    /\ w.inclusive \in BOOLEAN                      \* whether it is run itself
    /\ w.mayStop \in BOOLEAN                        \* by a user, or by its timeout

ASSUME WorkflowsAssumption == \A w \in Workflows : IsWorkflow(w)

\* The data of one input: the run and output it comes from, nothing yet, or no
\* items. Initial is the item a workflow starts with.
Missing == <<>>
Empty   == <<0>>
Initial == <<0, 0>>
Datum(n, run, output) == <<n, run, output>>
HasItems(slot) == Len(slot) > 1

\* run: the run index, or -1 for the next one. tools: the runs of the tools an
\* agent has asked for last. requests: how often it has asked; it goes on, as
\* nodeWasResumed says, when it has. disabled: the node has put the execution to
\* wait and passes its input on.
Entry(n, data) == [node |-> n, data |-> data, run |-> -1, tools |-> <<>>,
                   requests |-> 0, disabled |-> FALSE]

TaskData(s, output) == [status |-> s, output |-> output]

IsSlot(slot) == \/ slot \in {Missing, Empty, Initial}
                \/ slot[1] \in Nodes /\ slot[2] \in Nat /\ slot[3] \in Indexes

\* Every entry that is executed has data, or [], for all inputs; every waiting one
\* lacks some; the keys of waitingExecution are the nodes that have entries.
TypeOK ==
    /\ workflow \in Workflows
    /\ \A e \in Range(stack) \cup {current} :
            /\ e.node \in Nodes /\ e.run \in Nat \cup {-1}
            /\ e.requests \in 0..MaxRequests /\ e.disabled \in BOOLEAN
            /\ \A slot \in Range(e.data) : IsSlot(slot) /\ slot # Missing
    /\ \A n \in Nodes : \A i \in DOMAIN waiting[n] :
            /\ \A slot \in Range(waiting[n][i]) : IsSlot(slot)
            /\ Missing \in Range(waiting[n][i])
    /\ Range(waitingNodes) = {n \in Nodes : DOMAIN waiting[n] # {}}
    /\ \A n \in Nodes : \A t \in Range(runData[n]) :
            /\ t.status \in {"requested", "success", "error", "waiting"}
            /\ t.output \subseteq Indexes
    /\ lastNodeExecuted \subseteq Nodes
    /\ status \in {"running", "waiting", "success", "error", "canceled"}
    /\ aborted \in BOOLEAN /\ executionError \in BOOLEAN /\ waitTill \in BOOLEAN
    /\ pc \in {"setup", "loop", "node", "after", "after:destination", "after:failed",
               "after:waiting", "stop", "closing", "saving", "ended"}
    /\ saves \in 0..2

Init ==
    /\ workflow \in Workflows
    /\ stack = <<Entry(workflow.start, <<Initial>>)>>
    /\ waiting = [n \in Nodes |-> <<>>]
    /\ waitingNodes = <<>>
    /\ runData = [n \in Nodes |-> <<>>]
    /\ lastNodeExecuted = {}
    /\ current = Entry(workflow.start, <<>>)
    /\ status = "running"
    /\ aborted = FALSE /\ executionError = FALSE /\ waitTill = FALSE
    /\ pc = "setup"
    /\ saves = 0
    /\ open = EmptyBag /\ taken = {}

-----------------------------------------------------------------------------
(* The graph                                                               *)

InputsOf(n) == {c.input : c \in {d \in workflow.connections : d.to = n}}

\* connectionsByDestinationNode[n].main.length
numberOfInputs(n) == IF InputsOf(n) = {} THEN 0 ELSE Max(InputsOf(n)) + 1

\* The nodes' parents by connections of type main
Parents(S) == {c.from : c \in {d \in workflow.connections : d.to \in S}}

\* getParentNodes: the node itself is not among them
getParentNodes(n) ==
    LET within[k \in 0..Cardinality(Nodes)] ==
            IF k = 0 THEN Parents({n}) ELSE LET near == within[k - 1] IN near \cup Parents(near)
    IN  within[Cardinality(Nodes)] \ {n}

\* The connections of outputs that have items
ConnectionsOf(n, output) ==
    {c \in workflow.connections : c.from = n /\ c.output \in output}

\* nodesToAdd.sort(): what is more to the top left comes later
SortsBefore(c, d) ==
    \/ workflow.position[c.to] > workflow.position[d.to]
    \/ c.to = d.to /\ c.output < d.output
    \/ c.to = d.to /\ c.output = d.output /\ c.input < d.input

\* They in the order they are added in: each has as many before it as it should
Outgoing(n, output) ==
    LET unsorted == ConnectionsOf(n, output)
    IN  [i \in 1..Cardinality(unsorted) |->
            CHOOSE c \in unsorted : Cardinality({d \in unsorted : SortsBefore(d, c)}) = i - 1]

\* With a destination node, only what leads to it is run
runNodeFilter ==
    IF workflow.destination = {} THEN Nodes
    ELSE UNION {getParentNodes(d) : d \in workflow.destination}
         \cup (IF workflow.inclusive THEN workflow.destination ELSE {})

-----------------------------------------------------------------------------
(* addNodeToBeExecuted, on what it changes                                  *)

Plan == [stack |-> stack, waiting |-> waiting, waitingNodes |-> waitingNodes]

SetPlan(plan) ==
    /\ stack' = plan.stack
    /\ waiting' = plan.waiting
    /\ waitingNodes' = plan.waitingNodes

\* Mutant: the node stays among those that wait
RemoveEntry(plan, n, index) ==
    [plan EXCEPT !.waiting[n] = [i \in DOMAIN @ \ {index} |-> @[i]]]
\* Removes an entry of waitingExecution, and the node with its last one
RemoveWaiting(plan, n, index) ==
    LET left == DOMAIN plan.waiting[n] \ {index}
    IN  [plan EXCEPT
            !.waiting[n] = [i \in left |-> @[i]],
            !.waitingNodes = IF left = {} THEN RemoveFirst(@, n) ELSE @]

\* Mutant: the first entry, whether it has data for the input or not
FirstIndex(entries, input) == IF DOMAIN entries = {} THEN 0 ELSE Min(DOMAIN entries)
\* The waiting entry that data for this input goes to: the first that lacks it,
\* or else one whose index is the number of the entries
WaitingIndex(entries, input) ==
    LET lacking == {i \in DOMAIN entries : entries[i][input + 1] = Missing}
    IN  IF lacking # {} THEN Min(lacking) ELSE Cardinality(DOMAIN entries)

AddWaiting(plan, n, input, slot) ==
    LET entries == plan.waiting[n]
        index   == WaitingIndex(entries, input)
        old     == IF index \in DOMAIN entries /\ entries[index][input + 1] = Missing
                   THEN entries[index]
                   ELSE [i \in 1..numberOfInputs(n) |-> Missing]
        new     == [old EXCEPT ![input + 1] = slot]
        updated == [i \in DOMAIN entries \cup {index} |-> IF i = index THEN new ELSE entries[i]]
        stored  == [plan EXCEPT
                        !.waiting[n] = updated,
                        !.waitingNodes = IF Contains(@, n) THEN @ ELSE Append(@, n)]
    IN  IF Contains(new, Missing) THEN stored
        ELSE [RemoveWaiting(stored, n, index) EXCEPT !.stack = <<Entry(n, new)>> \o @]

\* The entry is what goes on the stack if its node has one input
addNodeToBeExecuted(plan, input, entry) ==
    IF numberOfInputs(entry.node) > 1
    THEN AddWaiting(plan, entry.node, input, entry.data[1])
    ELSE [plan EXCEPT !.stack = <<entry>> \o @]

\* Several entries, one after the other: the plan after each of them
Added(additions) ==
    LET added[k \in 0..Len(additions)] ==
            IF k = 0 THEN Plan
            ELSE addNodeToBeExecuted(added[k - 1], additions[k].input, additions[k].entry)
    IN  added
AddAll(additions) == Added(additions)[Len(additions)]

\* The nodes that come after a run
Children(n, run, output) ==
    LET to == Outgoing(n, output)
    IN  [i \in DOMAIN to |->
            [input |-> to[i].input, entry |-> Entry(to[i].to, <<Datum(n, run, to[i].output)>>)]]
AddChildren(n, run, output) == AddAll(Children(n, run, output))

-----------------------------------------------------------------------------
(* The waiting nodes, once nothing else is left to run                      *)

\* Mutant: whether a parent is waiting itself is not looked at
parentIsNotWaiting(n) == FALSE
parentIsWaiting(n) == getParentNodes(n) \cap Range(waitingNodes) # {}

MayRunWithout(n) == n \notin workflow.requireAll /\ ~parentIsWaiting(n)

\* Mutant: only the first of the waiting nodes is looked at
FirstIfItMayRun ==
    IF waitingNodes # <<>> /\ MayRunWithout(Head(waitingNodes)) THEN {Head(waitingNodes)} ELSE {}
\* The first of them that may run without the data that is missing
NextWaiting ==
    LET able == {i \in DOMAIN waitingNodes : MayRunWithout(waitingNodes[i])}
    IN  IF able = {} THEN {} ELSE {waitingNodes[Min(able)]}

RunWaiting(n) ==
    LET first == Min(DOMAIN waiting[n])
        data  == [i \in DOMAIN waiting[n][first] |->
                    IF waiting[n][first][i] = Missing THEN Empty ELSE waiting[n][first][i]]
    IN  [RemoveWaiting(Plan, n, first) EXCEPT !.stack = Append(@, Entry(n, data))]

-----------------------------------------------------------------------------
(* The loop of processRunExecutionData. Each action ends at an await.       *)

\* The context is established and the hook workflowExecuteBefore run. When that
\* fails, the run data is replaced by the failure of the first node.
Begin ==
    /\ pc = "setup"
    /\ pc' = "loop"
    /\ UNCHANGED <<workflow, dataVars, status, aborted, executionError, waitTill, saves>>

SetupFails ==
    /\ pc = "setup"
    /\ workflow.mayFail # {}
    /\ LET n == Head(stack).node
       IN  /\ runData' = [m \in Nodes |-> IF m = n THEN <<TaskData("error", {})>> ELSE <<>>]
           /\ lastNodeExecuted' = {n}
    /\ executionError' = TRUE
    /\ pc' = "saving"
    /\ saves' = saves + 1
    /\ UNCHANGED <<workflow, stack, waiting, waitingNodes, current, open, taken,
                   status, aborted, waitTill>>

\* Mutant: an agent that goes on is announced once more
AnnouncedAgain(e) == TRUE
\* Whether nodeExecuteBefore is run
Announced(e) == e.requests = 0

StartNode ==
    /\ pc = "loop" /\ stack # <<>> /\ status # "canceled"
    /\ LET e   == Head(stack)
           run == IF e.run # -1 THEN e.run ELSE Len(runData[e.node])
       IN  /\ e.node \in runNodeFilter
           /\ current' = [e EXCEPT !.run = run]
           /\ open' = IF Announced(e) THEN open (+) SetToBag({<<e.node, run>>}) ELSE open
    /\ stack' = Tail(stack)
    /\ executionError' = FALSE
    /\ pc' = "node"
    /\ UNCHANGED <<workflow, waiting, waitingNodes, runData, lastNodeExecuted, taken,
                   status, aborted, waitTill, saves>>

\* Mutant: a node that is skipped stays on the stack
SkipAndKeep ==
    /\ pc = "loop" /\ stack # <<>> /\ status # "canceled"
    /\ Head(stack).node \notin runNodeFilter
    /\ executionError' = FALSE
    /\ UNCHANGED <<workflow, dataVars, status, aborted, waitTill, pc, saves>>

SkipNode ==
    /\ pc = "loop" /\ stack # <<>> /\ status # "canceled"
    /\ Head(stack).node \notin runNodeFilter
    /\ stack' = Tail(stack)
    /\ executionError' = FALSE
    /\ UNCHANGED <<workflow, waiting, waitingNodes, runData, lastNodeExecuted, current,
                   open, taken, status, aborted, waitTill, pc, saves>>

\* The timeout is looked at before each node
TimeIsUp ==
    /\ pc = "loop" /\ stack # <<>> /\ workflow.mayStop
    /\ status' = "canceled"
    /\ pc' = "stop"
    /\ UNCHANGED <<workflow, dataVars, aborted, executionError, waitTill, saves>>

LoopEnds ==
    /\ pc = "loop"
    /\ stack = <<>> \/ status = "canceled"
    /\ pc' = "stop"
    /\ UNCHANGED <<workflow, dataVars, status, aborted, executionError, waitTill, saves>>

-----------------------------------------------------------------------------
(* The end of the current node                                              *)

\* The run data of a requested tool is there already
Recorded(taskData) ==
    LET n == current.node
        run == current.run
    IN  [runData EXCEPT ![n] = IF run + 1 \in DOMAIN @ THEN [@ EXCEPT ![run + 1] = taskData]
                               ELSE Append(@, taskData)]

Take == taken' = taken \cup
            {<<current.node, i - 1, current.data[i]>> : i \in DOMAIN current.data}
Closed == open' = open (-) SetToBag({<<current.node, current.run>>})

\* Only outputs with connections are looked at
Outputs == {c.output : c \in {d \in workflow.connections : d.from = current.node}}

\* What is passed on without executing the node
PassedOn == IF HasItems(current.data[1]) THEN Outputs \cap {0} ELSE {}

\* The run is recorded and the nodes that come next are added, except after the
\* destination node
GoOn(taskStatus, output) ==
    /\ runData' = Recorded(TaskData(taskStatus, output))
    /\ lastNodeExecuted' = {current.node}
    /\ IF current.node \in workflow.destination
       THEN /\ pc' = "after:destination"
            /\ UNCHANGED <<stack, waiting, waitingNodes>>
       ELSE /\ pc' = "after"
            /\ SetPlan(AddChildren(current.node, current.run, output))
    /\ Take /\ Closed
    /\ UNCHANGED <<workflow, current, status, aborted, waitTill, saves>>

NodeSucceeds(output) ==
    /\ pc = "node"
    /\ IF current.disabled THEN output = PassedOn
       ELSE current.run + 1 >= MaxRuns => 1 \notin output
    /\ GoOn("success", output)
    /\ UNCHANGED executionError

\* null: "the branch should end"
NodeReturnsNull ==
    /\ pc = "node"
    /\ current.node \in workflow.mayReturnNull /\ ~current.disabled
    /\ pc' = "loop"
    /\ Take
    /\ UNCHANGED <<workflow, stack, waiting, waitingNodes, runData, lastNodeExecuted,
                   current, open, status, aborted, executionError, waitTill, saves>>

\* The last try of a node has failed
NodeFails ==
    /\ pc = "node"
    /\ current.node \in workflow.mayFail /\ ~current.disabled
    /\ executionError' = TRUE
    /\ IF current.node \in workflow.continueOnFail
       THEN GoOn("error", PassedOn)
       ELSE /\ runData' = Recorded(TaskData("error", {}))
            /\ lastNodeExecuted' = {current.node}
            /\ stack' = <<current>> \o stack
            /\ IF aborted THEN pc' = "stop" /\ UNCHANGED open
                          ELSE pc' = "after:failed" /\ Closed
            /\ UNCHANGED <<workflow, waiting, waitingNodes, current, taken, status,
                           aborted, waitTill, saves>>

\* putExecutionToWait
NodeWaits ==
    /\ pc = "node"
    /\ current.node \in workflow.mayWait /\ ~current.disabled
    /\ waitTill' = TRUE
    /\ runData' = Recorded(TaskData("waiting", {}))
    /\ lastNodeExecuted' = {current.node}
    /\ pc' = "after:waiting"
    /\ Closed
    /\ UNCHANGED <<workflow, stack, waiting, waitingNodes, current, taken, status,
                   aborted, executionError, saves>>

\* Mutant: the agent is put on top of its tools
AgentLast(agent, tools) == tools \o <<agent>>
AgentFirst(agent, tools) == <<agent>> \o tools

\* handleEngineRequest: the tools are put on the stack, above the agent that is
\* to go on when they have run. Each tool has its run data from now on. Without
\* a parent node the agent is not resumed.
NodeRequests ==
    /\ pc = "node"
    /\ workflow.tools[current.node] # <<>> /\ ~current.disabled /\ current.requests < MaxRequests
    /\ LET tools == workflow.tools[current.node]
           runs  == [i \in DOMAIN tools |->
                        <<tools[i], Len(runData[tools[i]])
                            + Cardinality({j \in 1..(i - 1) : tools[j] = tools[i]})>>]
           slot  == Datum(current.node, current.run, 0)
           tool  == [i \in DOMAIN runs |->
                        [Entry(runs[i][1], <<slot>>) EXCEPT !.run = runs[i][2]]]
           agent == [current EXCEPT !.tools = runs, !.requests = @ + 1]
       IN  /\ runData' = [n \in Nodes |-> runData[n] \o
                            [i \in 1..Cardinality({j \in DOMAIN tools : tools[j] = n}) |->
                                TaskData("requested", {})]]
           /\ SetPlan(IF current.data[1] = Initial THEN Plan
                      ELSE LET all == AgentFirst(agent, tool)
                           IN  AddAll([i \in DOMAIN all |-> [input |-> 0, entry |-> all[i]]]))
    /\ pc' = "loop"
    /\ UNCHANGED <<workflow, lastNodeExecuted, current, open, taken, status, aborted,
                   executionError, waitTill, saves>>

\* nodeExecuteAfter has run: go on, with a waiting node when the stack is empty
AfterNode ==
    /\ pc = "after"
    /\ pc' = "loop"
    /\ IF stack = <<>> /\ NextWaiting # {}
       THEN \E n \in NextWaiting : SetPlan(RunWaiting(n))
       ELSE UNCHANGED <<stack, waiting, waitingNodes>>
    /\ UNCHANGED <<workflow, runData, lastNodeExecuted, current, open, taken, status,
                   aborted, executionError, waitTill, saves>>

AfterDestination ==
    /\ pc = "after:destination"
    /\ pc' = "loop"
    /\ UNCHANGED <<workflow, dataVars, status, aborted, executionError, waitTill, saves>>

\* A node that waits is put on the stack again
AfterStop ==
    /\ pc \in {"after:failed", "after:waiting"}
    /\ pc' = "stop"
    /\ stack' = IF pc = "after:waiting" THEN <<current>> \o stack ELSE stack
    /\ UNCHANGED <<workflow, waiting, waitingNodes, runData, lastNodeExecuted, current,
                   open, taken, status, aborted, executionError, waitTill, saves>>

-----------------------------------------------------------------------------
(* The end of the execution                                                 *)

\* processSuccessExecution, up to the close function of a trigger
Close ==
    /\ pc = "stop"
    /\ pc' = "closing"
    /\ status' \in IF executionError THEN {"error", "canceled"}  \* by its message
                  ELSE IF status = "canceled" THEN {"canceled"}
                  ELSE IF waitTill THEN {"waiting"} ELSE {"success"}
    /\ UNCHANGED <<workflow, dataVars, aborted, executionError, waitTill, saves>>

\* Mutant: what was cancelled for any reason is not saved
SavedIfNotCanceled == status = "canceled"
SavedByCancel == aborted

\* workflowExecuteAfter, which an abort has run already
Save ==
    /\ pc = "closing"
    /\ IF SavedByCancel THEN pc' = "ended" /\ UNCHANGED saves
                        ELSE pc' = "saving" /\ saves' = saves + 1
    /\ UNCHANGED <<workflow, dataVars, status, aborted, executionError, waitTill>>

Resolve ==
    /\ pc = "saving"
    /\ pc' = "ended"
    /\ UNCHANGED <<workflow, dataVars, status, aborted, executionError, waitTill, saves>>

\* onCancel, while the engine awaits something: the running node goes on until it
\* ends
Cancel ==
    /\ pc \notin {"loop", "stop", "ended"} /\ ~aborted /\ workflow.mayStop
    /\ status' = "canceled"
    /\ aborted' = TRUE
    /\ saves' = saves + 1
    /\ UNCHANGED <<workflow, dataVars, executionError, waitTill, pc>>

\* Without the run that put the execution to wait
RunDataWithoutLast ==
    [n \in Nodes |-> IF n \in lastNodeExecuted THEN Front(runData[n]) ELSE runData[n]]

\* Another engine goes on with an execution that waits: handleWaitingState
Resume ==
    /\ pc = "ended" /\ status = "waiting"
    /\ status' = "running"
    /\ waitTill' = FALSE /\ executionError' = FALSE
    /\ stack' = [stack EXCEPT ![1].disabled = TRUE]
    /\ runData' = RunDataWithoutLast
    /\ pc' = "setup"
    /\ saves' = 0
    /\ UNCHANGED <<workflow, waiting, waitingNodes, lastNodeExecuted, current, open,
                   taken, aborted>>

NodeEnds ==
    \/ \E output \in SUBSET Outputs : NodeSucceeds(output)
    \/ NodeReturnsNull
    \/ NodeFails
    \/ NodeWaits
    \/ NodeRequests

EngineStep ==
    \/ Begin \/ SetupFails \/ StartNode \/ SkipNode \/ LoopEnds \/ NodeEnds
    \/ AfterNode \/ AfterDestination \/ AfterStop \/ Close \/ Save \/ Resolve

Next == EngineStep \/ TimeIsUp \/ Cancel \/ Resume

\* Nodes end, hooks return
Spec == Init /\ [][Next]_vars /\ WF_vars(EngineStep)

-----------------------------------------------------------------------------
(* Properties                                                              *)

\* Data that has left a run: by connection, the node and input it is meant for.
\* After the destination nothing goes on, and a node that is not in the filter is
\* skipped with its data.
Deliveries ==
    UNION {
        {<<c.to, c.input, Datum(c.from, run - 1, c.output)>> :
            run \in {r \in DOMAIN runData[c.from] :
                        /\ c.output \in runData[c.from][r].output
                        /\ runData[c.from][r].status \in {"success", "error"}}} :
        c \in {d \in workflow.connections :
                    d.from \notin workflow.destination /\ d.to \in runNodeFilter}}

InEntries(entries, n, input, slot) ==
    Cardinality({i \in DOMAIN entries :
        entries[i].node = n /\ input + 1 \in DOMAIN entries[i].data
                            /\ entries[i].data[input + 1] = slot})

Places(d) ==
    LET n == d[1]  input == d[2]  slot == d[3]
    IN  InEntries(stack, n, input, slot)
        + (IF pc \in {"node", "after:waiting"} THEN InEntries(<<current>>, n, input, slot) ELSE 0)
        + Cardinality({i \in DOMAIN waiting[n] : waiting[n][i][input + 1] = slot})
        + (IF d \in taken THEN 1 ELSE 0)

\* What a node has output is, for each connection, in exactly one place: on the
\* stack, waiting for the node's other inputs, in the node that is executed, or
\* in one that has been. Loops, several sources of one input, waiting and agents
\* neither lose nor double it (addNodeToBeExecuted, the waiting nodes of
\* processRunExecutionData). engine_data_lost shows the workflows for which it
\* does not hold.
DataExactlyOnce == \A d \in Deliveries : Places(d) = 1

IsAcyclic == \A n \in Nodes : n \notin Parents({n} \cup getParentNodes(n))
OneSourcePerInput ==
    \A c, d \in workflow.connections : c.to = d.to /\ c.input = d.input => c = d

\* A node that can get one piece of data per input at most runs once at most: it
\* is not run without the data of an input that is still to come, and a node that
\* has put the execution to wait does not show up twice (the check of
\* parentIsWaiting; handleWaitingState: "to make sure the node does not show up
\* as having run twice").
NodesRunOnce ==
    IsAcyclic /\ OneSourcePerInput =>
        \A n \in Nodes \ UNION {Range(workflow.tools[m]) : m \in Nodes} : Len(runData[n]) <= 1

\* An execution that ends as a success has nothing left to run: no entry on the
\* stack, and no waiting node that may run without the data that is missing (the
\* search for waiting nodes once the stack is empty). Unless a node has returned
\* null, or was skipped: then nobody looks at the waiting nodes.
NothingLeft ==
    (pc = "ended" /\ status = "success"
        /\ workflow.mayReturnNull = {} /\ workflow.destination = {})
        => stack = <<>> /\ \A n \in Range(waitingNodes) : ~MayRunWithout(n)

\* The runs whose start was announced and whose end was not are the running one and
\* those of agents that go on later, each once: "Skip nodeExecuteBefore for resumed
\* agent nodes to prevent duplicate event emission" (processRunExecutionData).
\* Unless a node was aborted or has returned null, or the first node is an agent.
Unfinished ==
    {e \in Range(stack) : e.requests > 0 /\ ~e.disabled
                            /\ e.run + 1 \notin DOMAIN runData[e.node]}
    \cup (IF pc = "node" THEN {current} ELSE {})
HooksPaired ==
    (pc # "setup" /\ ~aborted /\ workflow.mayReturnNull = {}
        /\ workflow.tools[workflow.start] = <<>>)
        => open = SetToBag({<<e.node, e.run>> : e \in Unfinished})

\* An agent goes on when each tool it has asked for has run: "re-executed with tool
\* results once all actions finish" (handleRequest).
ToolsHaveRun ==
    pc = "node" /\ current.requests > 0 =>
        \A t \in Range(current.tools) :
            runData[t[1]][t[2] + 1].status \in {"success", "error"}

\* However an execution ends, by itself, by its timeout, by a stop in any state, or
\* before its first node, the hook that saves it has been run
\* (workflowExecuteAfter in processRunExecutionData, its catch and onCancel).
EveryEndIsSaved == pc = "ended" => saves > 0

\* An execution ends, whatever its nodes do, unless one goes on for ever
\* (processRunExecutionData).
Ends == pc = "setup" ~> pc = "ended"
=============================================================================
