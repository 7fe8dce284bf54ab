-------------------------- MODULE MCWorkflowEngine --------------------------
(* Workflows for TLC                                                       *)
EXTENDS WorkflowEngine, TLC

FiveNodes == 1..5

In(from, to, input) == [from |-> from, output |-> 0, to |-> to, input |-> input]
Out(from, output, to) == [from |-> from, output |-> output, to |-> to, input |-> 0]

None == [n \in FiveNodes |-> <<>>]

\* Node 1 is the first one; 1 is in the top left corner
Plain(connections) ==
    [start |-> 1, connections |-> connections, position |-> [n \in FiveNodes |-> n],
     requireAll |-> {}, mayFail |-> {}, continueOnFail |-> {}, mayWait |-> {},
     mayReturnNull |-> {}, tools |-> None, destination |-> {}, inclusive |-> TRUE,
     mayStop |-> FALSE]

Positions == {[n \in FiveNodes |-> n], [n \in FiveNodes |-> 6 - n]}

\* All workflows without loops of four nodes, connected by their first input, and
\* maybe by a second one, to one earlier node each
Sources(n) == {<<a, b>> \in (1..(n - 1)) \X (0..(n - 1)) : TRUE}
Acyclic ==
    {[Plain(UNION {{In(s[n - 1][1], n, 0)} \cup
                   (IF s[n - 1][2] = 0 THEN {} ELSE {In(s[n - 1][2], n, 1)}) : n \in 2..4})
        EXCEPT !.position = p] :
        s \in Sources(2) \X Sources(3) \X Sources(4), p \in Positions}

Chain   == {In(1, 2, 0), In(2, 3, 0), In(1, 4, 0)}
Diamond == Chain \cup {In(3, 5, 0), In(4, 5, 1)}

\* A loop whose rounds meet its end in a merging node, with data left for nodes 5
Loop == {In(1, 2, 0), Out(2, 1, 3), In(3, 2, 0), Out(2, 0, 4), In(3, 4, 1), In(4, 5, 0)}
\* Two branches, one node behind both
Branches == {In(1, 2, 0), Out(2, 0, 3), Out(2, 1, 4), In(3, 5, 0), In(4, 5, 0)}
\* Two sources of the first input of a merging node, one of the second
Sourced == {In(1, 2, 0), In(1, 3, 0), In(1, 4, 0), In(2, 5, 0), In(3, 5, 0), In(4, 5, 1)}

AgentTools == [None EXCEPT ![2] = <<4, 5, 4>>]
Agent == {In(1, 2, 0), In(2, 3, 0)}

Special ==
    {[Plain(Loop) EXCEPT !.mayFail = {3}, !.continueOnFail = {3}],
     Plain(Branches),
     [Plain(Branches) EXCEPT !.mayReturnNull = {3}, !.mayWait = {4}, !.mayStop = TRUE],
     Plain(Sourced),
     [Plain(Agent) EXCEPT !.tools = AgentTools, !.mayFail = {2, 4, 5}, !.continueOnFail = {5},
                          !.mayStop = TRUE],
     [Plain(Agent) EXCEPT !.tools = [AgentTools EXCEPT ![1] = <<4>>], !.mayWait = {5}],
     [Plain(Diamond) EXCEPT !.mayWait = {2, 4}, !.mayFail = {3}, !.mayStop = TRUE],
     [Plain(Diamond) EXCEPT !.requireAll = {5}, !.mayFail = {1, 4}, !.continueOnFail = {4}],
     [Plain(Diamond) EXCEPT !.destination = {3}],
     [Plain(Diamond) EXCEPT !.destination = {5}, !.inclusive = FALSE, !.mayWait = {3}]}

\* Node 5 gets data of 1 and 2 for its first input, of 3 for its second one, and
\* then of 4 for its first
Crossed == {Plain({In(1, 2, 0), In(1, 3, 0), In(1, 4, 0),
                   In(1, 5, 0), In(2, 5, 0), In(3, 5, 1), In(4, 5, 0)})}

AcyclicAndSpecial == Acyclic \cup Special
=============================================================================
