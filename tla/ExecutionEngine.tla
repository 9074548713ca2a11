--------------------------- MODULE ExecutionEngine ---------------------------
(***************************************************************************)
(* The plain runtime engine (hd/runtime/engine/plain): one task evaluates   *)
(* the result property of nodes on demand.  A computation node awaits the   *)
(* nodes that provide its inputs and then runs its function, a workflow node *)
(* awaits the nodes behind its outputs.  Results are cached; cycles are      *)
(* found by a flag that only computation nodes set.  The service asks for    *)
(* the root workflow first and then for every computation node.  It may be  *)
(* told to log individual results (return_individual_node_results), which   *)
(* evaluates the plots that were left out, too: not modelled.               *)
(***************************************************************************)
EXTENDS Integers, FiniteSets, Sequences

CONSTANTS
    Operators,   \* the computation nodes
    SubWorkflows,\* the workflow nodes below the root
    Root,        \* the executed workflow
    Parent,      \* node -> the workflow it is a sub node of
    PlotOnly,    \* nodes that have nothing but plot outputs
    MayLackInput,\* nodes that may have a required input nobody provides
    RunPlots,    \* run_pure_plot_operators
    MaxStack     \* bound: nested result evaluations the interpreter allows

\* Both kinds of nodes have inputs, a result and a name.
WorkflowNodes == SubWorkflows \cup {Root}
Nodes == Operators \cup WorkflowNodes

ASSUME ParentAssumption == Parent \in [Nodes \ {Root} -> WorkflowNodes]
\* Workflow nodes hold each other as a tree: no node is a sub node of its own.
ASSUME TreeAssumption ==
    \A S \in (SUBSET (Nodes \ {Root})) \ {{}} : \E n \in S : Parent[n] \notin S
ASSUME KindsAssumption == Operators \cap WorkflowNodes = {}
ASSUME SetsAssumption == PlotOnly \subseteq Nodes /\ MayLackInput \subseteq Nodes
ASSUME BoundAssumption == MaxStack \in Nat \ {0} /\ RunPlots \in BOOLEAN

VARIABLES
    provider,  \* computation node -> nodes its inputs are taken from
    outs,      \* workflow node -> sub nodes its outputs are taken from
    incomplete,\* the nodes with a required input nobody provides
    stack,     \* the nodes whose result is being evaluated, the innermost last
    computing, \* the nodes with _in_computation set
    results,   \* the nodes whose result is cached
    lacking,   \* the nodes whose result lacks an output somebody declared
    runs,      \* computation node -> how often its function ran, at most MaxRuns
    asked,     \* the computation nodes the service asked for, after the root
    status     \* "running", or how the execution ended

graph == <<provider, outs, incomplete>>
vars == <<graph, stack, computing, results, lacking, runs, asked, status>>

MaxRuns == 2
Statuses == {"running", "ok", "missingInput", "circular", "missingOutput",
             "componentError", "recursionError"}

-----------------------------------------------------------------------------
(* Graphs.                                                                 *)

\* n and the workflow nodes around it: the least set that holds n and the parents of
\* its members.
Around ==
    [n \in Nodes |->
        {m \in Nodes : \A S \in SUBSET Nodes :
            n \in S /\ (\A k \in S \ {Root} : Parent[k] \in S) => m \in S}]

\* A connection leads from a node to a node on its level and from there, through
\* input mappings, down to a computation node.
Level(n) == {d \in Nodes \ {Root} : Parent[d] = Parent[n]}
Connectable(n) == UNION {Level(b) : b \in Around[n] \ {Root}}

\* The connections between the sub nodes of w, as the stored links draw them.
Links(w) ==
    {link \in Nodes \X Nodes :
        /\ {link[1], link[2]} \subseteq {n \in Nodes \ {Root} : Parent[n] = w}
        /\ \E n \in Operators : link[1] \in provider[n] /\ link[2] \in Around[n]}

\* Fault: a link of an operator to itself does not count.
WithoutSourcesOrSelf(edges) == {e \in edges : \E f \in edges : f[2] = e[1] /\ f # e}

\* One round of links_acyclic_directed_graph: a vertex no edge ends in loses its
\* outgoing edges.
WithoutSources(edges) == {e \in edges : \E f \in edges : f[2] = e[1]}

LinksRemaining(edges) ==
    LET after[k \in 0 .. Cardinality(edges)] ==
            IF k = 0 THEN edges
            ELSE UNION {WithoutSources(before) : before \in {after[k - 1]}}
    IN  after[Cardinality(edges)]

\* links_acyclic_directed_graph accepts the links.
LinksAcyclic(edges) == LinksRemaining(edges) = {}

\* What parsing can make of the connections and of the output mappings.
Connections ==
    {f \in [Operators -> SUBSET Nodes] : \A n \in Operators : f[n] \subseteq Connectable(n)}
OutputMappings ==
    {f \in [WorkflowNodes -> SUBSET (Nodes \ {Root})] :
        \A w \in WorkflowNodes : \A n \in f[w] : Parent[n] = w}

\* A node is made without a result and not in computation.
NotStarted ==
    /\ computing = {} /\ results = {} /\ lacking = {}
    /\ runs = [n \in Operators |-> 0]

\* recursively_parse_workflow_node: connections of outer levels replace the nodes of
\* default values that inner ones wired; nodes of constants and default values are
\* computation nodes that nothing leads to.
Init ==
    /\ provider \in Connections
    /\ outs \in OutputMappings
    /\ incomplete \in SUBSET MayLackInput
    /\ NotStarted
    /\ stack = <<>> /\ asked = {}
    /\ status = "running"

-----------------------------------------------------------------------------
(* Evaluation.                                                             *)

Skipped(n) == n \in PlotOnly /\ ~RunPlots

\* What the result of n awaits: all inputs of a computation node, the outputs of
\* a workflow except those of pure plot nodes.
Needs(n) == IF n \in Operators THEN provider[n] ELSE {d \in outs[n] : ~Skipped(d)}

Top == stack[Len(stack)]
Popped == SubSeq(stack, 1, Len(stack) - 1)

Ended(how) ==
    /\ status' = how
    /\ UNCHANGED <<graph, stack, computing, results, lacking, runs, asked>>

\* Evaluating the result of n begins; the flag is set before inputs are checked.
Enter(n) ==
    \/ /\ Len(stack) = MaxStack
       /\ Ended("recursionError")
    \/ /\ Len(stack) < MaxStack
       /\ n \in incomplete
       /\ Ended("missingInput")
    \/ /\ Len(stack) < MaxStack
       /\ n \notin incomplete
       /\ stack' = Append(stack, n)
       /\ computing' = IF n \in Operators THEN computing \cup {n} ELSE computing
       /\ UNCHANGED <<graph, results, lacking, runs, asked, status>>

\* A computation node looks at the flag of a provider before it awaits it.
Circular(d) == Top \in Operators /\ d \in computing

\* Faults: results are not cached; an output that is missing goes unnoticed.
AwaitUncached ==
    /\ status = "running" /\ stack # <<>>
    /\ \E d \in Needs(Top) :
          \/ Circular(d) /\ Ended("circular")
          \/ ~Circular(d) /\ Enter(d)
AwaitUnchecked ==
    /\ status = "running" /\ stack # <<>>
    /\ \E d \in Needs(Top) :
          \/ Circular(d) /\ Ended("circular")
          \/ ~Circular(d) /\ d \notin results /\ Enter(d)

\* The innermost evaluation awaits one more of the nodes it needs.
Await ==
    /\ status = "running" /\ stack # <<>>
    /\ \E d \in Needs(Top) :
          \/ /\ Circular(d)
             /\ Ended("circular")
          \/ /\ ~Circular(d)
             /\ d \notin results
             /\ Enter(d)
          \/ /\ ~Circular(d)
             /\ d \in lacking
             /\ Ended("missingOutput")

\* Fault: a node runs as soon as one of its inputs is there.
ReadyEarly == Needs(Top) = {} \/ Needs(Top) \cap (results \ lacking) # {}

Ready == Needs(Top) \subseteq results \ lacking

\* Fault: the flag is not reset when the function returned.
RunOperatorKeepsFlag ==
    /\ status = "running" /\ stack # <<>>
    /\ Top \in Operators
    /\ Ready
    /\ runs' = [runs EXCEPT ![Top] = IF @ = MaxRuns THEN @ ELSE @ + 1]
    /\ results' = results \cup {Top}
    /\ stack' = Popped
    /\ UNCHANGED <<graph, computing, lacking, asked, status>>

\* The function of the innermost node ran: it raised, or its outputs are cached;
\* one that is declared may be missing in them.
RunOperator ==
    /\ status = "running" /\ stack # <<>>
    /\ Top \in Operators
    /\ Ready
    /\ \/ Ended("componentError")
       \/ /\ runs' = [runs EXCEPT ![Top] = IF @ = MaxRuns THEN @ ELSE @ + 1]
          /\ results' = results \cup {Top}
          /\ lacking' \in {lacking, lacking \cup {Top}}
          /\ computing' = computing \ {Top}
          /\ stack' = Popped
          /\ UNCHANGED <<graph, asked, status>>

\* Every output of the innermost workflow node is gathered.
FinishWorkflow ==
    /\ status = "running" /\ stack # <<>>
    /\ Top \in WorkflowNodes
    /\ Ready
    /\ results' = results \cup {Top}
    /\ stack' = Popped
    /\ UNCHANGED <<graph, computing, lacking, runs, asked, status>>

-----------------------------------------------------------------------------
(* The service: the root's result, then every computation node's.           *)

EvaluateRoot ==
    /\ status = "running" /\ stack = <<>>
    /\ Root \notin results
    /\ Enter(Root)

\* Fault: only what the root needed is run.
AskedForNothing == {}

AskedFor == {n \in Operators : ~Skipped(n)}

EvaluateNode ==
    /\ status = "running" /\ stack = <<>>
    /\ Root \in results
    /\ \E n \in AskedFor \ asked :
          \/ /\ n \in results
             /\ asked' = asked \cup {n}
             /\ UNCHANGED <<graph, stack, computing, results, lacking, runs, status>>
          \/ /\ n \notin results
             /\ Enter(n)

Finish ==
    /\ status = "running" /\ stack = <<>>
    /\ Root \in results
    /\ AskedFor \subseteq asked
    /\ Ended("ok")

Next == Await \/ RunOperator \/ FinishWorkflow \/ EvaluateRoot \/ EvaluateNode \/ Finish

Spec == Init /\ [][Next]_vars

\* The event loop goes on with the only task there is.
FairSpec == Spec /\ WF_vars(Next)

-----------------------------------------------------------------------------
(* What an evaluation is to compute.                                       *)

\* The root and every computation node that is not a pure plot are asked for; a
\* node is needed when it is in every set that holds these and what they need.
Wanted == {Root} \cup {n \in Operators : ~Skipped(n)}
Needed ==
    {n \in Nodes : \A S \in SUBSET Nodes :
        Wanted \subseteq S /\ (\A m \in S : Needs(m) \subseteq S) => n \in S}

\* Some of the nodes of S need each other in a circle.
HasCircle(S) == \E C \in (SUBSET S) \ {{}} : \A n \in C : Needs(n) \cap C # {}

-----------------------------------------------------------------------------
(* Properties.                                                             *)

\* Every variable stays in its type, and only nodes under evaluation carry the
\* flag that makes them circular.
TypeOK ==
    /\ provider \in [Operators -> SUBSET Nodes]
    /\ outs \in [WorkflowNodes -> SUBSET Nodes]
    /\ incomplete \subseteq Nodes
    /\ stack \in Seq(Nodes) /\ Len(stack) <= MaxStack
    /\ computing \subseteq {stack[i] : i \in DOMAIN stack} \cap Operators
    /\ results \subseteq Nodes
    /\ lacking \subseteq results /\ asked \subseteq Operators
    /\ runs \in [Operators -> 0 .. MaxRuns]
    /\ status \in Statuses

\* links_acyclic_directed_graph accepts a workflow's links exactly when no
\* operators are linked in a circle.
LinkCheckIsExact ==
    \A w \in WorkflowNodes :
        LinksAcyclic(Links(w)) <=>
            ~ \E C \in (SUBSET Nodes) \ {{}} :
                 \A n \in C : \E d \in C : <<d, n>> \in Links(w)

\* A result is computed once, although many nodes await it, and when all inputs of
\* the function are there, but never after the execution was given up.
RunsOnceAfterInputs ==
    [][\A n \in Operators : runs'[n] # runs[n] =>
          runs[n] = 0 /\ provider[n] \subseteq results \ lacking /\ status' = "running"]_vars

\* A successful execution ran exactly the functions that were needed, so every
\* node but a pure plot, and no node of it needs itself.
OkMeansComplete ==
    status = "ok" =>
        /\ \A n \in Operators : runs[n] = (IF n \in Needed THEN 1 ELSE 0)
        /\ ~HasCircle(Needed)

\* Only executions with a circle end as circular.
CircularMeansCircle == status \in {"circular", "recursionError"} => HasCircle(Needed)

\* Both: how an execution ended is true of its graph.
OutcomeIsTrue == OkMeansComplete /\ CircularMeansCircle

\* Circular dependencies are reported as such: the interpreter's recursion limit
\* is never what ends an execution. The code does not keep this: circles whose
\* connections all lead through workflow nodes are not found.
CirclesAreReported == status # "recursionError"

\* Links that pass links_acyclic_directed_graph on every level make no circle
\* across levels, so that evaluation never meets the recursion limit.
ValidatedHasNoCircle ==
    (\A w \in WorkflowNodes : LinksAcyclic(Links(w))) => ~HasCircle(Nodes) /\ CirclesAreReported

\* links_acyclic_directed_graph refuses exactly the levels with a circle, and what it
\* accepts level by level is enough for the evaluation of the whole.
LinkCheckSuffices == LinkCheckIsExact /\ ValidatedHasNoCircle

\* Every execution ends, whatever the graph.
Ends == <>(status # "running")
=============================================================================
