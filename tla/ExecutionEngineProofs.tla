-------------------------- MODULE ExecutionEngineProofs --------------------------
(***************************************************************************)
(* Proofs about the plain runtime engine: what is on the stack of nested   *)
(* evaluations, what was computed, and what the end of an execution says   *)
(* about its graph, for any nested workflow and any way of connecting it.  *)
(***************************************************************************)
EXTENDS ExecutionEngine, FiniteSetTheorems, WellFoundedInduction, TLAPS

\* A node under evaluation is awaited by the one below it or asked for by the service;
\* its result is not there yet.
StackIsAChain ==
    /\ \A i \in 1 .. Len(stack) : stack[i] \in Needed /\ stack[i] \notin results
    /\ \A i \in 1 .. Len(stack) - 1 : stack[i + 1] \in Needs(stack[i])

\* Results are those of needed nodes, and everything a result needs is one; so no
\* result needs itself.
ResultsAreFounded ==
    /\ results \subseteq Needed
    /\ \A n \in results : Needs(n) \subseteq results
    /\ ~HasCircle(results)

\* A function ran for every result and for nothing else.
RunsAreResults == \A n \in Operators : runs[n] = (IF n \in results THEN 1 ELSE 0)

AskedAreResults ==
    /\ asked \subseteq results
    /\ status = "ok" => Root \in results /\ AskedFor \subseteq asked

EngineInv ==
    /\ TypeOK /\ StackIsAChain /\ ResultsAreFounded /\ RunsAreResults /\ AskedAreResults

-----------------------------------------------------------------------------
(* What is needed.                                                         *)

GraphOK == provider \in [Operators -> SUBSET Nodes] /\ outs \in [WorkflowNodes -> SUBSET Nodes]

LEMMA NeedsAreNodes ==
    ASSUME GraphOK, NEW n \in Nodes
    PROVE  Needs(n) \subseteq Nodes
BY DEF GraphOK, Needs, Nodes

LEMMA NeededIsClosed ==
    ASSUME GraphOK
    PROVE  /\ Wanted \subseteq Needed /\ Needed \subseteq Nodes
           /\ \A n \in Needed : Needs(n) \subseteq Needed
<1>1. Wanted \subseteq Nodes
  BY DEF Wanted, Nodes, WorkflowNodes
<1>2. Wanted \subseteq Needed /\ Needed \subseteq Nodes
  BY <1>1 DEF Needed
<1>3. ASSUME NEW n \in Needed, NEW d \in Needs(n)
      PROVE  d \in Needed
  <2>1. n \in Nodes /\ d \in Nodes
    BY <1>2, <1>3, NeedsAreNodes
  <2>2. ASSUME NEW S \in SUBSET Nodes, Wanted \subseteq S, \A m \in S : Needs(m) \subseteq S
        PROVE  d \in S
    <3>1. n \in S
      BY <1>3, <2>2 DEF Needed
    <3> QED
      BY <3>1, <1>3, <2>2
  <2> QED
    BY <2>1, <2>2 DEF Needed
<1> QED
  BY <1>2, <1>3

LEMMA NeededIsLeast ==
    ASSUME NEW S \in SUBSET Nodes, Wanted \subseteq S, \A m \in S : Needs(m) \subseteq S
    PROVE  Needed \subseteq S
BY DEF Needed

\* The graph does not change during an execution.
LEMMA GraphStays ==
    ASSUME UNCHANGED <<provider, outs>>
    PROVE  /\ \A n : Needs(n)' = Needs(n)
           /\ Needed' = Needed
<1>1. \A n : Needs(n)' = Needs(n)
  BY DEF Needs
<1> QED
  BY <1>1 DEF Needed, Wanted, Needs

\* A node whose needs are results adds no circle to them.
LEMMA FoundedResults ==
    ASSUME NEW S, ~HasCircle(S), \A m \in S : Needs(m) \subseteq S,
           NEW n, n \notin S, Needs(n) \subseteq S
    PROVE  ~HasCircle(S \cup {n})
<1> SUFFICES ASSUME NEW C \in (SUBSET (S \cup {n})) \ {{}}, \A m \in C : Needs(m) \cap C # {}
             PROVE  FALSE
  BY DEF HasCircle
<1>1. \A m \in C : Needs(m) \cap (C \ {n}) # {}
  OBVIOUS
<1> DEFINE D == C \ {n}
<1>2. D \in (SUBSET S) \ {{}} /\ \A m \in D : Needs(m) \cap D # {}
  BY <1>1
<1> HIDE DEF D
<1> QED
  BY <1>2 DEF HasCircle

\* Nodes that each need the next, the last one the first, are a circle.
LEMMA ClosedChainIsCircle ==
    ASSUME NEW S, NEW i \in Nat, NEW k \in Nat, i <= k, NEW f,
           \A j \in i .. k : f[j] \in S,
           \A j \in i .. k : j < k => f[j + 1] \in Needs(f[j]),
           f[i] \in Needs(f[k])
    PROVE  HasCircle(S)
<1> DEFINE C == {f[j] : j \in i .. k}
<1>1. C \in (SUBSET S) \ {{}}
  <2>1. f[i] \in C
    OBVIOUS
  <2> QED
    BY <2>1
<1>2. ASSUME NEW j \in i .. k
      PROVE  Needs(f[j]) \cap C # {}
  <2>1. CASE j = k
    <3>1. f[i] \in C
      OBVIOUS
    <3> QED
      BY <3>1, <2>1
  <2>2. CASE j # k
    <3>1. j + 1 \in i .. k
      BY <2>2
    <3>2. f[j + 1] \in C
      BY <3>1
    <3> QED
      BY <3>2, <2>2
  <2> QED
    BY <2>1, <2>2
<1>3. \A n \in C : Needs(n) \cap C # {}
  BY <1>2
<1> HIDE DEF C
<1> QED
  BY <1>1, <1>3 DEF HasCircle

-----------------------------------------------------------------------------
(* The stack of evaluations.                                               *)

LEMMA StackFacts ==
    ASSUME EngineInv, stack # <<>>
    PROVE  /\ Len(stack) \in Nat /\ Len(stack) \in 1 .. Len(stack) /\ stack \in Seq(Nodes)
           /\ Top \in Needed /\ Top \in Nodes /\ Top \notin results
BY NeededIsClosed DEF EngineInv, TypeOK, GraphOK, StackIsAChain, Top

\* An evaluation that may end stands on the stack once.
LEMMA ReadyIsAlone ==
    ASSUME EngineInv, stack # <<>>, Ready
    PROVE  \A i \in 1 .. Len(stack) - 1 : stack[i] # Top
<1> SUFFICES ASSUME NEW i \in 1 .. Len(stack) - 1, stack[i] = Top
             PROVE  FALSE
  OBVIOUS
<1>1. Len(stack) \in Nat /\ i + 1 \in 1 .. Len(stack)
  BY StackFacts
<1>2. stack[i + 1] \in Needs(Top)
  BY DEF EngineInv, StackIsAChain
<1>3. stack[i + 1] \in results
  BY <1>2 DEF Ready
<1> QED
  BY <1>1, <1>3 DEF EngineInv, StackIsAChain

LEMMA PoppedFacts ==
    ASSUME EngineInv, stack # <<>>
    PROVE  /\ Popped \in Seq(Nodes) /\ Len(Popped) = Len(stack) - 1
           /\ \A i \in 1 .. Len(stack) - 1 : Popped[i] = stack[i]
<1>1. Len(stack) \in Nat /\ Len(stack) # 0 /\ \A i \in 1 .. Len(stack) : stack[i] \in Nodes
  BY StackFacts
<1> DEFINE k == Len(stack) - 1
           f == [i \in 1 .. k |-> stack[i]]
<1>2. k \in Nat /\ f \in [1 .. k -> Nodes] /\ DOMAIN f = 1 .. k
      /\ \A i \in 1 .. k : f[i] = stack[i]
  BY <1>1
<1>3. Popped = f
  BY <1>1 DEF Popped
<1> HIDE DEF f
<1>4. f \in Seq(Nodes) /\ Len(f) = k
  BY <1>2
<1> QED
  BY <1>2, <1>3, <1>4

-----------------------------------------------------------------------------
(* The steps.                                                              *)

LEMMA EndedKeepsInv ==
    ASSUME EngineInv, NEW how \in Statuses \ {"ok"}, Ended(how)
    PROVE  EngineInv'
<1> USE DEF Ended, EngineInv, graph
<1>1. Needed' = Needed
  BY GraphStays
<1>2. TypeOK' /\ RunsAreResults'
  BY DEF TypeOK, RunsAreResults
<1>3. StackIsAChain' /\ ResultsAreFounded'
  BY <1>1 DEF StackIsAChain, ResultsAreFounded, HasCircle, Needs, Skipped
<1>4. AskedAreResults'
  BY DEF AskedAreResults, AskedFor, Skipped
<1> QED
  BY <1>2, <1>3, <1>4

LEMMA EnterKeepsInv ==
    ASSUME EngineInv, status = "running", NEW n \in Needed, n \notin results, Enter(n),
           stack # <<>> => n \in Needs(Top)
    PROVE  EngineInv'
<1>1. CASE Ended("recursionError") \/ Ended("missingInput")
  BY <1>1, EndedKeepsInv DEF Statuses
<1>2. CASE ~(Ended("recursionError") \/ Ended("missingInput"))
  <2> USE DEF EngineInv
  <2>1. /\ Len(stack) < MaxStack /\ stack' = Append(stack, n)
        /\ computing' = IF n \in Operators THEN computing \cup {n} ELSE computing
        /\ UNCHANGED <<graph, results, lacking, runs, asked, status>>
    BY <1>2 DEF Enter
  <2>2. Needed' = Needed
    BY <2>1, GraphStays DEF graph
  <2>3. n \in Nodes
    BY NeededIsClosed DEF TypeOK, GraphOK
  <2>4. /\ Len(stack) \in Nat /\ stack' \in Seq(Nodes) /\ Len(stack') = Len(stack) + 1
        /\ \A i \in 1 .. Len(stack) : stack'[i] = stack[i]
        /\ stack'[Len(stack) + 1] = n
    BY <2>1, <2>3 DEF TypeOK
  <2>5. TypeOK'
    <3>1. Len(stack') <= MaxStack
      BY <2>1, <2>4, BoundAssumption
    <3>2. computing' \subseteq {stack'[i] : i \in DOMAIN stack'} \cap Operators
      <4> SUFFICES ASSUME NEW m \in computing'
                   PROVE  m \in Operators /\ \E i \in 1 .. Len(stack') : stack'[i] = m
        BY <2>4
      <4>1. CASE m \in computing
        <5>1. m \in Operators /\ \E i \in DOMAIN stack : stack[i] = m
          BY <4>1 DEF TypeOK
        <5>2. DOMAIN stack = 1 .. Len(stack)
          BY DEF TypeOK
        <5> QED
          BY <5>1, <5>2, <2>4
      <4>2. CASE m \notin computing
        BY <4>2, <2>1, <2>4
      <4> QED
        BY <4>1, <4>2
    <3> QED
      BY <3>1, <3>2, <2>1, <2>4 DEF TypeOK, graph
  <2>6. StackIsAChain'
    <3>1. \A i \in 1 .. Len(stack') : stack'[i] \in Needed' /\ stack'[i] \notin results'
      <4>1. \A i \in 1 .. Len(stack') : i \in 1 .. Len(stack) \/ i = Len(stack) + 1
        BY <2>4
      <4> QED
        BY <4>1, <2>1, <2>2, <2>4 DEF StackIsAChain
    <3>2. ASSUME NEW i \in 1 .. Len(stack') - 1
          PROVE  stack'[i + 1] \in Needs(stack'[i])
      <4>1. CASE i = Len(stack)
        <5>1. stack # <<>> /\ stack'[i] = Top /\ stack'[i + 1] = n
          BY <4>1, <2>4 DEF Top
        <5> QED
          BY <5>1
      <4>2. CASE i # Len(stack)
        <5>1. i \in 1 .. Len(stack) - 1 /\ i \in 1 .. Len(stack) /\ i + 1 \in 1 .. Len(stack)
          BY <4>2, <2>4
        <5> QED
          BY <5>1, <2>4 DEF StackIsAChain
      <4> QED
        BY <4>1, <4>2
    <3> QED
      BY <3>1, <3>2, <2>1 DEF StackIsAChain, Needs, Skipped, graph
  <2>7. ResultsAreFounded' /\ RunsAreResults' /\ AskedAreResults'
    BY <2>1, <2>2
    DEF ResultsAreFounded, RunsAreResults, AskedAreResults, AskedFor, HasCircle, Needs, Skipped, graph
  <2> QED
    BY <2>5, <2>6, <2>7
<1> QED
  BY <1>1, <1>2

\* An evaluation ends with a result.
LEMMA ResultKeepsInv ==
    ASSUME EngineInv, status = "running", stack # <<>>, Ready,
           results' = results \cup {Top}, stack' = Popped,
           lacking' \in {lacking, lacking \cup {Top}},
           computing' = computing \ {Top},
           runs' = IF Top \in Operators
                   THEN [runs EXCEPT ![Top] = IF @ = MaxRuns THEN @ ELSE @ + 1] ELSE runs,
           UNCHANGED <<graph, asked, status>>
    PROVE  EngineInv'
<1> USE DEF EngineInv
<1>1. /\ Len(stack) \in Nat /\ Len(stack) \in 1 .. Len(stack) /\ stack \in Seq(Nodes)
      /\ Top \in Needed /\ Top \in Nodes /\ Top \notin results /\ Needs(Top) \subseteq results
  BY StackFacts DEF Ready
<1>2. \A i \in 1 .. Len(stack) - 1 : stack[i] # Top
  BY ReadyIsAlone
<1>3. /\ stack' \in Seq(Nodes) /\ Len(stack') = Len(stack) - 1
      /\ \A i \in 1 .. Len(stack) - 1 : stack'[i] = stack[i]
  BY PoppedFacts
<1>4. Needed' = Needed
  BY GraphStays DEF graph
<1>5. RunsAreResults' /\ runs' \in [Operators -> 0 .. MaxRuns]
  <2>1. CASE Top \in Operators
    <3>1. runs[Top] = 0 /\ runs \in [Operators -> 0 .. MaxRuns]
      BY <2>1, <1>1 DEF RunsAreResults, TypeOK
    <3>2. runs' = [runs EXCEPT ![Top] = 1]
      BY <2>1, <3>1 DEF MaxRuns
    <3> QED
      BY <2>1, <3>1, <3>2 DEF RunsAreResults, MaxRuns
  <2>2. CASE Top \notin Operators
    BY <2>2 DEF RunsAreResults, TypeOK
  <2> QED
    BY <2>1, <2>2
<1>6. TypeOK'
  <2>1. computing' \subseteq {stack'[i] : i \in DOMAIN stack'} \cap Operators
    <3> SUFFICES ASSUME NEW m \in computing'
                 PROVE  m \in Operators /\ \E i \in 1 .. Len(stack') : stack'[i] = m
      BY <1>3
    <3>1. m \in computing /\ m \in Operators /\ m # Top
      BY DEF TypeOK
    <3>2. PICK i \in 1 .. Len(stack) : stack[i] = m
      BY <3>1, <1>1 DEF TypeOK
    <3>3. i \in 1 .. Len(stack) - 1
      BY <3>1, <3>2, <1>1 DEF Top
    <3> QED
      BY <3>1, <3>2, <3>3, <1>3
  <2>2. Len(stack') <= MaxStack
    BY <1>1, <1>3, BoundAssumption DEF TypeOK
  <2> QED
    BY <2>1, <2>2, <1>1, <1>3, <1>5 DEF TypeOK, graph
<1>7. StackIsAChain'
  <2>1. \A i \in 1 .. Len(stack') : stack'[i] \in Needed' /\ stack'[i] \notin results'
    BY <1>1, <1>2, <1>3, <1>4 DEF StackIsAChain
  <2>2. \A i \in 1 .. Len(stack') - 1 : stack'[i + 1] \in Needs(stack'[i])
    <3>1. \A i \in 1 .. Len(stack') - 1 :
             i \in 1 .. Len(stack) - 1 /\ i + 1 \in 1 .. Len(stack) - 1
      BY <1>1, <1>3
    <3> QED
      BY <3>1, <1>3 DEF StackIsAChain
  <2> QED
    BY <2>1, <2>2 DEF StackIsAChain, Needs, Skipped, graph
<1>8. ResultsAreFounded'
  <2>1. ~HasCircle(results \cup {Top})
    BY <1>1, FoundedResults DEF ResultsAreFounded
  <2>2. ~HasCircle(results)'
    BY <2>1 DEF HasCircle, Needs, Skipped, graph
  <2>3. \A n \in results' : Needs(n) \subseteq results'
    BY <1>1 DEF ResultsAreFounded
  <2>4. \A n \in results' : Needs(n)' \subseteq results'
    BY <2>3 DEF Needs, Skipped, graph
  <2> QED
    BY <2>2, <2>4, <1>1, <1>4 DEF ResultsAreFounded
<1>9. AskedAreResults'
  BY DEF AskedAreResults
<1> QED
  BY <1>5, <1>6, <1>7, <1>8, <1>9

LEMMA AwaitKeepsInv ==
    ASSUME EngineInv, Await
    PROVE  EngineInv'
<1>1. /\ status = "running" /\ stack # <<>>
      /\ \E d \in Needs(Top) :
            \/ Ended("circular") \/ Ended("missingOutput")
            \/ d \notin results /\ Enter(d)
  BY DEF Await
<1>2. Needs(Top) \subseteq Needed
  BY <1>1, StackFacts, NeededIsClosed DEF EngineInv, TypeOK, GraphOK
<1> QED
  BY <1>1, <1>2, EnterKeepsInv, EndedKeepsInv DEF Statuses

LEMMA RunOperatorKeepsInv ==
    ASSUME EngineInv, RunOperator
    PROVE  EngineInv'
<1>1. CASE Ended("componentError")
  BY <1>1, EndedKeepsInv DEF Statuses
<1>2. CASE ~Ended("componentError")
  BY <1>2, ResultKeepsInv DEF RunOperator
<1> QED
  BY <1>1, <1>2

LEMMA FinishWorkflowKeepsInv ==
    ASSUME EngineInv, FinishWorkflow
    PROVE  EngineInv'
<1>1. Top \notin Operators /\ computing \ {Top} = computing
  BY KindsAssumption DEF FinishWorkflow, EngineInv, TypeOK
<1> QED
  BY <1>1, ResultKeepsInv DEF FinishWorkflow

LEMMA ServiceKeepsInv ==
    ASSUME EngineInv, EvaluateRoot \/ EvaluateNode \/ Finish
    PROVE  EngineInv'
<1>1. Wanted \subseteq Needed /\ Root \in Wanted /\ AskedFor \subseteq Wanted
  BY NeededIsClosed DEF EngineInv, TypeOK, GraphOK, Wanted, AskedFor
<1>2. CASE EvaluateRoot
  BY <1>1, <1>2, EnterKeepsInv DEF EvaluateRoot
<1>3. CASE EvaluateNode
  <2>1. PICK n \in AskedFor \ asked :
           \/ /\ n \in results /\ asked' = asked \cup {n}
              /\ UNCHANGED <<graph, stack, computing, results, lacking, runs, status>>
           \/ n \notin results /\ Enter(n)
    BY <1>3 DEF EvaluateNode
  <2>2. status = "running" /\ stack = <<>> /\ n \in Needed
    BY <1>1, <1>3 DEF EvaluateNode
  <2>3. CASE n \notin results
    BY <2>1, <2>2, <2>3, EnterKeepsInv
  <2>4. CASE n \in results
    <3> USE DEF EngineInv
    <3>1. n \in Operators /\ asked' = asked \cup {n}
          /\ UNCHANGED <<graph, stack, computing, results, lacking, runs, status>>
      BY <2>1, <2>4 DEF AskedFor
    <3>2. Needed' = Needed
      BY <3>1, GraphStays DEF graph
    <3>3. TypeOK' /\ RunsAreResults' /\ AskedAreResults'
      BY <3>1, <2>2, <2>4 DEF TypeOK, RunsAreResults, AskedAreResults, graph
    <3>4. StackIsAChain' /\ ResultsAreFounded'
      BY <3>1, <3>2 DEF StackIsAChain, ResultsAreFounded, HasCircle, Needs, Skipped, graph
    <3> QED
      BY <3>3, <3>4
  <2> QED
    BY <2>3, <2>4
<1>4. CASE Finish
  <2> USE DEF EngineInv
  <2>1. /\ status' = "ok" /\ Root \in results /\ AskedFor \subseteq asked
        /\ UNCHANGED <<graph, stack, computing, results, lacking, runs, asked>>
    BY <1>4 DEF Finish, Ended
  <2>2. Needed' = Needed
    BY <2>1, GraphStays DEF graph
  <2>3. TypeOK' /\ RunsAreResults' /\ AskedAreResults'
    BY <2>1 DEF TypeOK, Statuses, RunsAreResults, AskedAreResults, AskedFor, Skipped, graph
  <2>4. StackIsAChain' /\ ResultsAreFounded'
    BY <2>1, <2>2 DEF StackIsAChain, ResultsAreFounded, HasCircle, Needs, Skipped, graph
  <2> QED
    BY <2>3, <2>4
<1> QED
  BY <1>2, <1>3, <1>4

LEMMA StutterKeepsInv ==
    ASSUME EngineInv, UNCHANGED vars
    PROVE  EngineInv'
<1> USE DEF vars, graph, EngineInv
<1>1. Needed' = Needed
  BY GraphStays
<1>2. TypeOK' /\ RunsAreResults' /\ AskedAreResults'
  BY DEF TypeOK, RunsAreResults, AskedAreResults, AskedFor, Skipped
<1>3. StackIsAChain' /\ ResultsAreFounded'
  BY <1>1 DEF StackIsAChain, ResultsAreFounded, HasCircle, Needs, Skipped
<1> QED
  BY <1>2, <1>3

LEMMA InitEstablishesInv == Init => EngineInv
<1> SUFFICES ASSUME Init
             PROVE  EngineInv
  OBVIOUS
<1> USE DEF Init, NotStarted
<1>1. provider \in [Operators -> SUBSET Nodes]
  <2>1. \A n \in Operators : provider[n] \subseteq Nodes
    BY DEF Connections, Connectable, Level
  <2> QED
    BY <2>1 DEF Connections
<1>2. outs \in [WorkflowNodes -> SUBSET Nodes]
  BY DEF OutputMappings
<1>3. stack \in Seq(Nodes) /\ Len(stack) = 0
  OBVIOUS
<1>4. TypeOK
  BY <1>1, <1>2, <1>3, SetsAssumption, BoundAssumption DEF TypeOK, Statuses, MaxRuns
<1>5. StackIsAChain
  BY <1>3 DEF StackIsAChain
<1>6. ResultsAreFounded /\ RunsAreResults /\ AskedAreResults
  BY DEF ResultsAreFounded, RunsAreResults, AskedAreResults, HasCircle
<1> QED
  BY <1>4, <1>5, <1>6 DEF EngineInv

LEMMA StepKeepsInv == EngineInv /\ [Next]_vars => EngineInv'
BY AwaitKeepsInv, RunOperatorKeepsInv, FinishWorkflowKeepsInv, ServiceKeepsInv, StutterKeepsInv
DEF Next

\* What is on the stack, and what results and runs are there, at any time.
THEOREM EngineInvariant == Spec => []EngineInv
<1> QED
  BY InitEstablishesInv, StepKeepsInv, PTL DEF Spec

-----------------------------------------------------------------------------
(* How functions run.                                                      *)

\* A function runs at most once, when all its inputs are there, and never after the
\* execution was given up.
THEOREM FunctionsRunOnceAfterInputs == Spec => RunsOnceAfterInputs
<1>1. ASSUME EngineInv, [Next]_vars, NEW n \in Operators, runs'[n] # runs[n]
      PROVE  runs[n] = 0 /\ provider[n] \subseteq results \ lacking /\ status' = "running"
  <2>1. RunOperator /\ status' = "running"
        /\ runs' = [runs EXCEPT ![Top] = IF @ = MaxRuns THEN @ ELSE @ + 1]
    BY <1>1 DEF Next, vars, Await, Enter, Ended, RunOperator, FinishWorkflow, EvaluateRoot,
                EvaluateNode, Finish
  <2>2. stack # <<>> /\ Ready
    BY <2>1 DEF RunOperator
  <2>3. runs \in [Operators -> 0 .. MaxRuns]
    BY <1>1 DEF EngineInv, TypeOK
  <2>4. n = Top
    BY <1>1, <2>1, <2>3
  <2>5. Top \notin results
    BY <1>1, <2>2, StackFacts
  <2> QED
    BY <1>1, <2>1, <2>2, <2>4, <2>5 DEF EngineInv, RunsAreResults, Ready, Needs
<1>2. EngineInv /\ [Next]_vars =>
        [\A n \in Operators : runs'[n] # runs[n] =>
            runs[n] = 0 /\ provider[n] \subseteq results \ lacking /\ status' = "running"]_vars
  BY <1>1
<1> QED
  BY <1>2, EngineInvariant, PTL DEF Spec, RunsOnceAfterInputs

-----------------------------------------------------------------------------
(* How executions end.                                                     *)

LEMMA FlagFindsCircle ==
    ASSUME EngineInv, stack # <<>>, NEW d \in Needs(Top), d \in computing
    PROVE  HasCircle(Needed)
<1> DEFINE n == Len(stack)
<1>1. n \in Nat /\ n \in 1 .. n /\ DOMAIN stack = 1 .. n
  BY StackFacts
<1>2. PICK i \in 1 .. n : stack[i] = d
  BY <1>1 DEF EngineInv, TypeOK
<1>3. \A j \in i .. n : stack[j] \in Needed
  BY <1>1, <1>2 DEF EngineInv, StackIsAChain
<1>4. ASSUME NEW j \in i .. n, j < n
      PROVE  stack[j + 1] \in Needs(stack[j])
  <2>1. j \in 1 .. n - 1
    BY <1>1, <1>2, <1>4
  <2> QED
    BY <2>1 DEF EngineInv, StackIsAChain
<1>5. stack[i] \in Needs(stack[n])
  BY <1>2 DEF Top
<1> HIDE DEF n
<1> QED
  BY <1>1, <1>2, <1>3, <1>4, <1>5, ClosedChainIsCircle

\* More evaluations than there are nodes hold one of them twice.
LEMMA LimitFindsCircle ==
    ASSUME IsFiniteSet(Nodes), Cardinality(Nodes) <= MaxStack,
           EngineInv, stack # <<>>, Len(stack) = MaxStack, NEW d \in Needs(Top)
    PROVE  HasCircle(Needed)
<1>1. /\ MaxStack \in Nat /\ MaxStack # 0 /\ stack \in Seq(Nodes)
      /\ Cardinality(Nodes) \in Nat
  BY BoundAssumption, StackFacts, FS_CardinalityType
<1>2. d \in Needed /\ d \in Nodes
  BY StackFacts, NeededIsClosed DEF EngineInv, TypeOK, GraphOK
<1> DEFINE m == MaxStack + 1
           f == [j \in 1 .. m |-> IF j = m THEN d ELSE stack[j]]
<1>3. /\ \A j \in 1 .. m : f[j] \in Needed
      /\ f \in [1 .. m -> Nodes]
  <2>1. \A j \in 1 .. m : j # m => stack[j] \in Needed
    BY <1>1 DEF EngineInv, StackIsAChain
  <2>2. Needed \subseteq Nodes
    BY NeededIsClosed DEF EngineInv, TypeOK, GraphOK
  <2> QED
    BY <1>2, <2>1, <2>2
<1>4. ASSUME NEW j \in 1 .. MaxStack
      PROVE  f[j + 1] \in Needs(f[j])
  <2>1. CASE j = MaxStack
    <3>1. f[j + 1] = d /\ f[j] = Top
      BY <2>1, <1>1 DEF Top
    <3> QED
      BY <3>1
  <2>2. CASE j # MaxStack
    <3>1. j \in 1 .. Len(stack) - 1 /\ j + 1 \in 1 .. m /\ j \in 1 .. m /\ j # m /\ j + 1 # m
      BY <2>2, <1>1
    <3>2. f[j + 1] = stack[j + 1] /\ f[j] = stack[j]
      BY <3>1
    <3> QED
      BY <3>1, <3>2 DEF EngineInv, StackIsAChain
  <2> QED
    BY <2>1, <2>2
<1> HIDE DEF f
<1>5. IsFiniteSet(1 .. m) /\ Cardinality(1 .. m) = m
  BY <1>1, FS_Interval
<1>6. PICK x, y \in 1 .. m : x # y /\ f[x] = f[y]
  <2>1. Cardinality(Nodes) < Cardinality(1 .. m)
    BY <1>1, <1>5
  <2> QED
    BY <2>1, <1>3, <1>5, FS_PigeonHole
<1>7. PICK i, k \in 1 .. m : i < k /\ f[i] = f[k]
  <2>1. x < y \/ y < x
    BY <1>1, <1>6
  <2> QED
    BY <2>1, <1>6
<1>8. /\ i \in Nat /\ k - 1 \in Nat /\ i <= k - 1
      /\ \A j \in i .. k - 1 : j \in 1 .. m /\ j \in 1 .. MaxStack
  BY <1>1, <1>7
<1>9. f[i] \in Needs(f[k - 1])
  <2>1. k - 1 \in 1 .. MaxStack /\ (k - 1) + 1 = k
    BY <1>1, <1>7
  <2>2. f[(k - 1) + 1] \in Needs(f[k - 1])
    BY <2>1, <1>4
  <2> QED
    BY <2>1, <2>2, <1>7
<1> DEFINE last == k - 1
<1>10. /\ last \in Nat /\ i <= last /\ \A j \in i .. last : f[j] \in Needed
       /\ \A j \in i .. last : j < last => f[j + 1] \in Needs(f[j])
       /\ f[i] \in Needs(f[last])
  BY <1>3, <1>4, <1>8, <1>9
<1> HIDE DEF last
<1> QED
  BY <1>8, <1>10, ClosedChainIsCircle

\* Provided the interpreter's limit exceeds the number of nodes: a successful execution
\* ran exactly what was needed and no node of it needs itself, and an execution ends as
\* circular, or at that limit, only where nodes need each other in a circle.
THEOREM OutcomesAreTrue ==
    ASSUME IsFiniteSet(Nodes), Cardinality(Nodes) <= MaxStack
    PROVE  Spec => []OutcomeIsTrue
<1>1. EngineInv => OkMeansComplete
  <2> SUFFICES ASSUME EngineInv, status = "ok"
               PROVE  /\ \A n \in Operators : runs[n] = (IF n \in Needed THEN 1 ELSE 0)
                      /\ ~HasCircle(Needed)
    BY DEF OkMeansComplete
  <2>1. Wanted \subseteq results /\ results \in SUBSET Nodes
    BY DEF EngineInv, AskedAreResults, Wanted, AskedFor, TypeOK
  <2>2. Needed = results
    BY <2>1, NeededIsLeast DEF EngineInv, ResultsAreFounded
  <2> QED
    BY <2>2 DEF EngineInv, RunsAreResults, ResultsAreFounded
<1>2. Init => CircularMeansCircle
  BY DEF Init, CircularMeansCircle
<1>3. EngineInv /\ CircularMeansCircle /\ [Next]_vars => CircularMeansCircle'
  <2> SUFFICES ASSUME EngineInv, CircularMeansCircle, [Next]_vars,
                      status' \in {"circular", "recursionError"}
               PROVE  HasCircle(Needed)'
    BY DEF CircularMeansCircle
  <2>1. HasCircle(Needed)
    <3>1. CASE status' = status
      BY <3>1 DEF CircularMeansCircle
    <3>2. CASE status' # status
      <4>1. Await \/ EvaluateRoot \/ EvaluateNode
        BY <3>2 DEF Next, vars, RunOperator, FinishWorkflow, Finish, Ended
      <4>2. CASE Await
        <5>1. PICK d \in Needs(Top) :
                 \/ d \in computing
                 \/ Enter(d)
                 \/ Ended("missingOutput")
          BY <4>2 DEF Await, Circular
        <5>2. stack # <<>>
          BY <4>2 DEF Await
        <5>3. CASE d \in computing
          BY <5>2, <5>3, FlagFindsCircle
        <5>4. CASE Enter(d)
          <6>1. Len(stack) = MaxStack
            BY <5>4, <3>2 DEF Enter, Ended
          <6> QED
            BY <6>1, <5>2, LimitFindsCircle
        <5>5. CASE Ended("missingOutput")
          BY <5>5 DEF Ended
        <5> QED
          BY <5>1, <5>3, <5>4, <5>5
      <4>3. CASE EvaluateRoot \/ EvaluateNode
        <5>1. stack = <<>> /\ \E n : Enter(n)
          BY <4>3, <3>2 DEF EvaluateRoot, EvaluateNode
        <5>2. Len(stack) = 0 /\ MaxStack # 0
          BY <5>1, BoundAssumption
        <5> QED
          BY <5>1, <5>2, <3>2 DEF Enter, Ended
      <4> QED
        BY <4>1, <4>2, <4>3
    <3> QED
      BY <3>1, <3>2
  <2>2. UNCHANGED <<provider, outs>>
    BY DEF Next, vars, graph, Await, RunOperator, FinishWorkflow, EvaluateRoot, EvaluateNode,
           Finish, Enter, Ended
  <2>3. Needed' = Needed
    BY <2>2, GraphStays
  <2> QED
    BY <2>1, <2>2, <2>3 DEF HasCircle, Needs, Skipped
<1>4. Spec => []CircularMeansCircle
  BY <1>2, <1>3, EngineInvariant, PTL DEF Spec
<1> QED
  BY <1>1, <1>4, EngineInvariant, PTL DEF OutcomeIsTrue

-----------------------------------------------------------------------------
(* The tree of workflow nodes.                                             *)

\* Every set of natural numbers has a least member.
LEMMA LeastNumber ==
    ASSUME NEW T, T \subseteq Nat, T # {}
    PROVE  \E n \in T : \A m \in T : n <= m
<1>1. PICK R : IsWellFoundedOn(R, Nat) /\ \A y, x \in Nat : y < x => <<y, x>> \in R
  <2>1. \A y, x \in Nat : y < x => <<y, x>> \in OpToRel(<, Nat)
    BY DEF OpToRel
  <2> QED
    BY <2>1, NatLessThanWellFounded, Zenon
<1>2. PICK x \in T : \A y \in T : ~ (<<y, x>> \in R)
  <2>1. IsWellFoundedOn(R, Nat) /\ T \subseteq Nat /\ T # {}
    BY <1>1
  <2>2. \E x \in T : \A y \in T : ~ (<<y, x>> \in R)
    BY <2>1, WFMin, Zenon
  <2> QED
    BY <2>2
<1>3. ASSUME NEW y \in T PROVE x <= y
  <2>1. x \in Nat /\ y \in Nat
    OBVIOUS
  <2>2. ~ (y < x)
    BY <2>1, <1>1, <1>2
  <2> QED
    BY <2>1, <2>2
<1> QED
  BY <1>3

\* A set that holds the parents of its members.
Closed(S) == \A k \in S \ {Root} : Parent[k] \in S

LEMMA ParentIsNode ==
    /\ Root \in Nodes /\ WorkflowNodes \subseteq Nodes
    /\ \A n \in Nodes \ {Root} : Parent[n] \in WorkflowNodes /\ Parent[n] \in Nodes
BY ParentAssumption DEF Nodes, WorkflowNodes

LEMMA AroundIsLeast ==
    ASSUME NEW n \in Nodes
    PROVE  /\ n \in Around[n] /\ Around[n] \subseteq Nodes /\ Closed(Around[n])
           /\ \A S \in SUBSET Nodes : n \in S /\ Closed(S) => Around[n] \subseteq S
<1>1. Around[n] = {m \in Nodes : \A S \in SUBSET Nodes : n \in S /\ Closed(S) => m \in S}
  BY DEF Around, Closed
<1>2. Closed(Around[n])
  <2> SUFFICES ASSUME NEW k \in Around[n] \ {Root}, NEW S \in SUBSET Nodes, n \in S, Closed(S)
               PROVE  Parent[k] \in Nodes /\ Parent[k] \in S
    BY <1>1, ParentIsNode DEF Closed
  <2>1. k \in S /\ k \in Nodes
    BY <1>1
  <2> QED
    BY <2>1, ParentIsNode DEF Closed
<1> QED
  BY <1>1, <1>2

LEMMA AroundIsTransitive ==
    ASSUME NEW n \in Nodes, NEW m \in Around[n]
    PROVE  m \in Nodes /\ Around[m] \subseteq Around[n]
BY AroundIsLeast

LEMMA AroundIsSelfOrAroundParent ==
    ASSUME NEW n \in Nodes \ {Root}
    PROVE  Around[n] = {n} \cup Around[Parent[n]]
<1>1. Parent[n] \in Nodes /\ n \in Nodes
  BY ParentIsNode
<1>2. Closed({n} \cup Around[Parent[n]])
  BY <1>1, AroundIsLeast DEF Closed
<1>3. Around[n] \subseteq {n} \cup Around[Parent[n]]
  BY <1>1, <1>2, AroundIsLeast
<1>4. Parent[n] \in Around[n] /\ n \in Around[n]
  BY <1>1, AroundIsLeast DEF Closed
<1> QED
  BY <1>1, <1>3, <1>4, AroundIsTransitive

LEMMA AroundRoot == Around[Root] = {Root}
<1>1. Closed({Root}) /\ Root \in Nodes
  BY ParentIsNode DEF Closed
<1> QED
  BY <1>1, AroundIsLeast

\* No node is within itself.
LEMMA NotWithinItself ==
    ASSUME NEW n \in Nodes \ {Root}
    PROVE  n \notin Around[Parent[n]]
<1> SUFFICES ASSUME n \in Around[Parent[n]] PROVE FALSE
  OBVIOUS
<1> DEFINE D == {m \in Nodes \ {Root} : m \in Around[n] /\ n \in Around[m]}
<1>1. n \in D
  BY AroundIsLeast
<1>2. ASSUME NEW m \in D PROVE Parent[m] \in D
  <2>1. m \in Nodes \ {Root} /\ Parent[m] \in Nodes /\ n \in Around[m]
    BY ParentIsNode
  <2>2. Parent[m] \in Around[n]
    BY <2>1, AroundIsLeast DEF Closed
  <2>3. n \in Around[Parent[m]]
    BY <2>1, AroundIsSelfOrAroundParent
  <2>4. Parent[m] # Root
    BY <2>3, AroundRoot
  <2> QED
    BY <2>1, <2>2, <2>3, <2>4
<1>3. D \in (SUBSET (Nodes \ {Root})) \ {{}}
  BY <1>1
<1> QED
  BY <1>2, <1>3, TreeAssumption

\* All nodes are within the root.
LEMMA RootIsAround ==
    ASSUME NEW n \in Nodes
    PROVE  Root \in Around[n]
<1> SUFFICES ASSUME Root \notin Around[n] PROVE FALSE
  OBVIOUS
<1>1. Around[n] \in (SUBSET (Nodes \ {Root})) \ {{}}
  BY AroundIsLeast
<1> QED
  BY <1>1, AroundIsLeast, TreeAssumption DEF Closed

\* The nodes around a node are around each other.
LEMMA AroundIsALine ==
    ASSUME NEW n \in Nodes, NEW a \in Around[n], NEW b \in Around[n]
    PROVE  a \in Around[b] \/ b \in Around[a]
<1> DEFINE S == {k \in Around[n] : k \in Around[b] \/ b \in Around[k]}
<1>0. b \in Nodes /\ Around[n] \subseteq Nodes
  BY AroundIsLeast
<1>1. n \in S /\ S \subseteq Nodes
  BY AroundIsLeast
<1>2. ASSUME NEW k \in S \ {Root} PROVE Parent[k] \in S
  <2>1. k \in Nodes \ {Root} /\ Parent[k] \in Around[n]
    BY <1>0, AroundIsLeast DEF Closed
  <2>2. CASE k \in Around[b]
    BY <2>1, <2>2, <1>0, AroundIsLeast DEF Closed
  <2>3. CASE b \in Around[k]
    <3>1. b = k \/ b \in Around[Parent[k]]
      BY <2>1, <2>3, AroundIsSelfOrAroundParent
    <3> QED
      BY <3>1, <2>1, <2>2, <1>0, AroundIsLeast
  <2> QED
    BY <2>2, <2>3
<1>3. Around[n] \subseteq S
  BY <1>1, <1>2, AroundIsLeast DEF Closed
<1> QED
  BY <1>3

\* A node within w is within a sub node of w or one itself.
LEMMA WithinSubNode ==
    ASSUME NEW n \in Nodes \ {Root}, NEW w \in Around[Parent[n]]
    PROVE  \E b \in Around[n] \ {Root} : Parent[b] = w
<1> SUFFICES ASSUME \A b \in Around[n] \ {Root} : Parent[b] # w PROVE FALSE
  OBVIOUS
<1> DEFINE T == Around[n] \ {w}
<1>1. n \in T /\ T \subseteq Nodes
  BY AroundIsLeast, NotWithinItself
<1>2. Closed(T)
  BY AroundIsLeast DEF Closed
<1>3. Around[n] \subseteq T
  BY <1>1, <1>2, AroundIsLeast
<1> QED
  BY <1>3, AroundIsSelfOrAroundParent


-----------------------------------------------------------------------------
(* Circles across levels.                                                  *)

\* The graph is one parsing can make.
GraphParsed == provider \in Connections /\ outs \in OutputMappings

\* The nodes below w, on any level.
Inside(w) == {n \in Nodes \ {Root} : w \in Around[Parent[n]]}

IsCircle(C) == C # {} /\ \A n \in C : Needs(n) \cap C # {}

LEMMA NeedsWithinWorkflow ==
    ASSUME GraphParsed, NEW n \in WorkflowNodes \ Operators, NEW d \in Needs(n)
    PROVE  d \in Nodes \ {Root} /\ Parent[d] = n
BY DEF GraphParsed, OutputMappings, Needs

LEMMA NeedsOfOperator ==
    ASSUME GraphParsed, NEW n \in Operators, NEW d \in Needs(n)
    PROVE  /\ d \in Nodes \ {Root} /\ d \in provider[n]
           /\ \E b \in Around[n] \ {Root} : Parent[d] = Parent[b]
BY DEF GraphParsed, Connections, Connectable, Level, Needs

\* A connection into a node within b comes from the level of b or from within b, if it
\* comes from within the workflow around b at all.
LEMMA ConnectionsStayClose ==
    ASSUME NEW n \in Nodes, NEW b \in Around[n] \ {Root}, NEW c \in Around[n] \ {Root},
           NEW d \in Inside(Parent[b]), Parent[d] = Parent[c]
    PROVE  Parent[d] = Parent[b] \/ d \in Inside(b)
<1>1. /\ b \in Nodes \ {Root} /\ c \in Nodes \ {Root} /\ d \in Nodes \ {Root}
      /\ Parent[b] \in Nodes /\ Parent[c] \in Nodes
      /\ Parent[b] \in Around[Parent[c]]
  BY AroundIsLeast, ParentIsNode DEF Inside
<1>2. CASE b \in Around[c]
  BY <1>1, <1>2, AroundIsSelfOrAroundParent DEF Inside
<1>3. CASE c \in Around[b]
  <2>1. c # b => c \in Around[Parent[b]]
    BY <1>1, <1>3, AroundIsSelfOrAroundParent
  <2>2. Around[Parent[b]] \subseteq Around[Parent[c]]
    BY <1>1, AroundIsTransitive
  <2>3. c = b
    BY <2>1, <2>2, <1>1, NotWithinItself
  <2> QED
    BY <2>3
<1> QED
  BY <1>2, <1>3, AroundIsALine

\* A smallest workflow with a circle in it: its level has the circle.
LEMMA CircleShowsOnItsLevel ==
    ASSUME GraphParsed, NEW w \in Nodes, NEW C \in SUBSET Inside(w), IsCircle(C),
           \A b \in Inside(w) : \A D \in SUBSET Inside(b) : ~IsCircle(D)
    PROVE  /\ w \in WorkflowNodes
           /\ \E P \in (SUBSET Nodes) \ {{}} :
                 \A b \in P : \E a \in P : <<a, b>> \in Links(w)
<1> DEFINE P == {b \in Nodes \ {Root} : Parent[b] = w /\ \E n \in C : b \in Around[n]}
<1>0. C \subseteq Nodes \ {Root} /\ \A n \in C : w \in Around[Parent[n]]
  BY DEF Inside
<1>1. P # {} /\ w \in WorkflowNodes
  <2>1. PICK n \in C : TRUE
    BY DEF IsCircle
  <2>2. PICK b \in Around[n] \ {Root} : Parent[b] = w
    BY <1>0, WithinSubNode
  <2>3. b \in Nodes \ {Root}
    BY <1>0, AroundIsLeast
  <2> QED
    BY <2>2, <2>3, ParentIsNode
<1>2. ASSUME NEW b \in P PROVE \E a \in P : <<a, b>> \in Links(w)
  <2>1. b \in Nodes \ {Root} /\ Parent[b] = w /\ b \in Inside(w)
    BY AroundIsLeast DEF Inside
  <2>2. ASSUME NEW n \in C, b \in Around[n], NEW d \in Needs(n) \cap C, d \notin Inside(b),
               n \in Operators
        PROVE  d \in P /\ <<d, b>> \in Links(w)
    <3>1. d \in Nodes \ {Root} /\ d \in provider[n] /\ n \in Nodes /\ d \in Inside(w)
      BY <2>2, <1>0, NeedsOfOperator
    <3>2. Parent[d] = w
      <4>1. PICK c \in Around[n] \ {Root} : Parent[d] = Parent[c]
        BY <2>2, NeedsOfOperator
      <4> QED
        BY <4>1, <3>1, <2>1, <2>2, ConnectionsStayClose
    <3>3. d \in P
      BY <3>1, <3>2, AroundIsLeast
    <3> QED
      BY <3>1, <3>2, <3>3, <2>1, <2>2 DEF Links
  <2>3. ASSUME NEW n \in C, b \in Around[n], NEW d \in Needs(n) \cap C, n \notin Operators
        PROVE  d \in Inside(b)
    <3>1. n \in WorkflowNodes \ Operators /\ n \in Nodes
      BY <1>0, <2>3 DEF Nodes
    <3>2. d \in Nodes \ {Root} /\ Parent[d] = n
      BY <3>1, <2>3, NeedsWithinWorkflow
    <3> QED
      BY <3>2, <2>3 DEF Inside
  <2>4. CASE C \cap Inside(b) # {}
    <3>1. PICK n \in C \cap Inside(b) : Needs(n) \cap (C \cap Inside(b)) = {}
      BY <2>1, <2>4 DEF IsCircle
    <3>2. PICK d \in Needs(n) \cap C : TRUE
      BY <3>1 DEF IsCircle
    <3>3. d \notin Inside(b)
      BY <3>1, <3>2
    <3>4. b \in Around[n]
      BY <3>1, AroundIsSelfOrAroundParent DEF Inside
    <3>5. n \in Operators
      BY <3>1, <3>2, <3>3, <3>4, <2>3
    <3> QED
      BY <3>1, <3>2, <3>3, <3>4, <3>5, <2>2
  <2>5. CASE C \cap Inside(b) = {}
    <3>1. PICK n \in C : b \in Around[n]
      OBVIOUS
    <3>2. n = b
      BY <3>1, <1>0, <2>5, AroundIsSelfOrAroundParent DEF Inside
    <3>3. PICK d \in Needs(n) \cap C : TRUE
      BY <3>1 DEF IsCircle
    <3>4. d \notin Inside(b)
      BY <3>3, <2>5
    <3>5. n \in Operators
      BY <3>1, <3>3, <3>4, <2>3
    <3> QED
      BY <3>1, <3>3, <3>4, <3>5, <2>2
  <2> QED
    BY <2>4, <2>5
<1>3. P \in (SUBSET Nodes) \ {{}}
  BY <1>1
<1> QED
  BY <1>1, <1>2, <1>3

\* A circle anywhere is a circle of the links of some level.
LEMMA CircleShowsOnALevel ==
    ASSUME IsFiniteSet(Nodes), GraphParsed, HasCircle(Nodes)
    PROVE  \E w \in WorkflowNodes : \E P \in (SUBSET Nodes) \ {{}} :
              \A b \in P : \E a \in P : <<a, b>> \in Links(w)
<1> DEFINE Has(w) == \E C \in SUBSET Inside(w) : IsCircle(C)
           T == {Cardinality(Inside(w)) : w \in {v \in Nodes : Has(v)}}
<1>1. Has(Root)
  <2>1. PICK C \in (SUBSET Nodes) \ {{}} : \A n \in C : Needs(n) \cap C # {}
    BY DEF HasCircle
  <2>2. \A n \in C : Needs(n) \subseteq Nodes \ {Root}
    <3>1. \A n \in C : n \in Operators \/ n \in WorkflowNodes \ Operators
      BY DEF Nodes
    <3> QED
      BY <3>1, NeedsOfOperator, NeedsWithinWorkflow
  <2>3. IsCircle(C \ {Root})
    BY <2>1, <2>2 DEF IsCircle
  <2>4. C \ {Root} \subseteq Inside(Root)
    BY ParentIsNode, RootIsAround DEF Inside
  <2> QED
    BY <2>3, <2>4
<1>2. \A w \in Nodes : IsFiniteSet(Inside(w)) /\ Cardinality(Inside(w)) \in Nat
  <2>1. \A w \in Nodes : Inside(w) \subseteq Nodes
    BY DEF Inside
  <2> QED
    BY <2>1, FS_Subset, FS_CardinalityType
<1>3. PICK w \in Nodes : Has(w) /\ \A v \in Nodes : Has(v) =>
                             Cardinality(Inside(w)) <= Cardinality(Inside(v))
  <2>1. T \subseteq Nat /\ T # {}
    BY <1>1, <1>2, ParentIsNode
  <2> HIDE DEF Has
  <2>2. PICK m \in T : \A k \in T : m <= k
    BY <2>1, LeastNumber
  <2> QED
    BY <2>2
<1>4. ASSUME NEW b \in Inside(w) PROVE ~Has(b)
  <2>1. b \in Nodes \ {Root} /\ Parent[b] \in Nodes /\ w \in Around[Parent[b]]
    BY ParentIsNode DEF Inside
  <2>2. Inside(b) \subseteq Inside(w)
    <3>1. w \in Around[b]
      BY <2>1, AroundIsSelfOrAroundParent
    <3> QED
      BY <3>1, ParentIsNode, AroundIsTransitive DEF Inside
  <2>3. b \notin Inside(b)
    BY <2>1, NotWithinItself DEF Inside
  <2>4. Cardinality(Inside(b)) < Cardinality(Inside(w))
    BY <2>2, <2>3, <1>2, <2>1, FS_Subset
  <2> QED
    BY <2>4, <1>2, <1>3, <2>1
<1>5. PICK C \in SUBSET Inside(w) : IsCircle(C)
  BY <1>3
<1> QED
  BY <1>4, <1>5, CircleShowsOnItsLevel


-----------------------------------------------------------------------------
(* The check of the links of one level.                                    *)

\* Some vertices with an edge into each of them from another.
EdgesCircle(E) ==
    \E C \in (SUBSET Nodes) \ {{}} : \A n \in C : \E d \in C : <<d, n>> \in E

\* The rounds of the check, up to the k-th.
RoundsUpTo(E, k, g) ==
    /\ DOMAIN g = 0 .. k /\ g[0] = E
    /\ \A j \in 1 .. k : g[j] = WithoutSources(g[j - 1])

LEMMA RoundsExist ==
    ASSUME NEW E, NEW N \in Nat
    PROVE  \E g : g = [k \in 0 .. N |-> IF k = 0 THEN E ELSE WithoutSources(g[k - 1])]
<1> DEFINE T == {k \in Nat : ~ \E g : RoundsUpTo(E, k, g)}
<1>1. T = {}
  <2> SUFFICES ASSUME T # {} PROVE FALSE
    OBVIOUS
  <2>1. PICK k \in T : \A m \in T : k <= m
    <3>1. T \subseteq Nat
      OBVIOUS
    <3> HIDE DEF T
    <3> QED
      BY <3>1, LeastNumber
  <2>2. CASE k = 0
    <3>1. RoundsUpTo(E, 0, [j \in 0 .. 0 |-> E])
      BY DEF RoundsUpTo
    <3> QED
      BY <3>1, <2>1, <2>2
  <2>3. CASE k # 0
    <3>1. k \in Nat /\ k - 1 \in Nat /\ ~ (k - 1 \in T)
      BY <2>1, <2>3
    <3>2. PICK g : RoundsUpTo(E, k - 1, g)
      BY <3>1
    <3> DEFINE h == [j \in 0 .. k |-> IF j = k THEN WithoutSources(g[k - 1]) ELSE g[j]]
    <3>3. DOMAIN h = 0 .. k /\ h[0] = E
      BY <3>1, <3>2, <2>3 DEF RoundsUpTo
    <3>4. ASSUME NEW j \in 1 .. k PROVE h[j] = WithoutSources(h[j - 1])
      <4>1. j - 1 \in 0 .. k /\ j - 1 # k /\ j \in 0 .. k /\ h[j - 1] = g[j - 1]
        BY <3>1
      <4>2. CASE j = k
        BY <4>1, <4>2
      <4>3. CASE j # k
        <5>1. j \in 1 .. k - 1
          BY <4>3, <3>1
        <5> QED
          BY <5>1, <4>1, <4>3, <3>2 DEF RoundsUpTo
      <4> QED
        BY <4>2, <4>3
    <3>5. RoundsUpTo(E, k, h)
      <4> HIDE DEF h
      <4> QED
        BY <3>3, <3>4 DEF RoundsUpTo
    <3> QED
      BY <3>5, <2>1
  <2> QED
    BY <2>2, <2>3
<1>2. PICK g : RoundsUpTo(E, N, g)
  BY <1>1
<1> DEFINE f == [k \in 0 .. N |-> g[k]]
<1>3. \A k \in 0 .. N : g[k] = IF k = 0 THEN E ELSE WithoutSources(f[k - 1])
  <2> SUFFICES ASSUME NEW k \in 0 .. N
               PROVE  g[k] = IF k = 0 THEN E ELSE WithoutSources(f[k - 1])
    OBVIOUS
  <2>1. k # 0 => k \in 1 .. N /\ k - 1 \in 0 .. N
    OBVIOUS
  <2> QED
    BY <2>1, <1>2 DEF RoundsUpTo
<1>4. f = [k \in 0 .. N |-> IF k = 0 THEN E ELSE WithoutSources(f[k - 1])]
  BY <1>3, Zenon
<1> QED
  BY <1>4

\* The rounds the check goes through.
LEMMA RoundsOfLinks ==
    ASSUME NEW E, IsFiniteSet(E)
    PROVE  \E g : RoundsUpTo(E, Cardinality(E), g) /\ LinksRemaining(E) = g[Cardinality(E)]
<1> DEFINE N == Cardinality(E)
           after == CHOOSE g : g = [k \in 0 .. N |-> IF k = 0 THEN E ELSE
                                       UNION {WithoutSources(before) : before \in {g[k - 1]}}]
<1>1. N \in Nat
  BY FS_CardinalityType
<1>2. LinksRemaining(E) = after[N]
  BY DEF LinksRemaining
<1> HIDE DEF N
<1>3. \A X : UNION {WithoutSources(before) : before \in {X}} = WithoutSources(X)
  OBVIOUS
<1>4. \E g : g = [k \in 0 .. N |-> IF k = 0 THEN E ELSE
                      UNION {WithoutSources(before) : before \in {g[k - 1]}}]
  <2>1. PICK g : g = [k \in 0 .. N |-> IF k = 0 THEN E ELSE WithoutSources(g[k - 1])]
    BY <1>1, RoundsExist
  <2>2. \A k \in 0 .. N : (IF k = 0 THEN E ELSE WithoutSources(g[k - 1])) =
                          (IF k = 0 THEN E ELSE
                               UNION {WithoutSources(before) : before \in {g[k - 1]}})
    BY <1>3
  <2>3. [k \in 0 .. N |-> IF k = 0 THEN E ELSE WithoutSources(g[k - 1])] =
        [k \in 0 .. N |-> IF k = 0 THEN E ELSE
                              UNION {WithoutSources(before) : before \in {g[k - 1]}}]
    BY <2>2, Zenon
  <2> QED
    BY <2>1, <2>3
<1>5. after = [k \in 0 .. N |-> IF k = 0 THEN E ELSE
                   UNION {WithoutSources(before) : before \in {after[k - 1]}}]
  BY <1>4, Zenon
<1> HIDE DEF after
<1>6. RoundsUpTo(E, N, after)
  <2>1. DOMAIN after = 0 .. N /\ after[0] = E
    BY <1>1, <1>5
  <2>2. ASSUME NEW j \in 1 .. N PROVE after[j] = WithoutSources(after[j - 1])
    <3>1. j \in 0 .. N /\ j # 0
      BY <1>1
    <3>2. after[j] = UNION {WithoutSources(before) : before \in {after[j - 1]}}
      BY <3>1, <1>5
    <3> QED
      BY <3>2, <1>3
  <2> QED
    BY <2>1, <2>2 DEF RoundsUpTo
<1> QED
  BY <1>2, <1>6 DEF N

\* Edges of a circle survive every round.
LEMMA CircleSurvives ==
    ASSUME NEW N \in Nat, NEW E, NEW g, RoundsUpTo(E, N, g),
           NEW C, \A n \in C : \E d \in C : <<d, n>> \in E,
           NEW k \in 0 .. N
    PROVE  \A n \in C : \E d \in C : <<d, n>> \in g[k]
<1> DEFINE Keeps(j) == \A e \in E : e[1] \in C => e \in g[j]
           T == {j \in 0 .. N : ~Keeps(j)}
<1>1. T = {}
  <2> SUFFICES ASSUME T # {} PROVE FALSE
    OBVIOUS
  <2>1. PICK j \in T : \A m \in T : j <= m
    <3>1. T \subseteq Nat
      OBVIOUS
    <3> HIDE DEF T
    <3> QED
      BY <3>1, LeastNumber
  <2>2. j # 0
    BY <2>1 DEF RoundsUpTo
  <2>3. j - 1 \in 0 .. N /\ j \in 1 .. N /\ Keeps(j - 1)
    BY <2>1, <2>2
  <2>4. g[j] = WithoutSources(g[j - 1])
    BY <2>3 DEF RoundsUpTo
  <2>5. ASSUME NEW e \in E, e[1] \in C PROVE e \in g[j]
    <3>1. PICK d \in C : <<d, e[1]>> \in E
      BY <2>5
    <3>2. e \in g[j - 1] /\ <<d, e[1]>> \in g[j - 1]
      BY <2>3, <2>5, <3>1
    <3> QED
      BY <3>2, <2>4 DEF WithoutSources
  <2> QED
    BY <2>1, <2>5
<1>2. Keeps(k)
  BY <1>1
<1> QED
  BY <1>2

LEMMA ProperSubsetIsSmaller ==
    ASSUME NEW X, IsFiniteSet(X), NEW Y, Y \subseteq X, Y # X
    PROVE  Cardinality(Y) < Cardinality(X)
<1>1. Cardinality(Y) <= Cardinality(X) /\ Cardinality(Y) # Cardinality(X)
      /\ Cardinality(Y) \in Nat /\ Cardinality(X) \in Nat
  BY FS_Subset, FS_CardinalityType
<1> QED
  BY <1>1

\* Without a circle every round that leaves something loses an edge.
LEMMA RoundsShrink ==
    ASSUME NEW N \in Nat, NEW E, IsFiniteSet(E), N = Cardinality(E), E \subseteq Nodes \X Nodes,
           ~EdgesCircle(E), NEW g, RoundsUpTo(E, N, g), NEW k \in 0 .. N
    PROVE  g[k] \subseteq E /\ Cardinality(g[k]) <= N - k
<1> DEFINE Small(j) == g[j] \subseteq E /\ Cardinality(g[j]) <= N - j
           T == {j \in 0 .. N : ~Small(j)}
<1>1. T = {}
  <2> SUFFICES ASSUME T # {} PROVE FALSE
    OBVIOUS
  <2>1. PICK j \in T : \A m \in T : j <= m
    <3>1. T \subseteq Nat
      OBVIOUS
    <3> HIDE DEF T
    <3> QED
      BY <3>1, LeastNumber
  <2>2. j # 0
    BY <2>1 DEF RoundsUpTo
  <2>3. j - 1 \in 0 .. N /\ j \in 1 .. N /\ Small(j - 1)
    BY <2>1, <2>2
  <2> DEFINE X == g[j - 1]
  <2>4. g[j] = WithoutSources(X) /\ X \subseteq E /\ Cardinality(X) <= N - (j - 1)
    BY <2>3 DEF RoundsUpTo
  <2> HIDE DEF X
  <2>5. IsFiniteSet(X) /\ WithoutSources(X) \subseteq X
    BY <2>4, FS_Subset DEF WithoutSources
  <2>6. CASE X = {}
    <3>1. g[j] = {} /\ Cardinality(g[j]) = 0
      BY <2>4, <2>5, <2>6, FS_EmptySet
    <3>2. 0 <= N - j
      BY <2>3
    <3>3. Small(j)
      BY <3>1, <3>2
    <3> QED
      BY <3>3, <2>1
  <2>7. CASE X # {}
    <3>1. WithoutSources(X) # X
      <4> SUFFICES ASSUME WithoutSources(X) = X PROVE EdgesCircle(E)
        OBVIOUS
      <4> DEFINE C == {e[1] : e \in X}
      <4>1. C \in (SUBSET Nodes) \ {{}}
        <5>1. \A e \in X : e[1] \in Nodes
          BY <2>4
        <5>2. PICK e \in X : TRUE
          BY <2>7
        <5>3. C \subseteq Nodes /\ e[1] \in C
          BY <5>1, <5>2
        <5> QED
          BY <5>3
      <4>2. ASSUME NEW n \in C PROVE \E d \in C : <<d, n>> \in E
        <5>1. PICK e \in X : e[1] = n
          OBVIOUS
        <5>2. PICK f \in X : f[2] = n
          BY <5>1 DEF WithoutSources
        <5>3. f = <<f[1], n>> /\ f[1] \in C /\ f \in E
          BY <5>2, <2>4
        <5> QED
          BY <5>3
      <4> QED
        BY <4>1, <4>2 DEF EdgesCircle
    <3>2. Cardinality(WithoutSources(X)) < Cardinality(X)
      BY <3>1, <2>5, ProperSubsetIsSmaller
    <3>3. Cardinality(WithoutSources(X)) \in Nat /\ Cardinality(X) \in Nat
      BY <2>5, FS_Subset, FS_CardinalityType
    <3>4. Cardinality(g[j]) <= N - j /\ g[j] \subseteq E
      BY <3>2, <3>3, <2>3, <2>4, <2>5
    <3> QED
      BY <3>4, <2>1
  <2> QED
    BY <2>6, <2>7
<1>2. Small(k)
  BY <1>1
<1> QED
  BY <1>2

\* links_acyclic_directed_graph accepts exactly the links without a circle.
LEMMA LinksAcyclicIsExact ==
    ASSUME NEW E, IsFiniteSet(E), E \subseteq Nodes \X Nodes
    PROVE  LinksAcyclic(E) <=> ~EdgesCircle(E)
<1> DEFINE N == Cardinality(E)
<1>1. N \in Nat /\ N \in 0 .. N
  BY FS_CardinalityType
<1>2. PICK g : RoundsUpTo(E, N, g) /\ LinksRemaining(E) = g[N]
  BY RoundsOfLinks
<1> HIDE DEF N
<1>3. ASSUME EdgesCircle(E) PROVE g[N] # {}
  <2>1. PICK C \in (SUBSET Nodes) \ {{}} : \A n \in C : \E d \in C : <<d, n>> \in E
    BY <1>3 DEF EdgesCircle
  <2>2. \A n \in C : \E d \in C : <<d, n>> \in g[N]
    BY <2>1, <1>1, <1>2, CircleSurvives
  <2> QED
    BY <2>1, <2>2
<1>4. ASSUME ~EdgesCircle(E) PROVE g[N] = {}
  <2>1. g[N] \subseteq E /\ Cardinality(g[N]) <= N - N
    BY <1>1, <1>2, <1>4, RoundsShrink DEF N
  <2>2. IsFiniteSet(g[N]) /\ Cardinality(g[N]) \in Nat
    BY <2>1, FS_Subset, FS_CardinalityType
  <2>3. Cardinality(g[N]) = 0
    BY <2>1, <2>2, <1>1
  <2> QED
    BY <2>2, <2>3, FS_EmptySet
<1> QED
  BY <1>2, <1>3, <1>4 DEF LinksAcyclic


LEMMA LevelsAreExact ==
    ASSUME IsFiniteSet(Nodes), NEW w \in WorkflowNodes
    PROVE  LinksAcyclic(Links(w)) <=> ~EdgesCircle(Links(w))
<1>1. Links(w) \subseteq Nodes \X Nodes
  BY DEF Links
<1>2. IsFiniteSet(Nodes \X Nodes)
  BY FS_Product
<1>3. IsFiniteSet(Links(w))
  BY <1>1, <1>2, FS_Subset
<1> QED
  BY <1>1, <1>3, LinksAcyclicIsExact

\* The check of the links is exact on every level, and what it accepts on all of them
\* can be evaluated without meeting the recursion limit.
THEOREM LinkCheckIsEnough ==
    ASSUME IsFiniteSet(Nodes), Cardinality(Nodes) <= MaxStack
    PROVE  Spec => []LinkCheckSuffices
<1>1. Spec => []GraphParsed
  <2>1. Init => GraphParsed
    BY DEF Init, GraphParsed
  <2>2. GraphParsed /\ [Next]_vars => GraphParsed'
    <3>1. [Next]_vars => UNCHANGED <<provider, outs>>
      BY DEF Next, vars, graph, Await, RunOperator, FinishWorkflow, EvaluateRoot, EvaluateNode,
             Finish, Enter, Ended
    <3> QED
      BY <3>1 DEF GraphParsed
  <2> QED
    BY <2>1, <2>2, PTL DEF Spec
<1>2. LinkCheckIsExact
  BY LevelsAreExact DEF LinkCheckIsExact, EdgesCircle
<1>3. GraphParsed /\ OutcomeIsTrue => ValidatedHasNoCircle
  <2> SUFFICES ASSUME GraphParsed, OutcomeIsTrue,
                      \A w \in WorkflowNodes : LinksAcyclic(Links(w))
               PROVE  ~HasCircle(Nodes) /\ CirclesAreReported
    BY DEF ValidatedHasNoCircle
  <2>1. ~HasCircle(Nodes)
    <3>1. \A w \in WorkflowNodes : ~EdgesCircle(Links(w))
      BY LevelsAreExact
    <3> QED
      BY <3>1, CircleShowsOnALevel DEF EdgesCircle
  <2>2. ~HasCircle(Needed)
    <3>1. Needed \subseteq Nodes
      BY DEF Needed
    <3> QED
      BY <2>1, <3>1 DEF HasCircle
  <2>3. CirclesAreReported
    BY <2>2 DEF OutcomeIsTrue, CircularMeansCircle, CirclesAreReported
  <2> QED
    BY <2>1, <2>3
<1>4. GraphParsed /\ OutcomeIsTrue => LinkCheckSuffices
  BY <1>2, <1>3 DEF LinkCheckSuffices
<1>5. Spec => []OutcomeIsTrue
  BY OutcomesAreTrue
<1> QED
  BY <1>1, <1>4, <1>5, PTL
=============================================================================
