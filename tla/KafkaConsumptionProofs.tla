----------------------- MODULE KafkaConsumptionProofs -----------------------
(***************************************************************************)
(* The delivery guarantees of the Kafka consumption mode, for topics of any *)
(* length, any set of configurations and any number of faults.             *)
(***************************************************************************)
EXTENDS KafkaConsumption, TLAPS

\* Only a group has an offset, and while the loop runs nothing is committed that
\* it was not handed out.
CommittedBehindPosition ==
    /\ ~cfg.group => committed = NoOffset
    /\ pc \in Running => committed <= position

\* Between being handed out and being handled there is a message.
CurrentMessage ==
    pc \in {"received", "ready", "handling", "handled"} => position \in Messages

\* Why a message is not handled twice: when its handling begins it is committed.
HandledOnce ==
    cfg.before /\ cfg.group =>
        /\ \A m \in Messages : attempts[m] <= 1 /\ (attempts[m] # 0 => m <= committed)
        /\ pc \in {"received", "ready"} => attempts[position] = 0
        /\ pc = "ready" => position <= committed

Passed(m) == m \in handled \/ (cfg.continue /\ m \in raised)

\* Why no message is lost: only what was passed is committed, and the loop leaves
\* none but the current message behind that was not passed.
NoneLost ==
    CommitsAfterOnly /\ cfg.earliest =>
        /\ \A m \in Messages : m <= committed => Passed(m)
        /\ pc \in Running => \A m \in Messages : m < position => Passed(m)
        /\ pc \in {"polling", "handled"} => \A m \in Messages : m <= position => Passed(m)

KafkaInv == TypeOK /\ CommittedBehindPosition /\ CurrentMessage /\ HandledOnce /\ NoneLost

\* The invariant holds of the process that was never started.
LEMMA InitInv == Init => KafkaInv
<1> SUFFICES ASSUME Init PROVE KafkaInv
  OBVIOUS
<1> USE MessagesAssumption DEF Init, Running, NoOffset, MaxAttempts, Messages
<1>1. TypeOK
  <2>1. attempts \in [Messages -> 0 .. MaxAttempts]
    OBVIOUS
  <2>2. committed \in {NoOffset} \cup 0 .. MaxMessages /\ log \in 0 .. MaxMessages
    OBVIOUS
  <2>3. position \in 0 .. MaxMessages /\ faults \in 0 .. MaxFaults
    OBVIOUS
  <2>4. cfg \in Configs /\ pc \in Running \cup {"down"}
    OBVIOUS
  <2>5. failed \in BOOLEAN /\ open \in BOOLEAN
    OBVIOUS
  <2>6. malformed \subseteq Messages /\ received \subseteq Messages /\ handled \subseteq Messages
          /\ executed \subseteq Messages /\ raised \subseteq Messages
    OBVIOUS
  <2>7. QED
    BY <2>1, <2>2, <2>3, <2>4, <2>5, <2>6, Zenon DEF TypeOK
<1>2. CommittedBehindPosition /\ CurrentMessage
  BY DEF CommittedBehindPosition, CurrentMessage
<1>3. HandledOnce
  BY DEF HandledOnce
<1>4. NoneLost
  BY DEF NoneLost
<1>5. QED
  BY <1>1, <1>2, <1>3, <1>4 DEF KafkaInv

\* Every step keeps the variables in their types and the position ahead.
LEMMA StepTypes ==
  ASSUME KafkaInv, [Next]_vars
  PROVE  TypeOK' /\ CommittedBehindPosition' /\ CurrentMessage'
<1> USE MessagesAssumption, ConfigsAssumption
    DEF KafkaInv, TypeOK, CommittedBehindPosition, CurrentMessage, Running, Messages,
        NoOffset, MaxAttempts, topic, process, history, vars, Fault,
        AfterException
<1>1. CASE Publish
  BY <1>1 DEF Publish
<1>2. CASE AutoCommit
  <2>1. cfg.group /\ committed' = position /\ UNCHANGED <<cfg, log, malformed, pc, position, failed,
          open, attempts, received, handled, executed, raised, faults>>
    BY <1>2 DEF AutoCommit
  <2>2. QED
    BY <2>1
<1>3. CASE Start
  <2>1. StartPosition \in 0 .. MaxMessages /\ committed <= StartPosition
    BY DEF StartPosition
  <2>2. QED
    BY <1>3, <2>1 DEF Start
<1>4. CASE Receive
  BY <1>4 DEF Receive
<1>5. CASE CommitBefore
  BY <1>5 DEF CommitBefore
<1>6. CASE CommitBeforeRaises
  BY <1>6 DEF CommitBeforeRaises
<1>7. CASE BeginHandling
  BY <1>7 DEF BeginHandling
<1>8. ASSUME NEW r \in {"ok", "failure"}, HandlingReturns(r)
      PROVE  TypeOK' /\ CommittedBehindPosition' /\ CurrentMessage'
  BY <1>8 DEF HandlingReturns
<1>9. CASE HandlingRaises
  BY <1>9 DEF HandlingRaises
<1>10. CASE CommitAfter
  BY <1>10 DEF CommitAfter
<1>11. CASE CommitAfterRaises
  BY <1>11 DEF CommitAfterRaises
<1>12. CASE Cancel
  BY <1>12 DEF Cancel
<1>13. CASE Close
  BY <1>13 DEF Close
<1>14. CASE Crash
  BY <1>14 DEF Crash
<1>15. CASE UNCHANGED vars
  BY <1>15
<1>16. QED
  BY <1>1, <1>2, <1>3, <1>4, <1>5, <1>6, <1>7, <1>8, <1>9, <1>10, <1>11, <1>12,
     <1>13, <1>14, <1>15 DEF Next, Loop, Handle

\* Every step keeps a committed message from being handled again.
LEMMA StepOnce ==
  ASSUME KafkaInv, [Next]_vars
  PROVE  HandledOnce'
<1> USE MessagesAssumption, ConfigsAssumption
    DEF KafkaInv, TypeOK, CommittedBehindPosition, CurrentMessage, HandledOnce, Running,
        Messages, NoOffset, MaxAttempts, topic, process, history, vars, Fault,
        AfterException
<1>1. CASE Publish
  BY <1>1 DEF Publish
<1>2. CASE AutoCommit
  BY <1>2 DEF AutoCommit
<1>3. CASE Start
  BY <1>3 DEF Start, StartPosition
<1>4. CASE Receive
  BY <1>4 DEF Receive
<1>5. CASE CommitBefore
  BY <1>5 DEF CommitBefore
<1>6. CASE CommitBeforeRaises
  BY <1>6 DEF CommitBeforeRaises
<1>7. CASE BeginHandling
  BY <1>7 DEF BeginHandling
<1>8. ASSUME NEW r \in {"ok", "failure"}, HandlingReturns(r)
      PROVE  HandledOnce'
  BY <1>8 DEF HandlingReturns
<1>9. CASE HandlingRaises
  BY <1>9 DEF HandlingRaises
<1>10. CASE CommitAfter
  BY <1>10 DEF CommitAfter
<1>11. CASE CommitAfterRaises
  BY <1>11 DEF CommitAfterRaises
<1>12. CASE Cancel
  BY <1>12 DEF Cancel
<1>13. CASE Close
  BY <1>13 DEF Close
<1>14. CASE Crash
  BY <1>14 DEF Crash
<1>15. CASE UNCHANGED vars
  BY <1>15
<1>16. QED
  BY <1>1, <1>2, <1>3, <1>4, <1>5, <1>6, <1>7, <1>8, <1>9, <1>10, <1>11, <1>12,
     <1>13, <1>14, <1>15 DEF Next, Loop, Handle

\* Every step keeps messages that were not passed from being committed.
LEMMA StepNoneLost ==
  ASSUME KafkaInv, [Next]_vars
  PROVE  NoneLost'
<1> USE MessagesAssumption, ConfigsAssumption
    DEF KafkaInv, TypeOK, CommittedBehindPosition, CurrentMessage, NoneLost, Passed,
        CommitsAfterOnly, Running, Messages, NoOffset, topic, process, history, vars,
        Fault, AfterException
<1>1. CASE Publish
  BY <1>1 DEF Publish
<1>2. CASE AutoCommit
  BY <1>2 DEF AutoCommit
<1>3. CASE Start
  BY <1>3 DEF Start, StartPosition
<1>4. CASE Receive
  BY <1>4 DEF Receive
<1>5. CASE CommitBefore
  BY <1>5 DEF CommitBefore
<1>6. CASE CommitBeforeRaises
  BY <1>6 DEF CommitBeforeRaises
<1>7. CASE BeginHandling
  BY <1>7 DEF BeginHandling
<1>8. ASSUME NEW r \in {"ok", "failure"}, HandlingReturns(r)
      PROVE  NoneLost'
  BY <1>8 DEF HandlingReturns
<1>9. CASE HandlingRaises
  BY <1>9 DEF HandlingRaises
<1>10. CASE CommitAfter
  BY <1>10 DEF CommitAfter
<1>11. CASE CommitAfterRaises
  BY <1>11 DEF CommitAfterRaises
<1>12. CASE Cancel
  BY <1>12 DEF Cancel
<1>13. CASE Close
  BY <1>13 DEF Close
<1>14. CASE Crash
  BY <1>14 DEF Crash
<1>15. CASE UNCHANGED vars
  BY <1>15
<1>16. QED
  BY <1>1, <1>2, <1>3, <1>4, <1>5, <1>6, <1>7, <1>8, <1>9, <1>10, <1>11, <1>12,
     <1>13, <1>14, <1>15 DEF Next, Loop, Handle

\* The inductive invariant of the consumption mode.
THEOREM InvariantHolds == Spec => []KafkaInv
<1>1. KafkaInv /\ [Next]_vars => KafkaInv'
  BY StepTypes, StepOnce, StepNoneLost DEF KafkaInv
<1>2. QED
  BY InitInv, <1>1, PTL DEF Spec

\* consumer_commit_before: no message's handling begins twice, however often the
\* process crashes and whatever the other attributes are.
THEOREM DeliveredAtMostOnce == Spec => []AtMostOnce
<1>1. KafkaInv => AtMostOnce
  BY DEF KafkaInv, HandledOnce, AtMostOnce
<1>2. QED
  BY InvariantHolds, <1>1, PTL

\* consumer_commit_after: what is committed was handled or passed over.
THEOREM DeliveredAtLeastOnce == Spec => []CommittedWereHandled
<1>1. KafkaInv => CommittedWereHandled
  BY DEF KafkaInv, NoneLost, Passed, CommittedWereHandled
<1>2. QED
  BY InvariantHolds, <1>1, PTL

\* The variables stay in their types.
THEOREM TypeCorrect == Spec => []TypeOK
<1>1. KafkaInv => TypeOK
  BY DEF KafkaInv
<1>2. QED
  BY InvariantHolds, <1>1, PTL

\* No step moves the group's offset back.
THEOREM OffsetMonotone == Spec => CommittedNeverRewinds
<1>1. KafkaInv /\ [Next]_vars => [committed' >= committed]_vars
  <2> USE DEF KafkaInv, TypeOK, CommittedBehindPosition, Running, NoOffset, vars,
                 topic, process
  <2> SUFFICES ASSUME KafkaInv, Next PROVE committed' >= committed
    OBVIOUS
  <2>1. committed \in Int
    OBVIOUS
  <2>2. committed' \in {committed, position} /\ (committed' # committed => pc \in Running)
    BY DEF Next, Loop, Handle, Publish, AutoCommit, Start, Receive, CommitBefore,
           CommitBeforeRaises, BeginHandling, HandlingReturns, HandlingRaises,
           CommitAfter, CommitAfterRaises, Cancel, Close, Crash
  <2>3. QED
    BY <2>1, <2>2
<1>2. QED
  BY InvariantHolds, <1>1, PTL DEF Spec, CommittedNeverRewinds
=============================================================================
