-------------------------- MODULE KafkaConsumption --------------------------
(***************************************************************************)
(* Kafka consumption mode (hd/adapters/kafka/consumption_mode): a process   *)
(* that executes one transformation for every message of a topic.  One      *)
(* partition, one consumer of the group at a time; the process crashes, is  *)
(* cancelled, fails and is started again.  The consumer itself is the       *)
(* library aiokafka, modelled by how the loop uses it: position is what the *)
(* iteration has handed out, commit() stores the position for the group.    *)
(***************************************************************************)
EXTENDS Integers, FiniteSets

CONSTANTS
    MaxMessages, \* bound: messages that are ever published
    Configs,     \* the Kafka configurations the mode may be started with
    MaxFaults    \* bound: crashes, cancellations, raising executions and commits

Messages == 1 .. MaxMessages

\* The attributes of KafkaConfig the loop looks at.  group: a group_id is set;
\* auto: enable_auto_commit; earliest: auto_offset_reset is "earliest".
ConfigFields == {"group", "auto", "earliest", "before", "after",
                 "callStop", "continue"}

ASSUME MessagesAssumption == MaxMessages \in Nat /\ MaxFaults \in Nat
ASSUME ConfigsAssumption == Configs \subseteq [ConfigFields -> BOOLEAN]

VARIABLES
    cfg,        \* the configuration, fixed for the lifetime of the deployment
    log,        \* number of messages in the topic
    malformed,  \* the messages that parse_message refuses
    committed,  \* last message committed for the group, NoOffset before the first
    pc,         \* where start_consumption_mode is
    position,   \* last message the iteration has handed out
    failed,     \* msg_handling_exception_occured
    open,       \* the consumer was started and not stopped
    attempts,   \* message -> times its handling began, "many" is 2 (MaxAttempts)
    received,   \* messages that were handed out to a run of the loop
    handled,    \* messages whose handling returned
    executed,   \* messages whose execution had the result "ok"
    raised,     \* messages whose handling raised an exception
    faults      \* faults so far

topic == <<log, malformed>>
process == <<pc, position, failed, open>>
history == <<attempts, received, handled, executed, raised>>
vars == <<cfg, topic, committed, process, history, faults>>

NoOffset == -1
MaxAttempts == 2
Running == {"polling", "received", "ready", "handling", "handled", "closing"}

Init ==
    /\ cfg \in Configs
    /\ log = 0 /\ malformed = {}
    /\ committed = NoOffset
    /\ pc = "down"
    /\ position = 0
    /\ failed = FALSE
    /\ open = FALSE
    /\ attempts = [m \in Messages |-> 0]
    /\ received = {} /\ handled = {} /\ executed = {} /\ raised = {}
    /\ faults = 0

-----------------------------------------------------------------------------
(* The topic and the consumer library.                                     *)

Publish ==
    /\ log < MaxMessages
    /\ log' = log + 1
    /\ malformed' \in {malformed, malformed \cup {log + 1}}
    /\ UNCHANGED <<cfg, committed, process, history, faults>>

\* Where a started consumer begins: at the group's offset, else where
\* auto_offset_reset points.
StartPosition ==
    IF cfg.group /\ committed # NoOffset THEN committed
    ELSE IF cfg.earliest THEN 0 ELSE log

\* The library's own commits, at any time while the loop awaits something.
AutoCommit ==
    /\ pc \in Running
    /\ cfg.auto /\ cfg.group
    /\ committed' = position
    /\ UNCHANGED <<cfg, topic, process, history, faults>>

Fault == faults < MaxFaults /\ faults' = faults + 1

-----------------------------------------------------------------------------
(* start_consumption_mode.                                                 *)

Start ==
    /\ pc = "down"
    /\ pc' = "polling"
    /\ position' = StartPosition
    /\ failed' = FALSE
    /\ open' = TRUE
    /\ UNCHANGED <<cfg, topic, committed, history, faults>>

Receive ==
    /\ pc = "polling"
    /\ position < log
    /\ position' = position + 1
    /\ received' = received \cup {position + 1}
    /\ pc' = "received"
    /\ UNCHANGED <<cfg, topic, committed, failed, open, attempts, handled,
                   executed, raised, faults>>

\* Fault: continue_consumption_after_exception is ignored.
LeavesAfterException == "closing"

\* The handler of Exception: either the loop goes on or the exception leaves it.
AfterException == IF cfg.continue THEN "polling" ELSE "closing"

\* Faults: consumer_commit_before has no effect, or the commit is unconditional.
CommitBeforeIgnored ==
    /\ pc = "received"
    /\ pc' = "ready"
    /\ UNCHANGED <<cfg, topic, committed, position, failed, open, history, faults>>
CommitBeforeAlways ==
    /\ pc = "received"
    /\ pc' = "ready"
    /\ committed' = IF cfg.group THEN position ELSE committed
    /\ UNCHANGED <<cfg, topic, position, failed, open, history, faults>>

CommitBefore ==
    /\ pc = "received"
    /\ pc' = "ready"
    /\ committed' = IF cfg.before /\ cfg.group THEN position ELSE committed
    /\ UNCHANGED <<cfg, topic, position, failed, open, history, faults>>

\* commit() raises; the broker may have stored the offset all the same.
CommitBeforeRaises ==
    /\ pc = "received"
    /\ cfg.before /\ cfg.group
    /\ Fault
    /\ committed' \in {committed, position}
    /\ failed' = TRUE
    /\ pc' = AfterException
    /\ raised' = raised \cup {position}
    /\ UNCHANGED <<cfg, topic, position, open, attempts, received, handled, executed>>

BeginHandling ==
    /\ pc = "ready"
    /\ pc' = "handling"
    /\ attempts' = [attempts EXCEPT ![position] =
                       IF @ = MaxAttempts THEN @ ELSE @ + 1]
    /\ UNCHANGED <<cfg, topic, committed, position, failed, open, received,
                   handled, executed, raised, faults>>

\* handle_message returns: the execution answered, with the result "ok" or with
\* "failure" (loading, running and sending errors are all answers).
HandlingReturns(result) ==
    /\ pc = "handling"
    /\ position \notin malformed
    /\ handled' = handled \cup {position}
    /\ executed' = IF result = "ok" THEN executed \cup {position} ELSE executed
    /\ pc' = "handled"
    /\ UNCHANGED <<cfg, topic, committed, position, failed, open, attempts,
                   received, raised, faults>>

\* handle_message raises: the message cannot be parsed, or the execution could
\* not be prepared or the runtime not be reached.
HandlingRaises ==
    /\ pc = "handling"
    /\ IF position \in malformed THEN UNCHANGED faults ELSE Fault
    /\ raised' = raised \cup {position}
    /\ failed' = TRUE
    /\ pc' = AfterException
    /\ UNCHANGED <<cfg, topic, committed, position, open, attempts, received,
                   handled, executed>>

CommitAfter ==
    /\ pc = "handled"
    /\ pc' = "polling"
    /\ committed' = IF cfg.after /\ cfg.group THEN position ELSE committed
    /\ UNCHANGED <<cfg, topic, position, failed, open, history, faults>>

\* This commit is outside of the inner try: the loop is left, unflagged.
CommitAfterRaises ==
    /\ pc = "handled"
    /\ cfg.after /\ cfg.group
    /\ Fault
    /\ committed' \in {committed, position}
    /\ pc' = "closing"
    /\ UNCHANGED <<cfg, topic, position, failed, open, history>>

\* CancelledError is no Exception: it leaves the loop without the flag being set.
Cancel ==
    /\ pc \in Running \ {"closing"}
    /\ Fault
    /\ pc' = "closing"
    /\ UNCHANGED <<cfg, topic, committed, position, failed, open, history>>

\* Fault: leaving the loop commits, whatever enable_auto_commit is.
CloseCommits ==
    /\ pc = "closing"
    /\ pc' = "down"
    /\ IF ~failed \/ cfg.callStop
          THEN /\ open' = FALSE
               /\ committed' = IF cfg.group THEN position ELSE committed
          ELSE UNCHANGED <<open, committed>>
    /\ UNCHANGED <<cfg, topic, position, failed, history, faults>>

\* The finally block; consumer.stop() commits when enable_auto_commit is set.
Close ==
    /\ pc = "closing"
    /\ pc' = "down"
    /\ IF ~failed \/ cfg.callStop
          THEN /\ open' = FALSE
               /\ committed' = IF cfg.auto /\ cfg.group THEN position ELSE committed
          ELSE UNCHANGED <<open, committed>>
    /\ UNCHANGED <<cfg, topic, position, failed, history, faults>>

\* The process is killed: what is not committed is forgotten.
Crash ==
    /\ pc \in Running
    /\ Fault
    /\ pc' = "down"
    /\ UNCHANGED <<cfg, topic, committed, position, failed, open, history>>

Handle == HandlingReturns("ok") \/ HandlingReturns("failure") \/ HandlingRaises

Loop == Receive \/ CommitBefore \/ CommitBeforeRaises \/ BeginHandling \/ Handle
          \/ CommitAfter \/ CommitAfterRaises \/ Close

Next == Publish \/ AutoCommit \/ Start \/ Loop \/ Cancel \/ Crash

Spec == Init /\ [][Next]_vars

\* The event loop runs the coroutine, and the container restarts the process.
FairSpec == Spec /\ WF_vars(Loop) /\ WF_vars(Start)

-----------------------------------------------------------------------------
(* Properties.                                                             *)

\* Every variable stays in its type.
TypeOK ==
    /\ cfg \in Configs
    /\ log \in 0 .. MaxMessages /\ malformed \subseteq Messages
    /\ committed \in {NoOffset} \cup 0 .. MaxMessages
    /\ pc \in Running \cup {"down"}
    /\ position \in 0 .. MaxMessages
    /\ failed \in BOOLEAN /\ open \in BOOLEAN
    /\ attempts \in [Messages -> 0 .. MaxAttempts]
    /\ received \subseteq Messages /\ handled \subseteq Messages
    /\ executed \subseteq Messages /\ raised \subseteq Messages
    /\ faults \in 0 .. MaxFaults

\* consumer_commit_before gives at most once semantics: across all crashes and
\* restarts no message's handling begins twice.
AtMostOnce ==
    cfg.before /\ cfg.group => \A m \in Messages : attempts[m] <= 1

\* The configuration that is to give at least once semantics.
CommitsAfterOnly == cfg.group /\ cfg.after /\ ~cfg.before /\ ~cfg.auto

\* With consumer_commit_after no offset is committed past a message that was not
\* handled, except one whose exception the loop was told to pass over.
CommittedWereHandled ==
    CommitsAfterOnly /\ cfg.earliest =>
        \A m \in Messages :
            m <= committed => m \in handled \/ (cfg.continue /\ m \in raised)

\* With consumer_commit_after a message whose execution failed is not committed.
\* The code does not keep this: a failed execution is an answer, not an exception.
CommittedWereExecuted ==
    CommitsAfterOnly /\ cfg.earliest /\ ~cfg.continue =>
        \A m \in Messages : m <= committed => m \in executed

\* The offset of the group is never moved back: nothing that was committed is
\* consumed again.
CommittedNeverRewinds == [][committed' >= committed]_vars

\* A message that always raises does not hold up the loop for ever.
PassesMalformed ==
    cfg.continue \/ (cfg.group /\ (cfg.before \/ (cfg.auto /\ cfg.callStop)))

\* Every message is received some day, although the process fails in between,
\* unless one before it that cannot be parsed is retried for ever.
EveryMessageReceived ==
    \A m \in Messages :
        (cfg.earliest /\ m <= log) ~>
            (m \in received \/ (~PassesMalformed /\ \E k \in malformed : k < m))

\* With consumer_commit_after, every message is handled some day, unless it or one
\* before it cannot be parsed.
EveryMessageHandled ==
    \A m \in Messages :
        (cfg.earliest /\ CommitsAfterOnly /\ ~cfg.continue /\ m <= log) ~>
            (m \in handled \/ \E k \in malformed : k <= m)

\* Both: crashes, cancellations and exceptions delay messages and lose none.
EveryMessageArrives == EveryMessageReceived /\ EveryMessageHandled
=============================================================================
