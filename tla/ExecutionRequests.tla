--------------------------- MODULE ExecutionRequests ---------------------------
(***************************************************************************)
(* A backend process and the executions it is asked for: over HTTP          *)
(* (transformation_router.py) by any number of coroutines, waited for or    *)
(* asynchronously with the result posted to a callback URL, and over Kafka  *)
(* (hd/backend/kafka/consumer.py) by one that takes a message at a time.    *)
(* Each prepares its input, gets an access token, calls the runtime and     *)
(* answers.  The client library commits the consumer's position in the      *)
(* background and when the consumer is stopped.                            *)
(***************************************************************************)
EXTENDS AccessTokens, FiniteSets

CONSTANTS
    Http,         \* coroutines that serve HTTP requests, one after the other
    Consumer,     \* consume_execution_trigger_message
    Messages,     \* number of messages in the topic
    MaxEnds       \* bound of the model: ends of the process

ASSUME RequestsAssumption ==
    /\ Callers = Http \cup {Consumer} /\ Consumer \notin Http
    /\ Messages \in Nat /\ MaxEnds \in Nat

VARIABLES
    up,           \* the process runs
    pc,           \* of the coroutines
    position,     \* messages the consumer has taken
    committed,    \* the group's offset
    answered, failed, interrupted,  \* messages, by what became of them
    background,   \* coroutines whose request was accepted and answered already
    ends

coroutineVars == <<up, pc, position, committed, answered, failed, interrupted, ends, background>>
requestVars == <<coroutineVars, tokenVars>>

Steps == {"idle", "latest", "prepare", "token", "runtime", "answer"}

RequestsTypeOK ==
    /\ TokensTypeOK
    /\ up \in BOOLEAN
    /\ pc \in [Callers -> Steps]
    /\ position \in 0 .. Messages /\ committed \in 0 .. Messages
    /\ answered \in SUBSET (1 .. Messages) /\ failed \in SUBSET (1 .. Messages)
    /\ interrupted \in SUBSET (1 .. Messages)
    /\ background \in SUBSET {h \in Http : pc[h] # "idle"}
    /\ ends \in 0 .. MaxEnds

RequestsInit ==
    /\ up = TRUE /\ pc = [c \in Callers |-> "idle"]
    /\ position = 0 /\ committed = 0
    /\ answered = {} /\ failed = {} /\ interrupted = {}
    /\ ends = 0 /\ background = {}
    /\ TokensInit

GoesTo(c, step) == pc' = [pc EXCEPT ![c] = step]

Ends(c) ==
    /\ GoesTo(c, "idle")
    /\ background' = background \ {c}

\* The consumer logs what went wrong and takes the next message; an HTTP request
\* is answered with an error, an accepted one is only logged.
Fails(c) ==
    /\ Ends(c)
    /\ failed' = IF c = Consumer THEN failed \cup {position} ELSE failed
    /\ UNCHANGED answered

-----------------------------------------------------------------------------

Request(h) ==
    /\ up /\ pc[h] = "idle"
    /\ GoesTo(h, "prepare")
    /\ UNCHANGED <<up, position, committed, answered, failed, interrupted, ends, background, tokenVars>>

\* The execution becomes a background task.
RequestAsync(h) ==
    /\ up /\ pc[h] = "idle"
    /\ GoesTo(h, "prepare")
    /\ background' = background \cup {h}
    /\ UNCHANGED <<up, position, committed, answered, failed, interrupted, ends, tokenVars>>

\* The request names a revision group instead of a revision.
RequestLatest(h) ==
    /\ up /\ pc[h] = "idle"
    /\ GoesTo(h, "latest")
    /\ UNCHANGED <<up, position, committed, answered, failed, interrupted, ends, background, tokenVars>>

RequestLatestAsync(h) ==
    /\ up /\ pc[h] = "idle"
    /\ GoesTo(h, "latest")
    /\ background' = background \cup {h}
    /\ UNCHANGED <<up, position, committed, answered, failed, interrupted, ends, tokenVars>>

\* get_latest_revision_id: the revision is looked up when the execution starts.
FindLatest(h) ==
    /\ pc[h] = "latest"
    /\ GoesTo(h, "prepare")
    /\ UNCHANGED <<up, position, committed, answered, failed, interrupted, ends, background, tokenVars>>

\* No revision of the group is released; in the background it is only logged.
NoneReleased(h) ==
    /\ pc[h] = "latest"
    /\ Fails(h)
    /\ UNCHANGED <<up, position, committed, interrupted, ends, tokenVars>>

\* A message names a revision or a group.
Take ==
    /\ up /\ pc[Consumer] = "idle" /\ position < Messages
    /\ position' = position + 1
    /\ GoesTo(Consumer, "prepare")
    /\ UNCHANGED <<up, committed, answered, failed, interrupted, ends, background, tokenVars>>

\* The payload is malformed, the revision or a released one of the group does not
\* exist, or the input cannot be prepared.
Refuse(c) ==
    /\ pc[c] = "prepare"
    /\ Fails(c)
    /\ UNCHANGED <<up, position, committed, interrupted, ends, tokenVars>>

\* prepare_execution_input returns, get_auth_headers is called.
Prepare(c) ==
    /\ pc[c] = "prepare"
    /\ GoesTo(c, "token")
    /\ Acquire(c)
    /\ UNCHANGED <<up, position, committed, answered, failed, interrupted, ends, background>>

\* The runtime is called with the token.
CallRuntime(c) ==
    /\ pc[c] = "token"
    /\ TokenArrives(c)
    /\ GoesTo(c, "runtime")
    /\ UNCHANGED <<up, position, committed, answered, failed, interrupted, ends, background>>

\* Fault: who holds the lock tries again until the provider answers.
TokenRetried(c) ==
    /\ pc[c] = "token"
    /\ Holds(c) /\ flight.kind = "obtain"
    /\ flight' = NewRequest("obtain")
    /\ UNCHANGED <<coroutineVars, token, queue>>

\* TrafoExecutionRuntimeConnectionError
TokenRefused(c) ==
    /\ pc[c] = "token"
    /\ ObtainFails(c)
    /\ Fails(c)
    /\ UNCHANGED <<up, position, committed, interrupted, ends>>

\* A result, a failed one if the connection broke.
RuntimeAnswers(c) ==
    /\ pc[c] = "runtime"
    /\ GoesTo(c, "answer")
    /\ UNCHANGED <<up, position, committed, answered, failed, interrupted, ends, background, tokenVars>>

\* An HTTP error status, or a result that cannot be parsed.
RuntimeRefuses(c) ==
    /\ pc[c] = "runtime"
    /\ Fails(c)
    /\ UNCHANGED <<up, position, committed, interrupted, ends, tokenVars>>

\* producer_send_result_msg, the HTTP response or the request to the callback URL.
Answer(c) ==
    /\ pc[c] = "answer"
    /\ Ends(c)
    /\ answered' = IF c = Consumer THEN answered \cup {position} ELSE answered
    /\ UNCHANGED <<up, position, committed, failed, interrupted, ends, tokenVars>>

AnswerFails(c) ==
    /\ pc[c] = "answer" /\ c = Consumer
    /\ Fails(c)
    /\ UNCHANGED <<up, position, committed, interrupted, ends, tokenVars>>

\* send_result_to_callback_url: no headers for it, or the URL does not answer; the result
\* is lost. The token it asks for, a second one, is not told apart from that.
CallbackFails(c) ==
    /\ pc[c] = "answer" /\ c \in background
    /\ Fails(c)
    /\ UNCHANGED <<up, position, committed, interrupted, ends, tokenVars>>

\* enable_auto_commit of the library.
AutoCommit ==
    /\ up /\ committed # position
    /\ committed' = position
    /\ UNCHANGED <<up, pc, position, answered, failed, interrupted, ends, background, tokenVars>>

-----------------------------------------------------------------------------

\* What the coroutines were at is lost, and the token with them.
End ==
    /\ up /\ ends < MaxEnds
    /\ up' = FALSE /\ ends' = ends + 1
    /\ pc' = [c \in Callers |-> "idle"]
    /\ interrupted' = IF pc[Consumer] = "idle" THEN interrupted ELSE interrupted \cup {position}
    /\ token' = None /\ queue' = <<>> /\ flight' = None
    /\ background' = {}
    /\ UNCHANGED <<position, answered, failed>>

Crash == End /\ UNCHANGED committed

\* KafkaWorkerContext.stop: the task is cancelled, the consumer stopped, which
\* commits its position.
Stop == End /\ committed' = position

Start ==
    /\ ~up /\ up' = TRUE
    /\ position' = committed
    /\ UNCHANGED <<pc, committed, answered, failed, interrupted, ends, background, tokenVars>>

\* The coroutine goes on with its request.
Goes(c) ==
    \/ FindLatest(c) \/ NoneReleased(c) \/ Refuse(c) \/ Prepare(c) \/ CallRuntime(c) \/ TokenRefused(c)
    \/ RuntimeAnswers(c) \/ RuntimeRefuses(c) \/ Answer(c) \/ AnswerFails(c)
    \/ CallbackFails(c)

TokenWork == TokenStep /\ UNCHANGED coroutineVars
TimePasses == Tick /\ UNCHANGED coroutineVars

RequestsNext ==
    \/ \E h \in Http : Request(h) \/ RequestAsync(h) \/ RequestLatest(h) \/ RequestLatestAsync(h)
    \/ Take
    \/ \E c \in Callers : Goes(c)
    \/ TokenWork \/ TimePasses
    \/ AutoCommit \/ Crash \/ Stop \/ Start

\* The event loop runs every coroutine that can go on; requests to the provider end,
\* by their timeout at the latest; executions end; the process is restarted.
Fairness ==
    /\ \A c \in Callers : WF_requestVars(Goes(c))
    /\ WF_requestVars(TokenWork) /\ WF_requestVars(Take) /\ WF_requestVars(Start)

RequestsSpec == RequestsInit /\ [][RequestsNext]_requestVars /\ Fairness

-----------------------------------------------------------------------------
(* Properties.                                                             *)

\* A token that is handed out is one the provider takes for valid, however long
\* its answers and the queue for the lock took.
HandedOutTokensAreValid ==
    [][\A c \in Callers : CallRuntime(c) => token'.issued <= AccessLife]_requestVars

\* Whatever happens to the tokens and requests of others, every message is taken
\* and comes to an end.
EveryMessageEnds == \A m \in 1 .. Messages : <>(m \in answered \cup failed \cup interrupted)

\* No HTTP request and no execution in the background waits for ever for its turn at
\* the token.
EveryRequestEnds == \A h \in Http : pc[h] # "idle" ~> pc[h] = "idle"

\* Both: a caller that is refused or interrupted holds nobody up.
EveryExecutionEnds == EveryMessageEnds /\ EveryRequestEnds

=============================================================================
