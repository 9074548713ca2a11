----------------------------- MODULE AccessTokens -----------------------------
(***************************************************************************)
(* AccessTokenManager of hetdesrun/webservice/auth_outgoing.py: coroutines *)
(* of one event loop share a token.  Who holds the lock looks at the token  *)
(* and, if it is not fresh enough, has it refreshed or obtains a new one    *)
(* from the auth provider.  Time passes in ticks; the manager estimates a   *)
(* token's age from the moment it asked for it, the provider counts from    *)
(* the moment it issued it.                                                *)
(***************************************************************************)
EXTENDS Naturals, Sequences

CONSTANTS
    Callers,        \* coroutines that make requests to other services
    AccessLife,     \* expires_in
    FreshFor,       \* age up to which a token is handed out: expires_in * 0.9
    RefreshLife,    \* refresh_expires_in
    RefreshMargin,  \* the ten seconds of should_try_refresh
    Timeout         \* of requests to the provider (httpx)

ASSUME LivesAssumption ==
    /\ AccessLife \in Nat /\ FreshFor \in Nat /\ RefreshLife \in Nat
    /\ RefreshMargin \in Nat /\ Timeout \in Nat
    /\ FreshFor < AccessLife /\ Timeout <= AccessLife /\ AccessLife < RefreshLife

\* Bound of the model: nothing is told apart beyond this age.
Ages == 0 .. RefreshLife + 1
Older(age) == IF age + 1 \in Ages THEN age + 1 ELSE age

None == [kind |-> "none"]
Tokens == [kind : {"token"}, age : Ages, issued : Ages, refreshable : BOOLEAN]
Requests == [kind : {"refresh", "obtain"}, age : Ages, issued : Ages, answered : BOOLEAN]

VARIABLES
    token,   \* _current_token_info
    queue,   \* of the lock; its head holds it
    flight   \* the holder's request to the provider

tokenVars == <<token, queue, flight>>

TokensTypeOK ==
    /\ token \in Tokens \cup {None}
    /\ flight \in Requests \cup {None}
    /\ queue \in Seq(Callers)

TokensInit == token = None /\ queue = <<>> /\ flight = None

Holds(c) == queue # <<>> /\ Head(queue) = c

-----------------------------------------------------------------------------

\* access_token_still_valid_enough
StillValidEnough == token.age <= FreshFor

\* should_try_refresh
ShouldTryRefresh ==
    /\ token.refreshable
    /\ token.age > FreshFor
    /\ token.age + RefreshMargin < RefreshLife

\* The time before a request is the token's issue_timestamp.
NewRequest(kind) == [kind |-> kind, age |-> 0, issued |-> 0, answered |-> FALSE]

\* get_access_token: the lock is asked for.
Acquire(c) ==
    /\ queue' = Append(queue, c)
    /\ UNCHANGED <<token, flight>>

\* c holds the lock, and the token still does.
UseExisting(c) ==
    /\ Holds(c) /\ flight = None
    /\ token # None /\ StillValidEnough
    /\ queue' = Tail(queue)
    /\ UNCHANGED <<token, flight>>

StartRefresh(c) ==
    /\ Holds(c) /\ flight = None
    /\ token # None /\ ~StillValidEnough /\ ShouldTryRefresh
    /\ flight' = NewRequest("refresh")
    /\ UNCHANGED <<token, queue>>

StartObtain(c) ==
    /\ Holds(c) /\ flight = None
    /\ token # None => ~StillValidEnough /\ ~ShouldTryRefresh
    /\ flight' = NewRequest("obtain")
    /\ UNCHANGED <<token, queue>>

\* The provider issues a token; the answer is on its way.
ProviderIssues ==
    /\ flight # None /\ ~flight.answered
    /\ flight' = [flight EXCEPT !.answered = TRUE]
    /\ UNCHANGED <<token, queue>>

\* Fault: the timestamp is taken when the answer arrives.
ReceivedAge == 0

\* The age a token has by its issue_timestamp.
EstimatedAge == flight.age

\* The new token is stored and handed out.  Client credentials grants come
\* without a refresh token.
Received(c) ==
    /\ Holds(c) /\ flight # None /\ flight.answered
    /\ \E refreshable \in BOOLEAN :
        token' = [kind |-> "token", age |-> EstimatedAge, issued |-> flight.issued,
                  refreshable |-> refreshable]
    /\ flight' = None
    /\ queue' = Tail(queue)

\* A refresh that failed, at whatever point, is followed by obtaining a token.
RefreshFails(c) ==
    /\ Holds(c) /\ flight.kind = "refresh"
    /\ flight' = NewRequest("obtain")
    /\ UNCHANGED <<token, queue>>

\* ServiceAuthenticationError for the holder; the token known so far is kept.
ObtainFails(c) ==
    /\ Holds(c) /\ flight.kind = "obtain"
    /\ flight' = None
    /\ queue' = Tail(queue)
    /\ UNCHANGED token

\* Time passes, for a request to the provider at most its timeout.
Tick ==
    /\ flight # None => flight.age < Timeout
    /\ token' = IF token = None THEN None
                ELSE [token EXCEPT !.age = Older(@), !.issued = Older(@)]
    /\ flight' = IF flight = None THEN None
                 ELSE [flight EXCEPT !.age = Older(@),
                                     !.issued = IF flight.answered THEN Older(@) ELSE 0]
    /\ UNCHANGED queue

TokenArrives(c) == UseExisting(c) \/ Received(c)

\* What the holder and the provider do before the holder has an answer.
TokenStep ==
    \/ \E c \in Callers : StartRefresh(c) \/ StartObtain(c) \/ RefreshFails(c)
    \/ ProviderIssues

=============================================================================
