------------------------------ MODULE AgentClient ------------------------------
(***************************************************************************)
(* Clients of the local API and the server between them and the approval   *)
(* queue: packages/agent-sdk/src/client.ts (apps/grl-cli/src/client has the *)
(* same request function), the handlers that create and decide approval    *)
(* requests (apps/grl-server/src/local-api.ts), and the process itself,    *)
(* which keeps the queue in memory only.                                   *)
(*                                                                         *)
(* A call is known by its place in `calls`.  Its timer is an event that    *)
(* may come at any moment while the client awaits the response's head.     *)
(* Arguments refused before anything is sent (invalid_arguments) make no   *)
(* call.                                                                   *)
(***************************************************************************)
EXTENDS ApprovalQueue

CONSTANTS
  MaxCalls,    \* bound: calls ever made
  MaxReads,    \* bound: those of them that only read
  MaxCrashes   \* bound: exits of the server process

VARIABLES
  calls,      \* every call made, in order
  serving,    \* the server process is up
  forgotten,  \* how many approval requests, the oldest, restarts have lost
  crashes

clientVars == <<requests, audit, now, calls, serving, forgotten, crashes>>
queueVars == vars

ASSUME ClientAssumption == MaxCalls \in Nat /\ MaxReads \in Nat /\ MaxCrashes \in Nat

\* "final" stands for allowed and denied, which leave nothing to decide, and for
\* what a read returns.
Answer == {"final", "pending"}
Op == {"ask", "read"} \cup Verdict
ErrorCode == {"request_timeout", "runtime_unreachable", "capability_failed", "invalid_response"}
Outcome == {"none"} \cup Answer \cup Verdict \cup ErrorCode

\* A response: its status is 200 or an error, what it says, and for a pending
\* answer the request whose id and token it carries.
Response == [ok: BOOLEAN, says: {"none", "error"} \cup Answer \cup Verdict, request: Nat]
NoResponse == [ok |-> FALSE, says |-> "none", request |-> 0]

Call == [op: Op, request: Nat, token: Nat,      \* what was sent
         response: Response,                    \* what the server has answered
         cut: BOOLEAN,                          \* the connection is gone
         client: {"waiting", "reading", "settled"}, outcome: Outcome,
         decided: BOOLEAN]                      \* history: it decided its request

-----------------------------------------------------------------------------
\* The tokens clients have read; they are sent once and listed nowhere.
Known == {calls[k].response.request : k \in {j \in DOMAIN calls : calls[j].outcome = "pending"}}

ClientInit ==
  /\ Init
  /\ calls = << >> /\ serving = TRUE /\ forgotten = 0 /\ crashes = 0

\* request: one fetch, never retried; it is refused when nobody listens.
Send(op, request, token) ==
  /\ Len(calls) < MaxCalls
  /\ calls' = Append(calls, [op |-> op, request |-> request, token |-> token,
                             response |-> NoResponse, cut |-> ~serving,
                             client |-> "waiting", outcome |-> "none", decided |-> FALSE])
  /\ UNCHANGED <<queueVars, serving, forgotten, crashes>>

\* search and requestCapability.
Ask == Send("ask", 0, NoToken)

\* The methods that list or get something; they touch no approval request.
Read ==
  /\ Cardinality({k \in DOMAIN calls : calls[k].op = "read"}) < MaxReads
  /\ Send("read", 0, NoToken)

\* approve and reject: any request's id (GET /v1/approvals/pending lists them)
\* with a token the client has read, or another non-empty string.
DecideRequest(i, token, verdict) == Send(verdict, i, token)

-----------------------------------------------------------------------------
Pending(k) == serving /\ ~calls[k].cut /\ calls[k].response = NoResponse

\* The handler answers, whether or not the client still waits.
Respond(k, response, decided) ==
  calls' = [calls EXCEPT ![k].response = response, ![k].decided = decided]

Says(word) == [ok |-> TRUE, says |-> word, request |-> 0]
Error == [ok |-> FALSE, says |-> "error", request |-> 0]

\* Allowed with confirmation: a request is created, and its token travels in
\* this answer alone.
AnswerPending(k) ==
  /\ Pending(k) /\ calls[k].op = "ask"
  /\ Create
  /\ Respond(k, [Says("pending") EXCEPT !.request = Len(requests')], FALSE)
  /\ UNCHANGED <<serving, forgotten, crashes>>

\* Allowed or denied at once, or refused with 400.
AnswerAtOnce(k, ok) ==
  /\ Pending(k) /\ calls[k].op = "ask"
  /\ Respond(k, IF ok THEN Says("final") ELSE Error, FALSE)
  /\ UNCHANGED <<queueVars, serving, forgotten, crashes>>

\* What a read finds, 400 for a malformed filter or 404.
AnswerRead(k, ok) ==
  /\ Pending(k) /\ calls[k].op = "read"
  /\ Respond(k, IF ok THEN Says("final") ELSE Error, FALSE)
  /\ UNCHANGED <<queueVars, serving, forgotten, crashes>>

\* handleApprovalDecision: 404 for what a restart has lost.
AnswerDecision(k) ==
  LET c == calls[k] IN
  /\ Pending(k) /\ c.op \in Verdict
  /\ \/ /\ c.request > forgotten
        /\ Decide(c.request, c.token, c.op)
        /\ Respond(k, Says(c.op), TRUE)
     \/ /\ c.request > forgotten
        /\ DecisionRefused(c.request, c.token)
        /\ Respond(k, Error, FALSE)
     \/ /\ c.request <= forgotten
        /\ Respond(k, Error, FALSE)
        /\ UNCHANGED queueVars
  /\ UNCHANGED <<serving, forgotten, crashes>>

\* GET /v1/approvals/pending.
ListPending ==
  /\ serving
  /\ ExpireOldRequests
  /\ UNCHANGED <<calls, serving, forgotten, crashes>>

\* The process exits: connections break, and what was unanswered stays so.
Crash ==
  /\ serving /\ crashes < MaxCrashes
  /\ serving' = FALSE
  /\ crashes' = crashes + 1
  /\ calls' = [k \in DOMAIN calls |-> [calls[k] EXCEPT !.cut = TRUE]]
  /\ UNCHANGED <<queueVars, forgotten>>

\* It comes back with an empty queue; what is lost is kept here as history.
Restart ==
  /\ ~serving
  /\ serving' = TRUE
  /\ forgotten' = Len(requests)
  /\ UNCHANGED <<queueVars, calls, crashes>>

-----------------------------------------------------------------------------
Settle(k, outcome) ==
  /\ calls' = [calls EXCEPT ![k].client = "settled", ![k].outcome = outcome]
  /\ UNCHANGED <<queueVars, serving, forgotten, crashes>>

\* Faulty variant of TimeOut: one timer a client, restarted by the next call.
TimeOutNewest(k) ==
  /\ k = Len(calls)
  /\ calls[k].client = "waiting"
  /\ Settle(k, "request_timeout")
TimeOut(k) ==
  /\ calls[k].client = "waiting"
  /\ Settle(k, "request_timeout")

Unreachable(k) ==
  /\ calls[k].client = "waiting" /\ calls[k].cut
  /\ Settle(k, "runtime_unreachable")

\* The head has arrived: fetch resolves and the timer is cleared.
ResponseBegins(k) ==
  /\ calls[k].client = "waiting" /\ ~calls[k].cut /\ calls[k].response # NoResponse
  /\ calls' = [calls EXCEPT ![k].client = "reading"]
  /\ UNCHANGED <<queueVars, serving, forgotten, crashes>>

\* Faulty variant of Result: the status is not looked at.
ResultUnchecked(c) ==
  IF c.op \in Verdict THEN c.op
  ELSE IF c.response.ok THEN c.response.says ELSE "capability_failed"

\* Any status but 2xx is capability_failed.
Result(c) == IF c.response.ok THEN c.response.says ELSE "capability_failed"

ReadBody(k) ==
  /\ calls[k].client = "reading" /\ ~calls[k].cut
  /\ Settle(k, Result(calls[k]))

\* An error whose body cannot be read is still an error of that status.
LoseBody(k) ==
  /\ calls[k].client = "reading" /\ calls[k].cut
  /\ Settle(k, IF calls[k].response.ok THEN "invalid_response" ELSE "capability_failed")

ClientNext ==
  \/ Ask
  \/ Read
  \/ \E i \in DOMAIN requests, token \in Known \cup {NoToken}, verdict \in Verdict :
       DecideRequest(i, token, verdict)
  \/ \E k \in DOMAIN calls :
       \/ AnswerPending(k)
       \/ \E ok \in BOOLEAN : AnswerAtOnce(k, ok) \/ AnswerRead(k, ok)
       \/ AnswerDecision(k)
       \/ TimeOut(k) \/ Unreachable(k) \/ ResponseBegins(k) \/ ReadBody(k) \/ LoseBody(k)
  \/ ListPending
  \/ Crash
  \/ Restart
  \/ Tick /\ UNCHANGED <<calls, serving, forgotten, crashes>>

\* A client's timer fires, and its runtime reports a broken connection.  A
\* server may stay silent at any point, in the middle of a body too.
ClientSpec ==
  /\ ClientInit /\ [][ClientNext]_clientVars
  /\ \A k \in 1 .. MaxCalls :
       /\ WF_clientVars(k \in DOMAIN calls /\ TimeOut(k))
       /\ WF_clientVars(k \in DOMAIN calls /\ Unreachable(k))
       /\ WF_clientVars(k \in DOMAIN calls /\ LoseBody(k))

-----------------------------------------------------------------------------
\* What a client is told of a decision is what has happened: a success is the
\* decision of this very call, and capability_failed means that it decided
\* nothing, through expiry, competing decisions, lost bodies and restarts.  After
\* the other errors the caller knows nothing, and a second call tells.
OutcomesAreTrue ==
  \A k \in DOMAIN calls :
    /\ calls[k].outcome \in Verdict => calls[k].decided /\ calls[k].outcome = calls[k].op
    /\ calls[k].outcome = "capability_failed" => ~calls[k].decided

\* A request whose pending answer no client has read is never decided: its token
\* is lost with the answer (a timeout, a broken connection, a crash) and no token
\* of another request helps, so it can only expire.
OrphansAreNeverDecided ==
  \A n \in DOMAIN audit : audit[n].request \in Known

\* The timer covers every call until its response begins, whatever other calls
\* of the client do and whether or not the server answers.  (The calls of a run
\* are finitely many, so it is enough that again and again none waits.)
NoCallWaitsForEver ==
  []<>(\A k \in DOMAIN calls : calls[k].client # "waiting")

\* client.ts: "Mandatory timeout on every request - no hanging calls".
EveryCallSettles ==
  []<>(\A k \in DOMAIN calls : calls[k].client = "settled")
=============================================================================
