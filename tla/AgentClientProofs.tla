--------------------------- MODULE AgentClientProofs ---------------------------
(***************************************************************************)
(* TLAPS proofs about ApprovalQueue and AgentClient.                       *)
(*                                                                         *)
(* About the queue, for any TTL and any bounds: a request that has been    *)
(* decided or has expired is never written again, whichever call comes and *)
(* however late, since every call changes a pending request only, and a    *)
(* decision only one that is still in time.                                *)
(*                                                                         *)
(* About clients, server and queue together: whatever clients send, lose   *)
(* and repeat, and however often the server exits, the queue takes its own *)
(* steps only, its audit stays exact, what clients are told is true, and a *)
(* request whose token was lost is never decided.                          *)
(***************************************************************************)
EXTENDS AgentClient, TLAPS

-----------------------------------------------------------------------------
(* The queue. *)

\* The types of the queue's state.
QueueTypeOK ==
  /\ requests \in Seq(Request)
  /\ audit \in Seq(Decision)
  /\ now \in Nat

IndInv ==
  /\ QueueTypeOK
  /\ AuditIsExact

\* What a call leaves of the requests it finds: their deadlines, and those that
\* are no longer pending as they are.
Preserves(rs) ==
  /\ rs \in Seq(Request)
  /\ Len(requests) <= Len(rs)
  /\ \A i \in 1 .. Len(requests) :
       /\ rs[i].expiresAt = requests[i].expiresAt
       /\ requests[i].status # "pending" => rs[i] = requests[i]

\* The lazy expiry touches pending requests only, and makes them expired.
LEMMA ExpireFacts ==
  ASSUME NEW r \in Request, now \in Nat
  PROVE  /\ Expire(r) \in Request
         /\ Expire(r).expiresAt = r.expiresAt
         /\ r.status # "pending" => Expire(r) = r
         /\ Expire(r).status = "pending" => Expire(r) = r /\ now < r.expiresAt
         /\ Expire(r).status \in Verdict => r.status = Expire(r).status
<1>1. CASE r.status = "pending" /\ now >= r.expiresAt
  BY <1>1 DEF Expire, Request, Status, Verdict
<1>2. CASE ~(r.status = "pending" /\ now >= r.expiresAt)
  BY <1>2 DEF Expire, Request, Status, Verdict
<1>. QED BY <1>1, <1>2

\* A step that writes no verdict keeps the invariant.
LEMMA NothingDecided ==
  ASSUME IndInv, Preserves(requests'), audit' = audit, now' \in Nat,
         \A i \in 1 .. Len(requests') :
           requests'[i].status \in Verdict =>
             i \in 1 .. Len(requests) /\ requests[i].status = requests'[i].status
  PROVE  IndInv'
<1>1. QueueTypeOK'
  BY DEF IndInv, QueueTypeOK, Preserves
<1>2. AuditedDecisionStands'
  <2>. SUFFICES ASSUME NEW k \in DOMAIN audit
       PROVE  /\ audit[k].request \in DOMAIN requests'
              /\ audit[k].token = audit[k].request
              /\ requests'[audit[k].request].status = audit[k].verdict
              /\ audit[k].at < requests'[audit[k].request].expiresAt
    BY DEF AuditedDecisionStands
  <2>1. /\ audit[k].request \in 1 .. Len(requests)
        /\ audit[k].token = audit[k].request
        /\ requests[audit[k].request].status = audit[k].verdict
        /\ audit[k].at < requests[audit[k].request].expiresAt
    BY DEF IndInv, AuditIsExact, QueueTypeOK, AuditedDecisionStands
  <2>2. audit[k].verdict # "pending"
    <3>1. audit[k] \in Decision
      BY DEF IndInv, QueueTypeOK
    <3>. QED BY <3>1 DEF Decision, Verdict
  <2>3. requests'[audit[k].request] = requests[audit[k].request]
    BY <2>1, <2>2 DEF Preserves
  <2>. QED BY <2>1, <2>3, <1>1 DEF Preserves, QueueTypeOK
<1>3. DecidedOnce'
  BY DEF IndInv, AuditIsExact, DecidedOnce
<1>4. DecisionsAreAudited'
  <2>. SUFFICES ASSUME NEW i \in 1 .. Len(requests'), requests'[i].status \in Verdict
       PROVE  \E k \in DOMAIN audit :
                audit[k].request = i /\ audit[k].verdict = requests'[i].status
    BY <1>1 DEF QueueTypeOK, DecisionsAreAudited
  <2>1. i \in 1 .. Len(requests) /\ requests[i].status = requests'[i].status
    OBVIOUS
  <2>. QED BY <2>1 DEF IndInv, AuditIsExact, QueueTypeOK, DecisionsAreAudited
<1>. QED BY <1>1, <1>2, <1>3, <1>4 DEF IndInv, AuditIsExact

\* The empty queue.
LEMMA InitIndInv == Init => IndInv
BY QueueAssumption DEF Init, IndInv, AuditIsExact, QueueTypeOK, AuditedDecisionStands, DecidedOnce,
   DecisionsAreAudited

\* A new request is pending, and appended.
LEMMA CreateKeepsIndInv == IndInv /\ Create => IndInv'
<1>. SUFFICES ASSUME IndInv, Create PROVE IndInv'
  OBVIOUS
<1>. DEFINE r == [status |-> "pending", expiresAt |-> now + Ttl]
<1>1. r \in Request
  BY QueueAssumption DEF IndInv, QueueTypeOK, Request, Status
<1>2. requests' = Append(requests, r) /\ audit' = audit /\ now' \in Nat
  BY DEF Create, IndInv, QueueTypeOK
<1>. HIDE DEF r
<1>3. Preserves(requests')
  BY <1>1, <1>2 DEF IndInv, QueueTypeOK, Preserves
<1>4. ASSUME NEW i \in 1 .. Len(requests'), requests'[i].status \in Verdict
      PROVE  i \in 1 .. Len(requests) /\ requests[i].status = requests'[i].status
  <2>1. i = Len(requests) + 1 => requests'[i] = r
    BY <1>1, <1>2 DEF IndInv, QueueTypeOK
  <2>2. r.status = "pending"
    BY DEF r
  <2>3. i # Len(requests) + 1
    BY <2>1, <2>2, <1>4 DEF Verdict
  <2>. QED BY <2>3, <1>1, <1>2 DEF IndInv, QueueTypeOK
<1>. QED BY <1>2, <1>3, <1>4, NothingDecided

\* A read, or a refused decision, only expires the request it looks at.
LEMMA LookKeepsIndInv ==
  ASSUME IndInv, NEW i \in DOMAIN requests, audit' = audit, now' = now,
         requests' = [requests EXCEPT ![i] = Expire(requests[i])]
  PROVE  IndInv'
<1>1. requests[i] \in Request /\ now \in Nat
  BY DEF IndInv, QueueTypeOK
<1>2. Preserves(requests')
  BY <1>1, ExpireFacts DEF IndInv, QueueTypeOK, Preserves
<1>3. ASSUME NEW j \in 1 .. Len(requests'), requests'[j].status \in Verdict
      PROVE  j \in 1 .. Len(requests) /\ requests[j].status = requests'[j].status
  BY <1>1, <1>3, ExpireFacts DEF IndInv, QueueTypeOK
<1>. QED BY <1>1, <1>2, <1>3, NothingDecided

\* A sweep expires every request that is due, and decides none.
LEMMA SweepKeepsIndInv == IndInv /\ ExpireOldRequests => IndInv'
<1>. SUFFICES ASSUME IndInv, ExpireOldRequests PROVE IndInv'
  OBVIOUS
<1>1. requests \in Seq(Request) /\ now \in Nat /\ audit' = audit /\ now' = now
  BY DEF IndInv, QueueTypeOK, ExpireOldRequests
<1>2. /\ requests' = [j \in 1 .. Len(requests) |-> Expire(requests[j])]
      /\ \A j \in 1 .. Len(requests) : requests[j] \in Request
  BY <1>1 DEF ExpireOldRequests, ExpireAll
<1>3. /\ requests' \in Seq(Request) /\ Len(requests') = Len(requests)
      /\ \A j \in 1 .. Len(requests) : requests'[j] = Expire(requests[j])
  <2>1. \A j \in 1 .. Len(requests) : Expire(requests[j]) \in Request
    BY <1>1, <1>2, ExpireFacts
  <2>. QED BY <1>1, <1>2, <2>1
<1>4. Preserves(requests')
  BY <1>1, <1>2, <1>3, ExpireFacts DEF Preserves
<1>5. ASSUME NEW j \in 1 .. Len(requests'), requests'[j].status \in Verdict
      PROVE  j \in 1 .. Len(requests) /\ requests[j].status = requests'[j].status
  BY <1>1, <1>2, <1>3, <1>5, ExpireFacts
<1>. QED BY <1>1, <1>4, <1>5, NothingDecided

\* A decision is taken on a pending request in time, and audited with it.
LEMMA DecideKeepsIndInv ==
  ASSUME IndInv, NEW i \in DOMAIN requests, NEW token \in {NoToken} \cup DOMAIN requests,
         NEW verdict \in Verdict, Decide(i, token, verdict)
  PROVE  IndInv'
<1>. DEFINE d == [request |-> i, token |-> token, verdict |-> verdict, at |-> now]
<1>1. /\ requests \in Seq(Request) /\ audit \in Seq(Decision) /\ now \in Nat
      /\ i \in 1 .. Len(requests) /\ requests[i] \in Request /\ token = i
  BY DEF IndInv, QueueTypeOK, Decide, TokenMatches
<1>2. requests[i].status = "pending" /\ now < requests[i].expiresAt
  BY <1>1, ExpireFacts DEF Decide
<1>3. /\ requests' = [requests EXCEPT ![i].status = verdict]
      /\ audit' = Append(audit, d) /\ now' = now /\ d \in Decision
  BY <1>1 DEF Decide, Decision
<1>. HIDE DEF d
<1>4. [requests[i] EXCEPT !.status = verdict] \in Request
  BY <1>1 DEF Request, Status
<1>5. /\ requests' \in Seq(Request) /\ Len(requests') = Len(requests)
      /\ requests'[i] = [requests[i] EXCEPT !.status = verdict]
      /\ \A j \in 1 .. Len(requests) : j # i => requests'[j] = requests[j]
  BY <1>1, <1>3, <1>4
<1>6. requests'[i].status = verdict /\ requests'[i].expiresAt = requests[i].expiresAt
  BY <1>1, <1>5 DEF Request
<1>7. d.request = i /\ d.token = i /\ d.verdict = verdict /\ d.at = now
  BY <1>1 DEF d
<1>8. /\ audit' \in Seq(Decision) /\ Len(audit') = Len(audit) + 1
      /\ audit'[Len(audit) + 1] = d
      /\ \A k \in 1 .. Len(audit) : audit'[k] = audit[k]
  BY <1>1, <1>3
<1>9. \A k \in 1 .. Len(audit) :
        /\ audit[k].request \in 1 .. Len(requests)
        /\ audit[k].token = audit[k].request
        /\ requests[audit[k].request].status = audit[k].verdict
        /\ audit[k].at < requests[audit[k].request].expiresAt
  BY <1>1 DEF IndInv, AuditIsExact, AuditedDecisionStands
<1>10. \A k \in 1 .. Len(audit) : audit[k].request # i
  <2>1. \A k \in 1 .. Len(audit) : audit[k] \in Decision
    BY <1>1
  <2>2. \A k \in 1 .. Len(audit) : audit[k].verdict # "pending"
    BY <2>1 DEF Decision, Verdict
  <2>. QED BY <1>2, <1>9, <2>2
<1>11. QueueTypeOK'
  BY <1>1, <1>3, <1>5, <1>8 DEF QueueTypeOK
<1>12. AuditedDecisionStands'
  <2>. SUFFICES ASSUME NEW k \in 1 .. Len(audit')
       PROVE  /\ audit'[k].request \in 1 .. Len(requests')
              /\ audit'[k].token = audit'[k].request
              /\ requests'[audit'[k].request].status = audit'[k].verdict
              /\ audit'[k].at < requests'[audit'[k].request].expiresAt
    BY <1>5, <1>8 DEF AuditedDecisionStands
  <2>1. CASE k = Len(audit) + 1
    BY <2>1, <1>1, <1>2, <1>5, <1>6, <1>7, <1>8
  <2>2. CASE k \in 1 .. Len(audit)
    BY <2>2, <1>5, <1>8, <1>9, <1>10
  <2>. QED BY <2>1, <2>2, <1>1, <1>8
<1>13. DecidedOnce'
  <2>. SUFFICES ASSUME NEW j \in 1 .. Len(audit'), NEW k \in 1 .. Len(audit'),
                       audit'[j].request = audit'[k].request
       PROVE  j = k
    BY <1>8 DEF DecidedOnce
  <2>1. CASE j \in 1 .. Len(audit) /\ k \in 1 .. Len(audit)
    BY <2>1, <1>1, <1>8 DEF IndInv, AuditIsExact, DecidedOnce
  <2>2. CASE j = Len(audit) + 1 \/ k = Len(audit) + 1
    BY <2>2, <1>1, <1>7, <1>8, <1>10
  <2>. QED BY <2>1, <2>2, <1>1, <1>8
<1>14. DecisionsAreAudited'
  <2>. SUFFICES ASSUME NEW j \in 1 .. Len(requests), requests'[j].status \in Verdict
       PROVE  \E k \in 1 .. Len(audit') :
                audit'[k].request = j /\ audit'[k].verdict = requests'[j].status
    BY <1>5, <1>8 DEF DecisionsAreAudited
  <2>1. CASE j = i
    BY <2>1, <1>1, <1>6, <1>7, <1>8
  <2>2. CASE j # i
    <3>1. requests[j].status \in Verdict /\ requests'[j] = requests[j]
      BY <2>2, <1>5
    <3>2. PICK k \in 1 .. Len(audit) :
            audit[k].request = j /\ audit[k].verdict = requests[j].status
      BY <3>1, <1>1 DEF IndInv, AuditIsExact, DecisionsAreAudited
    <3>. QED BY <3>1, <3>2, <1>1, <1>8
  <2>. QED BY <2>1, <2>2
<1>. QED BY <1>11, <1>12, <1>13, <1>14 DEF IndInv, AuditIsExact

\* Every call keeps the invariant.
LEMMA NextKeepsIndInv == IndInv /\ [Next]_vars => IndInv'
<1>. SUFFICES ASSUME IndInv, [Next]_vars PROVE IndInv'
  OBVIOUS
<1>1. CASE Create
  BY <1>1, CreateKeepsIndInv
<1>2. CASE ExpireOldRequests
  BY <1>2, SweepKeepsIndInv
<1>3. ASSUME NEW i \in DOMAIN requests, GetById(i)
      PROVE  IndInv'
  BY <1>3, LookKeepsIndInv DEF GetById
<1>4. ASSUME NEW i \in DOMAIN requests, NEW token \in {NoToken} \cup DOMAIN requests,
             DecisionRefused(i, token)
      PROVE  IndInv'
  BY <1>4, LookKeepsIndInv DEF DecisionRefused
<1>5. ASSUME NEW i \in DOMAIN requests, NEW token \in {NoToken} \cup DOMAIN requests,
             NEW verdict \in Verdict, Decide(i, token, verdict)
      PROVE  IndInv'
  BY <1>5, DecideKeepsIndInv
<1>6. CASE Tick
  BY <1>6 DEF Tick, IndInv, AuditIsExact, QueueTypeOK, AuditedDecisionStands, DecidedOnce,
     DecisionsAreAudited
<1>7. CASE UNCHANGED vars
  BY <1>7 DEF vars, IndInv, AuditIsExact, QueueTypeOK, AuditedDecisionStands, DecidedOnce,
     DecisionsAreAudited
<1>. QED BY <1>1, <1>2, <1>3, <1>4, <1>5, <1>6, <1>7 DEF Next

\* The inductive invariant of the approval queue.
THEOREM QueueInvariance == Spec => []IndInv
<1>1. Init => IndInv
  BY InitIndInv
<1>2. IndInv /\ [Next]_vars => IndInv'
  BY NextKeepsIndInv
<1>. QED BY <1>1, <1>2, PTL DEF Spec

\* An audited decision stands: its request keeps that verdict, and it was taken
\* with the request's own token before the TTL had elapsed.
THEOREM DecisionsStand == Spec => []AuditedDecisionStands
<1>1. IndInv => AuditedDecisionStands
  BY DEF IndInv, AuditIsExact
<1>. QED BY <1>1, QueueInvariance, PTL

\* Every decision is audited once, and nothing is audited that was not decided.
THEOREM AuditExact == Spec => []AuditIsExact
<1>1. IndInv => AuditIsExact
  BY DEF IndInv
<1>. QED BY <1>1, QueueInvariance, PTL

-----------------------------------------------------------------------------
(* Clients, server and queue. *)

\* What a call's record says of itself.
Consistent(c) ==
  /\ c.outcome # "none" => c.client = "settled"
  /\ c.client = "reading" => c.response # NoResponse
  /\ c.response.ok => c.response.says \in Answer \cup Verdict
  /\ ~c.response.ok => c.response.says \in {"none", "error"}
  /\ c.response.says \in Verdict => c.decided /\ c.response.says = c.op
  /\ c.decided => c.response.ok
  /\ c.outcome \in Answer \cup Verdict => c.response.ok /\ c.outcome = c.response.says
  /\ c.outcome = "capability_failed" => ~c.response.ok /\ c.response # NoResponse

\* What it names: tokens that a client has read, requests that were created.
RefersTo(c, known, created) ==
  /\ c.token \in known \cup {NoToken}
  /\ c.op \in Verdict => c.request \in 1 .. created
  /\ c.response.request \in 0 .. created

CallsInv ==
  /\ calls \in Seq(Call)
  /\ \A k \in 1 .. Len(calls) : Consistent(calls[k]) /\ RefersTo(calls[k], Known, Len(requests))

ClientInv == IndInv /\ CallsInv /\ OrphansAreNeverDecided

\* The queue never forgets a request that was created; a restart only hides it.
LEMMA QueueGrows == IndInv /\ [Next]_vars => Len(requests') \in Nat /\ Len(requests) <= Len(requests')
<1>. SUFFICES ASSUME IndInv, [Next]_vars
     PROVE  Len(requests') \in Nat /\ Len(requests) <= Len(requests')
  OBVIOUS
<1>0. requests \in Seq(Request) /\ Len(requests) \in Nat
  BY DEF IndInv, QueueTypeOK
<1>1. CASE Create
  BY <1>0, <1>1 DEF Create
<1>2. CASE ExpireOldRequests
  BY <1>0, <1>2 DEF ExpireOldRequests, ExpireAll
<1>3. ASSUME NEW i \in DOMAIN requests, GetById(i)
      PROVE  Len(requests') = Len(requests)
  BY <1>0, <1>3 DEF GetById
<1>4. ASSUME NEW i \in DOMAIN requests, NEW token, DecisionRefused(i, token)
      PROVE  Len(requests') = Len(requests)
  BY <1>0, <1>4 DEF DecisionRefused
<1>5. ASSUME NEW i \in DOMAIN requests, NEW token, NEW verdict, Decide(i, token, verdict)
      PROVE  Len(requests') = Len(requests)
  BY <1>0, <1>5 DEF Decide
<1>6. CASE Tick \/ UNCHANGED vars
  BY <1>0, <1>6 DEF Tick, vars
<1>. QED BY <1>0, <1>1, <1>2, <1>3, <1>4, <1>5, <1>6 DEF Next

\* Tokens are those of requests that were created.
LEMMA KnownTokens == CallsInv => Known \subseteq 0 .. Len(requests)
BY DEF CallsInv, RefersTo, Known

-----------------------------------------------------------------------------
\* One call is added.
LEMMA SendKeeps ==
  ASSUME CallsInv, NEW c \in Call, calls' = Append(calls, c), Consistent(c),
         RefersTo(c, Known, Len(requests)),
         c.outcome = "none", Len(requests') \in Nat, Len(requests) <= Len(requests')
  PROVE  CallsInv' /\ Known \subseteq Known'
<1>1. /\ calls' \in Seq(Call) /\ Len(calls') = Len(calls) + 1 /\ Len(calls) \in Nat
      /\ calls'[Len(calls) + 1] = c
      /\ \A k \in 1 .. Len(calls) : calls'[k] = calls[k]
  BY DEF CallsInv
<1>2. Known \subseteq Known'
  BY <1>1 DEF Known, CallsInv
<1>3. ASSUME NEW k \in 1 .. Len(calls')
      PROVE  Consistent(calls'[k]) /\ RefersTo(calls'[k], Known', Len(requests'))
  <2>1. CASE k = Len(calls) + 1
    BY <2>1, <1>1, <1>2 DEF RefersTo
  <2>2. CASE k \in 1 .. Len(calls)
    BY <2>2, <1>1, <1>2 DEF RefersTo, CallsInv
  <2>. QED BY <2>1, <2>2, <1>1
<1>. QED BY <1>1, <1>2, <1>3 DEF CallsInv

\* One call is changed, and it was not a pending answer already read.
LEMMA ChangeKeeps ==
  ASSUME CallsInv, NEW k \in 1 .. Len(calls), NEW c \in Call,
         calls' = [calls EXCEPT ![k] = c], calls[k].outcome # "pending",
         Consistent(c), c.token = calls[k].token, c.op = calls[k].op,
         c.request = calls[k].request, c.response.request \in 0 .. Len(requests'),
         Len(requests') \in Nat, Len(requests) <= Len(requests')
  PROVE  CallsInv' /\ Known \subseteq Known'
<1>1. /\ calls' \in Seq(Call) /\ Len(calls') = Len(calls)
      /\ calls'[k] = c /\ \A j \in 1 .. Len(calls) : j # k => calls'[j] = calls[j]
  BY DEF CallsInv
<1>2. Known \subseteq Known'
  BY <1>1 DEF Known, CallsInv
<1>3. ASSUME NEW j \in 1 .. Len(calls')
      PROVE  Consistent(calls'[j]) /\ RefersTo(calls'[j], Known', Len(requests'))
  <2>1. CASE j = k
    BY <2>1, <1>1, <1>2 DEF RefersTo, CallsInv
  <2>2. CASE j # k
    BY <2>2, <1>1, <1>2 DEF RefersTo, CallsInv
  <2>. QED BY <2>1, <2>2
<1>. QED BY <1>1, <1>2, <1>3 DEF CallsInv

\* The server answers a call that has no answer yet.
LEMMA RespondKeeps ==
  ASSUME CallsInv, NEW k \in DOMAIN calls, Pending(k),
         NEW r \in Response, NEW decided \in BOOLEAN, Respond(k, r, decided),
         r.ok => r.says \in Answer \cup Verdict, ~r.ok => r.says = "error",
         r.says \in Verdict => decided /\ r.says = calls[k].op, decided => r.ok,
         r.request \in 0 .. Len(requests'),
         Len(requests') \in Nat, Len(requests) <= Len(requests')
  PROVE  CallsInv' /\ Known \subseteq Known'
<1>. DEFINE c == [calls[k] EXCEPT !.response = r, !.decided = decided]
<1>1. k \in 1 .. Len(calls) /\ calls[k] \in Call /\ Consistent(calls[k])
  BY DEF CallsInv
<1>2. /\ c \in Call /\ c.response = r /\ c.decided = decided
      /\ c.token = calls[k].token /\ c.op = calls[k].op /\ c.request = calls[k].request
      /\ c.client = calls[k].client /\ c.outcome = calls[k].outcome
  BY <1>1 DEF Call
<1>3. calls' = [calls EXCEPT ![k] = c]
  BY <1>1 DEF Respond, CallsInv
<1>. HIDE DEF c
<1>4. calls[k].response = NoResponse
  BY DEF Pending
<1>5. /\ calls[k].outcome \notin Answer \cup Verdict
      /\ calls[k].outcome # "capability_failed"
      /\ calls[k].client # "reading"
  BY <1>1, <1>4 DEF Consistent, NoResponse
<1>6. Consistent(c)
  BY <1>1, <1>2, <1>5 DEF Consistent
<1>. QED BY <1>1, <1>2, <1>3, <1>5, <1>6, ChangeKeeps DEF Answer

\* A call ends for its client, with what its response says if it says so.
LEMMA SettleKeeps ==
  ASSUME CallsInv, NEW k \in DOMAIN calls, calls[k].client # "settled",
         NEW outcome \in Outcome,
         calls' = [calls EXCEPT ![k].client = "settled", ![k].outcome = outcome],
         outcome \in Answer \cup Verdict =>
           calls[k].response.ok /\ outcome = calls[k].response.says,
         outcome = "capability_failed" =>
           ~calls[k].response.ok /\ calls[k].response # NoResponse,
         Len(requests') \in Nat, Len(requests) <= Len(requests')
  PROVE  CallsInv' /\ Known \subseteq Known'
<1>. DEFINE c == [calls[k] EXCEPT !.client = "settled", !.outcome = outcome]
<1>1. /\ k \in 1 .. Len(calls) /\ calls[k] \in Call /\ Consistent(calls[k])
      /\ RefersTo(calls[k], Known, Len(requests))
  BY DEF CallsInv
<1>2. /\ c \in Call /\ c.response = calls[k].response /\ c.decided = calls[k].decided
      /\ c.token = calls[k].token /\ c.op = calls[k].op /\ c.request = calls[k].request
      /\ c.client = "settled" /\ c.outcome = outcome
  BY <1>1 DEF Call
<1>3. calls' = [calls EXCEPT ![k] = c]
  BY <1>1 DEF CallsInv
<1>. HIDE DEF c
<1>4. calls[k].outcome = "none"
  BY <1>1 DEF Consistent
<1>5. Consistent(c)
  BY <1>1, <1>2 DEF Consistent
<1>6. c.response.request \in 0 .. Len(requests')
  BY <1>1, <1>2 DEF RefersTo, CallsInv
<1>. QED BY <1>1, <1>2, <1>3, <1>4, <1>5, <1>6, ChangeKeeps

\* A response begins to arrive.
LEMMA BeginKeeps ==
  ASSUME CallsInv, NEW k \in DOMAIN calls, ResponseBegins(k),
         Len(requests') \in Nat, Len(requests) <= Len(requests')
  PROVE  CallsInv' /\ Known \subseteq Known'
<1>. DEFINE c == [calls[k] EXCEPT !.client = "reading"]
<1>1. /\ k \in 1 .. Len(calls) /\ calls[k] \in Call /\ Consistent(calls[k])
      /\ RefersTo(calls[k], Known, Len(requests))
  BY DEF CallsInv
<1>2. /\ c \in Call /\ c.response = calls[k].response /\ c.decided = calls[k].decided
      /\ c.token = calls[k].token /\ c.op = calls[k].op /\ c.request = calls[k].request
      /\ c.client = "reading" /\ c.outcome = calls[k].outcome
  BY <1>1 DEF Call
<1>3. calls' = [calls EXCEPT ![k] = c]
  BY <1>1 DEF CallsInv, ResponseBegins
<1>. HIDE DEF c
<1>4. calls[k].outcome = "none" /\ calls[k].response # NoResponse
  BY <1>1 DEF Consistent, ResponseBegins
<1>5. Consistent(c)
  BY <1>1, <1>2, <1>4 DEF Consistent, Answer, Verdict
<1>6. c.response.request \in 0 .. Len(requests')
  BY <1>1, <1>2 DEF RefersTo, CallsInv
<1>. QED BY <1>1, <1>2, <1>3, <1>4, <1>5, <1>6, ChangeKeeps

\* The server's exit cuts every connection and changes nothing else of a call.
LEMMA CrashKeeps ==
  ASSUME CallsInv, Crash
  PROVE  CallsInv' /\ Known \subseteq Known'
<1>1. /\ Len(calls) \in Nat /\ requests' = requests
      /\ calls' = [k \in 1 .. Len(calls) |-> [calls[k] EXCEPT !.cut = TRUE]]
      /\ \A k \in 1 .. Len(calls) : calls[k] \in Call
  BY DEF CallsInv, Crash, queueVars, vars
<1>2. \A k \in 1 .. Len(calls) :
        /\ calls'[k] \in Call
        /\ calls'[k].response = calls[k].response /\ calls'[k].decided = calls[k].decided
        /\ calls'[k].token = calls[k].token /\ calls'[k].op = calls[k].op
        /\ calls'[k].request = calls[k].request /\ calls'[k].client = calls[k].client
        /\ calls'[k].outcome = calls[k].outcome
  BY <1>1 DEF Call
<1>3. calls' \in Seq(Call) /\ Len(calls') = Len(calls)
  BY <1>1, <1>2
<1>4. Known' = Known
  <2>1. DOMAIN calls = 1 .. Len(calls) /\ DOMAIN calls' = 1 .. Len(calls)
    BY <1>1 DEF CallsInv
  <2>2. {j \in DOMAIN calls' : calls'[j].outcome = "pending"}
          = {j \in DOMAIN calls : calls[j].outcome = "pending"}
    BY <1>2, <2>1
  <2>3. \A k \in {j \in DOMAIN calls : calls[j].outcome = "pending"} :
          calls'[k].response.request = calls[k].response.request
    BY <1>2, <2>1
  <2>. QED BY <2>2, <2>3 DEF Known
<1>5. \A k \in 1 .. Len(calls) :
        Consistent(calls'[k]) /\ RefersTo(calls'[k], Known', Len(requests'))
  BY <1>1, <1>2, <1>4 DEF CallsInv, Consistent, RefersTo
<1>. QED BY <1>3, <1>4, <1>5 DEF CallsInv

-----------------------------------------------------------------------------
\* Every step of the clients and the server is a step of the queue, or none.
LEMMA QueueStep == ClientInv /\ [ClientNext]_clientVars => [Next]_vars
<1>. SUFFICES ASSUME ClientInv, [ClientNext]_clientVars PROVE [Next]_vars
  OBVIOUS
<1>1. ASSUME NEW k \in DOMAIN calls, AnswerDecision(k) PROVE [Next]_vars
  <2>. DEFINE c == calls[k]
  <2>1. /\ c.token \in {NoToken} \cup DOMAIN requests
        /\ c.request \in DOMAIN requests /\ c.op \in Verdict
    <3>1. k \in 1 .. Len(calls) /\ DOMAIN requests = 1 .. Len(requests)
      BY DEF ClientInv, CallsInv, IndInv, QueueTypeOK
    <3>2. RefersTo(c, Known, Len(requests)) /\ Known \subseteq 0 .. Len(requests)
      BY <3>1, KnownTokens DEF ClientInv, CallsInv
    <3>3. c.op \in Verdict
      BY <1>1 DEF AnswerDecision
    <3>4. Len(requests) \in Nat
      BY DEF ClientInv, IndInv, QueueTypeOK
    <3>. QED BY <3>1, <3>2, <3>3, <3>4 DEF RefersTo, NoToken
  <2>2. \/ Decide(c.request, c.token, c.op)
        \/ DecisionRefused(c.request, c.token)
        \/ UNCHANGED vars
    BY <1>1 DEF AnswerDecision, queueVars
  <2>. QED BY <2>1, <2>2 DEF Next
<1>2. ASSUME NEW k \in DOMAIN calls, AnswerPending(k) PROVE [Next]_vars
  BY <1>2 DEF AnswerPending, Next
<1>3. ASSUME NEW k \in DOMAIN calls, NEW ok \in BOOLEAN,
             AnswerAtOnce(k, ok) \/ AnswerRead(k, ok)
      PROVE  [Next]_vars
  BY <1>3 DEF AnswerAtOnce, AnswerRead, queueVars
<1>4. ASSUME NEW k \in DOMAIN calls,
             TimeOut(k) \/ Unreachable(k) \/ ResponseBegins(k) \/ ReadBody(k) \/ LoseBody(k)
      PROVE  [Next]_vars
  BY <1>4 DEF TimeOut, Unreachable, ResponseBegins, ReadBody, LoseBody, Settle, queueVars
<1>5. ASSUME NEW i \in DOMAIN requests, NEW token, NEW verdict \in Verdict,
             DecideRequest(i, token, verdict)
      PROVE  [Next]_vars
  BY <1>5 DEF DecideRequest, Send, queueVars
<1>6. CASE Ask \/ Read
  BY <1>6 DEF Ask, Read, Send, queueVars
<1>7. CASE ListPending
  BY <1>7 DEF ListPending, Next
<1>8. CASE Crash \/ Restart
  BY <1>8 DEF Crash, Restart, queueVars
<1>9. CASE Tick
  BY <1>9 DEF Next
<1>10. CASE UNCHANGED clientVars
  BY <1>10 DEF clientVars, vars
<1>. QED
  BY <1>1, <1>2, <1>3, <1>4, <1>5, <1>6, <1>7, <1>8, <1>9, <1>10 DEF ClientNext

\* A call that is sent carries a token its client has read, or none.
LEMMA SendFacts ==
  ASSUME CallsInv, NEW op \in Op, NEW request \in Nat, NEW token \in Known \cup {NoToken},
         Send(op, request, token), op \in Verdict => request \in 1 .. Len(requests),
         Len(requests') \in Nat, Len(requests) <= Len(requests')
  PROVE  CallsInv' /\ Known \subseteq Known'
<1>. DEFINE c == [op |-> op, request |-> request, token |-> token,
                  response |-> NoResponse, cut |-> ~serving,
                  client |-> "waiting", outcome |-> "none", decided |-> FALSE]
<1>1. NoResponse \in Response /\ ~NoResponse.ok /\ NoResponse.says = "none"
      /\ NoResponse.request = 0
  BY DEF NoResponse, Response
<1>2. token \in Nat /\ Len(requests) \in Nat
  BY KnownTokens DEF NoToken
<1>3. c \in Call
  BY <1>1, <1>2 DEF Call, Outcome
<1>4. Consistent(c)
  BY <1>1 DEF Consistent, Answer, Verdict
<1>5. RefersTo(c, Known, Len(requests))
  BY <1>1, <1>2 DEF RefersTo
<1>6. calls' = Append(calls, c)
  BY DEF Send
<1>7. c.outcome = "none"
  OBVIOUS
<1>. HIDE DEF c
<1>. QED BY <1>3, <1>4, <1>5, <1>6, <1>7, SendKeeps

\* What an answer says: facts about the responses the handlers build.
LEMMA ResponseFacts ==
  /\ \A word \in {"final", "pending"} \cup Verdict :
       /\ Says(word) \in Response /\ Says(word).ok
       /\ Says(word).says = word /\ Says(word).request = 0
  /\ Error \in Response /\ ~Error.ok /\ Error.says = "error" /\ Error.request = 0
BY DEF Says, Error, Response, Answer, Verdict

\* The answer that leaves the decision to the client names its request.
LEMMA PendingFacts ==
  ASSUME NEW n \in Nat
  PROVE  LET r == [Says("pending") EXCEPT !.request = n] IN
         r \in Response /\ r.ok /\ r.says = "pending" /\ r.request = n
<1>. DEFINE p == Says("pending")
<1>1. p \in Response /\ p.ok /\ p.says = "pending"
  BY ResponseFacts
<1>. HIDE DEF p
<1>. SUFFICES LET r == [p EXCEPT !.request = n] IN
              r \in Response /\ r.ok /\ r.says = "pending" /\ r.request = n
  BY DEF p
<1>2. p \in [ok: BOOLEAN, says: {"none", "error"} \cup Answer \cup Verdict, request: Nat]
  BY <1>1 DEF Response
<1>. QED BY <1>1, <1>2 DEF Response

\* Every step keeps the calls consistent and takes back no token.
LEMMA CallsStep ==
  ClientInv /\ [ClientNext]_clientVars => CallsInv' /\ Known \subseteq Known'
<1>. SUFFICES ASSUME ClientInv, [ClientNext]_clientVars
     PROVE  CallsInv' /\ Known \subseteq Known'
  OBVIOUS
<1>0. /\ CallsInv /\ IndInv /\ Len(requests) \in Nat
      /\ Len(requests') \in Nat /\ Len(requests) <= Len(requests')
  BY QueueStep, QueueGrows DEF ClientInv, IndInv, QueueTypeOK
<1>1. ASSUME NEW k \in DOMAIN calls, AnswerPending(k)
      PROVE  CallsInv' /\ Known \subseteq Known'
  <2>. DEFINE n == Len(requests')
              r == [Says("pending") EXCEPT !.request = n]
  <2>0. n \in Nat /\ n = Len(requests')
    BY <1>0
  <2>. HIDE DEF n
  <2>1. /\ r \in Response /\ r.ok /\ r.says = "pending"
        /\ r.request \in 0 .. Len(requests')
    BY <2>0, PendingFacts
  <2>2. Pending(k) /\ Respond(k, r, FALSE)
    BY <1>1, <2>0 DEF AnswerPending
  <2>. HIDE DEF r
  <2>. QED BY <1>0, <2>1, <2>2, RespondKeeps DEF Answer, Verdict
<1>2. ASSUME NEW k \in DOMAIN calls, NEW ok \in BOOLEAN,
             AnswerAtOnce(k, ok) \/ AnswerRead(k, ok)
      PROVE  CallsInv' /\ Known \subseteq Known'
  <2>. DEFINE r == IF ok THEN Says("final") ELSE Error
  <2>1. /\ r \in Response /\ (r.ok => r.says = "final") /\ (~r.ok => r.says = "error")
        /\ r.request = 0
    BY ResponseFacts
  <2>2. Pending(k) /\ Respond(k, r, FALSE)
    BY <1>2 DEF AnswerAtOnce, AnswerRead
  <2>. HIDE DEF r
  <2>3. /\ r.ok => r.says \in Answer \cup Verdict
        /\ r.says \notin Verdict /\ r.request \in 0 .. Len(requests')
    BY <1>0, <2>1 DEF Answer, Verdict, Response
  <2>4. FALSE \in BOOLEAN
    OBVIOUS
  <2>. QED BY <1>0, <2>1, <2>2, <2>3, <2>4, RespondKeeps
<1>3. ASSUME NEW k \in DOMAIN calls, AnswerDecision(k)
      PROVE  CallsInv' /\ Known \subseteq Known'
  <2>1. Pending(k) /\ calls[k].op \in Verdict
    BY <1>3 DEF AnswerDecision
  <2>2. Respond(k, Says(calls[k].op), TRUE) \/ Respond(k, Error, FALSE)
    BY <1>3 DEF AnswerDecision
  <2>3. CASE Respond(k, Says(calls[k].op), TRUE)
    <3>. DEFINE r == Says(calls[k].op)
    <3>1. r \in Response /\ r.ok /\ r.says = calls[k].op /\ r.request = 0
      BY <2>1, ResponseFacts
    <3>. HIDE DEF r
    <3>2. Respond(k, r, TRUE) /\ TRUE \in BOOLEAN
      BY <2>3 DEF r
    <3>3. r.says \in Answer \cup Verdict /\ r.request \in 0 .. Len(requests')
      BY <1>0, <2>1, <3>1
    <3>. QED BY <1>0, <2>1, <3>1, <3>2, <3>3, RespondKeeps
  <2>4. CASE Respond(k, Error, FALSE)
    <3>1. /\ Error \in Response /\ ~Error.ok /\ Error.says = "error"
          /\ Error.says \notin Verdict /\ Error.request \in 0 .. Len(requests')
      BY <1>0, ResponseFacts DEF Verdict
    <3>2. FALSE \in BOOLEAN
      OBVIOUS
    <3>. QED BY <1>0, <2>1, <2>4, <3>1, <3>2, RespondKeeps
  <2>. QED BY <2>2, <2>3, <2>4
<1>4. ASSUME NEW k \in DOMAIN calls, TimeOut(k) \/ Unreachable(k)
      PROVE  CallsInv' /\ Known \subseteq Known'
  <2>1. PICK outcome \in {"request_timeout", "runtime_unreachable"} : Settle(k, outcome)
    BY <1>4 DEF TimeOut, Unreachable
  <2>2. calls[k].client = "waiting"
    BY <1>4 DEF TimeOut, Unreachable
  <2>. QED BY <1>0, <2>1, <2>2, SettleKeeps DEF Settle, Outcome, ErrorCode, Answer, Verdict
<1>5. ASSUME NEW k \in DOMAIN calls, ReadBody(k)
      PROVE  CallsInv' /\ Known \subseteq Known'
  <2>. DEFINE outcome == Result(calls[k])
  <2>1. Consistent(calls[k]) /\ calls[k].client = "reading" /\ calls[k].response # NoResponse
    BY <1>0, <1>5 DEF CallsInv, Consistent, ReadBody
  <2>2. \/ calls[k].response.ok /\ outcome = calls[k].response.says
           /\ outcome \in Answer \cup Verdict
        \/ ~calls[k].response.ok /\ outcome = "capability_failed"
    BY <2>1 DEF Result, Consistent
  <2>3. calls' = [calls EXCEPT ![k].client = "settled", ![k].outcome = outcome]
    BY <1>5 DEF ReadBody, Settle
  <2>. HIDE DEF outcome
  <2>. QED BY <1>0, <2>1, <2>2, <2>3, SettleKeeps DEF Outcome, ErrorCode, Answer, Verdict
<1>6. ASSUME NEW k \in DOMAIN calls, LoseBody(k)
      PROVE  CallsInv' /\ Known \subseteq Known'
  <2>1. Consistent(calls[k]) /\ calls[k].client = "reading" /\ calls[k].response # NoResponse
    BY <1>0, <1>6 DEF CallsInv, Consistent, LoseBody
  <2>2. PICK outcome \in {"invalid_response", "capability_failed"} :
          /\ calls' = [calls EXCEPT ![k].client = "settled", ![k].outcome = outcome]
          /\ outcome = "capability_failed" => ~calls[k].response.ok
    BY <1>6 DEF LoseBody, Settle
  <2>. QED BY <1>0, <2>1, <2>2, SettleKeeps DEF Outcome, ErrorCode, Answer, Verdict
<1>7. ASSUME NEW k \in DOMAIN calls, ResponseBegins(k)
      PROVE  CallsInv' /\ Known \subseteq Known'
  BY <1>0, <1>7, BeginKeeps
<1>8. ASSUME NEW i \in DOMAIN requests, NEW token \in Known \cup {NoToken},
             NEW verdict \in Verdict, DecideRequest(i, token, verdict)
      PROVE  CallsInv' /\ Known \subseteq Known'
  <2>1. i \in 1 .. Len(requests) /\ i \in Nat /\ verdict \in Op
    BY DEF ClientInv, IndInv, QueueTypeOK, Op
  <2>. QED BY <1>0, <1>8, <2>1, SendFacts DEF DecideRequest
<1>9. CASE Ask \/ Read
  <2>1. PICK op \in {"ask", "read"} : Send(op, 0, NoToken)
    BY <1>9 DEF Ask, Read
  <2>. QED BY <1>0, <2>1, SendFacts DEF Op, Verdict
<1>10. CASE Crash
  BY <1>0, <1>10, CrashKeeps
<1>11. CASE UNCHANGED calls
  <2>1. Known' = Known
    BY <1>11 DEF Known
  <2>2. \A k \in 1 .. Len(calls) : RefersTo(calls[k], Known, Len(requests'))
    BY <1>0 DEF CallsInv, RefersTo
  <2>. QED BY <1>0, <1>11, <2>1, <2>2 DEF CallsInv
<1>12. CASE ListPending \/ Restart \/ UNCHANGED clientVars
            \/ (Tick /\ UNCHANGED <<calls, serving, forgotten, crashes>>)
  <2>1. UNCHANGED calls
    BY <1>12 DEF ListPending, Restart, clientVars
  <2>. QED BY <2>1, <1>11
<1>. QED
  BY <1>1, <1>2, <1>3, <1>4, <1>5, <1>6, <1>7, <1>8, <1>9, <1>10, <1>12 DEF ClientNext

\* What is audited is a decision of this step's call, with a token it has read.
LEMMA AuditStep ==
  ClientInv /\ [ClientNext]_clientVars => OrphansAreNeverDecided'
<1>. SUFFICES ASSUME ClientInv, [ClientNext]_clientVars PROVE OrphansAreNeverDecided'
  OBVIOUS
<1>0. /\ audit \in Seq(Decision) /\ Known \subseteq Known'
      /\ \A n \in 1 .. Len(audit) : audit[n].request \in Known
  BY CallsStep DEF ClientInv, IndInv, QueueTypeOK, OrphansAreNeverDecided
<1>1. CASE UNCHANGED audit
  BY <1>0, <1>1 DEF OrphansAreNeverDecided
<1>2. ASSUME NEW k \in DOMAIN calls, calls[k].op \in Verdict,
             Decide(calls[k].request, calls[k].token, calls[k].op)
      PROVE  OrphansAreNeverDecided'
  <2>. DEFINE d == [request |-> calls[k].request, token |-> calls[k].token,
                    verdict |-> calls[k].op, at |-> now]
  <2>1. calls[k].token = calls[k].request /\ audit' = Append(audit, d)
    BY <1>2 DEF Decide, TokenMatches
  <2>2. /\ k \in 1 .. Len(calls) /\ RefersTo(calls[k], Known, Len(requests))
        /\ Len(requests) \in Nat /\ now \in Nat
    BY DEF ClientInv, CallsInv, IndInv, QueueTypeOK
  <2>3. calls[k].request \in 1 .. Len(requests) /\ calls[k].request \in Known
    BY <1>2, <2>1, <2>2 DEF RefersTo, NoToken
  <2>4. d \in Decision /\ d.request = calls[k].request
    BY <1>2, <2>1, <2>2, <2>3 DEF Decision
  <2>. HIDE DEF d
  <2>5. /\ audit' \in Seq(Decision) /\ Len(audit') = Len(audit) + 1
        /\ audit'[Len(audit) + 1] = d
        /\ \A n \in 1 .. Len(audit) : audit'[n] = audit[n]
    BY <1>0, <2>1, <2>4
  <2>6. ASSUME NEW n \in 1 .. Len(audit') PROVE audit'[n].request \in Known'
    <3>1. CASE n = Len(audit) + 1
      BY <3>1, <1>0, <2>3, <2>4, <2>5
    <3>2. CASE n \in 1 .. Len(audit)
      BY <3>2, <1>0, <2>5
    <3>. QED BY <3>1, <3>2, <1>0, <2>5
  <2>. QED BY <2>5, <2>6 DEF OrphansAreNeverDecided
<1>3. ASSUME NEW k \in DOMAIN calls, AnswerDecision(k) PROVE OrphansAreNeverDecided'
  BY <1>1, <1>2, <1>3 DEF AnswerDecision, DecisionRefused, queueVars, vars
<1>4. CASE UNCHANGED queueVars \/ Create \/ ExpireOldRequests \/ Tick
  BY <1>1, <1>4 DEF queueVars, vars, Create, ExpireOldRequests, Tick
<1>5. ASSUME NEW k \in DOMAIN calls, NEW ok \in BOOLEAN,
             AnswerPending(k) \/ AnswerAtOnce(k, ok) \/ AnswerRead(k, ok)
      PROVE  OrphansAreNeverDecided'
  BY <1>4, <1>5 DEF AnswerPending, AnswerAtOnce, AnswerRead
<1>6. ASSUME NEW k \in DOMAIN calls,
             TimeOut(k) \/ Unreachable(k) \/ ResponseBegins(k) \/ ReadBody(k) \/ LoseBody(k)
      PROVE  OrphansAreNeverDecided'
  BY <1>4, <1>6 DEF TimeOut, Unreachable, ResponseBegins, ReadBody, LoseBody, Settle
<1>7. ASSUME NEW i \in DOMAIN requests, NEW token, NEW verdict \in Verdict,
             DecideRequest(i, token, verdict)
      PROVE  OrphansAreNeverDecided'
  BY <1>4, <1>7 DEF DecideRequest, Send
<1>8. CASE Ask \/ Read \/ ListPending \/ Crash \/ Restart
  BY <1>4, <1>8 DEF Ask, Read, Send, ListPending, Crash, Restart
<1>9. CASE UNCHANGED clientVars
  BY <1>1, <1>9 DEF clientVars
<1>. QED BY <1>3, <1>4, <1>5, <1>6, <1>7, <1>8, <1>9 DEF ClientNext

-----------------------------------------------------------------------------
\* The inductive invariant of clients, server and queue together.
THEOREM ClientInvariance == ClientSpec => []ClientInv
<1>1. ClientInit => ClientInv
  <2>. SUFFICES ASSUME ClientInit PROVE ClientInv
    OBVIOUS
  <2>1. IndInv
    BY InitIndInv DEF ClientInit
  <2>2. CallsInv
    BY DEF ClientInit, CallsInv
  <2>3. OrphansAreNeverDecided
    BY DEF ClientInit, Init, OrphansAreNeverDecided
  <2>. QED BY <2>1, <2>2, <2>3 DEF ClientInv
<1>2. ClientInv /\ [ClientNext]_clientVars => ClientInv'
  <2>1. ClientInv /\ [ClientNext]_clientVars => IndInv'
    BY QueueStep, NextKeepsIndInv DEF ClientInv
  <2>. QED BY <2>1, CallsStep, AuditStep DEF ClientInv
<1>. QED BY <1>1, <1>2, PTL DEF ClientSpec

\* With clients, lost answers and restarts around it the queue is still the
\* queue: the composition implements the specification of ApprovalQueue.
THEOREM QueueImplemented == ClientSpec => Spec
<1>1. ClientInit => Init
  BY DEF ClientInit
<1>. QED BY <1>1, QueueStep, ClientInvariance, PTL DEF ClientSpec, Spec

\* So the audit of a server that clients call and that restarts is exact.
THEOREM ClientAuditExact == ClientSpec => []AuditIsExact
BY QueueImplemented, AuditExact, PTL

\* A request whose token was lost with its answer is never decided.
THEOREM OrphansUndecided == ClientSpec => []OrphansAreNeverDecided
<1>1. ClientInv => OrphansAreNeverDecided
  BY DEF ClientInv
<1>. QED BY <1>1, ClientInvariance, PTL

\* A client is told of its own decision only, and of a failure only when it
\* decided nothing.
THEOREM OutcomesTrue == ClientSpec => []OutcomesAreTrue
<1>1. ClientInv => OutcomesAreTrue
  <2>. SUFFICES ASSUME ClientInv, NEW k \in 1 .. Len(calls)
       PROVE  /\ calls[k].outcome \in Verdict =>
                   calls[k].decided /\ calls[k].outcome = calls[k].op
              /\ calls[k].outcome = "capability_failed" => ~calls[k].decided
    BY DEF ClientInv, CallsInv, OutcomesAreTrue
  <2>1. Consistent(calls[k])
    BY DEF ClientInv, CallsInv
  <2>. QED BY <2>1 DEF Consistent
<1>. QED BY <1>1, ClientInvariance, PTL
=============================================================================
