----------------------------- MODULE ApprovalQueue -----------------------------
(***************************************************************************)
(* The human approval queue of packages/core/src/approval-queue, with the  *)
(* decision handler of apps/grl-server/src/local-api.ts that calls it and  *)
(* audits every decision that succeeds.                                    *)
(*                                                                         *)
(* A request is identified by its position in creation order.  Its token   *)
(* is unguessable and unique, so the token is identified with the request  *)
(* it was minted for; NoToken is any other string.                         *)
(***************************************************************************)
EXTENDS Integers, Sequences, FiniteSets

CONSTANTS
  Ttl,          \* ttlMs, in clock ticks
  MaxRequests,  \* bound: requests ever created
  MaxTime       \* bound: the clock

ASSUME QueueAssumption ==
  /\ Ttl \in Nat \ {0}
  /\ MaxRequests \in Nat /\ MaxTime \in Nat

VARIABLES
  requests,  \* every request ever created, in creation order
  audit,     \* the decisions audited, oldest first
  now        \* the injected clock

vars == <<requests, audit, now>>

Verdict == {"approved", "rejected"}
Status == {"pending", "expired"} \cup Verdict
NoToken == 0
Request == [status: Status, expiresAt: Nat]
Decision == [request: Nat \ {0}, token: Nat, verdict: Verdict, at: Nat]

-----------------------------------------------------------------------------
\* applyExpiry: pending -> expired once the TTL has elapsed.
Expire(r) ==
  IF r.status = "pending" /\ now >= r.expiresAt
    THEN [r EXCEPT !.status = "expired"] ELSE r

ExpireAll == [i \in DOMAIN requests |-> Expire(requests[i])]

\* Faulty variant of TokenMatches: the token is only required to be present.
TokenMatchesAny(i, token) == token # NoToken

\* tokenMatches: only the token minted with the request.
TokenMatches(i, token) == token = i

-----------------------------------------------------------------------------
Init ==
  /\ requests = << >>
  /\ audit = << >>
  /\ now = 0

\* create: the caller receives the token together with the request.
Create ==
  /\ Len(requests) < MaxRequests
  /\ requests' = Append(requests, [status |-> "pending", expiresAt |-> now + Ttl])
  /\ UNCHANGED <<audit, now>>

\* getById of an existing request.
GetById(i) ==
  /\ requests' = [requests EXCEPT ![i] = Expire(requests[i])]
  /\ UNCHANGED <<audit, now>>

\* expireOldRequests and listPending: expire everything that is due.  What they
\* return (a count, the requests still pending) changes nothing.
ExpireOldRequests ==
  /\ requests' = ExpireAll
  /\ UNCHANGED <<audit, now>>

\* finalize, every way it can be refused: 404, 410, 409 or 400, in that order.
\* Only the lazy expiry is kept.
DecisionRefused(i, token) ==
  LET r == Expire(requests[i]) IN
  /\ r.status # "pending" \/ ~TokenMatches(i, token)
  /\ requests' = [requests EXCEPT ![i] = r]
  /\ UNCHANGED <<audit, now>>

\* Faulty variant of Decide: it does not expire first.
DecideStale(i, token, verdict) ==
  /\ requests[i].status = "pending"
  /\ TokenMatches(i, token)
  /\ requests' = [requests EXCEPT ![i].status = verdict]
  /\ audit' = Append(audit, [request |-> i, token |-> token,
                             verdict |-> verdict, at |-> now])
  /\ UNCHANGED now

\* finalize with the right token while pending; the handler audits the decision.
Decide(i, token, verdict) ==
  /\ Expire(requests[i]).status = "pending"
  /\ TokenMatches(i, token)
  /\ requests' = [requests EXCEPT ![i].status = verdict]
  /\ audit' = Append(audit, [request |-> i, token |-> token,
                             verdict |-> verdict, at |-> now])
  /\ UNCHANGED now

Tick ==
  /\ now < MaxTime
  /\ now' = now + 1
  /\ UNCHANGED <<requests, audit>>

\* A caller presents a token it has been given, or no valid token at all.
Next ==
  \/ Create
  \/ ExpireOldRequests
  \/ \E i \in DOMAIN requests :
       \/ GetById(i)
       \/ \E token \in {NoToken} \cup DOMAIN requests :
            \/ DecisionRefused(i, token)
            \/ \E verdict \in Verdict : Decide(i, token, verdict)
  \/ Tick

Spec == Init /\ [][Next]_vars

-----------------------------------------------------------------------------
\* An audited decision stands: its request carries that very verdict, it was
\* taken with the request's own token and strictly before the TTL elapsed, so
\* nothing later (a late expiry, a second decision) has overridden it.
AuditedDecisionStands ==
  \A k \in DOMAIN audit :
    LET d == audit[k] IN
    /\ d.request \in DOMAIN requests
    /\ d.token = d.request
    /\ requests[d.request].status = d.verdict
    /\ d.at < requests[d.request].expiresAt

\* No request is decided twice: the audit names it at most once.
DecidedOnce ==
  \A j, k \in DOMAIN audit : audit[j].request = audit[k].request => j = k

\* Every verdict a request carries is in the audit.
DecisionsAreAudited ==
  \A i \in DOMAIN requests :
    requests[i].status \in Verdict =>
      \E k \in DOMAIN audit : audit[k].request = i /\ audit[k].verdict = requests[i].status

\* The audit is exact: it has every decision once, and each of them stands.
AuditIsExact == AuditedDecisionStands /\ DecidedOnce /\ DecisionsAreAudited

=============================================================================
