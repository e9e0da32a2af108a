-------------------------- MODULE RuntimeOrchestrator --------------------------
(***************************************************************************)
(* The runtime policy orchestrator and the audit store as the requests in  *)
(* flight share them (packages/core/src/runtime-orchestrator, audit).  A    *)
(* collector belongs to one request; the inspection buffer, the policies,   *)
(* the last decision and the bounded audit log belong to all.  Decisions    *)
(* are finalised without an await, signals arrive between awaits.           *)
(***************************************************************************)
EXTENDS CompositePolicy

CONSTANTS
  Requests,
  Signals,            \* what the gates may emit
  CandidatePolicies,  \* policies that may be registered beside the default
  MaxSignals,         \* the rolling buffer's capacity
  MaxEvents,          \* the audit store's capacity
  MaxCollected,       \* bound of the model: signals per request
  MaxPolicies         \* bound of the model: policies at a time

OrchestratorAssumption ==
  /\ MaxSignals \in Nat \ {0} /\ MaxEvents \in Nat \ {0}
  /\ \A s \in Signals : s.action \in Action
  /\ \A p \in CandidatePolicies : Len(p.precedence) \in Nat
                                 /\ DOMAIN p.precedence = 1 .. Len(p.precedence)
  /\ \A p, q \in CandidatePolicies \cup {DefaultPolicy} : p.id = q.id => p = q

VARIABLES
  policies,   \* registered policies, in order
  collected,  \* request -> signals of its collector
  buffer,     \* signals of the rolling inspection buffer
  last,       \* lastDecision
  trail,      \* retained audit events
  evicted,    \* audit events evicted so far
  answers     \* request -> decision its answer carried, and the policy that made it

orchestratorVars == <<policies, collected, buffer, last, trail, evicted, answers>>

NoDecision == [action |-> "none"]

Init ==
  /\ policies = <<DefaultPolicy>>
  /\ collected = [r \in Requests |-> <<>>]
  /\ buffer = <<>>
  /\ last = NoDecision
  /\ trail = <<>>
  /\ evicted = 0
  /\ answers = [r \in Requests |-> NoDecision]

-----------------------------------------------------------------------------
\* recordSignals, AuditStore.append: the oldest entries make room.
Newest(seq, capacity) == SubSeq(seq, Max({1, Len(seq) - capacity + 1}), Len(seq))

\* _activePolicy: the first enabled policy, the default when there is none.
ActivePolicy ==
  LET enabled == {i \in DOMAIN policies : policies[i].enabled}
  IN  IF enabled = {} THEN DefaultPolicy ELSE policies[Min(enabled)]

\* A policy is registered once; clearing does not bring the default back.
RegisterPolicy(policy) ==
  /\ Len(policies) < MaxPolicies
  /\ \A i \in DOMAIN policies : policies[i].id # policy.id
  /\ policies' = Append(policies, policy)
  /\ UNCHANGED <<collected, buffer, last, trail, evicted, answers>>

ClearPolicies ==
  /\ policies' = <<>>
  /\ UNCHANGED <<collected, buffer, last, trail, evicted, answers>>

\* PolicySignalCollector.emit; its own cap of 256 is far above any pipeline.
Emit(request, signal) ==
  /\ answers[request] = NoDecision
  /\ Len(collected[request]) < MaxCollected
  /\ collected' = [collected EXCEPT ![request] = Append(@, signal)]
  /\ UNCHANGED <<policies, buffer, last, trail, evicted, answers>>

\* Faulty variant: the design before the collector, which evaluated the buffer.
EvaluatedFromBuffer(request) == Decision(buffer \o collected[request], ActivePolicy)

\* PolicySignalCollector.evaluate
Evaluated(request) == Decision(collected[request], ActivePolicy)

\* The audit events of a decision, in the order they are emitted.
Audited(request, decision, overflow) ==
  LET event(type) == [type |-> type, request |-> request, action |-> decision.action]
  IN  <<event("evaluated")>>
      \o (IF decision.conflicts # {} THEN <<event("conflict_detected")>> ELSE <<>>)
      \o (IF overflow > 0 THEN <<event("signal_evicted")>> ELSE <<>>)
      \o <<event("decision_applied")>>

\* finalizeRuntimePolicy, run by whatever answers the request.
Finalise(request) ==
  /\ answers[request] = NoDecision
  /\ LET recorded == buffer \o collected[request]
         decision == Evaluated(request)
         overflow == Max({0, Len(recorded) - MaxSignals})
         appended == trail \o Audited(request, decision, overflow)
     IN  /\ buffer' = Newest(recorded, MaxSignals)
         /\ last' = decision
         /\ trail' = Newest(appended, MaxEvents)
         /\ evicted' = evicted + Len(appended) - Len(trail')
         /\ answers' = [answers EXCEPT ![request] = [decision |-> decision, by |-> ActivePolicy]]
  /\ UNCHANGED <<policies, collected>>

Next ==
  \/ \E p \in CandidatePolicies : RegisterPolicy(p)
  \/ ClearPolicies
  \/ \E r \in Requests : (\E s \in Signals : Emit(r, s)) \/ Finalise(r)

Spec == Init /\ [][Next]_orchestratorVars

-----------------------------------------------------------------------------
Answered == {r \in Requests : answers[r] # NoDecision}

\* AuditStore.list by request; the clock does not go back, so the order by
\* timestamp is the order of insertion.
TrailOf(request) == {i \in DOMAIN trail : trail[i].request = request}

\* A request's decision comes from its own signals: it is the policy's default
\* when none of them restricts, otherwise an action one of them asked for, and
\* the most restrictive one unless sources take precedence; then no conflict it
\* reports was won by a stronger action than it took.
DecidedByItsOwn(r) ==
  LET answer == answers[r].decision
      policy == answers[r].by
      restricting == Deciding(collected[r]) \ {"allow"}
  IN  /\ restricting = {} => answer.action = policy.defaultAction
      /\ restricting # {} => answer.action \in restricting
      /\ policy.mergeStrategy # "source_precedence" =>
           /\ \A a \in restricting : PrecedenceOf(answer.action) >= PrecedenceOf(a)
           /\ \A c \in answer.conflicts : PrecedenceOf(answer.action) >= PrecedenceOf(c.winner)

\* An answer is the last thing audited about its request and says what was
\* applied; only the oldest events of the store are ever missing.
AuditedAsAnswered(r) ==
  LET events == TrailOf(r)
  IN  /\ events = {} => evicted >= 2
      /\ \A i \in events : trail[i].action = answers[r].decision.action
      /\ events # {} =>
           /\ trail[Max(events)].type = "decision_applied"
           /\ trail[Min(events)].type # "evaluated" => evicted > 0 /\ Min(events) = 1

\* Each answer carries the decision its own signals call for, whatever other
\* requests put into the shared buffer, and is audited as such (collector.ts,
\* finalizeRuntimePolicy).
DecisionsAreTheirOwn ==
  \A r \in Answered : DecidedByItsOwn(r) /\ AuditedAsAnswered(r)
=============================================================================
