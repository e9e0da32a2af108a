------------------------------- MODULE MultiAgent -------------------------------
(***************************************************************************)
(* The multi-agent runtime of packages/core/src/multi-agent: the registry, *)
(* its quotas, scheduler, trust isolation and leases, and the gate with    *)
(* which the server consults the registry (evaluateMultiAgentGate).        *)
(*                                                                         *)
(* The server wires the registry and the leases only.  Quotas, scheduler   *)
(* and isolation are library classes; their caller is taken to follow      *)
(* docs/multi-agent-runtime.md: isolation, then quota, then scheduler, then *)
(* recordExecutionStart, and recordExecutionEnd once for every start.      *)
(* Audit events and timestamps are left out.                               *)
(***************************************************************************)
EXTENDS Integers, FiniteSets, FiniteSetsExt

CONSTANTS
  Agents, Compartments,
  MaxConcurrentExecutions, MaxSessions,       \* the default quota
  MaxGlobalConcurrentExecutions,
  ViolationsBeforeRestriction,
  QuarantinedCompartmentThreshold,
  InitialTrust, QuarantinedThreshold, RestrictedThreshold,
  LeaseTtl,
  Scores, Degradations,  \* inputs: compartment scores and trust losses
  MaxAdmitted,           \* bound: requests of an agent past the gate
  MaxInterventions,      \* bound: calls that change status, trust or leases
  MaxTime                \* bound: the clock

VARIABLES
  runtimes,       \* the registry: agent -> its runtime
  violations,     \* consecutive quota violations of each agent
  leases,         \* live leases: id -> [holder, expiresAt]
  index,          \* agentLeaseIndex: agent -> id of its lease
  running,        \* executions of each agent that have started and not ended
  admitted,       \* requests of each agent past the server's gate, unanswered
  interventions, now

vars == <<runtimes, violations, leases, index, running, admitted, interventions, now>>

ASSUME AgentsAssumption ==
  /\ MaxConcurrentExecutions \in Nat /\ MaxSessions \in Nat
  /\ MaxGlobalConcurrentExecutions \in Nat
  /\ ViolationsBeforeRestriction \in Nat \ {0}
  /\ InitialTrust \in 0 .. 100 /\ Scores \subseteq 0 .. 100
  /\ QuarantinedThreshold \in Nat /\ RestrictedThreshold \in Nat
  /\ QuarantinedThreshold <= RestrictedThreshold
  /\ Degradations \subseteq Nat /\ LeaseTtl \in Nat \ {0}

Status == {"active", "idle", "restricted", "quarantined", "evicted"}
NoLease == 0

-----------------------------------------------------------------------------
Registered == DOMAIN runtimes
Eligible(a) == a \in Registered /\ runtimes[a].status \in {"active", "idle"}

With(map, key, value) == [k \in DOMAIN map \cup {key} |-> IF k = key THEN value ELSE map[k]]
Without(map, keys) == [k \in DOMAIN map \ keys |-> map[k]]

NewRuntime ==
  [status |-> "idle", trust |-> InitialTrust, executions |-> 0, sessions |-> 0,
   compartments |-> {}, lease |-> NoLease]

\* registerAgent: idempotent, and an evicted agent stays what it is.
Register(a) == IF a \in Registered THEN runtimes ELSE With(runtimes, a, NewRuntime)

\* evictAgent clears the counts and the attached lease.
EvictAgent(runtime) ==
  [runtime EXCEPT !.status = "evicted", !.executions = 0, !.sessions = 0,
                  !.lease = NoLease]

\* restrictAgent and quarantineAgent spare only the evicted: a quarantined
\* agent can be restricted.
SetUnlessEvicted(runtime, status) ==
  IF runtime.status = "evicted" THEN runtime ELSE [runtime EXCEPT !.status = status]
RestrictAgent(runtime) == SetUnlessEvicted(runtime, "restricted")
QuarantineAgent(runtime) == SetUnlessEvicted(runtime, "quarantined")

-----------------------------------------------------------------------------
CanExecute(a) ==
  Eligible(a) /\ runtimes[a].executions < MaxConcurrentExecutions

CanCreateSession(a) == Eligible(a) /\ runtimes[a].sessions < MaxSessions

\* One slot for every execution counted: a sum of counts is a number of slots.
Slots(count) ==
  {slot \in (DOMAIN count) \X (1 .. MaxConcurrentExecutions) : slot[2] <= count[slot[1]]}

\* Faulty variant of Total: what agents restricted meanwhile still run is not counted.
TotalOfEligible ==
  Cardinality(Slots([b \in {c \in Registered : Eligible(c)} |-> runtimes[b].executions]))

\* The executions counted for all registered agents together.
Total == Cardinality(Slots([b \in Registered |-> runtimes[b].executions]))
Others(a) == {b \in Registered \ {a} : Eligible(b)}

\* Faulty variant of Schedule: without the monopoly test.
ScheduleWithoutFairness(a) ==
  CanExecute(a) /\ Total < MaxGlobalConcurrentExecutions

\* scheduleExecution: the agent's quota, the global ceiling, and no more than
\* half of the runtime while another eligible agent runs nothing.
Schedule(a) ==
  /\ CanExecute(a)
  /\ Total < MaxGlobalConcurrentExecutions
  /\ \/ \A b \in Others(a) : runtimes[b].executions > 0
     \/ runtimes[a].executions < MaxGlobalConcurrentExecutions \div 2

\* checkIsolation's verdict on a registered agent, by status then by trust.
Isolated(a) == ~Eligible(a) \/ runtimes[a].trust < RestrictedThreshold

\* checkIsolation acts on an eligible agent whose trust has fallen.
CheckIsolation(runtime) ==
  IF runtime.status \notin {"active", "idle"} THEN runtime
  ELSE IF runtime.trust < QuarantinedThreshold THEN QuarantineAgent(runtime)
  ELSE IF runtime.trust < RestrictedThreshold THEN RestrictAgent(runtime)
  ELSE runtime

\* Math.round of an average.
Rounded(sum, count) == (2 * sum + count) \div (2 * count)

\* propagateCompartmentTrust: average, restrict at two quarantined
\* compartments, quarantine below the threshold.
PropagateTrust(runtime, score) ==
  LET scored == runtime.compartments \cap DOMAIN score
      low == {c \in scored : score[c] < QuarantinedThreshold}
      trust == IF scored = {} THEN runtime.trust
               ELSE Rounded(MapThenSumSet(LAMBDA c : score[c], scored),
                            Cardinality(scored))
      updated == [runtime EXCEPT !.trust = trust]
      restricted == IF /\ Cardinality(low) >= QuarantinedCompartmentThreshold
                       /\ runtime.status \notin {"restricted", "quarantined"}
                      THEN RestrictAgent(updated) ELSE updated
  IN  IF runtime.status = "evicted" THEN runtime
      ELSE IF trust < QuarantinedThreshold THEN QuarantineAgent(restricted)
      ELSE restricted

\* degradeTrust: a loss, clamped at zero, with its status transition.
DegradeTrust(runtime, delta) ==
  LET trust == Max({0, runtime.trust - delta})
      updated == [runtime EXCEPT !.trust = trust]
  IN  IF runtime.status = "evicted" THEN runtime
      ELSE IF trust < QuarantinedThreshold THEN QuarantineAgent(updated)
      ELSE IF trust < RestrictedThreshold /\ runtime.status # "quarantined"
             THEN RestrictAgent(updated)
      ELSE updated

-----------------------------------------------------------------------------
Expired == {id \in DOMAIN leases : leases[id].expiresAt <= now}
Holders(ids) == {leases[id].holder : id \in ids}

\* Detaching is best effort: an unknown agent has no runtime to update.
Detach(map, agents) ==
  [a \in DOMAIN map |-> IF a \in agents THEN [map[a] EXCEPT !.lease = NoLease]
                                        ELSE map[a]]

Intervene == /\ interventions < MaxInterventions
             /\ interventions' = interventions + 1

Init ==
  /\ runtimes = << >> /\ violations = [a \in Agents |-> 0]
  /\ leases = << >> /\ index = << >>
  /\ running = [a \in Agents |-> 0] /\ admitted = [a \in Agents |-> 0]
  /\ interventions = 0 /\ now = 0

UnchangedLeases == UNCHANGED <<leases, index>>
UnchangedWork == UNCHANGED <<violations, running, admitted, now>>

RegisterAgent(a) ==
  /\ runtimes' = Register(a)
  /\ UnchangedLeases /\ UnchangedWork /\ UNCHANGED interventions

\* Faulty variant of Gate: only a quarantined agent is turned away.
GateEvictedAdmitted(a) ==
  /\ runtimes' = Register(a)
  /\ IF runtimes'[a].status \in {"active", "idle", "evicted"} /\ admitted[a] < MaxAdmitted
       THEN admitted' = [admitted EXCEPT ![a] = @ + 1]
       ELSE UNCHANGED admitted
  /\ UnchangedLeases /\ UNCHANGED <<violations, running, interventions, now>>

\* evaluateMultiAgentGate: registers, denies the evicted and quarantined, sends
\* the restricted to approval and admits the rest while their registered
\* executions are within quota.  What it admits is not counted anywhere.
Gate(a) ==
  /\ runtimes' = Register(a)
  /\ IF /\ runtimes'[a].status \in {"active", "idle"}
        /\ runtimes'[a].executions < MaxConcurrentExecutions
        /\ admitted[a] < MaxAdmitted
       THEN admitted' = [admitted EXCEPT ![a] = @ + 1]
       ELSE UNCHANGED admitted
  /\ UnchangedLeases /\ UNCHANGED <<violations, running, interventions, now>>

\* An admitted request is answered; the registry is not consulted again.
Answer(a) ==
  /\ admitted[a] > 0
  /\ admitted' = [admitted EXCEPT ![a] = @ - 1]
  /\ UnchangedLeases /\ UNCHANGED <<runtimes, violations, running, interventions, now>>

\* POST /v1/agents/:agentId/restrict; 404 for the unknown, 400 for the evicted.
OperatorRestricts(a) ==
  /\ a \in Registered /\ runtimes[a].status # "evicted"
  /\ runtimes' = [runtimes EXCEPT ![a] = RestrictAgent(@)]
  /\ Intervene /\ UnchangedLeases /\ UnchangedWork

\* POST /v1/agents/:agentId/evict; leases are not released.
OperatorEvicts(a) ==
  /\ a \in Registered
  /\ runtimes' = [runtimes EXCEPT ![a] = EvictAgent(@)]
  /\ Intervene /\ UnchangedLeases /\ UnchangedWork

AddCompartment(a, c) ==
  /\ a \in Registered
  /\ runtimes' = [runtimes EXCEPT ![a].compartments = @ \cup {c}]
  /\ Intervene /\ UnchangedLeases /\ UnchangedWork

Propagate(a, score) ==
  /\ a \in Registered
  /\ runtimes' = [runtimes EXCEPT ![a] = PropagateTrust(@, score)]
  /\ Intervene /\ UnchangedLeases /\ UnchangedWork

Degrade(a, delta) ==
  /\ a \in Registered
  /\ runtimes' = [runtimes EXCEPT ![a] = DegradeTrust(@, delta)]
  /\ Intervene /\ UnchangedLeases /\ UnchangedWork

-----------------------------------------------------------------------------
\* The isolation check turns a caller away, with its effect on the registry.
Isolate(a) ==
  /\ a \in Registered /\ Isolated(a)
  /\ runtimes' = [runtimes EXCEPT ![a] = CheckIsolation(@)]
  /\ UnchangedLeases /\ UnchangedWork /\ UNCHANGED interventions

\* recordExecutionStart, after every check has passed.
StartExecution(a) ==
  /\ ~Isolated(a) /\ Schedule(a)
  /\ runtimes' = [runtimes EXCEPT ![a].executions = @ + 1, ![a].status = "active"]
  /\ violations' = [violations EXCEPT ![a] = 0]
  /\ running' = [running EXCEPT ![a] = @ + 1]
  /\ UnchangedLeases /\ UNCHANGED <<admitted, interventions, now>>

\* Faulty variant of Ended: the last execution makes any agent idle.
EndedIdle(runtime) ==
  LET left == Max({0, runtime.executions - 1}) IN
  [runtime EXCEPT !.executions = left, !.status = IF left = 0 THEN "idle" ELSE @]

Ended(runtime) ==
  LET left == Max({0, runtime.executions - 1}) IN
  [runtime EXCEPT !.executions = left,
                  !.status = IF left = 0 /\ @ = "active" THEN "idle" ELSE @]

\* recordExecutionEnd; it may come after the agent's eviction.
EndExecution(a) ==
  /\ running[a] > 0
  /\ running' = [running EXCEPT ![a] = @ - 1]
  /\ runtimes' = [runtimes EXCEPT ![a] = Ended(@)]
  /\ UnchangedLeases /\ UNCHANGED <<violations, admitted, interventions, now>>

\* recordViolation of a caller whom canExecute has turned away.
RecordViolation(a) ==
  /\ a \in Registered /\ ~CanExecute(a)
  /\ IF violations[a] + 1 >= ViolationsBeforeRestriction
       THEN /\ runtimes' = [runtimes EXCEPT ![a] = RestrictAgent(@)]
            /\ violations' = [violations EXCEPT ![a] = 0]
       ELSE /\ violations' = [violations EXCEPT ![a] = @ + 1]
            /\ UNCHANGED runtimes
  /\ UnchangedLeases /\ UNCHANGED <<running, admitted, interventions, now>>

RecordSessionCreated(a) ==
  /\ CanCreateSession(a)
  /\ runtimes' = [runtimes EXCEPT ![a].sessions = @ + 1]
  /\ Intervene /\ UnchangedLeases /\ UnchangedWork

RecordSessionClosed(a) ==
  /\ a \in Registered
  /\ runtimes' = [runtimes EXCEPT ![a].sessions = Max({0, @ - 1})]
  /\ Intervene /\ UnchangedLeases /\ UnchangedWork

-----------------------------------------------------------------------------
FreshId == interventions + 1

\* Faulty variant of AcquireLease: the lease it replaces stays.
AcquireBesides(a) ==
  /\ Intervene
  /\ LET kept == Without(leases, Expired) IN
       /\ leases' = With(kept, FreshId, [holder |-> a, expiresAt |-> now + LeaseTtl])
       /\ index' = With(Without(index, Holders(Expired)), a, FreshId)
       /\ runtimes' = LET cleared == Detach(runtimes, Holders(Expired)) IN
            IF a \in Registered THEN [cleared EXCEPT ![a].lease = FreshId] ELSE cleared
  /\ UnchangedWork

\* acquireLease: sweeps, replaces the agent's lease and attaches the new one;
\* the agent need not be registered, and may have been evicted.
AcquireLease(a) ==
  /\ Intervene
  /\ LET kept == Without(leases, Expired)
         own == {id \in DOMAIN kept : a \in DOMAIN index /\ id = index[a]}
     IN  /\ leases' = With(Without(kept, own), FreshId,
                           [holder |-> a, expiresAt |-> now + LeaseTtl])
         /\ index' = With(Without(index, Holders(Expired)), a, FreshId)
         /\ runtimes' = LET cleared == Detach(runtimes, Holders(Expired)) IN
              IF a \in Registered THEN [cleared EXCEPT ![a].lease = FreshId] ELSE cleared
  /\ UnchangedWork

Drop(ids) ==
  /\ leases' = Without(leases, ids)
  /\ index' = Without(index, Holders(ids))
  /\ runtimes' = Detach(runtimes, Holders(ids))
  /\ UnchangedWork /\ UNCHANGED interventions

\* releaseLease by id, which may be that of a lease replaced or expired.
ReleaseLease(id) == Drop({id} \cap DOMAIN leases)

\* expireLeases, and every read: listLeases, getAgentLease, size.
ExpireLeases == Drop(Expired)

Tick ==
  /\ now < MaxTime
  /\ now' = now + 1
  /\ UnchangedLeases
  /\ UNCHANGED <<runtimes, violations, running, admitted, interventions>>

Next ==
  \/ \E a \in Agents :
       \/ RegisterAgent(a) \/ Gate(a) \/ Answer(a) \/ OperatorRestricts(a) \/ OperatorEvicts(a)
       \/ Isolate(a) \/ StartExecution(a) \/ EndExecution(a) \/ RecordViolation(a)
       \/ RecordSessionCreated(a) \/ RecordSessionClosed(a) \/ AcquireLease(a)
       \/ \E c \in Compartments : AddCompartment(a, c)
       \/ \E score \in [Compartments -> Scores] : Propagate(a, score)
       \/ \E delta \in Degradations : Degrade(a, delta)
  \/ \E id \in 1 .. MaxInterventions : ReleaseLease(id)
  \/ ExpireLeases
  \/ Tick

Spec == Init /\ [][Next]_vars

\* Executions end and requests are answered (every transport call has a
\* timeout); an agent that may start an execution keeps asking for it.
FairSpec ==
  /\ Spec
  /\ \A a \in Agents : /\ WF_vars(EndExecution(a)) /\ WF_vars(Answer(a))
                       /\ WF_vars(StartExecution(a))

-----------------------------------------------------------------------------
\* Every variable holds a value of its type.
TypeOK ==
  /\ Registered \subseteq Agents
  /\ \A a \in Registered :
       /\ runtimes[a].status \in Status /\ runtimes[a].trust \in 0 .. 100
       /\ runtimes[a].executions \in 0 .. MaxConcurrentExecutions
       /\ runtimes[a].sessions \in 0 .. MaxSessions
       /\ runtimes[a].compartments \subseteq Compartments
       /\ runtimes[a].lease \in Nat
  /\ violations \in [Agents -> 0 .. ViolationsBeforeRestriction - 1]
  /\ \A id \in DOMAIN leases : leases[id].holder \in Agents
  /\ DOMAIN index \subseteq Agents
  /\ admitted \in [Agents -> 0 .. MaxAdmitted]

\* The counts the scheduler decides on are the executions in progress, except
\* that an eviction forgets them: executions beyond the global ceiling are those
\* of evicted agents that have not ended, and an agent that was only restricted
\* or quarantined still counts.
CeilingCountsAllButEvicted ==
  /\ \A a \in Registered :
       runtimes[a].executions = IF runtimes[a].status = "evicted" THEN 0 ELSE running[a]
  /\ Cardinality(Slots([a \in {b \in Registered : runtimes[b].status # "evicted"} |->
                          running[a]]))
       <= MaxGlobalConcurrentExecutions

\* The lease store, its index and the registry agree after any order of
\* acquiring, replacing, releasing an old id and expiring: one lease an agent,
\* the index names it, and a runtime shows no lease but that one.  Only an agent
\* evicted since, or registered since, holds a lease its runtime does not show.
LeasesAgree ==
  /\ \A id \in DOMAIN leases :
       /\ leases[id].holder \in DOMAIN index
       /\ index[leases[id].holder] = id
  /\ \A a \in DOMAIN index : index[a] \in DOMAIN leases
  /\ \A a \in Registered :
       runtimes[a].lease # NoLease => a \in DOMAIN index /\ index[a] = runtimes[a].lease

Rank(status) ==
  CASE status \in {"active", "idle"} -> 0
    [] status = "restricted" -> 1
    [] status = "quarantined" -> 2
    [] status = "evicted" -> 3

\* An agent's standing only worsens, and eviction is final, even when an
\* execution ends late.  The one way up is from quarantined (denied) to restricted
\* (approval): by an operator's restriction or by a series of quota violations.
StandingOnlyWorsens ==
  [][\A a \in Registered :
       Rank(runtimes'[a].status) < Rank(runtimes[a].status) =>
         /\ runtimes[a].status = "quarantined" /\ runtimes'[a].status = "restricted"
         /\ \/ OperatorRestricts(a)
            \/ violations[a] = ViolationsBeforeRestriction - 1 /\ violations'[a] = 0]_vars

\* What an evicted agent had under way drains, and nothing is added: eviction
\* stops no execution, but none starts and no request is admitted after it.
EvictedDrains ==
  \A a \in Agents :
    []((a \in Registered /\ runtimes[a].status = "evicted")
         => <>[](running[a] = 0 /\ admitted[a] = 0))

\* No single agent monopolises the runtime: one that stays eligible and trusted
\* and keeps asking runs again and again, however many executions one rival asks
\* for, as long as the others run none.  Two rivals that take turns at the slots
\* that become free may keep it waiting for ever.
OneRivalCannotStarve ==
  \A a, rival \in Agents :
    <>[](~Isolated(a) /\ \A b \in Agents \ {a, rival} : running[b] = 0)
      => []<>(running[a] > 0)
=============================================================================
