---------------------------- MODULE MultiAgentProofs ----------------------------
(***************************************************************************)
(* TLAPS proofs about MultiAgent, for any agents and compartments, any     *)
(* quotas, thresholds and lifetimes.  The value of an agent's trust plays  *)
(* no part in them: whatever an update makes of it, the status and the     *)
(* counts obey what is proved here.                                        *)
(***************************************************************************)
EXTENDS MultiAgent, FiniteSetTheorems, TLAPS

USE DEF NoLease

-----------------------------------------------------------------------------
\* r is the runtime record of an agent; nothing is said of its trust.
IsRuntime(r) ==
  r \in [status: Status, trust: {r.trust}, executions: Nat, sessions: {r.sessions},
         compartments: {r.compartments}, lease: Nat]

\* s is r after a change of status, trust or sessions that spares the evicted.
Keeps(r, s) ==
  /\ IsRuntime(s)
  /\ s.executions = r.executions /\ s.lease = r.lease
  /\ (s.status = "evicted") <=> (r.status = "evicted")

\* The executions the runtime knows of, one slot each.
Known == Slots([a \in {b \in Registered : runtimes[b].status # "evicted"} |-> running[a]])

\* The types the argument needs.
Shapes ==
  /\ Registered \subseteq Agents
  /\ \A a \in Registered : IsRuntime(runtimes[a])
  /\ running \in [Agents -> Nat]
  /\ violations \in [Agents -> 0 .. ViolationsBeforeRestriction - 1]
  /\ interventions \in Nat
  /\ DOMAIN index \subseteq Agents
  /\ DOMAIN leases \subseteq 1 .. interventions

\* CeilingCountsAllButEvicted, and what an agent never registered has running.
CountsAgree ==
  /\ CeilingCountsAllButEvicted
  /\ \A a \in Agents \ Registered : running[a] = 0
  /\ \A a \in Agents : running[a] <= MaxConcurrentExecutions
  /\ IsFiniteSet(Known)

\* LeasesAgree, and the other direction of its first clause: what the index
\* names for an agent is a lease that agent holds.
LeasesMatch ==
  /\ LeasesAgree
  /\ \A a \in DOMAIN index : leases[index[a]].holder = a

AgentsInv == Shapes /\ CountsAgree /\ LeasesMatch

-----------------------------------------------------------------------------
\* The larger of two numbers.
LEMMA MaxOfTwo ==
  ASSUME NEW n \in Int
  PROVE  Max({0, n}) = IF n > 0 THEN n ELSE 0
BY DEF Max

\* The standing of each status.
LEMMA RankFacts ==
  /\ Rank("active") = 0 /\ Rank("idle") = 0 /\ Rank("restricted") = 1
  /\ Rank("quarantined") = 2 /\ Rank("evicted") = 3
BY DEF Rank

\* Setting a status spares the evicted and keeps the counts and the lease.
LEMMA SetUnlessEvictedFacts ==
  ASSUME NEW r, IsRuntime(r), NEW status \in Status \ {"evicted"}
  PROVE  /\ Keeps(r, SetUnlessEvicted(r, status))
         /\ r.status # "evicted" => SetUnlessEvicted(r, status).status = status
         /\ r.status = "evicted" => SetUnlessEvicted(r, status) = r
BY DEF SetUnlessEvicted, Keeps, IsRuntime, Status

\* An eviction clears the counts and the lease.
LEMMA EvictAgentFacts ==
  ASSUME NEW r, IsRuntime(r)
  PROVE  /\ IsRuntime(EvictAgent(r)) /\ EvictAgent(r).status = "evicted"
         /\ EvictAgent(r).executions = 0 /\ EvictAgent(r).lease = NoLease
BY DEF EvictAgent, IsRuntime, Status

\* r with another count of executions, as an execution starts or ends.
Counted(r, n, status) == [r EXCEPT !.executions = n, !.status = status]

\* Such a change leaves the attached lease alone.
LEMMA CountedFacts ==
  ASSUME NEW r, IsRuntime(r), NEW n \in Nat, NEW status \in Status
  PROVE  /\ IsRuntime(Counted(r, n, status))
         /\ Counted(r, n, status).executions = n
         /\ Counted(r, n, status).status = status
         /\ Counted(r, n, status).lease = r.lease
BY DEF IsRuntime, Counted

\* r with another lease attached, or none.
Holding(r, lease) == [r EXCEPT !.lease = lease]

\* Attaching and detaching a lease changes neither status nor counts.
LEMMA HoldingFacts ==
  ASSUME NEW r, IsRuntime(r), NEW lease \in Nat
  PROVE  /\ IsRuntime(Holding(r, lease)) /\ Holding(r, lease).lease = lease
         /\ Holding(r, lease).executions = r.executions
         /\ Holding(r, lease).status = r.status
BY DEF IsRuntime, Holding

\* Sessions and compartments play no part in the argument.
LEMMA SessionsUpdateFacts ==
  ASSUME NEW r, IsRuntime(r), NEW n
  PROVE  /\ Keeps(r, [r EXCEPT !.sessions = n])
         /\ [r EXCEPT !.sessions = n].status = r.status
         /\ Keeps(r, [r EXCEPT !.compartments = n])
         /\ [r EXCEPT !.compartments = n].status = r.status
BY DEF Keeps, IsRuntime, Status

\* An update of the trust alone.
LEMMA TrustUpdateFacts ==
  ASSUME NEW r, IsRuntime(r), NEW trust
  PROVE  /\ Keeps(r, [r EXCEPT !.trust = trust])
         /\ [r EXCEPT !.trust = trust].status = r.status
BY DEF Keeps, IsRuntime, Status

\* propagateCompartmentTrust, whatever the average is, never raises a standing.
LEMMA PropagateTrustFacts ==
  ASSUME NEW r, IsRuntime(r), NEW score
  PROVE  /\ Keeps(r, PropagateTrust(r, score))
         /\ Rank(PropagateTrust(r, score).status) >= Rank(r.status)
<1>. DEFINE scored == r.compartments \cap DOMAIN score
            low == {c \in scored : score[c] < QuarantinedThreshold}
            trust == IF scored = {} THEN r.trust
                     ELSE Rounded(MapThenSumSet(LAMBDA c : score[c], scored),
                                  Cardinality(scored))
            updated == [r EXCEPT !.trust = trust]
            restricted == IF /\ Cardinality(low) >= QuarantinedCompartmentThreshold
                             /\ r.status \notin {"restricted", "quarantined"}
                            THEN RestrictAgent(updated) ELSE updated
<1>1. PropagateTrust(r, score) =
        IF r.status = "evicted" THEN r
        ELSE IF trust < QuarantinedThreshold THEN QuarantineAgent(restricted)
        ELSE restricted
  BY Zenon DEF PropagateTrust
<1>. HIDE DEF trust, low
<1>2. IsRuntime(updated) /\ Keeps(r, updated) /\ updated.status = r.status
  BY TrustUpdateFacts DEF Keeps
<1>. HIDE DEF updated
<1>3. "quarantined" \in Status \ {"evicted"} /\ "restricted" \in Status \ {"evicted"}
  BY DEF Status
<1>4. /\ Keeps(r, restricted)
      /\ restricted.status = r.status
           \/ (r.status \in {"active", "idle"} /\ restricted.status = "restricted")
           \/ r.status = "evicted"
  BY <1>2, <1>3, SetUnlessEvictedFacts DEF Keeps, RestrictAgent, IsRuntime, Status
<1>. HIDE DEF restricted
<1>5. /\ Keeps(r, QuarantineAgent(restricted))
      /\ r.status # "evicted" => QuarantineAgent(restricted).status = "quarantined"
  BY <1>3, <1>4, SetUnlessEvictedFacts DEF Keeps, QuarantineAgent
<1>6. Keeps(r, r)
  BY DEF Keeps
<1>. QED BY <1>1, <1>4, <1>5, <1>6, RankFacts DEF IsRuntime, Status

\* degradeTrust never raises a standing.
LEMMA DegradeTrustFacts ==
  ASSUME NEW r, IsRuntime(r), NEW delta
  PROVE  /\ Keeps(r, DegradeTrust(r, delta))
         /\ Rank(DegradeTrust(r, delta).status) >= Rank(r.status)
<1>. DEFINE trust == Max({0, r.trust - delta})
            updated == [r EXCEPT !.trust = trust]
<1>1. IsRuntime(updated) /\ Keeps(r, updated) /\ updated.status = r.status
  BY TrustUpdateFacts DEF Keeps
<1>. HIDE DEF trust, updated
<1>2. "quarantined" \in Status \ {"evicted"} /\ "restricted" \in Status \ {"evicted"}
  BY DEF Status
<1>3. Keeps(r, QuarantineAgent(updated)) /\ Keeps(r, RestrictAgent(updated))
  BY <1>1, <1>2, SetUnlessEvictedFacts DEF Keeps, QuarantineAgent, RestrictAgent
<1>4. r.status # "evicted" =>
        /\ QuarantineAgent(updated).status = "quarantined"
        /\ RestrictAgent(updated).status = "restricted"
  BY <1>1, <1>2, SetUnlessEvictedFacts DEF QuarantineAgent, RestrictAgent
<1>5. DegradeTrust(r, delta) =
        IF r.status = "evicted" THEN r
        ELSE IF trust < QuarantinedThreshold THEN QuarantineAgent(updated)
        ELSE IF trust < RestrictedThreshold /\ r.status # "quarantined"
               THEN RestrictAgent(updated)
        ELSE updated
  BY DEF DegradeTrust, trust, updated
<1>6. Keeps(r, r)
  BY DEF Keeps
<1>. QED BY <1>1, <1>3, <1>4, <1>5, <1>6, RankFacts DEF IsRuntime, Status

-----------------------------------------------------------------------------
\* What StandingOnlyWorsens says of a step.
Standing ==
  \A a \in Registered :
    Rank(runtimes'[a].status) < Rank(runtimes[a].status) =>
      /\ runtimes[a].status = "quarantined" /\ runtimes'[a].status = "restricted"
      /\ \/ OperatorRestricts(a)
         \/ violations[a] = ViolationsBeforeRestriction - 1 /\ violations'[a] = 0

\* The known executions, slot by slot.
KnownSlot ==
  {slot \in {b \in Registered : runtimes[b].status # "evicted"}
              \X (1 .. MaxConcurrentExecutions) : slot[2] <= running[slot[1]]}

\* Both descriptions agree.
LEMMA KnownSlots == Known = KnownSlot
<1>. DEFINE live == {b \in Registered : runtimes[b].status # "evicted"}
            count == [a \in live |-> running[a]]
<1>1. DOMAIN count = live /\ \A a \in live : count[a] = running[a]
  OBVIOUS
<1>2. Slots(count) = {slot \in live \X (1 .. MaxConcurrentExecutions) :
                        slot[2] <= running[slot[1]]}
  <2>. HIDE DEF count, live
  <2>. QED BY <1>1 DEF Slots
<1>. QED BY <1>2 DEF Known, KnownSlot

\* And so after a step.
LEMMA KnownSlotsNext == (Known = KnownSlot)'
BY KnownSlots, PTL

\* The scheduler's total counts exactly the known executions.
LEMMA TotalIsKnown ==
  ASSUME Shapes, CountsAgree
  PROVE  Total = Cardinality(Known)
<1>. DEFINE count == [b \in Registered |-> runtimes[b].executions]
<1>1. DOMAIN count = Registered
      /\ \A b \in Registered :
           count[b] = IF runtimes[b].status = "evicted" THEN 0 ELSE running[b]
  BY DEF CountsAgree, CeilingCountsAllButEvicted
<1>2. Slots(count) = Known
  <2>. HIDE DEF count
  <2>. QED BY <1>1, KnownSlots DEF Slots, KnownSlot
<1>. QED BY <1>2 DEF Total

\* A step that starts and ends no execution and evicts nobody.
LEMMA CountsFrame ==
  ASSUME Shapes, CountsAgree, Registered' = Registered, running' = running,
         \A a \in Registered :
           /\ runtimes'[a].executions = runtimes[a].executions
           /\ runtimes'[a].status = "evicted" <=> runtimes[a].status = "evicted"
  PROVE  CountsAgree'
<1>1. Known' = Known
  BY KnownSlots DEF Known, Slots
<1>2. Known = Slots([a \in {b \in Registered : runtimes[b].status # "evicted"} |-> running[a]])
  BY DEF Known
<1>. QED BY <1>1, <1>2 DEF CountsAgree, CeilingCountsAllButEvicted, Known

\* A step that leaves the lease store and the attached leases alone.
LEMMA LeasesFrame ==
  ASSUME LeasesMatch, UNCHANGED <<leases, index>>,
         \A a \in Registered' :
           runtimes'[a].lease # NoLease =>
             a \in Registered /\ runtimes'[a].lease = runtimes[a].lease
  PROVE  LeasesMatch'
BY DEF LeasesMatch, LeasesAgree

\* A call that changes one agent's record and spares the evicted.
LEMMA RegistryStep ==
  ASSUME AgentsInv, NEW a \in Registered, NEW s, Keeps(runtimes[a], s),
         runtimes' = [runtimes EXCEPT ![a] = s],
         UNCHANGED <<leases, index, running>>,
         violations' \in [Agents -> 0 .. ViolationsBeforeRestriction - 1],
         interventions' \in {interventions, interventions + 1}
  PROVE  /\ AgentsInv'
         /\ \A b \in Registered : b # a => runtimes'[b] = runtimes[b]
         /\ runtimes'[a] = s
<1>1. /\ Registered' = Registered /\ runtimes'[a] = s
      /\ \A b \in Registered : b # a => runtimes'[b] = runtimes[b]
  BY DEF Registered
<1>2. Shapes'
  BY <1>1 DEF AgentsInv, Shapes, Keeps
<1>3. CountsAgree'
  BY <1>1, CountsFrame DEF AgentsInv, Keeps
<1>4. LeasesMatch'
  BY <1>1, LeasesFrame DEF AgentsInv, Keeps
<1>. QED BY <1>1, <1>2, <1>3, <1>4 DEF AgentsInv

\* A step in which only agent a's standing may change, and not for the better.
LEMMA StandingByOne ==
  ASSUME Shapes, NEW a \in Registered, IsRuntime(runtimes'[a]),
         Rank(runtimes'[a].status) >= Rank(runtimes[a].status),
         \A b \in Registered : b # a => runtimes'[b].status = runtimes[b].status
  PROVE  Standing
<1>1. \A status \in Status : Rank(status) \in Nat
  BY RankFacts DEF Status
<1>2. ASSUME NEW b \in Registered
      PROVE  ~(Rank(runtimes'[b].status) < Rank(runtimes[b].status))
  <2>1. runtimes[b].status \in Status /\ runtimes[a].status \in Status
        /\ runtimes'[a].status \in Status
    BY DEF Shapes, IsRuntime
  <2>. QED BY <1>1, <2>1
<1>. QED BY <1>2 DEF Standing

\* A step in which no standing changes at all.
LEMMA StandingUnchanged ==
  ASSUME Shapes, \A b \in Registered : runtimes'[b].status = runtimes[b].status
  PROVE  Standing
<1>1. \A status \in Status : Rank(status) \in Nat
  BY RankFacts DEF Status
<1>2. \A b \in Registered : runtimes[b].status \in Status
  BY DEF Shapes, IsRuntime
<1>. QED BY <1>1, <1>2 DEF Standing

\* A step that leaves the registry, the leases and what runs alone.
LEMMA RegistryLeftAlone ==
  ASSUME AgentsInv, UNCHANGED <<runtimes, leases, index, running, interventions>>,
         violations' \in [Agents -> 0 .. ViolationsBeforeRestriction - 1]
  PROVE  AgentsInv' /\ Standing
<1>1. Registered' = Registered
  BY DEF Registered
<1>2. CountsAgree'
  BY <1>1, CountsFrame DEF AgentsInv
<1>3. LeasesMatch'
  BY <1>1, LeasesFrame DEF AgentsInv
<1>4. Shapes'
  BY <1>1 DEF AgentsInv, Shapes
<1>. QED BY <1>2, <1>3, <1>4, StandingUnchanged DEF AgentsInv

\* registerAgent, by itself or in the server's gate.
LEMMA RegisterStep ==
  ASSUME AgentsInv, NEW a \in Agents, runtimes' = Register(a),
         UNCHANGED <<leases, index, running, violations, interventions>>
  PROVE  AgentsInv' /\ Standing
<1>1. CASE a \in Registered
  <2>1. runtimes' = runtimes
    BY <1>1 DEF Register
  <2>. QED BY <2>1, RegistryLeftAlone DEF AgentsInv, Shapes
<1>2. CASE a \notin Registered
  <2>1. /\ Registered' = Registered \cup {a}
        /\ runtimes'[a] = NewRuntime
        /\ \A b \in Registered : runtimes'[b] = runtimes[b]
    BY <1>2 DEF Register, With, Registered
  <2>2. IsRuntime(NewRuntime) /\ NewRuntime.status = "idle"
        /\ NewRuntime.executions = 0 /\ NewRuntime.lease = NoLease
    BY DEF NewRuntime, IsRuntime, Status
  <2>3. Shapes'
    BY <2>1, <2>2 DEF AgentsInv, Shapes
  <2>4. LeasesMatch'
    BY <2>1, <2>2, LeasesFrame DEF AgentsInv
  <2>5. running[a] = 0
    BY <1>2 DEF AgentsInv, CountsAgree
  <2>6. Known' = Known
    <3>1. \A slot \in {a} \X (1 .. MaxConcurrentExecutions) : ~(slot[2] <= running[slot[1]])
      BY <2>5
    <3>. QED BY <2>1, <2>2, <3>1, KnownSlots, KnownSlotsNext DEF KnownSlot
  <2>7. CountsAgree'
    <3>1. \A b \in Registered' :
            runtimes'[b].executions = IF runtimes'[b].status = "evicted" THEN 0 ELSE running[b]
      BY <2>1, <2>2, <2>5 DEF AgentsInv, CountsAgree, CeilingCountsAllButEvicted
    <3>. QED BY <2>1, <2>6, <3>1 DEF AgentsInv, CountsAgree, CeilingCountsAllButEvicted, Known
  <2>. QED BY <2>1, <2>3, <2>4, <2>7, StandingUnchanged DEF AgentsInv
<1>. QED BY <1>1, <1>2

\* A change of one record that spares the evicted and raises no standing.
LEMMA QuietStep ==
  ASSUME AgentsInv, NEW a \in Registered, NEW s, Keeps(runtimes[a], s),
         Rank(s.status) >= Rank(runtimes[a].status),
         runtimes' = [runtimes EXCEPT ![a] = s],
         UNCHANGED <<leases, index, running>>,
         violations' \in [Agents -> 0 .. ViolationsBeforeRestriction - 1],
         interventions' \in {interventions, interventions + 1}
  PROVE  AgentsInv' /\ Standing
<1>1. /\ AgentsInv' /\ runtimes'[a] = s
      /\ \A b \in Registered : b # a => runtimes'[b] = runtimes[b]
  BY RegistryStep
<1>2. IsRuntime(s) /\ Shapes
  BY DEF Keeps, AgentsInv
<1>. QED BY <1>1, <1>2, StandingByOne

\* An operator's restriction: the one call that may raise a standing.
LEMMA OperatorRestrictsStep ==
  ASSUME AgentsInv, NEW a \in Agents, OperatorRestricts(a)
  PROVE  AgentsInv' /\ Standing
<1>. DEFINE s == RestrictAgent(runtimes[a])
<1>1. /\ a \in Registered /\ runtimes[a].status # "evicted" /\ IsRuntime(runtimes[a])
      /\ Shapes /\ runtimes' = [runtimes EXCEPT ![a] = s]
      /\ UNCHANGED <<leases, index, running, violations>>
      /\ interventions' = interventions + 1
  BY DEF AgentsInv, Shapes, OperatorRestricts, Intervene, UnchangedLeases, UnchangedWork
<1>2. Keeps(runtimes[a], s) /\ s.status = "restricted"
  BY <1>1, SetUnlessEvictedFacts DEF RestrictAgent, Status
<1>. HIDE DEF s
<1>3. /\ AgentsInv' /\ runtimes'[a] = s
      /\ \A b \in Registered : b # a => runtimes'[b] = runtimes[b]
  BY <1>1, <1>2, RegistryStep DEF Shapes
<1>4. Standing
  <2>1. CASE runtimes[a].status = "quarantined"
    <3>1. \A status \in Status : Rank(status) \in Nat
      BY RankFacts DEF Status
    <3>2. \A b \in Registered : runtimes[b].status \in Status
      BY <1>1 DEF Shapes, IsRuntime
    <3>. QED BY <1>2, <1>3, <2>1, <3>1, <3>2 DEF Standing
  <2>2. CASE runtimes[a].status # "quarantined"
    <3>1. Rank(s.status) >= Rank(runtimes[a].status)
      BY <1>1, <1>2, <2>2, RankFacts DEF IsRuntime, Status
    <3>. QED BY <1>1, <1>2, <1>3, <3>1, StandingByOne DEF Keeps
  <2>. QED BY <2>1, <2>2
<1>. QED BY <1>3, <1>4

\* An eviction forgets the agent's executions and detaches its lease.
LEMMA OperatorEvictsStep ==
  ASSUME AgentsInv, NEW a \in Agents, OperatorEvicts(a)
  PROVE  AgentsInv' /\ Standing
<1>. DEFINE s == EvictAgent(runtimes[a])
<1>1. /\ a \in Registered /\ IsRuntime(runtimes[a])
      /\ Shapes /\ runtimes' = [runtimes EXCEPT ![a] = s]
      /\ UNCHANGED <<leases, index, running, violations>>
      /\ interventions' = interventions + 1
  BY DEF AgentsInv, Shapes, OperatorEvicts, Intervene, UnchangedLeases, UnchangedWork
<1>2. /\ IsRuntime(s) /\ s.status = "evicted" /\ s.executions = 0 /\ s.lease = NoLease
  BY <1>1, EvictAgentFacts
<1>. HIDE DEF s
<1>3. /\ Registered' = Registered /\ runtimes'[a] = s
      /\ \A b \in Registered : b # a => runtimes'[b] = runtimes[b]
  BY <1>1 DEF Registered
<1>4. Shapes'
  BY <1>1, <1>2, <1>3 DEF Shapes
<1>5. LeasesMatch'
  BY <1>1, <1>2, <1>3, LeasesFrame DEF AgentsInv
<1>6. Known' \subseteq Known
  BY <1>1, <1>2, <1>3, KnownSlots, KnownSlotsNext DEF KnownSlot
<1>7. CountsAgree'
  <2>1. /\ IsFiniteSet(Known) /\ Cardinality(Known) <= MaxGlobalConcurrentExecutions
    BY DEF AgentsInv, CountsAgree, CeilingCountsAllButEvicted, Known
  <2>2. /\ IsFiniteSet(Known') /\ Cardinality(Known') <= MaxGlobalConcurrentExecutions
    BY <1>6, <2>1, FS_Subset, FS_CardinalityType, AgentsAssumption
  <2>3. \A b \in Registered' :
          runtimes'[b].executions = IF runtimes'[b].status = "evicted" THEN 0 ELSE running[b]
    BY <1>2, <1>3 DEF AgentsInv, CountsAgree, CeilingCountsAllButEvicted
  <2>. QED BY <1>1, <1>3, <2>2, <2>3
           DEF AgentsInv, CountsAgree, CeilingCountsAllButEvicted, Known
<1>8. Standing
  <2>1. Rank(s.status) >= Rank(runtimes[a].status)
    BY <1>1, <1>2, RankFacts DEF IsRuntime, Status
  <2>. QED BY <1>1, <1>2, <1>3, <2>1, StandingByOne
<1>. QED BY <1>4, <1>5, <1>7, <1>8 DEF AgentsInv

\* A quota violation: the last of a series restricts, also the quarantined.
LEMMA RecordViolationStep ==
  ASSUME AgentsInv, NEW a \in Agents, RecordViolation(a)
  PROVE  AgentsInv' /\ Standing
<1>1. /\ a \in Registered /\ IsRuntime(runtimes[a]) /\ Shapes
      /\ UNCHANGED <<leases, index, running, interventions>>
      /\ violations[a] \in 0 .. ViolationsBeforeRestriction - 1
      /\ violations \in [Agents -> 0 .. ViolationsBeforeRestriction - 1]
      /\ ViolationsBeforeRestriction \in Nat \ {0}
  BY AgentsAssumption DEF AgentsInv, Shapes, RecordViolation, UnchangedLeases
<1>2. CASE violations[a] + 1 >= ViolationsBeforeRestriction
  <2>. DEFINE s == RestrictAgent(runtimes[a])
  <2>1. /\ runtimes' = [runtimes EXCEPT ![a] = s]
        /\ violations' = [violations EXCEPT ![a] = 0]
    BY <1>2 DEF RecordViolation
  <2>2. /\ Keeps(runtimes[a], s)
        /\ runtimes[a].status # "evicted" => s.status = "restricted"
        /\ runtimes[a].status = "evicted" => s = runtimes[a]
    BY <1>1, SetUnlessEvictedFacts DEF RestrictAgent, Status
  <2>. HIDE DEF s
  <2>3. /\ violations' \in [Agents -> 0 .. ViolationsBeforeRestriction - 1]
        /\ violations'[a] = 0 /\ violations[a] = ViolationsBeforeRestriction - 1
    BY <1>1, <1>2, <2>1
  <2>4. /\ AgentsInv' /\ runtimes'[a] = s
        /\ \A b \in Registered : b # a => runtimes'[b] = runtimes[b]
    BY <1>1, <2>1, <2>2, <2>3, RegistryStep
  <2>5. Standing
    <3>1. CASE runtimes[a].status = "quarantined"
      <4>1. \A status \in Status : Rank(status) \in Nat
        BY RankFacts DEF Status
      <4>2. \A b \in Registered : runtimes[b].status \in Status
        BY <1>1 DEF Shapes, IsRuntime
      <4>. QED BY <2>2, <2>3, <2>4, <3>1, <4>1, <4>2 DEF Standing
    <3>2. CASE runtimes[a].status # "quarantined"
      <4>1. Rank(s.status) >= Rank(runtimes[a].status)
        BY <1>1, <2>2, <3>2, RankFacts DEF IsRuntime, Status
      <4>. QED BY <1>1, <2>2, <2>4, <4>1, StandingByOne DEF Keeps
    <3>. QED BY <3>1, <3>2
  <2>. QED BY <2>4, <2>5
<1>3. CASE ~(violations[a] + 1 >= ViolationsBeforeRestriction)
  <2>1. /\ runtimes' = runtimes
        /\ violations' = [violations EXCEPT ![a] = @ + 1]
    BY <1>3 DEF RecordViolation
  <2>2. violations' \in [Agents -> 0 .. ViolationsBeforeRestriction - 1]
    BY <1>1, <1>3, <2>1
  <2>. QED BY <1>1, <2>1, <2>2, RegistryLeftAlone
<1>. QED BY <1>2, <1>3

\* An execution starts: every ceiling was checked against what is running.
LEMMA StartStep ==
  ASSUME AgentsInv, NEW a \in Agents, StartExecution(a)
  PROVE  AgentsInv' /\ Standing
<1>. DEFINE s == Counted(runtimes[a], runtimes[a].executions + 1, "active")
            slot == <<a, running[a] + 1>>
<1>1. /\ a \in Registered /\ IsRuntime(runtimes[a]) /\ Shapes
      /\ runtimes[a].status \in {"active", "idle"}
      /\ runtimes[a].executions < MaxConcurrentExecutions
      /\ Total < MaxGlobalConcurrentExecutions
      /\ UNCHANGED <<leases, index, interventions>>
      /\ violations' = [violations EXCEPT ![a] = 0]
      /\ running' = [running EXCEPT ![a] = @ + 1]
  BY DEF AgentsInv, Shapes, StartExecution, Isolated, Eligible, Schedule, CanExecute,
         UnchangedLeases
<1>2. runtimes' = [runtimes EXCEPT ![a] = s]
  BY <1>1, Zenon DEF StartExecution, Counted
<1>3. /\ IsRuntime(s) /\ s.status = "active" /\ s.lease = runtimes[a].lease
      /\ s.executions = runtimes[a].executions + 1
  <2>1. runtimes[a].executions + 1 \in Nat /\ "active" \in Status
    BY <1>1 DEF IsRuntime, Status
  <2>. QED BY <1>1, <2>1, CountedFacts
<1>. HIDE DEF s
<1>4. /\ Registered' = Registered /\ runtimes'[a] = s
      /\ \A b \in Registered : b # a => runtimes'[b] = runtimes[b]
  BY <1>1, <1>2 DEF Registered
<1>5. /\ runtimes[a].executions = running[a]
      /\ running \in [Agents -> Nat] /\ running' \in [Agents -> Nat]
      /\ running'[a] = running[a] + 1
      /\ \A b \in Agents : b # a => running'[b] = running[b]
  BY <1>1 DEF AgentsInv, CountsAgree, CeilingCountsAllButEvicted, Shapes
<1>6. Shapes'
  <2>1. violations' \in [Agents -> 0 .. ViolationsBeforeRestriction - 1]
    BY <1>1, AgentsAssumption DEF Shapes
  <2>. QED BY <1>1, <1>3, <1>4, <1>5, <2>1 DEF Shapes
<1>7. LeasesMatch'
  BY <1>1, <1>3, <1>4, LeasesFrame DEF AgentsInv
<1>8. Known' \subseteq Known \cup {slot}
  <2>. SUFFICES ASSUME NEW x \in KnownSlot', x # slot
                PROVE  x \in KnownSlot
    BY KnownSlots, KnownSlotsNext
  <2>1. PICK b \in Registered, k \in 1 .. MaxConcurrentExecutions :
          x = <<b, k>> /\ k <= running'[b] /\ runtimes'[b].status # "evicted"
    BY <1>4 DEF KnownSlot
  <2>2. k <= running[b]
    BY <1>1, <1>5, <2>1 DEF Shapes
  <2>3. runtimes[b].status # "evicted"
    BY <1>1, <1>4, <2>1
  <2>. QED BY <2>1, <2>2, <2>3 DEF KnownSlot
<1>9. CountsAgree'
  <2>1. /\ IsFiniteSet(Known) /\ Cardinality(Known) \in Nat
        /\ Cardinality(Known) < MaxGlobalConcurrentExecutions
    BY <1>1, TotalIsKnown, FS_CardinalityType DEF AgentsInv, CountsAgree
  <2>2. /\ IsFiniteSet(Known \cup {slot})
        /\ Cardinality(Known \cup {slot}) \in Nat
        /\ Cardinality(Known \cup {slot}) <= MaxGlobalConcurrentExecutions
    <3>. HIDE DEF slot
    <3>1. IsFiniteSet(Known \cup {slot})
      BY <2>1, FS_AddElement
    <3>2. Cardinality(Known \cup {slot})
            = IF slot \in Known THEN Cardinality(Known) ELSE Cardinality(Known) + 1
      BY <2>1, FS_AddElement
    <3>. QED BY <2>1, <3>1, <3>2, AgentsAssumption
  <2>3. /\ IsFiniteSet(Known') /\ Cardinality(Known') <= MaxGlobalConcurrentExecutions
    BY <1>8, <2>2, FS_Subset, FS_CardinalityType, AgentsAssumption
  <2>4. \A b \in Registered' :
          runtimes'[b].executions = IF runtimes'[b].status = "evicted" THEN 0 ELSE running'[b]
    BY <1>1, <1>3, <1>4, <1>5 DEF AgentsInv, CountsAgree, CeilingCountsAllButEvicted, Shapes
  <2>5. \A b \in Agents : running'[b] <= MaxConcurrentExecutions
    BY <1>1, <1>5, AgentsAssumption DEF AgentsInv, CountsAgree
  <2>. QED BY <1>1, <1>4, <1>5, <2>3, <2>4, <2>5
           DEF AgentsInv, CountsAgree, CeilingCountsAllButEvicted, Known, Shapes
<1>10. Standing
  <2>1. Rank(s.status) >= Rank(runtimes[a].status)
    BY <1>1, <1>3, RankFacts
  <2>. QED BY <1>1, <1>3, <1>4, <2>1, StandingByOne
<1>. QED BY <1>6, <1>7, <1>9, <1>10 DEF AgentsInv

\* The end of an execution lowers its count, never below zero; of the standings
\* it changes only active to idle.
LEMMA EndedFacts ==
  ASSUME NEW r, IsRuntime(r)
  PROVE  /\ IsRuntime(Ended(r)) /\ Ended(r).lease = r.lease
         /\ Ended(r).executions = IF r.executions > 0 THEN r.executions - 1 ELSE 0
         /\ Ended(r).status = "evicted" <=> r.status = "evicted"
         /\ Rank(Ended(r).status) = Rank(r.status)
<1>. DEFINE left == Max({0, r.executions - 1})
            status == IF left = 0 /\ r.status = "active" THEN "idle" ELSE r.status
<1>1. r.executions \in Nat /\ r.status \in Status
  BY DEF IsRuntime
<1>2. left \in Nat /\ left = IF r.executions > 0 THEN r.executions - 1 ELSE 0
  <2>1. r.executions - 1 \in Int /\ (r.executions - 1 > 0 \/ ~(r.executions - 1 > 0))
    BY <1>1
  <2>2. left = IF r.executions - 1 > 0 THEN r.executions - 1 ELSE 0
    BY <2>1, MaxOfTwo
  <2>. HIDE DEF left
  <2>. QED BY <1>1, <2>2
<1>3. Ended(r) = Counted(r, left, status)
  BY Zenon DEF Ended, Counted
<1>. HIDE DEF left
<1>4. /\ status \in Status /\ Rank(status) = Rank(r.status)
      /\ status = "evicted" <=> r.status = "evicted"
  BY <1>1, RankFacts DEF Status
<1>. HIDE DEF status
<1>. QED BY <1>2, <1>3, <1>4, CountedFacts

\* An execution ends, possibly after its agent was evicted and its count cleared.
LEMMA EndStep ==
  ASSUME AgentsInv, NEW a \in Agents, EndExecution(a)
  PROVE  AgentsInv' /\ Standing
<1>. DEFINE s == Ended(runtimes[a])
<1>1. /\ Shapes /\ running[a] > 0
      /\ UNCHANGED <<leases, index, violations, interventions>>
      /\ running' = [running EXCEPT ![a] = @ - 1]
      /\ runtimes' = [runtimes EXCEPT ![a] = s]
  BY DEF AgentsInv, EndExecution, UnchangedLeases
<1>2. a \in Registered /\ IsRuntime(runtimes[a])
  BY <1>1 DEF AgentsInv, CountsAgree, Shapes
<1>3. /\ IsRuntime(s) /\ s.lease = runtimes[a].lease
      /\ s.executions = IF runtimes[a].executions > 0 THEN runtimes[a].executions - 1 ELSE 0
      /\ s.status = "evicted" <=> runtimes[a].status = "evicted"
      /\ Rank(s.status) = Rank(runtimes[a].status)
  BY <1>2, EndedFacts
<1>. HIDE DEF s
<1>4. /\ Registered' = Registered /\ runtimes'[a] = s
      /\ \A b \in Registered : b # a => runtimes'[b] = runtimes[b]
  BY <1>1, <1>2 DEF Registered
<1>5. /\ running \in [Agents -> Nat] /\ running' \in [Agents -> Nat]
      /\ running'[a] = running[a] - 1
      /\ \A b \in Agents : b # a => running'[b] = running[b]
  BY <1>1 DEF Shapes
<1>6. Shapes'
  BY <1>1, <1>3, <1>4, <1>5 DEF Shapes
<1>7. LeasesMatch'
  BY <1>1, <1>2, <1>3, <1>4, LeasesFrame DEF AgentsInv
<1>8. Known' \subseteq Known
  <2>. SUFFICES ASSUME NEW x \in KnownSlot' PROVE x \in KnownSlot
    BY KnownSlots, KnownSlotsNext
  <2>1. PICK b \in Registered, k \in 1 .. MaxConcurrentExecutions :
          x = <<b, k>> /\ k <= running'[b] /\ runtimes'[b].status # "evicted"
    BY <1>4 DEF KnownSlot
  <2>2. k <= running[b]
    BY <1>1, <1>5, <2>1 DEF Shapes
  <2>3. runtimes[b].status # "evicted"
    BY <1>3, <1>4, <2>1
  <2>. QED BY <2>1, <2>2, <2>3 DEF KnownSlot
<1>9. CountsAgree'
  <2>1. /\ IsFiniteSet(Known) /\ Cardinality(Known) <= MaxGlobalConcurrentExecutions
    BY DEF AgentsInv, CountsAgree, CeilingCountsAllButEvicted, Known
  <2>2. /\ IsFiniteSet(Known') /\ Cardinality(Known') <= MaxGlobalConcurrentExecutions
    BY <1>8, <2>1, FS_Subset, FS_CardinalityType, AgentsAssumption
  <2>3. \A b \in Registered :
          runtimes[b].executions = IF runtimes[b].status = "evicted" THEN 0 ELSE running[b]
    BY DEF AgentsInv, CountsAgree, CeilingCountsAllButEvicted
  <2>4. s.executions = IF s.status = "evicted" THEN 0 ELSE running'[a]
    BY <1>1, <1>2, <1>3, <1>5, <2>3
  <2>5. \A b \in Registered' :
          runtimes'[b].executions = IF runtimes'[b].status = "evicted" THEN 0 ELSE running'[b]
    BY <1>1, <1>4, <1>5, <2>3, <2>4 DEF Shapes
  <2>6. \A b \in Agents : running'[b] <= MaxConcurrentExecutions
    BY <1>5, AgentsAssumption DEF AgentsInv, CountsAgree
  <2>7. \A b \in Agents \ Registered' : running'[b] = 0
    BY <1>2, <1>4, <1>5 DEF AgentsInv, CountsAgree
  <2>. QED BY <2>2, <2>5, <2>6, <2>7 DEF CountsAgree, CeilingCountsAllButEvicted, Known
<1>10. Standing
  <2>1. Rank(s.status) >= Rank(runtimes[a].status)
    BY <1>2, <1>3, RankFacts DEF IsRuntime, Status
  <2>. QED BY <1>1, <1>2, <1>3, <1>4, <2>1, StandingByOne
<1>. QED BY <1>6, <1>7, <1>9, <1>10 DEF AgentsInv

\* The isolation check restricts or quarantines an agent that was eligible.
LEMMA IsolateStep ==
  ASSUME AgentsInv, NEW a \in Agents, Isolate(a)
  PROVE  AgentsInv' /\ Standing
<1>. DEFINE s == CheckIsolation(runtimes[a])
<1>1. /\ a \in Registered /\ IsRuntime(runtimes[a]) /\ Shapes
      /\ runtimes' = [runtimes EXCEPT ![a] = s]
      /\ UNCHANGED <<leases, index, running, violations, interventions>>
  BY DEF AgentsInv, Shapes, Isolate, UnchangedLeases, UnchangedWork
<1>2. "quarantined" \in Status \ {"evicted"} /\ "restricted" \in Status \ {"evicted"}
  BY DEF Status
<1>3. /\ Keeps(runtimes[a], RestrictAgent(runtimes[a]))
      /\ Keeps(runtimes[a], QuarantineAgent(runtimes[a]))
      /\ Keeps(runtimes[a], runtimes[a])
      /\ runtimes[a].status # "evicted" =>
           /\ RestrictAgent(runtimes[a]).status = "restricted"
           /\ QuarantineAgent(runtimes[a]).status = "quarantined"
  BY <1>1, <1>2, SetUnlessEvictedFacts DEF Keeps, RestrictAgent, QuarantineAgent
<1>4. Keeps(runtimes[a], s) /\ Rank(s.status) >= Rank(runtimes[a].status)
  BY <1>1, <1>3, RankFacts DEF CheckIsolation, IsRuntime, Status
<1>. HIDE DEF s
<1>. QED BY <1>1, <1>4, QuietStep DEF Shapes

\* A call that changes sessions, compartments or trust only.
LEMMA BookkeepingStep ==
  ASSUME AgentsInv, NEW a \in Agents,
         \/ RecordSessionCreated(a)
         \/ RecordSessionClosed(a)
         \/ \E c \in Compartments : AddCompartment(a, c)
         \/ \E score \in [Compartments -> Scores] : Propagate(a, score)
         \/ \E delta \in Degradations : Degrade(a, delta)
  PROVE  AgentsInv' /\ Standing
<1>1. /\ a \in Registered /\ IsRuntime(runtimes[a]) /\ Shapes
      /\ UNCHANGED <<leases, index, running, violations>>
      /\ interventions' = interventions + 1
  BY DEF AgentsInv, Shapes, RecordSessionCreated, RecordSessionClosed, AddCompartment,
         Propagate, Degrade, CanCreateSession, Eligible, Intervene, UnchangedLeases,
         UnchangedWork
<1>2. Rank(runtimes[a].status) \in Nat
  BY <1>1, RankFacts DEF IsRuntime, Status
<1>3. ASSUME NEW s, Keeps(runtimes[a], s), Rank(s.status) >= Rank(runtimes[a].status),
             runtimes' = [runtimes EXCEPT ![a] = s]
      PROVE  AgentsInv' /\ Standing
  BY <1>1, <1>3, QuietStep DEF Shapes
<1>4. ASSUME NEW n, \/ runtimes' = [runtimes EXCEPT ![a].sessions = n]
                    \/ runtimes' = [runtimes EXCEPT ![a].compartments = n]
      PROVE  AgentsInv' /\ Standing
  <2>1. \/ runtimes' = [runtimes EXCEPT ![a] = [runtimes[a] EXCEPT !.sessions = n]]
        \/ runtimes' = [runtimes EXCEPT ![a] = [runtimes[a] EXCEPT !.compartments = n]]
    BY <1>4
  <2>2. /\ Keeps(runtimes[a], [runtimes[a] EXCEPT !.sessions = n])
        /\ Rank([runtimes[a] EXCEPT !.sessions = n].status) >= Rank(runtimes[a].status)
        /\ Keeps(runtimes[a], [runtimes[a] EXCEPT !.compartments = n])
        /\ Rank([runtimes[a] EXCEPT !.compartments = n].status) >= Rank(runtimes[a].status)
    BY <1>1, <1>2, SessionsUpdateFacts
  <2>. QED BY <1>3, <2>1, <2>2
<1>5. CASE RecordSessionCreated(a)
  BY <1>4, <1>5 DEF RecordSessionCreated
<1>6. CASE RecordSessionClosed(a)
  BY <1>4, <1>6 DEF RecordSessionClosed
<1>7. CASE \E c \in Compartments : AddCompartment(a, c)
  BY <1>4, <1>7 DEF AddCompartment
<1>8. CASE \E score \in [Compartments -> Scores] : Propagate(a, score)
  BY <1>1, <1>3, <1>8, PropagateTrustFacts DEF Propagate
<1>9. CASE \E delta \in Degradations : Degrade(a, delta)
  BY <1>1, <1>3, <1>9, DegradeTrustFacts DEF Degrade
<1>. QED BY <1>5, <1>6, <1>7, <1>8, <1>9

-----------------------------------------------------------------------------
\* What detaching leaves of the registry.
LEMMA DetachFacts ==
  ASSUME Shapes, NEW agents
  PROVE  /\ DOMAIN Detach(runtimes, agents) = Registered
         /\ \A a \in Registered :
              /\ IsRuntime(Detach(runtimes, agents)[a])
              /\ Detach(runtimes, agents)[a].executions = runtimes[a].executions
              /\ Detach(runtimes, agents)[a].status = runtimes[a].status
              /\ Detach(runtimes, agents)[a].lease
                   = IF a \in agents THEN NoLease ELSE runtimes[a].lease
<1>1. DOMAIN Detach(runtimes, agents) = Registered
  BY DEF Detach, Registered
<1>2. ASSUME NEW a \in Registered
      PROVE  /\ IsRuntime(runtimes[a])
             /\ Detach(runtimes, agents)[a]
                  = IF a \in agents THEN Holding(runtimes[a], NoLease) ELSE runtimes[a]
  BY <1>2 DEF Detach, Registered, Shapes, Holding
<1>. QED BY <1>1, <1>2, HoldingFacts

\* A step that changes the leases and the lease attached to each runtime only.
LEMMA LeaseStep ==
  ASSUME AgentsInv, Registered' = Registered, UNCHANGED <<running, violations>>,
         interventions' \in {interventions, interventions + 1},
         DOMAIN index' \subseteq Agents, DOMAIN leases' \subseteq 1 .. interventions',
         \A a \in Registered :
           /\ IsRuntime(runtimes'[a])
           /\ runtimes'[a].executions = runtimes[a].executions
           /\ runtimes'[a].status = runtimes[a].status
  PROVE  Shapes' /\ CountsAgree' /\ Standing
<1>1. Shapes'
  BY DEF AgentsInv, Shapes
<1>2. CountsAgree'
  BY CountsFrame DEF AgentsInv
<1>. QED BY <1>1, <1>2, StandingUnchanged DEF AgentsInv

\* Releasing a lease by id, also a stale one, and every sweep of expired leases.
LEMMA DropStep ==
  ASSUME AgentsInv, NEW ids \in SUBSET DOMAIN leases, Drop(ids)
  PROVE  AgentsInv' /\ Standing
<1>. DEFINE gone == Holders(ids)
<1>1. /\ Shapes /\ LeasesMatch
      /\ leases' = Without(leases, ids) /\ index' = Without(index, gone)
      /\ runtimes' = Detach(runtimes, gone)
      /\ UNCHANGED <<running, violations, interventions>>
  BY DEF AgentsInv, Drop, UnchangedWork
<1>2. /\ DOMAIN leases' = DOMAIN leases \ ids /\ DOMAIN index' = DOMAIN index \ gone
      /\ \A id \in DOMAIN leases \ ids : leases'[id] = leases[id]
      /\ \A a \in DOMAIN index \ gone : index'[a] = index[a]
  BY <1>1 DEF Without
<1>3. \A a \in gone : \E id \in ids : a = leases[id].holder
  BY DEF Holders
<1>4. \A id \in ids : leases[id].holder \in gone
  BY DEF Holders
<1>. HIDE DEF gone
<1>5. /\ Registered' = Registered
      /\ \A a \in Registered :
           /\ IsRuntime(runtimes'[a])
           /\ runtimes'[a].executions = runtimes[a].executions
           /\ runtimes'[a].status = runtimes[a].status
           /\ runtimes'[a].lease = IF a \in gone THEN NoLease ELSE runtimes[a].lease
  BY <1>1, DetachFacts DEF Registered
<1>6. Shapes' /\ CountsAgree' /\ Standing
  <2>1. DOMAIN index' \subseteq Agents /\ DOMAIN leases' \subseteq 1 .. interventions'
    BY <1>1, <1>2 DEF Shapes
  <2>. QED BY <1>1, <1>5, <2>1, LeaseStep
<1>7. LeasesMatch'
  <2>1. ASSUME NEW id \in DOMAIN leases \ ids
        PROVE  leases[id].holder \in DOMAIN index \ gone
    \* Else the holder also held a released lease, and the index named both.
    BY <1>1, <1>3 DEF LeasesMatch, LeasesAgree
  <2>2. ASSUME NEW a \in DOMAIN index \ gone
        PROVE  index[a] \in DOMAIN leases \ ids
    BY <1>1, <1>4 DEF LeasesMatch, LeasesAgree
  <2>3. \A a \in Registered' :
          runtimes'[a].lease # NoLease =>
            a \in DOMAIN index' /\ index'[a] = runtimes'[a].lease
    BY <1>1, <1>2, <1>5 DEF LeasesMatch, LeasesAgree
  <2>. QED BY <1>1, <1>2, <2>1, <2>2, <2>3 DEF LeasesMatch, LeasesAgree
<1>. QED BY <1>6, <1>7 DEF AgentsInv

\* Acquiring a lease: what has expired is swept, the agent's own lease replaced,
\* and the new id is one no lease ever had.
LEMMA AcquireLeaseStep ==
  ASSUME AgentsInv, NEW a \in Agents, AcquireLease(a)
  PROVE  AgentsInv' /\ Standing
<1>. DEFINE expired == Expired
            gone == Holders(expired)
            own == {id \in DOMAIN leases \ expired : a \in DOMAIN index /\ id = index[a]}
            fresh == [holder |-> a, expiresAt |-> now + LeaseTtl]
            cleared == Detach(runtimes, gone)
<1>1. /\ Shapes /\ LeasesMatch /\ interventions \in Nat
      /\ interventions' = interventions + 1
      /\ UNCHANGED <<running, violations>>
      /\ DOMAIN Without(leases, expired) = DOMAIN leases \ expired
  BY DEF AgentsInv, Shapes, AcquireLease, Intervene, UnchangedWork, Without
<1>2. /\ leases' = With(Without(Without(leases, expired), own), FreshId, fresh)
      /\ index' = With(Without(index, gone), a, FreshId)
      /\ runtimes' = IF a \in Registered THEN [cleared EXCEPT ![a].lease = FreshId]
                                         ELSE cleared
  BY <1>1 DEF AcquireLease
<1>3. /\ FreshId = interventions + 1 /\ FreshId \in Nat /\ FreshId # NoLease
      /\ FreshId \notin DOMAIN leases /\ fresh.holder = a
  BY <1>1 DEF Shapes, FreshId
<1>4. \A b \in gone : \E id \in expired : b = leases[id].holder
  BY DEF Holders
<1>5. \A id \in expired : id \in DOMAIN leases /\ leases[id].holder \in gone
  BY DEF Holders, Expired
<1>. HIDE DEF gone, expired, fresh
<1>6. /\ DOMAIN leases' = ((DOMAIN leases \ expired) \ own) \cup {FreshId}
      /\ leases'[FreshId] = fresh
      /\ \A id \in (DOMAIN leases \ expired) \ own : leases'[id] = leases[id]
  <2>. HIDE DEF own
  <2>. QED BY <1>2, <1>3 DEF With, Without
<1>7. /\ DOMAIN index' = (DOMAIN index \ gone) \cup {a}
      /\ index'[a] = FreshId
      /\ \A b \in DOMAIN index \ gone : b # a => index'[b] = index[b]
  BY <1>2 DEF With, Without
<1>8. /\ Registered' = Registered
      /\ \A b \in Registered :
           /\ IsRuntime(runtimes'[b])
           /\ runtimes'[b].executions = runtimes[b].executions
           /\ runtimes'[b].status = runtimes[b].status
           /\ runtimes'[b].lease = IF b = a THEN FreshId
                                   ELSE IF b \in gone THEN NoLease ELSE runtimes[b].lease
  <2>1. /\ DOMAIN cleared = Registered
        /\ \A b \in Registered :
             /\ IsRuntime(cleared[b])
             /\ cleared[b].executions = runtimes[b].executions
             /\ cleared[b].status = runtimes[b].status
             /\ cleared[b].lease = IF b \in gone THEN NoLease ELSE runtimes[b].lease
    BY <1>1, DetachFacts
  <2>. HIDE DEF cleared
  <2>2. CASE a \in Registered
    <3>1. runtimes' = [cleared EXCEPT ![a] = Holding(cleared[a], FreshId)]
      BY <1>2, <2>2, Zenon DEF Holding
    <3>2. /\ IsRuntime(Holding(cleared[a], FreshId))
          /\ Holding(cleared[a], FreshId).lease = FreshId
          /\ Holding(cleared[a], FreshId).executions = cleared[a].executions
          /\ Holding(cleared[a], FreshId).status = cleared[a].status
      BY <1>3, <2>1, <2>2, HoldingFacts
    <3>. QED BY <2>1, <2>2, <3>1, <3>2 DEF Registered
  <2>3. CASE a \notin Registered
    BY <1>2, <2>1, <2>3 DEF Registered
  <2>. QED BY <2>2, <2>3
<1>9. Shapes' /\ CountsAgree' /\ Standing
  <2>1. DOMAIN index' \subseteq Agents /\ DOMAIN leases' \subseteq 1 .. interventions'
    BY <1>1, <1>3, <1>6, <1>7 DEF Shapes
  <2>. QED BY <1>1, <1>8, <2>1, LeaseStep
<1>10. LeasesMatch'
  <2>1. ASSUME NEW id \in (DOMAIN leases \ expired) \ own
        PROVE  /\ leases[id].holder \in DOMAIN index \ gone /\ leases[id].holder # a
               /\ index[leases[id].holder] = id
    BY <1>1, <1>4, <1>5 DEF LeasesMatch, LeasesAgree
  <2>2. ASSUME NEW b \in DOMAIN index \ gone, b # a
        PROVE  /\ index[b] \in (DOMAIN leases \ expired) \ own
               /\ leases[index[b]].holder = b
    <3>1. index[b] \in DOMAIN leases /\ leases[index[b]].holder = b
      BY <1>1 DEF LeasesMatch, LeasesAgree
    <3>2. index[b] \notin expired
      BY <1>5, <3>1
    <3>3. index[b] \notin own
      BY <1>1, <2>2, <3>1 DEF LeasesMatch
    <3>. QED BY <3>1, <3>2, <3>3
  <2>. HIDE DEF own
  <2>3. \A id \in DOMAIN leases' :
          leases'[id].holder \in DOMAIN index' /\ index'[leases'[id].holder] = id
    BY <1>3, <1>6, <1>7, <2>1
  <2>4. \A b \in DOMAIN index' :
          index'[b] \in DOMAIN leases' /\ leases'[index'[b]].holder = b
    BY <1>3, <1>6, <1>7, <2>2
  <2>5. \A b \in Registered' :
          runtimes'[b].lease # NoLease =>
            b \in DOMAIN index' /\ index'[b] = runtimes'[b].lease
    BY <1>1, <1>7, <1>8 DEF LeasesMatch, LeasesAgree
  <2>. QED BY <2>3, <2>4, <2>5 DEF LeasesMatch, LeasesAgree
<1>. QED BY <1>9, <1>10 DEF AgentsInv

-----------------------------------------------------------------------------
\* No agent is registered at the start, and nothing runs.
LEMMA AgentsInit == Init => AgentsInv
<1>. SUFFICES ASSUME Init PROVE AgentsInv
  OBVIOUS
<1>1. /\ Registered = {} /\ DOMAIN index = {} /\ DOMAIN leases = {}
      /\ running = [a \in Agents |-> 0] /\ violations = [a \in Agents |-> 0]
      /\ interventions = 0
  BY DEF Init, Registered
<1>2. Shapes
  BY <1>1, AgentsAssumption DEF Shapes
<1>3. Known = {}
  BY <1>1, KnownSlots DEF KnownSlot
<1>4. CountsAgree
  BY <1>1, <1>3, FS_EmptySet, AgentsAssumption
  DEF CountsAgree, CeilingCountsAllButEvicted, Known
<1>5. LeasesMatch
  BY <1>1 DEF LeasesMatch, LeasesAgree
<1>. QED BY <1>2, <1>4, <1>5 DEF AgentsInv

\* Every step of the registry, the scheduler and the leases.
LEMMA AgentsStep == AgentsInv /\ [Next]_vars => AgentsInv' /\ Standing
<1>. SUFFICES ASSUME AgentsInv, [Next]_vars PROVE AgentsInv' /\ Standing
  OBVIOUS
<1>1. violations \in [Agents -> 0 .. ViolationsBeforeRestriction - 1]
  BY DEF AgentsInv, Shapes
<1>2. ASSUME NEW a \in Agents, RegisterAgent(a) PROVE AgentsInv' /\ Standing
  BY <1>2, RegisterStep DEF RegisterAgent, UnchangedLeases, UnchangedWork
<1>3. ASSUME NEW a \in Agents, Gate(a) PROVE AgentsInv' /\ Standing
  BY <1>3, RegisterStep DEF Gate, UnchangedLeases
<1>4. ASSUME NEW a \in Agents, Answer(a) PROVE AgentsInv' /\ Standing
  BY <1>1, <1>4, RegistryLeftAlone DEF Answer, UnchangedLeases
<1>5. ASSUME NEW a \in Agents, OperatorRestricts(a) PROVE AgentsInv' /\ Standing
  BY <1>5, OperatorRestrictsStep
<1>6. ASSUME NEW a \in Agents, OperatorEvicts(a) PROVE AgentsInv' /\ Standing
  BY <1>6, OperatorEvictsStep
<1>7. ASSUME NEW a \in Agents, Isolate(a) PROVE AgentsInv' /\ Standing
  BY <1>7, IsolateStep
<1>8. ASSUME NEW a \in Agents, StartExecution(a) PROVE AgentsInv' /\ Standing
  BY <1>8, StartStep
<1>9. ASSUME NEW a \in Agents, EndExecution(a) PROVE AgentsInv' /\ Standing
  BY <1>9, EndStep
<1>10. ASSUME NEW a \in Agents, RecordViolation(a) PROVE AgentsInv' /\ Standing
  BY <1>10, RecordViolationStep
<1>11. ASSUME NEW a \in Agents,
              \/ RecordSessionCreated(a)
              \/ RecordSessionClosed(a)
              \/ \E c \in Compartments : AddCompartment(a, c)
              \/ \E score \in [Compartments -> Scores] : Propagate(a, score)
              \/ \E delta \in Degradations : Degrade(a, delta)
       PROVE  AgentsInv' /\ Standing
  BY <1>11, BookkeepingStep
<1>12. ASSUME NEW a \in Agents, AcquireLease(a) PROVE AgentsInv' /\ Standing
  BY <1>12, AcquireLeaseStep
<1>13. ASSUME NEW id \in 1 .. MaxInterventions, ReleaseLease(id)
       PROVE  AgentsInv' /\ Standing
  BY <1>13, DropStep DEF ReleaseLease
<1>14. CASE ExpireLeases
  BY <1>14, DropStep DEF ExpireLeases, Expired
<1>15. CASE Tick
  BY <1>1, <1>15, RegistryLeftAlone DEF Tick, UnchangedLeases
<1>16. CASE UNCHANGED vars
  BY <1>1, <1>16, RegistryLeftAlone DEF vars
<1>. QED BY <1>2, <1>3, <1>4, <1>5, <1>6, <1>7, <1>8, <1>9, <1>10, <1>11, <1>12, <1>13,
            <1>14, <1>15, <1>16 DEF Next

\* The registry, what is running and the lease store keep agreeing, in whatever
\* order the server, the scheduler's caller and the operator act.
THEOREM AgentsInvariance == Spec => []AgentsInv
<1>1. Init => AgentsInv
  BY AgentsInit
<1>2. AgentsInv /\ [Next]_vars => AgentsInv'
  BY AgentsStep
<1>. QED BY <1>1, <1>2, PTL DEF Spec

\* The scheduler's count is of what really runs, but for what evicted agents
\* still run, and what it counts never exceeds the global ceiling.
THEOREM AgentsCeiling == Spec => []CeilingCountsAllButEvicted
<1>1. AgentsInv => CeilingCountsAllButEvicted
  BY DEF AgentsInv, CountsAgree
<1>. QED BY <1>1, AgentsInvariance, PTL

\* Lease store, index and registry agree, whichever leases were replaced,
\* released by an old id or swept.
THEOREM AgentsLeases == Spec => []LeasesAgree
<1>1. AgentsInv => LeasesAgree
  BY DEF AgentsInv, LeasesMatch
<1>. QED BY <1>1, AgentsInvariance, PTL

\* No step raises an agent's standing, but for the two that make a quarantined
\* agent a restricted one.
THEOREM AgentsStanding == Spec => StandingOnlyWorsens
<1>1. AgentsInv /\ [Next]_vars => [Standing]_vars
  BY AgentsStep
<1>2. [][Standing]_vars => StandingOnlyWorsens
  BY PTL DEF StandingOnlyWorsens, Standing
<1>. QED BY <1>1, <1>2, AgentsInvariance, PTL DEF Spec
=============================================================================
