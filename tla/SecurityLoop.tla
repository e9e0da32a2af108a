------------------------------ MODULE SecurityLoop ------------------------------
(***************************************************************************)
(* The feedback loop of the gateway (apps/grl-server/src/local-api.ts):    *)
(* what a request leads to is audited, the audit feeds the heuristics and  *)
(* the compartment's reputation, and anomalies, open incidents and the     *)
(* reputation decide about the next request.  It composes RuntimeSecurity  *)
(* and TrustReputation with the adaptive defence for the one compartment   *)
(* the server bootstraps.                                                  *)
(*                                                                         *)
(* Audit events that no heuristic rule watches and reputation events worth *)
(* nothing (capability_allowed) are left out.  The firewall, the privacy   *)
(* boundary and the transport appear through their outcomes.               *)
(***************************************************************************)
EXTENDS Integers, Sequences, FiniteSets, FiniteSetsExt

CONSTANTS
  Research,
  Rules,            \* heuristic rules, as in RuntimeSecurity
  Defences,         \* adaptive defence policies
  MaxScore, InitialScore, Restricted, Neutral,
  Penalty,          \* audited event type -> points lost
  IncidentPenalty,  \* incident severity -> points lost
  Recovery, RecoveryCap, WindowMs,
  MaxInFlight, MaxPending,        \* bounds: requests and approvals at a time,
  MaxEvents, MaxScored, MaxTime   \* events audited, events scored, the clock

VARIABLES
  history, anomalies, incidents, now,  \* the heuristics engine and detector
  score, events, marks,                \* the trust engine
  owned,    \* incidentCompartments: incidents the compartment answers for
  inflight, \* executions that have started and not answered
  pending   \* approval requests that await a decision

vars == <<history, anomalies, incidents, now, score, events, marks,
          owned, inflight, pending>>

Detector == INSTANCE RuntimeSecurity
Trust == INSTANCE TrustReputation WITH
  Compartments <- {Research}, lastDecay <- [c \in {Research} |-> -1],
  MaxEvents <- MaxScored, Penalty <- [type \in {} |-> 0],
  DecayInterval <- 1, DecayDelta <- 0, DecayCeiling <- 0

DefenceAction == {"temporary_block", "cooldown", "require_approval", "escalate_risk"}
Precedence == <<"temporary_block", "cooldown", "require_approval", "escalate_risk">>

\* Each policy: the action, and the anomaly types and open-incident severities
\* that trigger it.
ASSUME LoopAssumption ==
  /\ \A d \in Defences : /\ d.action \in DefenceAction
                         /\ d.anomalies \subseteq DOMAIN Rules
                         /\ d.severities \subseteq {"info", "warning", "critical"}
  /\ \A type \in DOMAIN Rules : Rules[type].severity \in DOMAIN IncidentPenalty
  /\ \A type \in DOMAIN Penalty : Penalty[type] \in Nat
  /\ \A severity \in DOMAIN IncidentPenalty : IncidentPenalty[severity] \in Nat
  /\ DOMAIN Recovery = {"clean_execution", "incident_closed"}
  /\ DOMAIN Penalty \cap {"clean_execution", "incident_closed", "incident_opened"} = {}
  /\ MaxInFlight \in Nat \ {0} /\ MaxPending \in Nat

ASSUME DetectorConstants == Detector!RulesAssumption
ASSUME TrustConstants == Trust!TrustAssumption

-----------------------------------------------------------------------------
\* applyTrustEvent of a loss.
Charge(s, type, points) ==
  [s EXCEPT !.score = Trust!Clamp(@ - points),
            !.events = Append(@, [type |-> type, delta |-> -points, at |-> now])]

\* observeSecurity: heuristics first, then the reputation event of the audited
\* type, then each incident it opened is charged and attributed.
ObserveSecurity(s, type) ==
  LET d == Detector!Observe(s, type, now)
      before == Len(s.incidents)
      opened == Len(d.incidents) - before
      seen == [s EXCEPT !.history = d.history, !.anomalies = d.anomalies,
                        !.incidents = d.incidents,
                        !.owned = @ \cup (before + 1 .. before + opened)]
      scored == IF type \in DOMAIN Penalty THEN Charge(seen, type, Penalty[type]) ELSE seen
      charged[n \in 0 .. opened] ==
        IF n = 0 THEN scored
        ELSE Charge(charged[n - 1], "incident_opened",
                    IncidentPenalty[d.incidents[before + n].severity])
  IN  charged[opened]

Relevant == Detector!EventType \cup DOMAIN Penalty

\* The stores that an audited event may change.
Stores ==
  [history |-> history, anomalies |-> anomalies, incidents |-> incidents, owned |-> owned,
   score |-> Trust!ScoreOf(Research), events |-> events[Research]]

\* A handler step that audits these types, in this order.
Audit(types) ==
  LET observed[k \in 0 .. Len(types)] ==
        IF k = 0 THEN Stores
        ELSE IF types[k] \in Relevant THEN ObserveSecurity(observed[k - 1], types[k])
        ELSE observed[k - 1]
      s == observed[Len(types)]
  IN  /\ Len(s.history) <= MaxEvents
      /\ history' = s.history /\ anomalies' = s.anomalies
      /\ incidents' = s.incidents /\ owned' = s.owned
      /\ score' = [c \in {Research} |-> s.score]
      /\ events' = [c \in {Research} |-> s.events]

\* A handler step whose reputation event is a recovery and nothing watched.
Recover(type) ==
  /\ Trust!RecordRecovery(Research, type)
  /\ UNCHANGED <<history, anomalies>>

-----------------------------------------------------------------------------
Open == {k \in DOMAIN incidents : incidents[k].status = "open"}

\* AdaptiveDefenseEngine.evaluate over every anomaly ever raised and the open
\* incidents.
Fired ==
  {d \in Defences : \/ \E a \in anomalies : a.type \in d.anomalies
                    \/ \E k \in Open : incidents[k].severity \in d.severities}

\* The places in Precedence of the actions that the decisions ask for.
Wanted == {k \in 1 .. Len(Precedence) : \E d \in Fired : d.action = Precedence[k]}

\* Faulty variant of Chosen: the weakest decision wins.
ChosenWeakest == IF Wanted = {} THEN "allow" ELSE Precedence[Max(Wanted)]

\* The handler's choice among the decisions, by precedence.
Chosen == IF Wanted = {} THEN "allow" ELSE Precedence[Min(Wanted)]

\* The trust gate, then adaptive defence: what becomes of a request.
Verdict ==
  LET level == Trust!Level(Trust!ScoreOf(Research)) IN
  IF level = "quarantined" THEN "denied"
  ELSE IF level = "restricted" THEN "pending"
  ELSE IF Chosen \in {"temporary_block", "cooldown"} THEN "denied"
  ELSE IF Chosen = "require_approval" THEN "pending" ELSE "proceed"

Enqueue == pending < MaxPending /\ pending' = pending + 1

-----------------------------------------------------------------------------
Init ==
  /\ history = << >> /\ anomalies = {} /\ incidents = << >> /\ now = 0
  /\ score = << >>
  /\ events = [c \in {Research} |-> << >>]
  /\ marks = [c \in {Research} |-> << >>]
  /\ owned = {} /\ inflight = 0 /\ pending = 0

\* The trust gate or a defence policy ends the request.
Stop ==
  /\ Verdict # "proceed"
  /\ IF Verdict = "pending" THEN Enqueue ELSE UNCHANGED pending
  /\ Audit(<< >>)
  /\ UNCHANGED <<now, marks, inflight>>

\* A later gate refuses: the firewall or the privacy boundary.
Refuse(type) ==
  /\ Verdict = "proceed"
  /\ Audit(<<type>>)
  /\ UNCHANGED <<now, marks, inflight, pending>>

\* A later gate asks for confirmation.
Confirm ==
  /\ Verdict = "proceed"
  /\ Enqueue
  /\ Audit(<< >>)
  /\ UNCHANGED <<now, marks, inflight>>

\* Every gate passes: the session is chosen, possibly rotated, and the handler
\* awaits the transport.
Start(rotated) ==
  /\ Verdict = "proceed"
  /\ inflight < MaxInFlight
  /\ inflight' = inflight + 1
  /\ Audit(IF rotated THEN <<"session_rotated">> ELSE << >>)
  /\ UNCHANGED <<now, marks, pending>>

\* The transport answered; nothing is re-checked after the await.
FinishSucceeded ==
  /\ inflight > 0
  /\ inflight' = inflight - 1
  /\ Recover("clean_execution")
  /\ UNCHANGED <<incidents, owned, pending>>

FinishRefused(types) ==
  /\ inflight > 0
  /\ inflight' = inflight - 1
  /\ Audit(types)
  /\ UNCHANGED <<now, marks, pending>>

\* handleApprovalDecision; a rejection is audited and scored.
Reject ==
  /\ pending > 0
  /\ pending' = pending - 1
  /\ Audit(<<"approval_rejected">>)
  /\ UNCHANGED <<now, marks, inflight>>

\* Faulty variant of Settle: approving a request counts as a clean execution.
SettleCredited ==
  /\ pending > 0
  /\ pending' = pending - 1
  /\ Recover("clean_execution")
  /\ UNCHANGED <<incidents, owned, inflight>>

\* Approving a request, or letting it expire, executes nothing.
Settle ==
  /\ pending > 0
  /\ pending' = pending - 1
  /\ UNCHANGED <<history, anomalies, incidents, now, score, events, marks,
                 owned, inflight>>

\* Faulty variant of CloseIncident: the attribution survives the close.
CloseKeepingOwner(k) ==
  /\ incidents' = [incidents EXCEPT ![k].status = "closed"]
  /\ IF k \in owned
       THEN Recover("incident_closed") /\ UNCHANGED owned
       ELSE UNCHANGED <<history, anomalies, now, score, events, marks, owned>>
  /\ UNCHANGED <<inflight, pending>>

\* POST /v1/security/incidents/:id/close; a second close finds no owner.
CloseIncident(k) ==
  /\ incidents' = [incidents EXCEPT ![k].status = "closed"]
  /\ IF k \in owned
       THEN Recover("incident_closed") /\ owned' = owned \ {k}
       ELSE UNCHANGED <<history, anomalies, now, score, events, marks, owned>>
  /\ UNCHANGED <<inflight, pending>>

Tick ==
  /\ now < MaxTime
  /\ now' = now + 1
  /\ UNCHANGED <<history, anomalies, incidents, score, events, marks, owned,
                 inflight, pending>>

Next ==
  \/ Stop
  \/ \E type \in {"capability_denied", "privacy_boundary_blocked"} : Refuse(type)
  \/ Confirm
  \/ \E rotated \in BOOLEAN : Start(rotated)
  \/ FinishSucceeded
  \/ FinishRefused(<<"execution_failed">>)
  \/ FinishRefused(<<"execution_blocked">>)
  \/ FinishRefused(<<"sandbox_blocked", "execution_blocked">>)
  \/ Reject
  \/ Settle
  \/ \E k \in DOMAIN incidents : CloseIncident(k)
  \/ Tick

Spec == Init /\ [][Next]_vars

-----------------------------------------------------------------------------
\* Every variable holds a value of its type.
TypeOK ==
  /\ \A k \in DOMAIN history : history[k].at \in 0 .. now
  /\ \A k \in DOMAIN incidents : incidents[k].status \in {"open", "closed"}
  /\ DOMAIN score \subseteq {Research}
  /\ \A c \in DOMAIN score : score[c] \in 0 .. MaxScore
  /\ owned \subseteq DOMAIN incidents
  /\ inflight \in 0 .. MaxInFlight /\ pending \in 0 .. MaxPending

Recorded(type) == Cardinality({k \in DOMAIN events[Research] : events[Research][k].type = type})

\* The reputation follows the audit trail: each refusal is charged exactly once,
\* each incident is charged once when it opens and credited once when it closes,
\* however often it is closed and whatever was observed in between.
ReputationFollowsAudit ==
  /\ \A type \in DOMAIN Penalty :
       Recorded(type) = Cardinality({k \in DOMAIN history : history[k].type = type})
  /\ Recorded("incident_opened") = Len(incidents)
  /\ Recorded("incident_closed") = Len(incidents) - Cardinality(Open)
  /\ owned = Open

\* The rules that watch what one request leads to at most once: every shipped rule
\* but the one for rejections, which are not requests.
OncePerRequest(type) ==
  \/ Rules[type].watched \subseteq
       {"capability_denied", "privacy_boundary_blocked", "session_rotated"}
  \/ Rules[type].watched \subseteq {"execution_failed", "execution_blocked"}
  \/ Rules[type].watched \subseteq {"execution_failed", "sandbox_blocked"}

\* A policy answers the anomaly by stopping requests.
Stopped(type) == \E d \in Defences : d.action # "escalate_risk" /\ type \in d.anomalies

\* The loop closes in time: a burst that a policy answers by stopping requests
\* goes at most MaxInFlight - 1 events beyond its threshold within the window,
\* even if the operator closes every incident at once.
BurstIsContained ==
  \A type \in DOMAIN Rules : \A k \in DOMAIN history :
    (OncePerRequest(type) /\ Stopped(type)) =>
      Cardinality({j \in 1 .. k : /\ history[j].type \in Rules[type].watched
                                  /\ history[j].at >= history[k].at - Rules[type].window})
        < Rules[type].threshold + MaxInFlight

\* Restriction is a trap: with nothing left in flight, a compartment below the
\* neutral band gains no reputation unless an operator closes an incident.
\* Approvals do not help, and the server never runs a decay pass.
RestrictionLiftsOnlyByClosing ==
  [][(/\ Trust!Level(Trust!ScoreOf(Research)) # "neutral"
      /\ inflight = 0
      /\ Trust!ScoreOf(Research)' > Trust!ScoreOf(Research))
        => \E k \in Open : incidents'[k].status = "closed"]_vars

=============================================================================
