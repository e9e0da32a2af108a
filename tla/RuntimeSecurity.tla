---------------------------- MODULE RuntimeSecurity ----------------------------
(***************************************************************************)
(* The runtime heuristics engine and incident detector of                  *)
(* packages/core/src/runtime-security: every audited event is added to a   *)
(* history, a rule that counts exactly its threshold of watched events in  *)
(* its window raises an anomaly, and every anomaly becomes an incident.    *)
(*                                                                         *)
(* The effect of one event is an operator on a record of the three stores, *)
(* so that SecurityLoop can apply several events within one handler step.  *)
(* An event is identified by its position in the history.                  *)
(***************************************************************************)
EXTENDS Integers, Sequences, FiniteSets, SequencesExt

CONSTANTS
  Rules,      \* anomaly type -> its heuristic rule
  MaxEvents,  \* bound: events observed
  MaxTime     \* bound: the clock

VARIABLES
  history,    \* every event observed: [type, at]
  anomalies,  \* every anomaly raised: [type, related]
  incidents,  \* every incident opened: [type, severity, related, status]
  now

vars == <<history, anomalies, incidents, now>>

EventType == UNION {Rules[type].watched : type \in DOMAIN Rules}
Severity == {"info", "warning", "critical"}

RulesAssumption ==
  /\ IsFiniteSet(DOMAIN Rules)
  /\ \A type \in DOMAIN Rules :
       /\ Rules[type].threshold \in Nat \ {0}
       /\ Rules[type].window \in Nat
       /\ Rules[type].severity \in Severity

-----------------------------------------------------------------------------
\* The watched events in the window that ends with event k.
Matches(h, rule, k) ==
  {j \in 1 .. k : h[j].type \in rule.watched /\ h[j].at >= h[k].at - rule.window}

\* Faulty variant of Triggered: one more than the threshold.
TriggeredAbove(h) ==
  {type \in DOMAIN Rules :
     /\ h[Len(h)].type \in Rules[type].watched
     /\ Cardinality(Matches(h, Rules[type], Len(h))) = Rules[type].threshold + 1}

\* ingest: the anomaly types whose rule the newest event triggers.
Triggered(h) ==
  {type \in DOMAIN Rules :
     /\ h[Len(h)].type \in Rules[type].watched
     /\ Cardinality(Matches(h, Rules[type], Len(h))) = Rules[type].threshold}

Anomaly(h, type) ==
  [type |-> type, at |-> h[Len(h)].at, related |-> Matches(h, Rules[type], Len(h))]

\* process: one incident per anomaly type of the batch.
Incident(anomaly) ==
  [type |-> anomaly.type, severity |-> Rules[anomaly.type].severity,
   related |-> anomaly.related, status |-> "open"]

\* Faulty variant of Observe: an open incident of the type suppresses the next.
ObserveOncePerType(s, type, at) ==
  LET h == Append(s.history, [type |-> type, at |-> at])
      raised == {Anomaly(h, t) : t \in Triggered(h)}
      open == {i.type : i \in {j \in ToSet(s.incidents) : j.status = "open"}}
      opened == {i \in {Incident(a) : a \in raised} : i.type \notin open}
  IN  [history |-> h,
       anomalies |-> s.anomalies \cup raised,
       incidents |-> s.incidents \o SetToSeq(opened)]

\* observeSecurity, the heuristics part: ingest the event, then process the
\* batch; an incident identical to one still open is suppressed.
Observe(s, type, at) ==
  LET h == Append(s.history, [type |-> type, at |-> at])
      raised == {Anomaly(h, t) : t \in Triggered(h)}
      opened == {Incident(a) : a \in raised} \ ToSet(s.incidents)
  IN  [history |-> h,
       anomalies |-> s.anomalies \cup raised,
       incidents |-> s.incidents \o SetToSeq(opened)]

Stores == [history |-> history, anomalies |-> anomalies, incidents |-> incidents]

-----------------------------------------------------------------------------
Init ==
  /\ history = << >>
  /\ anomalies = {}
  /\ incidents = << >>
  /\ now = 0

ObserveSecurity(type) ==
  /\ Len(history) < MaxEvents
  /\ LET s == Observe(Stores, type, now) IN
       /\ history' = s.history
       /\ anomalies' = s.anomalies
       /\ incidents' = s.incidents
  /\ UNCHANGED now

\* closeIncident; closing a closed incident changes nothing but its updatedAt.
CloseIncident(k) ==
  /\ incidents' = [incidents EXCEPT ![k].status = "closed"]
  /\ UNCHANGED <<history, anomalies, now>>

Tick ==
  /\ now < MaxTime
  /\ now' = now + 1
  /\ UNCHANGED <<history, anomalies, incidents>>

Next ==
  \/ \E type \in EventType : ObserveSecurity(type)
  \/ \E k \in DOMAIN incidents : CloseIncident(k)
  \/ Tick

Spec == Init /\ [][Next]_vars

-----------------------------------------------------------------------------
\* No burst slips past the exact-crossing test (`matches.length !== threshold`):
\* a window that holds at least the threshold belongs to a run of such windows,
\* and an anomaly was raised within that run, at the latest by its last event.
BurstsAreDetected ==
  \A type \in DOMAIN Rules : \A k \in DOMAIN history :
    LET rule == Rules[type]
        Watched(j) == history[j].type \in rule.watched
        Crowded(j) == Cardinality(Matches(history, rule, j)) >= rule.threshold
    IN  (Watched(k) /\ Crowded(k)) =>
          \E a \in anomalies :
            /\ a.type = type
            /\ Max(a.related) <= k
            /\ \A j \in Max(a.related) .. k : Watched(j) => Crowded(j)

\* An anomaly rests on exactly its threshold of watched events, all of them
\* within one window: no anomaly is raised on stale or foreign events.
AnomaliesAreEarned ==
  \A a \in anomalies :
    /\ Cardinality(a.related) = Rules[a.type].threshold
    /\ \A j \in a.related :
         /\ history[j].type \in Rules[a.type].watched
         /\ history[j].at \in a.at - Rules[a.type].window .. a.at

\* The incidents are the anomalies, one each: duplicate suppression never hides
\* a burst, and no burst is reported twice, closed incidents included.
IncidentPerAnomaly ==
  /\ {[type |-> incidents[k].type, related |-> incidents[k].related] : k \in DOMAIN incidents}
       = {[type |-> a.type, related |-> a.related] : a \in anomalies}
  /\ Len(incidents) = Cardinality(anomalies)

\* Detection neither misses nor invents: bursts, anomalies and incidents agree.
DetectionIsExact == BurstsAreDetected /\ AnomaliesAreEarned /\ IncidentPerAnomaly
=============================================================================
