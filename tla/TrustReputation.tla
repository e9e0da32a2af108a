---------------------------- MODULE TrustReputation ----------------------------
(***************************************************************************)
(* The compartment trust engine of packages/core/src/trust-reputation: a   *)
(* bounded score per compartment, lowered by refusals and incidents,       *)
(* restored by clean executions and closed incidents within a budget per   *)
(* sliding window, and nudged back toward neutral by decay passes.         *)
(***************************************************************************)
EXTENDS Integers, Sequences, FiniteSetsExt

CONSTANTS
  Compartments,
  MaxScore, InitialScore,   \* score range 0 .. MaxScore and baseline
  Restricted, Neutral,      \* lower bounds of the restricted and neutral bands
  Penalty,                  \* event type -> points lost
  Recovery,                 \* recovery event type -> points gained
  RecoveryCap, WindowMs,    \* the recovery budget and its sliding window
  DecayInterval, DecayDelta, DecayCeiling,
  MaxEvents, MaxTime        \* bounds: events per compartment, the clock

TrustAssumption ==
  /\ MaxScore \in Nat /\ InitialScore \in 0 .. MaxScore
  /\ Restricted \in Nat /\ Neutral \in Nat
  /\ \A type \in DOMAIN Penalty : Penalty[type] \in Nat
  /\ \A type \in DOMAIN Recovery : Recovery[type] \in Nat \ {0}
  /\ DOMAIN Penalty \cap DOMAIN Recovery = {}
  /\ RecoveryCap \in Nat /\ WindowMs \in Nat
  /\ DecayInterval \in Nat \ {0} /\ DecayDelta \in Nat
  /\ DecayCeiling \in 0 .. MaxScore
  /\ MaxEvents \in Nat /\ MaxTime \in Nat

VARIABLES
  score,     \* score of each compartment that has a profile
  events,    \* its recorded events, with the delta that was applied
  marks,     \* recoveryHistory: the recovery granted and still in the window
  lastDecay, \* lastDecayAt: the last decay pass that examined it, or Never
  now

vars == <<score, events, marks, lastDecay, now>>

Never == -1

Type == DOMAIN Penalty \cup DOMAIN Recovery
Mark == [at: Nat, amount: Nat]
Event == [type: Type, delta: Int, at: Nat]

-----------------------------------------------------------------------------
Clamp(value) == IF value < 0 THEN 0 ELSE IF value > MaxScore THEN MaxScore ELSE value

\* levelForScore, as far as the gates tell levels apart.
Level(value) ==
  IF value >= Neutral THEN "neutral"
  ELSE IF value >= Restricted THEN "restricted" ELSE "quarantined"

\* ensureProfile: the baseline on first sight.
ScoreOf(c) == IF c \in DOMAIN score THEN score[c] ELSE InitialScore

\* The sum of a sequence of points, from the first on.
TotalOf(points) ==
  LET upTo[k \in 0 .. Len(points)] == IF k = 0 THEN 0 ELSE upTo[k - 1] + points[k]
  IN  upTo[Len(points)]

Amounts(s) == [k \in 1 .. Len(s) |-> s[k].amount]

\* The marks from `start` on; they are in order.
MarksSince(c, start) ==
  LET kept == {k \in DOMAIN marks[c] : marks[c][k].at >= start}
  IN  IF kept = {} THEN << >> ELSE SubSeq(marks[c], Min(kept), Len(marks[c]))

\* Faulty variant of InWindow: the window is open at its start.
InOpenWindow(c) == MarksSince(c, now - WindowMs + 1)

InWindow(c) == MarksSince(c, now - WindowMs)

\* capRecovery: what is left of the window's budget, at most the nominal delta.
Granted(c, delta) ==
  LET left == RecoveryCap - TotalOf(Amounts(InWindow(c)))
  IN  Min({delta, IF left > 0 THEN left ELSE 0})

-----------------------------------------------------------------------------
Init ==
  /\ score = << >>
  /\ events = [c \in Compartments |-> << >>]
  /\ marks = [c \in Compartments |-> << >>]
  /\ lastDecay = [c \in Compartments |-> Never]
  /\ now = 0

SetScore(c, value) ==
  score' = [d \in DOMAIN score \cup {c} |-> IF d = c THEN Clamp(value) ELSE score[d]]

Log(c, type, delta) ==
  /\ Len(events[c]) < MaxEvents
  /\ events' = [events EXCEPT ![c] = Append(@, [type |-> type, delta |-> delta, at |-> now])]

\* getOrCreateProfile by the trust gate: a profile at the baseline.
GetOrCreateProfile(c) ==
  /\ c \notin DOMAIN score
  /\ SetScore(c, InitialScore)
  /\ UNCHANGED <<events, marks, lastDecay, now>>

\* recordEvent of a refusal, a failure or an opened incident.
RecordPenalty(c, type) ==
  /\ Log(c, type, -Penalty[type])
  /\ SetScore(c, ScoreOf(c) - Penalty[type])
  /\ UNCHANGED <<marks, lastDecay, now>>

\* recordEvent of clean_execution or incident_closed, capped by the window.
RecordRecovery(c, type) ==
  LET delta == Granted(c, Recovery[type]) IN
  /\ Log(c, type, delta)
  /\ SetScore(c, ScoreOf(c) + delta)
  /\ marks' = [marks EXCEPT ![c] =
       IF delta > 0 THEN Append(InWindow(c), [at |-> now, amount |-> delta])
                    ELSE InWindow(c)]
  /\ UNCHANGED <<lastDecay, now>>

DecayDue(c) == lastDecay[c] = Never \/ now - lastDecay[c] >= DecayInterval

\* applyDecay: every profile whose last pass is an interval ago is examined,
\* and raised toward the ceiling when it is below.
ApplyDecay ==
  /\ score' = [c \in DOMAIN score |->
       IF DecayDue(c) /\ score[c] < DecayCeiling
         THEN Min({DecayCeiling, score[c] + DecayDelta}) ELSE score[c]]
  /\ lastDecay' = [c \in Compartments |->
       IF c \in DOMAIN score /\ DecayDue(c) THEN now ELSE lastDecay[c]]
  /\ UNCHANGED <<events, marks, now>>

\* clear drops every profile and all recovery and decay bookkeeping.
Clear ==
  /\ DOMAIN score # {}
  /\ score' = << >>
  /\ events' = [c \in Compartments |-> << >>]
  /\ marks' = [c \in Compartments |-> << >>]
  /\ lastDecay' = [c \in Compartments |-> Never]
  /\ UNCHANGED now

Tick ==
  /\ now < MaxTime
  /\ now' = now + 1
  /\ UNCHANGED <<score, events, marks, lastDecay>>

Next ==
  \/ \E c \in Compartments :
       \/ GetOrCreateProfile(c)
       \/ \E type \in DOMAIN Penalty : RecordPenalty(c, type)
       \/ \E type \in DOMAIN Recovery : RecordRecovery(c, type)
  \/ ApplyDecay
  \/ Clear
  \/ Tick

Spec == Init /\ [][Next]_vars

-----------------------------------------------------------------------------
\* The points the first k events gained by recoveries at from .. to, event by event.
Gains(c, k, from, to) ==
  [j \in 1 .. k |->
     IF events[c][j].type \in DOMAIN Recovery /\ events[c][j].at \in from .. to
       THEN events[c][j].delta ELSE 0]

\* "Total positive recovery applied within any windowMs sliding window is capped
\* at maxRecoveryPerWindow": over the whole recorded history, for every window,
\* although the engine forgets marks as they leave the current window.
RecoveryIsCapped ==
  \A c \in Compartments : \A start \in 0 .. now :
    TotalOf(Gains(c, Len(events[c]), start, start + WindowMs)) <= RecoveryCap

\* The budget is not withheld either: a recovery is cut short only when the
\* window ending with it has used the budget up.
CutOnlyWhenSpent ==
  \A c \in Compartments : \A k \in DOMAIN events[c] :
    LET e == events[c][k]
    IN  (e.type \in DOMAIN Recovery /\ e.delta < Recovery[e.type])
          => TotalOf(Gains(c, k, e.at - WindowMs, e.at)) = RecoveryCap

\* The recovery budget is spent exactly: never exceeded and never withheld.
RecoveryBudgetIsExact == RecoveryIsCapped /\ CutOnlyWhenSpent

=============================================================================
