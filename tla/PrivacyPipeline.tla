---------------------------- MODULE PrivacyPipeline ----------------------------
(***************************************************************************)
(* runPrivacyPipeline (apps/grl-server/src/local-api.ts) and the engines it *)
(* calls for every request (packages/core/src): behavioral-privacy, which   *)
(* scores the agent's rhythm and keeps its identity fragments,              *)
(* persona-isolation, which keeps a persona per research topic and binds it *)
(* to a fragment, and temporal-obfuscation, which smooths the cadence,      *)
(* recognises bursts and spends a budget.                                   *)
(*                                                                         *)
(* The server records no topic labels and calls no decay, no expireFragments*)
(* and no clear; those are left out, as are audit events and the length of  *)
(* a delay.  IdentityEngines holds the abstract persona, a count.           *)
(***************************************************************************)
EXTENDS IdentityEngines, Sequences, FiniteSets, FiniteSetsExt

CONSTANTS
  Agents,
  BurstGap, AccessLimit, PatternScore,         \* behavioural correlation
  MediumScore, HighScore, CriticalScore,
  MaxRequestsPerFragment, FragmentTtl,
  MinSpacing, RecentLimit,                     \* cadence
  BurstThreshold, BurstWindow, Cooldown,
  MaxRequestsPerWindow, BudgetWindow,
  ForceDelayOnExhaustion,
  MaxRequests,                                 \* bound: requests in all
  MaxTime                                      \* bound: the clock

\* Two accesses a request, so the accesses kept hold enough back-to-back pairs
\* to reach the critical score (100 accesses, 5 a pair, critical from 80).
ASSUME PrivacyAssumption ==
  /\ {BurstGap, FragmentTtl, BurstWindow, BudgetWindow} \subseteq Nat \ {0}
  /\ {MaxRequestsPerFragment, MaxRequestsPerWindow, BurstThreshold} \subseteq Nat \ {0}
  /\ {AccessLimit, PatternScore, MediumScore, HighScore, CriticalScore} \subseteq Nat
  /\ MediumScore <= HighScore /\ HighScore <= CriticalScore
  /\ PatternScore * ((AccessLimit - 2) \div 2) >= CriticalScore
  /\ {MinSpacing, Cooldown, RecentLimit, MaxRequests, MaxTime} \subseteq Nat
  /\ RecentLimit >= BurstThreshold
  /\ ForceDelayOnExhaustion \in BOOLEAN

VARIABLES
  accesses,       \* temporalBuckets: agent -> times of its latest accesses
  fragments,      \* agent -> its identity fragments, in order of creation
  personas,       \* agent -> its personas, in order of creation
  executions,     \* agent -> times of its latest recorded executions
  cooldownUntil,  \* agent -> end of its burst cooldown
  budget,         \* agent -> its temporal budget
  answer,         \* agent -> what the pipeline said about its latest request
  bound,          \* history: agent -> the fragment each of its searches was bound to
  unblocked,      \* history: agent -> times of searches not signalled as blocked
  served, now

vars == <<accesses, fragments, personas, executions, cooldownUntil, budget,
          answer, bound, unblocked, served, now>>

Latest(s, n) == IF Len(s) <= n THEN s ELSE SubSeq(s, Len(s) - n + 1, Len(s))

-----------------------------------------------------------------------------
(* Behavioural correlation. *)

\* Faulty variant of RecordAccess: only the accesses of one gap are kept.
RecordAccessRecent(s) == Append(SelectSeq(s, LAMBDA t : now - t < BurstGap), now)

RecordAccess(s) == Latest(Append(s, now), AccessLimit)

\* temporalPatternCount: neighbours closer than BurstGap.
Patterns(s) == Cardinality({i \in 2 .. Len(s) : s[i] - s[i - 1] < BurstGap})

\* updateBehaviorScore and classifyRisk; the cap lies above every threshold.
CorrelationRisk(s) ==
  LET score == PatternScore * Patterns(s) IN
  IF score >= CriticalScore THEN "critical"
  ELSE IF score >= HighScore THEN "high"
  ELSE IF score >= MediumScore THEN "medium"
  ELSE "low"

\* evaluateRequest records the access it then judges.
RequestRisk(a) == CorrelationRisk(RecordAccess(accesses[a]))

\* recordBehavior records the same request once more, refused or not.
Observed(a) == RecordAccess(RecordAccess(accesses[a]))

-----------------------------------------------------------------------------
(* Identity fragments; a fragment is known by its place in the sequence. *)

Fragment == [active |-> TRUE, expiresAt |-> now + FragmentTtl, requests |-> 0]

Usable(fs) ==
  {i \in DOMAIN fs : /\ fs[i].active /\ fs[i].expiresAt > now
                     /\ fs[i].requests < MaxRequestsPerFragment}

\* getActiveFragment: what the agent's fragments then are, and the one returned.
WithActive(fs) == IF Usable(fs) = {} THEN Append(fs, Fragment) ELSE fs
ActiveFragment(fs) == Min(Usable(WithActive(fs)))

\* Faulty variant of RotateFragment: the fragments before it stay active.
RotateKeeping(fs) == Append(fs, Fragment)
RotateFragment(fs) ==
  Append([i \in DOMAIN fs |-> [fs[i] EXCEPT !.active = FALSE]], Fragment)

RecordRequest(fs) ==
  [WithActive(fs) EXCEPT ![ActiveFragment(fs)].requests = @ + 1]

\* Only a fragment that was not rotated for this request counts it.
Fragmented(a) ==
  IF RequestRisk(a) = "high" THEN RotateFragment(fragments[a])
                             ELSE RecordRequest(fragments[a])

-----------------------------------------------------------------------------
(* Personas; bindings are active exactly while their persona is. *)

FindActive(ps, topic) == {i \in DOMAIN ps : ps[i].active /\ ps[i].topic = topic}
FreshPersona(topic) == [topic |-> topic, active |-> TRUE, searches |-> 0, fragments |-> {}]

\* derivePersonaRisk, as far as the decision reads it.
PersonaRisk(p) == IF p.searches >= MaxSearches THEN "critical" ELSE "below"

\* evaluatePersonaIsolation with evaluate of the segmentation engine.
Isolation(ps, topic) ==
  LET found == FindActive(ps, topic) IN
  IF found = {}
    THEN [newFragment |-> TRUE, isolateSession |-> topic \in Sensitive, escalate |-> FALSE]
    ELSE LET p == ps[Min(found)]
             saturated == p.searches >= MaxSearches
         IN  [newFragment |-> saturated,
              isolateSession |-> saturated \/ topic \in Sensitive,
              escalate |-> PersonaRisk(p) = "critical"]

\* Faulty variant of GetOrCreatePersona: a saturated persona stays active.
GetOrCreateKeeping(ps, topic) ==
  LET found == FindActive(ps, topic) IN
  IF found # {} /\ ps[Min(found)].searches < MaxSearches THEN ps
  ELSE Append(ps, FreshPersona(topic))

\* getOrCreatePersona: a saturated persona is retired for a fresh one.
GetOrCreatePersona(ps, topic) ==
  LET found == FindActive(ps, topic) IN
  IF found = {} THEN Append(ps, FreshPersona(topic))
  ELSE IF ps[Min(found)].searches < MaxSearches THEN ps
  ELSE Append([ps EXCEPT ![Min(found)].active = FALSE], FreshPersona(topic))

\* bind, bindFragment and recordPersonaSearch on the active persona.
Search(ps, topic, fragment) ==
  [ps EXCEPT ![Min(FindActive(ps, topic))].fragments = @ \cup {fragment},
             ![Min(FindActive(ps, topic))].searches = @ + 1]

-----------------------------------------------------------------------------
(* Temporal obfuscation. *)

SinceLast(a) == now - executions[a][Len(executions[a])]

\* The coefficient of variation of the gaps is below percent/100:
\* n * sum of squares / (sum)^2 - 1 < (percent/100)^2, and 0 when all gaps are.
Regular(s, percent) ==
  LET n == Len(s) - 1
      gap(i) == s[i + 1] - s[i]
      sum == s[Len(s)] - s[1]
      squares == MapThenSumSet(LAMBDA i : gap(i) * gap(i), 1 .. n)
  IN  sum = 0 \/ 10000 * (n * squares - sum * sum) < percent * percent * sum * sum

\* assessCadenceRisk together with the spacing test of evaluate.
RequiresSmoothing(a) ==
  LET s == executions[a] IN
  /\ s # << >>
  /\ \/ SinceLast(a) < MinSpacing
     \/ Len(s) >= 4 /\ Regular(s, 15)

InWindow(a) == Cardinality({i \in DOMAIN executions[a] : executions[a][i] >= now - BurstWindow})

\* Math.ceil of a share of the threshold, in tenths.
Share(tenths) == (BurstThreshold * tenths + 9) \div 10

BurstRisk(a) ==
  IF now < cooldownUntil[a] \/ InWindow(a) >= BurstThreshold THEN "critical"
  ELSE IF InWindow(a) >= Share(6) THEN "high"
  ELSE "below"

Exhausted(a) == now < budget[a].resetsAt /\ budget[a].remaining = 0

\* evaluateTemporalRisk and the signal the server makes of it.
TemporalAction(a) ==
  IF Exhausted(a) /\ ForceDelayOnExhaustion THEN "temporary_block"
  ELSE IF BurstRisk(a) # "below" \/ Exhausted(a) THEN "cooldown"
  ELSE IF RequiresSmoothing(a) THEN "delay"
  ELSE "allow"

FullBudget == [remaining |-> MaxRequestsPerWindow, resetsAt |-> now + BudgetWindow]
NoBudget == [remaining |-> MaxRequestsPerWindow, resetsAt |-> 0]

\* Faulty variant of Consume: the new window is not opened.
ConsumeForgetting(b) ==
  LET open == IF now >= b.resetsAt THEN FullBudget ELSE b
  IN  [open EXCEPT !.remaining = Max({0, @ - 1}),
                   !.resetsAt = IF b = NoBudget THEN @ ELSE b.resetsAt]

\* consumeBudget; an absent budget is an expired one.
Consume(b) ==
  LET open == IF now >= b.resetsAt THEN FullBudget ELSE b
  IN  [open EXCEPT !.remaining = Max({0, @ - 1})]

\* recordExecution of the burst engine.
CooldownAfter(a) ==
  IF InWindow(a) + 1 >= BurstThreshold THEN now + Cooldown ELSE cooldownUntil[a]

-----------------------------------------------------------------------------
NoAnswer == [behaviour |-> "none", temporal |-> "none", persona |-> "none"]

Init ==
  /\ accesses = [a \in Agents |-> << >>]
  /\ fragments = [a \in Agents |-> << >>]
  /\ personas = [a \in Agents |-> << >>]
  /\ executions = [a \in Agents |-> << >>]
  /\ cooldownUntil = [a \in Agents |-> 0]
  /\ budget = [a \in Agents |-> NoBudget]
  /\ answer = [a \in Agents |-> NoAnswer]
  /\ bound = [a \in Agents |-> << >>]
  /\ unblocked = [a \in Agents |-> << >>]
  /\ served = 0 /\ now = 0

Arrive(a) ==
  /\ served < MaxRequests
  /\ served' = served + 1
  /\ accesses' = [accesses EXCEPT ![a] = Observed(a)]
  /\ UNCHANGED now

\* Critical correlation: nothing else is consulted or recorded.
Refuse(a) ==
  /\ RequestRisk(a) = "critical"
  /\ Arrive(a)
  /\ answer' = [answer EXCEPT ![a] = [NoAnswer EXCEPT !.behaviour = "deny"]]
  /\ UNCHANGED <<fragments, personas, executions, cooldownUntil, budget, bound, unblocked>>

BehaviouralAction(risk) ==
  CASE risk = "low" -> "allow" [] risk = "medium" -> "delay" [] risk = "high" -> "rotate_fragment"

\* The pipeline in its order.  The fragment a persona is bound to is asked for
\* again after the request has been counted, so it may be a new one.
Continue(a, topic) ==
  /\ RequestRisk(a) # "critical"
  /\ Arrive(a)
  /\ LET fragment == ActiveFragment(Fragmented(a)) IN
       /\ fragments' = [fragments EXCEPT ![a] = WithActive(Fragmented(a))]
       /\ personas' = [personas EXCEPT ![a] =
                         Search(GetOrCreatePersona(@, topic), topic, fragment)]
       /\ bound' = [bound EXCEPT ![a] = Append(@, fragment)]
  /\ executions' = [executions EXCEPT ![a] = Latest(Append(@, now), RecentLimit)]
  /\ cooldownUntil' = [cooldownUntil EXCEPT ![a] = CooldownAfter(a)]
  /\ budget' = [budget EXCEPT ![a] = Consume(@)]
  /\ answer' = [answer EXCEPT ![a] =
       [behaviour |-> BehaviouralAction(RequestRisk(a)), temporal |-> TemporalAction(a),
        persona |-> IF Isolation(personas[a], topic).newFragment THEN "rotate_fragment"
                                                                 ELSE "allow"]]
  /\ unblocked' = IF TemporalAction(a) = "temporary_block" THEN unblocked
                  ELSE [unblocked EXCEPT ![a] = Append(@, now)]

\* GET /v1/privacy/temporal/budgets: listBudgets opens a new window for every
\* budget whose window is over.
ListBudgets ==
  /\ budget' = [a \in Agents |->
       IF budget[a] # NoBudget /\ now >= budget[a].resetsAt THEN FullBudget ELSE budget[a]]
  /\ UNCHANGED <<accesses, fragments, personas, executions, cooldownUntil, answer,
                 bound, unblocked, served, now>>

\* GET /v1/privacy/temporal/budgets/:agentId: getBudget opens the first window.
GetBudget(a) ==
  /\ budget[a] = NoBudget
  /\ budget' = [budget EXCEPT ![a] = FullBudget]
  /\ UNCHANGED <<accesses, fragments, personas, executions, cooldownUntil, answer,
                 bound, unblocked, served, now>>

Tick ==
  /\ now < MaxTime
  /\ now' = now + 1
  /\ UNCHANGED <<accesses, fragments, personas, executions, cooldownUntil, budget,
                 answer, bound, unblocked, served>>

Next ==
  \/ \E a \in Agents : \/ Refuse(a) \/ GetBudget(a)
                       \/ \E topic \in Topics : Continue(a, topic)
  \/ ListBudgets
  \/ Tick

Spec == Init /\ [][Next]_vars

-----------------------------------------------------------------------------
\* Every variable holds a value of its type.
TypeOK ==
  \A a \in Agents :
    /\ Len(accesses[a]) <= AccessLimit /\ Len(executions[a]) <= RecentLimit
    /\ \A i \in DOMAIN fragments[a] : fragments[a][i].requests \in 0 .. MaxRequestsPerFragment
    /\ \A i \in DOMAIN personas[a] :
         /\ personas[a][i].topic \in Topics
         /\ personas[a][i].fragments \subseteq DOMAIN fragments[a]
    /\ budget[a].remaining \in 0 .. MaxRequestsPerWindow
    /\ \A i \in DOMAIN bound[a] : bound[a][i] \in DOMAIN fragments[a]

\* The identity fragments an agent searches under only move forward, through
\* rotation, expiry and the request ceiling in any order, and none serves more
\* searches than maxRequestsPerFragment, although a request is counted on one
\* fragment and bound to the next when it reaches the ceiling.
IdentityMovesForward ==
  \A a \in Agents :
    /\ \A i \in 2 .. Len(bound[a]) : bound[a][i - 1] <= bound[a][i]
    /\ \A f \in DOMAIN fragments[a] :
         Cardinality({i \in DOMAIN bound[a] : bound[a][i] = f}) <= MaxRequestsPerFragment

\* A refusal for critical correlation is for ever: a refused request counts as
\* two more accesses, and what falls out of the accesses kept never takes the
\* score below critical again, however long the agent waits.
LockoutIsForever ==
  [][\A a \in Agents : answer[a].behaviour = "deny" => answer'[a].behaviour = "deny"]_vars

\* The budget bounds the density of unblocked searches: never more than two
\* budgets in any stretch of one window, whatever reads of the budgets
\* move the windows.
DensityIsBounded ==
  \A a \in Agents, start \in 0 .. MaxTime :
    Cardinality({i \in DOMAIN unblocked[a] :
                   unblocked[a][i] >= start /\ unblocked[a][i] < start + BudgetWindow})
      <= 2 * MaxRequestsPerWindow

Searches(ps, topic) ==
  LET found == FindActive(ps, topic) IN
  IF found = {} THEN NoPersona ELSE ps[Min(found)].searches

\* The personas implement the counts of IdentityEngines: a topic has one active
\* persona, its decision is the abstract one, and each search of the topic
\* advances the count or restarts it at saturation, in every order of topics.
PersonasImplementCounts ==
  [][\A a \in Agents, topic \in Topics :
       /\ Isolation(personas[a], topic) = PersonaDecision(Searches(personas[a], topic), topic)
       /\ Searches(personas'[a], topic) \in
            {Searches(personas[a], topic), Searched(Searches(personas[a], topic))}]_vars
=============================================================================
