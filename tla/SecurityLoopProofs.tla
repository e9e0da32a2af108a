------------------------- MODULE SecurityLoopProofs -------------------------
(***************************************************************************)
(* TLAPS proofs about the security feedback loop, for any heuristic rules, *)
(* defence policies and points.  What a handler audits is applied to a     *)
(* record of the stores event by event and incident by incident, by        *)
(* recursion: what is shown of one application is carried to a handler's   *)
(* step by induction along the recursion.                                  *)
(***************************************************************************)
EXTENDS SecurityLoop, FiniteSetTheorems, WellFoundedInduction, TLAPS

-----------------------------------------------------------------------------
(* The record of the stores, and what holds of it between two audited events. *)

AuditedEvent == [type : Relevant, at : Nat]
RaisedAnomaly == [type : DOMAIN Rules, at : Nat, related : SUBSET Nat]
OpenedIncident ==
  [type : DOMAIN Rules, severity : DOMAIN IncidentPenalty, related : SUBSET Nat,
   status : {"open", "closed"}]
ScoredType == DOMAIN Penalty \cup {"incident_opened", "incident_closed", "clean_execution"}
ScoredEvent == [type : ScoredType, delta : Int, at : Nat]

Store ==
  [history : Seq(AuditedEvent), anomalies : SUBSET RaisedAnomaly,
   incidents : Seq(OpenedIncident), owned : SUBSET Nat,
   score : 0 .. MaxScore, events : Seq(ScoredEvent)]

Count(q, type) == Cardinality({k \in DOMAIN q : q[k].type = type})
OpenIn(s) == {k \in DOMAIN s.incidents : s.incidents[k].status = "open"}

\* All but the last `owing` incidents have been charged for, and otherwise the
\* reputation is what the trail says.
Accounted(s, owing) ==
  /\ s \in Store
  /\ \A type \in DOMAIN Penalty : Count(s.events, type) = Count(s.history, type)
  /\ Count(s.events, "incident_opened") + owing = Len(s.incidents)
  /\ Count(s.events, "incident_closed") = Len(s.incidents) - Cardinality(OpenIn(s))
  /\ s.owned = OpenIn(s)

\* The trail is in the order of its times, none of them ahead of the clock.
Timely(s) ==
  \A k \in DOMAIN s.history :
    /\ s.history[k].at <= now
    /\ \A j \in 1 .. k : s.history[j].at <= s.history[k].at

\* No burst of this type has gone beyond its threshold, or it was answered and
\* the requests that may still add to it keep it within bounds.
WithinBounds(s, type, left) ==
  \A k \in DOMAIN s.history :
    LET c == Cardinality(Detector!Matches(s.history, Rules[type], k))
    IN  \/ c < Rules[type].threshold
        \/ /\ \E a \in s.anomalies : a.type = type
           /\ c + left < Rules[type].threshold + MaxInFlight

\* Rules that watch what only a request in flight leads to, and the requests
\* that may still add to their bursts.
WatchesFinish(type) ==
  Rules[type].watched \cap {"execution_failed", "execution_blocked", "sandbox_blocked"} # {}
Left(type) == IF WatchesFinish(type) THEN inflight ELSE 0

LoopInv ==
  /\ now \in Nat
  /\ inflight \in 0 .. MaxInFlight /\ pending \in 0 .. MaxPending
  /\ DOMAIN score \subseteq {Research}
  /\ events \in [{Research} -> Seq(ScoredEvent)]
  /\ marks \in [{Research} -> Seq(Trust!Mark)]
  /\ Accounted(Stores, 0)
  /\ Timely(Stores)
  /\ \A type \in DOMAIN Rules :
       OncePerRequest(type) /\ Stopped(type) => WithinBounds(Stores, type, Left(type))

-----------------------------------------------------------------------------
(* Positions, lists and counts. *)

\* A set of positions that is not empty has a first one.
LEMMA FirstPosition ==
  ASSUME NEW n \in Nat, NEW S \in SUBSET (1 .. n), S # {}
  PROVE  \E k \in S : \A j \in S : k <= j
<1>. DEFINE T == {1 .. k : k \in S}
<1>1. T \subseteq FiniteSubsetsOf(1 .. n) /\ T # {}
  <2>1. FiniteSubsetsOf(1 .. n) = SUBSET (1 .. n)
    <3>. DEFINE U == 1 .. n
    <3>1. IsFiniteSet(U)
      BY FS_Interval
    <3>. HIDE DEF U
    <3>2. FiniteSubsetsOf(U) = SUBSET U
      BY <3>1, FS_FiniteSubsetsOfFinite
    <3>. QED BY <3>2 DEF U
  <2>2. \A k \in S : 1 .. k \in SUBSET (1 .. n)
    OBVIOUS
  <2>3. T \subseteq SUBSET (1 .. n)
    BY <2>2
  <2>4. T # {}
    OBVIOUS
  <2>. HIDE DEF T
  <2>. QED BY ONLY <2>1, <2>3, <2>4
<1>2. PICK x \in T : \A y \in T : ~(<<y, x>> \in StrictSubsetOrdering(1 .. n))
  <2>. HIDE DEF T
  <2>. QED BY <1>1, FS_StrictSubsetOrderingWellFounded, WFMin
<1>3. PICK k \in S : x = 1 .. k
  OBVIOUS
<1>4. ASSUME NEW j \in S, j < k PROVE FALSE
  <2>1. 1 .. j \subseteq 1 .. k /\ 1 .. j # 1 .. k
    <3>1. k \in 1 .. k /\ k \notin 1 .. j
      BY <1>4
    <3>. QED BY <1>4, <3>1
  <2>2. <<1 .. j, x>> \in StrictSubsetOrdering(1 .. n)
    BY <1>3, <2>1 DEF StrictSubsetOrdering
  <2>. QED BY <1>2, <2>2
<1>. QED BY <1>4

\* Positions are finitely many, and fewer of them count less.
LEMMA PositionsCount ==
  ASSUME NEW n \in Nat, NEW S \in SUBSET (1 .. n)
  PROVE  /\ IsFiniteSet(S) /\ Cardinality(S) \in Nat
         /\ \A T \in SUBSET S : IsFiniteSet(T) /\ Cardinality(T) \in Nat
                                /\ Cardinality(T) <= Cardinality(S)
<1>1. IsFiniteSet(1 .. n)
  BY FS_Interval
<1>2. IsFiniteSet(S)
  BY <1>1, FS_Subset
<1>. QED BY <1>2, FS_Subset, FS_CardinalityType

\* Induction over the positions of a sequence.
LEMMA PositionInduction ==
  ASSUME NEW n \in Nat, NEW G, 0 \in G, \A k \in 0 .. n - 1 : k \in G => k + 1 \in G
  PROVE  0 .. n \subseteq G
<1>. DEFINE missed == {k \in 1 .. n : k \notin G}
<1>. SUFFICES ASSUME missed # {}
              PROVE  FALSE
  OBVIOUS
<1>1. missed \in SUBSET (1 .. n)
  OBVIOUS
<1>2. \A k \in missed : k \notin G
  OBVIOUS
<1>3. \A k \in 1 .. n : k \in missed \/ k \in G
  OBVIOUS
<1>. HIDE DEF missed
<1>4. PICK k \in missed : \A j \in missed : k <= j
  BY <1>1, FirstPosition
<1>5. k - 1 \in G
  BY <1>1, <1>3, <1>4
<1>. QED BY <1>1, <1>2, <1>4, <1>5

\* The instance counts as the library does.
LEMMA DetectorCount == \A S : Detector!Cardinality(S) = Cardinality(S)
  BY DEF Detector!Cardinality, Cardinality

\* A finite set listed as a sequence: each of its elements once.
LEMMA ListedOnce ==
  ASSUME NEW T, IsFiniteSet(T), NEW s, s = Detector!SetToSeq(T)
  PROVE  /\ s \in Seq(T) /\ Len(s) = Cardinality(T)
         /\ \A x \in T : \E i \in 1 .. Len(s) : s[i] = x
<1>. DEFINE n == Cardinality(T)
            I == 1 .. n
<1>1. n \in Nat /\ ExistsBijection(I, T)
  BY FS_CardinalityType
<1>2. PICK g \in Bijection(I, T) : TRUE
  BY <1>1 DEF ExistsBijection
<1>3. g \in [I -> T] /\ \A a, b \in DOMAIN g : g[a] = g[b] => a = b
  BY <1>2 DEF Bijection, Injection, IsInjective
<1>4. s = CHOOSE f \in [I -> T] : \A a, b \in DOMAIN f : f[a] = f[b] => a = b
  BY DetectorCount DEF Detector!SetToSeq, Detector!IsInjective
<1>5. s \in [I -> T] /\ \A a, b \in DOMAIN s : s[a] = s[b] => a = b
  <2>. HIDE DEF I
  <2>. QED BY <1>3, <1>4
<1>6. s \in Injection(I, T)
  BY <1>5 DEF Injection, IsInjective
<1>7. s \in Surjection(I, T)
  <2>1. IsFiniteSet(I) /\ Cardinality(I) = n
    <3>1. 1 \in Int /\ n \in Int /\ (1 > n => n = 0) /\ n - 1 + 1 = n
      BY <1>1
    <3>. HIDE DEF n
    <3>2. IsFiniteSet(I) /\ Cardinality(I) = IF 1 > n THEN 0 ELSE n - 1 + 1
      BY <3>1, FS_Interval
    <3>. QED BY <3>1, <3>2
  <2>. HIDE DEF I, n
  <2>. QED BY <1>6, <2>1, FS_Injection DEF n
<1>8. s \in Seq(T) /\ Len(s) = n
  <2>. HIDE DEF n
  <2>. QED BY <1>1, <1>5
<1>9. \A x \in T : \E i \in I : s[i] = x
  BY <1>5, <1>7 DEF Surjection
<1>. QED BY <1>8, <1>9

\* The image of a finite set is finite.
LEMMA FiniteImage ==
  ASSUME NEW S, IsFiniteSet(S), NEW f
  PROVE  IsFiniteSet({f[x] : x \in S})
<1>. DEFINE T == {f[x] : x \in S}
            g == [x \in S |-> f[x]]
<1>1. g \in [S -> T] /\ \A y \in T : \E x \in S : g[x] = y
  OBVIOUS
<1>2. g \in Surjection(S, T)
  <2>. HIDE DEF T, g
  <2>. QED BY <1>1 DEF Surjection
<1>. HIDE DEF T, g
<1>3. IsFiniteSet(T)
  BY <1>2, FS_Surjection
<1>. QED BY <1>3 DEF T

\* One more entry of a list adds one to the count of its type.
LEMMA CountGrows ==
  ASSUME NEW S, NEW q \in Seq(S), NEW e \in S, NEW type
  PROVE  /\ Count(q, type) \in Nat
         /\ Count(Append(q, e), type) =
              IF e.type = type THEN Count(q, type) + 1 ELSE Count(q, type)
<1>. DEFINE n == Len(q)
            old == {k \in DOMAIN q : q[k].type = type}
            new == {k \in DOMAIN Append(q, e) : Append(q, e)[k].type = type}
<1>1. /\ n \in Nat /\ DOMAIN q = 1 .. n /\ DOMAIN Append(q, e) = 1 .. n + 1
      /\ Append(q, e)[n + 1] = e /\ \A k \in 1 .. n : Append(q, e)[k] = q[k]
  OBVIOUS
<1>2. new = IF e.type = type THEN old \cup {n + 1} ELSE old
  BY <1>1
<1>3. old \in SUBSET (1 .. n) /\ n + 1 \notin old
  BY <1>1
<1>. HIDE DEF old, new, n
<1>4. IsFiniteSet(old) /\ Cardinality(old) \in Nat
  BY <1>1, <1>3, PositionsCount
<1>5. Cardinality(old \cup {n + 1}) = Cardinality(old) + 1
  BY <1>3, <1>4, FS_AddElement
<1>6. Count(q, type) = Cardinality(old) /\ Count(Append(q, e), type) = Cardinality(new)
  BY DEF Count, old, new
<1>. QED BY <1>2, <1>4, <1>5, <1>6

\* f is the recursion of the step along 0 .. n, from `first` on, within the set S.
Recursion(f, n, S, first, step) ==
  /\ f \in [0 .. n -> S]
  /\ f = [k \in 0 .. n |-> IF k = 0 THEN first ELSE step[<<k, f[k - 1]>>]]

\* A recursion whose step stays in the set is defined.
LEMMA RecursionExists ==
  ASSUME NEW n \in Nat, NEW S, NEW first \in S, NEW step,
         \A k \in 1 .. n, x \in S : step[<<k, x>>] \in S
  PROVE  \E f : Recursion(f, n, S, first, step)
<1>. DEFINE Upto(f, m) == /\ f \in [0 .. m -> S]
                          /\ f[0] = first
                          /\ \A k \in 1 .. m : f[k] = step[<<k, f[k - 1]>>]
            G == {m \in 0 .. n : \E f : Upto(f, m)}
<1>1. 0 \in G
  <2>1. Upto([k \in 0 .. 0 |-> first], 0)
    OBVIOUS
  <2>2. 0 \in 0 .. n
    OBVIOUS
  <2>. HIDE DEF Upto
  <2>. QED BY <2>1, <2>2
<1>2. ASSUME NEW m \in 0 .. n - 1, m \in G
      PROVE  m + 1 \in G
  <2>1. PICK f : Upto(f, m)
    <3>. HIDE DEF Upto
    <3>. QED BY <1>2
  <2>. DEFINE g == [k \in 0 .. m + 1 |-> IF k = m + 1 THEN step[<<m + 1, f[m]>>] ELSE f[k]]
  <2>2. step[<<m + 1, f[m]>>] \in S
    <3>1. m + 1 \in 1 .. n /\ f[m] \in S
      BY <2>1
    <3>. QED BY <3>1
  <2>3. Upto(g, m + 1)
    <3>1. g \in [0 .. m + 1 -> S] /\ g[0] = first
      BY <2>1, <2>2
    <3>2. ASSUME NEW k \in 1 .. m + 1 PROVE g[k] = step[<<k, g[k - 1]>>]
      <4>1. k - 1 \in 0 .. m /\ g[k - 1] = f[k - 1]
        OBVIOUS
      <4>2. CASE k = m + 1
        <5>1. g[k] = step[<<m + 1, f[m]>>] /\ k - 1 = m
          BY <4>2
        <5>. QED BY <4>1, <4>2, <5>1
      <4>3. CASE k # m + 1
        <5>1. k \in 1 .. m /\ g[k] = f[k]
          BY <4>3
        <5>. QED BY <2>1, <4>1, <5>1
      <4>. QED BY <4>2, <4>3
    <3>. QED BY <3>1, <3>2
  <2>4. m + 1 \in 0 .. n
    OBVIOUS
  <2>. HIDE DEF Upto, g
  <2>. QED BY <2>3, <2>4
<1>3. 0 .. n \subseteq G
  <2>. HIDE DEF G
  <2>. QED BY <1>1, <1>2, PositionInduction
<1>4. n \in G
  <2>. HIDE DEF G
  <2>. QED BY <1>3
<1>5. PICK f : Upto(f, n)
  <2>. HIDE DEF Upto
  <2>. QED BY <1>4
<1>6. f = [k \in 0 .. n |-> IF k = 0 THEN first ELSE step[<<k, f[k - 1]>>]]
  BY <1>5
<1>. QED BY <1>5, <1>6 DEF Recursion

-----------------------------------------------------------------------------
(* One audited event: what the detector adds, and what is charged for it. *)

EventOf(type) == [type |-> type, at |-> now]
HistoryWith(s, type) == Append(s.history, EventOf(type))
RaisedBy(s, type) ==
  {Detector!Anomaly(HistoryWith(s, type), t) : t \in Detector!Triggered(HistoryWith(s, type))}
OpenedBy(s, type) ==
  {Detector!Incident(a) : a \in RaisedBy(s, type)} \ Detector!ToSet(s.incidents)
IncidentsWith(s, type) == s.incidents \o Detector!SetToSeq(OpenedBy(s, type))

LEMMA DetectorAdds ==
  ASSUME NEW s, NEW type
  PROVE  /\ Detector!Observe(s, type, now).history = HistoryWith(s, type)
         /\ Detector!Observe(s, type, now).anomalies = s.anomalies \cup RaisedBy(s, type)
         /\ Detector!Observe(s, type, now).incidents = IncidentsWith(s, type)
BY DEF Detector!Observe, EventOf, HistoryWith, RaisedBy, OpenedBy, IncidentsWith

\* What it adds has the type of its store, and its incidents are open.
LEMMA AddedTypes ==
  ASSUME now \in Nat, NEW s \in Store, NEW type \in Relevant
  PROVE  /\ EventOf(type) \in AuditedEvent
         /\ HistoryWith(s, type) \in Seq(AuditedEvent)
         /\ RaisedBy(s, type) \in SUBSET RaisedAnomaly
         /\ IncidentsWith(s, type) \in Seq(OpenedIncident)
         /\ Len(s.incidents) \in Nat /\ Len(IncidentsWith(s, type)) >= Len(s.incidents)
         /\ \A k \in 1 .. Len(s.incidents) : IncidentsWith(s, type)[k] = s.incidents[k]
         /\ \A k \in Len(s.incidents) + 1 .. Len(IncidentsWith(s, type)) :
              IncidentsWith(s, type)[k].status = "open"
<1>. DEFINE h == HistoryWith(s, type)
            e == EventOf(type)
            O == OpenedBy(s, type)
            q == Detector!SetToSeq(O)
<1>1. s.history \in Seq(AuditedEvent) /\ s.incidents \in Seq(OpenedIncident)
  BY DEF Store
<1>2. e \in AuditedEvent /\ e.at = now
  BY DEF EventOf, AuditedEvent
<1>3. /\ h \in Seq(AuditedEvent) /\ Len(h) \in Nat /\ h[Len(h)] = e
  <2>. HIDE DEF e
  <2>. QED BY <1>1, <1>2 DEF HistoryWith, e
<1>. HIDE DEF h, e
<1>4. RaisedBy(s, type) \in SUBSET RaisedAnomaly
  <2>1. ASSUME NEW t \in Detector!Triggered(h)
        PROVE  Detector!Anomaly(h, t) \in RaisedAnomaly
    <3>1. t \in DOMAIN Rules
      BY DEF Detector!Triggered
    <3>2. h[Len(h)].at \in Nat
      BY <1>2, <1>3
    <3>3. Detector!Matches(h, Rules[t], Len(h)) \in SUBSET Nat
      BY <1>3 DEF Detector!Matches
    <3>. QED BY <3>1, <3>2, <3>3 DEF Detector!Anomaly, RaisedAnomaly
  <2>. QED BY <2>1 DEF RaisedBy, h
<1>5. IsFiniteSet(O)
  <2>1. IsFiniteSet(DOMAIN Rules)
    BY DetectorConstants, DetectorCount DEF Detector!RulesAssumption, Detector!IsFiniteSet, IsFiniteSet
  <2>2. IsFiniteSet(Detector!Triggered(h))
    BY <2>1, FS_Subset DEF Detector!Triggered
  <2>. DEFINE S == Detector!Triggered(h)
              f == [x \in S |-> Detector!Incident(Detector!Anomaly(h, x))]
  <2>3. O \subseteq {f[x] : x \in S}
    <3>1. \A i \in O : \E x \in S : i = Detector!Incident(Detector!Anomaly(h, x))
      BY DEF OpenedBy, RaisedBy, h
    <3>. QED BY <3>1
  <2>4. IsFiniteSet({f[x] : x \in S})
    <3>. HIDE DEF f, S
    <3>. QED BY <2>2, FiniteImage DEF S
  <2>. HIDE DEF f, S, O
  <2>. QED BY <2>3, <2>4, FS_Subset
<1>6. ASSUME NEW i \in O
      PROVE  i \in OpenedIncident /\ i.status = "open"
  <2>1. PICK a \in RaisedBy(s, type) : i = Detector!Incident(a)
    BY DEF OpenedBy
  <2>2. a \in RaisedAnomaly
    BY <1>4
  <2>3. a.type \in DOMAIN Rules /\ a.related \in SUBSET Nat
    BY <2>2 DEF RaisedAnomaly
  <2>4. Rules[a.type].severity \in DOMAIN IncidentPenalty
    BY <2>3, LoopAssumption
  <2>. QED BY <2>1, <2>3, <2>4 DEF Detector!Incident, OpenedIncident
<1>7. q \in Seq(O)
  BY <1>5, ListedOnce
<1>. HIDE DEF O, q
<1>8. q \in Seq(OpenedIncident) /\ \A k \in 1 .. Len(q) : q[k].status = "open"
  BY <1>6, <1>7
<1>9. IncidentsWith(s, type) = s.incidents \o q
  BY DEF IncidentsWith, q, O
<1>. DEFINE old == s.incidents
<1>10. old \in Seq(OpenedIncident)
  BY <1>1
<1>. HIDE DEF old
<1>11. /\ old \o q \in Seq(OpenedIncident)
       /\ Len(old) \in Nat /\ Len(q) \in Nat /\ Len(old \o q) = Len(old) + Len(q)
       /\ \A k \in 1 .. Len(old) : (old \o q)[k] = old[k]
       /\ \A k \in Len(old) + 1 .. Len(old) + Len(q) : (old \o q)[k] = q[k - Len(old)]
  BY <1>8, <1>10
<1>12. \A k \in Len(old) + 1 .. Len(old) + Len(q) : k - Len(old) \in 1 .. Len(q)
  BY <1>11
<1>. QED BY <1>2, <1>3, <1>4, <1>8, <1>9, <1>11, <1>12 DEF h, e, old

\* A list counts one more of a type, and the same of every other.
OneMore(old, new, type) ==
  \A t : Count(new, t) = IF type = t THEN Count(old, t) + 1 ELSE Count(old, t)

\* What charging for an event changes.
LEMMA ChargeFacts ==
  ASSUME now \in Nat, NEW s \in Store, NEW type \in ScoredType, NEW points \in Nat
  PROVE  /\ Charge(s, type, points) \in Store
         /\ Charge(s, type, points).history = s.history
         /\ Charge(s, type, points).anomalies = s.anomalies
         /\ Charge(s, type, points).incidents = s.incidents
         /\ Charge(s, type, points).owned = s.owned
         /\ Charge(s, type, points).score <= s.score
         /\ OneMore(s.events, Charge(s, type, points).events, type)
<1>. DEFINE c == Charge(s, type, points)
            e == [type |-> type, delta |-> -points, at |-> now]
<1>1. e \in ScoredEvent /\ e.type = type
  BY DEF ScoredEvent
<1>2. s.score \in 0 .. MaxScore /\ s.events \in Seq(ScoredEvent) /\ MaxScore \in Nat
  BY TrustConstants DEF Store, Trust!TrustAssumption
<1>3. Trust!Clamp(s.score - points) \in 0 .. MaxScore /\ Trust!Clamp(s.score - points) <= s.score
  BY <1>2 DEF Trust!Clamp
<1>. HIDE DEF e
<1>4. Append(s.events, e) \in Seq(ScoredEvent)
  BY <1>1, <1>2
<1>5. /\ c.history = s.history /\ c.anomalies = s.anomalies /\ c.incidents = s.incidents
      /\ c.owned = s.owned /\ c.score = Trust!Clamp(s.score - points)
      /\ c.events = Append(s.events, e)
  BY DEF Charge, Store, e
<1>6. c \in Store
  BY <1>3, <1>4 DEF Charge, Store, e
<1>7. OneMore(s.events, Append(s.events, e), type)
  BY <1>1, <1>2, CountGrows DEF OneMore
<1>. QED BY <1>3, <1>5, <1>6, <1>7

\* The parts of ObserveSecurity: the stores with what the detector adds, with the
\* event itself scored, and then with one incident charged after the other.
Detected(s, type) == Detector!Observe(s, type, now)
OpenedCount(s, type) == Len(Detected(s, type).incidents) - Len(s.incidents)
SeenOf(s, type) ==
  [s EXCEPT !.history = Detected(s, type).history,
            !.anomalies = Detected(s, type).anomalies,
            !.incidents = Detected(s, type).incidents,
            !.owned = @ \cup (Len(s.incidents) + 1 .. Len(s.incidents) + OpenedCount(s, type))]
ScoredOf(s, type) ==
  IF type \in DOMAIN Penalty THEN Charge(SeenOf(s, type), type, Penalty[type])
                             ELSE SeenOf(s, type)
PointsOf(s, type, n) ==
  IncidentPenalty[Detected(s, type).incidents[Len(s.incidents) + n].severity]
Charges(f, s, type) ==
  f = [n \in 0 .. OpenedCount(s, type) |->
         IF n = 0 THEN ScoredOf(s, type)
         ELSE Charge(f[n - 1], "incident_opened", PointsOf(s, type, n))]

LEMMA ObserveUnfolds ==
  ASSUME NEW s, NEW type
  PROVE  ObserveSecurity(s, type)
           = (CHOOSE f : Charges(f, s, type))[OpenedCount(s, type)]
BY DEF ObserveSecurity, Charges, PointsOf, ScoredOf, SeenOf, OpenedCount, Detected

\* Before anything is charged: the incidents opened are open and owned.
LEMMA SeenFacts ==
  ASSUME now \in Nat, NEW s \in Store, NEW type \in Relevant, s.owned = OpenIn(s),
         NEW x, x = SeenOf(s, type)
  PROVE  /\ x \in Store
         /\ x.history = HistoryWith(s, type)
         /\ x.anomalies = s.anomalies \cup RaisedBy(s, type)
         /\ x.incidents = Detected(s, type).incidents
         /\ x.score = s.score /\ x.events = s.events
         /\ x.owned = OpenIn(x)
         /\ OpenedCount(s, type) \in Nat
         /\ Len(x.incidents) = Len(s.incidents) + OpenedCount(s, type)
         /\ Len(x.incidents) - Cardinality(OpenIn(x)) = Len(s.incidents) - Cardinality(OpenIn(s))
<1>. DEFINE old == s.incidents
            more == IncidentsWith(s, type)
            n == OpenedCount(s, type)
            N == Len(old) + 1 .. Len(old) + n
<1>1. /\ old \in Seq(OpenedIncident) /\ more \in Seq(OpenedIncident)
      /\ Len(old) \in Nat /\ Len(more) >= Len(old) /\ Len(more) \in Nat
      /\ \A k \in 1 .. Len(old) : more[k] = old[k]
      /\ \A k \in Len(old) + 1 .. Len(more) : more[k].status = "open"
  BY AddedTypes DEF Store
<1>2. n = Len(more) - Len(old)
  BY DetectorAdds DEF OpenedCount, Detected
<1>3. n \in Nat /\ Len(more) = Len(old) + n
  BY <1>1, <1>2
<1>4. /\ x.history = HistoryWith(s, type)
      /\ x.anomalies = s.anomalies \cup RaisedBy(s, type)
      /\ x.incidents = more /\ x.owned = s.owned \cup N
      /\ x.score = s.score /\ x.events = s.events
  BY DetectorAdds DEF SeenOf, Detected, Store
<1>5. x \in Store
  <2>1. HistoryWith(s, type) \in Seq(AuditedEvent) /\ RaisedBy(s, type) \in SUBSET RaisedAnomaly
    BY AddedTypes
  <2>2. N \in SUBSET Nat
    BY <1>1, <1>3
  <2>3. x = [s EXCEPT !.history = HistoryWith(s, type),
                      !.anomalies = s.anomalies \cup RaisedBy(s, type),
                      !.incidents = more, !.owned = s.owned \cup N]
    BY DetectorAdds DEF SeenOf, Detected
  <2>. HIDE DEF more, N
  <2>. QED BY <1>1, <2>1, <2>2, <2>3 DEF Store
<1>6. OpenIn(x) = OpenIn(s) \cup N
  <2>1. DOMAIN x.incidents = 1 .. Len(more) /\ DOMAIN old = 1 .. Len(old)
    BY <1>1, <1>4
  <2>2. \A k : k \in 1 .. Len(more) <=> (k \in 1 .. Len(old) \/ k \in N)
    BY <1>1, <1>3
  <2>3. \A k \in N : k \in Len(old) + 1 .. Len(more)
    BY <1>3
  <2>4. OpenIn(x) = {k \in 1 .. Len(more) : more[k].status = "open"}
    BY <1>4, <2>1 DEF OpenIn
  <2>5. OpenIn(s) = {k \in 1 .. Len(old) : old[k].status = "open"}
    BY <2>1 DEF OpenIn
  <2>. HIDE DEF more, N, old
  <2>. QED BY <1>1, <2>2, <2>3, <2>4, <2>5
<1>7. Cardinality(OpenIn(x)) = Cardinality(OpenIn(s)) + n /\ Cardinality(OpenIn(s)) \in Nat
  <2>1. OpenIn(s) \in SUBSET (1 .. Len(old))
    BY <1>1 DEF OpenIn
  <2>2. IsFiniteSet(OpenIn(s)) /\ Cardinality(OpenIn(s)) \in Nat
    BY <1>1, <2>1, PositionsCount
  <2>3. IsFiniteSet(N) /\ Cardinality(N) = n
    <3>1. /\ Len(old) + 1 \in Int /\ Len(old) + n \in Int
          /\ (Len(old) + 1 > Len(old) + n => n = 0)
          /\ Len(old) + n - (Len(old) + 1) + 1 = n
      BY <1>1, <1>3
    <3>2. PICK a, b \in Int : a = Len(old) + 1 /\ b = Len(old) + n
      BY <3>1
    <3>3. (a > b => n = 0) /\ b - a + 1 = n
      <4>. HIDE DEF old, n
      <4>1. Len(old) \in Nat /\ n \in Nat
        BY <1>1, <1>3
      <4>. QED BY <3>2, <4>1
    <3>4. IsFiniteSet(a .. b) /\ Cardinality(a .. b) = IF a > b THEN 0 ELSE b - a + 1
      BY FS_Interval
    <3>. QED BY <3>2, <3>3, <3>4
  <2>4. OpenIn(s) \cap N = {}
    BY <1>1, <1>3, <2>1
  <2>5. Cardinality(OpenIn(s) \cap N) = 0
    BY <2>4, FS_EmptySet
  <2>. HIDE DEF N, n
  <2>6. Cardinality(OpenIn(s) \cup N) = Cardinality(OpenIn(s)) + n - 0
    BY <2>2, <2>3, <2>5, FS_Union
  <2>. QED BY <1>3, <1>6, <2>2, <2>6
<1>8. x.incidents = Detected(s, type).incidents
  BY <1>4, DetectorAdds DEF Detected
<1>. HIDE DEF old, more, n, N
<1>9. x.owned = OpenIn(x)
  BY <1>4, <1>6
<1>. QED BY <1>1, <1>3, <1>4, <1>5, <1>7, <1>8, <1>9 DEF old, n

\* With the event scored: the incidents it opened remain to be charged.
LEMMA ScoredFacts ==
  ASSUME now \in Nat, NEW s, Accounted(s, 0), NEW type \in Relevant,
         NEW x, x = ScoredOf(s, type)
  PROVE  /\ Accounted(x, OpenedCount(s, type))
         /\ OpenedCount(s, type) \in Nat
         /\ x.history = HistoryWith(s, type)
         /\ x.anomalies = s.anomalies \cup RaisedBy(s, type)
         /\ x.incidents = Detected(s, type).incidents
         /\ x.score <= s.score
<1>1. s \in Store /\ s.owned = OpenIn(s)
  BY DEF Accounted
<1>2. PICK y : y = SeenOf(s, type)
  OBVIOUS
<1>3. /\ y \in Store
      /\ y.history = HistoryWith(s, type)
      /\ y.anomalies = s.anomalies \cup RaisedBy(s, type)
      /\ y.incidents = Detected(s, type).incidents
      /\ y.score = s.score /\ y.events = s.events
      /\ y.owned = OpenIn(y)
      /\ OpenedCount(s, type) \in Nat
      /\ Len(y.incidents) = Len(s.incidents) + OpenedCount(s, type)
      /\ Len(y.incidents) - Cardinality(OpenIn(y)) = Len(s.incidents) - Cardinality(OpenIn(s))
  BY <1>1, <1>2, SeenFacts
<1>4. \A t : Count(HistoryWith(s, type), t) =
               IF type = t THEN Count(s.history, t) + 1 ELSE Count(s.history, t)
  <2>1. EventOf(type) \in AuditedEvent /\ EventOf(type).type = type /\ s.history \in Seq(AuditedEvent)
    BY <1>1, AddedTypes DEF EventOf, Store
  <2>. QED BY <2>1, CountGrows DEF HistoryWith
<1>5. s.score \in Int
  BY <1>1, TrustConstants DEF Store, Trust!TrustAssumption
<1>8. Count(s.events, "incident_opened") = Len(s.incidents)
  <2>1. s.events \in Seq(ScoredEvent) /\ "incident_opened" \in ScoredType
    BY <1>1 DEF Store, ScoredType
  <2>2. [type |-> "incident_opened", delta |-> 0, at |-> 0] \in ScoredEvent
    BY <2>1 DEF ScoredEvent
  <2>3. Count(s.events, "incident_opened") \in Nat
    BY <2>1, <2>2, CountGrows
  <2>. QED BY <2>3 DEF Accounted
<1>6. CASE type \in DOMAIN Penalty
  <2>1. type \in ScoredType /\ Penalty[type] \in Nat
    BY <1>6, LoopAssumption DEF ScoredType
  <2>2. x = Charge(y, type, Penalty[type])
    BY <1>2, <1>6 DEF ScoredOf
  <2>3. /\ x \in Store
        /\ x.history = y.history /\ x.anomalies = y.anomalies /\ x.incidents = y.incidents
        /\ x.owned = y.owned /\ x.score <= y.score
        /\ OneMore(y.events, x.events, type)
    <3>1. PICK points \in Nat : points = Penalty[type]
      BY <2>1
    <3>. QED BY ONLY now \in Nat, <1>3, <2>1, <2>2, <3>1, ChargeFacts
  <2>4. OpenIn(x) = OpenIn(y)
    BY <2>3 DEF OpenIn
  <2>5. type # "incident_opened" /\ type # "incident_closed"
    BY <1>6, LoopAssumption
  <2>6. \A t \in DOMAIN Penalty : Count(x.events, t) = Count(x.history, t)
    BY <1>3, <1>4, <2>3 DEF Accounted, OneMore
  <2>7. Count(x.events, "incident_opened") + OpenedCount(s, type) = Len(x.incidents)
    BY <1>3, <1>8, <2>3, <2>5 DEF OneMore
  <2>8. Count(x.events, "incident_closed") = Len(x.incidents) - Cardinality(OpenIn(x))
    BY <1>3, <2>3, <2>4, <2>5 DEF Accounted, OneMore
  <2>. QED BY <1>3, <1>5, <2>3, <2>4, <2>6, <2>7, <2>8 DEF Accounted
<1>7. CASE type \notin DOMAIN Penalty
  <2>1. x = y
    BY <1>2, <1>7 DEF ScoredOf
  <2>2. \A t \in DOMAIN Penalty : Count(x.events, t) = Count(x.history, t)
    BY <1>3, <1>4, <1>7, <2>1 DEF Accounted
  <2>3. Count(x.events, "incident_opened") + OpenedCount(s, type) = Len(x.incidents)
    BY <1>3, <1>8, <2>1
  <2>4. Count(x.events, "incident_closed") = Len(x.incidents) - Cardinality(OpenIn(x))
    BY <1>3, <2>1 DEF Accounted
  <2>. QED BY <1>3, <1>5, <2>1, <2>2, <2>3, <2>4 DEF Accounted
<1>. QED BY <1>6, <1>7

\* An incident charged for is one less to charge for.
LEMMA OneCharged ==
  ASSUME now \in Nat, NEW owing \in Nat \ {0}, NEW s, Accounted(s, owing), NEW points \in Nat,
         NEW x, x = Charge(s, "incident_opened", points)
  PROVE  /\ Accounted(x, owing - 1)
         /\ x.history = s.history /\ x.anomalies = s.anomalies /\ x.incidents = s.incidents
         /\ x.score <= s.score
<1>1. s \in Store /\ "incident_opened" \in ScoredType
  BY DEF Accounted, ScoredType
<1>2. /\ x \in Store
      /\ x.history = s.history /\ x.anomalies = s.anomalies /\ x.incidents = s.incidents
      /\ x.owned = s.owned /\ x.score <= s.score
      /\ OneMore(s.events, x.events, "incident_opened")
  BY <1>1, ChargeFacts
<1>3. Count(s.events, "incident_opened") \in Nat
  <2>1. [type |-> "incident_opened", delta |-> 0, at |-> 0] \in ScoredEvent
    BY <1>1 DEF ScoredEvent
  <2>2. s.events \in Seq(ScoredEvent)
    BY <1>1 DEF Store
  <2>. QED BY <2>1, <2>2, CountGrows
<1>4. OpenIn(x) = OpenIn(s)
  BY <1>2 DEF OpenIn
<1>5. "incident_opened" \notin DOMAIN Penalty
  BY LoopAssumption
<1>6. \A type \in DOMAIN Penalty : Count(x.events, type) = Count(x.history, type)
  BY <1>2, <1>5 DEF Accounted, OneMore
<1>7. Count(x.events, "incident_opened") + (owing - 1) = Len(x.incidents)
  <2>1. Count(x.events, "incident_opened") = Count(s.events, "incident_opened") + 1
    BY <1>2 DEF OneMore
  <2>2. Count(s.events, "incident_opened") + owing = Len(s.incidents)
    BY DEF Accounted
  <2>. QED BY <1>2, <1>3, <2>1, <2>2
<1>8. Count(x.events, "incident_closed") = Len(x.incidents) - Cardinality(OpenIn(x))
  BY <1>2, <1>4 DEF Accounted, OneMore
<1>. QED BY <1>2, <1>4, <1>6, <1>7, <1>8 DEF Accounted

\* Each audited event leaves the reputation accounted for, and never raises it.
LEMMA ObserveStep ==
  ASSUME now \in Nat, NEW s, Accounted(s, 0), NEW type \in Relevant,
         NEW x, x = ObserveSecurity(s, type)
  PROVE  /\ Accounted(x, 0)
         /\ x.history = HistoryWith(s, type)
         /\ x.anomalies = s.anomalies \cup RaisedBy(s, type)
         /\ x.score <= s.score
<1>1. PICK first : first = ScoredOf(s, type)
  OBVIOUS
<1>2. PICK n : n = OpenedCount(s, type)
  OBVIOUS
<1>3. /\ Accounted(first, n) /\ n \in Nat
      /\ first.history = HistoryWith(s, type)
      /\ first.anomalies = s.anomalies \cup RaisedBy(s, type)
      /\ first.incidents = Detected(s, type).incidents
      /\ first.score <= s.score
  BY <1>1, <1>2, ScoredFacts
<1>4. \A k \in 1 .. n : PointsOf(s, type, k) \in Nat
  <2>. SUFFICES ASSUME NEW k \in 1 .. n PROVE PointsOf(s, type, k) \in Nat
    OBVIOUS
  <2>1. s \in Store /\ first \in Store
    BY <1>3 DEF Accounted
  <2>2. first.incidents \in Seq(OpenedIncident) /\ Len(s.incidents) \in Nat
    BY <2>1 DEF Store
  <2>3. Len(first.incidents) = Len(s.incidents) + n
    <3>1. OpenedCount(s, type) = Len(first.incidents) - Len(s.incidents)
      BY <1>3 DEF OpenedCount
    <3>2. Len(first.incidents) \in Nat
      BY <2>2
    <3>. QED BY <1>2, <1>3, <2>2, <3>1, <3>2
  <2>4. PICK j : j = Len(s.incidents) + k
    OBVIOUS
  <2>5. j \in DOMAIN first.incidents
    BY <1>3, <2>2, <2>3, <2>4
  <2>6. first.incidents[j] \in OpenedIncident
    BY <2>2, <2>5
  <2>7. first.incidents[j].severity \in DOMAIN IncidentPenalty
    BY <2>6 DEF OpenedIncident
  <2>. QED BY <1>3, <2>4, <2>7, LoopAssumption DEF PointsOf
<1>. DEFINE step == [p \in (1 .. n) \X Store |->
                       Charge(p[2], "incident_opened", PointsOf(s, type, p[1]))]
            charged == CHOOSE f : Charges(f, s, type)
<1>5. \E f : Charges(f, s, type)
  <2>1. \A k \in 1 .. n, y \in Store :
          /\ step[<<k, y>>] = Charge(y, "incident_opened", PointsOf(s, type, k))
          /\ step[<<k, y>>] \in Store
    <3>. SUFFICES ASSUME NEW k \in 1 .. n, NEW y \in Store
                  PROVE  /\ step[<<k, y>>] = Charge(y, "incident_opened", PointsOf(s, type, k))
                         /\ step[<<k, y>>] \in Store
      OBVIOUS
    <3>1. "incident_opened" \in ScoredType
      BY DEF ScoredType
    <3>2. PICK points \in Nat : points = PointsOf(s, type, k)
      BY <1>4
    <3>3. Charge(y, "incident_opened", points) \in Store
      BY <3>1, ChargeFacts
    <3>4. step[<<k, y>>] = Charge(y, "incident_opened", PointsOf(s, type, k))
      OBVIOUS
    <3>. QED BY <3>2, <3>3, <3>4
  <2>2. first \in Store
    BY <1>3 DEF Accounted
  <2>. HIDE DEF step
  <2>6. PICK f : Recursion(f, n, Store, first, step)
    <3>1. \A k \in 1 .. n, y \in Store : step[<<k, y>>] \in Store
      BY <2>1
    <3>. QED BY ONLY <1>3, <2>2, <3>1, RecursionExists
  <2>3. /\ f \in [0 .. n -> Store]
        /\ f = [k \in 0 .. n |-> IF k = 0 THEN first ELSE step[<<k, f[k - 1]>>]]
    BY <2>6 DEF Recursion
  <2>4. \A k \in 0 .. n : k # 0 =>
          step[<<k, f[k - 1]>>] = Charge(f[k - 1], "incident_opened", PointsOf(s, type, k))
    <3>1. \A k \in 0 .. n : k # 0 => k \in 1 .. n /\ k - 1 \in 0 .. n
      BY <1>3
    <3>. QED BY <2>1, <2>3, <3>1
  <2>5. f = [k \in 0 .. n |-> IF k = 0 THEN first
                              ELSE Charge(f[k - 1], "incident_opened", PointsOf(s, type, k))]
    BY <2>3, <2>4
  <2>. QED BY <1>1, <1>2, <2>5 DEF Charges
<1>6. Charges(charged, s, type)
  BY <1>5
<1>7. x = charged[n]
  BY <1>2, ObserveUnfolds
<1>. HIDE DEF charged, step
<1>8. /\ charged[0] = first
      /\ \A k \in 1 .. n :
           charged[k] = Charge(charged[k - 1], "incident_opened", PointsOf(s, type, k))
  BY <1>1, <1>2, <1>3, <1>6 DEF Charges
<1>. DEFINE Good(y, owing) == /\ Accounted(y, owing)
                              /\ y.history = first.history /\ y.anomalies = first.anomalies
                              /\ y.score <= s.score
            G == {k \in 0 .. n : Good(charged[k], n - k)}
<1>9. 0 \in G
  <2>1. Good(first, n)
    BY <1>3
  <2>2. 0 \in 0 .. n /\ n - 0 = n
    BY <1>3
  <2>. HIDE DEF Good
  <2>. QED BY <1>8, <2>1, <2>2
<1>10. ASSUME NEW k \in 0 .. n - 1, k \in G
       PROVE  k + 1 \in G
  <2>1. Good(charged[k], n - k)
    <3>. HIDE DEF Good
    <3>. QED BY <1>10
  <2>2. k + 1 \in 1 .. n /\ (k + 1) - 1 = k /\ n - k \in Nat \ {0} /\ n - (k + 1) = (n - k) - 1
    BY <1>3
  <2>3. PICK y : y = charged[k]
    OBVIOUS
  <2>4. PICK owing \in Nat \ {0} : owing = n - k
    BY <2>2
  <2>5. PICK points \in Nat : points = PointsOf(s, type, k + 1)
    BY <1>4, <2>2
  <2>6. PICK z : z = Charge(y, "incident_opened", points)
    OBVIOUS
  <2>7. charged[k + 1] = z
    BY <1>8, <2>2, <2>3, <2>5, <2>6
  <2>8. /\ Accounted(z, owing - 1)
        /\ z.history = y.history /\ z.anomalies = y.anomalies /\ z.score <= y.score
    BY <2>1, <2>3, <2>4, <2>6, OneCharged
  <2>9. y.score \in Int /\ z.score \in Int /\ s.score \in Int
    <3>1. y \in Store /\ z \in Store /\ s \in Store
      BY <2>1, <2>3, <2>8 DEF Accounted
    <3>. QED BY <3>1, TrustConstants DEF Store, Trust!TrustAssumption
  <2>10. Good(z, owing - 1)
    BY <2>1, <2>3, <2>8, <2>9
  <2>. HIDE DEF Good
  <2>. QED BY <2>2, <2>4, <2>7, <2>10
<1>11. n \in G
  <2>1. 0 .. n \subseteq G
    <3>. HIDE DEF G
    <3>. QED BY <1>3, <1>9, <1>10, PositionInduction
  <2>. HIDE DEF G
  <2>. QED BY <1>3, <2>1
<1>12. Good(charged[n], n - n) /\ n - n = 0
  <2>. HIDE DEF Good
  <2>. QED BY <1>3, <1>11
<1>. QED BY <1>3, <1>7, <1>12

\* The trail with one more event: what was there is where it was, the event is last
\* and now.
Longer(s, x, type, n) ==
  /\ n \in Nat /\ DOMAIN s.history = 1 .. n /\ DOMAIN x.history = 1 .. n + 1
  /\ \A k \in 1 .. n : x.history[k] = s.history[k]
  /\ x.history[n + 1].type = type /\ x.history[n + 1].at = now
  /\ \A k \in 1 .. n + 1 : x.history[k].at \in Nat

LEMMA TrailGrows ==
  ASSUME now \in Nat, NEW s \in Store, Timely(s), NEW type \in Relevant, NEW n, n = Len(s.history),
         NEW x, x.history = HistoryWith(s, type)
  PROVE  Longer(s, x, type, n) /\ Timely(x)
<1>1. s.history \in Seq(AuditedEvent)
  BY DEF Store
<1>2. EventOf(type) \in AuditedEvent /\ EventOf(type).type = type /\ EventOf(type).at = now
  BY DEF EventOf, AuditedEvent
<1>3. /\ n \in Nat /\ DOMAIN s.history = 1 .. n /\ DOMAIN x.history = 1 .. n + 1
      /\ \A k \in 1 .. n : x.history[k] = s.history[k]
      /\ x.history[n + 1] = EventOf(type)
  BY <1>1, <1>2 DEF HistoryWith
<1>4. \A k \in 1 .. n : s.history[k].at \in Nat
  <2>1. \A k \in 1 .. n : s.history[k] \in AuditedEvent
    BY <1>1, <1>3
  <2>. QED BY <2>1 DEF AuditedEvent
<1>5. \A k \in 1 .. n + 1 : k = n + 1 \/ k \in 1 .. n
  BY <1>3
<1>6. \A k \in 1 .. n + 1 : x.history[k].at \in Nat
  BY <1>2, <1>3, <1>4, <1>5
<1>7. \A k \in 1 .. n + 1 : x.history[k].at <= now
  BY <1>2, <1>3, <1>5 DEF Timely
<1>8. ASSUME NEW k \in 1 .. n + 1, NEW j \in 1 .. k
      PROVE  x.history[j].at <= x.history[k].at
  <2>1. CASE k = n + 1
    BY <1>2, <1>3, <1>7, <2>1
  <2>2. CASE k \in 1 .. n
    <3>1. j \in 1 .. n
      BY <1>3, <2>2
    <3>. QED BY <1>3, <2>2, <3>1 DEF Timely
  <2>. QED BY <1>5, <2>1, <2>2
<1>. QED BY <1>2, <1>3, <1>6, <1>7, <1>8 DEF Timely, Longer

\* An event that a rule does not watch adds nothing to its bursts.  One that it does
\* watch adds itself, takes what was left to add, and is answered at the threshold.
LEMMA BoundsStep ==
  ASSUME now \in Nat, NEW s \in Store, Timely(s), NEW seen \in Relevant,
         NEW x, x.history = HistoryWith(s, seen),
         x.anomalies = s.anomalies \cup RaisedBy(s, seen),
         NEW type \in DOMAIN Rules, NEW before \in Nat, NEW after \in Nat,
         before <= MaxInFlight, after <= before,
         seen \in Rules[type].watched => after = before - 1,
         WithinBounds(s, type, before)
  PROVE  WithinBounds(x, type, after)
<1>. DEFINE rule == Rules[type]
            C(h, k) == Cardinality(Detector!Matches(h, rule, k))
            Answered(y) == \E a \in y.anomalies : a.type = type
            Bound(c, y, left) == \/ c < rule.threshold
                                 \/ Answered(y) /\ c + left < rule.threshold + MaxInFlight
<1>1. PICK n : n = Len(s.history)
  OBVIOUS
<1>17. Longer(s, x, seen, n) /\ Timely(x)
  BY ONLY now \in Nat, s \in Store, Timely(s), seen \in Relevant,
          x.history = HistoryWith(s, seen), <1>1, TrailGrows
<1>2. /\ n \in Nat /\ DOMAIN s.history = 1 .. n /\ DOMAIN x.history = 1 .. n + 1
      /\ \A k \in 1 .. n : x.history[k] = s.history[k]
      /\ x.history[n + 1].type = seen /\ x.history[n + 1].at = now
      /\ \A k \in 1 .. n + 1 : x.history[k].at \in Nat
      /\ Timely(x)
  BY <1>17 DEF Longer
<1>3. rule.threshold \in Nat \ {0} /\ rule.window \in Nat /\ MaxInFlight \in Nat \ {0}
  BY DetectorConstants, LoopAssumption DEF Detector!RulesAssumption
<1>4. \A k \in 1 .. n + 1 :
        /\ Detector!Matches(x.history, rule, k) \in SUBSET (1 .. k)
        /\ C(x.history, k) \in Nat
  <2>. SUFFICES ASSUME NEW k \in 1 .. n + 1
                PROVE  /\ Detector!Matches(x.history, rule, k) \in SUBSET (1 .. k)
                       /\ C(x.history, k) \in Nat
    OBVIOUS
  <2>1. Detector!Matches(x.history, rule, k) \in SUBSET (1 .. k) /\ k \in Nat
    BY <1>2 DEF Detector!Matches
  <2>. QED BY <2>1, PositionsCount
<1>5. \A k \in 1 .. n : C(x.history, k) = C(s.history, k)
  <2>. SUFFICES ASSUME NEW k \in 1 .. n PROVE C(x.history, k) = C(s.history, k)
    OBVIOUS
  <2>1. \A j \in 1 .. k : x.history[j] = s.history[j]
    BY <1>2
  <2>2. Detector!Matches(x.history, rule, k) = Detector!Matches(s.history, rule, k)
    BY <1>2, <2>1 DEF Detector!Matches
  <2>. QED BY <2>2
<1>6. \A k \in 1 .. n : Bound(C(x.history, k), s, before)
  BY <1>2, <1>5 DEF WithinBounds
<1>7. Answered(s) => Answered(x)
  OBVIOUS
<1>8. seen \in rule.watched /\ C(x.history, n + 1) = rule.threshold => Answered(x)
  <2>. SUFFICES ASSUME seen \in rule.watched, C(x.history, n + 1) = rule.threshold
                PROVE  Answered(x)
    OBVIOUS
  <2>1. Len(x.history) = n + 1
    <3>1. x.history \in Seq(AuditedEvent)
      BY AddedTypes
    <3>2. Len(x.history) \in Nat /\ DOMAIN x.history = 1 .. Len(x.history)
      BY <3>1
    <3>. QED BY ONLY <1>2, <3>2
  <2>2. type \in Detector!Triggered(x.history)
    BY <1>2, <2>1, DetectorCount DEF Detector!Triggered
  <2>3. Detector!Anomaly(x.history, type) \in x.anomalies
    BY <2>2 DEF RaisedBy
  <2>4. Detector!Anomaly(x.history, type).type = type
    BY DEF Detector!Anomaly
  <2>. QED BY <2>3, <2>4
<1>9. /\ seen \notin rule.watched => n + 1 \notin Detector!Matches(x.history, rule, n + 1)
      /\ n > 0 => Detector!Matches(x.history, rule, n + 1) \ {n + 1}
                    \subseteq Detector!Matches(x.history, rule, n)
  <2>1. seen \notin rule.watched => n + 1 \notin Detector!Matches(x.history, rule, n + 1)
    BY <1>2 DEF Detector!Matches
  <2>2. ASSUME n > 0, NEW j \in Detector!Matches(x.history, rule, n + 1), j # n + 1
        PROVE  j \in Detector!Matches(x.history, rule, n)
    <3>1. /\ j \in 1 .. n + 1 /\ x.history[j].type \in rule.watched
          /\ x.history[j].at >= x.history[n + 1].at - rule.window
      BY DEF Detector!Matches
    <3>2. j \in 1 .. n /\ n \in 1 .. n + 1
      BY <1>2, <2>2, <3>1
    <3>3. x.history[n].at <= x.history[n + 1].at /\ x.history[n].at \in Nat
          /\ x.history[n + 1].at \in Nat /\ x.history[j].at \in Nat
      <4>1. n + 1 \in 1 .. n + 1 /\ n \in 1 .. n + 1 /\ j \in 1 .. n + 1
        BY <1>2, <3>1, <3>2
      <4>. QED BY <1>2, <4>1 DEF Timely
    <3>4. x.history[j].at >= x.history[n].at - rule.window
      BY ONLY <1>3, <3>1, <3>3
    <3>. QED BY <3>1, <3>2, <3>4 DEF Detector!Matches
  <2>. QED BY <2>1, <2>2
<1>10. PICK M : M = Detector!Matches(x.history, rule, n + 1)
  OBVIOUS
<1>11. PICK c : c = C(x.history, n + 1)
  OBVIOUS
<1>12. c = Cardinality(M) /\ c \in Nat /\ M \in SUBSET (1 .. n + 1)
  BY <1>2, <1>4, <1>10, <1>11
<1>13. \/ c < rule.threshold
       \/ /\ seen \notin rule.watched
          /\ \E d \in Nat : c <= d /\ ~(d < rule.threshold) /\ Bound(d, s, before)
       \/ /\ seen \in rule.watched
          /\ \/ c = rule.threshold
             \/ \E d \in Nat : c <= d + 1 /\ ~(d < rule.threshold) /\ Bound(d, s, before)
  <2>1. CASE n = 0
    <3>1. M \subseteq {1} /\ (seen \notin rule.watched => M = {})
      BY <1>9, <1>10, <1>12, <2>1
    <3>2. c <= 1 /\ (seen \notin rule.watched => c = 0)
      <4>1. M = {} \/ M = {1}
        BY <3>1
      <4>2. Cardinality({}) = 0 /\ Cardinality({1}) = 1
        BY FS_EmptySet, FS_Singleton
      <4>3. c = 0 \/ c = 1
        BY <1>12, <4>1, <4>2
      <4>4. seen \notin rule.watched => c = 0
        BY <1>12, <3>1, <4>2
      <4>. HIDE DEF rule
      <4>. QED BY <4>3, <4>4
    <3>. QED BY <1>3, <1>12, <3>2
  <2>2. CASE n > 0
    <3>1. n \in 1 .. n /\ n \in 1 .. n + 1
      BY <1>2, <2>2
    <3>2. PICK d \in Nat : d = C(x.history, n)
      BY <1>4, <3>1
    <3>3. Bound(d, s, before)
      BY <1>6, <3>1, <3>2
    <3>4. PICK L \in SUBSET (1 .. n) : L = Detector!Matches(x.history, rule, n)
      BY <1>4, <3>1
    <3>5. d = Cardinality(L) /\ M \ {n + 1} \in SUBSET L
      BY <1>9, <1>10, <2>2, <3>2, <3>4
    <3>6. Cardinality(M \ {n + 1}) <= d /\ Cardinality(M \ {n + 1}) \in Nat
      BY <1>2, <3>5, PositionsCount
    <3>7. IsFiniteSet(M)
      <4>1. PICK m \in Nat : m = n + 1
        BY <1>2
      <4>. QED BY <1>12, <4>1, PositionsCount
    <3>8. c <= Cardinality(M \ {n + 1}) + 1
      <4>1. CASE n + 1 \in M
        <5>1. Cardinality(M \ {n + 1}) = Cardinality(M) - 1
          BY <3>7, <4>1, FS_RemoveElement
        <5>. QED BY <1>12, <5>1
      <4>2. CASE n + 1 \notin M
        <5>1. M \ {n + 1} = M
          BY <4>2
        <5>. QED BY ONLY <1>12, <5>1
      <4>. QED BY <4>1, <4>2
    <3>9. seen \notin rule.watched => c <= d
      <4>1. seen \notin rule.watched => M \ {n + 1} = M
        BY <1>9, <1>10
      <4>. QED BY <1>12, <3>6, <4>1
    <3>. HIDE DEF Bound, rule
    <3>10. c <= d + 1
      BY <1>12, <3>6, <3>8
    <3>. QED BY <1>3, <1>12, <3>3, <3>9, <3>10
  <2>. QED BY <1>2, <2>1, <2>2
<1>14. Bound(c, x, after)
  <2>. HIDE DEF C, rule, Answered
  <2>1. before \in Nat /\ after \in Nat /\ before <= MaxInFlight /\ after <= before
    OBVIOUS
  <2>2. seen \in rule.watched => after = before - 1
    BY DEF rule
  <2>. QED BY <1>3, <1>7, <1>8, <1>11, <1>12, <1>13, <2>1, <2>2
<1>15. \A k \in 1 .. n : Bound(C(x.history, k), x, after)
  <2>. SUFFICES ASSUME NEW k \in 1 .. n PROVE Bound(C(x.history, k), x, after)
    OBVIOUS
  <2>1. C(x.history, k) \in Nat
    BY <1>2, <1>4
  <2>. HIDE DEF C, rule, Answered
  <2>. QED BY <1>3, <1>6, <1>7, <2>1
<1>16. \A k \in DOMAIN x.history : Bound(C(x.history, k), x, after)
  <2>1. \A k \in DOMAIN x.history : k \in 1 .. n \/ k = n + 1
    BY <1>2
  <2>. HIDE DEF C, Bound
  <2>. QED BY <1>11, <1>14, <1>15, <2>1
<1>. QED BY <1>16 DEF WithinBounds

-----------------------------------------------------------------------------
(* A handler's audit: its events are observed one after the other. *)

After(s, type) == IF type \in Relevant THEN ObserveSecurity(s, type) ELSE s

Observations(f, types) ==
  f = [k \in 0 .. Len(types) |->
         IF k = 0 THEN Stores
         ELSE IF types[k] \in Relevant THEN ObserveSecurity(f[k - 1], types[k])
         ELSE f[k - 1]]

LEMMA AuditUnfolds ==
  ASSUME NEW types, Audit(types), NEW s,
         s = (CHOOSE f : Observations(f, types))[Len(types)]
  PROVE  /\ history' = s.history /\ anomalies' = s.anomalies
         /\ incidents' = s.incidents /\ owned' = s.owned
         /\ score' = [c \in {Research} |-> s.score]
         /\ events' = [c \in {Research} |-> s.events]
BY DEF Audit, Observations

\* What holds of the stores at each point of a handler's audit.
Sound(s, was) == Accounted(s, 0) /\ Timely(s) /\ s.score <= was /\ s.score \in Nat

LEMMA AfterSound ==
  ASSUME now \in Nat, NEW was \in Nat, NEW s, Sound(s, was), NEW type,
         NEW x, x = After(s, type)
  PROVE  Sound(x, was)
<1>1. CASE type \notin Relevant
  BY <1>1 DEF After
<1>2. CASE type \in Relevant
  <2>1. x = ObserveSecurity(s, type)
    BY <1>2 DEF After
  <2>2. Accounted(s, 0) /\ Timely(s) /\ s \in Store
    BY DEF Sound, Accounted
  <2>3. Accounted(x, 0) /\ x.history = HistoryWith(s, type) /\ x.score <= s.score
    BY <1>2, <2>1, <2>2, ObserveStep
  <2>4. PICK n : n = Len(s.history)
    OBVIOUS
  <2>5. Timely(x)
    BY ONLY now \in Nat, <1>2, <2>2, <2>3, <2>4, TrailGrows
  <2>6. x.score \in Nat
    <3>1. x \in Store
      BY <2>3 DEF Accounted
    <3>. QED BY <3>1, TrustConstants DEF Store, Trust!TrustAssumption
  <2>. QED BY <2>3, <2>5, <2>6 DEF Sound
<1>. QED BY <1>1, <1>2

\* With fewer left to add, what was within bounds is.
LEMMA FewerLeft ==
  ASSUME NEW s \in Store, NEW type \in DOMAIN Rules, NEW a \in Nat, NEW b \in Nat, b <= a,
         WithinBounds(s, type, a)
  PROVE  WithinBounds(s, type, b)
<1>1. s.history \in Seq(AuditedEvent)
  BY DEF Store
<1>2. \A k \in DOMAIN s.history :
        Cardinality(Detector!Matches(s.history, Rules[type], k)) \in Nat
  <2>. SUFFICES ASSUME NEW k \in DOMAIN s.history
                PROVE  Cardinality(Detector!Matches(s.history, Rules[type], k)) \in Nat
    OBVIOUS
  <2>1. k \in Nat /\ Detector!Matches(s.history, Rules[type], k) \in SUBSET (1 .. k)
    BY <1>1 DEF Detector!Matches
  <2>. QED BY <2>1, PositionsCount
<1>3. Rules[type].threshold \in Nat /\ MaxInFlight \in Nat
  BY DetectorConstants, LoopAssumption DEF Detector!RulesAssumption
<1>. QED BY <1>2, <1>3 DEF WithinBounds

LEMMA AfterBounds ==
  ASSUME now \in Nat, NEW s \in Store, Accounted(s, 0), Timely(s), NEW seen,
         NEW x, x = After(s, seen),
         NEW type \in DOMAIN Rules, NEW before \in Nat, NEW after \in Nat,
         before <= MaxInFlight, after <= before,
         seen \in Rules[type].watched => after = before - 1,
         WithinBounds(s, type, before)
  PROVE  WithinBounds(x, type, after)
<1>1. CASE seen \in Relevant
  <2>1. x = ObserveSecurity(s, seen)
    BY <1>1 DEF After
  <2>2. x.history = HistoryWith(s, seen) /\ x.anomalies = s.anomalies \cup RaisedBy(s, seen)
    BY <1>1, <2>1, ObserveStep
  <2>. QED BY <1>1, <2>2, BoundsStep
<1>2. CASE seen \notin Relevant
  <2>1. x = s
    BY <1>2 DEF After
  <2>. QED BY <2>1, FewerLeft
<1>. QED BY <1>1, <1>2

\* The stores go through what is audited, from what they were to what they become.
Course(f, types) ==
  /\ f[0] = Stores
  /\ \A k \in 1 .. Len(types) : f[k] = After(f[k - 1], types[k])
  /\ \A k \in 0 .. Len(types) : Sound(f[k], Stores.score)

LEMMA AuditCourse ==
  ASSUME LoopInv, NEW types, Len(types) \in Nat, Audit(types)
  PROVE  \E f : /\ Course(f, types)
                /\ Stores' = f[Len(types)]
                /\ DOMAIN score' = {Research}
                /\ events' \in [{Research} -> Seq(ScoredEvent)]
<1>1. PICK n \in Nat : n = Len(types)
  OBVIOUS
<1>2. PICK first : first = Stores
  OBVIOUS
<1>3. PICK was : was = first.score
  OBVIOUS
<1>4. Sound(first, was) /\ was \in Nat
  <2>1. Accounted(first, 0) /\ Timely(first) /\ first \in Store
    BY <1>2 DEF LoopInv, Accounted
  <2>2. first.score \in Nat
    BY <2>1, TrustConstants DEF Store, Trust!TrustAssumption
  <2>. QED BY <1>3, <2>1, <2>2 DEF Sound
<1>5. now \in Nat
  BY DEF LoopInv
<1>. DEFINE S == {y \in Store : Sound(y, was)}
            step == [p \in (1 .. n) \X S |-> After(p[2], types[p[1]])]
            observed == CHOOSE f : Observations(f, types)
<1>6. \A y : Sound(y, was) => y \in Store
  BY DEF Sound, Accounted
<1>7. ASSUME NEW k \in 1 .. n, NEW y \in S
      PROVE  step[<<k, y>>] = After(y, types[k]) /\ step[<<k, y>>] \in S
  <2>1. PICK z : z = After(y, types[k])
    OBVIOUS
  <2>2. Sound(z, was)
    BY <1>4, <1>5, <2>1, AfterSound
  <2>3. step[<<k, y>>] = After(y, types[k])
    OBVIOUS
  <2>. HIDE DEF step
  <2>. QED BY <1>6, <2>1, <2>2, <2>3
<1>8. \E f : Observations(f, types)
  <2>1. first \in S
    BY <1>4, <1>6
  <2>. HIDE DEF step, S
  <2>2. PICK f : Recursion(f, n, S, first, step)
    <3>1. \A k \in 1 .. n, y \in S : step[<<k, y>>] \in S
      BY <1>7
    <3>. QED BY ONLY n \in Nat, <2>1, <3>1, RecursionExists
  <2>3. /\ f \in [0 .. n -> S]
        /\ f = [k \in 0 .. n |-> IF k = 0 THEN first ELSE step[<<k, f[k - 1]>>]]
    BY <2>2 DEF Recursion
  <2>4. \A k \in 0 .. n : k # 0 => step[<<k, f[k - 1]>>] = After(f[k - 1], types[k])
    <3>1. \A k \in 0 .. n : k # 0 => k \in 1 .. n /\ k - 1 \in 0 .. n
      OBVIOUS
    <3>. QED BY <1>7, <2>3, <3>1
  <2>5. f = [k \in 0 .. n |-> IF k = 0 THEN first ELSE After(f[k - 1], types[k])]
    BY <2>3, <2>4
  <2>6. f = [k \in 0 .. n |->
               IF k = 0 THEN first
               ELSE IF types[k] \in Relevant THEN ObserveSecurity(f[k - 1], types[k])
               ELSE f[k - 1]]
    BY ONLY <2>5 DEF After
  <2>7. f = [k \in 0 .. n |->
               IF k = 0 THEN Stores
               ELSE IF types[k] \in Relevant THEN ObserveSecurity(f[k - 1], types[k])
               ELSE f[k - 1]]
    BY ONLY <1>2, <2>6
  <2>8. f = [k \in 0 .. Len(types) |->
               IF k = 0 THEN Stores
               ELSE IF types[k] \in Relevant THEN ObserveSecurity(f[k - 1], types[k])
               ELSE f[k - 1]]
    BY ONLY <1>1, <2>7, Zenon
  <2>9. Observations(f, types)
    BY ONLY <2>8, Zenon DEF Observations
  <2>. QED BY <2>9
<1>9. Observations(observed, types)
  BY <1>8
<1>10. PICK s : s = observed[Len(types)]
  OBVIOUS
<1>11. /\ history' = s.history /\ anomalies' = s.anomalies
       /\ incidents' = s.incidents /\ owned' = s.owned
       /\ score' = [c \in {Research} |-> s.score]
       /\ events' = [c \in {Research} |-> s.events]
  BY <1>10, AuditUnfolds
<1>. HIDE DEF observed, step, S
<1>12. PICK f : f = observed
  OBVIOUS
<1>13. f = [k \in 0 .. n |-> IF k = 0 THEN first ELSE After(f[k - 1], types[k])]
  BY <1>1, <1>2, <1>9, <1>12 DEF Observations, After
<1>14. f[0] = first /\ \A k \in 1 .. n : f[k] = After(f[k - 1], types[k])
  BY <1>13
<1>15. 0 .. n \subseteq {k \in 0 .. n : Sound(f[k], was)}
  <2>. DEFINE G == {k \in 0 .. n : Sound(f[k], was)}
  <2>1. 0 \in G
    BY <1>4, <1>14
  <2>2. ASSUME NEW k \in 0 .. n - 1, k \in G
        PROVE  k + 1 \in G
    <3>1. k + 1 \in 1 .. n /\ k + 1 \in 0 .. n /\ (k + 1) - 1 = k /\ Sound(f[k], was)
      BY <2>2
    <3>2. f[k + 1] = After(f[k], types[k + 1])
      BY <1>14, <3>1
    <3>3. Sound(f[k + 1], was)
      BY <1>4, <1>5, <3>1, <3>2, AfterSound
    <3>. QED BY <3>1, <3>3
  <2>. HIDE DEF G
  <2>3. 0 .. n \subseteq G
    BY <2>1, <2>2, PositionInduction
  <2>. QED BY <2>3 DEF G
<1>16. Course(f, types)
  BY <1>1, <1>2, <1>3, <1>14, <1>15 DEF Course
<1>17. s \in Store
  <2>1. n \in 0 .. n /\ s = f[n]
    BY <1>1, <1>10, <1>12
  <2>. QED BY <1>6, <1>15, <2>1
<1>18. Stores' = s
  <2>1. Trust!ScoreOf(Research)' = s.score /\ events'[Research] = s.events
    BY <1>11 DEF Trust!ScoreOf
  <2>. QED BY <1>11, <1>17, <2>1 DEF Stores, Store
<1>19. DOMAIN score' = {Research} /\ events' \in [{Research} -> Seq(ScoredEvent)]
  BY <1>11, <1>17 DEF Store
<1>. QED BY <1>1, <1>10, <1>12, <1>16, <1>18, <1>19

\* What an audit may add to the bursts of a type: at most one event that its rule
\* watches, which takes one from what was left.
Spends(types, type, before, after) ==
  /\ before \in 0 .. MaxInFlight /\ after \in Nat /\ after <= before
  /\ (\E i \in 1 .. Len(types) : types[i] \in Rules[type].watched) => after + 1 <= before
  /\ \A i, j \in 1 .. Len(types) :
       types[i] \in Rules[type].watched /\ types[j] \in Rules[type].watched => i = j

LEMMA CourseBounds ==
  ASSUME now \in Nat, NEW types, Len(types) \in Nat, NEW f, Course(f, types),
         NEW type \in DOMAIN Rules, NEW before, NEW after, Spends(types, type, before, after),
         WithinBounds(f[0], type, before)
  PROVE  WithinBounds(f[Len(types)], type, after)
<1>1. PICK n \in Nat : n = Len(types)
  OBVIOUS
<1>. DEFINE W == Rules[type].watched
            Hit(k) == \E i \in 1 .. k : types[i] \in W
            left(k) == IF k = n THEN after ELSE IF Hit(k) THEN before - 1 ELSE before
            G == {k \in 0 .. n : WithinBounds(f[k], type, left(k))}
<1>2. /\ before \in Nat /\ after \in Nat /\ before <= MaxInFlight /\ after <= before
      /\ MaxInFlight \in Nat
      /\ Hit(n) => after + 1 <= before
      /\ \A i, j \in 1 .. n : types[i] \in W /\ types[j] \in W => i = j
  BY <1>1, LoopAssumption DEF Spends
<1>3. \A k \in 0 .. n : f[k] \in Store /\ Accounted(f[k], 0) /\ Timely(f[k])
  BY <1>1 DEF Course, Sound, Accounted
<1>4. \A s, a, b : s \in Store /\ WithinBounds(s, type, a) /\ a \in Nat /\ b \in Nat /\ b <= a
                     => WithinBounds(s, type, b)
  BY FewerLeft
<1>5. 0 \in G
  <2>1. ~Hit(0)
    OBVIOUS
  <2>2. left(0) \in Nat /\ left(0) <= before
    BY <1>2, <2>1
  <2>3. f[0] \in Store /\ 0 \in 0 .. n
    BY <1>3
  <2>. HIDE DEF left
  <2>4. WithinBounds(f[0], type, left(0))
    BY <1>2, <1>4, <2>2, <2>3
  <2>. QED BY <2>3, <2>4
<1>6. ASSUME NEW k \in 0 .. n - 1, k \in G
      PROVE  k + 1 \in G
  <2>1. WithinBounds(f[k], type, left(k)) /\ k # n /\ k + 1 \in 1 .. n /\ k + 1 \in 0 .. n
    BY <1>6
  <2>2. f[k + 1] = After(f[k], types[k + 1])
    <3>1. k + 1 - 1 = k
      OBVIOUS
    <3>. QED BY <1>1, <2>1, <3>1 DEF Course
  <2>3. Hit(k + 1) <=> (Hit(k) \/ types[k + 1] \in W)
    <3>1. \A i \in 1 .. k + 1 : i \in 1 .. k \/ i = k + 1
      OBVIOUS
    <3>2. \A i \in 1 .. k : i \in 1 .. k + 1
      OBVIOUS
    <3>3. k + 1 \in 1 .. k + 1
      OBVIOUS
    <3>. QED BY <3>1, <3>2, <3>3
  <2>4. types[k + 1] \in W => ~Hit(k)
    <3>. SUFFICES ASSUME types[k + 1] \in W, NEW i \in 1 .. k, types[i] \in W
                  PROVE  FALSE
      OBVIOUS
    <3>1. i \in 1 .. n /\ i # k + 1
      OBVIOUS
    <3>. QED BY <1>2, <2>1, <3>1
  <2>5. Hit(k + 1) => before >= 1
    <3>. SUFFICES ASSUME NEW i \in 1 .. k + 1, types[i] \in W PROVE before >= 1
      OBVIOUS
    <3>1. i \in 1 .. n
      OBVIOUS
    <3>2. Hit(n)
      BY <3>1
    <3>. HIDE DEF Hit
    <3>. QED BY <1>2, <3>2
  <2>. DEFINE a == IF Hit(k) THEN before - 1 ELSE before
              b == IF Hit(k + 1) THEN before - 1 ELSE before
  <2>6. /\ a \in Nat /\ b \in Nat /\ a <= MaxInFlight /\ b <= a
        /\ types[k + 1] \in W => b = a - 1
        /\ left(k) = a
    <3>. HIDE DEF Hit, W
    <3>. QED BY <1>2, <2>1, <2>3, <2>4, <2>5
  <2>7. left(k + 1) \in Nat /\ left(k + 1) <= b
    <3>1. CASE k + 1 = n
      <4>1. Hit(k + 1) <=> Hit(n)
        BY <3>1
      <4>. HIDE DEF Hit
      <4>. QED BY <1>2, <3>1, <4>1
    <3>2. CASE k + 1 # n
      <4>. HIDE DEF Hit
      <4>. QED BY <1>2, <2>6, <3>2
    <3>. QED BY <3>1, <3>2
  <2>. HIDE DEF a, b, left, Hit
  <2>8. k \in 0 .. n /\ f[k] \in Store /\ f[k + 1] \in Store
    BY <1>3, <2>1
  <2>9. Accounted(f[k], 0) /\ Timely(f[k])
    BY <1>3, <2>8
  <2>10. WithinBounds(f[k + 1], type, b)
    <3>1. PICK s, x, seen : s = f[k] /\ x = f[k + 1] /\ seen = types[k + 1]
      OBVIOUS
    <3>2. /\ s \in Store /\ Accounted(s, 0) /\ Timely(s) /\ x = After(s, seen)
          /\ WithinBounds(s, type, a)
      BY <2>1, <2>2, <2>6, <2>8, <2>9, <3>1
    <3>3. seen \in Rules[type].watched => b = a - 1
      BY <2>6, <3>1
    <3>4. WithinBounds(x, type, b)
      BY ONLY now \in Nat, type \in DOMAIN Rules, <2>6, <3>2, <3>3, AfterBounds
    <3>. QED BY <3>1, <3>4
  <2>11. WithinBounds(f[k + 1], type, left(k + 1))
    BY <1>4, <2>6, <2>7, <2>8, <2>10
  <2>. QED BY <2>1, <2>11
<1>7. n \in G
  <2>1. 0 .. n \subseteq G
    <3>. HIDE DEF G
    <3>. QED BY <1>5, <1>6, PositionInduction
  <2>. HIDE DEF G
  <2>. QED BY <2>1
<1>8. left(n) = after
  OBVIOUS
<1>9. WithinBounds(f[n], type, left(n))
  <2>. HIDE DEF left
  <2>. QED BY <1>7
<1>. QED BY <1>1, <1>8, <1>9

\* What is known of the next stores is known in the next state.
LEMMA StoresNext ==
  ASSUME NEW s, Stores' = s, now' = now
  PROVE  /\ Accounted(s, 0) => Accounted(Stores, 0)'
         /\ Timely(s) => Timely(Stores)'
         /\ \A type, left : WithinBounds(s, type, left) /\ Left(type)' = left
                              => WithinBounds(Stores, type, Left(type))'
         /\ Trust!ScoreOf(Research)' = s.score
<1>1. Accounted(s, 0) => Accounted(Stores, 0)'
  BY DEF Accounted, OpenIn, Count
<1>2. Timely(s) => Timely(Stores)'
  BY DEF Timely
<1>3. \A type, left : WithinBounds(s, type, left) /\ Left(type)' = left
                        => WithinBounds(Stores, type, Left(type))'
  BY DEF WithinBounds
<1>4. Trust!ScoreOf(Research)' = s.score
  <2>1. Stores'.score = Trust!ScoreOf(Research)'
    BY DEF Stores
  <2>. QED BY <2>1
<1>. QED BY <1>1, <1>2, <1>3, <1>4

\* A handler's audit keeps the invariant, and does not raise the score.
LEMMA AuditStep ==
  ASSUME LoopInv, NEW types, Len(types) \in Nat, Audit(types), UNCHANGED <<now, marks>>,
         inflight' \in 0 .. MaxInFlight, pending' \in 0 .. MaxPending,
         \A type \in DOMAIN Rules : OncePerRequest(type) /\ Stopped(type) =>
           \E before : /\ WithinBounds(Stores, type, before)
                       /\ Spends(types, type, before, Left(type)')
  PROVE  LoopInv' /\ Trust!ScoreOf(Research)' <= Trust!ScoreOf(Research)
<1>1. now \in Nat
  BY DEF LoopInv
<1>2. PICK f : /\ Course(f, types)
               /\ Stores' = f[Len(types)]
               /\ DOMAIN score' = {Research}
               /\ events' \in [{Research} -> Seq(ScoredEvent)]
  BY AuditCourse
<1>3. PICK s : s = f[Len(types)]
  OBVIOUS
<1>4. Sound(s, Stores.score)
  BY <1>2, <1>3 DEF Course
<1>5. Stores' = s
  BY <1>2, <1>3
<1>6. Accounted(Stores, 0)' /\ Timely(Stores)' /\ Trust!ScoreOf(Research)' = s.score
  BY <1>4, <1>5, StoresNext DEF Sound
<1>7. ASSUME NEW type \in DOMAIN Rules, OncePerRequest(type), Stopped(type)
      PROVE  WithinBounds(Stores, type, Left(type))'
  <2>1. PICK before : /\ WithinBounds(Stores, type, before)
                      /\ Spends(types, type, before, Left(type)')
    BY <1>7
  <2>2. PICK left : left = Left(type)'
    OBVIOUS
  <2>3. Spends(types, type, before, left) /\ WithinBounds(f[0], type, before)
    BY <1>2, <2>1, <2>2 DEF Course
  <2>4. WithinBounds(s, type, left)
    BY <1>1, <1>2, <1>3, <2>3, CourseBounds
  <2>. QED BY <1>5, <2>2, <2>4, StoresNext
<1>8. \A type \in DOMAIN Rules :
        (OncePerRequest(type) /\ Stopped(type) => WithinBounds(Stores, type, Left(type)))'
  BY <1>7 DEF OncePerRequest, Stopped
<1>9. Stores.score = Trust!ScoreOf(Research)
  BY DEF Stores
<1>10. s.score <= Stores.score
  BY <1>4 DEF Sound
<1>. QED BY <1>1, <1>2, <1>6, <1>8, <1>9, <1>10 DEF LoopInv

-----------------------------------------------------------------------------
(* The verdict: once a burst that a policy stops is answered, nothing proceeds. *)

LEMMA AnsweredStops ==
  ASSUME Verdict = "proceed", NEW type \in DOMAIN Rules, Stopped(type)
  PROVE  ~ \E a \in anomalies : a.type = type
<1>. SUFFICES ASSUME NEW a \in anomalies, a.type = type
              PROVE  FALSE
  OBVIOUS
<1>1. PICK d \in Defences : d.action # "escalate_risk" /\ type \in d.anomalies
  BY DEF Stopped
<1>2. d \in Fired
  BY <1>1 DEF Fired
<1>3. d.action \in {"temporary_block", "cooldown", "require_approval"}
  BY <1>1, LoopAssumption DEF DefenceAction
<1>4. /\ Len(Precedence) = 4
      /\ Precedence[1] = "temporary_block" /\ Precedence[2] = "cooldown"
      /\ Precedence[3] = "require_approval"
  BY DEF Precedence
<1>5. PICK k \in 1 .. 3 : d.action = Precedence[k]
  BY <1>3, <1>4
<1>6. k \in Wanted /\ Wanted \in SUBSET (1 .. 4)
  BY <1>2, <1>4, <1>5 DEF Wanted
<1>7. PICK m \in Wanted : \A j \in Wanted : m <= j
  BY <1>6, FirstPosition
<1>8. Min(Wanted) \in Wanted /\ \A j \in Wanted : Min(Wanted) <= j
  BY <1>7 DEF Min
<1>9. Min(Wanted) \in 1 .. 3
  <2>1. PICK first : first = Min(Wanted)
    OBVIOUS
  <2>2. first \in 1 .. 4 /\ first <= k
    BY ONLY <1>6, <1>8, <2>1
  <2>3. first \in 1 .. 3
    BY ONLY <2>2, k \in 1 .. 3
  <2>. QED BY <2>1, <2>3
<1>10. Chosen \in {"temporary_block", "cooldown", "require_approval"}
  BY <1>4, <1>6, <1>9 DEF Chosen
<1>. QED BY <1>10 DEF Verdict

\* So at a gate any number of events may be spent.
LEMMA NothingSpentYet ==
  ASSUME LoopInv, Verdict = "proceed", NEW type \in DOMAIN Rules,
         OncePerRequest(type), Stopped(type), NEW before
  PROVE  WithinBounds(Stores, type, before)
<1>1. ~ \E a \in Stores.anomalies : a.type = type
  BY AnsweredStops DEF Stores
<1>2. WithinBounds(Stores, type, Left(type))
  BY DEF LoopInv
<1>. QED BY <1>1, <1>2 DEF WithinBounds

\* A handler that audits nothing.
LEMMA QuietStep ==
  ASSUME LoopInv, Audit(<< >>), UNCHANGED <<now, marks, inflight>>,
         pending' \in 0 .. MaxPending
  PROVE  LoopInv' /\ Trust!ScoreOf(Research)' <= Trust!ScoreOf(Research)
<1>1. inflight \in 0 .. MaxInFlight /\ MaxInFlight \in Nat
  BY LoopAssumption DEF LoopInv
<1>2. PICK types : types = << >>
  OBVIOUS
<1>3. Len(types) = 0
  BY <1>2
<1>4. ASSUME NEW type \in DOMAIN Rules, OncePerRequest(type), Stopped(type)
      PROVE  \E before : /\ WithinBounds(Stores, type, before)
                         /\ Spends(types, type, before, Left(type)')
  <2>1. WithinBounds(Stores, type, Left(type))
    BY <1>4 DEF LoopInv
  <2>2. PICK left : left = Left(type)
    OBVIOUS
  <2>3. Left(type)' = left /\ left \in 0 .. MaxInFlight
    BY <1>1, <2>2 DEF Left, WatchesFinish
  <2>4. Spends(types, type, left, left)
    BY <1>1, <1>3, <2>3 DEF Spends
  <2>. QED BY <2>1, <2>2, <2>3, <2>4
<1>5. Audit(types) /\ Len(types) \in Nat /\ inflight' \in 0 .. MaxInFlight
  BY <1>1, <1>2, <1>3
<1>. QED BY ONLY LoopInv, UNCHANGED <<now, marks, inflight>>, pending' \in 0 .. MaxPending,
                 <1>4, <1>5, AuditStep

\* A request starts without a rotation: nothing is audited, one more is in flight.
LEMMA UnauditedStart ==
  ASSUME LoopInv, Verdict = "proceed", Audit(<< >>), UNCHANGED <<now, marks, pending>>,
         inflight' \in 0 .. MaxInFlight
  PROVE  LoopInv' /\ Trust!ScoreOf(Research)' <= Trust!ScoreOf(Research)
<1>1. PICK types : types = << >>
  OBVIOUS
<1>2. Len(types) = 0 /\ Audit(types)
  BY <1>1
<1>3. ASSUME NEW type \in DOMAIN Rules, OncePerRequest(type), Stopped(type)
      PROVE  \E before : /\ WithinBounds(Stores, type, before)
                         /\ Spends(types, type, before, Left(type)')
  <2>1. PICK left : left = Left(type)'
    OBVIOUS
  <2>2. MaxInFlight \in Nat
    BY LoopAssumption
  <2>3. left \in 0 .. MaxInFlight
    BY <2>1, <2>2 DEF Left
  <2>4. Spends(types, type, left, left)
    BY <1>2, <2>2, <2>3 DEF Spends
  <2>. QED BY <1>3, <2>1, <2>4, NothingSpentYet
<1>4. pending' \in 0 .. MaxPending /\ Len(types) \in Nat
  BY <1>2 DEF LoopInv
<1>. QED BY ONLY LoopInv, UNCHANGED <<now, marks, pending>>, inflight' \in 0 .. MaxInFlight,
                 <1>2, <1>3, <1>4, AuditStep

\* A handler whose request passed the gates so far audits one event of its own.
LEMMA GateStep ==
  ASSUME LoopInv, Verdict = "proceed",
         NEW seen \in {"capability_denied", "privacy_boundary_blocked", "session_rotated"},
         Audit(<<seen>>), UNCHANGED <<now, marks, pending>>,
         inflight' \in 0 .. MaxInFlight
  PROVE  LoopInv' /\ Trust!ScoreOf(Research)' <= Trust!ScoreOf(Research)
<1>1. PICK types : types = <<seen>>
  OBVIOUS
<1>2. Len(types) = 1 /\ types[1] = seen
  BY <1>1
<1>3. MaxInFlight \in Nat \ {0}
  BY LoopAssumption
<1>4. ASSUME NEW type \in DOMAIN Rules, OncePerRequest(type), Stopped(type)
      PROVE  \E before : /\ WithinBounds(Stores, type, before)
                         /\ Spends(types, type, before, Left(type)')
  <2>1. PICK left : left = Left(type)'
    OBVIOUS
  <2>2. left \in 0 .. MaxInFlight
    BY <1>3, <2>1 DEF Left
  <2>3. CASE seen \in Rules[type].watched
    <3>1. ~WatchesFinish(type)
      BY <1>4, <2>3 DEF OncePerRequest, WatchesFinish
    <3>2. left = 0
      <4>1. ~WatchesFinish(type)'
        BY <3>1 DEF WatchesFinish
      <4>. QED BY <2>1, <4>1 DEF Left
    <3>3. Spends(types, type, 1, left)
      BY <1>2, <1>3, <3>2 DEF Spends
    <3>. QED BY <1>4, <2>1, <3>3, NothingSpentYet
  <2>4. CASE seen \notin Rules[type].watched
    <3>1. Spends(types, type, left, left)
      BY <1>2, <1>3, <2>2, <2>4 DEF Spends
    <3>. QED BY <1>4, <2>1, <3>1, NothingSpentYet
  <2>. QED BY <2>3, <2>4
<1>5. Audit(types) /\ Len(types) \in Nat
  BY <1>1, <1>2
<1>6. pending' \in 0 .. MaxPending
  BY DEF LoopInv
<1>. QED BY ONLY LoopInv, UNCHANGED <<now, marks, pending>>, inflight' \in 0 .. MaxInFlight,
                 <1>4, <1>5, <1>6, AuditStep

\* A request that was in flight is refused or fails.
LEMMA FinishRefusedStep ==
  ASSUME LoopInv,
         NEW types \in {<<"execution_failed">>, <<"execution_blocked">>,
                        <<"sandbox_blocked", "execution_blocked">>},
         FinishRefused(types)
  PROVE  LoopInv' /\ Trust!ScoreOf(Research)' <= Trust!ScoreOf(Research)
<1>1. /\ Len(types) \in Nat
      /\ \A i \in 1 .. Len(types) :
           types[i] \in {"execution_failed", "execution_blocked", "sandbox_blocked"}
      /\ \A i, j \in 1 .. Len(types) :
           i # j => {types[i], types[j]} = {"sandbox_blocked", "execution_blocked"}
  <2>1. CASE types \in {<<"execution_failed">>, <<"execution_blocked">>}
    <3>1. Len(types) = 1 /\ types[1] \in {"execution_failed", "execution_blocked"}
      BY <2>1
    <3>. QED BY <3>1
  <2>2. CASE types = <<"sandbox_blocked", "execution_blocked">>
    <3>1. Len(types) = 2 /\ types[1] = "sandbox_blocked" /\ types[2] = "execution_blocked"
      BY <2>2
    <3>2. \A i \in 1 .. 2 : i = 1 \/ i = 2
      OBVIOUS
    <3>. QED BY <3>1, <3>2
  <2>. QED BY <2>1, <2>2
<1>2. /\ inflight > 0 /\ inflight' = inflight - 1 /\ Audit(types)
      /\ UNCHANGED <<now, marks, pending>>
  BY DEF FinishRefused
<1>3. inflight \in 0 .. MaxInFlight /\ MaxInFlight \in Nat \ {0} /\ pending \in 0 .. MaxPending
  BY LoopAssumption DEF LoopInv
<1>4. inflight' \in 0 .. MaxInFlight /\ inflight' + 1 = inflight /\ pending' \in 0 .. MaxPending
  BY <1>2, <1>3
<1>5. ASSUME NEW type \in DOMAIN Rules, OncePerRequest(type), Stopped(type)
      PROVE  \E before : /\ WithinBounds(Stores, type, before)
                         /\ Spends(types, type, before, Left(type)')
  <2>1. WithinBounds(Stores, type, Left(type))
    BY <1>5 DEF LoopInv
  <2>2. PICK before, after : before = Left(type) /\ after = Left(type)'
    OBVIOUS
  <2>3. \A i, j \in 1 .. Len(types) :
          types[i] \in Rules[type].watched /\ types[j] \in Rules[type].watched => i = j
    <3>1. ~ ({"sandbox_blocked", "execution_blocked"} \subseteq Rules[type].watched)
      BY <1>5 DEF OncePerRequest
    <3>. QED BY <1>1, <3>1
  <2>4. CASE WatchesFinish(type)
    <3>1. before = inflight /\ after = inflight'
      <4>1. WatchesFinish(type)'
        BY <2>4 DEF WatchesFinish
      <4>. QED BY <2>2, <2>4, <4>1 DEF Left
    <3>2. before \in 0 .. MaxInFlight /\ after \in Nat /\ after + 1 = before
      <4>1. before \in 0 .. MaxInFlight
        BY ONLY <1>3, <3>1
      <4>2. after \in 0 .. MaxInFlight
        BY ONLY <1>4, <3>1
      <4>3. after + 1 = before
        BY ONLY <1>4, <3>1
      <4>. QED BY ONLY <1>3, <4>1, <4>2, <4>3
    <3>3. Spends(types, type, before, after)
      BY <2>3, <3>2 DEF Spends
    <3>. QED BY <2>1, <2>2, <3>3
  <2>5. CASE ~WatchesFinish(type)
    <3>1. before = 0 /\ after = 0
      <4>1. ~WatchesFinish(type)'
        BY <2>5 DEF WatchesFinish
      <4>. QED BY <2>2, <2>5, <4>1 DEF Left
    <3>2. \A i \in 1 .. Len(types) : types[i] \notin Rules[type].watched
      BY <1>1, <2>5 DEF WatchesFinish
    <3>3. Spends(types, type, before, after)
      BY <1>3, <3>1, <3>2 DEF Spends
    <3>. QED BY <2>1, <2>2, <3>3
  <2>. QED BY <2>4, <2>5
<1>. QED BY ONLY LoopInv, <1>1, <1>2, <1>4, <1>5, AuditStep

\* A rejection is watched by no rule of the kind.
LEMMA RejectStep ==
  ASSUME LoopInv, Reject
  PROVE  LoopInv' /\ Trust!ScoreOf(Research)' <= Trust!ScoreOf(Research)
<1>1. PICK types : types = <<"approval_rejected">>
  OBVIOUS
<1>2. Len(types) = 1 /\ types[1] = "approval_rejected"
  BY <1>1
<1>3. /\ inflight \in 0 .. MaxInFlight /\ MaxInFlight \in Nat \ {0}
      /\ pending \in 0 .. MaxPending /\ MaxPending \in Nat
  BY LoopAssumption DEF LoopInv
<1>4. /\ pending > 0 /\ pending' = pending - 1 /\ Audit(types)
      /\ UNCHANGED <<now, marks, inflight>>
  BY <1>1 DEF Reject
<1>5. inflight' \in 0 .. MaxInFlight /\ pending' \in 0 .. MaxPending
  BY <1>3, <1>4
<1>6. ASSUME NEW type \in DOMAIN Rules, OncePerRequest(type), Stopped(type)
      PROVE  \E before : /\ WithinBounds(Stores, type, before)
                         /\ Spends(types, type, before, Left(type)')
  <2>1. WithinBounds(Stores, type, Left(type))
    BY <1>6 DEF LoopInv
  <2>2. PICK left : left = Left(type)
    OBVIOUS
  <2>3. Left(type)' = left /\ left \in 0 .. MaxInFlight
    BY <1>3, <1>4, <2>2 DEF Left, WatchesFinish
  <2>4. "approval_rejected" \notin Rules[type].watched
    BY <1>6 DEF OncePerRequest
  <2>5. Spends(types, type, left, left)
    BY <1>2, <1>3, <2>3, <2>4 DEF Spends
  <2>. QED BY <2>1, <2>2, <2>3, <2>5
<1>7. Len(types) \in Nat
  BY <1>2
<1>. QED BY ONLY LoopInv, <1>4, <1>5, <1>6, <1>7, AuditStep

-----------------------------------------------------------------------------
(* Recoveries: what one is granted is a number, whatever the window holds. *)

LEMMA TotalIsInt ==
  ASSUME NEW points \in Seq(Int)
  PROVE  Trust!TotalOf(points) \in Int
<1>. DEFINE n == Len(points)
            Sums(f) == f = [k \in 0 .. n |-> IF k = 0 THEN 0 ELSE f[k - 1] + points[k]]
            step == [p \in (1 .. n) \X Int |-> p[2] + points[p[1]]]
            upTo == CHOOSE f : Sums(f)
<1>1. n \in Nat /\ \A k \in 1 .. n : points[k] \in Int
  OBVIOUS
<1>2. \A k \in 1 .. n, y \in Int : step[<<k, y>>] = y + points[k] /\ step[<<k, y>>] \in Int
  BY <1>1
<1>3. \E f : Sums(f)
  <2>. HIDE DEF step, n
  <2>1. PICK f : Recursion(f, n, Int, 0, step)
    <3>1. \A k \in 1 .. n, y \in Int : step[<<k, y>>] \in Int
      BY <1>2
    <3>2. 0 \in Int
      OBVIOUS
    <3>. QED BY ONLY <1>1, <3>1, <3>2, RecursionExists
  <2>2. /\ f \in [0 .. n -> Int]
        /\ f = [k \in 0 .. n |-> IF k = 0 THEN 0 ELSE step[<<k, f[k - 1]>>]]
    BY <2>1 DEF Recursion
  <2>3. \A k \in 0 .. n : k # 0 => step[<<k, f[k - 1]>>] = f[k - 1] + points[k]
    <3>1. \A k \in 0 .. n : k # 0 => k \in 1 .. n /\ k - 1 \in 0 .. n
      BY <1>1
    <3>. QED BY <1>2, <2>2, <3>1
  <2>4. Sums(f)
    BY <2>2, <2>3
  <2>. HIDE DEF Sums
  <2>. QED BY <2>4
<1>4. Sums(upTo)
  <2>. HIDE DEF Sums
  <2>. QED BY <1>3
<1>5. Trust!TotalOf(points) = upTo[n]
  BY DEF Trust!TotalOf
<1>. HIDE DEF upTo, step
<1>. DEFINE G == {k \in 0 .. n : upTo[k] \in Int}
<1>6. 0 \in G
  BY <1>1, <1>4
<1>7. \A k \in 0 .. n - 1 : k \in G => k + 1 \in G
  BY <1>1, <1>4
<1>8. 0 .. n \subseteq G
  <2>. HIDE DEF G, n
  <2>. QED BY <1>1, <1>6, <1>7, PositionInduction
<1>9. n \in G
  <2>. HIDE DEF G, n
  <2>. QED BY <1>1, <1>8
<1>. QED BY <1>5, <1>9

LEMMA GrantedTypes ==
  ASSUME LoopInv, NEW delta \in Nat
  PROVE  /\ Trust!InWindow(Research) \in Seq(Trust!Mark)
         /\ Trust!Granted(Research, delta) \in Int
<1>1. PICK M : M = marks[Research]
  OBVIOUS
<1>2. M \in Seq(Trust!Mark) /\ now \in Nat
  BY <1>1 DEF LoopInv
<1>3. WindowMs \in Nat /\ RecoveryCap \in Nat
  BY TrustConstants DEF Trust!TrustAssumption
<1>4. PICK w : w = Trust!InWindow(Research)
  OBVIOUS
<1>5. w \in Seq(Trust!Mark)
  <2>. DEFINE kept == {k \in DOMAIN M : M[k].at >= now - WindowMs}
              n == Len(M)
  <2>1. w = IF kept = {} THEN << >> ELSE SubSeq(M, Trust!Min(kept), n)
    BY <1>1, <1>4 DEF Trust!InWindow, Trust!MarksSince
  <2>2. n \in Nat /\ kept \in SUBSET (1 .. n)
    BY <1>2
  <2>3. CASE kept = {}
    BY <2>1, <2>3
  <2>4. CASE kept # {}
    <3>. HIDE DEF kept, n
    <3>1. PICK m \in kept : \A j \in kept : m <= j
      BY <2>2, <2>4, FirstPosition
    <3>2. Trust!Min(kept) \in kept
      BY <3>1 DEF Trust!Min
    <3>3. Trust!Min(kept) \in 1 .. n
      BY <2>2, <3>2
    <3>. QED BY <1>2, <2>1, <2>4, <3>3 DEF n
  <2>. QED BY <2>3, <2>4
<1>6. Trust!Amounts(w) \in Seq(Int)
  <2>1. Len(w) \in Nat /\ \A k \in 1 .. Len(w) : w[k] \in Trust!Mark
    BY <1>5
  <2>2. \A k \in 1 .. Len(w) : w[k].amount \in Int
    BY <2>1 DEF Trust!Mark
  <2>. QED BY <2>1, <2>2 DEF Trust!Amounts
<1>7. PICK left \in Int : left = RecoveryCap - Trust!TotalOf(Trust!Amounts(w))
  BY <1>3, <1>6, TotalIsInt
<1>8. PICK room \in Nat : room = IF left > 0 THEN left ELSE 0
  OBVIOUS
<1>9. Trust!Granted(Research, delta) = Trust!Min({delta, room})
  BY <1>4, <1>7, <1>8 DEF Trust!Granted
<1>10. Trust!Min({delta, room}) \in {delta, room}
  <2>1. \E k \in {delta, room} : \A j \in {delta, room} : k <= j
    <3>1. CASE delta <= room
      BY <3>1
    <3>2. CASE ~(delta <= room)
      <4>1. room <= delta /\ room <= room
        BY <3>2
      <4>. QED BY <4>1
    <3>. QED BY <3>1, <3>2
  <2>. QED BY <2>1 DEF Trust!Min
<1>. QED BY <1>4, <1>5, <1>9, <1>10

\* A recovery is one more scored event, and the score stays a score.
LEMMA Recovered ==
  ASSUME LoopInv, NEW type \in {"clean_execution", "incident_closed"},
         Trust!RecordRecovery(Research, type)
  PROVE  /\ now' = now
         /\ DOMAIN score' = {Research}
         /\ Trust!ScoreOf(Research)' \in 0 .. MaxScore
         /\ events' \in [{Research} -> Seq(ScoredEvent)]
         /\ OneMore(events[Research], events'[Research], type)
         /\ marks' \in [{Research} -> Seq(Trust!Mark)]
<1>1. type \in DOMAIN Recovery /\ Recovery[type] \in Nat
  BY LoopAssumption, TrustConstants DEF Trust!TrustAssumption
<1>2. PICK delta : delta = Trust!Granted(Research, Recovery[type])
  OBVIOUS
<1>3. delta \in Int /\ Trust!InWindow(Research) \in Seq(Trust!Mark)
  BY <1>1, <1>2, GrantedTypes
<1>4. /\ now \in Nat /\ DOMAIN score \subseteq {Research}
      /\ events \in [{Research} -> Seq(ScoredEvent)]
      /\ marks \in [{Research} -> Seq(Trust!Mark)]
  BY DEF LoopInv
<1>5. /\ events' = [events EXCEPT ![Research] =
                      Append(@, [type |-> type, delta |-> delta, at |-> now])]
      /\ score' = [d \in DOMAIN score \cup {Research} |->
                     IF d = Research THEN Trust!Clamp(Trust!ScoreOf(Research) + delta)
                                     ELSE score[d]]
      /\ marks' = [marks EXCEPT ![Research] =
                     IF delta > 0 THEN Append(Trust!InWindow(Research), [at |-> now, amount |-> delta])
                                  ELSE Trust!InWindow(Research)]
      /\ now' = now
  BY <1>2 DEF Trust!RecordRecovery, Trust!Log, Trust!SetScore
<1>6. PICK e : e = [type |-> type, delta |-> delta, at |-> now]
  OBVIOUS
<1>7. e \in ScoredEvent /\ e.type = type
  BY <1>3, <1>4, <1>6 DEF ScoredEvent, ScoredType
<1>8. PICK q : q = events[Research]
  OBVIOUS
<1>9. q \in Seq(ScoredEvent) /\ Append(q, e) \in Seq(ScoredEvent)
  BY <1>4, <1>7, <1>8
<1>10. events'[Research] = Append(q, e) /\ events' \in [{Research} -> Seq(ScoredEvent)]
  BY <1>4, <1>5, <1>6, <1>8, <1>9
<1>11. OneMore(events[Research], events'[Research], type)
  <2>1. OneMore(q, Append(q, e), type)
    BY <1>7, <1>9, CountGrows DEF OneMore
  <2>. QED BY <1>8, <1>10, <2>1
<1>12. DOMAIN score' = {Research} /\ Trust!ScoreOf(Research)' \in 0 .. MaxScore
  <2>1. Trust!ScoreOf(Research) \in 0 .. MaxScore
    <3>1. Stores \in Store /\ Stores.score = Trust!ScoreOf(Research)
      BY DEF LoopInv, Accounted, Stores
    <3>. QED BY <3>1 DEF Store
  <2>2. MaxScore \in Nat
    BY TrustConstants DEF Trust!TrustAssumption
  <2>3. Trust!Clamp(Trust!ScoreOf(Research) + delta) \in 0 .. MaxScore
    BY <1>3, <2>1, <2>2 DEF Trust!Clamp
  <2>. QED BY <1>4, <1>5, <2>3 DEF Trust!ScoreOf
<1>13. marks' \in [{Research} -> Seq(Trust!Mark)]
  <2>1. delta > 0 => [at |-> now, amount |-> delta] \in Trust!Mark
    BY <1>3, <1>4 DEF Trust!Mark
  <2>2. (IF delta > 0 THEN Append(Trust!InWindow(Research), [at |-> now, amount |-> delta])
                      ELSE Trust!InWindow(Research)) \in Seq(Trust!Mark)
    BY <1>3, <2>1
  <2>. QED BY <1>4, <1>5, <2>2
<1>. QED BY <1>5, <1>10, <1>11, <1>12, <1>13

\* A transport answer credits the reputation and audits nothing.
LEMMA FinishSucceededStep ==
  ASSUME LoopInv, FinishSucceeded
  PROVE  LoopInv'
<1>1. /\ inflight > 0 /\ inflight' = inflight - 1
      /\ Trust!RecordRecovery(Research, "clean_execution")
      /\ UNCHANGED <<history, anomalies, incidents, owned, pending>>
  BY DEF FinishSucceeded, Recover
<1>2. /\ now' = now
      /\ DOMAIN score' = {Research}
      /\ Trust!ScoreOf(Research)' \in 0 .. MaxScore
      /\ events' \in [{Research} -> Seq(ScoredEvent)]
      /\ OneMore(events[Research], events'[Research], "clean_execution")
      /\ marks' \in [{Research} -> Seq(Trust!Mark)]
  BY <1>1, Recovered
<1>3. /\ now \in Nat /\ inflight \in 0 .. MaxInFlight /\ pending \in 0 .. MaxPending
      /\ MaxInFlight \in Nat
  BY LoopAssumption DEF LoopInv
<1>4. PICK s : s = Stores
  OBVIOUS
<1>5. PICK x : x = Stores'
  OBVIOUS
<1>6. s \in Store /\ Accounted(s, 0) /\ Timely(s)
  BY <1>4 DEF LoopInv, Accounted
<1>7. /\ x.history = s.history /\ x.anomalies = s.anomalies /\ x.incidents = s.incidents
      /\ x.owned = s.owned /\ OneMore(s.events, x.events, "clean_execution")
      /\ x.score \in 0 .. MaxScore /\ x.events \in Seq(ScoredEvent)
  BY <1>1, <1>2, <1>4, <1>5 DEF Stores
<1>8. x \in Store
  <2>1. x = [history |-> s.history, anomalies |-> s.anomalies, incidents |-> s.incidents,
             owned |-> s.owned, score |-> x.score, events |-> x.events]
    BY <1>1, <1>4, <1>5 DEF Stores
  <2>. QED BY <1>6, <1>7, <2>1 DEF Store
<1>9. Accounted(x, 0)
  <2>1. "clean_execution" \notin DOMAIN Penalty
    BY LoopAssumption
  <2>2. OpenIn(x) = OpenIn(s)
    BY <1>7 DEF OpenIn
  <2>. QED BY <1>6, <1>7, <1>8, <2>1, <2>2 DEF Accounted, OneMore
<1>10. Timely(x)
  BY <1>6, <1>7 DEF Timely
<1>11. ASSUME NEW type \in DOMAIN Rules, OncePerRequest(type), Stopped(type)
       PROVE  WithinBounds(Stores, type, Left(type))'
  <2>1. PICK before, after : before = Left(type) /\ after = Left(type)'
    OBVIOUS
  <2>2. before \in Nat /\ after \in Nat /\ after <= before
    BY <1>1, <1>3, <2>1 DEF Left, WatchesFinish
  <2>3. WithinBounds(s, type, before)
    BY <1>4, <1>11, <2>1 DEF LoopInv
  <2>4. WithinBounds(x, type, before)
    BY <1>7, <2>3 DEF WithinBounds
  <2>5. WithinBounds(x, type, after)
    BY <1>8, <2>2, <2>4, FewerLeft
  <2>. QED BY <1>2, <1>5, <2>1, <2>5, StoresNext
<1>12. Accounted(Stores, 0)' /\ Timely(Stores)'
  BY <1>2, <1>5, <1>9, <1>10, StoresNext
<1>13. \A type \in DOMAIN Rules :
         (OncePerRequest(type) /\ Stopped(type) => WithinBounds(Stores, type, Left(type)))'
  BY <1>11 DEF OncePerRequest, Stopped
<1>14. inflight' \in 0 .. MaxInFlight /\ pending' \in 0 .. MaxPending
  BY <1>1, <1>3
<1>. QED BY <1>2, <1>3, <1>12, <1>13, <1>14 DEF LoopInv

\* What closing an incident leaves open.
LEMMA ClosedFacts ==
  ASSUME LoopInv, NEW k \in DOMAIN incidents, CloseIncident(k),
         NEW s, s = Stores, NEW x, x.incidents = incidents'
  PROVE  /\ x.incidents \in Seq(OpenedIncident)
         /\ Len(x.incidents) = Len(s.incidents) /\ Len(s.incidents) \in Nat
         /\ OpenIn(x) = OpenIn(s) \ {k}
         /\ IsFiniteSet(OpenIn(s))
<1>1. PICK old : old = incidents
  OBVIOUS
<1>2. s \in Store /\ s.incidents = old
  BY <1>1 DEF LoopInv, Accounted, Stores
<1>3. old \in Seq(OpenedIncident) /\ Len(old) \in Nat /\ DOMAIN old = 1 .. Len(old)
  BY <1>2 DEF Store
<1>4. x.incidents = [old EXCEPT ![k].status = "closed"]
  BY <1>1 DEF CloseIncident
<1>5. k \in DOMAIN old /\ old[k] \in OpenedIncident
  BY <1>1, <1>3
<1>6. [old[k] EXCEPT !.status = "closed"] \in OpenedIncident
      /\ [old[k] EXCEPT !.status = "closed"].status = "closed"
  BY <1>5 DEF OpenedIncident
<1>7. PICK e : e = [old[k] EXCEPT !.status = "closed"]
  OBVIOUS
<1>8. x.incidents = [old EXCEPT ![k] = e]
  BY <1>4, <1>7
<1>9. e \in OpenedIncident /\ e.status = "closed"
  BY <1>6, <1>7
<1>10. x.incidents \in Seq(OpenedIncident) /\ Len(x.incidents) = Len(old)
  BY <1>3, <1>5, <1>8, <1>9
<1>11. DOMAIN x.incidents = DOMAIN old /\ x.incidents[k] = e
       /\ \A j \in DOMAIN old : j # k => x.incidents[j] = old[j]
  BY <1>3, <1>5, <1>8
<1>12. OpenIn(x) = OpenIn(s) \ {k}
  BY <1>2, <1>9, <1>11 DEF OpenIn
<1>13. OpenIn(s) \in SUBSET (1 .. Len(old))
  BY <1>2, <1>3 DEF OpenIn
<1>14. IsFiniteSet(OpenIn(s))
  BY <1>3, <1>13, PositionsCount
<1>. QED BY <1>2, <1>3, <1>10, <1>12, <1>14

\* A close is credited to the compartment that answers for the incident, once.
LEMMA CloseIncidentStep ==
  ASSUME LoopInv, NEW k \in DOMAIN incidents, CloseIncident(k)
  PROVE  LoopInv'
<1>1. PICK s : s = Stores
  OBVIOUS
<1>2. PICK x : x = Stores'
  OBVIOUS
<1>3. s \in Store /\ Accounted(s, 0) /\ Timely(s)
  BY <1>1 DEF LoopInv, Accounted
<1>4. /\ s.history = history /\ s.anomalies = anomalies /\ s.incidents = incidents
      /\ s.owned = owned /\ s.events = events[Research]
      /\ x.history = history' /\ x.anomalies = anomalies' /\ x.incidents = incidents'
      /\ x.owned = owned' /\ x.events = events'[Research]
      /\ x.score = Trust!ScoreOf(Research)'
  BY <1>1, <1>2 DEF Stores
<1>5. UNCHANGED <<history, anomalies, inflight, pending>>
  BY DEF CloseIncident, Recover
<1>6. /\ x.incidents \in Seq(OpenedIncident)
      /\ Len(x.incidents) = Len(s.incidents) /\ Len(s.incidents) \in Nat
      /\ OpenIn(x) = OpenIn(s) \ {k} /\ IsFiniteSet(OpenIn(s))
  BY <1>1, <1>4, ClosedFacts
<1>7. s.owned = OpenIn(s)
  BY <1>3 DEF Accounted
<1>8. /\ now' = now
      /\ DOMAIN score' \subseteq {Research}
      /\ x.score \in 0 .. MaxScore
      /\ events' \in [{Research} -> Seq(ScoredEvent)]
      /\ marks' \in [{Research} -> Seq(Trust!Mark)]
      /\ x.owned = OpenIn(x)
      /\ IF k \in owned THEN OneMore(s.events, x.events, "incident_closed") ELSE x.events = s.events
  <2>1. CASE k \in owned
    <3>1. Trust!RecordRecovery(Research, "incident_closed") /\ owned' = owned \ {k}
      BY <2>1 DEF CloseIncident, Recover
    <3>2. /\ now' = now
          /\ DOMAIN score' = {Research}
          /\ Trust!ScoreOf(Research)' \in 0 .. MaxScore
          /\ events' \in [{Research} -> Seq(ScoredEvent)]
          /\ OneMore(events[Research], events'[Research], "incident_closed")
          /\ marks' \in [{Research} -> Seq(Trust!Mark)]
      BY <3>1, Recovered
    <3>. QED BY <1>4, <1>6, <1>7, <2>1, <3>1, <3>2
  <2>2. CASE k \notin owned
    <3>1. UNCHANGED <<now, score, events, marks, owned>>
      BY <2>2 DEF CloseIncident
    <3>2. OpenIn(x) = OpenIn(s)
      BY <1>4, <1>6, <1>7, <2>2
    <3>3. Trust!ScoreOf(Research)' = Trust!ScoreOf(Research)
      BY <3>1 DEF Trust!ScoreOf
    <3>4. s.score \in 0 .. MaxScore /\ s.score = Trust!ScoreOf(Research)
      BY <1>1, <1>3 DEF Store, Stores
    <3>. QED BY <1>4, <1>7, <2>2, <3>1, <3>2, <3>3, <3>4 DEF LoopInv
  <2>. QED BY <2>1, <2>2
<1>9. x \in Store
  <2>1. x = [history |-> s.history, anomalies |-> s.anomalies, incidents |-> x.incidents,
             owned |-> x.owned, score |-> x.score, events |-> x.events]
    BY <1>2, <1>4, <1>5 DEF Stores
  <2>2. x.owned \in SUBSET Nat
    BY <1>3, <1>6, <1>7, <1>8 DEF Store
  <2>3. x.events \in Seq(ScoredEvent)
    BY <1>4, <1>8
  <2>. QED BY <1>3, <1>6, <1>8, <2>1, <2>2, <2>3 DEF Store
<1>10. Accounted(x, 0)
  <2>1. "incident_closed" \notin DOMAIN Penalty
    BY LoopAssumption
  <2>2. x.history = s.history
    BY <1>4, <1>5
  <2>3. CASE k \in owned
    <3>1. OneMore(s.events, x.events, "incident_closed")
      BY <1>8, <2>3
    <3>2. k \in OpenIn(s)
      BY <1>4, <1>7, <2>3
    <3>3. Cardinality(OpenIn(x)) = Cardinality(OpenIn(s)) - 1 /\ Cardinality(OpenIn(s)) \in Nat
      BY <1>6, <3>2, FS_RemoveElement, FS_CardinalityType
    <3>4. Count(x.events, "incident_closed") = Len(x.incidents) - Cardinality(OpenIn(x))
      <4>1. Count(x.events, "incident_closed") = Count(s.events, "incident_closed") + 1
        BY <3>1 DEF OneMore
      <4>2. Count(s.events, "incident_closed") = Len(s.incidents) - Cardinality(OpenIn(s))
        BY <1>3 DEF Accounted
      <4>. QED BY <1>6, <3>3, <4>1, <4>2
    <3>5. \A type \in DOMAIN Penalty : Count(x.events, type) = Count(x.history, type)
      BY <1>3, <2>1, <2>2, <3>1 DEF Accounted, OneMore
    <3>6. Count(x.events, "incident_opened") + 0 = Len(x.incidents)
      <4>1. Count(x.events, "incident_opened") = Count(s.events, "incident_opened")
        BY <3>1 DEF OneMore
      <4>. QED BY <1>3, <1>6, <4>1 DEF Accounted
    <3>. QED BY <1>8, <1>9, <3>4, <3>5, <3>6 DEF Accounted
  <2>4. CASE k \notin owned
    <3>1. x.events = s.events
      BY <1>8, <2>4
    <3>2. OpenIn(x) = OpenIn(s)
      BY <1>4, <1>6, <1>7, <2>4
    <3>. QED BY <1>3, <1>6, <1>8, <1>9, <2>2, <3>1, <3>2 DEF Accounted
  <2>. QED BY <2>3, <2>4
<1>11. Timely(x)
  BY <1>3, <1>4, <1>5 DEF Timely
<1>12. Accounted(Stores, 0)' /\ Timely(Stores)'
  BY <1>2, <1>8, <1>10, <1>11, StoresNext
<1>13. ASSUME NEW type \in DOMAIN Rules, OncePerRequest(type), Stopped(type)
       PROVE  WithinBounds(Stores, type, Left(type))'
  <2>1. PICK left : left = Left(type)
    OBVIOUS
  <2>2. Left(type)' = left
    BY <1>5, <2>1 DEF Left, WatchesFinish
  <2>3. WithinBounds(s, type, left)
    BY <1>1, <1>13, <2>1 DEF LoopInv
  <2>4. WithinBounds(x, type, left)
    BY <1>4, <1>5, <2>3 DEF WithinBounds
  <2>. QED BY <1>2, <1>8, <2>2, <2>4, StoresNext
<1>14. \A type \in DOMAIN Rules :
         (OncePerRequest(type) /\ Stopped(type) => WithinBounds(Stores, type, Left(type)))'
  BY <1>13 DEF OncePerRequest, Stopped
<1>15. now \in Nat /\ inflight \in 0 .. MaxInFlight /\ pending \in 0 .. MaxPending
  BY DEF LoopInv
<1>. QED BY <1>5, <1>8, <1>12, <1>14, <1>15 DEF LoopInv

\* Time and what leaves the stores alone: the trail only gets older.
LEMMA IdleStep ==
  ASSUME LoopInv, UNCHANGED <<history, anomalies, incidents, score, events, marks, owned, inflight>>,
         now' \in Nat, now <= now', pending' \in 0 .. MaxPending
  PROVE  LoopInv'
<1>1. PICK s : s = Stores
  OBVIOUS
<1>2. Stores' = s
  BY <1>1 DEF Stores, Trust!ScoreOf
<1>3. s \in Store /\ Accounted(s, 0) /\ Timely(s) /\ now \in Nat
  BY <1>1 DEF LoopInv, Accounted
<1>4. Accounted(Stores, 0)'
  BY <1>2, <1>3 DEF Accounted, OpenIn, Count
<1>5. Timely(Stores)'
  <2>1. \A k \in DOMAIN s.history : s.history[k] \in AuditedEvent
    <3>1. s.history \in Seq(AuditedEvent)
      BY <1>3 DEF Store
    <3>. QED BY <3>1
  <2>2. \A k \in DOMAIN s.history : s.history[k].at \in Nat
    BY <2>1 DEF AuditedEvent
  <2>3. \A k \in DOMAIN s.history : s.history[k].at <= now'
    <3>. SUFFICES ASSUME NEW k \in DOMAIN s.history PROVE s.history[k].at <= now'
      OBVIOUS
    <3>1. s.history[k].at <= now
      BY <1>3 DEF Timely
    <3>. QED BY <1>3, <2>2, <3>1
  <2>. QED BY <1>2, <1>3, <2>3 DEF Timely
<1>6. ASSUME NEW type \in DOMAIN Rules, OncePerRequest(type), Stopped(type)
      PROVE  WithinBounds(Stores, type, Left(type))'
  <2>1. PICK left : left = Left(type)
    OBVIOUS
  <2>2. Left(type)' = left
    BY <2>1 DEF Left, WatchesFinish
  <2>3. WithinBounds(s, type, left)
    BY <1>1, <1>6, <2>1 DEF LoopInv
  <2>. QED BY <1>2, <2>2, <2>3 DEF WithinBounds
<1>7. \A type \in DOMAIN Rules :
        (OncePerRequest(type) /\ Stopped(type) => WithinBounds(Stores, type, Left(type)))'
  BY <1>6 DEF OncePerRequest, Stopped
<1>. QED BY <1>4, <1>5, <1>7 DEF LoopInv

LEMMA IdleActions ==
  ASSUME LoopInv, Settle \/ Tick \/ UNCHANGED vars
  PROVE  LoopInv' /\ Trust!ScoreOf(Research)' = Trust!ScoreOf(Research)
<1>1. /\ now \in Nat /\ pending \in 0 .. MaxPending /\ MaxPending \in Nat
  BY LoopAssumption DEF LoopInv
<1>2. UNCHANGED <<history, anomalies, incidents, score, events, marks, owned, inflight>>
  BY DEF Settle, Tick, vars
<1>3. now' \in Nat /\ now <= now'
  BY <1>1 DEF Settle, Tick, vars
<1>4. pending' \in 0 .. MaxPending
  BY <1>1 DEF Settle, Tick, vars
<1>5. Trust!ScoreOf(Research)' = Trust!ScoreOf(Research)
  BY <1>2 DEF Trust!ScoreOf
<1>. QED BY <1>2, <1>3, <1>4, <1>5, IdleStep

\* Every action keeps the invariant; the score rises only by a request that was in
\* flight, or by closing an incident that the compartment answers for.
LEMMA LoopStep ==
  ASSUME LoopInv, Next
  PROVE  /\ LoopInv'
         /\ \/ Trust!ScoreOf(Research)' <= Trust!ScoreOf(Research)
            \/ FinishSucceeded
            \/ \E k \in DOMAIN incidents : CloseIncident(k) /\ k \in owned
<1>1. /\ inflight \in 0 .. MaxInFlight /\ pending \in 0 .. MaxPending
      /\ MaxInFlight \in Nat \ {0} /\ MaxPending \in Nat
  BY LoopAssumption DEF LoopInv
<1>2. Trust!ScoreOf(Research) \in Int
  <2>1. Stores \in Store /\ Stores.score = Trust!ScoreOf(Research)
    BY DEF LoopInv, Accounted, Stores
  <2>. QED BY <2>1, TrustConstants DEF Store, Trust!TrustAssumption
<1>3. Enqueue => pending' \in 0 .. MaxPending
  BY <1>1 DEF Enqueue
<1>4. CASE Stop
  <2>1. pending' \in 0 .. MaxPending
    BY <1>1, <1>3, <1>4 DEF Stop
  <2>. QED BY <1>4, <2>1, QuietStep DEF Stop
<1>5. CASE \E type \in {"capability_denied", "privacy_boundary_blocked"} : Refuse(type)
  <2>1. PICK type \in {"capability_denied", "privacy_boundary_blocked"} : Refuse(type)
    BY <1>5
  <2>2. inflight' \in 0 .. MaxInFlight
    BY <1>1, <2>1 DEF Refuse
  <2>. QED BY <2>1, <2>2, GateStep DEF Refuse
<1>6. CASE Confirm
  <2>. QED BY <1>3, <1>6, QuietStep DEF Confirm
<1>7. CASE \E rotated \in BOOLEAN : Start(rotated)
  <2>1. PICK rotated \in BOOLEAN : Start(rotated)
    BY <1>7
  <2>2. /\ Verdict = "proceed" /\ inflight < MaxInFlight /\ inflight' = inflight + 1
        /\ Audit(IF rotated THEN <<"session_rotated">> ELSE << >>)
        /\ UNCHANGED <<now, marks, pending>>
    BY <2>1 DEF Start
  <2>3. inflight' \in 0 .. MaxInFlight
    BY <1>1, <2>2
  <2>4. CASE rotated
    <3>1. Audit(<<"session_rotated">>)
      BY <2>2, <2>4
    <3>. QED BY <2>2, <2>3, <3>1, GateStep
  <2>5. CASE ~rotated
    <3>1. Audit(<< >>)
      BY <2>2, <2>5
    <3>. QED BY <1>1, <2>2, <2>3, <3>1, UnauditedStart
  <2>. QED BY <2>4, <2>5
<1>8. CASE FinishSucceeded
  BY <1>8, FinishSucceededStep
<1>9. CASE \/ FinishRefused(<<"execution_failed">>)
           \/ FinishRefused(<<"execution_blocked">>)
           \/ FinishRefused(<<"sandbox_blocked", "execution_blocked">>)
  <2>1. PICK types \in {<<"execution_failed">>, <<"execution_blocked">>,
                        <<"sandbox_blocked", "execution_blocked">>} : FinishRefused(types)
    BY <1>9
  <2>. QED BY <2>1, FinishRefusedStep
<1>10. CASE Reject
  BY <1>10, RejectStep
<1>11. CASE \E k \in DOMAIN incidents : CloseIncident(k)
  <2>1. PICK k \in DOMAIN incidents : CloseIncident(k)
    BY <1>11
  <2>2. LoopInv'
    BY <2>1, CloseIncidentStep
  <2>3. k \notin owned => Trust!ScoreOf(Research)' = Trust!ScoreOf(Research)
    BY <2>1 DEF CloseIncident, Trust!ScoreOf
  <2>. QED BY <1>2, <2>1, <2>2, <2>3
<1>12. CASE Settle \/ Tick
  BY <1>2, <1>12, IdleActions
<1>. QED BY <1>4, <1>5, <1>6, <1>7, <1>8, <1>9, <1>10, <1>11, <1>12 DEF Next

LEMMA LoopInit == Init => LoopInv
<1>. SUFFICES ASSUME Init PROVE LoopInv
  OBVIOUS
<1>1. /\ history = << >> /\ anomalies = {} /\ incidents = << >> /\ now = 0
      /\ score = << >> /\ owned = {} /\ inflight = 0 /\ pending = 0
      /\ events = [c \in {Research} |-> << >>] /\ marks = [c \in {Research} |-> << >>]
  BY DEF Init
<1>2. MaxInFlight \in Nat /\ MaxPending \in Nat /\ InitialScore \in 0 .. MaxScore
  BY LoopAssumption, TrustConstants DEF Trust!TrustAssumption
<1>3. PICK empty : empty = << >>
  OBVIOUS
<1>4. /\ DOMAIN empty = {} /\ Len(empty) = 0
      /\ empty \in Seq(AuditedEvent) /\ empty \in Seq(OpenedIncident)
      /\ empty \in Seq(ScoredEvent) /\ empty \in Seq(Trust!Mark)
  BY <1>3
<1>5. PICK s : s = Stores
  OBVIOUS
<1>6. s = [history |-> empty, anomalies |-> {}, incidents |-> empty, owned |-> {},
           score |-> InitialScore, events |-> empty]
  <2>1. Trust!ScoreOf(Research) = InitialScore /\ events[Research] = empty
    BY <1>1, <1>3, <1>4 DEF Trust!ScoreOf
  <2>. QED BY <1>1, <1>3, <1>5, <2>1 DEF Stores
<1>7. s \in Store
  BY <1>2, <1>4, <1>6 DEF Store
<1>8. \A type : Count(s.events, type) = 0 /\ Count(s.history, type) = 0
  <2>1. \A type : {k \in DOMAIN empty : empty[k].type = type} = {}
    BY <1>4
  <2>. QED BY <1>6, <2>1, FS_EmptySet DEF Count
<1>9. OpenIn(s) = {} /\ Cardinality(OpenIn(s)) = 0
  <2>1. OpenIn(s) = {}
    BY <1>4, <1>6 DEF OpenIn
  <2>. QED BY <2>1, FS_EmptySet
<1>10. Accounted(s, 0)
  <2>1. Len(s.incidents) = 0 /\ s.owned = OpenIn(s)
    BY <1>4, <1>6, <1>9
  <2>2. \A type \in DOMAIN Penalty : Count(s.events, type) = Count(s.history, type)
    BY <1>8
  <2>3. /\ Count(s.events, "incident_opened") + 0 = Len(s.incidents)
        /\ Count(s.events, "incident_closed") = Len(s.incidents) - Cardinality(OpenIn(s))
    BY ONLY <1>8, <1>9, <2>1
  <2>. QED BY <1>7, <2>1, <2>2, <2>3 DEF Accounted
<1>11. Timely(s) /\ \A type, left : WithinBounds(s, type, left)
  BY <1>4, <1>6 DEF Timely, WithinBounds
<1>12. /\ now \in Nat /\ inflight \in 0 .. MaxInFlight /\ pending \in 0 .. MaxPending
       /\ DOMAIN score \subseteq {Research}
       /\ events \in [{Research} -> Seq(ScoredEvent)]
       /\ marks \in [{Research} -> Seq(Trust!Mark)]
  BY <1>1, <1>2, <1>3, <1>4
<1>. QED BY <1>5, <1>10, <1>11, <1>12 DEF LoopInv

\* The invariant says what is promised.
LEMMA TypesSuffice == LoopInv => TypeOK
<1>. SUFFICES ASSUME LoopInv PROVE TypeOK
  OBVIOUS
<1>1. PICK s : s = Stores
  OBVIOUS
<1>2. s \in Store /\ Timely(s) /\ s.owned = OpenIn(s)
  BY <1>1 DEF LoopInv, Accounted
<1>3. /\ s.history = history /\ s.incidents = incidents /\ s.owned = owned
      /\ s.score = Trust!ScoreOf(Research)
  BY <1>1 DEF Stores
<1>4. ASSUME NEW k \in DOMAIN history
      PROVE  history[k].at \in 0 .. now
  <2>1. history \in Seq(AuditedEvent)
    BY <1>2, <1>3 DEF Store
  <2>2. history[k] \in AuditedEvent
    BY <2>1
  <2>3. history[k].at \in Nat /\ history[k].at <= now /\ now \in Nat
    BY <1>2, <1>3, <2>2 DEF AuditedEvent, Timely, LoopInv
  <2>. QED BY <2>3
<1>5. ASSUME NEW k \in DOMAIN incidents
      PROVE  incidents[k].status \in {"open", "closed"}
  <2>1. incidents \in Seq(OpenedIncident)
    BY <1>2, <1>3 DEF Store
  <2>2. incidents[k] \in OpenedIncident
    BY <2>1
  <2>. QED BY <2>2 DEF OpenedIncident
<1>6. owned \subseteq DOMAIN incidents
  BY <1>2, <1>3 DEF OpenIn
<1>7. \A c \in DOMAIN score : score[c] \in 0 .. MaxScore
  <2>1. s.score \in 0 .. MaxScore
    BY <1>2 DEF Store
  <2>. QED BY <1>3, <2>1 DEF LoopInv, Trust!ScoreOf
<1>. QED BY <1>4, <1>5, <1>6, <1>7 DEF TypeOK, LoopInv

LEMMA ReputationSuffices == LoopInv => ReputationFollowsAudit
<1>. SUFFICES ASSUME LoopInv PROVE ReputationFollowsAudit
  OBVIOUS
<1>1. PICK s : s = Stores
  OBVIOUS
<1>2. Accounted(s, 0) /\ s \in Store
  BY <1>1 DEF LoopInv, Accounted
<1>3. /\ s.history = history /\ s.incidents = incidents /\ s.owned = owned
      /\ s.events = events[Research]
  BY <1>1 DEF Stores
<1>4. OpenIn(s) = Open
  BY <1>3 DEF OpenIn, Open
<1>5. \A type : Count(s.events, type) = Recorded(type)
  BY <1>3 DEF Count, Recorded
<1>6. \A type : Count(s.history, type) = Cardinality({k \in DOMAIN history : history[k].type = type})
  BY <1>3 DEF Count
<1>7. Recorded("incident_opened") = Len(incidents)
  <2>1. Recorded("incident_opened") + 0 = Len(incidents)
    BY <1>2, <1>3, <1>5 DEF Accounted
  <2>2. Recorded("incident_opened") \in Nat
    <3>1. s.events \in Seq(ScoredEvent) /\ "incident_opened" \in ScoredType
      BY <1>2 DEF Store, ScoredType
    <3>2. [type |-> "incident_opened", delta |-> 0, at |-> 0] \in ScoredEvent
      BY <3>1 DEF ScoredEvent
    <3>. QED BY <1>5, <3>1, <3>2, CountGrows
  <2>. QED BY <2>1, <2>2
<1>. QED BY <1>2, <1>3, <1>4, <1>5, <1>6, <1>7 DEF Accounted, ReputationFollowsAudit

LEMMA BoundsSuffice == LoopInv => BurstIsContained
<1>. SUFFICES ASSUME LoopInv, NEW type \in DOMAIN Rules, NEW k \in DOMAIN history,
                     OncePerRequest(type), Stopped(type)
              PROVE  Cardinality(Detector!Matches(history, Rules[type], k))
                       < Rules[type].threshold + MaxInFlight
  BY DEF BurstIsContained, Detector!Matches
<1>1. Stores \in Store /\ Stores.history = history
  BY DEF LoopInv, Accounted, Stores
<1>2. k \in Nat /\ Detector!Matches(history, Rules[type], k) \in SUBSET (1 .. k)
  <2>1. history \in Seq(AuditedEvent)
    BY <1>1 DEF Store
  <2>. QED BY <2>1 DEF Detector!Matches
<1>3. PICK c \in Nat : c = Cardinality(Detector!Matches(history, Rules[type], k))
  BY <1>2, PositionsCount
<1>4. \/ c < Rules[type].threshold
      \/ c + Left(type) < Rules[type].threshold + MaxInFlight
  BY <1>1, <1>3 DEF LoopInv, WithinBounds
<1>5. /\ Left(type) \in Nat /\ MaxInFlight \in Nat \ {0} /\ Rules[type].threshold \in Nat
  BY DetectorConstants, LoopAssumption DEF Left, LoopInv, Detector!RulesAssumption
<1>6. c < Rules[type].threshold + MaxInFlight
  BY <1>4, <1>5
<1>. QED BY <1>3, <1>6

-----------------------------------------------------------------------------
\* Every variable holds a value of its type; the score stays within its range.
THEOREM LoopTypeOK == Spec => []TypeOK
<1>1. LoopInv /\ [Next]_vars => LoopInv'
  BY LoopStep, IdleActions
<1>. QED BY <1>1, LoopInit, TypesSuffice, PTL DEF Spec

\* The reputation follows the audit trail: each refusal is charged exactly once, each
\* incident once when it opens and credited once when it closes, however the events
\* of requests in flight interleave and however often an incident is closed.
THEOREM ReputationIsAccounted == Spec => []ReputationFollowsAudit
<1>1. LoopInv /\ [Next]_vars => LoopInv'
  BY LoopStep, IdleActions
<1>. QED BY <1>1, LoopInit, ReputationSuffices, PTL DEF Spec

\* A burst that a policy answers by stopping requests goes at most MaxInFlight - 1
\* events beyond the threshold of its rule, for any rules whose events a request
\* leads to only once, any policies and any number of requests in flight.
THEOREM BurstsAreContained == Spec => []BurstIsContained
<1>1. LoopInv /\ [Next]_vars => LoopInv'
  BY LoopStep, IdleActions
<1>. QED BY <1>1, LoopInit, BoundsSuffice, PTL DEF Spec

\* With nothing in flight, a compartment below the neutral band gains no reputation
\* unless an incident of its own is closed.
THEOREM RestrictionIsATrap == Spec => RestrictionLiftsOnlyByClosing
<1>1. LoopInv /\ [Next]_vars => LoopInv'
  BY LoopStep, IdleActions
<1>. DEFINE Rises == /\ Trust!Level(Trust!ScoreOf(Research)) # "neutral"
                     /\ inflight = 0
                     /\ Trust!ScoreOf(Research)' > Trust!ScoreOf(Research)
            Closes == \E k \in Open : incidents'[k].status = "closed"
<1>2. LoopInv /\ [Next]_vars => [Rises => Closes]_vars
  <2>. SUFFICES ASSUME LoopInv, Next, Rises
                PROVE  Closes
    OBVIOUS
  <2>1. Stores \in Store /\ Stores.score = Trust!ScoreOf(Research)
    BY DEF LoopInv, Accounted, Stores
  <2>2. LoopInv'
    BY LoopStep
  <2>3. (Stores \in Store /\ Stores.score = Trust!ScoreOf(Research))'
    <3>1. (LoopInv => Stores \in Store /\ Stores.score = Trust!ScoreOf(Research))'
      BY DEF LoopInv, Accounted, Stores
    <3>. QED BY <2>2, <3>1
  <2>4. Trust!ScoreOf(Research) \in Nat /\ Trust!ScoreOf(Research)' \in Nat
    BY <2>1, <2>3, TrustConstants DEF Store, Trust!TrustAssumption
  <2>5. ~(Trust!ScoreOf(Research)' <= Trust!ScoreOf(Research))
    BY <2>4
  <2>6. ~FinishSucceeded
    BY DEF FinishSucceeded
  <2>7. PICK k \in DOMAIN incidents : CloseIncident(k) /\ k \in owned
    BY <2>5, <2>6, LoopStep
  <2>8. owned = Open
    BY ReputationSuffices DEF ReputationFollowsAudit
  <2>9. incidents'[k].status = "closed"
    <3>1. Stores.incidents = incidents /\ incidents \in Seq(OpenedIncident)
      BY <2>1 DEF Store, Stores
    <3>2. incidents[k] \in OpenedIncident
      BY <3>1
    <3>. QED BY <2>7, <3>1, <3>2 DEF CloseIncident, OpenedIncident
  <2>. QED BY <2>7, <2>8, <2>9
<1>. QED BY <1>1, <1>2, LoopInit, PTL DEF Spec, RestrictionLiftsOnlyByClosing
=============================================================================
