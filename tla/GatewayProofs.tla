----------------------------- MODULE GatewayProofs -----------------------------
(***************************************************************************)
(* TLAPS proofs about Gateway, for any set of requests (it may be          *)
(* infinite), any bound on the overlap, any policies, lifetimes, ceilings  *)
(* and capabilities.                                                       *)
(*                                                                         *)
(* The argument is one of room: a request that has been admitted and not   *)
(* yet concluded holds a place in its session's use count and in the path. *)
(* The gates keep "what is counted plus what is on its way" within the     *)
(* ceiling plus MaxInFlight - 1; concluding a request only moves it from   *)
(* the second term to the first.                                           *)
(*                                                                         *)
(* What a session-manager call does to the sessions is not proved again    *)
(* here: it comes from SessionManagerProofs, instantiated for the one      *)
(* compartment the server registers.                                       *)
(***************************************************************************)
EXTENDS Gateway, FiniteSetTheorems, TLAPS

SM == INSTANCE SessionManagerProofs WITH Compartments <- {Research}

USE DEF NoSession

-----------------------------------------------------------------------------
\* The requests that have left `idle`, those whose use session i has counted,
\* and those that may still add one to it.
Busy == {r \in Requests : request[r].phase # "idle"}
Counted(i) == {r \in Requests : /\ request[r].session = i
                                /\ request[r].phase \in {"succeeded", "failed"}}
Carried(i) == {r \in InFlight : request[r].session = i}

\* A handler holds a session of the list and the capability it was admitted for
\* while it waits, and only a running server has handlers that wait.
HandlersHoldSessions ==
  \A r \in Requests :
    /\ request[r].session \in 0 .. Len(sessions)
    /\ request[r].phase = "idle" => request[r].session = NoSession
    /\ request[r].phase \in Awaiting =>
         /\ request[r].session # NoSession /\ up
         /\ request[r].tool \in Tools /\ request[r].risk \in {"low", "medium", "high"}

\* What admission guarantees of the requests in flight.
InFlightIsBounded ==
  /\ IsFiniteSet(Busy)
  /\ Cardinality(InFlight) <= MaxInFlight
  /\ InFlight # {} => GraphPolicy.maxPathLength >= 1

\* Every use still to be counted has room in its session.
SessionHasRoom ==
  \A i \in DOMAIN sessions :
    sessions[i].requestCount + Cardinality(Carried(i))
      <= MaxRequests[Research] + MaxInFlight - 1

\* Every step still to be appended has room on the path.
PathHasRoom ==
  Len(path) + Cardinality(InFlight) <= GraphPolicy.maxPathLength + MaxInFlight - 1

\* What follows a high-risk step, and what may still follow it.
HighRiskHasRoom ==
  GraphPolicy.blockOnHighRiskPath =>
    \A k \in DOMAIN path :
      path[k].risk = "high" => Len(path) - k + Cardinality(InFlight) <= MaxInFlight - 1

\* The inductive invariant.
GatewayInv ==
  /\ TypeOK
  /\ SM!IndInv
  /\ HandlersHoldSessions
  /\ InFlightIsBounded
  /\ UsesAreAccountedFor
  /\ SessionHasRoom
  /\ PathHasRoom
  /\ HighRiskHasRoom
  /\ DownOnlyAfterInterference

-----------------------------------------------------------------------------
\* The assumptions of the session manager hold for the server's one compartment.
LEMMA SessionConstants == SM!SessionAssumption
BY GatewayAssumption DEF SM!SessionAssumption

\* The numeric constants the bounds speak of.
LEMMA Ceilings ==
  /\ MaxInFlight \in Nat /\ MaxInFlight >= 1
  /\ MaxRequests[Research] \in Nat /\ MaxRequests[Research] >= 1
  /\ GraphPolicy.maxPathLength \in Nat
  /\ GraphPolicy.blockOnHighRiskPath \in BOOLEAN
BY GatewayAssumption DEF Graph!Policy

\* Gateway and SessionManagerProofs instantiate the same session manager.
LEMMA SameSessionManager ==
  /\ Sessions!TypeOK <=> SM!TypeOK
  /\ Sessions!RotateSession(Research) <=> SM!RotateSession(Research)
  /\ Sessions!ExpireOldSessions <=> SM!ExpireOldSessions
  /\ \A i : Sessions!RecordUse(i) <=> SM!RecordUse(i)
  /\ \A i : Sessions!RecordUseRefused(i) <=> SM!RecordUseRefused(i)
<1>1. Sessions!TypeOK <=> SM!TypeOK
  BY DEF Sessions!TypeOK, SM!TypeOK, Sessions!Session, SM!Session,
         Sessions!Status, SM!Status, Sessions!NeverUsed, SM!NeverUsed
<1>2. Sessions!RotateSession(Research) <=> SM!RotateSession(Research)
  BY DEF Sessions!RotateSession, SM!RotateSession,
         Sessions!CreateSession, SM!CreateSession,
         Sessions!MarkActiveAsRotated, SM!MarkActiveAsRotated,
         Sessions!ExpireCompartment, SM!ExpireCompartment,
         Sessions!Expire, SM!Expire, Sessions!NeverUsed, SM!NeverUsed
<1>3. Sessions!ExpireOldSessions <=> SM!ExpireOldSessions
  BY DEF Sessions!ExpireOldSessions, SM!ExpireOldSessions,
         Sessions!ExpireAll, SM!ExpireAll, Sessions!Expire, SM!Expire,
         Sessions!NoSession, SM!NoSession
<1>4. \A i : Sessions!RecordUse(i) <=> SM!RecordUse(i)
  BY DEF Sessions!RecordUse, SM!RecordUse, Sessions!Expire, SM!Expire,
         Sessions!NoSession, SM!NoSession
<1>5. \A i : Sessions!RecordUseRefused(i) <=> SM!RecordUseRefused(i)
  BY DEF Sessions!RecordUseRefused, SM!RecordUseRefused, Sessions!Expire, SM!Expire,
         Sessions!NoSession, SM!NoSession
<1>. QED BY <1>1, <1>2, <1>3, <1>4, <1>5

\* The same for getOrCreateSession, whose four endings are compared one by one.
LEMMA SameGetOrCreate ==
  Sessions!GetOrCreateSession(Research) <=> SM!GetOrCreateSession(Research)
<1>1. Sessions!AlwaysRotate(Research) <=> SM!AlwaysRotate(Research)
  BY DEF Sessions!AlwaysRotate, SM!AlwaysRotate,
         Sessions!CreateSession, SM!CreateSession,
         Sessions!MarkActiveAsRotated, SM!MarkActiveAsRotated,
         Sessions!ExpireCompartment, SM!ExpireCompartment,
         Sessions!Expire, SM!Expire, Sessions!NeverUsed, SM!NeverUsed
<1>2. Sessions!ReuseActive(Research) <=> SM!ReuseActive(Research)
  BY DEF Sessions!ReuseActive, SM!ReuseActive,
         Sessions!ActiveOf, SM!ActiveOf, Sessions!FindActive, SM!FindActive,
         Sessions!ExpireCompartment, SM!ExpireCompartment,
         Sessions!Expire, SM!Expire
<1>3. Sessions!RotateAtCeiling(Research) <=> SM!RotateAtCeiling(Research)
  BY DEF Sessions!RotateAtCeiling, SM!RotateAtCeiling,
         Sessions!CreateSession, SM!CreateSession,
         Sessions!ActiveOf, SM!ActiveOf, Sessions!FindActive, SM!FindActive,
         Sessions!ExpireCompartment, SM!ExpireCompartment,
         Sessions!Expire, SM!Expire, Sessions!NeverUsed, SM!NeverUsed
<1>4. Sessions!CreateFirst(Research) <=> SM!CreateFirst(Research)
  BY DEF Sessions!CreateFirst, SM!CreateFirst,
         Sessions!CreateSession, SM!CreateSession,
         Sessions!ActiveOf, SM!ActiveOf,
         Sessions!ExpireCompartment, SM!ExpireCompartment,
         Sessions!Expire, SM!Expire, Sessions!NeverUsed, SM!NeverUsed
<1>. QED BY <1>1, <1>2, <1>3, <1>4
         DEF Sessions!GetOrCreateSession, SM!GetOrCreateSession

-----------------------------------------------------------------------------
\* The session list: its indices, and the use counts.
ListFacts ==
  /\ Sessions!TypeOK
  /\ Len(sessions) \in Nat /\ DOMAIN sessions = 1 .. Len(sessions)
  /\ \A i \in DOMAIN sessions : sessions[i].requestCount \in Nat

\* They hold in every state of the session manager.
LEMMA SessionList == SM!IndInv => ListFacts
<1>. SUFFICES ASSUME SM!IndInv PROVE ListFacts
  OBVIOUS
<1>1. SM!TypeOK
  BY DEF SM!IndInv
<1>2. \A i \in DOMAIN sessions : sessions[i] \in SM!Session
  BY <1>1 DEF SM!TypeOK
<1>. QED BY <1>1, <1>2, SameSessionManager DEF SM!TypeOK, SM!Session, ListFacts

\* And so after a step.
LEMMA SessionListNext == SM!IndInv' => ListFacts'
BY SessionList, PTL

\* Old sessions keep their counts, new ones start at zero.
CountsKept ==
  /\ Len(sessions) <= Len(sessions')
  /\ \A i \in DOMAIN sessions' :
       sessions'[i].requestCount =
         IF i \in DOMAIN sessions THEN sessions[i].requestCount ELSE 0

\* The session an admitted request gets exists and is below its ceiling.
LEMMA HandOutEffect ==
  ASSUME SM!IndInv,
         Sessions!RotateSession(Research) \/ Sessions!GetOrCreateSession(Research)
  PROVE  /\ SM!IndInv' /\ CountsKept
         /\ handed' \in DOMAIN sessions'
         /\ sessions'[handed'].requestCount < MaxRequests[Research]
<1>1. SM!IndInv' /\ SM!KeepsCounts /\ handed' # SM!NoSession
  BY SessionConstants, SameSessionManager, SameGetOrCreate,
     SM!RotateStep, SM!GetOrCreateStep
<1>2. SM!TypeOK' /\ SM!HandedSessionIsUsable'
  BY <1>1 DEF SM!IndInv
<1>3. handed' \in DOMAIN sessions' /\ sessions'[handed'] \in SM!Session
  BY <1>1, <1>2 DEF SM!TypeOK, SM!NoSession
<1>4. sessions'[handed'].compartment = Research
  BY <1>3 DEF SM!Session
<1>. QED BY <1>1, <1>2, <1>3, <1>4 DEF SM!KeepsCounts, CountsKept,
                                       SM!HandedSessionIsUsable
\* Expiring what is due counts nothing.
LEMMA SweepEffect ==
  ASSUME SM!IndInv, Sessions!ExpireOldSessions
  PROVE  SM!IndInv' /\ CountsKept
BY SessionConstants, SameSessionManager, SM!SweepStep DEF SM!KeepsCounts, CountsKept

\* A recorded use counts once, for the session it names.
LEMMA RecordUseEffect ==
  ASSUME SM!IndInv, NEW i \in DOMAIN sessions, Sessions!RecordUse(i)
  PROVE  /\ SM!IndInv'
         /\ Len(sessions') = Len(sessions)
         /\ \A j \in DOMAIN sessions :
              sessions'[j].requestCount =
                IF j = i THEN sessions[j].requestCount + 1 ELSE sessions[j].requestCount
BY SessionConstants, SameSessionManager, SM!RecordUseStep DEF SM!CountsOneUse

\* A refused use counts nothing, and the session it names is over.
LEMMA RefusedUseEffect ==
  ASSUME SM!IndInv, NEW i \in DOMAIN sessions, Sessions!RecordUseRefused(i)
  PROVE  SM!IndInv' /\ CountsKept /\ sessions'[i].status # "active"
BY SessionConstants, SameSessionManager, SM!RefusedStep DEF SM!KeepsCounts, CountsKept

-----------------------------------------------------------------------------
\* Sets of busy requests are finite, so their cardinalities are numbers.
SetFacts ==
  /\ InFlight \subseteq Busy /\ IsFiniteSet(InFlight)
  /\ Cardinality(InFlight) \in Nat
  /\ \A i : IsFiniteSet(Counted(i)) /\ Cardinality(Counted(i)) \in Nat
  /\ \A i : /\ IsFiniteSet(Carried(i)) /\ Cardinality(Carried(i)) \in Nat
            /\ Cardinality(Carried(i)) <= Cardinality(InFlight)

\* They hold when only finitely many requests have been sent so far.
LEMMA BusySubsets == IsFiniteSet(Busy) => SetFacts
<1>. SUFFICES ASSUME IsFiniteSet(Busy) PROVE SetFacts
  OBVIOUS
<1>1. InFlight \subseteq Busy
  BY DEF InFlight, Busy, Awaiting
<1>2. \A i : Counted(i) \subseteq Busy
  BY DEF Counted, Busy
<1>3. \A i : Carried(i) \subseteq InFlight
  BY DEF Carried
<1>. QED BY <1>1, <1>2, <1>3, FS_Subset, FS_CardinalityType DEF SetFacts

\* And so after a step.
LEMMA BusySubsetsNext == IsFiniteSet(Busy)' => SetFacts'
BY BusySubsets, PTL

-----------------------------------------------------------------------------
\* What answering request r does to the handlers.
LEMMA AnswerEffect ==
  ASSUME TypeOK, NEW r \in Requests, NEW phase \in Phase, Answer(r, phase)
  PROVE  /\ request' \in [Requests -> Handler]
         /\ request'[r].phase = phase
         /\ request'[r].session = request[r].session
         /\ \A q \in Requests : q # r => request'[q] = request[q]
<1>. DEFINE h == [Idle EXCEPT !.phase = phase, !.session = request[r].session]
<1>1. request \in [Requests -> Handler] /\ request[r].session \in Nat
  BY DEF TypeOK, Handler
<1>2. /\ h \in Handler
      /\ h.phase = phase /\ h.session = request[r].session
  BY <1>1 DEF Handler, Idle, Phase
<1>3. request' = [request EXCEPT ![r] = h]
  BY DEF Answer
<1>. HIDE DEF h
<1>. QED BY <1>1, <1>2, <1>3

\* A request in flight that is answered leaves the sets of requests on their
\* way, and joins its session's users if the transport was reached.
LEMMA ConcludeSets ==
  ASSUME TypeOK, IsFiniteSet(Busy), NEW r \in InFlight,
         NEW phase \in Concluded, Answer(r, phase)
  PROVE  /\ Busy' = Busy
         /\ InFlight' = InFlight \ {r}
         /\ Cardinality(InFlight') = Cardinality(InFlight) - 1
         /\ \A i : Cardinality(Carried(i)') =
              IF i = request[r].session THEN Cardinality(Carried(i)) - 1
                                        ELSE Cardinality(Carried(i))
         /\ \A i : Cardinality(Counted(i)') =
              IF i = request[r].session /\ phase # "blocked"
                THEN Cardinality(Counted(i)) + 1 ELSE Cardinality(Counted(i))
<1>1. r \in Requests /\ phase \in Phase
  BY DEF InFlight, Phase
<1>2. /\ request'[r].phase = phase
      /\ request'[r].session = request[r].session
      /\ \A q \in Requests : q # r => request'[q] = request[q]
  BY <1>1, AnswerEffect
<1>3. SetFacts
  BY BusySubsets
<1>4. /\ phase \notin Awaiting /\ phase # "idle"
      /\ phase \in {"succeeded", "failed"} <=> phase # "blocked"
  BY DEF Concluded, Awaiting
<1>5. Busy' = Busy
  BY <1>1, <1>2, <1>4 DEF Busy, InFlight, Awaiting
<1>6. InFlight' = InFlight \ {r}
  BY <1>1, <1>2, <1>4 DEF InFlight
<1>7. Cardinality(InFlight') = Cardinality(InFlight) - 1
  BY <1>3, <1>6, FS_RemoveElement DEF SetFacts
<1>8. ASSUME NEW i
      PROVE  Cardinality(Carried(i)') =
               IF i = request[r].session THEN Cardinality(Carried(i)) - 1
                                         ELSE Cardinality(Carried(i))
  <2>1. Carried(i)' = Carried(i) \ {r}
    BY <1>2, <1>6 DEF Carried, InFlight
  <2>2. r \in Carried(i) <=> i = request[r].session
    BY DEF Carried
  <2>3. CASE i = request[r].session
    <3>1. IsFiniteSet(Carried(i)) /\ r \in Carried(i)
      BY <1>3, <2>2, <2>3 DEF SetFacts
    <3>2. Cardinality(Carried(i) \ {r}) = Cardinality(Carried(i)) - 1
      BY ONLY <3>1, FS_RemoveElement
    <3>. QED BY <2>1, <2>3, <3>2
  <2>4. CASE i # request[r].session
    <3>1. Carried(i)' = Carried(i)
      BY <2>1, <2>2, <2>4
    <3>. QED BY <2>4, <3>1
  <2>. QED BY <2>3, <2>4
<1>9. ASSUME NEW i
      PROVE  Cardinality(Counted(i)') =
               IF i = request[r].session /\ phase # "blocked"
                 THEN Cardinality(Counted(i)) + 1 ELSE Cardinality(Counted(i))
  <2>1. r \notin Counted(i)
    BY DEF Counted, InFlight, Awaiting
  <2>2. CASE i = request[r].session /\ phase # "blocked"
    <3>1. Counted(i)' = Counted(i) \cup {r}
      BY <1>1, <1>2, <1>4, <2>2 DEF Counted
    <3>. QED BY <1>3, <2>1, <2>2, <3>1, FS_AddElement DEF SetFacts
  <2>3. CASE ~(i = request[r].session /\ phase # "blocked")
    <3>1. Counted(i)' = Counted(i)
      BY <1>1, <1>2, <1>4, <2>1, <2>3 DEF Counted
    <3>. QED BY <2>3, <3>1
  <2>. QED BY <2>2, <2>3
<1>. QED BY <1>5, <1>6, <1>7, <1>8, <1>9

-----------------------------------------------------------------------------
\* Concluding a request: its place in the session and on the path becomes a use
\* and a step, or is given back.
LEMMA FinishStep ==
  ASSUME GatewayInv, NEW r \in Requests, NEW result \in {"succeeded", "failed"},
         Finish(r, result)
  PROVE  GatewayInv'
<1>. DEFINE s == request[r].session
            entry == [tool |-> request[r].tool, risk |-> request[r].risk]
<1>1. /\ TypeOK /\ SM!IndInv /\ ListFacts /\ IsFiniteSet(Busy) /\ SetFacts
      /\ Answer(r, result) /\ Sessions!RecordUse(s)
      /\ r \in InFlight /\ result \in Concluded /\ result \in Phase
      /\ engine' = engine /\ up' = up /\ up
  BY SessionList, BusySubsets
     DEF GatewayInv, InFlightIsBounded, Finish, InFlight, Awaiting, Concluded, Phase
<1>2. /\ s \in DOMAIN sessions
      /\ entry \in [tool: Tools, risk: {"low", "medium", "high"}]
  BY <1>1 DEF GatewayInv, HandlersHoldSessions, InFlight, ListFacts
<1>3. /\ SM!IndInv' /\ ListFacts'
      /\ Len(sessions') = Len(sessions)
      /\ \A i \in DOMAIN sessions :
           sessions'[i].requestCount =
             IF i = s THEN sessions[i].requestCount + 1 ELSE sessions[i].requestCount
  BY <1>1, <1>2, RecordUseEffect, SessionListNext
<1>4. /\ request' \in [Requests -> Handler]
      /\ request'[r].phase = result
      /\ request'[r].session = s
      /\ \A q \in Requests : q # r => request'[q] = request[q]
  BY <1>1, AnswerEffect
<1>5. /\ Busy' = Busy
      /\ InFlight' = InFlight \ {r}
      /\ Cardinality(InFlight') = Cardinality(InFlight) - 1
      /\ \A i : Cardinality(Carried(i)') =
           IF i = s THEN Cardinality(Carried(i)) - 1 ELSE Cardinality(Carried(i))
      /\ \A i : Cardinality(Counted(i)') =
           IF i = s THEN Cardinality(Counted(i)) + 1 ELSE Cardinality(Counted(i))
  <2>1. result # "blocked"
    OBVIOUS
  <2>. QED BY <1>1, <2>1, ConcludeSets
<1>. HIDE DEF entry, s
<1>6. \/ path' = Append(path, entry)
      \/ path' = path
  BY DEF Finish, entry
<1>7. TypeOK'
  <2>1. path' \in Seq([tool: Tools, risk: {"low", "medium", "high"}])
    <3>. DEFINE Step == [tool: Tools, risk: {"low", "medium", "high"}]
    <3>1. path \in Seq(Step) /\ entry \in Step
      BY <1>1, <1>2 DEF TypeOK
    <3>. HIDE DEF Step
    <3>2. path' \in Seq(Step)
      BY <1>6, <3>1
    <3>. QED BY <3>2 DEF Step
  <2>2. engine' \in BOOLEAN /\ up' \in BOOLEAN
    BY <1>1, Zenon DEF TypeOK
  <2>. QED BY <1>3, <1>4, <2>1, <2>2 DEF TypeOK, ListFacts
<1>8. HandlersHoldSessions'
  BY <1>1, <1>3, <1>4 DEF GatewayInv, HandlersHoldSessions, Awaiting, s
<1>9. InFlightIsBounded'
  BY <1>1, <1>5, Ceilings DEF GatewayInv, InFlightIsBounded, SetFacts
<1>10. UsesAreAccountedFor'
  <2>1. \A i \in DOMAIN sessions : sessions[i].requestCount = Cardinality(Counted(i))
    BY DEF GatewayInv, UsesAreAccountedFor, Counted
  <2>2. \A i \in DOMAIN sessions' : sessions'[i].requestCount = Cardinality(Counted(i)')
    BY <1>1, <1>3, <1>5, <2>1 DEF ListFacts
  <2>. QED BY <2>2 DEF UsesAreAccountedFor, Counted
<1>11. SessionHasRoom'
  <2>. SUFFICES ASSUME NEW i \in DOMAIN sessions'
                PROVE  sessions'[i].requestCount + Cardinality(Carried(i)')
                         <= MaxRequests[Research] + MaxInFlight - 1
    BY DEF SessionHasRoom
  <2>1. /\ i \in DOMAIN sessions
        /\ sessions[i].requestCount \in Nat /\ Cardinality(Carried(i)) \in Nat
        /\ sessions[i].requestCount + Cardinality(Carried(i))
             <= MaxRequests[Research] + MaxInFlight - 1
    BY <1>1, <1>3 DEF GatewayInv, SessionHasRoom, ListFacts, SetFacts
  <2>. QED BY <1>3, <1>5, <2>1, Ceilings
<1>12. PathHasRoom'
  BY <1>1, <1>2, <1>5, <1>6, Ceilings DEF GatewayInv, PathHasRoom, TypeOK, SetFacts
<1>13. HighRiskHasRoom'
  <2>1. Len(path) \in Nat /\ DOMAIN path = 1 .. Len(path)
    BY <1>1 DEF TypeOK
  <2>2. CASE path' = path
    BY <1>1, <1>5, <2>1, <2>2, Ceilings DEF GatewayInv, HighRiskHasRoom, SetFacts
  <2>3. CASE path' = Append(path, entry)
    <3>1. /\ Len(path') = Len(path) + 1 /\ DOMAIN path' = 1 .. Len(path) + 1
          /\ \A k \in 1 .. Len(path) : path'[k] = path[k]
      BY <1>1, <1>2, <2>1, <2>3 DEF TypeOK
    <3>. SUFFICES ASSUME GraphPolicy.blockOnHighRiskPath,
                         NEW k \in DOMAIN path', path'[k].risk = "high"
                  PROVE  Len(path') - k + Cardinality(InFlight') <= MaxInFlight - 1
      BY DEF HighRiskHasRoom
    <3>2. CASE k = Len(path) + 1
      BY <1>1, <1>5, <2>1, <3>1, <3>2, Ceilings
         DEF GatewayInv, InFlightIsBounded, SetFacts
    <3>3. CASE k \in 1 .. Len(path)
      BY <1>1, <1>5, <2>1, <3>1, <3>3, Ceilings
         DEF GatewayInv, HighRiskHasRoom, SetFacts
    <3>. QED BY <2>1, <3>1, <3>2, <3>3
  <2>. QED BY <1>6, <2>2, <2>3
<1>14. DownOnlyAfterInterference'
  BY <1>1 DEF DownOnlyAfterInterference
<1>. QED BY <1>3, <1>7, <1>8, <1>9, <1>10, <1>11, <1>12, <1>13, <1>14 DEF GatewayInv

\* A step that admits no request and counts no use leaves every bound intact.
LEMMA NothingAdmitted ==
  ASSUME GatewayInv, SM!IndInv', CountsKept, path' = path,
         IsFiniteSet(Busy)', InFlight' \subseteq InFlight,
         \A i : Carried(i)' \subseteq Carried(i),
         \A i : Counted(i)' = Counted(i)
  PROVE  /\ InFlightIsBounded' /\ UsesAreAccountedFor' /\ SessionHasRoom'
         /\ PathHasRoom' /\ HighRiskHasRoom'
<1>1. /\ TypeOK /\ ListFacts /\ ListFacts' /\ IsFiniteSet(Busy) /\ SetFacts /\ SetFacts'
  BY SessionList, SessionListNext, BusySubsets, BusySubsetsNext
     DEF GatewayInv, InFlightIsBounded
<1>2. /\ Cardinality(InFlight') <= Cardinality(InFlight)
      /\ \A i : Cardinality(Carried(i)') <= Cardinality(Carried(i))
  BY <1>1, FS_Subset DEF SetFacts
<1>3. ASSUME NEW i \in DOMAIN sessions', i \notin DOMAIN sessions
      PROVE  /\ sessions'[i].requestCount = 0
             /\ Cardinality(Counted(i)) = 0 /\ Cardinality(Carried(i)) = 0
  <2>1. i # NoSession /\ i \notin 0 .. Len(sessions)
    BY <1>1, <1>3 DEF ListFacts
  <2>2. Counted(i) = {} /\ Carried(i) = {}
    BY <2>1 DEF GatewayInv, HandlersHoldSessions, Counted, Carried, InFlight
  <2>. QED BY <1>3, <2>2, FS_EmptySet DEF CountsKept
<1>4. InFlightIsBounded'
  BY <1>1, <1>2, Ceilings DEF GatewayInv, InFlightIsBounded, SetFacts
<1>5. UsesAreAccountedFor'
  <2>1. \A i \in DOMAIN sessions : sessions[i].requestCount = Cardinality(Counted(i))
    BY DEF GatewayInv, UsesAreAccountedFor, Counted
  <2>2. \A i \in DOMAIN sessions' : sessions'[i].requestCount = Cardinality(Counted(i)')
    BY <1>3, <2>1 DEF CountsKept
  <2>. QED BY <2>2 DEF UsesAreAccountedFor, Counted
<1>6. SessionHasRoom'
  <2>. SUFFICES ASSUME NEW i \in DOMAIN sessions'
                PROVE  sessions'[i].requestCount + Cardinality(Carried(i)')
                         <= MaxRequests[Research] + MaxInFlight - 1
    BY DEF SessionHasRoom
  <2>1. /\ Cardinality(Carried(i)') \in Nat /\ Cardinality(Carried(i)) \in Nat
        /\ Cardinality(Carried(i)') <= Cardinality(Carried(i))
    BY <1>1, <1>2 DEF SetFacts
  <2>2. CASE i \in DOMAIN sessions
    <3>1. /\ sessions'[i].requestCount = sessions[i].requestCount
          /\ sessions[i].requestCount \in Nat
          /\ sessions[i].requestCount + Cardinality(Carried(i))
               <= MaxRequests[Research] + MaxInFlight - 1
      BY <1>1, <2>2 DEF GatewayInv, SessionHasRoom, ListFacts, CountsKept
    <3>. QED BY <2>1, <3>1, Ceilings
  <2>3. CASE i \notin DOMAIN sessions
    BY <1>3, <2>1, <2>3, Ceilings
  <2>. QED BY <2>2, <2>3
<1>7. Len(path) \in Nat /\ DOMAIN path = 1 .. Len(path)
  BY <1>1 DEF TypeOK
<1>8. PathHasRoom'
  BY <1>1, <1>2, <1>7, Ceilings DEF GatewayInv, PathHasRoom, SetFacts
<1>9. HighRiskHasRoom'
  BY <1>1, <1>2, <1>7, Ceilings DEF GatewayInv, HighRiskHasRoom, SetFacts
<1>. QED BY <1>4, <1>5, <1>6, <1>8, <1>9

\* A step that leaves the session manager alone keeps its invariant.
LEMMA SessionsLeftAlone ==
  ASSUME SM!IndInv, UNCHANGED <<registered, sessions, handed, now>>
  PROVE  SM!IndInv' /\ CountsKept
<1>1. SM!IndInv'
  BY SessionConstants, SM!StutterStep DEF SM!vars
<1>2. \A i \in DOMAIN sessions : sessions'[i].requestCount = sessions[i].requestCount
  OBVIOUS
<1>. QED BY <1>1, <1>2, SessionList DEF CountsKept, ListFacts

\* The passing of time does too.
LEMMA TickEffect ==
  ASSUME SM!IndInv, Sessions!Tick
  PROVE  SM!IndInv' /\ CountsKept
<1>1. SM!TypeOK
  BY DEF SM!IndInv
<1>2. /\ UNCHANGED sessions /\ registered' \subseteq {Research}
      /\ now' \in Nat /\ handed' = SM!NoSession
  BY <1>1 DEF Sessions!Tick, SM!TypeOK, Sessions!NoSession, SM!NoSession
<1>3. SM!IndInv'
  BY <1>2, SessionConstants, SM!OtherStep
<1>. QED BY <1>2, <1>3, SessionList DEF CountsKept, ListFacts

\* The sandbox blocked the call: the request gives its places back.
LEMMA FinishBlockedStep ==
  ASSUME GatewayInv, NEW r \in Requests, FinishBlocked(r)
  PROVE  GatewayInv'
<1>1. /\ TypeOK /\ SM!IndInv /\ ListFacts /\ IsFiniteSet(Busy) /\ SetFacts
      /\ Answer(r, "blocked") /\ r \in InFlight
      /\ "blocked" \in Concluded /\ "blocked" \in Phase
      /\ UNCHANGED <<registered, sessions, handed, now, path, engine, up>> /\ up
  BY SessionList, BusySubsets
     DEF GatewayInv, InFlightIsBounded, FinishBlocked, InFlight, Awaiting, Concluded, Phase
<1>2. SM!IndInv' /\ CountsKept
  BY <1>1, SessionsLeftAlone
<1>3. /\ request' \in [Requests -> Handler]
      /\ request'[r].phase = "blocked"
      /\ request'[r].session = request[r].session
      /\ \A q \in Requests : q # r => request'[q] = request[q]
  BY <1>1, AnswerEffect
<1>4. /\ IsFiniteSet(Busy)' /\ InFlight' \subseteq InFlight
      /\ \A i : Carried(i)' \subseteq Carried(i)
      /\ \A i : Counted(i)' = Counted(i)
  <2>1. Busy' = Busy
    BY <1>1, <1>3 DEF Busy, InFlight, Awaiting
  <2>2. InFlight' \subseteq InFlight
    BY <1>1, <1>3 DEF InFlight, Awaiting
  <2>3. \A i : Carried(i)' \subseteq Carried(i)
    BY <1>3, <2>2 DEF Carried, InFlight
  <2>4. \A i : Counted(i)' = Counted(i)
    BY <1>1, <1>3 DEF Counted, InFlight, Awaiting
  <2>. QED BY <1>1, <2>1, <2>2, <2>3, <2>4
<1>5. TypeOK'
  BY <1>1, <1>3 DEF TypeOK, Sessions!TypeOK
<1>6. HandlersHoldSessions'
  BY <1>1, <1>3 DEF GatewayInv, HandlersHoldSessions, Awaiting
<1>7. DownOnlyAfterInterference'
  BY <1>1 DEF DownOnlyAfterInterference
<1>. QED BY <1>1, <1>2, <1>4, <1>5, <1>6, <1>7, NothingAdmitted DEF GatewayInv

\* What the graph admits fits on the path, and nothing follows a high-risk step
\* where the policy forbids it.
LEMMA AdmittedByGraph ==
  ASSUME TypeOK, NEW tool, NEW risk,
         Graph!Admits(Graph!EvaluatePath(Research, tool, risk))
  PROVE  /\ Len(path) + 1 <= GraphPolicy.maxPathLength
         /\ GraphPolicy.blockOnHighRiskPath =>
              \A k \in DOMAIN path : path[k].risk # "high"
<1>. DEFINE ids == [k \in DOMAIN path |-> k]
            paths == [c \in {Research} |-> ids]
            policies == [c \in {Research} |-> GraphPolicy]
<1>1. Len(path) \in Nat /\ DOMAIN path = 1 .. Len(path)
  BY DEF TypeOK
<1>2. ids \in Seq(Nat) /\ Len(ids) = Len(path) /\ \A k \in DOMAIN path : ids[k] = k
  BY <1>1
<1>3. (ids = << >>) => Len(path) = 0
  BY <1>2
<1>4. /\ paths[Research] = ids /\ policies[Research] = GraphPolicy
      /\ Research \in DOMAIN policies
  OBVIOUS
<1>5. Graph!HighRiskPath(Research, risk) <=>
        risk = "high" \/ \E k \in DOMAIN path : path[k].risk = "high"
  BY DEF Graph!HighRiskPath
<1>6. Len(path) + 1 > GraphPolicy.maxPathLength
        => Graph!EvaluatePath(Research, tool, risk) = "block"
  <2>. HIDE DEF ids, paths, policies
  <2>. QED BY <1>2, <1>4 DEF Graph!EvaluatePath, paths, policies, ids
<1>7. ASSUME GraphPolicy.blockOnHighRiskPath, NEW k \in DOMAIN path, path[k].risk = "high"
      PROVE  Graph!EvaluatePath(Research, tool, risk) = "block"
  <2>1. Graph!HighRiskPath(Research, risk) /\ ids # << >>
    BY <1>1, <1>2, <1>5, <1>7
  <2>. HIDE DEF ids, paths, policies
  <2>. QED BY <1>2, <1>4, <1>7, <2>1 DEF Graph!EvaluatePath, paths, policies, ids
<1>. QED BY <1>1, <1>6, <1>7, Ceilings DEF Graph!Admits

\* Admitting a request: the gates have just seen room on the path and in the
\* session, and the clients keep the overlap bounded.
LEMMA StartStep ==
  ASSUME GatewayInv, NEW r \in Requests, NEW capability \in Capabilities,
         NEW effective \in {capability.risk} \cup Escalations,
         NEW real \in BOOLEAN, NEW rotate \in BOOLEAN,
         Start(r, capability.tool, capability.risk, effective, real, rotate)
  PROVE  GatewayInv'
<1>. DEFINE h == [phase |-> "delaying", session |-> handed', real |-> real,
                  tool |-> capability.tool, risk |-> effective]
<1>1. /\ TypeOK /\ SM!IndInv /\ ListFacts /\ IsFiniteSet(Busy) /\ SetFacts
      /\ up /\ request[r].phase = "idle" /\ Cardinality(InFlight) < MaxInFlight
      /\ UNCHANGED <<path, engine, up>>
  BY SessionList, BusySubsets DEF GatewayInv, InFlightIsBounded, Start
<1>2. /\ SM!IndInv' /\ ListFacts' /\ CountsKept
      /\ handed' \in DOMAIN sessions'
      /\ sessions'[handed'].requestCount < MaxRequests[Research]
  <2>1. Sessions!RotateSession(Research) \/ Sessions!GetOrCreateSession(Research)
    BY DEF Start
  <2>. QED BY <1>1, <2>1, HandOutEffect, SessionListNext
<1>3. /\ Len(path) + 1 <= GraphPolicy.maxPathLength
      /\ GraphPolicy.blockOnHighRiskPath =>
           \A k \in DOMAIN path : path[k].risk # "high"
  BY <1>1, AdmittedByGraph DEF Start
<1>4. /\ h \in Handler
      /\ h.phase = "delaying" /\ h.session = handed'
      /\ h.tool \in Tools /\ h.risk \in {"low", "medium", "high"}
  <2>1. handed' \in Nat
    BY <1>2 DEF ListFacts
  <2>2. capability.tool \in Tools /\ effective \in {"low", "medium", "high"}
    BY GatewayAssumption DEF Tools, Graph!RiskLevel
  <2>. QED BY <2>1, <2>2 DEF Handler, Phase, Awaiting
<1>5. request' = [request EXCEPT ![r] = h]
  BY DEF Start
<1>. HIDE DEF h
<1>6. /\ request' \in [Requests -> Handler] /\ request'[r] = h
      /\ \A q \in Requests : q # r => request'[q] = request[q]
  BY <1>1, <1>4, <1>5 DEF TypeOK
<1>7. /\ Busy' = Busy \cup {r} /\ IsFiniteSet(Busy)'
      /\ InFlight' = InFlight \cup {r}
      /\ Cardinality(InFlight') = Cardinality(InFlight) + 1
      /\ SetFacts'
  <2>1. Busy' = Busy \cup {r}
    BY <1>4, <1>6 DEF Busy
  <2>2. InFlight' = InFlight \cup {r}
    BY <1>4, <1>6 DEF InFlight, Awaiting
  <2>3. r \notin InFlight
    BY <1>1 DEF InFlight, Awaiting
  <2>. QED BY <1>1, <2>1, <2>2, <2>3, FS_AddElement, BusySubsetsNext DEF SetFacts
<1>8. \A i : Counted(i)' = Counted(i)
  BY <1>1, <1>4, <1>6 DEF Counted
<1>9. ASSUME NEW i, i # handed'
      PROVE  Carried(i)' = Carried(i)
  <2>1. r \notin Carried(i) /\ r \notin Carried(i)'
    BY <1>1, <1>4, <1>6, <1>9 DEF Carried, InFlight, Awaiting
  <2>2. \A q \in Requests : q # r => (q \in Carried(i)' <=> q \in Carried(i))
    BY <1>6, <1>7 DEF Carried
  <2>. QED BY <2>1, <2>2 DEF Carried, InFlight
<1>10. ASSUME NEW i \in DOMAIN sessions', i \notin DOMAIN sessions
       PROVE  /\ sessions'[i].requestCount = 0
              /\ Cardinality(Counted(i)) = 0 /\ Cardinality(Carried(i)) = 0
  <2>1. i # NoSession /\ i \notin 0 .. Len(sessions)
    BY <1>1, <1>2, <1>10 DEF ListFacts
  <2>2. Counted(i) = {} /\ Carried(i) = {}
    BY <2>1 DEF GatewayInv, HandlersHoldSessions, Counted, Carried, InFlight
  <2>. QED BY <1>2, <1>10, <2>2, FS_EmptySet DEF CountsKept
<1>11. TypeOK'
  <2>1. engine' \in BOOLEAN /\ up' \in BOOLEAN
    BY <1>1, Zenon DEF TypeOK
  <2>. QED BY <1>1, <1>2, <1>6, <2>1 DEF TypeOK, ListFacts
<1>12. HandlersHoldSessions'
  BY <1>1, <1>2, <1>4, <1>6
     DEF GatewayInv, HandlersHoldSessions, Awaiting, ListFacts, CountsKept
<1>13. InFlightIsBounded'
  <2>1. Len(path) \in Nat
    BY <1>1 DEF TypeOK
  <2>2. GraphPolicy.maxPathLength >= 1
    BY <1>3, <2>1, Ceilings
  <2>. QED BY <1>1, <1>7, <2>2, Ceilings DEF InFlightIsBounded, SetFacts
<1>14. UsesAreAccountedFor'
  <2>1. \A i \in DOMAIN sessions : sessions[i].requestCount = Cardinality(Counted(i))
    BY DEF GatewayInv, UsesAreAccountedFor, Counted
  <2>2. \A i \in DOMAIN sessions' : sessions'[i].requestCount = Cardinality(Counted(i)')
    BY <1>2, <1>8, <1>10, <2>1 DEF CountsKept
  <2>. QED BY <2>2 DEF UsesAreAccountedFor, Counted
<1>15. SessionHasRoom'
  <2>. SUFFICES ASSUME NEW i \in DOMAIN sessions'
                PROVE  sessions'[i].requestCount + Cardinality(Carried(i)')
                         <= MaxRequests[Research] + MaxInFlight - 1
    BY DEF SessionHasRoom
  <2>1. CASE i = handed'
    <3>1. /\ sessions'[i].requestCount \in Nat /\ Cardinality(Carried(i)') \in Nat
          /\ Cardinality(Carried(i)') <= Cardinality(InFlight')
          /\ Cardinality(InFlight) \in Nat
      BY <1>1, <1>2, <1>7 DEF ListFacts, SetFacts
    <3>. QED BY <1>1, <1>2, <1>7, <2>1, <3>1, Ceilings
  <2>2. CASE i # handed' /\ i \in DOMAIN sessions
    BY <1>2, <1>9, <2>2 DEF GatewayInv, SessionHasRoom, CountsKept
  <2>3. CASE i # handed' /\ i \notin DOMAIN sessions
    BY <1>9, <1>10, <2>3, Ceilings
  <2>. QED BY <2>1, <2>2, <2>3
<1>16. PathHasRoom'
  <2>1. Len(path) \in Nat
    BY <1>1 DEF TypeOK
  <2>. QED BY <1>1, <1>3, <1>7, <2>1, Ceilings DEF PathHasRoom, SetFacts
<1>17. HighRiskHasRoom'
  BY <1>1, <1>3 DEF HighRiskHasRoom
<1>18. DownOnlyAfterInterference'
  BY <1>1 DEF DownOnlyAfterInterference
<1>. QED BY <1>2, <1>11, <1>12, <1>13, <1>14, <1>15, <1>16, <1>17, <1>18 DEF GatewayInv

\* A refusal sends the request away before it has taken anything.
LEMMA RefuseStep ==
  ASSUME GatewayInv, NEW r \in Requests, NEW tool, NEW risk, Refuse(r, tool, risk)
  PROVE  GatewayInv'
<1>1. /\ TypeOK /\ SM!IndInv /\ ListFacts /\ IsFiniteSet(Busy) /\ SetFacts
      /\ up /\ request[r].phase = "idle"
      /\ UNCHANGED <<registered, sessions, handed, now, path, engine, up>>
  BY SessionList, BusySubsets DEF GatewayInv, InFlightIsBounded, Refuse
<1>2. SM!IndInv' /\ CountsKept
  BY <1>1, SessionsLeftAlone
<1>3. PICK answer \in Refused : Answer(r, answer)
  BY Zenon DEF Refuse
<1>4. answer \in Phase /\ answer \notin Awaiting \cup Concluded \cup {"idle"}
  BY DEF Refused, Phase, Awaiting, Concluded
<1>5. /\ request' \in [Requests -> Handler]
      /\ request'[r].phase = answer
      /\ request'[r].session = request[r].session
      /\ \A q \in Requests : q # r => request'[q] = request[q]
  BY <1>1, <1>3, <1>4, AnswerEffect
<1>6. /\ IsFiniteSet(Busy)' /\ InFlight' \subseteq InFlight
      /\ \A i : Carried(i)' \subseteq Carried(i)
      /\ \A i : Counted(i)' = Counted(i)
  <2>1. Busy' = Busy \cup {r}
    BY <1>4, <1>5 DEF Busy
  <2>2. InFlight' \subseteq InFlight
    BY <1>4, <1>5 DEF InFlight
  <2>3. \A i : Carried(i)' \subseteq Carried(i)
    BY <1>5, <2>2 DEF Carried, InFlight
  <2>4. \A i : Counted(i)' = Counted(i)
    BY <1>1, <1>4, <1>5 DEF Counted, Concluded
  <2>. QED BY <1>1, <2>1, <2>2, <2>3, <2>4, FS_AddElement
<1>7. TypeOK'
  BY <1>1, <1>5 DEF TypeOK, Sessions!TypeOK
<1>8. HandlersHoldSessions'
  BY <1>1, <1>4, <1>5 DEF GatewayInv, HandlersHoldSessions
<1>9. DownOnlyAfterInterference'
  BY <1>1 DEF DownOnlyAfterInterference
<1>. QED BY <1>1, <1>2, <1>6, <1>7, <1>8, <1>9, NothingAdmitted DEF GatewayInv

\* The delay ends: the request stays in flight.
LEMMA ExecuteStep ==
  ASSUME GatewayInv, NEW r \in Requests, Execute(r)
  PROVE  GatewayInv'
<1>1. /\ TypeOK /\ SM!IndInv /\ ListFacts /\ IsFiniteSet(Busy)
      /\ up /\ request[r].phase = "delaying"
      /\ UNCHANGED <<registered, sessions, handed, now, path, engine, up>>
      /\ request' = [request EXCEPT ![r].phase = "executing"]
  BY SessionList DEF GatewayInv, InFlightIsBounded, Execute
<1>2. SM!IndInv' /\ CountsKept
  BY <1>1, SessionsLeftAlone
<1>3. /\ request' \in [Requests -> Handler]
      /\ request'[r].phase = "executing"
      /\ request'[r].session = request[r].session
      /\ request'[r].tool = request[r].tool /\ request'[r].risk = request[r].risk
      /\ \A q \in Requests : q # r => request'[q] = request[q]
  <2>1. request \in [Requests -> Handler] /\ request[r] \in Handler
    BY <1>1 DEF TypeOK
  <2>2. "executing" \in Phase
    BY DEF Phase, Awaiting
  <2>. QED BY <1>1, <2>1, <2>2 DEF Handler
<1>4. /\ Busy' = Busy /\ InFlight' = InFlight
      /\ \A i : Carried(i)' = Carried(i)
      /\ \A i : Counted(i)' = Counted(i)
  <2>1. Busy' = Busy
    BY <1>1, <1>3 DEF Busy
  <2>2. InFlight' = InFlight
    BY <1>1, <1>3 DEF InFlight, Awaiting
  <2>3. \A i : Carried(i)' = Carried(i)
    BY <1>3, <2>2 DEF Carried, InFlight
  <2>4. \A i : Counted(i)' = Counted(i)
    BY <1>1, <1>3 DEF Counted
  <2>. QED BY <2>1, <2>2, <2>3, <2>4
<1>5. TypeOK'
  BY <1>1, <1>3 DEF TypeOK, Sessions!TypeOK
<1>6. HandlersHoldSessions'
  BY <1>1, <1>3 DEF GatewayInv, HandlersHoldSessions, Awaiting
<1>7. DownOnlyAfterInterference'
  BY <1>1 DEF DownOnlyAfterInterference
<1>. QED BY <1>1, <1>2, <1>4, <1>5, <1>6, <1>7, NothingAdmitted DEF GatewayInv

\* What the end of the process does to the handlers.
LEMMA ThrowEffect ==
  ASSUME TypeOK, IsFiniteSet(Busy), Throw
  PROVE  /\ request' \in [Requests -> Handler]
         /\ \A q \in Requests :
              /\ request'[q].session = request[q].session
              /\ request'[q].real = request[q].real
              /\ request'[q].phase = IF q \in InFlight THEN "lost" ELSE request[q].phase
         /\ IsFiniteSet(Busy)' /\ InFlight' = {}
         /\ \A i : Carried(i)' = {} /\ Counted(i)' = Counted(i)
<1>1. request \in [Requests -> Handler] /\ "lost" \in Phase
  BY DEF TypeOK, Phase
<1>2. request' = [q \in Requests |->
                    IF q \in InFlight THEN [request[q] EXCEPT !.phase = "lost"]
                                      ELSE request[q]]
  BY DEF Throw
<1>3. /\ request' \in [Requests -> Handler]
      /\ \A q \in Requests :
           /\ request'[q].session = request[q].session
           /\ request'[q].real = request[q].real
           /\ request'[q].phase = IF q \in InFlight THEN "lost" ELSE request[q].phase
  BY <1>1, <1>2 DEF Handler
<1>4. Busy' = Busy
  BY <1>3 DEF Busy, InFlight, Awaiting
<1>5. InFlight' = {}
  BY <1>3 DEF InFlight, Awaiting
<1>6. \A i : Carried(i)' = {}
  BY <1>5 DEF Carried
<1>7. \A i : Counted(i)' = Counted(i)
  BY <1>3 DEF Counted, InFlight, Awaiting
<1>. QED BY <1>3, <1>4, <1>5, <1>6, <1>7

\* An uncaught exception of request r, whatever it did to its session before.
LEMMA ThrowStep ==
  ASSUME GatewayInv, NEW r \in InFlight, Throw, SM!IndInv', CountsKept,
         UNCHANGED <<path, engine>>,
         sessions'[request[r].session].status # "active" \/ (request[r].real /\ ~engine)
  PROVE  GatewayInv'
<1>1. /\ TypeOK /\ IsFiniteSet(Busy) /\ ListFacts' /\ ~up'
      /\ r \in Requests /\ request[r].session # NoSession
  BY SessionListNext DEF GatewayInv, InFlightIsBounded, HandlersHoldSessions, InFlight, Throw
<1>2. /\ request' \in [Requests -> Handler]
      /\ \A q \in Requests :
           /\ request'[q].session = request[q].session
           /\ request'[q].real = request[q].real
           /\ request'[q].phase = IF q \in InFlight THEN "lost" ELSE request[q].phase
      /\ IsFiniteSet(Busy)' /\ InFlight' = {}
      /\ \A i : Carried(i)' = {} /\ Counted(i)' = Counted(i)
  BY <1>1, ThrowEffect
<1>3. TypeOK'
  <2>1. engine' \in BOOLEAN /\ up' \in BOOLEAN
    BY <1>1, Zenon DEF TypeOK, Throw
  <2>. QED BY <1>1, <1>2, <2>1 DEF TypeOK, ListFacts
<1>4. HandlersHoldSessions'
  <2>. SUFFICES ASSUME NEW q \in Requests
                PROVE  /\ request'[q].session \in 0 .. Len(sessions')
                       /\ request'[q].phase = "idle" => request'[q].session = NoSession
                       /\ request'[q].phase \notin Awaiting
    BY DEF HandlersHoldSessions
  <2>1. /\ request[q].session \in 0 .. Len(sessions)
        /\ request[q].phase = "idle" => request[q].session = NoSession
    BY DEF GatewayInv, HandlersHoldSessions
  <2>2. Len(sessions) \in Nat /\ Len(sessions) <= Len(sessions') /\ Len(sessions') \in Nat
    BY <1>1, SessionList DEF GatewayInv, CountsKept, ListFacts
  <2>3. request'[q].phase \notin Awaiting
    BY <1>2 DEF InFlight
  <2>. QED BY <1>2, <2>1, <2>2, <2>3
<1>5. DownOnlyAfterInterference'
  BY <1>1, <1>2, Zenon DEF DownOnlyAfterInterference
<1>. QED BY <1>2, <1>3, <1>4, <1>5, NothingAdmitted DEF GatewayInv

\* A step that does not touch the handlers or the path.
LEMMA HandlersLeftAlone ==
  ASSUME GatewayInv, SM!IndInv', CountsKept, UNCHANGED <<path, request, engine, up>>,
         up \/ UNCHANGED sessions
  PROVE  GatewayInv'
<1>1. TypeOK /\ IsFiniteSet(Busy) /\ ListFacts /\ ListFacts'
  BY SessionList, SessionListNext DEF GatewayInv, InFlightIsBounded
<1>2. /\ Busy' = Busy /\ InFlight' = InFlight
      /\ \A i : Carried(i)' = Carried(i) /\ Counted(i)' = Counted(i)
  BY DEF Busy, InFlight, Carried, Counted
<1>3. TypeOK'
  BY <1>1 DEF TypeOK, ListFacts
<1>4. HandlersHoldSessions'
  BY <1>1 DEF GatewayInv, HandlersHoldSessions, ListFacts, CountsKept
<1>5. DownOnlyAfterInterference'
  BY DEF GatewayInv, DownOnlyAfterInterference
<1>. QED BY <1>1, <1>2, <1>3, <1>4, <1>5, NothingAdmitted DEF GatewayInv

\* A config reload empties the path; what is in flight was admitted under a
\* ceiling of at least one.
LEMMA ReloadStep ==
  ASSUME GatewayInv, Reload
  PROVE  GatewayInv'
<1>1. /\ TypeOK /\ IsFiniteSet(Busy) /\ SetFacts /\ SM!IndInv /\ up
      /\ UNCHANGED <<registered, sessions, handed, now, request, up>>
      /\ path' = << >>
  BY BusySubsets DEF GatewayInv, InFlightIsBounded, Reload
<1>2. SM!IndInv'
  BY <1>1, SessionsLeftAlone
<1>3. /\ Busy' = Busy /\ InFlight' = InFlight
      /\ \A i : Carried(i)' = Carried(i) /\ Counted(i)' = Counted(i)
  BY <1>1 DEF Busy, InFlight, Carried, Counted
<1>4. TypeOK'
  <2>1. path' \in Seq([tool: Tools, risk: {"low", "medium", "high"}])
    BY <1>1
  <2>2. engine' \in BOOLEAN
    BY Zenon DEF Reload
  <2>. QED BY <1>1, <2>1, <2>2 DEF TypeOK, Sessions!TypeOK
<1>5. HandlersHoldSessions'
  BY <1>1 DEF GatewayInv, HandlersHoldSessions
<1>6. InFlightIsBounded' /\ UsesAreAccountedFor' /\ SessionHasRoom'
  BY <1>1, <1>3 DEF GatewayInv, InFlightIsBounded, UsesAreAccountedFor, Counted,
                    SessionHasRoom
<1>7. PathHasRoom'
  <2>1. Len(path') = 0
    BY <1>1
  <2>2. CASE InFlight = {}
    <3>1. Cardinality(InFlight') = 0
      BY <1>3, <2>2, FS_EmptySet
    <3>. QED BY <2>1, <3>1, Ceilings DEF PathHasRoom
  <2>3. CASE InFlight # {}
    BY <1>1, <1>3, <2>1, <2>3, Ceilings
       DEF GatewayInv, InFlightIsBounded, PathHasRoom, SetFacts
  <2>. QED BY <2>2, <2>3
<1>8. HighRiskHasRoom'
  <2>1. DOMAIN path' = {}
    BY <1>1
  <2>. QED BY <2>1 DEF HighRiskHasRoom
<1>9. DownOnlyAfterInterference'
  BY <1>1 DEF DownOnlyAfterInterference
<1>. QED BY <1>2, <1>4, <1>5, <1>6, <1>7, <1>8, <1>9 DEF GatewayInv

\* A restarted process starts from nothing, and nothing is in flight.
LEMMA RestartStep ==
  ASSUME GatewayInv, Restart
  PROVE  GatewayInv'
<1>1. /\ TypeOK /\ IsFiniteSet(Busy) /\ SM!IndInv /\ ~up /\ up'
      /\ sessions' = << >> /\ handed' = NoSession /\ path' = << >>
      /\ UNCHANGED <<registered, now>>
      /\ request' = [q \in Requests |-> [request[q] EXCEPT !.session = NoSession]]
  BY DEF GatewayInv, InFlightIsBounded, Restart
<1>2. sessions' \in Seq(SM!Session) /\ Len(sessions') = 0 /\ DOMAIN sessions' = {}
  BY <1>1
<1>3. SM!IndInv'
  <2>1. SM!TypeOK'
    BY <1>1, <1>2 DEF SM!IndInv, SM!TypeOK
  <2>. QED BY <1>1, <1>2, <2>1
           DEF SM!IndInv, SM!OnlyNewestIsActive, SM!UsesPrecedeDeadline,
               SM!HandedSessionIsUsable, SM!NoSession
<1>4. /\ request' \in [Requests -> Handler]
      /\ \A q \in Requests : /\ request'[q].session = NoSession
                             /\ request'[q].phase = request[q].phase
  BY <1>1 DEF TypeOK, Handler
<1>5. InFlight = {} /\ InFlight' = {} /\ Busy' = Busy
  <2>1. InFlight = {}
    BY <1>1 DEF GatewayInv, HandlersHoldSessions, InFlight
  <2>. QED BY <1>4, <2>1 DEF InFlight, Busy
<1>6. Cardinality(InFlight') = 0
  BY <1>5, FS_EmptySet
<1>7. TypeOK'
  <2>1. Sessions!TypeOK'
    BY <1>3, SessionListNext DEF ListFacts
  <2>2. path' \in Seq([tool: Tools, risk: {"low", "medium", "high"}])
    BY <1>1
  <2>3. engine' \in BOOLEAN /\ up' \in BOOLEAN
    BY Zenon DEF Restart
  <2>. QED BY <1>4, <2>1, <2>2, <2>3 DEF TypeOK
<1>8. HandlersHoldSessions'
  BY <1>2, <1>4, <1>5 DEF HandlersHoldSessions, InFlight
<1>9. InFlightIsBounded'
  BY <1>1, <1>5, <1>6, Ceilings DEF InFlightIsBounded
<1>10. UsesAreAccountedFor' /\ SessionHasRoom'
  BY <1>2 DEF UsesAreAccountedFor, SessionHasRoom
<1>11. PathHasRoom' /\ HighRiskHasRoom'
  <2>1. Len(path') = 0 /\ DOMAIN path' = {}
    BY <1>1
  <2>. QED BY <1>6, <2>1, Ceilings DEF PathHasRoom, HighRiskHasRoom
<1>12. DownOnlyAfterInterference'
  BY <1>1 DEF DownOnlyAfterInterference
<1>. QED BY <1>3, <1>7, <1>8, <1>9, <1>10, <1>11, <1>12 DEF GatewayInv

\* Every step keeps the invariant.
LEMMA GatewayStep ==
  ASSUME GatewayInv, Next
  PROVE  GatewayInv'
<1>1. SM!IndInv
  BY DEF GatewayInv
<1>2. ASSUME NEW r \in Requests, NEW capability \in Capabilities,
             Refuse(r, capability.tool, capability.risk)
      PROVE  GatewayInv'
  BY <1>2, RefuseStep
<1>3. ASSUME NEW r \in Requests, NEW capability \in Capabilities,
             NEW real \in BOOLEAN, NEW rotate \in BOOLEAN,
             NEW effective \in {capability.risk} \cup Escalations,
             Start(r, capability.tool, capability.risk, effective, real, rotate)
      PROVE  GatewayInv'
  BY <1>3, StartStep
<1>4. ASSUME NEW r \in Requests, Execute(r)
      PROVE  GatewayInv'
  BY <1>4, ExecuteStep
<1>5. ASSUME NEW r \in Requests, ExecuteWithoutEngine(r)
      PROVE  GatewayInv'
  <2>1. r \in InFlight /\ Throw /\ UNCHANGED <<path, engine>>
        /\ request[r].real /\ ~engine
        /\ UNCHANGED <<registered, sessions, handed, now>>
    BY <1>5 DEF ExecuteWithoutEngine, InFlight, Awaiting
  <2>2. SM!IndInv' /\ CountsKept
    BY <1>1, <2>1, SessionsLeftAlone
  <2>. QED BY <2>1, <2>2, ThrowStep
<1>6. ASSUME NEW r \in Requests, FinishBlocked(r)
      PROVE  GatewayInv'
  BY <1>6, FinishBlockedStep
<1>7. ASSUME NEW r \in Requests, NEW result \in {"succeeded", "failed"}, Finish(r, result)
      PROVE  GatewayInv'
  BY <1>7, FinishStep
<1>8. ASSUME NEW r \in Requests, FinishAfterSessionEnd(r)
      PROVE  GatewayInv'
  <2>1. r \in InFlight /\ Throw /\ UNCHANGED <<path, engine>>
        /\ Sessions!RecordUseRefused(request[r].session)
    BY <1>8 DEF FinishAfterSessionEnd, InFlight, Awaiting
  <2>2. request[r].session \in DOMAIN sessions
    BY <1>1, <2>1, SessionList DEF GatewayInv, HandlersHoldSessions, InFlight, ListFacts
  <2>3. SM!IndInv' /\ CountsKept /\ sessions'[request[r].session].status # "active"
    BY <1>1, <2>1, <2>2, RefusedUseEffect
  <2>. QED BY <2>1, <2>3, ThrowStep
<1>9. CASE ListSessions
  BY <1>1, <1>9, SweepEffect, HandlersLeftAlone DEF ListSessions
<1>10. CASE Reload
  BY <1>10, ReloadStep
<1>11. CASE Restart
  BY <1>11, RestartStep
<1>12. CASE Tick
  <2>1. SM!IndInv' /\ CountsKept /\ UNCHANGED <<sessions, path, request, engine, up>>
    BY <1>1, <1>12, TickEffect DEF Tick, Sessions!Tick
  <2>. QED BY <2>1, HandlersLeftAlone
<1>. QED BY <1>2, <1>3, <1>4, <1>5, <1>6, <1>7, <1>8, <1>9, <1>10, <1>11, <1>12 DEF Next

\* A stuttering step keeps it.
LEMMA GatewayStutter ==
  ASSUME GatewayInv, UNCHANGED vars
  PROVE  GatewayInv'
<1>1. SM!IndInv
  BY DEF GatewayInv
<1>. QED BY <1>1, SessionsLeftAlone, HandlersLeftAlone DEF vars

\* The invariant holds when the server has just been started.
LEMMA GatewayInit == Init => GatewayInv
<1>. SUFFICES ASSUME Init PROVE GatewayInv
  OBVIOUS
<1>1. /\ registered = {Research} /\ sessions = << >> /\ handed = 0 /\ now = 0
      /\ path = << >> /\ up /\ engine = TRUE /\ up = TRUE
      /\ request = [r \in Requests |-> Idle]
  BY DEF Init
<1>2. sessions \in Seq(SM!Session) /\ Len(sessions) = 0 /\ DOMAIN sessions = {}
  BY <1>1
<1>3. SM!IndInv
  BY <1>1, <1>2 DEF SM!IndInv, SM!TypeOK, SM!OnlyNewestIsActive,
                    SM!UsesPrecedeDeadline, SM!HandedSessionIsUsable, SM!NoSession
<1>4. \A r \in Requests : request[r].phase = "idle" /\ request[r].session = NoSession
  BY <1>1 DEF Idle
<1>5. Busy = {} /\ InFlight = {}
  BY <1>4 DEF Busy, InFlight, Awaiting
<1>6. IsFiniteSet(Busy) /\ Cardinality(InFlight) = 0
  BY <1>5, FS_EmptySet
<1>7. Len(path) = 0 /\ DOMAIN path = {}
  BY <1>1
<1>8. TypeOK
  <2>1. Sessions!TypeOK
    BY <1>3, SessionList DEF ListFacts
  <2>2. path \in Seq([tool: Tools, risk: {"low", "medium", "high"}])
    BY <1>1
  <2>3. Idle \in Handler
    BY DEF Idle, Handler, Phase
  <2>4. engine \in BOOLEAN /\ up \in BOOLEAN
    BY <1>1
  <2>. QED BY <1>1, <2>1, <2>2, <2>3, <2>4 DEF TypeOK
<1>9. HandlersHoldSessions
  BY <1>2, <1>4 DEF HandlersHoldSessions, Awaiting
<1>10. InFlightIsBounded
  BY <1>5, <1>6, Ceilings DEF InFlightIsBounded
<1>11. UsesAreAccountedFor /\ SessionHasRoom
  BY <1>2 DEF UsesAreAccountedFor, SessionHasRoom
<1>12. PathHasRoom /\ HighRiskHasRoom
  BY <1>6, <1>7, Ceilings DEF PathHasRoom, HighRiskHasRoom
<1>13. DownOnlyAfterInterference
  BY <1>1 DEF DownOnlyAfterInterference
<1>. QED BY <1>3, <1>8, <1>9, <1>10, <1>11, <1>12, <1>13 DEF GatewayInv

-----------------------------------------------------------------------------
\* The inductive invariant holds throughout every behaviour of the gateway.
THEOREM GatewayInvariance == Spec => []GatewayInv
<1>1. Init => GatewayInv
  BY GatewayInit
<1>2. GatewayInv /\ [Next]_vars => GatewayInv'
  BY GatewayStep, GatewayStutter
<1>. QED BY <1>1, <1>2, PTL DEF Spec

\* Type correctness of the gateway for every value of the constants.
THEOREM GatewayTypeCorrect == Spec => []TypeOK
<1>1. GatewayInv => TypeOK
  BY DEF GatewayInv
<1>. QED BY <1>1, GatewayInvariance, PTL

\* No use is lost, counted twice or charged to another session, however the
\* handlers of execute and execute-mock interleave between their awaits.
THEOREM GatewayAccountsForUses == Spec => []UsesAreAccountedFor
<1>1. GatewayInv => UsesAreAccountedFor
  BY DEF GatewayInv
<1>. QED BY <1>1, GatewayInvariance, PTL

\* The ceilings of the session and of the path are exceeded by at most the other
\* requests that were in flight (checked before the await, counted after it).
THEOREM GatewayOvershootBounded == Spec => []OvershootIsBounded
<1>1. GatewayInv => OvershootIsBounded
  <2>. SUFFICES ASSUME GatewayInv PROVE OvershootIsBounded
    OBVIOUS
  <2>1. ListFacts /\ SetFacts /\ TypeOK
    BY SessionList, BusySubsets DEF GatewayInv, InFlightIsBounded
  <2>2. SessionOvershootIsBounded
    BY <2>1, Ceilings DEF GatewayInv, SessionHasRoom, SessionOvershootIsBounded,
                          ListFacts, SetFacts
  <2>3. PathOvershootIsBounded
    <3>1. Len(path) \in Nat
      BY <2>1 DEF TypeOK
    <3>. QED BY <2>1, <3>1, Ceilings DEF GatewayInv, PathHasRoom, SetFacts,
                                         PathOvershootIsBounded
  <2>. QED BY <2>2, <2>3 DEF OvershootIsBounded
<1>. QED BY <1>1, GatewayInvariance, PTL

\* A high-risk step ends the path where the policy blocks high-risk paths, also
\* one whose risk was raised after the graph had admitted it.
THEOREM GatewayHighRiskEndsPath == Spec => []HighRiskEndsPath
<1>1. GatewayInv => HighRiskEndsPath
  <2>. SUFFICES ASSUME GatewayInv, GraphPolicy.blockOnHighRiskPath,
                       NEW k \in DOMAIN path, path[k].risk = "high"
                PROVE  Len(path) - k <= MaxInFlight - 1
    BY DEF HighRiskEndsPath
  <2>1. SetFacts /\ TypeOK
    BY BusySubsets DEF GatewayInv, InFlightIsBounded
  <2>2. Len(path) \in Nat /\ k \in Nat
    BY <2>1 DEF TypeOK
  <2>. QED BY <2>1, <2>2, Ceilings DEF GatewayInv, HighRiskHasRoom, SetFacts
<1>. QED BY <1>1, GatewayInvariance, PTL

\* The process only ends because a session ended, or the real engine was removed,
\* while one of its requests was waiting.
THEOREM GatewayDownOnlyAfterInterference == Spec => []DownOnlyAfterInterference
<1>1. GatewayInv => DownOnlyAfterInterference
  BY DEF GatewayInv
<1>. QED BY <1>1, GatewayInvariance, PTL
=============================================================================
