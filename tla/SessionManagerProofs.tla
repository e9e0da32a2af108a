------------------------- MODULE SessionManagerProofs -------------------------
(***************************************************************************)
(* TLAPS proofs about SessionManager, for any set of compartments, any     *)
(* policies, lifetimes and ceilings, and any bounds.                       *)
(*                                                                         *)
(* Every call first "settles" the session list: it may move active         *)
(* sessions to a terminal state and touches nothing else.  Then it either  *)
(* stops, appends one fresh session to a compartment with no active one    *)
(* left, or counts one use of a session that is still active.              *)
(*                                                                         *)
(* The last section shows that the manager implements CompartmentIdentity. *)
(* Seen through the mapping, a call does one of two things.  It is Quiet:  *)
(* no session becomes active, and the compartments whose active session is *)
(* gone are retired.  Or it Mints: it appends an active session to one     *)
(* compartment, retires whatever was active there and leaves the others    *)
(* alone.                                                                  *)
(***************************************************************************)
EXTENDS SessionIdentity, TLAPS

USE DEF NoSession, NeverUsed

\* ss is the session list with some active sessions made terminal.
Settled(ss) ==
  /\ ss \in Seq(Session)
  /\ Len(ss) = Len(sessions)
  /\ \A i \in 1 .. Len(sessions) :
       /\ ss[i].compartment = sessions[i].compartment
       /\ ss[i].expiresAt = sessions[i].expiresAt
       /\ ss[i].requestCount = sessions[i].requestCount
       /\ ss[i].lastUsedAt = sessions[i].lastUsedAt
       /\ sessions[i].status # "active" => ss[i] = sessions[i]

IndInv ==
  /\ TypeOK
  /\ OnlyNewestIsActive
  /\ HandedSessionIsUsable
  /\ UsesPrecedeDeadline

\* What an action does to the list: the frozen part of TerminalSessionsAreFrozen.
Frozen ==
  \A i \in DOMAIN sessions :
    sessions[i].status # "active" =>
      i \in DOMAIN sessions' /\ sessions'[i] = sessions[i]

\* A call that counts no use: old counts stay, a new session starts at zero.
KeepsCounts ==
  /\ Len(sessions) <= Len(sessions')
  /\ \A i \in DOMAIN sessions' :
       sessions'[i].requestCount =
         IF i \in DOMAIN sessions THEN sessions[i].requestCount ELSE 0

\* A call that counts one use of the active session i, and no other.
CountsOneUse(i) ==
  /\ Len(sessions') = Len(sessions)
  /\ \A j \in DOMAIN sessions :
       sessions'[j].requestCount =
         IF j = i THEN sessions[j].requestCount + 1 ELSE sessions[j].requestCount

\* applyExpiry keeps the record, except that an active session past its
\* deadline becomes expired.
LEMMA ExpireFacts ==
  ASSUME NEW s \in Session, now \in Nat
  PROVE  /\ Expire(s) \in Session
         /\ Expire(s).compartment = s.compartment
         /\ Expire(s).expiresAt = s.expiresAt
         /\ Expire(s).requestCount = s.requestCount
         /\ Expire(s).lastUsedAt = s.lastUsedAt
         /\ s.status # "active" => Expire(s) = s
         /\ Expire(s).status = "active" => s = Expire(s) /\ now < s.expiresAt
<1>1. CASE s.status = "active" /\ now >= s.expiresAt
  BY <1>1 DEF Expire, Session, Status
<1>2. CASE ~(s.status = "active" /\ now >= s.expiresAt)
  BY <1>2 DEF Expire, Session, Status
<1>. QED BY <1>1, <1>2

\* expireCompartment settles the list, and what stays active in the compartment
\* is inside its TTL.
LEMMA ExpireCompartmentSettles ==
  ASSUME TypeOK, NEW c \in Compartments
  PROVE  /\ Settled(ExpireCompartment(c))
         /\ \A i \in ActiveOf(ExpireCompartment(c), c) :
              now < ExpireCompartment(c)[i].expiresAt
<1>. DEFINE ss == ExpireCompartment(c)
<1>1. \A i \in 1 .. Len(sessions) : sessions[i] \in Session
  BY DEF TypeOK
<1>2. /\ DOMAIN ss = 1 .. Len(sessions)
      /\ \A i \in 1 .. Len(sessions) :
           ss[i] = IF sessions[i].compartment = c
                     THEN Expire(sessions[i]) ELSE sessions[i]
  BY DEF ExpireCompartment, TypeOK
<1>3. \A i \in 1 .. Len(sessions) : ss[i] \in Session
  BY <1>1, <1>2, ExpireFacts DEF TypeOK
<1>4. ss \in Seq(Session) /\ Len(ss) = Len(sessions)
  <2>1. ss = [i \in 1 .. Len(sessions) |-> ss[i]]
    BY <1>2 DEF ExpireCompartment, TypeOK
  <2>2. Len(sessions) \in Nat
    BY DEF TypeOK
  <2>. HIDE DEF ss
  <2>. QED BY <1>3, <2>1, <2>2
<1>5. Settled(ss)
  BY <1>1, <1>2, <1>4, ExpireFacts DEF Settled, TypeOK
<1>6. \A i \in ActiveOf(ss, c) : now < ss[i].expiresAt
  BY <1>1, <1>2, ExpireFacts DEF ActiveOf, TypeOK
<1>. QED BY <1>5, <1>6

\* expireOldSessions settles the list.
LEMMA ExpireAllSettles ==
  ASSUME TypeOK
  PROVE  Settled(ExpireAll)
<1>. DEFINE ss == ExpireAll
<1>1. \A i \in 1 .. Len(sessions) : sessions[i] \in Session
  BY DEF TypeOK
<1>2. /\ DOMAIN ss = 1 .. Len(sessions)
      /\ \A i \in 1 .. Len(sessions) : ss[i] = Expire(sessions[i])
  BY DEF ExpireAll, TypeOK
<1>3. \A i \in 1 .. Len(sessions) : ss[i] \in Session
  BY <1>1, <1>2, ExpireFacts DEF TypeOK
<1>4. ss \in Seq(Session) /\ Len(ss) = Len(sessions)
  <2>1. ss = [i \in 1 .. Len(sessions) |-> ss[i]]
    BY <1>2 DEF ExpireAll, TypeOK
  <2>2. Len(sessions) \in Nat
    BY DEF TypeOK
  <2>. HIDE DEF ss
  <2>. QED BY <1>3, <2>1, <2>2
<1>. QED BY <1>1, <1>2, <1>4, ExpireFacts DEF Settled, TypeOK

\* markActiveAsRotated leaves a settled list with nothing active in c.
LEMMA RotationSettles ==
  ASSUME TypeOK, NEW c \in Compartments, NEW ss, Settled(ss)
  PROVE  /\ Settled(MarkActiveAsRotated(ss, c))
         /\ ActiveOf(MarkActiveAsRotated(ss, c), c) = {}
<1>. DEFINE rr == MarkActiveAsRotated(ss, c)
<1>1. /\ DOMAIN ss = 1 .. Len(sessions)
      /\ \A i \in 1 .. Len(sessions) : ss[i] \in Session
  BY DEF Settled
<1>2. /\ DOMAIN rr = 1 .. Len(sessions)
      /\ \A i \in 1 .. Len(sessions) :
           rr[i] = IF ss[i].compartment = c /\ ss[i].status = "active"
                     THEN [ss[i] EXCEPT !.status = "rotated"] ELSE ss[i]
  BY <1>1 DEF MarkActiveAsRotated
<1>3. \A i \in 1 .. Len(sessions) : rr[i] \in Session
  BY <1>1, <1>2 DEF Session, Status
<1>4. rr \in Seq(Session) /\ Len(rr) = Len(sessions)
  <2>1. rr = [i \in 1 .. Len(sessions) |-> rr[i]]
    BY <1>1, <1>2 DEF MarkActiveAsRotated
  <2>2. Len(sessions) \in Nat
    BY DEF TypeOK
  <2>. HIDE DEF rr
  <2>. QED BY <1>3, <2>1, <2>2
<1>5. Settled(rr)
  BY <1>1, <1>2, <1>4 DEF Settled, Session, Status
<1>6. ActiveOf(rr, c) = {}
  BY <1>1, <1>2 DEF ActiveOf, Session, Status
<1>. QED BY <1>5, <1>6

\* Replacing one entry of a settled list by a terminal copy settles it too.
LEMMA RetireOneSettles ==
  ASSUME TypeOK, NEW ss, Settled(ss), NEW i \in 1 .. Len(sessions),
         NEW st \in Status \ {"active"}, ss[i].status = "active"
  PROVE  Settled([ss EXCEPT ![i].status = st])
<1>. DEFINE rr == [ss EXCEPT ![i].status = st]
<1>1. /\ DOMAIN ss = 1 .. Len(sessions)
      /\ \A j \in 1 .. Len(sessions) : ss[j] \in Session
  BY DEF Settled
<1>2. \A j \in 1 .. Len(sessions) :
        rr[j] = IF j = i THEN [ss[j] EXCEPT !.status = st] ELSE ss[j]
  BY <1>1
<1>3. [ss[i] EXCEPT !.status = st] \in Session
  BY <1>1 DEF Session
<1>4. rr \in Seq(Session) /\ Len(rr) = Len(sessions)
  BY <1>1, <1>3 DEF Settled
<1>5. ASSUME NEW j \in 1 .. Len(sessions)
      PROVE  /\ rr[j].compartment = ss[j].compartment /\ rr[j].expiresAt = ss[j].expiresAt
             /\ rr[j].requestCount = ss[j].requestCount /\ rr[j].lastUsedAt = ss[j].lastUsedAt
  <2>1. ss[j] \in Session
    BY <1>1
  <2>. HIDE DEF rr
  <2>. QED BY ONLY <1>2, <2>1, j \in 1 .. Len(sessions) DEF Session
<1>6. \A j \in 1 .. Len(sessions) : sessions[j].status # "active" => rr[j] = sessions[j]
  <2>. HIDE DEF rr
  <2>. QED BY <1>2 DEF Settled
<1>. HIDE DEF rr
<1>7. Settled(rr)
  BY <1>4, <1>5, <1>6 DEF Settled
<1>. QED BY <1>7 DEF rr

-----------------------------------------------------------------------------
\* A call that only settles the list (expiry, listing, revocation, reuse of the
\* active session) keeps the invariant and freezes terminal sessions.
LEMMA SettleStep ==
  ASSUME IndInv, NEW ss, Settled(ss), sessions' = ss
  PROVE  /\ sessions' \in Seq(Session)
         /\ Len(sessions') = Len(sessions)
         /\ OnlyNewestIsActive'
         /\ UsesPrecedeDeadline'
         /\ Frozen
         /\ KeepsCounts
<1>1. /\ DOMAIN ss = 1 .. Len(sessions)
      /\ DOMAIN sessions = 1 .. Len(sessions)
      /\ Len(sessions) \in Nat
  BY DEF Settled, IndInv, TypeOK
<1>2. OnlyNewestIsActive'
  BY <1>1 DEF Settled, IndInv, OnlyNewestIsActive
<1>3. UsesPrecedeDeadline'
  BY <1>1 DEF Settled, IndInv, UsesPrecedeDeadline
<1>4. KeepsCounts
  BY <1>1 DEF Settled, KeepsCounts
<1>. QED BY <1>1, <1>2, <1>3, <1>4 DEF Settled, Frozen

\* Appending a fresh session to a compartment with nothing active left keeps
\* the invariant, and the fresh session is usable.
LEMMA CreateStep ==
  ASSUME IndInv, NEW c \in Compartments, NEW ss, Settled(ss),
         ActiveOf(ss, c) = {}, CreateSession(ss, c),
         registered' = registered, now' = now
  PROVE  IndInv' /\ Frozen /\ KeepsCounts /\ handed' # NoSession
<1>. DEFINE new == [compartment |-> c, status |-> "active",
                    expiresAt |-> now + Ttl[c], requestCount |-> 0,
                    lastUsedAt |-> NeverUsed]
            n == Len(sessions)
<1>1. /\ DOMAIN ss = 1 .. n
      /\ DOMAIN sessions = 1 .. n
      /\ n \in Nat /\ now \in Nat
      /\ \A i \in 1 .. n : ss[i] \in Session
  BY DEF Settled, IndInv, TypeOK
<1>2. Ttl[c] \in Nat \ {0} /\ MaxRequests[c] \in Nat \ {0}
  BY SessionAssumption
<1>3. new \in Session
  BY <1>1, <1>2 DEF Session, Status
<1>4. sessions' = Append(ss, new) /\ handed' = n + 1
  BY DEF CreateSession, Settled
<1>. HIDE DEF new
<1>5. /\ sessions' \in Seq(Session)
      /\ Len(sessions') = n + 1
      /\ DOMAIN sessions' = 1 .. n + 1
      /\ sessions'[n + 1] = new
      /\ \A i \in 1 .. n : sessions'[i] = ss[i]
  BY <1>1, <1>3, <1>4 DEF Settled
<1>6. TypeOK'
  BY <1>1, <1>4, <1>5 DEF IndInv, TypeOK
<1>7. OnlyNewestIsActive'
  <2>. SUFFICES ASSUME NEW i \in DOMAIN sessions', NEW j \in DOMAIN sessions',
                       i < j, sessions'[i].compartment = sessions'[j].compartment
                PROVE  sessions'[i].status # "active"
    BY DEF OnlyNewestIsActive
  <2>1. i \in 1 .. n /\ sessions'[i] = ss[i]
    BY <1>1, <1>5
  <2>2. CASE j \in 1 .. n
    BY <1>1, <1>5, <2>1, <2>2 DEF IndInv, OnlyNewestIsActive, Settled
  <2>3. CASE j = n + 1
    <3>1. ss[i].compartment = c
      BY <1>5, <2>1, <2>3 DEF new
    <3>. QED BY <1>1, <2>1, <3>1 DEF ActiveOf
  <2>. QED BY <1>1, <1>5, <2>2, <2>3
<1>8. UsesPrecedeDeadline'
  <2>1. new.lastUsedAt < new.expiresAt
    BY <1>1, <1>2 DEF new
  <2>. QED BY <1>1, <1>5, <2>1 DEF IndInv, UsesPrecedeDeadline, Settled
<1>9. HandedSessionIsUsable'
  BY <1>1, <1>2, <1>4, <1>5 DEF HandedSessionIsUsable, new
<1>10. Frozen
  BY <1>1, <1>5 DEF Frozen, Settled
<1>11. KeepsCounts
  BY <1>1, <1>5 DEF KeepsCounts, Settled, new
<1>12. handed' # NoSession
  BY <1>1, <1>4
<1>. QED BY <1>6, <1>7, <1>8, <1>9, <1>10, <1>11, <1>12 DEF IndInv

\* recordUse counts one use of an active session inside its TTL.
LEMMA RecordUseStep ==
  ASSUME IndInv, NEW i \in DOMAIN sessions, RecordUse(i)
  PROVE  IndInv' /\ Frozen /\ CountsOneUse(i)
<1>. DEFINE s == Expire(sessions[i])
            counted == [s EXCEPT !.requestCount = @ + 1]
            used == [counted EXCEPT !.lastUsedAt = now]
<1>1. /\ DOMAIN sessions = 1 .. Len(sessions)
      /\ Len(sessions) \in Nat /\ now \in Nat
      /\ sessions[i] \in Session
  BY DEF IndInv, TypeOK
<1>2. /\ s = sessions[i] /\ s.status = "active" /\ now < s.expiresAt
  BY <1>1, ExpireFacts DEF RecordUse
<1>3. /\ used \in Session
      /\ used.status = "active"
      /\ used.compartment = sessions[i].compartment
      /\ used.lastUsedAt < used.expiresAt
      /\ used.requestCount = sessions[i].requestCount + 1
  <2>. HIDE DEF s
  <2>1. s \in Session
    BY <1>1, <1>2
  <2>2. /\ counted \in Session
        /\ counted.status = s.status
        /\ counted.compartment = s.compartment
        /\ counted.expiresAt = s.expiresAt
        /\ counted.requestCount = s.requestCount + 1
    BY <2>1 DEF Session
  <2>. HIDE DEF counted
  <2>. QED BY <1>1, <1>2, <2>1, <2>2 DEF Session
<1>4. sessions' = [sessions EXCEPT ![i] = used] /\ handed' = NoSession
  BY Zenon DEF RecordUse
<1>. HIDE DEF used
<1>5. /\ sessions' \in Seq(Session) /\ Len(sessions') = Len(sessions)
      /\ DOMAIN sessions' = DOMAIN sessions
      /\ \A j \in DOMAIN sessions :
           sessions'[j] = IF j = i THEN used ELSE sessions[j]
  BY <1>1, <1>3, <1>4 DEF IndInv, TypeOK
<1>6. TypeOK'
  BY <1>1, <1>4, <1>5 DEF RecordUse, IndInv, TypeOK
<1>7. OnlyNewestIsActive'
  BY <1>1, <1>2, <1>3, <1>5 DEF IndInv, OnlyNewestIsActive
<1>8. UsesPrecedeDeadline'
  BY <1>3, <1>5 DEF IndInv, UsesPrecedeDeadline
<1>9. HandedSessionIsUsable'
  BY <1>4 DEF HandedSessionIsUsable
<1>10. Frozen
  BY <1>2, <1>5 DEF Frozen
<1>11. CountsOneUse(i)
  BY <1>3, <1>5 DEF CountsOneUse
<1>. QED BY <1>6, <1>7, <1>8, <1>9, <1>10, <1>11 DEF IndInv

\* getOrCreateSession, in each of the four ways it can end.
LEMMA GetOrCreateStep ==
  ASSUME IndInv, NEW c \in Compartments, GetOrCreateSession(c)
  PROVE  IndInv' /\ Frozen /\ KeepsCounts /\ handed' # NoSession
<1>. DEFINE ss == ExpireCompartment(c)
<1>1. TypeOK /\ registered' = registered /\ now' = now
  BY DEF IndInv, GetOrCreateSession
<1>2. Settled(ss) /\ \A i \in ActiveOf(ss, c) : now < ss[i].expiresAt
  BY <1>1, ExpireCompartmentSettles
<1>3. /\ DOMAIN ss = 1 .. Len(sessions) /\ Len(sessions) \in Nat
      /\ \A i \in DOMAIN ss : ss[i] \in Session
  BY <1>1, <1>2 DEF Settled, TypeOK
<1>4. \A i, j \in ActiveOf(ss, c) : i = j
  BY <1>1, <1>2, <1>3 DEF ActiveOf, Settled, IndInv, OnlyNewestIsActive, TypeOK
<1>5. ActiveOf(ss, c) # {} =>
        FindActive(ss, c) \in ActiveOf(ss, c)
        /\ ActiveOf(ss, c) = {FindActive(ss, c)}
  <2>. SUFFICES ASSUME NEW k \in ActiveOf(ss, c)
                PROVE  FindActive(ss, c) \in ActiveOf(ss, c)
                       /\ ActiveOf(ss, c) = {FindActive(ss, c)}
    OBVIOUS
  <2>1. \A j \in ActiveOf(ss, c) : k <= j
    BY <1>3, <1>4 DEF ActiveOf
  <2>. QED BY <1>4, <2>1 DEF FindActive
<1>6. CASE AlwaysRotate(c)
  BY <1>1, <1>2, <1>6, RotationSettles, CreateStep DEF AlwaysRotate
<1>7. CASE ReuseActive(c)
  <2>1. /\ sessions' = ss /\ handed' = FindActive(ss, c)
        /\ handed' \in ActiveOf(ss, c)
        /\ ss[handed'].requestCount < MaxRequests[c]
    BY <1>5, <1>7 DEF ReuseActive
  <2>2. /\ sessions' \in Seq(Session) /\ Len(sessions') = Len(sessions)
        /\ OnlyNewestIsActive' /\ UsesPrecedeDeadline' /\ Frozen
        /\ KeepsCounts
    BY <1>2, <2>1, SettleStep
  <2>3. TypeOK'
    BY <1>1, <1>3, <2>1, <2>2 DEF TypeOK, ActiveOf
  <2>4. HandedSessionIsUsable'
    BY <1>1, <1>2, <2>1 DEF HandedSessionIsUsable, ActiveOf
  <2>5. handed' # NoSession
    BY <1>3, <2>1 DEF ActiveOf
  <2>. QED BY <2>2, <2>3, <2>4, <2>5 DEF IndInv
<1>8. CASE RotateAtCeiling(c)
  <2>. DEFINE k == FindActive(ss, c)
              rr == [ss EXCEPT ![k].status = "rotated"]
  <2>1. /\ k \in ActiveOf(ss, c) /\ ActiveOf(ss, c) = {k}
        /\ CreateSession(rr, c)
    BY <1>5, <1>8 DEF RotateAtCeiling
  <2>2. k \in 1 .. Len(sessions) /\ ss[k].status = "active"
    BY <1>3, <2>1 DEF ActiveOf
  <2>3. Settled(rr)
    BY <1>1, <1>2, <2>2, RetireOneSettles DEF Status
  <2>4. ActiveOf(rr, c) = {}
    <3>1. \A i \in DOMAIN ss :
            rr[i] = IF i = k THEN [ss[i] EXCEPT !.status = "rotated"] ELSE ss[i]
      OBVIOUS
    <3>2. DOMAIN rr = DOMAIN ss
      OBVIOUS
    <3>3. rr[k].status = "rotated"
      BY <1>3, <2>2, <3>1 DEF Session
    <3>. HIDE DEF rr
    <3>. QED BY <2>1, <3>1, <3>2, <3>3 DEF ActiveOf
  <2>. HIDE DEF rr
  <2>. QED BY <1>1, <2>1, <2>3, <2>4, CreateStep
<1>9. CASE CreateFirst(c)
  BY <1>1, <1>2, <1>9, CreateStep DEF CreateFirst
<1>. QED BY <1>6, <1>7, <1>8, <1>9 DEF GetOrCreateSession

\* rotateSession retires what is active and mints.
LEMMA RotateStep ==
  ASSUME IndInv, NEW c \in Compartments, RotateSession(c)
  PROVE  IndInv' /\ Frozen /\ KeepsCounts /\ handed' # NoSession
<1>1. TypeOK /\ registered' = registered /\ now' = now
  BY DEF IndInv, RotateSession
<1>2. Settled(ExpireCompartment(c))
  BY <1>1, ExpireCompartmentSettles
<1>. QED BY <1>1, <1>2, RotationSettles, CreateStep DEF RotateSession

\* revokeSession retires at most the session it names.
LEMMA RevokeStep ==
  ASSUME IndInv, NEW i \in DOMAIN sessions, RevokeSession(i)
  PROVE  IndInv' /\ Frozen
<1>. DEFINE s == Expire(sessions[i])
            gone == IF s.status = "active" THEN [s EXCEPT !.status = "revoked"] ELSE s
<1>1. /\ DOMAIN sessions = 1 .. Len(sessions) /\ Len(sessions) \in Nat
      /\ now \in Nat /\ \A j \in DOMAIN sessions : sessions[j] \in Session
  BY DEF IndInv, TypeOK
<1>2. /\ s \in Session
      /\ s.compartment = sessions[i].compartment
      /\ s.expiresAt = sessions[i].expiresAt
      /\ s.requestCount = sessions[i].requestCount
      /\ s.lastUsedAt = sessions[i].lastUsedAt
      /\ sessions[i].status # "active" => s = sessions[i]
  BY <1>1, ExpireFacts
<1>3. /\ sessions' = [sessions EXCEPT ![i] = gone]
      /\ handed' = NoSession /\ registered' = registered /\ now' = now
  BY DEF RevokeSession
<1>. HIDE DEF s
<1>4. /\ gone \in Session
      /\ gone.compartment = sessions[i].compartment
      /\ gone.expiresAt = sessions[i].expiresAt
      /\ gone.requestCount = sessions[i].requestCount
      /\ gone.lastUsedAt = sessions[i].lastUsedAt
      /\ sessions[i].status # "active" => gone = sessions[i]
  BY <1>2 DEF Session, Status
<1>. HIDE DEF gone
<1>5. Settled(sessions')
  BY <1>1, <1>3, <1>4 DEF Settled, IndInv, TypeOK
<1>6. /\ sessions' \in Seq(Session) /\ Len(sessions') = Len(sessions)
      /\ OnlyNewestIsActive' /\ UsesPrecedeDeadline' /\ Frozen
  BY <1>5, SettleStep
<1>. QED BY <1>1, <1>3, <1>6 DEF IndInv, TypeOK, HandedSessionIsUsable

\* A refused recordUse only applies expiry.
LEMMA RefusedStep ==
  ASSUME IndInv, NEW i \in DOMAIN sessions, RecordUseRefused(i)
  PROVE  IndInv' /\ Frozen /\ KeepsCounts /\ sessions'[i].status # "active"
<1>. DEFINE s == Expire(sessions[i])
<1>1. /\ DOMAIN sessions = 1 .. Len(sessions) /\ Len(sessions) \in Nat
      /\ now \in Nat /\ \A j \in DOMAIN sessions : sessions[j] \in Session
  BY DEF IndInv, TypeOK
<1>2. /\ s \in Session
      /\ s.compartment = sessions[i].compartment
      /\ s.expiresAt = sessions[i].expiresAt
      /\ s.requestCount = sessions[i].requestCount
      /\ s.lastUsedAt = sessions[i].lastUsedAt
      /\ sessions[i].status # "active" => s = sessions[i]
  BY <1>1, ExpireFacts
<1>3. /\ sessions' = [sessions EXCEPT ![i] = s]
      /\ handed' = NoSession /\ registered' = registered /\ now' = now
  BY DEF RecordUseRefused
<1>. HIDE DEF s
<1>4. Settled(sessions')
  BY <1>1, <1>2, <1>3 DEF Settled, IndInv, TypeOK
<1>5. /\ sessions' \in Seq(Session) /\ Len(sessions') = Len(sessions)
      /\ OnlyNewestIsActive' /\ UsesPrecedeDeadline' /\ Frozen /\ KeepsCounts
  BY <1>4, SettleStep
<1>6. sessions'[i].status # "active"
  BY <1>1, <1>3 DEF RecordUseRefused, s
<1>. QED BY <1>1, <1>3, <1>5, <1>6 DEF IndInv, TypeOK, HandedSessionIsUsable

\* expireOldSessions only applies expiry.
LEMMA SweepStep ==
  ASSUME IndInv, ExpireOldSessions
  PROVE  IndInv' /\ Frozen /\ KeepsCounts
<1>1. Settled(sessions')
  BY ExpireAllSettles DEF ExpireOldSessions, IndInv
<1>2. /\ sessions' \in Seq(Session) /\ Len(sessions') = Len(sessions)
      /\ OnlyNewestIsActive' /\ UsesPrecedeDeadline' /\ Frozen /\ KeepsCounts
  BY <1>1, SettleStep
<1>. QED BY <1>2 DEF ExpireOldSessions, IndInv, TypeOK, HandedSessionIsUsable

\* Registration and the passing of time leave the sessions alone.
LEMMA OtherStep ==
  ASSUME IndInv, UNCHANGED sessions, registered' \subseteq Compartments,
         now' \in Nat, handed' = NoSession
  PROVE  IndInv' /\ Frozen
BY DEF IndInv, TypeOK, OnlyNewestIsActive, UsesPrecedeDeadline,
       HandedSessionIsUsable, Frozen

\* Every step keeps the invariant and freezes terminal sessions.
LEMMA NextStep ==
  ASSUME IndInv, Next
  PROVE  IndInv' /\ Frozen
<1>1. CASE \E c \in Compartments : RegisterCompartment(c)
  <2>1. PICK c \in Compartments : RegisterCompartment(c)
    BY <1>1
  <2>. QED BY <2>1, OtherStep DEF RegisterCompartment, IndInv, TypeOK
<1>2. CASE \E c \in Compartments : GetOrCreateSession(c)
  BY <1>2, GetOrCreateStep
<1>3. CASE \E c \in Compartments : RotateSession(c)
  BY <1>3, RotateStep
<1>4. CASE \E c \in Compartments : ListSessions(c)
  <2>1. PICK c \in Compartments : ListSessions(c)
    BY <1>4
  <2>2. Settled(sessions')
    BY <2>1, ExpireCompartmentSettles DEF ListSessions, IndInv
  <2>3. /\ sessions' \in Seq(Session) /\ Len(sessions') = Len(sessions)
        /\ OnlyNewestIsActive' /\ UsesPrecedeDeadline' /\ Frozen
    BY <2>2, SettleStep
  <2>. QED BY <2>1, <2>3 DEF ListSessions, IndInv, TypeOK, HandedSessionIsUsable
<1>5. CASE \E i \in DOMAIN sessions : RevokeSession(i)
  BY <1>5, RevokeStep
<1>6. CASE \E i \in DOMAIN sessions : RecordUse(i)
  BY <1>6, RecordUseStep
<1>7. CASE \E i \in DOMAIN sessions : RecordUseRefused(i)
  BY <1>7, RefusedStep
<1>8. CASE ExpireOldSessions
  BY <1>8, SweepStep
<1>9. CASE Tick
  BY <1>9, OtherStep DEF Tick, IndInv, TypeOK
<1>. QED BY <1>1, <1>2, <1>3, <1>4, <1>5, <1>6, <1>7, <1>8, <1>9 DEF Next

\* A stuttering step changes nothing.
LEMMA StutterStep ==
  ASSUME IndInv, UNCHANGED vars
  PROVE  IndInv' /\ Frozen
BY DEF vars, IndInv, TypeOK, OnlyNewestIsActive, UsesPrecedeDeadline,
       HandedSessionIsUsable, Frozen

\* The inductive invariant holds initially.
LEMMA InitStep == Init => IndInv
<1>. SUFFICES ASSUME Init PROVE IndInv
  OBVIOUS
<1>1. sessions = << >> /\ registered = {} /\ handed = 0 /\ now = 0
  BY DEF Init
<1>2. sessions \in Seq(Session) /\ Len(sessions) = 0 /\ DOMAIN sessions = {}
  BY <1>1
<1>. QED BY <1>1, <1>2 DEF IndInv, TypeOK, OnlyNewestIsActive,
                           UsesPrecedeDeadline, HandedSessionIsUsable

\* The inductive invariant holds throughout every behaviour.
THEOREM Invariance == Spec => []IndInv
<1>1. Init => IndInv
  BY InitStep
<1>2. IndInv /\ [Next]_vars => IndInv'
  BY NextStep, StutterStep
<1>. QED BY <1>1, <1>2, PTL DEF Spec

\* Type correctness of the session manager for every value of the constants.
THEOREM TypeCorrect == Spec => []TypeOK
<1>1. IndInv => TypeOK
  BY DEF IndInv
<1>. QED BY <1>1, Invariance, PTL

\* Rotation, expiry and creation never leave an older session of a compartment
\* active beside a newer one (manager.ts getOrCreateSession, rotateSession).
THEOREM NewestOnly == Spec => []OnlyNewestIsActive
<1>1. IndInv => OnlyNewestIsActive
  BY DEF IndInv
<1>. QED BY <1>1, Invariance, PTL

\* "The (single) active session of a compartment" (manager.ts findActive) is
\* well defined: there is never a second one.
THEOREM SingleActive == Spec => []SingleActiveSession
<1>1. IndInv => SingleActiveSession
  <2>. SUFFICES ASSUME IndInv, NEW c \in Compartments,
                       NEW i \in ActiveOf(sessions, c), NEW j \in ActiveOf(sessions, c)
                PROVE  i = j
    BY DEF SingleActiveSession
  <2>1. i \in Nat /\ j \in Nat /\ i \in DOMAIN sessions /\ j \in DOMAIN sessions
    BY DEF ActiveOf, IndInv, TypeOK
  <2>. QED BY <2>1 DEF ActiveOf, IndInv, OnlyNewestIsActive
<1>. QED BY <1>1, Invariance, PTL

\* What getOrCreateSession and rotateSession hand out is active, inside its TTL
\* and below the request ceiling.
THEOREM HandedUsable == Spec => []HandedSessionIsUsable
<1>1. IndInv => HandedSessionIsUsable
  BY DEF IndInv
<1>. QED BY <1>1, Invariance, PTL

\* recordUse never counts a use at or after a session's deadline.
THEOREM UsesInTime == Spec => []UsesPrecedeDeadline
<1>1. IndInv => UsesPrecedeDeadline
  BY DEF IndInv
<1>. QED BY <1>1, Invariance, PTL

\* Terminal sessions never change again: rotated, expired and revoked are final.
THEOREM TerminalFinal == Spec => TerminalSessionsAreFrozen
<1>1. IndInv /\ [Next]_vars => [Frozen]_vars
  BY NextStep, StutterStep
<1>2. [Frozen]_vars =>
        [\A i \in DOMAIN sessions :
           sessions[i].status # "active" =>
             i \in DOMAIN sessions' /\ sessions'[i] = sessions[i]]_vars
  BY DEF Frozen
<1>. QED BY <1>1, <1>2, Invariance, PTL DEF Spec, TerminalSessionsAreFrozen

-----------------------------------------------------------------------------
\* No session is added, moved to another compartment or made active.
Quiet ==
  /\ DOMAIN sessions' = DOMAIN sessions
  /\ \A i \in DOMAIN sessions :
       /\ sessions'[i].compartment = sessions[i].compartment
       /\ sessions'[i].status = "active" => sessions[i].status = "active"

\* One new active session, the only one of c; the other compartments' are kept.
Mints(c) ==
  LET n == Len(sessions) IN
  /\ n < MaxSessions
  /\ DOMAIN sessions' = 1 .. n + 1
  /\ sessions'[n + 1].compartment = c
  /\ sessions'[n + 1].status = "active"
  /\ \A i \in 1 .. n :
       /\ sessions'[i].compartment = sessions[i].compartment
       /\ sessions[i].compartment = c => sessions'[i].status # "active"
       /\ sessions[i].compartment # c => sessions'[i] = sessions[i]

\* A session list in which no compartment has two active sessions.
Unambiguous(ss) ==
  /\ DOMAIN ss \subseteq Nat \ {0}
  /\ \A c \in Compartments : \A i, j \in ActiveOf(ss, c) : i = j

-----------------------------------------------------------------------------
\* The active session of a compartment is i exactly when i is active in it.
LEMMA ActiveSessionFacts ==
  ASSUME NEW ss, Unambiguous(ss), NEW c \in Compartments
  PROVE  /\ \A i \in ActiveOf(ss, c) : ActiveSession(ss, c) = i
         /\ ActiveOf(ss, c) = {} => ActiveSession(ss, c) = NoSession
         /\ ActiveSession(ss, c) # NoSession =>
              ActiveSession(ss, c) \in ActiveOf(ss, c)
<1>1. CASE ActiveOf(ss, c) = {}
  BY <1>1 DEF ActiveSession
<1>2. CASE ActiveOf(ss, c) # {}
  <2>1. PICK i \in ActiveOf(ss, c) : \A j \in ActiveOf(ss, c) : i = j
    BY <1>2 DEF Unambiguous
  <2>2. i \in Nat \ {0}
    BY DEF ActiveOf, Unambiguous
  <2>3. \A j \in ActiveOf(ss, c) : i <= j
    BY <2>1, <2>2
  <2>4. FindActive(ss, c) \in ActiveOf(ss, c)
    BY <2>3 DEF FindActive
  <2>. QED BY <1>2, <2>1, <2>4 DEF ActiveSession
<1>. QED BY <1>1, <1>2

\* The session manager's invariant makes its list unambiguous.
LEMMA InvariantIsUnambiguous ==
  ASSUME IndInv
  PROVE  /\ Unambiguous(sessions)
         /\ \A i \in DOMAIN sessions : sessions[i].compartment \in Compartments
<1>1. /\ DOMAIN sessions = 1 .. Len(sessions) /\ Len(sessions) \in Nat
      /\ \A i \in DOMAIN sessions : sessions[i] \in Session
  BY DEF IndInv, TypeOK
<1>2. \A i, j \in DOMAIN sessions :
        i < j /\ sessions[i].compartment = sessions[j].compartment
          => sessions[i].status # "active"
  BY DEF IndInv, OnlyNewestIsActive
<1>. QED BY <1>1, <1>2 DEF Unambiguous, ActiveOf, Session

\* The same invariant after a step.
LEMMA InvariantIsUnambiguousNext ==
  ASSUME IndInv'
  PROVE  /\ Unambiguous(sessions')
         /\ \A i \in DOMAIN sessions' : sessions'[i].compartment \in Compartments
<1>1. /\ DOMAIN sessions' = 1 .. Len(sessions') /\ Len(sessions') \in Nat
      /\ \A i \in DOMAIN sessions' : sessions'[i] \in Session
  BY DEF IndInv, TypeOK
<1>2. \A i, j \in DOMAIN sessions' :
        i < j /\ sessions'[i].compartment = sessions'[j].compartment
          => sessions'[i].status # "active"
  BY DEF IndInv, OnlyNewestIsActive
<1>. QED BY <1>1, <1>2 DEF Unambiguous, ActiveOf, Session

-----------------------------------------------------------------------------
\* A quiet call retires the compartments that lose their active session.
LEMMA QuietRetires ==
  ASSUME IndInv, IndInv', Quiet
  PROVE  \E D \in SUBSET Compartments : Identity!Retire(D)
<1>. DEFINE D == {c \in Compartments :
                    ActiveOf(sessions, c) # {} /\ ActiveOf(sessions', c) = {}}
<1>1. /\ Unambiguous(sessions) /\ Unambiguous(sessions')
      /\ \A i \in DOMAIN sessions : sessions[i].compartment \in Compartments
  BY InvariantIsUnambiguous, InvariantIsUnambiguousNext
<1>2. \A c \in Compartments : ActiveOf(sessions', c) \subseteq ActiveOf(sessions, c)
  BY DEF Quiet, ActiveOf
<1>3. CurrentIdentity' =
        [c \in Compartments |-> IF c \in D THEN NoSession ELSE CurrentIdentity[c]]
  <2>. SUFFICES ASSUME NEW c \in Compartments
                PROVE  ActiveSession(sessions', c) =
                         IF c \in D THEN NoSession ELSE ActiveSession(sessions, c)
    BY DEF CurrentIdentity
  <2>1. CASE ActiveOf(sessions', c) = {}
    BY <1>1, <2>1, ActiveSessionFacts
  <2>2. CASE ActiveOf(sessions', c) # {}
    BY <1>1, <1>2, <2>2, ActiveSessionFacts
  <2>. QED BY <2>1, <2>2
<1>4. RetiredIdentities' =
        RetiredIdentities \cup ({CurrentIdentity[c] : c \in D} \ {NoSession})
  <2>1. ASSUME NEW i \in RetiredIdentities', i \notin RetiredIdentities
        PROVE  i \in {CurrentIdentity[c] : c \in D} \ {NoSession}
    <3>. DEFINE c == sessions[i].compartment
    <3>1. i \in DOMAIN sessions /\ sessions[i].status = "active"
          /\ sessions'[i].status # "active"
      BY <2>1 DEF RetiredIdentities, Quiet
    <3>2. c \in Compartments /\ i \in ActiveOf(sessions, c)
          /\ i \notin ActiveOf(sessions', c)
      BY <1>1, <3>1 DEF ActiveOf
    <3>3. ActiveOf(sessions', c) = {}
      BY <1>1, <1>2, <3>2 DEF Unambiguous
    <3>4. ActiveSession(sessions, c) = i /\ i # NoSession
      <4>1. ActiveSession(sessions, c) = i
        BY <1>1, <3>2, ActiveSessionFacts
      <4>2. i \in Nat \ {0}
        BY <1>1, <3>1 DEF Unambiguous
      <4>. QED BY <4>1, <4>2
    <3>. QED BY <3>2, <3>3, <3>4 DEF CurrentIdentity
  <2>2. RetiredIdentities \subseteq RetiredIdentities'
    BY DEF RetiredIdentities, Quiet
  <2>3. ASSUME NEW c \in D, CurrentIdentity[c] # NoSession
        PROVE  CurrentIdentity[c] \in RetiredIdentities'
    <3>. DEFINE i == ActiveSession(sessions, c)
    <3>1. i \in ActiveOf(sessions, c) /\ CurrentIdentity[c] = i
      BY <1>1, <2>3, ActiveSessionFacts DEF CurrentIdentity
    <3>2. i \notin ActiveOf(sessions', c)
      OBVIOUS
    <3>. HIDE DEF i
    <3>. QED BY <3>1, <3>2 DEF ActiveOf, Quiet, RetiredIdentities
  <2>. QED BY <2>1, <2>2, <2>3
<1>5. Identity!Retire(D)
  BY <1>3, <1>4 DEF Identity!Retire
<1>. QED BY <1>5

\* A minting call gives its compartment an identity never seen before.
LEMMA MintsMint ==
  ASSUME IndInv, IndInv', NEW c \in Compartments, Mints(c)
  PROVE  Identity!Mint(c)
<1>. DEFINE n == Len(sessions)
            id == n + 1
<1>1. /\ Unambiguous(sessions) /\ Unambiguous(sessions')
      /\ \A i \in DOMAIN sessions : sessions[i].compartment \in Compartments
  BY InvariantIsUnambiguous, InvariantIsUnambiguousNext
<1>2. DOMAIN sessions = 1 .. n /\ n \in Nat /\ MaxSessions \in Nat
  BY SessionAssumption DEF IndInv, TypeOK
<1>3. id \in (1 .. MaxSessions) \ (Identity!InUse \cup RetiredIdentities)
  <2>1. \A d \in Compartments : CurrentIdentity[d] \in DOMAIN sessions \cup {NoSession}
    BY <1>1, ActiveSessionFacts DEF CurrentIdentity, ActiveOf
  <2>2. id \in 1 .. MaxSessions /\ id \notin DOMAIN sessions
    BY <1>2 DEF Mints
  <2>. QED BY <2>1, <2>2 DEF Identity!InUse, RetiredIdentities
<1>4. ActiveOf(sessions', c) = {id}
  BY <1>2 DEF Mints, ActiveOf
<1>5. \A d \in Compartments \ {c} : ActiveOf(sessions', d) = ActiveOf(sessions, d)
  BY <1>2 DEF Mints, ActiveOf
<1>. HIDE DEF id
<1>6. CurrentIdentity' = [CurrentIdentity EXCEPT ![c] = id]
  <2>. SUFFICES ASSUME NEW d \in Compartments
                PROVE  ActiveSession(sessions', d) =
                         IF d = c THEN id ELSE ActiveSession(sessions, d)
    BY DEF CurrentIdentity
  <2>1. CASE d = c
    BY <1>1, <1>4, <2>1, ActiveSessionFacts
  <2>2. CASE d # c
    <3>1. ActiveOf(sessions', d) = ActiveOf(sessions, d)
      BY <1>5, <2>2
    <3>2. ActiveSession(sessions', d) = ActiveSession(sessions, d)
      BY <1>1, <3>1, ActiveSessionFacts
    <3>. QED BY <2>2, <3>2
  <2>. QED BY <2>1, <2>2
<1>7. RetiredIdentities' =
        RetiredIdentities \cup ({CurrentIdentity[c]} \ {NoSession})
  <2>1. ASSUME NEW i \in RetiredIdentities', i \notin RetiredIdentities
        PROVE  i = CurrentIdentity[c] /\ i # NoSession
    <3>1. i \in 1 .. n /\ sessions'[i].status # "active"
      BY <1>2 DEF RetiredIdentities, Mints
    <3>2. sessions[i].status = "active"
      BY <1>2, <2>1, <3>1 DEF RetiredIdentities
    <3>3. i \in ActiveOf(sessions, c)
      BY <1>2, <3>1, <3>2 DEF Mints, ActiveOf
    <3>4. ActiveSession(sessions, c) = i
      BY <1>1, <3>3, ActiveSessionFacts
    <3>. QED BY <1>2, <3>1, <3>4 DEF CurrentIdentity
  <2>2. ASSUME NEW i \in RetiredIdentities
        PROVE  i \in RetiredIdentities'
    <3>1. i \in 1 .. n /\ sessions[i].status # "active"
      BY <1>2 DEF RetiredIdentities
    <3>. QED BY <1>2, <3>1 DEF RetiredIdentities, Mints
  <2>3. CurrentIdentity[c] # NoSession => CurrentIdentity[c] \in RetiredIdentities'
    <3>. SUFFICES ASSUME ActiveSession(sessions, c) # NoSession
                  PROVE  ActiveSession(sessions, c) \in RetiredIdentities'
      BY DEF CurrentIdentity
    <3>. DEFINE i == ActiveSession(sessions, c)
    <3>1. i \in ActiveOf(sessions, c)
      BY <1>1, ActiveSessionFacts
    <3>. HIDE DEF i
    <3>2. i \in 1 .. n /\ sessions'[i].status # "active"
      BY <1>2, <3>1 DEF ActiveOf, Mints
    <3>3. i \in RetiredIdentities'
      BY <1>2, <3>2 DEF RetiredIdentities, Mints
    <3>. QED BY <3>3 DEF i
  <2>. QED BY <2>1, <2>2, <2>3
<1>. QED BY <1>3, <1>6, <1>7 DEF Identity!Mint

-----------------------------------------------------------------------------
\* A settled list, or one in which a single entry changes without becoming
\* active, is a quiet step.
LEMMA SettledIsQuiet ==
  ASSUME IndInv, Settled(sessions')
  PROVE  Quiet
BY DEF Settled, Quiet, IndInv, TypeOK

\* revokeSession and recordUse change one entry and never make it active.
LEMMA OneEntryIsQuiet ==
  ASSUME IndInv, NEW i \in DOMAIN sessions,
         RevokeSession(i) \/ RecordUse(i) \/ RecordUseRefused(i)
  PROVE  Quiet
<1>. DEFINE s == Expire(sessions[i])
            revoked == [s EXCEPT !.status = "revoked"]
            used == [s EXCEPT !.requestCount = @ + 1, !.lastUsedAt = now]
<1>1. /\ sessions[i] \in Session /\ now \in Nat
      /\ DOMAIN sessions = 1 .. Len(sessions)
  BY DEF IndInv, TypeOK
<1>2. /\ s \in Session
      /\ s.compartment = sessions[i].compartment
      /\ sessions[i].status # "active" => s = sessions[i]
  BY <1>1, ExpireFacts
<1>3. \/ sessions' = [sessions EXCEPT ![i] = s]
      \/ sessions' = [sessions EXCEPT ![i] = revoked]
      \/ s.status = "active" /\ sessions' = [sessions EXCEPT ![i] = used]
  <2>1. CASE RevokeSession(i)
    <3>1. sessions' = [sessions EXCEPT ![i] = IF s.status = "active" THEN revoked ELSE s]
      BY <2>1, Zenon DEF RevokeSession
    <3>. HIDE DEF s, revoked
    <3>. QED BY <3>1
  <2>2. CASE RecordUse(i)
    BY <2>2, Zenon DEF RecordUse
  <2>3. CASE RecordUseRefused(i)
    BY <2>3, Zenon DEF RecordUseRefused
  <2>. QED BY <2>1, <2>2, <2>3
<1>. HIDE DEF s
<1>4. /\ revoked.compartment = s.compartment /\ revoked.status = "revoked"
      /\ used.compartment = s.compartment /\ used.status = s.status
  BY <1>2 DEF Session
<1>. HIDE DEF revoked, used
<1>. QED BY <1>1, <1>2, <1>3, <1>4 DEF Quiet

\* A call that appends a session to a list settled in c alone, with nothing left
\* active there, mints.
LEMMA CreationMints ==
  ASSUME IndInv, NEW c \in Compartments, NEW ss, Settled(ss),
         ActiveOf(ss, c) = {}, CreateSession(ss, c),
         \A i \in DOMAIN sessions : sessions[i].compartment # c => ss[i] = sessions[i]
  PROVE  Mints(c)
<1>. DEFINE n == Len(sessions)
            new == [compartment |-> c, status |-> "active",
                    expiresAt |-> now + Ttl[c], requestCount |-> 0,
                    lastUsedAt |-> NeverUsed]
<1>1. /\ DOMAIN sessions = 1 .. n /\ n \in Nat /\ DOMAIN ss = 1 .. n
      /\ Len(ss) = n /\ ss \in Seq(Session)
  BY DEF IndInv, TypeOK, Settled
<1>2. sessions' = Append(ss, new) /\ n < MaxSessions
  BY <1>1 DEF CreateSession
<1>3. new.compartment = c /\ new.status = "active"
  OBVIOUS
<1>. HIDE DEF new
<1>4. /\ DOMAIN sessions' = 1 .. n + 1
      /\ sessions'[n + 1] = new
      /\ \A i \in 1 .. n : sessions'[i] = ss[i]
  BY <1>1, <1>2
<1>5. \A i \in 1 .. n : sessions[i].compartment = c => sessions'[i].status # "active"
  BY <1>1, <1>4 DEF ActiveOf, Settled
<1>6. \A i \in 1 .. n : sessions'[i].compartment = sessions[i].compartment
  BY <1>4 DEF Settled
<1>. QED BY <1>1, <1>2, <1>3, <1>4, <1>5, <1>6 DEF Mints

\* getOrCreateSession and rotateSession touch no other compartment.
LEMMA OthersKept ==
  ASSUME IndInv, NEW c \in Compartments,
         NEW i \in DOMAIN sessions, sessions[i].compartment # c
  PROVE  /\ ExpireCompartment(c)[i] = sessions[i]
         /\ MarkActiveAsRotated(ExpireCompartment(c), c)[i] = sessions[i]
BY DEF ExpireCompartment, MarkActiveAsRotated

\* markActiveAsRotated after expiry, then createSession, mints.
LEMMA RotationMints ==
  ASSUME IndInv, NEW c \in Compartments,
         CreateSession(MarkActiveAsRotated(ExpireCompartment(c), c), c)
  PROVE  Mints(c)
<1>1. TypeOK /\ Settled(ExpireCompartment(c))
  BY ExpireCompartmentSettles DEF IndInv
<1>2. /\ Settled(MarkActiveAsRotated(ExpireCompartment(c), c))
      /\ ActiveOf(MarkActiveAsRotated(ExpireCompartment(c), c), c) = {}
  BY <1>1, RotationSettles
<1>. QED BY <1>2, OthersKept, CreationMints

\* getOrCreateSession either reuses, quietly, or mints.
LEMMA GetOrCreateMapped ==
  ASSUME IndInv, NEW c \in Compartments, GetOrCreateSession(c)
  PROVE  Quiet \/ Mints(c)
<1>. DEFINE ss == ExpireCompartment(c)
<1>1. TypeOK /\ Settled(ss)
  BY ExpireCompartmentSettles DEF IndInv
<1>2. CASE AlwaysRotate(c)
  BY <1>2, RotationMints DEF AlwaysRotate
<1>3. CASE ReuseActive(c)
  <2>1. sessions' = ss
    BY <1>3 DEF ReuseActive
  <2>. QED BY <1>1, <2>1, SettledIsQuiet
<1>4. CASE CreateFirst(c)
  BY <1>1, <1>4, OthersKept, CreationMints DEF CreateFirst
<1>5. CASE RotateAtCeiling(c)
  <2>. DEFINE k == FindActive(ss, c)
              rr == [ss EXCEPT ![k].status = "rotated"]
  <2>1. ActiveOf(ss, c) # {} /\ CreateSession(rr, c)
    BY <1>5 DEF RotateAtCeiling
  <2>2. /\ DOMAIN ss = 1 .. Len(sessions) /\ DOMAIN sessions = 1 .. Len(sessions)
        /\ Len(sessions) \in Nat /\ \A i \in DOMAIN ss : ss[i] \in Session
    BY <1>1 DEF Settled, TypeOK
  <2>3. \A i, j \in ActiveOf(ss, c) : i = j
    BY <1>1, <2>2 DEF ActiveOf, Settled, IndInv, OnlyNewestIsActive
  <2>4. PICK i \in ActiveOf(ss, c) : \A j \in ActiveOf(ss, c) : i <= j
    <3>1. PICK i \in ActiveOf(ss, c) : TRUE
      BY <2>1
    <3>. QED BY <2>2, <2>3, <3>1 DEF ActiveOf
  <2>5. k \in ActiveOf(ss, c)
    BY <2>4 DEF FindActive
  <2>. HIDE DEF k
  <2>6. k \in 1 .. Len(sessions) /\ ss[k].status = "active" /\ ss[k].compartment = c
    BY <2>2, <2>5 DEF ActiveOf
  <2>7. Settled(rr)
    BY <1>1, <2>6, RetireOneSettles DEF Status
  <2>8. /\ DOMAIN rr = DOMAIN ss
        /\ rr[k].status = "rotated"
        /\ \A j \in DOMAIN ss : j # k => rr[j] = ss[j]
    BY <2>2, <2>6 DEF Session
  <2>. HIDE DEF rr
  <2>9. ActiveOf(rr, c) = {}
    BY <2>3, <2>5, <2>8 DEF ActiveOf
  <2>10. \A j \in DOMAIN sessions :
           sessions[j].compartment # c => rr[j] = sessions[j]
    <3>. SUFFICES ASSUME NEW j \in DOMAIN sessions, sessions[j].compartment # c
                  PROVE  rr[j] = sessions[j]
      OBVIOUS
    <3>1. ss[j] = sessions[j]
      BY OthersKept
    <3>2. j # k
      BY <2>6, <3>1
    <3>. QED BY <2>2, <2>8, <3>1, <3>2
  <2>. QED BY <2>1, <2>7, <2>9, <2>10, CreationMints
<1>. QED BY <1>2, <1>3, <1>4, <1>5 DEF GetOrCreateSession

\* Every call is quiet or mints for one compartment.
LEMMA EveryCallIsMapped ==
  ASSUME IndInv, Next
  PROVE  Quiet \/ \E c \in Compartments : Mints(c)
<1>1. CASE \E c \in Compartments : RegisterCompartment(c)
  BY <1>1 DEF RegisterCompartment, Quiet
<1>2. CASE \E c \in Compartments : GetOrCreateSession(c)
  BY <1>2, GetOrCreateMapped
<1>3. CASE \E c \in Compartments : RotateSession(c)
  BY <1>3, RotationMints DEF RotateSession
<1>4. CASE \E c \in Compartments : ListSessions(c)
  BY <1>4, ExpireCompartmentSettles, SettledIsQuiet DEF ListSessions, IndInv
<1>5. CASE \E i \in DOMAIN sessions :
             RevokeSession(i) \/ RecordUse(i) \/ RecordUseRefused(i)
  BY <1>5, OneEntryIsQuiet
<1>6. CASE ExpireOldSessions
  BY <1>6, ExpireAllSettles, SettledIsQuiet DEF ExpireOldSessions, IndInv
<1>7. CASE Tick
  BY <1>7 DEF Tick, Quiet
<1>. QED BY <1>1, <1>2, <1>3, <1>4, <1>5, <1>6, <1>7 DEF Next

\* The manager implements CompartmentIdentity for every set of compartments,
\* policies, lifetimes and ceilings: each call of manager.ts maps to minting one
\* compartment's identity, to retiring some, or to nothing.
THEOREM IdentityImplemented == Spec => ImplementsIdentity
<1>1. Init => Identity!Init
  <2>. SUFFICES ASSUME Init PROVE Identity!Init
    OBVIOUS
  <2>1. sessions = << >> /\ DOMAIN sessions = {}
    BY DEF Init
  <2>2. \A c \in Compartments : ActiveOf(sessions, c) = {}
    BY <2>1 DEF ActiveOf
  <2>. QED BY <2>1, <2>2 DEF Identity!Init, CurrentIdentity, RetiredIdentities, ActiveSession
<1>2. IndInv /\ IndInv' /\ [Next]_vars => [Identity!Next]_Identity!vars
  <2>1. ASSUME IndInv, IndInv', Next
        PROVE  Identity!Next
    <3>1. CASE Quiet
      BY <2>1, <3>1, QuietRetires DEF Identity!Next
    <3>2. CASE \E c \in Compartments : Mints(c)
      BY <2>1, <3>2, MintsMint DEF Identity!Next
    <3>. QED BY <2>1, <3>1, <3>2, EveryCallIsMapped
  <2>2. ASSUME UNCHANGED vars
        PROVE  UNCHANGED Identity!vars
    BY <2>2 DEF vars, Identity!vars, CurrentIdentity, RetiredIdentities, ActiveSession,
                FindActive, ActiveOf
  <2>. QED BY <2>1, <2>2
<1>. QED BY <1>1, <1>2, Invariance, PTL DEF Spec, ImplementsIdentity, Identity!Spec
=============================================================================
