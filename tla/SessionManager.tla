---------------------------- MODULE SessionManager ----------------------------
(***************************************************************************)
(* The in-memory session manager of packages/core/src/session-manager:     *)
(* which session identity a compartment executes under, and when that      *)
(* identity is reused, rotated, expired or revoked.                        *)
(*                                                                         *)
(* A session is identified by its position in creation order (the source   *)
(* uses a random UUID and keeps the creation order per compartment).  A    *)
(* call that throws without changing anything is a stuttering step.        *)
(***************************************************************************)
EXTENDS Integers, Sequences, FiniteSets

CONSTANTS
  Compartments,  \* the compartment ids that may be registered
  ReusePolicy,   \* reusePolicy of each compartment
  Ttl,           \* ttlMs of each compartment, in clock ticks
  MaxRequests,   \* maxRequests of each compartment
  MaxSessions,   \* bound: sessions ever created
  MaxUses,       \* bound: recorded uses of one session
  MaxTime        \* bound: the clock

ASSUME SessionAssumption ==
  /\ ReusePolicy \in [Compartments -> {"reuse_active", "always_rotate"}]
  /\ Ttl \in [Compartments -> Nat \ {0}]
  /\ MaxRequests \in [Compartments -> Nat \ {0}]
  /\ MaxSessions \in Nat /\ MaxUses \in Nat /\ MaxTime \in Nat

VARIABLES
  registered,  \* the registered compartments
  sessions,    \* every session ever created, in creation order
  handed,      \* the session the last call handed out, or NoSession
  now          \* the injected clock

vars == <<registered, sessions, handed, now>>

NoSession == 0
NeverUsed == -1

Status == {"active", "rotated", "expired", "revoked"}

Session == [compartment: Compartments, status: Status, expiresAt: Nat,
            requestCount: Nat, lastUsedAt: Nat \cup {NeverUsed}]

-----------------------------------------------------------------------------

\* applyExpiry: lazy expiry, only ever out of the active state.
Expire(s) ==
  IF s.status = "active" /\ now >= s.expiresAt
    THEN [s EXCEPT !.status = "expired"] ELSE s

\* Faulty variant of ExpireCompartment: expiry is left to the sweep.
ExpireCompartmentNever(c) == [i \in DOMAIN sessions |-> sessions[i]]

ExpireCompartment(c) ==
  [i \in DOMAIN sessions |->
     IF sessions[i].compartment = c THEN Expire(sessions[i]) ELSE sessions[i]]

ExpireAll == [i \in DOMAIN sessions |-> Expire(sessions[i])]

\* Faulty variants of MarkActiveAsRotated: nothing is retired, or everything is.
MarkNothing(ss, c) == ss
MarkEverything(ss, c) ==
  [i \in DOMAIN ss |->
     IF ss[i].status = "active" THEN [ss[i] EXCEPT !.status = "rotated"] ELSE ss[i]]

MarkActiveAsRotated(ss, c) ==
  [i \in DOMAIN ss |->
     IF ss[i].compartment = c /\ ss[i].status = "active"
       THEN [ss[i] EXCEPT !.status = "rotated"] ELSE ss[i]]

ActiveOf(ss, c) ==
  {i \in DOMAIN ss : ss[i].compartment = c /\ ss[i].status = "active"}

\* findActive: the first active session in creation order.
FindActive(ss, c) ==
  CHOOSE i \in ActiveOf(ss, c) : \A j \in ActiveOf(ss, c) : i <= j

\* Faulty variants of CreateSession: the record is not stored, or its TTL is lost.
CreateSessionUnstored(ss, c) ==
  /\ Len(ss) < MaxSessions
  /\ sessions' = ss
  /\ handed' = Len(ss) + 1
CreateSessionStillborn(ss, c) ==
  /\ Len(ss) < MaxSessions
  /\ sessions' = Append(ss, [compartment |-> c, status |-> "active",
                             expiresAt |-> now, requestCount |-> 0,
                             lastUsedAt |-> NeverUsed])
  /\ handed' = Len(ss) + 1

\* createSession appends a fresh active record to `ss` and hands it out.
CreateSession(ss, c) ==
  /\ Len(ss) < MaxSessions
  /\ sessions' = Append(ss, [compartment |-> c, status |-> "active",
                             expiresAt |-> now + Ttl[c], requestCount |-> 0,
                             lastUsedAt |-> NeverUsed])
  /\ handed' = Len(ss) + 1

-----------------------------------------------------------------------------
Init ==
  /\ registered = {}
  /\ sessions = << >>
  /\ handed = NoSession
  /\ now = 0

\* registerCompartment; a duplicate id throws.
RegisterCompartment(c) ==
  /\ c \notin registered
  /\ registered' = registered \cup {c}
  /\ handed' = NoSession
  /\ UNCHANGED <<sessions, now>>

(* getOrCreateSession: the four ways it can end, all after expireCompartment. *)
AlwaysRotate(c) ==
  /\ ReusePolicy[c] = "always_rotate"
  /\ CreateSession(MarkActiveAsRotated(ExpireCompartment(c), c), c)

\* Faulty variant of ReuseActive: the ceiling is off by one.
ReuseActiveAtCeiling(c) ==
  LET ss == ExpireCompartment(c) IN
  /\ ReusePolicy[c] = "reuse_active"
  /\ ActiveOf(ss, c) # {}
  /\ ss[FindActive(ss, c)].requestCount <= MaxRequests[c]
  /\ sessions' = ss
  /\ handed' = FindActive(ss, c)

ReuseActive(c) ==
  LET ss == ExpireCompartment(c) IN
  /\ ReusePolicy[c] = "reuse_active"
  /\ ActiveOf(ss, c) # {}
  /\ ss[FindActive(ss, c)].requestCount < MaxRequests[c]
  /\ sessions' = ss
  /\ handed' = FindActive(ss, c)

RotateAtCeiling(c) ==
  LET ss == ExpireCompartment(c) IN
  /\ ReusePolicy[c] = "reuse_active"
  /\ ActiveOf(ss, c) # {}
  /\ ss[FindActive(ss, c)].requestCount >= MaxRequests[c]
  /\ CreateSession([ss EXCEPT ![FindActive(ss, c)].status = "rotated"], c)

CreateFirst(c) ==
  LET ss == ExpireCompartment(c) IN
  /\ ReusePolicy[c] = "reuse_active"
  /\ ActiveOf(ss, c) = {}
  /\ CreateSession(ss, c)

GetOrCreateSession(c) ==
  /\ c \in registered
  /\ AlwaysRotate(c) \/ ReuseActive(c) \/ RotateAtCeiling(c) \/ CreateFirst(c)
  /\ UNCHANGED <<registered, now>>

\* rotateSession: retire whatever is active and mint a fresh session.
RotateSession(c) ==
  /\ c \in registered
  /\ CreateSession(MarkActiveAsRotated(ExpireCompartment(c), c), c)
  /\ UNCHANGED <<registered, now>>

\* Faulty variant of RevokeSession: a terminal session is revoked as well.
RevokeSessionAlways(i) ==
  /\ sessions' = [sessions EXCEPT ![i].status = "revoked"]
  /\ handed' = NoSession
  /\ UNCHANGED <<registered, now>>

\* revokeSession: expiry first, then active -> revoked; idempotent afterwards.
RevokeSession(i) ==
  LET s == Expire(sessions[i]) IN
  /\ sessions' = [sessions EXCEPT ![i] =
                    IF s.status = "active" THEN [s EXCEPT !.status = "revoked"] ELSE s]
  /\ handed' = NoSession
  /\ UNCHANGED <<registered, now>>

\* recordUse of a session that is still active.
RecordUse(i) ==
  LET s == Expire(sessions[i]) IN
  /\ s.status = "active"
  /\ s.requestCount < MaxUses
  /\ sessions' = [sessions EXCEPT ![i] =
                    [s EXCEPT !.requestCount = @ + 1, !.lastUsedAt = now]]
  /\ handed' = NoSession
  /\ UNCHANGED <<registered, now>>

\* recordUse of a terminal session throws session_not_active, after applyExpiry.
RecordUseRefused(i) ==
  LET s == Expire(sessions[i]) IN
  /\ s.status # "active"
  /\ sessions' = [sessions EXCEPT ![i] = s]
  /\ handed' = NoSession
  /\ UNCHANGED <<registered, now>>

\* expireOldSessions, and listSessions without a compartment.
ExpireOldSessions ==
  /\ sessions' = ExpireAll
  /\ handed' = NoSession
  /\ UNCHANGED <<registered, now>>

\* listSessions(compartment).
ListSessions(c) ==
  /\ sessions' = ExpireCompartment(c)
  /\ handed' = NoSession
  /\ UNCHANGED <<registered, now>>

Tick ==
  /\ now < MaxTime
  /\ now' = now + 1
  /\ handed' = NoSession
  /\ UNCHANGED <<registered, sessions>>

Next ==
  \/ \E c \in Compartments :
       \/ RegisterCompartment(c)
       \/ GetOrCreateSession(c)
       \/ RotateSession(c)
       \/ ListSessions(c)
  \/ \E i \in DOMAIN sessions :
       RevokeSession(i) \/ RecordUse(i) \/ RecordUseRefused(i)
  \/ ExpireOldSessions
  \/ Tick

Spec == Init /\ [][Next]_vars

-----------------------------------------------------------------------------
\* Every variable holds a value of its type, and a handed-out id exists.
TypeOK ==
  /\ registered \subseteq Compartments
  /\ sessions \in Seq(Session)
  /\ handed \in 0 .. Len(sessions)
  /\ now \in Nat

\* Only the newest session of a compartment can be active: rotation, expiry and
\* creation together never leave an older identity usable beside a newer one
\* (manager.ts findActive: "the (single) active session of a compartment").
OnlyNewestIsActive ==
  \A i, j \in DOMAIN sessions :
    (i < j /\ sessions[i].compartment = sessions[j].compartment)
      => sessions[i].status # "active"

\* A compartment never has two active identities at once.
SingleActiveSession ==
  \A c \in Compartments : \A i, j \in ActiveOf(sessions, c) : i = j

\* A session handed out by getOrCreateSession or rotateSession can be used at
\* once: it is active, inside its TTL and below the request ceiling ("a stale
\* session can never be handed back").
HandedSessionIsUsable ==
  handed # NoSession =>
    /\ sessions[handed].status = "active"
    /\ now < sessions[handed].expiresAt
    /\ sessions[handed].requestCount < MaxRequests[sessions[handed].compartment]

\* No use is ever recorded at or after the session's deadline.
UsesPrecedeDeadline ==
  \A i \in DOMAIN sessions : sessions[i].lastUsedAt < sessions[i].expiresAt

\* Terminal states are final: once a session has left `active`, no later call
\* changes its record in any way, its use count included.
TerminalSessionsAreFrozen ==
  [][\A i \in DOMAIN sessions :
       sessions[i].status # "active" =>
         i \in DOMAIN sessions' /\ sessions'[i] = sessions[i]]_vars
=============================================================================
