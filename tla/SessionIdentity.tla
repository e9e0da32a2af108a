---------------------------- MODULE SessionIdentity ----------------------------
(***************************************************************************)
(* The refinement mapping from the session manager to CompartmentIdentity: *)
(* a compartment's identity is its active session, and every session that  *)
(* is rotated, expired or revoked is retired.                              *)
(***************************************************************************)
EXTENDS SessionManager

\* What findActive returns, or NoSession.
ActiveSession(ss, c) ==
  IF ActiveOf(ss, c) = {} THEN NoSession ELSE FindActive(ss, c)

CurrentIdentity == [c \in Compartments |-> ActiveSession(sessions, c)]

RetiredIdentities == {i \in DOMAIN sessions : sessions[i].status # "active"}

Identity == INSTANCE CompartmentIdentity WITH
  Identities <- 1 .. MaxSessions,
  None <- NoSession,
  current <- CurrentIdentity,
  retired <- RetiredIdentities

\* The manager implements CompartmentIdentity: no sequence of calls gives a
\* compartment two identities, moves an identity or revives a retired one
\* (manager.ts getOrCreateSession, rotateSession, revokeSession).
ImplementsIdentity == Identity!Spec
=============================================================================
