SPECIFICATION Spec
CONSTANTS
  Compartments = {"research", "lab"}
  ReusePolicy <- MCReusePolicy
  Ttl <- MCTtl
  MaxRequests <- MCMaxRequests
  MaxSessions = 3
  MaxUses = 2
  MaxTime = 3
INVARIANTS
  TypeOK
  OnlyNewestIsActive
  HandedSessionIsUsable
PROPERTIES
  TerminalSessionsAreFrozen
  ImplementsIdentity
