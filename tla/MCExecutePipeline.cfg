CONSTANTS
  agent = agent
  compartment = compartment
  topicA = topicA
  topicB = topicB
  health = health
  Agents <- MCAgents
  Compartments <- MCCompartments
  Topics <- MCTopics
  Sensitive <- MCSensitive
  Capabilities <- MCCapabilities
  FirewallRules <- MCFirewallRules
  RoutingRules <- MCRoutingRules
  BoundaryRules <- MCBoundaryRules
  Manifests <- ShippedManifests
  SandboxPolicy <- ShippedSandbox
  Deployments <- MCDeployments
  MaxSearches = 2
  MaxAssignments = 3
  MaxUses = 2
  MaxRequests = 3
SPECIFICATION Spec
SYMMETRY MCTopicSymmetry
INVARIANTS
  TopicsMeetOnlyAfterRefusal
  CompositeExplainsAnswer
  IdentityMovesForExecution
  JudgedAtFinalRisk
CHECK_DEADLOCK FALSE
