----------------------------- MODULE MCSecurityLoop -----------------------------
(* Small instances of SecurityLoop: the bootstrap rules and defences on a       *)
(* shorter scale.                                                               *)
EXTENDS SecurityLoop

Heuristic(watched, threshold, severity) ==
  [watched |-> watched, threshold |-> threshold, window |-> 1, severity |-> severity]

MCRules ==
  [repeated_denied_capabilities |-> Heuristic({"capability_denied"}, 2, "warning"),
   sandbox_violation_attempts |-> Heuristic({"sandbox_blocked"}, 2, "critical")]

Defence(action, types, severities) ==
  [action |-> action, anomalies |-> types, severities |-> severities]

\* The approval rejection defence is left out: a restricted compartment keeps
\* enqueuing requests, so no defence contains a burst of rejections.
MCDefences ==
  {Defence("cooldown", {"repeated_denied_capabilities"}, {"warning"}),
   Defence("temporary_block", {"sandbox_violation_attempts"}, {"critical"}),
   Defence("escalate_risk", {}, {"warning", "critical"})}

MCPenalty == [capability_denied |-> 1, approval_rejected |-> 1, sandbox_blocked |-> 1]
MCIncidentPenalty == [warning |-> 2, critical |-> 2]
MCRecovery == [clean_execution |-> 1, incident_closed |-> 2]
=============================================================================
