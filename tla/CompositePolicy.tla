---------------------------- MODULE CompositePolicy ----------------------------
(***************************************************************************)
(* How the runtime orchestrator merges the signals of one request into one *)
(* decision (packages/core/src/runtime-orchestrator): three strategies, the *)
(* conflicts it reports and the flags of the decision.  A signal is the     *)
(* [source, action] of one gate; severity and reason decide nothing, since  *)
(* every action a gate can emit is one the precedence table knows.          *)
(***************************************************************************)
EXTENDS Integers, Sequences, FiniteSetsExt, SequencesExt

Rotation == {"rotate_session", "rotate_fragment", "rotate_fingerprint", "rotate_identity"}

\* The actions that decide, from least to most restrictive; rotations accumulate
\* beside the decision and never are the decision.
Precedence == <<"allow", "delay", "require_approval", "cooldown", "temporary_block", "deny">>
PrecedenceOf(action) == CHOOSE i \in DOMAIN Precedence : Precedence[i] = action

\* What a gate can ask for.
Action == Rotation \cup {Precedence[i] : i \in DOMAIN Precedence}

\* buildDecision: the composites that do not allow the request.
Blocking == {"deny", "temporary_block", "cooldown"}

\* The actions of a sequence of signals that can decide.
Deciding(signals) == {s.action : s \in ToSet(signals)} \ Rotation

\* _mergeByMostRestrictive: the default action only when nothing restricts.
MostRestrictive(signals, policy) ==
  LET winner == Precedence[Max({PrecedenceOf(a) : a \in Deciding(signals)} \cup {1})]
  IN  IF winner = "allow" THEN policy.defaultAction ELSE winner

\* _mergeByDenyFirst
DenyFirst(signals, policy) ==
  IF "deny" \in Deciding(signals) THEN "deny" ELSE MostRestrictive(signals, policy)

\* _mergeBySourcePrecedence: the first restricting signal of the foremost source
\* that has one.
SourcePrecedence(signals, policy) ==
  LET restricting(source) ==
        {k \in DOMAIN signals : /\ signals[k].source = source
                                /\ signals[k].action \notin Rotation \cup {"allow"}}
      ranks == {i \in DOMAIN policy.precedence : restricting(policy.precedence[i]) # {}}
  IN  IF ranks = {} THEN MostRestrictive(signals, policy)
      ELSE signals[Min(restricting(policy.precedence[Min(ranks)]))].action

Merged(signals, policy) ==
  CASE policy.mergeStrategy = "deny_first" -> DenyFirst(signals, policy)
    [] policy.mergeStrategy = "source_precedence" -> SourcePrecedence(signals, policy)
    [] OTHER -> MostRestrictive(signals, policy)

\* resolveConflict, of two different actions that both restrict.
Resolution(pair) ==
  CASE "deny" \in pair -> "deny_wins"
    [] pair = {"cooldown", "delay"} -> "cooldown_wins_over_delay"
    [] pair = {"require_approval", "delay"} -> "approval_wins_over_delay"
    [] OTHER -> "most_restrictive_wins"

\* detectConflicts: one for every pair; the winner is the more restrictive.
Conflicts(signals) ==
  LET pairs == {pair \in SUBSET (Deciding(signals) \ {"allow"}) : Cardinality(pair) = 2}
  IN  {[actions |-> pair, resolution |-> Resolution(pair),
        winner |-> CHOOSE a \in pair : \A b \in pair : PrecedenceOf(a) >= PrecedenceOf(b)] :
          pair \in pairs}

\* _decide and buildDecision.  A delay is also asked for when rotations accompany
\* a decision that does not block.
Decision(signals, policy) ==
  LET action == Merged(signals, policy)
      rotations == {s.action : s \in ToSet(signals)} \cap Rotation
  IN  [action |-> action,
       allowed |-> action \notin Blocking,
       requiresDelay |-> action = "delay" \/ (rotations # {} /\ action \notin Blocking),
       requiresApproval |-> action = "require_approval",
       rotations |-> rotations,
       conflicts |-> Conflicts(signals)]

\* The policy every orchestrator is constructed with.
DefaultPolicy ==
  [id |-> "default-composite-privacy-policy", enabled |-> TRUE,
   precedence |-> <<"capability_firewall", "sandbox", "trust_reputation", "adaptive_defense",
                    "privacy_boundary", "network_isolation", "capability_graph", "multi_agent",
                    "transport_policy", "transport_fingerprint", "persona_isolation",
                    "temporal_obfuscation", "behavioral_privacy">>,
   defaultAction |-> "allow", mergeStrategy |-> "most_restrictive"]
=============================================================================
