------------------------------ MODULE RateLimiter ------------------------------
(***************************************************************************)
(* The capability rate limiter of packages/core/src/adaptive-defense:      *)
(* temporary blocks first, then sliding-window policies that record every  *)
(* request they see, refused ones included.                                *)
(*                                                                         *)
(* Of the four scopes the model has `agent` and `tool`, the two the        *)
(* bootstrap configuration uses.                                           *)
(***************************************************************************)
EXTENDS Integers, Sequences, FiniteSets

CONSTANTS
  Agents, Tools,
  CandidatePolicies,  \* the rate-limit policies that may be registered
  CandidateBlocks,    \* the temporary blocks that may be registered
  MaxRequests,        \* bound: requests evaluated
  MaxBlocks,          \* bound: blocks held at once
  MaxTime             \* bound: the clock

Any == "any"
Scope == {"agent", "tool"}
DefenseAction == {"allow", "cooldown", "temporary_block", "require_approval", "escalate_risk"}
Policy == [scope: Scope, maxRequests: Nat, windowMs: Nat, action: DefenseAction]
Block == [agent: Agents \cup {Any}, tool: Tools \cup {Any}, duration: Nat]

LimiterAssumption ==
  /\ CandidatePolicies \subseteq Policy
  /\ CandidateBlocks \subseteq Block
  /\ MaxRequests \in Nat /\ MaxBlocks \in Nat /\ MaxTime \in Nat

VARIABLES
  policies,  \* the registered policies, in registration order
  windows,   \* per policy and scope key, the timestamps still in its window
  blocks,    \* the temporary blocks held, in registration order
  log,       \* the requests evaluated, each with its decision
  now

vars == <<policies, windows, blocks, log, now>>

Keys == Agents \cup Tools

-----------------------------------------------------------------------------
\* activeBlockFor: some live block matches the request.
Blocks(block, agent, tool, at) ==
  /\ at < block.expiresAt
  /\ block.agent \in {Any, agent}
  /\ block.tool \in {Any, tool}

MatchingBlocks(agent, tool) ==
  {k \in DOMAIN blocks : Blocks(blocks[k], agent, tool, now)}

ScopeKey(policy, agent, tool) == IF policy.scope = "agent" THEN agent ELSE tool

First(S) == CHOOSE k \in S : \A j \in S : k <= j

\* A window's timestamps from `start` on; they are in order.
Since(timestamps, start) ==
  LET kept == {k \in DOMAIN timestamps : timestamps[k] >= start}
  IN  IF kept = {} THEN << >> ELSE SubSeq(timestamps, First(kept), Len(timestamps))

\* Faulty variants of Recorded: a window open at its start, or never pruned.
RecordedInOpenWindow(p, key) ==
  Append(Since(windows[p][key], now - policies[p].windowMs + 1), now)
RecordedForever(p, key) == Append(windows[p][key], now)

\* The policy's window for the request: pruned, with the request recorded.
Recorded(p, key) == Append(Since(windows[p][key], now - policies[p].windowMs), now)

-----------------------------------------------------------------------------
Init ==
  /\ policies = << >>
  /\ windows = << >>
  /\ blocks = << >>
  /\ log = << >>
  /\ now = 0

\* registerPolicy; a duplicate id throws.  A limiter is configured before it is
\* used: every (re)load builds a new one.
RegisterPolicy(policy) ==
  /\ log = << >>
  /\ policy \notin {policies[p] : p \in DOMAIN policies}
  /\ policies' = Append(policies, policy)
  /\ windows' = Append(windows, [key \in Keys |-> << >>])
  /\ UNCHANGED <<blocks, log, now>>

\* clearPolicies drops the windows with the policies; the log starts over.
ClearPolicies ==
  /\ policies # << >>
  /\ policies' = << >> /\ windows' = << >> /\ log' = << >>
  /\ UNCHANGED <<blocks, now>>

Decide(agent, tool, action, resetAt) ==
  log' = Append(log, [agent |-> agent, tool |-> tool, at |-> now,
                      action |-> action, resetAt |-> resetAt])

\* evaluate, a live temporary block matches: no window sees the request.
EvaluateBlocked(agent, tool) ==
  LET live == MatchingBlocks(agent, tool) IN
  /\ Len(log) < MaxRequests
  /\ live # {}
  /\ Decide(agent, tool, "temporary_block", blocks[First(live)].expiresAt)
  /\ UNCHANGED <<policies, windows, blocks, now>>

\* evaluate: every policy records the request, then the first policy whose
\* count exceeds its ceiling decides.
Evaluate(agent, tool) ==
  LET window == [p \in DOMAIN policies |->
                   Recorded(p, ScopeKey(policies[p], agent, tool))]
      exceeded == {p \in DOMAIN policies : Len(window[p]) > policies[p].maxRequests}
  IN
  /\ Len(log) < MaxRequests
  /\ MatchingBlocks(agent, tool) = {}
  /\ windows' = [p \in DOMAIN policies |->
       [windows[p] EXCEPT ![ScopeKey(policies[p], agent, tool)] = window[p]]]
  /\ IF exceeded = {} THEN Decide(agent, tool, "allow", now)
     ELSE LET p == First(exceeded) IN
          Decide(agent, tool, policies[p].action, window[p][1] + policies[p].windowMs)
  /\ UNCHANGED <<policies, blocks, now>>

\* registerTemporaryBlock.
RegisterTemporaryBlock(block) ==
  /\ Len(blocks) < MaxBlocks
  /\ blocks' = Append(blocks, [agent |-> block.agent, tool |-> block.tool,
                               expiresAt |-> now + block.duration])
  /\ UNCHANGED <<policies, windows, log, now>>

\* clearExpiredBlocks and clearTemporaryBlocks.
ClearExpiredBlocks ==
  /\ blocks' = SelectSeq(blocks, LAMBDA block : block.expiresAt > now)
  /\ UNCHANGED <<policies, windows, log, now>>

ClearTemporaryBlocks ==
  /\ blocks # << >>
  /\ blocks' = << >>
  /\ UNCHANGED <<policies, windows, log, now>>

Tick ==
  /\ now < MaxTime
  /\ now' = now + 1
  /\ UNCHANGED <<policies, windows, blocks, log>>

Next ==
  \/ \E policy \in CandidatePolicies : RegisterPolicy(policy)
  \/ ClearPolicies
  \/ \E agent \in Agents, tool \in Tools :
       EvaluateBlocked(agent, tool) \/ Evaluate(agent, tool)
  \/ \E block \in CandidateBlocks : RegisterTemporaryBlock(block)
  \/ ClearExpiredBlocks
  \/ ClearTemporaryBlocks
  \/ Tick

Spec == Init /\ [][Next]_vars

-----------------------------------------------------------------------------
SameKey(p, agent, tool, entry) ==
  ScopeKey(policies[p], agent, tool) = ScopeKey(policies[p], entry.agent, entry.tool)

\* The allowed requests of one key in the window that starts at `from`.
AllowedFrom(p, agent, tool, from) ==
  {k \in DOMAIN log : /\ log[k].action = "allow"
                      /\ SameKey(p, agent, tool, log[k])
                      /\ log[k].at \in from .. from + policies[p].windowMs}

\* The policies that limit: the first one exceeded decides, and nothing keeps its
\* action from being "allow", so such a policy disarms itself and all after it.
Enforced ==
  {p \in DOMAIN policies : \A q \in DOMAIN policies : q <= p => policies[q].action # "allow"}

\* "maxRequests requests are allowed; the next trips it": whichever window of
\* the policy's length one looks at, at most maxRequests requests of one key
\* were allowed in it, although the limiter remembers only the current window.
AllowedWithinLimit ==
  \A p \in Enforced : \A agent \in Agents, tool \in Tools, from \in 0 .. now :
    Cardinality(AllowedFrom(p, agent, tool, from)) <= policies[p].maxRequests

\* A caller whose scope has been quiet for a whole window is never limited.
QuietCallerIsAdmitted ==
  [][\A agent \in Agents, tool \in Tools :
       (/\ Evaluate(agent, tool)
        /\ \A p \in DOMAIN policies :
             /\ policies[p].maxRequests >= 1
             /\ \A k \in DOMAIN log : SameKey(p, agent, tool, log[k])
                  => log[k].at < now - policies[p].windowMs)
         => log'[Len(log')].action = "allow"]_vars

=============================================================================
