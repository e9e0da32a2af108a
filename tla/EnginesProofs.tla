------------------------------ MODULE EnginesProofs ------------------------------
(***************************************************************************)
(* TLAPS proofs about the engines that stand alone, for any values of      *)
(* their constants.  A step of Engines is a step of the chosen engine, so  *)
(* each engine's invariant is shown for its own Next and then carried to   *)
(* Engines by one lemma.                                                   *)
(***************************************************************************)
EXTENDS Engines, FiniteSetTheorems, WellFoundedInduction, TLAPS

-----------------------------------------------------------------------------
(* The capability graph keeps every executed path sound, for any tools,       *)
(* compartments, rules and isolation policies, and for graphs of any size.    *)
(* PathIsAuthorised speaks of the rule in force now.  It survives the         *)
(* registration of further rules only because the first registered rule for   *)
(* a pair stays first: LEMMA RuleStays, which needs that the set of matching  *)
(* rules has a least element at all.                                          *)

\* The transitions on record, and the steps the paths consist of.
Transitions == {<<e.from, e.to>> : e \in {x \in edges : x.relation = "transitioned_to"}}
StepsOf(c) == {<<paths[c][k], paths[c][k + 1]>> : k \in 1 .. Len(paths[c]) - 1}

\* Types, and that a path consists of ids of nodes.
GraphShapes ==
  /\ rules \in Seq(Rule)
  /\ DOMAIN policies \subseteq Compartments
  /\ \A c \in DOMAIN policies : policies[c] \in Policy
  /\ nodes \in Seq(Node)
  /\ paths \in [Compartments -> Seq(Nat)]
  /\ \A c \in Compartments : \A k \in DOMAIN paths[c] : paths[c][k] \in 1 .. Len(nodes)

\* Every step of a path was judged, at no more than the risk it records.
JudgedFirst ==
  /\ judged \in [Compartments -> Seq(RiskLevel)]
  /\ \A c \in Compartments : Len(judged[c]) = Len(paths[c])
  /\ \A c \in Compartments : \A k \in DOMAIN paths[c] :
       Rank[judged[c][k]] <= Rank[nodes[paths[c][k]].risk]

GraphInv == GraphShapes /\ JudgedFirst /\ PathsAreSound

\* What a rule says of a step from one tool to another, judged at a risk.
Licensed(from, to, risk) ==
  from # to =>
    /\ MatchingRules(from, to) # {}
    /\ \/ Rank[risk] <= Rank[FindEnabledRule(from, to).maxAllowedRisk]
       \/ Admits(FindEnabledRule(from, to).actionOnViolation)

-----------------------------------------------------------------------------
\* A set of positions that is not empty has a first one.
LEMMA FirstPosition ==
  ASSUME NEW n \in Nat, NEW S \in SUBSET (1 .. n), S # {}
  PROVE  \E k \in S : \A j \in S : k <= j
<1>. DEFINE T == {1 .. k : k \in S}
<1>1. T \subseteq FiniteSubsetsOf(1 .. n) /\ T # {}
  <2>1. FiniteSubsetsOf(1 .. n) = SUBSET (1 .. n)
    <3>. DEFINE U == 1 .. n
    <3>1. IsFiniteSet(U)
      BY FS_Interval
    <3>. HIDE DEF U
    <3>2. FiniteSubsetsOf(U) = SUBSET U
      BY <3>1, FS_FiniteSubsetsOfFinite
    <3>. QED BY <3>2 DEF U
  <2>2. \A k \in S : 1 .. k \in SUBSET (1 .. n)
    OBVIOUS
  <2>3. T \subseteq SUBSET (1 .. n)
    BY <2>2
  <2>4. T # {}
    OBVIOUS
  <2>. HIDE DEF T
  <2>. QED BY ONLY <2>1, <2>3, <2>4
<1>2. PICK x \in T : \A y \in T : ~(<<y, x>> \in StrictSubsetOrdering(1 .. n))
  <2>. HIDE DEF T
  <2>. QED BY <1>1, FS_StrictSubsetOrderingWellFounded, WFMin
<1>3. PICK k \in S : x = 1 .. k
  OBVIOUS
<1>4. ASSUME NEW j \in S, j < k PROVE FALSE
  <2>1. 1 .. j \subseteq 1 .. k /\ 1 .. j # 1 .. k
    <3>1. k \in 1 .. k /\ k \notin 1 .. j
      BY <1>4
    <3>. QED BY <1>4, <3>1
  <2>2. <<1 .. j, x>> \in StrictSubsetOrdering(1 .. n)
    BY <1>3, <2>1 DEF StrictSubsetOrdering
  <2>. QED BY <1>2, <2>2
<1>. QED BY <1>4

\* The rule in force for a pair is its first enabled one.
LEMMA RuleInForce ==
  ASSUME GraphShapes, NEW from, NEW to, MatchingRules(from, to) # {}
  PROVE  \E k \in MatchingRules(from, to) :
           /\ \A j \in MatchingRules(from, to) : k <= j
           /\ FindEnabledRule(from, to) = rules[k]
<1>. DEFINE S == MatchingRules(from, to)
<1>1. Len(rules) \in Nat /\ S \in SUBSET (1 .. Len(rules)) /\ S # {}
  BY DEF GraphShapes, MatchingRules
<1>2. FindEnabledRule(from, to) = rules[CHOOSE k \in S : \A j \in S : k <= j]
  BY DEF FindEnabledRule
<1>. HIDE DEF S
<1>3. PICK k \in S : \A j \in S : k <= j
  BY <1>1, FirstPosition
<1>4. \A i \in S : (\A j \in S : i <= j) => i = k
  BY <1>1, <1>3
<1>5. (CHOOSE i \in S : \A j \in S : i <= j) = k
  BY <1>3, <1>4
<1>. QED BY <1>2, <1>3, <1>5 DEF S

\* A rule registered later never displaces the one in force.
LEMMA RuleStays ==
  ASSUME GraphShapes, GraphShapes', NEW rule, rules' = Append(rules, rule),
         NEW from, NEW to, MatchingRules(from, to) # {}
  PROVE  /\ MatchingRules(from, to)' # {}
         /\ FindEnabledRule(from, to)' = FindEnabledRule(from, to)
<1>. DEFINE S == MatchingRules(from, to)
            n == Len(rules)
<1>1. /\ n \in Nat /\ S \subseteq 1 .. n
      /\ S \subseteq MatchingRules(from, to)'
      /\ MatchingRules(from, to)' \subseteq S \cup {n + 1}
      /\ \A k \in 1 .. n : rules'[k] = rules[k]
  BY DEF GraphShapes, MatchingRules
<1>2. PICK k \in S : (\A j \in S : k <= j) /\ FindEnabledRule(from, to) = rules[k]
  BY RuleInForce
<1>3. MatchingRules(from, to)' # {}
  BY <1>1
<1>. DEFINE T == MatchingRules(from, to)'
<1>4. FindEnabledRule(from, to)' = rules'[CHOOSE i \in T : \A j \in T : i <= j]
  BY DEF FindEnabledRule
<1>. HIDE DEF S, T, n
<1>5. k \in T /\ \A j \in T : k <= j
  BY <1>1, <1>2 DEF T
<1>6. \A i \in T : (\A j \in T : i <= j) => i = k
  <2>1. \A i \in T : i \in Int
    BY <1>1 DEF T
  <2>. QED BY <1>5, <2>1
<1>7. (CHOOSE i \in T : \A j \in T : i <= j) = k
  BY <1>5, <1>6
<1>. QED BY <1>1, <1>2, <1>3, <1>4, <1>7

\* Without a registration, the rules in force stay the same.
LEMMA RulesKept ==
  ASSUME rules' = rules, NEW from, NEW to
  PROVE  /\ MatchingRules(from, to)' = MatchingRules(from, to)
         /\ FindEnabledRule(from, to)' = FindEnabledRule(from, to)
<1>1. MatchingRules(from, to)' = MatchingRules(from, to)
  BY DEF MatchingRules
<1>. QED BY <1>1 DEF FindEnabledRule

\* PathIsAuthorised, one step of a path at a time, before and after a step.
LEMMA PathSteps ==
  ASSUME \A d \in Compartments : \A k \in 2 .. Len(paths'[d]) :
           \E from, to, risk : /\ from = nodes'[paths'[d][k - 1]].tool
                               /\ to = nodes'[paths'[d][k]].tool
                               /\ risk = judged'[d][k]
                               /\ Licensed(from, to, risk)'
  PROVE  PathIsAuthorised'
<1>1. ASSUME NEW d \in Compartments, NEW k \in 2 .. Len(paths'[d])
      PROVE  Licensed(nodes[paths[d][k - 1]].tool, nodes[paths[d][k]].tool, judged[d][k])'
  <2>1. PICK from, to, risk : /\ from = nodes'[paths'[d][k - 1]].tool
                              /\ to = nodes'[paths'[d][k]].tool
                              /\ risk = judged'[d][k]
                              /\ Licensed(from, to, risk)'
    OBVIOUS
  <2>. QED BY ONLY <2>1 DEF Licensed
<1>. QED BY ONLY <1>1 DEF PathIsAuthorised, Licensed

-----------------------------------------------------------------------------
\* What evaluatePath requires of the capability it lets onto a path.
LEMMA AdmittedFacts ==
  ASSUME GraphInv, NEW c \in Compartments, NEW tool \in Tools, NEW risk \in RiskLevel,
         Admits(EvaluatePath(c, tool, risk))
  PROVE  /\ c \in DOMAIN policies /\ policies[c].enabled
         /\ Len(paths[c]) + 1 <= policies[c].maxPathLength
         /\ paths[c] # << >> =>
              /\ policies[c].blockOnHighRiskPath => ~HighRiskPath(c, risk)
              /\ Licensed(Previous(c).tool, tool, risk)
<1>1. c \in DOMAIN policies /\ policies[c].enabled
  BY DEF EvaluatePath, Admits
<1>2. Len(paths[c]) + 1 <= policies[c].maxPathLength
  <2>1. Len(paths[c]) \in Nat /\ policies[c].maxPathLength \in Nat
    BY <1>1 DEF GraphInv, GraphShapes, Policy
  <2>. QED BY <1>1, <2>1 DEF EvaluatePath, Admits
<1>3. ASSUME paths[c] # << >>
      PROVE  /\ policies[c].blockOnHighRiskPath => ~HighRiskPath(c, risk)
             /\ Licensed(Previous(c).tool, tool, risk)
  <2>1. CASE Previous(c).tool = tool
    BY <1>1, <1>2, <1>3, <2>1 DEF EvaluatePath, Admits, Licensed
  <2>2. CASE Previous(c).tool # tool
    <3>1. /\ MatchingRules(Previous(c).tool, tool) # {}
          /\ ~(policies[c].blockOnHighRiskPath /\ HighRiskPath(c, risk))
      BY <1>1, <1>2, <1>3, <2>2 DEF EvaluatePath, Admits
    <3>. DEFINE rule == FindEnabledRule(Previous(c).tool, tool)
    <3>2. rule \in Rule
      <4>1. PICK k \in MatchingRules(Previous(c).tool, tool) : rule = rules[k]
        BY <3>1, RuleInForce DEF GraphInv
      <4>. QED BY <4>1 DEF GraphInv, GraphShapes, MatchingRules
    <3>3. Rank[risk] > Rank[rule.maxAllowedRisk] => Admits(rule.actionOnViolation)
      BY <1>1, <1>2, <1>3, <2>2, <3>1 DEF EvaluatePath, Admits
    <3>4. Rank[risk] \in Int /\ Rank[rule.maxAllowedRisk] \in Int
      BY <3>2 DEF Rank, RiskLevel, Rule
    <3>. HIDE DEF rule
    <3>5. \/ Rank[risk] <= Rank[rule.maxAllowedRisk]
          \/ Admits(rule.actionOnViolation)
      BY <3>3, <3>4
    <3>. QED BY <3>1, <3>5 DEF Licensed, rule
  <2>. QED BY <2>1, <2>2
<1>. QED BY <1>1, <1>2, <1>3

\* One more capability on a path that evaluatePath admitted, with whatever other
\* nodes and edges the call adds.
LEMMA AdvanceStep ==
  ASSUME GraphInv, NEW c \in Compartments, NEW tool \in Tools, NEW risk \in RiskLevel,
         NEW effective \in RiskLevel, effective = risk \/ Rank[effective] > Rank[risk],
         NEW id, id = Len(nodes) + 1,
         Admits(EvaluatePath(c, tool, risk)),
         nodes' \in Seq(Node), Len(nodes') >= id,
         \A i \in 1 .. Len(nodes) : nodes'[i] = nodes[i],
         nodes'[id] = NewNode("capability", c, tool, effective),
         paths' = [paths EXCEPT ![c] = Append(@, id)],
         judged' = [judged EXCEPT ![c] = Append(@, risk)],
         Transitions' = Transitions \cup
           (IF paths[c] = << >> THEN {} ELSE {<<paths[c][Len(paths[c])], id>>}),
         UNCHANGED <<rules, policies>>
  PROVE  GraphInv'
<1>. DEFINE n == Len(paths[c])
<1>1. /\ GraphShapes /\ Len(nodes) \in Nat /\ paths[c] \in Seq(Nat) /\ n \in Nat
      /\ \A d \in Compartments : paths[d] \in Seq(Nat)
      /\ id \in Nat /\ Len(nodes') \in Nat
  BY DEF GraphInv, GraphShapes
<1>2. /\ paths' \in [Compartments -> Seq(Nat)]
      /\ paths'[c] = Append(paths[c], id)
      /\ Len(paths'[c]) = n + 1 /\ paths'[c][n + 1] = id
      /\ \A k \in 1 .. n : paths'[c][k] = paths[c][k]
      /\ \A d \in Compartments : d # c => paths'[d] = paths[d]
  BY <1>1 DEF GraphShapes
<1>3. \A d \in Compartments : \A k \in DOMAIN paths[d] :
        paths[d][k] \in 1 .. Len(nodes) /\ nodes'[paths[d][k]] = nodes[paths[d][k]]
  BY DEF GraphInv, GraphShapes
<1>4. /\ c \in DOMAIN policies /\ policies[c].enabled
      /\ n + 1 <= policies[c].maxPathLength
      /\ paths[c] # << >> =>
           /\ policies[c].blockOnHighRiskPath => ~HighRiskPath(c, risk)
           /\ Licensed(Previous(c).tool, tool, risk)
  BY AdmittedFacts
<1>5. /\ nodes'[id].compartment = c /\ nodes'[id].kind = "capability"
      /\ nodes'[id].tool = tool /\ nodes'[id].risk = effective
  BY DEF NewNode
<1>. HIDE DEF n
<1>6. /\ DOMAIN paths[c] = 1 .. n /\ DOMAIN paths'[c] = 1 .. n + 1
      /\ paths[c] = << >> <=> n = 0
  BY <1>1, <1>2 DEF n
<1>7. GraphShapes'
  <2>1. \A d \in Compartments : \A k \in DOMAIN paths'[d] : paths'[d][k] \in 1 .. Len(nodes')
    BY <1>1, <1>2, <1>3, <1>6
  <2>. QED BY <1>1, <1>2, <2>1 DEF GraphShapes
<1>13. /\ judged' \in [Compartments -> Seq(RiskLevel)]
       /\ Len(judged[c]) = n /\ Len(judged'[c]) = n + 1
       /\ judged'[c][n + 1] = risk
       /\ \A k \in 1 .. n : judged'[c][k] = judged[c][k]
       /\ \A d \in Compartments : d # c => judged'[d] = judged[d]
  <2>1. judged \in [Compartments -> Seq(RiskLevel)] /\ Len(judged[c]) = n
    BY DEF GraphInv, JudgedFirst, n
  <2>. QED BY <2>1
<1>14. Rank[risk] <= Rank[effective]
  BY DEF RiskLevel, Rank
<1>15. JudgedFirst'
  <2>1. \A d \in Compartments : Len(judged'[d]) = Len(paths'[d])
    BY <1>2, <1>13 DEF GraphInv, JudgedFirst
  <2>2. ASSUME NEW d \in Compartments, NEW k \in DOMAIN paths'[d]
        PROVE  Rank[judged'[d][k]] <= Rank[nodes'[paths'[d][k]].risk]
    <3>1. CASE d # c \/ k \in 1 .. n
      <4>1. /\ k \in DOMAIN paths[d] /\ paths'[d][k] = paths[d][k]
            /\ judged'[d][k] = judged[d][k]
        BY <1>2, <1>6, <1>13, <3>1
      <4>. QED BY <1>3, <4>1 DEF GraphInv, JudgedFirst
    <3>2. CASE d = c /\ k = n + 1
      BY <1>2, <1>5, <1>13, <1>14, <3>2
    <3>3. d = c => k \in 1 .. n + 1
      BY <1>6
    <3>4. (d # c \/ k \in 1 .. n) \/ (d = c /\ k = n + 1)
      BY <1>1, <3>3
    <3>. QED BY ONLY <3>1, <3>2, <3>4
  <2>. QED BY <1>13, <2>1, <2>2 DEF JudgedFirst
<1>8. PathWithinCeiling'
  BY <1>2, <1>4 DEF GraphInv, PathsAreSound, PathWithinCeiling
<1>9. PathIsAuthorised'
  <2>1. \A d \in Compartments : \A k \in 2 .. Len(paths[d]) :
          Licensed(nodes[paths[d][k - 1]].tool, nodes[paths[d][k]].tool, judged[d][k])
    BY DEF GraphInv, PathsAreSound, PathIsAuthorised, Licensed
  <2>2. ASSUME NEW d \in Compartments, NEW k \in 2 .. Len(paths'[d])
        PROVE  Licensed(nodes'[paths'[d][k - 1]].tool, nodes'[paths'[d][k]].tool, judged'[d][k])
    <3>1. CASE d # c \/ k <= n
      <4>1. k - 1 \in DOMAIN paths[d] /\ k \in DOMAIN paths[d] /\ k \in 2 .. Len(paths[d])
            /\ paths'[d][k - 1] = paths[d][k - 1] /\ paths'[d][k] = paths[d][k]
            /\ judged'[d][k] = judged[d][k]
        BY <1>1, <1>2, <1>6, <1>13, <3>1 DEF n
      <4>. QED BY <1>3, <2>1, <4>1
    <3>2. CASE d = c /\ k = n + 1
      <4>1. /\ nodes'[paths'[d][k]] = nodes'[id]
            /\ paths[c] # << >> /\ n \in DOMAIN paths[c]
            /\ paths'[d][k - 1] = paths[c][n] /\ judged'[d][k] = risk
        BY <1>1, <1>2, <1>6, <1>13, <3>2
      <4>2. nodes'[paths'[d][k - 1]] = Previous(c)
        BY <1>3, <4>1 DEF Previous, n
      <4>3. Licensed(Previous(c).tool, tool, risk)
        BY <1>4, <4>1
      <4>. QED BY <1>5, <4>1, <4>2, <4>3
    <3>3. d = c => k \in 2 .. n + 1
      BY <1>2
    <3>4. (d # c \/ k <= n) \/ (d = c /\ k = n + 1)
      BY <1>1, <3>3
    <3>. QED BY ONLY <3>1, <3>2, <3>4
  <2>3. \A from, to, at : Licensed(from, to, at) => Licensed(from, to, at)'
    BY RulesKept DEF Licensed
  <2>4. ASSUME NEW d \in Compartments, NEW k \in 2 .. Len(paths'[d])
        PROVE  \E from, to, at : /\ from = nodes'[paths'[d][k - 1]].tool
                                /\ to = nodes'[paths'[d][k]].tool
                                /\ at = judged'[d][k]
                                /\ Licensed(from, to, at)'
    <3>1. PICK from, to, at : /\ from = nodes'[paths'[d][k - 1]].tool
                              /\ to = nodes'[paths'[d][k]].tool
                              /\ at = judged'[d][k]
      OBVIOUS
    <3>2. Licensed(from, to, at)
      BY ONLY <2>2, <3>1
    <3>3. Licensed(from, to, at)'
      BY ONLY <2>3, <3>2
    <3>. QED BY ONLY <3>1, <3>3
  <2>. QED BY <2>4, PathSteps
<1>10. policies' = policies
  OBVIOUS
<1>11. HighRiskEndsPath'
  <2>. SUFFICES ASSUME NEW d \in DOMAIN policies, policies[d].blockOnHighRiskPath,
                       NEW k \in DOMAIN paths'[d]
                PROVE  /\ nodes'[paths'[d][k]].risk = "high" => k = Len(paths'[d])
                       /\ judged'[d][k] = "high" => Len(paths'[d]) = 1
    BY <1>10, Zenon DEF HighRiskEndsPath
  <2>1. d \in Compartments
    BY <1>1 DEF GraphShapes
  <2>2. CASE d # c
    <3>1. /\ paths'[d] = paths[d] /\ k \in DOMAIN paths[d] /\ judged'[d] = judged[d]
          /\ nodes'[paths[d][k]] = nodes[paths[d][k]]
      BY <1>2, <1>3, <1>13, <2>1, <2>2
    <3>2. HighRiskEndsPath
      BY DEF GraphInv, PathsAreSound
    <3>3. /\ nodes[paths[d][k]].risk = "high" => k = Len(paths[d])
          /\ judged[d][k] = "high" => Len(paths[d]) = 1
      BY <3>1, <3>2 DEF HighRiskEndsPath
    <3>. QED BY ONLY <3>1, <3>3
  <2>3. CASE d = c /\ n = 0
    <3>1. k = 1 /\ Len(paths'[d]) = 1
      BY <1>2, <1>6, <2>3
    <3>. QED BY ONLY <3>1
  <2>4. CASE d = c /\ n # 0
    <3>1. ~HighRiskPath(c, risk)
      BY <1>4, <1>6, <2>4
    <3>2. CASE k \in 1 .. n
      <4>1. /\ k \in DOMAIN paths[c] /\ paths'[d][k] = paths[c][k]
            /\ nodes'[paths[c][k]] = nodes[paths[c][k]]
            /\ judged'[d][k] = judged[c][k]
        BY <1>2, <1>3, <1>6, <1>13, <2>4, <3>2
      <4>2. nodes[paths[c][k]].risk # "high"
        BY <3>1, <4>1 DEF HighRiskPath
      <4>3. judged[c][k] # "high"
        <5>1. /\ Rank[judged[c][k]] <= Rank[nodes[paths[c][k]].risk]
              /\ nodes[paths[c][k]].risk \in RiskLevel
          <6>1. Rank[judged[c][k]] <= Rank[nodes[paths[c][k]].risk]
            BY <4>1 DEF GraphInv, JudgedFirst
          <6>2. nodes[paths[c][k]] \in Node
            BY <1>3, <4>1 DEF GraphInv, GraphShapes
          <6>. QED BY <6>1, <6>2 DEF Node
        <5>2. judged[c][k] \in RiskLevel
          <6>1. judged[c] \in Seq(RiskLevel) /\ Len(judged[c]) = n
            BY <1>13 DEF GraphInv, JudgedFirst
          <6>. QED BY <3>2, <6>1
        <5>. QED BY <4>2, <5>1, <5>2 DEF RiskLevel, Rank
      <4>. QED BY <4>1, <4>2, <4>3
    <3>3. CASE k = n + 1
      <4>1. k = Len(paths'[d]) /\ judged'[d][k] = risk
        BY <1>2, <1>13, <2>4, <3>3
      <4>. QED BY <3>1, <4>1 DEF HighRiskPath
    <3>4. k \in 1 .. n + 1
      BY <1>6, <2>4
    <3>5. k \in 1 .. n \/ k = n + 1
      BY <1>1, <3>4
    <3>. QED BY ONLY <3>2, <3>3, <3>5
  <2>. QED BY <1>1, <2>2, <2>3, <2>4
<1>12. PathsAreChains'
  <2>1. StepsOf(c)' = StepsOf(c) \cup
          (IF paths[c] = << >> THEN {} ELSE {<<paths[c][n], id>>})
    <3>1. \A k \in 1 .. n - 1 :
            <<paths'[c][k], paths'[c][k + 1]>> = <<paths[c][k], paths[c][k + 1]>>
      BY <1>1, <1>2
    <3>2. n # 0 => <<paths'[c][n], paths'[c][n + 1]>> = <<paths[c][n], id>>
      BY <1>1, <1>2
    <3>3. CASE n = 0
      BY <1>2, <1>6, <3>3 DEF StepsOf, n
    <3>4. CASE n # 0
      <4>1. StepsOf(c)' = {<<paths'[c][k], paths'[c][k + 1]>> : k \in 1 .. n}
        <5>1. StepsOf(c)' = {<<paths'[c][k], paths'[c][k + 1]>> : k \in 1 .. (n + 1) - 1}
          BY <1>2 DEF StepsOf
        <5>2. (n + 1) - 1 = n
          BY <1>1
        <5>. QED BY <5>1, <5>2
      <4>2. StepsOf(c) = {<<paths[c][k], paths[c][k + 1]>> : k \in 1 .. n - 1}
        BY DEF StepsOf, n
      <4>3. 1 .. n = (1 .. n - 1) \cup {n}
        BY <1>1, <3>4
      <4>4. StepsOf(c)' = {<<paths'[c][k], paths'[c][k + 1]>> : k \in 1 .. n - 1}
                           \cup {<<paths'[c][n], paths'[c][n + 1]>>}
        BY <4>1, <4>3
      <4>5. StepsOf(c)' = StepsOf(c) \cup {<<paths[c][n], id>>}
        <5>1. {<<paths'[c][k], paths'[c][k + 1]>> : k \in 1 .. n - 1}
                = {<<paths[c][k], paths[c][k + 1]>> : k \in 1 .. n - 1}
          BY <3>1
        <5>. QED BY <3>2, <3>4, <4>2, <4>4, <5>1
      <4>. QED BY <1>6, <3>4, <4>5
    <3>. QED BY <3>3, <3>4
  <2>2. \A d \in Compartments : d # c =>
          {<<paths'[d][k], paths'[d][k + 1]>> : k \in 1 .. Len(paths'[d]) - 1}
            = {<<paths[d][k], paths[d][k + 1]>> : k \in 1 .. Len(paths[d]) - 1}
    BY <1>2
  <2>3. Transitions = UNION {StepsOf(d) : d \in Compartments}
    BY DEF GraphInv, PathsAreSound, PathsAreChains, Transitions, StepsOf
  <2>4. (Transitions = UNION {StepsOf(d) : d \in Compartments})'
    BY <2>1, <2>2, <2>3 DEF StepsOf, n
  <2>5. \A d \in Compartments : \A k \in DOMAIN paths'[d] :
          /\ nodes'[paths'[d][k]].compartment = d
          /\ nodes'[paths'[d][k]].kind = "capability"
    <3>. SUFFICES ASSUME NEW d \in Compartments, NEW k \in DOMAIN paths'[d]
                  PROVE  /\ nodes'[paths'[d][k]].compartment = d
                         /\ nodes'[paths'[d][k]].kind = "capability"
      OBVIOUS
    <3>1. CASE d # c \/ k \in 1 .. n
      <4>1. k \in DOMAIN paths[d] /\ paths'[d][k] = paths[d][k]
        BY <1>2, <1>6, <3>1
      <4>. QED BY <1>3, <4>1 DEF GraphInv, PathsAreSound, PathsAreChains
    <3>2. CASE d = c /\ k = n + 1
      BY <1>2, <1>5, <3>2
    <3>3. d = c => k \in 1 .. n + 1
      BY <1>6
    <3>4. (d # c \/ k \in 1 .. n) \/ (d = c /\ k = n + 1)
      BY <1>1, <3>3
    <3>. QED BY ONLY <3>1, <3>2, <3>4
  <2>. QED BY <2>4, <2>5 DEF PathsAreChains, Transitions, StepsOf
<1>. QED BY <1>7, <1>8, <1>9, <1>11, <1>12, <1>15 DEF GraphInv, PathsAreSound

\* A call that records something off the path: a refusal and its edge.
LEMMA OffPathStep ==
  ASSUME GraphInv, nodes' \in Seq(Node), Len(nodes') >= Len(nodes),
         \A i \in 1 .. Len(nodes) : nodes'[i] = nodes[i],
         Transitions' = Transitions, UNCHANGED <<rules, policies, paths, judged>>
  PROVE  GraphInv'
<1>1. \A d \in Compartments : \A k \in DOMAIN paths[d] :
        paths[d][k] \in 1 .. Len(nodes) /\ nodes'[paths[d][k]] = nodes[paths[d][k]]
  BY DEF GraphInv, GraphShapes
<1>2. GraphShapes'
  <2>1. Len(nodes) \in Nat /\ Len(nodes') \in Nat
    BY DEF GraphInv, GraphShapes
  <2>. QED BY <1>1, <2>1 DEF GraphInv, GraphShapes
<1>3. PathWithinCeiling'
  BY DEF GraphInv, PathsAreSound, PathWithinCeiling
<1>4. PathIsAuthorised'
  <2>1. ASSUME NEW d \in Compartments, NEW k \in 2 .. Len(paths[d])
        PROVE  Licensed(nodes'[paths'[d][k - 1]].tool, nodes'[paths'[d][k]].tool, judged'[d][k])
    <3>1. paths[d] \in Seq(Nat)
      BY DEF GraphInv, GraphShapes
    <3>2. k - 1 \in DOMAIN paths[d] /\ k \in DOMAIN paths[d]
      BY <3>1
    <3>3. Licensed(nodes[paths[d][k - 1]].tool, nodes[paths[d][k]].tool, judged[d][k])
      BY DEF GraphInv, PathsAreSound, PathIsAuthorised, Licensed
    <3>. QED BY <1>1, <3>2, <3>3
  <2>2. \A from, to, at : Licensed(from, to, at) => Licensed(from, to, at)'
    BY RulesKept DEF Licensed
  <2>. QED BY <2>1, <2>2, PathSteps
<1>5. HighRiskEndsPath'
  <2>1. DOMAIN policies \subseteq Compartments /\ HighRiskEndsPath
    BY DEF GraphInv, GraphShapes, PathsAreSound
  <2>2. ASSUME NEW d \in DOMAIN policies, policies[d].blockOnHighRiskPath,
               NEW k \in DOMAIN paths[d]
        PROVE  /\ nodes'[paths[d][k]].risk = "high" => k = Len(paths[d])
               /\ judged[d][k] = "high" => Len(paths[d]) = 1
    <3>1. nodes'[paths[d][k]] = nodes[paths[d][k]]
      BY <1>1, <2>1
    <3>. QED BY <2>1, <2>2, <3>1 DEF HighRiskEndsPath
  <2>. QED BY <2>2, Zenon DEF HighRiskEndsPath
<1>6. PathsAreChains'
  BY <1>1 DEF GraphInv, PathsAreSound, PathsAreChains, Transitions
<1>7. JudgedFirst'
  BY <1>1 DEF GraphInv, JudgedFirst
<1>. QED BY <1>2, <1>3, <1>4, <1>5, <1>6, <1>7 DEF GraphInv, PathsAreSound

\* The transitions on record after an edge is added.
LEMMA TransitionsGrow ==
  ASSUME NEW c, NEW to, NEW relation, NEW more,
         edges' = (edges \cup EdgeFromPath(c, to, relation)) \cup more,
         \A e \in more : e.relation # "transitioned_to"
  PROVE  /\ relation # "transitioned_to" => Transitions' = Transitions
         /\ relation = "transitioned_to" =>
              Transitions' = Transitions \cup
                (IF paths[c] = << >> THEN {} ELSE {<<paths[c][Len(paths[c])], to>>})
<1>. DEFINE edge == [from |-> paths[c][Len(paths[c])], to |-> to, relation |-> relation]
            Chain(E) == {<<e.from, e.to>> : e \in {x \in E : x.relation = "transitioned_to"}}
<1>1. Chain(edges') = Chain(edges) \cup Chain(EdgeFromPath(c, to, relation))
  OBVIOUS
<1>2. Chain(EdgeFromPath(c, to, relation)) =
        IF paths[c] = << >> \/ relation # "transitioned_to" THEN {}
        ELSE {<<paths[c][Len(paths[c])], to>>}
  <2>1. Chain({}) = {}
    OBVIOUS
  <2>2. ASSUME NEW e PROVE Chain({e}) = IF e.relation = "transitioned_to"
                                         THEN {<<e.from, e.to>>} ELSE {}
    OBVIOUS
  <2>3. edge.from = paths[c][Len(paths[c])] /\ edge.to = to /\ edge.relation = relation
    OBVIOUS
  <2>4. EdgeFromPath(c, to, relation) = IF paths[c] = << >> THEN {} ELSE {edge}
    BY DEF EdgeFromPath
  <2>. HIDE DEF Chain, edge
  <2>. QED BY <2>1, <2>2, <2>3, <2>4
<1>. QED BY <1>1, <1>2 DEF Transitions

\* recordTransition of an admitted transition.
LEMMA TransitionStep ==
  ASSUME GraphInv, NEW c \in Compartments, NEW tool \in Tools, NEW risk \in RiskLevel,
         RecordTransition(c, tool, risk)
  PROVE  GraphInv'
<1>. DEFINE id == Len(nodes) + 1
            node == NewNode("capability", c, tool, risk)
<1>1. /\ nodes' = Append(nodes, node)
      /\ edges' = edges \cup EdgeFromPath(c, id, "transitioned_to")
      /\ paths' = [paths EXCEPT ![c] = Append(@, id)]
      /\ judged' = [judged EXCEPT ![c] = Append(@, risk)]
      /\ Admits(EvaluatePath(c, tool, risk)) /\ UNCHANGED <<rules, policies>>
  BY DEF RecordTransition, RecordCapabilityRequest
<1>2. node \in Node /\ nodes \in Seq(Node)
  BY DEF NewNode, Node, GraphInv, GraphShapes
<1>3. Transitions' = Transitions \cup
        (IF paths[c] = << >> THEN {} ELSE {<<paths[c][Len(paths[c])], id>>})
  <2>. DEFINE none == {}
  <2>1. /\ edges' = (edges \cup EdgeFromPath(c, id, "transitioned_to")) \cup none
        /\ \A e \in none : e.relation # "transitioned_to"
    BY <1>1
  <2>. HIDE DEF id, none
  <2>. QED BY <2>1, TransitionsGrow
<1>. HIDE DEF node
<1>4. /\ nodes' \in Seq(Node) /\ Len(nodes') >= id /\ nodes'[id] = node
      /\ \A i \in 1 .. Len(nodes) : nodes'[i] = nodes[i]
  BY <1>1, <1>2
<1>. QED BY <1>1, <1>3, <1>4, AdvanceStep DEF node

\* The handler's records after an execution evaluatePath admitted.
LEMMA ExecutionStep ==
  ASSUME GraphInv, NEW c \in Compartments, NEW tool \in Tools, NEW risk \in RiskLevel,
         NEW effective \in RiskLevel, RecordExecution(c, tool, risk, effective)
  PROVE  GraphInv'
<1>. DEFINE id == Len(nodes) + 1
            node == NewNode("capability", c, tool, effective)
            execution == NewNode("execution", c, tool, effective)
            executed == {[from |-> id, to |-> id + 1, relation |-> "executed"]}
<1>1. /\ nodes' = nodes \o <<node, execution>>
      /\ edges' = (edges \cup EdgeFromPath(c, id, "transitioned_to")) \cup executed
      /\ paths' = [paths EXCEPT ![c] = Append(@, id)]
      /\ judged' = [judged EXCEPT ![c] = Append(@, risk)]
      /\ effective = risk \/ Rank[effective] > Rank[risk]
      /\ Admits(EvaluatePath(c, tool, risk)) /\ UNCHANGED <<rules, policies>>
  BY DEF RecordExecution
<1>2. node \in Node /\ execution \in Node /\ nodes \in Seq(Node)
  BY DEF NewNode, Node, GraphInv, GraphShapes
<1>3. Transitions' = Transitions \cup
        (IF paths[c] = << >> THEN {} ELSE {<<paths[c][Len(paths[c])], id>>})
  <2>1. \A e \in executed : e.relation # "transitioned_to"
    OBVIOUS
  <2>. HIDE DEF id, executed
  <2>. QED BY <1>1, <2>1, TransitionsGrow
<1>. HIDE DEF node, execution
<1>4. /\ nodes' \in Seq(Node) /\ Len(nodes') >= id /\ nodes'[id] = node
      /\ \A i \in 1 .. Len(nodes) : nodes'[i] = nodes[i]
  BY <1>1, <1>2
<1>. QED BY <1>1, <1>3, <1>4, AdvanceStep DEF node

\* recordTransition of a refused transition.
LEMMA RefusalStep ==
  ASSUME GraphInv, NEW c \in Compartments, NEW tool \in Tools, NEW risk \in RiskLevel,
         RecordRefusal(c, tool, risk)
  PROVE  GraphInv'
<1>. DEFINE id == Len(nodes) + 1
            held == EvaluatePath(c, tool, risk) = "require_approval"
            kind == IF held THEN "approval" ELSE "request"
            relation == IF held THEN "approved" ELSE "blocked"
            node == NewNode(kind, c, tool, risk)
<1>1. /\ nodes' = Append(nodes, node)
      /\ edges' = edges \cup EdgeFromPath(c, id, relation)
      /\ UNCHANGED <<rules, policies, paths, judged>>
  BY DEF RecordRefusal
<1>2. node \in Node /\ nodes \in Seq(Node)
  BY DEF NewNode, Node, GraphInv, GraphShapes
<1>3. Transitions' = Transitions
  <2>1. relation # "transitioned_to"
    OBVIOUS
  <2>. DEFINE none == {}
  <2>2. /\ edges' = (edges \cup EdgeFromPath(c, id, relation)) \cup none
        /\ \A e \in none : e.relation # "transitioned_to"
    BY <1>1
  <2>. HIDE DEF id, none, relation
  <2>. QED BY <2>1, <2>2, TransitionsGrow
<1>. HIDE DEF node
<1>. QED BY <1>1, <1>2, <1>3, OffPathStep

\* A rule may be registered at any time.
LEMMA RuleStep ==
  ASSUME GraphInv, NEW rule \in CandidateRules,
         RegisterTransitionRule(rule)
  PROVE  GraphInv'
<1>1. rules' = Append(rules, rule) /\ UNCHANGED <<policies, paths, judged, nodes, edges>>
  BY DEF RegisterTransitionRule
<1>2. GraphShapes'
  BY <1>1, GraphAssumption DEF GraphInv, GraphShapes
<1>3. PathIsAuthorised'
  <2>1. ASSUME NEW d \in Compartments, NEW k \in 2 .. Len(paths[d])
        PROVE  Licensed(nodes[paths[d][k - 1]].tool, nodes[paths[d][k]].tool, judged[d][k])
    BY DEF GraphInv, PathsAreSound, PathIsAuthorised, Licensed
  <2>2. ASSUME NEW from, NEW to, NEW risk, Licensed(from, to, risk)
        PROVE  Licensed(from, to, risk)'
    BY <1>1, <1>2, <2>2, RuleStays DEF Licensed, GraphInv
  <2>. QED BY <1>1, <2>1, <2>2, PathSteps
<1>4. PathWithinCeiling' /\ HighRiskEndsPath'
  BY <1>1 DEF GraphInv, PathsAreSound, PathWithinCeiling, HighRiskEndsPath
<1>5. PathsAreChains'
  BY <1>1 DEF GraphInv, PathsAreSound, PathsAreChains
<1>6. JudgedFirst'
  BY <1>1 DEF GraphInv, JudgedFirst
<1>. QED BY <1>2, <1>3, <1>4, <1>5, <1>6 DEF GraphInv, PathsAreSound

\* A compartment's first policy comes before its path begins.
LEMMA PolicyStep ==
  ASSUME GraphInv, NEW c \in Compartments,
         NEW policy \in CandidatePolicies[c], RegisterIsolationPolicy(c, policy)
  PROVE  GraphInv'
<1>1. /\ c \notin DOMAIN policies /\ DOMAIN policies' = DOMAIN policies \cup {c}
      /\ policies'[c] = policy /\ \A d \in DOMAIN policies : policies'[d] = policies[d]
      /\ UNCHANGED <<rules, paths, judged, nodes, edges>>
  BY DEF RegisterIsolationPolicy
<1>2. policy \in Policy
  BY GraphAssumption
<1>3. GraphShapes'
  BY <1>1, <1>2 DEF GraphInv, GraphShapes
<1>4. paths[c] = << >> /\ Len(paths[c]) = 0
  BY <1>1 DEF GraphInv, GraphShapes, PathsAreSound, PathWithinCeiling
<1>5. PathWithinCeiling'
  BY <1>1, <1>2, <1>4 DEF GraphInv, PathsAreSound, PathWithinCeiling, Policy
<1>6. HighRiskEndsPath'
  BY <1>1, <1>4 DEF GraphInv, PathsAreSound, HighRiskEndsPath
<1>7. PathIsAuthorised'
  <2>1. ASSUME NEW d \in Compartments, NEW k \in 2 .. Len(paths[d])
        PROVE  Licensed(nodes[paths[d][k - 1]].tool, nodes[paths[d][k]].tool, judged[d][k])
    BY DEF GraphInv, PathsAreSound, PathIsAuthorised, Licensed
  <2>2. \A from, to, at : Licensed(from, to, at) => Licensed(from, to, at)'
    BY <1>1, RulesKept DEF Licensed
  <2>. QED BY <1>1, <2>1, <2>2, PathSteps
<1>8. PathsAreChains'
  BY <1>1 DEF GraphInv, PathsAreSound, PathsAreChains
<1>9. JudgedFirst'
  BY <1>1 DEF GraphInv, JudgedFirst
<1>. QED BY <1>3, <1>5, <1>6, <1>7, <1>8, <1>9 DEF GraphInv, PathsAreSound

\* The empty graph, at the start and after clear.
LEMMA EmptyGraph == Init => GraphInv
<1>. SUFFICES ASSUME Init PROVE GraphInv
  OBVIOUS
<1>1. /\ rules = << >> /\ policies = << >> /\ nodes = << >> /\ edges = {}
      /\ paths = [c \in Compartments |-> << >>] /\ judged = [c \in Compartments |-> << >>]
  BY DEF Init
<1>2. GraphShapes /\ JudgedFirst
  BY <1>1 DEF GraphShapes, JudgedFirst
<1>3. PathWithinCeiling /\ PathIsAuthorised /\ HighRiskEndsPath
  BY <1>1 DEF PathWithinCeiling, PathIsAuthorised, HighRiskEndsPath
<1>4. PathsAreChains
  BY <1>1 DEF PathsAreChains
<1>. QED BY <1>2, <1>3, <1>4 DEF GraphInv, PathsAreSound

\* Clearing leaves the empty graph.
LEMMA ClearStep == Clear => GraphInv'
<1>1. Clear => Init'
  BY DEF Clear, Init
<1>2. (Init => GraphInv)'
  BY EmptyGraph, PTL
<1>. QED BY <1>1, <1>2

\* Every call of the graph keeps every path sound.
LEMMA GraphStep == GraphInv /\ [Next]_vars => GraphInv'
<1>. SUFFICES ASSUME GraphInv, [Next]_vars PROVE GraphInv'
  OBVIOUS
<1>1. ASSUME NEW rule \in CandidateRules, RegisterTransitionRule(rule) PROVE GraphInv'
  BY <1>1, RuleStep
<1>2. ASSUME NEW c \in Compartments, NEW policy \in CandidatePolicies[c],
             RegisterIsolationPolicy(c, policy)
      PROVE  GraphInv'
  BY <1>2, PolicyStep
<1>3. ASSUME NEW c \in Compartments, NEW tool \in Tools, NEW risk \in RiskLevel,
             \/ RecordTransition(c, tool, risk)
             \/ RecordRefusal(c, tool, risk)
             \/ \E effective \in RiskLevel : RecordExecution(c, tool, risk, effective)
      PROVE  GraphInv'
  BY <1>3, TransitionStep, RefusalStep, ExecutionStep
<1>4. CASE Clear
  BY <1>4, ClearStep
<1>5. CASE UNCHANGED vars
  <2>1. nodes \in Seq(Node) /\ Len(nodes) \in Nat
    BY DEF GraphInv, GraphShapes
  <2>2. Transitions' = Transitions
    BY <1>5 DEF Transitions, vars
  <2>. QED BY <1>5, <2>1, <2>2, OffPathStep DEF vars
<1>. QED BY <1>1, <1>2, <1>3, <1>4, <1>5 DEF Next

\* Whatever is refused, recorded, registered and cleared in between: paths stay
\* within their policy's ceiling, every tool change on them is licensed by the
\* rule in force at the risk it was judged at, nothing follows a high-risk step
\* where the policy blocks it, though limits or defence may have raised the risk
\* on record meanwhile, and the transitions on record are exactly the steps.
THEOREM GraphPathsSound == Spec => []PathsAreSound
<1>1. Init => GraphInv
  BY EmptyGraph
<1>2. GraphInv /\ [Next]_vars => GraphInv'
  BY GraphStep
<1>3. GraphInv => PathsAreSound
  BY DEF GraphInv
<1>. QED BY <1>1, <1>2, <1>3, PTL DEF Spec

-----------------------------------------------------------------------------
(* The legacy server: sessions and user agents are numbered as they are made  *)
(* up, so what is new differs from whatever any identity or call still holds. *)

AgentName == {UserAgents[i] : i \in DOMAIN UserAgents} \cup {"none"}
Phase == {"idle", "refused", "greeting", "auth", "reply", "http", "answered", "failed"}

Identity ==
  [session : Nat \ {0}, transport : Legacy!Transports, agent : AgentName \X Nat,
   dns : {"system", "remote"}, created : Nat, access : Nat]

Call ==
  [phase : Phase, compartment : LegacyCompartments \cup {"none"},
   transport : Legacy!Transports \cup {"none"},
   session : Nat, agent : AgentName \X Nat, credential : Nat]

LegacyTypes ==
  /\ now \in Nat /\ minted \in Nat
  /\ records \in [LegacyCompartments -> Identity \cup {Legacy!NoIdentity}]
  /\ calls \in [Calls -> Call]

\* Nothing carries a number that has not been handed out, and what a call tells
\* the proxy is its own session.
Numbered ==
  /\ \A c \in Legacy!Live : records[c].session <= minted /\ records[c].agent[2] <= minted
  /\ \A k \in Calls : /\ calls[k].session <= minted
                      /\ calls[k].credential \in {0, calls[k].session}
                      /\ k \in Legacy!Sent => calls[k].session # 0

\* Live identities differ, and a session a call holds determines where it belongs.
Apart ==
  /\ \A c, d \in Legacy!Live :
       c # d => records[c].session # records[d].session /\ records[c].agent # records[d].agent
  /\ \A j, k \in Calls :
       calls[j].session = calls[k].session /\ calls[j].session # 0 =>
         /\ calls[j].transport = calls[k].transport
         /\ calls[j].compartment = calls[k].compartment
  /\ \A k \in Calls, c \in Legacy!Live :
       calls[k].session = records[c].session =>
         c = calls[k].compartment /\ records[c].transport = calls[k].transport

LegacyInv == LegacyTypes /\ Numbered /\ Apart

\* A compartment has an identity exactly when it has a session.
LEMMA LiveHasSession ==
  ASSUME LegacyTypes
  PROVE  /\ Legacy!Live \subseteq LegacyCompartments
         /\ \A c \in LegacyCompartments :
              /\ c \in Legacy!Live <=> records[c].session # 0
              /\ c \in Legacy!Live <=> records[c] \in Identity
BY DEF LegacyTypes, Legacy!Live, Legacy!NoIdentity, Identity

\* The same of the next state.
LEMMA LiveHasSessionNext ==
  ASSUME LegacyTypes'
  PROVE  /\ Legacy!Live' \subseteq LegacyCompartments
         /\ \A c \in LegacyCompartments :
              /\ c \in Legacy!Live' <=> records'[c].session # 0
              /\ c \in Legacy!Live' <=> records'[c] \in Identity
BY DEF LegacyTypes, Legacy!Live, Legacy!NoIdentity, Identity

\* pickUserAgent gives an agent nobody else uses: a free one of the pool, or a
\* variant with a number of its own.
LEMMA PickedIsFresh ==
  ASSUME NEW used \in SUBSET (AgentName \X Nat), NEW avoid, NEW fresh \in Nat,
         \A agent \in used : agent[2] < fresh
  PROVE  /\ Legacy!PickUserAgent(used, avoid, fresh) \in AgentName \X Nat
         /\ Legacy!PickUserAgent(used, avoid, fresh)[2] <= fresh
         /\ Legacy!PickUserAgent(used, avoid, fresh) \notin used
<1>. DEFINE free == {i \in DOMAIN UserAgents : <<UserAgents[i], 0>> \notin used \cup avoid}
<1>1. UserAgents \in Seq(STRING) /\ UserAgents # << >>
  BY LegacyConstants DEF Legacy!LegacyAssumption
<1>2. \A i \in DOMAIN UserAgents : UserAgents[i] \in AgentName /\ i \in Nat
  BY <1>1 DEF AgentName
<1>3. 1 \in DOMAIN UserAgents
  BY <1>1
<1>4. CASE free = {}
  <2>1. Legacy!PickUserAgent(used, avoid, fresh) = <<UserAgents[1], fresh>>
    BY <1>4 DEF Legacy!PickUserAgent
  <2>. QED BY <2>1, <1>2, <1>3
<1>5. CASE free # {}
  <2>1. PICK i \in free : \A j \in free : i <= j
    <3>1. free \in SUBSET (1 .. Len(UserAgents)) /\ Len(UserAgents) \in Nat
      BY <1>1
    <3>. QED BY <3>1, <1>5, FirstPosition
  <2>2. Legacy!Min(free) \in free
    BY <2>1 DEF Legacy!Min
  <2>3. Legacy!PickUserAgent(used, avoid, fresh) = <<UserAgents[Legacy!Min(free)], 0>>
    BY <1>5 DEF Legacy!PickUserAgent
  <2>. QED BY <2>2, <2>3, <1>2
<1>. QED BY <1>4, <1>5

\* The user agents of the other identities are pairs with a number handed out.
LEMMA OthersAgents ==
  ASSUME LegacyInv, NEW c \in LegacyCompartments
  PROVE  /\ Legacy!UsedByOthers(c) \in SUBSET (AgentName \X Nat)
         /\ \A agent \in Legacy!UsedByOthers(c) : agent[2] < minted + 1
<1>1. \A d \in Legacy!Live : records[d].agent \in AgentName \X Nat /\ records[d].agent[2] <= minted
  BY LiveHasSession DEF LegacyInv, LegacyTypes, Numbered, Identity
<1>. QED BY <1>1 DEF Legacy!UsedByOthers, LegacyInv, LegacyTypes

\* Identities may be accessed or destroyed, calls may move on with the session
\* they hold: nothing new appears.
LEMMA NothingNew ==
  ASSUME LegacyInv, LegacyTypes', minted' = minted,
         \A c \in Legacy!Live' :
           /\ c \in Legacy!Live
           /\ records'[c].session = records[c].session
           /\ records'[c].agent = records[c].agent
           /\ records'[c].transport = records[c].transport,
         \A k \in Calls :
           \/ calls'[k].session = 0 /\ calls'[k].credential = 0 /\ k \notin Legacy!Sent'
           \/ /\ calls'[k].session = calls[k].session
              /\ calls'[k].transport = calls[k].transport
              /\ calls'[k].compartment = calls[k].compartment
              /\ calls'[k].credential \in {0, calls[k].session}
              /\ k \in Legacy!Sent' => k \in Legacy!Sent
  PROVE  LegacyInv'
<1>1. Numbered'
  BY DEF LegacyInv, Numbered, LegacyTypes
<1>2. Apart'
  <2>1. \A c, d \in Legacy!Live' :
          c # d => records'[c].session # records'[d].session /\ records'[c].agent # records'[d].agent
    BY DEF LegacyInv, Apart
  <2>2. \A j, k \in Calls :
          calls'[j].session = calls'[k].session /\ calls'[j].session # 0 =>
            /\ calls'[j].transport = calls'[k].transport
            /\ calls'[j].compartment = calls'[k].compartment
    BY DEF LegacyInv, Apart
  <2>3. \A k \in Calls, c \in Legacy!Live' :
          calls'[k].session = records'[c].session =>
            c = calls'[k].compartment /\ records'[c].transport = calls'[k].transport
    BY LiveHasSession DEF LegacyInv, Apart
  <2>. QED BY <2>1, <2>2, <2>3 DEF Apart
<1>. QED BY <1>1, <1>2 DEF LegacyInv

\* One compartment gets an identity with a new number, everyone else keeps theirs.
LEMMA OneIdentityMinted ==
  ASSUME LegacyInv, LegacyTypes', NEW c \in LegacyCompartments,
         minted' = minted + 1,
         c \in Legacy!Live', records'[c].session = minted + 1,
         records'[c].agent[2] <= minted + 1, records'[c].agent \notin Legacy!UsedByOthers(c),
         \A d \in LegacyCompartments : d # c => records'[d] = records[d],
         \A k \in Calls :
           \/ /\ calls'[k].session = minted + 1
              /\ calls'[k].compartment = c
              /\ calls'[k].transport = records'[c].transport
              /\ calls'[k].credential = 0
           \/ calls'[k] = calls[k]
  PROVE  LegacyInv'
<1>1. \A d \in Legacy!Live' : d # c => d \in Legacy!Live /\ records'[d] = records[d]
  BY LiveHasSessionNext, LiveHasSession DEF LegacyInv
<1>2. \A d \in Legacy!Live : records[d].session <= minted /\ records[d].session \in Nat
  BY LiveHasSession DEF LegacyInv, LegacyTypes, Numbered, Identity
<1>3. \A k \in Calls : calls[k].session <= minted /\ calls[k].session \in Nat
  BY DEF LegacyInv, LegacyTypes, Numbered, Call
<1>4. \A d \in Legacy!Live' : d # c => records'[c].agent # records'[d].agent
  BY <1>1 DEF Legacy!UsedByOthers
<1>5. minted \in Nat
  BY DEF LegacyInv, LegacyTypes
<1>6. Numbered'
  <2>1. \A d \in Legacy!Live' :
          records'[d].session <= minted' /\ records'[d].agent[2] <= minted'
    <3>. SUFFICES ASSUME NEW d \in Legacy!Live', d # c
                  PROVE  records'[d].session <= minted' /\ records'[d].agent[2] <= minted'
      BY <1>5
    <3>1. records[d].agent[2] <= minted /\ records[d].agent[2] \in Nat
      BY <1>1, LiveHasSession DEF LegacyInv, LegacyTypes, Numbered, Identity
    <3>. QED BY <3>1, <1>1, <1>2, <1>5
  <2>2. \A k \in Calls : /\ calls'[k].session <= minted'
                         /\ calls'[k].credential \in {0, calls'[k].session}
                         /\ k \in Legacy!Sent' => calls'[k].session # 0
    <3>. SUFFICES ASSUME NEW k \in Calls
                  PROVE  /\ calls'[k].session <= minted'
                         /\ calls'[k].credential \in {0, calls'[k].session}
                         /\ k \in Legacy!Sent' => calls'[k].session # 0
      OBVIOUS
    <3>1. CASE calls'[k] = calls[k]
      BY <3>1, <1>3, <1>5 DEF LegacyInv, Numbered, Legacy!Sent
    <3>. QED BY <3>1, <1>5
  <2>. QED BY <2>1, <2>2 DEF Numbered
<1>7. Apart'
  <2>1. \A b, d \in Legacy!Live' :
          b # d => records'[b].session # records'[d].session /\ records'[b].agent # records'[d].agent
    BY <1>1, <1>2, <1>4, <1>5 DEF LegacyInv, Apart
  <2>2. \A j, k \in Calls :
          calls'[j].session = calls'[k].session /\ calls'[j].session # 0 =>
            /\ calls'[j].transport = calls'[k].transport
            /\ calls'[j].compartment = calls'[k].compartment
    BY <1>3, <1>5 DEF LegacyInv, Apart
  <2>3. \A k \in Calls, d \in Legacy!Live' :
          calls'[k].session = records'[d].session =>
            d = calls'[k].compartment /\ records'[d].transport = calls'[k].transport
    BY <1>1, <1>2, <1>3, <1>5 DEF LegacyInv, Apart
  <2>. QED BY <2>1, <2>2, <2>3 DEF Apart
<1>. QED BY <1>6, <1>7 DEF LegacyInv

\* What a call is handed belongs to the compartment and transport it asked for.
LEMMA HandedOver ==
  ASSUME LegacyTypes, NEW k \in Calls, NEW d \in LegacyDecisions, NEW identity \in Identity,
         Legacy!Begin(k, d, identity)
  PROVE  /\ calls' \in [Calls -> Call]
         /\ calls'[k].session = identity.session /\ calls'[k].credential = 0
         /\ calls'[k].compartment = d.compartment /\ calls'[k].transport = d.transport
         /\ \A j \in Calls \ {k} : calls'[j] = calls[j]
<1>1. d.compartment \in LegacyCompartments /\ d.transport \in Legacy!Transports
  BY LegacyConstants DEF Legacy!LegacyAssumption
<1>. DEFINE phase == IF ~Legacy!ClientCanBeBuilt(d.transport, identity.dns) THEN "failed"
                     ELSE IF d.transport = "direct" THEN "http" ELSE "greeting"
            call == [phase |-> phase, compartment |-> d.compartment, transport |-> d.transport,
                     session |-> identity.session, agent |-> identity.agent, credential |-> 0]
<1>2. calls' = [calls EXCEPT ![k] = call]
  BY DEF Legacy!Begin
<1>3. phase \in Phase
  BY DEF Phase
<1>4. identity.session \in Nat /\ identity.agent \in AgentName \X Nat
  BY DEF Identity
<1>. HIDE DEF phase
<1>5. call \in Call
  BY <1>1, <1>3, <1>4 DEF Call
<1>6. call.session = identity.session /\ call.credential = 0
      /\ call.compartment = d.compartment /\ call.transport = d.transport
  OBVIOUS
<1>. HIDE DEF call
<1>. QED BY <1>2, <1>5, <1>6 DEF LegacyTypes

\* A session that is reused is the compartment's own and over the same transport.
LEMMA BindStep ==
  ASSUME LegacyInv, NEW k \in Calls, NEW d \in LegacyDecisions, Legacy!Bind(k, d), UNCHANGED now
  PROVE  LegacyInv'
<1>. DEFINE c == d.compartment
<1>1. PICK identity \in Legacy!Current(c) :
        /\ identity.transport = d.transport
        /\ records' = [records EXCEPT ![c].access = now]
        /\ Legacy!Begin(k, d, identity)
        /\ UNCHANGED minted
  BY DEF Legacy!Bind
<1>2. c \in Legacy!Live /\ identity = records[c] /\ c \in LegacyCompartments
  BY LiveHasSession DEF Legacy!Current, LegacyInv
<1>3. identity \in Identity
  BY <1>2, LiveHasSession DEF LegacyInv
<1>. HIDE DEF c
<1>4. /\ calls' \in [Calls -> Call]
      /\ calls'[k].session = identity.session /\ calls'[k].credential = 0
      /\ calls'[k].compartment = c /\ calls'[k].transport = d.transport
      /\ \A j \in Calls \ {k} : calls'[j] = calls[j]
  BY <1>1, <1>3, HandedOver DEF LegacyInv, c
<1>5. /\ records' \in [LegacyCompartments -> Identity \cup {Legacy!NoIdentity}]
      /\ \A e \in LegacyCompartments :
           /\ records'[e].session = records[e].session
           /\ e \in Legacy!Live =>
                records'[e].agent = records[e].agent /\ records'[e].transport = records[e].transport
  BY <1>1, <1>2, <1>3 DEF LegacyInv, LegacyTypes, Identity
<1>6. LegacyTypes'
  BY <1>1, <1>4, <1>5 DEF LegacyInv, LegacyTypes
<1>7. Legacy!Live' = Legacy!Live
  BY <1>5, <1>6, LiveHasSession, LiveHasSessionNext DEF LegacyInv
<1>8. records[c].session # 0 /\ records[c].session <= minted
  BY <1>2, LiveHasSession DEF LegacyInv, Numbered
<1>9. \A j \in Calls : /\ calls'[j].session <= minted
                       /\ calls'[j].credential \in {0, calls'[j].session}
                       /\ j \in Legacy!Sent' => calls'[j].session # 0
  BY <1>2, <1>4, <1>8 DEF LegacyInv, Numbered, Legacy!Sent
<1>10. Numbered'
  BY <1>1, <1>5, <1>7, <1>9, LiveHasSession DEF LegacyInv, Numbered
<1>11. \A j \in Calls \ {k} :
         calls[j].session = records[c].session =>
           calls[j].compartment = c /\ calls[j].transport = records[c].transport
  BY <1>2 DEF LegacyInv, Apart
<1>12. \A i, j \in Calls :
         calls'[i].session = calls'[j].session /\ calls'[i].session # 0 =>
           /\ calls'[i].transport = calls'[j].transport
           /\ calls'[i].compartment = calls'[j].compartment
  <2>. SUFFICES ASSUME NEW i \in Calls, NEW j \in Calls,
                       calls'[i].session = calls'[j].session, calls'[i].session # 0
                PROVE  /\ calls'[i].transport = calls'[j].transport
                       /\ calls'[i].compartment = calls'[j].compartment
    OBVIOUS
  <2>1. CASE i # k /\ j # k
    BY <2>1, <1>4 DEF LegacyInv, Apart
  <2>2. CASE i = k \/ j = k
    BY <2>2, <1>1, <1>2, <1>4, <1>11
  <2>. QED BY <2>1, <2>2
<1>13. \A j \in Calls, e \in Legacy!Live' :
         calls'[j].session = records'[e].session =>
           e = calls'[j].compartment /\ records'[e].transport = calls'[j].transport
  BY <1>1, <1>2, <1>4, <1>5, <1>7, LiveHasSession DEF LegacyInv, Apart
<1>14. Apart'
  BY <1>5, <1>7, <1>12, <1>13, LiveHasSession DEF LegacyInv, Apart
<1>. QED BY <1>6, <1>10, <1>14 DEF LegacyInv

\* A request for another transport is refused; it has accessed the identity.
LEMMA RefuseMixingStep ==
  ASSUME LegacyInv, NEW k \in Calls, NEW d \in LegacyDecisions, Legacy!RefuseMixing(k, d), UNCHANGED now
  PROVE  LegacyInv'
<1>. DEFINE c == d.compartment
<1>1. /\ c \in Legacy!Live /\ c \in LegacyCompartments
      /\ records' = [records EXCEPT ![c].access = now]
      /\ calls' = [calls EXCEPT ![k] = [Legacy!NoCall EXCEPT !.phase = "refused"]]
      /\ UNCHANGED minted
  BY LiveHasSession DEF Legacy!RefuseMixing, Legacy!Current, LegacyInv
<1>. HIDE DEF c
<1>2. records[c] \in Identity
  BY <1>1, LiveHasSession DEF LegacyInv
<1>3. /\ records' \in [LegacyCompartments -> Identity \cup {Legacy!NoIdentity}]
      /\ \A e \in LegacyCompartments :
           /\ records'[e].session = records[e].session
           /\ e \in Legacy!Live =>
                records'[e].agent = records[e].agent /\ records'[e].transport = records[e].transport
  BY <1>1, <1>2 DEF LegacyInv, LegacyTypes, Identity
<1>4. calls' \in [Calls -> Call]
  <2>1. <<"none", 0>> \in AgentName \X Nat
    BY DEF AgentName
  <2>2. [Legacy!NoCall EXCEPT !.phase = "refused"] \in Call
    BY <2>1 DEF Call, Legacy!NoCall, Phase
  <2>. QED BY <1>1, <2>2 DEF LegacyInv, LegacyTypes
<1>5. LegacyTypes'
  BY <1>1, <1>3, <1>4 DEF LegacyInv, LegacyTypes
<1>6. Legacy!Live' = Legacy!Live
  BY <1>3, <1>5, LiveHasSession, LiveHasSessionNext DEF LegacyInv
<1>7. calls'[k].session = 0 /\ calls'[k].credential = 0 /\ k \notin Legacy!Sent'
  BY <1>1 DEF LegacyInv, LegacyTypes, Legacy!NoCall, Legacy!Sent
<1>8. \A j \in Calls \ {k} :
        /\ calls'[j] = calls[j]
        /\ calls'[j].credential \in {0, calls[j].session}
        /\ j \in Legacy!Sent' => j \in Legacy!Sent
  BY <1>1 DEF LegacyInv, LegacyTypes, Numbered, Legacy!Sent
<1>. QED BY <1>1, <1>3, <1>5, <1>6, <1>7, <1>8, LiveHasSession, NothingNew DEF LegacyInv

\* An identity that is created has a session and a user agent of its own.
LEMMA BindNewStep ==
  ASSUME LegacyInv, NEW k \in Calls, NEW d \in LegacyDecisions, Legacy!BindNew(k, d), UNCHANGED now
  PROVE  LegacyInv'
<1>. DEFINE c == d.compartment
            identity == Legacy!NewIdentity(c, d.transport)
<1>1. /\ records' = [records EXCEPT ![c] = identity]
      /\ Legacy!Begin(k, d, identity)
      /\ minted' = minted + 1
  BY DEF Legacy!BindNew
<1>2. c \in LegacyCompartments /\ d.transport \in Legacy!Transports
  BY LegacyConstants DEF Legacy!LegacyAssumption
<1>3. minted \in Nat /\ now \in Nat
  BY DEF LegacyInv, LegacyTypes
<1>4. /\ identity.agent \in AgentName \X Nat /\ identity.agent[2] <= minted + 1
      /\ identity.agent \notin Legacy!UsedByOthers(c)
      /\ identity.session = minted + 1 /\ identity.transport = d.transport
  BY <1>2, <1>3, OthersAgents, PickedIsFresh DEF Legacy!NewIdentity
<1>5. identity \in Identity
  <2>1. minted + 1 \in Nat \ {0}
    BY <1>3
  <2>2. Legacy!PickUserAgent(Legacy!UsedByOthers(c), {}, minted + 1) \in AgentName \X Nat
    BY <1>4 DEF Legacy!NewIdentity
  <2>. QED BY <1>2, <1>3, <2>1, <2>2 DEF Legacy!NewIdentity, Identity
<1>. HIDE DEF identity
<1>6. /\ calls' \in [Calls -> Call]
      /\ calls'[k].session = identity.session /\ calls'[k].credential = 0
      /\ calls'[k].compartment = c /\ calls'[k].transport = d.transport
      /\ \A j \in Calls \ {k} : calls'[j] = calls[j]
  BY <1>1, <1>5, HandedOver DEF LegacyInv
<1>. HIDE DEF c
<1>7. /\ records' \in [LegacyCompartments -> Identity \cup {Legacy!NoIdentity}]
      /\ records'[c] = identity
      /\ \A e \in LegacyCompartments : e # c => records'[e] = records[e]
  BY <1>1, <1>2, <1>5 DEF LegacyInv, LegacyTypes
<1>8. LegacyTypes'
  BY <1>1, <1>3, <1>6, <1>7 DEF LegacyTypes
<1>9. c \in Legacy!Live'
  BY <1>2, <1>5, <1>7, <1>8, LiveHasSessionNext
<1>. QED BY <1>1, <1>2, <1>4, <1>6, <1>7, <1>8, <1>9, OneIdentityMinted

\* A rotation replaces session and user agent by new ones; calls keep the old.
LEMMA RotateStep ==
  ASSUME LegacyInv, NEW c \in LegacyCompartments, Legacy!Rotate(c)
  PROVE  LegacyInv'
<1>. DEFINE agent == Legacy!PickUserAgent(Legacy!UsedByOthers(c), {records[c].agent}, minted + 1)
<1>1. /\ c \in Legacy!Live
      /\ records' = [records EXCEPT ![c].session = minted + 1, ![c].access = now,
                                    ![c].agent = agent]
      /\ minted' = minted + 1
      /\ UNCHANGED <<calls, now>>
  BY DEF Legacy!Rotate
<1>2. minted \in Nat /\ now \in Nat
  BY DEF LegacyInv, LegacyTypes
<1>3. /\ agent \in AgentName \X Nat /\ agent[2] <= minted + 1
      /\ agent \notin Legacy!UsedByOthers(c)
  BY <1>2, OthersAgents, PickedIsFresh
<1>. HIDE DEF agent
<1>4. records[c] \in Identity
  BY <1>1, LiveHasSession DEF LegacyInv
<1>5. records'[c] \in Identity /\ records'[c].session = minted + 1 /\ records'[c].agent = agent
  <2>. DEFINE record == [records[c] EXCEPT !.session = minted + 1, !.access = now,
                                           !.agent = agent]
  <2>1. records'[c] = record
    BY <1>1 DEF LegacyInv, LegacyTypes
  <2>2. minted + 1 \in Nat \ {0}
    BY <1>2
  <2>3. record \in Identity
    BY <1>2, <1>3, <1>4, <2>2 DEF Identity
  <2>4. record.session = minted + 1 /\ record.agent = agent
    BY <1>4 DEF Identity
  <2>. QED BY <2>1, <2>3, <2>4
<1>6. /\ records' \in [LegacyCompartments -> Identity \cup {Legacy!NoIdentity}]
      /\ \A e \in LegacyCompartments : e # c => records'[e] = records[e]
  BY <1>1, <1>5 DEF LegacyInv, LegacyTypes
<1>7. LegacyTypes'
  BY <1>1, <1>2, <1>6 DEF LegacyInv, LegacyTypes
<1>8. c \in Legacy!Live'
  BY <1>5, <1>7, LiveHasSessionNext
<1>. QED BY <1>1, <1>3, <1>5, <1>6, <1>7, <1>8, OneIdentityMinted

\* A call that moves on with what it holds.
LEMMA MoveStep ==
  ASSUME LegacyInv, UNCHANGED <<minted, now>>, NEW k \in Calls, NEW phase \in Phase,
         NEW credential \in {calls[k].credential, calls[k].session},
         phase = "refused" \/ k \in Legacy!Sent \/ phase = "failed",
         calls' = [calls EXCEPT ![k].phase = phase, ![k].credential = credential],
         records' \in [LegacyCompartments -> Identity \cup {Legacy!NoIdentity}],
         \A c \in LegacyCompartments :
           /\ records'[c].session = records[c].session
           /\ c \in Legacy!Live =>
                records'[c].agent = records[c].agent /\ records'[c].transport = records[c].transport
  PROVE  LegacyInv'
<1>1. credential \in Nat /\ credential \in {0, calls[k].session}
  BY DEF LegacyInv, LegacyTypes, Numbered, Call
<1>2. calls' \in [Calls -> Call]
  <2>1. calls[k] \in Call
    BY DEF LegacyInv, LegacyTypes
  <2>2. [calls[k] EXCEPT !.phase = phase, !.credential = credential] \in Call
    BY <1>1, <2>1 DEF Call
  <2>. QED BY <2>2 DEF LegacyInv, LegacyTypes
<1>3. LegacyTypes'
  BY <1>2 DEF LegacyInv, LegacyTypes
<1>4. Legacy!Live' = Legacy!Live
  BY <1>3, LiveHasSession, LiveHasSessionNext DEF LegacyInv
<1>5. \A j \in Calls :
        /\ calls'[j].session = calls[j].session
        /\ calls'[j].transport = calls[j].transport
        /\ calls'[j].compartment = calls[j].compartment
        /\ calls'[j].credential \in {0, calls[j].session}
        /\ j \in Legacy!Sent' => j \in Legacy!Sent
  BY <1>1 DEF LegacyInv, LegacyTypes, Numbered, Call, Legacy!Sent
<1>. QED BY <1>3, <1>4, <1>5, LiveHasSession, NothingNew DEF LegacyInv

\* The steps of a call that leave the identities alone.
LEMMA CallStep ==
  ASSUME LegacyInv, NEW k \in Calls,
         \/ Legacy!Refuse(k)
         \/ \E method \in {"password", "none", "other"} : Legacy!Greet(k, method)
         \/ \E ok \in BOOLEAN : Legacy!Authenticate(k, ok) \/ Legacy!Connect(k, ok)
         \/ Legacy!Fail(k)
  PROVE  LegacyInv'
<1>1. PICK phase \in Phase, credential \in {calls[k].credential, calls[k].session} :
        /\ phase = "refused" \/ k \in Legacy!Sent \/ phase = "failed"
        /\ calls' = [calls EXCEPT ![k].phase = phase, ![k].credential = credential]
        /\ UNCHANGED <<records, minted, now>>
  <2>1. \A phase \in Phase :
          calls' = [calls EXCEPT ![k].phase = phase] =>
            calls' = [calls EXCEPT ![k].phase = phase, ![k].credential = calls[k].credential]
    <3>. SUFFICES ASSUME NEW phase \in Phase
                  PROVE  [calls EXCEPT ![k].phase = phase] =
                         [calls EXCEPT ![k].phase = phase, ![k].credential = calls[k].credential]
      OBVIOUS
    <3>1. calls[k] \in Call
      BY DEF LegacyInv, LegacyTypes
    <3>2. [calls[k] EXCEPT !.phase = phase] =
          [calls[k] EXCEPT !.phase = phase, !.credential = calls[k].credential]
      BY <3>1 DEF Call
    <3>. QED BY <3>2 DEF LegacyInv, LegacyTypes
  <2>2. CASE Legacy!Refuse(k)
    BY <2>1, <2>2 DEF Legacy!Refuse, Phase
  <2>3. CASE Legacy!Fail(k)
    BY <2>1, <2>3 DEF Legacy!Fail, Legacy!Move, Phase
  <2>4. ASSUME NEW ok \in BOOLEAN, Legacy!Authenticate(k, ok) \/ Legacy!Connect(k, ok)
        PROVE  \E phase \in Phase :
                 /\ k \in Legacy!Sent
                 /\ calls' = [calls EXCEPT ![k].phase = phase]
                 /\ UNCHANGED <<records, minted, now>>
    BY <2>4 DEF Legacy!Authenticate, Legacy!Connect, Legacy!Move, Legacy!Sent, Phase
  <2>5. ASSUME NEW method \in {"password", "none", "other"}, Legacy!Greet(k, method)
        PROVE  /\ k \in Legacy!Sent
               /\ UNCHANGED <<records, minted, now>>
               /\ \/ calls' = [calls EXCEPT ![k].phase = "auth", ![k].credential = calls[k].session]
                  \/ \E phase \in Phase : calls' = [calls EXCEPT ![k].phase = phase]
    BY <2>5 DEF Legacy!Greet, Legacy!Move, Legacy!Sent, Phase
  <2>6. CASE \E ok \in BOOLEAN : Legacy!Authenticate(k, ok) \/ Legacy!Connect(k, ok)
    BY <2>1, <2>4, <2>6
  <2>7. CASE \E method \in {"password", "none", "other"} : Legacy!Greet(k, method)
    BY <2>1, <2>5, <2>7 DEF Phase
  <2>. QED BY <2>2, <2>3, <2>6, <2>7
<1>2. /\ records' \in [LegacyCompartments -> Identity \cup {Legacy!NoIdentity}]
      /\ \A c \in LegacyCompartments : records'[c] = records[c]
  BY <1>1 DEF LegacyInv, LegacyTypes
<1>. QED BY <1>1, <1>2, MoveStep

\* A late answer accesses whatever identity the compartment has by then.
LEMMA AnswerStep ==
  ASSUME LegacyInv, NEW k \in Calls, Legacy!Answer(k)
  PROVE  LegacyInv'
<1>. DEFINE c == calls[k].compartment
<1>1. /\ k \in Legacy!Sent
      /\ calls' = [calls EXCEPT ![k].phase = "answered"]
      /\ records' = IF c \in Legacy!Live THEN [records EXCEPT ![c].access = now] ELSE records
      /\ UNCHANGED <<minted, now>>
  BY DEF Legacy!Answer, Legacy!Move, Legacy!Sent
<1>. HIDE DEF c
<1>2. calls' = [calls EXCEPT ![k].phase = "answered", ![k].credential = calls[k].credential]
  <2>1. calls[k] \in Call
    BY DEF LegacyInv, LegacyTypes
  <2>2. [calls[k] EXCEPT !.phase = "answered"] =
        [calls[k] EXCEPT !.phase = "answered", !.credential = calls[k].credential]
    BY <2>1 DEF Call
  <2>. QED BY <1>1, <2>2 DEF LegacyInv, LegacyTypes
<1>3. /\ records' \in [LegacyCompartments -> Identity \cup {Legacy!NoIdentity}]
      /\ \A e \in LegacyCompartments :
           /\ records'[e].session = records[e].session
           /\ e \in Legacy!Live =>
                records'[e].agent = records[e].agent /\ records'[e].transport = records[e].transport
  <2>1. CASE c \in Legacy!Live
    <3>1. records[c] \in Identity
      BY <2>1, LiveHasSession DEF LegacyInv
    <3>. QED BY <1>1, <2>1, <3>1 DEF LegacyInv, LegacyTypes, Identity
  <2>2. CASE c \notin Legacy!Live
    BY <1>1, <2>2 DEF LegacyInv, LegacyTypes
  <2>. QED BY <2>1, <2>2
<1>. QED BY <1>1, <1>2, <1>3, MoveStep DEF Phase

\* Destroyed and pruned identities are gone; the others are left alone.
LEMMA RemovalStep ==
  ASSUME LegacyInv,
         (\E c \in LegacyCompartments : Legacy!Destroy(c)) \/ Legacy!PruneExpired
  PROVE  LegacyInv'
<1>1. /\ UNCHANGED <<calls, minted, now>>
      /\ records' \in [LegacyCompartments -> Identity \cup {Legacy!NoIdentity}]
      /\ \A c \in LegacyCompartments : records'[c] = records[c] \/ records'[c] = Legacy!NoIdentity
  <2>1. CASE \E c \in LegacyCompartments : Legacy!Destroy(c)
    BY <2>1 DEF LegacyInv, LegacyTypes, Legacy!Destroy
  <2>2. CASE Legacy!PruneExpired
    BY <2>2 DEF LegacyInv, LegacyTypes, Legacy!PruneExpired
  <2>. QED BY <2>1, <2>2
<1>2. LegacyTypes'
  BY <1>1 DEF LegacyInv, LegacyTypes
<1>3. \A c \in Legacy!Live' : c \in Legacy!Live /\ records'[c] = records[c]
  BY <1>1, <1>2, LiveHasSession, LiveHasSessionNext DEF LegacyInv, Legacy!NoIdentity
<1>4. \A k \in Calls : /\ calls'[k].credential \in {0, calls[k].session}
                       /\ k \in Legacy!Sent' => k \in Legacy!Sent
  BY <1>1 DEF LegacyInv, Numbered, Legacy!Sent
<1>. QED BY <1>1, <1>2, <1>3, <1>4, NothingNew

\* Time passes, or nothing happens.
LEMMA LegacyStutter ==
  ASSUME LegacyInv, UNCHANGED <<records, calls, minted>>, now' \in Nat
  PROVE  LegacyInv'
<1>1. LegacyTypes'
  BY DEF LegacyInv, LegacyTypes
<1>2. Legacy!Live' = Legacy!Live /\ Legacy!Sent' = Legacy!Sent
  BY DEF Legacy!Live, Legacy!Sent
<1>. QED BY <1>1, <1>2 DEF LegacyInv, Numbered, Apart

\* Every step of the legacy server preserves the invariant.
LEMMA LegacyStep ==
  ASSUME LegacyInv, Legacy!Next
  PROVE  LegacyInv'
<1>1. ASSUME NEW k \in Calls, NEW d \in LegacyDecisions, Legacy!Execute(k, d)
      PROVE  LegacyInv'
  BY <1>1, BindStep, RefuseMixingStep, BindNewStep DEF Legacy!Execute
<1>2. ASSUME NEW k \in Calls,
             \/ Legacy!Refuse(k)
             \/ \E method \in {"password", "none", "other"} : Legacy!Greet(k, method)
             \/ \E ok \in BOOLEAN : Legacy!Authenticate(k, ok) \/ Legacy!Connect(k, ok)
             \/ Legacy!Fail(k)
      PROVE  LegacyInv'
  BY <1>2, CallStep
<1>3. CASE Legacy!Tick
  BY <1>3, LegacyStutter DEF Legacy!Tick, LegacyInv, LegacyTypes
<1>4. CASE (\E c \in LegacyCompartments : Legacy!Destroy(c)) \/ Legacy!PruneExpired
  BY <1>4, RemovalStep
<1>. QED BY <1>1, <1>2, <1>3, <1>4, AnswerStep, RotateStep DEF Legacy!Next

\* The invariant is more than what the identities promise each other.
LEMMA LegacyInvSuffices == LegacyInv => Legacy!NothingIsShared
<1>. SUFFICES ASSUME LegacyInv PROVE Legacy!NothingIsShared
  OBVIOUS
<1>1. Legacy!UserAgentsAreNotShared
  BY DEF LegacyInv, Apart, Legacy!UserAgentsAreNotShared
<1>2. \A j, k \in Legacy!Sent :
        calls[j].credential = calls[k].credential /\ calls[j].credential # 0 =>
          calls[j].session = calls[k].session /\ calls[j].session # 0
  BY DEF LegacyInv, Numbered, Legacy!Sent
<1>3. Legacy!SessionsKeepTheirTransport
  BY <1>2 DEF LegacyInv, Numbered, Apart, Legacy!SessionsKeepTheirTransport, Legacy!Sent
<1>. QED BY <1>1, <1>3 DEF Legacy!NothingIsShared

\* Before the first call there is nothing to share.
LEMMA LegacyInit == Legacy!Init => LegacyInv
<1>. SUFFICES ASSUME Legacy!Init PROVE LegacyInv
  OBVIOUS
<1>1. Legacy!NoCall \in Call
  <2>1. <<"none", 0>> \in AgentName \X Nat
    BY DEF AgentName
  <2>. QED BY <2>1 DEF Call, Legacy!NoCall, Phase
<1>2. LegacyTypes
  BY <1>1 DEF Legacy!Init, LegacyTypes
<1>3. Legacy!Live = {} /\ Legacy!Sent = {} /\ \A k \in Calls : calls[k] = Legacy!NoCall
  BY DEF Legacy!Init, Legacy!Live, Legacy!Sent, Legacy!NoCall
<1>. QED BY <1>2, <1>3 DEF LegacyInv, Numbered, Apart, Legacy!NoCall, Legacy!Init

\* "NO cross-compartment state sharing": over any number of calls, through
\* rotation, expiry, destruction and an exhausted pool, no session or user agent
\* of the legacy server is ever seen in two compartments or on two transports.
THEOREM LegacySharesNothing == EnginesSpec => []NothingIsShared
<1>. DEFINE Inv == chosen = "legacy" => LegacyInv
<1>1. EnginesInit => Inv
  BY LegacyInit DEF EnginesInit
<1>2. Inv /\ [EnginesNext]_enginesVars => Inv'
  <2>. SUFFICES ASSUME Inv, [EnginesNext]_enginesVars, chosen' = "legacy"
                PROVE  LegacyInv'
    OBVIOUS
  <2>1. CASE EnginesNext
    <3>1. chosen = "legacy" /\ Legacy!Next
      BY <2>1 DEF EnginesNext, OthersIdle
    <3>. QED BY <3>1, LegacyStep
  <2>2. CASE UNCHANGED enginesVars
    BY <2>2, LegacyStutter DEF enginesVars, identityVars, LegacyInv, LegacyTypes
  <2>. QED BY <2>1, <2>2
<1>3. Inv => NothingIsShared
  BY LegacyInvSuffices DEF NothingIsShared
<1>. HIDE DEF Inv
<1>. QED BY <1>1, <1>2, <1>3, PTL DEF EnginesSpec

-----------------------------------------------------------------------------
(* The rate limiter.  It remembers the current window only, while the         *)
(* property is about every window there ever was: so the log is followed      *)
(* beside it, and the window never counts fewer requests than were allowed.   *)

KeyOf(p, entry) == Limiter!ScopeKey(limits[p], entry.agent, entry.tool)

\* The requests of one key allowed since t, and the timestamps of a window since t.
AllowedSince(p, key, t) ==
  {k \in DOMAIN log : log[k].action = "allow" /\ KeyOf(p, log[k]) = key /\ log[k].at >= t}
CountedSince(timestamps, t) == {i \in DOMAIN timestamps : timestamps[i] >= t}

\* The requests allowed in the window that ended with request k.
AllowedBy(p, k) ==
  {j \in 1 .. k : /\ log[j].action = "allow"
                  /\ KeyOf(p, log[j]) = KeyOf(p, log[k])
                  /\ log[j].at >= log[k].at - limits[p].windowMs}

InOrder(timestamps) ==
  /\ \A i \in DOMAIN timestamps : timestamps[i] \in 0 .. now
  /\ \A i, j \in DOMAIN timestamps : i < j => timestamps[i] <= timestamps[j]

LimiterTypes ==
  /\ now \in Nat
  /\ limits \in Seq(Limiter!Policy)
  /\ windows \in Seq([Limiter!Keys -> Seq(Nat)]) /\ Len(windows) = Len(limits)
  /\ \E S : log \in Seq(S)
  /\ \A k \in DOMAIN log :
       log[k].agent \in Agents /\ log[k].tool \in LimitedTools /\ log[k].at \in 0 .. now
  /\ \A p \in DOMAIN limits, key \in Limiter!Keys : InOrder(windows[p][key])

\* A window holds only requests of its key, and all of them that still matter.
WindowsFollowLog ==
  \A p \in DOMAIN limits, key \in Limiter!Keys :
    /\ \A i \in DOMAIN windows[p][key] :
         \E k \in DOMAIN log : KeyOf(p, log[k]) = key /\ log[k].at = windows[p][key][i]
    /\ \A t \in Int : t >= now - limits[p].windowMs =>
         Cardinality(AllowedSince(p, key, t)) <= Cardinality(CountedSince(windows[p][key], t))

\* Whenever a request was allowed, the window that ended with it was within limits.
AllowedInTurn ==
  \A p \in Limiter!Enforced : \A k \in DOMAIN log :
    log[k].action = "allow" => Cardinality(AllowedBy(p, k)) <= limits[p].maxRequests

LimiterInv == LimiterTypes /\ WindowsFollowLog /\ AllowedInTurn

\* A set of positions that is not empty has a last one.
LEMMA LastPosition ==
  ASSUME NEW n \in Nat, NEW S \in SUBSET (1 .. n), S # {}
  PROVE  \E k \in S : \A j \in S : j <= k
<1>. DEFINE T == {n + 1 - k : k \in S}
<1>1. \A k \in S : k \in Int /\ n + 1 - k \in 1 .. n
  OBVIOUS
<1>2. T \in SUBSET (1 .. n) /\ T # {}
  BY <1>1
<1>3. \A j \in S : n + 1 - j \in T
  OBVIOUS
<1>4. \A x \in T : \E k \in S : x = n + 1 - k
  OBVIOUS
<1>. HIDE DEF T
<1>5. PICK x \in T : \A y \in T : x <= y
  BY <1>2, FirstPosition
<1>6. PICK k \in S : x = n + 1 - k
  BY <1>4, <1>5
<1>. QED BY ONLY <1>1, <1>3, <1>5, <1>6, n \in Nat

\* Positions are finitely many, and fewer of them count less.
LEMMA PositionsCount ==
  ASSUME NEW n \in Nat, NEW S \in SUBSET (1 .. n)
  PROVE  /\ IsFiniteSet(S) /\ Cardinality(S) \in Nat
         /\ \A T \in SUBSET S : IsFiniteSet(T) /\ Cardinality(T) \in Nat
                                /\ Cardinality(T) <= Cardinality(S)
<1>1. IsFiniteSet(1 .. n)
  BY FS_Interval
<1>2. IsFiniteSet(S)
  BY <1>1, FS_Subset
<1>. QED BY <1>2, FS_Subset, FS_CardinalityType

\* What Since leaves of a window: a window in order that counts no fewer.
LEMMA SinceKeeps ==
  ASSUME NEW w \in Seq(Nat), InOrder(w), now \in Nat, NEW start \in Int,
         NEW s, s = Limiter!Since(w, start)
  PROVE  /\ s \in Seq(Nat) /\ InOrder(s)
         /\ \A i \in DOMAIN s : s[i] >= start /\ \E j \in DOMAIN w : s[i] = w[j]
         /\ \A t \in Int : t >= start =>
              Cardinality(CountedSince(w, t)) <= Cardinality(CountedSince(s, t))
<1>. DEFINE kept == {k \in DOMAIN w : w[k] >= start}
<1>1. CASE kept = {}
  <2>1. s = << >>
    BY <1>1 DEF Limiter!Since
  <2>2. s \in Seq(Nat) /\ DOMAIN s = {}
    BY <2>1
  <2>3. ASSUME NEW t \in Int, t >= start
        PROVE  Cardinality(CountedSince(w, t)) <= Cardinality(CountedSince(s, t))
    <3>1. CountedSince(w, t) = {}
      <4>1. \A i \in DOMAIN w : w[i] \in Nat /\ ~(w[i] >= start)
        BY <1>1
      <4>. QED BY <2>3, <4>1 DEF CountedSince
    <3>2. CountedSince(s, t) = {}
      BY <2>2 DEF CountedSince
    <3>. QED BY <3>1, <3>2, FS_EmptySet
  <2>4. InOrder(s)
    BY <2>2 DEF InOrder
  <2>. HIDE DEF kept
  <2>. QED BY <2>2, <2>3, <2>4
<1>2. CASE kept # {}
  <2>. DEFINE n == Len(w)
              f == Limiter!First(kept)
  <2>1. n \in Nat /\ DOMAIN w = 1 .. n /\ kept \in SUBSET (1 .. n)
    OBVIOUS
  <2>2. f \in kept /\ \A j \in kept : f <= j
    <3>1. \E k \in kept : \A j \in kept : k <= j
      <4>. HIDE DEF kept, n
      <4>. QED BY <1>2, <2>1, FirstPosition
    <3>. HIDE DEF kept
    <3>. QED BY <3>1 DEF Limiter!First
  <2>3. s = SubSeq(w, f, n)
    BY <1>2 DEF Limiter!Since
  <2>. HIDE DEF f
  <2>4. f \in 1 .. n /\ w[f] >= start
    BY <2>2
  <2>5. s \in Seq(Nat) /\ Len(s) = n - f + 1 /\ \A i \in 1 .. Len(s) : s[i] = w[f + i - 1]
    BY <2>1, <2>3, <2>4
  <2>6. \A i \in 1 .. Len(s) : f + i - 1 \in 1 .. n
    BY <2>1, <2>4, <2>5
  <2>7. InOrder(s)
    <3>1. ASSUME NEW i \in 1 .. Len(s) PROVE s[i] \in 0 .. now
      BY <2>1, <2>5, <2>6 DEF InOrder
    <3>2. ASSUME NEW i \in 1 .. Len(s), NEW j \in 1 .. Len(s), i < j PROVE s[i] <= s[j]
      <4>. DEFINE a == f + i - 1
                  b == f + j - 1
      <4>1. a \in 1 .. n /\ b \in 1 .. n /\ s[i] = w[a] /\ s[j] = w[b]
        BY <2>5, <2>6
      <4>2. a < b
        BY <3>2, <2>4, <2>5
      <4>. HIDE DEF a, b
      <4>. QED BY <4>1, <4>2, <2>1 DEF InOrder
    <3>. QED BY <3>1, <3>2, <2>5 DEF InOrder
  <2>8. \A i \in DOMAIN s : s[i] >= start /\ \E j \in DOMAIN w : s[i] = w[j]
    <3>. SUFFICES ASSUME NEW i \in 1 .. Len(s)
                  PROVE  s[i] >= start /\ \E j \in DOMAIN w : s[i] = w[j]
      BY <2>5
    <3>. DEFINE a == f + i - 1
    <3>1. a \in 1 .. n /\ s[i] = w[a] /\ (f = a \/ f < a)
      BY <2>4, <2>5, <2>6
    <3>. HIDE DEF a, kept
    <3>2. w[f] \in Nat /\ w[a] \in Nat
      BY <3>1, <2>1, <2>4
    <3>3. w[f] <= w[a]
      <4>1. f \in DOMAIN w /\ a \in DOMAIN w
        BY ONLY <2>1, <2>4, <3>1
      <4>2. CASE f = a
        BY ONLY <3>2, <4>2
      <4>3. CASE f < a
        BY ONLY <4>1, <4>3, InOrder(w) DEF InOrder
      <4>. QED BY <3>1, <4>2, <4>3
    <3>4. \E j \in DOMAIN w : s[i] = w[j]
      BY ONLY <3>1, <2>1
    <3>5. s[i] >= start
      BY ONLY <3>1, <3>2, <3>3, <2>4, start \in Int
    <3>. QED BY <3>4, <3>5
  <2>9. ASSUME NEW t \in Int, t >= start
        PROVE  Cardinality(CountedSince(w, t)) <= Cardinality(CountedSince(s, t))
    <3>. DEFINE A == CountedSince(w, t)
                B == CountedSince(s, t)
                shift == [i \in A |-> i - f + 1]
    <3>1. \A i \in A : i \in 1 .. n /\ i >= f /\ i - f + 1 \in 1 .. Len(s)
                       /\ s[i - f + 1] = w[i]
      <4>. SUFFICES ASSUME NEW i \in A
                    PROVE  i \in 1 .. n /\ i >= f /\ i - f + 1 \in 1 .. Len(s)
                           /\ s[i - f + 1] = w[i]
        OBVIOUS
      <4>1. i \in 1 .. n /\ w[i] >= t
        BY <2>1 DEF CountedSince
      <4>2. i \in kept
        BY <4>1, <2>1, <2>9
      <4>3. f <= i
        BY <4>2, <2>2
      <4>4. i >= f /\ i - f + 1 \in 1 .. Len(s)
        BY ONLY <4>1, <4>3, <2>1, <2>4, <2>5
      <4>. QED BY <4>1, <4>4, <2>4, <2>5
    <3>2. \A i \in A : i - f + 1 \in B
      BY <3>1, <2>5 DEF CountedSince
    <3>3. shift \in Injection(A, B)
      <4>1. shift \in [A -> B]
        BY <3>2
      <4>2. \A i, j \in A : shift[i] = shift[j] => i = j
        BY <3>1, <2>4
      <4>. QED BY <4>1, <4>2 DEF Injection, IsInjective
    <3>4. IsFiniteSet(B)
      <4>1. B \in SUBSET (1 .. Len(s)) /\ Len(s) \in Nat
        BY <2>5 DEF CountedSince
      <4>. HIDE DEF B
      <4>. QED BY <4>1, PositionsCount
    <3>. HIDE DEF A, B, shift
    <3>. QED BY <3>3, <3>4, FS_Injection DEF A, B
  <2>. QED BY <2>5, <2>7, <2>8, <2>9
<1>. QED BY <1>1, <1>2

\* Recording a request adds one to every count that reaches back at least so far.
LEMMA RecordCounts ==
  ASSUME NEW s \in Seq(Nat), InOrder(s), now \in Nat, NEW w, w = Append(s, now)
  PROVE  /\ w \in Seq(Nat) /\ InOrder(w)
         /\ \A t \in Int : t <= now =>
              Cardinality(CountedSince(w, t)) = Cardinality(CountedSince(s, t)) + 1
         /\ \A t \in Int : Cardinality(CountedSince(w, t)) <= Len(w)
<1>. DEFINE n == Len(s)
<1>1. n \in Nat /\ w \in Seq(Nat) /\ Len(w) = n + 1 /\ w[n + 1] = now /\ DOMAIN s = 1 .. n
      /\ DOMAIN w = 1 .. n + 1 /\ \A i \in 1 .. n : w[i] = s[i]
  OBVIOUS
<1>. HIDE DEF n
<1>2. InOrder(w)
  BY <1>1 DEF InOrder
<1>3. ASSUME NEW t \in Int, t <= now
      PROVE  Cardinality(CountedSince(w, t)) = Cardinality(CountedSince(s, t)) + 1
  <2>1. CountedSince(w, t) = CountedSince(s, t) \cup {n + 1}
    BY <1>1, <1>3 DEF CountedSince
  <2>2. n + 1 \notin CountedSince(s, t) /\ CountedSince(s, t) \in SUBSET (1 .. n)
    BY <1>1 DEF CountedSince
  <2>3. IsFiniteSet(CountedSince(s, t))
    BY <1>1, <2>2, PositionsCount
  <2>. QED BY <2>1, <2>2, <2>3, FS_AddElement
<1>4. ASSUME NEW t \in Int
      PROVE  Cardinality(CountedSince(w, t)) <= Len(w)
  <2>. DEFINE m == n + 1
              all == 1 .. m
  <2>1. CountedSince(w, t) \in SUBSET all
    BY <1>1 DEF CountedSince
  <2>2. m \in Nat /\ IsFiniteSet(all) /\ Cardinality(all) = m
    <3>1. 1 \in Int /\ m \in Int /\ ~(1 > m) /\ m - 1 + 1 = m /\ m \in Nat
      BY <1>1
    <3>. QED BY <3>1, FS_Interval
  <2>. HIDE DEF all
  <2>. QED BY <2>1, <2>2, <1>1, FS_Subset
<1>. QED BY <1>1, <1>2, <1>3, <1>4

\* A request more in the log, allowed or not, and what it adds to the counts.
LEMMA LogGrows ==
  ASSUME LimiterInv, NEW entry, log' = Append(log, entry), UNCHANGED limits,
         entry.at = now
  PROVE  /\ DOMAIN log' = 1 .. Len(log) + 1 /\ Len(log) \in Nat /\ DOMAIN log = 1 .. Len(log)
         /\ \A k \in 1 .. Len(log) : log'[k] = log[k]
         /\ log'[Len(log) + 1] = entry
         /\ \E S : log' \in Seq(S)
         /\ \A p, key, t : (entry.action # "allow" \/ KeyOf(p, entry) # key) =>
              AllowedSince(p, key, t)' = AllowedSince(p, key, t)
         /\ \A p, key, t : /\ AllowedSince(p, key, t)' \subseteq AllowedSince(p, key, t) \cup {Len(log) + 1}
                           /\ AllowedSince(p, key, t) \in SUBSET (1 .. Len(log))
                           /\ AllowedSince(p, key, t)' \in SUBSET (1 .. Len(log) + 1)
         /\ \A p : \A k \in 1 .. Len(log) : AllowedBy(p, k)' = AllowedBy(p, k)
<1>. DEFINE n == Len(log)
<1>1. PICK S : log \in Seq(S)
  BY DEF LimiterInv, LimiterTypes
<1>2. log' \in Seq(S \cup {entry})
  <2>1. log \in Seq(S \cup {entry})
    BY <1>1
  <2>. QED BY <2>1
<1>3. /\ n \in Nat /\ DOMAIN log = 1 .. n /\ DOMAIN log' = 1 .. n + 1
      /\ \A k \in 1 .. n : log'[k] = log[k]
      /\ log'[n + 1] = entry
  BY <1>1
<1>. HIDE DEF n
<1>5. ASSUME NEW p, NEW key, NEW t
      PROVE  /\ AllowedSince(p, key, t)' \subseteq AllowedSince(p, key, t) \cup {n + 1}
             /\ AllowedSince(p, key, t) \subseteq AllowedSince(p, key, t)'
             /\ AllowedSince(p, key, t) \in SUBSET (1 .. n)
             /\ AllowedSince(p, key, t)' \in SUBSET (1 .. n + 1)
             /\ n + 1 \in AllowedSince(p, key, t)' => entry.action = "allow" /\ KeyOf(p, entry) = key
  <2>1. \A k : KeyOf(p, log[k])' = KeyOf(p, log'[k])
    BY DEF KeyOf, Limiter!ScopeKey
  <2>2. AllowedSince(p, key, t)' =
        {k \in DOMAIN log' : log'[k].action = "allow" /\ KeyOf(p, log'[k]) = key /\ log'[k].at >= t}
    BY <2>1 DEF AllowedSince
  <2>3. AllowedSince(p, key, t) =
        {k \in DOMAIN log : log[k].action = "allow" /\ KeyOf(p, log[k]) = key /\ log[k].at >= t}
    BY DEF AllowedSince
  <2>4. /\ DOMAIN log \subseteq DOMAIN log'
        /\ \A k \in DOMAIN log' : k \in DOMAIN log \/ k = n + 1
        /\ \A k \in DOMAIN log : log'[k] = log[k]
    BY <1>3
  <2>. QED BY ONLY <2>2, <2>3, <2>4, <1>3
<1>6. ASSUME NEW p, NEW k \in 1 .. n
      PROVE  AllowedBy(p, k)' = AllowedBy(p, k)
  <2>1. \A j \in 1 .. k : log'[j] = log[j]
    BY <1>3
  <2>2. AllowedBy(p, k)' =
        {j \in 1 .. k : /\ log'[j].action = "allow"
                        /\ KeyOf(p, log'[j]) = KeyOf(p, log'[k])
                        /\ log'[j].at >= log'[k].at - limits[p].windowMs}
    <3>1. \A j, i : KeyOf(p, log[j])' = KeyOf(p, log'[j])
      BY DEF KeyOf, Limiter!ScopeKey
    <3>. QED BY <3>1 DEF AllowedBy
  <2>3. log'[k] = log[k]
    BY <1>3
  <2>. QED BY <2>1, <2>2, <2>3 DEF AllowedBy
<1>7. \A p, key, t : (entry.action # "allow" \/ KeyOf(p, entry) # key) =>
        AllowedSince(p, key, t)' = AllowedSince(p, key, t)
  <2>. SUFFICES ASSUME NEW p, NEW key, NEW t, entry.action # "allow" \/ KeyOf(p, entry) # key
                PROVE  AllowedSince(p, key, t)' = AllowedSince(p, key, t)
    OBVIOUS
  <2>. DEFINE A == AllowedSince(p, key, t)
              B == AllowedSince(p, key, t)'
  <2>1. B \subseteq A \cup {n + 1} /\ A \subseteq B /\ n + 1 \notin B
    BY <1>5
  <2>. HIDE DEF A, B
  <2>2. A = B
    BY <2>1
  <2>. QED BY <2>2 DEF A, B
<1>. QED BY <1>2, <1>3, <1>5, <1>6, <1>7 DEF n

\* What the window of the request's own key becomes, and what it counts.
LEMMA WindowGrows ==
  ASSUME LimiterInv, NEW p \in DOMAIN limits, NEW key \in Limiter!Keys,
         NEW w, w = Limiter!Recorded(p, key)
  PROVE  /\ w \in Seq(Nat) /\ InOrder(w)
         /\ \A i \in DOMAIN w : w[i] = now \/ \E j \in DOMAIN windows[p][key] : w[i] = windows[p][key][j]
         /\ \A t \in Int : t >= now - limits[p].windowMs /\ t <= now =>
              Cardinality(AllowedSince(p, key, t)) + 1 <= Cardinality(CountedSince(w, t))
         /\ \A t \in Int : Cardinality(CountedSince(w, t)) <= Len(w)
<1>. DEFINE start == now - limits[p].windowMs
            old == windows[p][key]
            s == Limiter!Since(old, start)
<1>1. /\ now \in Nat /\ limits[p].windowMs \in Nat /\ start \in Int
      /\ old \in Seq(Nat) /\ InOrder(old)
  <2>1. /\ now \in Nat /\ limits \in Seq(Limiter!Policy) /\ InOrder(old)
        /\ windows \in Seq([Limiter!Keys -> Seq(Nat)]) /\ Len(windows) = Len(limits)
    BY DEF LimiterInv, LimiterTypes
  <2>2. p \in DOMAIN windows
    BY <2>1
  <2>3. limits[p] \in Limiter!Policy /\ windows[p] \in [Limiter!Keys -> Seq(Nat)]
    BY ONLY <2>1, <2>2, p \in DOMAIN limits
  <2>. QED BY <2>1, <2>3 DEF Limiter!Policy
<1>2. w = Append(s, now)
  BY DEF Limiter!Recorded
<1>3. \A t \in Int : t >= start =>
        Cardinality(AllowedSince(p, key, t)) <= Cardinality(CountedSince(old, t))
  BY DEF LimiterInv, WindowsFollowLog
<1>. HIDE DEF s, old, start
<1>4. /\ s \in Seq(Nat) /\ InOrder(s)
      /\ \A i \in DOMAIN s : s[i] >= start /\ \E j \in DOMAIN old : s[i] = old[j]
      /\ \A t \in Int : t >= start =>
           Cardinality(CountedSince(old, t)) <= Cardinality(CountedSince(s, t))
  BY <1>1, SinceKeeps DEF s
<1>5. /\ w \in Seq(Nat) /\ InOrder(w)
      /\ \A t \in Int : t <= now =>
           Cardinality(CountedSince(w, t)) = Cardinality(CountedSince(s, t)) + 1
      /\ \A t \in Int : Cardinality(CountedSince(w, t)) <= Len(w)
  BY <1>1, <1>2, <1>4, RecordCounts
<1>6. \A i \in DOMAIN w : w[i] = now \/ \E j \in DOMAIN old : w[i] = old[j]
  <2>1. \A i \in DOMAIN w : w[i] = now \/ (i \in DOMAIN s /\ w[i] = s[i])
    BY <1>2, <1>4
  <2>. QED BY <2>1, <1>4
<1>7. ASSUME NEW t \in Int, t >= start, t <= now
      PROVE  Cardinality(AllowedSince(p, key, t)) + 1 <= Cardinality(CountedSince(w, t))
  <2>1. /\ Cardinality(AllowedSince(p, key, t)) <= Cardinality(CountedSince(old, t))
        /\ Cardinality(CountedSince(old, t)) <= Cardinality(CountedSince(s, t))
        /\ Cardinality(CountedSince(w, t)) = Cardinality(CountedSince(s, t)) + 1
    BY <1>3, <1>4, <1>5, <1>7
  <2>2. Cardinality(CountedSince(s, t)) \in Nat /\ Cardinality(CountedSince(old, t)) \in Nat
    <3>1. /\ CountedSince(s, t) \in SUBSET (1 .. Len(s)) /\ Len(s) \in Nat
          /\ CountedSince(old, t) \in SUBSET (1 .. Len(old)) /\ Len(old) \in Nat
      BY <1>1, <1>4 DEF CountedSince
    <3>. QED BY <3>1, PositionsCount
  <2>3. Cardinality(AllowedSince(p, key, t)) \in Nat
    <3>1. AllowedSince(p, key, t) \in SUBSET (1 .. Len(log)) /\ Len(log) \in Nat
      BY DEF AllowedSince, LimiterInv, LimiterTypes
    <3>. QED BY <3>1, PositionsCount
  <2>. QED BY <2>1, <2>2, <2>3
<1>. QED BY <1>5, <1>6, <1>7 DEF start, old

\* The engine is configured while its log is empty: there is nothing to count.
LEMMA ConfigureStep ==
  ASSUME LimiterInv,
         \/ \E policy \in Limits : Limiter!RegisterPolicy(policy)
         \/ Limiter!ClearPolicies
  PROVE  LimiterInv'
<1>1. /\ now' = now /\ log' = << >>
      /\ limits' \in Seq(Limiter!Policy)
      /\ windows' \in Seq([Limiter!Keys -> Seq(Nat)]) /\ Len(windows') = Len(limits')
      /\ \A p \in DOMAIN limits', key \in Limiter!Keys : windows'[p][key] = << >>
  <2>1. CASE \E policy \in Limits : Limiter!RegisterPolicy(policy)
    <3>1. PICK policy \in Limits : Limiter!RegisterPolicy(policy)
      BY <2>1
    <3>. DEFINE empty == [key \in Limiter!Keys |-> << >>]
    <3>2. /\ log = << >> /\ log' = << >> /\ now' = now
          /\ limits' = Append(limits, policy) /\ windows' = Append(windows, empty)
      BY <3>1 DEF Limiter!RegisterPolicy
    <3>3. policy \in Limiter!Policy
      BY LimiterConstants DEF Limiter!LimiterAssumption
    <3>4. empty \in [Limiter!Keys -> Seq(Nat)] /\ \A key \in Limiter!Keys : empty[key] = << >>
      OBVIOUS
    <3>. HIDE DEF empty
    <3>5. /\ limits \in Seq(Limiter!Policy)
          /\ windows \in Seq([Limiter!Keys -> Seq(Nat)]) /\ Len(windows) = Len(limits)
      BY DEF LimiterInv, LimiterTypes
    <3>6. /\ limits' \in Seq(Limiter!Policy)
          /\ windows' \in Seq([Limiter!Keys -> Seq(Nat)]) /\ Len(windows') = Len(limits')
          /\ \A p \in DOMAIN limits' :
               (p \in DOMAIN limits /\ windows'[p] = windows[p]) \/ windows'[p] = empty
      BY ONLY <3>2, <3>3, <3>4, <3>5
    <3>7. \A p \in DOMAIN limits, key \in Limiter!Keys : windows[p][key] = << >>
      <4>. SUFFICES ASSUME NEW p \in DOMAIN limits, NEW key \in Limiter!Keys
                    PROVE  windows[p][key] = << >>
        OBVIOUS
      <4>1. windows[p][key] \in Seq(Nat)
        <5>1. windows[p] \in [Limiter!Keys -> Seq(Nat)]
          BY ONLY <3>5, p \in DOMAIN limits
        <5>. QED BY <5>1
      <4>2. DOMAIN windows[p][key] = {}
        BY <3>2 DEF LimiterInv, WindowsFollowLog
      <4>. DEFINE w == windows[p][key]
      <4>. HIDE DEF w
      <4>3. w \in Seq(Nat) /\ DOMAIN w = {}
        BY <4>1, <4>2 DEF w
      <4>4. Len(w) \in Nat /\ DOMAIN w = 1 .. Len(w)
        BY ONLY <4>3
      <4>5. Len(w) = 0
        BY ONLY <4>3, <4>4
      <4>. QED BY <4>3, <4>5 DEF w
    <3>. QED BY <3>2, <3>4, <3>6, <3>7
  <2>2. CASE Limiter!ClearPolicies
    BY <2>2 DEF Limiter!ClearPolicies
  <2>. QED BY <2>1, <2>2
<1>2. LimiterTypes'
  <2>1. \E S : log' \in Seq(S)
    BY <1>1
  <2>2. \A p \in DOMAIN limits', key \in Limiter!Keys : InOrder(windows[p][key])'
    BY <1>1 DEF InOrder
  <2>3. now' \in Nat
    BY <1>1 DEF LimiterInv, LimiterTypes
  <2>. QED BY <1>1, <2>1, <2>2, <2>3 DEF LimiterTypes
<1>3. WindowsFollowLog'
  <2>. SUFFICES ASSUME NEW p \in DOMAIN limits', NEW key \in Limiter!Keys
                PROVE  /\ DOMAIN windows'[p][key] = {}
                       /\ \A t : AllowedSince(p, key, t)' = {} /\ CountedSince(windows[p][key], t)' = {}
    BY FS_EmptySet DEF WindowsFollowLog
  <2>1. windows'[p][key] = << >> /\ log' = << >>
    BY <1>1
  <2>. QED BY <2>1 DEF AllowedSince, CountedSince
<1>4. AllowedInTurn'
  BY <1>1 DEF AllowedInTurn
<1>. QED BY <1>2, <1>3, <1>4 DEF LimiterInv

\* A request that is refused before any window sees it counts for nothing.
LEMMA BlockedStep ==
  ASSUME LimiterInv, NEW agent \in Agents, NEW tool \in LimitedTools,
         Limiter!EvaluateBlocked(agent, tool)
  PROVE  LimiterInv'
<1>1. PICK until : /\ log' = Append(log, [agent |-> agent, tool |-> tool, at |-> now,
                                          action |-> "temporary_block", resetAt |-> until])
                   /\ UNCHANGED <<limits, windows, now>>
  BY DEF Limiter!EvaluateBlocked, Limiter!Decide
<1>. DEFINE entry == [agent |-> agent, tool |-> tool, at |-> now,
                      action |-> "temporary_block", resetAt |-> until]
<1>2. entry.agent = agent /\ entry.tool = tool /\ entry.at = now /\ entry.action = "temporary_block"
  OBVIOUS
<1>3. log' = Append(log, entry) /\ limits' = limits /\ windows' = windows /\ now' = now
  BY <1>1
<1>. HIDE DEF entry
<1>4. /\ DOMAIN log' = 1 .. Len(log) + 1 /\ Len(log) \in Nat /\ DOMAIN log = 1 .. Len(log)
      /\ \A k \in 1 .. Len(log) : log'[k] = log[k]
      /\ log'[Len(log) + 1] = entry
      /\ \E S : log' \in Seq(S)
      /\ \A p, key, t : AllowedSince(p, key, t)' = AllowedSince(p, key, t)
      /\ \A p : \A k \in 1 .. Len(log) : AllowedBy(p, k)' = AllowedBy(p, k)
  <2>1. entry.at = now /\ entry.action # "allow"
    BY <1>2
  <2>. QED BY <1>3, <2>1, LogGrows
<1>5. \A k \in DOMAIN log' : k \in DOMAIN log \/ log'[k] = entry
  BY <1>4
<1>6. LimiterTypes'
  <2>1. \A k \in DOMAIN log' :
          log'[k].agent \in Agents /\ log'[k].tool \in LimitedTools /\ log'[k].at \in 0 .. now
    BY <1>2, <1>4, <1>5 DEF LimiterInv, LimiterTypes
  <2>2. \A p \in DOMAIN limits, key \in Limiter!Keys : InOrder(windows[p][key])'
    BY <1>3 DEF LimiterInv, LimiterTypes, InOrder
  <2>. QED BY <1>3, <1>4, <2>1, <2>2 DEF LimiterInv, LimiterTypes
<1>7. WindowsFollowLog'
  <2>. SUFFICES ASSUME NEW p \in DOMAIN limits, NEW key \in Limiter!Keys
                PROVE  /\ \A i \in DOMAIN windows[p][key] :
                            \E k \in DOMAIN log' : KeyOf(p, log[k])' = key /\ log'[k].at = windows[p][key][i]
                       /\ \A t \in Int : t >= now - limits[p].windowMs =>
                            Cardinality(AllowedSince(p, key, t)) <= Cardinality(CountedSince(windows[p][key], t))
    BY <1>3, <1>4 DEF WindowsFollowLog, CountedSince
  <2>1. \A k \in DOMAIN log : k \in DOMAIN log' /\ log'[k] = log[k] /\ KeyOf(p, log[k])' = KeyOf(p, log[k])
    BY <1>3, <1>4 DEF KeyOf, Limiter!ScopeKey
  <2>. QED BY <2>1 DEF LimiterInv, WindowsFollowLog
<1>8. AllowedInTurn'
  <2>. SUFFICES ASSUME NEW p \in Limiter!Enforced, NEW k \in DOMAIN log', log'[k].action = "allow"
                PROVE  Cardinality(AllowedBy(p, k)') <= limits[p].maxRequests
    BY <1>3 DEF AllowedInTurn, Limiter!Enforced
  <2>1. k \in 1 .. Len(log) /\ log[k].action = "allow"
    BY <1>2, <1>4, <1>5
  <2>. QED BY <1>4, <2>1 DEF LimiterInv, AllowedInTurn
<1>. QED BY <1>6, <1>7, <1>8 DEF LimiterInv

\* Time passes, blocks come and go: windows only get older.
LEMMA LimiterStutter ==
  ASSUME LimiterInv, UNCHANGED <<limits, windows, log>>, now' \in Nat, now <= now'
  PROVE  LimiterInv'
<1>1. LimiterTypes'
  <2>1. ASSUME NEW p \in DOMAIN limits, NEW key \in Limiter!Keys
        PROVE  InOrder(windows[p][key])'
    <3>1. PICK w : w = windows[p][key] /\ windows'[p][key] = w
      OBVIOUS
    <3>2. InOrder(w)
      BY <3>1 DEF LimiterInv, LimiterTypes
    <3>3. 0 .. now \subseteq 0 .. now'
      BY DEF LimiterInv, LimiterTypes
    <3>4. InOrder(w)'
      BY ONLY <3>2, <3>3 DEF InOrder
    <3>. QED BY <3>1, <3>4
  <2>2. \A k \in DOMAIN log : log[k].at \in 0 .. now'
    <3>1. now \in Nat /\ \A k \in DOMAIN log : log[k].at \in 0 .. now
      BY DEF LimiterInv, LimiterTypes
    <3>2. 0 .. now \subseteq 0 .. now'
      BY <3>1
    <3>. QED BY ONLY <3>1, <3>2
  <2>. QED BY <2>1, <2>2 DEF LimiterInv, LimiterTypes
<1>2. WindowsFollowLog'
  <2>1. \A p, key, t : AllowedSince(p, key, t)' = AllowedSince(p, key, t)
    BY DEF AllowedSince, KeyOf, Limiter!ScopeKey
  <2>2. \A p, e : KeyOf(p, log[e])' = KeyOf(p, log[e])
    BY DEF KeyOf, Limiter!ScopeKey
  <2>3. ASSUME NEW p \in DOMAIN limits, NEW t \in Int, t >= now' - limits[p].windowMs
        PROVE  t >= now - limits[p].windowMs
    <3>1. limits \in Seq(Limiter!Policy) /\ now \in Nat
      BY DEF LimiterInv, LimiterTypes
    <3>2. limits[p] \in Limiter!Policy
      BY ONLY <3>1, p \in DOMAIN limits
    <3>3. limits[p].windowMs \in Nat
      BY ONLY <3>2 DEF Limiter!Policy
    <3>. QED BY <2>3, <3>1, <3>3
  <2>4. ASSUME NEW p \in DOMAIN limits, NEW key \in Limiter!Keys
        PROVE  /\ \A i \in DOMAIN windows[p][key] :
                    \E k \in DOMAIN log :
                      KeyOf(p, log[k])' = key /\ log[k].at = windows[p][key][i]
               /\ \A t \in Int : t >= now' - limits[p].windowMs =>
                    Cardinality(AllowedSince(p, key, t)')
                      <= Cardinality(CountedSince(windows[p][key], t))
    <3>1. /\ \A i \in DOMAIN windows[p][key] :
               \E k \in DOMAIN log : KeyOf(p, log[k]) = key /\ log[k].at = windows[p][key][i]
          /\ \A t \in Int : t >= now - limits[p].windowMs =>
               Cardinality(AllowedSince(p, key, t)) <= Cardinality(CountedSince(windows[p][key], t))
      BY DEF LimiterInv, WindowsFollowLog
    <3>2. \A i \in DOMAIN windows[p][key] :
            \E k \in DOMAIN log : KeyOf(p, log[k])' = key /\ log[k].at = windows[p][key][i]
      BY ONLY <3>1, <2>2
    <3>3. ASSUME NEW t \in Int, t >= now' - limits[p].windowMs
          PROVE  Cardinality(AllowedSince(p, key, t)')
                   <= Cardinality(CountedSince(windows[p][key], t))
      <4>1. t >= now - limits[p].windowMs
        BY <2>3, <3>3
      <4>2. Cardinality(AllowedSince(p, key, t)) <= Cardinality(CountedSince(windows[p][key], t))
        BY ONLY <3>1, <4>1, t \in Int
      <4>3. AllowedSince(p, key, t)' = AllowedSince(p, key, t)
        BY ONLY <2>1
      <4>. QED BY ONLY <4>2, <4>3
    <3>. QED BY ONLY <3>2, <3>3
  <2>5. windows' = windows /\ log' = log /\ limits' = limits
    OBVIOUS
  <2>. QED BY ONLY <2>4, <2>5, SMTT(40) DEF WindowsFollowLog, CountedSince
<1>3. AllowedInTurn'
  <2>1. \A p, k : AllowedBy(p, k)' = AllowedBy(p, k)
    BY DEF AllowedBy, KeyOf, Limiter!ScopeKey
  <2>. QED BY <2>1 DEF LimiterInv, AllowedInTurn, Limiter!Enforced
<1>. QED BY <1>1, <1>2, <1>3 DEF LimiterInv

\* What a request every window sees does: all windows record it, and it is
\* allowed only within the limits of every enforced policy.
LEMMA EvaluateFacts ==
  ASSUME LimiterInv, NEW agent \in Agents, NEW tool \in LimitedTools,
         Limiter!Evaluate(agent, tool)
  PROVE  /\ \E entry : /\ log' = Append(log, entry)
                       /\ entry.agent = agent /\ entry.tool = tool /\ entry.at = now
                       /\ entry.action = "allow" => \A p \in Limiter!Enforced :
                            Len(Limiter!Recorded(p, KeyOf(p, entry))) <= limits[p].maxRequests
         /\ windows' = [p \in DOMAIN limits |->
              [windows[p] EXCEPT ![Limiter!ScopeKey(limits[p], agent, tool)] =
                 Limiter!Recorded(p, Limiter!ScopeKey(limits[p], agent, tool))]]
         /\ UNCHANGED <<limits, now>>
<1>. DEFINE key(p) == Limiter!ScopeKey(limits[p], agent, tool)
            window == [p \in DOMAIN limits |-> Limiter!Recorded(p, key(p))]
            exceeded == {p \in DOMAIN limits : Len(window[p]) > limits[p].maxRequests}
            d == Limiter!First(exceeded)
            entryOf(action, resetAt) == [agent |-> agent, tool |-> tool, at |-> now,
                                         action |-> action, resetAt |-> resetAt]
<1>1. /\ windows' = [p \in DOMAIN limits |-> [windows[p] EXCEPT ![key(p)] = window[p]]]
      /\ UNCHANGED <<limits, now>>
      /\ exceeded = {} => log' = Append(log, entryOf("allow", now))
      /\ exceeded # {} =>
           log' = Append(log, entryOf(limits[d].action, window[d][1] + limits[d].windowMs))
  BY DEF Limiter!Evaluate, Limiter!Decide
<1>2. \A p \in DOMAIN limits : window[p] = Limiter!Recorded(p, key(p))
  OBVIOUS
<1>3. \A p, entry : entry.agent = agent /\ entry.tool = tool => KeyOf(p, entry) = key(p)
  BY DEF KeyOf
<1>4. \A p \in DOMAIN limits : key(p) \in Limiter!Keys
  BY DEF Limiter!ScopeKey, Limiter!Keys
<1>5. \A p \in DOMAIN limits : Len(window[p]) \in Nat /\ limits[p].maxRequests \in Nat
  <2>. SUFFICES ASSUME NEW p \in DOMAIN limits
                PROVE  Len(window[p]) \in Nat /\ limits[p].maxRequests \in Nat
    OBVIOUS
  <2>1. window[p] \in Seq(Nat)
    BY <1>2, <1>4, WindowGrows
  <2>2. limits \in Seq(Limiter!Policy)
    BY DEF LimiterInv, LimiterTypes
  <2>3. limits[p] \in Limiter!Policy
    BY ONLY <2>2, p \in DOMAIN limits
  <2>. QED BY <2>1, <2>3 DEF Limiter!Policy
<1>6. CASE exceeded = {}
  <2>1. \A p \in Limiter!Enforced : p \in DOMAIN limits
    BY DEF Limiter!Enforced
  <2>2. \A p \in DOMAIN limits : Len(Limiter!Recorded(p, key(p))) <= limits[p].maxRequests
    <3>. SUFFICES ASSUME NEW p \in DOMAIN limits
                  PROVE  Len(Limiter!Recorded(p, key(p))) <= limits[p].maxRequests
      OBVIOUS
    <3>1. ~(Len(window[p]) > limits[p].maxRequests)
      BY <1>6
    <3>. HIDE DEF window, exceeded
    <3>2. Len(window[p]) <= limits[p].maxRequests
      BY ONLY <1>5, <3>1, p \in DOMAIN limits
    <3>3. window[p] = Limiter!Recorded(p, key(p))
      BY <1>2
    <3>. QED BY ONLY <3>2, <3>3
  <2>. DEFINE entry == entryOf("allow", now)
  <2>3. entry.agent = agent /\ entry.tool = tool /\ entry.at = now
    OBVIOUS
  <2>4. log' = Append(log, entry)
    BY <1>1, <1>6
  <2>5. \A p \in Limiter!Enforced :
          Len(Limiter!Recorded(p, KeyOf(p, entry))) <= limits[p].maxRequests
    BY <1>3, <2>1, <2>2, <2>3
  <2>. HIDE DEF entry, entryOf, exceeded, window
  <2>6. windows' = [p \in DOMAIN limits |->
              [windows[p] EXCEPT ![Limiter!ScopeKey(limits[p], agent, tool)] =
                 Limiter!Recorded(p, Limiter!ScopeKey(limits[p], agent, tool))]]
    BY <1>1, <1>2
  <2>. QED BY <1>1, <2>3, <2>4, <2>5, <2>6
<1>7. CASE exceeded # {}
  <2>. DEFINE entry == entryOf(limits[d].action, window[d][1] + limits[d].windowMs)
  <2>1. d \in exceeded /\ \A p \in exceeded : d <= p
    <3>1. exceeded \in SUBSET (1 .. Len(limits)) /\ Len(limits) \in Nat
      BY DEF LimiterInv, LimiterTypes
    <3>. HIDE DEF exceeded
    <3>2. \E p \in exceeded : \A q \in exceeded : p <= q
      BY <1>7, <3>1, FirstPosition
    <3>. QED BY <3>2 DEF Limiter!First
  <2>2. /\ entry.agent = agent /\ entry.tool = tool /\ entry.at = now
        /\ entry.action = limits[d].action
    OBVIOUS
  <2>3. log' = Append(log, entry)
    BY <1>1, <1>7
  <2>4. \A p \in DOMAIN limits :
          p \notin exceeded => Len(Limiter!Recorded(p, key(p))) <= limits[p].maxRequests
    BY <1>2, <1>5
  <2>. HIDE DEF entry, d, entryOf
  <2>5. entry.action = "allow" => \A p \in Limiter!Enforced : p \in DOMAIN limits /\ p \notin exceeded
    BY <2>1, <2>2 DEF Limiter!Enforced
  <2>. HIDE DEF exceeded
  <2>6. entry.action = "allow" => \A p \in Limiter!Enforced :
          Len(Limiter!Recorded(p, KeyOf(p, entry))) <= limits[p].maxRequests
    BY <1>3, <2>2, <2>4, <2>5
  <2>. HIDE DEF window
  <2>7. windows' = [p \in DOMAIN limits |->
              [windows[p] EXCEPT ![Limiter!ScopeKey(limits[p], agent, tool)] =
                 Limiter!Recorded(p, Limiter!ScopeKey(limits[p], agent, tool))]]
    BY <1>1, <1>2
  <2>. QED BY <1>1, <2>2, <2>3, <2>6, <2>7
<1>. QED BY <1>6, <1>7

\* A request every window sees preserves the invariant: the counts of its own
\* keys grow by one, and those of every other key stay as they were.
LEMMA EvaluateStep ==
  ASSUME LimiterInv, NEW agent \in Agents, NEW tool \in LimitedTools,
         Limiter!Evaluate(agent, tool)
  PROVE  LimiterInv'
<1>. DEFINE n == Len(log)
            key(p) == Limiter!ScopeKey(limits[p], agent, tool)
<1>1. PICK entry : /\ log' = Append(log, entry)
                   /\ entry.agent = agent /\ entry.tool = tool /\ entry.at = now
                   /\ entry.action = "allow" => \A p \in Limiter!Enforced :
                        Len(Limiter!Recorded(p, KeyOf(p, entry))) <= limits[p].maxRequests
  BY EvaluateFacts
<1>2. /\ windows' = [p \in DOMAIN limits |->
           [windows[p] EXCEPT ![key(p)] = Limiter!Recorded(p, key(p))]]
      /\ limits' = limits /\ now' = now
  BY EvaluateFacts
<1>3. \A p \in DOMAIN limits : key(p) \in Limiter!Keys /\ key(p) = KeyOf(p, entry)
  BY <1>1 DEF Limiter!ScopeKey, Limiter!Keys, KeyOf
<1>4. /\ DOMAIN log' = 1 .. n + 1 /\ n \in Nat /\ DOMAIN log = 1 .. n
      /\ \A k \in 1 .. n : log'[k] = log[k]
      /\ log'[n + 1] = entry
      /\ \E S : log' \in Seq(S)
      /\ \A p, k, t : KeyOf(p, entry) # k => AllowedSince(p, k, t)' = AllowedSince(p, k, t)
      /\ \A p, k, t : /\ AllowedSince(p, k, t)' \subseteq AllowedSince(p, k, t) \cup {n + 1}
                      /\ AllowedSince(p, k, t) \in SUBSET (1 .. n)
                      /\ AllowedSince(p, k, t)' \in SUBSET (1 .. n + 1)
      /\ \A p : \A k \in 1 .. n : AllowedBy(p, k)' = AllowedBy(p, k)
  BY <1>1, <1>2, LogGrows
<1>. HIDE DEF n, key
<1>5. /\ now \in Nat /\ limits \in Seq(Limiter!Policy)
      /\ windows \in Seq([Limiter!Keys -> Seq(Nat)]) /\ Len(windows) = Len(limits)
  BY DEF LimiterInv, LimiterTypes
<1>6. \A p \in DOMAIN limits : /\ windows[p] \in [Limiter!Keys -> Seq(Nat)]
                               /\ limits[p].windowMs \in Nat /\ limits[p].maxRequests \in Nat
  <2>1. \A p \in DOMAIN limits : windows[p] \in [Limiter!Keys -> Seq(Nat)] /\ limits[p] \in Limiter!Policy
    BY ONLY <1>5
  <2>. QED BY <2>1 DEF Limiter!Policy
<1>7. \A p \in DOMAIN limits, k \in Limiter!Keys :
        windows'[p][k] = IF k = key(p) THEN Limiter!Recorded(p, k) ELSE windows[p][k]
  BY <1>2, <1>3, <1>6
<1>8. LimiterTypes'
  <2>1. ASSUME NEW p \in DOMAIN limits, NEW k \in Limiter!Keys
        PROVE  windows'[p][k] \in Seq(Nat) /\ InOrder(windows'[p][k])
    <3>1. Limiter!Recorded(p, k) \in Seq(Nat) /\ InOrder(Limiter!Recorded(p, k))
      BY WindowGrows
    <3>2. windows[p][k] \in Seq(Nat) /\ InOrder(windows[p][k])
      BY <1>6 DEF LimiterInv, LimiterTypes
    <3>. QED BY ONLY <1>7, <3>1, <3>2, p \in DOMAIN limits, k \in Limiter!Keys
  <2>2. windows' \in Seq([Limiter!Keys -> Seq(Nat)]) /\ Len(windows') = Len(limits)
    <3>. DEFINE m == Len(limits)
                new(p) == [windows[p] EXCEPT ![key(p)] = Limiter!Recorded(p, key(p))]
    <3>1. m \in Nat /\ DOMAIN limits = 1 .. m /\ windows' = [p \in 1 .. m |-> new(p)]
      BY <1>2, <1>5
    <3>2. \A p \in 1 .. m : new(p) \in [Limiter!Keys -> Seq(Nat)]
      BY <1>3, <1>6, <3>1, WindowGrows
    <3>. HIDE DEF m, new
    <3>. QED BY ONLY <3>1, <3>2 DEF m
  <2>3. \A p \in DOMAIN limits, k \in Limiter!Keys : InOrder(windows[p][k])'
    BY <1>2, <2>1 DEF InOrder
  <2>4. \A k \in DOMAIN log' :
          log'[k].agent \in Agents /\ log'[k].tool \in LimitedTools /\ log'[k].at \in 0 .. now
    <3>1. \A k \in DOMAIN log' : k \in DOMAIN log \/ k = n + 1
      BY <1>4
    <3>2. now \in 0 .. now
      BY <1>5
    <3>. QED BY <1>1, <1>4, <3>1, <3>2 DEF LimiterInv, LimiterTypes
  <2>. QED BY <1>2, <1>4, <1>5, <2>2, <2>3, <2>4 DEF LimiterTypes
<1>9. WindowsFollowLog'
  <2>. SUFFICES ASSUME NEW p \in DOMAIN limits, NEW k \in Limiter!Keys
                PROVE  /\ \A i \in DOMAIN windows'[p][k] :
                            \E j \in DOMAIN log' : KeyOf(p, log[j])' = k /\ log'[j].at = windows'[p][k][i]
                       /\ \A t \in Int : t >= now - limits[p].windowMs =>
                            Cardinality(AllowedSince(p, k, t)') <= Cardinality(CountedSince(windows'[p][k], t))
    BY <1>2, SMTT(40) DEF WindowsFollowLog, CountedSince
  <2>1. \A j : KeyOf(p, log[j])' = KeyOf(p, log'[j])
    BY <1>2 DEF KeyOf, Limiter!ScopeKey
  <2>2. \A i \in DOMAIN windows[p][k] :
          \E j \in DOMAIN log : KeyOf(p, log[j]) = k /\ log[j].at = windows[p][k][i]
    BY DEF LimiterInv, WindowsFollowLog
  <2>3. ASSUME NEW j \in DOMAIN log PROVE j \in DOMAIN log' /\ log'[j] = log[j]
    BY <1>4
  <2>4. CASE k # key(p)
    <3>1. windows'[p][k] = windows[p][k]
      BY <1>7, <2>4
    <3>2. \A t : AllowedSince(p, k, t)' = AllowedSince(p, k, t)
      BY <1>3, <1>4, <2>4
    <3>3. \A i \in DOMAIN windows[p][k] :
            \E j \in DOMAIN log' : KeyOf(p, log'[j]) = k /\ log'[j].at = windows[p][k][i]
      BY <2>2, <2>3
    <3>4. \A t \in Int : t >= now - limits[p].windowMs =>
            Cardinality(AllowedSince(p, k, t)) <= Cardinality(CountedSince(windows[p][k], t))
      BY DEF LimiterInv, WindowsFollowLog
    <3>. QED BY <2>1, <3>1, <3>2, <3>3, <3>4
  <2>5. CASE k = key(p)
    <3>. DEFINE w == Limiter!Recorded(p, k)
    <3>1. windows'[p][k] = w
      BY <1>7, <2>5
    <3>2. /\ \A i \in DOMAIN w : w[i] = now \/ \E j \in DOMAIN windows[p][k] : w[i] = windows[p][k][j]
          /\ \A t \in Int : t >= now - limits[p].windowMs /\ t <= now =>
               Cardinality(AllowedSince(p, k, t)) + 1 <= Cardinality(CountedSince(w, t))
          /\ w \in Seq(Nat)
      BY WindowGrows
    <3>. HIDE DEF w
    <3>3. n + 1 \in DOMAIN log' /\ KeyOf(p, log'[n + 1]) = k /\ log'[n + 1].at = now
      BY <1>1, <1>3, <1>4, <2>5
    <3>4. \A i \in DOMAIN w : \E j \in DOMAIN log' : KeyOf(p, log'[j]) = k /\ log'[j].at = w[i]
      <4>. SUFFICES ASSUME NEW i \in DOMAIN w
                    PROVE  \E j \in DOMAIN log' : KeyOf(p, log'[j]) = k /\ log'[j].at = w[i]
        OBVIOUS
      <4>1. CASE w[i] = now
        BY <3>3, <4>1
      <4>2. CASE \E j \in DOMAIN windows[p][k] : w[i] = windows[p][k][j]
        BY <2>2, <2>3, <4>2
      <4>. QED BY <3>2, <4>1, <4>2
    <3>5. ASSUME NEW t \in Int, t >= now - limits[p].windowMs
          PROVE  Cardinality(AllowedSince(p, k, t)') <= Cardinality(CountedSince(w, t))
      <4>. DEFINE A == AllowedSince(p, k, t)
                  B == AllowedSince(p, k, t)'
                  C == CountedSince(w, t)
      <4>1. B \subseteq A \cup {n + 1} /\ A \in SUBSET (1 .. n) /\ B \in SUBSET (1 .. n + 1)
        BY <1>4
      <4>2. IsFiniteSet(C) /\ Cardinality(C) \in Nat
        <5>1. C \in SUBSET (1 .. Len(w)) /\ Len(w) \in Nat
          BY <3>2 DEF CountedSince
        <5>. HIDE DEF C
        <5>. QED BY <5>1, PositionsCount
      <4>3. CASE t <= now
        <5>1. Cardinality(A) + 1 <= Cardinality(C)
          BY <3>2, <3>5, <4>3
        <5>. HIDE DEF A, B, C
        <5>2. n + 1 \notin A /\ IsFiniteSet(A) /\ Cardinality(A) \in Nat
          <6>1. n + 1 \notin A
            BY ONLY <1>4, <4>1
          <6>2. n \in Nat
            BY <1>4
          <6>. QED BY ONLY <6>1, <6>2, <4>1, PositionsCount
        <5>3. Cardinality(A \cup {n + 1}) = Cardinality(A) + 1 /\ IsFiniteSet(A \cup {n + 1})
          BY <5>2, FS_AddElement
        <5>4. Cardinality(B) <= Cardinality(A \cup {n + 1}) /\ Cardinality(B) \in Nat
          BY <4>1, <5>3, FS_Subset, FS_CardinalityType
        <5>. QED BY <4>2, <5>1, <5>2, <5>3, <5>4 DEF A, B, C
      <4>4. CASE t > now
        <5>1. \A j \in DOMAIN log' : log'[j].at \in 0 .. now
          BY <1>2, <1>8 DEF LimiterTypes
        <5>2. B = {}
          <6>1. \A j \in B : j \in DOMAIN log' /\ log'[j].at >= t
            BY DEF AllowedSince
          <6>. HIDE DEF B
          <6>2. ASSUME NEW j \in B PROVE FALSE
            <7>1. log'[j].at >= t /\ log'[j].at \in 0 .. now
              BY <5>1, <6>1
            <7>. QED BY ONLY <7>1, <4>4, <1>5, t \in Int
          <6>. QED BY <6>2
        <5>. HIDE DEF B, C
        <5>3. Cardinality(B) = 0
          BY <5>2, FS_EmptySet
        <5>. QED BY <4>2, <5>3 DEF B, C
      <4>. QED BY <1>5, <4>3, <4>4
    <3>. QED BY <2>1, <3>1, <3>4, <3>5
  <2>. QED BY <2>4, <2>5
<1>10. AllowedInTurn'
  <2>. SUFFICES ASSUME NEW p \in Limiter!Enforced, NEW k \in DOMAIN log', log'[k].action = "allow"
                PROVE  Cardinality(AllowedBy(p, k)') <= limits[p].maxRequests
    BY <1>2 DEF AllowedInTurn, Limiter!Enforced
  <2>1. CASE k \in 1 .. n
    BY <1>4, <2>1 DEF LimiterInv, AllowedInTurn
  <2>2. CASE k = n + 1
    <3>1. p \in DOMAIN limits
      BY DEF Limiter!Enforced
    <3>2. PICK x \in Limiter!Keys, start \in Int :
            /\ x = key(p) /\ start = now - limits[p].windowMs
      <4>1. key(p) \in Limiter!Keys
        BY <1>3, <3>1
      <4>2. now \in Nat /\ limits[p].windowMs \in Nat
        BY <1>5, <1>6, <3>1
      <4>3. now - limits[p].windowMs \in Int
        BY ONLY <4>2
      <4>. QED BY ONLY <4>1, <4>3
    <3>. DEFINE w == Limiter!Recorded(p, x)
    <3>3. Len(w) <= limits[p].maxRequests
      BY <1>1, <1>3, <1>4, <2>2, <3>1, <3>2
    <3>4. AllowedBy(p, k)' = AllowedSince(p, x, start)'
      <4>1. \A j : KeyOf(p, log[j])' = KeyOf(p, log'[j])
        BY <1>2 DEF KeyOf, Limiter!ScopeKey
      <4>2. AllowedBy(p, k)' =
              {j \in 1 .. n + 1 : /\ log'[j].action = "allow"
                                  /\ KeyOf(p, log'[j]) = KeyOf(p, log'[k])
                                  /\ log'[j].at >= log'[k].at - limits[p].windowMs}
        BY <1>2, <2>2, <4>1 DEF AllowedBy
      <4>3. AllowedSince(p, x, start)' =
              {j \in DOMAIN log' : log'[j].action = "allow" /\ KeyOf(p, log'[j]) = x /\ log'[j].at >= start}
        BY <1>2, <4>1 DEF AllowedSince
      <4>4. KeyOf(p, log'[k]) = x /\ log'[k].at = now /\ DOMAIN log' = 1 .. n + 1
        BY <1>1, <1>3, <1>4, <2>2, <3>1, <3>2
      <4>. QED BY <4>2, <4>3, <4>4, <3>2
    <3>5. windows'[p][x] = w
      BY <1>7, <3>1, <3>2
    <3>6. Cardinality(AllowedSince(p, x, start)') <= Cardinality(CountedSince(w, start))
      <4>1. start >= now' - limits'[p].windowMs /\ p \in DOMAIN limits'
        BY <1>2, <1>5, <1>6, <3>1, <3>2
      <4>2. \A q \in DOMAIN limits', y \in Limiter!Keys : \A t \in Int :
              t >= now' - limits'[q].windowMs =>
              Cardinality(AllowedSince(q, y, t)') <= Cardinality(CountedSince(windows'[q][y], t))
        BY <1>9 DEF WindowsFollowLog, CountedSince
      <4>3. Cardinality(AllowedSince(p, x, start)') <= Cardinality(CountedSince(windows'[p][x], start))
        BY ONLY <4>1, <4>2, x \in Limiter!Keys, start \in Int
      <4>. QED BY <3>5, <4>3
    <3>7. /\ Cardinality(CountedSince(w, start)) <= Len(w)
          /\ w \in Seq(Nat)
      BY <3>1, WindowGrows
    <3>8. Cardinality(CountedSince(w, start)) \in Nat /\ Len(w) \in Nat
      <4>1. CountedSince(w, start) \in SUBSET (1 .. Len(w)) /\ Len(w) \in Nat
        BY <3>7 DEF CountedSince
      <4>. HIDE DEF w
      <4>. QED BY <4>1, PositionsCount
    <3>9. Cardinality(AllowedSince(p, x, start)') \in Nat /\ limits[p].maxRequests \in Nat
      <4>1. AllowedSince(p, x, start)' \in SUBSET (1 .. n + 1) /\ n + 1 \in Nat
        BY <1>4
      <4>2. Cardinality(AllowedSince(p, x, start)') \in Nat
        BY ONLY <4>1, PositionsCount
      <4>. QED BY <1>6, <3>1, <4>2
    <3>. HIDE DEF w
    <3>. QED BY <3>3, <3>4, <3>6, <3>7, <3>8, <3>9
  <2>. QED BY <1>4, <2>1, <2>2
<1>. QED BY <1>8, <1>9, <1>10 DEF LimiterInv

\* Every step of the rate limiter preserves the invariant.
LEMMA LimiterStep ==
  ASSUME LimiterInv, Limiter!Next
  PROVE  LimiterInv'
<1>1. CASE \/ \E policy \in Limits : Limiter!RegisterPolicy(policy)
           \/ Limiter!ClearPolicies
  BY <1>1, ConfigureStep
<1>2. ASSUME NEW agent \in Agents, NEW tool \in LimitedTools,
             Limiter!EvaluateBlocked(agent, tool) \/ Limiter!Evaluate(agent, tool)
      PROVE  LimiterInv'
  BY <1>2, BlockedStep, EvaluateStep
<1>3. CASE \/ \E block \in TemporaryBlocks : Limiter!RegisterTemporaryBlock(block)
           \/ Limiter!ClearExpiredBlocks \/ Limiter!ClearTemporaryBlocks
  <2>1. UNCHANGED <<limits, windows, log, now>>
    BY <1>3 DEF Limiter!RegisterTemporaryBlock, Limiter!ClearExpiredBlocks,
                Limiter!ClearTemporaryBlocks
  <2>2. now \in Nat
    BY DEF LimiterInv, LimiterTypes
  <2>. QED BY <2>1, <2>2, LimiterStutter
<1>4. CASE Limiter!Tick
  <2>1. UNCHANGED <<limits, windows, log>> /\ now' = now + 1
    BY <1>4 DEF Limiter!Tick
  <2>2. now \in Nat
    BY DEF LimiterInv, LimiterTypes
  <2>. QED BY <2>1, <2>2, LimiterStutter
<1>. QED BY <1>1, <1>2, <1>3, <1>4 DEF Limiter!Next

\* Whatever window of a policy's length is looked at, its last allowed request
\* was judged by the window that ended with it, which held all the others.
LEMMA LimiterInvSuffices == LimiterInv => Limiter!AllowedWithinLimit
<1>. SUFFICES ASSUME LimiterInv PROVE Limiter!AllowedWithinLimit
  OBVIOUS
<1>. SUFFICES ASSUME NEW p \in Limiter!Enforced, NEW agent \in Agents,
                     NEW tool \in LimitedTools, NEW from \in 0 .. now
              PROVE  Cardinality(Limiter!AllowedFrom(p, agent, tool, from)) <= limits[p].maxRequests
  <2>1. \A S : Limiter!Cardinality(S) = Cardinality(S)
    BY DEF Limiter!Cardinality, Cardinality
  <2>. QED BY <2>1 DEF Limiter!AllowedWithinLimit
<1>. DEFINE S == Limiter!AllowedFrom(p, agent, tool, from)
            n == Len(log)
<1>1. n \in Nat /\ DOMAIN log = 1 .. n /\ \A k \in 1 .. n : log[k].at \in Nat
  BY DEF LimiterInv, LimiterTypes
<1>2. limits[p].maxRequests \in Nat /\ limits[p].windowMs \in Nat
  <2>1. limits \in Seq(Limiter!Policy) /\ p \in DOMAIN limits
    BY DEF LimiterInv, LimiterTypes, Limiter!Enforced
  <2>2. limits[p] \in Limiter!Policy
    BY ONLY <2>1
  <2>. QED BY <2>2 DEF Limiter!Policy
<1>3. \A k \in S : /\ k \in 1 .. n /\ log[k].action = "allow"
                   /\ KeyOf(p, log[k]) = Limiter!ScopeKey(limits[p], agent, tool)
                   /\ log[k].at >= from /\ log[k].at <= from + limits[p].windowMs
                   /\ log[k].at \in Nat
  BY <1>1, <1>2 DEF Limiter!AllowedFrom, Limiter!SameKey, KeyOf
<1>4. CASE S = {}
  <2>. HIDE DEF S
  <2>1. Cardinality(S) = 0
    BY <1>4, FS_EmptySet
  <2>. QED BY <1>2, <2>1 DEF S
<1>5. CASE S # {}
  <2>. HIDE DEF S, n
  <2>1. PICK k \in S : \A j \in S : j <= k
    <3>1. S \in SUBSET (1 .. n)
      BY <1>3
    <3>. QED BY <1>1, <1>5, <3>1, LastPosition
  <2>2. \A j \in S : j \in AllowedBy(p, k)
    <3>. SUFFICES ASSUME NEW j \in S PROVE j \in AllowedBy(p, k)
      OBVIOUS
    <3>1. /\ j \in 1 .. n /\ k \in 1 .. n /\ j <= k
          /\ log[j].action = "allow" /\ KeyOf(p, log[j]) = KeyOf(p, log[k])
      BY <1>3, <2>1
    <3>2. log[j].at >= log[k].at - limits[p].windowMs
      <4>1. /\ log[j].at >= from /\ log[j].at \in Nat
            /\ log[k].at <= from + limits[p].windowMs /\ log[k].at \in Nat
        BY <1>3
      <4>2. from \in Int
        OBVIOUS
      <4>. QED BY ONLY <1>2, <4>1, <4>2
    <3>3. j \in 1 .. k
      BY <1>1, <3>1
    <3>. QED BY <3>1, <3>2, <3>3 DEF AllowedBy
  <2>3. k \in 1 .. n /\ k \in DOMAIN log /\ log[k].action = "allow" /\ k \in Nat
    BY <1>1, <1>3
  <2>4. Cardinality(AllowedBy(p, k)) <= limits[p].maxRequests
    BY <2>3 DEF LimiterInv, AllowedInTurn
  <2>5. Cardinality(S) <= Cardinality(AllowedBy(p, k)) /\ Cardinality(S) \in Nat
        /\ Cardinality(AllowedBy(p, k)) \in Nat
    <3>1. AllowedBy(p, k) \in SUBSET (1 .. k) /\ S \in SUBSET AllowedBy(p, k)
      BY <2>2 DEF AllowedBy
    <3>. QED BY <2>3, <3>1, PositionsCount
  <2>. QED BY <1>2, <2>4, <2>5 DEF S
<1>. QED BY <1>4, <1>5

\* Before the first request there is nothing to limit.
LEMMA LimiterInit == Limiter!Init => LimiterInv
<1>. SUFFICES ASSUME Limiter!Init PROVE LimiterInv
  OBVIOUS
<1>1. limits = << >> /\ windows = << >> /\ log = << >> /\ now = 0
  BY DEF Limiter!Init
<1>2. limits \in Seq(Limiter!Policy) /\ windows \in Seq([Limiter!Keys -> Seq(Nat)]) /\ log \in Seq({})
  BY <1>1
<1>3. LimiterTypes
  BY <1>1, <1>2 DEF LimiterTypes
<1>4. WindowsFollowLog /\ AllowedInTurn
  BY <1>1 DEF WindowsFollowLog, AllowedInTurn, Limiter!Enforced
<1>. QED BY <1>3, <1>4 DEF LimiterInv

\* The invariant of a behaviour of the engines that the rate limiter's rests on.
LimiterOnly == IF chosen = "limiter" THEN LimiterInv ELSE log = << >>

\* It holds at the start, and whichever engine runs, its steps preserve it.
LEMMA LimiterOnlyHolds == /\ EnginesInit => LimiterOnly
                          /\ LimiterOnly /\ [EnginesNext]_enginesVars => LimiterOnly'
<1>1. EnginesInit => LimiterOnly
  BY LimiterInit DEF EnginesInit, LimiterOnly, Limiter!Init
<1>2. ASSUME LimiterOnly, EnginesNext PROVE LimiterOnly'
  <2>1. CASE chosen = "limiter"
    <3>1. Limiter!Next /\ chosen' = "limiter"
      BY <1>2, <2>1 DEF EnginesNext, OthersIdle
    <3>. QED BY <1>2, <2>1, <3>1, LimiterStep DEF LimiterOnly
  <2>2. CASE chosen # "limiter"
    BY <1>2, <2>2 DEF EnginesNext, OthersIdle, limiterVars, LimiterOnly
  <2>. QED BY <2>1, <2>2
<1>3. ASSUME LimiterOnly, UNCHANGED enginesVars PROVE LimiterOnly'
  <2>1. UNCHANGED <<chosen, limits, windows, log, now>>
    BY <1>3 DEF enginesVars, limiterVars
  <2>2. LimiterInv => now \in Nat
    BY DEF LimiterInv, LimiterTypes
  <2>. QED BY <1>3, <2>1, <2>2, LimiterStutter DEF LimiterOnly
<1>. QED BY <1>1, <1>2, <1>3

\* "maxRequests requests are allowed; the next trips it": no window of the
\* policy's length ever lets more through, although the engine remembers the
\* current one only and the callers may come at any time.
THEOREM LimiterKeepsLimits == EnginesSpec => []AllowedWithinLimit
<1>1. LimiterOnly => AllowedWithinLimit
  BY LimiterInvSuffices DEF LimiterOnly, AllowedWithinLimit
<1>. QED BY <1>1, LimiterOnlyHolds, PTL DEF EnginesSpec

\* A caller whose scope has been quiet for a whole window is never limited: the
\* windows hold nothing but the log's requests, so nothing is left in them.
THEOREM QuietCallersPass == EnginesSpec => QuietCallerIsAdmitted
<1>1. ASSUME LimiterOnly, [EnginesNext]_enginesVars,
             NEW agent \in Agents, NEW tool \in LimitedTools,
             Limiter!Evaluate(agent, tool),
             \A p \in DOMAIN limits :
               /\ limits[p].maxRequests >= 1
               /\ \A k \in DOMAIN log : Limiter!SameKey(p, agent, tool, log[k])
                    => log[k].at < now - limits[p].windowMs
      PROVE  log'[Len(log')].action = "allow"
  <2>. DEFINE key(p) == Limiter!ScopeKey(limits[p], agent, tool)
              window == [p \in DOMAIN limits |-> Limiter!Recorded(p, key(p))]
              exceeded == {p \in DOMAIN limits : Len(window[p]) > limits[p].maxRequests}
              entry == [agent |-> agent, tool |-> tool, at |-> now,
                        action |-> "allow", resetAt |-> now]
  <2>1. \E S : log \in Seq(S)
    <3>1. << >> \in Seq({})
      OBVIOUS
    <3>2. log = << >> \/ \E S : log \in Seq(S)
      BY <1>1 DEF LimiterOnly, LimiterInv, LimiterTypes
    <3>. QED BY <3>1, <3>2
  <2>2. exceeded = {} => log' = Append(log, entry)
    BY <1>1 DEF Limiter!Evaluate, Limiter!Decide
  <2>3. LimiterInv
    <3>1. log' # log
      <4>1. \E x : log' = Append(log, x)
        BY <1>1 DEF Limiter!Evaluate, Limiter!Decide
      <4>2. PICK x : log' = Append(log, x)
        BY <4>1
      <4>3. Len(log') = Len(log) + 1 /\ Len(log) \in Nat
        BY <2>1, <4>2
      <4>. QED BY <4>3
    <3>2. chosen = "limiter"
      BY <1>1, <3>1 DEF EnginesNext, OthersIdle, enginesVars, limiterVars
    <3>. QED BY <1>1, <3>2 DEF LimiterOnly
  <2>4. ASSUME NEW p \in DOMAIN limits
        PROVE  ~(Len(window[p]) > limits[p].maxRequests)
    <3>1. key(p) \in Limiter!Keys
      BY DEF Limiter!ScopeKey, Limiter!Keys
    <3>2. \A i \in DOMAIN windows[p][key(p)] :
            ~(windows[p][key(p)][i] >= now - limits[p].windowMs)
      <4>. SUFFICES ASSUME NEW i \in DOMAIN windows[p][key(p)]
                    PROVE  ~(windows[p][key(p)][i] >= now - limits[p].windowMs)
        OBVIOUS
      <4>1. PICK k \in DOMAIN log : KeyOf(p, log[k]) = key(p) /\ log[k].at = windows[p][key(p)][i]
        BY <2>3, <3>1 DEF LimiterInv, WindowsFollowLog
      <4>2. log[k].at < now - limits[p].windowMs
        BY <1>1, <4>1 DEF Limiter!SameKey, KeyOf
      <4>3. log[k].at \in Nat /\ now \in Nat /\ limits \in Seq(Limiter!Policy)
        BY <2>3 DEF LimiterInv, LimiterTypes
      <4>4. limits[p] \in Limiter!Policy
        BY ONLY <4>3, p \in DOMAIN limits
      <4>5. limits[p].windowMs \in Nat
        BY ONLY <4>4 DEF Limiter!Policy
      <4>. QED BY ONLY <4>1, <4>2, <4>3, <4>5
    <3>3. Limiter!Since(windows[p][key(p)], now - limits[p].windowMs) = << >>
      BY <3>2 DEF Limiter!Since
    <3>4. window[p] = Append(<< >>, now)
      <4>1. window[p] = Limiter!Recorded(p, key(p))
        OBVIOUS
      <4>. QED BY <3>3, <4>1 DEF Limiter!Recorded
    <3>5. limits[p].maxRequests >= 1 /\ limits \in Seq(Limiter!Policy)
      BY <1>1, <2>3 DEF LimiterInv, LimiterTypes
    <3>6. limits[p] \in Limiter!Policy
      BY ONLY <3>5, p \in DOMAIN limits
    <3>7. limits[p].maxRequests \in Nat
      BY ONLY <3>6 DEF Limiter!Policy
    <3>. HIDE DEF window
    <3>8. Len(window[p]) = 1
      BY <3>4
    <3>. QED BY <3>5, <3>7, <3>8
  <2>5. exceeded = {}
    BY <2>4
  <2>6. entry.action = "allow"
    OBVIOUS
  <2>. HIDE DEF entry, exceeded, window
  <2>7. log'[Len(log')] = entry
    BY <2>1, <2>2, <2>5
  <2>. QED BY <2>6, <2>7
<1>2. LimiterOnly /\ [EnginesNext]_enginesVars =>
        [\A agent \in Agents, tool \in LimitedTools :
           (/\ Limiter!Evaluate(agent, tool)
            /\ \A p \in DOMAIN limits :
                 /\ limits[p].maxRequests >= 1
                 /\ \A k \in DOMAIN log : Limiter!SameKey(p, agent, tool, log[k])
                      => log[k].at < now - limits[p].windowMs)
             => log'[Len(log')].action = "allow"]_(Limiter!vars)
  BY <1>1
<1>. QED BY <1>2, LimiterOnlyHolds, PTL DEF EnginesSpec, QuietCallerIsAdmitted, Limiter!QuietCallerIsAdmitted

-----------------------------------------------------------------------------
(* The runtime heuristics.  A rule fires when its window holds exactly its    *)
(* threshold, and never looks back: the anomalies are the crossings of the    *)
(* history, and a crowded window goes back to a crossing.                     *)

MatchesOf(type, k) == Heuristics!Matches(history, HeuristicRules[type], k)
Watched(type, k) == history[k].type \in HeuristicRules[type].watched
Crowded(type, k) == Cardinality(MatchesOf(type, k)) >= HeuristicRules[type].threshold
Crossing(type, k) ==
  Watched(type, k) /\ Cardinality(MatchesOf(type, k)) = HeuristicRules[type].threshold

AnomalyAt(type, k) ==
  [type |-> type, at |-> history[k].at, related |-> MatchesOf(type, k)]
IncidentRecord ==
  [type : DOMAIN HeuristicRules, severity : Heuristics!Severity,
   related : SUBSET Nat, status : {"open", "closed"}]

\* Events come with the clock, so they are in order.
TimedEvents(h) ==
  /\ \A k \in DOMAIN h : h[k].at \in Nat
  /\ \A j, k \in DOMAIN h : j <= k => h[j].at <= h[k].at

HeuristicTypes ==
  /\ now \in Nat
  /\ \E S : history \in Seq(S)
  /\ TimedEvents(history) /\ \A k \in DOMAIN history : history[k].at <= now
  /\ IsFiniteSet(anomalies)
  /\ incidents \in Seq(IncidentRecord)

AnomaliesAreCrossings ==
  /\ \A a \in anomalies : \E type \in DOMAIN HeuristicRules, k \in DOMAIN history :
       Crossing(type, k) /\ a = AnomalyAt(type, k)
  /\ \A type \in DOMAIN HeuristicRules, k \in DOMAIN history :
       Crossing(type, k) => AnomalyAt(type, k) \in anomalies

BurstsCross ==
  \A type \in DOMAIN HeuristicRules, k \in DOMAIN history :
    Watched(type, k) /\ Crowded(type, k) =>
      \E first \in 1 .. k : /\ Crossing(type, first)
                            /\ \A j \in first .. k : Watched(type, j) => Crowded(type, j)

\* An incident is the one of an anomaly.
IsOf(incident, a) == incident.type = a.type /\ incident.related = a.related

IncidentsFollow ==
  /\ \A k \in DOMAIN incidents : \E a \in anomalies : IsOf(incidents[k], a)
  /\ \A a \in anomalies : \E k \in DOMAIN incidents : IsOf(incidents[k], a)
  /\ Len(incidents) = Cardinality(anomalies)

HeuristicInv == HeuristicTypes /\ AnomaliesAreCrossings /\ BurstsCross /\ IncidentsFollow

\* The instance counts as the library does.
LEMMA HeuristicsCount == \A S : Heuristics!Cardinality(S) = Cardinality(S)
  BY DEF Heuristics!Cardinality, Cardinality

\* What is seen at an event does not depend on the events after it.
LEMMA MatchesOfPrefix ==
  ASSUME NEW S, NEW h \in Seq(S), NEW e, NEW rule, NEW k \in 1 .. Len(h)
  PROVE  Heuristics!Matches(Append(h, e), rule, k) = Heuristics!Matches(h, rule, k)
<1>1. Len(h) \in Nat /\ \A j \in 1 .. Len(h) : Append(h, e)[j] = h[j]
  OBVIOUS
<1>2. \A j \in 1 .. k : Append(h, e)[j] = h[j]
  BY <1>1
<1>3. Append(h, e)[k] = h[k]
  BY <1>1
<1>. QED BY <1>2, <1>3 DEF Heuristics!Matches

\* The matches of a watched event are positions, and it is the last of them.
LEMMA MatchesEndHere ==
  ASSUME NEW h, TimedEvents(h), NEW k \in DOMAIN h, k \in Nat \ {0},
         NEW rule, rule.window \in Nat, h[k].type \in rule.watched,
         NEW M, M = Heuristics!Matches(h, rule, k)
  PROVE  /\ M \in SUBSET (1 .. k) /\ k \in M
         /\ IsFiniteSet(M) /\ Cardinality(M) \in Nat
         /\ Heuristics!Max(M) = k
<1>1. h[k].at \in Nat
  BY DEF TimedEvents
<1>2. M \in SUBSET (1 .. k) /\ k \in M
  BY <1>1 DEF Heuristics!Matches
<1>3. \A y \in M : k >= y
  BY <1>2
<1>4. \A x \in M : (\A y \in M : x >= y) => x = k
  BY <1>2
<1>5. Heuristics!Max(M) = k
  BY <1>2, <1>3, <1>4 DEF Heuristics!Max
<1>. QED BY <1>2, <1>5, PositionsCount

\* A window with more events than the threshold was crowded at the event before.
LEMMA CrowdedBefore ==
  ASSUME NEW h, TimedEvents(h), NEW n \in Nat, DOMAIN h = 1 .. n, NEW k \in 1 .. n,
         NEW rule, rule.window \in Nat, rule.threshold \in Nat \ {0},
         h[k].type \in rule.watched,
         Cardinality(Heuristics!Matches(h, rule, k)) > rule.threshold
  PROVE  \E j \in 1 .. n :
           /\ j < k /\ h[j].type \in rule.watched
           /\ Cardinality(Heuristics!Matches(h, rule, j)) >= rule.threshold
           /\ \A i \in 1 .. n : j < i /\ i < k => h[i].type \notin rule.watched
<1>. DEFINE M == Heuristics!Matches(h, rule, k)
            R == M \ {k}
<1>1. /\ M \in SUBSET (1 .. k) /\ k \in M /\ IsFiniteSet(M) /\ Cardinality(M) \in Nat
  BY MatchesEndHere
<1>2. \A i \in M : h[i].type \in rule.watched /\ h[i].at >= h[k].at - rule.window
  BY DEF Heuristics!Matches
<1>3. \A i \in 1 .. k : h[i].type \in rule.watched /\ h[i].at >= h[k].at - rule.window => i \in M
  BY DEF Heuristics!Matches
<1>4. Cardinality(M) > rule.threshold
  OBVIOUS
<1>. HIDE DEF M
<1>5. Cardinality(R) >= rule.threshold /\ Cardinality(R) \in Nat /\ R # {}
  <2>1. Cardinality(R) = Cardinality(M) - 1 /\ IsFiniteSet(R)
    BY <1>1, FS_RemoveElement
  <2>. HIDE DEF R
  <2>2. Cardinality(R) >= rule.threshold /\ Cardinality(R) \in Nat
    BY <1>1, <1>4, <2>1
  <2>3. Cardinality(R) # 0
    BY <2>2
  <2>4. R # {}
    BY ONLY <2>3, FS_EmptySet
  <2>. QED BY <2>2, <2>4
<1>6. \A i \in R : i \in M /\ i \in 1 .. k /\ i < k
  BY <1>1
<1>7. PICK j \in R : \A i \in R : i <= j
  <2>1. R \in SUBSET (1 .. k) /\ k \in Nat
    BY <1>6
  <2>. HIDE DEF R
  <2>. QED BY <1>5, <2>1, LastPosition
<1>8. /\ j \in 1 .. n /\ j < k /\ h[j].type \in rule.watched
      /\ h[j].at >= h[k].at - rule.window
  BY <1>2, <1>6, <1>7
<1>9. \A i \in 1 .. n : h[i].at \in Nat
  BY DEF TimedEvents
<1>10. Cardinality(Heuristics!Matches(h, rule, j)) >= rule.threshold
  <2>1. \A i \in R : i \in Heuristics!Matches(h, rule, j)
    <3>. SUFFICES ASSUME NEW i \in R PROVE i \in Heuristics!Matches(h, rule, j)
      OBVIOUS
    <3>1. i \in 1 .. j /\ h[i].type \in rule.watched /\ h[i].at >= h[k].at - rule.window
      BY <1>2, <1>6, <1>7, <1>8
    <3>2. h[j].at <= h[k].at /\ h[j].at \in Nat /\ h[k].at \in Nat
      BY <1>8, <1>9 DEF TimedEvents
    <3>3. h[i].at \in Nat
      BY <1>6, <1>9
    <3>4. h[i].at >= h[j].at - rule.window
      BY ONLY <3>1, <3>2, <3>3, rule.window \in Nat
    <3>. QED BY <3>1, <3>4 DEF Heuristics!Matches
  <2>2. Heuristics!Matches(h, rule, j) \in SUBSET (1 .. j) /\ j \in Nat
    BY <1>8 DEF Heuristics!Matches
  <2>. HIDE DEF R
  <2>3. /\ Cardinality(R) <= Cardinality(Heuristics!Matches(h, rule, j))
        /\ Cardinality(Heuristics!Matches(h, rule, j)) \in Nat
    BY <2>1, <2>2, PositionsCount
  <2>. QED BY <1>5, <2>3
<1>11. ASSUME NEW i \in 1 .. n, j < i, i < k, h[i].type \in rule.watched
       PROVE  FALSE
  <2>1. h[j].at <= h[i].at /\ h[i].at \in Nat /\ h[j].at \in Nat /\ h[k].at \in Nat
    <3>1. j \in 1 .. n /\ i \in 1 .. n /\ j <= i
      BY ONLY <1>8, <1>11, n \in Nat, i \in 1 .. n
    <3>2. h[j].at <= h[i].at
      BY <3>1 DEF TimedEvents
    <3>. QED BY <1>9, <3>1, <3>2
  <2>2. h[i].at >= h[k].at - rule.window
    BY ONLY <2>1, <1>8, rule.window \in Nat
  <2>3. i \in 1 .. k /\ i # k
    BY <1>11
  <2>4. i \in R
    BY <1>3, <1>11, <2>2, <2>3
  <2>5. i <= j /\ j \in Int
    BY <1>7, <1>8, <2>4
  <2>. QED BY <1>11, <2>5
<1>. QED BY <1>8, <1>10, <1>11

\* A finite set listed as a sequence: each of its elements once.
LEMMA ListedOnce ==
  ASSUME NEW T, IsFiniteSet(T), NEW s, s = Heuristics!SetToSeq(T)
  PROVE  /\ s \in Seq(T) /\ Len(s) = Cardinality(T)
         /\ \A x \in T : \E i \in 1 .. Len(s) : s[i] = x
<1>. DEFINE n == Cardinality(T)
            I == 1 .. n
<1>1. n \in Nat /\ ExistsBijection(I, T)
  BY FS_CardinalityType
<1>2. PICK g \in Bijection(I, T) : TRUE
  BY <1>1 DEF ExistsBijection
<1>3. g \in [I -> T] /\ \A a, b \in DOMAIN g : g[a] = g[b] => a = b
  BY <1>2 DEF Bijection, Injection, IsInjective
<1>4. s = CHOOSE f \in [I -> T] : \A a, b \in DOMAIN f : f[a] = f[b] => a = b
  BY HeuristicsCount DEF Heuristics!SetToSeq, Heuristics!IsInjective
<1>5. s \in [I -> T] /\ \A a, b \in DOMAIN s : s[a] = s[b] => a = b
  <2>. HIDE DEF I
  <2>. QED BY <1>3, <1>4
<1>6. s \in Injection(I, T)
  BY <1>5 DEF Injection, IsInjective
<1>7. s \in Surjection(I, T)
  <2>1. IsFiniteSet(I) /\ Cardinality(I) = n
    <3>1. 1 \in Int /\ n \in Int /\ (1 > n => n = 0) /\ n - 1 + 1 = n
      BY <1>1
    <3>. HIDE DEF n
    <3>2. IsFiniteSet(I) /\ Cardinality(I) = IF 1 > n THEN 0 ELSE n - 1 + 1
      BY <3>1, FS_Interval
    <3>. QED BY <3>1, <3>2
  <2>. HIDE DEF I, n
  <2>. QED BY <1>6, <2>1, FS_Injection DEF n
<1>8. s \in Seq(T) /\ Len(s) = n
  <2>. HIDE DEF n
  <2>. QED BY <1>1, <1>5
<1>9. \A x \in T : \E i \in I : s[i] = x
  BY <1>5, <1>7 DEF Surjection
<1>. QED BY <1>8, <1>9

\* What observing an event adds to the three stores.
EventOf(seen) == [type |-> seen, at |-> now]
HistoryWith(seen) == Append(history, EventOf(seen))
FiredBy(seen) == Heuristics!Triggered(HistoryWith(seen))
RaisedBy(seen) == {Heuristics!Anomaly(HistoryWith(seen), type) : type \in FiredBy(seen)}
OpenedBy(seen) == {Heuristics!Incident(a) : a \in RaisedBy(seen)} \ Heuristics!ToSet(incidents)

\* It adds that and nothing else.
LEMMA ObserveFacts ==
  ASSUME NEW seen, Heuristics!ObserveSecurity(seen)
  PROVE  /\ history' = Append(history, EventOf(seen))
         /\ anomalies' = anomalies \cup RaisedBy(seen)
         /\ incidents' = incidents \o Heuristics!SetToSeq(OpenedBy(seen))
         /\ now' = now
BY DEF Heuristics!ObserveSecurity, Heuristics!Observe, Heuristics!Stores,
       EventOf, HistoryWith, FiredBy, RaisedBy, OpenedBy

\* The history after an event: it is last, and nothing before it has changed.
LEMMA EventAdded ==
  ASSUME HeuristicInv, NEW event, event.at = now, history' = Append(history, event)
  PROVE  /\ Len(history) \in Nat /\ DOMAIN history = 1 .. Len(history)
         /\ DOMAIN history' = 1 .. Len(history) + 1 /\ Len(history') = Len(history) + 1
         /\ history'[Len(history) + 1] = event
         /\ \E S : history' \in Seq(S)
         /\ TimedEvents(history')
         /\ \A k \in DOMAIN history' : history'[k].at <= now
         /\ \A k \in 1 .. Len(history) : history'[k] = history[k]
         /\ \A type, k : k \in 1 .. Len(history) =>
              /\ MatchesOf(type, k)' = MatchesOf(type, k)
              /\ Watched(type, k)' <=> Watched(type, k)
              /\ Crowded(type, k)' <=> Crowded(type, k)
              /\ Crossing(type, k)' <=> Crossing(type, k)
              /\ AnomalyAt(type, k)' = AnomalyAt(type, k)
<1>. DEFINE n == Len(history)
<1>1. PICK S : history \in Seq(S)
  BY DEF HeuristicInv, HeuristicTypes
<1>2. history' \in Seq(S \cup {event})
  <2>1. history \in Seq(S \cup {event})
    BY <1>1
  <2>. QED BY <2>1
<1>3. /\ n \in Nat /\ DOMAIN history = 1 .. n
      /\ DOMAIN history' = 1 .. n + 1 /\ Len(history') = n + 1
      /\ history'[n + 1] = event
      /\ \A k \in 1 .. n : history'[k] = history[k]
  BY <1>1
<1>4. \A type, k : k \in 1 .. n => MatchesOf(type, k)' = MatchesOf(type, k)
  BY <1>1, MatchesOfPrefix DEF MatchesOf
<1>. HIDE DEF n
<1>5. /\ now \in Nat /\ TimedEvents(history)
      /\ \A k \in DOMAIN history : history[k].at <= now
  BY DEF HeuristicInv, HeuristicTypes
<1>6. \A k \in 1 .. n + 1 :
        \/ k \in DOMAIN history /\ history'[k].at = history[k].at
        \/ k = n + 1 /\ history'[k].at = now
  BY <1>3
<1>7. \A k \in DOMAIN history' : history'[k].at \in Nat /\ history'[k].at <= now
  BY <1>3, <1>5, <1>6 DEF TimedEvents
<1>8. ASSUME NEW j \in DOMAIN history', NEW k \in DOMAIN history', j <= k
      PROVE  history'[j].at <= history'[k].at
  <2>1. CASE k = n + 1
    BY <1>3, <1>6, <1>7, <2>1
  <2>2. CASE k \in 1 .. n
    <3>1. j \in 1 .. n
      BY <1>3, <1>8, <2>2
    <3>2. history[j].at <= history[k].at
      BY <1>3, <1>5, <1>8, <2>2, <3>1 DEF TimedEvents
    <3>. QED BY <1>3, <2>2, <3>1, <3>2
  <2>. QED BY <1>3, <2>1, <2>2
<1>9. TimedEvents(history')
  BY <1>7, <1>8 DEF TimedEvents
<1>10. ASSUME NEW type, NEW k \in 1 .. n
       PROVE  /\ Watched(type, k)' <=> Watched(type, k)
              /\ Crowded(type, k)' <=> Crowded(type, k)
              /\ Crossing(type, k)' <=> Crossing(type, k)
              /\ AnomalyAt(type, k)' = AnomalyAt(type, k)
  BY <1>3, <1>4 DEF Watched, Crowded, Crossing, AnomalyAt
<1>. QED BY <1>2, <1>3, <1>4, <1>7, <1>9, <1>10 DEF n

\* The anomalies a new event raises are the crossings it makes.
LEMMA RaisedAtTheEvent ==
  ASSUME HeuristicInv, NEW seen, history' = Append(history, EventOf(seen)),
         NEW m, m = Len(history) + 1
  PROVE  /\ FiredBy(seen) \in SUBSET DOMAIN HeuristicRules
         /\ \A type \in DOMAIN HeuristicRules : type \in FiredBy(seen) <=> Crossing(type, m)'
         /\ \A a : a \in RaisedBy(seen) <=> \E type \in FiredBy(seen) : a = AnomalyAt(type, m)'
         /\ \A type \in FiredBy(seen) : AnomalyAt(type, m)' \in RaisedBy(seen)
<1>. DEFINE h == HistoryWith(seen)
<1>1. h = history' /\ Len(h) = m /\ history'[m] = h[Len(h)]
  <2>1. EventOf(seen).at = now
    BY DEF EventOf
  <2>. QED BY <2>1, EventAdded DEF HistoryWith
<1>2. \A type : Heuristics!Anomaly(h, type) = AnomalyAt(type, m)'
  BY <1>1 DEF Heuristics!Anomaly, AnomalyAt, MatchesOf
<1>3. \A type : Heuristics!Cardinality(Heuristics!Matches(h, HeuristicRules[type], Len(h))) =
                Cardinality(MatchesOf(type, m)')
  BY <1>1, HeuristicsCount DEF MatchesOf
<1>4. \A type \in DOMAIN HeuristicRules : type \in FiredBy(seen) <=> Crossing(type, m)'
  BY <1>1, <1>3 DEF FiredBy, Heuristics!Triggered, Crossing, Watched
<1>5. FiredBy(seen) \in SUBSET DOMAIN HeuristicRules
  BY DEF FiredBy, Heuristics!Triggered
<1>6. RaisedBy(seen) = {Heuristics!Anomaly(h, t) : t \in FiredBy(seen)}
  BY DEF RaisedBy
<1>. HIDE DEF h
<1>7. \A a : a \in RaisedBy(seen) <=> \E type \in FiredBy(seen) : a = AnomalyAt(type, m)'
  BY <1>2, <1>6
<1>. QED BY <1>4, <1>5, <1>7

\* What the rules promise of a type.
LEMMA RuleTypes ==
  /\ IsFiniteSet(DOMAIN HeuristicRules)
  /\ \A type \in DOMAIN HeuristicRules :
       /\ HeuristicRules[type].threshold \in Nat \ {0}
       /\ HeuristicRules[type].window \in Nat
       /\ HeuristicRules[type].severity \in Heuristics!Severity
<1>1. \A S : Heuristics!IsFiniteSet(S) = IsFiniteSet(S)
  BY DEF Heuristics!IsFiniteSet, IsFiniteSet
<1>. QED BY <1>1, HeuristicConstants DEF Heuristics!RulesAssumption

\* A new event keeps the anomalies the crossings of the history.
LEMMA ObserveKeepsCrossings ==
  ASSUME HeuristicInv, NEW seen, Heuristics!ObserveSecurity(seen)
  PROVE  AnomaliesAreCrossings'
<1>. DEFINE fired == FiredBy(seen)
            raised == RaisedBy(seen)
            n == Len(history)
<1>1. history' = Append(history, EventOf(seen)) /\ anomalies' = anomalies \cup raised
  BY ObserveFacts
<1>2. EventOf(seen).at = now
  BY DEF EventOf
<1>3. /\ n \in Nat /\ DOMAIN history = 1 .. n /\ DOMAIN history' = 1 .. n + 1
      /\ \A type, k : k \in 1 .. n =>
           /\ Crossing(type, k)' <=> Crossing(type, k)
           /\ AnomalyAt(type, k)' = AnomalyAt(type, k)
  BY <1>1, <1>2, EventAdded
<1>4. PICK m : m = n + 1
  OBVIOUS
<1>5. /\ \A type \in DOMAIN HeuristicRules : type \in fired <=> Crossing(type, m)'
      /\ fired \in SUBSET DOMAIN HeuristicRules
      /\ \A a : a \in raised <=> \E type \in fired : a = AnomalyAt(type, m)'
      /\ \A type \in fired : AnomalyAt(type, m)' \in raised
  BY <1>1, <1>4, RaisedAtTheEvent
<1>. HIDE DEF fired, raised, n
<1>6. m \in DOMAIN history' /\ \A k \in DOMAIN history' : k \in 1 .. n \/ k = m
  BY <1>3, <1>4
<1>7. ASSUME NEW a \in anomalies'
      PROVE  \E type \in DOMAIN HeuristicRules, k \in DOMAIN history' :
               Crossing(type, k)' /\ a = AnomalyAt(type, k)'
  <2>1. CASE a \in anomalies
    <3>1. PICK type \in DOMAIN HeuristicRules, k \in DOMAIN history :
            Crossing(type, k) /\ a = AnomalyAt(type, k)
      BY <2>1 DEF HeuristicInv, AnomaliesAreCrossings
    <3>2. k \in 1 .. n /\ k \in DOMAIN history'
      BY <1>3
    <3>3. Crossing(type, k)' /\ a = AnomalyAt(type, k)'
      BY <1>3, <3>1, <3>2
    <3>. QED BY <3>2, <3>3
  <2>2. CASE a \in raised
    <3>1. PICK type \in fired : a = AnomalyAt(type, m)'
      BY <1>5, <2>2
    <3>2. type \in DOMAIN HeuristicRules /\ Crossing(type, m)'
      BY <1>5
    <3>. QED BY <1>6, <3>1, <3>2
  <2>. QED BY <1>1, <1>7, <2>1, <2>2
<1>8. ASSUME NEW type \in DOMAIN HeuristicRules, NEW k \in DOMAIN history', Crossing(type, k)'
      PROVE  AnomalyAt(type, k)' \in anomalies'
  <2>1. CASE k \in 1 .. n
    <3>1. Crossing(type, k) /\ k \in DOMAIN history
      BY <1>3, <1>8, <2>1
    <3>2. AnomalyAt(type, k) \in anomalies
      BY <3>1 DEF HeuristicInv, AnomaliesAreCrossings
    <3>. QED BY <1>1, <1>3, <2>1, <3>2
  <2>2. CASE k = m
    <3>1. type \in fired
      BY <1>5, <1>8, <2>2
    <3>. QED BY <1>1, <1>5, <2>2, <3>1
  <2>. QED BY <1>6, <2>1, <2>2
<1>. QED BY <1>7, <1>8 DEF AnomaliesAreCrossings

\* A window crowded by the new event is a crossing, or goes back to one.
LEMMA ObserveKeepsBursts ==
  ASSUME HeuristicInv, NEW seen, Heuristics!ObserveSecurity(seen)
  PROVE  BurstsCross'
<1>. DEFINE n == Len(history)
<1>1. history' = Append(history, EventOf(seen))
  BY ObserveFacts
<1>2. EventOf(seen).at = now
  BY DEF EventOf
<1>3. /\ n \in Nat /\ DOMAIN history = 1 .. n /\ DOMAIN history' = 1 .. n + 1
      /\ TimedEvents(history')
      /\ \A type, k : k \in 1 .. n =>
           /\ Watched(type, k)' <=> Watched(type, k)
           /\ Crowded(type, k)' <=> Crowded(type, k)
           /\ Crossing(type, k)' <=> Crossing(type, k)
  BY <1>1, <1>2, EventAdded
<1>4. PICK m : m = n + 1
  OBVIOUS
<1>. HIDE DEF n
<1>5. ASSUME NEW type \in DOMAIN HeuristicRules, NEW k \in 1 .. n, Watched(type, k), Crowded(type, k)
      PROVE  \E first \in 1 .. k :
               /\ Crossing(type, first)'
               /\ \A j \in first .. k : Watched(type, j)' => Crowded(type, j)'
  <2>1. PICK first \in 1 .. k : /\ Crossing(type, first)
                                /\ \A j \in first .. k : Watched(type, j) => Crowded(type, j)
    BY <1>3, <1>5 DEF HeuristicInv, BurstsCross
  <2>2. first \in 1 .. n /\ \A j \in first .. k : j \in 1 .. n
    BY ONLY <1>3, k \in 1 .. n, first \in 1 .. k
  <2>3. Crossing(type, first)'
    BY <1>3, <2>1, <2>2
  <2>4. \A j \in first .. k : Watched(type, j)' => Crowded(type, j)'
    BY <1>3, <2>1, <2>2
  <2>. QED BY <2>3, <2>4
<1>6. ASSUME NEW type \in DOMAIN HeuristicRules, Watched(type, m)', Crowded(type, m)'
      PROVE  \E first \in 1 .. m :
               /\ Crossing(type, first)'
               /\ \A j \in first .. m : Watched(type, j)' => Crowded(type, j)'
  <2>. DEFINE rule == HeuristicRules[type]
              M == Heuristics!Matches(history', rule, m)
  <2>1. rule.window \in Nat /\ rule.threshold \in Nat \ {0}
    BY RuleTypes
  <2>2. \A k : /\ Watched(type, k)' <=> history'[k].type \in rule.watched
               /\ Crowded(type, k)' <=>
                    Cardinality(Heuristics!Matches(history', rule, k)) >= rule.threshold
    BY DEF Watched, Crowded, MatchesOf
  <2>3. Crossing(type, m)' <=> Watched(type, m)' /\ Cardinality(M) = rule.threshold
    BY DEF Crossing, Watched, MatchesOf
  <2>4. m \in 1 .. n + 1 /\ m \in DOMAIN history' /\ m \in Nat \ {0}
    BY <1>3, <1>4
  <2>5. Cardinality(M) \in Nat
    BY <1>3, <1>6, <2>1, <2>2, <2>4, MatchesEndHere
  <2>. HIDE DEF M
  <2>6. CASE Cardinality(M) = rule.threshold
    <3>1. Crossing(type, m)' /\ \A j \in m .. m : j = m
      BY <1>6, <2>3, <2>4, <2>6
    <3>. QED BY <1>6, <2>4, <3>1
  <2>7. CASE Cardinality(M) > rule.threshold
    <3>. DEFINE N == n + 1
    <3>1. N \in Nat /\ DOMAIN history' = 1 .. N /\ m \in 1 .. N
      BY <1>3, <2>4
    <3>. HIDE DEF N
    <3>2. history'[m].type \in rule.watched
      BY <1>6, <2>2
    <3>3. \E j \in 1 .. N :
            /\ j < m /\ history'[j].type \in rule.watched
            /\ Cardinality(Heuristics!Matches(history', rule, j)) >= rule.threshold
            /\ \A i \in 1 .. N : j < i /\ i < m => history'[i].type \notin rule.watched
      <4>. HIDE DEF rule
      <4>. QED BY <1>3, <2>1, <2>7, <3>1, <3>2, CrowdedBefore DEF M
    <3>4. PICK j \in 1 .. N :
            /\ j < m /\ Watched(type, j)' /\ Crowded(type, j)'
            /\ \A i \in 1 .. N : j < i /\ i < m => ~Watched(type, i)'
      BY <2>2, <3>3
    <3>5. j \in 1 .. n
      BY <1>3, <1>4, <3>4 DEF N
    <3>6. Watched(type, j) /\ Crowded(type, j)
      BY <1>3, <3>4, <3>5
    <3>7. PICK first \in 1 .. j :
            /\ Crossing(type, first)'
            /\ \A i \in first .. j : Watched(type, i)' => Crowded(type, i)'
      BY <1>5, <3>5, <3>6
    <3>8. \A i \in first .. m : Watched(type, i)' => Crowded(type, i)'
      <4>. SUFFICES ASSUME NEW i \in first .. m, Watched(type, i)' PROVE Crowded(type, i)'
        OBVIOUS
      <4>1. i \in 1 .. N /\ (i \in first .. j \/ (j < i /\ i < m) \/ i = m)
        BY ONLY <1>3, <1>4, <2>4, <3>5, i \in first .. m, first \in 1 .. j DEF N
      <4>. QED BY <1>6, <3>4, <3>7, <4>1
    <3>9. first \in 1 .. m
      BY ONLY <2>4, <3>4, <3>5, first \in 1 .. j, <1>3
    <3>. QED BY <3>7, <3>8, <3>9
  <2>8. Cardinality(M) >= rule.threshold
    BY <1>6, <2>2 DEF M
  <2>. QED BY <2>1, <2>5, <2>6, <2>7, <2>8
<1>7. \A k \in DOMAIN history' : k \in 1 .. n \/ k = m
  BY <1>3, <1>4
<1>. SUFFICES ASSUME NEW type \in DOMAIN HeuristicRules, NEW k \in DOMAIN history',
                     Watched(type, k)', Crowded(type, k)'
              PROVE  \E first \in 1 .. k :
                       /\ Crossing(type, first)'
                       /\ \A j \in first .. k : Watched(type, j)' => Crowded(type, j)'
  BY DEF BurstsCross
<1>8. CASE k \in 1 .. n
  BY <1>3, <1>5, <1>8
<1>9. CASE k = m
  BY <1>6, <1>9
<1>. QED BY <1>7, <1>8, <1>9

\* What an event raises rests on that event, so it is new: no anomaly and no
\* incident there is says the same.
LEMMA RaisedIsNew ==
  ASSUME HeuristicInv, NEW seen, Heuristics!ObserveSecurity(seen)
  PROVE  /\ RaisedBy(seen) \cap anomalies = {}
         /\ OpenedBy(seen) = {Heuristics!Incident(a) : a \in RaisedBy(seen)}
         /\ \A a \in RaisedBy(seen) : a.type \in FiredBy(seen) /\ a.related \in SUBSET Nat
         /\ \A a, b \in RaisedBy(seen) : a.type = b.type => a = b
         /\ IsFiniteSet(RaisedBy(seen))
<1>. DEFINE n == Len(history)
<1>1. history' = Append(history, EventOf(seen))
  BY ObserveFacts
<1>2. EventOf(seen).at = now
  BY DEF EventOf
<1>3. /\ n \in Nat /\ DOMAIN history = 1 .. n /\ DOMAIN history' = 1 .. n + 1
      /\ TimedEvents(history')
  BY <1>1, <1>2, EventAdded
<1>4. PICK m : m = n + 1
  OBVIOUS
<1>5. /\ FiredBy(seen) \in SUBSET DOMAIN HeuristicRules
      /\ \A type \in DOMAIN HeuristicRules : type \in FiredBy(seen) <=> Crossing(type, m)'
      /\ \A a : a \in RaisedBy(seen) <=> \E type \in FiredBy(seen) : a = AnomalyAt(type, m)'
      /\ \A type \in FiredBy(seen) : AnomalyAt(type, m)' \in RaisedBy(seen)
  BY <1>1, <1>4, RaisedAtTheEvent
<1>. HIDE DEF n
<1>6. ASSUME NEW type \in FiredBy(seen)
      PROVE  m \in MatchesOf(type, m)' /\ MatchesOf(type, m)' \in SUBSET Nat
  <2>. DEFINE rule == HeuristicRules[type]
              M == MatchesOf(type, m)'
  <2>1. type \in DOMAIN HeuristicRules /\ Crossing(type, m)'
    BY <1>5
  <2>2. rule.window \in Nat /\ history'[m].type \in rule.watched
    BY <2>1, RuleTypes DEF Crossing, Watched
  <2>3. m \in DOMAIN history' /\ m \in Nat \ {0}
    BY <1>3, <1>4
  <2>4. M = Heuristics!Matches(history', rule, m)
    BY DEF MatchesOf
  <2>. HIDE DEF M, rule
  <2>5. M \in SUBSET (1 .. m) /\ m \in M
    BY ONLY <1>3, <2>2, <2>3, <2>4, MatchesEndHere
  <2>. QED BY <2>3, <2>5 DEF M
<1>7. \A type : AnomalyAt(type, m)'.type = type /\ AnomalyAt(type, m)'.related = MatchesOf(type, m)'
  BY DEF AnomalyAt
<1>8. \A a \in RaisedBy(seen) :
        a.type \in FiredBy(seen) /\ m \in a.related /\ a.related \in SUBSET Nat
  BY <1>5, <1>6, <1>7
<1>9. \A a \in anomalies : m \notin a.related
  <2>. SUFFICES ASSUME NEW a \in anomalies PROVE m \notin a.related
    OBVIOUS
  <2>1. PICK type \in DOMAIN HeuristicRules, k \in DOMAIN history : a = AnomalyAt(type, k)
    BY DEF HeuristicInv, AnomaliesAreCrossings
  <2>2. a.related \in SUBSET (1 .. k)
    BY <2>1 DEF AnomalyAt, MatchesOf, Heuristics!Matches
  <2>3. k \in 1 .. n
    BY <1>3
  <2>. QED BY <1>3, <1>4, <2>2, <2>3
<1>10. \A k \in DOMAIN incidents : m \notin incidents[k].related
  BY <1>9 DEF HeuristicInv, IncidentsFollow, IsOf
<1>11. OpenedBy(seen) = {Heuristics!Incident(a) : a \in RaisedBy(seen)}
  <2>1. \A a \in RaisedBy(seen) : Heuristics!Incident(a) \notin Heuristics!ToSet(incidents)
    <3>. SUFFICES ASSUME NEW a \in RaisedBy(seen), NEW k \in DOMAIN incidents,
                         Heuristics!Incident(a) = incidents[k]
                  PROVE  FALSE
      BY DEF Heuristics!ToSet
    <3>1. Heuristics!Incident(a).related = a.related
      BY DEF Heuristics!Incident
    <3>. QED BY <1>8, <1>10, <3>1
  <2>. QED BY <2>1 DEF OpenedBy
<1>12. \A a, b \in RaisedBy(seen) : a.type = b.type => a = b
  BY <1>5, <1>7
<1>13. IsFiniteSet(RaisedBy(seen))
  <2>. DEFINE S == FiredBy(seen)
              T == RaisedBy(seen)
              f == [a \in T |-> a.type]
  <2>1. IsFiniteSet(S)
    BY <1>5, RuleTypes, FS_Subset
  <2>2. f \in [T -> S] /\ \A a, b \in T : f[a] = f[b] => a = b
    BY <1>8, <1>12
  <2>3. f \in Injection(T, S)
    BY <2>2 DEF Injection, IsInjective
  <2>. HIDE DEF S, T, f
  <2>4. IsFiniteSet(T)
    BY <2>1, <2>3, FS_Injection
  <2>. QED BY <2>4 DEF T
<1>. QED BY <1>8, <1>9, <1>11, <1>12, <1>13

\* The incidents opened are as many as the anomalies raised, and one of each.
LEMMA OpenedIsRaised ==
  ASSUME HeuristicInv, NEW seen, Heuristics!ObserveSecurity(seen)
  PROVE  /\ IsFiniteSet(OpenedBy(seen)) /\ IsFiniteSet(RaisedBy(seen))
         /\ Cardinality(OpenedBy(seen)) = Cardinality(RaisedBy(seen))
         /\ OpenedBy(seen) \in SUBSET IncidentRecord
         /\ \A i \in OpenedBy(seen) : \E a \in RaisedBy(seen) : IsOf(i, a)
         /\ \A a \in RaisedBy(seen) : \E i \in OpenedBy(seen) : IsOf(i, a)
<1>. DEFINE R == RaisedBy(seen)
            O == OpenedBy(seen)
            g == [a \in R |-> Heuristics!Incident(a)]
<1>1. /\ O = {Heuristics!Incident(a) : a \in R}
      /\ \A a \in R : a.type \in FiredBy(seen) /\ a.related \in SUBSET Nat
      /\ \A a, b \in R : a.type = b.type => a = b
      /\ IsFiniteSet(R)
  BY RaisedIsNew
<1>2. FiredBy(seen) \in SUBSET DOMAIN HeuristicRules
  BY DEF FiredBy, Heuristics!Triggered
<1>3. \A a \in R : Heuristics!Incident(a).type = a.type /\ IsOf(Heuristics!Incident(a), a)
  BY DEF Heuristics!Incident, IsOf
<1>. HIDE DEF R, O
<1>4. \A a \in R : Heuristics!Incident(a) \in IncidentRecord
  BY <1>1, <1>2, RuleTypes DEF Heuristics!Incident, IncidentRecord
<1>5. g \in Bijection(R, O)
  <2>1. g \in [R -> O] /\ \A i \in O : \E a \in R : g[a] = i
    BY <1>1
  <2>2. \A a, b \in R : g[a] = g[b] => a = b
    BY <1>1, <1>3
  <2>. HIDE DEF g
  <2>. QED BY <2>1, <2>2 DEF Bijection, Injection, Surjection, IsInjective
<1>6. IsFiniteSet(O) /\ Cardinality(O) = Cardinality(R)
  <2>. HIDE DEF g
  <2>1. ExistsBijection(R, O)
    BY <1>5 DEF ExistsBijection
  <2>. QED BY <1>1, <2>1, FS_Bijection
<1>. QED BY <1>1, <1>3, <1>4, <1>6 DEF R, O

\* A new event keeps the incidents those of the anomalies, one each.
LEMMA ObserveKeepsIncidents ==
  ASSUME HeuristicInv, NEW seen, Heuristics!ObserveSecurity(seen)
  PROVE  IncidentsFollow' /\ IsFiniteSet(anomalies') /\ incidents' \in Seq(IncidentRecord)
<1>. DEFINE R == RaisedBy(seen)
            O == OpenedBy(seen)
<1>1. PICK s : s = Heuristics!SetToSeq(O)
  OBVIOUS
<1>2. /\ anomalies' = anomalies \cup R
      /\ incidents' = incidents \o s
  BY <1>1, ObserveFacts
<1>3. /\ IsFiniteSet(O) /\ IsFiniteSet(R) /\ Cardinality(O) = Cardinality(R)
      /\ O \in SUBSET IncidentRecord
      /\ \A i \in O : \E a \in R : IsOf(i, a)
      /\ \A a \in R : \E i \in O : IsOf(i, a)
      /\ R \cap anomalies = {}
  BY OpenedIsRaised, RaisedIsNew
<1>. HIDE DEF R, O
<1>4. s \in Seq(O) /\ Len(s) = Cardinality(O) /\ \A i \in O : \E k \in 1 .. Len(s) : s[k] = i
  <2>1. IsFiniteSet(O)
    BY <1>3
  <2>. QED BY ONLY <1>1, <2>1, ListedOnce
<1>5. /\ IsFiniteSet(anomalies) /\ incidents \in Seq(IncidentRecord)
      /\ \A k \in DOMAIN incidents : \E a \in anomalies : IsOf(incidents[k], a)
      /\ \A a \in anomalies : \E k \in DOMAIN incidents : IsOf(incidents[k], a)
      /\ Len(incidents) = Cardinality(anomalies)
  BY DEF HeuristicInv, HeuristicTypes, IncidentsFollow
<1>6. IsFiniteSet(anomalies') /\ Cardinality(anomalies') = Cardinality(anomalies) + Cardinality(R)
  <2>1. /\ IsFiniteSet(anomalies \cup R)
        /\ Cardinality(anomalies \cup R) =
             Cardinality(anomalies) + Cardinality(R) - Cardinality(anomalies \cap R)
    BY <1>3, <1>5, FS_Union
  <2>2. anomalies \cap R = {}
    BY <1>3
  <2>3. Cardinality(anomalies) \in Nat /\ Cardinality(R) \in Nat
    BY <1>3, <1>5, FS_CardinalityType
  <2>4. Cardinality(anomalies \cap R) = 0
    BY <2>2, FS_EmptySet
  <2>5. Cardinality(anomalies \cup R) = Cardinality(anomalies) + Cardinality(R)
    BY ONLY <2>1, <2>3, <2>4
  <2>. QED BY <1>2, <2>1, <2>5
<1>7. s \in Seq(IncidentRecord) /\ \A k \in 1 .. Len(s) : s[k] \in O
  BY <1>3, <1>4
<1>. DEFINE N == Len(incidents)
<1>8. /\ incidents' \in Seq(IncidentRecord) /\ Len(incidents') = N + Len(s) /\ N \in Nat
      /\ Len(s) \in Nat /\ DOMAIN incidents' = 1 .. N + Len(s) /\ DOMAIN incidents = 1 .. N
      /\ \A k \in 1 .. N : incidents'[k] = incidents[k]
      /\ \A k \in 1 .. Len(s) : incidents'[N + k] = s[k] /\ N + k \in 1 .. N + Len(s)
      /\ \A k \in 1 .. N + Len(s) : k \in 1 .. N \/ (k - N \in 1 .. Len(s) /\ incidents'[k] = s[k - N])
  <2>. DEFINE A == IncidentRecord
  <2>1. incidents \in Seq(A) /\ s \in Seq(A)
    BY <1>5, <1>7
  <2>. HIDE DEF A
  <2>2. N \in Nat /\ Len(s) \in Nat /\ DOMAIN incidents = 1 .. N /\ DOMAIN s = 1 .. Len(s)
    BY ONLY <2>1
  <2>3. incidents' \in Seq(A) /\ Len(incidents') = N + Len(s)
    BY ONLY <1>2, <2>1
  <2>4. DOMAIN incidents' = 1 .. N + Len(s)
    BY ONLY <2>3
  <2>5. \A k \in 1 .. N + Len(s) : incidents'[k] = IF k <= N THEN incidents[k] ELSE s[k - N]
    BY ONLY <1>2, <2>1, <2>2
  <2>. HIDE DEF N
  <2>6. ASSUME NEW k \in 1 .. N PROVE incidents'[k] = incidents[k]
    <3>1. k \in 1 .. N + Len(s) /\ k <= N
      BY ONLY <2>2, k \in 1 .. N
    <3>. QED BY <2>5, <3>1
  <2>7. ASSUME NEW k \in 1 .. Len(s) PROVE incidents'[N + k] = s[k] /\ N + k \in 1 .. N + Len(s)
    <3>1. PICK j : j = N + k
      OBVIOUS
    <3>2. j \in 1 .. N + Len(s) /\ ~(j <= N) /\ j - N = k
      BY ONLY <2>2, <3>1, k \in 1 .. Len(s)
    <3>3. incidents'[j] = s[j - N]
      BY <2>5, <3>2
    <3>. QED BY <3>1, <3>2, <3>3
  <2>8. ASSUME NEW k \in 1 .. N + Len(s)
        PROVE  k \in 1 .. N \/ (k - N \in 1 .. Len(s) /\ incidents'[k] = s[k - N])
    <3>1. k \in 1 .. N \/ (k - N \in 1 .. Len(s) /\ ~(k <= N))
      BY ONLY <2>2, k \in 1 .. N + Len(s)
    <3>. QED BY <2>5, <3>1
  <2>. QED BY <2>2, <2>3, <2>4, <2>6, <2>7, <2>8 DEF A
<1>. HIDE DEF N
<1>9. \A k \in DOMAIN incidents' : \E a \in anomalies' : IsOf(incidents'[k], a)
  <2>. SUFFICES ASSUME NEW k \in DOMAIN incidents'
                PROVE  \E a \in anomalies' : IsOf(incidents'[k], a)
    OBVIOUS
  <2>1. CASE k \in 1 .. N
    BY <1>2, <1>5, <1>8, <2>1
  <2>2. CASE k - N \in 1 .. Len(s) /\ incidents'[k] = s[k - N]
    <3>1. incidents'[k] \in O
      BY <1>7, <2>2
    <3>. QED BY <1>2, <1>3, <3>1
  <2>. QED BY <1>8, <2>1, <2>2
<1>10. \A a \in anomalies' : \E k \in DOMAIN incidents' : IsOf(incidents'[k], a)
  <2>. SUFFICES ASSUME NEW a \in anomalies'
                PROVE  \E k \in DOMAIN incidents' : IsOf(incidents'[k], a)
    OBVIOUS
  <2>1. CASE a \in anomalies
    <3>1. PICK k \in DOMAIN incidents : IsOf(incidents[k], a)
      BY <1>5, <2>1
    <3>2. k \in 1 .. N /\ k \in DOMAIN incidents'
      BY <1>8
    <3>. QED BY <1>8, <3>1, <3>2
  <2>2. CASE a \in R
    <3>1. PICK i \in O : IsOf(i, a)
      BY <1>3, <2>2
    <3>2. PICK k \in 1 .. Len(s) : s[k] = i
      BY <1>4
    <3>. QED BY <1>8, <3>1, <3>2
  <2>. QED BY <1>2, <2>1, <2>2
<1>11. Len(incidents') = Cardinality(anomalies')
  BY <1>3, <1>4, <1>5, <1>6, <1>8 DEF N
<1>12. IncidentsFollow'
  BY <1>9, <1>10, <1>11 DEF IncidentsFollow, IsOf
<1>. QED BY <1>6, <1>8, <1>12

\* Observing an event preserves the invariant.
LEMMA ObserveStep ==
  ASSUME HeuristicInv, NEW seen, Heuristics!ObserveSecurity(seen)
  PROVE  HeuristicInv'
<1>1. history' = Append(history, EventOf(seen)) /\ now' = now
  BY ObserveFacts
<1>2. EventOf(seen).at = now
  BY DEF EventOf
<1>3. /\ \E S : history' \in Seq(S)
      /\ TimedEvents(history')
      /\ \A k \in DOMAIN history' : history'[k].at <= now
  BY <1>1, <1>2, EventAdded
<1>4. HeuristicTypes'
  <2>1. now' \in Nat
    BY <1>1 DEF HeuristicInv, HeuristicTypes
  <2>2. TimedEvents(history)'
    BY <1>3 DEF TimedEvents
  <2>. QED BY <1>1, <1>3, <2>1, <2>2, ObserveKeepsIncidents DEF HeuristicTypes
<1>. QED BY <1>4, ObserveKeepsCrossings, ObserveKeepsBursts, ObserveKeepsIncidents DEF HeuristicInv

\* Time passes and incidents are closed; what was observed stays as it was.
LEMMA NothingObserved ==
  ASSUME HeuristicInv, UNCHANGED <<history, anomalies>>, now' \in Nat, now <= now',
         incidents' \in Seq(IncidentRecord), Len(incidents') = Len(incidents),
         \A k \in DOMAIN incidents : /\ incidents'[k].type = incidents[k].type
                                     /\ incidents'[k].related = incidents[k].related
  PROVE  HeuristicInv'
<1>1. HeuristicTypes'
  <2>1. \A k \in DOMAIN history : history[k].at <= now'
    BY DEF HeuristicInv, HeuristicTypes, TimedEvents
  <2>2. TimedEvents(history)'
    BY DEF HeuristicInv, HeuristicTypes, TimedEvents
  <2>3. \E S : history' \in Seq(S)
    BY DEF HeuristicInv, HeuristicTypes
  <2>. QED BY <2>1, <2>2, <2>3 DEF HeuristicInv, HeuristicTypes
<1>2. \A type, k : /\ Watched(type, k)' <=> Watched(type, k)
                   /\ Crowded(type, k)' <=> Crowded(type, k)
                   /\ Crossing(type, k)' <=> Crossing(type, k)
                   /\ AnomalyAt(type, k)' = AnomalyAt(type, k)
  BY DEF Watched, Crowded, Crossing, AnomalyAt, MatchesOf
<1>3. AnomaliesAreCrossings' /\ BurstsCross'
  BY <1>2 DEF HeuristicInv, AnomaliesAreCrossings, BurstsCross
<1>4. IncidentsFollow'
  <2>1. DOMAIN incidents' = DOMAIN incidents
    BY DEF HeuristicInv, HeuristicTypes
  <2>2. \A k \in DOMAIN incidents : \A a : IsOf(incidents'[k], a) <=> IsOf(incidents[k], a)
    BY DEF IsOf
  <2>3. \A k, a : IsOf(incidents[k], a)' <=> IsOf(incidents'[k], a)
    BY DEF IsOf
  <2>. QED BY <2>1, <2>2 DEF HeuristicInv, IncidentsFollow, IsOf
<1>. QED BY <1>1, <1>3, <1>4 DEF HeuristicInv

\* Every step of the heuristics preserves the invariant.
LEMMA HeuristicStep ==
  ASSUME HeuristicInv, Heuristics!Next
  PROVE  HeuristicInv'
<1>1. now \in Nat /\ incidents \in Seq(IncidentRecord)
  BY DEF HeuristicInv, HeuristicTypes
<1>2. ASSUME NEW k \in DOMAIN incidents, Heuristics!CloseIncident(k)
      PROVE  HeuristicInv'
  <2>1. /\ incidents' = [incidents EXCEPT ![k].status = "closed"]
        /\ UNCHANGED <<history, anomalies, now>>
    BY <1>2 DEF Heuristics!CloseIncident
  <2>2. \A j \in DOMAIN incidents : incidents[j] \in IncidentRecord
    BY <1>1
  <2>3. [incidents[k] EXCEPT !.status = "closed"] \in IncidentRecord
        /\ [incidents[k] EXCEPT !.status = "closed"].type = incidents[k].type
        /\ [incidents[k] EXCEPT !.status = "closed"].related = incidents[k].related
    BY <2>2 DEF IncidentRecord
  <2>. DEFINE closed == [incidents[k] EXCEPT !.status = "closed"]
  <2>4. incidents' = [incidents EXCEPT ![k] = closed]
    BY <2>1
  <2>. HIDE DEF closed
  <2>5. closed \in IncidentRecord /\ closed.type = incidents[k].type /\ closed.related = incidents[k].related
    BY <2>3 DEF closed
  <2>6. incidents' \in Seq(IncidentRecord) /\ Len(incidents') = Len(incidents)
    BY ONLY <1>1, <2>4, <2>5, k \in DOMAIN incidents
  <2>7. \A j \in DOMAIN incidents : /\ incidents'[j].type = incidents[j].type
                                    /\ incidents'[j].related = incidents[j].related
    BY <2>4, <2>5
  <2>. QED BY <1>1, <2>1, <2>6, <2>7, NothingObserved
<1>3. CASE Heuristics!Tick
  <2>1. UNCHANGED <<history, anomalies, incidents>> /\ now' = now + 1
    BY <1>3 DEF Heuristics!Tick
  <2>. QED BY <1>1, <2>1, NothingObserved
<1>. QED BY <1>2, <1>3, ObserveStep DEF Heuristics!Next

\* The invariant is more than what detection promises.
LEMMA HeuristicInvSuffices == HeuristicInv => Heuristics!DetectionIsExact
<1>. SUFFICES ASSUME HeuristicInv PROVE Heuristics!DetectionIsExact
  OBVIOUS
<1>1. /\ \E S : history \in Seq(S)
      /\ TimedEvents(history)
  BY DEF HeuristicInv, HeuristicTypes
<1>2. PICK n \in Nat : DOMAIN history = 1 .. n
  BY <1>1
<1>3. ASSUME NEW type \in DOMAIN HeuristicRules, NEW k \in DOMAIN history, Watched(type, k)
      PROVE  /\ MatchesOf(type, k) \in SUBSET (1 .. k) /\ Heuristics!Max(MatchesOf(type, k)) = k
  <2>. DEFINE rule == HeuristicRules[type]
  <2>1. rule.window \in Nat /\ history[k].type \in rule.watched
    BY <1>3, RuleTypes DEF Watched
  <2>2. k \in Nat \ {0}
    BY <1>2
  <2>. HIDE DEF rule
  <2>. QED BY <1>1, <2>1, <2>2, MatchesEndHere DEF MatchesOf, rule
<1>4. Heuristics!BurstsAreDetected
  <2>1. ASSUME NEW type \in DOMAIN HeuristicRules, NEW k \in DOMAIN history,
               Watched(type, k), Crowded(type, k)
        PROVE  \E a \in anomalies :
                 /\ a.type = type /\ Heuristics!Max(a.related) <= k
                 /\ \A j \in Heuristics!Max(a.related) .. k : Watched(type, j) => Crowded(type, j)
    <3>1. PICK first \in 1 .. k : /\ Crossing(type, first)
                                  /\ \A j \in first .. k : Watched(type, j) => Crowded(type, j)
      BY <2>1 DEF HeuristicInv, BurstsCross
    <3>2. first \in DOMAIN history /\ first <= k
      BY <1>2
    <3>3. AnomalyAt(type, first) \in anomalies
      BY <3>1, <3>2 DEF HeuristicInv, AnomaliesAreCrossings
    <3>4. /\ AnomalyAt(type, first).type = type
          /\ AnomalyAt(type, first).related = MatchesOf(type, first)
      BY DEF AnomalyAt
    <3>5. Heuristics!Max(AnomalyAt(type, first).related) = first
      BY <1>3, <3>1, <3>2, <3>4 DEF Crossing
    <3>. QED BY <3>1, <3>2, <3>3, <3>4, <3>5
  <2>. QED BY <2>1, HeuristicsCount DEF Heuristics!BurstsAreDetected, Watched, Crowded, MatchesOf
<1>5. Heuristics!AnomaliesAreEarned
  <2>. SUFFICES ASSUME NEW a \in anomalies
                PROVE  /\ Cardinality(a.related) = HeuristicRules[a.type].threshold
                       /\ \A j \in a.related :
                            /\ history[j].type \in HeuristicRules[a.type].watched
                            /\ history[j].at \in a.at - HeuristicRules[a.type].window .. a.at
    BY HeuristicsCount DEF Heuristics!AnomaliesAreEarned
  <2>1. PICK type \in DOMAIN HeuristicRules, k \in DOMAIN history :
          Crossing(type, k) /\ a = AnomalyAt(type, k)
    BY DEF HeuristicInv, AnomaliesAreCrossings
  <2>2. /\ a.type = type /\ a.at = history[k].at /\ a.related = MatchesOf(type, k)
        /\ Cardinality(MatchesOf(type, k)) = HeuristicRules[type].threshold
    BY <2>1 DEF AnomalyAt, Crossing
  <2>3. ASSUME NEW j \in MatchesOf(type, k)
        PROVE  /\ history[j].type \in HeuristicRules[type].watched
               /\ history[j].at \in history[k].at - HeuristicRules[type].window .. history[k].at
    <3>1. /\ j \in 1 .. k /\ history[j].type \in HeuristicRules[type].watched
          /\ history[j].at >= history[k].at - HeuristicRules[type].window
      BY DEF MatchesOf, Heuristics!Matches
    <3>2. j \in DOMAIN history /\ j <= k
      BY <1>2, <3>1
    <3>3. history[j].at <= history[k].at /\ history[j].at \in Nat /\ history[k].at \in Nat
      BY <1>1, <3>2 DEF TimedEvents
    <3>4. HeuristicRules[type].window \in Nat
      BY RuleTypes
    <3>. QED BY <3>1, <3>3, <3>4
  <2>. QED BY <2>2, <2>3
<1>6. Heuristics!IncidentPerAnomaly
  <2>1. /\ \A k \in DOMAIN incidents : \E a \in anomalies : IsOf(incidents[k], a)
        /\ \A a \in anomalies : \E k \in DOMAIN incidents : IsOf(incidents[k], a)
        /\ Len(incidents) = Cardinality(anomalies)
    BY DEF HeuristicInv, IncidentsFollow
  <2>2. {[type |-> incidents[k].type, related |-> incidents[k].related] : k \in DOMAIN incidents}
          = {[type |-> a.type, related |-> a.related] : a \in anomalies}
    <3>. DEFINE key(x) == [type |-> x.type, related |-> x.related]
    <3>1. \A x, a : IsOf(x, a) => key(x) = key(a)
      BY ONLY TRUE DEF IsOf
    <3>. HIDE DEF key
    <3>2. {key(incidents[k]) : k \in DOMAIN incidents} = {key(a) : a \in anomalies}
      BY ONLY <2>1, <3>1
    <3>. QED BY ONLY <3>2 DEF key
  <2>. QED BY <2>1, <2>2, HeuristicsCount DEF Heuristics!IncidentPerAnomaly
<1>. QED BY <1>4, <1>5, <1>6 DEF Heuristics!DetectionIsExact

\* Before the first event there is nothing to detect.
LEMMA HeuristicInit == Heuristics!Init => HeuristicInv
<1>. SUFFICES ASSUME Heuristics!Init PROVE HeuristicInv
  OBVIOUS
<1>1. history = << >> /\ anomalies = {} /\ incidents = << >> /\ now = 0
  BY DEF Heuristics!Init
<1>2. history \in Seq({}) /\ incidents \in Seq(IncidentRecord) /\ Len(incidents) = 0
  BY <1>1
<1>3. HeuristicTypes
  BY <1>1, <1>2, FS_EmptySet DEF HeuristicTypes, TimedEvents
<1>4. AnomaliesAreCrossings /\ BurstsCross
  BY <1>1 DEF AnomaliesAreCrossings, BurstsCross
<1>5. IncidentsFollow
  BY <1>1, <1>2, FS_EmptySet DEF IncidentsFollow
<1>. QED BY <1>3, <1>4, <1>5 DEF HeuristicInv

\* No burst slips past the exact-crossing test, no anomaly rests on stale or
\* foreign events, and each becomes one incident: for every set of rules.
THEOREM HeuristicsDetectExactly == EnginesSpec => []DetectionIsExact
<1>. DEFINE Inv == chosen = "heuristics" => HeuristicInv
<1>1. EnginesInit => Inv
  BY HeuristicInit DEF EnginesInit
<1>2. Inv /\ [EnginesNext]_enginesVars => Inv'
  <2>. SUFFICES ASSUME Inv, [EnginesNext]_enginesVars, chosen' = "heuristics"
                PROVE  HeuristicInv'
    OBVIOUS
  <2>1. CASE EnginesNext
    <3>1. chosen = "heuristics" /\ Heuristics!Next
      BY <2>1 DEF EnginesNext, OthersIdle
    <3>. QED BY <3>1, HeuristicStep
  <2>2. CASE UNCHANGED enginesVars
    <3>1. HeuristicInv /\ UNCHANGED <<history, anomalies, incidents, now>>
      BY <2>2 DEF enginesVars, heuristicsVars
    <3>2. now \in Nat /\ incidents \in Seq(IncidentRecord)
      BY <3>1 DEF HeuristicInv, HeuristicTypes
    <3>. QED BY <3>1, <3>2, NothingObserved
  <2>. QED BY <2>1, <2>2
<1>3. Inv => DetectionIsExact
  BY HeuristicInvSuffices DEF DetectionIsExact
<1>. HIDE DEF Inv
<1>. QED BY <1>1, <1>2, <1>3, PTL DEF EnginesSpec

-----------------------------------------------------------------------------
(* The runtime orchestrator.  The buffer, the policies and the audit store    *)
(* are everybody's; a decision depends on none of them but the policy in      *)
(* force, and the trail of a request is one block that is evicted front first.*)

\* What the signals of a request ask for beyond letting it pass.
Asked(signals) == Orchestrator!Deciding(signals) \ {"allow"}
RankOf(action) == Orchestrator!PrecedenceOf(action)
Deciders == {"allow", "delay", "require_approval", "cooldown", "temporary_block", "deny"}

\* The ranks of the actions that decide.
LEMMA RankFacts ==
  /\ RankOf("allow") = 1 /\ RankOf("delay") = 2 /\ RankOf("require_approval") = 3
  /\ RankOf("cooldown") = 4 /\ RankOf("temporary_block") = 5 /\ RankOf("deny") = 6
  /\ DOMAIN Orchestrator!Precedence = 1 .. 6
  /\ \A i \in 1 .. 6 : Orchestrator!Precedence[i] \in Deciders
  /\ \A i \in 1 .. 6 : RankOf(Orchestrator!Precedence[i]) = i
  /\ \A a \in Deciders : RankOf(a) \in 1 .. 6 /\ Orchestrator!Precedence[RankOf(a)] = a
<1>1. DOMAIN Orchestrator!Precedence = 1 .. 6
  BY DEF Orchestrator!Precedence
<1>2. /\ RankOf("allow") = 1 /\ RankOf("delay") = 2 /\ RankOf("require_approval") = 3
      /\ RankOf("cooldown") = 4 /\ RankOf("temporary_block") = 5 /\ RankOf("deny") = 6
  BY DEF RankOf, Orchestrator!PrecedenceOf, Orchestrator!Precedence
<1>3. \A i \in 1 .. 6 : i = 1 \/ i = 2 \/ i = 3 \/ i = 4 \/ i = 5 \/ i = 6
  OBVIOUS
<1>4. /\ Orchestrator!Precedence[1] = "allow" /\ Orchestrator!Precedence[2] = "delay"
      /\ Orchestrator!Precedence[3] = "require_approval" /\ Orchestrator!Precedence[4] = "cooldown"
      /\ Orchestrator!Precedence[5] = "temporary_block" /\ Orchestrator!Precedence[6] = "deny"
  BY DEF Orchestrator!Precedence
<1>5. \A i \in 1 .. 6 : /\ Orchestrator!Precedence[i] \in Deciders
                        /\ RankOf(Orchestrator!Precedence[i]) = i
  BY <1>2, <1>3, <1>4 DEF Deciders
<1>6. \A a \in Deciders : RankOf(a) \in 1 .. 6 /\ Orchestrator!Precedence[RankOf(a)] = a
  BY <1>2, <1>4 DEF Deciders
<1>. QED BY <1>1, <1>2, <1>5, <1>6

\* What signals ask for is something that decides.
LEMMA AskedFacts ==
  ASSUME NEW signals, \A k \in DOMAIN signals : signals[k] \in Signals
  PROVE  /\ Orchestrator!Deciding(signals) \in SUBSET Deciders
         /\ \A a : a \in Asked(signals) <=>
              /\ a \in Deciders /\ a # "allow"
              /\ \E k \in DOMAIN signals : signals[k].action = a
<1>1. \A s \in Signals : s.action \in Orchestrator!Action
  BY OrchestratorConstants DEF Orchestrator!OrchestratorAssumption
<1>2. \A a \in Orchestrator!Action : a \in Orchestrator!Rotation \/ a \in Deciders
  BY RankFacts DEF Orchestrator!Action
<1>3. \A a \in Deciders : a \notin Orchestrator!Rotation
  BY DEF Deciders, Orchestrator!Rotation
<1>4. Orchestrator!Deciding(signals) =
        {signals[k].action : k \in DOMAIN signals} \ Orchestrator!Rotation
  BY DEF Orchestrator!Deciding, Orchestrator!ToSet
<1>. QED BY <1>1, <1>2, <1>3, <1>4 DEF Asked

\* The most restrictive strategy: what is asked for most strongly, or the default.
LEMMA MostRestrictiveFacts ==
  ASSUME NEW signals, \A k \in DOMAIN signals : signals[k] \in Signals, NEW policy,
         NEW c, c = Orchestrator!MostRestrictive(signals, policy)
  PROVE  /\ Asked(signals) = {} => c = policy.defaultAction
         /\ Asked(signals) # {} => c \in Asked(signals)
         /\ \A a \in Asked(signals) : RankOf(a) <= RankOf(c)
<1>. DEFINE D == Orchestrator!Deciding(signals)
            ranks == {RankOf(a) : a \in D} \cup {1}
            top == Orchestrator!Max(ranks)
            winner == Orchestrator!Precedence[top]
<1>1. c = IF winner = "allow" THEN policy.defaultAction ELSE winner
  BY DEF Orchestrator!MostRestrictive, RankOf
<1>2. D \in SUBSET Deciders /\ Asked(signals) = D \ {"allow"}
  BY AskedFacts DEF Asked
<1>. HIDE DEF D
<1>3. ranks \in SUBSET (1 .. 6) /\ 1 \in ranks
  BY <1>2, RankFacts
<1>4. top \in ranks /\ \A r \in ranks : r <= top
  <2>. HIDE DEF ranks
  <2>1. PICK m \in ranks : \A r \in ranks : r <= m
    BY <1>3, LastPosition
  <2>2. m \in ranks /\ \A r \in ranks : m >= r
    BY <1>3, <2>1
  <2>3. top \in ranks /\ \A r \in ranks : top >= r
    BY <2>2 DEF Orchestrator!Max
  <2>. QED BY <1>3, <2>3
<1>5. top \in 1 .. 6 /\ (top = 1 \/ \E a \in D : top = RankOf(a)) /\ \A a \in D : RankOf(a) <= top
  BY <1>3, <1>4
<1>. HIDE DEF top, ranks
<1>6. /\ winner \in Deciders /\ RankOf(winner) = top
      /\ winner = "allow" <=> top = 1
      /\ top # 1 => winner \in D
  <2>1. winner \in Deciders /\ RankOf(winner) = top
    BY <1>5, RankFacts
  <2>2. \A a \in Deciders : a = "allow" <=> RankOf(a) = 1
    BY RankFacts DEF Deciders
  <2>3. winner = "allow" <=> top = 1
    <3>. HIDE DEF winner
    <3>. QED BY <2>1, <2>2
  <2>4. ASSUME top # 1 PROVE winner \in D
    <3>1. PICK a \in D : top = RankOf(a)
      BY <1>5, <2>4
    <3>2. a \in Deciders
      BY <1>2
    <3>3. Orchestrator!Precedence[RankOf(a)] = a
      BY <3>2, RankFacts
    <3>. QED BY <3>1, <3>3
  <2>. QED BY <2>1, <2>3, <2>4
<1>. HIDE DEF winner
<1>7. \A a \in D : a # "allow" => RankOf(a) > 1
  BY <1>2, RankFacts DEF Deciders
<1>8. CASE top = 1
  <2>1. \A a \in D : a = "allow"
    BY <1>2, <1>5, <1>7, <1>8, RankFacts
  <2>. QED BY <1>1, <1>2, <1>6, <1>8, <2>1
<1>9. CASE top # 1
  BY <1>1, <1>2, <1>5, <1>6, <1>9
<1>. QED BY <1>8, <1>9

\* Whatever the strategy, the decision is what a signal asked for, or the
\* policy's default when none asked; and the strongest unless sources take
\* precedence.
LEMMA MergedFacts ==
  ASSUME NEW signals, NEW n \in Nat, DOMAIN signals = 1 .. n,
         \A k \in DOMAIN signals : signals[k] \in Signals,
         NEW policy, NEW m \in Nat, DOMAIN policy.precedence = 1 .. m,
         NEW c, c = Orchestrator!Merged(signals, policy)
  PROVE  /\ Asked(signals) = {} => c = policy.defaultAction
         /\ Asked(signals) # {} => c \in Asked(signals)
         /\ policy.mergeStrategy # "source_precedence" =>
              \A a \in Asked(signals) : RankOf(a) <= RankOf(c)
<1>. DEFINE most == Orchestrator!MostRestrictive(signals, policy)
<1>1. /\ Asked(signals) = {} => most = policy.defaultAction
      /\ Asked(signals) # {} => most \in Asked(signals)
      /\ \A a \in Asked(signals) : RankOf(a) <= RankOf(most)
  BY MostRestrictiveFacts
<1>2. Asked(signals) \in SUBSET Deciders
  BY AskedFacts DEF Asked
<1>3. CASE policy.mergeStrategy = "deny_first"
  <2>1. c = IF "deny" \in Orchestrator!Deciding(signals) THEN "deny" ELSE most
    BY <1>3 DEF Orchestrator!Merged, Orchestrator!DenyFirst
  <2>2. "deny" \in Orchestrator!Deciding(signals) => "deny" \in Asked(signals)
    BY DEF Asked
  <2>3. \A a \in Asked(signals) : RankOf(a) <= RankOf("deny")
    BY <1>2, RankFacts
  <2>. HIDE DEF most
  <2>. QED BY <1>1, <2>1, <2>2, <2>3
<1>4. CASE policy.mergeStrategy = "source_precedence"
  <2>. DEFINE from(source) == {k \in DOMAIN signals :
                /\ signals[k].source = source
                /\ signals[k].action \notin Orchestrator!Rotation \cup {"allow"}}
              ranked == {i \in DOMAIN policy.precedence : from(policy.precedence[i]) # {}}
              i == Orchestrator!Min(ranked)
              k == Orchestrator!Min(from(policy.precedence[i]))
  <2>1. c = IF ranked = {} THEN most ELSE signals[k].action
    BY <1>4 DEF Orchestrator!Merged, Orchestrator!SourcePrecedence
  <2>2. \A N \in Nat : \A S \in SUBSET (1 .. N) : S # {} => Orchestrator!Min(S) \in S
    <3>1. ASSUME NEW N \in Nat, NEW S \in SUBSET (1 .. N), S # {}
          PROVE  Orchestrator!Min(S) \in S
      <4>1. \E x \in S : \A y \in S : x <= y
        BY <3>1, FirstPosition
      <4>. QED BY <4>1 DEF Orchestrator!Min
    <3>. QED BY <3>1
  <2>3. CASE ranked # {}
    <3>1. ranked \in SUBSET (1 .. m)
      OBVIOUS
    <3>2. i \in ranked
      <4>. HIDE DEF ranked
      <4>. QED BY <2>2, <2>3, <3>1
    <3>. HIDE DEF i
    <3>3. from(policy.precedence[i]) # {} /\ from(policy.precedence[i]) \in SUBSET (1 .. n)
      BY <3>2
    <3>4. k \in from(policy.precedence[i])
      <4>. HIDE DEF from
      <4>. QED BY <2>2, <3>3
    <3>5. k \in DOMAIN signals /\ signals[k].action \notin Orchestrator!Rotation
          /\ signals[k].action # "allow"
      BY <3>4
    <3>. HIDE DEF k, from, ranked
    <3>6. signals[k].action \in Asked(signals)
      <4>1. signals[k].action \in Orchestrator!Deciding(signals)
        BY <3>5 DEF Orchestrator!Deciding, Orchestrator!ToSet
      <4>. QED BY <3>5, <4>1 DEF Asked
    <3>. QED BY <1>4, <2>1, <2>3, <3>6
  <2>4. CASE ranked = {}
    <3>. HIDE DEF most, ranked
    <3>. QED BY <1>1, <1>4, <2>1, <2>4
  <2>. QED BY <2>3, <2>4
<1>5. CASE policy.mergeStrategy \notin {"deny_first", "source_precedence"}
  <2>1. c = most
    BY <1>5 DEF Orchestrator!Merged
  <2>. HIDE DEF most
  <2>. QED BY <1>1, <2>1
<1>. QED BY <1>3, <1>4, <1>5

\* A conflict is won by one of its two sides.
LEMMA ConflictWinners ==
  ASSUME NEW signals, \A k \in DOMAIN signals : signals[k] \in Signals,
         NEW conflict \in Orchestrator!Conflicts(signals)
  PROVE  conflict.winner \in Asked(signals)
<1>1. PICK pair \in SUBSET Asked(signals) :
        /\ Orchestrator!Cardinality(pair) = 2
        /\ conflict.winner = CHOOSE a \in pair : \A b \in pair : RankOf(a) >= RankOf(b)
  BY DEF Orchestrator!Conflicts, Asked, RankOf
<1>2. pair # {}
  <2>1. Orchestrator!Cardinality(pair) = Cardinality(pair)
    BY DEF Orchestrator!Cardinality, Cardinality
  <2>. QED BY <1>1, <2>1, FS_EmptySet
<1>3. pair \in SUBSET Deciders
  BY AskedFacts
<1>. DEFINE ranks == {RankOf(a) : a \in pair}
<1>4. ranks \in SUBSET (1 .. 6) /\ ranks # {}
  BY <1>2, <1>3, RankFacts
<1>5. \E m \in ranks : \A r \in ranks : r <= m
  <2>. HIDE DEF ranks
  <2>. QED BY <1>4, LastPosition
<1>6. \E a \in pair : \A b \in pair : RankOf(a) >= RankOf(b)
  <2>1. \A a \in pair : RankOf(a) \in Int
    BY <1>3, RankFacts
  <2>. QED BY <1>5, <2>1
<1>. QED BY <1>1, <1>6

\* The positions of a request's events in an audit log.
EventsOf(entries, r) == {i \in DOMAIN entries : entries[i].request = r}

\* What a log, some of whose oldest entries are gone, tells of an answered
\* request: every event names the action applied, an event that has no next one
\* is the last of the block, and one that has no previous one is the first or
\* has been cut off.
AccountOf(entries, gone, r, action) ==
  LET mine == EventsOf(entries, r)
  IN  /\ mine = {} => gone >= 2
      /\ \A i \in mine : entries[i].action = action
      /\ \A i \in mine : \/ i + 1 \in mine
                         \/ entries[i].type = "decision_applied" /\ gone + i >= 2
      /\ \A i \in mine : \/ i - 1 \in mine
                         \/ entries[i].type = "evaluated"
                         \/ i = 1 /\ gone > 0

\* The events of one decision.
BlockOf(block, r, action) ==
  /\ Len(block) >= 2
  /\ \A i \in DOMAIN block : block[i].request = r /\ block[i].action = action
  /\ block[1].type = "evaluated"
  /\ block[Len(block)].type = "decision_applied"

LEMMA GreaterOfTwo ==
  ASSUME NEW a \in Int, NEW b \in Int
  PROVE  Orchestrator!Max({a, b}) = IF a >= b THEN a ELSE b
<1>1. \E x \in {a, b} : \A y \in {a, b} : x >= y
  OBVIOUS
<1>2. /\ Orchestrator!Max({a, b}) \in {a, b}
      /\ \A y \in {a, b} : Orchestrator!Max({a, b}) >= y
  BY <1>1 DEF Orchestrator!Max
<1>. QED BY <1>2

\* What is left of a sequence without its first d entries.
WithoutFirst(S, seq, kept, d) ==
  /\ kept \in Seq(S) /\ Len(kept) = Len(seq) - d
  /\ \A i \in 1 .. Len(kept) : kept[i] = seq[i + d]

\* What is kept of a bounded sequence: everything but a prefix.
LEMMA NewestFacts ==
  ASSUME NEW S, NEW seq \in Seq(S), NEW capacity \in Nat \ {0},
         NEW kept, kept = Orchestrator!Newest(seq, capacity)
  PROVE  \E d \in Nat : WithoutFirst(S, seq, kept, d)
<1>. DEFINE first == Orchestrator!Max({1, Len(seq) - capacity + 1})
<1>1. Len(seq) \in Nat
  OBVIOUS
<1>2. first = IF 1 >= Len(seq) - capacity + 1 THEN 1 ELSE Len(seq) - capacity + 1
  <2>1. Len(seq) - capacity + 1 \in Int
    BY <1>1
  <2>. QED BY <2>1, GreaterOfTwo
<1>3. kept = SubSeq(seq, first, Len(seq))
  BY DEF Orchestrator!Newest
<1>. HIDE DEF first
<1>4. first \in 1 .. Len(seq) + 1
  BY <1>1, <1>2
<1>5. PICK d \in Nat : first = d + 1
  BY <1>4
<1>6. kept \in Seq(S) /\ Len(kept) = Len(seq) - d
  BY <1>1, <1>3, <1>4, <1>5
<1>7. ASSUME NEW i \in 1 .. Len(kept) PROVE kept[i] = seq[i + d]
  BY <1>1, <1>3, <1>4, <1>5, <1>6
<1>. QED BY <1>6, <1>7 DEF WithoutFirst

\* Eviction from the front keeps every account.
LEMMA EvictionKeepsAccount ==
  ASSUME NEW S, NEW entries \in Seq(S), NEW gone \in Nat, NEW d \in Nat,
         NEW kept \in Seq(S), Len(kept) = Len(entries) - d,
         \A i \in 1 .. Len(kept) : kept[i] = entries[i + d],
         NEW r, NEW action, AccountOf(entries, gone, r, action)
  PROVE  AccountOf(kept, gone + d, r, action)
<1>. DEFINE mine == EventsOf(entries, r)
            left == EventsOf(kept, r)
<1>1. /\ mine = {} => gone >= 2
      /\ \A i \in mine : entries[i].action = action
      /\ \A i \in mine : \/ i + 1 \in mine
                         \/ entries[i].type = "decision_applied" /\ gone + i >= 2
      /\ \A i \in mine : \/ i - 1 \in mine
                         \/ entries[i].type = "evaluated"
                         \/ i = 1 /\ gone > 0
  BY DEF AccountOf
<1>2. /\ DOMAIN entries = 1 .. Len(entries) /\ DOMAIN kept = 1 .. Len(kept)
      /\ Len(entries) \in Nat /\ Len(kept) \in Nat
  OBVIOUS
<1>3. mine \in SUBSET (1 .. Len(entries)) /\ left \in SUBSET (1 .. Len(kept))
  BY <1>2 DEF EventsOf
<1>4. \A i \in Int : i \in left <=> i >= 1 /\ i + d \in mine
  BY <1>2 DEF EventsOf
<1>5. \A i \in left : kept[i] = entries[i + d]
  BY <1>3
<1>. HIDE DEF mine, left
<1>6. ASSUME left = {} PROVE gone + d >= 2
  <2>1. CASE mine = {}
    BY <1>1, <2>1
  <2>2. CASE mine # {}
    <3>1. PICK i \in mine : \A j \in mine : j <= i
      BY <1>2, <1>3, <2>2, LastPosition
    <3>2. i \in Nat /\ i + 1 \notin mine
      BY <1>3, <3>1
    <3>3. gone + i >= 2
      BY <1>1, <3>1, <3>2
    <3>4. i <= d
      <4>1. ASSUME i > d PROVE FALSE
        <5>1. i - d \in Int /\ i - d >= 1 /\ (i - d) + d = i
          BY <3>2, <4>1
        <5>2. i - d \in left
          BY <1>4, <3>1, <5>1
        <5>. QED BY <1>6, <5>2
      <4>. QED BY <3>2, <4>1
    <3>. QED BY <3>2, <3>3, <3>4
  <2>. QED BY <2>1, <2>2
<1>7. ASSUME NEW i \in left
      PROVE  /\ kept[i].action = action
             /\ \/ i + 1 \in left
                \/ kept[i].type = "decision_applied" /\ (gone + d) + i >= 2
             /\ \/ i - 1 \in left
                \/ kept[i].type = "evaluated"
                \/ i = 1 /\ gone + d > 0
  <2>1. PICK j \in mine : j = i + d /\ kept[i] = entries[j] /\ i \in Nat /\ i >= 1
    <3>1. i \in Nat /\ i >= 1
      BY <1>2, <1>3
    <3>2. i + d \in mine
      BY <1>4, <3>1
    <3>. QED BY <1>5, <3>1, <3>2
  <2>2. j + 1 \in mine => i + 1 \in left
    <3>1. i + 1 \in Int /\ i + 1 >= 1 /\ (i + 1) + d = j + 1
      BY <2>1
    <3>. QED BY <1>4, <3>1
  <2>3. j - 1 \in mine => (i - 1 \in left \/ (i = 1 /\ gone + d > 0))
    <3>1. ASSUME j - 1 \in mine, i # 1 PROVE i - 1 \in left
      <4>1. i - 1 \in Int /\ i - 1 >= 1 /\ (i - 1) + d = j - 1
        BY <2>1, <3>1
      <4>. QED BY <1>4, <3>1, <4>1
    <3>2. ASSUME j - 1 \in mine, i = 1 PROVE gone + d > 0
      <4>1. j - 1 >= 1
        BY <1>3, <3>2
      <4>. QED BY <2>1, <3>2, <4>1
    <3>. QED BY <3>1, <3>2
  <2>4. kept[i].action = action
    BY <1>1, <2>1
  <2>5. \/ i + 1 \in left
        \/ kept[i].type = "decision_applied" /\ (gone + d) + i >= 2
    <3>1. j + 1 \in mine \/ (kept[i].type = "decision_applied" /\ gone + j >= 2)
      BY <1>1, <2>1
    <3>. QED BY <2>1, <2>2, <3>1
  <2>6. \/ i - 1 \in left
        \/ kept[i].type = "evaluated"
        \/ i = 1 /\ gone + d > 0
    <3>1. j - 1 \in mine \/ kept[i].type = "evaluated" \/ (j = 1 /\ gone > 0)
      BY <1>1, <2>1
    <3>. QED BY <2>1, <2>3, <3>1
  <2>. QED BY <2>4, <2>5, <2>6
<1>. QED BY <1>6, <1>7 DEF AccountOf, left

\* A block at the end of the log keeps the accounts of the others and opens the
\* one of its request.
LEMMA BlockKeepsAccounts ==
  ASSUME NEW S, NEW entries \in Seq(S), NEW block \in Seq(S), NEW gone \in Nat,
         NEW r, NEW action, BlockOf(block, r, action)
  PROVE  /\ \A other, done : other # r /\ AccountOf(entries, gone, other, done)
              => AccountOf(entries \o block, gone, other, done)
         /\ EventsOf(entries, r) = {} => AccountOf(entries \o block, gone, r, action)
<1>1. PICK n \in Nat, m \in Nat, all \in Seq(S) :
        /\ n = Len(entries) /\ m = Len(block) /\ all = entries \o block
        /\ Len(all) = n + m
        /\ \A i \in 1 .. n : all[i] = entries[i]
        /\ \A i \in 1 .. m : all[n + i] = block[i]
        /\ DOMAIN entries = 1 .. n /\ DOMAIN block = 1 .. m /\ DOMAIN all = 1 .. n + m
  <2>1. /\ Len(entries) \in Nat /\ Len(block) \in Nat /\ entries \o block \in Seq(S)
        /\ Len(entries \o block) = Len(entries) + Len(block)
    OBVIOUS
  <2>2. /\ \A i \in 1 .. Len(entries) : (entries \o block)[i] = entries[i]
        /\ \A i \in 1 .. Len(block) : (entries \o block)[Len(entries) + i] = block[i]
    OBVIOUS
  <2>3. /\ DOMAIN entries = 1 .. Len(entries) /\ DOMAIN block = 1 .. Len(block)
        /\ DOMAIN (entries \o block) = 1 .. Len(entries \o block)
    BY <2>1
  <2>. QED BY <2>1, <2>2, <2>3
<1>2. \A i \in n + 1 .. n + m : all[i] = block[i - n]
  <2>1. ASSUME NEW i \in n + 1 .. n + m PROVE all[i] = block[i - n]
    <3>1. PICK j \in 1 .. m : i = n + j /\ j = i - n
      OBVIOUS
    <3>. QED BY <1>1, <3>1
  <2>. QED BY <2>1
<1>3. /\ m >= 2
      /\ \A i \in 1 .. m : block[i].request = r /\ block[i].action = action
      /\ block[1].type = "evaluated" /\ block[m].type = "decision_applied"
  BY <1>1 DEF BlockOf
<1>4. \A other : other # r => EventsOf(all, other) = EventsOf(entries, other)
  <2>. SUFFICES ASSUME NEW other, other # r
                PROVE  EventsOf(all, other) = EventsOf(entries, other)
    OBVIOUS
  <2>1. ASSUME NEW i
        PROVE  i \in EventsOf(all, other) <=> i \in EventsOf(entries, other)
    <3>1. i \in 1 .. n + m <=> (i \in 1 .. n \/ i \in n + 1 .. n + m)
      OBVIOUS
    <3>2. ASSUME i \in n + 1 .. n + m PROVE all[i].request = r /\ i \notin 1 .. n
      BY <1>2, <1>3, <3>2
    <3>. QED BY <1>1, <3>1, <3>2 DEF EventsOf
  <2>. QED BY <2>1
<1>5. ASSUME NEW other, NEW done, other # r, AccountOf(entries, gone, other, done)
      PROVE  AccountOf(all, gone, other, done)
  <2>1. \A i \in EventsOf(entries, other) : all[i] = entries[i]
    BY <1>1 DEF EventsOf
  <2>2. EventsOf(all, other) = EventsOf(entries, other)
    BY <1>4, <1>5
  <2>. QED BY <1>5, <2>1, <2>2 DEF AccountOf
<1>6. ASSUME EventsOf(entries, r) = {} PROVE AccountOf(all, gone, r, action)
  <2>1. EventsOf(all, r) = n + 1 .. n + m
    <3>1. ASSUME NEW i PROVE i \in EventsOf(all, r) <=> i \in n + 1 .. n + m
      <4>1. i \in 1 .. n + m <=> (i \in 1 .. n \/ i \in n + 1 .. n + m)
        OBVIOUS
      <4>2. i \in 1 .. n => all[i].request # r
        BY <1>1, <1>6 DEF EventsOf
      <4>3. i \in n + 1 .. n + m => all[i].request = r
        BY <1>2, <1>3
      <4>. QED BY <1>1, <4>1, <4>2, <4>3 DEF EventsOf
    <3>. QED BY <3>1
  <2>2. ASSUME NEW i \in n + 1 .. n + m
        PROVE  /\ all[i].action = action
               /\ i + 1 \in n + 1 .. n + m
                    \/ (all[i].type = "decision_applied" /\ gone + i >= 2)
               /\ i - 1 \in n + 1 .. n + m \/ all[i].type = "evaluated"
    <3>1. PICK j \in 1 .. m : j = i - n /\ all[i] = block[j]
      BY <1>2
    <3>2. all[i].action = action
      BY <1>3, <3>1
    <3>3. i = n + m => all[i].type = "decision_applied" /\ gone + i >= 2
      BY <1>3, <3>1
    <3>4. i = n + 1 => all[i].type = "evaluated"
      BY <1>3, <3>1
    <3>. QED BY <3>2, <3>3, <3>4
  <2>3. n + 1 \in n + 1 .. n + m
    BY <1>3
  <2>. QED BY <2>1, <2>2, <2>3 DEF AccountOf
<1>. QED BY <1>1, <1>5, <1>6

\* The events of a decision are such a block.
LEMMA AuditedIsBlock ==
  ASSUME NEW r, NEW decision, NEW overflow
  PROVE  \E S : /\ Orchestrator!Audited(r, decision, overflow) \in Seq(S)
                /\ BlockOf(Orchestrator!Audited(r, decision, overflow), r, decision.action)
<1>. DEFINE event(type) == [type |-> type, request |-> r, action |-> decision.action]
            S == {event("evaluated"), event("conflict_detected"), event("signal_evicted"),
                  event("decision_applied")}
            conflict == IF decision.conflicts # {} THEN <<event("conflict_detected")>> ELSE <<>>
            full == IF overflow > 0 THEN <<event("signal_evicted")>> ELSE <<>>
            block == Orchestrator!Audited(r, decision, overflow)
<1>1. block = <<event("evaluated")>> \o conflict \o full \o <<event("decision_applied")>>
  BY DEF Orchestrator!Audited
<1>2. /\ event("evaluated").type = "evaluated"
      /\ event("decision_applied").type = "decision_applied"
      /\ \A e \in S : e.request = r /\ e.action = decision.action
  OBVIOUS
<1>3. PICK e1 \in S, e2 \in S : e1 = event("evaluated") /\ e2 = event("decision_applied")
  OBVIOUS
<1>4. conflict \in Seq(S) /\ full \in Seq(S)
  <2>1. /\ event("conflict_detected") \in S /\ event("signal_evicted") \in S
    OBVIOUS
  <2>. HIDE DEF S, event
  <2>2. /\ <<event("conflict_detected")>> \in Seq(S) /\ <<event("signal_evicted")>> \in Seq(S)
        /\ << >> \in Seq(S)
    BY <2>1
  <2>. QED BY <2>2
<1>5. block = <<e1>> \o conflict \o full \o <<e2>>
  BY <1>1, <1>3
<1>6. e1.type = "evaluated" /\ e2.type = "decision_applied"
  BY <1>2, <1>3
<1>. HIDE DEF conflict, full, S, block, event
<1>7. PICK mid \in Seq(S) : mid = conflict \o full
  <2>1. conflict \o full \in Seq(S)
    BY <1>4
  <2>. QED BY <2>1
<1>8. /\ block \in Seq(S) /\ Len(block) = Len(mid) + 2 /\ Len(mid) \in Nat
      /\ block[1] = e1 /\ block[Len(mid) + 2] = e2
  <2>1. block = <<e1>> \o mid \o <<e2>>
    BY <1>3, <1>4, <1>5, <1>7
  <2>. QED BY <1>3, <2>1
<1>9. \A i \in DOMAIN block : block[i] \in S
  BY <1>8
<1>10. BlockOf(block, r, decision.action)
  BY <1>2, <1>6, <1>8, <1>9 DEF BlockOf
<1>. QED BY <1>8, <1>10 DEF block

\* The policies that may ever be in force, and the answer one of them gives.
AnyPolicy == MergePolicies \cup {Orchestrator!DefaultPolicy}
AnswerUnder(signals, policy) ==
  [decision |-> Orchestrator!Decision(signals, policy), by |-> policy]

OrchestratorTypes ==
  /\ merging \in Seq(AnyPolicy)
  /\ collected \in [Requests -> Seq(Signals)]
  /\ DOMAIN answers = Requests
  /\ evicted \in Nat
  /\ \E S : trail \in Seq(S)

\* An answered request keeps its collector as it was when it was answered.
AnswersAreDecisions ==
  \A r \in Orchestrator!Answered :
    \E policy \in AnyPolicy : answers[r] = AnswerUnder(collected[r], policy)

\* The log holds events of answered requests only, and an account of each.
TrailIsAccount ==
  /\ \A i \in DOMAIN trail : trail[i].request \in Orchestrator!Answered
  /\ \A r \in Orchestrator!Answered :
       AccountOf(trail, evicted, r, answers[r].decision.action)

OrchestratorInv == OrchestratorTypes /\ AnswersAreDecisions /\ TrailIsAccount

\* An answer is never mistaken for none.
LEMMA AnswersShow ==
  ASSUME NEW signals, NEW policy
  PROVE  AnswerUnder(signals, policy) # Orchestrator!NoDecision
<1>1. /\ "by" \in DOMAIN AnswerUnder(signals, policy)
      /\ "by" \notin DOMAIN Orchestrator!NoDecision
  BY DEF AnswerUnder, Orchestrator!NoDecision
<1>. QED BY <1>1

\* The policy in force is one of those.
LEMMA PolicyInForce ==
  OrchestratorTypes => Orchestrator!ActivePolicy \in AnyPolicy
<1>. SUFFICES ASSUME OrchestratorTypes PROVE Orchestrator!ActivePolicy \in AnyPolicy
  OBVIOUS
<1>. DEFINE enabled == {i \in DOMAIN merging : merging[i].enabled}
<1>1. merging \in Seq(AnyPolicy)
  BY DEF OrchestratorTypes
<1>2. PICK n \in Nat : DOMAIN merging = 1 .. n
  BY <1>1
<1>3. enabled \in SUBSET (1 .. n) /\ enabled \in SUBSET (DOMAIN merging)
  BY <1>2
<1>4. Orchestrator!ActivePolicy =
        IF enabled = {} THEN Orchestrator!DefaultPolicy ELSE merging[Orchestrator!Min(enabled)]
  BY DEF Orchestrator!ActivePolicy
<1>. HIDE DEF enabled
<1>5. CASE enabled = {}
  BY <1>4, <1>5 DEF AnyPolicy
<1>6. CASE enabled # {}
  <2>1. \E x \in enabled : \A y \in enabled : x <= y
    BY <1>3, <1>6, FirstPosition
  <2>2. Orchestrator!Min(enabled) \in enabled
    BY <2>1 DEF Orchestrator!Min
  <2>3. PICK i \in DOMAIN merging : i = Orchestrator!Min(enabled)
    BY <1>3, <2>2
  <2>4. merging[i] \in AnyPolicy
    BY ONLY <1>1, i \in DOMAIN merging
  <2>. QED BY <1>4, <1>6, <2>3, <2>4
<1>. QED BY <1>5, <1>6

\* Whoever is answered stays answered, with the same answer and signals.
LEMMA NobodyAnswered ==
  ASSUME OrchestratorInv, OrchestratorTypes', UNCHANGED <<trail, evicted, answers>>,
         \A r \in Orchestrator!Answered : collected'[r] = collected[r]
  PROVE  OrchestratorInv'
<1>1. Orchestrator!Answered' = Orchestrator!Answered
  BY DEF Orchestrator!Answered
<1>2. AnswersAreDecisions'
  BY <1>1 DEF OrchestratorInv, AnswersAreDecisions
<1>3. TrailIsAccount'
  BY <1>1 DEF OrchestratorInv, TrailIsAccount
<1>. QED BY <1>2, <1>3 DEF OrchestratorInv

LEMMA RegisterPolicyStep ==
  ASSUME OrchestratorInv, NEW p \in MergePolicies, Orchestrator!RegisterPolicy(p)
  PROVE  OrchestratorInv'
<1>1. merging' = Append(merging, p) /\ UNCHANGED <<collected, trail, evicted, answers>>
  BY DEF Orchestrator!RegisterPolicy
<1>2. OrchestratorTypes'
  <2>1. p \in AnyPolicy
    BY DEF AnyPolicy
  <2>2. merging' \in Seq(AnyPolicy)
    BY <1>1, <2>1 DEF OrchestratorInv, OrchestratorTypes
  <2>. QED BY <1>1, <2>2 DEF OrchestratorInv, OrchestratorTypes, AnyPolicy
<1>. QED BY <1>1, <1>2, NobodyAnswered

LEMMA ClearPoliciesStep ==
  ASSUME OrchestratorInv, Orchestrator!ClearPolicies
  PROVE  OrchestratorInv'
<1>1. merging' = << >> /\ UNCHANGED <<collected, trail, evicted, answers>>
  BY DEF Orchestrator!ClearPolicies
<1>2. merging' \in Seq(AnyPolicy)
  BY <1>1
<1>3. OrchestratorTypes'
  BY <1>1, <1>2 DEF OrchestratorInv, OrchestratorTypes, AnyPolicy
<1>. QED BY <1>1, <1>3, NobodyAnswered

\* A signal comes to the collector of a request that is not answered yet.
LEMMA EmitStep ==
  ASSUME OrchestratorInv, NEW r \in Requests, NEW s \in Signals, Orchestrator!Emit(r, s)
  PROVE  OrchestratorInv'
<1>1. /\ answers[r] = Orchestrator!NoDecision
      /\ collected' = [collected EXCEPT ![r] = Append(@, s)]
      /\ UNCHANGED <<merging, trail, evicted, answers>>
  BY DEF Orchestrator!Emit
<1>2. collected \in [Requests -> Seq(Signals)]
  BY DEF OrchestratorInv, OrchestratorTypes
<1>3. Append(collected[r], s) \in Seq(Signals)
  BY <1>2
<1>4. collected' \in [Requests -> Seq(Signals)]
  BY <1>1, <1>2, <1>3
<1>5. OrchestratorTypes'
  BY <1>1, <1>4 DEF OrchestratorInv, OrchestratorTypes, AnyPolicy
<1>6. ASSUME NEW other \in Orchestrator!Answered PROVE collected'[other] = collected[other]
  <2>1. other # r /\ other \in Requests
    BY <1>1 DEF Orchestrator!Answered
  <2>. QED BY <1>1, <1>2, <2>1
<1>. QED BY <1>1, <1>5, <1>6, NobodyAnswered

\* An answer under a policy that appends a block to the log, which then drops d
\* entries.
FinalisedWith(r, policy, S, block, d) ==
  /\ answers' = [answers EXCEPT ![r] = AnswerUnder(collected[r], policy)]
  /\ BlockOf(block, r, AnswerUnder(collected[r], policy).decision.action)
  /\ trail \in Seq(S) /\ trail' \in Seq(S) /\ block \in Seq(S)
  /\ Len(trail') = Len(trail \o block) - d
  /\ \A i \in 1 .. Len(trail') : trail'[i] = (trail \o block)[i + d]
  /\ evicted' = evicted + d

LEMMA FinaliseFacts ==
  ASSUME OrchestratorInv, NEW r \in Requests, Orchestrator!Finalise(r)
  PROVE  \E policy \in AnyPolicy, d \in Nat : \E S, block :
           FinalisedWith(r, policy, S, block, d)
<1>. DEFINE decision == Orchestrator!Evaluated(r)
            policy == Orchestrator!ActivePolicy
            overflow == Orchestrator!Max({0, Len(buffer \o collected[r]) - MaxSignals})
            block == Orchestrator!Audited(r, decision, overflow)
            appended == trail \o block
<1>1. /\ trail' = Orchestrator!Newest(appended, MaxAudited)
      /\ evicted' = evicted + Len(appended) - Len(trail')
      /\ answers' = [answers EXCEPT ![r] = [decision |-> decision, by |-> policy]]
  BY DEF Orchestrator!Finalise
<1>2. policy \in AnyPolicy
  BY PolicyInForce DEF OrchestratorInv
<1>3. /\ [decision |-> decision, by |-> policy] = AnswerUnder(collected[r], policy)
      /\ AnswerUnder(collected[r], policy).decision = decision
  BY DEF Orchestrator!Evaluated, AnswerUnder
<1>4. PICK T : trail \in Seq(T)
  BY DEF OrchestratorInv, OrchestratorTypes
<1>5. PICK U : block \in Seq(U) /\ BlockOf(block, r, decision.action)
  BY AuditedIsBlock
<1>. HIDE DEF decision, policy, block
<1>6. PICK S : S = T \cup U
  OBVIOUS
<1>7. trail \in Seq(S) /\ block \in Seq(S)
  BY <1>4, <1>5, <1>6
<1>8. PICK all \in Seq(S) : all = appended
  <2>1. appended \in Seq(S)
    BY <1>7
  <2>. QED BY <2>1
<1>9. MaxAudited \in Nat \ {0}
  BY OrchestratorConstants DEF Orchestrator!OrchestratorAssumption
<1>10. PICK d \in Nat : /\ trail' \in Seq(S) /\ Len(trail') = Len(all) - d
                        /\ \A i \in 1 .. Len(trail') : trail'[i] = all[i + d]
  <2>1. PICK kept : kept = trail'
    OBVIOUS
  <2>2. kept = Orchestrator!Newest(all, MaxAudited)
    BY <1>1, <1>8, <2>1
  <2>3. PICK d \in Nat : WithoutFirst(S, all, kept, d)
    BY <1>9, <2>2, NewestFacts
  <2>. QED BY <2>1, <2>3 DEF WithoutFirst
<1>11. evicted' = evicted + d
  <2>1. evicted \in Nat /\ Len(all) \in Nat
    BY <1>8 DEF OrchestratorInv, OrchestratorTypes
  <2>. QED BY <1>1, <1>8, <1>10, <2>1
<1>12. /\ Len(trail') = Len(trail \o block) - d
       /\ \A i \in 1 .. Len(trail') : trail'[i] = (trail \o block)[i + d]
  BY <1>8, <1>10
<1>. HIDE DEF appended
<1>13. /\ answers' = [answers EXCEPT ![r] = AnswerUnder(collected[r], policy)]
       /\ BlockOf(block, r, AnswerUnder(collected[r], policy).decision.action)
  BY <1>1, <1>3, <1>5
<1>14. FinalisedWith(r, policy, S, block, d)
  BY <1>7, <1>10, <1>11, <1>12, <1>13 DEF FinalisedWith
<1>. QED BY <1>2, <1>14

LEMMA FinaliseStep ==
  ASSUME OrchestratorInv, NEW r \in Requests, Orchestrator!Finalise(r)
  PROVE  OrchestratorInv'
<1>1. /\ answers[r] = Orchestrator!NoDecision
      /\ UNCHANGED <<merging, collected>>
  BY DEF Orchestrator!Finalise
<1>a. PICK policy \in AnyPolicy, d \in Nat :
        \E S, block : FinalisedWith(r, policy, S, block, d)
  BY FinaliseFacts
<1>b. PICK S, block : FinalisedWith(r, policy, S, block, d)
  BY <1>a
<1>2. /\ answers' = [answers EXCEPT ![r] = AnswerUnder(collected[r], policy)]
      /\ BlockOf(block, r, AnswerUnder(collected[r], policy).decision.action)
      /\ trail \in Seq(S) /\ trail' \in Seq(S) /\ block \in Seq(S)
      /\ Len(trail') = Len(trail \o block) - d
      /\ \A i \in 1 .. Len(trail') : trail'[i] = (trail \o block)[i + d]
      /\ evicted' = evicted + d
  BY <1>b DEF FinalisedWith
<1>3. DOMAIN answers = Requests /\ evicted \in Nat
  BY DEF OrchestratorInv, OrchestratorTypes
<1>4. PICK action : action = AnswerUnder(collected[r], policy).decision.action
  OBVIOUS
<1>5. /\ DOMAIN answers' = Requests
      /\ answers'[r] = AnswerUnder(collected[r], policy)
      /\ \A other \in Requests : other # r => answers'[other] = answers[other]
  BY <1>2, <1>3
<1>6. /\ Orchestrator!Answered' = Orchestrator!Answered \cup {r}
      /\ r \notin Orchestrator!Answered
      /\ \A other \in Orchestrator!Answered : other \in Requests /\ other # r
  BY <1>1, <1>5, AnswersShow DEF Orchestrator!Answered, Orchestrator!NoDecision
<1>7. OrchestratorTypes'
  <2>1. evicted' \in Nat
    BY <1>2, <1>3
  <2>. QED BY <1>1, <1>2, <1>5, <2>1 DEF OrchestratorInv, OrchestratorTypes, AnyPolicy
<1>8. AnswersAreDecisions'
  <2>1. ASSUME NEW other \in Orchestrator!Answered'
        PROVE  \E p \in AnyPolicy : answers'[other] = AnswerUnder(collected[other], p)
    <3>1. CASE other = r
      BY <1>5, <3>1
    <3>2. CASE other # r
      <4>1. other \in Orchestrator!Answered /\ answers'[other] = answers[other]
        BY <1>5, <1>6, <3>2
      <4>. QED BY <4>1 DEF OrchestratorInv, AnswersAreDecisions
    <3>. QED BY <3>1, <3>2
  <2>. QED BY <1>1, <2>1 DEF AnswersAreDecisions, AnswerUnder, AnyPolicy
<1>9. TrailIsAccount'
  <2>1. PICK all \in Seq(S) : all = trail \o block
    <3>1. trail \o block \in Seq(S)
      BY <1>2
    <3>. QED BY <3>1
  <2>2. EventsOf(trail, r) = {}
    BY <1>6 DEF OrchestratorInv, TrailIsAccount, EventsOf
  <2>3. AccountOf(all, evicted, r, action)
    BY <1>2, <1>3, <1>4, <2>1, <2>2, BlockKeepsAccounts
  <2>4. ASSUME NEW other \in Orchestrator!Answered
        PROVE  AccountOf(all, evicted, other, answers[other].decision.action)
    <3>1. AccountOf(trail, evicted, other, answers[other].decision.action) /\ other # r
      BY <1>6 DEF OrchestratorInv, TrailIsAccount
    <3>. QED BY <1>2, <1>3, <2>1, <3>1, BlockKeepsAccounts
  <2>5. \A other, done : AccountOf(all, evicted, other, done)
                           => AccountOf(trail', evicted', other, done)
    BY <1>2, <1>3, <2>1, EvictionKeepsAccount
  <2>6. ASSUME NEW other \in Orchestrator!Answered'
        PROVE  AccountOf(trail', evicted', other, answers'[other].decision.action)
    <3>1. CASE other = r
      BY <1>4, <1>5, <2>3, <2>5, <3>1
    <3>2. CASE other # r
      <4>1. other \in Orchestrator!Answered /\ answers'[other] = answers[other]
        BY <1>5, <1>6, <3>2
      <4>. QED BY <2>4, <2>5, <4>1
    <3>. QED BY <3>1, <3>2
  <2>7. \A i \in DOMAIN all : all[i].request \in Orchestrator!Answered'
    <3>1. \A i \in DOMAIN trail : trail[i].request \in Orchestrator!Answered'
      BY <1>6 DEF OrchestratorInv, TrailIsAccount
    <3>2. \A i \in DOMAIN block : block[i].request \in Orchestrator!Answered'
      BY <1>2, <1>6 DEF BlockOf
    <3>3. ASSUME NEW i \in DOMAIN all
          PROVE  \/ i \in DOMAIN trail /\ all[i] = trail[i]
                 \/ \E j \in DOMAIN block : all[i] = block[j]
      BY <1>2, <2>1
    <3>. QED BY <3>1, <3>2, <3>3
  <2>8. ASSUME NEW i \in DOMAIN trail'
        PROVE  trail'[i].request \in Orchestrator!Answered'
    <3>1. i \in 1 .. Len(trail') /\ trail'[i] = all[i + d]
      <4>1. PICK kept \in Seq(S) : kept = trail'
        BY <1>2
      <4>2. \A j \in 1 .. Len(kept) : kept[j] = all[j + d]
        BY <1>2, <2>1, <4>1
      <4>3. DOMAIN kept = 1 .. Len(kept)
        OBVIOUS
      <4>. QED BY ONLY <4>1, <4>2, <4>3, i \in DOMAIN trail'
    <3>2. DOMAIN all = 1 .. Len(all) /\ Len(trail') = Len(all) - d
          /\ Len(all) \in Nat /\ Len(trail') \in Nat
      BY <1>2, <2>1
    <3>3. i + d \in DOMAIN all
      BY <3>1, <3>2
    <3>. QED BY <2>7, <3>1, <3>3
  <2>. QED BY <2>6, <2>8 DEF TrailIsAccount
<1>. QED BY <1>7, <1>8, <1>9 DEF OrchestratorInv

\* A step of the orchestrator.
LEMMA OrchestratorStep ==
  ASSUME OrchestratorInv, Orchestrator!Next
  PROVE  OrchestratorInv'
<1>1. CASE \E p \in MergePolicies : Orchestrator!RegisterPolicy(p)
  BY <1>1, RegisterPolicyStep
<1>2. CASE Orchestrator!ClearPolicies
  BY <1>2, ClearPoliciesStep
<1>3. CASE \E r \in Requests, s \in Signals : Orchestrator!Emit(r, s)
  BY <1>3, EmitStep
<1>4. CASE \E r \in Requests : Orchestrator!Finalise(r)
  BY <1>4, FinaliseStep
<1>. QED BY <1>1, <1>2, <1>3, <1>4 DEF Orchestrator!Next

LEMMA OrchestratorStutter ==
  ASSUME OrchestratorInv, UNCHANGED orchestratorVars
  PROVE  OrchestratorInv'
<1>1. UNCHANGED <<merging, collected, trail, evicted, answers>>
  BY DEF orchestratorVars
<1>2. OrchestratorTypes'
  BY <1>1 DEF OrchestratorInv, OrchestratorTypes, AnyPolicy
<1>. QED BY <1>1, <1>2, NobodyAnswered

LEMMA OrchestratorInit == Orchestrator!Init => OrchestratorInv
<1>. SUFFICES ASSUME Orchestrator!Init PROVE OrchestratorInv
  OBVIOUS
<1>1. /\ merging = <<Orchestrator!DefaultPolicy>>
      /\ collected = [r \in Requests |-> << >>]
      /\ trail = << >> /\ evicted = 0
      /\ answers = [r \in Requests |-> Orchestrator!NoDecision]
  BY DEF Orchestrator!Init
<1>2. OrchestratorTypes
  <2>1. Orchestrator!DefaultPolicy \in AnyPolicy
    BY DEF AnyPolicy
  <2>2. merging \in Seq(AnyPolicy)
    BY <1>1, <2>1
  <2>3. collected \in [Requests -> Seq(Signals)]
    BY <1>1
  <2>4. trail \in Seq({})
    BY <1>1
  <2>. QED BY <1>1, <2>2, <2>3, <2>4 DEF OrchestratorTypes
<1>3. Orchestrator!Answered = {}
  BY <1>1 DEF Orchestrator!Answered
<1>4. DOMAIN trail = {}
  BY <1>1
<1>. QED BY <1>2, <1>3, <1>4 DEF OrchestratorInv, AnswersAreDecisions, TrailIsAccount

\* An account is what AuditedAsAnswered asks of the log.
LEMMA AccountSuffices ==
  ASSUME OrchestratorInv, NEW r \in Orchestrator!Answered
  PROVE  Orchestrator!AuditedAsAnswered(r)
<1>. DEFINE mine == EventsOf(trail, r)
<1>1. mine = Orchestrator!TrailOf(r)
  BY DEF EventsOf, Orchestrator!TrailOf
<1>2. /\ mine = {} => evicted >= 2
      /\ \A i \in mine : trail[i].action = answers[r].decision.action
      /\ \A i \in mine : i + 1 \in mine \/ trail[i].type = "decision_applied"
      /\ \A i \in mine : i - 1 \in mine \/ trail[i].type = "evaluated" \/ (i = 1 /\ evicted > 0)
  BY DEF OrchestratorInv, TrailIsAccount, AccountOf
<1>3. PICK n \in Nat : DOMAIN trail = 1 .. n
  BY DEF OrchestratorInv, OrchestratorTypes
<1>4. mine \in SUBSET (1 .. n)
  BY <1>3 DEF EventsOf
<1>. HIDE DEF mine
<1>5. ASSUME mine # {}
      PROVE  /\ trail[Orchestrator!Max(mine)].type = "decision_applied"
             /\ trail[Orchestrator!Min(mine)].type # "evaluated"
                  => evicted > 0 /\ Orchestrator!Min(mine) = 1
  <2>1. PICK greatest \in mine : \A j \in mine : j <= greatest
    BY <1>4, <1>5, LastPosition
  <2>2. PICK least \in mine : \A j \in mine : least <= j
    BY <1>4, <1>5, FirstPosition
  <2>3. \A i \in mine : i \in Int
    BY <1>4
  <2>4. greatest + 1 \notin mine /\ least - 1 \notin mine
    BY <2>1, <2>2, <2>3
  <2>5. \A i \in mine : (\A j \in mine : i >= j) <=> i = greatest
    BY <2>1, <2>3
  <2>6. \A i \in mine : (\A j \in mine : i <= j) <=> i = least
    BY <2>2, <2>3
  <2>7. Orchestrator!Max(mine) = greatest
    BY <2>5 DEF Orchestrator!Max
  <2>8. Orchestrator!Min(mine) = least
    BY <2>6 DEF Orchestrator!Min
  <2>. QED BY <1>2, <2>4, <2>7, <2>8
<1>. QED BY <1>1, <1>2, <1>5 DEF Orchestrator!AuditedAsAnswered

\* A decision of a policy on a request's own signals is what DecidedByItsOwn
\* asks for.
LEMMA DecisionSuffices ==
  ASSUME OrchestratorInv, NEW r \in Orchestrator!Answered
  PROVE  Orchestrator!DecidedByItsOwn(r)
<1>1. PICK policy \in AnyPolicy : answers[r] = AnswerUnder(collected[r], policy)
  BY DEF OrchestratorInv, AnswersAreDecisions
<1>2. r \in Requests /\ collected[r] \in Seq(Signals)
  BY DEF OrchestratorInv, OrchestratorTypes, Orchestrator!Answered
<1>3. PICK signals \in Seq(Signals) : signals = collected[r]
  BY <1>2
<1>4. PICK n \in Nat : DOMAIN signals = 1 .. n
  OBVIOUS
<1>5. \A k \in DOMAIN signals : signals[k] \in Signals
  OBVIOUS
<1>6. \E m \in Nat : DOMAIN policy.precedence = 1 .. m
  <2>1. CASE policy = Orchestrator!DefaultPolicy
    <3>1. DOMAIN policy.precedence = 1 .. 13
      BY <2>1 DEF Orchestrator!DefaultPolicy
    <3>. QED BY <3>1
  <2>2. CASE policy \in MergePolicies
    BY <2>2, OrchestratorConstants DEF Orchestrator!OrchestratorAssumption
  <2>. QED BY <2>1, <2>2 DEF AnyPolicy
<1>7. PICK m \in Nat : DOMAIN policy.precedence = 1 .. m
  BY <1>6
<1>8. PICK c : c = Orchestrator!Merged(signals, policy)
  OBVIOUS
<1>9. /\ Asked(signals) = {} => c = policy.defaultAction
      /\ Asked(signals) # {} => c \in Asked(signals)
      /\ policy.mergeStrategy # "source_precedence" =>
           \A a \in Asked(signals) : RankOf(a) <= RankOf(c)
  BY <1>4, <1>5, <1>7, <1>8, MergedFacts
<1>10. /\ answers[r].by = policy
       /\ answers[r].decision.action = c
       /\ answers[r].decision.conflicts = Orchestrator!Conflicts(signals)
  BY <1>1, <1>3, <1>8 DEF AnswerUnder, Orchestrator!Decision
<1>11. \A conflict \in Orchestrator!Conflicts(signals) : conflict.winner \in Asked(signals)
  BY <1>5, ConflictWinners
<1>12. ASSUME Asked(signals) # {}, NEW a \in Asked(signals), RankOf(a) <= RankOf(c)
       PROVE  RankOf(c) >= RankOf(a)
  <2>1. a \in Deciders /\ c \in Deciders
    BY <1>5, <1>9, <1>12, AskedFacts
  <2>2. RankOf(a) \in Int /\ RankOf(c) \in Int
    BY <2>1, RankFacts
  <2>. QED BY <1>12, <2>2
<1>. QED BY <1>3, <1>9, <1>10, <1>11, <1>12 DEF Orchestrator!DecidedByItsOwn, Asked, RankOf

\* Whatever others put into the shared buffer, whatever policies come and go and
\* however small the audit store: a request's answer is the decision its own
\* signals call for, and what the store still holds of it says so.
THEOREM DecisionsFollowSignals == EnginesSpec => []DecisionsAreTheirOwn
<1>. DEFINE Inv == chosen = "orchestrator" => OrchestratorInv
<1>1. EnginesInit => Inv
  BY OrchestratorInit DEF EnginesInit
<1>2. Inv /\ [EnginesNext]_enginesVars => Inv'
  <2>. SUFFICES ASSUME Inv, [EnginesNext]_enginesVars, chosen' = "orchestrator"
                PROVE  OrchestratorInv'
    OBVIOUS
  <2>1. CASE EnginesNext
    <3>1. chosen = "orchestrator" /\ Orchestrator!Next
      BY <2>1 DEF EnginesNext, OthersIdle
    <3>. QED BY <3>1, OrchestratorStep
  <2>2. CASE UNCHANGED enginesVars
    <3>1. chosen = "orchestrator" /\ UNCHANGED orchestratorVars
      BY <2>2 DEF enginesVars
    <3>. QED BY <3>1, OrchestratorStutter
  <2>. QED BY <2>1, <2>2
<1>3. Inv => DecisionsAreTheirOwn
  <2>1. OrchestratorInv => Orchestrator!DecisionsAreTheirOwn
    BY AccountSuffices, DecisionSuffices DEF Orchestrator!DecisionsAreTheirOwn
  <2>. QED BY <2>1 DEF DecisionsAreTheirOwn
<1>. HIDE DEF Inv
<1>. QED BY <1>1, <1>2, <1>3, PTL DEF EnginesSpec

-----------------------------------------------------------------------------
(* The runtime control.                                                       *)

ControlInv == Control!BuiltTogether /\ file \in Contents \cup {BootConfig}

LEMMA ControlStep ==
  ASSUME ControlInv, Control!Next
  PROVE  ControlInv'
<1>1. ASSUME NEW content \in Contents, Control!EditFile(content)
      PROVE  ControlInv'
  BY <1>1 DEF ControlInv, Control!EditFile, Control!BuiltTogether
<1>2. ASSUME Control!Reload PROVE ControlInv'
  <2>1. /\ Control!ValidRuntimeConfig(file) /\ UNCHANGED <<file, resolved>>
        /\ IF Control!Buildable(file) THEN engines' = Control!Built(file) ELSE UNCHANGED engines
    BY <1>2 DEF Control!Reload
  <2>. QED BY <2>1 DEF ControlInv, Control!BuiltTogether
<1>3. ASSUME Control!ReloadFailed PROVE ControlInv'
  BY <1>3 DEF ControlInv, Control!ReloadFailed, Control!controlVars, Control!BuiltTogether
<1>4. ASSUME NEW name, Control!SwitchProfile(name) PROVE ControlInv'
  <2>1. /\ UNCHANGED file /\ engines' = Control!Built(resolved')
    BY <1>4 DEF Control!SwitchProfile
  <2>2. engines' = Control!Built(resolved)'
    BY <2>1 DEF Control!Built
  <2>. QED BY <2>1, <2>2 DEF ControlInv, Control!BuiltTogether
<1>5. ASSUME NEW name, Control!SwitchRefused(name) PROVE ControlInv'
  BY <1>5 DEF ControlInv, Control!SwitchRefused, Control!controlVars, Control!BuiltTogether
<1>. QED BY <1>1, <1>2, <1>3, <1>4, <1>5 DEF Control!Next

\* Whatever was edited, reloaded, refused or switched in between, the engines in
\* force were all built from one config the validator accepted, or all from the
\* active profile: for every boot config and everything an operator writes.
THEOREM EnginesBuiltTogether ==
  EnginesSpec => [](chosen = "control" => Control!BuiltTogether)
<1>. DEFINE Inv == chosen = "control" => ControlInv
<1>1. EnginesInit => Inv
  <2>1. Control!ValidRuntimeConfig(BootConfig) /\ Control!Buildable(BootConfig)
    BY ControlConstants DEF Control!ControlAssumption
  <2>2. Control!Init => ControlInv
    BY <2>1 DEF Control!Init, ControlInv, Control!BuiltTogether
  <2>. QED BY <2>2 DEF EnginesInit
<1>2. Inv /\ [EnginesNext]_enginesVars => Inv'
  <2>. SUFFICES ASSUME Inv, [EnginesNext]_enginesVars, chosen' = "control"
                PROVE  ControlInv'
    OBVIOUS
  <2>1. CASE EnginesNext
    <3>1. chosen = "control" /\ Control!Next
      BY <2>1 DEF EnginesNext, OthersIdle
    <3>. QED BY <3>1, ControlStep
  <2>2. CASE UNCHANGED enginesVars
    <3>1. chosen = "control" /\ UNCHANGED controlVars
      BY <2>2 DEF enginesVars
    <3>. QED BY <3>1 DEF ControlInv, controlVars, Control!BuiltTogether
  <2>. QED BY <2>1, <2>2
<1>3. Inv => (chosen = "control" => Control!BuiltTogether)
  BY DEF ControlInv
<1>. HIDE DEF Inv
<1>. QED BY <1>1, <1>2, <1>3, PTL DEF EnginesSpec

\* The server's firewall and core's, on the same policies: for every list of any
\* length, of levels the validator knows, that core's store would hold, they allow the same requests, and the
\* server asks for confirmation wherever core would.
THEOREM FirewallsAgree ==
  ASSUME NEW S, NEW list \in Seq(S),
         \A i \in DOMAIN list : list[i].maxRiskLevel \in Control!Risk
  PROVE  Control!NoLaxerThanCore(list)
<1>. SUFFICES ASSUME Control!StoreAccepts(list), NEW q \in Control!Request
              PROVE  /\ Control!ServerFirewall(list, q).allowed = Control!PolicyEngine(list, q).allowed
                     /\ Control!PolicyEngine(list, q).requiresConfirmation
                          => Control!ServerFirewall(list, q).requiresConfirmation
  BY DEF Control!NoLaxerThanCore
<1>. DEFINE fits(i) == q.tool \in list[i].allowedTools /\ Control!WithinCeiling(list[i], q)
            found == {i \in DOMAIN list : Control!Concerns(list[i], q)}
            matching == {i \in found : fits(i)}
<1>1. PICK n \in Nat : DOMAIN list = 1 .. n
  OBVIOUS
<1>2. \A i, j \in found : i = j
  BY DEF Control!StoreAccepts, Control!IsInjective, Control!Concerns
<1>3. Control!ServerFirewall(list, q) =
        IF matching = {} THEN Control!Denied
        ELSE Control!Allowed(Control!ServerConfirms(list[Control!Min(matching)], q))
  <2>1. matching = {i \in DOMAIN list : /\ Control!Concerns(list[i], q)
                                        /\ q.tool \in list[i].allowedTools
                                        /\ Control!WithinCeiling(list[i], q)}
    OBVIOUS
  <2>. HIDE DEF matching
  <2>. QED BY <2>1 DEF Control!ServerFirewall
<1>4. /\ Control!Denied.allowed = FALSE /\ Control!Denied.requiresConfirmation = FALSE
      /\ \A b : /\ Control!Allowed(b).allowed = TRUE
                /\ Control!Allowed(b).requiresConfirmation = b
  BY DEF Control!Denied, Control!Allowed
<1>5. CASE found = {}
  <2>1. matching = {}
    BY <1>5
  <2>2. Control!PolicyEngine(list, q) = Control!Denied
    BY <1>5 DEF Control!PolicyEngine
  <2>. QED BY <1>3, <1>4, <2>1, <2>2
<1>6. CASE found # {}
  <2>1. PICK i \in found : TRUE
    BY <1>6
  <2>2. found = {i} /\ i \in Int
    BY <1>1, <1>2, <2>1
  <2>3. Control!Min({i}) = i
    BY <2>2 DEF Control!Min
  <2>. DEFINE confirms == /\ list[i].requiresConfirmationAbove # Control!Absent
                          /\ Control!Rank[q.riskLevel]
                               > Control!Rank[list[i].requiresConfirmationAbove]
  <2>4. Control!PolicyEngine(list, q) =
          IF fits(i) THEN Control!Allowed(confirms) ELSE Control!Denied
    <3>1. Control!WithinCeiling(list[i], q)
            <=> ~(Control!Rank[q.riskLevel] > Control!Rank[list[i].maxRiskLevel])
      <4>1. q.riskLevel \in Control!Risk /\ list[i].maxRiskLevel \in Control!Risk
        BY <2>1 DEF Control!Request
      <4>2. \A r \in Control!Risk : Control!Rank[r] \in Int
        BY DEF Control!Risk, Control!Rank
      <4>. QED BY <4>1, <4>2 DEF Control!WithinCeiling
    <3>2. found # {} /\ list[Control!Min(found)] = list[i]
      BY <1>6, <2>2, <2>3
    <3>3. Control!PolicyEngine(list, q) =
            IF \/ found = {}
               \/ q.tool \notin list[Control!Min(found)].allowedTools
               \/ Control!Rank[q.riskLevel] > Control!Rank[list[Control!Min(found)].maxRiskLevel]
            THEN Control!Denied
            ELSE Control!Allowed(
                   /\ list[Control!Min(found)].requiresConfirmationAbove # Control!Absent
                   /\ Control!Rank[q.riskLevel]
                        > Control!Rank[list[Control!Min(found)].requiresConfirmationAbove])
      BY DEF Control!PolicyEngine
    <3>. HIDE DEF found
    <3>. QED BY <3>1, <3>2, <3>3
  <2>5. Control!ServerConfirms(list[i], q) <=> list[i].requiresConfirmationAbove # Control!Absent
    BY DEF Control!ServerConfirms
  <2>6. confirms => Control!ServerConfirms(list[i], q)
    BY <2>5
  <2>. HIDE DEF found, confirms
  <2>7. CASE fits(i)
    <3>1. matching = {i}
      BY <2>2, <2>7
    <3>. HIDE DEF matching, fits
    <3>2. Control!ServerFirewall(list, q) = Control!Allowed(Control!ServerConfirms(list[i], q))
      BY <1>3, <2>3, <3>1
    <3>3. Control!PolicyEngine(list, q) = Control!Allowed(confirms)
      BY <2>4, <2>7
    <3>4. /\ Control!Allowed(confirms).allowed = TRUE
          /\ Control!Allowed(confirms).requiresConfirmation = confirms
          /\ Control!Allowed(Control!ServerConfirms(list[i], q)).allowed = TRUE
          /\ Control!Allowed(Control!ServerConfirms(list[i], q)).requiresConfirmation
               = Control!ServerConfirms(list[i], q)
      BY <1>4
    <3>. QED BY ONLY <2>6, <3>2, <3>3, <3>4, Zenon
  <2>8. CASE ~fits(i)
    <3>1. matching = {}
      BY <2>2, <2>8
    <3>. HIDE DEF matching, fits
    <3>. QED BY <1>3, <1>4, <2>4, <2>8, <3>1
  <2>. QED BY <2>7, <2>8
<1>. QED BY <1>5, <1>6

-----------------------------------------------------------------------------
(* The trust engine.  The sum of a sequence of points is defined by recursion *)
(* along it, so facts about sums are shown by induction along partial sums.   *)

\* Induction over the positions of a sequence.
LEMMA PositionInduction ==
  ASSUME NEW n \in Nat, NEW G, 0 \in G, \A k \in 0 .. n - 1 : k \in G => k + 1 \in G
  PROVE  0 .. n \subseteq G
<1>. DEFINE missed == {k \in 1 .. n : k \notin G}
<1>. SUFFICES ASSUME missed # {}
              PROVE  FALSE
  OBVIOUS
<1>1. missed \in SUBSET (1 .. n)
  OBVIOUS
<1>2. \A k \in missed : k \notin G
  OBVIOUS
<1>3. \A k \in 1 .. n : k \in missed \/ k \in G
  OBVIOUS
<1>. HIDE DEF missed
<1>4. PICK k \in missed : \A j \in missed : k <= j
  BY <1>1, FirstPosition
<1>5. k - 1 \in G
  BY <1>1, <1>3, <1>4
<1>. QED BY <1>1, <1>2, <1>4, <1>5

\* The running sums of a sequence of points.
SumsOf(f, points) ==
  /\ f \in [0 .. Len(points) -> Int]
  /\ f[0] = 0
  /\ \A k \in 1 .. Len(points) : f[k] = f[k - 1] + points[k]

SumsByRecursion(f, points) ==
  f = [k \in 0 .. Len(points) |-> IF k = 0 THEN 0 ELSE f[k - 1] + points[k]]

LEMMA SumsAgree ==
  ASSUME NEW points \in Seq(Int), NEW f, NEW g, SumsOf(f, points), SumsOf(g, points)
  PROVE  f = g
<1>. DEFINE n == Len(points)
            G == {k \in 0 .. n : f[k] = g[k]}
<1>1. n \in Nat /\ 0 \in G
  BY DEF SumsOf
<1>2. \A k \in 0 .. n - 1 : k \in G => k + 1 \in G
  BY DEF SumsOf
<1>3. \A k \in G : f[k] = g[k]
  OBVIOUS
<1>4. 0 .. n \subseteq G
  <2>. HIDE DEF G, n
  <2>. QED BY <1>1, <1>2, PositionInduction
<1>. QED BY <1>3, <1>4 DEF SumsOf

LEMMA SumsExist ==
  ASSUME NEW points \in Seq(Int)
  PROVE  \E f : SumsOf(f, points)
<1>. DEFINE n == Len(points)
            Upto(f, m) == /\ f \in [0 .. m -> Int]
                          /\ f[0] = 0
                          /\ \A k \in 1 .. m : f[k] = f[k - 1] + points[k]
            G == {m \in 0 .. n : \E f : Upto(f, m)}
<1>1. n \in Nat
  OBVIOUS
<1>2. 0 \in G
  <2>1. Upto([k \in 0 .. 0 |-> 0], 0)
    OBVIOUS
  <2>2. 0 \in 0 .. n
    OBVIOUS
  <2>. HIDE DEF Upto, n
  <2>. QED BY <2>1, <2>2
<1>3. ASSUME NEW m \in 0 .. n - 1, m \in G
      PROVE  m + 1 \in G
  <2>1. PICK f : Upto(f, m)
    <3>. HIDE DEF Upto, n
    <3>. QED BY <1>3
  <2>. DEFINE g == [k \in 0 .. m + 1 |-> IF k = m + 1 THEN f[m] + points[m + 1] ELSE f[k]]
  <2>2. points[m + 1] \in Int
    OBVIOUS
  <2>3. Upto(g, m + 1)
    BY <2>1, <2>2
  <2>4. m + 1 \in 0 .. n
    OBVIOUS
  <2>. HIDE DEF Upto, n, g
  <2>. QED BY <2>3, <2>4
<1>4. 0 .. n \subseteq G
  <2>. HIDE DEF G, n
  <2>. QED BY <1>1, <1>2, <1>3, PositionInduction
<1>5. n \in G
  <2>. HIDE DEF G, n
  <2>. QED BY <1>1, <1>4
<1>6. PICK f : Upto(f, n)
  <2>. HIDE DEF Upto, n
  <2>. QED BY <1>5
<1>. QED BY <1>6 DEF SumsOf

\* TotalOf is the last of the running sums, whichever way they are obtained.
LEMMA TotalIsLastSum ==
  ASSUME NEW points \in Seq(Int), NEW f, SumsOf(f, points)
  PROVE  Reputation!TotalOf(points) = f[Len(points)] /\ Reputation!TotalOf(points) \in Int
<1>. DEFINE upTo == CHOOSE g : SumsByRecursion(g, points)
<1>1. Reputation!TotalOf(points) = upTo[Len(points)]
  BY DEF Reputation!TotalOf, SumsByRecursion
<1>2. SumsByRecursion(f, points)
  BY DEF SumsByRecursion, SumsOf
<1>3. SumsByRecursion(upTo, points)
  BY <1>2
<1>. HIDE DEF upTo
<1>4. SumsOf(upTo, points)
  <2>. DEFINE G == {k \in 0 .. Len(points) : upTo[k] \in Int}
  <2>1. Len(points) \in Nat /\ \A k \in 1 .. Len(points) : points[k] \in Int
    OBVIOUS
  <2>2. \A k \in 0 .. Len(points) :
          upTo[k] = IF k = 0 THEN 0 ELSE upTo[k - 1] + points[k]
    BY <1>3 DEF SumsByRecursion
  <2>3. DOMAIN upTo = 0 .. Len(points)
    BY <1>3 DEF SumsByRecursion
  <2>4. 0 \in G
    BY <2>1, <2>2
  <2>5. \A k \in 0 .. Len(points) - 1 : k \in G => k + 1 \in G
    BY <2>1, <2>2
  <2>6. \A k \in G : upTo[k] \in Int
    OBVIOUS
  <2>7. 0 .. Len(points) \subseteq G
    <3>. HIDE DEF G
    <3>. QED BY <2>1, <2>4, <2>5, PositionInduction
  <2>8. upTo \in [0 .. Len(points) -> Int]
    <3>1. upTo = [k \in 0 .. Len(points) |-> upTo[k]]
      BY <1>3 DEF SumsByRecursion
    <3>. QED BY <3>1, <2>6, <2>7
  <2>. QED BY <2>1, <2>2, <2>8 DEF SumsOf
<1>5. upTo = f
  BY <1>4, SumsAgree
<1>. QED BY <1>1, <1>5 DEF SumsOf

\* What sums do: of nothing, with one more, of no points, of more points each,
\* and without a beginning that is worth nothing.
LEMMA TotalOfNothing ==
  ASSUME NEW points \in Seq(Int), \A k \in DOMAIN points : points[k] = 0
  PROVE  Reputation!TotalOf(points) = 0
<1>. DEFINE f == [k \in 0 .. Len(points) |-> 0]
<1>1. SumsOf(f, points)
  BY DEF SumsOf
<1>. QED BY <1>1, TotalIsLastSum

LEMMA TotalWithOneMore ==
  ASSUME NEW points \in Seq(Int), NEW more \in Int
  PROVE  Reputation!TotalOf(Append(points, more)) = Reputation!TotalOf(points) + more
<1>. DEFINE n == Len(points)
<1>1. PICK f : SumsOf(f, points)
  BY SumsExist
<1>. DEFINE g == [k \in 0 .. n + 1 |-> IF k = n + 1 THEN f[n] + more ELSE f[k]]
<1>2. n \in Nat /\ Append(points, more) \in Seq(Int) /\ Len(Append(points, more)) = n + 1
  OBVIOUS
<1>3. SumsOf(g, Append(points, more))
  <2>1. f \in [0 .. n -> Int] /\ f[0] = 0 /\ \A k \in 1 .. n : f[k] = f[k - 1] + points[k]
    BY <1>1 DEF SumsOf
  <2>2. g \in [0 .. n + 1 -> Int] /\ g[0] = 0
    BY <1>2, <2>1
  <2>3. \A k \in 1 .. n : Append(points, more)[k] = points[k]
    OBVIOUS
  <2>4. Append(points, more)[n + 1] = more
    OBVIOUS
  <2>5. \A k \in 0 .. n : g[k] = f[k]
    BY <1>2
  <2>6. g[n + 1] = f[n] + more
    BY <1>2
  <2>. HIDE DEF g, n
  <2>7. \A k \in 1 .. n + 1 : g[k] = g[k - 1] + Append(points, more)[k]
    <3>. SUFFICES ASSUME NEW k \in 1 .. n + 1
                  PROVE  g[k] = g[k - 1] + Append(points, more)[k]
      OBVIOUS
    <3>1. CASE k = n + 1
      <4>1. k - 1 = n /\ n \in 0 .. n
        BY <1>2, <3>1
      <4>. QED BY ONLY <2>4, <2>5, <2>6, <3>1, <4>1
    <3>2. CASE k \in 1 .. n
      <4>1. k \in 0 .. n /\ k - 1 \in 0 .. n
        BY <1>2, <3>2
      <4>. QED BY ONLY <2>1, <2>3, <2>5, <3>2, <4>1
    <3>. QED BY <1>2, <3>1, <3>2
  <2>. QED BY <1>2, <2>2, <2>7 DEF SumsOf
<1>4. g[n + 1] = f[n] + more
  BY <1>2
<1>. HIDE DEF g
<1>. QED BY <1>1, <1>2, <1>3, <1>4, TotalIsLastSum

LEMMA TotalOfMore ==
  ASSUME NEW few \in Seq(Int), NEW many \in Seq(Int), Len(few) = Len(many),
         \A k \in DOMAIN few : few[k] <= many[k]
  PROVE  Reputation!TotalOf(few) <= Reputation!TotalOf(many)
<1>. DEFINE n == Len(few)
<1>1. PICK f : SumsOf(f, few)
  BY SumsExist
<1>2. PICK g : SumsOf(g, many)
  BY SumsExist
<1>. DEFINE G == {k \in 0 .. n : f[k] <= g[k]}
<1>3. n \in Nat /\ \A k \in 1 .. n : few[k] \in Int /\ many[k] \in Int /\ few[k] <= many[k]
  OBVIOUS
<1>4. 0 \in G
  BY <1>1, <1>2 DEF SumsOf
<1>5. \A k \in 0 .. n - 1 : k \in G => k + 1 \in G
  <2>1. \A k \in 0 .. n : f[k] \in Int /\ g[k] \in Int
    BY <1>1, <1>2 DEF SumsOf
  <2>2. \A k \in 0 .. n - 1 : f[k + 1] = f[k] + few[k + 1] /\ g[k + 1] = g[k] + many[k + 1]
    BY <1>1, <1>2 DEF SumsOf
  <2>3. \A k \in 0 .. n : k \in G <=> f[k] <= g[k]
    OBVIOUS
  <2>. HIDE DEF G, n
  <2>4. ASSUME NEW k \in 0 .. n - 1, f[k] <= g[k]
        PROVE  f[k + 1] <= g[k + 1]
    <3>1. k \in 0 .. n /\ k + 1 \in 1 .. n
      BY <1>3
    <3>2. /\ f[k + 1] = f[k] + few[k + 1] /\ g[k + 1] = g[k] + many[k + 1]
          /\ f[k] \in Int /\ g[k] \in Int
      BY <2>1, <2>2, <3>1
    <3>3. few[k + 1] \in Int /\ many[k + 1] \in Int /\ few[k + 1] <= many[k + 1]
      BY <1>3, <3>1
    <3>. QED BY ONLY <2>4, <3>2, <3>3
  <2>5. \A k \in 0 .. n - 1 : k \in 0 .. n /\ k + 1 \in 0 .. n
    BY <1>3
  <2>. QED BY ONLY <2>3, <2>4, <2>5
<1>6. \A k \in G : f[k] <= g[k]
  OBVIOUS
<1>7. 0 .. n \subseteq G
  <2>. HIDE DEF G, n
  <2>. QED BY <1>3, <1>4, <1>5, PositionInduction
<1>. QED BY <1>1, <1>2, <1>3, <1>6, <1>7, TotalIsLastSum

LEMMA TotalWithoutStart ==
  ASSUME NEW points \in Seq(Int), NEW m \in 1 .. Len(points) + 1,
         \A k \in 1 .. m - 1 : points[k] = 0,
         NEW rest \in Seq(Int), Len(rest) = Len(points) + 1 - m,
         \A k \in DOMAIN rest : rest[k] = points[k + m - 1]
  PROVE  Reputation!TotalOf(rest) = Reputation!TotalOf(points)
<1>. DEFINE n == Len(points)
<1>1. PICK f : SumsOf(f, points)
  BY SumsExist
<1>. DEFINE g == [k \in 0 .. Len(rest) |-> f[k + m - 1]]
<1>. PICK p \in Nat : p = m - 1
  OBVIOUS
<1>. DEFINE G == {k \in 0 .. p : f[k] = 0}
<1>2. n \in Nat /\ m \in Nat /\ p \in 0 .. n /\ p = m - 1
  OBVIOUS
<1>3. f[p] = 0
  <2>1. 0 \in G
    BY <1>1 DEF SumsOf
  <2>2. \A k \in 0 .. p - 1 : k \in G => k + 1 \in G
    <3>1. \A k \in 1 .. n : f[k] = f[k - 1] + points[k]
      BY <1>1 DEF SumsOf
    <3>2. \A k \in 0 .. p : k \in G <=> f[k] = 0
      OBVIOUS
    <3>. HIDE DEF G
    <3>3. \A k \in 1 .. p : points[k] = 0
      BY <1>2
    <3>4. ASSUME NEW k \in 0 .. p - 1, k \in G
          PROVE  k + 1 \in G
      <4>1. k \in 0 .. p /\ k + 1 \in 0 .. p /\ k + 1 \in 1 .. p /\ k + 1 \in 1 .. n /\ k + 1 - 1 = k
        BY ONLY <1>2, k \in 0 .. p - 1
      <4>2. f[k] = 0 /\ points[k + 1] = 0 /\ f[k + 1] = f[k] + points[k + 1]
        BY ONLY <3>1, <3>2, <3>3, <3>4, <4>1
      <4>. QED BY ONLY <3>2, <4>1, <4>2
    <3>. QED BY ONLY <3>4
  <2>3. \A k \in G : f[k] = 0
    OBVIOUS
  <2>4. 0 .. p \subseteq G
    <3>. HIDE DEF G, n
    <3>. QED BY <1>2, <2>1, <2>2, PositionInduction
  <2>. QED BY <1>2, <2>3, <2>4
<1>4. SumsOf(g, rest)
  <2>1. \A k \in 0 .. n : f[k] \in Int
    BY <1>1 DEF SumsOf
  <2>2. \A k \in 1 .. n : f[k] = f[k - 1] + points[k]
    BY <1>1 DEF SumsOf
  <2>3. g \in [0 .. Len(rest) -> Int] /\ g[0] = 0
    BY <1>2, <1>3, <2>1
  <2>4. ASSUME NEW k \in 1 .. Len(rest)
        PROVE  g[k] = g[k - 1] + rest[k]
    <3>1. k + m - 1 \in 1 .. n /\ k + m - 1 - 1 = k - 1 + m - 1
      BY <1>2
    <3>2. g[k] = f[k + m - 1] /\ g[k - 1] = f[k - 1 + m - 1] /\ rest[k] = points[k + m - 1]
      <4>1. Len(rest) \in Nat /\ k \in DOMAIN rest /\ k \in 1 .. Len(rest)
        OBVIOUS
      <4>2. k \in 0 .. Len(rest) /\ k - 1 \in 0 .. Len(rest)
        BY ONLY <4>1
      <4>3. \A j \in 0 .. Len(rest) : g[j] = f[j + m - 1]
        OBVIOUS
      <4>. HIDE DEF g
      <4>. QED BY <4>1, <4>2, <4>3
    <3>. HIDE DEF g
    <3>. QED BY <2>2, <3>1, <3>2
  <2>. QED BY <2>3, <2>4 DEF SumsOf
<1>5. g[Len(rest)] = f[n]
  BY <1>2
<1>. HIDE DEF g
<1>. QED BY <1>1, <1>4, <1>5, TotalIsLastSum

-----------------------------------------------------------------------------
\* The points that events gain by recoveries, and those of marks, over plain
\* sequences of events and of marks.
GainsIn(E, k, from, to) ==
  [j \in 1 .. k |->
     IF E[j].type \in DOMAIN Recovery /\ E[j].at \in from .. to THEN E[j].delta ELSE 0]
MarkedIn(M, start) == [k \in 1 .. Len(M) |-> IF M[k].at >= start THEN M[k].amount ELSE 0]

GainedIn(E, k, from, to) == Reputation!TotalOf(GainsIn(E, k, from, to))

ScoredTypes(E, M, time) ==
  /\ E \in Seq(Reputation!Event) /\ M \in Seq(Reputation!Mark)
  /\ \A j \in DOMAIN E : /\ E[j].at <= time
                         /\ E[j].type \in DOMAIN Recovery => E[j].delta \in Nat
  /\ \A j \in DOMAIN M : M[j].at <= time
  /\ \A i, j \in DOMAIN M : i <= j => M[i].at <= M[j].at

\* The marks account for what was gained in every window that may still matter.
MarksAccount(E, M, time) ==
  \A t \in Int : t >= time - RecoveryWindow =>
    Reputation!TotalOf(MarkedIn(M, t)) = GainedIn(E, Len(E), t, time)

WithinBudget(E, time) ==
  GainedIn(E, Len(E), time - RecoveryWindow, time) <= RecoveryCap

AlwaysCapped(E, time) ==
  \A start \in 0 .. time : GainedIn(E, Len(E), start, start + RecoveryWindow) <= RecoveryCap

CutWhenSpent(E) ==
  \A k \in DOMAIN E :
    E[k].type \in DOMAIN Recovery /\ E[k].delta < Recovery[E[k].type] =>
      GainedIn(E, k, E[k].at - RecoveryWindow, E[k].at) = RecoveryCap

Budgeted(E, M, time) ==
  /\ ScoredTypes(E, M, time)
  /\ MarksAccount(E, M, time)
  /\ WithinBudget(E, time)
  /\ AlwaysCapped(E, time)
  /\ CutWhenSpent(E)

TrustInv ==
  /\ now \in Nat
  /\ events \in [TrustCompartments -> Seq(Reputation!Event)]
  /\ marks \in [TrustCompartments -> Seq(Reputation!Mark)]
  /\ \A c \in TrustCompartments : Budgeted(events[c], marks[c], now)

LEMMA TrustNumbers ==
  /\ RecoveryCap \in Nat /\ RecoveryWindow \in Nat
  /\ \A type \in DOMAIN Penalty : Penalty[type] \in Nat
  /\ \A type \in DOMAIN Recovery : Recovery[type] \in Nat /\ Recovery[type] > 0
  /\ DOMAIN Penalty \cap DOMAIN Recovery = {}
BY TrustConstants DEF Reputation!TrustAssumption

\* What the points of events and marks are.
LEMMA GainsAreInts ==
  ASSUME NEW E \in Seq(Reputation!Event), NEW k \in 0 .. Len(E), NEW from \in Int, NEW to \in Int
  PROVE  /\ GainsIn(E, k, from, to) \in Seq(Int) /\ Len(GainsIn(E, k, from, to)) = k
         /\ DOMAIN GainsIn(E, k, from, to) = 1 .. k
         /\ GainedIn(E, k, from, to) \in Int
<1>1. k \in Nat /\ \A j \in 1 .. k : E[j].delta \in Int
  <2>1. \A j \in 1 .. k : E[j] \in Reputation!Event
    OBVIOUS
  <2>2. \A e \in Reputation!Event : e.delta \in Int
    BY DEF Reputation!Event
  <2>3. Len(E) \in Nat
    OBVIOUS
  <2>. QED BY <2>1, <2>2, <2>3
<1>2. GainsIn(E, k, from, to) \in [1 .. k -> Int]
  BY <1>1 DEF GainsIn
<1>3. GainsIn(E, k, from, to) \in Seq(Int)
  BY <1>1, <1>2
<1>4. PICK f : SumsOf(f, GainsIn(E, k, from, to))
  BY <1>3, SumsExist
<1>5. GainedIn(E, k, from, to) \in Int
  BY <1>3, <1>4, TotalIsLastSum DEF GainedIn
<1>. QED BY <1>1, <1>2, <1>3, <1>5

LEMMA MarkedAreInts ==
  ASSUME NEW M \in Seq(Reputation!Mark), NEW start \in Int
  PROVE  /\ MarkedIn(M, start) \in Seq(Int) /\ Len(MarkedIn(M, start)) = Len(M)
         /\ DOMAIN MarkedIn(M, start) = 1 .. Len(M)
         /\ Reputation!TotalOf(MarkedIn(M, start)) \in Int
<1>1. Len(M) \in Nat /\ \A j \in 1 .. Len(M) : M[j].amount \in Int
  <2>1. Len(M) \in Nat /\ \A j \in 1 .. Len(M) : M[j] \in Reputation!Mark
    OBVIOUS
  <2>2. \A mark \in Reputation!Mark : mark.amount \in Int
    BY DEF Reputation!Mark
  <2>. QED BY <2>1, <2>2
<1>2. MarkedIn(M, start) \in [1 .. Len(M) -> Int]
  BY <1>1 DEF MarkedIn
<1>3. MarkedIn(M, start) \in Seq(Int)
  BY <1>1, <1>2
<1>4. PICK f : SumsOf(f, MarkedIn(M, start))
  BY <1>3, SumsExist
<1>5. Reputation!TotalOf(MarkedIn(M, start)) \in Int
  BY <1>3, <1>4, TotalIsLastSum
<1>. QED BY <1>1, <1>2, <1>3, <1>5

\* Points that are no fewer event by event add up to no fewer.
LEMMA GainedInMore ==
  ASSUME NEW E \in Seq(Reputation!Event), NEW k \in 0 .. Len(E),
         NEW from \in Int, NEW to \in Int, NEW from2 \in Int, NEW to2 \in Int,
         \A j \in 1 .. k : E[j].type \in DOMAIN Recovery =>
           /\ E[j].delta \in Nat
           /\ E[j].at \in from .. to => E[j].at \in from2 .. to2
  PROVE  GainedIn(E, k, from, to) <= GainedIn(E, k, from2, to2)
<1>1. \A j \in 1 .. k : GainsIn(E, k, from, to)[j] <= GainsIn(E, k, from2, to2)[j]
  BY DEF GainsIn
<1>. QED BY <1>1, GainsAreInts, TotalOfMore DEF GainedIn

\* One event more adds its own points, and none to what came before it.
LEMMA GainedWithOneMore ==
  ASSUME NEW E \in Seq(Reputation!Event), NEW e \in Reputation!Event,
         NEW from \in Int, NEW to \in Int
  PROVE  /\ \A k \in 0 .. Len(E) : GainedIn(Append(E, e), k, from, to) = GainedIn(E, k, from, to)
         /\ GainedIn(Append(E, e), Len(E) + 1, from, to) =
              GainedIn(E, Len(E), from, to)
                + (IF e.type \in DOMAIN Recovery /\ e.at \in from .. to THEN e.delta ELSE 0)
<1>. DEFINE n == Len(E)
            more == IF e.type \in DOMAIN Recovery /\ e.at \in from .. to THEN e.delta ELSE 0
<1>1. /\ n \in Nat /\ more \in Int
      /\ \A j \in 1 .. n : Append(E, e)[j] = E[j]
      /\ Append(E, e)[n + 1] = e
  BY DEF Reputation!Event
<1>2. ASSUME NEW k \in 0 .. n
      PROVE  GainsIn(Append(E, e), k, from, to) = GainsIn(E, k, from, to)
  <2>1. \A j \in 1 .. k : Append(E, e)[j] = E[j]
    BY <1>1
  <2>. QED BY <2>1 DEF GainsIn
<1>3. GainsIn(Append(E, e), n + 1, from, to) = Append(GainsIn(E, n, from, to), more)
  <2>1. /\ GainsIn(E, n, from, to) \in Seq(Int) /\ Len(GainsIn(E, n, from, to)) = n
    BY <1>1, GainsAreInts
  <2>2. \A j \in 1 .. n : Append(GainsIn(E, n, from, to), more)[j] = GainsIn(E, n, from, to)[j]
    BY <2>1
  <2>3. \A j \in 1 .. n : GainsIn(Append(E, e), n + 1, from, to)[j] = GainsIn(E, n, from, to)[j]
    BY <1>1 DEF GainsIn
  <2>4. GainsIn(Append(E, e), n + 1, from, to)[n + 1] = more
    BY <1>1 DEF GainsIn
  <2>5. Append(GainsIn(E, n, from, to), more)[n + 1] = more
    BY <2>1
  <2>6. DOMAIN GainsIn(Append(E, e), n + 1, from, to) = 1 .. n + 1
    BY DEF GainsIn
  <2>7. DOMAIN Append(GainsIn(E, n, from, to), more) = 1 .. n + 1
    BY <2>1
  <2>. QED
    <3>. DEFINE f == GainsIn(Append(E, e), n + 1, from, to)
                g == Append(GainsIn(E, n, from, to), more)
    <3>1. f = [j \in DOMAIN f |-> f[j]] /\ g = [j \in DOMAIN g |-> g[j]]
      BY <2>1 DEF GainsIn
    <3>2. \A j \in 1 .. n + 1 : f[j] = g[j]
      <4>1. \A j \in 1 .. n + 1 : j = n + 1 \/ j \in 1 .. n
        BY <1>1
      <4>. HIDE DEF n, more
      <4>. QED BY <2>2, <2>3, <2>4, <2>5, <4>1
    <3>3. DOMAIN f = 1 .. n + 1 /\ DOMAIN g = 1 .. n + 1
      BY <2>6, <2>7
    <3>. HIDE DEF f, g
    <3>. QED BY ONLY <3>1, <3>2, <3>3 DEF f, g
<1>4. GainedIn(Append(E, e), n + 1, from, to) = GainedIn(E, n, from, to) + more
  <2>1. GainsIn(E, n, from, to) \in Seq(Int)
    BY <1>1, GainsAreInts
  <2>. HIDE DEF more
  <2>. QED BY <1>1, <1>3, <2>1, TotalWithOneMore DEF GainedIn
<1>. QED BY <1>2, <1>4 DEF GainedIn

\* Nothing scored is within every budget.
LEMMA NothingScored ==
  ASSUME NEW time \in Nat
  PROVE  Budgeted(<< >>, << >>, time)
<1>1. << >> \in Seq(Reputation!Event) /\ << >> \in Seq(Reputation!Mark) /\ Len(<< >>) = 0
  OBVIOUS
<1>2. \A from, to \in Int : GainedIn(<< >>, 0, from, to) = 0
  <2>. SUFFICES ASSUME NEW from \in Int, NEW to \in Int
                PROVE  GainedIn(<< >>, 0, from, to) = 0
    OBVIOUS
  <2>1. PICK E : E = << >>
    OBVIOUS
  <2>2. E \in Seq(Reputation!Event) /\ 0 \in 0 .. Len(E)
    BY <1>1, <2>1
  <2>3. GainsIn(E, 0, from, to) \in Seq(Int) /\ DOMAIN GainsIn(E, 0, from, to) = 1 .. 0
    BY ONLY <2>2, GainsAreInts, from \in Int, to \in Int
  <2>4. GainedIn(E, 0, from, to) = 0
    BY <2>3, TotalOfNothing DEF GainedIn
  <2>. QED BY ONLY <2>1, <2>4
<1>3. \A t \in Int : Reputation!TotalOf(MarkedIn(<< >>, t)) = 0
  <2>. SUFFICES ASSUME NEW t \in Int
                PROVE  Reputation!TotalOf(MarkedIn(<< >>, t)) = 0
    OBVIOUS
  <2>1. MarkedIn(<< >>, t) \in Seq(Int) /\ DOMAIN MarkedIn(<< >>, t) = 1 .. 0
    BY <1>1, MarkedAreInts
  <2>. QED BY <2>1, TotalOfNothing
<1>4. ScoredTypes(<< >>, << >>, time)
  BY <1>1 DEF ScoredTypes
<1>5. MarksAccount(<< >>, << >>, time)
  BY <1>1, <1>2, <1>3 DEF MarksAccount
<1>6. WithinBudget(<< >>, time)
  BY <1>1, <1>2, TrustNumbers DEF WithinBudget
<1>7. AlwaysCapped(<< >>, time)
  BY <1>1, <1>2, TrustNumbers DEF AlwaysCapped
<1>8. CutWhenSpent(<< >>)
  BY <1>1 DEF CutWhenSpent
<1>. QED BY <1>4, <1>5, <1>6, <1>7, <1>8 DEF Budgeted

\* Time only lets gains leave the current window.
LEMMA BudgetedLater ==
  ASSUME NEW E, NEW M, NEW time \in Nat, NEW later \in Nat, time <= later,
         Budgeted(E, M, time)
  PROVE  Budgeted(E, M, later)
<1>1. /\ E \in Seq(Reputation!Event) /\ M \in Seq(Reputation!Mark)
      /\ Len(E) \in Nat /\ Len(E) \in 0 .. Len(E) /\ DOMAIN E = 1 .. Len(E)
      /\ \A j \in 1 .. Len(E) : /\ E[j].at \in Nat /\ E[j].at <= time
                                /\ E[j].type \in DOMAIN Recovery => E[j].delta \in Nat
  <2>1. E \in Seq(Reputation!Event) /\ M \in Seq(Reputation!Mark)
    BY DEF Budgeted, ScoredTypes
  <2>2. \A j \in 1 .. Len(E) : E[j] \in Reputation!Event
    BY <2>1
  <2>3. \A e \in Reputation!Event : e.at \in Nat
    BY DEF Reputation!Event
  <2>. QED BY <2>1, <2>2, <2>3 DEF Budgeted, ScoredTypes
<1>2. RecoveryWindow \in Nat /\ RecoveryCap \in Nat
  BY TrustNumbers
<1>3. ScoredTypes(E, M, later)
  <2>1. \A j \in DOMAIN M : M[j].at \in Nat
    <3>1. \A j \in DOMAIN M : M[j] \in Reputation!Mark
      BY <1>1
    <3>. QED BY <3>1 DEF Reputation!Mark
  <2>. QED BY <1>1, <2>1 DEF Budgeted, ScoredTypes
<1>4. MarksAccount(E, M, later)
  <2>. SUFFICES ASSUME NEW t \in Int, t >= later - RecoveryWindow
                PROVE  Reputation!TotalOf(MarkedIn(M, t)) = GainedIn(E, Len(E), t, later)
    BY DEF MarksAccount
  <2>1. Reputation!TotalOf(MarkedIn(M, t)) = GainedIn(E, Len(E), t, time)
    BY <1>2 DEF Budgeted, MarksAccount
  <2>2. GainsIn(E, Len(E), t, time) = GainsIn(E, Len(E), t, later)
    <3>1. \A j \in 1 .. Len(E) : E[j].at \in t .. time <=> E[j].at \in t .. later
      BY <1>1
    <3>. QED BY <3>1 DEF GainsIn
  <2>. QED BY <2>1, <2>2 DEF GainedIn
<1>5. WithinBudget(E, later)
  <2>. DEFINE before == time - RecoveryWindow
              after == later - RecoveryWindow
  <2>1. before \in Int /\ after \in Int /\ before <= after
    BY <1>2
  <2>2. \A j \in 1 .. Len(E) : E[j].at \in after .. later => E[j].at \in before .. time
    BY <1>1, <1>2
  <2>3. GainedIn(E, Len(E), before, time) <= RecoveryCap
    BY DEF Budgeted, WithinBudget
  <2>. HIDE DEF before, after
  <2>4. GainedIn(E, Len(E), after, later) <= GainedIn(E, Len(E), before, time)
    BY <1>1, <2>1, <2>2, GainedInMore
  <2>5. /\ GainedIn(E, Len(E), after, later) \in Int
        /\ GainedIn(E, Len(E), before, time) \in Int
    BY <1>1, <2>1, GainsAreInts
  <2>6. GainedIn(E, Len(E), after, later) <= RecoveryCap
    BY ONLY <1>2, <2>3, <2>4, <2>5
  <2>. QED BY <2>6 DEF WithinBudget, after
<1>6. AlwaysCapped(E, later)
  <2>. SUFFICES ASSUME NEW start \in 0 .. later
                PROVE  GainedIn(E, Len(E), start, start + RecoveryWindow) <= RecoveryCap
    BY DEF AlwaysCapped
  <2>1. CASE start <= time
    BY <2>1 DEF Budgeted, AlwaysCapped
  <2>2. CASE start > time
    <3>. DEFINE gains == GainsIn(E, Len(E), start, start + RecoveryWindow)
    <3>1. start + RecoveryWindow \in Int /\ start \in Int
      BY <1>2
    <3>2. gains \in Seq(Int) /\ DOMAIN gains = 1 .. Len(E)
      BY <1>1, <3>1, GainsAreInts
    <3>3. \A k \in 1 .. Len(E) : gains[k] = 0
      BY <1>1, <2>2, <3>1 DEF GainsIn
    <3>4. GainedIn(E, Len(E), start, start + RecoveryWindow) = 0
      <4>. HIDE DEF gains
      <4>1. Reputation!TotalOf(gains) = 0
        BY <3>2, <3>3, TotalOfNothing
      <4>. QED BY <4>1 DEF gains, GainedIn
    <3>. QED BY <1>2, <3>4
  <2>. QED BY <2>1, <2>2
<1>. QED BY <1>3, <1>4, <1>5, <1>6 DEF Budgeted

\* A penalty takes nothing from the budget.
LEMMA BudgetedPenalty ==
  ASSUME NEW E, NEW M, NEW time \in Nat, Budgeted(E, M, time),
         NEW e \in Reputation!Event, e.at = time, e.type \notin DOMAIN Recovery
  PROVE  Budgeted(Append(E, e), M, time)
<1>. DEFINE n == Len(E)
            F == Append(E, e)
<1>1. /\ E \in Seq(Reputation!Event) /\ n \in Nat /\ F \in Seq(Reputation!Event)
      /\ Len(F) = n + 1 /\ DOMAIN F = 1 .. n + 1 /\ DOMAIN E = 1 .. n
      /\ \A j \in 1 .. n : F[j] = E[j]
      /\ F[n + 1] = e
  BY DEF Budgeted, ScoredTypes
<1>2. \A j \in 1 .. n + 1 : j = n + 1 \/ j \in 1 .. n
  BY <1>1
<1>3. \A from, to \in Int : /\ \A k \in 0 .. n : GainedIn(F, k, from, to) = GainedIn(E, k, from, to)
                            /\ GainedIn(F, Len(F), from, to) = GainedIn(E, n, from, to)
  <2>. SUFFICES ASSUME NEW from \in Int, NEW to \in Int
                PROVE  /\ \A k \in 0 .. n : GainedIn(F, k, from, to) = GainedIn(E, k, from, to)
                       /\ GainedIn(F, Len(F), from, to) = GainedIn(E, n, from, to)
    OBVIOUS
  <2>1. /\ \A k \in 0 .. n : GainedIn(F, k, from, to) = GainedIn(E, k, from, to)
        /\ GainedIn(F, n + 1, from, to) = GainedIn(E, n, from, to) + 0
    BY <1>1, GainedWithOneMore
  <2>2. GainedIn(E, n, from, to) \in Int
    BY <1>1, GainsAreInts
  <2>. HIDE DEF F, n
  <2>. QED BY <1>1, <2>1, <2>2
<1>. HIDE DEF F, n
<1>4. ScoredTypes(F, M, time)
  BY <1>1, <1>2 DEF Budgeted, ScoredTypes
<1>5. RecoveryWindow \in Nat
  BY TrustNumbers
<1>6. MarksAccount(F, M, time)
  BY <1>3 DEF Budgeted, MarksAccount, n
<1>7. WithinBudget(F, time)
  BY <1>3, <1>5 DEF Budgeted, WithinBudget, n
<1>8. AlwaysCapped(F, time)
  BY <1>3, <1>5 DEF Budgeted, AlwaysCapped, n
<1>9. CutWhenSpent(F)
  <2>. SUFFICES ASSUME NEW k \in DOMAIN F, F[k].type \in DOMAIN Recovery,
                       F[k].delta < Recovery[F[k].type]
                PROVE  GainedIn(F, k, F[k].at - RecoveryWindow, F[k].at) = RecoveryCap
    BY DEF CutWhenSpent
  <2>1. k \in 1 .. n /\ F[k] = E[k]
    BY <1>1, <1>2
  <2>2. GainedIn(E, k, E[k].at - RecoveryWindow, E[k].at) = RecoveryCap
    BY <1>1, <2>1 DEF Budgeted, CutWhenSpent
  <2>3. E[k].at \in Nat /\ k \in 0 .. n
    <3>1. E[k] \in Reputation!Event /\ k \in 0 .. n
      BY <1>1, <2>1
    <3>. QED BY <3>1 DEF Reputation!Event
  <2>. QED BY <1>3, <1>5, <2>1, <2>2, <2>3
<1>. QED BY <1>4, <1>6, <1>7, <1>8, <1>9 DEF Budgeted, F

\* Marks in order, none of them before `start`, with the points that M has in
\* every window that begins no earlier.
PrunedTo(s, M, start) ==
  /\ s \in Seq(Reputation!Mark)
  /\ \A i, j \in DOMAIN s : i <= j => s[i].at <= s[j].at
  /\ \A i \in DOMAIN s : s[i].at >= start /\ \E j \in DOMAIN M : s[i] = M[j]
  /\ \A t \in Int : t >= start =>
       Reputation!TotalOf(MarkedIn(s, t)) = Reputation!TotalOf(MarkedIn(M, t))

\* That is what MarksSince leaves of marks in order.
LEMMA MarksSinceKeeps ==
  ASSUME NEW c, marks[c] \in Seq(Reputation!Mark), NEW start \in Int,
         \A i, j \in DOMAIN marks[c] : i <= j => marks[c][i].at <= marks[c][j].at
  PROVE  PrunedTo(Reputation!MarksSince(c, start), marks[c], start)
<1>. PICK s : s = Reputation!MarksSince(c, start)
  OBVIOUS
<1>1. PICK M \in Seq(Reputation!Mark) : M = marks[c]
  OBVIOUS
<1>. DEFINE kept == {k \in DOMAIN M : M[k].at >= start}
            n == Len(M)
<1>2. n \in Nat /\ DOMAIN M = 1 .. n /\ \A k \in 1 .. n : M[k] \in Reputation!Mark
  OBVIOUS
<1>3. \A mark \in Reputation!Mark : mark.at \in Nat /\ mark.amount \in Nat
  BY DEF Reputation!Mark
<1>4. \A i, j \in 1 .. n : i <= j => M[i].at <= M[j].at
  BY <1>1
<1>5. kept \in SUBSET (1 .. n) /\ \A k \in 1 .. n : k \in kept <=> M[k].at >= start
  BY <1>2
<1>6. s = IF kept = {} THEN << >> ELSE SubSeq(M, Reputation!Min(kept), n)
  BY <1>1 DEF Reputation!MarksSince
<1>7. PICK m \in 1 .. n + 1 :
        /\ s \in Seq(Reputation!Mark)
        /\ Len(s) = n + 1 - m
        /\ \A k \in DOMAIN s : s[k] = M[k + m - 1]
        /\ \A k \in 1 .. n : k < m <=> k \notin kept
  <2>. HIDE DEF kept, n
  <2>1. CASE kept = {}
    <3>1. s = << >> /\ n + 1 \in 1 .. n + 1 /\ n + 1 - (n + 1) = 0
      BY <1>2, <1>6, <2>1
    <3>2. \A k \in 1 .. n : k < n + 1 /\ k \notin kept
      BY <1>2, <2>1
    <3>3. s \in Seq(Reputation!Mark) /\ Len(s) = 0 /\ DOMAIN s = {}
      BY <3>1
    <3>. QED BY ONLY <3>1, <3>2, <3>3
  <2>2. CASE kept # {}
    <3>1. PICK m \in kept : \A j \in kept : m <= j
      BY <1>2, <1>5, <2>2, FirstPosition
    <3>2. Reputation!Min(kept) \in kept /\ \A j \in kept : Reputation!Min(kept) <= j
      BY <3>1 DEF Reputation!Min
    <3>3. Reputation!Min(kept) = m
      <4>1. PICK k : k = Reputation!Min(kept)
        OBVIOUS
      <4>2. k \in kept /\ \A j \in kept : k <= j
        BY ONLY <3>2, <4>1
      <4>3. m <= k /\ k <= m
        BY <3>1, <4>2
      <4>4. m \in 1 .. n /\ k \in 1 .. n
        BY <1>5, <3>1, <4>2
      <4>5. m = k
        BY ONLY <1>2, <4>3, <4>4
      <4>. QED BY ONLY <4>1, <4>5
    <3>4. s = SubSeq(M, m, n) /\ m \in 1 .. n
      BY <1>5, <1>6, <2>2, <3>1, <3>3
    <3>5. s \in Seq(Reputation!Mark) /\ Len(s) = n + 1 - m /\ \A k \in DOMAIN s : s[k] = M[k + m - 1]
      BY <1>2, <3>4 DEF n
    <3>6. \A k \in 1 .. n : k < m <=> k \notin kept
      <4>1. M[m].at >= start /\ m \in Nat
        BY <1>2, <1>5, <3>4, <3>1
      <4>2. ASSUME NEW k \in 1 .. n, m <= k
            PROVE  k \in kept
        <5>1. M[m].at <= M[k].at /\ M[k].at \in Nat /\ M[m].at \in Nat
          BY <1>2, <1>3, <1>4, <3>4, <4>2
        <5>2. M[k].at >= start
          BY ONLY <4>1, <5>1, start \in Int
        <5>. QED BY <1>5, <5>2
      <4>. QED BY <1>2, <1>5, <3>1, <3>4, <4>2
    <3>7. m \in 1 .. n + 1
      BY <1>2, <3>4
    <3>. QED BY ONLY <3>5, <3>6, <3>7
  <2>. QED BY <2>1, <2>2
<1>. HIDE DEF kept, n
<1>8. /\ DOMAIN s = 1 .. n + 1 - m /\ m \in Nat
      /\ \A k \in 1 .. n + 1 - m : k + m - 1 \in 1 .. n /\ k + m - 1 \in kept /\ s[k] = M[k + m - 1]
  <2>1. DOMAIN s = 1 .. n + 1 - m /\ m \in Nat
    BY <1>2, <1>7
  <2>2. \A k \in 1 .. n + 1 - m : k + m - 1 \in 1 .. n /\ ~(k + m - 1 < m)
    BY <1>2, <2>1
  <2>. QED BY <1>7, <2>1, <2>2
<1>9. \A i, j \in DOMAIN s : i <= j => s[i].at <= s[j].at
  BY <1>2, <1>4, <1>8
<1>10. \A i \in DOMAIN s : s[i].at >= start /\ \E j \in DOMAIN M : s[i] = M[j]
  BY <1>2, <1>5, <1>8
<1>11. ASSUME NEW t \in Int, t >= start
       PROVE  Reputation!TotalOf(MarkedIn(s, t)) = Reputation!TotalOf(MarkedIn(M, t))
  <2>1. MarkedIn(M, t) \in Seq(Int) /\ Len(MarkedIn(M, t)) = n
    BY MarkedAreInts DEF n
  <2>2. /\ MarkedIn(s, t) \in Seq(Int) /\ Len(MarkedIn(s, t)) = n + 1 - m
        /\ DOMAIN MarkedIn(s, t) = 1 .. n + 1 - m
    BY <1>7, MarkedAreInts
  <2>3. ASSUME NEW k \in 1 .. m - 1
        PROVE  MarkedIn(M, t)[k] = 0
    <3>1. k \in 1 .. n /\ k \notin kept
      BY <1>2, <1>7
    <3>2. ~(M[k].at >= start) /\ M[k].at \in Nat
      BY <1>2, <1>3, <1>5, <3>1
    <3>3. ~(M[k].at >= t)
      BY ONLY <3>2, <1>11, start \in Int, t \in Int
    <3>. QED BY <3>1, <3>3 DEF MarkedIn, n
  <2>4. \A k \in 1 .. n + 1 - m : MarkedIn(s, t)[k] = MarkedIn(M, t)[k + m - 1]
    BY <1>7, <1>8 DEF MarkedIn, n
  <2>. QED BY ONLY <2>1, <2>2, <2>3, <2>4, m \in 1 .. n + 1, TotalWithoutStart
<1>. QED BY <1>1, <1>7, <1>9, <1>10, <1>11 DEF PrunedTo

\* The amounts of marks that are all in a window are the points in it.
LEMMA AmountsInWindow ==
  ASSUME NEW s \in Seq(Reputation!Mark), NEW start \in Int,
         \A i \in DOMAIN s : s[i].at >= start
  PROVE  Reputation!Amounts(s) = MarkedIn(s, start)
BY DEF Reputation!Amounts, MarkedIn

\* A mark more adds its amount to the windows that begin no later.
LEMMA MarkedWithOneMore ==
  ASSUME NEW s \in Seq(Reputation!Mark), NEW mark \in Reputation!Mark, NEW t \in Int
  PROVE  Reputation!TotalOf(MarkedIn(Append(s, mark), t)) =
           Reputation!TotalOf(MarkedIn(s, t)) + (IF mark.at >= t THEN mark.amount ELSE 0)
<1>. DEFINE n == Len(s)
            more == IF mark.at >= t THEN mark.amount ELSE 0
            f == MarkedIn(Append(s, mark), t)
            g == Append(MarkedIn(s, t), more)
<1>1. /\ n \in Nat /\ more \in Int
      /\ Len(Append(s, mark)) = n + 1
      /\ \A j \in 1 .. n : Append(s, mark)[j] = s[j]
      /\ Append(s, mark)[n + 1] = mark
  BY DEF Reputation!Mark
<1>2. MarkedIn(s, t) \in Seq(Int) /\ Len(MarkedIn(s, t)) = n
  BY MarkedAreInts
<1>3. f = [j \in 1 .. n + 1 |-> f[j]] /\ g = [j \in 1 .. n + 1 |-> g[j]]
  BY <1>1, <1>2 DEF MarkedIn
<1>4. \A j \in 1 .. n : f[j] = MarkedIn(s, t)[j] /\ g[j] = MarkedIn(s, t)[j]
  BY <1>1, <1>2 DEF MarkedIn
<1>5. f[n + 1] = more /\ g[n + 1] = more
  BY <1>1, <1>2 DEF MarkedIn
<1>6. \A j \in 1 .. n + 1 : j = n + 1 \/ j \in 1 .. n
  BY <1>1
<1>7. \A j \in 1 .. n + 1 : f[j] = g[j]
  <2>. HIDE DEF f, g, n, more
  <2>. QED BY ONLY <1>4, <1>5, <1>6
<1>8. f = g
  <2>. HIDE DEF f, g
  <2>. QED BY ONLY <1>3, <1>7
<1>9. Reputation!TotalOf(g) = Reputation!TotalOf(MarkedIn(s, t)) + more
  <2>. HIDE DEF more
  <2>. QED BY <1>1, <1>2, TotalWithOneMore
<1>. QED BY <1>8, <1>9

\* A recovery is granted what the window has left, and takes it from the budget.
LEMMA BudgetedRecovery ==
  ASSUME NEW E, NEW M, NEW time \in Nat, Budgeted(E, M, time),
         NEW s, PrunedTo(s, M, time - RecoveryWindow),
         NEW e \in Reputation!Event, e.at = time, e.type \in DOMAIN Recovery,
         NEW left \in Int,
         left = RecoveryCap - Reputation!TotalOf(MarkedIn(s, time - RecoveryWindow)),
         e.delta = IF Recovery[e.type] <= left THEN Recovery[e.type]
                   ELSE IF left > 0 THEN left ELSE 0,
         NEW N,
         N = IF e.delta > 0 THEN Append(s, [at |-> time, amount |-> e.delta]) ELSE s
  PROVE  Budgeted(Append(E, e), N, time)
<1>. DEFINE n == Len(E)
            F == Append(E, e)
            before == time - RecoveryWindow
<1>1. /\ E \in Seq(Reputation!Event) /\ n \in Nat /\ F \in Seq(Reputation!Event)
      /\ Len(F) = n + 1 /\ DOMAIN F = 1 .. n + 1 /\ DOMAIN E = 1 .. n
      /\ \A j \in 1 .. n : F[j] = E[j] /\ E[j] \in Reputation!Event
      /\ F[n + 1] = e
      /\ n \in 0 .. n
  BY DEF Budgeted, ScoredTypes
<1>. /\ s \in Seq(Reputation!Mark)
     /\ \A i, j \in DOMAIN s : i <= j => s[i].at <= s[j].at
     /\ \A i \in DOMAIN s : s[i].at <= time
     /\ \A t \in Int : t >= time - RecoveryWindow =>
          Reputation!TotalOf(MarkedIn(s, t)) = Reputation!TotalOf(MarkedIn(M, t))
  BY DEF PrunedTo, Budgeted, ScoredTypes
<1>2. \A j \in 1 .. n + 1 : j = n + 1 \/ j \in 1 .. n
  BY <1>1
<1>3. /\ RecoveryWindow \in Nat /\ RecoveryCap \in Nat /\ before \in Int
      /\ Recovery[e.type] \in Nat
  BY TrustNumbers
<1>4. \A from, to \in Int :
        /\ \A k \in 0 .. n : GainedIn(F, k, from, to) = GainedIn(E, k, from, to)
        /\ GainedIn(F, Len(F), from, to) =
             GainedIn(E, n, from, to) + (IF time \in from .. to THEN e.delta ELSE 0)
  <2>. SUFFICES ASSUME NEW from \in Int, NEW to \in Int
                PROVE  /\ \A k \in 0 .. n : GainedIn(F, k, from, to) = GainedIn(E, k, from, to)
                       /\ GainedIn(F, n + 1, from, to) =
                            GainedIn(E, n, from, to)
                              + (IF time \in from .. to THEN e.delta ELSE 0)
    BY <1>1
  <2>1. e.type \in DOMAIN Recovery /\ e.at \in from .. to <=> time \in from .. to
    OBVIOUS
  <2>. QED BY ONLY <1>1, <2>1, GainedWithOneMore, from \in Int, to \in Int,
                   e \in Reputation!Event
<1>5. \A from, to \in Int : GainedIn(E, n, from, to) \in Int /\ GainedIn(F, Len(F), from, to) \in Int
  <2>1. Len(F) \in 0 .. Len(F)
    BY <1>1
  <2>. HIDE DEF F
  <2>. QED BY <1>1, <2>1, GainsAreInts DEF n
<1>6. left = RecoveryCap - GainedIn(E, n, before, time)
  <2>1. Reputation!TotalOf(MarkedIn(s, before)) = Reputation!TotalOf(MarkedIn(M, before))
    BY <1>3
  <2>2. Reputation!TotalOf(MarkedIn(M, before)) = GainedIn(E, n, before, time)
    BY <1>3 DEF Budgeted, MarksAccount
  <2>. QED BY <2>1, <2>2
<1>7. GainedIn(E, n, before, time) <= RecoveryCap
  BY DEF Budgeted, WithinBudget
<1>. HIDE DEF F, n, before
<1>8. left >= 0
  <2>1. GainedIn(E, n, before, time) \in Int
    BY <1>3, <1>5
  <2>. QED BY ONLY <1>3, <1>6, <1>7, <2>1
<1>9. /\ e.delta \in Nat /\ e.delta <= left
      /\ e.delta < Recovery[e.type] => e.delta = left
  BY <1>3, <1>8
<1>10. ScoredTypes(F, N, time)
  <2>1. \A j \in DOMAIN F : /\ F[j].at <= time
                            /\ F[j].type \in DOMAIN Recovery => F[j].delta \in Nat
    <3>. SUFFICES ASSUME NEW j \in 1 .. n + 1
                  PROVE  /\ F[j].at <= time
                         /\ F[j].type \in DOMAIN Recovery => F[j].delta \in Nat
      BY <1>1
    <3>1. CASE j = n + 1
      BY <1>1, <1>9, <3>1
    <3>2. CASE j \in 1 .. n
      <4>1. /\ E[j].at <= time
            /\ E[j].type \in DOMAIN Recovery => E[j].delta \in Nat
        BY <1>1, <3>2 DEF Budgeted, ScoredTypes
      <4>. QED BY ONLY <1>1, <3>2, <4>1
    <3>. QED BY <1>2, <3>1, <3>2
  <2>2. CASE ~(e.delta > 0)
    BY <1>1, <2>1, <2>2 DEF ScoredTypes
  <2>3. CASE e.delta > 0
    <3>. DEFINE mark == [at |-> time, amount |-> e.delta]
    <3>1. mark \in Reputation!Mark /\ mark.at = time
      BY <1>9 DEF Reputation!Mark
    <3>2. N = Append(s, mark)
      BY <2>3
    <3>. HIDE DEF mark
    <3>3. /\ N \in Seq(Reputation!Mark) /\ DOMAIN N = 1 .. Len(s) + 1 /\ Len(s) \in Nat
          /\ \A j \in 1 .. Len(s) : N[j] = s[j] /\ j \in DOMAIN s
          /\ N[Len(s) + 1] = mark
      BY <3>1, <3>2
    <3>4. \A j \in 1 .. Len(s) + 1 : j = Len(s) + 1 \/ j \in 1 .. Len(s)
      BY <3>3
    <3>5. \A j \in DOMAIN N : N[j].at <= time
      BY <3>1, <3>3, <3>4
    <3>6. ASSUME NEW i \in DOMAIN N, NEW j \in DOMAIN N, i <= j
          PROVE  N[i].at <= N[j].at
      <4>1. CASE j = Len(s) + 1
        BY <3>1, <3>3, <3>5, <4>1
      <4>2. CASE j \in 1 .. Len(s)
        <5>1. i \in 1 .. Len(s)
          BY <3>3, <3>6, <4>2
        <5>2. s[i].at <= s[j].at
          BY <3>3, <3>6, <4>2, <5>1
        <5>. QED BY <3>3, <4>2, <5>1, <5>2
      <4>. QED BY <3>3, <3>4, <4>1, <4>2
    <3>. QED BY <1>1, <2>1, <3>3, <3>5, <3>6 DEF ScoredTypes
  <2>. QED BY <2>2, <2>3
<1>11. MarksAccount(F, N, time)
  <2>. SUFFICES ASSUME NEW t \in Int, t >= time - RecoveryWindow
                PROVE  Reputation!TotalOf(MarkedIn(N, t)) = GainedIn(F, Len(F), t, time)
    BY DEF MarksAccount
  <2>1. Reputation!TotalOf(MarkedIn(s, t)) = GainedIn(E, n, t, time)
    BY DEF Budgeted, MarksAccount, n
  <2>2. GainedIn(F, Len(F), t, time) = GainedIn(E, n, t, time) + (IF time >= t THEN e.delta ELSE 0)
    <3>1. time \in t .. time <=> time >= t
      OBVIOUS
    <3>. QED BY <1>4, <3>1
  <2>3. GainedIn(E, n, t, time) \in Int
    BY <1>5
  <2>4. CASE ~(e.delta > 0)
    <3>1. N = s /\ e.delta = 0
      BY <1>9, <2>4
    <3>. QED BY ONLY <2>1, <2>2, <2>3, <3>1
  <2>5. CASE e.delta > 0
    <3>. DEFINE mark == [at |-> time, amount |-> e.delta]
    <3>1. mark \in Reputation!Mark /\ mark.at = time /\ mark.amount = e.delta
      BY <1>9 DEF Reputation!Mark
    <3>2. N = Append(s, mark)
      BY <2>5
    <3>. HIDE DEF mark
    <3>3. Reputation!TotalOf(MarkedIn(N, t)) =
            Reputation!TotalOf(MarkedIn(s, t)) + (IF time >= t THEN e.delta ELSE 0)
      BY <3>1, <3>2, MarkedWithOneMore
    <3>. QED BY ONLY <2>1, <2>2, <3>3
  <2>. QED BY <2>4, <2>5
<1>12. GainedIn(F, Len(F), before, time) = GainedIn(E, n, before, time) + e.delta
  <2>1. time \in before .. time
    BY <1>3 DEF before
  <2>. QED BY <1>3, <1>4, <2>1
<1>13. GainedIn(F, Len(F), before, time) <= RecoveryCap
  <2>1. GainedIn(E, n, before, time) \in Int
    BY <1>3, <1>5
  <2>. QED BY ONLY <1>3, <1>6, <1>9, <1>12, <2>1
<1>14. WithinBudget(F, time)
  BY <1>13 DEF WithinBudget, before
<1>15. AlwaysCapped(F, time)
  <2>. SUFFICES ASSUME NEW start \in 0 .. time
                PROVE  GainedIn(F, Len(F), start, start + RecoveryWindow) <= RecoveryCap
    BY DEF AlwaysCapped
  <2>1. PICK end \in Int : end = start + RecoveryWindow
    BY <1>3
  <2>2. CASE time > end
    <3>1. GainedIn(F, Len(F), start, end) = GainedIn(E, n, start, end)
      <4>1. ~(time \in start .. end) /\ GainedIn(E, n, start, end) \in Int
        BY <1>5, <2>2
      <4>. QED BY <1>4, <4>1
    <3>2. GainedIn(E, n, start, end) <= RecoveryCap
      BY <2>1 DEF Budgeted, AlwaysCapped, n
    <3>. QED BY <2>1, <3>1, <3>2
  <2>3. CASE ~(time > end)
    <3>1. \A j \in 1 .. Len(F) : F[j].type \in DOMAIN Recovery =>
            /\ F[j].delta \in Nat
            /\ F[j].at \in start .. end => F[j].at \in before .. time
      <4>1. \A j \in 1 .. Len(F) : /\ F[j].at <= time
                                   /\ F[j].type \in DOMAIN Recovery => F[j].delta \in Nat
        BY <1>1, <1>10 DEF ScoredTypes
      <4>2. before <= start /\ start \in Int
        BY <1>3, <2>1, <2>3 DEF before
      <4>3. \A j \in 1 .. Len(F) : F[j].at \in start .. end => F[j].at \in before .. time
        BY <1>3, <2>1, <4>1, <4>2
      <4>. QED BY <4>1, <4>3
    <3>2. Len(F) \in 0 .. Len(F)
      BY <1>1
    <3>3. GainedIn(F, Len(F), start, end) <= GainedIn(F, Len(F), before, time)
      BY ONLY <1>1, <1>3, <2>1, <3>1, <3>2, start \in Int, time \in Int, GainedInMore
    <3>4. GainedIn(F, Len(F), start, end) \in Int /\ GainedIn(F, Len(F), before, time) \in Int
      BY ONLY <1>3, <1>5, <2>1, start \in Int, time \in Int
    <3>5. GainedIn(F, Len(F), start, end) <= RecoveryCap
      BY ONLY <1>3, <1>13, <3>3, <3>4
    <3>. QED BY <2>1, <3>5
  <2>. QED BY <2>1, <2>2, <2>3
<1>16. CutWhenSpent(F)
  <2>. SUFFICES ASSUME NEW k \in DOMAIN F, F[k].type \in DOMAIN Recovery,
                       F[k].delta < Recovery[F[k].type]
                PROVE  GainedIn(F, k, F[k].at - RecoveryWindow, F[k].at) = RecoveryCap
    BY DEF CutWhenSpent
  <2>1. CASE k \in 1 .. n
    <3>1. F[k] = E[k] /\ k \in 0 .. n /\ E[k].at \in Nat
      <4>1. F[k] = E[k] /\ k \in 0 .. n /\ E[k] \in Reputation!Event
        BY <1>1, <2>1
      <4>. QED BY <4>1 DEF Reputation!Event
    <3>2. GainedIn(E, k, E[k].at - RecoveryWindow, E[k].at) = RecoveryCap
      BY <1>1, <2>1, <3>1 DEF Budgeted, CutWhenSpent
    <3>. QED BY <1>3, <1>4, <3>1, <3>2
  <2>2. CASE k = n + 1
    <3>1. e.delta = left
      BY <1>1, <1>9, <2>2
    <3>2. GainedIn(F, Len(F), before, time) = RecoveryCap
      <4>1. GainedIn(E, n, before, time) \in Int
        BY <1>3, <1>5
      <4>. QED BY ONLY <1>3, <1>6, <1>12, <3>1, <4>1
    <3>. QED BY <1>1, <2>2, <3>2 DEF before
  <2>. QED BY <1>1, <1>2, <2>1, <2>2
<1>. QED BY <1>10, <1>11, <1>14, <1>15, <1>16 DEF Budgeted, F

\* A step that scores one event e of c and leaves it the marks N.
LEMMA OneScored ==
  ASSUME TrustInv, NEW c \in TrustCompartments, NEW e \in Reputation!Event,
         NEW N \in Seq(Reputation!Mark), now' = now,
         events' = [events EXCEPT ![c] = Append(@, e)], marks' = [marks EXCEPT ![c] = N],
         Budgeted(Append(events[c], e), N, now)
  PROVE  TrustInv'
<1>1. Append(events[c], e) \in Seq(Reputation!Event)
  BY DEF TrustInv
<1>2. /\ events' \in [TrustCompartments -> Seq(Reputation!Event)]
      /\ marks' \in [TrustCompartments -> Seq(Reputation!Mark)]
      /\ now' \in Nat
  BY <1>1 DEF TrustInv
<1>3. ASSUME NEW d \in TrustCompartments
      PROVE  \E F, M : F = events'[d] /\ M = marks'[d] /\ Budgeted(F, M, now)
  <2>1. CASE d = c
    <3>1. events'[d] = Append(events[c], e) /\ marks'[d] = N
      BY <2>1 DEF TrustInv
    <3>. QED BY <3>1
  <2>2. CASE d # c
    <3>1. events'[d] = events[d] /\ marks'[d] = marks[d]
      BY <2>2 DEF TrustInv
    <3>2. Budgeted(events[d], marks[d], now)
      BY DEF TrustInv
    <3>. QED BY <3>1, <3>2
  <2>. QED BY <2>1, <2>2
<1>. QED BY <1>2, <1>3 DEF TrustInv

LEMMA PenaltyStep ==
  ASSUME TrustInv, NEW c \in TrustCompartments, NEW type \in DOMAIN Penalty,
         Reputation!RecordPenalty(c, type)
  PROVE  TrustInv'
<1>. DEFINE e == [type |-> type, delta |-> -Penalty[type], at |-> now]
<1>1. now \in Nat /\ Penalty[type] \in Nat /\ type \notin DOMAIN Recovery
  BY TrustNumbers DEF TrustInv
<1>2. e \in Reputation!Event /\ e.at = now /\ e.type \notin DOMAIN Recovery
  BY <1>1 DEF Reputation!Event, Reputation!Type
<1>3. events' = [events EXCEPT ![c] = Append(@, e)] /\ marks' = marks /\ now' = now
  BY DEF Reputation!RecordPenalty, Reputation!Log
<1>. HIDE DEF e
<1>4. Budgeted(events[c], marks[c], now) /\ marks[c] \in Seq(Reputation!Mark)
  BY DEF TrustInv
<1>5. Budgeted(Append(events[c], e), marks[c], now)
  BY ONLY <1>1, <1>2, <1>4, BudgetedPenalty
<1>6. marks' = [marks EXCEPT ![c] = marks[c]]
  BY <1>3 DEF TrustInv
<1>. QED BY ONLY TrustInv, c \in TrustCompartments, <1>2, <1>3, <1>4, <1>5, <1>6, OneScored

\* capRecovery, with the minimum spelled out.
LEMMA GrantedFacts ==
  ASSUME NEW c, NEW delta \in Nat, NEW left \in Int,
         left = RecoveryCap - Reputation!TotalOf(Reputation!Amounts(Reputation!InWindow(c)))
  PROVE  Reputation!Granted(c, delta) =
           IF delta <= left THEN delta ELSE IF left > 0 THEN left ELSE 0
<1>. DEFINE room == IF left > 0 THEN left ELSE 0
            least == Reputation!Min({delta, room})
<1>1. Reputation!Granted(c, delta) = least
  BY DEF Reputation!Granted
<1>2. room \in Nat
  OBVIOUS
<1>3. least \in {delta, room} /\ least <= delta /\ least <= room
  <2>. HIDE DEF room
  <2>1. \E k \in {delta, room} : \A j \in {delta, room} : k <= j
    <3>1. CASE delta <= room
      BY <1>2, <3>1
    <3>2. CASE ~(delta <= room)
      <4>1. room <= delta /\ room <= room
        BY <1>2, <3>2
      <4>. QED BY <4>1
    <3>. QED BY <3>1, <3>2
  <2>. QED BY <2>1 DEF Reputation!Min
<1>4. least = IF delta <= left THEN delta ELSE IF left > 0 THEN left ELSE 0
  <2>. HIDE DEF least
  <2>. QED BY <1>3
<1>. QED BY <1>1, <1>4

LEMMA RecoveryStep ==
  ASSUME TrustInv, NEW c \in TrustCompartments, NEW type \in DOMAIN Recovery,
         Reputation!RecordRecovery(c, type)
  PROVE  TrustInv'
<1>. DEFINE delta == Reputation!Granted(c, Recovery[type])
            e == [type |-> type, delta |-> delta, at |-> now]
            s == Reputation!InWindow(c)
            before == now - RecoveryWindow
            left == RecoveryCap - Reputation!TotalOf(MarkedIn(s, before))
            N == IF delta > 0 THEN Append(s, [at |-> now, amount |-> delta]) ELSE s
<1>1. /\ now \in Nat /\ Recovery[type] \in Nat /\ Recovery[type] > 0
      /\ RecoveryCap \in Nat /\ RecoveryWindow \in Nat /\ before \in Int
  BY TrustNumbers DEF TrustInv
<1>2. /\ events' = [events EXCEPT ![c] = Append(@, e)] /\ now' = now
      /\ marks' = [marks EXCEPT ![c] = N]
  BY DEF Reputation!RecordRecovery, Reputation!Log
<1>3. Budgeted(events[c], marks[c], now) /\ marks[c] \in Seq(Reputation!Mark)
  BY DEF TrustInv
<1>4. /\ \A i, j \in DOMAIN marks[c] : i <= j => marks[c][i].at <= marks[c][j].at
      /\ \A j \in DOMAIN marks[c] : marks[c][j].at <= now
  BY <1>3 DEF Budgeted, ScoredTypes
<1>5. s = Reputation!MarksSince(c, before)
  BY DEF Reputation!InWindow
<1>. HIDE DEF s, before
<1>6. PrunedTo(s, marks[c], before)
  BY ONLY <1>1, <1>3, <1>4, <1>5, MarksSinceKeeps
<1>7. s \in Seq(Reputation!Mark) /\ \A i \in DOMAIN s : s[i].at >= before
  BY ONLY <1>6 DEF PrunedTo
<1>8. left \in Int
  BY ONLY <1>1, <1>7, MarkedAreInts
<1>9. Reputation!Amounts(s) = MarkedIn(s, before)
  BY ONLY <1>1, <1>7, AmountsInWindow
<1>10. delta = IF Recovery[type] <= left THEN Recovery[type] ELSE IF left > 0 THEN left ELSE 0
  <2>1. left = RecoveryCap - Reputation!TotalOf(Reputation!Amounts(Reputation!InWindow(c)))
    BY <1>9 DEF s
  <2>. HIDE DEF left
  <2>. QED BY ONLY <1>1, <1>8, <2>1, GrantedFacts
<1>. HIDE DEF delta, left
<1>11. delta \in Nat
  BY <1>1, <1>8, <1>10
<1>12. /\ e \in Reputation!Event /\ e.at = now /\ e.type = type /\ e.delta = delta
  BY <1>1, <1>11 DEF Reputation!Event, Reputation!Type
<1>13. N \in Seq(Reputation!Mark)
  <2>1. [at |-> now, amount |-> delta] \in Reputation!Mark
    BY <1>1, <1>11 DEF Reputation!Mark
  <2>. QED BY <1>7, <2>1
<1>14. N = IF e.delta > 0 THEN Append(s, [at |-> now, amount |-> e.delta]) ELSE s
  BY <1>12
<1>. HIDE DEF e, N
<1>15. Budgeted(Append(events[c], e), N, now)
  <2>1. left = RecoveryCap - Reputation!TotalOf(MarkedIn(s, now - RecoveryWindow))
    BY DEF left, before
  <2>2. PrunedTo(s, marks[c], now - RecoveryWindow)
    BY <1>6 DEF before
  <2>3. e.delta = IF Recovery[e.type] <= left THEN Recovery[e.type]
                  ELSE IF left > 0 THEN left ELSE 0
    BY <1>10, <1>12
  <2>. QED BY ONLY <1>1, <1>3, <1>8, <1>12, <1>14, <2>1, <2>2, <2>3,
                   type \in DOMAIN Recovery, BudgetedRecovery
<1>. QED BY ONLY TrustInv, c \in TrustCompartments, <1>2, <1>12, <1>13, <1>15, OneScored

\* Time passes and nothing is scored.
LEMMA TrustStutter ==
  ASSUME TrustInv, UNCHANGED <<events, marks>>, now' \in Nat, now <= now'
  PROVE  TrustInv'
<1>1. ASSUME NEW c \in TrustCompartments
      PROVE  Budgeted(events[c], marks[c], now')
  BY BudgetedLater DEF TrustInv
<1>. QED BY <1>1 DEF TrustInv

\* Scoring starts, or starts again after a clear, with nothing scored.
LEMMA TrustStart ==
  ASSUME now \in Nat, events = [c \in TrustCompartments |-> << >>],
         marks = [c \in TrustCompartments |-> << >>]
  PROVE  TrustInv
<1>1. /\ << >> \in Seq(Reputation!Event) /\ << >> \in Seq(Reputation!Mark)
      /\ \A c \in TrustCompartments : events[c] = << >> /\ marks[c] = << >>
  OBVIOUS
<1>2. Budgeted(<< >>, << >>, now)
  BY NothingScored
<1>. QED BY <1>1, <1>2 DEF TrustInv

LEMMA TrustRestart ==
  ASSUME now' \in Nat, events' = [c \in TrustCompartments |-> << >>],
         marks' = [c \in TrustCompartments |-> << >>]
  PROVE  TrustInv'
<1>1. /\ << >> \in Seq(Reputation!Event) /\ << >> \in Seq(Reputation!Mark)
      /\ \A c \in TrustCompartments : events'[c] = << >> /\ marks'[c] = << >>
  OBVIOUS
<1>2. Budgeted(<< >>, << >>, now')
  BY NothingScored
<1>. QED BY <1>1, <1>2 DEF TrustInv

LEMMA TrustStep ==
  ASSUME TrustInv, Reputation!Next
  PROVE  TrustInv'
<1>1. ASSUME NEW c \in TrustCompartments, Reputation!GetOrCreateProfile(c)
      PROVE  TrustInv'
  <2>1. UNCHANGED <<events, marks, now>> /\ now \in Nat
    BY <1>1 DEF Reputation!GetOrCreateProfile, TrustInv
  <2>. QED BY <2>1, TrustStutter
<1>2. ASSUME NEW c \in TrustCompartments, NEW type \in DOMAIN Penalty,
             Reputation!RecordPenalty(c, type)
      PROVE  TrustInv'
  BY <1>2, PenaltyStep
<1>3. ASSUME NEW c \in TrustCompartments, NEW type \in DOMAIN Recovery,
             Reputation!RecordRecovery(c, type)
      PROVE  TrustInv'
  BY <1>3, RecoveryStep
<1>4. CASE Reputation!ApplyDecay
  <2>1. UNCHANGED <<events, marks, now>> /\ now \in Nat
    BY <1>4 DEF Reputation!ApplyDecay, TrustInv
  <2>. QED BY <2>1, TrustStutter
<1>5. CASE Reputation!Clear
  <2>1. /\ now' \in Nat
        /\ events' = [c \in TrustCompartments |-> << >>]
        /\ marks' = [c \in TrustCompartments |-> << >>]
    BY <1>5 DEF Reputation!Clear, TrustInv
  <2>. QED BY <2>1, TrustRestart
<1>6. CASE Reputation!Tick
  <2>1. UNCHANGED <<events, marks>> /\ now' \in Nat /\ now <= now'
    BY <1>6 DEF Reputation!Tick, TrustInv
  <2>. QED BY <2>1, TrustStutter
<1>. QED BY <1>1, <1>2, <1>3, <1>4, <1>5, <1>6 DEF Reputation!Next

LEMMA TrustInvSuffices == TrustInv => Reputation!RecoveryBudgetIsExact
<1>. SUFFICES ASSUME TrustInv
              PROVE  Reputation!RecoveryBudgetIsExact
  OBVIOUS
<1>1. \A c, k, from, to : Reputation!Gains(c, k, from, to) = GainsIn(events[c], k, from, to)
  BY DEF Reputation!Gains, GainsIn
<1>2. \A c, k, from, to :
        Reputation!TotalOf(Reputation!Gains(c, k, from, to)) = GainedIn(events[c], k, from, to)
  BY <1>1 DEF GainedIn
<1>3. Reputation!RecoveryIsCapped
  <2>1. \A c \in TrustCompartments : AlwaysCapped(events[c], now)
    BY DEF TrustInv, Budgeted
  <2>. QED BY ONLY <1>2, <2>1 DEF Reputation!RecoveryIsCapped, AlwaysCapped
<1>4. Reputation!CutOnlyWhenSpent
  <2>1. \A c \in TrustCompartments : CutWhenSpent(events[c])
    BY DEF TrustInv, Budgeted
  <2>. QED BY ONLY <1>2, <2>1 DEF Reputation!CutOnlyWhenSpent, CutWhenSpent
<1>. QED BY <1>3, <1>4 DEF Reputation!RecoveryBudgetIsExact

\* The invariant of a behaviour of the engines that the trust engine's rests on.
TrustOnly == chosen = "reputation" => TrustInv

\* It holds at the start, and whichever engine runs, its steps preserve it.
LEMMA TrustOnlyHolds == /\ EnginesInit => TrustOnly
                        /\ TrustOnly /\ [EnginesNext]_enginesVars => TrustOnly'
<1>1. EnginesInit => TrustOnly
  <2>. SUFFICES ASSUME EnginesInit
                PROVE  TrustInv
    BY DEF TrustOnly
  <2>1. /\ now \in Nat
        /\ events = [c \in TrustCompartments |-> << >>]
        /\ marks = [c \in TrustCompartments |-> << >>]
    BY DEF EnginesInit, Reputation!Init
  <2>. QED BY <2>1, TrustStart
<1>2. ASSUME TrustOnly, EnginesNext PROVE TrustOnly'
  <2>1. chosen' = chosen /\ (chosen = "reputation" => Reputation!Next)
    BY <1>2 DEF EnginesNext, OthersIdle
  <2>. QED BY <1>2, <2>1, TrustStep DEF TrustOnly
<1>3. ASSUME TrustOnly, UNCHANGED enginesVars PROVE TrustOnly'
  <2>1. UNCHANGED <<chosen, events, marks, now>>
    BY <1>3 DEF enginesVars, reputationVars
  <2>2. TrustInv => now \in Nat
    BY DEF TrustInv
  <2>. QED BY <1>3, <2>1, <2>2, TrustStutter DEF TrustOnly
<1>. QED BY <1>1, <1>2, <1>3

\* "Total positive recovery applied within any windowMs sliding window is capped
\* at maxRecoveryPerWindow", and no recovery is cut short before the window's
\* budget is spent, although the engine forgets what it granted once it leaves
\* the current window.
THEOREM RecoverySpendsItsBudget == EnginesSpec => []RecoveryBudgetIsExact
<1>1. TrustOnly => RecoveryBudgetIsExact
  BY TrustInvSuffices DEF TrustOnly, RecoveryBudgetIsExact
<1>. QED BY <1>1, TrustOnlyHolds, PTL DEF EnginesSpec
=============================================================================
