------------------------------ MODULE MCMultiAgent ------------------------------
(* A small instance of MultiAgent: two agents and a runtime of three executions, *)
(* so that one agent alone can fill it; the thresholds are those of types.ts.    *)
EXTENDS MultiAgent

MCScores == {15, 25}
MCDegradations == {35, 60}
=============================================================================
