----------------------------- MODULE MCConfigFiles -----------------------------
(* The config files that the small instances of RuntimeControl write: files      *)
(* that are fine, that the validator rejects, and that it accepts although an    *)
(* engine cannot be built from them.                                             *)
EXTENDS RuntimePolicies

With(field, value) == [DefaultRuntimeConfig EXCEPT ![field] = value]

Accepted ==
  {With("searxng", x) : x \in Searxng} \cup
  {[With("firewallPolicies", <<Allow({"search"}, "high", "low")>>)
      EXCEPT !["searxng"] = x] : x \in {Absent, "enabled"}}

Clashing ==
  {With("isolationPolicies", <<Isolate("first", 5, TRUE, TRUE, TRUE),
                               Isolate("second", 1, TRUE, TRUE, TRUE)>>),
   With("privacyBoundaryRules", <<Boundary("first", "block"), Boundary("second", "allow")>>)}

Rejected ==
  {With("firewallPolicies", <<Allow({"search"}, "low", Absent), Allow(Tool, "low", "low")>>),
   With("trustPolicies", Trust(49, 19, 49))}

MCContents == Accepted \cup Clashing \cup Rejected
=============================================================================
