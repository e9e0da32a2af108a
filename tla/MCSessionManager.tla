--------------------------- MODULE MCSessionManager ---------------------------
(* A small instance of SessionManager: one compartment of each reuse policy. *)
EXTENDS SessionIdentity

MCReusePolicy ==
  [c \in Compartments |-> IF c = "research" THEN "reuse_active" ELSE "always_rotate"]
MCTtl == [c \in Compartments |-> IF c = "research" THEN 2 ELSE 1]
MCMaxRequests == [c \in Compartments |-> 2]
=============================================================================
