-------------------------- MODULE CompartmentIdentity --------------------------
(***************************************************************************)
(* What the session manager promises a compartment, with its bookkeeping   *)
(* left out: a compartment has at most one current identity, every         *)
(* identity belongs to one compartment for one uninterrupted period, and   *)
(* an identity that has been retired is never current again.               *)
(***************************************************************************)
CONSTANTS Compartments, Identities, None

VARIABLES
  current,  \* the current identity of each compartment, or None
  retired   \* the identities that have been current and no longer are

vars == <<current, retired>>

InUse == {current[c] : c \in Compartments} \ {None}

Init ==
  /\ current = [c \in Compartments |-> None]
  /\ retired = {}

\* Replace the identity of a compartment by one never seen before.
Mint(c) ==
  \E id \in Identities \ (InUse \cup retired) :
    /\ current' = [current EXCEPT ![c] = id]
    /\ retired' = retired \cup ({current[c]} \ {None})

\* Retire the current identities of some compartments.
Retire(D) ==
  /\ current' = [c \in Compartments |-> IF c \in D THEN None ELSE current[c]]
  /\ retired' = retired \cup ({current[c] : c \in D} \ {None})

Next ==
  \/ \E c \in Compartments : Mint(c)
  \/ \E D \in SUBSET Compartments : Retire(D)

Spec == Init /\ [][Next]_vars
=============================================================================
