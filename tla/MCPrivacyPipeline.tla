--------------------------- MODULE MCPrivacyPipeline ---------------------------
(* A small instance of PrivacyPipeline: one agent, as nothing of one agent's *)
(* state is read for another, and two topics, one of them sensitive.         *)
EXTENDS PrivacyPipeline
=============================================================================
