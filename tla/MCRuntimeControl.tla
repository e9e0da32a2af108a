---------------------------- MODULE MCRuntimeControl ----------------------------
(* A small instance of RuntimeControl: the shipped packs and profiles, and the   *)
(* files of MCConfigFiles.                                                       *)
EXTENDS RuntimeControl, MCConfigFiles

=============================================================================
