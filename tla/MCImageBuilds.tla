---------------------------- MODULE MCImageBuilds ----------------------------
(***************************************************************************)
(* Instances of ImageBuilds for TLC.  Two builds and one socket suffice:   *)
(* builds share nothing but the table, and a socket follows one build.     *)
(***************************************************************************)
EXTENDS ImageBuilds

=============================================================================
