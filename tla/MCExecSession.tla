---------------------------- MODULE MCExecSession ----------------------------
(***************************************************************************)
(* An instance of ExecSession for TLC: one session.                        *)
(***************************************************************************)
EXTENDS ExecSession

=============================================================================
