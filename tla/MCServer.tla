------------------------------ MODULE MCServer ------------------------------
(***************************************************************************)
(* An instance of ServerProcess for TLC.                                   *)
(***************************************************************************)
EXTENDS ServerProcess, TLC
=============================================================================
