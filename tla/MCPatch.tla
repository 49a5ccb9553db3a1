------------------------------ MODULE MCPatch -------------------------------
(***************************************************************************)
(* Instances of Patch for TLC, with the mutations of MCDocument.          *)
(***************************************************************************)
EXTENDS Patch, MCDocument
=============================================================================
