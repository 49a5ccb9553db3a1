--------------------------- MODULE MCChangeGraph ---------------------------
(* ChangeGraph for TLC: three hashes, two actors, seqs up to 2. *)
EXTENDS ChangeGraph
=============================================================================
