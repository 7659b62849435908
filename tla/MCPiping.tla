------------------------------ MODULE MCPiping ------------------------------
(* Instances of Piping for TLC. *)
EXTENDS Piping

Everyone == {"sender", "receiver"}

=============================================================================
