------------------------------ MODULE MCIndex ------------------------------
(* Instances of Index for TLC. *)
EXTENDS Index

\* The second file comes first in the alphabet.
Backwards == [f \in FileIds |-> numFiles - 1 - f]

=============================================================================
