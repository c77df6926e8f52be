------------------------------ MODULE MCPtyOutput ------------------------------
(* Instances of PtyOutput for TLC. *)
EXTENDS PtyOutput

CONSTANTS c1, c2
================================================================================
