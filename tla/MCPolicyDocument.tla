--------------------------- MODULE MCPolicyDocument ---------------------------
(* A small instance of PolicyDocument for TLC.                             *)
EXTENDS PolicyDocument

CONSTANTS c1, c2
=============================================================================
