--------------------------- MODULE MCPolicyClient ---------------------------
(* The instances of MCPolicyLifecycle for PolicyClient. *)
EXTENDS MCPolicyLifecycle, PolicyClient
=============================================================================
