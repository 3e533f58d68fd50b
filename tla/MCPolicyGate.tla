---------------------------- MODULE MCPolicyGate ----------------------------
(* The instances of MCPolicyLifecycle for PolicyGate. *)
EXTENDS MCPolicyLifecycle, PolicyGate
=============================================================================
