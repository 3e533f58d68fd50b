----------------------------- MODULE PolicyGate -----------------------------
(* The manual gate of provisioning (microsegment.io/provision=approved): the  *)
(* lifecycle with the history of the generations a user approved, which the   *)
(* annotation alone forgets when it is removed.                               *)
EXTENDS PolicyLifecycle

VARIABLE blessed  \* blessed[c]: generations the object had while it was approved

GateInit == Init /\ blessed = [c \in CR |-> {}]

GateNext ==
  /\ Next
  /\ blessed' = [c \in CR |-> IF cr'[c].approved THEN blessed[c] \cup {cr'[c].gen}
                                                 ELSE blessed[c]]

GateSpec == GateInit /\ [][GateNext]_<<vars, blessed>>

(* In manual mode only a generation that carried the approval is ever in       *)
(* force: one edited after the annotation was removed waits in the draft, even *)
(* if the removal and the edit race a reconcile (ReconcilePolicy, approved;    *)
(* docs/guides/segmentation-policy.md, "remove the annotation").               *)
GateRespected ==
  ProvisioningMode = "manual" =>
    \A c \in CR : active[c].exists => active[c].gen \in blessed[c]
=============================================================================
