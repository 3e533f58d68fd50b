----------------------------- MODULE MCOnboarding -----------------------------
(* Instances of Onboarding for TLC. *)
EXTENDS Onboarding

CONSTANTS s1, s2 \* output Secrets

Creates(o, e) == [mode |-> "create", output |-> o, existing |-> e]
Adopts == [mode |-> "adopt", output |-> "", existing |-> FALSE]

(* The pairing profile is named by the administrator in the second generation, *)
(* the third one takes the documented way out of a cluster that is there.      *)
SpecsPaths == <<Creates(s1, FALSE), Creates(s1, TRUE), Adopts>>
(* The output Secret is given another name. *)
SpecsRename == <<Creates(s1, FALSE), Creates(s2, FALSE)>>
=============================================================================
