---------------------------- MODULE PolicyMeaning ----------------------------
(* The lifecycle of CRs whose specs are lowered by the compiler: what the PCE  *)
(* enforces related to what the authors of the CRs wrote.                      *)
EXTENDS PolicyLifecycle, PolicyCompile

CONSTANT SourceOf  \* SourceOf[c][g]: the spec of c at generation g as written

Lowered(c) == [g \in DOMAIN SourceOf[c] |-> Compile(Kind[c], SourceOf[c][g])]

ASSUME SourceAssumption ==
  \A c \in CR : /\ SourceOf[c] \in Seq(IF Kind[c] = "intent" THEN IntentSpec ELSE NetworkSpec)
                /\ SpecOf[c] = Lowered(c)

(* Outside skip mode the connections the PCE permits because of a CR are       *)
(* exactly those that one accepted generation of it grants in the scope its    *)
(* ruleset has: no peer, port list or scope flag is lost between the author    *)
(* and the enforced rules, whatever labels are minted on the way (CompileIntent,*)
(* CompilePolicy, "peers are not merged/ANDed"; resolveAllows; BuildRules).    *)
EnforcedIsGranted ==
  Mode # "skip" =>
    \A c \in CR : active[c].exists =>
      Permitted(active[c].scope, active[c].rules)
        = Granted(Kind[c], SourceOf[c][active[c].gen], active[c].scope)
=============================================================================
