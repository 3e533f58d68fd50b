------------------------- MODULE MCNamespaceProfiles -------------------------
(* Instances of NamespaceProfiles for TLC: shop is an application namespace,   *)
(* infra a system namespace, c a policy CR in shop.                            *)
EXTENDS NamespaceProfiles, TLC

CONSTANTS shop, infra, c

Nothing == [labels |-> [k \in K8sKey |-> ""], managed |-> "", enforcement |-> "",
            assign |-> NoLabels]
OfTeam(t) == [Nothing EXCEPT !.labels["team"] = t]
Of(x) == [k \in Key |-> x]
App(a) == [k \in {"app"} |-> a]
FromTeam == App([value |-> "", from |-> "team"])
Fixed(v) == App([value |-> v, from |-> ""])

TeamRule == [names |-> {shop, infra}, labels |-> [k \in K8sKey |-> "x"], managed |-> TRUE,
             assign |-> FromTeam, mode |-> "idle"]
AllRule == [names |-> {shop, infra}, labels |-> NoLabels, managed |-> TRUE,
            assign |-> Fixed("y"), mode |-> "selective"]
(* A rule that names a key and gives it no value. *)
KeyRule == [TeamRule EXCEPT
              !.assign = @ @@ [k \in {"env"} |-> [value |-> "", from |-> ""]]]
NoSystem == [manage |-> FALSE, names |-> {}, labels |-> NoLabels, mode |-> ""]
InfraSystem == [manage |-> TRUE, names |-> {infra}, mode |-> "full",
                labels |-> [k \in {"env"} |-> ""]]

(* By team at first; then every namespace, and infra with a label of its own   *)
(* whose value was left empty, which the PCE refuses.                          *)
SpecsTwo == <<[rules |-> <<KeyRule>>, sys |-> NoSystem],
              [rules |-> <<TeamRule, AllRule>>, sys |-> InfraSystem]>>
SpecsOne == <<[rules |-> <<TeamRule>>, sys |-> NoSystem]>>

InShop == [x \in CR |-> shop]
(* One of them carries an enforcement annotation that is no mode. *)
MetasTwo == shop :> {OfTeam("x"), [OfTeam("y") EXCEPT !.managed = "true"],
                     [OfTeam("x") EXCEPT !.enforcement = "typo"]} @@ infra :> {Nothing}
MetasNone == shop :> {Nothing} @@ infra :> {Nothing}
(* An administrator turns management off, or labels a CWP by hand. *)
ConsoleTwo == {FreshCWP, [FreshCWP EXCEPT !.labels = Of("x")]}
NoBadPairs == {}
NoMaps == {{}}
MapsEnv == {{}, {"env"}}
BadInfra == {<<k, "">> : k \in Key}
=============================================================================
