-------------------------- MODULE MCPolicyLifecycle --------------------------
(* Instances of PolicyLifecycle for TLC, their specs written as the CRs are    *)
(* and lowered by the compiler.                                                *)
EXTENDS PolicyMeaning, TLC

CONSTANTS p, q,          \* two CRs
          app, web, env_ \* labels

MCLabels == {app, web, env_}
MCPorts == {6, 17} \X PortNumber
MCSpecs == [c \in CR |-> Lowered(c)]

OneKind == p :> "intent"
TwoKinds == (p :> "intent") @@ (q :> "policy")

Db == {<<"", 5432>>}
From(from, ports) == [from |-> from, fromIntra |-> {}, ports |-> ports]
Within(from, ports) == [from |-> {}, fromIntra |-> from, ports |-> ports]
Intent(provider, allow) == [provider |-> provider, allow |-> allow, allowIntra |-> FALSE]

(* Two generations whose rule sets differ in every rule and whose union and    *)
(* intersection are neither; a label that may be unknown beside one that is    *)
(* known; two labels of one consumer, one of them unknown at first; a          *)
(* generation that does not compile between two that do.                       *)
Replace == <<[Intent({}, {From({env_}, Db)}) EXCEPT !.allowIntra = TRUE],
             Intent({app}, {From({env_}, {})})>>
Late == <<Intent({}, {From({web}, Db), From({env_}, {})})>>
Pair == <<Intent({}, {From({web, env_}, Db)})>>
Simple == <<Intent({}, {From({env_}, Db)})>>
Typo == <<Replace[1], Intent({}, {}), Replace[2]>>

SourceReplace == p :> Replace
SourceLate == p :> Late
SourcePair == p :> Pair
SourceSimple == p :> Simple
SourceTypo == p :> Typo
=============================================================================
