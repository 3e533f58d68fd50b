-------------------------- MODULE PolicyTranslation --------------------------
(* The compiler over all the specs authors may write, whether or not a CR has  *)
(* them.                                                                       *)
EXTENDS PolicyMeaning

CONSTANT Written  \* Written[k]: the specs of kind k

ASSUME WrittenAssumption ==
  Written["intent"] \subseteq IntentSpec /\ Written["policy"] \subseteq NetworkSpec

(* Whatever the compiler accepts it translates without changing what may       *)
(* connect to what, for both front ends: an allow set from one side only, OR   *)
(* between peers and AND between the labels of one, intra-scope and extra-scope*)
(* consumers, implied protocols and empty port lists (CompileIntent,           *)
(* CompilePolicy, protoNumber, BuildRules).  It depends on the spec and on the *)
(* labels the PCE has, and is checked of the labels it has at first.           *)
CompilerKeepsMeaning ==
  Init =>
    \A kind \in {"intent", "policy"} : \A s \in Written[kind] : KeepsMeaning(kind, s, labels)
=============================================================================
