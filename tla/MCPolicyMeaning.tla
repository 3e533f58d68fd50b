--------------------------- MODULE MCPolicyMeaning ---------------------------
(* An intent and a policy that mint the same label, the intent also the one    *)
(* the policy narrows to, and the compiler over all small specs.               *)
EXTENDS MCPolicyLifecycle, PolicyTranslation

Nil == [set |-> FALSE, match |-> {}, exprs |-> FALSE]
Match(labs) == [set |-> TRUE, match |-> labs, exprs |-> FALSE]
Pod(labs) == [pod |-> Match(labs), ns |-> Nil]
Ns(labs) == [pod |-> Nil, ns |-> Match(labs)]
Policy(pod, ingress) == [pod |-> Match(pod), ingress |-> ingress, types |-> {"Ingress"}]

Mint == <<Intent({}, {Within({web, env_}, {})})>>
Net == <<Policy({web}, {[from |-> {Pod({}), Ns({env_})}, ports |-> Db]})>>
SourceMint == (p :> Mint) @@ (q :> Net)

(* All intents with up to two allows over two labels, all policies with up to  *)
(* two peers in a list and a second list beside it.                            *)
Labs == SUBSET {app, env_}
Ports == {{}, {<<"", 5432>>}, {<<"TCP", 5432>>, <<"UDP", 5432>>}}
UpToTwo(S) == {{}} \cup {{x, y} : x \in S, y \in S}
Intents == [provider : {{}, {app}}, allowIntra : BOOLEAN,
            allow : UpToTwo([from : Labs, fromIntra : Labs, ports : Ports])]
Selectors == {Nil, [Match({app}) EXCEPT !.exprs = TRUE]} \cup {Match(labs) : labs \in Labs}
Lists == [from : UpToTwo([pod : Selectors, ns : Selectors]), ports : Ports]
Policies == [pod : {Nil, Match({app})}, types : {{}, {"Ingress"}, {"Ingress", "Egress"}},
             ingress : {{x, y} : x \in Lists, y \in {[from |-> {Ns({app})}, ports |-> {}]}}
                       \cup {{x} : x \in Lists} \cup {{}}]
MCWritten == [intent |-> Intents, policy |-> Policies]
=============================================================================
