---------------------------- MODULE PolicyCompile ----------------------------
(* The policy compiler: what a SegmentationIntent or a SegmentationPolicy as   *)
(* its author wrote it is lowered to (CompileIntent, CompilePolicy), and what  *)
(* both sides mean.  A meaning is a set of connections <<u, v, p>>: a workload *)
(* with labels u may reach one with labels v on port p.                        *)
EXTENDS PolicyRules

CONSTANT PortNumber

ASSUME PortAssumption == Port = {6, 17} \X PortNumber

(* A port as written: the protocol, "" where none is given, and the number. *)
SourcePort == {"", "TCP", "UDP"} \X PortNumber

(* protoNumber: everything but UDP is TCP. *)
Services(ports) == {<<IF q[1] = "UDP" THEN 17 ELSE 6, q[2]>> : q \in ports}

-----------------------------------------------------------------------------
(* SegmentationIntent *)

IntentAllow == [from : SUBSET Label, fromIntra : SUBSET Label, ports : SUBSET SourcePort]
IntentSpec == [provider : SUBSET Label, allow : SUBSET IntentAllow, allowIntra : BOOLEAN]

(* An allow sets exactly one of from and fromIntraNamespace; an empty map is   *)
(* not set.                                                                    *)
WellFormedAllow(a) == (a.from = {}) # (a.fromIntra = {})

LowerAllow(a) ==
  [from |-> a.from \cup a.fromIntra, intra |-> a.from = {}, ports |-> Services(a.ports)]

AnyInScope == [from |-> {}, intra |-> TRUE, ports |-> {}]

CompileIntent(s) ==
  [valid |-> (s.allowIntra \/ s.allow # {}) /\ \A a \in s.allow : WellFormedAllow(a),
   to |-> s.provider,
   allows |-> {LowerAllow(a) : a \in s.allow}
              \cup (IF s.allowIntra THEN {AnyInScope} ELSE {})]

-----------------------------------------------------------------------------
(* SegmentationPolicy, the NetworkPolicy subset.  set: the pointer is not nil; *)
(* exprs: matchExpressions are given.                                          *)

Selector == [set : BOOLEAN, match : SUBSET Label, exprs : BOOLEAN]
Peer == [pod : Selector, ns : Selector]
Ingress == [from : SUBSET Peer, ports : SUBSET SourcePort]
NetworkSpec == [pod : Selector, ingress : SUBSET Ingress, types : SUBSET {"Ingress", "Egress"}]

SupportedPeer(q) ==
  /\ q.pod.set # q.ns.set
  /\ q.pod.set => ~ q.pod.exprs
  /\ q.ns.set => ~ q.ns.exprs /\ q.ns.match # {}

(* Mutant: the selector is lowered as if it were always a namespaceSelector. *)
LowerPeer_Unscoped(q, ports) ==
  [from |-> IF q.pod.set THEN q.pod.match ELSE q.ns.match, intra |-> FALSE,
   ports |-> Services(ports)]
LowerPeer(q, ports) ==
  [from |-> IF q.pod.set THEN q.pod.match ELSE q.ns.match, intra |-> q.pod.set,
   ports |-> Services(ports)]

(* Mutant: the peers of a list are merged into one consumer. *)
LowerIngress_Merged(i) ==
  {[from |-> UNION {q.pod.match \cup q.ns.match : q \in i.from},
    intra |-> \E q \in i.from : q.pod.set, ports |-> Services(i.ports)]}
LowerIngress(i) == {LowerPeer(q, i.ports) : q \in i.from}

CompilePolicy(s) ==
  [valid |-> /\ s.types \subseteq {"Ingress"} /\ ~ s.pod.exprs
             /\ \A i \in s.ingress : i.from # {} /\ \A q \in i.from : SupportedPeer(q),
   to |-> s.pod.match,
   allows |-> UNION {LowerIngress(i) : i \in s.ingress}]

Compile(kind, s) == IF kind = "intent" THEN CompileIntent(s) ELSE CompilePolicy(s)

-----------------------------------------------------------------------------
(* Meaning *)

Workload == SUBSET Label
Connection == Workload \X Workload \X Port

(* What an enabled ruleset with scope sc permits at the PCE: the providers are *)
(* always in scope, the consumers when unscoped_consumers is false; the labels *)
(* of an actor list have different keys and all have to match.                 *)
RulePermits(sc, r, x) ==
  /\ sc \cup r.to \subseteq x[2] /\ r.from \subseteq x[1]
  /\ r.intra => sc \subseteq x[1]
  /\ r.ports = {} \/ x[3] \in r.ports
Permitted(sc, rules) == {x \in Connection : \E r \in rules : RulePermits(sc, r, x)}

(* The ports as their author means them: none is all of them, TCP is implied.  *)
OnPort(ports, p) ==
  \/ ports = {}
  \/ \E q \in ports : q[2] = p[2] /\ (IF q[1] = "UDP" THEN p[1] = 17 ELSE p[1] = 6)

(* What the author of an intent grants: a from is a cross-app consumer, a      *)
(* fromIntraNamespace one within the namespace's scope, allowIntraNamespace    *)
(* everything within it, all of it to the provider.                            *)
IntentGrants(s, sc, x) ==
  /\ sc \cup s.provider \subseteq x[2]
  /\ \/ s.allowIntra /\ sc \subseteq x[1]
     \/ \E a \in s.allow :
          /\ OnPort(a.ports, x[3])
          /\ IF a.from # {} THEN a.from \subseteq x[1]
                            ELSE sc \cup a.fromIntra \subseteq x[1]

(* What the author of a policy grants: any one peer of a list may connect, a   *)
(* podSelector selects within the namespace, a namespaceSelector anywhere.     *)
Selects(q, sc, w) == IF q.ns.set THEN q.ns.match \subseteq w ELSE sc \cup q.pod.match \subseteq w
PolicyGrants(s, sc, x) ==
  /\ sc \cup s.pod.match \subseteq x[2]
  /\ \E i \in s.ingress : OnPort(i.ports, x[3]) /\ \E q \in i.from : Selects(q, sc, x[1])

Granted(kind, s, sc) ==
  {x \in Connection : IF kind = "intent" THEN IntentGrants(s, sc, x) ELSE PolicyGrants(s, sc, x)}

(* The rules built for s when the PCE knows known mean, in every scope, what s *)
(* grants.                                                                     *)
KeepsMeaning(kind, s, known) ==
  LET low == Compile(kind, s)
      hit == {p \in Lookups(low) : p[2] \in known} IN
  low.valid /\ hit = Lookups(low) =>
    \A sc \in SUBSET known \ {{}} : Permitted(sc, Rules(low, hit)) = Granted(kind, s, sc)
=============================================================================
