----------------------------- MODULE PolicyRules -----------------------------
(* What one generation of a policy CR compiles to: the pure part of            *)
(* resolveAllows and BuildRules, shared by the promise (PolicyPromise) and the *)
(* detailed lifecycle (PolicyLifecycle).                                       *)
EXTENDS Naturals, Sequences, FiniteSets

CONSTANTS
  CR,         \* the custom resources, one UID each
  Label,      \* PCE labels (a key=value pair is one value)
  Port,       \* port numbers with their protocol number
  InitLabels, \* the labels the PCE knows at first; it never forgets one
  Mode,       \* resolved unknownLabelMode: "strict", "skip" or "create"
  SpecOf      \* SpecOf[c][g]: the spec of c at generation g, already lowered

(* An allow entry and the spec of one generation.  from = {} stands for the    *)
(* All Workloads consumer, ports = {} for the service All Services; intra      *)
(* marks a consumer within the scope of the ruleset (an intra-scope rule).     *)
Allow == [from : SUBSET Label, intra : BOOLEAN, ports : SUBSET Port]
PolicySpec == [valid : BOOLEAN, to : SUBSET Label, allows : SUBSET Allow]
Rule == [to : SUBSET Label, from : SUBSET Label, intra : BOOLEAN, ports : SUBSET Port]

ASSUME LabelAssumption == InitLabels \subseteq Label
ASSUME ModeAssumption == Mode \in {"strict", "skip", "create"}
ASSUME SpecAssumption ==
  \A c \in CR : SpecOf[c] \in Seq(PolicySpec) /\ Len(SpecOf[c]) > 0

(* The label look-ups resolveAllows makes for a spec. *)
Lookups(s) == {p \in s.allows \X Label : p[2] \in p[1].from}

(* The rules built from the look-ups that gave an href: an allow entry whose   *)
(* consumers are all unresolved is dropped, All Workloads never is.            *)
Kept(s, hit) == {a \in s.allows : a.from = {} \/ \E l \in a.from : <<a, l>> \in hit}
RuleOf(s, a, hit) ==
  [to |-> s.to, from |-> {l \in a.from : <<a, l>> \in hit},
   intra |-> a.intra, ports |-> a.ports]
Rules(s, hit) == {RuleOf(s, a, hit) : a \in Kept(s, hit)}

(* The whole compilations of s: outside skip mode every look-up gave an href;  *)
(* in skip mode at least those of the labels the PCE always knew did.          *)
FullHits(s) ==
  {hit \in SUBSET Lookups(s) :
    /\ Mode # "skip" => hit = Lookups(s)
    /\ {p \in Lookups(s) : p[2] \in InitLabels} \subseteq hit}
Compilations(s) == {Rules(s, hit) : hit \in FullHits(s)}
=============================================================================
