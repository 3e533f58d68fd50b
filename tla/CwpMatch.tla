------------------------------ MODULE CwpMatch ------------------------------
(* What the operator wants a namespace's Container Workload Profile (CWP) to   *)
(* be: the pure part of the namespace reconcile, ComputeDesiredCWP and the     *)
(* strictest-wins rule.  Labels are maps that hold some of the keys, as the     *)
(* profile's are: a key may be there without a value.  "" stands for an empty  *)
(* value, an absent mode and an absent Kubernetes label, which read alike.     *)
EXTENDS Naturals, Sequences, FiniteSets

CONSTANTS
  Namespace, \* Kubernetes namespaces
  K8sKey,    \* Kubernetes label keys the rules look at
  Key,       \* Illumio label keys
  Value      \* label values, Kubernetes' and Illumio's; "" is not one

ASSUME ValueAssumption == "" \notin Value

Modes == {"", "idle", "visibility_only", "selective", "full"}
(* An annotation carries any string: "typo" is one that is no mode. *)
AnyMode == Modes \cup {"typo"}

Partial(S, T) == UNION {[K -> T] : K \in SUBSET S}
Labels == Partial(Key, Value \cup {""})
K8sLabels == [K8sKey -> Value \cup {""}]
NoLabels == [k \in {} |-> ""]

(* The metadata of a namespace; managed is "" without the annotation. *)
Meta == [labels : K8sLabels, managed : {"", "true", "false"},
         enforcement : AnyMode, assign : Labels]

(* A glob is the set of namespaces it matches. *)
Assignment == [value : Value \cup {""}, from : K8sKey \cup {""}]
Rule == [names : SUBSET Namespace, labels : Partial(K8sKey, Value \cup {""}),
         managed : BOOLEAN, assign : Partial(Key, Assignment), mode : Modes]
System == [manage : BOOLEAN, names : SUBSET Namespace, labels : Labels, mode : Modes]
Desired == [managed : BOOLEAN, labels : Labels, mode : AnyMode]

-----------------------------------------------------------------------------
RuleMatches(r, n, m) ==
  /\ n \in r.names
  /\ \A k \in DOMAIN r.labels : m.labels[k] = r.labels[k]

(* A key that comes out without a value is left out. *)
Assigned(a, m) ==
  IF a.value # "" THEN a.value ELSE IF a.from # "" THEN m.labels[a.from] ELSE ""
AssignLabels(r, m) ==
  [k \in {x \in DOMAIN r.assign : Assigned(r.assign[x], m) # ""} |-> Assigned(r.assign[k], m)]

Unmanaged == [managed |-> FALSE, labels |-> NoLabels, mode |-> ""]

(* The first rule that matches decides. *)
ByRules(n, m, rules) ==
  LET hits == {i \in DOMAIN rules : RuleMatches(rules[i], n, m)} IN
  IF hits = {} THEN Unmanaged
  ELSE LET r == rules[CHOOSE i \in hits : \A j \in hits : i <= j] IN
       [managed |-> r.managed, labels |-> AssignLabels(r, m), mode |-> r.mode]

BySystem(n, sys, d) ==
  IF sys.manage /\ n \in sys.names
  THEN [managed |-> TRUE, labels |-> sys.labels, mode |-> sys.mode] ELSE d

(* An annotation without a value overrides nothing. *)
Given(m) == {k \in DOMAIN m.assign : m.assign[k] # ""}
Override(m, d) ==
  [managed |-> IF m.managed = "" THEN d.managed ELSE m.managed = "true",
   labels  |-> [k \in DOMAIN d.labels \cup Given(m) |->
                IF k \in Given(m) THEN m.assign[k] ELSE d.labels[k]],
   mode    |-> IF m.enforcement # "" THEN m.enforcement ELSE d.mode]

(* The PCE refuses a managed profile that is idle. *)
Floor(d) ==
  IF d.managed /\ d.mode \in {"", "idle"} THEN [d EXCEPT !.mode = "visibility_only"] ELSE d

DesiredCWP(n, m, spec) == Floor(Override(m, BySystem(n, spec.sys, ByRules(n, m, spec.rules))))

-----------------------------------------------------------------------------
Rank(mode) ==
  CASE mode = "idle" -> 1 [] mode = "visibility_only" -> 2
    [] mode = "selective" -> 3 [] mode = "full" -> 4 [] OTHER -> 0

Strictest(modes) ==
  LET known == {x \in modes : Rank(x) > 0} IN
  IF known = {} THEN "" ELSE CHOOSE x \in known : \A y \in known : Rank(y) <= Rank(x)

(* The baseline raised by the requests of a namespace's policy CRs.  Without   *)
(* any CR it is left as it is, with one a baseline that is no mode is dropped. *)
Effective(baseline, requests) ==
  IF requests = {} THEN baseline ELSE Strictest({baseline} \cup requests)
=============================================================================
