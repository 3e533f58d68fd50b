----------------------- MODULE NamespaceProfiles_proofs -----------------------
(* Proofs about NamespaceProfiles, for every set of namespaces, every history  *)
(* of the profile and every bound on faults and changes.                       *)
EXTENDS NamespaceProfiles, FiniteSetTheorems, SequenceTheorems,
        WellFoundedInduction, TLAPS

-----------------------------------------------------------------------------
(* Definitions of the invariants *)

(* A reconcile nobody woke up again works on the generation there is.          *)
Current == wk.pc # "idle" /\ ~ queued => wk.gen = gen

(* A pass works on a generation there was and starts with nothing counted; a   *)
(* namespace whose labels are ensured has a CWP and is still to do; a clean    *)
(* pass has done all of them.                                                  *)
Passing ==
  /\ wk.pc # "idle" => wk.gen \in 1..Len(Specs)
  /\ wk.pc = "list" => wk.managed = {}
  /\ wk.pc = "labels" => wk.ns \in wk.todo /\ wk.listed[wk.ns].exists
  /\ wk.pc = "clean" => wk.todo = {} /\ ~ wk.errs

(* A pass nobody woke up again, without an error so far, knows what is wanted  *)
(* of each namespace and of what is to do what the PCE has; what is done is    *)
(* applied and counted.  Nothing is said of a CWP somebody else touched.       *)
Good ==
  /\ \A n \in Namespace : wk.base[n] = DesiredCWP(n, meta[n], Specs[gen])
  /\ wk.pc = "labels" => wk.want = Wanted(wk.ns)
  /\ \A n \in Namespace \ drift : cwp[n].exists <=> wk.listed[n].exists
  /\ \A n \in wk.todo \ drift : cwp[n] = wk.listed[n]
  /\ \A n \in Namespace \ wk.todo :
       /\ n \notin drift /\ cwp[n].exists => Applied(n)
       /\ n \in wk.managed <=> wk.listed[n].exists /\ Wanted(n).managed
  /\ wk.managed \cap wk.todo = {}
Working ==
  wk.pc \in {"namespace", "labels", "clean"} /\ ~ queued /\ ~ wk.errs => Good

-----------------------------------------------------------------------------
(* Types of what the profile asks *)

(* A generation of the profile has well-formed rules and system namespaces.    *)
LEMMA SpecType ==
  ASSUME NEW g \in 1..Len(Specs)
  PROVE  Specs[g].rules \in Seq(Rule) /\ Specs[g].sys \in System
<1>1. Specs[g] \in [rules : Seq(Rule), sys : System]
  BY SpecsAssumption, ElementOfSeq
<1> QED BY <1>1

(* The profile has a last generation. *)
LEMMA Generations == Len(Specs) \in Nat /\ Len(Specs) > 0
BY SpecsAssumption, LenProperties

(* Of the rules that match there is a first one. *)
LEMMA FirstHit ==
  ASSUME NEW S \in SUBSET Nat, S # {}
  PROVE  \E i \in S : \A j \in S : i <= j
<1>1. PICK i \in S : \A j \in S : ~ (<<j, i>> \in OpToRel(<, Nat))
  BY WFMin, NatLessThanWellFounded
<1>2. \A j \in S : ~ (j < i)
  BY <1>1 DEF OpToRel
<1> QED BY <1>2

(* No labels at all are labels. *)
LEMMA NoLabelsType == NoLabels \in Labels
<1>1. NoLabels \in [{} -> Value \cup {""}] /\ {} \in SUBSET Key
  BY DEF NoLabels
<1> QED BY <1>1 DEF Labels, Partial

(* So is a map from some of the keys to values. *)
LEMMA LabelsType ==
  ASSUME NEW K \in SUBSET Key, NEW f \in [K -> Value \cup {""}]
  PROVE  f \in Labels
BY DEF Labels, Partial

(* And labels are such a map. *)
LEMMA LabelsParts ==
  ASSUME NEW f \in Labels
  PROVE  DOMAIN f \in SUBSET Key /\ \A k \in DOMAIN f : f[k] \in Value \cup {""}
<1>1. PICK K \in SUBSET Key : f \in [K -> Value \cup {""}]
  BY DEF Labels, Partial
<1> QED BY <1>1

(* What the rules ask of a namespace is well-formed. *)
LEMMA ByRulesType ==
  ASSUME NEW n \in Namespace, NEW m \in Meta, NEW rules \in Seq(Rule)
  PROVE  ByRules(n, m, rules) \in Desired
<1>1. Unmanaged \in Desired
  BY NoLabelsType DEF Unmanaged, Desired, AnyMode, Modes
<1> DEFINE hits == {i \in DOMAIN rules : RuleMatches(rules[i], n, m)}
           first == CHOOSE i \in hits : \A j \in hits : i <= j
<1>2. CASE hits = {}
  BY <1>1, <1>2 DEF ByRules
<1>3. CASE hits # {}
  <2>1. hits \in SUBSET Nat
    BY LenProperties
  <2>2. first \in hits
    <3> HIDE DEF hits
    <3> QED BY <1>3, <2>1, FirstHit
  <2>3. rules[first] \in Rule
    <3> HIDE DEF first
    <3>1. first \in 1..Len(rules)
      BY <2>2, LenProperties
    <3> QED BY <3>1, ElementOfSeq
  <2>4. AssignLabels(rules[first], m) \in Labels
    <3> HIDE DEF first
    <3>1. PICK K \in SUBSET Key : rules[first].assign \in [K -> Assignment]
      BY <2>3 DEF Rule, Partial
    <3>2. \A k \in K8sKey : m.labels[k] \in Value \cup {""}
      BY DEF Meta, K8sLabels
    <3>3. \A a \in Assignment : Assigned(a, m) \in Value \cup {""}
      BY <3>2 DEF Assigned, Assignment
    <3> DEFINE L == {x \in DOMAIN rules[first].assign :
                       Assigned(rules[first].assign[x], m) # ""}
    <3>4. L \in SUBSET Key /\ \A k \in L : rules[first].assign[k] \in Assignment
      BY <3>1
    <3>5. AssignLabels(rules[first], m) = [k \in L |-> Assigned(rules[first].assign[k], m)]
      BY DEF AssignLabels
    <3> HIDE DEF L
    <3>6. AssignLabels(rules[first], m) \in [L -> Value \cup {""}]
      BY <3>3, <3>4, <3>5
    <3> QED BY <3>4, <3>6, LabelsType
  <2>5. ByRules(n, m, rules) = [managed |-> rules[first].managed,
          labels |-> AssignLabels(rules[first], m), mode |-> rules[first].mode]
    BY <1>3 DEF ByRules
  <2> HIDE DEF first
  <2>6. rules[first].managed \in BOOLEAN /\ rules[first].mode \in Modes
    BY <2>3 DEF Rule
  <2> QED BY <2>4, <2>5, <2>6 DEF Desired, AnyMode
<1> QED BY <1>2, <1>3

(* What the profile and the metadata ask is well-formed. *)
LEMMA DesiredType ==
  ASSUME NEW n \in Namespace, NEW m \in Meta,
         NEW spec, spec.rules \in Seq(Rule), spec.sys \in System
  PROVE  DesiredCWP(n, m, spec) \in Desired
<1>1. ASSUME NEW d \in Desired PROVE BySystem(n, spec.sys, d) \in Desired
  BY <1>1 DEF BySystem, Desired, System, AnyMode
<1>2. ASSUME NEW d \in Desired PROVE Override(m, d) \in Desired
  <2> DEFINE K == DOMAIN d.labels \cup Given(m)
             f == [k \in K |-> IF k \in Given(m) THEN m.assign[k] ELSE d.labels[k]]
  <2>3. d.labels \in Labels /\ m.assign \in Labels
    BY <1>2 DEF Desired, Meta
  <2>4. /\ DOMAIN d.labels \in SUBSET Key
        /\ \A k \in DOMAIN d.labels : d.labels[k] \in Value \cup {""}
    BY <2>3, LabelsParts
  <2>5. Given(m) \in SUBSET Key /\ \A k \in Given(m) : m.assign[k] \in Value \cup {""}
    BY <2>3, LabelsParts DEF Given
  <2>1. f \in Labels
    <3>1. K \in SUBSET Key /\ f \in [K -> Value \cup {""}]
      BY <2>4, <2>5
    <3> HIDE DEF K, f
    <3> QED BY <3>1, LabelsType
  <2>2. /\ (IF m.managed = "" THEN d.managed ELSE m.managed = "true") \in BOOLEAN
        /\ (IF m.enforcement # "" THEN m.enforcement ELSE d.mode) \in AnyMode
    BY <1>2 DEF Desired, Meta
  <2> QED BY <2>1, <2>2, Zenon DEF Override, Desired
<1>3. ASSUME NEW d \in Desired PROVE Floor(d) \in Desired
  BY <1>3 DEF Floor, Desired, AnyMode, Modes
<1> QED BY <1>1, <1>2, <1>3, ByRulesType DEF DesiredCWP

(* The strictest of some modes is one of them, or none. *)
LEMMA StrictestType ==
  ASSUME NEW S
  PROVE  Strictest(S) \in {"", "idle", "visibility_only", "selective", "full"}
<1> DEFINE ranked == {x \in S : Rank(x) > 0}
           top == CHOOSE x \in ranked : \A y \in ranked : Rank(y) <= Rank(x)
<1>1. \A x : Rank(x) \in 0..4
  BY DEF Rank
<1>2. \A x : Rank(x) > 0 => x \in {"idle", "visibility_only", "selective", "full"}
  BY DEF Rank
<1>3. CASE ranked = {}
  BY <1>3 DEF Strictest
<1>4. CASE ranked # {}
  <2>1. \E x \in ranked : \A y \in ranked : Rank(y) <= Rank(x)
    <3>1. CASE \E x \in ranked : Rank(x) = 4
      BY <1>1, <3>1
    <3>2. CASE (\E x \in ranked : Rank(x) = 3) /\ (\A x \in ranked : Rank(x) # 4)
      BY <1>1, <3>2
    <3>3. CASE (\E x \in ranked : Rank(x) = 2) /\ (\A x \in ranked : Rank(x) \notin {3, 4})
      BY <1>1, <3>3
    <3>4. CASE \A x \in ranked : Rank(x) \notin {2, 3, 4}
      BY <1>1, <1>4, <3>4
    <3> QED BY <3>1, <3>2, <3>3, <3>4
  <2>2. top \in ranked
    BY <2>1
  <2>3. Strictest(S) = top
    BY <1>4 DEF Strictest
  <2> HIDE DEF top
  <2> QED BY <1>2, <2>2, <2>3
<1> QED BY <1>3, <1>4

(* So is what the policy CRs of a namespace raise it to. *)
LEMMA RaisedType ==
  ASSUME NEW n, NEW d \in Desired
  PROVE  Raised(n, d) \in Desired
<1>1. \A R : Effective(d.mode, R) \in AnyMode
  BY StrictestType DEF Effective, Desired, AnyMode, Modes
<1> QED BY <1>1 DEF Raised, Desired

-----------------------------------------------------------------------------
(* Type correctness *)

(* The parts of the types of a status and of a reconcile. *)
LEMMA Parts ==
  ASSUME TypeOK
  PROVE  /\ status.onboarded \in BOOLEAN /\ status.reconciled \in {"none", "True", "False"}
         /\ wk.gen \in 0..Len(Specs) /\ wk.base \in [Namespace -> Desired]
         /\ wk.listed \in [Namespace -> CWP] /\ wk.todo \in SUBSET Namespace
         /\ wk.want \in Desired /\ wk.errs \in BOOLEAN /\ wk.managed \in SUBSET Namespace
         /\ wk.overlap \in {"none", "True", "False"}
         /\ wk.ns \in Namespace \cup {NoNamespace} /\ wk.cache \in SUBSET Pair
<1>1. status \in Status /\ wk \in Worker
  BY DEF TypeOK
<1> QED BY <1>1 DEF Status, Worker

(* What is absent is well-formed. *)
LEMMA Absent ==
  Unmanaged \in Desired /\ NoCWP \in CWP /\ FreshCWP \in CWP /\ Idle \in Worker
<1>1. Unmanaged \in Desired
  BY NoLabelsType DEF Unmanaged, Desired, AnyMode, Modes
<1>2. NoCWP \in CWP
  BY NoLabelsType DEF NoCWP, CWP, Modes
<1>3. FreshCWP \in CWP
  BY <1>2 DEF FreshCWP, CWP, Modes
<1>4. 0 \in 0..Len(Specs)
  <2>1. Len(Specs) \in Nat
    BY Generations
  <2> QED BY <2>1
<1>5. Idle \in Worker
  BY <1>1, <1>2, <1>4 DEF Idle, Worker
<1> QED BY <1>1, <1>2, <1>3, <1>5

(* What a status counts is in its range. *)
LEMMA Counted ==
  ASSUME TypeOK
  PROVE  Count \in 0..Cardinality(Namespace)
<1>1. wk.managed \in SUBSET Namespace /\ IsFiniteSet(Namespace)
  BY Parts, InputAssumption
<1>2. Cardinality(Namespace) \in Nat /\ Cardinality(wk.managed) \in Nat
      /\ Cardinality(wk.managed) <= Cardinality(Namespace)
  BY <1>1, FS_Subset, FS_CardinalityType
<1> QED BY <1>2 DEF Count

(* A pass over the namespaces keeps the type of the reconcile. *)
LEMMA NextTyped ==
  ASSUME NEW w \in Worker
  PROVE  /\ NextNamespace(w) \in Worker /\ Failed(w) \in Worker
         /\ (w.ns \in Namespace => Confirmed(w) \in Worker)
<1>1. ASSUME NEW v \in Worker PROVE NextNamespace(v) \in Worker
  BY Absent DEF NextNamespace, Worker
<1>2. [w EXCEPT !.errs = TRUE] \in Worker
  BY DEF Worker
<1>3. w.ns \in Namespace
      => [w EXCEPT !.managed = IF w.want.managed THEN @ \cup {w.ns} ELSE @] \in Worker
  BY DEF Worker
<1> QED BY <1>1, <1>2, <1>3 DEF Failed, Confirmed

(* A lost call or a change leaves its bound in range. *)
LEMMA BoundsTyped ==
  ASSUME TypeOK
  PROVE  /\ Spend \/ UNCHANGED faults => faults' \in 0..MaxFaults
         /\ Change \/ UNCHANGED changes => changes' \in 0..MaxChanges
BY InputAssumption DEF TypeOK, Spend, Change

Stays == UNCHANGED <<kube, changes>> /\ drift' \in SUBSET Namespace

(* A reconcile that goes on. *)
LEMMA GoTyped ==
  ASSUME TypeOK, Stays, NEW w \in Worker, Continue(w), Spend \/ UNCHANGED faults,
         cwp' \in [Namespace -> CWP], known' \in SUBSET Pair
  PROVE  TypeOK'
<1>1. faults' \in 0..MaxFaults
  BY BoundsTyped
<1>2. wk' \in Worker /\ UNCHANGED <<queued, timer, status>>
  BY DEF Continue, wake
<1> QED BY <1>1, <1>2 DEF TypeOK, Stays, kube

(* A reconcile that ends, with or without a status. *)
LEMMA EndTyped ==
  ASSUME TypeOK, Stays, Backoff \/ Requeue, Spend \/ UNCHANGED faults,
         status' \in Status, UNCHANGED pce
  PROVE  TypeOK'
<1>1. faults' \in 0..MaxFaults
  BY BoundsTyped
<1>2. wk' \in Worker
  BY Absent DEF Backoff, Requeue
<1>3. queued' \in BOOLEAN /\ timer' \in BOOLEAN
  <2>1. CASE Backoff
    BY <2>1 DEF Backoff, TypeOK
  <2>2. CASE Requeue
    BY <2>2, Zenon DEF Requeue, TypeOK
  <2> QED BY <2>1, <2>2
<1> QED BY <1>1, <1>2, <1>3 DEF TypeOK, Stays, kube, pce

(* One that writes its status. *)
LEMMA PersistTyped ==
  ASSUME TypeOK, Stays, NEW new \in Status, UNCHANGED pce,
         Persist(new, Requeue) \/ Persist(new, Backoff)
  PROVE  TypeOK'
<1>1. status \in Status
  BY DEF TypeOK
<1> QED BY <1>1, EndTyped DEF Persist

(* The statuses a reconcile writes have their type. *)
LEMMA StatusesTyped ==
  ASSUME TypeOK
  PROVE  /\ [status EXCEPT !.onboarded = FALSE, !.obs = wk.gen] \in Status
         /\ [status EXCEPT !.onboarded = TRUE, !.reconciled = "False", !.managed = Count] \in Status
         /\ [onboarded |-> TRUE, reconciled |-> "True", managed |-> Count,
             obs |-> wk.gen, overlap |-> wk.overlap] \in Status
<1>1. status \in Status
  BY DEF TypeOK
<1>2. /\ wk.gen \in 0..Len(Specs) /\ wk.overlap \in {"none", "True", "False"}
      /\ Count \in 0..Cardinality(Namespace)
  BY Parts, Counted
<1> QED BY <1>1, <1>2 DEF Status

(* A namespace's turn keeps the type of the reconcile. *)
LEMMA TurnTyped ==
  ASSUME TypeOK, NEW n \in Namespace, NEW want \in Desired, NEW errs \in BOOLEAN
  PROVE  Turn(n, want, errs) \in Worker
<1> DEFINE w == [wk EXCEPT !.ns = n, !.want = want, !.errs = errs]
<1>1. w \in Worker /\ [w EXCEPT !.pc = "labels"] \in Worker
  BY DEF TypeOK, Worker
<1>2. Turn(n, want, errs) \in {NextNamespace(w), [w EXCEPT !.pc = "labels"]}
  BY DEF Turn
<1> HIDE DEF w
<1> QED BY <1>1, <1>2, NextTyped

(* What becomes of a CWP the PCE takes is one. *)
LEMMA UpdatedTyped ==
  ASSUME NEW c \in CWP, NEW d \in Desired, Acceptable(Updated(c, d))
  PROVE  Updated(c, d) \in CWP
<1>1. /\ c.exists \in BOOLEAN /\ d.managed \in BOOLEAN /\ d.labels \in Labels
  BY DEF CWP, Desired
<1> DEFINE m == IF d.managed /\ d.mode # "" THEN d.mode ELSE c.mode
           u == [c EXCEPT !.managed = d.managed, !.labels = d.labels, !.mode = m]
<1>2. Updated(c, d) = u
  BY DEF Updated
<1>3. u.mode = m
  <2> HIDE DEF m
  <2> QED BY DEF CWP
<1>4. m \in Modes
  BY <1>2, <1>3 DEF Acceptable
<1> HIDE DEF m
<1> QED BY <1>1, <1>2, <1>4 DEF CWP

(* Every step of the reconcile keeps the types. *)
LEMMA ReconcileTyped ==
  ASSUME TypeOK, Passing, Reconcile
  PROVE  TypeOK'
<1>1. /\ wk \in Worker /\ status \in Status /\ drift \in SUBSET Namespace
      /\ cwp \in [Namespace -> CWP] /\ known \in SUBSET Pair
      /\ meta \in [Namespace -> Meta] /\ gen \in 1..Len(Specs)
  BY DEF TypeOK
<1>2. CASE Begin
  <2>1. wk' \in Worker
    <3>1. gen \in 0..Len(Specs)
      <4>1. Len(Specs) \in Nat
        BY Generations
      <4> QED BY <1>1, <4>1
    <3>2. [Idle EXCEPT !.pc = "list", !.gen = gen] \in Worker
      BY <3>1, Absent DEF Worker
    <3> QED BY <1>2, <3>2 DEF Begin
  <2> QED BY <1>2, <2>1 DEF Begin, TypeOK, kube, pce
<1>3. CASE NotReady
  BY <1>1, <1>3, PersistTyped, StatusesTyped DEF NotReady, Stays
<1>4. CASE PrefixFails
  BY <1>1, <1>4, EndTyped DEF PrefixFails, Stays
<1>5. CASE List
  <2> DEFINE w == [wk EXCEPT !.pc = "namespace", !.todo = Namespace, !.listed = cwp,
                     !.base = [n \in Namespace |-> DesiredCWP(n, meta[n], Specs[wk.gen])]]
  <2>1. wk.gen \in 1..Len(Specs)
    BY <1>5 DEF List, Passing
  <2>2. \A n \in Namespace : DesiredCWP(n, meta[n], Specs[wk.gen]) \in Desired
    BY <1>1, <2>1, SpecType, DesiredType
  <2>3. w \in Worker
    BY <1>1, <2>2 DEF Worker
  <2>4. Continue(w) /\ drift' = {} /\ UNCHANGED <<kube, pce, faults, changes>>
    BY <1>5 DEF List
  <2> HIDE DEF w
  <2> QED BY <1>1, <2>3, <2>4, GoTyped DEF Stays, pce
<1>6. CASE ListFails
  <2>1. [wk EXCEPT !.pc = "namespace", !.errs = TRUE] \in Worker
    BY <1>1 DEF Worker
  <2> QED BY <1>1, <1>6, <2>1, GoTyped DEF ListFails, Stays, pce
<1>7. CASE UpdateProfile
  <2> DEFINE new == Updated(cwp[wk.ns], wk.want)
  <2>1. wk.pc = "labels" /\ UNCHANGED <<kube, known, drift, changes>>
    BY <1>7 DEF UpdateProfile
  <2>2. PICK w \in {Confirmed(wk), Failed(wk)} :
          /\ Continue(w) /\ (Spend \/ UNCHANGED faults)
          /\ cwp' = cwp \/ (cwp' = [cwp EXCEPT ![wk.ns] = new] /\ Acceptable(new))
    BY <1>7 DEF UpdateProfile
  <2>3. wk.ns \in Namespace /\ wk.want \in Desired
    BY <2>1, Parts DEF Passing
  <2>4. w \in Worker
    BY <1>1, <2>2, <2>3, NextTyped
  <2>5. cwp[wk.ns] \in CWP
    BY <1>1, <2>3
  <2>6. Acceptable(new) => new \in CWP
    BY <2>3, <2>5, UpdatedTyped
  <2> HIDE DEF new
  <2>7. cwp' \in [Namespace -> CWP]
    BY <1>1, <2>2, <2>6
  <2> QED BY <1>1, <2>1, <2>2, <2>4, <2>7, GoTyped DEF Stays
<1>8. CASE WritePartial
  BY <1>1, <1>8, PersistTyped, StatusesTyped DEF WritePartial, Stays
<1>9. CASE CheckOverlap
  <2>1. \A o \in {"True", "False"} : [wk EXCEPT !.pc = "clean", !.overlap = o] \in Worker
    BY <1>1 DEF Worker
  <2>2. PICK o \in {"True", "False"} : /\ Continue([wk EXCEPT !.pc = "clean", !.overlap = o])
                                       /\ Spend \/ UNCHANGED faults
    BY <1>9 DEF CheckOverlap, Overlap
  <2> QED BY <1>1, <1>9, <2>1, <2>2, GoTyped DEF CheckOverlap, Stays, pce
<1>10. CASE WriteClean
  BY <1>1, <1>10, PersistTyped, StatusesTyped DEF WriteClean, Stays
<1>11. ASSUME NEW n \in Namespace, PlanNamespace(n) PROVE TypeOK'
  <2>1. wk.base[n] \in Desired /\ wk.errs \in BOOLEAN
    BY Parts
  <2>2. Raised(n, wk.base[n]) \in Desired
    BY <2>1, RaisedType
  <2>3. \E d \in Desired, e \in BOOLEAN : Continue(Turn(n, d, e)) /\ (Spend \/ UNCHANGED faults)
    BY <1>11, <2>1, <2>2 DEF PlanNamespace
  <2>4. PICK w \in Worker : Continue(w) /\ (Spend \/ UNCHANGED faults)
    BY <2>3, TurnTyped
  <2> QED BY <1>1, <1>11, <2>4, GoTyped DEF PlanNamespace, Stays, pce
<1>12. ASSUME NEW p \in Pair, EnsureLabel(p) PROVE TypeOK'
  <2>1. [wk EXCEPT !.cache = @ \cup {p}] \in Worker /\ Failed(wk) \in Worker
    BY <1>1, NextTyped DEF Worker
  <2>2. PICK w \in Worker : Continue(w) /\ (Spend \/ UNCHANGED faults)
    BY <1>12, <2>1 DEF EnsureLabel
  <2>3. known' \in SUBSET Pair /\ cwp' = cwp
    BY <1>1, <1>12 DEF EnsureLabel
  <2> QED BY <1>1, <1>12, <2>2, <2>3, GoTyped DEF EnsureLabel, Stays
<1> QED BY <1>2, <1>3, <1>4, <1>5, <1>6, <1>7, <1>8, <1>9, <1>10, <1>11, <1>12 DEF Reconcile

(* Everybody else's steps keep the types. *)
LEMMA OthersTyped ==
  ASSUME TypeOK, TimerFire \/ Restart \/ Environment
  PROVE  TypeOK'
<1>1. CASE TimerFire
  BY <1>1 DEF TimerFire, TypeOK, kube, pce
<1>2. CASE Restart
  <2>1. faults' \in 0..MaxFaults /\ wk' \in Worker
    BY <1>2, BoundsTyped, Absent DEF Restart
  <2> QED BY <1>2, <2>1 DEF Restart, TypeOK, kube, pce
<1>3. ASSUME Change, Event PROVE /\ changes' \in 0..MaxChanges /\ queued' = TRUE
                                 /\ UNCHANGED <<cwp, known, timer, wk, status, drift, faults>>
  BY <1>3, BoundsTyped DEF Event, pce
<1>4. ASSUME NEW n \in Namespace, Relabel(n) PROVE TypeOK'
  <2>1. meta' \in [Namespace -> Meta]
    BY <1>4, InputAssumption DEF Relabel, TypeOK
  <2> QED BY <1>3, <1>4, <2>1 DEF Relabel, TypeOK
<1>5. ASSUME NEW c \in CR, WriteCR(c) PROVE TypeOK'
  <2>1. request' \in [CR -> Requests \cup {"none"}]
    BY <1>5 DEF WriteCR, TypeOK
  <2> QED BY <1>3, <1>5, <2>1 DEF WriteCR, TypeOK
<1>6. CASE EditProfile
  <2>1. Len(Specs) \in Nat
    BY Generations
  <2>2. gen' \in 1..Len(Specs)
    BY <1>6, <2>1 DEF EditProfile, TypeOK
  <2> QED BY <1>3, <1>6, <2>2 DEF EditProfile, TypeOK
<1>7. ASSUME Change \/ UNCHANGED changes, Unseen
      PROVE  /\ changes' \in 0..MaxChanges
             /\ UNCHANGED <<queued, timer, wk, status, faults>>
  BY <1>7, BoundsTyped DEF Unseen, wake
<1>8. CASE ChangeReadiness
  BY <1>7, <1>8 DEF ChangeReadiness, TypeOK, pce
<1>9. CASE WriteLabelMap
  <2>1. mapped' \in SUBSET Key
    BY <1>9, InputAssumption DEF WriteLabelMap
  <2> QED BY <1>7, <1>9, <2>1 DEF WriteLabelMap, TypeOK, pce
<1>10. ASSUME NEW n \in Namespace, KubelinkCreates(n) PROVE TypeOK'
  <2>1. cwp' \in [Namespace -> CWP] /\ drift' \in SUBSET Namespace
    BY <1>10, Absent DEF KubelinkCreates, TypeOK
  <2> QED BY <1>7, <1>10, <2>1 DEF KubelinkCreates, TypeOK, kube
<1>11. ASSUME NEW n \in Namespace, ConsoleEdits(n) PROVE TypeOK'
  <2>1. cwp' \in [Namespace -> CWP] /\ drift' \in SUBSET Namespace
    BY <1>11, InputAssumption DEF ConsoleEdits, TypeOK
  <2> QED BY <1>7, <1>11, <2>1 DEF ConsoleEdits, TypeOK, kube
<1> QED BY <1>1, <1>2, <1>4, <1>5, <1>6, <1>8, <1>9, <1>10, <1>11 DEF Environment

(* The types hold at the start. *)
LEMMA TypeInit == Init => TypeOK
<1> SUFFICES ASSUME Init PROVE TypeOK
  OBVIOUS
<1>1. Len(Specs) \in Nat /\ Len(Specs) > 0
  BY Generations
<1>2. 1 \in 1..Len(Specs) /\ 0 \in 0..Len(Specs)
  BY <1>1
<1>3. Cardinality(Namespace) \in Nat
  BY InputAssumption, FS_CardinalityType
<1>4. status \in Status
  BY <1>2, <1>3 DEF Init, Status
<1>5. cwp \in [Namespace -> CWP]
  BY Absent DEF Init
<1>6. faults \in 0..MaxFaults /\ changes \in 0..MaxChanges
  BY InputAssumption DEF Init
<1> QED BY <1>2, <1>4, <1>5, <1>6, Absent DEF Init, TypeOK

-----------------------------------------------------------------------------
(* The reconcile keeps the invariant *)

IInv == Passing /\ Current /\ Working /\ CleanIsApplied

(* How a pass goes on with its next namespace. *)
LEMMA NextFields ==
  ASSUME NEW w \in Worker
  PROVE  /\ NextNamespace(w).pc = "namespace" /\ NextNamespace(w).gen = w.gen
         /\ NextNamespace(w).base = w.base /\ NextNamespace(w).listed = w.listed
         /\ NextNamespace(w).todo = w.todo \ {w.ns} /\ NextNamespace(w).errs = w.errs
         /\ NextNamespace(w).managed = w.managed
BY DEF NextNamespace, Worker

(* How it goes on after an error, and after a namespace that is as wanted.     *)
LEMMA FailedFields ==
  ASSUME NEW w \in Worker
  PROVE  /\ Failed(w).pc = "namespace" /\ Failed(w).gen = w.gen /\ Failed(w).errs = TRUE
         /\ Confirmed(w).pc = "namespace" /\ Confirmed(w).gen = w.gen
         /\ Confirmed(w).base = w.base /\ Confirmed(w).listed = w.listed
         /\ Confirmed(w).todo = w.todo \ {w.ns} /\ Confirmed(w).errs = w.errs
         /\ w.want.managed => Confirmed(w).managed = w.managed \cup {w.ns}
         /\ ~ w.want.managed => Confirmed(w).managed = w.managed
BY DEF Failed, Confirmed, NextNamespace, Worker

(* What is wanted of a namespace follows its inputs. *)
LEMMA SameWanted ==
  ASSUME UNCHANGED <<meta, request, gen>>
  PROVE  \A n : Wanted(n)' = Wanted(n)
BY DEF Wanted, Raised, RequestsIn

(* A reconcile that ends without reporting anything clean keeps the invariant. *)
LEMMA EndKeeps ==
  ASSUME wk' = Idle, queued' \/ ~ status'.onboarded
  PROVE  IInv'
<1>1. wk'.pc = "idle"
  BY DEF Idle
<1> QED BY <1>1 DEF IInv, Passing, Current, Working, CleanIsApplied

(* So does one that goes on with an error.                                     *)
LEMMA ErrorKeeps ==
  ASSUME TypeOK, IInv, NEW w, Continue(w), UNCHANGED gen, w.gen = wk.gen, wk.pc # "idle",
         w.errs, w.pc \in {"namespace", "labels"},
         w.pc = "labels" => w.ns \in w.todo /\ w.listed[w.ns].exists
  PROVE  IInv'
<1>1. wk' = w /\ UNCHANGED <<queued, status, gen>>
  BY DEF Continue, wake
<1> QED BY <1>1 DEF IInv, Passing, Current, Working, CleanIsApplied

(* And one that goes on knowing what it has to know.                           *)
LEMMA GoodKeeps ==
  ASSUME TypeOK, IInv, NEW w, Continue(w), UNCHANGED gen, w.gen = wk.gen, wk.pc # "idle",
         w.pc \in {"namespace", "labels", "clean"},
         w.pc = "labels" => w.ns \in w.todo /\ w.listed[w.ns].exists,
         w.pc = "clean" => w.todo = {} /\ ~ w.errs,
         ~ queued /\ ~ w.errs => Good'
  PROVE  IInv'
<1>1. wk' = w /\ UNCHANGED <<queued, status, gen>>
  BY DEF Continue, wake
<1> QED BY <1>1 DEF IInv, Passing, Current, Working, CleanIsApplied

(* A write leaves nothing to change. *)
LEMMA UpdateApplies ==
  ASSUME NEW c \in CWP, NEW d \in Desired
  PROVE  ~ Changed(Updated(c, d), d) /\ Updated(c, d).exists = c.exists
<1> DEFINE m == IF d.managed /\ d.mode # "" THEN d.mode ELSE c.mode
           u == [c EXCEPT !.managed = d.managed, !.labels = d.labels, !.mode = m]
<1>1. Updated(c, d) = u
  BY DEF Updated
<1>2. u.managed = d.managed /\ u.labels = d.labels /\ u.mode = m /\ u.exists = c.exists
  <2> HIDE DEF m
  <2> QED BY DEF CWP
<1> HIDE DEF u
<1> QED BY <1>1, <1>2 DEF Changed

(* The CWPs are listed: nothing is done, and what is wanted is known.          *)
LEMMA ListKeeps ==
  ASSUME TypeOK, IInv, List
  PROVE  IInv'
<1> DEFINE w == [wk EXCEPT !.pc = "namespace", !.todo = Namespace, !.listed = cwp,
                   !.base = [n \in Namespace |-> DesiredCWP(n, meta[n], Specs[wk.gen])]]
<1>1. /\ w.pc = "namespace" /\ w.gen = wk.gen /\ w.todo = Namespace /\ w.listed = cwp
      /\ w.base = [n \in Namespace |-> DesiredCWP(n, meta[n], Specs[wk.gen])]
      /\ w.managed = wk.managed
  BY DEF TypeOK, Worker
<1>2. /\ wk.pc = "list" /\ Continue(w) /\ UNCHANGED <<meta, gen, cwp>> /\ drift' = {}
  BY DEF List, kube, pce
<1> HIDE DEF w
<1>3. wk' = w
  BY <1>2 DEF Continue
<1>4. ~ queued => wk.gen = gen
  BY <1>2 DEF IInv, Current
<1>5. wk.managed = {}
  BY <1>2 DEF IInv, Passing
<1>6. ~ queued => Good'
  BY <1>1, <1>2, <1>3, <1>4, <1>5 DEF Good
<1> QED BY <1>1, <1>2, <1>6, GoodKeeps

(* A namespace's turn: what is wanted of it is known, or it has no CWP.        *)
LEMMA PlanKeeps ==
  ASSUME TypeOK, IInv, NEW n \in Namespace, PlanNamespace(n)
  PROVE  IInv'
<1>1. /\ wk.pc = "namespace" /\ n \in wk.todo
      /\ UNCHANGED <<meta, request, gen, cwp, drift>>
  BY DEF PlanNamespace, kube, pce
<1>2. PICK d \in Desired, e \in BOOLEAN :
        /\ Continue(Turn(n, d, e))
        /\ e \/ (d = Raised(n, wk.base[n]) /\ e = wk.errs)
  <2>1. wk.base[n] \in Desired /\ wk.errs \in BOOLEAN
    BY Parts
  <2>2. Raised(n, wk.base[n]) \in Desired
    BY <2>1, RaisedType
  <2> QED BY <2>1, <2>2 DEF PlanNamespace
<1> DEFINE v == [wk EXCEPT !.ns = n, !.want = d, !.errs = e]
           l == [v EXCEPT !.pc = "labels"]
<1>3. /\ v \in Worker /\ v.ns = n /\ v.want = d /\ v.errs = e /\ v.todo = wk.todo
      /\ v.gen = wk.gen /\ v.base = wk.base /\ v.listed = wk.listed /\ v.managed = wk.managed
  BY DEF TypeOK, Worker
<1>4. /\ l.pc = "labels" /\ l.ns = n /\ l.want = d /\ l.errs = e /\ l.todo = wk.todo
      /\ l.gen = wk.gen /\ l.base = wk.base /\ l.listed = wk.listed /\ l.managed = wk.managed
  BY DEF TypeOK, Worker
<1>5. Turn(n, d, e) = IF wk.listed[n].exists THEN l ELSE NextNamespace(v)
  BY DEF Turn
<1> HIDE DEF v, l
<1>6. ~ queued /\ ~ e => Good /\ d = Wanted(n)
  BY <1>1, <1>2 DEF IInv, Working, Good, Wanted
<1>7. \A x : Wanted(x)' = Wanted(x)
  BY <1>1, SameWanted
<1>8. \A x : Applied(x)' <=> Applied(x)
  BY <1>1, <1>7 DEF Applied
<1>9. CASE wk.listed[n].exists
  <2>1. wk' = l /\ Continue(l)
    BY <1>2, <1>5, <1>9 DEF Continue
  <2>2. ASSUME ~ queued, ~ e PROVE Good'
    <3>1. Good /\ d = Wanted(n)
      BY <1>6, <2>2
    <3> QED BY <1>1, <1>4, <1>7, <1>8, <2>1, <3>1 DEF Good
  <2> QED BY <1>1, <1>4, <1>9, <2>1, <2>2, GoodKeeps
<1>10. CASE ~ wk.listed[n].exists
  <2> DEFINE w == NextNamespace(v)
  <2>1. wk' = w /\ Continue(w)
    BY <1>2, <1>5, <1>10 DEF Continue
  <2>2. /\ w.pc = "namespace" /\ w.gen = wk.gen /\ w.base = wk.base /\ w.listed = wk.listed
        /\ w.todo = wk.todo \ {n} /\ w.errs = e /\ w.managed = wk.managed
    BY <1>3, NextFields
  <2> HIDE DEF w
  <2>3. ASSUME ~ queued, ~ e PROVE Good'
    <3>1. Good
      BY <1>6, <2>3
    <3>2. \A x \in Namespace \ (wk.todo \ {n}) :
            /\ x \notin drift /\ cwp[x].exists => Applied(x)
            /\ x \in wk.managed <=> wk.listed[x].exists /\ Wanted(x).managed
      <4> TAKE x \in Namespace \ (wk.todo \ {n})
      <4>1. CASE x = n
        BY <1>1, <1>10, <3>1, <4>1 DEF Good
      <4>2. CASE x # n
        BY <3>1, <4>2 DEF Good
      <4> QED BY <4>1, <4>2
    <3> QED BY <1>1, <1>7, <1>8, <2>1, <2>2, <3>1, <3>2 DEF Good
  <2> QED BY <1>1, <2>1, <2>2, <2>3, GoodKeeps
<1> QED BY <1>9, <1>10

(* A label: it is known to the pass, or the namespace has failed.              *)
LEMMA LabelKeeps ==
  ASSUME TypeOK, IInv, NEW p, EnsureLabel(p)
  PROVE  IInv'
<1>1. /\ wk.pc = "labels" /\ UNCHANGED <<meta, request, gen, cwp, drift>>
      /\ wk \in Worker /\ wk.ns \in wk.todo /\ wk.listed[wk.ns].exists
  BY DEF EnsureLabel, kube, TypeOK, IInv, Passing
<1>2. CASE Continue(Failed(wk))
  <2> DEFINE w == Failed(wk)
  <2>1. w.pc = "namespace" /\ w.gen = wk.gen /\ w.errs
    BY <1>1, FailedFields
  <2>2. Continue(w)
    BY <1>2
  <2> HIDE DEF w
  <2> QED BY <1>1, <2>1, <2>2, ErrorKeeps
<1>3. CASE Continue([wk EXCEPT !.cache = @ \cup {p}])
  <2> DEFINE w == [wk EXCEPT !.cache = @ \cup {p}]
  <2>1. /\ w.pc = wk.pc /\ w.gen = wk.gen /\ w.base = wk.base /\ w.listed = wk.listed
        /\ w.todo = wk.todo /\ w.errs = wk.errs /\ w.managed = wk.managed
        /\ w.ns = wk.ns /\ w.want = wk.want
    BY <1>1 DEF Worker
  <2>2. Continue(w) /\ wk' = w
    BY <1>3 DEF Continue
  <2> HIDE DEF w
  <2>3. \A x : Wanted(x)' = Wanted(x)
    BY <1>1, SameWanted
  <2>4. \A x : Applied(x)' <=> Applied(x)
    BY <1>1, <2>3 DEF Applied
  <2>5. ASSUME ~ queued, ~ w.errs PROVE Good'
    <3>1. Good
      BY <1>1, <2>1, <2>5 DEF IInv, Working
    <3> QED BY <1>1, <2>1, <2>2, <2>3, <2>4, <3>1 DEF Good
  <2> QED BY <1>1, <2>1, <2>2, <2>5, GoodKeeps
<1> QED BY <1>2, <1>3 DEF EnsureLabel

(* An update: what was wanted is there, or the namespace has failed.           *)
LEMMA UpdateKeeps ==
  ASSUME TypeOK, IInv, UpdateProfile
  PROVE  IInv'
<1> DEFINE n == wk.ns
           new == Updated(cwp[n], wk.want)
<1>1. /\ wk.pc = "labels" /\ UNCHANGED <<meta, request, gen, drift>>
      /\ wk \in Worker /\ n \in wk.todo /\ wk.listed[n].exists /\ n \in Namespace
      /\ wk.want \in Desired
      /\ cwp \in [Namespace -> CWP]
  BY Parts DEF UpdateProfile, kube, TypeOK, IInv, Passing
<1>2. CASE Continue(Failed(wk))
  <2> DEFINE w == Failed(wk)
  <2>1. w.pc = "namespace" /\ w.gen = wk.gen /\ w.errs
    BY <1>1, FailedFields
  <2>2. Continue(w)
    BY <1>2
  <2> HIDE DEF w
  <2> QED BY <1>1, <2>1, <2>2, ErrorKeeps
<1>3. CASE /\ Continue(Confirmed(wk))
           /\ \/ ~ Changed(wk.listed[n], wk.want) /\ cwp' = cwp
              \/ cwp' = [cwp EXCEPT ![n] = new]
  <2> DEFINE w == Confirmed(wk)
  <2>1. /\ w.pc = "namespace" /\ w.gen = wk.gen /\ w.base = wk.base /\ w.listed = wk.listed
        /\ w.todo = wk.todo \ {n} /\ w.errs = wk.errs
        /\ wk.want.managed => w.managed = wk.managed \cup {n}
        /\ ~ wk.want.managed => w.managed = wk.managed
    BY <1>1, FailedFields
  <2>2. Continue(w) /\ wk' = w
    BY <1>3 DEF Continue
  <2> HIDE DEF w
  <2>3. \A x : Wanted(x)' = Wanted(x)
    BY <1>1, SameWanted
  <2>4. \A x \in Namespace \ {n} : cwp'[x] = cwp[x]
    BY <1>1, <1>3
  <2>5. ASSUME ~ queued, ~ w.errs PROVE Good'
    <3>1. Good /\ wk.want = Wanted(n)
      BY <1>1, <2>1, <2>5 DEF IInv, Working, Good
    <3>2. cwp[n] \in CWP /\ ~ Changed(new, wk.want) /\ new.exists = cwp[n].exists
      BY <1>1, UpdateApplies
    <3>3. (cwp'[n].exists <=> cwp[n].exists) /\ (n \notin drift => ~ Changed(cwp'[n], wk.want))
      <4>1. CASE ~ Changed(wk.listed[n], wk.want) /\ cwp' = cwp
        BY <1>1, <3>1, <4>1 DEF Good
      <4>2. CASE cwp' = [cwp EXCEPT ![n] = new]
        <5>1. cwp'[n] = new
          BY <1>1, <4>2
        <5> HIDE DEF new
        <5> QED BY <3>2, <5>1
      <4> QED BY <1>3, <4>1, <4>2
    <3> DEFINE Done(x) ==
          /\ x \notin drift /\ cwp'[x].exists => ~ Changed(cwp'[x], Wanted(x))
          /\ x \in w.managed <=> wk.listed[x].exists /\ Wanted(x).managed
    <3>4. \A x \in Namespace \ (wk.todo \ {n}) : Done(x)
      <4> TAKE x \in Namespace \ (wk.todo \ {n})
      <4>1. CASE x = n
        <5>1. x \in w.managed <=> wk.listed[x].exists /\ Wanted(x).managed
          BY <1>1, <2>1, <3>1, <4>1 DEF Good
        <5> QED BY <3>1, <3>3, <4>1, <5>1
      <4>2. CASE x # n
        BY <2>1, <2>4, <3>1, <4>2 DEF Good, Applied
      <4> QED BY <4>1, <4>2
    <3>5. \A x \in Namespace \ drift : cwp'[x].exists <=> wk.listed[x].exists
      BY <2>4, <3>1, <3>3 DEF Good
    <3>6. \A x \in (wk.todo \ {n}) \ drift : cwp'[x] = wk.listed[x]
      <4>1. wk.todo \in SUBSET Namespace
        BY Parts
      <4> QED BY <2>4, <3>1, <4>1 DEF Good
    <3>7. w.managed \cap w.todo = {}
      BY <2>1, <3>1 DEF Good
    <3> HIDE DEF new
    <3> QED BY <1>1, <2>1, <2>2, <2>3, <3>1, <3>4, <3>5, <3>6, <3>7 DEF Good, Applied
  <2> QED BY <1>1, <2>1, <2>2, <2>5, GoodKeeps
<1> QED BY <1>2, <1>3 DEF UpdateProfile

(* A clean pass stays what it is while it looks for LabelMaps. *)
LEMMA OverlapKeeps ==
  ASSUME TypeOK, IInv, CheckOverlap
  PROVE  IInv'
<1>1. PICK o : Continue([wk EXCEPT !.pc = "clean", !.overlap = o])
  BY DEF CheckOverlap
<1> DEFINE w == [wk EXCEPT !.pc = "clean", !.overlap = o]
<1>2. /\ w.pc = "clean" /\ w.gen = wk.gen /\ w.base = wk.base /\ w.listed = wk.listed
      /\ w.todo = wk.todo /\ w.errs = wk.errs /\ w.managed = wk.managed
  BY DEF TypeOK, Worker
<1>3. Continue(w) /\ wk' = w
  BY <1>1 DEF Continue
<1> HIDE DEF w
<1>4. /\ wk.pc = "namespace" /\ wk.todo = {} /\ ~ wk.errs
      /\ UNCHANGED <<meta, request, gen, cwp, drift>>
  BY DEF CheckOverlap, kube, pce
<1>5. \A x : Wanted(x)' = Wanted(x)
  BY <1>4, SameWanted
<1>6. \A x : Applied(x)' <=> Applied(x)
  BY <1>4, <1>5 DEF Applied
<1>7. ASSUME ~ queued, ~ w.errs PROVE Good'
  <2>1. Good
    BY <1>4, <1>7 DEF IInv, Working
  <2> QED BY <1>2, <1>3, <1>4, <1>5, <1>6, <2>1 DEF Good
<1> QED BY <1>2, <1>3, <1>4, <1>7, GoodKeeps

(* The status of a clean pass that nobody woke up again tells the truth.       *)
LEMMA WriteKeeps ==
  ASSUME TypeOK, IInv, WriteClean
  PROVE  IInv'
<1>1. CASE Backoff
  BY <1>1, EndKeeps DEF Backoff
<1>2. CASE /\ wk.gen = gen /\ Requeue
           /\ status' = [onboarded |-> TRUE, reconciled |-> "True", managed |-> Count,
                         obs |-> wk.gen, overlap |-> wk.overlap]
  <2>1. /\ wk.pc = "clean" /\ UNCHANGED <<meta, request, gen, cwp, drift>> /\ status'.managed = Count
    BY <1>2 DEF WriteClean, kube, pce
  <2>2. wk' = Idle /\ Idle.pc = "idle" /\ (queued => queued')
    BY <1>2 DEF Requeue, Idle
  <2>3. ASSUME ~ queued PROVE CleanIsApplied'
    <3>1. Good /\ wk.todo = {} /\ wk.managed \in SUBSET Namespace
      BY <2>1, <2>3, Parts DEF IInv, Working, Passing
    <3>2. \A x : Wanted(x)' = Wanted(x)
      BY <2>1, SameWanted
    <3>3. \A x : Applied(x)' <=> Applied(x)
      BY <2>1, <3>2 DEF Applied
    <3>4. drift = {} => wk.managed = {x \in Namespace : cwp[x].exists /\ Wanted(x).managed}
      BY <3>1 DEF Good
    <3>5. \A x \in Namespace \ drift : cwp[x].exists => Applied(x)
      BY <3>1 DEF Good
    <3>6. drift = {} => Count = Cardinality({x \in Namespace : cwp[x].exists /\ Wanted(x).managed})
      BY <3>4 DEF Count
    <3>7. {x \in Namespace : cwp'[x].exists /\ Wanted(x)'.managed}
          = {x \in Namespace : cwp[x].exists /\ Wanted(x).managed}
      BY <2>1, <3>2
    <3> QED BY <2>1, <3>3, <3>5, <3>6, <3>7 DEF CleanIsApplied
  <2>4. queued' => CleanIsApplied'
    BY DEF CleanIsApplied
  <2>5. CleanIsApplied'
    BY <2>2, <2>3, <2>4
  <2> QED BY <2>2, <2>5 DEF IInv, Passing, Current, Working
<1> QED BY <1>1, <1>2 DEF WriteClean, Persist

(* Every step of the reconcile keeps the invariant. *)
LEMMA ReconcileKeeps ==
  ASSUME TypeOK, IInv, Reconcile
  PROVE  IInv'
<1>1. CASE Begin
  <2> DEFINE w == [Idle EXCEPT !.pc = "list", !.gen = gen]
  <2>1. w.pc = "list" /\ w.gen = gen /\ w.managed = {}
    BY DEF Idle
  <2>2. wk' = w /\ gen' = gen /\ gen \in 1..Len(Specs)
    BY <1>1 DEF Begin, kube, TypeOK
  <2> HIDE DEF w
  <2> QED BY <2>1, <2>2 DEF IInv, Passing, Current, Working, CleanIsApplied
<1>2. CASE NotReady
  <2> DEFINE new == [status EXCEPT !.onboarded = FALSE, !.obs = wk.gen]
  <2>1. ~ new.onboarded
    BY DEF TypeOK, Status
  <2>2. Persist(new, Requeue)
    BY <1>2 DEF NotReady
  <2> HIDE DEF new
  <2> QED BY <2>1, <2>2, EndKeeps DEF Persist, Requeue, Backoff
<1>3. CASE PrefixFails
  BY <1>3, EndKeeps DEF PrefixFails, Backoff
<1>4. CASE ListFails
  <2> DEFINE w == [wk EXCEPT !.pc = "namespace", !.errs = TRUE]
  <2>1. w.pc = "namespace" /\ w.gen = wk.gen /\ w.errs
    BY DEF TypeOK, Worker
  <2>2. Continue(w) /\ UNCHANGED gen /\ wk.pc = "list"
    BY <1>4 DEF ListFails, kube
  <2> HIDE DEF w
  <2> QED BY <2>1, <2>2, ErrorKeeps
<1>5. CASE WritePartial
  BY <1>5, EndKeeps DEF WritePartial, Persist, Backoff
<1> QED BY <1>1, <1>2, <1>3, <1>4, <1>5, ListKeeps, UpdateKeeps, OverlapKeeps, WriteKeeps,
           PlanKeeps, LabelKeeps DEF Reconcile

(* A change of the inputs wakes the profile up. *)
LEMMA WakeKeeps ==
  ASSUME TypeOK, IInv, queued', UNCHANGED wk
  PROVE  IInv'
BY DEF IInv, Passing, Current, Working, CleanIsApplied

(* What nobody is told of changes nothing that is wanted. *)
LEMMA UnseenKeeps ==
  ASSUME TypeOK, IInv, Unseen, UNCHANGED <<meta, request, gen>>,
         \A n \in Namespace : cwp'[n] = cwp[n] \/ n \in drift',
         drift \subseteq drift', drift' = {} => cwp' = cwp
  PROVE  IInv'
<1>1. UNCHANGED <<wk, queued, status, gen>>
  BY DEF Unseen, wake
<1>2. Passing' /\ Current'
  BY <1>1 DEF IInv, Passing, Current
<1>3. \A n : Wanted(n)' = Wanted(n)
  BY SameWanted
<1>4. \A n \in Namespace \ drift' : cwp'[n] = cwp[n] /\ (Applied(n)' <=> Applied(n))
  BY <1>3 DEF Applied
<1>5. ASSUME Good PROVE Good'
  <2>1. /\ \A n \in Namespace \ drift' : cwp'[n].exists <=> wk.listed[n].exists
        /\ \A n \in wk.todo \ drift' : cwp'[n] = wk.listed[n]
    <3>1. wk.todo \in SUBSET Namespace
      BY Parts
    <3> QED BY <1>4, <1>5, <3>1 DEF Good
  <2>2. \A n \in Namespace \ wk.todo :
          /\ n \notin drift' /\ cwp'[n].exists => Applied(n)'
          /\ n \in wk.managed <=> wk.listed[n].exists /\ Wanted(n).managed
    BY <1>4, <1>5 DEF Good
  <2> QED BY <1>1, <1>3, <1>5, <2>1, <2>2 DEF Good
<1>6. Working'
  BY <1>1, <1>5 DEF IInv, Working
<1>7. CleanIsApplied'
  <2>1. drift' = {} => cwp' = cwp /\ drift = {}
    OBVIOUS
  <2>2. drift' = {} => {x \in Namespace : cwp'[x].exists /\ Wanted(x)'.managed}
                       = {x \in Namespace : cwp[x].exists /\ Wanted(x).managed}
    BY <1>3, <2>1
  <2> QED BY <1>1, <1>4, <2>1, <2>2 DEF IInv, CleanIsApplied
<1> QED BY <1>2, <1>6, <1>7 DEF IInv

(* Every step keeps the invariant. *)
LEMMA InvNext ==
  ASSUME TypeOK, IInv, [Next]_vars
  PROVE  TypeOK' /\ IInv'
<1>1. CASE UNCHANGED vars
  <2>1. \A n : Wanted(n)' = Wanted(n)
    BY <1>1, SameWanted DEF vars, kube
  <2>2. TypeOK'
    BY <1>1 DEF vars, kube, pce, wake, TypeOK
  <2>3. UNCHANGED <<cwp, drift>> /\ UNCHANGED <<meta, request, gen>> /\ Unseen
    BY <1>1 DEF vars, kube, pce, Unseen
  <2> QED BY <2>2, <2>3, UnseenKeeps
<1>2. CASE Reconcile
  BY <1>2, ReconcileTyped, ReconcileKeeps DEF IInv
<1>3. CASE TimerFire
  BY <1>3, OthersTyped, WakeKeeps DEF TimerFire
<1>4. CASE Restart
  BY <1>4, OthersTyped, EndKeeps DEF Restart
<1>5. CASE Environment
  <2>1. TypeOK'
    BY <1>5, OthersTyped
  <2>2. ASSUME Event PROVE IInv'
    BY <2>2, WakeKeeps DEF Event
  <2>3. CASE ChangeReadiness \/ WriteLabelMap
    <3>1. Unseen /\ UNCHANGED <<meta, request, gen, cwp, drift>>
      BY <2>3 DEF ChangeReadiness, WriteLabelMap, pce
    <3>2. /\ \A n \in Namespace : cwp'[n] = cwp[n] \/ n \in drift'
          /\ drift \subseteq drift' /\ cwp' = cwp
      BY <3>1
    <3> QED BY <2>1, <3>1, <3>2, UnseenKeeps
  <2>4. ASSUME NEW n \in Namespace, KubelinkCreates(n) \/ ConsoleEdits(n) PROVE IInv'
    <3>1. Unseen /\ UNCHANGED <<meta, request, gen>> /\ drift' = drift \cup {n}
      BY <2>4 DEF KubelinkCreates, ConsoleEdits, kube
    <3>2. \A x \in Namespace : cwp'[x] = cwp[x] \/ x \in drift'
      BY <2>4, <3>1 DEF KubelinkCreates, ConsoleEdits, TypeOK
    <3> QED BY <3>1, <3>2, UnseenKeeps
  <2> QED BY <1>5, <2>1, <2>2, <2>3, <2>4
          DEF Environment, EditProfile, Relabel, WriteCR
<1> QED BY <1>1, <1>2, <1>3, <1>4, <1>5 DEF Next

(* It holds at the start. *)
LEMMA InvInit == Init => IInv
BY DEF Init, Idle, IInv, Passing, Current, Working, CleanIsApplied

(* Every variable keeps its type. *)
THEOREM TypeCorrect == Spec => []TypeOK
<1>1. Init => TypeOK /\ IInv
  BY TypeInit, InvInit
<1>2. (TypeOK /\ IInv) /\ [Next]_vars => (TypeOK /\ IInv)'
  BY InvNext
<1> QED BY <1>1, <1>2, PTL DEF Spec

(* An idle operator whose profile reports a clean pass at its generation has   *)
(* applied what is asked of every namespace nobody else touched, and counted   *)
(* them right, for any number of namespaces, rules and policy CRs, whatever    *)
(* fails and whoever changes what in between.                                  *)
THEOREM CleanPassesAreApplied == Spec => []CleanIsApplied
<1>1. Init => TypeOK /\ IInv
  BY TypeInit, InvInit
<1>2. (TypeOK /\ IInv) /\ [Next]_vars => (TypeOK /\ IInv)'
  BY InvNext
<1>3. IInv => CleanIsApplied
  BY DEF IInv
<1> QED BY <1>1, <1>2, <1>3, PTL DEF Spec
=============================================================================
