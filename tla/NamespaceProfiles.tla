--------------------------- MODULE NamespaceProfiles ---------------------------
(* The namespace half of the ClusterProfile controller: reconcileNamespaceCWPs *)
(* keeps the CWP of every namespace as the profile, the namespace's metadata   *)
(* and the policy CRs in it ask, while Kubelink creates CWPs, an administrator *)
(* edits them at the PCE console, calls fail and the operator restarts; a      *)
(* clean pass ends with the warning about a LabelMap that writes the same keys.*)
(* One ClusterProfile, already onboarded; its readiness is an input (Onboarding*)
(* models what decides it).                                                    *)
EXTENDS CwpMatch

CONSTANTS
  Specs,      \* Specs[g]: rules and system namespaces of generation g
  CR,         \* policy CRs
  NsOf,       \* NsOf[c]: the namespace of c
  Metas,      \* Metas[n]: the metadata n may be given
  Requests,   \* enforcement a CR may request; "none" is a CR that is not there
  Console,    \* CWPs an administrator may leave behind at the console
  BadPairs,   \* <<key, value>> pairs the PCE never takes as a label
  LabelMaps,  \* the keys the cluster's LabelMaps may write together
  MaxFaults,  \* bound on failed calls, lost answers and restarts
  MaxChanges  \* bound on edits, console actions and readiness changes

VARIABLES
  meta, request, gen, \* Kubernetes: namespaces, policy CRs, profile generation
  ready,              \* resolveConnection and ensurePairing succeed
  mapped,             \* keys the cluster's LabelMaps write, {} without one
  cwp, known,         \* PCE: CWPs and labels
  queued, timer,      \* work queue and RequeueAfter of the one profile
  wk,                 \* the reconcile under way
  status,             \* the profile's status
  drift,              \* history: CWPs touched by others since the last listing
  faults, changes

kube == <<meta, request, gen, ready, mapped>>
pce == <<cwp, known>>
wake == <<queued, timer>>
vars == <<kube, pce, wake, wk, status, drift, faults, changes>>

CWP == [exists : BOOLEAN, managed : BOOLEAN, mode : Modes, labels : Labels]
NoCWP == [exists |-> FALSE, managed |-> FALSE, mode |-> "", labels |-> NoLabels]
(* What Kubelink creates for a new namespace. *)
FreshCWP == [NoCWP EXCEPT !.exists = TRUE, !.mode = "idle"]
NoNamespace == "no namespace"
(* A label: its key and its value. *)
Pair == Key \X (Value \cup {""})

Status == [onboarded : BOOLEAN, reconciled : {"none", "True", "False"},
           managed : 0..Cardinality(Namespace), obs : 0..Len(Specs),
           overlap : {"none", "True", "False"}]
Worker == [pc : {"idle", "list", "namespace", "labels", "clean"}, gen : 0..Len(Specs),
           base : [Namespace -> Desired], listed : [Namespace -> CWP],
           todo : SUBSET Namespace, ns : Namespace \cup {NoNamespace}, want : Desired,
           cache : SUBSET Pair, errs : BOOLEAN, managed : SUBSET Namespace,
           overlap : {"none", "True", "False"}]

ASSUME SpecsAssumption ==
  Specs \in Seq([rules : Seq(Rule), sys : System]) /\ Len(Specs) > 0
ASSUME InputAssumption ==
  /\ NsOf \in [CR -> Namespace]
  /\ \A n \in Namespace : Metas[n] \subseteq Meta
  /\ Requests \subseteq Modes /\ "none" \notin Requests
  /\ Console \subseteq {c \in CWP : c.exists} /\ LabelMaps \subseteq SUBSET Key
  /\ IsFiniteSet(Namespace) /\ NoNamespace \notin Namespace
  /\ MaxFaults \in Nat /\ MaxChanges \in Nat

Idle ==
  [pc |-> "idle", gen |-> 0, base |-> [n \in Namespace |-> Unmanaged],
   listed |-> [n \in Namespace |-> NoCWP], todo |-> {}, ns |-> NoNamespace,
   want |-> Unmanaged, cache |-> {}, errs |-> FALSE, managed |-> {},
   overlap |-> "none"]

Init ==
  /\ meta \in [Namespace -> Meta] /\ \A n \in Namespace : meta[n] \in Metas[n]
  /\ request = [c \in CR |-> "none"]
  /\ gen = 1 /\ ready = TRUE /\ mapped = {}
  /\ cwp \in [Namespace -> {NoCWP, FreshCWP}]
  /\ known = {}
  /\ queued = TRUE /\ timer = FALSE
  /\ wk = Idle
  /\ status = [onboarded |-> FALSE, reconciled |-> "none", managed |-> 0, obs |-> 0,
               overlap |-> "none"]
  /\ drift = {}
  /\ faults = MaxFaults /\ changes = MaxChanges

-----------------------------------------------------------------------------
(* How a reconcile goes on and ends *)

Spend == faults > 0 /\ faults' = faults - 1
Continue(w) == wk' = w /\ UNCHANGED <<wake, status>>

(* An error is returned: rate-limited requeue. *)
Backoff == wk' = Idle /\ queued' = TRUE /\ UNCHANGED timer

(* RequeueAfter; a status that changed brings an event of its own. *)
Requeue == wk' = Idle /\ timer' = TRUE /\ queued' = (queued \/ status' # status)

(* Status().Update and what follows it.  The API server refuses a snapshot     *)
(* that the profile has outgrown.                                              *)
Persist(new, After) ==
  \/ wk.gen = gen /\ status' = new /\ After /\ UNCHANGED faults
  \/ wk.gen = gen /\ status' = new /\ Spend /\ Backoff
  \/ wk.gen # gen /\ UNCHANGED <<status, faults>> /\ Backoff
  \/ Spend /\ UNCHANGED status /\ Backoff

(* The loop goes on with the next namespace. *)
NextNamespace(w) ==
  [w EXCEPT !.pc = "namespace", !.todo = @ \ {w.ns}, !.ns = NoNamespace, !.want = Unmanaged]
(* Mutant: the first error ends the loop. *)
Failed_Aborts(w) ==
  [w EXCEPT !.pc = "namespace", !.todo = {}, !.ns = NoNamespace, !.want = Unmanaged, !.errs = TRUE]
Failed(w) == NextNamespace([w EXCEPT !.errs = TRUE])
Confirmed(w) ==
  NextNamespace([w EXCEPT !.managed = IF w.want.managed THEN @ \cup {w.ns} ELSE @])

-----------------------------------------------------------------------------
(* Reconcile *)

TimerFire ==
  /\ timer /\ timer' = FALSE /\ queued' = TRUE
  /\ UNCHANGED <<kube, pce, wk, status, drift, faults, changes>>

Begin ==
  /\ wk.pc = "idle" /\ queued
  /\ queued' = FALSE
  /\ wk' = [Idle EXCEPT !.pc = "list", !.gen = gen]
  /\ UNCHANGED <<kube, pce, timer, status, drift, faults, changes>>

(* onboardFail: not ready; the generation counts as observed all the same. *)
NotReady ==
  /\ wk.pc = "list" /\ ~ ready
  /\ Persist([status EXCEPT !.onboarded = FALSE, !.obs = wk.gen], Requeue)
  /\ UNCHANGED <<kube, pce, drift, changes>>

(* A call before the namespaces fails: its error is returned at once. *)
PrefixFails ==
  /\ wk.pc = "list" /\ Spend /\ Backoff
  /\ UNCHANGED <<kube, pce, status, drift, changes>>

(* The namespaces from the cache, then the CWPs of the cluster in one listing. *)
List ==
  /\ wk.pc = "list" /\ ready
  /\ Continue([wk EXCEPT !.pc = "namespace", !.todo = Namespace, !.listed = cwp,
                 !.base = [n \in Namespace |-> DesiredCWP(n, meta[n], Specs[wk.gen])]])
  /\ drift' = {}
  /\ UNCHANGED <<kube, pce, faults, changes>>
ListFails ==
  /\ wk.pc = "list" /\ ready /\ Spend
  /\ Continue([wk EXCEPT !.pc = "namespace", !.errs = TRUE])
  /\ UNCHANGED <<kube, pce, drift, changes>>

RequestsIn(n) == {request[c] : c \in {x \in CR : NsOf[x] = n /\ request[x] # "none"}}
Raised(n, d) == IF d.managed THEN [d EXCEPT !.mode = Effective(@, RequestsIn(n))] ELSE d

(* The rest of a namespace's turn up to its first PCE call. *)
Turn(n, want, errs) ==
  LET w == [wk EXCEPT !.ns = n, !.want = want, !.errs = errs] IN
  IF wk.listed[n].exists THEN [w EXCEPT !.pc = "labels"] ELSE NextNamespace(w)

(* Mutant: an error of EffectiveEnforcement is not kept. *)
PlanNamespace_Silent(n) ==
  /\ wk.pc = "namespace" /\ n \in wk.todo
  /\ \/ Continue(Turn(n, Raised(n, wk.base[n]), wk.errs)) /\ UNCHANGED faults
     \/ wk.base[n].managed /\ Spend /\ Continue(Turn(n, wk.base[n], wk.errs))
  /\ UNCHANGED <<kube, pce, drift, changes>>

(* A namespace's turn: raise the enforcement to what its policy CRs request;   *)
(* when they cannot be listed the baseline is applied and the error kept.      *)
PlanNamespace(n) ==
  /\ wk.pc = "namespace" /\ n \in wk.todo
  /\ \/ Continue(Turn(n, Raised(n, wk.base[n]), wk.errs)) /\ UNCHANGED faults
     \/ wk.base[n].managed /\ Spend /\ Continue(Turn(n, wk.base[n], TRUE))
  /\ UNCHANGED <<kube, pce, drift, changes>>

Pairs(labels) == {<<k, labels[k]>> : k \in DOMAIN labels}

(* Find or create the label, unless this pass already holds its href. *)
EnsureLabel(p) ==
  /\ wk.pc = "labels" /\ p \in Pairs(wk.want.labels) \ wk.cache
  /\ \/ /\ p \notin BadPairs
        /\ known' = known \cup {p}
        /\ \/ Continue([wk EXCEPT !.cache = @ \cup {p}]) /\ UNCHANGED faults
           \/ Spend /\ Continue(Failed(wk))
     \/ p \in BadPairs /\ Continue(Failed(wk)) /\ UNCHANGED <<known, faults>>
     \/ Spend /\ Continue(Failed(wk)) /\ UNCHANGED known
  /\ UNCHANGED <<kube, cwp, drift, changes>>

(* The diff with the CWP as it was listed. *)
Changed(c, want) ==
  \/ c.managed # want.managed
  \/ want.managed /\ want.mode # "" /\ c.mode # want.mode
  \/ c.labels # want.labels

(* The PUT: all labels are replaced, the mode is sent with a managed CWP only. *)
Updated(c, want) ==
  [c EXCEPT !.managed = want.managed, !.labels = want.labels,
            !.mode = IF want.managed /\ want.mode # "" THEN want.mode ELSE @]
Acceptable(c) == c.mode \in Modes /\ ~ (c.managed /\ c.mode = "idle")

UpdateProfile ==
  LET n == wk.ns  new == Updated(cwp[n], wk.want) IN
  /\ wk.pc = "labels" /\ Pairs(wk.want.labels) \subseteq wk.cache
  /\ \/ /\ ~ Changed(wk.listed[n], wk.want)
        /\ Continue(Confirmed(wk)) /\ UNCHANGED <<cwp, faults>>
     \/ /\ Changed(wk.listed[n], wk.want) /\ Acceptable(new)
        /\ cwp' = [cwp EXCEPT ![n] = new]
        /\ \/ Continue(Confirmed(wk)) /\ UNCHANGED faults
           \/ Spend /\ Continue(Failed(wk))
     \/ /\ Changed(wk.listed[n], wk.want) /\ ~ Acceptable(new)
        /\ Continue(Failed(wk)) /\ UNCHANGED <<cwp, faults>>
     \/ /\ Changed(wk.listed[n], wk.want) /\ Spend
        /\ Continue(Failed(wk)) /\ UNCHANGED cwp
  /\ UNCHANGED <<kube, known, drift, changes>>

(* Keys the operator assigns: by a rule, and by the system namespaces whether  *)
(* or not they are managed.  A key counts without a value too.                 *)
(* Mutant: the labels of the system namespaces are forgotten. *)
OperatorAssignedKeys_Rules(spec) == UNION {DOMAIN spec.rules[i].assign : i \in DOMAIN spec.rules}
OperatorAssignedKeys(spec) ==
  UNION {DOMAIN spec.rules[i].assign : i \in DOMAIN spec.rules}
  \cup DOMAIN spec.sys.labels
Overlap(g) == IF OperatorAssignedKeys(Specs[g]) \cap mapped # {} THEN "True" ELSE "False"

(* checkLabelMapOverlap, after a clean pass: an error of the listing is taken  *)
(* for a cluster without LabelMaps.                                            *)
CheckOverlap ==
  /\ wk.pc = "namespace" /\ wk.todo = {} /\ ~ wk.errs
  /\ \/ Continue([wk EXCEPT !.pc = "clean", !.overlap = Overlap(wk.gen)]) /\ UNCHANGED faults
     \/ Spend /\ Continue([wk EXCEPT !.pc = "clean", !.overlap = "False"])
  /\ UNCHANGED <<kube, pce, drift, changes>>

Count == Cardinality(wk.managed)
(* The tail of Reconcile: the status is persisted with or without errors, the  *)
(* generation is observed only after a clean pass.                             *)
WritePartial ==
  /\ wk.pc = "namespace" /\ wk.todo = {} /\ wk.errs
  /\ Persist([status EXCEPT !.onboarded = TRUE, !.reconciled = "False", !.managed = Count],
             Backoff)
  /\ UNCHANGED <<kube, pce, drift, changes>>

(* Mutant: the generation after the one applied is recorded. *)
WriteClean_Ahead ==
  /\ wk.pc = "clean"
  /\ Persist([onboarded |-> TRUE, reconciled |-> "True", managed |-> Count,
              obs |-> wk.gen + 1, overlap |-> wk.overlap], Requeue)
  /\ UNCHANGED <<kube, pce, drift, changes>>
WriteClean ==
  /\ wk.pc = "clean"
  /\ Persist([onboarded |-> TRUE, reconciled |-> "True", managed |-> Count,
              obs |-> wk.gen, overlap |-> wk.overlap], Requeue)
  /\ UNCHANGED <<kube, pce, drift, changes>>

Reconcile ==
  \/ Begin \/ NotReady \/ PrefixFails \/ List \/ ListFails \/ UpdateProfile
  \/ WritePartial \/ CheckOverlap \/ WriteClean
  \/ \E n \in Namespace : PlanNamespace(n)
  \/ \E p \in Pair : EnsureLabel(p)

Restart ==
  /\ Spend
  /\ wk' = Idle /\ queued' = TRUE /\ timer' = FALSE
  /\ UNCHANGED <<kube, pce, status, drift, changes>>

-----------------------------------------------------------------------------
(* Everybody else *)

Change == changes > 0 /\ changes' = changes - 1
Event == queued' = TRUE /\ UNCHANGED <<pce, timer, wk, status, drift, faults>>

(* The watches: namespaces, policy CRs and the profile itself. *)
Relabel(n) ==
  /\ Change /\ Event
  /\ \E m \in Metas[n] \ {meta[n]} : meta' = [meta EXCEPT ![n] = m]
  /\ UNCHANGED <<request, gen, ready, mapped>>
WriteCR(c) ==
  /\ Change /\ Event
  /\ \E e \in (Requests \cup {"none"}) \ {request[c]} : request' = [request EXCEPT ![c] = e]
  /\ UNCHANGED <<meta, gen, ready, mapped>>
EditProfile ==
  /\ Change /\ Event
  /\ gen < Len(Specs) /\ gen' = gen + 1
  /\ UNCHANGED <<meta, request, ready, mapped>>

(* No watch sees these. *)
Unseen == UNCHANGED <<wake, wk, status, faults>>
ChangeReadiness ==
  /\ Change /\ Unseen
  /\ ready' = ~ ready
  /\ UNCHANGED <<meta, request, gen, mapped, pce, drift>>
WriteLabelMap ==
  /\ Change /\ Unseen
  /\ mapped' \in LabelMaps \ {mapped}
  /\ UNCHANGED <<meta, request, gen, ready, pce, drift>>
KubelinkCreates(n) ==
  /\ Unseen /\ ~ cwp[n].exists
  /\ cwp' = [cwp EXCEPT ![n] = FreshCWP] /\ drift' = drift \cup {n}
  /\ UNCHANGED <<kube, known, changes>>
ConsoleEdits(n) ==
  /\ Change /\ Unseen /\ cwp[n].exists
  /\ \E c \in Console \ {cwp[n]} : cwp' = [cwp EXCEPT ![n] = c]
  /\ drift' = drift \cup {n}
  /\ UNCHANGED <<kube, known>>

Environment ==
  \/ EditProfile \/ ChangeReadiness \/ WriteLabelMap
  \/ \E n \in Namespace : Relabel(n) \/ KubelinkCreates(n) \/ ConsoleEdits(n)
  \/ \E c \in CR : WriteCR(c)

Next == TimerFire \/ Reconcile \/ Restart \/ Environment
Spec == Init /\ [][Next]_vars

(* controller-runtime keeps its worker and its timers going. *)
FairSpec == Spec /\ WF_vars(Reconcile) /\ WF_vars(TimerFire)

-----------------------------------------------------------------------------
(* Properties *)

(* Types of all variables. *)
TypeOK ==
  /\ meta \in [Namespace -> Meta] /\ request \in [CR -> Requests \cup {"none"}]
  /\ gen \in 1..Len(Specs) /\ ready \in BOOLEAN /\ mapped \subseteq Key
  /\ cwp \in [Namespace -> CWP] /\ known \subseteq Pair
  /\ queued \in BOOLEAN /\ timer \in BOOLEAN
  /\ wk \in Worker /\ status \in Status /\ drift \subseteq Namespace
  /\ faults \in 0..MaxFaults /\ changes \in 0..MaxChanges

Wanted(n) == Raised(n, DesiredCWP(n, meta[n], Specs[gen]))
Applied(n) == ~ Changed(cwp[n], Wanted(n))

(* An idle operator whose profile reports onboarded, reconciled and up to date *)
(* has applied what the metadata, the profile and the policy CRs ask to every  *)
(* CWP nobody else touched since, and counted them right (the tail of          *)
(* Reconcile, the errors reconcileNamespaceCWPs joins, the watches).           *)
CleanIsApplied ==
  (/\ wk.pc = "idle" /\ ~ queued
   /\ status.onboarded /\ status.reconciled = "True" /\ status.obs = gen)
  => /\ \A n \in Namespace \ drift : cwp[n].exists => Applied(n)
     /\ drift = {} => status.managed =
          Cardinality({n \in Namespace : cwp[n].exists /\ Wanted(n).managed})

(* Every namespace the PCE can take settles on what is asked of it, whatever   *)
(* happens to the others: one bad namespace does not freeze the rest, and what *)
(* no watch sees is found by the periodic requeue.                             *)
Healthy(n) ==
  /\ Pairs(Wanted(n).labels) \cap BadPairs = {}
  /\ Wanted(n).managed => Wanted(n).mode \in Modes \ {"", "idle"}
Converges ==
  <>[]ready => \A n \in Namespace : <>[](Healthy(n) /\ cwp[n].exists => Applied(n))

(* The warning follows LabelMaps and profile, though no watch sees a LabelMap   *)
(* and a failed listing counts as none: once every namespace is well, what the *)
(* status says of an overlap is what there is (checkLabelMapOverlap, run by    *)
(* clean passes only).                                                         *)
Conflict ==
  \E k \in mapped :
    \/ k \in DOMAIN Specs[gen].sys.labels
    \/ \E i \in DOMAIN Specs[gen].rules : k \in DOMAIN Specs[gen].rules[i].assign
OverlapIsReported ==
  <>[](ready /\ \A n \in Namespace : cwp[n].exists => Healthy(n))
    => <>[](status.overlap = IF Conflict THEN "True" ELSE "False")

(* "A namespace that matches no rule receives no CWP update."                  *)
(* (docs/guides/namespace-management.md)                                       *)
Unmatched(n) == /\ \A i \in DOMAIN Specs[gen].rules : ~ RuleMatches(Specs[gen].rules[i], n, meta[n])
                /\ ~ (Specs[gen].sys.manage /\ n \in Specs[gen].sys.names)
                /\ meta[n].managed = "" /\ Given(meta[n]) = {}
UnmatchedLeftAlone ==
  [][\A n \in Namespace : UpdateProfile /\ wk.ns = n /\ Unmatched(n) => cwp'[n] = cwp[n]]_vars
=============================================================================
