--------------------------- MODULE PolicyLifecycle ---------------------------
(* The life of the policy custom resources (SegmentationIntent and             *)
(* SegmentationPolicy): from the API server, through the informer cache, the   *)
(* work queue and the reconciler, to the draft and the active policy store of  *)
(* the PCE.                                                                    *)
(*                                                                             *)
(* One action is one call that leaves the operator's process (a Kubernetes     *)
(* read or write, a PCE request) together with the computation that follows it *)
(* up to the next such call, so that every other actor may act between any two *)
(* of them.  A PCE or Kubernetes call may fail, may take effect and lose its   *)
(* answer, or may be refused; the operator may be restarted between two calls. *)
EXTENDS PolicyRules

CONSTANTS
  Kind,             \* Kind[c]: the controller that reconciles c (one worker each)
  Creatable,        \* labels whose key the operator may mint (role/app/env/loc)
  ProvisioningMode, \* "auto", "manual" or "draft-only"
  Scopes,           \* the scope label sets an administrator may give the namespace
  Readiness,        \* the values usable may take (an outage is a FALSE)
  RetryAfterZero,   \* whether the PCE may answer 429 with "Retry-After: 0"
  MaxFaults,        \* bound: failed calls, lost answers and restarts
  MaxChanges        \* bound: label, scope, readiness, approval and console changes

ASSUME KindAssumption == Kind \in [CR -> {"intent", "policy"}]
ASSUME CreatableAssumption == Creatable \subseteq Label
ASSUME ProvisioningAssumption == ProvisioningMode \in {"auto", "manual", "draft-only"}
ASSUME ScopesAssumption == Scopes \subseteq SUBSET Label
ASSUME FlagAssumption == Readiness \subseteq BOOLEAN /\ RetryAfterZero \in BOOLEAN
ASSUME BoundAssumption == MaxFaults \in Nat /\ MaxChanges \in Nat

VARIABLES
  cr,      \* the objects in the API server, with the conditions of their status
  cache,   \* what the informer cache of the operator holds of them
  fresh,   \* fresh[c]: cache[c] is at the object's latest resourceVersion
  queue,   \* keys in (or backing off into) the work queues
  timer,   \* keys with a RequeueAfter pending
  wk,      \* wk[c]: the reconcile of c in progress
  draft,   \* the ruleset owned by c in the PCE draft store
  active,  \* the ruleset owned by c in the PCE active store: what is enforced
  labels,  \* the labels the PCE knows
  scope,   \* scope-label subset of the namespace's assigned labels
  usable,  \* an Onboarded profile manages the namespace and its connection works
  faults,  \* faults left
  changes  \* environment changes left

kube == <<cr, cache, fresh>>
work == <<queue, timer, wk>>
pce  == <<draft, active, labels>>
env  == <<scope, usable>>
vars == <<kube, work, pce, env, faults, changes>>

-----------------------------------------------------------------------------
(* The reconcile in progress *)

Idle == [pc |-> "idle", own |-> FALSE, gen |-> 0, approved |-> FALSE,
         scope |-> {}, todo |-> {}, make |-> {}, hit |-> {}, del |-> {}, add |-> {},
         ready |-> "none", prov |-> "none", again |-> FALSE]

(* Mutant: a rejection is not retried until the spec changes. *)
Verdict_Final(w, ready, prov, again) ==
  [Idle EXCEPT !.pc = "status", !.own = w.own, !.gen = w.gen,
               !.ready = ready, !.prov = prov, !.again = again /\ ready # "Rejected"]

(* The status write that ends a reconcile: the Ready reason, the Provisioned   *)
(* condition ("keep" leaves it as it is) and whether a RequeueAfter follows.   *)
Verdict(w, ready, prov, again) ==
  [Idle EXCEPT !.pc = "status", !.own = w.own, !.gen = w.gen,
               !.ready = ready, !.prov = prov, !.again = again]

(* CompileIntent / CompilePolicy decide without any call. *)
Compiled(c, w) ==
  IF SpecOf[c][w.gen].valid THEN [w EXCEPT !.pc = "resolve"]
                            ELSE Verdict(w, "Rejected", "keep", FALSE)

(* Mutant: manual mode provisions without the annotation. *)
DoProvision_Ungated(w) == ProvisioningMode # "draft-only"

DoProvision(w) ==
  ProvisioningMode = "auto" \/ (ProvisioningMode = "manual" /\ w.approved)

(* Mutant: the ruleset is provisioned while its rules are being rebuilt. *)
AfterRules_Early(w) ==
  IF DoProvision(w) THEN [w EXCEPT !.pc = "provision"]
  ELSE IF w.add # {} THEN [w EXCEPT !.pc = "rule"]
  ELSE Verdict(w, "Compiled", "Pending", TRUE)
(* Mutant: a draft that awaits its approval leaves Provisioned as it was. *)
AfterRules_Keep(w) ==
  IF w.add # {} THEN [w EXCEPT !.pc = "rule"]
  ELSE IF DoProvision(w) THEN [w EXCEPT !.pc = "provision"]
  ELSE Verdict(w, "Compiled", "keep", TRUE)

(* What follows the deletion of old rules, the service look-up and the         *)
(* creation of the new rules.                                                  *)
AfterRules(w) ==
  IF w.add # {} THEN [w EXCEPT !.pc = "rule"]
  ELSE IF DoProvision(w) THEN [w EXCEPT !.pc = "provision"]
  ELSE Verdict(w, "Compiled", "Pending", TRUE)
AfterDeletes(w) ==
  IF w.del # {} THEN [w EXCEPT !.pc = "delete"]
  ELSE IF \E r \in w.add : r.ports = {} THEN [w EXCEPT !.pc = "service"]
  ELSE AfterRules(w)

(* The snapshot Reconcile takes from the cache, and its first branch. *)
Snapshot(c) ==
  [Idle EXCEPT !.own = fresh[c], !.gen = cache[c].gen, !.approved = cache[c].approved]
Begin(c) ==
  CASE cache[c].phase = "deleting" /\ cache[c].fin
         -> [Snapshot(c) EXCEPT !.pc = "finresolve"]
    [] cache[c].phase = "live" /\ ~ cache[c].fin
         -> [Snapshot(c) EXCEPT !.pc = "addfin"]
    [] cache[c].phase = "live" /\ cache[c].fin -> Compiled(c, Snapshot(c))
    [] OTHER -> Idle

View(o) == [phase |-> o.phase, gen |-> o.gen, fin |-> o.fin, approved |-> o.approved]

NoRuleSet == [exists |-> FALSE, marked |-> FALSE, scope |-> {}, rules |-> {}]
NotActive == [exists |-> FALSE, gen |-> 0, scope |-> {}, rules |-> {}]

Init ==
  /\ cr = [c \in CR |-> [phase |-> "absent", gen |-> 0, fin |-> FALSE, approved |-> FALSE,
                         ready |-> "none", prov |-> "none", obs |-> 0]]
  /\ cache = [c \in CR |-> View(cr[c])]
  /\ fresh = [c \in CR |-> TRUE]
  /\ queue = {} /\ timer = {}
  /\ wk = [c \in CR |-> Idle]
  /\ draft = [c \in CR |-> NoRuleSet]
  /\ active = [c \in CR |-> NotActive]
  /\ labels = InitLabels
  /\ scope \in Scopes /\ usable \in Readiness
  /\ faults = MaxFaults /\ changes = MaxChanges

-----------------------------------------------------------------------------
(* How a call ends *)

Spend == faults > 0 /\ faults' = faults - 1

(* Mutant: an error is logged and not returned. *)
Backoff_Logged(c) == wk' = [wk EXCEPT ![c] = Idle] /\ UNCHANGED <<queue, timer>>

(* The reconcile returns an error: rate-limited requeue. *)
Backoff(c) ==
  /\ wk' = [wk EXCEPT ![c] = Idle]
  /\ queue' = queue \cup {c}
  /\ UNCHANGED timer

Refused(c) == Backoff(c) /\ UNCHANGED faults

Continue(c, w) ==
  /\ wk' = [wk EXCEPT ![c] = w]
  /\ UNCHANGED <<queue, timer, faults>>

(* A call that has taken effect: the reconcile goes on, or its answer is lost. *)
Answered(c, w) == Continue(c, w) \/ (Spend /\ Backoff(c))

(* An Update of the object: the API server takes it only from a snapshot at    *)
(* the latest resourceVersion, and an Update that changes nothing makes no new *)
(* version and no watch event.                                                 *)
Store(c, new) ==
  /\ cr' = [cr EXCEPT ![c] = new]
  /\ fresh' = [fresh EXCEPT ![c] = @ /\ new = cr[c]]
  /\ UNCHANGED cache

-----------------------------------------------------------------------------
(* Informer and work queue *)

(* The watch brings the cache up to date and its handler enqueues the key. *)
CacheSync(c) ==
  /\ ~ fresh[c]
  /\ cache' = [cache EXCEPT ![c] = View(cr[c])]
  /\ fresh' = [fresh EXCEPT ![c] = TRUE]
  /\ queue' = queue \cup {c}
  /\ UNCHANGED <<cr, timer, wk, pce, env, faults, changes>>

TimerFire(c) ==
  /\ c \in timer
  /\ timer' = timer \ {c}
  /\ queue' = queue \cup {c}
  /\ UNCHANGED <<kube, wk, pce, env, faults, changes>>

(* The controller of c has one worker: it takes a key when it has no other. *)
Start(c) ==
  /\ c \in queue
  /\ \A d \in CR : Kind[d] = Kind[c] => wk[d].pc = "idle"
  /\ queue' = queue \ {c}
  /\ wk' = [wk EXCEPT ![c] = Begin(c)]
  /\ UNCHANGED <<kube, timer, pce, env, faults, changes>>

-----------------------------------------------------------------------------
(* Reconcile: finalizer, profile, labels *)

AddFinalizer(c) ==
  /\ wk[c].pc = "addfin"
  /\ \/ wk[c].own /\ Store(c, [cr[c] EXCEPT !.fin = TRUE]) /\ Answered(c, Compiled(c, wk[c]))
     \/ ~ wk[c].own /\ Refused(c) /\ UNCHANGED kube
  /\ UNCHANGED <<pce, env, changes>>

ResolveProfile(c) ==
  /\ wk[c].pc = "resolve"
  /\ Continue(c, IF usable THEN [wk[c] EXCEPT !.pc = "scope"]
                           ELSE Verdict(wk[c], "NotReady", "keep", TRUE))
  /\ UNCHANGED <<kube, pce, env, changes>>

(* The look-ups of resolveProvider stop at the first unknown label.  Labels    *)
(* are never removed, so deciding them at one instant is exact: that of the    *)
(* last look-up when all succeed, that of the failing one otherwise.           *)
ResolveProvider(c) ==
  LET todo == Lookups(SpecOf[c][wk[c].gen]) IN
  /\ wk[c].pc = "scope"
  /\ Continue(c, IF scope # {} /\ scope \subseteq labels
                 THEN [wk[c] EXCEPT !.pc = IF todo = {} THEN "narrow" ELSE "lookup",
                                    !.scope = scope, !.todo = todo]
                 ELSE Verdict(wk[c], "Rejected", "keep", TRUE))
  /\ UNCHANGED <<kube, pce, env, changes>>

Looked(w, p, hit) ==
  [w EXCEPT !.todo = @ \ {p}, !.make = {}, !.hit = hit,
            !.pc = IF w.todo = {p} THEN "narrow" ELSE "lookup"]

(* Mutant: any failed look-up counts as an unknown label. *)
ResolveAllow_AnyError(c) ==
  /\ wk[c].pc = "lookup"
  /\ \E p \in wk[c].todo : \E hit \in {wk[c].hit, wk[c].hit \cup {p}} :
       Continue(c, Looked(wk[c], p, hit))
  /\ UNCHANGED <<kube, pce, env, changes>>

(* One look-up of resolveAllows, in no particular order.  In create mode       *)
(* EnsureLabel looks an unknown label up again: the step stands for the second *)
(* look-up when the first one failed.                                          *)
ResolveAllow(c) ==
  /\ wk[c].pc = "lookup"
  /\ \E p \in wk[c].todo :
       \/ /\ p[2] \in labels
          /\ Continue(c, Looked(wk[c], p, wk[c].hit \cup {p}))
       \/ /\ p[2] \notin labels /\ Mode = "skip"
          /\ Continue(c, Looked(wk[c], p, wk[c].hit))
       \/ /\ p[2] \notin labels /\ Mode = "create" /\ p[2] \in Creatable
          /\ Continue(c, [wk[c] EXCEPT !.pc = "mint", !.make = {p}])
       \/ /\ p[2] \notin labels /\ (Mode = "create" => p[2] \notin Creatable) /\ Mode # "skip"
          /\ Continue(c, Verdict(wk[c], "Rejected", "keep", TRUE))
  /\ UNCHANGED <<kube, pce, env, changes>>

(* The creation of a label that was unknown when it was looked up.  The PCE    *)
(* refuses a second label with the same key and value.                         *)
MintLabel(c) ==
  /\ wk[c].pc = "mint"
  /\ \E p \in wk[c].make :
       \/ /\ p[2] \notin labels
          /\ labels' = labels \cup {p[2]}
          /\ Answered(c, Looked(wk[c], p, wk[c].hit \cup {p}))
       \/ p[2] \in labels /\ Refused(c) /\ UNCHANGED labels
  /\ UNCHANGED <<kube, draft, active, env, changes>>

(* The provider narrowing labels are strict in every mode. *)
ResolveNarrow(c) ==
  LET s == SpecOf[c][wk[c].gen] IN
  /\ wk[c].pc = "narrow"
  /\ Continue(c, IF s.to \subseteq labels
                 THEN [wk[c] EXCEPT !.pc = "find", !.hit = {}, !.add = Rules(s, wk[c].hit)]
                 ELSE Verdict(wk[c], "Rejected", "keep", TRUE))
  /\ UNCHANGED <<kube, pce, env, changes>>

-----------------------------------------------------------------------------
(* reconcileRuleSet: find or create the owned ruleset, replace all its rules *)

(* Mutant: a pending deletion is not noticed. *)
FindRuleSet_Blind(c) ==
  /\ wk[c].pc = "find"
  /\ Continue(c, IF draft[c].exists THEN [wk[c] EXCEPT !.pc = "list", !.scope = {}]
                                    ELSE [wk[c] EXCEPT !.pc = "create"])
  /\ UNCHANGED <<kube, pce, env, changes>>

FindRuleSet(c) ==
  /\ wk[c].pc = "find"
  /\ Continue(c, IF ~ draft[c].exists THEN [wk[c] EXCEPT !.pc = "create"]
                 ELSE IF draft[c].marked THEN Verdict(wk[c], "Conflict", "keep", TRUE)
                 ELSE [wk[c] EXCEPT !.pc = "list", !.scope = {}])
  /\ UNCHANGED <<kube, pce, env, changes>>

(* The name and the external_data_reference are those of the CR: the PCE       *)
(* refuses a second ruleset with them.                                         *)
CreateRuleSet(c) ==
  /\ wk[c].pc = "create"
  /\ IF draft[c].exists
     THEN Refused(c) /\ UNCHANGED draft
     ELSE /\ draft' = [draft EXCEPT ![c] =
               [NoRuleSet EXCEPT !.exists = TRUE, !.scope = wk[c].scope]]
          /\ Answered(c, AfterDeletes([wk[c] EXCEPT !.scope = {}]))
  /\ UNCHANGED <<kube, active, labels, env, changes>>

(* Operating on a ruleset that is gone or marked for deletion answers 404. *)
Writable(c) == draft[c].exists /\ ~ draft[c].marked

ListRules(c) ==
  /\ wk[c].pc = "list"
  /\ IF Writable(c) THEN Continue(c, AfterDeletes([wk[c] EXCEPT !.del = draft[c].rules]))
                    ELSE Refused(c)
  /\ UNCHANGED <<kube, pce, env, changes>>

DeleteRule(c) ==
  /\ wk[c].pc = "delete"
  /\ IF Writable(c)
     THEN \E r \in wk[c].del :
            /\ draft' = [draft EXCEPT ![c].rules = @ \ {r}]
            /\ Answered(c, AfterDeletes([wk[c] EXCEPT !.del = @ \ {r}]))
     ELSE Refused(c) /\ UNCHANGED draft
  /\ UNCHANGED <<kube, active, labels, env, changes>>

FindService(c) ==
  /\ wk[c].pc = "service"
  /\ Continue(c, AfterRules(wk[c]))
  /\ UNCHANGED <<kube, pce, env, changes>>

CreateRule(c) ==
  /\ wk[c].pc = "rule"
  /\ IF Writable(c)
     THEN \E r \in wk[c].add :
            /\ draft' = [draft EXCEPT ![c].rules = @ \cup {r}]
            /\ Answered(c, AfterRules([wk[c] EXCEPT !.add = @ \ {r}]))
     ELSE Refused(c) /\ UNCHANGED draft
  /\ UNCHANGED <<kube, active, labels, env, changes>>

(* Mutant: no change_subset, every draft is provisioned. *)
Provisioned_All(c, g) ==
  /\ draft' = [d \in CR |-> IF draft[d].marked THEN NoRuleSet ELSE draft[d]]
  /\ active' = [d \in CR |->
       IF ~ draft[d].exists \/ draft[d].marked THEN NotActive
       ELSE [exists |-> TRUE, gen |-> IF d = c THEN g ELSE cr[d].gen,
             scope |-> draft[d].scope, rules |-> draft[d].rules]]

(* Provisioning one ruleset makes its draft, and no other's, the active one; a *)
(* pending deletion is carried out.                                            *)
Provisioned(c, g) ==
  /\ draft' = [draft EXCEPT ![c] = IF draft[c].marked THEN NoRuleSet ELSE @]
  /\ active' = [active EXCEPT ![c] =
       IF draft[c].marked THEN NotActive
       ELSE [exists |-> TRUE, gen |-> g, scope |-> draft[c].scope, rules |-> draft[c].rules]]

(* Mutant: the error of the provisioning call is swallowed. *)
Provision_Swallow(c) ==
  /\ wk[c].pc = "provision"
  /\ Provisioned(c, wk[c].gen) \/ UNCHANGED <<draft, active>>
  /\ Continue(c, Verdict(wk[c], "Compiled", "Provisioned", TRUE))
  /\ UNCHANGED <<kube, labels, env, changes>>

Provision(c) ==
  /\ wk[c].pc = "provision"
  /\ IF draft[c].exists
     THEN Provisioned(c, wk[c].gen) /\ Answered(c, Verdict(wk[c], "Compiled", "Provisioned", TRUE))
     ELSE Refused(c) /\ UNCHANGED <<draft, active>>
  /\ UNCHANGED <<kube, labels, env, changes>>

-----------------------------------------------------------------------------
(* Status().Update, and the result returned to the work queue *)

(* Mutant: Provisioned is written even when the result says nothing of it. *)
Conditions_Keep(o, w) == [o EXCEPT !.ready = w.ready, !.obs = w.gen, !.prov = w.prov]
(* Mutant: observedGeneration is not written. *)
Conditions_NoGen(o, w) ==
  [o EXCEPT !.ready = w.ready, !.prov = IF w.prov = "keep" THEN @ ELSE w.prov]

(* applyBackendResult and observedGeneration. *)
Conditions(o, w) ==
  [o EXCEPT !.ready = w.ready, !.obs = w.gen,
            !.prov = IF w.prov = "keep" THEN @ ELSE w.prov]

(* Mutant: RequeueAfter is not returned. *)
Requeue_Dropped(c) == timer' = timer

Requeue(c) == timer' = IF wk[c].again THEN timer \cup {c} ELSE timer

UpdateStatus(c) ==
  LET w == wk[c] IN
  /\ w.pc = "status"
  /\ \/ /\ w.own
        /\ Store(c, Conditions(cr[c], w))
        /\ \/ wk' = [wk EXCEPT ![c] = Idle] /\ Requeue(c) /\ UNCHANGED <<queue, faults>>
           \/ Spend /\ Backoff(c)
     \/ ~ w.own /\ Refused(c) /\ UNCHANGED kube
  /\ UNCHANGED <<pce, env, changes>>

-----------------------------------------------------------------------------
(* FinalizePolicy and the release of the finalizer *)

FinalizeResolve(c) ==
  /\ wk[c].pc = "finresolve"
  /\ Continue(c, [wk[c] EXCEPT !.pc = IF usable THEN "finfind" ELSE "release"])
  /\ UNCHANGED <<kube, pce, env, changes>>

(* Mutant: a deletion already pending is taken for a deletion done. *)
FinalizeFind_Done(c) ==
  /\ wk[c].pc = "finfind"
  /\ Continue(c, [wk[c] EXCEPT !.pc = IF Writable(c) THEN "findelete" ELSE "release"])
  /\ UNCHANGED <<kube, pce, env, changes>>
(* Mutant: a ruleset already pending deletion is deleted again. *)
FinalizeFind_Again(c) ==
  /\ wk[c].pc = "finfind"
  /\ Continue(c, [wk[c] EXCEPT !.pc = IF draft[c].exists THEN "findelete" ELSE "release"])
  /\ UNCHANGED <<kube, pce, env, changes>>

FinalizeFind(c) ==
  /\ wk[c].pc = "finfind"
  /\ Continue(c, [wk[c] EXCEPT !.pc = IF ~ draft[c].exists THEN "release"
                                      ELSE IF draft[c].marked THEN "finprovision"
                                      ELSE "findelete"])
  /\ UNCHANGED <<kube, pce, env, changes>>

(* Deleting a ruleset marks it, or drops it when it was never provisioned. *)
Deleted(c) ==
  draft' = [draft EXCEPT ![c] = IF active[c].exists THEN [@ EXCEPT !.marked = TRUE]
                                                    ELSE NoRuleSet]

FinalizeDelete(c) ==
  /\ wk[c].pc = "findelete"
  /\ \/ Writable(c) /\ Deleted(c) /\ Answered(c, [wk[c] EXCEPT !.pc = "finprovision"])
     \/ /\ ~ draft[c].exists
        /\ Continue(c, [wk[c] EXCEPT !.pc = "finprovision"]) /\ UNCHANGED draft
     \/ draft[c].marked /\ Refused(c) /\ UNCHANGED draft
  /\ UNCHANGED <<kube, active, labels, env, changes>>

FinalizeProvision(c) ==
  /\ wk[c].pc = "finprovision"
  /\ IF draft[c].exists
     THEN Provisioned(c, wk[c].gen) /\ Answered(c, [wk[c] EXCEPT !.pc = "release"])
     ELSE Continue(c, [wk[c] EXCEPT !.pc = "release"]) /\ UNCHANGED <<draft, active>>
  /\ UNCHANGED <<kube, labels, env, changes>>

(* Without its last finalizer the object leaves the API server. *)
RemoveFinalizer(c) ==
  /\ wk[c].pc = "release"
  /\ \/ wk[c].own /\ Store(c, [cr[c] EXCEPT !.phase = "gone", !.fin = FALSE]) /\ Answered(c, Idle)
     \/ ~ wk[c].own /\ Refused(c) /\ UNCHANGED kube
  /\ UNCHANGED <<pce, env, changes>>

Reconcile(c) ==
  \/ AddFinalizer(c) \/ ResolveProfile(c) \/ ResolveProvider(c) \/ ResolveAllow(c)
  \/ MintLabel(c) \/ ResolveNarrow(c) \/ FindRuleSet(c) \/ CreateRuleSet(c) \/ ListRules(c)
  \/ DeleteRule(c) \/ FindService(c) \/ CreateRule(c) \/ Provision(c) \/ UpdateStatus(c)
  \/ FinalizeResolve(c) \/ FinalizeFind(c) \/ FinalizeDelete(c) \/ FinalizeProvision(c)
  \/ RemoveFinalizer(c)

-----------------------------------------------------------------------------
(* Failures *)

(* Calls ReconcilePolicy makes to the PCE; those of FinalizePolicy are apart   *)
(* because there a 429 is an error like any other.                             *)
PolicyCalls == {"scope", "lookup", "mint", "narrow", "find", "create", "list", "delete",
                "service", "rule", "provision"}

(* The call in progress fails without effect. *)
CallFails(c) ==
  /\ wk[c].pc # "idle"
  /\ Spend /\ Backoff(c)
  /\ UNCHANGED <<kube, pce, env, changes>>

(* 429: the status is written and Retry-After becomes the RequeueAfter; a zero *)
(* RequeueAfter is no requeue.                                                 *)
RateLimited(c) ==
  /\ wk[c].pc \in PolicyCalls
  /\ Spend
  /\ \E positive \in {TRUE, ~ RetryAfterZero} :
       wk' = [wk EXCEPT ![c] = Verdict(wk[c], "RateLimited", "keep", positive)]
  /\ UNCHANGED <<kube, queue, timer, pce, env, changes>>

(* The operator restarts, or a standby takes the lease: every reconcile and    *)
(* timer is lost, the cache is listed anew and every object enqueued.          *)
Restart ==
  /\ Spend
  /\ wk' = [c \in CR |-> Idle]
  /\ cache' = [c \in CR |-> View(cr[c])]
  /\ fresh' = [c \in CR |-> TRUE]
  /\ queue' = {c \in CR : cr[c].phase \in {"live", "deleting"}}
  /\ timer' = {}
  /\ UNCHANGED <<cr, pce, env, changes>>

-----------------------------------------------------------------------------
(* Users, administrators, the cluster *)

(* Somebody else writes the object: every snapshot of it is outdated. *)
Touch(c, new) ==
  /\ cr' = [cr EXCEPT ![c] = new]
  /\ fresh' = [fresh EXCEPT ![c] = FALSE]
  /\ wk' = [wk EXCEPT ![c].own = FALSE]
  /\ UNCHANGED <<cache, queue, timer, pce, env, faults>>

Change == changes > 0 /\ changes' = changes - 1

Create(c) ==
  /\ cr[c].phase = "absent"
  /\ Touch(c, [cr[c] EXCEPT !.phase = "live", !.gen = 1])
  /\ UNCHANGED changes

Edit(c) ==
  /\ cr[c].phase \in {"live", "deleting"}
  /\ cr[c].gen < Len(SpecOf[c])
  /\ Touch(c, [cr[c] EXCEPT !.gen = @ + 1])
  /\ UNCHANGED changes

(* The microsegment.io/provision=approved annotation is set or removed. *)
Approve(c) ==
  /\ cr[c].phase = "live"
  /\ ProvisioningMode = "manual"
  /\ Change
  /\ Touch(c, [cr[c] EXCEPT !.approved = ~ @])

Delete(c) ==
  /\ cr[c].phase = "live"
  /\ Touch(c, [cr[c] EXCEPT !.phase = IF cr[c].fin THEN "deleting" ELSE "gone"])
  /\ UNCHANGED changes

User(c) == Create(c) \/ Edit(c) \/ Approve(c) \/ Delete(c)

(* A workload or an administrator brings a new label to the PCE. *)
AddLabel ==
  /\ Change
  /\ \E l \in Label \ labels : labels' = labels \cup {l}
  /\ UNCHANGED <<kube, work, draft, active, env, faults>>

ChangeReadiness ==
  /\ Change
  /\ \E b \in Readiness \ {usable} : usable' = b
  /\ UNCHANGED <<kube, work, pce, scope, faults>>

Relabel ==
  /\ Change
  /\ \E s \in Scopes \ {scope} : scope' = s
  /\ UNCHANGED <<kube, work, pce, usable, faults>>

Environment == AddLabel \/ ChangeReadiness \/ Relabel

(* Somebody at the PCE console acts on the ruleset of c. *)
ConsoleDelete(c) ==
  /\ Writable(c) /\ Change /\ Deleted(c)
  /\ UNCHANGED <<kube, work, active, labels, env, faults>>

ConsoleRevert(c) ==
  /\ draft[c].marked /\ Change
  /\ draft' = [draft EXCEPT ![c].marked = FALSE]
  /\ UNCHANGED <<kube, work, active, labels, env, faults>>

ConsoleProvision(c) ==
  /\ draft[c].exists /\ Change
  /\ Provisioned(c, cr[c].gen)
  /\ UNCHANGED <<kube, work, labels, env, faults>>

Console == \E c \in CR : ConsoleDelete(c) \/ ConsoleRevert(c) \/ ConsoleProvision(c)

-----------------------------------------------------------------------------
Next ==
  \/ \E c \in CR : \/ CacheSync(c) \/ TimerFire(c) \/ Start(c) \/ Reconcile(c)
                   \/ CallFails(c) \/ RateLimited(c) \/ User(c)
  \/ Restart
  \/ Environment

Spec == Init /\ [][Next]_vars

(* With people working on the same rulesets at the PCE console. *)
ConsoleSpec == Init /\ [][Next \/ Console]_vars

(* The informer delivers, timers fire, a started reconcile goes on, and the    *)
(* FIFO work queue hands every key to the worker in the end (strong fairness:  *)
(* the worker may be busy with another key again and again).  Nothing is       *)
(* assumed of users, administrators or failures.                               *)
Fairness ==
  \A c \in CR : /\ WF_vars(CacheSync(c)) /\ WF_vars(TimerFire(c))
                /\ SF_vars(Start(c)) /\ WF_vars(Reconcile(c))
FairSpec == Spec /\ Fairness

-----------------------------------------------------------------------------
(* Properties *)

Phases == {"absent", "live", "deleting", "gone"}
Verdicts == {"none", "Compiled", "Rejected", "NotReady", "Conflict", "RateLimited"}
Steps == {"idle", "addfin", "resolve", "status", "finresolve", "finfind", "findelete",
          "finprovision", "release"} \cup PolicyCalls

Object == [phase : Phases, gen : Nat, fin : BOOLEAN, approved : BOOLEAN, ready : Verdicts,
           prov : {"none", "Provisioned", "Pending"}, obs : Nat]
Cached == [phase : Phases, gen : Nat, fin : BOOLEAN, approved : BOOLEAN]
Worker == [pc : Steps, own : BOOLEAN, gen : Nat, approved : BOOLEAN, scope : SUBSET Label,
           todo : SUBSET (Allow \X Label), make : SUBSET (Allow \X Label),
           hit : SUBSET (Allow \X Label),
           del : SUBSET Rule, add : SUBSET Rule, ready : Verdicts,
           prov : {"none", "keep", "Provisioned", "Pending"}, again : BOOLEAN]
Draft == [exists : BOOLEAN, marked : BOOLEAN, scope : SUBSET Label, rules : SUBSET Rule]
Active == [exists : BOOLEAN, gen : Nat, scope : SUBSET Label, rules : SUBSET Rule]

(* Type invariant. *)
TypeOK ==
  /\ cr \in [CR -> Object] /\ cache \in [CR -> Cached] /\ fresh \in [CR -> BOOLEAN]
  /\ queue \subseteq CR /\ timer \subseteq CR /\ wk \in [CR -> Worker]
  /\ draft \in [CR -> Draft] /\ active \in [CR -> Active]
  /\ labels \subseteq Label /\ scope \subseteq Label /\ usable \in BOOLEAN
  /\ faults \in Nat /\ changes \in Nat

(* What the PCE enforces for a CR is always the whole compilation of one       *)
(* generation the user asked for, never a draft half rebuilt and never a       *)
(* mixture of two generations (reconcileRuleSet, "the ENFORCED policy is       *)
(* untouched"; ProvisionRuleSets with a change_subset of one ruleset).         *)
ActiveIsComplete ==
  \A c \in CR : active[c].exists =>
    /\ active[c].gen \in 1..cr[c].gen
    /\ SpecOf[c][active[c].gen].valid
    /\ active[c].rules \in Compilations(SpecOf[c][active[c].gen])

(* A status that says Compiled and Provisioned for the current generation      *)
(* tells the truth: the rules enforced are those of this generation.           *)
StatusIsTruthful ==
  \A c \in CR :
    /\ cr[c].phase = "live" /\ cr[c].ready = "Compiled" /\ cr[c].prov = "Provisioned"
    /\ cr[c].obs = cr[c].gen
    => /\ active[c].exists /\ active[c].gen = cr[c].gen
       /\ active[c].rules \in Compilations(SpecOf[c][cr[c].gen])

(* A CR is gone only after its ruleset has left both policy stores: the        *)
(* finalizer is released once the PCE has carried out the deletion.            *)
NoOrphan ==
  \A c \in CR : cr[c].phase = "gone" => ~ draft[c].exists /\ ~ active[c].exists

(* The operator may give a CR up when the PCE asked it to wait for no time at  *)
(* all: a RequeueAfter of zero is no requeue.  Its status then says so.        *)
Stalled(c) ==
  /\ RetryAfterZero /\ cr[c].phase = "live"
  /\ cr[c].ready = "RateLimited" /\ cr[c].obs = cr[c].gen

(* Every CR the operator still owes work to will be looked at again: it is     *)
(* being reconciled, queued, waiting for a timer, or has an event on its way.  *)
(* Only a CR whose status says RateLimited for its current generation may have *)
(* been given up, and only where the PCE answers "Retry-After: 0".             *)
NoLostWakeup ==
  \A c \in CR :
    \/ cr[c].phase = "deleting"
    \/ cr[c].phase = "live" /\ SpecOf[c][cr[c].gen].valid
    => wk[c].pc # "idle" \/ c \in queue \/ c \in timer \/ ~ fresh[c] \/ Stalled(c)

(* The lifecycle keeps the promise of PolicyPromise: seen through the objects  *)
(* and the active policy store alone, every step is one of its steps or        *)
(* changes nothing.                                                            *)
Promise == INSTANCE PolicyPromise WITH
  asked <- [c \in CR |-> [phase |-> cr[c].phase, gen |-> cr[c].gen]],
  enforced <- [c \in CR |-> [exists |-> active[c].exists, gen |-> active[c].gen,
                             rules |-> active[c].rules]]
KeepsPromise == Promise!Spec

(* The current generation of c can be compiled and its labels resolved, ...    *)
Resolvable(c) ==
  LET s == SpecOf[c][cr[c].gen] IN
  /\ cr[c].phase = "live" /\ s.valid /\ usable
  /\ scope # {} /\ scope \subseteq labels /\ s.to \subseteq labels
  /\ \A p \in Lookups(s) :
       \/ p[2] \in labels
       \/ Mode = "skip"
       \/ Mode = "create" /\ p[2] \in Creatable

(* ... and the operator may enforce it. *)
Enforceable(c) ==
  /\ Resolvable(c) /\ ~ draft[c].marked
  /\ ProvisioningMode = "auto" \/ (ProvisioningMode = "manual" /\ cr[c].approved)

InForce(c) ==
  LET s == SpecOf[c][cr[c].gen] IN
  /\ active[c].exists /\ active[c].gen = cr[c].gen
  /\ active[c].rules = Rules(s, {p \in Lookups(s) : p[2] \in labels})

Reported(c) ==
  cr[c].ready = "Compiled" /\ cr[c].prov = "Provisioned" /\ cr[c].obs = cr[c].gen

(* However edits, failed calls, lost answers, stale caches and restarts fall,  *)
(* once they stop the last generation is in force with every label the PCE     *)
(* knows by then - a label that came late is picked up by the periodic         *)
(* requeue - and the status says so.                                           *)
Converges == \A c \in CR : <>[](Enforceable(c) => InForce(c))
StatusConverges == \A c \in CR : <>[](Enforceable(c) => Reported(c))

(* A deleted CR does not stay wedged on its finalizer. *)
DeletionCompletes == \A c \in CR : (cr[c].phase = "deleting") ~> (cr[c].phase = "gone")

(* The operator never carries out somebody else's pending deletion of the      *)
(* ruleset of a live CR (docs/reference/segmentationintent.md, PCEStateConflict:*)
(* "The operator defers rather than overriding the pending change").           *)
PendingDeletionRespected ==
  [][\A c \in CR :
       cr[c].phase = "live" /\ draft[c].marked /\ ~ draft'[c].exists
         => Console]_vars

(* A pending deletion the operator meets is shown in the status until somebody *)
(* resolves it, and the CR recovers by itself once it is.                      *)
ConflictIsReported ==
  \A c \in CR :
    <>[](Resolvable(c) /\ draft[c].marked => cr[c].ready = "Conflict")

(* An allow entry with an unknown label is deferred, not widened to the        *)
(* labels that are known (docs/guides/segmentation-policy.md:56, "from:        *)
(* { app: future-service, env: prod }  # will be deferred until the workload   *)
(* exists").                                                                   *)
NoRuleIsWidened ==
  \A c \in CR : \A r \in active[c].rules :
    \E a \in SpecOf[c][active[c].gen].allows : r.from = a.from

(* A namespace that is relabelled has its ruleset moved to the new scope       *)
(* (docs/guides/segmentation-policy.md:218, "The ruleset is **replaced in      *)
(* full** on every reconcile"; reconcileRuleSet replaces the rules of an       *)
(* existing ruleset and keeps its scope).                                      *)
ReplacedInFull ==
  \A c \in CR : <>[](Enforceable(c) => InForce(c) /\ active[c].scope = scope)
=============================================================================
