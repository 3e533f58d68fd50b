------------------------ MODULE PolicyPromise_proofs ------------------------
(* Proofs that the lifecycle keeps the promise of PolicyPromise, that it loses *)
(* no ruleset and that it forgets no CR, for every set of CRs, spec, mode and  *)
(* bound.                                                                      *)
EXTENDS PolicyLifecycle_proofs

-----------------------------------------------------------------------------
(* Invariants *)

(* A cache at the latest resourceVersion shows the object as it is, and an     *)
(* object is deleted slowly only under the finalizer.                          *)
Synced(c) ==
  /\ fresh[c] => cache[c] = View(cr[c])
  /\ cr[c].phase = "deleting" => cr[c].fin

(* A reconcile whose snapshot is the latest is about the object as it is.      *)
Seen(c) ==
  wk[c].pc # "idle" /\ wk[c].own =>
    /\ wk[c].gen = cr[c].gen
    /\ cr[c].phase = IF wk[c].pc \in FinalizeSteps THEN "deleting" ELSE "live"

KInv == TypeOK /\ \A c \in CR : Synced(c) /\ Seen(c)

(* With the invariant of the stores. *)
SInv == IInv /\ KInv

(* The finalizer is on the object, and the object in the API server. *)
Held(c) == cr[c].fin /\ cr[c].phase \in {"live", "deleting"}

(* Without outages a ruleset exists, and a reconcile may create one, only      *)
(* while the finalizer holds the object; it is released after the ruleset.     *)
Owned(c) ==
  /\ draft[c].exists => Held(c)
  /\ wk[c].pc \in PolicyCalls \cup {"resolve"} => Held(c)
  /\ cache[c].phase = "live" /\ cache[c].fin => Held(c)
  /\ wk[c].pc = "release" => ~ draft[c].exists

OInv == SInv /\ usable /\ \A c \in CR : Owned(c)

(* A verdict without a requeue is about a generation that does not compile, or *)
(* tells of a Retry-After of zero, and whom the operator owes work it will     *)
(* look at again, but for that one case.                                       *)
Awake(c) ==
  /\ wk[c].pc = "status" /\ ~ wk[c].again =>
       ~ SpecAt(c, wk[c].gen).valid \/ (RetryAfterZero /\ wk[c].ready = "RateLimited")
  /\ \/ cr[c].phase = "deleting"
     \/ cr[c].phase = "live" /\ SpecAt(c, cr[c].gen).valid
     => wk[c].pc # "idle" \/ c \in queue \/ c \in timer \/ ~ fresh[c] \/ Stalled(c)

WInv == KInv /\ \A c \in CR : Awake(c)

-----------------------------------------------------------------------------
(* How a reconcile goes on *)

Provisionable(v) == ProvisioningMode = "auto" \/ (ProvisioningMode = "manual" /\ v.approved)

(* w goes on with the snapshot of v, and does not end without a requeue. *)
Onward(v, w) ==
  /\ w.gen = v.gen /\ w.own = v.own /\ w.pc \notin {"idle", "addfin"}
  /\ w.pc \in FinalizeSteps <=> v.pc \in FinalizeSteps
  /\ w.pc = "status" => w.again
  /\ w.pc = "provision" => Provisionable(v)
  /\ w.pc # "status" => w.approved = v.approved

GoesOn(c) ==
  /\ \A d \in CR \ {c} : wk'[d] = wk[d]
  /\ queue \subseteq queue' /\ timer' = timer
  /\ \/ wk'[c] = Idle /\ c \in queue'
     \/ Onward(wk[c], wk'[c])

(* A call that ends one way or the other leaves its reconcile going on, or an  *)
(* error that is retried.                                                      *)
LEMMA EndsOnward ==
  ASSUME TypeOK, NEW c \in CR, NEW w, Onward(wk[c], w),
         Continue(c, w) \/ Answered(c, w) \/ Refused(c)
  PROVE  GoesOn(c)
BY DEF TypeOK, GoesOn, Continue, Answered, Refused, Backoff

(* A refusal is retried whatever the reconcile was about to do. *)
LEMMA RefusedGoesOn ==
  ASSUME TypeOK, NEW c \in CR, Refused(c)
  PROVE  GoesOn(c)
BY DEF TypeOK, GoesOn, Refused, Backoff

(* A verdict with a requeue ends a reconcile of a live CR. *)
LEMMA VerdictOnward ==
  ASSUME NEW v \in Worker, v.pc \notin FinalizeSteps, NEW r, NEW p
  PROVE  Onward(v, Verdict(v, r, p, TRUE))
<1> DEFINE x == Verdict(v, r, p, TRUE)
<1>1. x.pc = "status" /\ x.gen = v.gen /\ x.own = v.own /\ x.again
  BY DEF Verdict, Idle
<1> HIDE DEF x
<1>2. Onward(v, x)
  BY <1>1 DEF Onward, FinalizeSteps
<1> QED BY <1>2 DEF x

(* Another step of the same reconcile, before it provisions. *)
LEMMA StepOnward ==
  ASSUME NEW v, NEW w, w.gen = v.gen, w.own = v.own, w.approved = v.approved,
         w.pc \notin {"idle", "addfin", "status", "provision"},
         w.pc \in FinalizeSteps <=> v.pc \in FinalizeSteps
  PROVE  Onward(v, w)
BY DEF Onward

(* A look-up made goes on to the next one, or to the narrowing labels. *)
LEMMA LookedOnward ==
  ASSUME NEW v \in Worker, v.pc \notin FinalizeSteps, NEW x, NEW hit
  PROVE  Onward(v, Looked(v, x, hit))
<1> DEFINE p == IF v.todo = {x} THEN "narrow" ELSE "lookup"
           w == [v EXCEPT !.todo = @ \ {x}, !.make = {}, !.hit = hit, !.pc = p]
<1>1. w.pc = p /\ w.gen = v.gen /\ w.own = v.own /\ w.approved = v.approved
  <2> HIDE DEF p
  <2> QED BY DEF Worker
<1>2. Looked(v, x, hit) = w /\ p \in {"narrow", "lookup"}
  BY DEF Looked
<1> HIDE DEF w, p
<1> QED BY <1>1, <1>2, StepOnward DEF FinalizeSteps

(* What follows the creation of a rule: provisioning only when it may. *)
LEMMA AfterRulesOnward ==
  ASSUME NEW v \in Worker, v.pc \notin FinalizeSteps,
         NEW w \in Worker, w.gen = v.gen, w.own = v.own, w.approved = v.approved,
         w.pc \notin FinalizeSteps
  PROVE  Onward(v, AfterRules(w))
<1> DEFINE rule == [w EXCEPT !.pc = "rule"]
           prov == [w EXCEPT !.pc = "provision"]
           last == Verdict(w, "Compiled", "Pending", TRUE)
<1>1. rule.pc = "rule" /\ rule.gen = v.gen /\ rule.own = v.own /\ rule.approved = v.approved
  BY DEF Worker
<1>2. prov.pc = "provision" /\ prov.gen = v.gen /\ prov.own = v.own
      /\ prov.approved = v.approved
  BY DEF Worker
<1>3. last.pc = "status" /\ last.gen = v.gen /\ last.own = v.own /\ last.again
  BY DEF Verdict, Idle
<1>4. \/ AfterRules(w) = rule
      \/ AfterRules(w) = prov /\ DoProvision(w)
      \/ AfterRules(w) = last
  BY DEF AfterRules
<1> HIDE DEF rule, prov, last
<1> QED BY <1>1, <1>2, <1>3, <1>4 DEF Onward, FinalizeSteps, DoProvision, Provisionable

(* What follows the deletion of a rule. *)
LEMMA AfterDeletesOnward ==
  ASSUME NEW v \in Worker, v.pc \notin FinalizeSteps,
         NEW w \in Worker, w.gen = v.gen, w.own = v.own, w.approved = v.approved,
         w.pc \notin FinalizeSteps
  PROVE  Onward(v, AfterDeletes(w))
<1> DEFINE del == [w EXCEPT !.pc = "delete"]
           svc == [w EXCEPT !.pc = "service"]
<1>1. del.pc = "delete" /\ del.gen = v.gen /\ del.own = v.own /\ del.approved = v.approved
  BY DEF Worker
<1>2. svc.pc = "service" /\ svc.gen = v.gen /\ svc.own = v.own /\ svc.approved = v.approved
  BY DEF Worker
<1>3. \/ AfterDeletes(w) = del
      \/ AfterDeletes(w) = svc
      \/ AfterDeletes(w) = AfterRules(w)
  BY DEF AfterDeletes
<1> HIDE DEF del, svc
<1>4. Onward(v, del) /\ Onward(v, svc)
  BY <1>1, <1>2 DEF Onward, FinalizeSteps
<1> QED BY <1>3, <1>4, AfterRulesOnward

(* The steps of a reconcile that do not write the object. *)
Silent(c) ==
  \/ ResolveProfile(c) \/ ResolveProvider(c) \/ ResolveAllow(c) \/ MintLabel(c) \/ ResolveNarrow(c)
  \/ FindRuleSet(c) \/ CreateRuleSet(c) \/ ListRules(c) \/ DeleteRule(c) \/ FindService(c)
  \/ CreateRule(c) \/ Provision(c)
  \/ FinalizeResolve(c) \/ FinalizeFind(c) \/ FinalizeDelete(c) \/ FinalizeProvision(c)

(* The look-ups before the ruleset is touched go on with the same snapshot. *)
LEMMA ResolvingOnward ==
  ASSUME TypeOK, NEW c \in CR,
         \/ ResolveProfile(c) \/ ResolveProvider(c) \/ ResolveAllow(c) \/ MintLabel(c)
         \/ ResolveNarrow(c)
  PROVE  GoesOn(c)
<1>1. wk[c] \in Worker
  BY DEF TypeOK
<1>2. \A r : wk[c].pc \notin FinalizeSteps => Onward(wk[c], Verdict(wk[c], r, "keep", TRUE))
  BY <1>1, VerdictOnward
<1>3. CASE ResolveProfile(c)
  <2> DEFINE w == [wk[c] EXCEPT !.pc = "scope"]
  <2>1. Onward(wk[c], w)
    BY <1>1, <1>3, StepOnward DEF ResolveProfile, Worker, FinalizeSteps
  <2>2. Onward(wk[c], Verdict(wk[c], "NotReady", "keep", TRUE))
    BY <1>2, <1>3 DEF ResolveProfile, FinalizeSteps
  <2>3. Continue(c, w) \/ Continue(c, Verdict(wk[c], "NotReady", "keep", TRUE))
    BY <1>3 DEF ResolveProfile
  <2> QED BY <2>1, <2>2, <2>3, EndsOnward
<1>4. CASE ResolveProvider(c)
  <2> DEFINE todo == Lookups(SpecOf[c][wk[c].gen])
             p == IF todo = {} THEN "narrow" ELSE "lookup"
             w == [wk[c] EXCEPT !.pc = p, !.scope = scope, !.todo = todo]
  <2>1. w.pc = p /\ w.gen = wk[c].gen /\ w.own = wk[c].own /\ w.approved = wk[c].approved
    <3> HIDE DEF p, todo
    <3> QED BY <1>1 DEF Worker
  <2>2. Continue(c, w) \/ Continue(c, Verdict(wk[c], "Rejected", "keep", TRUE))
    BY <1>4 DEF ResolveProvider
  <2>3. wk[c].pc \notin FinalizeSteps /\ p \in {"narrow", "lookup"}
    BY <1>4 DEF ResolveProvider, FinalizeSteps
  <2> HIDE DEF w, p
  <2>4. Onward(wk[c], w)
    BY <2>1, <2>3, StepOnward DEF FinalizeSteps
  <2> QED BY <1>2, <2>2, <2>3, <2>4, EndsOnward
<1>5. CASE ResolveAllow(c)
  <2>1. wk[c].pc \notin FinalizeSteps
    BY <1>5 DEF ResolveAllow, FinalizeSteps
  <2>2. PICK x \in wk[c].todo :
          \/ \E hit : Continue(c, Looked(wk[c], x, hit))
          \/ Continue(c, [wk[c] EXCEPT !.pc = "mint", !.make = {x}])
          \/ Continue(c, Verdict(wk[c], "Rejected", "keep", TRUE))
    BY <1>5 DEF ResolveAllow
  <2> DEFINE w == [wk[c] EXCEPT !.pc = "mint", !.make = {x}]
  <2>3. w.pc = "mint" /\ w.gen = wk[c].gen /\ w.own = wk[c].own /\ w.approved = wk[c].approved
    BY <1>1 DEF Worker
  <2> HIDE DEF w
  <2>4. Onward(wk[c], w)
    BY <2>1, <2>3, StepOnward DEF FinalizeSteps
  <2>5. \/ \E hit : Continue(c, Looked(wk[c], x, hit))
        \/ Continue(c, w) \/ Continue(c, Verdict(wk[c], "Rejected", "keep", TRUE))
    BY <2>2 DEF w
  <2> QED BY <1>1, <1>2, <2>1, <2>4, <2>5, LookedOnward, EndsOnward
<1>6. CASE MintLabel(c)
  <2>1. wk[c].pc \notin FinalizeSteps
    BY <1>6 DEF MintLabel, FinalizeSteps
  <2>2. Refused(c) \/ \E x, hit : Answered(c, Looked(wk[c], x, hit))
    BY <1>6 DEF MintLabel
  <2> QED BY <1>1, <2>1, <2>2, LookedOnward, EndsOnward, RefusedGoesOn
<1>7. CASE ResolveNarrow(c)
  <2> DEFINE w == [wk[c] EXCEPT !.pc = "find", !.hit = {},
                                !.add = Rules(SpecOf[c][wk[c].gen], wk[c].hit)]
  <2>1. w.pc = "find" /\ w.gen = wk[c].gen /\ w.own = wk[c].own /\ w.approved = wk[c].approved
    BY <1>1 DEF Worker
  <2>2. Continue(c, w) \/ Continue(c, Verdict(wk[c], "Rejected", "keep", TRUE))
    BY <1>7 DEF ResolveNarrow
  <2>3. wk[c].pc \notin FinalizeSteps
    BY <1>7 DEF ResolveNarrow, FinalizeSteps
  <2> HIDE DEF w
  <2>4. Onward(wk[c], w)
    BY <2>1, <2>3, StepOnward DEF FinalizeSteps
  <2> QED BY <1>2, <2>2, <2>3, <2>4, EndsOnward
<1> QED BY <1>3, <1>4, <1>5, <1>6, <1>7

(* So do the steps that rebuild the ruleset. *)
LEMMA BuildingOnward ==
  ASSUME TypeOK, NEW c \in CR,
         \/ FindRuleSet(c) \/ CreateRuleSet(c) \/ ListRules(c) \/ DeleteRule(c)
         \/ FindService(c) \/ CreateRule(c)
  PROVE  GoesOn(c)
<1>1. wk[c] \in Worker /\ draft[c] \in Draft
  BY DEF TypeOK
<1>2. CASE FindRuleSet(c)
  <2> DEFINE w == [wk[c] EXCEPT !.pc = "create"]
             x == [wk[c] EXCEPT !.pc = "list", !.scope = {}]
  <2>1. /\ w.pc = "create" /\ w.gen = wk[c].gen /\ w.own = wk[c].own
        /\ w.approved = wk[c].approved
        /\ x.pc = "list" /\ x.gen = wk[c].gen /\ x.own = wk[c].own
        /\ x.approved = wk[c].approved
    BY <1>1 DEF Worker
  <2>2. \/ Continue(c, w) \/ Continue(c, x)
        \/ Continue(c, Verdict(wk[c], "Conflict", "keep", TRUE))
    BY <1>2 DEF FindRuleSet
  <2>3. wk[c].pc \notin FinalizeSteps
    BY <1>2 DEF FindRuleSet, FinalizeSteps
  <2> HIDE DEF w, x
  <2>4. Onward(wk[c], w) /\ Onward(wk[c], x)
    BY <2>1, <2>3, StepOnward DEF FinalizeSteps
  <2>5. Onward(wk[c], Verdict(wk[c], "Conflict", "keep", TRUE))
    BY <1>1, <2>3, VerdictOnward
  <2> QED BY <2>2, <2>4, <2>5, EndsOnward
<1>3. CASE CreateRuleSet(c)
  <2> DEFINE w == [wk[c] EXCEPT !.scope = {}]
  <2>1. w \in Worker /\ w.pc = "create" /\ w.gen = wk[c].gen /\ w.own = wk[c].own
        /\ w.approved = wk[c].approved /\ wk[c].pc = "create"
    BY <1>1, <1>3 DEF Worker, CreateRuleSet
  <2>2. Refused(c) \/ Answered(c, AfterDeletes(w))
    BY <1>3 DEF CreateRuleSet
  <2> HIDE DEF w
  <2>3. Onward(wk[c], AfterDeletes(w))
    BY <1>1, <2>1, AfterDeletesOnward DEF FinalizeSteps
  <2> QED BY <2>2, <2>3, EndsOnward
<1>4. CASE ListRules(c)
  <2> DEFINE w == [wk[c] EXCEPT !.del = draft[c].rules]
  <2>1. w \in Worker /\ w.pc = "list" /\ w.gen = wk[c].gen /\ w.own = wk[c].own
        /\ w.approved = wk[c].approved /\ wk[c].pc = "list"
    BY <1>1, <1>4 DEF Worker, Draft, ListRules
  <2>2. Refused(c) \/ Continue(c, AfterDeletes(w))
    BY <1>4 DEF ListRules
  <2> HIDE DEF w
  <2>3. Onward(wk[c], AfterDeletes(w))
    BY <1>1, <2>1, AfterDeletesOnward DEF FinalizeSteps
  <2> QED BY <2>2, <2>3, EndsOnward
<1>5. CASE DeleteRule(c)
  <2>1. wk[c].pc = "delete"
    BY <1>5 DEF DeleteRule
  <2>2. \/ Refused(c)
        \/ \E r \in wk[c].del : Answered(c, AfterDeletes([wk[c] EXCEPT !.del = @ \ {r}]))
    BY <1>5 DEF DeleteRule
  <2>3. ASSUME NEW r \in wk[c].del
        PROVE  Onward(wk[c], AfterDeletes([wk[c] EXCEPT !.del = @ \ {r}]))
    <3> DEFINE w == [wk[c] EXCEPT !.del = @ \ {r}]
    <3>1. w \in Worker /\ w.pc = "delete" /\ w.gen = wk[c].gen /\ w.own = wk[c].own
          /\ w.approved = wk[c].approved
      BY <1>1, <2>1 DEF Worker
    <3> HIDE DEF w
    <3>2. Onward(wk[c], AfterDeletes(w))
      BY <1>1, <2>1, <3>1, AfterDeletesOnward DEF FinalizeSteps
    <3> QED BY <3>2 DEF w
  <2> QED BY <2>2, <2>3, EndsOnward, RefusedGoesOn
<1>6. CASE FindService(c)
  <2>1. wk[c].pc = "service" /\ Continue(c, AfterRules(wk[c]))
    BY <1>6 DEF FindService
  <2>2. Onward(wk[c], AfterRules(wk[c]))
    BY <1>1, <2>1, AfterRulesOnward DEF FinalizeSteps
  <2> QED BY <2>1, <2>2, EndsOnward
<1>7. CASE CreateRule(c)
  <2>1. wk[c].pc = "rule"
    BY <1>7 DEF CreateRule
  <2>2. \/ Refused(c)
        \/ \E r \in wk[c].add : Answered(c, AfterRules([wk[c] EXCEPT !.add = @ \ {r}]))
    BY <1>7 DEF CreateRule
  <2>3. ASSUME NEW r \in wk[c].add
        PROVE  Onward(wk[c], AfterRules([wk[c] EXCEPT !.add = @ \ {r}]))
    <3> DEFINE w == [wk[c] EXCEPT !.add = @ \ {r}]
    <3>1. w \in Worker /\ w.pc = "rule" /\ w.gen = wk[c].gen /\ w.own = wk[c].own
          /\ w.approved = wk[c].approved
      BY <1>1, <2>1 DEF Worker
    <3> HIDE DEF w
    <3>2. Onward(wk[c], AfterRules(w))
      BY <1>1, <2>1, <3>1, AfterRulesOnward DEF FinalizeSteps
    <3> QED BY <3>2 DEF w
  <2> QED BY <2>2, <2>3, EndsOnward, RefusedGoesOn
<1> QED BY <1>2, <1>3, <1>4, <1>5, <1>6, <1>7

(* A finalizing reconcile goes on to another step of its own. *)
LEMMA FinalizingOnward ==
  ASSUME TypeOK, NEW c \in CR,
         FinalizeResolve(c) \/ FinalizeFind(c) \/ FinalizeDelete(c) \/ FinalizeProvision(c)
  PROVE  GoesOn(c)
<1>1. wk[c] \in Worker
  BY DEF TypeOK
<1>2. wk[c].pc \in FinalizeSteps
  BY DEF FinalizeResolve, FinalizeFind, FinalizeDelete, FinalizeProvision, FinalizeSteps
<1>3. \/ Refused(c)
      \/ \E p \in FinalizeSteps : \/ Continue(c, [wk[c] EXCEPT !.pc = p])
                                  \/ Answered(c, [wk[c] EXCEPT !.pc = p])
  <2>1. "release" \in FinalizeSteps /\ "finprovision" \in FinalizeSteps
        /\ "findelete" \in FinalizeSteps /\ "finfind" \in FinalizeSteps
    BY DEF FinalizeSteps
  <2>2. CASE FinalizeResolve(c)
    BY <2>1, <2>2 DEF FinalizeResolve
  <2>3. CASE FinalizeFind(c)
    BY <2>1, <2>3 DEF FinalizeFind
  <2>4. CASE FinalizeDelete(c)
    BY <2>1, <2>4 DEF FinalizeDelete
  <2>5. CASE FinalizeProvision(c)
    BY <2>1, <2>5 DEF FinalizeProvision
  <2> QED BY <2>2, <2>3, <2>4, <2>5
<1>4. ASSUME NEW p \in FinalizeSteps PROVE Onward(wk[c], [wk[c] EXCEPT !.pc = p])
  <2> DEFINE w == [wk[c] EXCEPT !.pc = p]
  <2>1. w.pc = p /\ w.gen = wk[c].gen /\ w.own = wk[c].own /\ w.approved = wk[c].approved
    BY <1>1 DEF Worker
  <2> HIDE DEF w
  <2>2. Onward(wk[c], w)
    BY <1>2, <2>1, StepOnward DEF FinalizeSteps
  <2> QED BY <2>2 DEF w
<1> QED BY <1>3, <1>4, EndsOnward, RefusedGoesOn

(* Whatever a reconcile does short of writing the object, it goes on with its  *)
(* snapshot or is retried.                                                     *)
LEMMA SilentGoesOn ==
  ASSUME TypeOK, NEW c \in CR, Silent(c)
  PROVE  GoesOn(c) /\ UNCHANGED kube
<1>1. UNCHANGED kube
  BY DEF Silent, ResolveProfile, ResolveProvider, ResolveAllow, MintLabel, ResolveNarrow, FindRuleSet,
         CreateRuleSet, ListRules, DeleteRule, FindService, CreateRule, Provision,
         FinalizeResolve, FinalizeFind, FinalizeDelete, FinalizeProvision
<1>2. CASE Provision(c)
  <2>1. wk[c] \in Worker /\ wk[c].pc \notin FinalizeSteps
    BY <1>2 DEF TypeOK, Provision, FinalizeSteps
  <2>2. Refused(c) \/ Answered(c, Verdict(wk[c], "Compiled", "Provisioned", TRUE))
    BY <1>2 DEF Provision
  <2> QED BY <1>1, <2>1, <2>2, VerdictOnward, EndsOnward, RefusedGoesOn
<1> QED BY <1>1, <1>2, ResolvingOnward, BuildingOnward, FinalizingOnward DEF Silent

-----------------------------------------------------------------------------
(* Snapshots and the cache *)

Still(d) ==
  cr'[d] = cr[d] /\ cache'[d] = cache[d] /\ fresh'[d] = fresh[d] /\ wk'[d] = wk[d]

(* A CR the step does not touch is seen as before. *)
LEMMA StillSeen ==
  ASSUME NEW d \in CR, Synced(d), Seen(d), Still(d)
  PROVE  Synced(d)' /\ Seen(d)'
BY DEF Synced, Seen, Still

(* A reconcile that goes on, or ends, changes nothing of what its snapshot was *)
(* about.                                                                      *)
LEMMA OnwardSeen ==
  ASSUME KInv, NEW c \in CR, GoesOn(c), UNCHANGED kube, wk[c].pc # "idle"
  PROVE  \A d \in CR : Synced(d)' /\ Seen(d)'
<1>1. UNCHANGED <<cr, cache, fresh>>
  BY DEF kube
<1>2. ASSUME NEW d \in CR, d # c PROVE Synced(d)' /\ Seen(d)'
  BY <1>1, <1>2, StillSeen DEF KInv, GoesOn, Still
<1>3. Synced(c)'
  BY <1>1 DEF KInv, Synced
<1>4. CASE wk'[c] = Idle
  BY <1>2, <1>3, <1>4 DEF Seen, Idle
<1>5. CASE Onward(wk[c], wk'[c])
  BY <1>1, <1>2, <1>3, <1>5 DEF KInv, Seen, Onward
<1> QED BY <1>4, <1>5 DEF GoesOn

LEMMA SilentSeen ==
  ASSUME KInv, NEW c \in CR, Silent(c)
  PROVE  \A d \in CR : Synced(d)' /\ Seen(d)'
<1>1. wk[c].pc # "idle"
  BY DEF Silent, ResolveProfile, ResolveProvider, ResolveAllow, MintLabel, ResolveNarrow, FindRuleSet,
         CreateRuleSet, ListRules, DeleteRule, FindService, CreateRule, Provision,
         FinalizeResolve, FinalizeFind, FinalizeDelete, FinalizeProvision
<1>2. GoesOn(c) /\ UNCHANGED kube
  BY SilentGoesOn DEF KInv
<1> QED BY <1>1, <1>2, OnwardSeen

(* What the operator stores of c leaves the other CRs alone, and the cache     *)
(* behind unless nothing changed.                                              *)
LEMMA Stored ==
  ASSUME TypeOK, NEW c \in CR, NEW o, Store(c, o)
  PROVE  /\ cr'[c] = o /\ cache' = cache /\ (fresh'[c] => fresh[c] /\ o = cr[c])
         /\ \A d \in CR \ {c} : cr'[d] = cr[d] /\ fresh'[d] = fresh[d]
BY DEF TypeOK, Store

(* What follows the compilation keeps the snapshot. *)
LEMMA CompiledKeeps ==
  ASSUME NEW c \in CR, NEW w \in Worker
  PROVE  LET x == Compiled(c, w) IN
         /\ x.gen = w.gen /\ x.own = w.own /\ x.pc \in {"resolve", "status"}
         /\ x.pc = "status" => ~ SpecAt(c, w.gen).valid
<1>1. CASE SpecOf[c][w.gen].valid
  <2> DEFINE x == [w EXCEPT !.pc = "resolve"]
  <2>1. Compiled(c, w) = x /\ x.gen = w.gen /\ x.own = w.own /\ x.pc = "resolve"
    BY <1>1 DEF Compiled, Worker
  <2> QED BY <2>1
<1>2. CASE ~ SpecOf[c][w.gen].valid
  <2> DEFINE x == Verdict(w, "Rejected", "keep", FALSE)
  <2>1. Compiled(c, w) = x /\ x.gen = w.gen /\ x.own = w.own /\ x.pc = "status"
    BY <1>2 DEF Compiled, Verdict, Idle
  <2> QED BY <1>2, <2>1 DEF SpecAt
<1> QED BY <1>1, <1>2

(* Nor do the operator's own writes: a reconcile that adds the finalizer goes  *)
(* on with the object it wrote, the other two end there.                       *)
LEMMA WriteSeen ==
  ASSUME KInv, NEW c \in CR, AddFinalizer(c) \/ UpdateStatus(c) \/ RemoveFinalizer(c)
  PROVE  \A d \in CR : Synced(d)' /\ Seen(d)'
<1>1. TypeOK /\ cr[c] \in Object /\ wk[c] \in Worker /\ Synced(c) /\ Seen(c)
  BY DEF KInv, TypeOK
<1>2. \A d \in CR \ {c} : wk'[d] = wk[d]
  BY <1>1 DEF TypeOK, AddFinalizer, UpdateStatus, RemoveFinalizer, Answered, Continue, Refused,
              Backoff
<1>3. CASE Refused(c) /\ UNCHANGED kube
  <2>1. wk'[c].pc = "idle" /\ UNCHANGED <<cr, cache, fresh>>
    BY <1>1, <1>3 DEF TypeOK, Refused, Backoff, Idle, kube
  <2>2. Synced(c)' /\ Seen(c)'
    BY <1>1, <2>1 DEF Synced, Seen
  <2> QED BY <1>2, <2>1, <2>2, StillSeen DEF KInv, Still
<1>4. ASSUME NEW o \in Object, Store(c, o), o.phase = "deleting" => o.fin,
             \/ wk'[c].pc = "idle"
             \/ /\ wk'[c].gen = wk[c].gen /\ wk'[c].own = wk[c].own /\ wk[c].pc = "addfin"
                /\ wk'[c].pc \in {"resolve", "status"}
                /\ o.gen = cr[c].gen /\ o.phase = cr[c].phase
      PROVE  \A d \in CR : Synced(d)' /\ Seen(d)'
  <2>1. /\ cr'[c] = o /\ cache' = cache /\ (fresh'[c] => fresh[c] /\ o = cr[c])
        /\ \A d \in CR \ {c} : cr'[d] = cr[d] /\ fresh'[d] = fresh[d]
    BY <1>1, <1>4, Stored
  <2>2. ASSUME NEW d \in CR, d # c PROVE Synced(d)' /\ Seen(d)'
    BY <1>2, <2>1, <2>2, StillSeen DEF KInv, Still
  <2>3. Synced(c)'
    BY <1>1, <1>4, <2>1 DEF Synced
  <2>4. Seen(c)'
    BY <1>1, <1>4, <2>1 DEF Seen, FinalizeSteps
  <2> QED BY <2>2, <2>3, <2>4
<1>5. CASE AddFinalizer(c)
  <2> DEFINE o == [cr[c] EXCEPT !.fin = TRUE]
  <2>1. o \in Object /\ o.fin /\ o.gen = cr[c].gen /\ o.phase = cr[c].phase
    BY <1>1 DEF Object
  <2>2. CASE Store(c, o) /\ Answered(c, Compiled(c, wk[c]))
    <3>1. wk'[c] = Idle \/ wk'[c] = Compiled(c, wk[c])
      BY <1>1, <2>2 DEF TypeOK, Answered, Continue, Backoff
    <3>2. \/ wk'[c].pc = "idle"
          \/ /\ wk'[c].gen = wk[c].gen /\ wk'[c].own = wk[c].own
             /\ wk'[c].pc \in {"resolve", "status"}
      BY <1>1, <3>1, CompiledKeeps DEF Idle
    <3>3. wk[c].pc = "addfin"
      BY <1>5 DEF AddFinalizer
    <3> HIDE DEF o
    <3> QED BY <1>4, <2>1, <2>2, <3>2, <3>3
  <2> QED BY <1>3, <1>5, <2>2 DEF AddFinalizer
<1>6. CASE UpdateStatus(c)
  <2> DEFINE o == Conditions(cr[c], wk[c])
  <2>1. o \in Object /\ o.fin = cr[c].fin /\ o.phase = cr[c].phase
    BY <1>1 DEF Object, Worker, Conditions
  <2>2. CASE ~ (Refused(c) /\ UNCHANGED kube)
    <3>1. Store(c, o) /\ wk'[c].pc = "idle"
      BY <1>1, <1>6, <2>2 DEF TypeOK, UpdateStatus, Backoff, Idle
    <3> HIDE DEF o
    <3> QED BY <1>1, <1>4, <2>1, <3>1 DEF Synced
  <2> QED BY <1>3, <2>2
<1>7. CASE RemoveFinalizer(c)
  <2> DEFINE o == [cr[c] EXCEPT !.phase = "gone", !.fin = FALSE]
  <2>1. o \in Object /\ o.phase = "gone"
    BY <1>1 DEF Object, Phases
  <2>2. CASE ~ (Refused(c) /\ UNCHANGED kube)
    <3>1. Store(c, o) /\ wk'[c].pc = "idle"
      BY <1>1, <1>7, <2>2 DEF TypeOK, RemoveFinalizer, Answered, Continue, Backoff, Idle
    <3> HIDE DEF o
    <3> QED BY <1>4, <2>1, <3>1
  <2> QED BY <1>3, <2>2
<1> QED BY <1>5, <1>6, <1>7

(* Somebody else's write outdates the cache and every snapshot. *)
LEMMA UserSeen ==
  ASSUME KInv, NEW c \in CR, User(c)
  PROVE  \A d \in CR : Synced(d)' /\ Seen(d)'
<1>1. TypeOK /\ cr[c] \in Object /\ Synced(c)
  BY DEF KInv, TypeOK
<1>2. PICK o : Touch(c, o) /\ (o.phase = "deleting" => o.fin)
  <2>1. CASE Create(c)
    <3> DEFINE o == [cr[c] EXCEPT !.phase = "live", !.gen = 1]
    <3>1. Touch(c, o) /\ o.phase = "live"
      BY <1>1, <2>1 DEF Create, Object
    <3> QED BY <3>1
  <2>2. CASE Edit(c)
    <3> DEFINE o == [cr[c] EXCEPT !.gen = @ + 1]
    <3>1. Touch(c, o) /\ o.phase = cr[c].phase /\ o.fin = cr[c].fin
      BY <1>1, <2>2 DEF Edit, Object
    <3> QED BY <1>1, <3>1 DEF Synced
  <2>3. CASE Approve(c)
    <3> DEFINE o == [cr[c] EXCEPT !.approved = ~ @]
    <3>1. Touch(c, o) /\ o.phase = cr[c].phase /\ o.fin = cr[c].fin
      BY <1>1, <2>3 DEF Approve, Object
    <3> QED BY <1>1, <3>1 DEF Synced
  <2>4. CASE Delete(c)
    <3> DEFINE p == IF cr[c].fin THEN "deleting" ELSE "gone"
               o == [cr[c] EXCEPT !.phase = p]
    <3>1. Touch(c, o)
      BY <2>4 DEF Delete
    <3>2. o.phase = p /\ o.fin = cr[c].fin
      <4> HIDE DEF p
      <4> QED BY <1>1 DEF Object
    <3> HIDE DEF o
    <3> QED BY <3>1, <3>2
  <2> QED BY <2>1, <2>2, <2>3, <2>4 DEF User
<1>3. /\ cr'[c] = o /\ ~ fresh'[c] /\ wk'[c].own = FALSE /\ cache' = cache
      /\ \A d \in CR \ {c} : cr'[d] = cr[d] /\ fresh'[d] = fresh[d] /\ wk'[d] = wk[d]
  BY <1>1, <1>2 DEF TypeOK, Touch, Worker
<1>4. ASSUME NEW d \in CR, d # c PROVE Synced(d)' /\ Seen(d)'
  BY <1>3, <1>4, StillSeen DEF KInv, Still
<1>5. Synced(c)' /\ Seen(c)'
  BY <1>2, <1>3 DEF Synced, Seen
<1> QED BY <1>4, <1>5

(* A reconcile starts from what the cache shows. *)
LEMMA BeginSeen ==
  ASSUME TypeOK, NEW c \in CR
  PROVE  LET w == Begin(c) IN
         w.pc # "idle" =>
           /\ w.own = fresh[c] /\ w.gen = cache[c].gen
           /\ cache[c].phase = IF w.pc \in FinalizeSteps THEN "deleting" ELSE "live"
           /\ w.pc \in FinalizeSteps \cup {"addfin", "resolve", "status"}
           /\ w.pc \notin FinalizeSteps \cup {"addfin"} => cache[c].fin
           /\ w.pc # "release"
           /\ w.pc = "status" => ~ SpecAt(c, w.gen).valid
<1>1. Snapshot(c) \in Worker /\ Snapshot(c).gen = cache[c].gen /\ Snapshot(c).own = fresh[c]
  BY SnapshotType
<1> DEFINE f == [Snapshot(c) EXCEPT !.pc = "finresolve"]
           a == [Snapshot(c) EXCEPT !.pc = "addfin"]
           s == Compiled(c, Snapshot(c))
<1>2. f.pc = "finresolve" /\ f.gen = cache[c].gen /\ f.own = fresh[c]
  BY <1>1 DEF Worker
<1>3. a.pc = "addfin" /\ a.gen = cache[c].gen /\ a.own = fresh[c]
  BY <1>1 DEF Worker
<1>4. s.pc \in {"resolve", "status"} /\ s.gen = cache[c].gen /\ s.own = fresh[c]
      /\ (s.pc = "status" => ~ SpecAt(c, s.gen).valid)
  BY <1>1, CompiledKeeps
<1>5. \/ Begin(c) = f /\ cache[c].phase = "deleting"
      \/ Begin(c) = a /\ cache[c].phase = "live"
      \/ Begin(c) = s /\ cache[c].phase = "live" /\ cache[c].fin
      \/ Begin(c).pc = "idle"
  BY DEF Begin, Idle
<1> HIDE DEF f, a, s
<1> QED BY <1>2, <1>3, <1>4, <1>5 DEF FinalizeSteps

(* The informer, the work queue and the failures keep what was seen true. *)
LEMMA DriverSeen ==
  ASSUME KInv, NEW c \in CR,
         CacheSync(c) \/ TimerFire(c) \/ Start(c) \/ CallFails(c) \/ RateLimited(c)
  PROVE  \A d \in CR : Synced(d)' /\ Seen(d)'
<1>1. TypeOK /\ Synced(c) /\ Seen(c) /\ wk[c] \in Worker
  BY DEF KInv, TypeOK
<1>2. CASE CacheSync(c)
  <2>1. /\ cr' = cr /\ wk' = wk /\ cache'[c] = View(cr[c])
        /\ \A d \in CR \ {c} : cache'[d] = cache[d] /\ fresh'[d] = fresh[d]
    BY <1>1, <1>2 DEF TypeOK, CacheSync
  <2>2. Synced(c)' /\ Seen(c)'
    BY <1>1, <2>1 DEF Synced, Seen
  <2> QED BY <2>1, <2>2, StillSeen DEF KInv, Still
<1>3. CASE TimerFire(c)
  BY <1>3, StillSeen DEF KInv, Still, TimerFire, kube
<1>4. CASE Start(c)
  <2>1. /\ UNCHANGED <<cr, cache, fresh>> /\ wk'[c] = Begin(c)
        /\ \A d \in CR \ {c} : wk'[d] = wk[d]
    BY <1>1, <1>4 DEF TypeOK, Start, kube
  <2>2. cache[c] = View(cr[c]) => cache[c].phase = cr[c].phase /\ cache[c].gen = cr[c].gen
    BY DEF View
  <2>3. Seen(c)'
    BY <1>1, <2>1, <2>2, BeginSeen DEF Synced, Seen
  <2>4. Synced(c)'
    BY <1>1, <2>1 DEF Synced
  <2> QED BY <2>1, <2>3, <2>4, StillSeen DEF KInv, Still
<1>5. CASE CallFails(c) \/ RateLimited(c)
  <2>1. UNCHANGED <<cr, cache, fresh>> /\ \A d \in CR \ {c} : wk'[d] = wk[d]
    BY <1>1, <1>5 DEF TypeOK, CallFails, RateLimited, Backoff, kube
  <2>2. \/ wk'[c].pc = "idle"
        \/ /\ wk'[c].pc = "status" /\ wk'[c].gen = wk[c].gen /\ wk'[c].own = wk[c].own
           /\ wk[c].pc \in PolicyCalls
    <3>1. CASE CallFails(c)
      BY <1>1, <3>1 DEF TypeOK, CallFails, Backoff, Idle
    <3>2. CASE RateLimited(c)
      <4>1. PICK b : wk'[c] = Verdict(wk[c], "RateLimited", "keep", b)
        BY <1>1, <3>2 DEF TypeOK, RateLimited
      <4> QED BY <3>2, <4>1 DEF Verdict, Idle, RateLimited
    <3> QED BY <1>5, <3>1, <3>2
  <2>3. Synced(c)' /\ Seen(c)'
    BY <1>1, <2>1, <2>2 DEF Synced, Seen, PolicyCalls, FinalizeSteps
  <2> QED BY <2>1, <2>3, StillSeen DEF KInv, Still
<1> QED BY <1>2, <1>3, <1>4, <1>5

(* What is seen is true at first, and stays so. *)
LEMMA InitSeen == Init => KInv
<1> SUFFICES ASSUME Init PROVE \A c \in CR : Synced(c) /\ Seen(c)
  BY InitInvariant DEF KInv, IInv
<1> QED BY DEF Init, Synced, Seen, Idle

LEMMA NextSeen ==
  ASSUME KInv, [Next]_vars
  PROVE  \A c \in CR : Synced(c)' /\ Seen(c)'
<1>1. CASE UNCHANGED vars \/ Environment
  <2>1. UNCHANGED <<cr, cache, fresh, wk>>
    BY <1>1 DEF vars, kube, work, Environment, AddLabel, ChangeReadiness, Relabel
  <2> QED BY <2>1, StillSeen DEF KInv, Still
<1>2. ASSUME NEW c \in CR, Reconcile(c) PROVE \A d \in CR : Synced(d)' /\ Seen(d)'
  BY <1>2, SilentSeen, WriteSeen DEF Reconcile, Silent
<1>3. CASE Restart
  BY <1>3 DEF KInv, Synced, Seen, Restart, Idle
<1> QED BY <1>1, <1>2, <1>3, UserSeen, DriverSeen DEF Next

LEMMA InitSynced == Init => SInv
BY InitInvariant, InitSeen DEF SInv

LEMMA NextSynced == SInv /\ [Next]_vars => SInv'
BY NextInvariant, NextSeen DEF SInv, KInv, IInv

-----------------------------------------------------------------------------
(* Wake-ups *)

(* A CR the step does not touch is looked at no later than before. *)
LEMMA StillAwake ==
  ASSUME NEW d \in CR, Awake(d), Still(d), d \in queue => d \in queue',
         d \in timer => d \in timer' \/ d \in queue'
  PROVE  Awake(d)'
BY DEF Awake, Still, Stalled

(* An error is retried, a step that goes on ends with a requeue. *)
LEMMA OnwardAwake ==
  ASSUME WInv, NEW c \in CR, GoesOn(c), UNCHANGED kube
  PROVE  \A d \in CR : Awake(d)'
<1>1. UNCHANGED <<cr, cache, fresh>>
  BY DEF kube
<1>2. ASSUME NEW d \in CR, d # c PROVE Awake(d)'
  BY <1>1, <1>2, StillAwake DEF WInv, GoesOn, Still
<1>3. CASE wk'[c] = Idle /\ c \in queue'
  BY <1>2, <1>3 DEF Awake, Idle
<1>4. CASE Onward(wk[c], wk'[c])
  BY <1>1, <1>2, <1>4 DEF Awake, Onward, Stalled
<1> QED BY <1>3, <1>4 DEF GoesOn

LEMMA SilentAwake ==
  ASSUME WInv, NEW c \in CR, Silent(c)
  PROVE  \A d \in CR : Awake(d)'
BY SilentGoesOn, OnwardAwake DEF WInv, KInv

(* A status that is written without a requeue is that of the current           *)
(* generation: it does not compile, or the status now says RateLimited.        *)
LEMMA WriteAwake ==
  ASSUME WInv, NEW c \in CR, AddFinalizer(c) \/ UpdateStatus(c) \/ RemoveFinalizer(c)
  PROVE  \A d \in CR : Awake(d)'
<1>1. TypeOK /\ cr[c] \in Object /\ wk[c] \in Worker /\ Seen(c) /\ Awake(c)
  BY DEF WInv, KInv, TypeOK
<1>2. /\ \A d \in CR \ {c} : wk'[d] = wk[d] /\ cr'[d] = cr[d] /\ fresh'[d] = fresh[d]
      /\ cache' = cache /\ queue \subseteq queue' /\ timer \subseteq timer'
  BY <1>1, Stored DEF TypeOK, AddFinalizer, UpdateStatus, RemoveFinalizer, Answered, Continue,
              Refused, Backoff, Store, kube, Requeue
<1>3. ASSUME NEW d \in CR, d # c PROVE Awake(d)'
  BY <1>2, <1>3, StillAwake DEF WInv, Still
<1>4. CASE Backoff(c)
  <2>1. wk'[c].pc = "idle" /\ c \in queue'
    BY <1>1, <1>4 DEF TypeOK, Backoff, Idle
  <2> QED BY <1>3, <2>1 DEF Awake
<1>5. CASE AddFinalizer(c) /\ ~ Backoff(c)
  <2>1. wk'[c] = Compiled(c, wk[c])
    BY <1>1, <1>5 DEF TypeOK, AddFinalizer, Answered, Continue, Refused
  <2>2. wk'[c].pc \in {"resolve", "status"}
        /\ (wk'[c].pc = "status" => ~ SpecAt(c, wk'[c].gen).valid)
    BY <1>1, <2>1, CompiledKeeps
  <2>3. Awake(c)'
    BY <2>2 DEF Awake, SpecAt
  <2> QED BY <1>3, <2>3
<1>6. CASE UpdateStatus(c) /\ ~ Backoff(c)
  <2> DEFINE o == Conditions(cr[c], wk[c])
  <2>1. wk[c].pc = "status" /\ wk[c].own /\ Store(c, o) /\ wk' = [wk EXCEPT ![c] = Idle]
        /\ Requeue(c)
    BY <1>6 DEF UpdateStatus, Refused
  <2>2. /\ o.phase = cr[c].phase /\ o.gen = cr[c].gen /\ o.fin = cr[c].fin
        /\ o.ready = wk[c].ready /\ o.obs = wk[c].gen
    BY <1>1 DEF Object, Worker, Conditions
  <2> HIDE DEF o
  <2>3. cr'[c] = o /\ wk'[c].pc = "idle"
    BY <1>1, <2>1, Stored DEF TypeOK, Idle
  <2>4. CASE wk[c].again
    BY <1>3, <2>1, <2>3, <2>4 DEF Awake, Requeue
  <2>5. CASE ~ wk[c].again
    <3>1. /\ wk[c].gen = cr[c].gen /\ cr[c].phase = "live"
          /\ ~ SpecAt(c, cr[c].gen).valid \/ (RetryAfterZero /\ wk[c].ready = "RateLimited")
      BY <1>1, <2>1, <2>5 DEF Awake, Seen, FinalizeSteps
    <3>2. Awake(c)'
      BY <2>2, <2>3, <3>1 DEF Awake, SpecAt, Stalled
    <3> QED BY <1>3, <3>2
  <2> QED BY <2>4, <2>5
<1>7. CASE RemoveFinalizer(c) /\ ~ Backoff(c)
  <2> DEFINE o == [cr[c] EXCEPT !.phase = "gone", !.fin = FALSE]
  <2>1. o.phase = "gone" /\ Store(c, o) /\ wk' = [wk EXCEPT ![c] = Idle]
    BY <1>1, <1>7 DEF RemoveFinalizer, Refused, Answered, Continue, Object
  <2> HIDE DEF o
  <2>2. cr'[c].phase = "gone" /\ wk'[c].pc = "idle"
    BY <1>1, <2>1, Stored DEF TypeOK, Idle
  <2> QED BY <1>3, <2>2 DEF Awake
<1> QED BY <1>4, <1>5, <1>6, <1>7

(* Somebody else's write brings an event. *)
LEMMA UserAwake ==
  ASSUME WInv, NEW c \in CR, User(c)
  PROVE  \A d \in CR : Awake(d)'
<1>1. TypeOK /\ Awake(c)
  BY DEF WInv, KInv
<1>2. PICK o : Touch(c, o)
  BY DEF User, Create, Edit, Approve, Delete
<1>3. /\ ~ fresh'[c] /\ cache' = cache /\ queue' = queue /\ timer' = timer
      /\ wk'[c].pc = wk[c].pc /\ wk'[c].again = wk[c].again /\ wk'[c].gen = wk[c].gen
      /\ wk'[c].ready = wk[c].ready
      /\ \A d \in CR \ {c} : cr'[d] = cr[d] /\ fresh'[d] = fresh[d] /\ wk'[d] = wk[d]
  BY <1>1, <1>2 DEF TypeOK, Touch, Worker
<1>4. ASSUME NEW d \in CR, d # c PROVE Awake(d)'
  BY <1>3, <1>4, StillAwake DEF WInv, Still
<1>5. Awake(c)'
  BY <1>1, <1>3 DEF Awake
<1> QED BY <1>4, <1>5

(* A key taken from the queue is dropped only when nothing is owed, ... *)
LEMMA StartAwake ==
  ASSUME WInv, NEW c \in CR, Start(c)
  PROVE  \A d \in CR : Awake(d)'
<1>1. TypeOK /\ Synced(c)
  BY DEF WInv, KInv
<1>2. /\ UNCHANGED <<cr, cache, fresh, timer>> /\ wk'[c] = Begin(c) /\ queue' = queue \ {c}
      /\ \A d \in CR \ {c} : wk'[d] = wk[d]
  BY <1>1 DEF TypeOK, Start, kube
<1>3. ASSUME NEW d \in CR, d # c PROVE Awake(d)'
  BY <1>2, <1>3, StillAwake DEF WInv, Still
<1>4. CASE Begin(c).pc # "idle"
  <2>1. Begin(c).pc = "status" => ~ SpecAt(c, Begin(c).gen).valid
    BY <1>1, <1>4, BeginSeen
  <2>2. Awake(c)'
    BY <1>2, <1>4, <2>1 DEF Awake, SpecAt
  <2> QED BY <1>3, <2>2
<1>5. CASE Begin(c).pc = "idle"
  <2>1. ~ (cache[c].phase = "deleting" /\ cache[c].fin) /\ cache[c].phase # "live"
    <3>1. Snapshot(c) \in Worker
      BY <1>1, SnapshotType
    <3>2. /\ [Snapshot(c) EXCEPT !.pc = "finresolve"].pc = "finresolve"
          /\ [Snapshot(c) EXCEPT !.pc = "addfin"].pc = "addfin"
      BY <3>1 DEF Worker
    <3>3. Compiled(c, Snapshot(c)).pc # "idle"
      BY <3>1, CompiledKeeps
    <3>4. CASE cache[c].phase = "deleting" /\ cache[c].fin
      BY <1>5, <3>2, <3>4 DEF Begin
    <3>5. CASE cache[c].phase = "live" /\ ~ cache[c].fin
      BY <1>5, <3>2, <3>5 DEF Begin
    <3>6. CASE cache[c].phase = "live" /\ cache[c].fin
      BY <1>5, <3>3, <3>6 DEF Begin
    <3> QED BY <3>4, <3>5, <3>6
  <2>2. fresh[c] => cr[c].phase \notin {"live", "deleting"}
    BY <1>1, <2>1 DEF Synced, View
  <2>3. Awake(c)'
    BY <1>2, <1>5, <2>2 DEF Awake
  <2> QED BY <1>3, <2>3
<1> QED BY <1>4, <1>5

(* ... and everything else the operator's runtime does enqueues the key, or    *)
(* ends with a requeue, unless the PCE asks for a Retry-After of zero.         *)
LEMMA DriverAwake ==
  ASSUME WInv, NEW c \in CR,
         CacheSync(c) \/ TimerFire(c) \/ CallFails(c) \/ RateLimited(c)
  PROVE  \A d \in CR : Awake(d)'
<1>1. TypeOK /\ Awake(c)
  BY DEF WInv, KInv
<1>2. /\ \A d \in CR \ {c} : Still(d) /\ (d \in timer => d \in timer')
      /\ queue \subseteq queue'
  BY <1>1 DEF TypeOK, CacheSync, TimerFire, CallFails, RateLimited, Backoff, kube, Still
<1>3. ASSUME NEW d \in CR, d # c PROVE Awake(d)'
  BY <1>2, <1>3, StillAwake DEF WInv
<1>4. CASE CacheSync(c) \/ TimerFire(c)
  <2>1. c \in queue' /\ wk' = wk
    BY <1>4 DEF CacheSync, TimerFire
  <2> QED BY <1>1, <1>3, <2>1 DEF Awake
<1>5. CASE CallFails(c)
  <2>1. c \in queue' /\ wk'[c].pc = "idle"
    BY <1>1, <1>5 DEF TypeOK, CallFails, Backoff, Idle
  <2> QED BY <1>3, <2>1 DEF Awake
<1>6. CASE RateLimited(c)
  <2>1. PICK b \in {TRUE, ~ RetryAfterZero} :
          wk' = [wk EXCEPT ![c] = Verdict(wk[c], "RateLimited", "keep", b)]
    BY <1>6 DEF RateLimited
  <2>2. wk'[c] = Verdict(wk[c], "RateLimited", "keep", b)
    BY <1>1, <2>1 DEF TypeOK
  <2>3. wk'[c].pc = "status" /\ wk'[c].again = b /\ wk'[c].ready = "RateLimited"
    BY <2>2, VerdictFields
  <2>4. Awake(c)'
    BY <2>3, FlagAssumption DEF Awake
  <2> QED BY <1>3, <2>4
<1> QED BY <1>4, <1>5, <1>6

(* Nothing is owed at first, ... *)
LEMMA InitAwake == Init => WInv
<1> SUFFICES ASSUME Init PROVE \A c \in CR : Awake(c)
  BY InitSeen DEF WInv
<1> QED BY DEF Init, Awake, Idle

(* ... and whatever is owed later is something a step left behind. *)
LEMMA NextAwake ==
  ASSUME WInv, [Next]_vars
  PROVE  \A c \in CR : Awake(c)'
<1>1. CASE UNCHANGED vars \/ Environment
  <2>1. UNCHANGED <<cr, cache, fresh, wk, queue, timer>>
    BY <1>1 DEF vars, kube, work, Environment, AddLabel, ChangeReadiness, Relabel
  <2> QED BY <2>1, StillAwake DEF WInv, Still
<1>2. ASSUME NEW c \in CR, Reconcile(c) PROVE \A d \in CR : Awake(d)'
  BY <1>2, SilentAwake, WriteAwake DEF Reconcile, Silent
<1>3. CASE Restart
  BY <1>3 DEF Awake, Restart, Idle
<1> QED BY <1>1, <1>2, <1>3, UserAwake, StartAwake, DriverAwake DEF Next

(* Who is awake is not forgotten. *)
LEMMA AwakeIsRemembered == WInv => NoLostWakeup
BY DEF WInv, Awake, NoLostWakeup, SpecAt

(* No CR the operator owes work to is forgotten: of any failed call, lost      *)
(* answer, stale snapshot, swallowed verdict or restart something is left that *)
(* brings it back.  The one exception is a 429 with a Retry-After of zero, and *)
(* then the status says RateLimited.                                           *)
THEOREM NothingLost == Spec => []NoLostWakeup
<1>1. Init => SInv /\ WInv
  BY InitSynced, InitAwake
<1>2. SInv /\ WInv /\ [Next]_vars => (SInv /\ WInv)'
  BY NextSynced, NextAwake DEF SInv, WInv
<1> QED BY <1>1, <1>2, AwakeIsRemembered, PTL DEF Spec

-----------------------------------------------------------------------------
(* The finalizer *)

(* A CR whose finalizer the step leaves in place is owned as before, unless    *)
(* its stores, cache or reconcile move.                                        *)
LEMMA StillOwned ==
  ASSUME NEW d \in CR, Owned(d), Held(d) => Held(d)', wk'[d].pc = wk[d].pc,
         cache'[d] = cache[d], draft'[d] = draft[d]
  PROVE  Owned(d)'
BY DEF Owned

(* A ruleset comes into being only in the step that creates it, and no step of *)
(* the reconcile of c touches another's.                                       *)
LEMMA SilentDraft ==
  ASSUME TypeOK, NEW c \in CR, Silent(c)
  PROVE  /\ \A d \in CR \ {c} : draft'[d] = draft[d]
         /\ draft'[c].exists => draft[c].exists \/ wk[c].pc = "create"
<1>1. draft \in [CR -> Draft] /\ draft[c] \in Draft
  BY DEF TypeOK
<1>2. CASE UNCHANGED draft
  BY <1>2
<1>3. CASE CreateRuleSet(c)
  BY <1>1, <1>3 DEF CreateRuleSet
<1>4. CASE DeleteRule(c) \/ CreateRule(c)
  <2>1. UNCHANGED draft \/ \E R : draft' = [draft EXCEPT ![c].rules = R]
    BY <1>4 DEF DeleteRule, CreateRule
  <2>2. ASSUME NEW R, draft' = [draft EXCEPT ![c].rules = R]
        PROVE  draft'[c].exists = draft[c].exists /\ \A d \in CR \ {c} : draft'[d] = draft[d]
    BY <1>1, <2>2 DEF Draft
  <2> QED BY <2>1, <2>2
<1>5. CASE Provision(c) \/ FinalizeProvision(c)
  <2>1. UNCHANGED draft \/ \E g : Provisioned(c, g)
    BY <1>5 DEF Provision, FinalizeProvision
  <2>2. ASSUME NEW g, Provisioned(c, g)
        PROVE  /\ draft'[c].exists => draft[c].exists
               /\ \A d \in CR \ {c} : draft'[d] = draft[d]
    BY <1>1, <2>2 DEF Provisioned, NoRuleSet
  <2> QED BY <2>1, <2>2
<1>6. CASE FinalizeDelete(c)
  <2>1. UNCHANGED draft \/ Writable(c)
    BY <1>6 DEF FinalizeDelete
  <2>2. UNCHANGED draft \/ Deleted(c)
    BY <1>6 DEF FinalizeDelete
  <2>3. Deleted(c) => \A d \in CR \ {c} : draft'[d] = draft[d]
    BY <1>1 DEF Deleted
  <2> QED BY <2>1, <2>2, <2>3 DEF Writable
<1> QED BY <1>2, <1>3, <1>4, <1>5, <1>6
        DEF Silent, ResolveProfile, ResolveProvider, ResolveAllow, MintLabel, ResolveNarrow, FindRuleSet,
            ListRules, FindService, FinalizeResolve, FinalizeFind, pce

(* The release of the finalizer comes after the ruleset, as long as the        *)
(* profile is found usable.                                                    *)
LEMMA ReleaseAfterRuleSet ==
  ASSUME IInv, usable, NEW c \in CR, Silent(c), wk'[c].pc = "release"
  PROVE  ~ draft'[c].exists
<1>1. TypeOK /\ wk[c] \in Worker /\ draft[c] \in Draft /\ Good(c)
  BY InProgress
<1>2. GoesOn(c)
  BY <1>1, SilentGoesOn
<1>3. wk[c].pc \in FinalizeSteps
  BY <1>2 DEF GoesOn, Onward, Idle, FinalizeSteps
<1>4. CASE FinalizeResolve(c)
  <2>1. wk'[c].pc = "finfind"
    BY <1>1, <1>4 DEF TypeOK, FinalizeResolve, Continue, Worker
  <2> QED BY <2>1
<1>5. CASE FinalizeFind(c)
  <2> DEFINE p == IF ~ draft[c].exists THEN "release"
                  ELSE IF draft[c].marked THEN "finprovision" ELSE "findelete"
  <2>1. wk' = [wk EXCEPT ![c] = [wk[c] EXCEPT !.pc = p]] /\ draft' = draft
    BY <1>5 DEF FinalizeFind, Continue, pce
  <2>2. wk'[c].pc = p
    <3> HIDE DEF p
    <3> QED BY <1>1, <2>1 DEF TypeOK, Worker
  <2> QED BY <2>1, <2>2
<1>6. CASE FinalizeDelete(c)
  <2> DEFINE w == [wk[c] EXCEPT !.pc = "finprovision"]
  <2>1. Continue(c, w) \/ Answered(c, w) \/ Refused(c)
    BY <1>6 DEF FinalizeDelete
  <2>2. w.pc = "finprovision"
    BY <1>1 DEF Worker
  <2> HIDE DEF w
  <2>3. wk'[c] \in {w, Idle}
    BY <1>1, <2>1 DEF TypeOK, Continue, Answered, Refused, Backoff
  <2> QED BY <2>2, <2>3 DEF Idle
<1>7. CASE FinalizeProvision(c)
  <2>1. wk[c].pc = "finprovision"
    BY <1>7 DEF FinalizeProvision
  <2>2. CASE ~ draft[c].exists
    BY <1>7, <2>2 DEF FinalizeProvision
  <2>3. CASE draft[c].exists
    <3>1. draft[c].marked
      BY <1>1, <2>1, <2>3 DEF Good, Fits, Finalizing
    <3>2. draft'[c] = NoRuleSet
      BY <1>1, <1>7, <2>3, <3>1 DEF TypeOK, FinalizeProvision, Provisioned
    <3> QED BY <3>2 DEF NoRuleSet
  <2> QED BY <2>2, <2>3
<1> QED BY <1>3, <1>4, <1>5, <1>6, <1>7
        DEF Silent, ResolveProfile, ResolveProvider, ResolveAllow, MintLabel, ResolveNarrow, FindRuleSet,
            CreateRuleSet, ListRules, DeleteRule, FindService, CreateRule, Provision,
            FinalizeSteps

(* What a reconcile does short of writing the object is done under the         *)
(* finalizer, and keeps it.                                                    *)
LEMMA SilentOwned ==
  ASSUME OInv, NEW c \in CR, Silent(c)
  PROVE  \A d \in CR : Owned(d)'
<1>1. TypeOK /\ IInv /\ Owned(c) /\ wk[c] \in Worker
  BY DEF OInv, SInv, KInv, IInv, TypeOK
<1>2. GoesOn(c) /\ UNCHANGED <<cr, cache>> /\ (\A d \in CR \ {c} : draft'[d] = draft[d])
      /\ (draft'[c].exists => draft[c].exists \/ wk[c].pc = "create")
  BY <1>1, SilentGoesOn, SilentDraft DEF kube
<1>3. ASSUME NEW d \in CR, d # c PROVE Owned(d)'
  BY <1>2, <1>3, StillOwned DEF OInv, GoesOn, Held
<1>4. wk[c].pc \in PolicyCalls \cup {"resolve"} \cup FinalizeSteps
  BY DEF Silent, ResolveProfile, ResolveProvider, ResolveAllow, MintLabel, ResolveNarrow, FindRuleSet,
         CreateRuleSet, ListRules, DeleteRule, FindService, CreateRule, Provision,
         FinalizeResolve, FinalizeFind, FinalizeDelete, FinalizeProvision,
         PolicyCalls, FinalizeSteps
<1>5. wk'[c].pc \in PolicyCalls \cup {"resolve"} => wk[c].pc \in PolicyCalls \cup {"resolve"}
  BY <1>2, <1>4 DEF GoesOn, Onward, Idle, PolicyCalls, FinalizeSteps
<1>6. draft'[c].exists => Held(c)'
  BY <1>1, <1>2 DEF Owned, Held, PolicyCalls
<1>7. wk'[c].pc = "release" => ~ draft'[c].exists
  BY <1>1, ReleaseAfterRuleSet DEF OInv
<1>8. Owned(c)'
  BY <1>1, <1>2, <1>5, <1>6, <1>7 DEF Owned, Held
<1> QED BY <1>3, <1>8

(* The finalizer is added to a live object, and released after the ruleset. *)
LEMMA WriteOwned ==
  ASSUME OInv, NEW c \in CR, AddFinalizer(c) \/ UpdateStatus(c) \/ RemoveFinalizer(c)
  PROVE  \A d \in CR : Owned(d)'
<1>1. TypeOK /\ cr[c] \in Object /\ wk[c] \in Worker /\ Seen(c) /\ Owned(c) /\ Good(c)
  BY DEF OInv, SInv, KInv, IInv, TypeOK
<1>2. UNCHANGED <<cache, draft>> /\ \A d \in CR \ {c} : wk'[d] = wk[d] /\ cr'[d] = cr[d]
  BY <1>1, Stored DEF TypeOK, AddFinalizer, UpdateStatus, RemoveFinalizer, Answered, Continue,
              Refused, Backoff, Store, kube, pce
<1>3. ASSUME NEW d \in CR, d # c PROVE Owned(d)'
  BY <1>2, <1>3, StillOwned DEF OInv, Held
<1>4. ASSUME wk'[c].pc = "idle", Held(c) => Held(c)' PROVE Owned(c)'
  BY <1>1, <1>2, <1>4 DEF Owned, PolicyCalls
<1>5. CASE Refused(c) /\ UNCHANGED kube
  <2>1. wk'[c].pc = "idle" /\ cr' = cr
    BY <1>1, <1>5 DEF TypeOK, Refused, Backoff, Idle, kube
  <2> QED BY <1>3, <1>4, <2>1 DEF Held
<1>6. CASE AddFinalizer(c) /\ ~ (Refused(c) /\ UNCHANGED kube)
  <2> DEFINE o == [cr[c] EXCEPT !.fin = TRUE]
  <2>1. wk[c].pc = "addfin" /\ wk[c].own /\ Store(c, o) /\ Answered(c, Compiled(c, wk[c]))
    BY <1>6 DEF AddFinalizer
  <2>2. o.fin /\ o.phase = cr[c].phase /\ cr[c].phase = "live"
    BY <1>1, <2>1 DEF Object, Seen, FinalizeSteps
  <2> HIDE DEF o
  <2>3. Held(c)'
    BY <1>1, <2>1, <2>2, Stored DEF Held
  <2>4. wk'[c] = Idle \/ wk'[c] = Compiled(c, wk[c])
    BY <1>1, <2>1 DEF TypeOK, Answered, Continue, Backoff
  <2>5. wk'[c].pc # "release"
    BY <1>1, <2>4, CompiledKeeps DEF Idle
  <2> QED BY <1>3, <2>3, <2>5 DEF Owned
<1>7. CASE UpdateStatus(c) /\ ~ (Refused(c) /\ UNCHANGED kube)
  <2> DEFINE o == Conditions(cr[c], wk[c])
  <2>1. Store(c, o) /\ wk'[c].pc = "idle"
    BY <1>1, <1>7 DEF TypeOK, UpdateStatus, Backoff, Idle
  <2>2. o.fin = cr[c].fin /\ o.phase = cr[c].phase
    BY <1>1 DEF Object, Worker, Conditions
  <2> HIDE DEF o
  <2>3. Held(c) => Held(c)'
    BY <1>1, <2>1, <2>2, Stored DEF Held
  <2> QED BY <1>3, <1>4, <2>1, <2>3
<1>8. CASE RemoveFinalizer(c) /\ ~ (Refused(c) /\ UNCHANGED kube)
  <2>1. wk[c].pc = "release" /\ wk'[c].pc = "idle"
    BY <1>1, <1>8 DEF TypeOK, RemoveFinalizer, Answered, Continue, Backoff, Idle
  <2>2. ~ draft[c].exists /\ cache[c].phase # "live"
    BY <1>1, <2>1 DEF Owned, Good, Fits, Finalizing, FinalizeSteps
  <2>3. Owned(c)'
    BY <1>2, <2>1, <2>2 DEF Owned, PolicyCalls
  <2> QED BY <1>3, <2>3
<1> QED BY <1>5, <1>6, <1>7, <1>8

(* A user's deletion waits for the finalizer, when there is one. *)
LEMMA UserOwned ==
  ASSUME OInv, NEW c \in CR, User(c)
  PROVE  \A d \in CR : Owned(d)'
<1>1. TypeOK /\ cr[c] \in Object
  BY DEF OInv, SInv, KInv, IInv, TypeOK
<1>2. PICK o : Touch(c, o) /\ (Held(c) => o.fin /\ o.phase \in {"live", "deleting"})
  <2>1. CASE Create(c)
    <3> DEFINE o == [cr[c] EXCEPT !.phase = "live", !.gen = 1]
    <3>1. Touch(c, o) /\ ~ Held(c)
      BY <2>1 DEF Create, Held
    <3> QED BY <3>1
  <2>2. CASE Edit(c)
    <3> DEFINE o == [cr[c] EXCEPT !.gen = @ + 1]
    <3>1. Touch(c, o) /\ o.phase = cr[c].phase /\ o.fin = cr[c].fin
      BY <1>1, <2>2 DEF Edit, Object
    <3> QED BY <3>1 DEF Held
  <2>3. CASE Approve(c)
    <3> DEFINE o == [cr[c] EXCEPT !.approved = ~ @]
    <3>1. Touch(c, o) /\ o.phase = cr[c].phase /\ o.fin = cr[c].fin
      BY <1>1, <2>3 DEF Approve, Object
    <3> QED BY <3>1 DEF Held
  <2>4. CASE Delete(c)
    <3> DEFINE p == IF cr[c].fin THEN "deleting" ELSE "gone"
               o == [cr[c] EXCEPT !.phase = p]
    <3>1. Touch(c, o)
      BY <2>4 DEF Delete
    <3>2. o.phase = p /\ o.fin = cr[c].fin
      <4> HIDE DEF p
      <4> QED BY <1>1 DEF Object
    <3> HIDE DEF o
    <3> QED BY <3>1, <3>2 DEF Held
  <2> QED BY <2>1, <2>2, <2>3, <2>4 DEF User
<1>3. /\ cr'[c] = o /\ wk'[c].pc = wk[c].pc /\ UNCHANGED <<cache, draft>>
      /\ \A d \in CR \ {c} : cr'[d] = cr[d] /\ wk'[d] = wk[d]
  BY <1>1, <1>2 DEF TypeOK, Touch, Worker, pce
<1>4. Held(c) => Held(c)'
  BY <1>2, <1>3 DEF Held
<1> QED BY <1>3, <1>4, StillOwned DEF OInv, Held

(* A reconcile starts on a policy only when the cache shows the finalizer. *)
LEMMA DriverOwned ==
  ASSUME OInv, NEW c \in CR,
         CacheSync(c) \/ TimerFire(c) \/ Start(c) \/ CallFails(c) \/ RateLimited(c)
  PROVE  \A d \in CR : Owned(d)'
<1>1. TypeOK /\ Owned(c) /\ wk[c] \in Worker
  BY DEF OInv, SInv, KInv, IInv, TypeOK
<1>2. UNCHANGED <<cr, draft>> /\ \A d \in CR \ {c} : wk'[d] = wk[d] /\ cache'[d] = cache[d]
  BY <1>1 DEF TypeOK, CacheSync, TimerFire, Start, CallFails, RateLimited, Backoff, kube, pce
<1>3. ASSUME NEW d \in CR, d # c PROVE Owned(d)'
  BY <1>2, <1>3, StillOwned DEF OInv, Held
<1>4. CASE CacheSync(c)
  <2>1. cache'[c] = View(cr[c]) /\ wk' = wk
    BY <1>1, <1>4 DEF TypeOK, CacheSync
  <2>2. Owned(c)'
    BY <1>1, <1>2, <2>1 DEF Owned, Held, View
  <2> QED BY <1>3, <2>2
<1>5. CASE TimerFire(c)
  <2>1. Owned(c)'
    BY <1>1, <1>5 DEF Owned, Held, TimerFire, kube, pce
  <2> QED BY <1>3, <2>1
<1>6. CASE Start(c)
  <2>1. wk'[c] = Begin(c) /\ cache' = cache
    BY <1>1, <1>6 DEF TypeOK, Start, kube
  <2>2. /\ Begin(c).pc # "release"
        /\ Begin(c).pc \in PolicyCalls \cup {"resolve"} => cache[c].phase = "live" /\ cache[c].fin
    BY <1>1, BeginSeen DEF PolicyCalls, FinalizeSteps
  <2>3. Owned(c)'
    BY <1>1, <1>2, <2>1, <2>2 DEF Owned, Held
  <2> QED BY <1>3, <2>3
<1>7. CASE CallFails(c) \/ RateLimited(c)
  <2>1. cache' = cache
    BY <1>7 DEF CallFails, RateLimited, kube
  <2>2. wk'[c].pc \in {"idle", "status"}
    <3>1. CASE CallFails(c)
      BY <1>1, <3>1 DEF TypeOK, CallFails, Backoff, Idle
    <3>2. CASE RateLimited(c)
      <4>1. PICK b : wk'[c] = Verdict(wk[c], "RateLimited", "keep", b)
        BY <1>1, <3>2 DEF TypeOK, RateLimited
      <4> QED BY <4>1 DEF Verdict, Idle
    <3> QED BY <1>7, <3>1, <3>2
  <2>3. Owned(c)'
    BY <1>1, <1>2, <2>1, <2>2 DEF Owned, Held, PolicyCalls
  <2> QED BY <1>3, <2>3
<1> QED BY <1>4, <1>5, <1>6, <1>7

(* Without outages the finalizer guards the ruleset from first to last. *)
LEMMA NextOwned ==
  ASSUME Readiness \subseteq {TRUE}, OInv, [Next]_vars
  PROVE  OInv'
<1>1. SInv'
  BY NextSynced DEF OInv
<1>2. usable'
  BY DEF OInv, Next, Reconcile, User, Environment, AddLabel, ChangeReadiness, Relabel, env, vars,
         CacheSync, TimerFire, Start, CallFails, RateLimited, Restart,
         AddFinalizer, ResolveProfile, ResolveProvider, ResolveAllow, MintLabel, ResolveNarrow, FindRuleSet,
         CreateRuleSet, ListRules, DeleteRule, FindService, CreateRule, Provision, UpdateStatus,
         FinalizeResolve, FinalizeFind, FinalizeDelete, FinalizeProvision, RemoveFinalizer,
         Create, Edit, Approve, Delete, Touch
<1>3. CASE UNCHANGED vars \/ Environment
  <2>1. UNCHANGED <<cr, cache, wk, draft>>
    BY <1>3 DEF vars, kube, work, pce, Environment, AddLabel, ChangeReadiness, Relabel
  <2> QED BY <1>1, <1>2, <2>1, StillOwned DEF OInv, Held
<1>4. ASSUME NEW c \in CR, Reconcile(c) PROVE \A d \in CR : Owned(d)'
  BY <1>4, SilentOwned, WriteOwned DEF Reconcile, Silent
<1>5. CASE Restart
  <2>1. UNCHANGED <<cr, draft>> /\ \A c \in CR : cache'[c] = View(cr[c]) /\ wk'[c] = Idle
    BY <1>5 DEF Restart, pce
  <2>2. ASSUME NEW d \in CR PROVE Owned(d)'
    <3>1. cache'[d] = View(cr[d]) /\ wk'[d] = Idle /\ cr'[d] = cr[d] /\ draft'[d] = draft[d]
      BY <2>1
    <3>2. wk'[d].pc = "idle" /\ cache'[d].phase = cr[d].phase /\ (cache'[d].fin => cr[d].fin)
      BY <3>1 DEF View, Idle
    <3>3. Owned(d)
      BY DEF OInv
    <3> QED BY <3>1, <3>2, <3>3 DEF Owned, Held, PolicyCalls
  <2> QED BY <1>1, <1>2, <2>2 DEF OInv
<1> QED BY <1>1, <1>2, <1>3, <1>4, <1>5, UserOwned, DriverOwned DEF OInv, Next

(* Nothing exists at first. *)
LEMMA InitOwned ==
  ASSUME Readiness \subseteq {TRUE}, Init
  PROVE  OInv
<1>1. \A c \in CR : /\ cr[c].phase = "absent" /\ cache[c] = View(cr[c]) /\ wk[c] = Idle
                    /\ draft[c] = NoRuleSet
  BY DEF Init
<1> QED BY <1>1, InitSynced DEF Init, OInv, Owned, View, Idle, NoRuleSet, PolicyCalls

(* As long as the profile and its connection stay in order, a CR is gone only  *)
(* after its ruleset has left both policy stores.                              *)
THEOREM Orphanless == Readiness \subseteq {TRUE} => (Spec => []NoOrphan)
<1> SUFFICES ASSUME Readiness \subseteq {TRUE} PROVE Spec => []NoOrphan
  OBVIOUS
<1>1. OInv /\ [Next]_vars => OInv'
  BY NextOwned
<1>2. OInv => NoOrphan
  BY DEF OInv, SInv, KInv, IInv, Good, Stores, Enforced, Owned, Held, NoOrphan
<1> QED BY <1>1, <1>2, InitOwned, PTL DEF Spec

-----------------------------------------------------------------------------
(* The refinement of PolicyPromise *)

(* What the promise sees of the objects and of the active store. *)
Asked == [c \in CR |-> [phase |-> cr[c].phase, gen |-> cr[c].gen]]
InStore == [c \in CR |-> [exists |-> active[c].exists, gen |-> active[c].gen,
                          rules |-> active[c].rules]]

(* The promise speaks of the same compilations as the lifecycle. *)
LEMMA SameCompilations ==
  ASSUME NEW s
  PROVE  Promise!Compilations(s) = Compilations(s)
<1>1. Promise!Lookups(s) = Lookups(s)
  BY DEF Promise!Lookups, Lookups
<1>2. Promise!FullHits(s) = FullHits(s)
  BY <1>1 DEF Promise!FullHits, FullHits
<1>3. ASSUME NEW hit PROVE Promise!Rules(s, hit) = Rules(s, hit)
  <2>1. Promise!Kept(s, hit) = Kept(s, hit)
    BY DEF Promise!Kept, Kept
  <2>2. \A a : Promise!RuleOf(s, a, hit) = RuleOf(s, a, hit)
    BY DEF Promise!RuleOf, RuleOf
  <2> QED BY <2>1, <2>2 DEF Promise!Rules, Rules
<1> QED BY <1>2, <1>3 DEF Promise!Compilations, Compilations

(* A step that touches no phase, no generation and no active ruleset is not    *)
(* seen.                                                                       *)
LEMMA Unnoticed ==
  ASSUME \A c \in CR : cr'[c].phase = cr[c].phase /\ cr'[c].gen = cr[c].gen,
         active' = active
  PROVE  UNCHANGED Promise!promise
<1>1. Asked' = Asked /\ InStore' = InStore
  BY DEF Asked, InStore
<1> QED BY <1>1 DEF Promise!promise, Asked, InStore

(* A step that moves the object of c alone, as the promise sees it. *)
LEMMA AskedMoves ==
  ASSUME NEW c \in CR, \A d \in CR \ {c} : cr'[d] = cr[d]
  PROVE  Asked' = [Asked EXCEPT ![c] = [phase |-> cr'[c].phase, gen |-> cr'[c].gen]]
BY DEF Asked

(* A step that moves the active ruleset of c alone, as the promise sees it. *)
LEMMA StoreMoves ==
  ASSUME NEW c \in CR, \A d \in CR \ {c} : active'[d] = active[d]
  PROVE  InStore' = [InStore EXCEPT ![c] = [exists |-> active'[c].exists,
                                            gen |-> active'[c].gen,
                                            rules |-> active'[c].rules]]
BY DEF InStore

(* A user's call is a request, or the departure of a CR nobody enforces. *)
LEMMA UserPromised ==
  ASSUME OInv, NEW c \in CR, User(c)
  PROVE  [Promise!Next]_(Promise!promise)
<1>1. TypeOK /\ cr[c] \in Object /\ Good(c) /\ Owned(c)
  BY DEF OInv, SInv, KInv, IInv, TypeOK
<1>2. active' = active /\ InStore' = InStore
  BY DEF User, Create, Edit, Approve, Delete, Touch, pce, InStore
<1>3. \A d \in CR \ {c} : cr'[d] = cr[d]
  BY <1>1 DEF TypeOK, User, Create, Edit, Approve, Delete, Touch
<1>4. Asked' = [Asked EXCEPT ![c] = [phase |-> cr'[c].phase, gen |-> cr'[c].gen]]
      /\ Asked[c] = [phase |-> cr[c].phase, gen |-> cr[c].gen]
  BY <1>3, AskedMoves DEF Asked
<1>5. CASE Create(c)
  <2>1. cr[c].phase = "absent" /\ cr'[c].phase = "live" /\ cr'[c].gen = 1
    BY <1>1, <1>5 DEF TypeOK, Create, Touch, Object
  <2>2. Promise!Ask(c)
    BY <1>2, <1>4, <2>1 DEF Promise!Ask, Asked, InStore
  <2> QED BY <2>2 DEF Promise!Next
<1>6. CASE Edit(c)
  <2>1. /\ cr[c].phase \in {"live", "deleting"} /\ cr[c].gen < Len(SpecOf[c])
        /\ cr'[c].phase = cr[c].phase /\ cr'[c].gen = cr[c].gen + 1
    BY <1>1, <1>6 DEF TypeOK, Edit, Touch, Object
  <2>2. Asked' = [Asked EXCEPT ![c].gen = @ + 1]
    BY <1>4, <2>1 DEF Asked
  <2>3. Promise!Ask(c)
    BY <1>2, <1>4, <2>1, <2>2 DEF Promise!Ask, Asked, InStore
  <2> QED BY <2>3 DEF Promise!Next
<1>7. CASE Approve(c)
  <2>1. cr'[c].phase = cr[c].phase /\ cr'[c].gen = cr[c].gen
    BY <1>1, <1>7 DEF TypeOK, Approve, Touch, Object
  <2> QED BY <1>2, <1>3, <2>1, Unnoticed
<1>8. CASE Delete(c)
  <2> DEFINE p == IF cr[c].fin THEN "deleting" ELSE "gone"
  <2>1. cr[c].phase = "live" /\ cr'[c].phase = p /\ cr'[c].gen = cr[c].gen
    <3>1. cr' = [cr EXCEPT ![c] = [cr[c] EXCEPT !.phase = p]] /\ cr[c].phase = "live"
      BY <1>8 DEF Delete, Touch
    <3> HIDE DEF p
    <3> QED BY <1>1, <3>1 DEF TypeOK, Object
  <2>2. Asked' = [Asked EXCEPT ![c].phase = p]
    <3> HIDE DEF p
    <3> QED BY <1>4, <2>1 DEF Asked
  <2>3. CASE cr[c].fin
    <3>1. Promise!Ask(c)
      BY <1>2, <1>4, <2>1, <2>2, <2>3 DEF Promise!Ask, Asked, InStore
    <3> QED BY <3>1 DEF Promise!Next
  <2>4. CASE ~ cr[c].fin
    <3>1. ~ active[c].exists
      BY <1>1, <2>4 DEF Good, Stores, Enforced, Owned, Held
    <3>2. Promise!Leave(c)
      BY <1>2, <1>4, <2>1, <2>2, <2>4, <3>1 DEF Promise!Leave, Asked, InStore
    <3> QED BY <3>2 DEF Promise!Next
  <2> QED BY <2>3, <2>4
<1> QED BY <1>5, <1>6, <1>7, <1>8 DEF User

(* The operator's own writes are not seen, but for the release of the          *)
(* finalizer: by then nothing of the CR is enforced.                           *)
LEMMA WritePromised ==
  ASSUME OInv, NEW c \in CR, AddFinalizer(c) \/ UpdateStatus(c) \/ RemoveFinalizer(c)
  PROVE  [Promise!Next]_(Promise!promise)
<1>1. TypeOK /\ cr[c] \in Object /\ wk[c] \in Worker /\ Good(c) /\ Owned(c) /\ Seen(c)
  BY DEF OInv, SInv, KInv, IInv, TypeOK
<1>2. active' = active /\ InStore' = InStore
  BY DEF AddFinalizer, UpdateStatus, RemoveFinalizer, pce, InStore
<1>3. \A d \in CR \ {c} : cr'[d] = cr[d]
  BY <1>1, Stored DEF AddFinalizer, UpdateStatus, RemoveFinalizer, kube
<1>4. ASSUME cr'[c].phase = cr[c].phase /\ cr'[c].gen = cr[c].gen
      PROVE  [Promise!Next]_(Promise!promise)
  BY <1>2, <1>3, <1>4, Unnoticed
<1>5. CASE UNCHANGED kube
  BY <1>4, <1>5 DEF kube
<1>6. CASE AddFinalizer(c) /\ ~ UNCHANGED kube
  <2> DEFINE o == [cr[c] EXCEPT !.fin = TRUE]
  <2>1. Store(c, o)
    BY <1>6 DEF AddFinalizer
  <2>2. o.phase = cr[c].phase /\ o.gen = cr[c].gen
    BY <1>1 DEF Object
  <2> HIDE DEF o
  <2> QED BY <1>1, <1>4, <2>1, <2>2, Stored
<1>7. CASE UpdateStatus(c) /\ ~ UNCHANGED kube
  <2> DEFINE o == Conditions(cr[c], wk[c])
  <2>1. Store(c, o)
    BY <1>7 DEF UpdateStatus
  <2>2. o.phase = cr[c].phase /\ o.gen = cr[c].gen
    BY <1>1 DEF Object, Conditions
  <2> HIDE DEF o
  <2> QED BY <1>1, <1>4, <2>1, <2>2, Stored
<1>8. CASE RemoveFinalizer(c) /\ ~ UNCHANGED kube
  <2> DEFINE o == [cr[c] EXCEPT !.phase = "gone", !.fin = FALSE]
  <2>1. wk[c].pc = "release" /\ wk[c].own /\ Store(c, o)
    BY <1>8 DEF RemoveFinalizer
  <2>2. o.phase = "gone" /\ o.gen = cr[c].gen
    BY <1>1 DEF Object
  <2> HIDE DEF o
  <2>3. cr'[c].phase = "gone" /\ cr'[c].gen = cr[c].gen
    BY <1>1, <2>1, <2>2, Stored
  <2>4. cr[c].phase = "deleting"
    BY <1>1, <2>1 DEF Seen, FinalizeSteps
  <2>5. ~ active[c].exists
    BY <1>1, <2>1 DEF Owned, Good, Stores, Enforced
  <2>6. Asked' = [Asked EXCEPT ![c] = [phase |-> "gone", gen |-> cr[c].gen]]
    BY <1>3, <2>3, AskedMoves
  <2>7. Asked' = [Asked EXCEPT ![c].phase = "gone"]
    BY <2>6 DEF Asked
  <2>8. Promise!Leave(c)
    BY <1>2, <2>4, <2>5, <2>7 DEF Promise!Leave, Asked, InStore
  <2> QED BY <2>8 DEF Promise!Next
<1> QED BY <1>5, <1>6, <1>7, <1>8

(* Provisioning enforces one whole generation the user asked for, and none     *)
(* that is older than what was in force.                                       *)
LEMMA ProvisionPromised ==
  ASSUME OInv, NEW c \in CR, Provision(c)
  PROVE  [Promise!Next]_(Promise!promise)
<1>1. TypeOK /\ cr[c] \in Object /\ wk[c] \in Worker /\ Good(c) /\ Owned(c)
      /\ cache[c] \in Cached /\ active[c] \in Active /\ wk[c].pc = "provision"
  BY DEF OInv, SInv, KInv, IInv, TypeOK, Provision
<1>2. draft[c].exists /\ ~ draft[c].marked /\ draft[c].rules \in Compilations(SpecAt(c, wk[c].gen))
      /\ SpecAt(c, wk[c].gen).valid
  BY <1>1 DEF Good, Fits, Building, Resolving, PolicyCalls
<1>3. wk[c].gen \in 1..cr[c].gen /\ active[c].gen <= wk[c].gen
  BY <1>1 DEF Good, Stores, Lagging, Fits, Follows, Worker, Cached, Object, Active
<1>4. cr[c].phase \in {"live", "deleting"}
  BY <1>1 DEF Owned, Held, PolicyCalls
<1>5. /\ cr' = cr
      /\ active' = [active EXCEPT ![c] = [exists |-> TRUE, gen |-> wk[c].gen,
                                          scope |-> draft[c].scope, rules |-> draft[c].rules]]
  BY <1>2 DEF Provision, Provisioned, kube
<1>6. /\ active'[c].exists = TRUE /\ active'[c].gen = wk[c].gen
      /\ active'[c].rules = draft[c].rules /\ \A d \in CR \ {c} : active'[d] = active[d]
  BY <1>1, <1>5 DEF TypeOK
<1>7. InStore' = [InStore EXCEPT ![c] = [exists |-> TRUE, gen |-> wk[c].gen,
                                         rules |-> draft[c].rules]]
  BY <1>6, StoreMoves
<1>8. Asked' = Asked /\ Asked[c].phase = cr[c].phase /\ Asked[c].gen = cr[c].gen
      /\ InStore[c].gen = active[c].gen
  BY <1>5 DEF Asked, InStore
<1>9. wk[c].gen >= active[c].gen /\ draft[c].rules \in Promise!Compilations(SpecOf[c][wk[c].gen])
      /\ SpecOf[c][wk[c].gen].valid
  BY <1>1, <1>2, <1>3, SameCompilations DEF SpecAt, Worker, Active
<1>10. Promise!Enforce(c)
  BY <1>3, <1>4, <1>7, <1>8, <1>9 DEF Promise!Enforce, Asked, InStore
<1> QED BY <1>10 DEF Promise!Next

(* Carrying out the deletion of the ruleset withdraws it from a CR that is     *)
(* being deleted.                                                              *)
LEMMA WithdrawPromised ==
  ASSUME OInv, NEW c \in CR, FinalizeProvision(c)
  PROVE  [Promise!Next]_(Promise!promise)
<1>1. TypeOK /\ Good(c) /\ Owned(c) /\ cr' = cr /\ wk[c].pc = "finprovision"
  BY DEF OInv, SInv, KInv, IInv, FinalizeProvision, kube
<1>2. CASE ~ draft[c].exists
  <2>1. active' = active
    BY <1>2 DEF FinalizeProvision
  <2> QED BY <1>1, <2>1, Unnoticed
<1>3. CASE draft[c].exists
  <2>1. draft[c].marked
    BY <1>1, <1>3 DEF Good, Fits, Finalizing
  <2>2. cr[c].phase = "deleting"
    BY <1>1, <1>3 DEF Good, Stores, Lagging, Fits, Finalizing, Owned, Held, FinalizeSteps
  <2>3. active' = [active EXCEPT ![c] = NotActive]
    BY <1>3, <2>1 DEF FinalizeProvision, Provisioned
  <2>4. /\ active'[c] = NotActive /\ \A d \in CR \ {c} : active'[d] = active[d]
    BY <1>1, <2>3 DEF TypeOK
  <2>5. InStore' = [InStore EXCEPT ![c] = Promise!Nothing]
    BY <2>4, StoreMoves DEF NotActive, Promise!Nothing
  <2>6. Promise!Withdraw(c)
    BY <1>1, <2>2, <2>5 DEF Promise!Withdraw, Asked, InStore
  <2> QED BY <2>6 DEF Promise!Next
<1> QED BY <1>2, <1>3

(* Every step of the operator, its runtime and the environment is one of the   *)
(* promise or changes nothing it speaks of.                                    *)
LEMMA NextPromised ==
  ASSUME OInv, [Next]_vars
  PROVE  [Promise!Next]_(Promise!promise)
<1>1. CASE UNCHANGED vars \/ Environment \/ Restart
  <2>1. UNCHANGED <<cr, active>>
    BY <1>1 DEF vars, kube, pce, Environment, AddLabel, ChangeReadiness, Relabel, Restart
  <2> QED BY <2>1, Unnoticed
<1>2. ASSUME NEW c \in CR, Reconcile(c) PROVE [Promise!Next]_(Promise!promise)
  <2>1. CASE AddFinalizer(c) \/ UpdateStatus(c) \/ RemoveFinalizer(c)
    BY <2>1, WritePromised
  <2>2. CASE Provision(c)
    BY <2>2, ProvisionPromised
  <2>3. CASE FinalizeProvision(c)
    BY <2>3, WithdrawPromised
  <2>4. CASE \/ ResolveProfile(c) \/ ResolveProvider(c) \/ ResolveAllow(c) \/ MintLabel(c)
             \/ ResolveNarrow(c) \/ FindRuleSet(c) \/ CreateRuleSet(c) \/ ListRules(c) \/ DeleteRule(c)
             \/ FindService(c) \/ CreateRule(c)
             \/ FinalizeResolve(c) \/ FinalizeFind(c) \/ FinalizeDelete(c)
    <3>1. UNCHANGED <<cr, active>>
      BY <2>4 DEF ResolveProfile, ResolveProvider, ResolveAllow, MintLabel, ResolveNarrow, FindRuleSet,
                  CreateRuleSet, ListRules, DeleteRule, FindService, CreateRule,
                  FinalizeResolve, FinalizeFind, FinalizeDelete, kube, pce
    <3> QED BY <3>1, Unnoticed
  <2> QED BY <1>2, <2>1, <2>2, <2>3, <2>4 DEF Reconcile
<1>3. ASSUME NEW c \in CR,
             CacheSync(c) \/ TimerFire(c) \/ Start(c) \/ CallFails(c) \/ RateLimited(c)
      PROVE  [Promise!Next]_(Promise!promise)
  <2>1. UNCHANGED <<cr, active>>
    BY <1>3 DEF CacheSync, TimerFire, Start, CallFails, RateLimited, kube, pce
  <2> QED BY <2>1, Unnoticed
<1> QED BY <1>1, <1>2, <1>3, UserPromised DEF Next

(* Without outages the lifecycle implements the promise: seen through what     *)
(* users ask for and what the PCE enforces, every step of every actor is a     *)
(* step of PolicyPromise, or changes nothing.                                  *)
THEOREM Implements == Readiness \subseteq {TRUE} => (Spec => KeepsPromise)
<1> SUFFICES ASSUME Readiness \subseteq {TRUE} PROVE Spec => KeepsPromise
  OBVIOUS
<1>1. Init => Promise!Init
  <2> SUFFICES ASSUME Init PROVE Promise!Init
    OBVIOUS
  <2>1. \A c \in CR : cr[c].phase = "absent" /\ cr[c].gen = 0 /\ active[c] = NotActive
    BY DEF Init
  <2>2. NotActive.exists = FALSE /\ NotActive.gen = 0 /\ NotActive.rules = {}
    BY DEF NotActive
  <2>3. Asked = [c \in CR |-> [phase |-> "absent", gen |-> 0]]
    BY <2>1 DEF Asked
  <2>4. InStore = [c \in CR |-> Promise!Nothing]
    BY <2>1, <2>2 DEF InStore, Promise!Nothing
  <2> QED BY <2>3, <2>4 DEF Promise!Init, Asked, InStore
<1>2. OInv /\ [Next]_vars => OInv'
  BY NextOwned
<1>3. OInv /\ [Next]_vars => [Promise!Next]_(Promise!promise)
  BY NextPromised
<1> QED BY <1>1, <1>2, <1>3, InitOwned, PTL DEF Spec, KeepsPromise, Promise!Spec
=============================================================================
