# A verification project for illumio-k8s-utility-operator

The operator turns Kubernetes custom resources into policy on an Illumio PCE (policy
compute engine).  This directory holds TLA+ models of it, the TLC runs that check them on
small instances, and TLAPS proofs of the results that matter most.  Line numbers refer to
the sources of the repository.

## 1. Inventory

| part | state it keeps | operations | talks to |
|---|---|---|---|
| policy backend (`policybackend.go`, `policyir.go`) | none of its own; owns one PCE ruleset per CR, found by the CR's UID | `ReconcilePolicy`, `FinalizePolicy` | API server (profile, namespace), PCE (labels, rulesets, rules, provisioning) |
| SegmentationIntent / SegmentationPolicy controllers | finalizer and status of the CR | `Reconcile` | API server, policy backend |
| ClusterProfile controller: onboarding | status hrefs, credentials Secret | `Reconcile`, `ensurePairing` | API server, PCE (container cluster, pairing profile) |
| ClusterProfile controller: enforcement | container workload profiles (CWP) in the PCE | `reconcileNamespaceCWPs` | namespaces, policy CRs, PCE |
| PCEConnection controller | status conditions | `Reconcile` | Secret, PCE (ping) |
| PolicyInsight controller | status of the last traffic query | `Reconcile` | PCE (asynchronous traffic query) |
| RuleView controller | status | `Reconcile` | PCE (rule search) |
| preflight findings, rule list (`preflight.go`, `ruleview.go`) | none | pure functions of the two report controllers | - |
| label map overlap (`labelmap.go`) | one condition of the ClusterProfile | `checkLabelMapOverlap`, at the end of a clean pass | API server (LabelMaps) |
| PCE client (`internal/pce`) | none | one HTTP request per method | PCE |
| controller-runtime | informer cache, work queues, timers | list/watch, rate-limited requeue, RequeueAfter | API server |

**Interaction.**  PCEConnection ready, then ClusterProfile onboarded, then policy CRs: each
stage reads the status the previous one wrote, through the informer cache, and none of the
policy controllers watches it; they poll with `RequeueAfter`.  All controllers share one PCE.
The PCE has a *draft* store, which the operator and humans at the console write, and an
*active* store, which is what is enforced and changes only by provisioning.

**What is hard.**  A policy reconcile is ten or more remote calls, each of which may fail, be
refused, take effect and lose its answer, or be overtaken by an edit, a restart or a human at
the PCE console; it works from a cached snapshot; it rebuilds the draft rule by rule
(delete all, create all) every time; its finalizer must not lose or wedge; its only way to
notice new labels, reverted deletions or a profile becoming ready is a timer it must not
forget to ask for.  `PROJECT.json` lists the hazards at their lines.

**What makes each part correct.**  Policy: enforced policy is always one whole generation,
never goes back, is never claimed when it is not there, is withdrawn before the CR is gone, and
in the end matches the last generation.  Onboarding: the one-time container cluster token
reaches the Secret or the profile says it did not, and nothing but a lost token is a dead end.
Enforcement: a profile that reports a clean pass has applied it, and every namespace settles on
what its rules and its strictest policy ask.  Connection and insight: a status condition
reflects the last answer, and a failure is retried.

## 2. Modules

| module | role |
|---|---|
| `PolicyRules` | constants and operators for what one generation compiles to (`resolveAllows`, `BuildRules`) |
| `PolicyCompile` | the two front ends, `CompileIntent` and `CompilePolicy`, and what specs and rules mean: the connections they grant and permit |
| `PolicyPromise` | abstract specification: what users ask for and what is enforced, nothing else |
| `PolicyLifecycle` | the detailed specification: API server object, cache, queue, timer, the reconcile in progress, draft and active store, labels, scope, readiness |
| `PolicyGate` | `PolicyLifecycle` with the history of approved generations (manual mode) |
| `PolicyMeaning` | `PolicyLifecycle` with the specs as written: what is enforced against what was granted |
| `PolicyTranslation` | the compiler over all the specs authors may write (`Written`), whether or not a CR has them |
| `PolicyClient` | `PolicyLifecycle` over a connection that loses the bodies of answers |
| `MCPolicyLifecycle`, `MCPolicyGate`, `MCPolicyMeaning`, `MCPolicyClient` | instances for TLC |
| `PolicyLifecycle_proofs`, `PolicyPromise_proofs`, `PolicyGate_proofs`, `PolicyMeaning_proofs`, `PolicyClient_proofs` | theorems and proofs about them |
| `Connection` | the PCEConnection controller |
| `Onboarding` | extends `Connection` with the onboarding half of the ClusterProfile controller |
| `CwpMatch` | the pure part of the namespace reconcile: `ComputeDesiredCWP`, `StrictestEnforcement`, `EffectiveEnforcement` |
| `NamespaceProfiles` | the namespace half of the ClusterProfile controller, on `CwpMatch` |
| `MCOnboarding`, `MCNamespaceProfiles` | instances for TLC |
| `Onboarding_proofs`, `NamespaceProfiles_proofs` | theorems and proofs about them |
| `Reports` | the PolicyInsight and RuleView controllers |
| `ReportContent` | what their reports say: findings and rule lists, for the traffic, rules and limits it is given |
| `MCReports` | instance for TLC: bounded inputs |
| `Reports_proofs` | theorems and proofs about them |

### How `PolicyLifecycle` corresponds to the code

One action is one call that leaves the process plus the computation up to the next one, so any
other actor may step in between.  The reconcile in progress is the record `wk[c]`, whose `pc`
names the call it is about to make:

| pc | code |
|---|---|
| `addfin` | `AddFinalizer` + `Update` |
| `resolve` | `resolveClusterProfile` |
| `scope`, `lookup`, `narrow` | `resolveProvider`, `resolveAllows`, the narrowing loop of `ReconcilePolicy` |
| `mint` | `CreateLabel`, called by `EnsureLabel` for a label `resolveAllows` did not find |
| `find`, `create`, `list`, `delete`, `service`, `rule` | `reconcileRuleSet` |
| `provision` | `ProvisionRuleSets` |
| `status` | `applyBackendResult` + `Status().Update` |
| `finresolve`, `finfind`, `findelete`, `finprovision`, `release` | `FinalizePolicy`, `RemoveFinalizer` + `Update` |

A call may succeed (`Continue`), succeed and lose its answer (`Answered`), fail without effect
(`CallFails`), be refused (`Refused`: a 404 on a marked ruleset, a resourceVersion conflict), or
be rate limited (`RateLimited`).  `own` says whether the snapshot is still at the latest
resourceVersion, which is all that optimistic concurrency distinguishes.  `fresh[c]` says the
same of the cache.

The PCE is external: the effects of its calls are modelled from how the client and the tests'
fake server use them.  Assumed of it: labels are never forgotten; deleting a ruleset that was
provisioned marks it until the deletion is provisioned, deleting one that was not drops it; rules
deleted from the draft no longer appear in its rule list; a call on a marked ruleset answers 404; a
second ruleset of one name and `external_data_reference` is refused, and so is a second label of one key and
value: a label may be minted by another reconcile between the look-up and the creation, which then fails.

Abstracted: hrefs, names and descriptions; the order of the look-ups; the label counters in the status; the enforcement
mode copied into the status; `resolveClusterProfile` as one predicate `usable`, since its inputs
are written by other controllers.  A CR is not recreated under its UID: `gone` is final.

### How `PolicyCompile`, `PolicyMeaning` and `PolicyClient` correspond to the code

A spec is what the CRD holds: for an intent a provider, allows with `from`, `fromIntraNamespace` and
ports, and `allowIntraNamespace`; for a policy a `podSelector`, `ingress` lists of peers and ports, and
`policyTypes`.  `CompileIntent` and `CompilePolicy` return whether the spec is accepted and the allows it
is lowered to; `Rules` (`BuildRules`) turns those into what the PCE stores.  A connection is a triple of
two label sets and a port.  `Granted` is what the author of a spec means by it, written from the field
comments of the CRDs and without a use of the compiler; `Permitted` is what the PCE makes of a scope and rules
(external: providers within the scope, consumers within it unless `unscoped_consumers`, all labels
of an actor list matched, which is what the comment "OR between peers" in `CompilePolicy` presumes).
`KeepsMeaning` compares the two.  `PolicyMeaning` compares them for what is in force, and takes the
`SpecOf` of `PolicyLifecycle` to be what the compiler makes of `SourceOf`.

`Client.do` ignores the error of reading a 2xx body and decodes nothing when it is empty.
`PolicyClient` adds one action to `PolicyLifecycle`, `LostBody`: a look-up of a label finds none, a list of
rulesets or of rules is empty.  A creation without a body leaves an empty href and fails at its next use, like a
lost answer.

### How `Connection` and `Onboarding` correspond to the code

Again one action per call.  `cw.pc` walks through `loadConfig`, `Ping` with `classifyPingError`
and the status write; `ow.pc` through

| pc | code |
|---|---|
| `resolve` | `resolveConnection`: the Connected condition, then the Secret, read on its own |
| `find`, `create`, `failed` | `FindContainerClusterByName`, `CreateContainerCluster`, `onboardError` |
| `token`, `record` | `writeCredentialsSecret` with the token, `Status().Update` with the href |
| `pair`, `newpair`, `key`, `publish` | `ensurePairing` |
| `namespaces` | `reconcileNamespaceCWPs` as one step |
| `clean`, `partial` | the two status writes at the end |

Both controllers read `creds` and `health`, which administrators and the PCE change without an
event.  `stranded` is a history variable: what kept a creation from being recorded.  The PCE is
taken to refuse a second container cluster of one name, as the code's own look-up before the
creation presumes.  A pairing profile is there or not: the name an administrator gives in a later
generation is that of the profile an earlier one creates.

### How `CwpMatch` and `NamespaceProfiles` correspond to the code

`DesiredCWP` composes the layers of `ComputeDesiredCWP` in their order: rules, system namespaces,
annotations, floor.  Globs are the sets they match.  Label maps hold some of the keys (`Partial`), as the Go maps
do: a rule may name a key and give it no value, which assigns no label but counts for the overlap
(`operatorAssignedKeys`); the empty value of a system namespace's label is kept (`copyLabels`) and sent; on a
namespace an empty label or annotation reads like an absent one.
`NamespaceProfiles` is one ClusterProfile past onboarding: `list` lists namespaces and CWPs,
`namespace` takes the next one (raising its enforcement), `labels` ensures its labels through the
cache of the pass and updates the CWP, and the pass ends in one of the two status writes.  What
the informer cache shows is what `meta`, `request` and `gen` hold; an edit and its event are one
step, the moment the cache shows it.  Assumed of the PCE: it refuses a mode that is none and a
managed CWP that is idle (`docs/guides/namespace-management.md`), and some label pairs for good
(`BadPairs`).  After a clean pass `CheckOverlap` lists the LabelMaps, of which only the set of keys
they write matters.  A CWP once created stays; namespaces are not deleted.

### How `Reports` corresponds to the code

One object of either kind, chosen by `kind`; the two reconciles run through the same steps up to
the query.  The gate of `Begin` reads the informer's `cache`, which lags behind `obj`; `wk.own`
says whether the snapshot is still at the latest resourceVersion.  Generation and refresh token
are compared and recorded together in the code, so `req` numbers the pairs; a token is taken not
to come back (the documentation uses the date).  `query`, `poll`, `download` are the three calls of
`QueryTraffic`, gone through for inbound and then outbound flows, `search` is `SearchRules`.
`age` says whether an interval has passed since `observedAt`.  Content is reduced to the request
(`of`) and the version of the PCE's data (`data`) it is for, 0 when the body of a download or a
search was lost and the report says that nothing was found.  Timers may fire early: the work queue
keeps the earlier of two RequeueAfter times.

`ReportContent` has the content itself as operators: the query with its `max_results`, the
summary, the findings merged by peer and port, sorted and capped, and the rule list with its counts.  A
label set and an address are numbers, and `LabelsKey` and `IpKey` give the string `peerKey` makes of each by its place
among all strings, in whatever order and whether or not two of them are the same; the protocol is
part of the port.  A loop over a slice is the function of its rounds (`Rounds`); `slices.SortFunc` is some
arrangement in the order it is given (`Sorted`).  `PreflightTells` and `RuleViewTells` say what a reader may conclude
from a report; `MCReports` gives them all small inputs (`Traffics`, `RuleLists`, `Limits`).

## 3. Properties and runs

Of the lifecycle: `ActiveIsComplete`, `EnforcedIsGranted`, `StatusIsTruthful`, `NoOrphan`, `NoLostWakeup`,
`GateRespected`, `PendingDeletionDeferred` and the refinement `KeepsPromise`; liveness `Converges`,
`StatusConverges`, `DeletionCompletes`, `ConflictIsReported`; of the compiler alone `CompilerKeepsMeaning`.
Of the ClusterProfile: `CleanIsApplied`, `Converges` and `OverlapIsReported` (namespaces),
`OnboardedIsPublished`, `DeadEndIsLoss`, `Onboards` and `ConnectionRecovers`.  Of the reports:
`QueriesAreBounded`, `ReportIsOfRequest`, `NothingForgotten`, `RequestIsAnswered`,
`RuleViewFollows`, and of their content `PreflightIsWhole` and `RuleListIsWhole`.  Each is stated in words
above its definition.  `CompilerKeepsMeaning`, `PreflightIsWhole` and `RuleListIsWhole` compare functions
with reference definitions, over the inputs their constants hold; TLC evaluates them in the initial states of their
runs, over bounded ones.

| run | instance | what it shows |
|---|---|---|
| `lifecycle_faults` | 1 CR, 3 generations: two with disjoint rules, an invalid one between; manual mode, 2 approval changes, 2 faults, `Retry-After` 0 or more | safety, the approval gate and refinement under crashes, failures, lost answers |
| `lifecycle_two` | an intent and a policy, 2 controllers, create mode; all intents with up to 2 allows, all policies with up to 2 peers in a list and a second list, over 2 labels | isolation of provisioning, both minting one label, recovery by requeue, what is enforced is what was granted, the compiler keeps meaning |
| `lifecycle_skip` | a label that comes late, skip and manual mode, readiness that flips, 1 fault, 2 changes | no lost wake-up, convergence and completion of deletions |
| `lifecycle_console` | a human deletes, reverts, provisions; 1 fault, which may be a lost body; 2 changes | conflict reported, pending deletion not written over, no CR forgotten, recovery, no wedged finalizer |
| `namespaces` | 2 namespaces, one of them a system namespace with an empty label value, which the PCE refuses, 2 generations of rules, a key without a value, 1 policy CR, an annotation that is no mode, LabelMaps that come and go, 1 fault, 2 changes | a clean status is true of the CWPs, one bad namespace freezes no other, unseen changes are found, the overlap warning follows |
| `reports` | 3 requests, 2 faults or foreign edits, 2 changes, for each kind | one query per request, content of its own, nothing forgotten, a RuleView that keeps following; reports of up to 3 flows or rules are whole or say so |
| `onboarding` | create, a named pairing profile, adopt; clusters that come and go; 1 fault, 2 changes | Onboarded means published, only a lost token is a dead end, a profile never stops looking |

Each `bug_*` run checks one sentence of the documentation or of a comment that the code does not
keep; the counterexample is the finding in `PROJECT.json`:

| run | sentence | what the code does |
|---|---|---|
| `bug_orphan` | segmentation-policy.md:311 | the finalizer is released without a PCE call when no profile is usable |
| `bug_pending` | segmentationintent.md:61 | a deletion marked after the look-up is provisioned by the operator |
| `bug_widened` | segmentation-policy.md:56 | skip mode builds a rule of the known labels of an entry |
| `bug_unmatched` | namespace-management.md:92 | a namespace no rule matches has its CWP labels and management removed |
| `bug_scope` | segmentation-policy.md:218 | a relabelled namespace keeps the ruleset of its old scope, and the CR reports success |

Observations of the same kind that no run is spent on, each read off the code while modelling it:

- an output Secret named after the creation gets url, id and code without the token
  (clusterprofile_controller.go:255) while Onboarded stays True; onboarding.md:146 promises four keys;
- a rejection for an unknown label is retried every requeue interval, where segmentationintent.md:59 and
  segmentationpolicy.md:71 (docs/reference) say "Not retried until the spec changes";
- an empty `fromIntraNamespace` is rejected (policyir.go:131), its comment says "Empty map = all workloads in
  scope" (segmentationintent_types.go:28);
- a lost body (client.go:81-91) has lasting effects where the next step acts on it: an empty rule list leaves the old
  rules beside the new ones until the next reconcile (so `ActiveIsComplete` is not checked there), an
  empty ruleset list in the finalizer releases the CR and orphans its ruleset (nor `NoOrphan`), an empty
  download is a preflight that found nothing;
- a Namespace that cannot be read counts as one without annotations (policybackend.go:113), so the mode
  falls back to the profile's default for that reconcile;
- "Orphaned draft ruleset is cleaned on next full reconcile or manually" (policybackend.go:276): only
  manually, no reconcile of the gone CR comes;
- a preflight of exactly `max_results` flows is marked truncated (traffic.go:194); merged findings keep the
  decision and the date of the first flow; `renderActors` drops IP lists, which ruleview_types.go:44 names;
- the LabelMap overlap is looked at by clean passes only (clusterprofile_controller.go:185): with one
  namespace refused for good the warning stays as it was;
- draft-only mode provisions deletions (policybackend.go:297), and a human who provisions while the
  draft is rebuilt (505-535) puts a part of it in force;
- a `Retry-After` of 0 becomes no requeue (client.go:107-115), the wake-up then rests on an event
  of the status write, and the second in a row writes nothing new: `NoLostWakeup` allows that CR, and no
  other, to be left, and only with a status that says RateLimited for its generation; a 401 or 403 has no requeue either (pceconnection_controller.go:137);
- a failed call or a conflict, not only a crash, between the creation of the cluster and the two
  writes ends in the dead end the comment at clusterprofile_controller.go:130 speaks of;
- the floor to `visibility_only` (cwpmatch.go:64) comes before the raise by policy CRs
  (clusterprofile_controller.go:413): an annotation that is no mode is dropped only there;
- `fromNamespaceLabel` of an absent label is documented to leave the Illumio label unchanged
  (namespace-management.md:142), but the update replaces all labels;
- a PolicyInsight whose metadata is edited during its query loses the answer to a conflict and
  queries again, and one whose failure could not be written queries again while the informer lags
  (policyinsight_controller.go:160, 180; the reference says it computes once per request);
- a failed RuleView sync stamps `observedAt` too (ruleview_controller.go:133-134; the reference says
  "last successful sync");
- every reconcile generates a new pairing key (clusterprofile_controller.go:249);
- a profile that is adopted, then switched to create mode without an output Secret, fails on every
  reconcile with an error of the API server.

Why these bounds suffice: rules enter the stores one by one, and two rules are enough for a
half-built draft; two generations with no rule in common make every mixture visible; two CRs are
enough for one to disturb another since no call touches more than one ruleset; two faults allow a
failure and the failure or restart of its retry; three requests allow one answered, one under way
and one waiting; two namespaces are enough for one to fail and the other
to go on, and one of each kind for a wrong layer of `DesiredCWP` to show; three onboarding stanzas
cover both modes and both pairings.  For
the compiler two labels tell a conjunction from a disjunction, two peers a merge from a choice, and every
rule and peer is translated by itself; for the reports three flows are two of one key and one of another, more
than a list of one or two holds.  The other actors of `namespaces` and `onboarding` get two
changes so that one may undo, or be read across, the other, and one fault before or after them.
Bounds are named constants: `MaxFaults` (failed calls,
lost answers, restarts), `MaxChanges` (labels, scope, readiness, approvals, console acts), and the
length of `SpecOf[c]` (edits).  Deadlock is not checked: once users, faults and changes stop and no
CR is left the system has nothing to do.

**Fairness.**  Weak for the informer, the timers and every step of a reconcile (goroutines that are
runnable run, and the HTTP client and the API server answer or fail); strong for taking a key
from the work queue, because the queue is FIFO and the single worker may be busy with another key
again and again.  In `Connection`, `Onboarding`, `NamespaceProfiles` and `Reports` weak fairness is enough
everywhere: each controller has one object, so its key is alone in the queue; in `Reports` the clock goes on
too, and the PCE need not complete a query.  Nothing is assumed of users, administrators or of failures.

## 4. Proofs

What is proved holds for every value of the constants: any number of CRs, namespaces, generations,
labels, rules, faults and changes.  It rests on the assumptions on constants named in the modules and, where a
theorem has a hypothesis, on that.

| theorem | says | hypothesis |
|---|---|---|
| `PolicyLifecycle_proofs!TypeCorrect`, `Complete`, `Truthful` | `TypeOK`, `ActiveIsComplete`, `StatusIsTruthful` | |
| `PolicyPromise_proofs!Implements` | `KeepsPromise`, the refinement | no outage |
| `PolicyPromise_proofs!Orphanless` | `NoOrphan` | no outage |
| `PolicyPromise_proofs!NothingLost` | `NoLostWakeup` | |
| `PolicyGate_proofs!Gated` | `GateRespected` | |
| `PolicyMeaning_proofs!CompilerIsSound`, `MeaningKept`, `Translated`, `Meant` | the compiler keeps meaning, `CompilerKeepsMeaning`, `EnforcedIsGranted` | `Meant`: not skip mode |
| `PolicyClient_proofs!LossyTypeCorrect`, `Deferred` | `TypeOK` and `PendingDeletionDeferred` with console users and lost bodies | |
| `PolicyClient_proofs!NobodyForgotten` | `NoLostWakeup` with console users and lost bodies | |
| `Onboarding_proofs!TypeCorrect`, `DeadEndsAreLosses` | `TypeOK`, `DeadEndIsLoss` | |
| `Onboarding_proofs!OnboardedMeansPublished` | `OnboardedIsPublished` | `Steady` |
| `NamespaceProfiles_proofs!TypeCorrect`, `CleanPassesAreApplied` | `TypeOK`, `CleanIsApplied` | |
| `Reports_proofs!TypeCorrect`, `OfRequest`, `Bounded`, `Answers` | `TypeOK`, `ReportIsOfRequest`, `QueriesAreBounded`, `NothingForgotten` | |
| `Reports_proofs!PreflightWhole`, `RuleListWhole` | `PreflightIsWhole`, `RuleListIsWhole` | |

TLC checked each inductive invariant on the instance of its run before it was proved.

**The lifecycle.**  `ActiveIsComplete` and `StatusIsTruthful` are not inductive.  `IInv` adds, for each CR: *Lagging*
(the cache lags the object and nothing newer than the cache is in force), *Follows* (the same for the
reconcile and its snapshot), *Resolving* (look-ups made and still to make cover what must be found),
*Building* (draft plus what the reconcile still adds is a whole compilation), *Finalizing* (a finalizing
reconcile has seen the deletion, and only provisions a marked ruleset), *Reporting* (a status about to be
written is true of the stores).  The parts are stated over the state of one CR, so that a step of another CR
is dismissed by one lemma (`Frame`) and each action needs one lemma of its own.

**The promise.**  `PolicyPromise_proofs` adds to `IInv` what optimistic concurrency gives: a fresh cache shows the
object as it is, and a reconcile whose snapshot is still the latest is about the object as it is (`KInv`).
On it stand three results.  `NothingLost`: a verdict without a requeue is about a generation that does not
compile, and whatever else ends a reconcile leaves a queue entry, a timer or an event (`WInv`, with the relation
`Onward` for how a reconcile may go on).  Where the PCE answers 429 with `Retry-After: 0`, which is no requeue, the
second in a row writes a status that changes nothing, so that no event comes either; such a CR is `Stalled`, its
status says RateLimited for its current generation, and the theorem says that no other is left.  `Orphanless`: a ruleset exists, and a reconcile may create one,
only under the finalizer, and at `release` the ruleset is gone (`OInv`).  The hypothesis
`Readiness \subseteq {TRUE}` says that profile and connection stay in order; without it the theorem is
false, and `bug_orphan` is its counterexample.  `Implements`: the initial states map to those of `PolicyPromise`; what
users do to an object maps to their step of the promise, `Provision` to its
`Enforce` at the generation of the snapshot (which `Follows` puts between what is in force and what is asked),
`FinalizeProvision` to `Withdraw`, `RemoveFinalizer` and the deletion of an object without finalizer to `Leave`
(which needs `OInv`), and every other step changes neither what is asked nor what is enforced.

**The gate.**  Wherever an approval is seen - on the object, in the cache, in a snapshot - the generation seen
with it has been approved, and only an approved snapshot comes to `provision` (`GInv`).

**Console users and lost bodies.**  `IInv` does not survive them: a draft may be provisioned half built.  `LInv`
keeps the part that does: the cache lags the object, the reconcile the cache, a finalizing reconcile has seen the
deletion, and a marked ruleset exists.  The last is why a lost list of rulesets does no harm: what follows is a
creation, and the PCE refuses it.  Each action is then shown to leave a pending deletion alone and not
to lead to a write (`Orderly`).  `NobodyForgotten` takes up `WInv`, which speaks of the objects, the caches and the
reconciles alone and so does not need `IInv`: the console touches none of them, and a look-up that is
taken for empty leads to another call of the same reconcile or to a verdict with a requeue (`LostOnward`).

**Meaning.**  `PolicyMeaning_proofs` goes from the ports up: the services a list is lowered to admit its
ports (`PortsMean`), the rules built from lowered entries permit what the entries do when every look-up gave an
href (`RulesMean`), and each front end admits what its author grants, entry by entry (`IntentMeans`, `PolicyMeans`).
It rests on `PortAssumption` (what a port is), and `Meant` on `SourceAssumption` and `KindAssumption` besides, which say
that `SpecOf` is what the compiler makes of the specs as written.  `Translated` is what the run
`lifecycle_two` checks over bounded specs (`CompilerKeepsMeaning`), for any set of them.

**Onboarding.**  *Reconciling* says what a reconcile knows at each of its calls (a token is held only between the
creation and its record); *Creations* says that a cluster of the operator's own without a href has its token in
the hands of a reconcile or a history of losing it, from which `DeadEndIsLoss` follows.  *Publishing* says what the output
Secret holds at each call: id and token before anything that follows the creation, the code before the
pass over the namespaces.  It is kept only if the profile keeps to its output Secret while it creates (`Steady`: every
generation before a creating one creates too, into the same Secret).  Otherwise the theorem is false: a Secret named
after the creation never gets the token (first of the observations above), and an adopted cluster has none.

**Namespaces.**  *Current*: unless an event has come since, a pass works on the generation there is.  *Working*:
then, as long as nothing failed, it knows what is wanted of each namespace, the PCE has what was listed for those still to
do, and those done are applied and counted; nothing is said of a CWP an administrator touched since.  Every change of
the profile, of a namespace or of a policy CR enqueues the key, which ends these obligations; `queued` being false
is therefore all that the other actors have to respect.  The first rule that matches is the least
element of a set of indices, which `WFMin` provides.

**Reports.**  `IInv` adds to the three properties *Synced* and *Snapshot* (what the informer and the reconcile have
seen; a snapshot that is outdated has an event to come, which is why an error swallowed after a conflict
forgets nothing), *Honest* (what the status records was asked for), *Querying* (only a PolicyInsight queries, and
from the latest snapshot only while its request is not answered) and *Budget* (as long as the request
is not answered and no query of it has begun there is a run to spare).

**What reports say.**  A loop is reasoned about like a system: what holds before the first round and is kept by
each holds at the end, by the least round at which it would fail (`Least`, from the library's `WFMin`, stands in for
the induction theorems, which take an operator).  `RoundsExist` and `RoundsAgree` give the function a loop defines.  The
invariant of `classifyFlows` is `Told`: after i flows there is one finding for every blocked key seen, none else, and its
connections are the sum so far, which is 0 for a key not seen; `PassedTold` and `BlockedTold` are its two steps.  A
sort is a permutation without inversions; that one exists for every order `slices.SortFunc` can sort by is proved by
inserting one entry after the other (`Inserted`, `Arranged`), and that the comparisons of the code are such orders by
`BeforeSorts`, `HeavierSorts` and in `RulesSorted`.  From this follow, for any number of flows and rules, what a cut list
keeps (`CutIsHeaviest`, `OwnListedFirst`) and that the counts are of all (`DistinctCount`, `SummaryAddsUp`, `RulesCounted`).

**Only model-checked.**  Liveness under fairness, which the provers do not reach: `Converges`, `StatusConverges`,
`DeletionCompletes`, `ConflictIsReported`, `Onboards`, `ConnectionRecovers`, `OverlapIsReported`, `RequestIsAnswered`,
`RuleViewFollows`.  Every invariant and every safety property of a passing run has a theorem; where the table names a
hypothesis, the instance of the run satisfies it, and without it the property is false.

## 5. Not modelled, and the plan

Not modelled: manager start-up beyond a restart, flags, TLS, metrics, generated DeepCopy code, CRD
manifests, Helm chart; the 10-hour resync of controller-runtime (no property leans on it).

Left out of the parts that are modelled: which key of a credentials Secret is missing; connections and
profiles being deleted; the rendering of rules; the cap of the PCE's synchronous lists (500 objects), which
no source states; the annotation that overrides the mode of unknown labels (`ResolveUnknownLabelMode`:
the mode is a constant of a run); `WorkloadsAffected` and the label lists in the status.

Plan, in order: (1) proofs: what of the promise is kept with outages and with console users, where the lifecycle is known
to orphan a ruleset or to show a half-built draft; (2) the readiness chain
composed, `usable` of `PolicyLifecycle` given by `Onboarding`; (3) the mode of unknown labels as state, changed by
an annotation between two reconciles.
