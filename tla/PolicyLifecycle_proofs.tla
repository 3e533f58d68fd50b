----------------------- MODULE PolicyLifecycle_proofs -----------------------
(* Proofs about PolicyLifecycle, for every set of CRs, every spec, every mode  *)
(* and every bound on faults and changes.                                      *)
EXTENDS PolicyLifecycle, SequenceTheorems, TLAPS

SpecAt(c, g) == SpecOf[c][g]

FinalizeSteps == {"finresolve", "finfind", "findelete", "finprovision", "release"}

-----------------------------------------------------------------------------
(* The inductive invariant.  Its parts speak of one CR c through its object o, *)
(* cached copy k, draft d, active ruleset a and reconcile w, so that they are  *)
(* said in the same words before and after a step.                             *)

(* The cache lags the object and nothing newer than the cache is in force. *)
Lagging(c, o, k, a) ==
  /\ o.gen <= Len(SpecOf[c])
  /\ IF o.phase = "absent" THEN o.gen = 0 ELSE o.gen > 0
  /\ k.gen <= o.gen
  /\ k.phase # "absent" => k.gen > 0 /\ o.phase # "absent"
  /\ k.phase \in {"deleting", "gone"} => o.phase \in {"deleting", "gone"}
  /\ a.gen <= k.gen

(* What is in force is whole, and the status tells the truth about it. *)
Enforced(c, o, d, a) ==
  /\ o.phase = "absent" => ~ d.exists /\ ~ a.exists /\ o.ready = "none"
  /\ a.exists => /\ d.exists /\ a.gen > 0 /\ SpecAt(c, a.gen).valid
                 /\ a.rules \in Compilations(SpecAt(c, a.gen))
  /\ o.phase = "live" /\ d.exists => ~ d.marked
  /\ o.phase = "live" /\ o.ready = "Compiled" /\ o.prov = "Provisioned" =>
       a.exists /\ a.gen >= o.obs

(* A reconcile lags the cache, and nothing newer than what it saw is in force. *)
Follows(w, k, a) == w.pc # "idle" => w.gen > 0 /\ w.gen <= k.gen /\ a.gen <= w.gen

(* The look-ups still to make and those made cover what must be found. *)
Resolving(c, w) ==
  LET s == SpecAt(c, w.gen) IN
  /\ w.pc \in PolicyCalls \cup {"resolve"} => s.valid
  /\ w.pc \in {"addfin", "resolve", "scope"} => w.hit = {}
  /\ w.pc \in {"lookup", "mint", "narrow"} =>
       /\ w.todo \subseteq Lookups(s) /\ w.hit \subseteq Lookups(s)
       /\ {x \in Lookups(s) : x[2] \in InitLabels} \subseteq w.hit \cup w.todo
       /\ Mode # "skip" => w.hit \cup w.todo = Lookups(s)
  /\ w.pc = "mint" => w.make \subseteq w.todo
  /\ w.pc = "narrow" => w.todo = {}

(* What the draft still lacks is what the reconcile still has to add. *)
Building(c, w, d) ==
  LET Whole == Compilations(SpecAt(c, w.gen)) IN
  /\ w.pc \in {"list", "delete", "service", "rule", "provision"} => d.exists /\ ~ d.marked
  /\ w.pc \in {"find", "create", "list", "delete", "service"} => w.add \in Whole
  /\ w.pc \in {"addfin", "resolve", "scope", "lookup", "mint", "narrow", "find", "create",
               "list", "service", "rule", "provision"} => w.del = {}
  /\ w.pc = "delete" => d.rules = w.del
  /\ w.pc = "service" => d.rules = {}
  /\ w.pc = "rule" => d.rules \cup w.add \in Whole
  /\ w.pc = "provision" => d.rules \in Whole

(* A finalizing reconcile has seen the deletion, and provisions nothing else. *)
Finalizing(w, k, d) ==
  /\ w.pc \in FinalizeSteps => k.phase \in {"deleting", "gone"}
  /\ w.pc = "finprovision" /\ d.exists => d.marked

(* A status about to be written is true of the stores. *)
Reporting(w, o, a) ==
  w.pc = "status" =>
    /\ w.prov = "Provisioned" /\ o.phase = "live" => a.exists /\ a.gen = w.gen
    /\ w.ready = "Compiled" => w.prov \in {"Provisioned", "Pending"}

Stores(c, o, k, d, a) == Lagging(c, o, k, a) /\ Enforced(c, o, d, a)
Fits(c, w, o, k, d, a) ==
  /\ Follows(w, k, a) /\ Resolving(c, w) /\ Building(c, w, d)
  /\ Finalizing(w, k, d) /\ Reporting(w, o, a)

Good(c) ==
  /\ Stores(c, cr[c], cache[c], draft[c], active[c])
  /\ Fits(c, wk[c], cr[c], cache[c], draft[c], active[c])

LabelsKept == InitLabels \subseteq labels

IInv == TypeOK /\ LabelsKept /\ \A c \in CR : Good(c)

-----------------------------------------------------------------------------
(* Types of the helpers *)

(* A generation within the history of a CR has a well-formed spec. *)
LEMMA SpecType ==
  ASSUME NEW c \in CR, NEW g \in Nat, g > 0, g <= Len(SpecOf[c])
  PROVE  SpecAt(c, g) \in PolicySpec
BY SpecAssumption, ElementOfSeq DEF SpecAt

(* Compiling a well-formed spec gives well-formed rules. *)
LEMMA RulesType ==
  ASSUME NEW s \in PolicySpec, NEW hit
  PROVE  Rules(s, hit) \subseteq Rule
<1> SUFFICES ASSUME NEW a \in s.allows PROVE RuleOf(s, a, hit) \in Rule
  BY DEF Rules, Kept
<1>1. /\ a.from \in SUBSET Label /\ a.intra \in BOOLEAN /\ a.ports \in SUBSET Port
      /\ s.to \in SUBSET Label
  BY DEF PolicySpec, Allow
<1>2. {l \in a.from : <<a, l>> \in hit} \in SUBSET Label
  BY <1>1
<1> QED BY <1>1, <1>2 DEF RuleOf, Rule

(* The look-ups of a spec are pairs of an allow entry and a label. *)
LEMMA LookupsType ==
  ASSUME NEW s \in PolicySpec
  PROVE  Lookups(s) \subseteq Allow \X Label
BY DEF Lookups, PolicySpec

(* A reconcile that is not in progress is well typed. *)
LEMMA IdleType == Idle \in Worker
BY DEF Idle, Worker, Steps, Verdicts

(* A verdict carries the generation of its reconcile and nothing of its work. *)
LEMMA VerdictFields ==
  ASSUME NEW w, NEW r, NEW v, NEW b
  PROVE  LET x == Verdict(w, r, v, b) IN
         /\ x.pc = "status" /\ x.own = w.own /\ x.gen = w.gen
         /\ x.ready = r /\ x.prov = v /\ x.again = b
         /\ x.todo = {} /\ x.hit = {} /\ x.del = {} /\ x.add = {}
BY DEF Verdict, Idle

(* A verdict is well typed. *)
LEMMA VerdictType ==
  ASSUME NEW w \in Worker, NEW r \in Verdicts,
         NEW v \in {"none", "keep", "Provisioned", "Pending"}, NEW b \in BOOLEAN
  PROVE  Verdict(w, r, v, b) \in Worker
<1>1. "status" \in Steps /\ w.own \in BOOLEAN /\ w.gen \in Nat
  BY DEF Steps, Worker
<1>2. [Idle EXCEPT !.pc = "status", !.own = w.own, !.gen = w.gen,
                   !.ready = r, !.prov = v, !.again = b] \in Worker
  BY <1>1, IdleType DEF Worker
<1> QED BY <1>2 DEF Verdict

(* So is what follows the creation of a rule, ... *)
LEMMA AfterRulesType ==
  ASSUME NEW w \in Worker
  PROVE  AfterRules(w) \in Worker
<1>1. [w EXCEPT !.pc = "rule"] \in Worker /\ [w EXCEPT !.pc = "provision"] \in Worker
  BY DEF Worker, Steps, PolicyCalls
<1>2. Verdict(w, "Compiled", "Pending", TRUE) \in Worker
  BY VerdictType DEF Verdicts
<1> QED BY <1>1, <1>2 DEF AfterRules

(* ... what follows the deletion of a rule, ... *)
LEMMA AfterDeletesType ==
  ASSUME NEW w \in Worker
  PROVE  AfterDeletes(w) \in Worker
<1>1. [w EXCEPT !.pc = "delete"] \in Worker /\ [w EXCEPT !.pc = "service"] \in Worker
  BY DEF Worker, Steps, PolicyCalls
<1> QED BY <1>1, AfterRulesType DEF AfterDeletes

(* ... what follows the compilation, ... *)
LEMMA CompiledType ==
  ASSUME NEW c \in CR, NEW w \in Worker
  PROVE  Compiled(c, w) \in Worker
<1>1. [w EXCEPT !.pc = "resolve"] \in Worker
  BY DEF Worker, Steps
<1>2. Verdict(w, "Rejected", "keep", FALSE) \in Worker
  BY VerdictType DEF Verdicts
<1> QED BY <1>1, <1>2 DEF Compiled

(* ... the snapshot a reconcile takes of the cache, ... *)
LEMMA SnapshotType ==
  ASSUME TypeOK, NEW c \in CR
  PROVE  /\ Snapshot(c) \in Worker
         /\ Snapshot(c).gen = cache[c].gen /\ Snapshot(c).own = fresh[c]
BY DEF TypeOK, Snapshot, Idle, Worker, Cached, Steps, Verdicts

(* ... and what it starts with. *)
LEMMA BeginType ==
  ASSUME TypeOK, NEW c \in CR
  PROVE  Begin(c) \in Worker
<1>1. [Snapshot(c) EXCEPT !.pc = "finresolve"] \in Worker
  BY SnapshotType DEF Worker, Steps
<1>2. [Snapshot(c) EXCEPT !.pc = "addfin"] \in Worker
  BY SnapshotType DEF Worker, Steps
<1>3. Compiled(c, Snapshot(c)) \in Worker
  BY SnapshotType, CompiledType
<1> QED BY <1>1, <1>2, <1>3, IdleType DEF Begin

(* What the cache keeps of an object is well typed. *)
LEMMA ViewType ==
  ASSUME NEW o \in Object
  PROVE  View(o) \in Cached
BY DEF View, Object, Cached

-----------------------------------------------------------------------------
(* How a step moves the reconcile of c and leaves the others alone *)

WorkOK == queue \subseteq CR /\ timer \subseteq CR /\ wk \in [CR -> Worker] /\ faults \in Nat

Moved(c, w) ==
  /\ WorkOK' /\ wk'[c] \in {w, Idle}
  /\ \A d \in CR \ {c} : wk'[d] = wk[d]

(* However a call of the reconcile of c ends, only that reconcile moves. *)
LEMMA Outcome ==
  ASSUME TypeOK, NEW c \in CR, NEW w \in Worker,
         Continue(c, w) \/ Answered(c, w) \/ Refused(c)
  PROVE  Moved(c, w)
<1>1. wk' \in [CR -> Worker] /\ wk'[c] \in {w, Idle} /\ \A d \in CR \ {c} : wk'[d] = wk[d]
  BY IdleType DEF TypeOK, Continue, Answered, Refused, Backoff
<1>2. queue' \subseteq CR /\ timer' \subseteq CR /\ faults' \in Nat
  BY DEF TypeOK, Continue, Answered, Refused, Backoff, Spend
<1> QED BY <1>1, <1>2 DEF Moved, WorkOK

Same(d) ==
  /\ cr'[d] = cr[d] /\ cache'[d] = cache[d] /\ wk'[d] = wk[d]
  /\ draft'[d] = draft[d] /\ active'[d] = active[d]

(* What holds of a CR the step does not touch goes on holding. *)
LEMMA Frame ==
  ASSUME NEW d \in CR, Good(d), Same(d)
  PROVE  Good(d)'
BY DEF Good, Same

(* An error leaves nothing half known: an idle reconcile fits any stores. *)
LEMMA IdleFits ==
  ASSUME NEW c \in CR, NEW o, NEW k, NEW d, NEW a
  PROVE  Fits(c, Idle, o, k, d, a)
<1>1. Idle.pc = "idle"
  BY DEF Idle
<1> QED BY <1>1 DEF Fits, Follows, Resolving, Building, Finalizing, Reporting,
                    PolicyCalls, FinalizeSteps

(* A step of the reconcile of c that touches no store: it is enough that the   *)
(* reconcile it goes on with fits the stores as they are.                      *)
LEMMA PureStep ==
  ASSUME IInv, NEW c \in CR, NEW w \in Worker, Moved(c, w),
         Fits(c, w, cr[c], cache[c], draft[c], active[c]),
         UNCHANGED <<kube, draft, active, env, changes>>,
         labels \subseteq labels', labels' \subseteq Label
  PROVE  IInv'
<1>1. TypeOK' /\ LabelsKept'
  BY DEF IInv, TypeOK, Moved, WorkOK, LabelsKept, kube, env
<1>2. ASSUME NEW d \in CR, d # c PROVE Good(d)'
  BY <1>2, Frame DEF Same, Moved, kube, IInv
<1>3. Good(c)'
  BY IdleFits DEF IInv, Good, Moved, kube
<1> QED BY <1>1, <1>2, <1>3 DEF IInv

(* The same when the reconcile goes on, or ends in an error. *)
LEMMA PureContinue ==
  ASSUME IInv, NEW c \in CR, NEW w \in Worker, Continue(c, w) \/ Refused(c),
         Fits(c, w, cr[c], cache[c], draft[c], active[c]),
         UNCHANGED <<kube, pce, env, changes>>
  PROVE  IInv'
<1>1. Moved(c, w) /\ labels' = labels /\ labels \subseteq Label /\ UNCHANGED <<draft, active>>
  BY Outcome DEF IInv, TypeOK, pce
<1> QED BY <1>1, PureStep

(* Going on at another step changes nothing else of the reconcile. *)
LEMMA GoTo ==
  ASSUME NEW w \in Worker, NEW p \in Steps
  PROVE  LET x == [w EXCEPT !.pc = p] IN
         /\ x \in Worker /\ x.pc = p
         /\ x.own = w.own /\ x.gen = w.gen /\ x.todo = w.todo /\ x.hit = w.hit
         /\ x.del = w.del /\ x.add = w.add /\ x.ready = w.ready /\ x.prov = w.prov
BY DEF Worker

(* A verdict fits the stores when it is followed by a generation that is.      *)
LEMMA VerdictFits ==
  ASSUME NEW c \in CR, NEW w, NEW o, NEW k, NEW d, NEW a, NEW b, NEW r, NEW v,
         Follows(w, k, a), w.pc # "idle",
         v = "Provisioned" /\ o.phase = "live" => a.exists /\ a.gen = w.gen,
         r = "Compiled" => v \in {"Provisioned", "Pending"}
  PROVE  Fits(c, Verdict(w, r, v, b), o, k, d, a)
<1> DEFINE x == Verdict(w, r, v, b)
<1>1. x.pc = "status" /\ x.gen = w.gen /\ x.ready = r /\ x.prov = v
  BY VerdictFields
<1> HIDE DEF x
<1>2. Fits(c, x, o, k, d, a)
  BY <1>1 DEF Fits, Follows, Resolving, Building, Finalizing, Reporting,
              PolicyCalls, FinalizeSteps
<1> QED BY <1>2 DEF x

(* What every step of a reconcile in progress starts from. *)
LEMMA InProgress ==
  ASSUME IInv, NEW c \in CR
  PROVE  /\ wk[c] \in Worker /\ Good(c) /\ TypeOK /\ LabelsKept
         /\ cr[c] \in Object /\ cache[c] \in Cached /\ draft[c] \in Draft
         /\ active[c] \in Active
         /\ wk[c].pc # "idle" => SpecAt(c, wk[c].gen) \in PolicySpec
<1>1. wk[c] \in Worker /\ Good(c) /\ TypeOK /\ LabelsKept
      /\ cr[c] \in Object /\ cache[c] \in Cached /\ draft[c] \in Draft /\ active[c] \in Active
  BY DEF IInv, TypeOK
<1>2. ASSUME wk[c].pc # "idle" PROVE SpecAt(c, wk[c].gen) \in PolicySpec
  <2>1. wk[c].gen \in Nat /\ cache[c].gen \in Nat /\ cr[c].gen \in Nat
    BY <1>1 DEF Worker, Cached, Object
  <2>2. Len(SpecOf[c]) \in Nat
    BY SpecAssumption, LenProperties
  <2>3. wk[c].gen > 0 /\ wk[c].gen <= Len(SpecOf[c])
    BY <1>1, <1>2, <2>1, <2>2 DEF Good, Stores, Lagging, Fits, Follows
  <2> QED BY <2>1, <2>3, SpecType
<1> QED BY <1>1, <1>2

(* An error verdict ends a reconcile without touching a store. *)
LEMMA VerdictStep ==
  ASSUME IInv, NEW c \in CR, wk[c].pc # "idle", NEW b \in BOOLEAN,
         NEW r \in Verdicts \ {"Compiled"},
         Continue(c, Verdict(wk[c], r, "keep", b)),
         UNCHANGED <<kube, pce, env, changes>>
  PROVE  IInv'
<1>1. wk[c] \in Worker /\ Follows(wk[c], cache[c], active[c])
  BY InProgress DEF Good, Fits
<1>2. Verdict(wk[c], r, "keep", b) \in Worker
  BY <1>1, VerdictType
<1>3. Fits(c, Verdict(wk[c], r, "keep", b), cr[c], cache[c], draft[c], active[c])
  BY <1>1, VerdictFits
<1> QED BY <1>2, <1>3, PureContinue

-----------------------------------------------------------------------------
(* One lemma per action *)

(* Finding the profile usable or not disturbs nothing. *)
LEMMA ResolveProfileStep ==
  ASSUME IInv, NEW c \in CR, ResolveProfile(c)
  PROVE  IInv'
<1>1. wk[c] \in Worker /\ Good(c) /\ wk[c].pc = "resolve"
  BY InProgress DEF ResolveProfile
<1>2. CASE usable
  <2> DEFINE w == [wk[c] EXCEPT !.pc = "scope"]
  <2>1. w \in Worker /\ w.pc = "scope" /\ w.gen = wk[c].gen /\ w.del = wk[c].del
        /\ w.hit = wk[c].hit
    BY <1>1, GoTo DEF Steps, PolicyCalls
  <2>2. Continue(c, w) /\ UNCHANGED <<kube, pce, env, changes>>
    BY <1>2 DEF ResolveProfile
  <2> HIDE DEF w
  <2>3. Fits(c, w, cr[c], cache[c], draft[c], active[c])
    BY <1>1, <2>1 DEF Good, Fits, Follows, Resolving, Building, Finalizing, Reporting,
                      PolicyCalls, FinalizeSteps
  <2> QED BY <2>1, <2>2, <2>3, PureContinue
<1>3. CASE ~ usable
  BY <1>1, <1>3, VerdictStep DEF ResolveProfile, Verdicts
<1> QED BY <1>2, <1>3

(* The look-ups to make are those of the generation being reconciled. *)
LEMMA ResolveProviderStep ==
  ASSUME IInv, NEW c \in CR, ResolveProvider(c)
  PROVE  IInv'
<1> DEFINE s == SpecAt(c, wk[c].gen)
           todo == Lookups(s)
           p == IF todo = {} THEN "narrow" ELSE "lookup"
           w == [wk[c] EXCEPT !.pc = p, !.scope = scope, !.todo = todo]
<1>1. wk[c] \in Worker /\ Good(c) /\ wk[c].pc = "scope" /\ s \in PolicySpec /\ scope \subseteq Label
  BY InProgress DEF ResolveProvider, TypeOK
<1>2. CASE scope # {} /\ scope \subseteq labels
  <2>1. todo \subseteq Allow \X Label /\ p \in Steps
    BY <1>1, LookupsType DEF Steps, PolicyCalls
  <2>2. w \in Worker /\ w.pc = p /\ w.gen = wk[c].gen /\ w.del = wk[c].del /\ w.hit = wk[c].hit
        /\ w.todo = todo
    <3> HIDE DEF p, todo
    <3> QED BY <1>1, <2>1 DEF Worker
  <2>3. Continue(c, w) /\ UNCHANGED <<kube, pce, env, changes>>
    BY <1>2 DEF ResolveProvider, SpecAt
  <2> HIDE DEF w
  <2>4. Resolving(c, w)
    BY <1>1, <2>2 DEF Good, Fits, Resolving, PolicyCalls
  <2>5. Fits(c, w, cr[c], cache[c], draft[c], active[c])
    BY <1>1, <2>2, <2>4 DEF Good, Fits, Follows, Building, Finalizing, Reporting, FinalizeSteps
  <2> QED BY <2>2, <2>3, <2>5, PureContinue
<1>3. CASE ~ (scope # {} /\ scope \subseteq labels)
  <2>1. Continue(c, Verdict(wk[c], "Rejected", "keep", TRUE)) /\ UNCHANGED <<kube, pce, env, changes>>
    BY <1>3 DEF ResolveProvider
  <2> QED BY <1>1, <2>1, VerdictStep DEF Verdicts
<1> QED BY <1>2, <1>3

(* A look-up made, found or not, keeps the rest of them covered. *)
LEMMA LookedFits ==
  ASSUME IInv, NEW c \in CR, wk[c].pc \in {"lookup", "mint"}, NEW x \in wk[c].todo, NEW hit,
         \/ hit = wk[c].hit \cup {x}
         \/ hit = wk[c].hit /\ Mode = "skip" /\ x[2] \notin InitLabels
  PROVE  /\ Looked(wk[c], x, hit) \in Worker
         /\ Fits(c, Looked(wk[c], x, hit), cr[c], cache[c], draft[c], active[c])
<1> DEFINE s == SpecAt(c, wk[c].gen)
           p == IF wk[c].todo = {x} THEN "narrow" ELSE "lookup"
           w == [wk[c] EXCEPT !.todo = @ \ {x}, !.make = {}, !.hit = hit, !.pc = p]
<1>1. wk[c] \in Worker /\ Good(c) /\ s \in PolicySpec
  BY InProgress
<1>2. hit \subseteq Allow \X Label /\ p \in Steps
  BY <1>1 DEF Worker, Steps, PolicyCalls
<1>3. w \in Worker /\ w.pc = p /\ w.gen = wk[c].gen /\ w.del = wk[c].del /\ w.hit = hit
      /\ w.todo = wk[c].todo \ {x}
  <2> HIDE DEF p
  <2> QED BY <1>1, <1>2 DEF Worker
<1>4. Looked(wk[c], x, hit) = w
  BY DEF Looked
<1> HIDE DEF w
<1>5. Resolving(c, w)
  <2>1. wk[c].todo \subseteq Lookups(s) /\ wk[c].hit \subseteq Lookups(s) /\ s.valid
        /\ {y \in Lookups(s) : y[2] \in InitLabels} \subseteq wk[c].hit \cup wk[c].todo
        /\ (Mode # "skip" => wk[c].hit \cup wk[c].todo = Lookups(s))
    BY <1>1 DEF Good, Fits, Resolving, PolicyCalls
  <2>2. w.todo \subseteq Lookups(s) /\ w.hit \subseteq Lookups(s)
    BY <1>3, <2>1
  <2>3. {y \in Lookups(s) : y[2] \in InitLabels} \subseteq w.hit \cup w.todo
    BY <1>3, <2>1
  <2>4. Mode # "skip" => w.hit \cup w.todo = Lookups(s)
    BY <1>3, <2>1
  <2>5. w.pc \in {"lookup", "narrow"} /\ (w.pc = "narrow" => w.todo = {})
    BY <1>3
  <2> QED BY <1>3, <2>1, <2>2, <2>3, <2>4, <2>5 DEF Resolving
<1>6. Fits(c, w, cr[c], cache[c], draft[c], active[c])
  BY <1>1, <1>3, <1>5 DEF Good, Fits, Follows, Building, Finalizing, Reporting, FinalizeSteps
<1> QED BY <1>3, <1>4, <1>6

(* Each look-up, whatever the mode answers to an unknown label. *)
LEMMA ResolveAllowStep ==
  ASSUME IInv, NEW c \in CR, ResolveAllow(c)
  PROVE  IInv'
<1>1. wk[c] \in Worker /\ Good(c) /\ wk[c].pc = "lookup" /\ InitLabels \subseteq labels
      /\ UNCHANGED <<kube, pce, env, changes>>
  BY InProgress DEF ResolveAllow, LabelsKept
<1>2. PICK x \in wk[c].todo :
       \/ Continue(c, Looked(wk[c], x, wk[c].hit \cup {x}))
       \/ x[2] \notin labels /\ Mode = "skip" /\ Continue(c, Looked(wk[c], x, wk[c].hit))
       \/ Continue(c, [wk[c] EXCEPT !.pc = "mint", !.make = {x}])
       \/ Continue(c, Verdict(wk[c], "Rejected", "keep", TRUE))
  BY DEF ResolveAllow
<1>3. CASE Continue(c, Looked(wk[c], x, wk[c].hit \cup {x}))
  BY <1>1, <1>3, LookedFits, PureContinue
<1>4. CASE x[2] \notin labels /\ Mode = "skip" /\ Continue(c, Looked(wk[c], x, wk[c].hit))
  BY <1>1, <1>4, LookedFits, PureContinue
<1>5. CASE Continue(c, [wk[c] EXCEPT !.pc = "mint", !.make = {x}])
  <2> DEFINE w == [wk[c] EXCEPT !.pc = "mint", !.make = {x}]
  <2>1. x \in Allow \X Label /\ "mint" \in Steps
    BY <1>1 DEF Worker, Steps, PolicyCalls
  <2>2. w \in Worker /\ w.pc = "mint" /\ w.gen = wk[c].gen /\ w.del = wk[c].del
        /\ w.todo = wk[c].todo /\ w.hit = wk[c].hit /\ w.make = {x}
    BY <1>1, <2>1 DEF Worker
  <2>3. Continue(c, w)
    BY <1>5
  <2> HIDE DEF w
  <2>4. Resolving(c, w)
    BY <1>1, <2>2 DEF Good, Fits, Resolving, PolicyCalls
  <2>5. Fits(c, w, cr[c], cache[c], draft[c], active[c])
    BY <1>1, <2>2, <2>4 DEF Good, Fits, Follows, Building, Finalizing, Reporting, FinalizeSteps
  <2> QED BY <1>1, <2>2, <2>3, <2>5, PureContinue
<1>6. CASE Continue(c, Verdict(wk[c], "Rejected", "keep", TRUE))
  BY <1>1, <1>6, VerdictStep DEF Verdicts
<1> QED BY <1>2, <1>3, <1>4, <1>5, <1>6

(* The creation of a label, or its refusal. *)
LEMMA MintLabelStep ==
  ASSUME IInv, NEW c \in CR, MintLabel(c)
  PROVE  IInv'
<1>1. wk[c] \in Worker /\ wk[c].pc = "mint" /\ labels \subseteq Label /\ wk[c].make \subseteq wk[c].todo
      /\ UNCHANGED <<kube, draft, active, env, changes>>
  BY InProgress DEF MintLabel, TypeOK, Good, Fits, Resolving
<1>2. PICK x \in wk[c].make :
       \/ /\ labels' = labels \cup {x[2]}
          /\ Answered(c, Looked(wk[c], x, wk[c].hit \cup {x}))
       \/ Refused(c) /\ UNCHANGED labels
  BY DEF MintLabel
<1> DEFINE w == Looked(wk[c], x, wk[c].hit \cup {x})
<1>3. w \in Worker /\ Fits(c, w, cr[c], cache[c], draft[c], active[c])
  BY <1>1, LookedFits
<1>4. x[2] \in Label
  BY <1>1 DEF Worker
<1> HIDE DEF w
<1>5. Moved(c, w)
  BY <1>2, <1>3, Outcome, InProgress DEF w
<1>6. labels \subseteq labels' /\ labels' \subseteq Label
  BY <1>1, <1>2, <1>4
<1> QED BY <1>1, <1>3, <1>5, <1>6, PureStep

(* The rules to add are a whole compilation once no look-up is left. *)
LEMMA ResolveNarrowStep ==
  ASSUME IInv, NEW c \in CR, ResolveNarrow(c)
  PROVE  IInv'
<1> DEFINE s == SpecAt(c, wk[c].gen)
           R == Rules(s, wk[c].hit)
           w == [wk[c] EXCEPT !.pc = "find", !.hit = {}, !.add = R]
<1>1. wk[c] \in Worker /\ Good(c) /\ wk[c].pc = "narrow" /\ s \in PolicySpec
  BY InProgress DEF ResolveNarrow
<1>2. CASE s.to \subseteq labels
  <2>1. R \subseteq Rule /\ "find" \in Steps
    BY <1>1, RulesType DEF Steps, PolicyCalls
  <2>2. R \in Compilations(s)
    <3>1. wk[c].hit \in FullHits(s)
      BY <1>1 DEF Good, Fits, Resolving, FullHits
    <3> QED BY <3>1 DEF Compilations
  <2> HIDE DEF R
  <2>3. w \in Worker /\ w.pc = "find" /\ w.gen = wk[c].gen /\ w.del = wk[c].del /\ w.add = R
    BY <1>1, <2>1 DEF Worker
  <2>4. Continue(c, w) /\ UNCHANGED <<kube, pce, env, changes>>
    BY <1>2 DEF ResolveNarrow, SpecAt, R
  <2> HIDE DEF w
  <2>5. Fits(c, w, cr[c], cache[c], draft[c], active[c])
    BY <1>1, <2>2, <2>3 DEF Good, Fits, Follows, Resolving, Building, Finalizing, Reporting,
                            PolicyCalls, FinalizeSteps
  <2> QED BY <2>3, <2>4, <2>5, PureContinue
<1>3. CASE ~ (s.to \subseteq labels)
  <2>1. Continue(c, Verdict(wk[c], "Rejected", "keep", TRUE)) /\ UNCHANGED <<kube, pce, env, changes>>
    BY <1>3 DEF ResolveNarrow, SpecAt
  <2> QED BY <1>1, <2>1, VerdictStep DEF Verdicts
<1> QED BY <1>2, <1>3

(* Finding the owned ruleset writes nothing. *)
LEMMA FindRuleSetStep ==
  ASSUME IInv, NEW c \in CR, FindRuleSet(c)
  PROVE  IInv'
<1>1. wk[c] \in Worker /\ Good(c) /\ wk[c].pc = "find" /\ UNCHANGED <<kube, pce, env, changes>>
      /\ draft[c] \in Draft
  BY InProgress DEF FindRuleSet
<1>2. CASE ~ draft[c].exists
  <2> DEFINE w == [wk[c] EXCEPT !.pc = "create"]
  <2>1. w \in Worker /\ w.pc = "create" /\ w.gen = wk[c].gen /\ w.del = wk[c].del
        /\ w.add = wk[c].add
    BY <1>1, GoTo DEF Steps, PolicyCalls
  <2>2. Continue(c, w)
    BY <1>2 DEF FindRuleSet
  <2> HIDE DEF w
  <2>3. Fits(c, w, cr[c], cache[c], draft[c], active[c])
    BY <1>1, <2>1 DEF Good, Fits, Follows, Resolving, Building, Finalizing, Reporting,
                      PolicyCalls, FinalizeSteps
  <2> QED BY <1>1, <2>1, <2>2, <2>3, PureContinue
<1>3. CASE draft[c].exists /\ draft[c].marked
  <2>1. Continue(c, Verdict(wk[c], "Conflict", "keep", TRUE))
    BY <1>3 DEF FindRuleSet
  <2> QED BY <1>1, <2>1, VerdictStep DEF Verdicts
<1>4. CASE draft[c].exists /\ ~ draft[c].marked
  <2> DEFINE w == [wk[c] EXCEPT !.pc = "list", !.scope = {}]
  <2>1. w \in Worker /\ w.pc = "list" /\ w.gen = wk[c].gen /\ w.del = wk[c].del
        /\ w.add = wk[c].add
    BY <1>1 DEF Worker, Steps, PolicyCalls
  <2>2. Continue(c, w)
    BY <1>4 DEF FindRuleSet
  <2> HIDE DEF w
  <2>3. Fits(c, w, cr[c], cache[c], draft[c], active[c])
    BY <1>1, <1>4, <2>1 DEF Good, Fits, Follows, Resolving, Building, Finalizing, Reporting,
                      PolicyCalls, FinalizeSteps
  <2> QED BY <1>1, <2>1, <2>2, <2>3, PureContinue
<1> QED BY <1>1, <1>2, <1>3, <1>4 DEF Draft

-----------------------------------------------------------------------------
(* Steps that write the PCE stores of c *)

(* After the rules were deleted and created, the draft and what is still to be *)
(* added make the whole compilation.                                           *)
LEMMA AfterRulesFits ==
  ASSUME NEW c \in CR, NEW w \in Worker, NEW o, NEW k, NEW d, NEW a,
         w.pc # "idle", Follows(w, k, a), SpecAt(c, w.gen).valid, w.del = {},
         d.exists, ~ d.marked, d.rules \cup w.add \in Compilations(SpecAt(c, w.gen))
  PROVE  AfterRules(w) \in Worker /\ Fits(c, AfterRules(w), o, k, d, a)
<1>1. AfterRules(w) \in Worker
  BY AfterRulesType
<1>2. CASE w.add # {}
  <2> DEFINE x == [w EXCEPT !.pc = "rule"]
  <2>1. x.pc = "rule" /\ x.gen = w.gen /\ x.del = {} /\ x.add = w.add
    BY GoTo DEF Steps, PolicyCalls
  <2>2. AfterRules(w) = x
    BY <1>2 DEF AfterRules
  <2> HIDE DEF x
  <2> QED BY <1>1, <2>1, <2>2 DEF Fits, Follows, Resolving, Building, Finalizing, Reporting,
                                  FinalizeSteps
<1>3. CASE w.add = {} /\ DoProvision(w)
  <2> DEFINE x == [w EXCEPT !.pc = "provision"]
  <2>1. x.pc = "provision" /\ x.gen = w.gen /\ x.del = {}
    BY GoTo DEF Steps, PolicyCalls
  <2>2. AfterRules(w) = x /\ d.rules \cup w.add = d.rules
    BY <1>3 DEF AfterRules
  <2> HIDE DEF x
  <2> QED BY <1>1, <2>1, <2>2 DEF Fits, Follows, Resolving, Building, Finalizing, Reporting,
                                  FinalizeSteps
<1>4. CASE w.add = {} /\ ~ DoProvision(w)
  <2>1. AfterRules(w) = Verdict(w, "Compiled", "Pending", TRUE)
    BY <1>4 DEF AfterRules
  <2> QED BY <1>1, <2>1, VerdictFits
<1> QED BY <1>2, <1>3, <1>4

(* After a deletion the draft holds exactly the rules still to be deleted. *)
LEMMA AfterDeletesFits ==
  ASSUME NEW c \in CR, NEW w \in Worker, NEW o, NEW k, NEW d, NEW a,
         w.pc # "idle", Follows(w, k, a), SpecAt(c, w.gen).valid,
         d.exists, ~ d.marked, d.rules = w.del, w.add \in Compilations(SpecAt(c, w.gen))
  PROVE  AfterDeletes(w) \in Worker /\ Fits(c, AfterDeletes(w), o, k, d, a)
<1>1. AfterDeletes(w) \in Worker
  BY AfterDeletesType
<1>2. CASE w.del # {}
  <2> DEFINE x == [w EXCEPT !.pc = "delete"]
  <2>1. x.pc = "delete" /\ x.gen = w.gen /\ x.del = w.del /\ x.add = w.add
    BY GoTo DEF Steps, PolicyCalls
  <2>2. AfterDeletes(w) = x
    BY <1>2 DEF AfterDeletes
  <2> HIDE DEF x
  <2> QED BY <1>1, <2>1, <2>2 DEF Fits, Follows, Resolving, Building, Finalizing, Reporting,
                                  FinalizeSteps
<1>3. CASE w.del = {} /\ \E r \in w.add : r.ports = {}
  <2> DEFINE x == [w EXCEPT !.pc = "service"]
  <2>1. x.pc = "service" /\ x.gen = w.gen /\ x.del = w.del /\ x.add = w.add
    BY GoTo DEF Steps, PolicyCalls
  <2>2. AfterDeletes(w) = x
    BY <1>3 DEF AfterDeletes
  <2> HIDE DEF x
  <2> QED BY <1>1, <1>3, <2>1, <2>2 DEF Fits, Follows, Resolving, Building, Finalizing,
                                        Reporting, FinalizeSteps
<1>4. CASE w.del = {} /\ ~ \E r \in w.add : r.ports = {}
  <2>1. AfterDeletes(w) = AfterRules(w) /\ d.rules \cup w.add = w.add
    BY <1>4 DEF AfterDeletes
  <2> QED BY <1>4, <2>1, AfterRulesFits
<1> QED BY <1>2, <1>3, <1>4

(* A step of the reconcile of c that writes the draft or the active ruleset of *)
(* c: it is enough that the stores stay right and the reconcile fits them.     *)
LEMMA PCEStep ==
  ASSUME IInv, NEW c \in CR, NEW w \in Worker, Moved(c, w),
         NEW d \in Draft, NEW a \in Active,
         draft' = [draft EXCEPT ![c] = d], active' = [active EXCEPT ![c] = a],
         UNCHANGED <<kube, labels, env, changes>>,
         Stores(c, cr[c], cache[c], d, a),
         Fits(c, w, cr[c], cache[c], d, a)
  PROVE  IInv'
<1>1. TypeOK' /\ LabelsKept'
  BY DEF IInv, TypeOK, Moved, WorkOK, LabelsKept, kube, env
<1>2. ASSUME NEW e \in CR, e # c PROVE Good(e)'
  BY <1>2, Frame DEF Same, Moved, kube, IInv, TypeOK
<1>3. Good(c)'
  <2>1. draft'[c] = d /\ active'[c] = a
    BY DEF IInv, TypeOK
  <2> QED BY <2>1, IdleFits DEF Good, Moved, kube
<1> QED BY <1>1, <1>2, <1>3 DEF IInv

(* A new ruleset is empty: everything is still to be added. *)
LEMMA CreateRuleSetStep ==
  ASSUME IInv, NEW c \in CR, CreateRuleSet(c)
  PROVE  IInv'
<1> DEFINE d == [NoRuleSet EXCEPT !.exists = TRUE, !.scope = wk[c].scope]
           v == [wk[c] EXCEPT !.scope = {}]
           w == AfterDeletes(v)
<1>1. wk[c] \in Worker /\ Good(c) /\ wk[c].pc = "create" /\ active[c] \in Active /\ TypeOK
      /\ UNCHANGED <<kube, active, labels, env, changes>>
  BY InProgress DEF CreateRuleSet
<1>2. CASE Refused(c) /\ UNCHANGED draft
  BY <1>1, <1>2, IdleType, IdleFits, PureContinue DEF pce
<1>3. CASE draft' = [draft EXCEPT ![c] = d] /\ Answered(c, w)
  <2>1. d \in Draft /\ d.exists /\ ~ d.marked /\ d.rules = {}
    BY <1>1 DEF NoRuleSet, Draft, Worker
  <2>2. v \in Worker /\ v.pc = "create" /\ v.gen = wk[c].gen /\ v.del = wk[c].del
        /\ v.add = wk[c].add
    BY <1>1 DEF Worker
  <2> HIDE DEF d, v
  <2>3. w \in Worker /\ Fits(c, w, cr[c], cache[c], d, active[c])
    <3>1. Follows(v, cache[c], active[c]) /\ SpecAt(c, v.gen).valid /\ d.rules = v.del
          /\ v.add \in Compilations(SpecAt(c, v.gen))
      BY <1>1, <2>1, <2>2 DEF Good, Fits, Follows, Resolving, Building, PolicyCalls
    <3> QED BY <2>1, <2>2, <3>1, AfterDeletesFits
  <2>4. Stores(c, cr[c], cache[c], d, active[c])
    <3>1. cr[c].phase # "absent"
      BY <1>1 DEF Good, Stores, Lagging, Fits, Follows, TypeOK, Worker, Cached, Object
    <3> QED BY <1>1, <2>1, <3>1 DEF Good, Stores, Lagging, Enforced
  <2>5. Moved(c, w)
    BY <1>1, <1>3, <2>3, Outcome
  <2>6. active' = [active EXCEPT ![c] = active[c]]
    BY <1>1 DEF TypeOK
  <2> HIDE DEF w
  <2> QED BY <1>1, <1>3, <2>1, <2>3, <2>4, <2>5, <2>6, PCEStep
<1> QED BY <1>2, <1>3 DEF CreateRuleSet

(* The rules listed are those to delete. *)
LEMMA ListRulesStep ==
  ASSUME IInv, NEW c \in CR, ListRules(c)
  PROVE  IInv'
<1> DEFINE v == [wk[c] EXCEPT !.del = draft[c].rules]
<1>1. wk[c] \in Worker /\ Good(c) /\ wk[c].pc = "list" /\ draft[c] \in Draft
      /\ UNCHANGED <<kube, pce, env, changes>>
  BY InProgress DEF ListRules
<1>2. v \in Worker /\ v.pc = "list" /\ v.gen = wk[c].gen /\ v.del = draft[c].rules
      /\ v.add = wk[c].add
  BY <1>1 DEF Worker, Draft
<1>3. Continue(c, AfterDeletes(v)) \/ Refused(c)
  BY DEF ListRules
<1> HIDE DEF v
<1>4. AfterDeletes(v) \in Worker /\ Fits(c, AfterDeletes(v), cr[c], cache[c], draft[c], active[c])
  <2>1. Follows(wk[c], cache[c], active[c]) /\ Resolving(c, wk[c]) /\ Building(c, wk[c], draft[c])
    BY <1>1 DEF Good, Fits
  <2>2. Follows(v, cache[c], active[c])
    BY <1>1, <1>2, <2>1 DEF Follows, PolicyCalls
  <2>3. SpecAt(c, v.gen).valid /\ v.add \in Compilations(SpecAt(c, v.gen))
    BY <1>1, <1>2, <2>1 DEF Resolving, Building, PolicyCalls
  <2>4. draft[c].exists /\ ~ draft[c].marked
    BY <1>1, <2>1 DEF Building
  <2> QED BY <1>2, <2>2, <2>3, <2>4, AfterDeletesFits
<1> QED BY <1>1, <1>3, <1>4, PureContinue

(* A deleted rule leaves both the draft and the list. *)
LEMMA DeleteRuleStep ==
  ASSUME IInv, NEW c \in CR, DeleteRule(c)
  PROVE  IInv'
<1>1. wk[c] \in Worker /\ Good(c) /\ wk[c].pc = "delete" /\ draft[c] \in Draft
      /\ active[c] \in Active /\ TypeOK /\ UNCHANGED <<kube, active, labels, env, changes>>
  BY InProgress DEF DeleteRule
<1>2. CASE Refused(c) /\ UNCHANGED draft
  BY <1>1, <1>2, IdleType, IdleFits, PureContinue DEF pce
<1>3. ASSUME NEW r \in wk[c].del, draft' = [draft EXCEPT ![c].rules = @ \ {r}],
             Answered(c, AfterDeletes([wk[c] EXCEPT !.del = @ \ {r}]))
      PROVE  IInv'
  <2> DEFINE d == [draft[c] EXCEPT !.rules = @ \ {r}]
             v == [wk[c] EXCEPT !.del = @ \ {r}]
             w == AfterDeletes(v)
  <2>1. d \in Draft /\ d.exists = draft[c].exists /\ d.marked = draft[c].marked
        /\ d.rules = draft[c].rules \ {r}
    BY <1>1 DEF Draft
  <2>2. v \in Worker /\ v.pc = "delete" /\ v.gen = wk[c].gen /\ v.del = wk[c].del \ {r}
        /\ v.add = wk[c].add
    BY <1>1 DEF Worker
  <2>3. draft' = [draft EXCEPT ![c] = d] /\ Answered(c, w)
    BY <1>3
  <2> HIDE DEF d, v
  <2>4. w \in Worker /\ Fits(c, w, cr[c], cache[c], d, active[c])
    <3>1. Follows(v, cache[c], active[c]) /\ SpecAt(c, v.gen).valid /\ d.exists /\ ~ d.marked
          /\ d.rules = v.del /\ v.add \in Compilations(SpecAt(c, v.gen))
      BY <1>1, <2>1, <2>2 DEF Good, Fits, Follows, Resolving, Building, PolicyCalls
    <3> QED BY <2>2, <3>1, AfterDeletesFits
  <2>5. Stores(c, cr[c], cache[c], d, active[c])
    BY <1>1, <2>1 DEF Good, Stores, Lagging, Enforced
  <2>6. Moved(c, w) /\ active' = [active EXCEPT ![c] = active[c]]
    BY <1>1, <2>3, <2>4, Outcome DEF TypeOK
  <2> HIDE DEF w
  <2> QED BY <1>1, <2>1, <2>3, <2>4, <2>5, <2>6, PCEStep
<1> QED BY <1>2, <1>3 DEF DeleteRule

(* Looking up All Services writes nothing. *)
LEMMA FindServiceStep ==
  ASSUME IInv, NEW c \in CR, FindService(c)
  PROVE  IInv'
<1>1. wk[c] \in Worker /\ Good(c) /\ wk[c].pc = "service" /\ Continue(c, AfterRules(wk[c]))
      /\ UNCHANGED <<kube, pce, env, changes>>
  BY InProgress DEF FindService
<1>2. draft[c].rules \cup wk[c].add = wk[c].add
  BY <1>1 DEF Good, Fits, Building
<1>3. AfterRules(wk[c]) \in Worker
      /\ Fits(c, AfterRules(wk[c]), cr[c], cache[c], draft[c], active[c])
  <2>1. /\ Follows(wk[c], cache[c], active[c]) /\ SpecAt(c, wk[c].gen).valid
        /\ draft[c].exists /\ ~ draft[c].marked /\ wk[c].del = {}
        /\ draft[c].rules \cup wk[c].add \in Compilations(SpecAt(c, wk[c].gen))
    BY <1>1, <1>2 DEF Good, Fits, Resolving, Building, PolicyCalls
  <2> QED BY <1>1, <2>1, AfterRulesFits
<1> QED BY <1>1, <1>3, PureContinue

(* A created rule moves from what is to be added to the draft. *)
LEMMA CreateRuleStep ==
  ASSUME IInv, NEW c \in CR, CreateRule(c)
  PROVE  IInv'
<1>1. wk[c] \in Worker /\ Good(c) /\ wk[c].pc = "rule" /\ draft[c] \in Draft
      /\ active[c] \in Active /\ TypeOK /\ UNCHANGED <<kube, active, labels, env, changes>>
  BY InProgress DEF CreateRule
<1>2. CASE Refused(c) /\ UNCHANGED draft
  BY <1>1, <1>2, IdleType, IdleFits, PureContinue DEF pce
<1>3. ASSUME NEW r \in wk[c].add, draft' = [draft EXCEPT ![c].rules = @ \cup {r}],
             Answered(c, AfterRules([wk[c] EXCEPT !.add = @ \ {r}]))
      PROVE  IInv'
  <2> DEFINE d == [draft[c] EXCEPT !.rules = @ \cup {r}]
             v == [wk[c] EXCEPT !.add = @ \ {r}]
             w == AfterRules(v)
  <2>1. d \in Draft /\ d.exists = draft[c].exists /\ d.marked = draft[c].marked
        /\ d.rules = draft[c].rules \cup {r}
    BY <1>1 DEF Draft, Worker
  <2>2. v \in Worker /\ v.pc = "rule" /\ v.gen = wk[c].gen /\ v.del = wk[c].del
        /\ v.add = wk[c].add \ {r}
    BY <1>1 DEF Worker
  <2>3. draft' = [draft EXCEPT ![c] = d] /\ Answered(c, w)
    BY <1>3
  <2>4. d.rules \cup v.add = draft[c].rules \cup wk[c].add
    BY <2>1, <2>2
  <2> HIDE DEF d, v
  <2>5. w \in Worker /\ Fits(c, w, cr[c], cache[c], d, active[c])
    <3>1. Follows(v, cache[c], active[c]) /\ SpecAt(c, v.gen).valid /\ d.exists /\ ~ d.marked
          /\ v.del = {} /\ d.rules \cup v.add \in Compilations(SpecAt(c, v.gen))
      BY <1>1, <2>1, <2>2, <2>4 DEF Good, Fits, Follows, Resolving, Building, PolicyCalls
    <3> QED BY <2>2, <3>1, AfterRulesFits
  <2>6. Stores(c, cr[c], cache[c], d, active[c])
    BY <1>1, <2>1 DEF Good, Stores, Lagging, Enforced
  <2>7. Moved(c, w) /\ active' = [active EXCEPT ![c] = active[c]]
    BY <1>1, <2>3, <2>5, Outcome DEF TypeOK
  <2> HIDE DEF w
  <2> QED BY <1>1, <2>1, <2>3, <2>5, <2>6, <2>7, PCEStep
<1> QED BY <1>2, <1>3 DEF CreateRule

(* Only a whole draft is provisioned, and by the generation it was built from. *)
LEMMA ProvisionStep ==
  ASSUME IInv, NEW c \in CR, Provision(c)
  PROVE  IInv'
<1> DEFINE w == Verdict(wk[c], "Compiled", "Provisioned", TRUE)
           a == [exists |-> TRUE, gen |-> wk[c].gen, scope |-> draft[c].scope,
                 rules |-> draft[c].rules]
<1>1. wk[c] \in Worker /\ Good(c) /\ wk[c].pc = "provision" /\ draft[c] \in Draft
      /\ active[c] \in Active /\ cr[c] \in Object /\ cache[c] \in Cached
      /\ TypeOK /\ UNCHANGED <<kube, labels, env, changes>>
  BY InProgress DEF Provision
<1>2. draft[c].exists /\ ~ draft[c].marked /\ draft[c].rules \in Compilations(SpecAt(c, wk[c].gen))
      /\ SpecAt(c, wk[c].gen).valid
  BY <1>1 DEF Good, Fits, Building, Resolving, PolicyCalls
<1>3. Provisioned(c, wk[c].gen) /\ Answered(c, w)
  BY <1>2 DEF Provision
<1>4. draft' = [draft EXCEPT ![c] = draft[c]] /\ active' = [active EXCEPT ![c] = a]
  BY <1>1, <1>2, <1>3 DEF Provisioned
<1>5. a \in Active /\ a.exists /\ a.gen = wk[c].gen /\ a.rules = draft[c].rules
  BY <1>1 DEF Active, Draft, Worker
<1> HIDE DEF a
<1>6. wk[c].gen \in Nat /\ cache[c].gen \in Nat /\ cr[c].gen \in Nat /\ active[c].gen \in Nat
      /\ cr[c].obs \in Nat
  BY <1>1 DEF Worker, Cached, Object, Active
<1>7. Stores(c, cr[c], cache[c], draft[c], a) /\ Follows(wk[c], cache[c], a)
  <2>1. wk[c].gen > 0 /\ wk[c].gen <= cache[c].gen /\ active[c].gen <= wk[c].gen
    BY <1>1 DEF Good, Fits, Follows
  <2>2. Lagging(c, cr[c], cache[c], a) /\ cr[c].phase # "absent"
    BY <1>1, <1>5, <1>6, <2>1 DEF Good, Stores, Lagging
  <2>3. Enforced(c, cr[c], draft[c], a)
    BY <1>1, <1>2, <1>5, <1>6, <2>1, <2>2 DEF Good, Stores, Enforced
  <2> QED BY <1>5, <1>6, <2>1, <2>2, <2>3 DEF Stores, Follows
<1>8. w \in Worker
  BY <1>1, VerdictType DEF Verdicts
<1>9. Fits(c, w, cr[c], cache[c], draft[c], a)
  BY <1>1, <1>5, <1>7, VerdictFits
<1>10. Moved(c, w)
  BY <1>1, <1>3, <1>8, Outcome
<1> HIDE DEF w
<1> QED BY <1>1, <1>4, <1>5, <1>7, <1>8, <1>9, <1>10, PCEStep

-----------------------------------------------------------------------------
(* The end of a policy that is deleted *)

(* A finalizing reconcile fits any stores on which nothing is newer than it.   *)
LEMMA FinalizeFits ==
  ASSUME IInv, NEW c \in CR, wk[c].pc \in FinalizeSteps, NEW p \in FinalizeSteps,
         NEW d, NEW a, Follows(wk[c], cache[c], a),
         p = "finprovision" /\ d.exists => d.marked
  PROVE  LET w == [wk[c] EXCEPT !.pc = p] IN
         w \in Worker /\ Fits(c, w, cr[c], cache[c], d, a)
<1> DEFINE w == [wk[c] EXCEPT !.pc = p]
<1>1. wk[c] \in Worker /\ Good(c) /\ wk[c].pc # "idle"
  BY InProgress DEF FinalizeSteps
<1>2. w \in Worker /\ w.pc = p /\ w.gen = wk[c].gen
  BY <1>1, GoTo DEF Steps, FinalizeSteps
<1> HIDE DEF w
<1>3. Fits(c, w, cr[c], cache[c], d, a)
  BY <1>1, <1>2 DEF Good, Fits, Follows, Resolving, Building, Finalizing, Reporting,
                    PolicyCalls, FinalizeSteps
<1> QED BY <1>2, <1>3 DEF w

(* A deleted CR whose profile is gone is released, else its ruleset is sought. *)
LEMMA FinalizeResolveStep ==
  ASSUME IInv, NEW c \in CR, FinalizeResolve(c)
  PROVE  IInv'
<1> DEFINE p == IF usable THEN "finfind" ELSE "release"
           w == [wk[c] EXCEPT !.pc = p]
<1>1. wk[c].pc \in FinalizeSteps /\ p \in FinalizeSteps /\ p # "finprovision"
      /\ Follows(wk[c], cache[c], active[c])
  BY InProgress DEF FinalizeResolve, FinalizeSteps, Good, Fits
<1>2. Continue(c, w) /\ UNCHANGED <<kube, pce, env, changes>>
  BY DEF FinalizeResolve
<1> HIDE DEF p
<1>3. w \in Worker /\ Fits(c, w, cr[c], cache[c], draft[c], active[c])
  BY <1>1, FinalizeFits
<1> HIDE DEF w
<1> QED BY <1>2, <1>3, PureContinue

(* A ruleset is only provisioned away when it is marked for deletion. *)
LEMMA FinalizeFindStep ==
  ASSUME IInv, NEW c \in CR, FinalizeFind(c)
  PROVE  IInv'
<1> DEFINE p == IF ~ draft[c].exists THEN "release"
                ELSE IF draft[c].marked THEN "finprovision" ELSE "findelete"
           w == [wk[c] EXCEPT !.pc = p]
<1>1. wk[c].pc \in FinalizeSteps /\ p \in FinalizeSteps
      /\ Follows(wk[c], cache[c], active[c])
      /\ (p = "finprovision" /\ draft[c].exists => draft[c].marked)
  BY InProgress DEF FinalizeFind, FinalizeSteps, Good, Fits
<1>2. Continue(c, w) /\ UNCHANGED <<kube, pce, env, changes>>
  BY DEF FinalizeFind
<1> HIDE DEF p
<1>3. w \in Worker /\ Fits(c, w, cr[c], cache[c], draft[c], active[c])
  BY <1>1, FinalizeFits
<1> HIDE DEF w
<1> QED BY <1>2, <1>3, PureContinue

(* Marking or dropping the draft leaves the active ruleset as it is. *)
LEMMA FinalizeDeleteStep ==
  ASSUME IInv, NEW c \in CR, FinalizeDelete(c)
  PROVE  IInv'
<1> DEFINE w == [wk[c] EXCEPT !.pc = "finprovision"]
           d == IF active[c].exists THEN [draft[c] EXCEPT !.marked = TRUE] ELSE NoRuleSet
<1>1. wk[c].pc \in FinalizeSteps /\ "finprovision" \in FinalizeSteps /\ Good(c)
      /\ Follows(wk[c], cache[c], active[c]) /\ draft[c] \in Draft /\ active[c] \in Active
      /\ cr[c] \in Object /\ TypeOK /\ UNCHANGED <<kube, active, labels, env, changes>>
      /\ wk[c] \in Worker
  BY InProgress DEF FinalizeDelete, FinalizeSteps, Good, Fits
<1>2. CASE draft[c].marked /\ Refused(c) /\ UNCHANGED draft
  BY <1>1, <1>2, IdleType, IdleFits, PureContinue DEF pce
<1>3. CASE ~ draft[c].exists /\ Continue(c, w) /\ UNCHANGED draft
  <2>1. w \in Worker /\ Fits(c, w, cr[c], cache[c], draft[c], active[c])
    BY <1>1, <1>3, FinalizeFits
  <2> HIDE DEF w
  <2> QED BY <1>1, <1>3, <2>1, PureContinue DEF pce
<1>4. CASE Writable(c) /\ Deleted(c) /\ Answered(c, w)
  <2>1. d \in Draft /\ (d.exists => d.marked) /\ (active[c].exists => d.exists)
    BY <1>1, <1>4 DEF Draft, NoRuleSet, Writable
  <2>2. w \in Worker /\ Fits(c, w, cr[c], cache[c], d, active[c])
    BY <1>1, <2>1, FinalizeFits
  <2>3. draft' = [draft EXCEPT ![c] = d] /\ active' = [active EXCEPT ![c] = active[c]]
    BY <1>1, <1>4 DEF Deleted, TypeOK
  <2> HIDE DEF w, d
  <2>4. cr[c].phase \in {"deleting", "gone"}
    BY <1>1 DEF Good, Fits, Finalizing, Stores, Lagging
  <2>5. Stores(c, cr[c], cache[c], d, active[c])
    BY <1>1, <2>1, <2>4 DEF Good, Stores, Enforced
  <2>6. Moved(c, w)
    BY <1>1, <1>4, <2>2, Outcome
  <2> QED BY <1>1, <2>1, <2>2, <2>3, <2>5, <2>6, PCEStep
<1> QED BY <1>2, <1>3, <1>4 DEF FinalizeDelete

(* Provisioning a marked ruleset withdraws it from both stores. *)
LEMMA FinalizeProvisionStep ==
  ASSUME IInv, NEW c \in CR, FinalizeProvision(c)
  PROVE  IInv'
<1> DEFINE w == [wk[c] EXCEPT !.pc = "release"]
<1>1. wk[c].pc = "finprovision" /\ wk[c].pc \in FinalizeSteps /\ "release" \in FinalizeSteps
      /\ Good(c) /\ Follows(wk[c], cache[c], active[c]) /\ draft[c] \in Draft
      /\ active[c] \in Active /\ cr[c] \in Object /\ cache[c] \in Cached /\ wk[c] \in Worker
      /\ TypeOK /\ UNCHANGED <<kube, labels, env, changes>>
  BY InProgress DEF FinalizeProvision, FinalizeSteps, Good, Fits
<1>2. CASE ~ draft[c].exists
  <2>1. Continue(c, w) /\ UNCHANGED <<draft, active>>
    BY <1>2 DEF FinalizeProvision
  <2>2. w \in Worker /\ Fits(c, w, cr[c], cache[c], draft[c], active[c])
    BY <1>1, FinalizeFits
  <2> HIDE DEF w
  <2> QED BY <1>1, <2>1, <2>2, PureContinue DEF pce
<1>3. CASE draft[c].exists
  <2>1. draft[c].marked
    BY <1>1, <1>3 DEF Good, Fits, Finalizing
  <2>2. draft' = [draft EXCEPT ![c] = NoRuleSet] /\ active' = [active EXCEPT ![c] = NotActive]
        /\ Answered(c, w)
    BY <1>3, <2>1 DEF FinalizeProvision, Provisioned
  <2>3. NoRuleSet \in Draft /\ NotActive \in Active /\ NotActive.gen = 0
        /\ ~ NotActive.exists /\ ~ NoRuleSet.exists
    BY DEF NoRuleSet, NotActive, Draft, Active
  <2>4. cr[c].phase \in {"deleting", "gone"} /\ wk[c].gen \in Nat /\ cache[c].gen \in Nat
    BY <1>1 DEF Good, Fits, Finalizing, Stores, Lagging, Worker, Cached
  <2>5. Follows(wk[c], cache[c], NotActive)
    BY <1>1, <2>3, <2>4 DEF Follows
  <2>6. w \in Worker /\ Fits(c, w, cr[c], cache[c], NoRuleSet, NotActive)
    BY <1>1, <2>5, FinalizeFits
  <2>7. Stores(c, cr[c], cache[c], NoRuleSet, NotActive)
    BY <1>1, <2>3, <2>4 DEF Good, Stores, Lagging, Enforced
  <2> HIDE DEF w
  <2>8. Moved(c, w)
    BY <1>1, <2>2, <2>6, Outcome
  <2> QED BY <1>1, <2>2, <2>3, <2>6, <2>7, <2>8, PCEStep
<1> QED BY <1>2, <1>3

-----------------------------------------------------------------------------
(* Steps that write the object of c *)

(* The operator writes the object of c: it is enough that the new object goes  *)
(* with the stores and the reconcile goes with it.                             *)
LEMMA ObjectStep ==
  ASSUME IInv, NEW c \in CR, NEW w \in Worker, Moved(c, w), NEW o \in Object,
         Store(c, o), UNCHANGED <<pce, env, changes>>,
         Stores(c, o, cache[c], draft[c], active[c]),
         Fits(c, w, o, cache[c], draft[c], active[c])
  PROVE  IInv'
<1>1. cr' = [cr EXCEPT ![c] = o] /\ fresh' \in [CR -> BOOLEAN] /\ cache' = cache
      /\ UNCHANGED <<draft, active, labels>>
  BY DEF IInv, TypeOK, Store, pce
<1>2. TypeOK' /\ LabelsKept'
  BY <1>1 DEF IInv, TypeOK, Moved, WorkOK, LabelsKept, env
<1>3. ASSUME NEW e \in CR, e # c PROVE Good(e)'
  BY <1>1, <1>3, Frame DEF Same, Moved, IInv, TypeOK
<1>4. Good(c)'
  <2>1. cr'[c] = o
    BY <1>1 DEF IInv, TypeOK
  <2> QED BY <1>1, <2>1, IdleFits DEF Good, Moved
<1> QED BY <1>2, <1>3, <1>4 DEF IInv

(* The reconcile that follows CompileIntent / CompilePolicy fits.              *)
LEMMA CompiledFits ==
  ASSUME NEW c \in CR, NEW w \in Worker, NEW o, NEW k, NEW d, NEW a,
         w.gen > 0 /\ w.gen <= k.gen /\ a.gen <= w.gen, w.hit = {}, w.del = {}
  PROVE  Compiled(c, w) \in Worker /\ Fits(c, Compiled(c, w), o, k, d, a)
<1>1. Compiled(c, w) \in Worker
  BY CompiledType
<1>2. CASE SpecOf[c][w.gen].valid
  <2> DEFINE x == [w EXCEPT !.pc = "resolve"]
  <2>1. x.pc = "resolve" /\ x.gen = w.gen /\ x.hit = {} /\ x.del = {}
    BY GoTo DEF Steps
  <2>2. Compiled(c, w) = x
    BY <1>2 DEF Compiled
  <2> HIDE DEF x
  <2> QED BY <1>1, <1>2, <2>1, <2>2 DEF Fits, Follows, Resolving, Building, Finalizing,
                                        Reporting, SpecAt, PolicyCalls, FinalizeSteps
<1>3. CASE ~ SpecOf[c][w.gen].valid
  <2> DEFINE x == Verdict(w, "Rejected", "keep", FALSE)
  <2>1. x.pc = "status" /\ x.gen = w.gen /\ x.ready = "Rejected" /\ x.prov = "keep"
    BY DEF Verdict, Idle
  <2>2. Compiled(c, w) = x
    BY <1>3 DEF Compiled
  <2> HIDE DEF x
  <2> QED BY <1>1, <2>1, <2>2 DEF Fits, Follows, Resolving, Building, Finalizing, Reporting,
                                  PolicyCalls, FinalizeSteps
<1> QED BY <1>2, <1>3

(* Adding the finalizer changes nothing of generation, phase or status. *)
LEMMA AddFinalizerStep ==
  ASSUME IInv, NEW c \in CR, AddFinalizer(c)
  PROVE  IInv'
<1> DEFINE o == [cr[c] EXCEPT !.fin = TRUE]
<1>1. wk[c] \in Worker /\ Good(c) /\ wk[c].pc = "addfin" /\ cr[c] \in Object /\ TypeOK
      /\ UNCHANGED <<pce, env, changes>>
  BY InProgress DEF AddFinalizer
<1>2. CASE Refused(c) /\ UNCHANGED kube
  BY <1>1, <1>2, IdleType, IdleFits, PureContinue
<1>3. CASE Store(c, o) /\ Answered(c, Compiled(c, wk[c]))
  <2>1. o \in Object /\ o.phase = cr[c].phase /\ o.gen = cr[c].gen /\ o.obs = cr[c].obs
        /\ o.ready = cr[c].ready /\ o.prov = cr[c].prov
    BY <1>1 DEF Object
  <2> HIDE DEF o
  <2>2. Stores(c, o, cache[c], draft[c], active[c])
    BY <1>1, <2>1 DEF Good, Stores, Lagging, Enforced
  <2>3. Compiled(c, wk[c]) \in Worker
        /\ Fits(c, Compiled(c, wk[c]), o, cache[c], draft[c], active[c])
    <3>1. wk[c].gen > 0 /\ wk[c].gen <= cache[c].gen /\ active[c].gen <= wk[c].gen
          /\ wk[c].hit = {} /\ wk[c].del = {}
      BY <1>1 DEF Good, Fits, Follows, Resolving, Building
    <3> QED BY <1>1, <3>1, CompiledFits
  <2>4. Moved(c, Compiled(c, wk[c]))
    BY <1>1, <1>3, <2>3, Outcome
  <2> QED BY <1>1, <1>3, <2>1, <2>2, <2>3, <2>4, ObjectStep
<1> QED BY <1>2, <1>3 DEF AddFinalizer

(* The status written is true of the stores at that moment. *)
LEMMA UpdateStatusStep ==
  ASSUME IInv, NEW c \in CR, UpdateStatus(c)
  PROVE  IInv'
<1> DEFINE o == Conditions(cr[c], wk[c])
<1>1. wk[c] \in Worker /\ Good(c) /\ wk[c].pc = "status" /\ cr[c] \in Object /\ TypeOK
      /\ cache[c] \in Cached /\ active[c] \in Active /\ UNCHANGED <<pce, env, changes>>
  BY InProgress DEF UpdateStatus
<1>2. CASE Refused(c) /\ UNCHANGED kube
  BY <1>1, <1>2, IdleType, IdleFits, PureContinue
<1>3. CASE /\ Store(c, o)
           /\ \/ wk' = [wk EXCEPT ![c] = Idle] /\ Requeue(c) /\ UNCHANGED <<queue, faults>>
              \/ Spend /\ Backoff(c)
  <2>1. o \in Object /\ o.phase = cr[c].phase /\ o.gen = cr[c].gen /\ o.obs = wk[c].gen
        /\ o.ready = wk[c].ready
        /\ o.prov = IF wk[c].prov = "keep" THEN cr[c].prov ELSE wk[c].prov
    BY <1>1 DEF Object, Worker, Conditions
  <2> HIDE DEF o
  <2>2. /\ wk[c].gen \in Nat /\ active[c].gen \in Nat /\ cr[c].gen \in Nat
        /\ wk[c].gen > 0 /\ wk[c].gen <= cache[c].gen /\ cache[c].gen \in Nat
    BY <1>1 DEF Worker, Active, Object, Cached, Good, Fits, Follows
  <2>3. Lagging(c, o, cache[c], active[c]) /\ cr[c].phase # "absent"
    BY <1>1, <2>1, <2>2 DEF Good, Stores, Lagging
  <2>4. Enforced(c, o, draft[c], active[c])
    <3>1. Enforced(c, cr[c], draft[c], active[c]) /\ Reporting(wk[c], cr[c], active[c])
      BY <1>1 DEF Good, Stores, Fits
    <3>2. o.phase = "live" /\ o.ready = "Compiled" /\ o.prov = "Provisioned" =>
            active[c].exists /\ active[c].gen >= o.obs
      BY <1>1, <2>1, <2>2, <3>1 DEF Reporting
    <3> QED BY <2>1, <2>3, <3>1, <3>2 DEF Enforced
  <2>5. Moved(c, Idle)
    BY <1>1, <1>3, IdleType DEF TypeOK, Requeue, Backoff, Spend, Moved, WorkOK
  <2> QED BY <1>1, <1>3, <2>1, <2>3, <2>4, <2>5, IdleType, IdleFits, ObjectStep DEF Stores
<1> QED BY <1>2, <1>3 DEF UpdateStatus

(* The object leaves the API server; nothing is provisioned. *)
LEMMA RemoveFinalizerStep ==
  ASSUME IInv, NEW c \in CR, RemoveFinalizer(c)
  PROVE  IInv'
<1> DEFINE o == [cr[c] EXCEPT !.phase = "gone", !.fin = FALSE]
<1>1. wk[c] \in Worker /\ Good(c) /\ wk[c].pc = "release" /\ cr[c] \in Object /\ TypeOK
      /\ cache[c] \in Cached /\ UNCHANGED <<pce, env, changes>>
  BY InProgress DEF RemoveFinalizer
<1>2. CASE Refused(c) /\ UNCHANGED kube
  BY <1>1, <1>2, IdleType, IdleFits, PureContinue
<1>3. CASE Store(c, o) /\ Answered(c, Idle)
  <2>1. o \in Object /\ o.phase = "gone" /\ o.gen = cr[c].gen /\ o.obs = cr[c].obs
    BY <1>1 DEF Object, Phases
  <2> HIDE DEF o
  <2>2. wk[c].gen > 0 /\ wk[c].gen <= cache[c].gen /\ wk[c].gen \in Nat /\ cache[c].gen \in Nat
        /\ cr[c].gen \in Nat
    BY <1>1 DEF Good, Fits, Follows, Worker, Cached, Object
  <2>3. Stores(c, o, cache[c], draft[c], active[c])
    <3>1. Lagging(c, cr[c], cache[c], active[c]) /\ Enforced(c, cr[c], draft[c], active[c])
      BY <1>1 DEF Good, Stores
    <3>2. Lagging(c, o, cache[c], active[c])
      BY <2>1, <2>2, <3>1 DEF Lagging
    <3>3. Enforced(c, o, draft[c], active[c])
      BY <2>1, <3>1 DEF Enforced
    <3> QED BY <3>2, <3>3 DEF Stores
  <2>4. Moved(c, Idle)
    BY <1>1, <1>3, IdleType, Outcome
  <2> QED BY <1>1, <1>3, <2>1, <2>3, <2>4, IdleType, IdleFits, ObjectStep
<1> QED BY <1>2, <1>3 DEF RemoveFinalizer

(* Somebody else writes the object of c: the reconcile in progress goes on as  *)
(* it was, with an outdated snapshot.                                          *)
LEMMA TouchStep ==
  ASSUME IInv, NEW c \in CR, NEW o \in Object, Touch(c, o), changes' \in Nat,
         Stores(c, o, cache[c], draft[c], active[c]), Reporting(wk[c], o, active[c])
  PROVE  IInv'
<1> DEFINE w == [wk[c] EXCEPT !.own = FALSE]
<1>1. wk[c] \in Worker /\ Good(c) /\ TypeOK /\ LabelsKept
  BY InProgress
<1>2. w \in Worker /\ w.pc = wk[c].pc /\ w.gen = wk[c].gen /\ w.todo = wk[c].todo
      /\ w.hit = wk[c].hit /\ w.del = wk[c].del /\ w.add = wk[c].add
      /\ w.make = wk[c].make /\ w.ready = wk[c].ready /\ w.prov = wk[c].prov
  BY <1>1 DEF Worker
<1>3. cr' = [cr EXCEPT ![c] = o] /\ fresh' = [fresh EXCEPT ![c] = FALSE]
      /\ wk' = [wk EXCEPT ![c] = w] /\ UNCHANGED <<cache, queue, timer, pce, env, faults>>
  BY DEF Touch
<1> HIDE DEF w
<1>4. TypeOK' /\ LabelsKept'
  BY <1>1, <1>2, <1>3 DEF TypeOK, LabelsKept, pce, env
<1>5. ASSUME NEW e \in CR, e # c PROVE Good(e)'
  BY <1>1, <1>3, <1>5, Frame DEF Same, IInv, TypeOK, pce
<1>6. Fits(c, w, o, cache[c], draft[c], active[c])
  BY <1>1, <1>2 DEF Good, Fits, Follows, Resolving, Building, Finalizing, Reporting
<1>7. Good(c)'
  <2>1. cr'[c] = o /\ wk'[c] = w /\ cache' = cache /\ draft' = draft /\ active' = active
    BY <1>1, <1>3 DEF TypeOK, pce
  <2> QED BY <1>6, <2>1 DEF Good
<1> QED BY <1>4, <1>5, <1>7 DEF IInv

(* A new CR has no ruleset, no status and no reconcile yet. *)
LEMMA CreateStep ==
  ASSUME IInv, NEW c \in CR, Create(c)
  PROVE  IInv'
<1> DEFINE o == [cr[c] EXCEPT !.phase = "live", !.gen = 1]
<1>1. wk[c] \in Worker /\ Good(c) /\ cr[c] \in Object /\ cr[c].phase = "absent" /\ TypeOK
      /\ cache[c] \in Cached /\ active[c] \in Active /\ Touch(c, o) /\ changes' \in Nat
  BY InProgress DEF Create, TypeOK
<1>2. o \in Object /\ o.phase = "live" /\ o.gen = 1 /\ o.ready = cr[c].ready
  BY <1>1 DEF Object, Phases
<1> HIDE DEF o
<1>3. Len(SpecOf[c]) \in Nat /\ Len(SpecOf[c]) > 0
  BY SpecAssumption, LenProperties
<1>4. cr[c].gen = 0 /\ cache[c].gen = 0 /\ wk[c].pc = "idle"
  BY <1>1 DEF Good, Stores, Lagging, Fits, Follows, Cached, Worker
<1>5. Stores(c, o, cache[c], draft[c], active[c])
  BY <1>1, <1>2, <1>3, <1>4 DEF Good, Stores, Lagging, Enforced, Active
<1>6. Reporting(wk[c], o, active[c])
  BY <1>4 DEF Reporting
<1> QED BY <1>1, <1>2, <1>5, <1>6, TouchStep

(* A newer generation makes the status, if anything, out of date. *)
LEMMA EditStep ==
  ASSUME IInv, NEW c \in CR, Edit(c)
  PROVE  IInv'
<1> DEFINE o == [cr[c] EXCEPT !.gen = @ + 1]
<1>1. Good(c) /\ cr[c] \in Object /\ cr[c].phase \in {"live", "deleting"}
      /\ cr[c].gen < Len(SpecOf[c]) /\ cache[c] \in Cached
      /\ Touch(c, o) /\ changes' \in Nat
  BY InProgress DEF Edit, TypeOK
<1>2. o \in Object /\ o.phase = cr[c].phase /\ o.gen = cr[c].gen + 1 /\ o.ready = cr[c].ready
      /\ o.prov = cr[c].prov /\ o.obs = cr[c].obs
  BY <1>1 DEF Object
<1> HIDE DEF o
<1>3. Len(SpecOf[c]) \in Nat /\ cr[c].gen \in Nat /\ cache[c].gen \in Nat
  BY <1>1, SpecAssumption, LenProperties DEF Object, Cached
<1>4. Lagging(c, o, cache[c], active[c])
  BY <1>1, <1>2, <1>3 DEF Good, Stores, Lagging
<1>5. Enforced(c, o, draft[c], active[c]) /\ Reporting(wk[c], o, active[c])
  BY <1>1, <1>2 DEF Good, Stores, Fits, Enforced, Reporting
<1> QED BY <1>1, <1>2, <1>4, <1>5, TouchStep DEF Stores

(* The approval annotation touches neither generation nor status. *)
LEMMA ApproveStep ==
  ASSUME IInv, NEW c \in CR, Approve(c)
  PROVE  IInv'
<1> DEFINE o == [cr[c] EXCEPT !.approved = ~ @]
<1>1. Good(c) /\ cr[c] \in Object /\ Touch(c, o) /\ changes' \in Nat
  BY InProgress DEF Approve, TypeOK, Change
<1>2. o \in Object /\ o.phase = cr[c].phase /\ o.gen = cr[c].gen /\ o.ready = cr[c].ready
      /\ o.prov = cr[c].prov /\ o.obs = cr[c].obs
  BY <1>1 DEF Object
<1> HIDE DEF o
<1>3. Stores(c, o, cache[c], draft[c], active[c]) /\ Reporting(wk[c], o, active[c])
  BY <1>1, <1>2 DEF Good, Stores, Lagging, Fits, Enforced, Reporting
<1> QED BY <1>1, <1>2, <1>3, TouchStep

(* A deletion only moves the phase forward. *)
LEMMA DeleteStep ==
  ASSUME IInv, NEW c \in CR, Delete(c)
  PROVE  IInv'
<1> DEFINE ph == IF cr[c].fin THEN "deleting" ELSE "gone"
           o == [cr[c] EXCEPT !.phase = ph]
<1>1. Good(c) /\ cr[c] \in Object /\ cr[c].phase = "live" /\ Touch(c, o) /\ changes' \in Nat
  BY InProgress DEF Delete, TypeOK
<1>2. ph \in {"deleting", "gone"}
  OBVIOUS
<1> HIDE DEF ph
<1>3. o \in Object /\ o.phase = ph /\ o.gen = cr[c].gen /\ o.ready = cr[c].ready
      /\ o.prov = cr[c].prov /\ o.obs = cr[c].obs
  BY <1>1, <1>2 DEF Object, Phases
<1> HIDE DEF o
<1>4. Lagging(c, o, cache[c], active[c])
  BY <1>1, <1>2, <1>3 DEF Good, Stores, Lagging
<1>5. Enforced(c, o, draft[c], active[c]) /\ Reporting(wk[c], o, active[c])
  BY <1>1, <1>2, <1>3 DEF Good, Stores, Fits, Enforced, Reporting
<1> QED BY <1>1, <1>3, <1>4, <1>5, TouchStep DEF Stores

-----------------------------------------------------------------------------
(* Informer, work queue, failures, environment *)

(* A fresher cache only raises what a reconcile may have seen.                 *)
LEMMA ViewFits ==
  ASSUME IInv, NEW c \in CR
  PROVE  /\ View(cr[c]) \in Cached
         /\ Stores(c, cr[c], View(cr[c]), draft[c], active[c])
         /\ Fits(c, wk[c], cr[c], View(cr[c]), draft[c], active[c])
<1> DEFINE k == View(cr[c])
<1>1. wk[c] \in Worker /\ Good(c) /\ cr[c] \in Object /\ cache[c] \in Cached
      /\ active[c] \in Active
  BY InProgress
<1>2. k \in Cached /\ k.phase = cr[c].phase /\ k.gen = cr[c].gen
  BY <1>1, ViewType DEF View
<1> HIDE DEF k
<1>3. wk[c].gen \in Nat /\ cr[c].gen \in Nat /\ cache[c].gen \in Nat /\ active[c].gen \in Nat
  BY <1>1 DEF Worker, Object, Cached, Active
<1>4. Lagging(c, cr[c], cache[c], active[c]) /\ Enforced(c, cr[c], draft[c], active[c])
  BY <1>1 DEF Good, Stores
<1>5. Lagging(c, cr[c], k, active[c])
  BY <1>2, <1>3, <1>4 DEF Lagging
<1>6. Follows(wk[c], k, active[c])
  BY <1>1, <1>2, <1>3, <1>4 DEF Good, Fits, Follows, Lagging
<1>7. Finalizing(wk[c], k, draft[c])
  BY <1>1, <1>2, <1>4 DEF Good, Fits, Finalizing, Lagging
<1>8. Fits(c, wk[c], cr[c], k, draft[c], active[c])
  BY <1>1, <1>6, <1>7 DEF Good, Fits
<1> QED BY <1>2, <1>4, <1>5, <1>8 DEF Stores, k

(* The cache catches up with the object. *)
LEMMA CacheSyncStep ==
  ASSUME IInv, NEW c \in CR, CacheSync(c)
  PROVE  IInv'
<1>1. TypeOK /\ View(cr[c]) \in Cached /\ LabelsKept
  BY ViewFits DEF IInv
<1>2. TypeOK' /\ LabelsKept'
  BY <1>1 DEF TypeOK, LabelsKept, CacheSync, pce, env
<1>3. ASSUME NEW e \in CR, e # c PROVE Good(e)'
  BY <1>1, <1>3, Frame DEF Same, IInv, TypeOK, CacheSync, pce
<1>4. Good(c)'
  <2>1. cache'[c] = View(cr[c]) /\ cr' = cr /\ wk' = wk /\ draft' = draft /\ active' = active
    BY <1>1 DEF TypeOK, CacheSync, pce
  <2> QED BY <2>1, ViewFits DEF Good
<1> QED BY <1>2, <1>3, <1>4 DEF IInv

(* What Reconcile starts with fits the stores the cache has caught up with.    *)
LEMMA BeginFits ==
  ASSUME IInv, NEW c \in CR
  PROVE  Begin(c) \in Worker /\ Fits(c, Begin(c), cr[c], cache[c], draft[c], active[c])
<1> DEFINE v == Snapshot(c)
<1>1. v \in Worker /\ v.gen = cache[c].gen /\ v.hit = {} /\ v.del = {} /\ Good(c)
      /\ Begin(c) \in Worker /\ cache[c] \in Cached /\ active[c] \in Active
  BY InProgress, SnapshotType, BeginType DEF Snapshot, Idle
<1>2. cache[c].phase # "absent" => v.gen > 0 /\ v.gen <= cache[c].gen /\ active[c].gen <= v.gen
  BY <1>1 DEF Good, Stores, Lagging, Cached
<1>3. CASE cache[c].phase = "deleting" /\ cache[c].fin
  <2> DEFINE x == [v EXCEPT !.pc = "finresolve"]
  <2>1. x.pc = "finresolve" /\ x.gen = v.gen /\ Begin(c) = x
    BY <1>1, <1>3, GoTo DEF Begin, Steps
  <2> HIDE DEF x
  <2> QED BY <1>1, <1>2, <1>3, <2>1 DEF Fits, Follows, Resolving, Building, Finalizing,
                                        Reporting, PolicyCalls, FinalizeSteps
<1>4. CASE cache[c].phase = "live" /\ ~ cache[c].fin
  <2> DEFINE x == [v EXCEPT !.pc = "addfin"]
  <2>1. x.pc = "addfin" /\ x.gen = v.gen /\ x.hit = {} /\ x.del = {} /\ Begin(c) = x
    BY <1>1, <1>4, GoTo DEF Begin, Steps
  <2> HIDE DEF x
  <2> QED BY <1>1, <1>2, <1>4, <2>1 DEF Fits, Follows, Resolving, Building, Finalizing,
                                        Reporting, PolicyCalls, FinalizeSteps
<1>5. CASE cache[c].phase = "live" /\ cache[c].fin
  <2>1. Begin(c) = Compiled(c, v)
    BY <1>5 DEF Begin
  <2> HIDE DEF v
  <2> QED BY <1>1, <1>2, <1>5, <2>1, CompiledFits
<1>6. CASE ~ (cache[c].phase = "deleting" /\ cache[c].fin) /\ cache[c].phase # "live"
  <2>1. Begin(c) = Idle
    BY <1>6 DEF Begin
  <2> QED BY <1>1, <2>1, IdleFits
<1> QED BY <1>1, <1>3, <1>4, <1>5, <1>6 DEF Cached

(* The worker takes a key from the queue. *)
LEMMA StartStep ==
  ASSUME IInv, NEW c \in CR, Start(c)
  PROVE  IInv'
<1>1. Begin(c) \in Worker /\ Fits(c, Begin(c), cr[c], cache[c], draft[c], active[c])
  BY BeginFits
<1>2. Moved(c, Begin(c))
  BY <1>1 DEF Start, Moved, WorkOK, IInv, TypeOK
<1>3. labels \subseteq labels' /\ labels' \subseteq Label
      /\ UNCHANGED <<kube, draft, active, env, changes>>
  BY DEF IInv, TypeOK, Start, pce
<1> QED BY <1>1, <1>2, <1>3, PureStep

(* A timer puts its key back into the queue. *)
LEMMA TimerFireStep ==
  ASSUME IInv, NEW c \in CR, TimerFire(c)
  PROVE  IInv'
<1>1. wk[c] \in Worker /\ Fits(c, wk[c], cr[c], cache[c], draft[c], active[c])
  BY InProgress DEF Good
<1>2. Moved(c, wk[c])
  BY <1>1 DEF TimerFire, Moved, WorkOK, IInv, TypeOK
<1>3. labels \subseteq labels' /\ labels' \subseteq Label
      /\ UNCHANGED <<kube, draft, active, env, changes>>
  BY DEF IInv, TypeOK, TimerFire, pce
<1> QED BY <1>1, <1>2, <1>3, PureStep

(* A failed call leaves the stores as they are. *)
LEMMA CallFailsStep ==
  ASSUME IInv, NEW c \in CR, CallFails(c)
  PROVE  IInv'
<1>1. Moved(c, Idle)
  BY IdleType DEF CallFails, Spend, Backoff, Moved, WorkOK, IInv, TypeOK
<1>2. labels \subseteq labels' /\ labels' \subseteq Label
      /\ UNCHANGED <<kube, draft, active, env, changes>>
  BY DEF IInv, TypeOK, CallFails, pce
<1> QED BY <1>1, <1>2, IdleType, IdleFits, PureStep

(* So does a refused one. *)
LEMMA RateLimitedStep ==
  ASSUME IInv, NEW c \in CR, RateLimited(c)
  PROVE  IInv'
<1>1. wk[c] \in Worker /\ Follows(wk[c], cache[c], active[c]) /\ wk[c].pc # "idle"
  BY InProgress DEF RateLimited, PolicyCalls, Good, Fits
<1>2. PICK positive \in {TRUE, ~ RetryAfterZero} :
        wk' = [wk EXCEPT ![c] = Verdict(wk[c], "RateLimited", "keep", positive)]
  BY DEF RateLimited
<1> DEFINE w == Verdict(wk[c], "RateLimited", "keep", positive)
<1>3. w \in Worker
  BY <1>1, VerdictType, FlagAssumption DEF Verdicts
<1>4. Fits(c, w, cr[c], cache[c], draft[c], active[c])
  BY <1>1, VerdictFits
<1> HIDE DEF w
<1>5. wk' = [wk EXCEPT ![c] = w]
  BY <1>2 DEF w
<1>6. Moved(c, w)
  BY <1>3, <1>5 DEF RateLimited, Spend, Moved, WorkOK, IInv, TypeOK
<1>7. labels \subseteq labels' /\ labels' \subseteq Label
      /\ UNCHANGED <<kube, draft, active, env, changes>>
  BY DEF IInv, TypeOK, RateLimited, pce
<1> QED BY <1>3, <1>4, <1>6, <1>7, PureStep

(* A restart forgets every reconcile and lists the objects anew. *)
LEMMA RestartStep ==
  ASSUME IInv, Restart
  PROVE  IInv'
<1>1. TypeOK /\ LabelsKept /\ \A c \in CR : View(cr[c]) \in Cached
  BY ViewFits DEF IInv
<1>2. TypeOK' /\ LabelsKept'
  BY <1>1, IdleType DEF TypeOK, LabelsKept, Restart, Spend, pce, env
<1>3. ASSUME NEW c \in CR PROVE Good(c)'
  <2>1. cache'[c] = View(cr[c]) /\ wk'[c] = Idle /\ cr' = cr /\ draft' = draft /\ active' = active
    BY DEF Restart, pce
  <2>2. Stores(c, cr[c], View(cr[c]), draft[c], active[c])
    BY ViewFits
  <2> QED BY <2>1, <2>2, IdleFits DEF Good
<1> QED BY <1>2, <1>3 DEF IInv

(* Labels only come; readiness and scope are read afresh by every reconcile. *)
LEMMA EnvironmentStep ==
  ASSUME IInv, Environment
  PROVE  IInv'
<1>1. UNCHANGED <<kube, work, draft, active>>
  BY DEF Environment, AddLabel, ChangeReadiness, Relabel, pce
<1>2. TypeOK'
  <2>1. labels' \subseteq Label /\ scope' \subseteq Label /\ usable' \in BOOLEAN
        /\ faults' \in Nat /\ changes' \in Nat
    BY FlagAssumption, ScopesAssumption
       DEF IInv, TypeOK, Environment, AddLabel, ChangeReadiness, Relabel, Change, pce, env
  <2> QED BY <1>1, <2>1 DEF IInv, TypeOK, kube, work
<1>3. LabelsKept'
  BY DEF IInv, LabelsKept, Environment, AddLabel, ChangeReadiness, Relabel, pce
<1>4. ASSUME NEW c \in CR PROVE Good(c)'
  BY <1>1, Frame DEF Same, IInv, kube, work
<1> QED BY <1>2, <1>3, <1>4 DEF IInv

-----------------------------------------------------------------------------
(* The theorems *)

(* Nothing exists yet, so the invariant holds at first. *)
LEMMA InitInvariant == Init => IInv
<1> SUFFICES ASSUME Init PROVE IInv
  OBVIOUS
<1>1. ASSUME NEW c \in CR
      PROVE  /\ cr[c] \in Object /\ cr[c].phase = "absent" /\ cr[c].gen = 0
             /\ cr[c].ready = "none"
  BY <1>1 DEF Init, Object, Phases, Verdicts
<1>2. ASSUME NEW c \in CR
      PROVE  cache[c] = View(cr[c]) /\ wk[c] = Idle /\ draft[c] = NoRuleSet
             /\ active[c] = NotActive
  BY <1>2 DEF Init
<1>3. NoRuleSet \in Draft /\ NotActive \in Active
  BY DEF NoRuleSet, NotActive, Draft, Active
<1>4. TypeOK
  <2>1. cr \in [CR -> Object] /\ cache \in [CR -> Cached]
    BY <1>1, <1>2, ViewType DEF Init
  <2>2. wk \in [CR -> Worker] /\ draft \in [CR -> Draft] /\ active \in [CR -> Active]
    BY <1>3, IdleType DEF Init
  <2>3. labels \subseteq Label /\ scope \subseteq Label /\ usable \in BOOLEAN
        /\ faults \in Nat /\ changes \in Nat
    BY LabelAssumption, ScopesAssumption, FlagAssumption, BoundAssumption DEF Init
  <2> QED BY <2>1, <2>2, <2>3 DEF Init, TypeOK
<1>5. ASSUME NEW c \in CR PROVE Good(c)
  <2>1. Len(SpecOf[c]) \in Nat /\ Len(SpecOf[c]) > 0
    BY SpecAssumption, LenProperties
  <2>2. Stores(c, cr[c], View(cr[c]), NoRuleSet, NotActive)
    BY <1>1, <2>1 DEF Stores, Lagging, Enforced, View, NoRuleSet, NotActive
  <2>3. Fits(c, Idle, cr[c], View(cr[c]), NoRuleSet, NotActive)
    BY IdleFits
  <2> QED BY <1>2, <2>2, <2>3 DEF Good
<1> QED BY <1>4, <1>5 DEF Init, IInv, LabelsKept

(* Every step of every actor keeps the invariant: one named step per action.   *)
LEMMA NextInvariant == IInv /\ [Next]_vars => IInv'
<1> SUFFICES ASSUME IInv, [Next]_vars PROVE IInv'
  OBVIOUS
<1>1. CASE UNCHANGED vars
  <2>1. UNCHANGED <<cr, cache, fresh, queue, timer, wk, draft, active, labels, scope, usable,
                    faults, changes>>
    BY <1>1 DEF vars, kube, work, pce, env
  <2>2. TypeOK' /\ LabelsKept'
    BY <2>1 DEF IInv, TypeOK, LabelsKept
  <2>3. ASSUME NEW c \in CR PROVE Good(c)'
    BY <2>1, Frame DEF Same, IInv
  <2> QED BY <2>2, <2>3 DEF IInv
<1>2. ASSUME NEW c \in CR, Reconcile(c) PROVE IInv'
  <2>1. CASE AddFinalizer(c) \/ UpdateStatus(c) \/ RemoveFinalizer(c)
    BY <2>1, AddFinalizerStep, UpdateStatusStep, RemoveFinalizerStep
  <2>2. CASE \/ ResolveProfile(c) \/ ResolveProvider(c) \/ ResolveAllow(c) \/ MintLabel(c)
             \/ ResolveNarrow(c)
    BY <2>2, ResolveProfileStep, ResolveProviderStep, ResolveAllowStep, MintLabelStep,
       ResolveNarrowStep
  <2>3. CASE FindRuleSet(c) \/ CreateRuleSet(c) \/ ListRules(c) \/ DeleteRule(c)
    BY <2>3, FindRuleSetStep, CreateRuleSetStep, ListRulesStep, DeleteRuleStep
  <2>4. CASE FindService(c) \/ CreateRule(c) \/ Provision(c)
    BY <2>4, FindServiceStep, CreateRuleStep, ProvisionStep
  <2>5. CASE FinalizeResolve(c) \/ FinalizeFind(c) \/ FinalizeDelete(c) \/ FinalizeProvision(c)
    BY <2>5, FinalizeResolveStep, FinalizeFindStep, FinalizeDeleteStep, FinalizeProvisionStep
  <2> QED BY <1>2, <2>1, <2>2, <2>3, <2>4, <2>5 DEF Reconcile
<1>3. ASSUME NEW c \in CR, CacheSync(c) \/ TimerFire(c) \/ Start(c) \/ CallFails(c) \/ RateLimited(c)
      PROVE  IInv'
  BY <1>3, CacheSyncStep, TimerFireStep, StartStep, CallFailsStep, RateLimitedStep
<1>4. ASSUME NEW c \in CR, User(c) PROVE IInv'
  BY <1>4, CreateStep, EditStep, ApproveStep, DeleteStep DEF User
<1> QED BY <1>1, <1>2, <1>3, <1>4, RestartStep, EnvironmentStep DEF Next

(* The inductive invariant holds in every state the system can reach.          *)
THEOREM Invariant == Spec => []IInv
BY InitInvariant, NextInvariant, PTL DEF Spec

(* Every variable keeps its type: in particular a reconcile never holds a rule *)
(* or a look-up that its spec does not give, and no generation is negative.    *)
THEOREM TypeCorrect == Spec => []TypeOK
<1>1. IInv => TypeOK
  BY DEF IInv
<1> QED BY <1>1, Invariant, PTL

(* What the PCE enforces for a CR is always the whole compilation of one       *)
(* generation its user asked for, whatever fails or restarts on the way.       *)
THEOREM Complete == Spec => []ActiveIsComplete
<1>1. IInv => ActiveIsComplete
  <2> SUFFICES ASSUME IInv, NEW c \in CR, active[c].exists
               PROVE  /\ active[c].gen \in 1..cr[c].gen
                      /\ SpecOf[c][active[c].gen].valid
                      /\ active[c].rules \in Compilations(SpecOf[c][active[c].gen])
    BY DEF ActiveIsComplete
  <2>1. Good(c) /\ active[c].gen \in Nat /\ cr[c].gen \in Nat /\ cache[c].gen \in Nat
    BY InProgress DEF Active, Object, Cached
  <2> QED BY <2>1 DEF Good, Stores, Lagging, Enforced, SpecAt
<1> QED BY <1>1, Invariant, PTL

(* A status that says Compiled and Provisioned of the current generation is    *)
(* true of what the PCE enforces.                                              *)
THEOREM Truthful == Spec => []StatusIsTruthful
<1>1. IInv => StatusIsTruthful
  <2> SUFFICES ASSUME IInv, NEW c \in CR, cr[c].phase = "live", cr[c].ready = "Compiled",
                      cr[c].prov = "Provisioned", cr[c].obs = cr[c].gen
               PROVE  /\ active[c].exists /\ active[c].gen = cr[c].gen
                      /\ active[c].rules \in Compilations(SpecOf[c][cr[c].gen])
    BY DEF StatusIsTruthful
  <2>1. Good(c) /\ active[c].gen \in Nat /\ cr[c].gen \in Nat /\ cache[c].gen \in Nat
    BY InProgress DEF Active, Object, Cached
  <2> QED BY <2>1 DEF Good, Stores, Lagging, Enforced, SpecAt
<1> QED BY <1>1, Invariant, PTL
=============================================================================
