------------------------- MODULE PolicyClient_proofs -------------------------
(* Proofs about PolicyClient: the lifecycle with people at the PCE console and *)
(* a connection that loses the bodies of answers.  IInv of PolicyLifecycle     *)
(* does not survive them; what does is enough to defer a pending deletion, and *)
(* to forget no CR.                                                            *)
EXTENDS PolicyClient, PolicyPromise_proofs

-----------------------------------------------------------------------------
(* The invariant *)

(* The cache lags the object, the reconcile lags the cache, a reconcile that   *)
(* finalizes has seen the deletion, and what is marked exists.                 *)
Lags(c, o, k, w, d) ==
  /\ o.gen <= Len(SpecOf[c])
  /\ IF o.phase = "absent" THEN o.gen = 0 ELSE o.gen > 0
  /\ k.gen <= o.gen
  /\ k.phase # "absent" => k.gen > 0 /\ o.phase # "absent"
  /\ k.phase \in {"deleting", "gone"} => o.phase \in {"deleting", "gone"}
  /\ w.pc # "idle" => w.gen > 0 /\ w.gen <= k.gen
  /\ w.pc \in FinalizeSteps => k.phase \in {"deleting", "gone"}
  /\ d.marked => d.exists
LInv == TypeOK /\ \A c \in CR : Lags(c, cr[c], cache[c], wk[c], draft[c])

(* A pending deletion met by a step is deferred to by it. *)
Defers(c) ==
  cr[c].phase = "live" /\ draft[c].marked /\ wk[c].pc \notin Writing
    => draft'[c] = draft[c] /\ wk'[c].pc \notin Writing
Orderly == LInv' /\ \A c \in CR : Defers(c)

(* A reconcile goes on with a generation that has been cached, ...             *)
Goes(c, w) ==
  /\ w \in Worker
  /\ w.pc # "idle" => w.gen > 0 /\ w.gen <= cache[c].gen
  /\ w.pc \in FinalizeSteps => cache[c].phase \in {"deleting", "gone"}

(* ... and to a write only when no deletion is pending.                        *)
Safe(c, w) ==
  cr[c].phase = "live" /\ draft[c].marked /\ wk[c].pc \notin Writing
    => draft'[c] = draft[c] /\ w.pc \notin Writing

-----------------------------------------------------------------------------
(* What a step of a reconcile has to show *)

(* The facts a step starts from. *)
LEMMA Known ==
  ASSUME LInv, NEW c \in CR
  PROVE  /\ TypeOK /\ Lags(c, cr[c], cache[c], wk[c], draft[c])
         /\ wk[c] \in Worker /\ cr[c] \in Object /\ cache[c] \in Cached
         /\ draft[c] \in Draft /\ active[c] \in Active
         /\ wk[c].pc # "idle" => SpecAt(c, wk[c].gen) \in PolicySpec
<1>1. /\ TypeOK /\ Lags(c, cr[c], cache[c], wk[c], draft[c])
      /\ wk[c] \in Worker /\ cr[c] \in Object /\ cache[c] \in Cached
      /\ draft[c] \in Draft /\ active[c] \in Active
  BY DEF LInv, TypeOK
<1>2. ASSUME wk[c].pc # "idle" PROVE SpecAt(c, wk[c].gen) \in PolicySpec
  <2>1. wk[c].gen \in Nat /\ cache[c].gen \in Nat /\ cr[c].gen \in Nat
    BY <1>1 DEF Worker, Cached, Object
  <2>2. Len(SpecOf[c]) \in Nat
    BY SpecAssumption, LenProperties
  <2>3. wk[c].gen > 0 /\ wk[c].gen <= Len(SpecOf[c])
    BY <1>1, <1>2, <2>1, <2>2 DEF Lags
  <2> QED BY <2>1, <2>3, SpecType
<1> QED BY <1>1, <1>2

(* An idle reconcile is always in order. *)
LEMMA IdleGoes ==
  ASSUME NEW c \in CR
  PROVE  Goes(c, Idle) /\ Idle.pc = "idle" /\ Idle.pc \notin Writing
<1>1. Idle.pc = "idle" /\ Idle \in Worker
  BY IdleType DEF Idle
<1> QED BY <1>1 DEF Goes, FinalizeSteps, Writing

(* Going on at another step of the same kind keeps the generation. *)
LEMMA GoesTo ==
  ASSUME LInv, NEW c \in CR, NEW w \in Worker, w.gen = wk[c].gen, wk[c].pc # "idle",
         w.pc \in FinalizeSteps => wk[c].pc \in FinalizeSteps
  PROVE  Goes(c, w)
<1>1. Lags(c, cr[c], cache[c], wk[c], draft[c])
  BY Known
<1> QED BY <1>1 DEF Goes, Lags

(* A verdict is in order after any step and writes nothing. *)
LEMMA VerdictGoes ==
  ASSUME LInv, NEW c \in CR, NEW w \in Worker, w.gen = wk[c].gen, wk[c].pc # "idle",
         NEW r \in Verdicts, NEW v \in {"none", "keep", "Provisioned", "Pending"},
         NEW b \in BOOLEAN
  PROVE  Goes(c, Verdict(w, r, v, b)) /\ Verdict(w, r, v, b).pc \notin Writing
<1> DEFINE x == Verdict(w, r, v, b)
<1>1. x.pc = "status" /\ x.gen = w.gen
  BY VerdictFields
<1>2. x \in Worker
  BY VerdictType
<1> HIDE DEF x
<1>3. Goes(c, x) /\ x.pc \notin Writing
  BY <1>1, <1>2, GoesTo DEF FinalizeSteps, Writing
<1> QED BY <1>3 DEF x

(* A step of the reconcile of c that leaves the objects alone. *)
LEMMA StepKeeps ==
  ASSUME LInv, NEW c \in CR, NEW w, Moved(c, w), Goes(c, w), Safe(c, w),
         UNCHANGED <<kube, env, changes>>, labels' \subseteq Label,
         draft' \in [CR -> Draft], active' \in [CR -> Active],
         \A d \in CR \ {c} : draft'[d] = draft[d],
         draft'[c].marked => draft'[c].exists
  PROVE  Orderly
<1>1. TypeOK'
  BY DEF LInv, TypeOK, Moved, WorkOK, kube, env
<1>2. Goes(c, wk'[c]) /\ Safe(c, wk'[c])
  BY IdleGoes DEF Moved, Safe
<1>3. UNCHANGED <<cr, cache>>
  BY DEF kube
<1>4. Lags(c, cr'[c], cache'[c], wk'[c], draft'[c])
  BY <1>2, <1>3, Known DEF Goes, Lags
<1>5. \A d \in CR \ {c} : Lags(d, cr'[d], cache'[d], wk'[d], draft'[d])
  BY <1>3, Known DEF Moved
<1>6. \A d \in CR : Defers(d)
  <2> TAKE d \in CR
  <2>1. CASE d = c
    BY <1>2, <2>1 DEF Safe, Defers
  <2>2. CASE d # c
    BY <2>2 DEF Moved, Defers
  <2> QED BY <2>1, <2>2
<1> QED BY <1>1, <1>4, <1>5, <1>6 DEF Orderly, LInv

(* One that only reads, however its call ends. *)
LEMMA ReadKeeps ==
  ASSUME LInv, NEW c \in CR, NEW w, Goes(c, w),
         w.pc \notin Writing \/ wk[c].pc \in Writing \/ ~ draft[c].marked,
         Continue(c, w) \/ Answered(c, w) \/ Refused(c),
         UNCHANGED <<kube, draft, active, env, changes>>, labels' \subseteq Label
  PROVE  Orderly
<1>1. Moved(c, w)
  BY Outcome DEF LInv, Goes
<1>2. draft \in [CR -> Draft] /\ active \in [CR -> Active]
  BY DEF LInv, TypeOK
<1>3. draft[c].marked => draft[c].exists
  BY Known DEF Lags
<1> QED BY <1>1, <1>2, <1>3, StepKeeps DEF Safe

(* Going on at another step, with everything else kept. *)
LEMMA GoesAt ==
  ASSUME LInv, NEW c \in CR, NEW p \in Steps, wk[c].pc # "idle",
         p \in FinalizeSteps => wk[c].pc \in FinalizeSteps
  PROVE  Goes(c, [wk[c] EXCEPT !.pc = p]) /\ [wk[c] EXCEPT !.pc = p].pc = p
<1> DEFINE x == [wk[c] EXCEPT !.pc = p]
<1>1. wk[c] \in Worker
  BY Known
<1>2. x \in Worker /\ x.pc = p /\ x.gen = wk[c].gen
  BY <1>1, GoTo
<1> HIDE DEF x
<1>3. Goes(c, x)
  BY <1>2, GoesTo
<1> QED BY <1>2, <1>3 DEF x

(* The rebuilding of a ruleset goes on with the generation it began with. *)
LEMMA AfterGoes ==
  ASSUME LInv, NEW c \in CR, NEW w \in Worker, w.gen = wk[c].gen, wk[c].pc # "idle"
  PROVE  Goes(c, AfterRules(w)) /\ Goes(c, AfterDeletes(w))
<1>1. ASSUME NEW p \in {"rule", "provision", "delete", "service"}
      PROVE  Goes(c, [w EXCEPT !.pc = p])
  <2> DEFINE x == [w EXCEPT !.pc = p]
  <2>1. p \in Steps /\ p \notin FinalizeSteps
    BY DEF Steps, PolicyCalls, FinalizeSteps
  <2>2. x \in Worker /\ x.pc = p /\ x.gen = w.gen
    BY <2>1, GoTo
  <2> HIDE DEF x
  <2>3. Goes(c, x)
    BY <2>1, <2>2, GoesTo
  <2> QED BY <2>3 DEF x
<1>2. Goes(c, Verdict(w, "Compiled", "Pending", TRUE))
  BY VerdictGoes DEF Verdicts
<1> QED BY <1>1, <1>2 DEF AfterRules, AfterDeletes

(* A compilation goes on to the profile or ends in a verdict. *)
LEMMA CompiledGoes ==
  ASSUME LInv, NEW c \in CR, NEW w \in Worker, w.gen > 0, w.gen <= cache[c].gen
  PROVE  Goes(c, Compiled(c, w)) /\ Compiled(c, w).pc \notin Writing
<1> DEFINE x == [w EXCEPT !.pc = "resolve"]
           y == Verdict(w, "Rejected", "keep", FALSE)
<1>1. x \in Worker /\ x.pc = "resolve" /\ x.gen = w.gen
  BY GoTo DEF Steps
<1>2. y \in Worker
  BY VerdictType DEF Verdicts
<1>5. y.pc = "status" /\ y.gen = w.gen
  BY DEF Verdict, Idle
<1> HIDE DEF x, y
<1>3. Goes(c, x) /\ x.pc \notin Writing /\ Goes(c, y) /\ y.pc \notin Writing
  BY <1>1, <1>2, <1>5 DEF Goes, FinalizeSteps, Writing
<1>4. Compiled(c, w) \in {x, y}
  BY DEF Compiled, x, y
<1> QED BY <1>3, <1>4

(* What a reconcile starts with. *)
LEMMA BeginGoes ==
  ASSUME LInv, NEW c \in CR
  PROVE  Goes(c, Begin(c)) /\ Begin(c).pc \notin Writing
<1> DEFINE v == Snapshot(c)
<1>1. v \in Worker /\ v.gen = cache[c].gen /\ cache[c] \in Cached
      /\ (cache[c].phase # "absent" => cache[c].gen > 0)
  BY Known, SnapshotType DEF Lags
<1>2. v.gen \in Nat /\ v.gen <= cache[c].gen
  BY <1>1 DEF Worker, Cached
<1>3. CASE cache[c].phase = "deleting" /\ cache[c].fin
  <2> DEFINE x == [v EXCEPT !.pc = "finresolve"]
  <2>1. x \in Worker /\ x.pc = "finresolve" /\ x.gen = v.gen /\ Begin(c) = x
    BY <1>1, <1>3, GoTo DEF Begin, Steps
  <2> HIDE DEF x
  <2> QED BY <1>1, <1>2, <1>3, <2>1 DEF Goes, Writing
<1>4. CASE cache[c].phase = "live" /\ ~ cache[c].fin
  <2> DEFINE x == [v EXCEPT !.pc = "addfin"]
  <2>1. x \in Worker /\ x.pc = "addfin" /\ x.gen = v.gen /\ Begin(c) = x
    BY <1>1, <1>4, GoTo DEF Begin, Steps
  <2> HIDE DEF x
  <2> QED BY <1>1, <1>2, <1>4, <2>1 DEF Goes, Writing, FinalizeSteps
<1>5. CASE cache[c].phase = "live" /\ cache[c].fin
  <2>1. Begin(c) = Compiled(c, v)
    BY <1>5 DEF Begin
  <2> HIDE DEF v
  <2> QED BY <1>1, <1>2, <1>5, <2>1, CompiledGoes
<1>6. CASE ~ (cache[c].phase = "deleting" /\ cache[c].fin) /\ cache[c].phase # "live"
  <2>1. Begin(c) = Idle
    BY <1>6 DEF Begin
  <2> QED BY <2>1, IdleGoes
<1> QED BY <1>3, <1>4, <1>5, <1>6

(* A look-up goes on to the next one, or to the narrowing labels. *)
LEMMA LookedGoes ==
  ASSUME LInv, NEW c \in CR, wk[c].pc # "idle", NEW p,
         NEW hit \in SUBSET (Allow \X Label)
  PROVE  Goes(c, Looked(wk[c], p, hit)) /\ Looked(wk[c], p, hit).pc \notin Writing
<1> DEFINE q == IF wk[c].todo = {p} THEN "narrow" ELSE "lookup"
           x == [wk[c] EXCEPT !.todo = @ \ {p}, !.make = {}, !.hit = hit, !.pc = q]
<1>1. wk[c] \in Worker
  BY Known
<1>2. q \in Steps /\ q \notin FinalizeSteps /\ q \notin Writing
  BY DEF Steps, PolicyCalls, FinalizeSteps, Writing
<1> HIDE DEF q
<1>3. x \in Worker /\ x.pc = q /\ x.gen = wk[c].gen
  BY <1>1, <1>2 DEF Worker
<1> HIDE DEF x
<1>4. Goes(c, x) /\ x.pc \notin Writing
  BY <1>2, <1>3, GoesTo
<1> QED BY <1>4 DEF x, q, Looked

-----------------------------------------------------------------------------
(* One lemma per call of a reconcile *)

(* A call that touches no store of the PCE, and goes on where it may. *)
LEMMA PureKeeps ==
  ASSUME LInv, NEW c \in CR, NEW w, Goes(c, w), w.pc \notin Writing,
         Continue(c, w) \/ Answered(c, w) \/ Refused(c),
         UNCHANGED <<kube, pce, env, changes>>
  PROVE  Orderly
<1>1. UNCHANGED <<kube, draft, active, env, changes>> /\ labels' \subseteq Label
  BY DEF LInv, TypeOK, pce
<1> QED BY <1>1, ReadKeeps

(* A call that is refused. *)
LEMMA RefusedKeeps ==
  ASSUME LInv, NEW c \in CR, Refused(c), UNCHANGED <<kube, pce, env, changes>>
  PROVE  Orderly
BY IdleGoes, PureKeeps

(* One that ends in a verdict. *)
LEMMA VerdictKeeps ==
  ASSUME LInv, NEW c \in CR, wk[c].pc # "idle", NEW r \in Verdicts,
         NEW v \in {"none", "keep", "Provisioned", "Pending"}, NEW b \in BOOLEAN,
         Continue(c, Verdict(wk[c], r, v, b)), UNCHANGED <<kube, pce, env, changes>>
  PROVE  Orderly
<1> DEFINE w == Verdict(wk[c], r, v, b)
<1>1. wk[c] \in Worker
  BY Known
<1>2. Goes(c, w) /\ w.pc \notin Writing
  BY <1>1, VerdictGoes
<1> HIDE DEF w
<1>3. Continue(c, w)
  BY DEF w
<1> QED BY <1>2, <1>3, PureKeeps

(* One that goes on at a step that writes nothing. *)
LEMMA AtKeeps ==
  ASSUME LInv, NEW c \in CR, NEW p \in Steps \ Writing, wk[c].pc # "idle",
         p \in FinalizeSteps => wk[c].pc \in FinalizeSteps,
         Continue(c, [wk[c] EXCEPT !.pc = p]), UNCHANGED <<kube, pce, env, changes>>
  PROVE  Orderly
<1> DEFINE w == [wk[c] EXCEPT !.pc = p]
<1>1. Goes(c, w) /\ w.pc = p
  BY GoesAt
<1> HIDE DEF w
<1>2. Continue(c, w)
  BY DEF w
<1> QED BY <1>1, <1>2, PureKeeps

(* Finding the profile. *)
LEMMA ProfileKeeps ==
  ASSUME LInv, NEW c \in CR, ResolveProfile(c)
  PROVE  Orderly
<1>1. wk[c].pc = "resolve" /\ UNCHANGED <<kube, pce, env, changes>>
  BY DEF ResolveProfile
<1>2. CASE usable
  <2>1. Continue(c, [wk[c] EXCEPT !.pc = "scope"])
    BY <1>2 DEF ResolveProfile
  <2>2. "scope" \in Steps \ Writing /\ "scope" \notin FinalizeSteps
    BY DEF Steps, PolicyCalls, Writing, FinalizeSteps
  <2> QED BY <1>1, <2>1, <2>2, AtKeeps
<1>3. CASE ~ usable
  <2>1. Continue(c, Verdict(wk[c], "NotReady", "keep", TRUE))
    BY <1>3 DEF ResolveProfile
  <2> QED BY <1>1, <2>1, VerdictKeeps DEF Verdicts
<1> QED BY <1>2, <1>3

(* Resolving the scope of the namespace. *)
LEMMA ProviderKeeps ==
  ASSUME LInv, NEW c \in CR, ResolveProvider(c)
  PROVE  Orderly
<1> DEFINE todo == Lookups(SpecAt(c, wk[c].gen))
           p == IF todo = {} THEN "narrow" ELSE "lookup"
           w == [wk[c] EXCEPT !.pc = p, !.scope = scope, !.todo = todo]
<1>1. /\ wk[c].pc = "scope" /\ UNCHANGED <<kube, pce, env, changes>> /\ wk[c] \in Worker
      /\ SpecAt(c, wk[c].gen) \in PolicySpec /\ scope \subseteq Label
  BY Known DEF ResolveProvider, TypeOK
<1>2. CASE scope # {} /\ scope \subseteq labels
  <2>1. todo \subseteq Allow \X Label
    BY <1>1, LookupsType
  <2>2. p \in Steps /\ p \notin FinalizeSteps /\ p \notin Writing
    BY DEF Steps, PolicyCalls, FinalizeSteps, Writing
  <2>3. Continue(c, w)
    BY <1>2 DEF ResolveProvider, SpecAt
  <2> HIDE DEF p, todo
  <2>4. w \in Worker /\ w.pc = p /\ w.gen = wk[c].gen
    BY <1>1, <2>1, <2>2 DEF Worker
  <2> HIDE DEF w
  <2>5. Goes(c, w) /\ w.pc \notin Writing
    BY <1>1, <2>2, <2>4, GoesTo
  <2> QED BY <1>1, <2>3, <2>5, PureKeeps
<1>3. CASE ~ (scope # {} /\ scope \subseteq labels)
  <2>1. Continue(c, Verdict(wk[c], "Rejected", "keep", TRUE))
    BY <1>3 DEF ResolveProvider
  <2> QED BY <1>1, <2>1, VerdictKeeps DEF Verdicts
<1> QED BY <1>2, <1>3

(* One look-up of an allowed label. *)
LEMMA AllowKeeps ==
  ASSUME LInv, NEW c \in CR, ResolveAllow(c)
  PROVE  Orderly
<1>1. /\ wk[c].pc = "lookup" /\ UNCHANGED <<kube, pce, env, changes>> /\ wk[c] \in Worker
  BY Known DEF ResolveAllow
<1>2. PICK p \in wk[c].todo :
       \/ \E hit \in {wk[c].hit, wk[c].hit \cup {p}} : Continue(c, Looked(wk[c], p, hit))
       \/ Continue(c, [wk[c] EXCEPT !.pc = "mint", !.make = {p}])
       \/ Continue(c, Verdict(wk[c], "Rejected", "keep", TRUE))
  BY DEF ResolveAllow
<1>3. /\ p \in Allow \X Label
      /\ \A hit \in {wk[c].hit, wk[c].hit \cup {p}} : hit \in SUBSET (Allow \X Label)
  BY <1>1 DEF Worker
<1>4. ASSUME NEW hit \in {wk[c].hit, wk[c].hit \cup {p}}, Continue(c, Looked(wk[c], p, hit))
      PROVE  Orderly
  <2> DEFINE w == Looked(wk[c], p, hit)
  <2>1. Goes(c, w) /\ w.pc \notin Writing
    BY <1>1, <1>3, LookedGoes
  <2>2. Continue(c, w)
    BY <1>4
  <2> HIDE DEF w
  <2> QED BY <1>1, <2>1, <2>2, PureKeeps
<1>5. CASE Continue(c, [wk[c] EXCEPT !.pc = "mint", !.make = {p}])
  <2> DEFINE w == [wk[c] EXCEPT !.pc = "mint", !.make = {p}]
  <2>1. w \in Worker /\ w.pc = "mint" /\ w.gen = wk[c].gen
    BY <1>1, <1>3 DEF Worker, Steps, PolicyCalls
  <2>2. Continue(c, w)
    BY <1>5
  <2> HIDE DEF w
  <2>3. Goes(c, w) /\ w.pc \notin Writing
    BY <1>1, <2>1, GoesTo DEF FinalizeSteps, Writing
  <2> QED BY <1>1, <2>2, <2>3, PureKeeps
<1>6. CASE Continue(c, Verdict(wk[c], "Rejected", "keep", TRUE))
  BY <1>1, <1>6, VerdictKeeps DEF Verdicts
<1> QED BY <1>2, <1>4, <1>5, <1>6

(* The creation of a label, or its refusal. *)
LEMMA MintKeeps ==
  ASSUME LInv, NEW c \in CR, MintLabel(c)
  PROVE  Orderly
<1>1. /\ wk[c].pc = "mint" /\ UNCHANGED <<kube, draft, active, env, changes>>
      /\ wk[c] \in Worker /\ labels \subseteq Label
  BY Known DEF MintLabel, TypeOK
<1>2. PICK p \in wk[c].make :
       \/ /\ labels' = labels \cup {p[2]}
          /\ Answered(c, Looked(wk[c], p, wk[c].hit \cup {p}))
       \/ Refused(c) /\ UNCHANGED labels
  BY DEF MintLabel
<1>3. p[2] \in Label /\ wk[c].hit \cup {p} \in SUBSET (Allow \X Label)
  BY <1>1 DEF Worker
<1>4. CASE Refused(c) /\ UNCHANGED labels
  BY <1>1, <1>4, RefusedKeeps DEF pce
<1>5. CASE labels' = labels \cup {p[2]} /\ Answered(c, Looked(wk[c], p, wk[c].hit \cup {p}))
  <2> DEFINE w == Looked(wk[c], p, wk[c].hit \cup {p})
  <2>1. Goes(c, w) /\ w.pc \notin Writing
    BY <1>1, <1>3, LookedGoes
  <2>2. Answered(c, w) /\ labels' \subseteq Label
    BY <1>1, <1>3, <1>5
  <2> HIDE DEF w
  <2> QED BY <1>1, <2>1, <2>2, ReadKeeps
<1> QED BY <1>2, <1>4, <1>5

(* The narrowing labels, after which the rules are built. *)
LEMMA NarrowKeeps ==
  ASSUME LInv, NEW c \in CR, ResolveNarrow(c)
  PROVE  Orderly
<1> DEFINE s == SpecAt(c, wk[c].gen)
           add == Rules(s, wk[c].hit)
           w == [wk[c] EXCEPT !.pc = "find", !.hit = {}, !.add = add]
<1>1. /\ wk[c].pc = "narrow" /\ UNCHANGED <<kube, pce, env, changes>> /\ wk[c] \in Worker
      /\ s \in PolicySpec
  BY Known DEF ResolveNarrow
<1>2. CASE s.to \subseteq labels
  <2>1. add \subseteq Rule
    BY <1>1, RulesType
  <2>2. Continue(c, w)
    BY <1>2 DEF ResolveNarrow, SpecAt
  <2> HIDE DEF add
  <2>3. w \in Worker /\ w.pc = "find" /\ w.gen = wk[c].gen
    BY <1>1, <2>1 DEF Worker, Steps, PolicyCalls
  <2> HIDE DEF w
  <2>4. Goes(c, w) /\ w.pc \notin Writing
    BY <1>1, <2>3, GoesTo DEF FinalizeSteps, Writing
  <2> QED BY <1>1, <2>2, <2>4, PureKeeps
<1>3. CASE ~ (s.to \subseteq labels)
  <2>1. Continue(c, Verdict(wk[c], "Rejected", "keep", TRUE))
    BY <1>3 DEF ResolveNarrow, SpecAt
  <2> QED BY <1>1, <2>1, VerdictKeeps DEF Verdicts
<1> QED BY <1>2, <1>3

(* The look-up of the ruleset, which notices a pending deletion. *)
LEMMA FindKeeps ==
  ASSUME LInv, NEW c \in CR, FindRuleSet(c)
  PROVE  Orderly
<1>1. /\ wk[c].pc = "find" /\ UNCHANGED <<kube, pce, env, changes>> /\ wk[c] \in Worker
      /\ labels \subseteq Label
  BY Known DEF FindRuleSet, TypeOK
<1>2. CASE ~ draft[c].exists
  <2>1. Continue(c, [wk[c] EXCEPT !.pc = "create"])
    BY <1>2 DEF FindRuleSet
  <2>2. "create" \in Steps \ Writing /\ "create" \notin FinalizeSteps
    BY DEF Steps, PolicyCalls, Writing, FinalizeSteps
  <2> QED BY <1>1, <2>1, <2>2, AtKeeps
<1>3. CASE draft[c].exists /\ draft[c].marked
  <2>1. Continue(c, Verdict(wk[c], "Conflict", "keep", TRUE))
    BY <1>3 DEF FindRuleSet
  <2> QED BY <1>1, <2>1, VerdictKeeps DEF Verdicts
<1>4. CASE draft[c].exists /\ ~ draft[c].marked
  <2> DEFINE w == [wk[c] EXCEPT !.pc = "list", !.scope = {}]
  <2>1. Continue(c, w)
    BY <1>4 DEF FindRuleSet
  <2>2. w \in Worker /\ w.pc = "list" /\ w.gen = wk[c].gen
    BY <1>1 DEF Worker, Steps, PolicyCalls
  <2> HIDE DEF w
  <2>3. Goes(c, w)
    BY <1>1, <2>2, GoesTo DEF FinalizeSteps
  <2>4. UNCHANGED <<kube, draft, active, env, changes>> /\ labels' \subseteq Label
    BY <1>1 DEF pce
  <2> QED BY <1>4, <2>1, <2>3, <2>4, ReadKeeps
<1> QED BY <1>2, <1>3, <1>4

(* A call that writes the ruleset of c alone, while no deletion of a live CR's *)
(* ruleset has to be deferred to.                                              *)
LEMMA WriteKeeps ==
  ASSUME LInv, NEW c \in CR, NEW w, NEW r \in Draft, Goes(c, w),
         wk[c].pc \in Writing \/ ~ draft[c].marked \/ cr[c].phase # "live",
         r.marked => r.exists,
         draft' = [draft EXCEPT ![c] = r], active' \in [CR -> Active],
         Answered(c, w), UNCHANGED <<kube, labels, env, changes>>
  PROVE  Orderly
<1>1. draft \in [CR -> Draft] /\ labels' \subseteq Label
  BY DEF LInv, TypeOK
<1>2. draft' \in [CR -> Draft] /\ draft'[c] = r /\ \A d \in CR \ {c} : draft'[d] = draft[d]
  BY <1>1
<1>3. Moved(c, w)
  BY Outcome DEF LInv, Goes
<1> QED BY <1>1, <1>2, <1>3, StepKeeps DEF Safe

(* The creation of the ruleset: a marked one still exists and is refused. *)
LEMMA CreateKeeps ==
  ASSUME LInv, NEW c \in CR, CreateRuleSet(c)
  PROVE  Orderly
<1>1. /\ wk[c].pc = "create" /\ UNCHANGED <<kube, active, labels, env, changes>>
      /\ wk[c] \in Worker /\ active \in [CR -> Active] /\ (draft[c].marked => draft[c].exists)
  BY Known DEF CreateRuleSet, TypeOK, Lags
<1>2. CASE draft[c].exists
  <2>1. Refused(c) /\ UNCHANGED <<kube, pce, env, changes>>
    BY <1>1, <1>2 DEF CreateRuleSet, pce
  <2> QED BY <2>1, RefusedKeeps
<1>3. CASE ~ draft[c].exists
  <2> DEFINE v == [wk[c] EXCEPT !.scope = {}]
             w == AfterDeletes(v)
             r == [NoRuleSet EXCEPT !.exists = TRUE, !.scope = wk[c].scope]
  <2>1. draft' = [draft EXCEPT ![c] = r] /\ Answered(c, w)
    BY <1>3 DEF CreateRuleSet
  <2>2. v \in Worker /\ v.gen = wk[c].gen
    BY <1>1 DEF Worker
  <2>3. r \in Draft /\ ~ r.marked
    BY <1>1 DEF NoRuleSet, Draft, Worker
  <2> HIDE DEF v
  <2>4. Goes(c, w)
    BY <1>1, <2>2, AfterGoes
  <2> HIDE DEF w, r
  <2> QED BY <1>1, <1>3, <2>1, <2>3, <2>4, WriteKeeps
<1> QED BY <1>2, <1>3

(* The listing of its rules. *)
LEMMA ListKeeps ==
  ASSUME LInv, NEW c \in CR, ListRules(c)
  PROVE  Orderly
<1>1. /\ wk[c].pc = "list" /\ UNCHANGED <<kube, pce, env, changes>> /\ wk[c] \in Worker
      /\ labels \subseteq Label /\ draft[c] \in Draft
  BY Known DEF ListRules, TypeOK
<1>2. CASE Writable(c)
  <2> DEFINE v == [wk[c] EXCEPT !.del = draft[c].rules]
             w == AfterDeletes(v)
  <2>1. Continue(c, w)
    BY <1>2 DEF ListRules
  <2>2. v \in Worker /\ v.gen = wk[c].gen
    BY <1>1 DEF Worker, Draft
  <2> HIDE DEF v
  <2>3. Goes(c, w)
    BY <1>1, <2>2, AfterGoes
  <2> HIDE DEF w
  <2>4. UNCHANGED <<kube, draft, active, env, changes>> /\ labels' \subseteq Label
    BY <1>1 DEF pce
  <2> QED BY <1>1, <2>1, <2>3, <2>4, ReadKeeps DEF Writing
<1>3. CASE ~ Writable(c)
  BY <1>1, <1>3, RefusedKeeps DEF ListRules
<1> QED BY <1>2, <1>3

(* The deletion of an old rule. *)
LEMMA DeleteRuleKeeps ==
  ASSUME LInv, NEW c \in CR, DeleteRule(c)
  PROVE  Orderly
<1>1. /\ wk[c].pc = "delete" /\ UNCHANGED <<kube, active, labels, env, changes>>
      /\ wk[c] \in Worker /\ active \in [CR -> Active] /\ draft[c] \in Draft
      /\ draft \in [CR -> Draft]
  BY Known DEF DeleteRule, TypeOK
<1>2. CASE Writable(c)
  <2>1. PICK r \in wk[c].del :
          /\ draft' = [draft EXCEPT ![c].rules = @ \ {r}]
          /\ Answered(c, AfterDeletes([wk[c] EXCEPT !.del = @ \ {r}]))
    BY <1>2 DEF DeleteRule
  <2> DEFINE v == [wk[c] EXCEPT !.del = @ \ {r}]
             w == AfterDeletes(v)
             x == [draft[c] EXCEPT !.rules = @ \ {r}]
  <2>2. v \in Worker /\ v.gen = wk[c].gen
    BY <1>1 DEF Worker
  <2>3. x \in Draft /\ x.marked = draft[c].marked /\ x.exists = draft[c].exists
    BY <1>1 DEF Draft
  <2>4. draft' = [draft EXCEPT ![c] = x]
    BY <1>1, <2>1
  <2> HIDE DEF v
  <2>5. Goes(c, w)
    BY <1>1, <2>2, AfterGoes
  <2>6. Answered(c, w)
    BY <2>1 DEF v
  <2> HIDE DEF w, x
  <2> QED BY <1>1, <1>2, <2>3, <2>4, <2>5, <2>6, WriteKeeps DEF Writable
<1>3. CASE ~ Writable(c)
  <2>1. Refused(c) /\ UNCHANGED <<kube, pce, env, changes>>
    BY <1>1, <1>3 DEF DeleteRule, pce
  <2> QED BY <2>1, RefusedKeeps
<1> QED BY <1>2, <1>3

(* The look-up of a service. *)
LEMMA ServiceKeeps ==
  ASSUME LInv, NEW c \in CR, FindService(c)
  PROVE  Orderly
<1> DEFINE w == AfterRules(wk[c])
<1>1. /\ wk[c].pc = "service" /\ UNCHANGED <<kube, pce, env, changes>> /\ wk[c] \in Worker
      /\ labels \subseteq Label /\ Continue(c, w)
  BY Known DEF FindService, TypeOK
<1>2. Goes(c, w)
  BY <1>1, AfterGoes
<1> HIDE DEF w
<1>3. UNCHANGED <<kube, draft, active, env, changes>> /\ labels' \subseteq Label
  BY <1>1 DEF pce
<1> QED BY <1>1, <1>2, <1>3, ReadKeeps DEF Writing

(* The creation of a new rule. *)
LEMMA CreateRuleKeeps ==
  ASSUME LInv, NEW c \in CR, CreateRule(c)
  PROVE  Orderly
<1>1. /\ wk[c].pc = "rule" /\ UNCHANGED <<kube, active, labels, env, changes>>
      /\ wk[c] \in Worker /\ active \in [CR -> Active] /\ draft[c] \in Draft
      /\ draft \in [CR -> Draft]
  BY Known DEF CreateRule, TypeOK
<1>2. CASE Writable(c)
  <2>1. PICK r \in wk[c].add :
          /\ draft' = [draft EXCEPT ![c].rules = @ \cup {r}]
          /\ Answered(c, AfterRules([wk[c] EXCEPT !.add = @ \ {r}]))
    BY <1>2 DEF CreateRule
  <2> DEFINE v == [wk[c] EXCEPT !.add = @ \ {r}]
             w == AfterRules(v)
             x == [draft[c] EXCEPT !.rules = @ \cup {r}]
  <2>2. v \in Worker /\ v.gen = wk[c].gen
    BY <1>1 DEF Worker
  <2>3. r \in Rule
    BY <1>1 DEF Worker
  <2>4. x \in Draft /\ x.marked = draft[c].marked /\ x.exists = draft[c].exists
    BY <1>1, <2>3 DEF Draft
  <2>5. draft' = [draft EXCEPT ![c] = x]
    BY <1>1, <2>1
  <2> HIDE DEF v
  <2>6. Goes(c, w)
    BY <1>1, <2>2, AfterGoes
  <2>7. Answered(c, w)
    BY <2>1 DEF v
  <2> HIDE DEF w, x
  <2> QED BY <1>1, <1>2, <2>4, <2>5, <2>6, <2>7, WriteKeeps DEF Writable
<1>3. CASE ~ Writable(c)
  <2>1. Refused(c) /\ UNCHANGED <<kube, pce, env, changes>>
    BY <1>1, <1>3 DEF CreateRule, pce
  <2> QED BY <2>1, RefusedKeeps
<1> QED BY <1>2, <1>3

(* What provisioning leaves is well typed and marks nothing. *)
LEMMA ProvisionedKeeps ==
  ASSUME TypeOK, NEW c \in CR, NEW g \in Nat, Provisioned(c, g)
  PROVE  /\ active' \in [CR -> Active]
         /\ \E r \in Draft : draft' = [draft EXCEPT ![c] = r] /\ ~ r.marked
<1>1. /\ draft \in [CR -> Draft] /\ active \in [CR -> Active] /\ draft[c] \in Draft
      /\ NoRuleSet \in Draft /\ ~ NoRuleSet.marked /\ NotActive \in Active
  BY DEF TypeOK, NoRuleSet, NotActive, Draft, Active
<1>2. draft' = [draft EXCEPT ![c] = IF draft[c].marked THEN NoRuleSet ELSE draft[c]]
  BY DEF Provisioned
<1>3. \E r \in Draft : draft' = [draft EXCEPT ![c] = r] /\ ~ r.marked
  <2>1. CASE draft[c].marked
    BY <1>1, <1>2, <2>1
  <2>2. CASE ~ draft[c].marked
    BY <1>1, <1>2, <2>2
  <2> QED BY <2>1, <2>2
<1>4. [exists |-> TRUE, gen |-> g, scope |-> draft[c].scope, rules |-> draft[c].rules] \in Active
  BY <1>1 DEF Draft, Active
<1> QED BY <1>1, <1>3, <1>4 DEF Provisioned

(* The provisioning of the ruleset. *)
LEMMA ProvisionKeeps ==
  ASSUME LInv, NEW c \in CR, Provision(c)
  PROVE  Orderly
<1> DEFINE w == Verdict(wk[c], "Compiled", "Provisioned", TRUE)
<1>1. /\ wk[c].pc = "provision" /\ UNCHANGED <<kube, labels, env, changes>>
      /\ wk[c] \in Worker /\ TypeOK
  BY Known DEF Provision
<1>2. CASE draft[c].exists
  <2>1. Provisioned(c, wk[c].gen) /\ Answered(c, w) /\ wk[c].gen \in Nat
    BY <1>1, <1>2 DEF Provision, Worker
  <2>2. Goes(c, w)
    BY <1>1, VerdictGoes DEF Verdicts
  <2> HIDE DEF w
  <2>3. PICK r \in Draft : draft' = [draft EXCEPT ![c] = r] /\ ~ r.marked
    BY <1>1, <2>1, ProvisionedKeeps
  <2>4. active' \in [CR -> Active]
    BY <1>1, <2>1, ProvisionedKeeps
  <2> QED BY <1>1, <2>1, <2>2, <2>3, <2>4, WriteKeeps DEF Writing
<1>3. CASE ~ draft[c].exists
  <2>1. Refused(c) /\ UNCHANGED <<kube, pce, env, changes>>
    BY <1>1, <1>3 DEF Provision, pce
  <2> QED BY <2>1, RefusedKeeps
<1> QED BY <1>2, <1>3

-----------------------------------------------------------------------------
(* The steps of a finalization: the CR they belong to is not live *)

(* A reconcile that finalizes has seen the deletion. *)
LEMMA FinalizingIsDead ==
  ASSUME LInv, NEW c \in CR, wk[c].pc \in FinalizeSteps
  PROVE  cr[c].phase \in {"deleting", "gone"}
BY Known DEF Lags

(* Finding the profile, or doing without it. *)
LEMMA FinalizeResolveKeeps ==
  ASSUME LInv, NEW c \in CR, FinalizeResolve(c)
  PROVE  Orderly
<1> DEFINE p == IF usable THEN "finfind" ELSE "release"
<1>1. /\ wk[c].pc = "finresolve" /\ UNCHANGED <<kube, pce, env, changes>>
      /\ Continue(c, [wk[c] EXCEPT !.pc = p])
  BY DEF FinalizeResolve
<1>2. p \in Steps \ Writing /\ wk[c].pc \in FinalizeSteps
  BY <1>1 DEF Steps, PolicyCalls, Writing, FinalizeSteps
<1> HIDE DEF p
<1> QED BY <1>1, <1>2, AtKeeps

(* Finding the ruleset. *)
LEMMA FinalizeFindKeeps ==
  ASSUME LInv, NEW c \in CR, FinalizeFind(c)
  PROVE  Orderly
<1> DEFINE p == IF ~ draft[c].exists THEN "release"
                ELSE IF draft[c].marked THEN "finprovision"
                ELSE "findelete"
<1>1. /\ wk[c].pc = "finfind" /\ UNCHANGED <<kube, pce, env, changes>>
      /\ Continue(c, [wk[c] EXCEPT !.pc = p])
  BY DEF FinalizeFind
<1>2. p \in Steps \ Writing /\ wk[c].pc \in FinalizeSteps
  BY <1>1 DEF Steps, PolicyCalls, Writing, FinalizeSteps
<1> HIDE DEF p
<1> QED BY <1>1, <1>2, AtKeeps

(* What a deletion leaves is well typed, and a marked ruleset exists. *)
LEMMA DeletedKeeps ==
  ASSUME TypeOK, NEW c \in CR, Deleted(c), draft[c].exists
  PROVE  \E r \in Draft : draft' = [draft EXCEPT ![c] = r] /\ (r.marked => r.exists)
<1>1. draft \in [CR -> Draft] /\ draft[c] \in Draft /\ NoRuleSet \in Draft /\ ~ NoRuleSet.marked
  BY DEF TypeOK, NoRuleSet, Draft
<1> DEFINE x == [draft[c] EXCEPT !.marked = TRUE]
<1>2. x \in Draft /\ x.exists
  BY <1>1 DEF Draft
<1>3. draft' = [draft EXCEPT ![c] = IF active[c].exists THEN x ELSE NoRuleSet]
  BY <1>1 DEF Deleted
<1> HIDE DEF x
<1>4. CASE active[c].exists
  BY <1>2, <1>3, <1>4
<1>5. CASE ~ active[c].exists
  BY <1>1, <1>3, <1>5
<1> QED BY <1>4, <1>5

(* Deleting it. *)
LEMMA FinalizeDeleteKeeps ==
  ASSUME LInv, NEW c \in CR, FinalizeDelete(c)
  PROVE  Orderly
<1> DEFINE w == [wk[c] EXCEPT !.pc = "finprovision"]
<1>1. /\ wk[c].pc = "findelete" /\ UNCHANGED <<kube, active, labels, env, changes>>
      /\ wk[c] \in Worker /\ TypeOK /\ wk[c].pc \in FinalizeSteps
  BY Known DEF FinalizeDelete, FinalizeSteps
<1>2. /\ "finprovision" \in Steps \ Writing
  BY DEF Steps, PolicyCalls, Writing
<1>3. Goes(c, w)
  BY <1>1, <1>2, GoesAt
<1>4. CASE Writable(c) /\ Deleted(c) /\ Answered(c, w)
  <2>1. PICK r \in Draft : draft' = [draft EXCEPT ![c] = r] /\ (r.marked => r.exists)
    BY <1>1, <1>4, DeletedKeeps DEF Writable
  <2>2. active' \in [CR -> Active] /\ cr[c].phase # "live"
    BY <1>1, FinalizingIsDead DEF TypeOK
  <2>3. Answered(c, w)
    BY <1>4
  <2> HIDE DEF w
  <2> QED BY <1>1, <1>3, <2>1, <2>2, <2>3, WriteKeeps
<1>5. CASE Continue(c, w) /\ UNCHANGED draft
  <2>1. UNCHANGED <<kube, pce, env, changes>>
    BY <1>1, <1>5 DEF pce
  <2> QED BY <1>1, <1>2, <1>5, <2>1, AtKeeps
<1>6. CASE Refused(c) /\ UNCHANGED draft
  <2>1. UNCHANGED <<kube, pce, env, changes>>
    BY <1>1, <1>6 DEF pce
  <2> QED BY <1>6, <2>1, RefusedKeeps
<1> QED BY <1>4, <1>5, <1>6 DEF FinalizeDelete

(* Provisioning the deletion. *)
LEMMA FinalizeProvisionKeeps ==
  ASSUME LInv, NEW c \in CR, FinalizeProvision(c)
  PROVE  Orderly
<1> DEFINE w == [wk[c] EXCEPT !.pc = "release"]
<1>1. /\ wk[c].pc = "finprovision" /\ UNCHANGED <<kube, labels, env, changes>>
      /\ wk[c] \in Worker /\ TypeOK /\ wk[c].pc \in FinalizeSteps
  BY Known DEF FinalizeProvision, FinalizeSteps
<1>2. "release" \in Steps \ Writing
  BY DEF Steps, PolicyCalls, Writing
<1>3. Goes(c, w)
  BY <1>1, <1>2, GoesAt
<1>4. CASE draft[c].exists
  <2>1. Provisioned(c, wk[c].gen) /\ Answered(c, w) /\ wk[c].gen \in Nat
    BY <1>1, <1>4 DEF FinalizeProvision, Worker
  <2> HIDE DEF w
  <2>2. PICK r \in Draft : draft' = [draft EXCEPT ![c] = r] /\ ~ r.marked
    BY <1>1, <2>1, ProvisionedKeeps
  <2>3. active' \in [CR -> Active] /\ cr[c].phase # "live"
    BY <1>1, <2>1, ProvisionedKeeps, FinalizingIsDead
  <2> QED BY <1>1, <1>3, <2>1, <2>2, <2>3, WriteKeeps
<1>5. CASE ~ draft[c].exists
  <2>1. Continue(c, w) /\ UNCHANGED <<kube, pce, env, changes>>
    BY <1>1, <1>5 DEF FinalizeProvision, pce
  <2> QED BY <1>1, <1>2, <2>1, AtKeeps
<1> QED BY <1>4, <1>5

-----------------------------------------------------------------------------
(* Writes of the object *)

(* A write of the object by its reconcile: the generation stays, and a CR that *)
(* is not deleted is not revived.                                              *)
LEMMA ObjectKeeps ==
  ASSUME LInv, NEW c \in CR, NEW o \in Object, NEW w, Store(c, o), Moved(c, w), Goes(c, w),
         w.pc \notin Writing, o.gen = cr[c].gen,
         \/ o.phase = cr[c].phase
         \/ o.phase = "gone" /\ cr[c].phase \in {"deleting", "gone"},
         UNCHANGED <<pce, env, changes>>
  PROVE  Orderly
<1>1. TypeOK /\ Lags(c, cr[c], cache[c], wk[c], draft[c]) /\ cr[c] \in Object
  BY Known
<1>2. /\ cr' \in [CR -> Object] /\ cr'[c] = o /\ cache' = cache /\ fresh' \in [CR -> BOOLEAN]
      /\ \A d \in CR \ {c} : cr'[d] = cr[d]
  BY <1>1 DEF Store, TypeOK
<1>3. TypeOK'
  BY <1>1, <1>2 DEF TypeOK, Moved, WorkOK, pce, env
<1>4. Goes(c, wk'[c]) /\ wk'[c].pc \notin Writing
  BY IdleGoes DEF Moved
<1>5. Lags(c, cr'[c], cache'[c], wk'[c], draft'[c])
  BY <1>1, <1>2, <1>4 DEF Lags, Goes, pce
<1>6. \A d \in CR \ {c} : Lags(d, cr'[d], cache'[d], wk'[d], draft'[d])
  BY <1>2, Known DEF Moved, pce
<1>7. \A d \in CR : Defers(d)
  BY <1>4 DEF Moved, Defers, pce
<1> QED BY <1>3, <1>5, <1>6, <1>7 DEF Orderly, LInv

(* The finalizer is added. *)
LEMMA AddFinalizerKeeps ==
  ASSUME LInv, NEW c \in CR, AddFinalizer(c)
  PROVE  Orderly
<1>1. /\ wk[c].pc = "addfin" /\ UNCHANGED <<pce, env, changes>>
      /\ wk[c] \in Worker /\ TypeOK /\ cr[c] \in Object
  BY Known DEF AddFinalizer
<1>2. CASE Store(c, [cr[c] EXCEPT !.fin = TRUE]) /\ Answered(c, Compiled(c, wk[c]))
  <2> DEFINE o == [cr[c] EXCEPT !.fin = TRUE]
             w == Compiled(c, wk[c])
  <2>1. wk[c].gen > 0 /\ wk[c].gen <= cache[c].gen
    BY <1>1, Known DEF Lags
  <2>2. Goes(c, w) /\ w.pc \notin Writing
    BY <1>1, <2>1, CompiledGoes
  <2>3. o \in Object /\ o.gen = cr[c].gen /\ o.phase = cr[c].phase
    BY <1>1 DEF Object
  <2>4. Store(c, o) /\ Answered(c, w)
    BY <1>2
  <2> HIDE DEF o, w
  <2>5. Moved(c, w)
    BY <1>1, <2>2, <2>4, Outcome DEF Goes
  <2> QED BY <1>1, <2>2, <2>3, <2>4, <2>5, ObjectKeeps
<1>3. CASE Refused(c) /\ UNCHANGED kube
  BY <1>1, <1>3, RefusedKeeps
<1> QED BY <1>2, <1>3 DEF AddFinalizer

(* The status is written. *)
LEMMA UpdateStatusKeeps ==
  ASSUME LInv, NEW c \in CR, UpdateStatus(c)
  PROVE  Orderly
<1>1. /\ wk[c].pc = "status" /\ UNCHANGED <<pce, env, changes>>
      /\ wk[c] \in Worker /\ TypeOK /\ cr[c] \in Object
  BY Known DEF UpdateStatus
<1>2. CASE Store(c, Conditions(cr[c], wk[c]))
           /\ \/ wk' = [wk EXCEPT ![c] = Idle] /\ Requeue(c) /\ UNCHANGED <<queue, faults>>
              \/ Spend /\ Backoff(c)
  <2> DEFINE prov == IF wk[c].prov = "keep" THEN cr[c].prov ELSE wk[c].prov
             o == [cr[c] EXCEPT !.ready = wk[c].ready, !.obs = wk[c].gen, !.prov = prov]
  <2>1. prov \in {"none", "Provisioned", "Pending"}
    BY <1>1 DEF Worker, Object
  <2>2. o = Conditions(cr[c], wk[c])
    BY <1>1 DEF Conditions, Object
  <2> HIDE DEF prov
  <2>3. o \in Object /\ o.gen = cr[c].gen /\ o.phase = cr[c].phase
    BY <1>1, <2>1 DEF Object, Worker
  <2> HIDE DEF o
  <2>4. Moved(c, Idle)
    BY <1>1, <1>2, IdleType DEF TypeOK, Moved, WorkOK, Requeue, Spend, Backoff
  <2>5. Store(c, o)
    BY <1>2, <2>2
  <2> QED BY <1>1, <2>3, <2>4, <2>5, IdleGoes, ObjectKeeps
<1>3. CASE Refused(c) /\ UNCHANGED kube
  BY <1>1, <1>3, RefusedKeeps
<1> QED BY <1>2, <1>3 DEF UpdateStatus

(* The finalizer is released. *)
LEMMA RemoveFinalizerKeeps ==
  ASSUME LInv, NEW c \in CR, RemoveFinalizer(c)
  PROVE  Orderly
<1>1. /\ wk[c].pc = "release" /\ UNCHANGED <<pce, env, changes>>
      /\ wk[c] \in Worker /\ TypeOK /\ cr[c] \in Object
  BY Known DEF RemoveFinalizer
<1>2. CASE Store(c, [cr[c] EXCEPT !.phase = "gone", !.fin = FALSE]) /\ Answered(c, Idle)
  <2> DEFINE o == [cr[c] EXCEPT !.phase = "gone", !.fin = FALSE]
  <2>1. cr[c].phase \in {"deleting", "gone"}
    BY <1>1, FinalizingIsDead DEF FinalizeSteps
  <2>2. o \in Object /\ o.gen = cr[c].gen /\ o.phase = "gone" /\ Store(c, o)
    BY <1>1, <1>2 DEF Object, Phases
  <2> HIDE DEF o
  <2>3. Moved(c, Idle)
    BY <1>1, <1>2, IdleType, Outcome
  <2> QED BY <1>1, <2>1, <2>2, <2>3, IdleGoes, ObjectKeeps
<1>3. CASE Refused(c) /\ UNCHANGED kube
  BY <1>1, <1>3, RefusedKeeps
<1> QED BY <1>2, <1>3 DEF RemoveFinalizer

-----------------------------------------------------------------------------
(* Informer, work queue, failures, users, environment *)

(* A failed call ends the reconcile. *)
LEMMA CallFailsKeeps ==
  ASSUME LInv, NEW c \in CR, CallFails(c)
  PROVE  Orderly
<1>1. Continue(c, Idle) \/ Answered(c, Idle)
  BY DEF CallFails, Answered
<1>2. UNCHANGED <<kube, pce, env, changes>>
  BY DEF CallFails
<1> QED BY <1>1, <1>2, IdleGoes, PureKeeps

(* So does a refused one, with a verdict. *)
LEMMA RateLimitedKeeps ==
  ASSUME LInv, NEW c \in CR, RateLimited(c)
  PROVE  Orderly
<1>1. /\ wk[c] \in Worker /\ wk[c].pc # "idle" /\ TypeOK
      /\ UNCHANGED <<kube, queue, timer, pce, env, changes>>
  BY Known DEF RateLimited, PolicyCalls
<1>2. PICK positive \in {TRUE, ~ RetryAfterZero} :
        wk' = [wk EXCEPT ![c] = Verdict(wk[c], "RateLimited", "keep", positive)]
  BY DEF RateLimited
<1> DEFINE w == Verdict(wk[c], "RateLimited", "keep", positive)
<1>3. positive \in BOOLEAN
  BY FlagAssumption
<1>4. Goes(c, w) /\ w.pc \notin Writing
  BY <1>1, <1>3, VerdictGoes DEF Verdicts
<1> HIDE DEF w
<1>5. wk' = [wk EXCEPT ![c] = w]
  BY <1>2 DEF w
<1>6. Moved(c, w)
  BY <1>1, <1>4, <1>5 DEF RateLimited, Spend, Moved, WorkOK, TypeOK, Goes
<1>7. /\ labels' \subseteq Label /\ UNCHANGED <<kube, draft, active, env, changes>>
      /\ draft \in [CR -> Draft] /\ active \in [CR -> Active]
      /\ (draft[c].marked => draft[c].exists)
  BY <1>1, Known DEF TypeOK, pce, Lags
<1> QED BY <1>1, <1>4, <1>6, <1>7, StepKeeps DEF Safe

(* The worker takes a key from the queue. *)
LEMMA StartKeeps ==
  ASSUME LInv, NEW c \in CR, Start(c)
  PROVE  Orderly
<1>1. Goes(c, Begin(c)) /\ Begin(c).pc \notin Writing /\ TypeOK
  BY BeginGoes, Known
<1>2. Moved(c, Begin(c))
  BY <1>1 DEF Start, Moved, WorkOK, TypeOK, Goes
<1>3. /\ labels' \subseteq Label /\ UNCHANGED <<kube, draft, active, env, changes>>
      /\ draft \in [CR -> Draft] /\ active \in [CR -> Active]
      /\ (draft[c].marked => draft[c].exists)
  BY <1>1, Known DEF Start, TypeOK, pce, Lags
<1> QED BY <1>1, <1>2, <1>3, StepKeeps DEF Safe

(* A step that leaves the stores of the PCE and every reconcile alone. *)
LEMMA QuietKeeps ==
  ASSUME LInv, TypeOK', UNCHANGED draft,
         \A c \in CR : wk'[c].pc = wk[c].pc /\ wk'[c].gen = wk[c].gen,
         \A c \in CR : Lags(c, cr'[c], cache'[c], wk[c], draft[c])
  PROVE  Orderly
<1>1. \A c \in CR : Lags(c, cr'[c], cache'[c], wk'[c], draft'[c])
  BY DEF Lags
<1>2. \A c \in CR : Defers(c)
  BY DEF Defers
<1> QED BY <1>1, <1>2 DEF Orderly, LInv

(* The cache catches up with the object. *)
LEMMA CacheSyncKeeps ==
  ASSUME LInv, NEW c \in CR, CacheSync(c)
  PROVE  Orderly
<1>1. /\ TypeOK /\ cr[c] \in Object /\ cache[c] \in Cached /\ wk[c] \in Worker
      /\ Lags(c, cr[c], cache[c], wk[c], draft[c])
  BY Known
<1> DEFINE k == View(cr[c])
<1>2. k \in Cached /\ k.phase = cr[c].phase /\ k.gen = cr[c].gen
  BY <1>1, ViewType DEF View
<1>3. cache' = [cache EXCEPT ![c] = k]
  BY DEF CacheSync
<1> HIDE DEF k
<1>4. TypeOK'
  BY <1>1, <1>2, <1>3 DEF TypeOK, CacheSync, pce, env
<1>5. wk[c].gen \in Nat /\ cr[c].gen \in Nat /\ cache[c].gen \in Nat
  BY <1>1 DEF Worker, Object, Cached
<1>6. Lags(c, cr[c], k, wk[c], draft[c])
  BY <1>1, <1>2, <1>5 DEF Lags
<1>7. \A d \in CR : Lags(d, cr[d], cache'[d], wk[d], draft[d])
  BY <1>1, <1>3, <1>6, Known DEF TypeOK
<1> QED BY <1>4, <1>7, QuietKeeps DEF CacheSync, pce

(* A timer puts its key back into the queue. *)
LEMMA TimerFireKeeps ==
  ASSUME LInv, NEW c \in CR, TimerFire(c)
  PROVE  Orderly
<1>1. TypeOK'
  BY Known DEF TypeOK, TimerFire, kube, pce, env
<1>2. \A d \in CR : Lags(d, cr[d], cache[d], wk[d], draft[d])
  BY Known
<1> QED BY <1>1, <1>2, QuietKeeps DEF TimerFire, kube, pce

(* A restart forgets every reconcile and lists the objects anew. *)
LEMMA RestartKeeps ==
  ASSUME LInv, Restart
  PROVE  Orderly
<1>1. TypeOK /\ \A c \in CR : View(cr[c]) \in Cached
  BY ViewType DEF LInv, TypeOK
<1>2. TypeOK'
  BY <1>1, IdleType DEF TypeOK, Restart, Spend, pce, env
<1>3. ASSUME NEW c \in CR
      PROVE  Lags(c, cr'[c], cache'[c], wk'[c], draft'[c]) /\ Defers(c)
  <2>1. /\ cr'[c] = cr[c] /\ cache'[c] = View(cr[c]) /\ wk'[c] = Idle /\ draft'[c] = draft[c]
        /\ cr[c] \in Object
    BY <1>1 DEF Restart, pce, TypeOK
  <2>2. View(cr[c]).phase = cr[c].phase /\ View(cr[c]).gen = cr[c].gen /\ cr[c].gen \in Nat
    BY <2>1 DEF View, Object
  <2>3. Idle.pc = "idle" /\ Idle.pc \notin Writing
    BY IdleGoes
  <2>4. Lags(c, cr[c], cache[c], wk[c], draft[c])
    BY Known
  <2>5. Lags(c, cr[c], View(cr[c]), Idle, draft[c])
    BY <2>2, <2>3, <2>4 DEF Lags, FinalizeSteps
  <2> QED BY <2>1, <2>3, <2>5 DEF Defers
<1> QED BY <1>2, <1>3 DEF Orderly, LInv

(* Somebody else writes the object. *)
LEMMA TouchKeeps ==
  ASSUME LInv, NEW c \in CR, NEW o \in Object, Touch(c, o), changes' \in Nat,
         Lags(c, o, cache[c], wk[c], draft[c])
  PROVE  Orderly
<1>1. TypeOK
  BY DEF LInv
<1>2. wk' \in [CR -> Worker] /\ \A d \in CR : wk'[d].pc = wk[d].pc /\ wk'[d].gen = wk[d].gen
  <2>1. \A d \in CR : wk[d] \in Worker
    BY <1>1 DEF TypeOK
  <2>2. [wk[c] EXCEPT !.own = FALSE] \in Worker
    BY <2>1 DEF Worker
  <2>3. wk' = [wk EXCEPT ![c] = [wk[c] EXCEPT !.own = FALSE]]
    BY <1>1 DEF Touch, TypeOK
  <2>4. wk' \in [CR -> Worker]
    BY <1>1, <2>2, <2>3 DEF TypeOK
  <2>5. \A d \in CR : wk'[d].pc = wk[d].pc /\ wk'[d].gen = wk[d].gen
    BY <1>1, <2>1, <2>3 DEF TypeOK, Worker
  <2> QED BY <2>4, <2>5
<1>3. TypeOK' /\ \A d \in CR : Lags(d, cr'[d], cache'[d], wk[d], draft[d])
  BY <1>1, <1>2, Known DEF TypeOK, Touch, pce, env
<1> QED BY <1>2, <1>3, QuietKeeps DEF Touch, pce

(* Users. *)
LEMMA UserKeeps ==
  ASSUME LInv, NEW c \in CR, User(c)
  PROVE  Orderly
<1>1. /\ TypeOK /\ cr[c] \in Object /\ cache[c] \in Cached /\ wk[c] \in Worker
      /\ Lags(c, cr[c], cache[c], wk[c], draft[c])
      /\ cr[c].gen \in Nat /\ cache[c].gen \in Nat /\ wk[c].gen \in Nat
      /\ Len(SpecOf[c]) \in Nat /\ Len(SpecOf[c]) > 0 /\ changes \in Nat
  BY Known, SpecAssumption, LenProperties DEF Object, Cached, Worker, TypeOK
<1>2. CASE Create(c)
  <2> DEFINE o == [cr[c] EXCEPT !.phase = "live", !.gen = 1]
  <2>1. Touch(c, o) /\ cr[c].phase = "absent" /\ changes' \in Nat
    BY <1>1, <1>2 DEF Create
  <2>2. o \in Object /\ o.phase = "live" /\ o.gen = 1
    BY <1>1 DEF Object, Phases
  <2> HIDE DEF o
  <2>3. Lags(c, o, cache[c], wk[c], draft[c])
    BY <1>1, <2>1, <2>2 DEF Lags
  <2> QED BY <2>1, <2>2, <2>3, TouchKeeps
<1>3. CASE Edit(c)
  <2> DEFINE o == [cr[c] EXCEPT !.gen = @ + 1]
  <2>1. Touch(c, o) /\ cr[c].phase \in {"live", "deleting"} /\ cr[c].gen < Len(SpecOf[c])
        /\ changes' \in Nat
    BY <1>1, <1>3 DEF Edit
  <2>2. o \in Object /\ o.phase = cr[c].phase /\ o.gen = cr[c].gen + 1
    BY <1>1 DEF Object
  <2> HIDE DEF o
  <2>3. Lags(c, o, cache[c], wk[c], draft[c])
    BY <1>1, <2>1, <2>2 DEF Lags
  <2> QED BY <2>1, <2>2, <2>3, TouchKeeps
<1>4. CASE Approve(c)
  <2> DEFINE o == [cr[c] EXCEPT !.approved = ~ @]
  <2>1. Touch(c, o) /\ changes' \in Nat
    BY <1>1, <1>4 DEF Approve, Change
  <2>2. o \in Object /\ o.phase = cr[c].phase /\ o.gen = cr[c].gen
    BY <1>1 DEF Object
  <2> HIDE DEF o
  <2>3. Lags(c, o, cache[c], wk[c], draft[c])
    BY <1>1, <2>2 DEF Lags
  <2> QED BY <2>1, <2>2, <2>3, TouchKeeps
<1>5. CASE Delete(c)
  <2> DEFINE ph == IF cr[c].fin THEN "deleting" ELSE "gone"
             o == [cr[c] EXCEPT !.phase = ph]
  <2>1. Touch(c, o) /\ cr[c].phase = "live" /\ changes' \in Nat
    BY <1>1, <1>5 DEF Delete
  <2>2. ph \in {"deleting", "gone"}
    OBVIOUS
  <2> HIDE DEF ph
  <2>3. o \in Object /\ o.phase = ph /\ o.gen = cr[c].gen
    BY <1>1, <2>2 DEF Object, Phases
  <2> HIDE DEF o
  <2>4. Lags(c, o, cache[c], wk[c], draft[c])
    BY <1>1, <2>1, <2>2, <2>3 DEF Lags
  <2> QED BY <2>1, <2>3, <2>4, TouchKeeps
<1> QED BY <1>2, <1>3, <1>4, <1>5 DEF User

(* Labels, readiness and scope touch neither objects nor rulesets. *)
LEMMA EnvironmentKeeps ==
  ASSUME LInv, Environment
  PROVE  Orderly
<1>1. UNCHANGED <<kube, work, draft, active>>
  BY DEF Environment, AddLabel, ChangeReadiness, Relabel, pce
<1>2. TypeOK'
  <2>1. labels' \subseteq Label /\ scope' \subseteq Label /\ usable' \in BOOLEAN
        /\ faults' \in Nat /\ changes' \in Nat
    BY FlagAssumption, ScopesAssumption
       DEF LInv, TypeOK, Environment, AddLabel, ChangeReadiness, Relabel, Change, pce, env
  <2> QED BY <1>1, <2>1 DEF LInv, TypeOK, kube, work
<1>3. \A d \in CR : Lags(d, cr[d], cache[d], wk[d], draft[d])
  BY Known
<1> QED BY <1>1, <1>2, <1>3, QuietKeeps DEF kube, work

-----------------------------------------------------------------------------
(* People at the console, and bodies that are lost *)

(* The console leaves every ruleset well formed.                               *)
LEMMA ConsoleKeeps ==
  ASSUME LInv, Console
  PROVE  LInv'
<1>1. PICK c \in CR : ConsoleDelete(c) \/ ConsoleRevert(c) \/ ConsoleProvision(c)
  BY DEF Console
<1>2. /\ TypeOK /\ draft[c] \in Draft /\ cr[c].gen \in Nat
      /\ (draft[c].marked => draft[c].exists)
  BY Known DEF Lags, Object
<1>3. /\ active' \in [CR -> Active] /\ changes' \in Nat
      /\ UNCHANGED <<kube, work, labels, env, faults>>
      /\ \E r \in Draft : draft' = [draft EXCEPT ![c] = r] /\ (r.marked => r.exists)
  <2>1. CASE ConsoleDelete(c)
    <3>1. \E r \in Draft : draft' = [draft EXCEPT ![c] = r] /\ (r.marked => r.exists)
      BY <1>2, <2>1, DeletedKeeps DEF ConsoleDelete, Writable
    <3>4. active' \in [CR -> Active] /\ changes' \in Nat
      BY <1>2, <2>1 DEF ConsoleDelete, Change, TypeOK
    <3>5. UNCHANGED <<kube, work, labels, env, faults>>
      BY <2>1 DEF ConsoleDelete
    <3> QED BY <3>1, <3>4, <3>5
  <2>2. CASE ConsoleRevert(c)
    <3> DEFINE r == [draft[c] EXCEPT !.marked = FALSE]
    <3>1. r \in Draft /\ ~ r.marked
      BY <1>2 DEF Draft
    <3>2. draft' = [draft EXCEPT ![c] = r]
      BY <1>2, <2>2 DEF ConsoleRevert, TypeOK
    <3> HIDE DEF r
    <3>3. \E x \in Draft : draft' = [draft EXCEPT ![c] = x] /\ (x.marked => x.exists)
      BY <3>1, <3>2
    <3>4. active' \in [CR -> Active] /\ changes' \in Nat
      BY <1>2, <2>2 DEF ConsoleRevert, Change, TypeOK
    <3>5. UNCHANGED <<kube, work, labels, env, faults>>
      BY <2>2 DEF ConsoleRevert
    <3> QED BY <3>3, <3>4, <3>5
  <2>3. CASE ConsoleProvision(c)
    <3>1. Provisioned(c, cr[c].gen)
      BY <2>3 DEF ConsoleProvision
    <3>2. active' \in [CR -> Active]
      BY <1>2, <3>1, ProvisionedKeeps
    <3>3. \E r \in Draft : draft' = [draft EXCEPT ![c] = r] /\ (r.marked => r.exists)
      BY <1>2, <3>1, ProvisionedKeeps
    <3>4. changes' \in Nat /\ UNCHANGED <<kube, work, labels, env, faults>>
      BY <1>2, <2>3 DEF ConsoleProvision, Change, TypeOK
    <3> QED BY <3>2, <3>3, <3>4
  <2> QED BY <1>1, <2>1, <2>2, <2>3
<1>4. PICK r \in Draft : draft' = [draft EXCEPT ![c] = r] /\ (r.marked => r.exists)
  BY <1>3
<1>5. /\ draft' \in [CR -> Draft] /\ (draft'[c].marked => draft'[c].exists)
      /\ \A d \in CR \ {c} : draft'[d] = draft[d]
  BY <1>2, <1>4 DEF TypeOK
<1>6. TypeOK'
  BY <1>2, <1>3, <1>5 DEF TypeOK, kube, work, env
<1>7. ASSUME NEW d \in CR PROVE Lags(d, cr'[d], cache'[d], wk'[d], draft'[d])
  BY <1>3, <1>5, Known DEF Lags, kube, work
<1> QED BY <1>6, <1>7 DEF LInv

(* A step that loses the body of an answer, wherever its reconcile goes on.    *)
LEMMA LostKeeps ==
  ASSUME LInv, NEW c \in CR, NEW w, Goes(c, w),
         w.pc \notin Writing \/ wk[c].pc \in Writing,
         Spend, wk' = [wk EXCEPT ![c] = w],
         UNCHANGED <<kube, queue, timer, pce, env, changes>>
  PROVE  Orderly
<1>1. /\ TypeOK /\ labels' \subseteq Label /\ UNCHANGED <<kube, draft, active, env, changes>>
      /\ draft \in [CR -> Draft] /\ active \in [CR -> Active]
      /\ (draft[c].marked => draft[c].exists)
  BY Known DEF TypeOK, pce, Lags
<1>2. Moved(c, w)
  BY <1>1 DEF Spend, Moved, WorkOK, TypeOK, Goes
<1> QED BY <1>1, <1>2, StepKeeps DEF Safe

(* A rejection, after a lost list of labels. *)
LEMMA RejectedGoes ==
  ASSUME LInv, NEW c \in CR, wk[c].pc # "idle"
  PROVE  /\ Goes(c, Verdict(wk[c], "Rejected", "keep", TRUE))
         /\ Verdict(wk[c], "Rejected", "keep", TRUE).pc \notin Writing
<1>1. wk[c] \in Worker
  BY Known
<1> QED BY <1>1, VerdictGoes DEF Verdicts

(* A lost list of labels. *)
LEMMA LosesLabelKeeps ==
  ASSUME LInv, NEW c \in CR, LosesLabel(c), Spend,
         UNCHANGED <<kube, queue, timer, pce, env, changes>>
  PROVE  Orderly
<1>1. wk[c] \in Worker
  BY Known
<1> DEFINE v == Verdict(wk[c], "Rejected", "keep", TRUE)
<1>2. CASE (wk[c].pc = "scope" \/ wk[c].pc = "narrow") /\ wk' = [wk EXCEPT ![c] = v]
  <2>1. Goes(c, v) /\ v.pc \notin Writing /\ wk' = [wk EXCEPT ![c] = v]
    BY <1>2, RejectedGoes
  <2> HIDE DEF v
  <2> QED BY <2>1, LostKeeps
<1>3. CASE wk[c].pc = "lookup" /\ \E l \in wk[c].todo : wk' = [wk EXCEPT ![c] = Unseen(wk[c], l)]
  <2>1. PICK l \in wk[c].todo : wk' = [wk EXCEPT ![c] = Unseen(wk[c], l)]
    BY <1>3
  <2>2. wk[c].hit \in SUBSET (Allow \X Label) /\ wk[c].hit \cup {l} \in SUBSET (Allow \X Label)
    BY <1>1 DEF Worker
  <2> DEFINE x == Looked(wk[c], l, wk[c].hit)
             y == Looked(wk[c], l, wk[c].hit \cup {l})
             u == Unseen(wk[c], l)
  <2>3. Goes(c, x) /\ x.pc \notin Writing
    BY <1>3, <2>2, LookedGoes
  <2>4. Goes(c, y) /\ y.pc \notin Writing
    BY <1>3, <2>2, LookedGoes
  <2>5. Goes(c, v) /\ v.pc \notin Writing
    BY <1>3, RejectedGoes
  <2>6. u \in {x, y, v}
    BY DEF Unseen
  <2>7. wk' = [wk EXCEPT ![c] = u]
    BY <2>1
  <2> HIDE DEF x, y, v, u
  <2>8. Goes(c, u) /\ u.pc \notin Writing
    BY <2>3, <2>4, <2>5, <2>6
  <2> QED BY <2>7, <2>8, LostKeeps
<1> QED BY <1>2, <1>3 DEF LosesLabel

(* A lost list of rulesets or of rules: what follows the first is a creation,  *)
(* which the PCE refuses while the ruleset exists.                             *)
LEMMA LosesListKeeps ==
  ASSUME LInv, NEW c \in CR, LosesList(c), Spend,
         UNCHANGED <<kube, queue, timer, pce, env, changes>>
  PROVE  Orderly
<1>1. wk[c] \in Worker
  BY Known
<1>2. CASE wk[c].pc = "find" /\ wk' = [wk EXCEPT ![c].pc = "create"]
  <2> DEFINE w == [wk[c] EXCEPT !.pc = "create"]
  <2>1. "create" \in Steps /\ "create" \notin FinalizeSteps /\ "create" \notin Writing
    BY DEF Steps, PolicyCalls, FinalizeSteps, Writing
  <2>2. Goes(c, w) /\ w.pc = "create"
    BY <1>2, <2>1, GoesAt
  <2>3. wk' = [wk EXCEPT ![c] = w]
    BY <1>2
  <2> HIDE DEF w
  <2> QED BY <2>1, <2>2, <2>3, LostKeeps
<1>3. CASE wk[c].pc = "list" /\ wk' = [wk EXCEPT ![c] = AfterDeletes([wk[c] EXCEPT !.del = {}])]
  <2> DEFINE v == [wk[c] EXCEPT !.del = {}]
             w == AfterDeletes(v)
  <2>1. v \in Worker /\ v.gen = wk[c].gen
    BY <1>1 DEF Worker
  <2>2. wk' = [wk EXCEPT ![c] = w]
    BY <1>3
  <2> HIDE DEF v
  <2>3. Goes(c, w)
    BY <1>3, <2>1, AfterGoes
  <2> HIDE DEF w
  <2> QED BY <1>3, <2>2, <2>3, LostKeeps DEF Writing
<1>4. CASE wk[c].pc = "finfind" /\ wk' = [wk EXCEPT ![c].pc = "release"]
  <2> DEFINE w == [wk[c] EXCEPT !.pc = "release"]
  <2>1. "release" \in Steps /\ "release" \notin Writing /\ wk[c].pc \in FinalizeSteps
    BY <1>4 DEF Steps, Writing, FinalizeSteps
  <2>2. Goes(c, w) /\ w.pc = "release"
    BY <1>4, <2>1, GoesAt
  <2>3. wk' = [wk EXCEPT ![c] = w]
    BY <1>4
  <2> HIDE DEF w
  <2> QED BY <2>1, <2>2, <2>3, LostKeeps
<1> QED BY <1>2, <1>3, <1>4 DEF LosesList

-----------------------------------------------------------------------------
(* The theorems *)

(* The invariant holds at first. *)
LEMMA InitLossy == Init => LInv
<1> SUFFICES ASSUME Init, NEW c \in CR PROVE Lags(c, cr[c], cache[c], wk[c], draft[c])
  BY InitInvariant DEF IInv, LInv
<1>1. /\ cr[c].phase = "absent" /\ cr[c].gen = 0 /\ cache[c] = View(cr[c]) /\ wk[c] = Idle
      /\ draft[c] = NoRuleSet
  BY DEF Init
<1>2. /\ cache[c].phase = "absent" /\ cache[c].gen = 0 /\ wk[c].pc = "idle"
      /\ ~ draft[c].marked
  BY <1>1 DEF View, Idle, NoRuleSet
<1>3. Len(SpecOf[c]) \in Nat
  BY SpecAssumption, LenProperties
<1> QED BY <1>1, <1>2, <1>3 DEF Lags, FinalizeSteps

(* Every step but those of the console keeps the invariant and defers to the   *)
(* deletions that are pending: one named step per actor.                       *)
LEMMA NextKeeps ==
  ASSUME LInv, Next \/ \E c \in CR : LostBody(c)
  PROVE  Orderly
<1>1. ASSUME NEW c \in CR, Reconcile(c) PROVE Orderly
  <2>1. CASE AddFinalizer(c) \/ UpdateStatus(c) \/ RemoveFinalizer(c)
    BY <2>1, AddFinalizerKeeps, UpdateStatusKeeps, RemoveFinalizerKeeps
  <2>2. CASE \/ ResolveProfile(c) \/ ResolveProvider(c) \/ ResolveAllow(c) \/ MintLabel(c)
             \/ ResolveNarrow(c)
    BY <2>2, ProfileKeeps, ProviderKeeps, AllowKeeps, MintKeeps, NarrowKeeps
  <2>3. CASE FindRuleSet(c) \/ CreateRuleSet(c) \/ ListRules(c) \/ DeleteRule(c)
    BY <2>3, FindKeeps, CreateKeeps, ListKeeps, DeleteRuleKeeps
  <2>4. CASE FindService(c) \/ CreateRule(c) \/ Provision(c)
    BY <2>4, ServiceKeeps, CreateRuleKeeps, ProvisionKeeps
  <2>5. CASE FinalizeResolve(c) \/ FinalizeFind(c) \/ FinalizeDelete(c) \/ FinalizeProvision(c)
    BY <2>5, FinalizeResolveKeeps, FinalizeFindKeeps, FinalizeDeleteKeeps,
       FinalizeProvisionKeeps
  <2> QED BY <1>1, <2>1, <2>2, <2>3, <2>4, <2>5 DEF Reconcile
<1>2. ASSUME NEW c \in CR, CacheSync(c) \/ TimerFire(c) \/ Start(c) \/ CallFails(c) \/ RateLimited(c)
      PROVE  Orderly
  BY <1>2, CacheSyncKeeps, TimerFireKeeps, StartKeeps, CallFailsKeeps, RateLimitedKeeps
<1>3. ASSUME NEW c \in CR, LostBody(c) PROVE Orderly
  BY <1>3, LosesLabelKeeps, LosesListKeeps DEF LostBody
<1> QED BY <1>1, <1>2, <1>3, UserKeeps, RestartKeeps, EnvironmentKeeps DEF Next

(* So the invariant is inductive, console or not. *)
LEMMA LossyInvariant == LInv /\ [LossyNext]_vars => LInv'
<1> SUFFICES ASSUME LInv, [LossyNext]_vars PROVE LInv'
  OBVIOUS
<1>1. CASE UNCHANGED vars
  <2>1. UNCHANGED <<cr, cache, fresh, queue, timer, wk, draft, active, labels, scope, usable,
                    faults, changes>>
    BY <1>1 DEF vars, kube, work, pce, env
  <2> QED BY <2>1 DEF LInv, TypeOK
<1>2. CASE Console
  BY <1>2, ConsoleKeeps
<1>3. CASE Next \/ \E c \in CR : LostBody(c)
  BY <1>3, NextKeeps DEF Orderly
<1> QED BY <1>1, <1>2, <1>3 DEF LossyNext

(* Neither console users nor lost bodies bring a variable out of its type.     *)
THEOREM LossyTypeCorrect == LossySpec => []TypeOK
<1>1. LInv => TypeOK
  BY DEF LInv
<1> QED BY <1>1, InitLossy, LossyInvariant, PTL DEF LossySpec

(* A pending deletion that stands when a reconcile looks for its ruleset is    *)
(* never written over, whatever fails, restarts, is lost or is done at the     *)
(* console.                                                                    *)
THEOREM Deferred == LossySpec => PendingDeletionDeferred
<1>1. LInv /\ [LossyNext]_vars =>
        [\A c \in CR : cr[c].phase = "live" /\ draft[c].marked /\ wk[c].pc \notin Writing
           => Console \/ (draft'[c] = draft[c] /\ wk'[c].pc \notin Writing)]_vars
  <2> SUFFICES ASSUME LInv, LossyNext, ~ Console, NEW c \in CR,
                      cr[c].phase = "live", draft[c].marked, wk[c].pc \notin Writing
               PROVE  draft'[c] = draft[c] /\ wk'[c].pc \notin Writing
    OBVIOUS
  <2> QED BY NextKeeps DEF LossyNext, Orderly, Defers
<1> QED BY <1>1, InitLossy, LossyInvariant, PTL DEF LossySpec, PendingDeletionDeferred

-----------------------------------------------------------------------------
(* Wake-ups *)

(* A reconcile that lost the body of an answer goes on with its snapshot, or   *)
(* with a verdict that is looked at again.                                     *)
LEMMA LostOnward ==
  ASSUME TypeOK, NEW c \in CR, LosesLabel(c) \/ LosesList(c)
  PROVE  /\ Onward(wk[c], wk'[c])
         /\ wk[c].pc # "idle"
         /\ \A d \in CR \ {c} : wk'[d] = wk[d]
<1>1. wk \in [CR -> Worker] /\ wk[c] \in Worker
  BY DEF TypeOK
<1>2. ASSUME NEW w, wk' = [wk EXCEPT ![c] = w]
      PROVE  wk'[c] = w /\ \A d \in CR \ {c} : wk'[d] = wk[d]
  BY <1>1, <1>2
<1> DEFINE v == Verdict(wk[c], "Rejected", "keep", TRUE)
<1>3. wk[c].pc \notin FinalizeSteps => Onward(wk[c], v)
  BY <1>1, VerdictOnward
<1>4. ASSUME NEW p \in {"create", "release"}, wk' = [wk EXCEPT ![c].pc = p],
             p = "release" <=> wk[c].pc \in FinalizeSteps
      PROVE  Onward(wk[c], wk'[c]) /\ \A d \in CR \ {c} : wk'[d] = wk[d]
  <2> DEFINE w == [wk[c] EXCEPT !.pc = p]
  <2>1. w.pc = p /\ w.gen = wk[c].gen /\ w.own = wk[c].own /\ w.approved = wk[c].approved
    BY <1>1 DEF Worker
  <2>2. wk' = [wk EXCEPT ![c] = w]
    BY <1>4
  <2> HIDE DEF w
  <2>3. Onward(wk[c], w)
    BY <1>4, <2>1, StepOnward DEF FinalizeSteps
  <2> QED BY <1>2, <2>2, <2>3
<1>5. CASE (wk[c].pc = "scope" \/ wk[c].pc = "narrow") /\ wk' = [wk EXCEPT ![c] = v]
  <2>1. wk[c].pc \notin FinalizeSteps /\ wk[c].pc # "idle" /\ wk' = [wk EXCEPT ![c] = v]
    BY <1>5 DEF FinalizeSteps
  <2> HIDE DEF v
  <2> QED BY <1>2, <1>3, <2>1
<1>6. CASE wk[c].pc = "lookup" /\ \E l \in wk[c].todo : wk' = [wk EXCEPT ![c] = Unseen(wk[c], l)]
  <2>1. PICK l \in wk[c].todo : wk' = [wk EXCEPT ![c] = Unseen(wk[c], l)]
    BY <1>6
  <2>2. wk[c].pc = "lookup" /\ wk[c].pc \notin FinalizeSteps
    BY <1>6 DEF FinalizeSteps
  <2>3. ASSUME NEW hit PROVE Onward(wk[c], Looked(wk[c], l, hit))
    BY <1>1, <2>2, LookedOnward
  <2> DEFINE u == Unseen(wk[c], l)
  <2>4. (\E hit : u = Looked(wk[c], l, hit)) \/ u = v
    BY DEF Unseen
  <2>5. wk' = [wk EXCEPT ![c] = u]
    BY <2>1
  <2> HIDE DEF u, v
  <2> QED BY <1>2, <1>3, <2>2, <2>3, <2>4, <2>5
<1>7. CASE wk[c].pc = "find" /\ wk' = [wk EXCEPT ![c].pc = "create"]
  BY <1>4, <1>7 DEF FinalizeSteps
<1>8. CASE wk[c].pc = "finfind" /\ wk' = [wk EXCEPT ![c].pc = "release"]
  BY <1>4, <1>8 DEF FinalizeSteps
<1>9. CASE wk[c].pc = "list" /\ wk' = [wk EXCEPT ![c] = AfterDeletes([wk[c] EXCEPT !.del = {}])]
  <2> DEFINE w == [wk[c] EXCEPT !.del = {}]
             x == AfterDeletes(w)
  <2>1. w \in Worker /\ w.pc = "list" /\ w.gen = wk[c].gen /\ w.own = wk[c].own
        /\ w.approved = wk[c].approved
    BY <1>1, <1>9 DEF Worker
  <2>2. wk' = [wk EXCEPT ![c] = x] /\ wk[c].pc = "list"
    BY <1>9
  <2> HIDE DEF w
  <2>3. Onward(wk[c], x)
    BY <1>1, <2>1, <2>2, AfterDeletesOnward DEF FinalizeSteps
  <2> HIDE DEF x
  <2> QED BY <1>2, <2>2, <2>3
<1> QED BY <1>5, <1>6, <1>7, <1>8, <1>9 DEF LosesLabel, LosesList

(* No step of people at the console, of the lossy connection or of the         *)
(* operator leaves work behind without something that brings it back.          *)
LEMMA LossyAwake ==
  ASSUME LInv, WInv, [LossyNext]_vars
  PROVE  WInv'
<1>1. TypeOK'
  BY LossyInvariant DEF LInv
<1>2. CASE Console
  <2>1. UNCHANGED <<kube, work>>
    BY <1>2 DEF Console, ConsoleDelete, ConsoleRevert, ConsoleProvision
  <2>2. UNCHANGED <<cr, cache, fresh, wk, queue, timer>>
    BY <2>1 DEF kube, work
  <2> QED BY <1>1, <2>2, StillSeen, StillAwake DEF WInv, KInv, Still
<1>3. ASSUME NEW c \in CR, LostBody(c) PROVE WInv'
  <2>1. Onward(wk[c], wk'[c]) /\ wk[c].pc # "idle" /\ \A d \in CR \ {c} : wk'[d] = wk[d]
    BY <1>3, LostOnward DEF LostBody, LInv
  <2>2. GoesOn(c) /\ UNCHANGED kube
    BY <1>3, <2>1 DEF LostBody, GoesOn
  <2> QED BY <1>1, <2>1, <2>2, OnwardSeen, OnwardAwake DEF WInv, KInv
<1>4. CASE [Next]_vars
  BY <1>1, <1>4, NextSeen, NextAwake DEF WInv, KInv
<1> QED BY <1>2, <1>3, <1>4 DEF LossyNext

(* No CR the operator owes work to is forgotten, whatever bodies are lost and  *)
(* whatever is done at the console: every look-up taken for empty leads to     *)
(* another call or to a verdict with a requeue.  The one exception is again a  *)
(* Retry-After of zero.                                                        *)
THEOREM NobodyForgotten == LossySpec => []NoLostWakeup
<1>1. LInv /\ WInv /\ [LossyNext]_vars => (LInv /\ WInv)'
  BY LossyInvariant, LossyAwake
<1>2. LInv /\ WInv => NoLostWakeup
  BY AwakeIsRemembered
<1>3. Init => LInv /\ WInv
  BY InitLossy, InitAwake
<1> QED BY <1>1, <1>2, <1>3, PTL DEF LossySpec
=============================================================================
